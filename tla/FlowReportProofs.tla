-------------------------- MODULE FlowReportProofs --------------------------
(***************************************************************************)
(* Theorems about FlowReport for any number of flows, threads, notifiers   *)
(* and signatures, any bounds and any cooldown.                            *)
(***************************************************************************)
EXTENDS FlowReport, SequenceTheorems, FiniteSetTheorems, WellFoundedInduction, TLAPS

\* A row appended to a table keeps the rows that were there.
LEMMA AppendRow ==
  ASSUME NEW S, NEW s \in Seq(S), NEW e \in S
  PROVE  /\ Append(s, e) \in Seq(S)
         /\ DOMAIN Append(s, e) = 1..(Len(s) + 1)
         /\ DOMAIN s = 1..Len(s)
         /\ Len(s) \in Nat
         /\ \A i \in DOMAIN s : Append(s, e)[i] = s[i]
         /\ Append(s, e)[Len(s) + 1] = e
  BY AppendProperties, LenProperties

\* A frame of the type without a call.
LEMMA NoCallType == NoCall \in Frame /\ NoCall.todo = {}
  BY ConfigAssumption DEF NoCall, Frame, Api, Severity

\* The initial state satisfies the invariant.
LEMMA InitDedupInv == Init => DedupInv
<1> SUFFICES ASSUME Init PROVE DedupInv
  OBVIOUS
<1> USE ConfigAssumption, ClockAssumption DEF Init
<1>1. TypeOK
  BY NoCallType DEF TypeOK, PC
<1>2. Located
  BY NoCallType DEF Located
<1>3. ReportsPast /\ Searched /\ OnePerThreadPerWindow
  BY DEF ReportsPast, Searched, OnePerThreadPerWindow
<1> QED
  BY <1>1, <1>2, <1>3 DEF DedupInv

\* A frame stays on the notifiers of its own instance.
LocatedFrame(t, p, g) ==
  /\ g \in Frame
  /\ g.todo \subseteq NotifierIds(FlowOf[t])
  /\ p \in {"degrade", "resolve", "send", "outcome", "recover"}
       => g.n \in NotifierIds(FlowOf[t])

\* Moving a thread to a well-typed frame keeps types and location.
LEMMA FrameStep ==
  ASSUME TypeOK, Located, NEW t \in Thread, NEW p \in PC, NEW g,
         LocatedFrame(t, p, g), Move(t, p, g)
  PROVE  pc' \in [Thread -> PC] /\ call' \in [Thread -> Frame] /\ Located'
<1> USE DEF LocatedFrame, Move, TypeOK
<1>1. pc' \in [Thread -> PC] /\ call' \in [Thread -> Frame]
  OBVIOUS
<1>2. \A u \in Thread : pc'[u] = IF u = t THEN p ELSE pc[u]
  OBVIOUS
<1>3. \A u \in Thread : call'[u] = IF u = t THEN g ELSE call[u]
  OBVIOUS
<1> QED
  BY <1>1, <1>2, <1>3 DEF Located

\* The variables of TypeOK that Move leaves alone.
TableTypes ==
  /\ clock \in Int /\ faults \in Nat
  /\ reports \in Seq(Report)
  /\ actions \in Seq(Action)
  /\ decisions \in Seq(Decision)
  /\ lastReason \in [Flow -> Reason \cup {"none"}]
  /\ DOMAIN resolution = Flow
  /\ \A f \in Flow : resolution[f] \in [NotifierIds(f) -> Nat]
  /\ calls \in [Thread -> Nat]

\* A step is typed if its tables are and it moves to a located frame.
LEMMA TypedMove ==
  ASSUME TypeOK, Located, NEW t \in Thread, NEW p \in PC, NEW g,
         LocatedFrame(t, p, g), Move(t, p, g), TableTypes'
  PROVE  TypeOK' /\ Located'
<1>1. pc' \in [Thread -> PC] /\ call' \in [Thread -> Frame] /\ Located'
  BY FrameStep
<1> QED
  BY <1>1 DEF TypeOK, TableTypes

\* Appending the row of an attempt keeps the action table typed.
LEMMA SavedAction ==
  ASSUME TypeOK, NEW t \in Thread, NEW n \in NotifierIds(FlowOf[t]),
         NEW s \in Status, SaveAction(t, n, s)
  PROVE  actions' \in Seq(Action)
<1>1. Row(t, n, s) \in Action
  <2>1. call[t] \in Frame /\ FlowOf[t] \in Flow /\ clock \in Int
    BY ConfigAssumption DEF TypeOK
  <2>2. Notifiers[FlowOf[t]] \in Seq(NotifierType)
    BY <2>1, ConfigAssumption
  <2>3. Notifiers[FlowOf[t]][n] \in NotifierType
    BY <2>2, ElementOfSeq, LenProperties DEF NotifierIds
  <2> QED
    BY <2>1, <2>3 DEF Row, Action, Frame, NotifierType
<1> QED
  BY <1>1, AppendProperties DEF TypeOK, SaveAction

\* The frame of a loop that is done with notifier n and counted w.
Counted(c, n, w) ==
  [c EXCEPT !.todo = @ \ {n}, !.tally = @ \cup w, !.n = 0, !.ok = FALSE]

LEMMA DoneMoves ==
  ASSUME NEW t, NEW n, NEW w, Done(t, n, w) PROVE Move(t, "gate", Counted(call[t], n, w))
BY DEF Done, Counted

\* Done is a move to a located frame.
LEMMA DoneFrame ==
  ASSUME TypeOK, Located, NEW t \in Thread, NEW n, NEW c \in SUBSET (Status \cup Skip),
         Done(t, n, c), TableTypes'
  PROVE  TypeOK' /\ Located'
<1> DEFINE g == Counted(call[t], n, c)
<1>1. call[t] \in Frame /\ call[t].todo \subseteq NotifierIds(FlowOf[t])
  BY DEF TypeOK, Located
<1>2. LocatedFrame(t, "gate", g)
  BY <1>1 DEF LocatedFrame, Frame, Counted
<1>3. Move(t, "gate", g)
  BY DoneMoves
<1>4. "gate" \in PC
  BY DEF PC
<1> HIDE DEF g
<1> QED
  BY <1>2, <1>3, <1>4, TypedMove

\* The message thread t's notifier sends, and what send() comes back with.
Sent(t, answer) ==
  [flow |-> FlowOf[t], rid |-> call[t].rid, n |-> call[t].n,
   recording |-> call[t].recording, at |-> clock, answer |-> answer,
   issue |-> resolution[FlowOf[t]][call[t].n]]
\* The locals of a call whose send came back with that.
Accepted(c, answer) ==
  [c EXCEPT !.ok = TRUE, !.issue = IF answer = "issue" THEN c.rid ELSE c.issue]

LEMMA AcceptedKeeps ==
  ASSUME NEW c \in Frame, NEW answer
  PROVE  LET g == Accepted(c, answer)
         IN  /\ g \in Frame
             /\ g.todo = c.todo /\ g.tally = c.tally /\ g.n = c.n /\ g.rid = c.rid
             /\ g.sev = c.sev /\ g.cascade = c.cascade /\ g.api = c.api
             /\ g.sig = c.sig /\ g.recording = c.recording /\ g.cat = c.cat
             /\ g.ok = TRUE
             /\ g.issue = IF answer = "issue" THEN c.rid ELSE c.issue
BY DEF Frame, Accepted

\* What the steps of a send do.
LEMMA Accepts ==
  ASSUME NEW t \in Thread, SendAccepted(t)
  PROVE  \E answer \in {"target", "issue"} :
           /\ answer = "issue" => Here(t).files
           /\ delivered' = delivered \cup {Sent(t, answer)}
           /\ Move(t, "outcome", Accepted(call[t], answer))
<1>1. PICK answer \in {"target"} \cup (IF Here(t).files THEN {"issue"} ELSE {}) :
        /\ Deliver(t, answer)
        /\ Move(t, "outcome",
                [call[t] EXCEPT !.ok = TRUE,
                                !.issue = IF answer = "issue" THEN call[t].rid ELSE @])
  BY Zenon DEF SendAccepted
<1>2. answer \in {"target", "issue"} /\ (answer = "issue" => Here(t).files)
  OBVIOUS
<1>3. delivered' = delivered \cup {Sent(t, answer)}
  BY <1>1 DEF Deliver, Sent
<1>4. Move(t, "outcome", Accepted(call[t], answer))
  BY <1>1, Zenon DEF Accepted
<1> QED
  BY <1>2, <1>3, <1>4

LEMMA Unanswers ==
  ASSUME NEW t \in Thread, SendRefused(t) \/ SendRaised(t)
  PROVE  /\ pc[t] = "send"
         /\ UNCHANGED <<reports, actions, decisions, clock, calls, faults, lastReason,
                        resolution, saturated>>
         /\ delivered' = delivered \/ delivered' = delivered \cup {Sent(t, "none")}
BY Zenon DEF SendRefused, SendRaised, Unanswered, Deliver, Sent, store, world

\* The rows of a recorded decision.
LEMMA RecordedDecision ==
  ASSUME TypeOK, NEW t \in Thread, NEW r \in Reason, RecordDecision(t, r)
  PROVE  TableTypes'
<1> USE ConfigAssumption
<1>1. call[t] \in Frame /\ FlowOf[t] \in Flow
  BY DEF TypeOK
<1>2. [rid |-> call[t].rid, flow |-> FlowOf[t], reason |-> r] \in Decision
  BY <1>1 DEF Decision, Frame
<1> DEFINE s == Append(decisions, [rid |-> call[t].rid, flow |-> FlowOf[t], reason |-> r])
<1>3. decisions \in Seq(Decision) /\ faults \in Nat
  BY DEF TypeOK
<1>4. s \in Seq(Decision)
  BY <1>2, <1>3, AppendProperties
<1>5. decisions' \in Seq(Decision) /\ faults' \in Nat
  <2>1. decisions' = s \/ decisions' = decisions
    BY Zenon DEF RecordDecision
  <2>2. faults' = faults \/ faults' = faults + 1
    BY Zenon DEF RecordDecision
  <2>3. faults + 1 \in Nat
    BY <1>3
  <2> HIDE DEF s
  <2> QED
    BY <1>3, <1>4, <2>1, <2>2, <2>3, Zenon
<1>6. lastReason' \in [Flow -> Reason \cup {"none"}]
  BY <1>1 DEF TypeOK, RecordDecision
<1> QED
  BY <1>5, <1>6 DEF TypeOK, TableTypes, RecordDecision

\* _classify_dispatch returns a DecisionReason.
LEMMA ClassifyType == ASSUME NEW c PROVE Classify(c) \in Reason
  BY DEF Classify, Reason

\* Every report stored has its fields' types.
LEMMA StoredReport ==
  ASSUME TypeOK, NEW t \in Thread
  PROVE  [flow |-> FlowOf[t], sig |-> call[t].sig, sev |-> call[t].sev,
          at |-> clock, cascade |-> call[t].cascade, by |-> t, dedup |-> 1] \in Report
  BY ConfigAssumption DEF TypeOK, Frame, Report

\* Counting a repeat changes no report but its dedup count.
LEMMA CountedRepeat ==
  ASSUME TypeOK, NEW id, reports' = IncrementDedup(reports, id)
  PROVE  /\ reports' \in Seq(Report)
         /\ DOMAIN reports' = DOMAIN reports
         /\ \A i \in DOMAIN reports :
              /\ reports'[i].at = reports[i].at /\ reports'[i].by = reports[i].by
              /\ reports'[i].sig = reports[i].sig /\ reports'[i].sev = reports[i].sev
              /\ reports'[i].cascade = reports[i].cascade
              /\ reports'[i].flow = reports[i].flow
<1>1. reports \in Seq(Report) /\ DOMAIN reports = 1..Len(reports)
  BY LenProperties DEF TypeOK
<1>2. CASE id \in 1..Len(reports)
  <2> DEFINE e == [reports[id] EXCEPT !.dedup = @ + 1]
  <2>1. reports[id] \in Report
    BY <1>1, <1>2, ElementOfSeq
  <2>2. /\ e \in Report /\ e.at = reports[id].at /\ e.by = reports[id].by
        /\ e.sig = reports[id].sig /\ e.sev = reports[id].sev
        /\ e.cascade = reports[id].cascade /\ e.flow = reports[id].flow
    BY <2>1 DEF Report
  <2>3. reports' = [reports EXCEPT ![id] = e]
    BY DEF IncrementDedup
  <2> HIDE DEF e
  <2>4. reports' \in Seq(Report) /\ Len(reports') = Len(reports)
        /\ \A j \in 1..Len(reports) : reports'[j] = IF j = id THEN e ELSE reports[j]
    BY <1>1, <1>2, <2>2, <2>3, ExceptSeq
  <2>5. DOMAIN reports' = 1..Len(reports')
    BY <2>4, LenProperties
  <2> QED
    BY <1>1, <2>2, <2>4, <2>5
<1>3. CASE id \notin 1..Len(reports)
  <2>1. reports \in [1..Len(reports) -> Report]
    BY <1>1, LenProperties
  <2>2. reports' = reports
    BY <1>1, <1>3, <2>1 DEF IncrementDedup
  <2> QED
    BY <1>1, <2>2
<1> QED
  BY <1>2, <1>3

\* A thread's step keeps the types and keeps its loop on its own notifiers.
LEMMA StepType ==
  ASSUME TypeOK, Located, NEW t \in Thread, Step(t)
  PROVE  TypeOK' /\ Located'
<1> DEFINE c == call[t]
<1> USE ConfigAssumption
<1>f. /\ c \in Frame /\ FlowOf[t] \in Flow /\ pc[t] \in PC
      /\ c.todo \subseteq NotifierIds(FlowOf[t])
      /\ pc[t] \in {"degrade", "resolve", "send", "outcome", "recover"}
           => c.n \in NotifierIds(FlowOf[t])
  BY DEF TypeOK, Located
<1>s. \A p \in PC :
        LocatedFrame(t, p, c) \/ p \in {"degrade", "resolve", "send", "outcome", "recover"}
  BY <1>f DEF LocatedFrame
<1>n. \A n \in NotifierIds(FlowOf[t]) : n \in Nat
  <2>1. Notifiers[FlowOf[t]] \in Seq(NotifierType)
    BY <1>f
  <2> QED
    BY <2>1, LenProperties DEF NotifierIds
<1>1. CASE FindHit(t)
  <2>1. PICK i \in Newest(reports, SeenBefore(c.sig)) :
          Move(t, "hit", [c EXCEPT !.rid = i])
    BY <1>1 DEF FindHit
  <2>2. i \in Nat
    BY <2>1, LenProperties DEF Newest, SeenBefore, SignatureMatches, TypeOK
  <2>3. LocatedFrame(t, "hit", [c EXCEPT !.rid = i]) /\ "hit" \in PC
    BY <1>f, <2>2 DEF LocatedFrame, Frame, PC
  <2>4. TableTypes'
    BY <1>1 DEF FindHit, TypeOK, TableTypes, store, world
  <2> HIDE DEF c
  <2> QED
    BY <2>1, <2>3, <2>4, TypedMove
<1>2. CASE FindNone(t)
  <2> DEFINE p == IF c.api = "report" THEN "cascade" ELSE "save"
  <2>1. LocatedFrame(t, p, c) /\ p \in PC
    BY <1>s DEF PC
  <2>2. Move(t, p, c) /\ TableTypes'
    BY <1>2 DEF FindNone, TypeOK, TableTypes, store, world
  <2> QED
    BY <2>1, <2>2, TypedMove
<1>3. CASE RecordDedupHit(t)
  <2>1. LocatedFrame(t, "hitDecision", c) /\ "hitDecision" \in PC
    BY <1>s DEF PC
  <2>2. Move(t, "hitDecision", c) /\ reports' = IncrementDedup(reports, c.rid)
    BY <1>3 DEF RecordDedupHit
  <2>3. TableTypes'
    BY <1>3, <2>2, CountedRepeat DEF RecordDedupHit, TypeOK, TableTypes, world
  <2> QED
    BY <2>1, <2>2, <2>3, TypedMove
<1>4. CASE DecideDeduped(t)
  <2> DEFINE g == EnterDispatch(t, [c EXCEPT !.recording = TRUE])
  <2>1. LocatedFrame(t, "gate", g) /\ "gate" \in PC
    BY <1>f, <1>n DEF LocatedFrame, Frame, PC, EnterDispatch
  <2>2. Move(t, "gate", g) /\ RecordDecision(t, "deduped")
    BY <1>4 DEF DecideDeduped
  <2>3. TableTypes'
    BY <2>2, RecordedDecision DEF Reason
  <2> HIDE DEF g
  <2> QED
    BY <2>1, <2>2, <2>3, TypedMove
<1>5. CASE CheckCascade(t)
  <2> DEFINE g == [c EXCEPT !.cascade = CascadeSource(FlowOf[t])]
  <2>1. LocatedFrame(t, "save", g) /\ "save" \in PC
    BY <1>f DEF LocatedFrame, Frame, PC, CascadeSource
  <2>2. Move(t, "save", g) /\ TableTypes'
    BY <1>5 DEF CheckCascade, TypeOK, TableTypes, store, world
  <2> HIDE DEF g
  <2> QED
    BY <2>1, <2>2, TypedMove
<1>6. CASE SaveReport(t)
  <2> DEFINE g == [c EXCEPT !.rid = Len(reports) + 1]
             h == EnterDispatch(t, g)
  <2>1. Len(reports) + 1 \in Nat
    BY LenProperties DEF TypeOK
  <2>2. LocatedFrame(t, "diagnose", g) /\ "diagnose" \in PC
    BY <1>f, <2>1 DEF LocatedFrame, Frame, PC
  <2>3. LocatedFrame(t, "gate", h) /\ "gate" \in PC
    BY <1>f, <1>n, <2>1 DEF LocatedFrame, Frame, PC, EnterDispatch
  <2>4. Move(t, "diagnose", g) \/ Move(t, "gate", h)
    BY <1>6 DEF SaveReport
  <2>5. TableTypes'
    BY <1>6, StoredReport, AppendProperties DEF SaveReport, TypeOK, TableTypes, world
  <2> HIDE DEF g, h
  <2> QED
    BY <2>2, <2>3, <2>4, <2>5, TypedMove
<1>7. CASE Diagnose(t)
  <2>1. PICK k \in {NoDiagnosis} \cup Category :
          Move(t, "gate", EnterDispatch(t, [c EXCEPT !.cat = k]))
    BY <1>7 DEF Diagnose
  <2>2. LocatedFrame(t, "gate", EnterDispatch(t, [c EXCEPT !.cat = k])) /\ "gate" \in PC
    BY <1>f, <1>n DEF LocatedFrame, Frame, PC, EnterDispatch
  <2>3. TableTypes'
    BY <1>7 DEF Diagnose, TypeOK, TableTypes, store, world
  <2> QED
    BY <2>1, <2>2, <2>3, TypedMove
<1>8. CASE SkipNotifier(t)
  <2>1. PICK n \in Upcoming(FlowOf[t], c.todo) :
          Done(t, n, PassedOver(t, n) \ {"not_archival"})
    BY <1>8 DEF SkipNotifier
  <2>2. PassedOver(t, n) \ {"not_archival"} \in SUBSET (Status \cup Skip)
    BY DEF PassedOver, Skip
  <2>3. TableTypes'
    BY <1>8 DEF SkipNotifier, TypeOK, TableTypes, store, world
  <2> QED
    BY <2>1, <2>2, <2>3, DoneFrame
<1>9. CASE SuppressCascade(t)
  <2>1. PICK n \in NotifierIds(FlowOf[t]) :
          SaveAction(t, n, "degraded") /\ Done(t, n, {"cascade_skipped"})
    BY <1>9 DEF SuppressCascade
  <2>2. actions' \in Seq(Action)
    BY <2>1, SavedAction DEF Status
  <2>3. TableTypes'
    BY <1>9, <2>2 DEF SuppressCascade, TypeOK, TableTypes, world
  <2> QED
    BY <2>1, <2>3, DoneFrame DEF Skip
<1>10. CASE CheckBudget(t)
  <2>1. PICK n \in NotifierIds(FlowOf[t]), p \in {"degrade", "resolve", "send"} :
          Move(t, p, [c EXCEPT !.n = n])
    BY <1>10 DEF CheckBudget
  <2>2. LocatedFrame(t, p, [c EXCEPT !.n = n]) /\ p \in PC
    BY <1>f, <1>n DEF LocatedFrame, Frame, PC
  <2>3. TableTypes'
    BY <1>10 DEF CheckBudget, TypeOK, TableTypes, store, world
  <2> QED
    BY <2>1, <2>2, <2>3, TypedMove
<1>11. CASE Degrade(t)
  <2>1. c.n \in NotifierIds(FlowOf[t])
    BY <1>11, <1>f DEF Degrade
  <2>2. SaveAction(t, c.n, "degraded") /\ Done(t, c.n, {"degraded"})
    BY <1>11 DEF Degrade
  <2>3. TableTypes'
    BY <1>11, <2>1, <2>2, SavedAction DEF Degrade, Status, TypeOK, TableTypes, world
  <2> QED
    BY <2>2, <2>3, DoneFrame DEF Status
<1>12. CASE SetResolution(t)
  <2>1. LocatedFrame(t, "send", c) /\ "send" \in PC
    BY <1>12, <1>f DEF SetResolution, LocatedFrame, PC
  <2>2. Move(t, "send", c)
    BY <1>12 DEF SetResolution
  <2>3. c.issue \in Nat
    BY <1>f DEF Frame
  <2>4. TableTypes'
    BY <1>12, <1>f, <2>3 DEF SetResolution, TypeOK, TableTypes, store, world
  <2> QED
    BY <2>1, <2>2, <2>4, TypedMove
<1>13. CASE SendAccepted(t)
  <2>1. c.n \in NotifierIds(FlowOf[t])
    BY <1>13, <1>f DEF SendAccepted
  <2>2. PICK a : Move(t, "outcome", Accepted(c, a))
    BY <1>13, Accepts
  <2> DEFINE g == Accepted(c, a)
  <2>3. LocatedFrame(t, "outcome", g) /\ "outcome" \in PC
    BY <1>f, <2>1 DEF LocatedFrame, PC, Frame, Accepted
  <2>4. TableTypes'
    BY <1>13 DEF SendAccepted, TypeOK, TableTypes, store, world
  <2>5. Move(t, "outcome", g)
    BY <2>2
  <2> HIDE DEF g
  <2> QED
    BY <2>3, <2>4, <2>5, TypedMove
<1>14. CASE SendRefused(t)
  <2>1. LocatedFrame(t, "outcome", [c EXCEPT !.ok = FALSE]) /\ "outcome" \in PC
    BY <1>14, <1>f DEF SendRefused, LocatedFrame, Frame, PC
  <2>2. Move(t, "outcome", [c EXCEPT !.ok = FALSE]) /\ TableTypes'
    BY <1>14 DEF SendRefused, TypeOK, TableTypes, store, world
  <2> QED
    BY <2>1, <2>2, TypedMove
<1>15. CASE SendRaised(t)
  <2>1. LocatedFrame(t, "recover", c) /\ "recover" \in PC
    BY <1>15, <1>f DEF SendRaised, LocatedFrame, PC
  <2>2. Move(t, "recover", c) /\ TableTypes'
    BY <1>15 DEF SendRaised, TypeOK, TableTypes, store, world
  <2> QED
    BY <2>1, <2>2, TypedMove
<1>16. CASE SaveOutcome(t)
  <2>1. c.n \in NotifierIds(FlowOf[t])
    BY <1>16, <1>f DEF SaveOutcome
  <2>2. PICK s \in {"sent", "failed"} : SaveAction(t, c.n, s) /\ Done(t, c.n, {s})
    BY <1>16 DEF SaveOutcome
  <2>3. TableTypes'
    BY <1>16, <2>1, <2>2, SavedAction DEF SaveOutcome, Status, TypeOK, TableTypes, world
  <2> QED
    BY <2>2, <2>3, DoneFrame DEF Status
<1>17. CASE SaveFailure(t)
  <2>1. c.n \in NotifierIds(FlowOf[t])
    BY <1>17, <1>f DEF SaveFailure
  <2>2. SaveAction(t, c.n, "failed") /\ Done(t, c.n, {"failed"})
    BY <1>17 DEF SaveFailure
  <2>3. TableTypes'
    BY <1>17, <2>1, <2>2, SavedAction DEF SaveFailure, Status, TypeOK, TableTypes, world
  <2> QED
    BY <2>2, <2>3, DoneFrame DEF Status
<1>18. CASE DecideDispatched(t)
  <2>1. LocatedFrame(t, "idle", NoCall) /\ "idle" \in PC
    BY NoCallType DEF LocatedFrame, PC
  <2>2. Move(t, "idle", NoCall) /\ TableTypes'
    BY <1>18, RecordedDecision, ClassifyType DEF DecideDispatched
  <2> QED
    BY <2>1, <2>2, TypedMove
<1>19. CASE ReturnUndecided(t)
  <2>1. LocatedFrame(t, "idle", NoCall) /\ "idle" \in PC
    BY NoCallType DEF LocatedFrame, PC
  <2>2. Move(t, "idle", NoCall) /\ TableTypes'
    BY <1>19 DEF ReturnUndecided, TypeOK, TableTypes, store, world
  <2> QED
    BY <2>1, <2>2, TypedMove
<1>20. CASE LoseOutcome(t)
  <2>1. LocatedFrame(t, "recover", c) /\ "recover" \in PC
    BY <1>20, <1>f DEF LoseOutcome, LocatedFrame, PC
  <2>2. Move(t, "recover", c) /\ TableTypes'
    BY <1>20 DEF LoseOutcome, TypeOK, TableTypes, store
  <2> QED
    BY <2>1, <2>2, TypedMove
<1>21. CASE Abort(t)
  <2>1. LocatedFrame(t, "idle", NoCall) /\ "idle" \in PC
    BY NoCallType DEF LocatedFrame, PC
  <2>2. Move(t, "idle", NoCall) /\ TableTypes'
    BY <1>21 DEF Abort, TypeOK, TableTypes, store
  <2> QED
    BY <2>1, <2>2, TypedMove
<1> QED
  BY <1>1, <1>2, <1>3, <1>4, <1>5, <1>6, <1>7, <1>8, <1>9, <1>10, <1>11, <1>12,
     <1>13, <1>14, <1>15, <1>16, <1>17, <1>18, <1>19, <1>20, <1>21, Step(t) DEF Step

\* The host, a crash, time and rest keep the types.
LEMMA OtherType ==
  ASSUME TypeOK, Located,
         \/ \E t \in Thread, in \in Inputs : Call(t, in)
         \/ \E f \in Flow : Crash(f)
         \/ Tick \/ Rest \/ UNCHANGED vars
  PROVE  TypeOK' /\ Located'
<1> USE ConfigAssumption
<1>1. CASE \E t \in Thread, in \in Inputs : Call(t, in)
  <2>1. PICK t \in Thread, in \in Inputs : Call(t, in)
    BY <1>1
  <2> DEFINE p == IF in.sig = NoSig THEN "save" ELSE "find"
             g == [NoCall EXCEPT !.api = in.api, !.sev = in.sev, !.sig = in.sig]
  <2>2. in \in [api : Api, sev : Severity, sig : Sig \cup {NoSig}]
    OBVIOUS
  <2>3. LocatedFrame(t, p, g) /\ p \in PC
    BY <2>2, NoCallType DEF LocatedFrame, Frame, PC
  <2>4. Move(t, p, g)
    BY <2>1 DEF Call
  <2>5. TableTypes'
    <3>1. calls' = [calls EXCEPT ![t] = @ + 1]
      BY <2>1, Zenon DEF Call
    <3>2. calls' \in [Thread -> Nat]
      BY <3>1 DEF TypeOK
    <3>3. UNCHANGED <<store, clock, faults, lastReason, resolution>>
      BY <2>1 DEF Call
    <3> QED
      BY <3>2, <3>3 DEF TypeOK, TableTypes, store
  <2> HIDE DEF p, g
  <2> QED
    BY <2>3, <2>4, <2>5, TypedMove
<1>2. CASE \E f \in Flow : Crash(f)
  <2>1. PICK f \in Flow : Crash(f)
    BY <1>2
  <2>2. pc' \in [Thread -> PC] /\ call' \in [Thread -> Frame]
    BY <2>1, NoCallType DEF Crash, TypeOK, PC
  <2>3. Located'
    BY <2>1, NoCallType DEF Crash, TypeOK, Located
  <2>4. TableTypes'
    BY <2>1 DEF Crash, TypeOK, TableTypes, store
  <2> QED
    BY <2>2, <2>3, <2>4 DEF TypeOK, TableTypes
<1>3. CASE Tick
  BY <1>3, ClockAssumption DEF Tick, TypeOK, Located, store
<1>4. CASE Rest \/ UNCHANGED vars
  BY <1>4 DEF Rest, vars, TypeOK, Located
<1> QED
  BY <1>1, <1>2, <1>3, <1>4

\* The type invariant holds in every run of every configuration.
THEOREM TypeCorrect == Spec => []TypeOK
<1>1. Init => TypeOK /\ Located
  BY InitDedupInv DEF DedupInv
<1>2. TypeOK /\ Located /\ [Next]_vars => (TypeOK /\ Located)'
  <2> SUFFICES ASSUME TypeOK, Located, [Next]_vars PROVE TypeOK' /\ Located'
    OBVIOUS
  <2>1. CASE \E t \in Thread : Step(t)
    BY <2>1, StepType
  <2>2. CASE ~\E t \in Thread : Step(t)
    BY <2>2, OtherType DEF Next
  <2> QED
    BY <2>1, <2>2
<1> QED
  BY <1>1, <1>2, PTL DEF Spec

(***************************************************************************)
(* Dedup                                                                   *)
(***************************************************************************)

\* What DedupInv reads of a report.
Kept(i) ==
  /\ reports'[i].at = reports[i].at /\ reports'[i].by = reports[i].by
  /\ reports'[i].sig = reports[i].sig

\* A step that stores no report, takes no time and lets no thread pass its
\* dedup query keeps the invariant.
LEMMA QuietStep ==
  ASSUME ReportsPast, Searched, OnePerThreadPerWindow, clock' = clock,
         DOMAIN reports' = DOMAIN reports, \A i \in DOMAIN reports : Kept(i),
         \A t \in Thread :
           (pc'[t] \in {"cascade", "save"} /\ call'[t].sig # NoSig) =>
             /\ pc[t] \in {"cascade", "save"} /\ call[t].sig = call'[t].sig
  PROVE  ReportsPast' /\ Searched' /\ OnePerThreadPerWindow'
<1>1. ReportsPast'
  BY DEF ReportsPast, Kept
<1>2. Searched'
  BY DEF Searched, Kept
<1>3. OnePerThreadPerWindow'
  BY DEF OnePerThreadPerWindow, Repeats, Kept
<1> QED
  BY <1>1, <1>2, <1>3

\* A thread that goes on elsewhere, or from "cascade" to "save".
LEMMA QuietMove ==
  ASSUME TypeOK, ReportsPast, Searched, OnePerThreadPerWindow, clock' = clock,
         DOMAIN reports' = DOMAIN reports, \A i \in DOMAIN reports : Kept(i),
         NEW t \in Thread, NEW p, NEW g, Move(t, p, g),
         p \in {"cascade", "save"} /\ g.sig # NoSig =>
           pc[t] \in {"cascade", "save"} /\ call[t].sig = g.sig
  PROVE  ReportsPast' /\ Searched' /\ OnePerThreadPerWindow'
<1>1. \A u \in Thread : pc'[u] = (IF u = t THEN p ELSE pc[u])
                        /\ call'[u] = (IF u = t THEN g ELSE call[u])
  BY DEF TypeOK, Move
<1> QED
  BY <1>1, QuietStep

\* The rows and the times in them are comparable.
LEMMA RowTypes ==
  ASSUME TypeOK
  PROVE  /\ \A i \in DOMAIN reports :
              i \in Nat /\ reports[i] \in Report /\ reports[i].at \in Int
         /\ clock \in Int /\ Cooldown \in Nat
<1>1. reports \in Seq(Report) /\ clock \in Int /\ Cooldown \in Nat
  BY ConfigAssumption DEF TypeOK
<1>2. \A i \in DOMAIN reports : i \in Nat /\ reports[i] \in Report
  BY <1>1, LenProperties, ElementOfSeq
<1> QED
  BY <1>1, <1>2 DEF Report

\* A query that finds nothing establishes Searched for its thread.
LEMMA FindNoneDedup ==
  ASSUME DedupInv, NEW t \in Thread, FindNone(t)
  PROVE  ReportsPast' /\ Searched' /\ OnePerThreadPerWindow'
<1> DEFINE p == IF call[t].api = "report" THEN "cascade" ELSE "save"
<1> USE DEF DedupInv
<1>1. reports' = reports /\ clock' = clock /\ Move(t, p, call[t])
  BY DEF FindNone, store, world
<1>2. \A u \in Thread : call'[u] = call[u] /\ (u # t => pc'[u] = pc[u])
  BY <1>1 DEF TypeOK, Move
<1>3. \A i \in DOMAIN reports :
        reports[i].sig = call[t].sig => reports[i].at + Cooldown < clock
  BY RowTypes DEF FindNone, SeenBefore, SignatureMatches
<1>4. Searched'
  BY <1>1, <1>2, <1>3 DEF Searched
<1> QED
  BY <1>1, <1>4 DEF ReportsPast, OnePerThreadPerWindow, Repeats

\* A report stored by a thread whose search still stands is not a repeat of
\* its own within the cooldown.
LEMMA SaveReportDedup ==
  ASSUME DedupInv, NEW t \in Thread, SaveReport(t)
  PROVE  ReportsPast' /\ Searched' /\ OnePerThreadPerWindow'
<1> DEFINE r == [flow |-> FlowOf[t], sig |-> call[t].sig, sev |-> call[t].sev,
                 at |-> clock, cascade |-> call[t].cascade, by |-> t, dedup |-> 1]
           last == Len(reports) + 1
<1> USE DEF DedupInv
<1>1. reports' = Append(reports, r) /\ clock' = clock /\ pc[t] = "save"
  BY DEF SaveReport, world
<1>2. PICK p \in {"diagnose", "gate"} : \E g : Move(t, p, g)
  BY DEF SaveReport
<1>3. \A u \in Thread : IF u = t THEN pc'[u] = p
                        ELSE pc'[u] = pc[u] /\ call'[u] = call[u]
  BY <1>2 DEF TypeOK, Move
<1>4. r \in Report /\ r.at = clock /\ r.by = t /\ r.sig = call[t].sig
  BY StoredReport DEF Report
<1> HIDE DEF r
<1>5. reports \in Seq(Report)
  BY DEF TypeOK
<1>6. /\ DOMAIN reports' = 1..last /\ DOMAIN reports = 1..Len(reports)
      /\ Len(reports) \in Nat
      /\ \A i \in DOMAIN reports : reports'[i] = reports[i]
      /\ reports'[last] = r
  BY <1>1, <1>4, <1>5, AppendRow
<1> HIDE DEF last
<1>7. DOMAIN reports' = DOMAIN reports \cup {last} /\ \A i \in DOMAIN reports : i < last
  BY <1>6 DEF last
<1>8. ReportsPast'
  BY <1>1, <1>4, <1>6, <1>7, RowTypes DEF ReportsPast
<1>9. Searched'
  BY <1>1, <1>3, <1>4, <1>6, <1>7 DEF Searched
<1>10. OnePerThreadPerWindow'
  <2> SUFFICES ASSUME NEW i \in DOMAIN reports', NEW j \in DOMAIN reports',
                      Repeats(i, j)', reports'[i].by = reports'[j].by
               PROVE  reports'[i].at + Cooldown < reports'[j].at
    BY DEF OnePerThreadPerWindow
  <2>1. i \in DOMAIN reports
    BY <1>6, <1>7 DEF Repeats, last
  <2>2. CASE j \in DOMAIN reports
    BY <1>6, <2>1, <2>2 DEF Repeats, OnePerThreadPerWindow
  <2>3. CASE j = last
    BY <1>1, <1>4, <1>6, <2>1, <2>3 DEF Repeats, Searched
  <2> QED
    BY <1>7, <2>2, <2>3
<1> QED
  BY <1>8, <1>9, <1>10

\* No step of a thread breaks the invariant.
LEMMA StepDedup ==
  ASSUME DedupInv, NEW t \in Thread, Step(t)
  PROVE  ReportsPast' /\ Searched' /\ OnePerThreadPerWindow'
<1> DEFINE others == {"find", "hit", "hitDecision", "diagnose", "gate", "degrade",
                      "resolve", "send", "outcome", "recover", "idle"}
<1> USE DEF DedupInv
<1>1. CASE FindNone(t)
  BY <1>1, FindNoneDedup
<1>2. CASE SaveReport(t)
  BY <1>2, SaveReportDedup
<1>3. CASE RecordDedupHit(t)
  <2>1. Move(t, "hitDecision", call[t]) /\ clock' = clock
        /\ reports' = IncrementDedup(reports, call[t].rid)
    BY <1>3 DEF RecordDedupHit, world
  <2>2. DOMAIN reports' = DOMAIN reports /\ \A i \in DOMAIN reports : Kept(i)
    BY <2>1, CountedRepeat DEF Kept
  <2> QED
    BY <2>1, <2>2, QuietMove
<1>4. CASE CheckCascade(t)
  <2> DEFINE g == [call[t] EXCEPT !.cascade = CascadeSource(FlowOf[t])]
  <2>1. Move(t, "save", g) /\ clock' = clock /\ reports' = reports /\ pc[t] = "cascade"
    BY <1>4 DEF CheckCascade, store, world
  <2>2. g.sig = call[t].sig
    BY DEF TypeOK, Frame
  <2> HIDE DEF g
  <2> QED
    BY <2>1, <2>2, QuietMove DEF Kept
<1>5. CASE ~(FindNone(t) \/ SaveReport(t) \/ RecordDedupHit(t) \/ CheckCascade(t))
  <2>1. reports' = reports /\ clock' = clock /\ \E p \in others : \E g : Move(t, p, g)
    <3>1. CASE FindHit(t)
      BY <3>1, Zenon DEF FindHit, store, world
    <3>2. CASE DecideDeduped(t) \/ DecideDispatched(t) \/ ReturnUndecided(t)
      BY <3>2 DEF DecideDeduped, DecideDispatched, ReturnUndecided, RecordDecision,
                  store, world
    <3>3. CASE Diagnose(t)
      BY <3>3, Zenon DEF Diagnose, store, world
    <3>4. CASE SkipNotifier(t) \/ SuppressCascade(t) \/ Degrade(t)
               \/ SaveOutcome(t) \/ SaveFailure(t)
      BY <3>4 DEF SkipNotifier, SuppressCascade, Degrade, SaveOutcome, SaveFailure,
                  Done, store, world
    <3>5. CASE CheckBudget(t)
      <4>1. \E p \in {"degrade", "resolve", "send"} : \E g : Move(t, p, g)
        BY <3>5 DEF CheckBudget
      <4>2. reports' = reports /\ clock' = clock
        BY <3>5 DEF CheckBudget, store, world
      <4> QED
        BY <4>1, <4>2
    <3>6. CASE SetResolution(t) \/ SendAccepted(t) \/ SendRefused(t) \/ SendRaised(t)
      BY <3>6 DEF SetResolution, SendAccepted, SendRefused, SendRaised, store, world
    <3>7. CASE LoseOutcome(t) \/ Abort(t)
      BY <3>7 DEF LoseOutcome, Abort, store
    <3> QED
      BY <1>5, <3>1, <3>2, <3>3, <3>4, <3>5, <3>6, <3>7, Step(t) DEF Step
  <2>2. PICK p \in others : \E g : Move(t, p, g)
    BY <2>1
  <2> QED
    BY <2>1, <2>2, QuietMove DEF Kept
<1> QED
  BY <1>1, <1>2, <1>3, <1>4, <1>5

\* No step of the specification breaks the invariant.
LEMMA NextDedup ==
  ASSUME DedupInv, [Next]_vars
  PROVE  DedupInv'
<1> USE DEF DedupInv
<1>1. TypeOK' /\ Located'
  BY StepType, OtherType DEF Next
<1>2. ReportsPast' /\ Searched' /\ OnePerThreadPerWindow'
  <2>1. CASE \E t \in Thread : Step(t)
    BY <2>1, StepDedup
  <2>2. CASE \E t \in Thread, in \in Inputs : Call(t, in)
    <3>1. PICK t \in Thread, in \in Inputs : Call(t, in)
      BY <2>2
    <3> DEFINE p == IF in.sig = NoSig THEN "save" ELSE "find"
               g == [NoCall EXCEPT !.api = in.api, !.sev = in.sev, !.sig = in.sig]
    <3>2. Move(t, p, g) /\ reports' = reports /\ clock' = clock
      BY <3>1 DEF Call, store
    <3>3. p \in {"cascade", "save"} => g.sig = NoSig
      BY DEF NoCall
    <3> HIDE DEF p, g
    <3> QED
      BY <3>2, <3>3, QuietMove DEF Kept
  <2>3. CASE \E f \in Flow : Crash(f)
    <3>1. PICK f \in Flow : Crash(f)
      BY <2>3
    <3>2. reports' = reports /\ clock' = clock
      BY <3>1 DEF Crash, store
    <3>3. \A t \in Thread : IF FlowOf[t] = f THEN pc'[t] = "idle"
                            ELSE pc'[t] = pc[t] /\ call'[t] = call[t]
      BY <3>1 DEF Crash
    <3> QED
      BY <3>2, <3>3, QuietStep DEF Kept
  <2>4. CASE Tick
    <3>1. reports' = reports /\ clock' = clock + 1 /\ pc' = pc /\ call' = call
      BY <2>4 DEF Tick, store
    <3> QED
      BY <3>1, RowTypes DEF ReportsPast, Searched, OnePerThreadPerWindow, Repeats
  <2>5. CASE Rest \/ UNCHANGED vars
    BY <2>5 DEF Rest, vars, ReportsPast, Searched, OnePerThreadPerWindow, Repeats
  <2> QED
    BY <2>1, <2>2, <2>3, <2>4, <2>5 DEF Next
<1> QED
  BY <1>1, <1>2

\* However many threads and flows race, stall, fail or crash: one thread
\* never stores two reports of a signature within one cooldown.
THEOREM DedupPerThread == Spec => []OnePerThreadPerWindow
<1>1. Init => DedupInv
  BY InitDedupInv
<1>2. DedupInv /\ [Next]_vars => DedupInv'
  BY NextDedup
<1>3. DedupInv => OnePerThreadPerWindow
  BY DEF DedupInv
<1> QED
  BY <1>1, <1>2, <1>3, PTL DEF Spec

(***************************************************************************)
(* The decision trail                                                      *)
(*                                                                         *)
(* What a thread's frame claims of its report is stated over tables given  *)
(* as arguments, so that a step is a change of the arguments.              *)
(***************************************************************************)

\* Thread with frame c at p is between save_report and the decision.
Loop == {"diagnose", "gate", "degrade", "resolve", "send", "outcome", "recover"}
Early == {"find", "hit", "hitDecision", "cascade", "save", "diagnose"}
Own(p, c) == p \in Loop /\ ~c.recording

RowFor(A, rid, S) == \E k \in DOMAIN A : A[k].rid = rid /\ A[k].status \in S
Reached(D, rid) == \E m \in D : m.rid = rid /\ ~m.recording /\ m.answer # "none"
Upstreamed(R, f) ==
  \E j \in DOMAIN R : R[j].flow \in DependsOn[f] /\ R[j].sev \in {"error", "critical"}

\* A row accounts for notifier v on a report of this severity.
Answers(a, rid, v, sev, cascade) ==
  /\ a.rid = rid /\ a.type = v.type
  /\ (sev \in Exempt /\ (cascade => v.onCascade)) => a.status \in {"sent", "failed"}
RowOf(A, rid, v, sev, cascade) ==
  \E k \in DOMAIN A : Answers(A[k], rid, v, sev, cascade)
Wants(v, sev) == sev \in v.on /\ v.cats = {}

\* Every counter of the loop stands for a row.
Backed(A, D, c) ==
  /\ "sent" \in c.tally => RowFor(A, c.rid, {"sent"}) /\ Reached(D, c.rid)
  /\ "failed" \in c.tally => RowFor(A, c.rid, {"failed"})
  /\ "degraded" \in c.tally => RowFor(A, c.rid, {"degraded"}) /\ c.sev \notin Exempt
  /\ "cascade_skipped" \in c.tally => RowFor(A, c.rid, {"degraded"}) /\ c.cascade

\* Every notifier the loop is done with and that wants the report has a row.
Heard(A, f, c) ==
  \A n \in NotifierIds(f) :
    n \notin c.todo /\ Wants(Notifiers[f][n], c.sev)
      => RowOf(A, c.rid, Notifiers[f][n], c.sev, c.cascade)

\* The report a frame of the loop is about is the one its thread stored.
OwnReport(R, t, c) ==
  /\ c.rid \in DOMAIN R
  /\ R[c.rid].sev = c.sev /\ R[c.rid].cascade = c.cascade /\ R[c.rid].by = t

PlaceFrame(R, t, p, c) ==
  /\ p \in {"find", "hit", "hitDecision"} => c.sig # NoSig
  /\ p \in Early => c.tally = {} /\ ~c.recording
  /\ p \in {"find", "hit", "hitDecision", "cascade"} => ~c.cascade
  /\ p \in {"hit", "hitDecision"} => c.rid \in DOMAIN R /\ R[c.rid].sig # NoSig
  /\ p = "save" /\ c.cascade => Upstreamed(R, FlowOf[t])
  /\ p = "degrade" => c.sev \notin Exempt
LoopFrame(R, A, D, t, p, c) ==
  /\ OwnReport(R, t, c)
  /\ Backed(A, D, c)
  /\ p = "outcome" /\ c.ok => Reached(D, c.rid)
  /\ p # "diagnose" => Heard(A, FlowOf[t], c)
FrameOK(R, A, D, t, p, c) ==
  /\ PlaceFrame(R, t, p, c)
  /\ Own(p, c) => LoopFrame(R, A, D, t, p, c)

\* What a recorded reason claims, and whom it accounts for.
Honest(R, A, D, d) ==
  /\ d.rid \in DOMAIN R
  /\ d.reason = "fired" => RowFor(A, d.rid, {"sent"}) /\ Reached(D, d.rid)
  /\ d.reason = "delivery_failed" => RowFor(A, d.rid, {"failed"})
  /\ d.reason = "rate_limited" =>
       RowFor(A, d.rid, {"degraded"}) /\ R[d.rid].sev \notin Exempt
  /\ d.reason = "cascade_suppressed" =>
       RowFor(A, d.rid, {"degraded"}) /\ R[d.rid].cascade
  /\ d.reason = "deduped" => R[d.rid].sig # NoSig
AllAnswered(R, A, d) ==
  d.reason # "deduped" => \A n \in NotifierIds(d.flow) :
    Wants(Notifiers[d.flow][n], R[d.rid].sev)
      => RowOf(A, d.rid, Notifiers[d.flow][n], R[d.rid].sev, R[d.rid].cascade)
DecisionOK(R, A, D, d) == Honest(R, A, D, d) /\ AllAnswered(R, A, d)

Frames == \A t \in Thread : FrameOK(reports, actions, delivered, t, pc[t], call[t])
Trail == \A k \in DOMAIN decisions : DecisionOK(reports, actions, delivered, decisions[k])
TrailInv == TypeOK /\ Located /\ Frames /\ Trail /\ CascadeHasUpstream

\* The tables only grow, and a report keeps all but its dedup count.
SameReport(r, s) ==
  /\ s.sev = r.sev /\ s.cascade = r.cascade /\ s.sig = r.sig
  /\ s.by = r.by /\ s.flow = r.flow
GrownReports(R, S) == DOMAIN R \subseteq DOMAIN S /\ \A i \in DOMAIN R : SameReport(R[i], S[i])
GrownActions(A, B) == DOMAIN A \subseteq DOMAIN B /\ \A k \in DOMAIN A : B[k] = A[k]
Grown(R, A, D, S, B, E) == GrownReports(R, S) /\ GrownActions(A, B) /\ D \subseteq E

LEMMA RowsStay ==
  ASSUME NEW A, NEW B, GrownActions(A, B), NEW rid
  PROVE  /\ \A S : RowFor(A, rid, S) => RowFor(B, rid, S)
         /\ \A v, sev, cascade : RowOf(A, rid, v, sev, cascade) => RowOf(B, rid, v, sev, cascade)
BY Zenon DEF GrownActions, RowFor, RowOf

LEMMA BackedStays ==
  ASSUME NEW A, NEW B, GrownActions(A, B), NEW D, NEW E, D \subseteq E, NEW c, Backed(A, D, c)
  PROVE  Backed(B, E, c)
<1>1. Reached(D, c.rid) => Reached(E, c.rid)
  BY DEF Reached
<1> QED
  BY <1>1, RowsStay DEF Backed

\* What a frame claims stays true while the tables grow.
LEMMA FrameStays ==
  ASSUME NEW R, NEW A, NEW D, NEW S, NEW B, NEW E, Grown(R, A, D, S, B, E),
         NEW t, NEW p, NEW c, FrameOK(R, A, D, t, p, c)
  PROVE  FrameOK(S, B, E, t, p, c)
<1>1. PlaceFrame(S, t, p, c)
  <2>1. Upstreamed(R, FlowOf[t]) => Upstreamed(S, FlowOf[t])
    BY DEF Upstreamed, Grown, GrownReports, SameReport
  <2>2. c.rid \in DOMAIN R => c.rid \in DOMAIN S /\ S[c.rid].sig = R[c.rid].sig
    BY DEF Grown, GrownReports, SameReport
  <2> QED
    BY <2>1, <2>2 DEF PlaceFrame, FrameOK
<1>2. ASSUME Own(p, c) PROVE LoopFrame(S, B, E, t, p, c)
  <2>1. LoopFrame(R, A, D, t, p, c)
    BY <1>2 DEF FrameOK
  <2>2. OwnReport(S, t, c)
    BY <2>1 DEF LoopFrame, OwnReport, Grown, GrownReports, SameReport
  <2>3. Backed(B, E, c)
    BY <2>1, BackedStays DEF LoopFrame, Grown
  <2>4. Reached(D, c.rid) => Reached(E, c.rid)
    BY DEF Reached, Grown
  <2>5. Heard(A, FlowOf[t], c) => Heard(B, FlowOf[t], c)
    BY RowsStay, Zenon DEF Heard, Grown
  <2> QED
    BY <2>1, <2>2, <2>3, <2>4, <2>5 DEF LoopFrame
<1> QED
  BY <1>1, <1>2 DEF FrameOK

LEMMA DecisionStays ==
  ASSUME NEW R, NEW A, NEW D, NEW S, NEW B, NEW E, Grown(R, A, D, S, B, E),
         NEW d, DecisionOK(R, A, D, d)
  PROVE  DecisionOK(S, B, E, d)
<1>1. d.rid \in DOMAIN R /\ d.rid \in DOMAIN S /\ SameReport(R[d.rid], S[d.rid])
  BY DEF DecisionOK, Honest, Grown, GrownReports
<1>2. /\ S[d.rid].sev = R[d.rid].sev /\ S[d.rid].cascade = R[d.rid].cascade
      /\ S[d.rid].sig = R[d.rid].sig
  BY <1>1 DEF SameReport
<1>3. Reached(D, d.rid) => Reached(E, d.rid)
  BY DEF Reached, Grown
<1>4. Honest(S, B, E, d)
  <2>1. \A T : RowFor(A, d.rid, T) => RowFor(B, d.rid, T)
    BY RowsStay DEF Grown
  <2>2. Honest(R, A, D, d)
    BY DEF DecisionOK
  <2> QED
    BY <1>1, <1>2, <1>3, <2>1, <2>2, Zenon DEF Honest
<1>5. AllAnswered(S, B, d)
  <2>1. \A v, sev, cascade : RowOf(A, d.rid, v, sev, cascade) => RowOf(B, d.rid, v, sev, cascade)
    BY RowsStay DEF Grown
  <2> QED
    BY <1>2, <2>1, Zenon DEF DecisionOK, AllAnswered
<1> QED
  BY <1>4, <1>5 DEF DecisionOK

(***************************************************************************)
(* What each step of a thread does to its frame                            *)
(***************************************************************************)

\* The step lets the tables grow and takes thread t to a frame whose claims hold.
StepFrame(t) ==
  /\ Grown(reports, actions, delivered, reports', actions', delivered')
  /\ \E p, g : Move(t, p, g) /\ FrameOK(reports', actions', delivered', t, p, g)

LEMMA StillGrows ==
  ASSUME NEW R, NEW A, NEW D, NEW E, D \subseteq E
  PROVE  Grown(R, A, D, R, A, E)
BY DEF Grown, GrownReports, GrownActions, SameReport

LEMMA AppendGrows ==
  ASSUME NEW T, NEW A \in Seq(T), NEW e \in T
  PROVE  GrownActions(A, Append(A, e))
BY AppendRow DEF GrownActions

LEMMA FramesMove ==
  ASSUME TypeOK, Frames, NEW t \in Thread, StepFrame(t)
  PROVE  Frames'
<1>1. PICK p, g : Move(t, p, g) /\ FrameOK(reports', actions', delivered', t, p, g)
  BY DEF StepFrame
<1>2. \A u \in Thread : pc'[u] = (IF u = t THEN p ELSE pc[u])
                        /\ call'[u] = (IF u = t THEN g ELSE call[u])
  BY <1>1 DEF TypeOK, Move
<1> SUFFICES ASSUME NEW u \in Thread
             PROVE  FrameOK(reports', actions', delivered', u, pc'[u], call'[u])
  BY DEF Frames
<1>3. CASE u = t
  BY <1>1, <1>2, <1>3
<1>4. CASE u # t
  <2>1. FrameOK(reports, actions, delivered, u, pc[u], call[u])
    BY DEF Frames
  <2>2. Grown(reports, actions, delivered, reports', actions', delivered')
    BY DEF StepFrame
  <2>3. FrameOK(reports', actions', delivered', u, pc[u], call[u])
    BY <2>1, <2>2, FrameStays
  <2> QED
    BY <2>3, <1>2, <1>4
<1> QED
  BY <1>3, <1>4

LEMMA IdleFrame == ASSUME NEW R, NEW A, NEW D, NEW t, NEW c PROVE FrameOK(R, A, D, t, "idle", c)
BY DEF FrameOK, PlaceFrame, Own, Loop, Early

\* A frame as far as the trail is concerned: all but cat, n, ok and issue.
AlikeFrames(c, g) ==
  /\ g.rid = c.rid /\ g.sev = c.sev /\ g.cascade = c.cascade
  /\ g.tally = c.tally /\ g.recording = c.recording /\ g.todo = c.todo

\* A move inside the loop that counts nothing.
LEMMA LoopMove ==
  ASSUME NEW R, NEW A, NEW D, NEW t, NEW p \in Loop \ {"diagnose"}, NEW c,
         NEW q \in Loop \ {"diagnose"}, NEW g,
         FrameOK(R, A, D, t, p, c), AlikeFrames(c, g),
         q = "degrade" => c.sev \notin Exempt,
         (q = "outcome" /\ g.ok /\ ~c.recording) => Reached(D, c.rid)
  PROVE  FrameOK(R, A, D, t, q, g)
<1>1. PlaceFrame(R, t, q, g)
  BY DEF PlaceFrame, Loop, Early, AlikeFrames
<1>2. ASSUME Own(q, g) PROVE LoopFrame(R, A, D, t, q, g)
  <2>1. LoopFrame(R, A, D, t, p, c) /\ ~c.recording
    BY <1>2 DEF Own, FrameOK, AlikeFrames
  <2> QED
    BY <2>1 DEF LoopFrame, OwnReport, Backed, Heard, AlikeFrames
<1> QED
  BY <1>1, <1>2 DEF FrameOK

\* The loop is entered with nothing counted and every notifier to come.
LEMMA EnterFrame ==
  ASSUME NEW R, NEW A, NEW D, NEW t, NEW q \in {"diagnose", "gate"}, NEW g,
         g.tally = {}, q = "diagnose" => ~g.recording,
         ~g.recording => OwnReport(R, t, g),
         q = "gate" => g.todo = NotifierIds(FlowOf[t])
  PROVE  FrameOK(R, A, D, t, q, g)
<1>1. PlaceFrame(R, t, q, g)
  BY DEF PlaceFrame, Early
<1>2. ASSUME Own(q, g) PROVE LoopFrame(R, A, D, t, q, g)
  BY <1>2 DEF Own, LoopFrame, Backed, Heard
<1> QED
  BY <1>1, <1>2 DEF FrameOK

\* The row that a step of the loop at notifier n commits, and what it counts.
LEMMA RowDone ==
  ASSUME NEW R, NEW A, NEW B, NEW D, NEW t, NEW p \in Loop \ {"diagnose"},
         NEW c \in Frame, NEW g \in Frame, FrameOK(R, A, D, t, p, c),
         GrownActions(A, B), NEW n, NEW o, NEW s,
         g.rid = c.rid, g.sev = c.sev, g.cascade = c.cascade, g.recording = c.recording,
         g.todo = c.todo \ {n}, g.tally = c.tally \cup {o},
         RowFor(B, c.rid, {s}),
         Wants(Notifiers[FlowOf[t]][n], c.sev)
           => RowOf(B, c.rid, Notifiers[FlowOf[t]][n], c.sev, c.cascade),
         \/ o = "sent" /\ s = "sent" /\ (~c.recording => Reached(D, c.rid))
         \/ o = "failed" /\ s = "failed"
         \/ o = "degraded" /\ s = "degraded" /\ (~c.recording => c.sev \notin Exempt)
         \/ o = "cascade_skipped" /\ s = "degraded" /\ c.cascade
  PROVE  FrameOK(R, B, D, t, "gate", g)
<1>1. PlaceFrame(R, t, "gate", g)
  BY DEF PlaceFrame, Early
<1>2. ASSUME Own("gate", g) PROVE LoopFrame(R, B, D, t, "gate", g)
  <2>1. LoopFrame(R, A, D, t, p, c) /\ ~c.recording
    BY <1>2 DEF Own, FrameOK
  <2>2. OwnReport(R, t, g)
    BY <2>1 DEF LoopFrame, OwnReport
  <2>3. Backed(B, D, g)
    <3>1. Backed(B, D, c)
      BY <2>1, BackedStays DEF LoopFrame
    <3> QED
      BY <3>1, <2>1 DEF Backed
  <2>4. Heard(B, FlowOf[t], g)
    <3>1. Heard(A, FlowOf[t], c)
      BY <2>1 DEF LoopFrame
    <3>2. \A v, sev, cascade : RowOf(A, c.rid, v, sev, cascade) => RowOf(B, c.rid, v, sev, cascade)
      BY RowsStay
    <3> SUFFICES ASSUME NEW m \in NotifierIds(FlowOf[t]), m \notin g.todo,
                        Wants(Notifiers[FlowOf[t]][m], g.sev)
                 PROVE  RowOf(B, g.rid, Notifiers[FlowOf[t]][m], g.sev, g.cascade)
      BY DEF Heard
    <3> QED
      BY <3>1, <3>2 DEF Heard
  <2> QED
    BY <2>2, <2>3, <2>4 DEF LoopFrame
<1> QED
  BY <1>1, <1>2 DEF FrameOK

\* The step's row is in the table it leaves behind.
LEMMA NewRow ==
  ASSUME TypeOK, NEW t \in Thread, NEW n \in NotifierIds(FlowOf[t]),
         NEW s \in Status, SaveAction(t, n, s)
  PROVE  /\ GrownActions(actions, actions')
         /\ RowFor(actions', call[t].rid, {s})
         /\ (s \in {"sent", "failed"} \/ call[t].sev \notin Exempt \/ CascadeSuppressed(t, n))
              => RowOf(actions', call[t].rid, Notifiers[FlowOf[t]][n], call[t].sev, call[t].cascade)
<1> DEFINE r == Row(t, n, s)
<1>1. r \in Action
  <2>1. call[t] \in Frame /\ FlowOf[t] \in Flow /\ clock \in Int
    BY ConfigAssumption DEF TypeOK
  <2>2. Notifiers[FlowOf[t]] \in Seq(NotifierType)
    BY <2>1, ConfigAssumption
  <2>3. Notifiers[FlowOf[t]][n] \in NotifierType
    BY <2>2, ElementOfSeq, LenProperties DEF NotifierIds
  <2> QED
    BY <2>1, <2>3 DEF Row, Action, Frame, NotifierType
<1>2. r.rid = call[t].rid /\ r.type = Notifiers[FlowOf[t]][n].type /\ r.status = s
  BY DEF Row
<1> HIDE DEF r
<1>3. actions' = Append(actions, r) /\ actions \in Seq(Action)
  BY DEF SaveAction, TypeOK, r
<1>4. GrownActions(actions, actions')
  BY <1>1, <1>3, AppendGrows
<1>5. PICK k \in DOMAIN actions' : actions'[k] = r
  <2>1. Len(actions) + 1 \in 1..(Len(actions) + 1)
    BY <1>3, LenProperties
  <2> QED
    BY <2>1, <1>1, <1>3, AppendRow
<1>6. RowFor(actions', call[t].rid, {s})
  BY <1>2, <1>5 DEF RowFor
<1>7. ASSUME s \in {"sent", "failed"} \/ call[t].sev \notin Exempt \/ CascadeSuppressed(t, n)
      PROVE  RowOf(actions', call[t].rid, Notifiers[FlowOf[t]][n], call[t].sev, call[t].cascade)
  <2>1. Answers(r, call[t].rid, Notifiers[FlowOf[t]][n], call[t].sev, call[t].cascade)
    BY <1>2, <1>7 DEF Answers, CascadeSuppressed
  <2> QED
    BY <2>1, <1>5 DEF RowOf
<1> QED
  BY <1>4, <1>6, <1>7

\* Committing a row and counting it.
LEMMA RowStep ==
  ASSUME TypeOK, Frames, NEW t \in Thread, pc[t] \in Loop \ {"diagnose"},
         NEW n \in NotifierIds(FlowOf[t]), NEW s \in Status, NEW o \in Status \cup Skip,
         SaveAction(t, n, s), Done(t, n, {o}), reports' = reports, delivered' = delivered,
         \/ o = "sent" /\ s = "sent" /\ (~call[t].recording => Reached(delivered, call[t].rid))
         \/ o = "failed" /\ s = "failed"
         \/ o = "degraded" /\ s = "degraded" /\ call[t].sev \notin Exempt
         \/ o = "cascade_skipped" /\ s = "degraded" /\ CascadeSuppressed(t, n)
  PROVE  StepFrame(t)
<1> DEFINE c == call[t]
           g == Counted(c, n, {o})
<1>1. c \in Frame /\ FrameOK(reports, actions, delivered, t, pc[t], c)
  BY DEF TypeOK, Frames
<1>2. /\ g \in Frame
      /\ g.rid = c.rid /\ g.sev = c.sev /\ g.cascade = c.cascade /\ g.recording = c.recording
      /\ g.todo = c.todo \ {n} /\ g.tally = c.tally \cup {o}
  BY <1>1 DEF Frame, Counted
<1>3. Move(t, "gate", g)
  BY DoneMoves
<1>4. /\ GrownActions(actions, actions')
      /\ RowFor(actions', c.rid, {s})
      /\ RowOf(actions', c.rid, Notifiers[FlowOf[t]][n], c.sev, c.cascade)
  BY NewRow
<1>5. CascadeSuppressed(t, n) => c.cascade
  BY DEF CascadeSuppressed
<1> HIDE DEF c, g
<1>6. FrameOK(reports, actions', delivered, t, "gate", g)
  BY <1>1, <1>2, <1>4, <1>5, RowDone DEF c
<1>7. Grown(reports, actions, delivered, reports', actions', delivered')
  BY <1>4, StillGrows DEF Grown
<1> QED
  BY <1>3, <1>6, <1>7 DEF StepFrame

\* A step that leaves the tables alone, but for a message sent.
LEMMA MoveOnly ==
  ASSUME NEW t \in Thread, NEW p, NEW g, Move(t, p, g), reports' = reports,
         actions' = actions, delivered \subseteq delivered',
         FrameOK(reports, actions, delivered', t, p, g)
  PROVE  StepFrame(t)
BY StillGrows DEF StepFrame

LEMMA FindFrame ==
  ASSUME TypeOK, Frames, NEW t \in Thread,
         FindHit(t) \/ FindNone(t) \/ RecordDedupHit(t) \/ CheckCascade(t)
  PROVE  StepFrame(t)
<1> DEFINE c == call[t]
<1>1. c \in Frame /\ PlaceFrame(reports, t, pc[t], c)
  BY DEF TypeOK, Frames, FrameOK
<1>2. CASE FindHit(t)
  <2>1. PICK i \in Newest(reports, SeenBefore(c.sig)) :
          Move(t, "hit", [c EXCEPT !.rid = i])
    BY <1>2 DEF FindHit
  <2> DEFINE g == [c EXCEPT !.rid = i]
  <2>2. i \in DOMAIN reports /\ reports[i].sig = c.sig
    BY <2>1 DEF Newest, SeenBefore, SignatureMatches
  <2>3. /\ g.sig = c.sig /\ g.tally = c.tally /\ g.recording = c.recording
        /\ g.cascade = c.cascade /\ g.rid = i
    BY <1>1 DEF Frame
  <2>4. Move(t, "hit", g) /\ pc[t] = "find" /\ reports' = reports /\ actions' = actions
        /\ delivered' = delivered
    BY <1>2, <2>1 DEF FindHit, store
  <2> HIDE DEF c, g
  <2>5. FrameOK(reports, actions, delivered, t, "hit", g)
    BY <1>1, <2>2, <2>3, <2>4 DEF PlaceFrame, FrameOK, Own, Loop, Early
  <2> QED
    BY <2>4, <2>5, MoveOnly
<1>3. CASE FindNone(t)
  <2> DEFINE p == IF c.api = "report" THEN "cascade" ELSE "save"
  <2>1. Move(t, p, c) /\ pc[t] = "find" /\ reports' = reports /\ actions' = actions
        /\ delivered' = delivered
    BY <1>3 DEF FindNone, store
  <2>2. p \in {"cascade", "save"}
    OBVIOUS
  <2> HIDE DEF c, p
  <2>3. FrameOK(reports, actions, delivered, t, p, c)
    BY <1>1, <2>1, <2>2 DEF PlaceFrame, FrameOK, Own, Loop, Early
  <2> QED
    BY <2>1, <2>3, MoveOnly
<1>4. CASE RecordDedupHit(t)
  <2>1. /\ Move(t, "hitDecision", c) /\ pc[t] = "hit" /\ actions' = actions
        /\ reports' = IncrementDedup(reports, c.rid) /\ delivered' = delivered
    BY <1>4 DEF RecordDedupHit
  <2>2. GrownReports(reports, reports')
    BY <2>1, CountedRepeat DEF GrownReports, SameReport
  <2>3. Grown(reports, actions, delivered, reports', actions', delivered')
    BY <2>1, <2>2, StillGrows DEF Grown
  <2>4. FrameOK(reports, actions, delivered, t, "hitDecision", c)
    BY <1>1, <2>1 DEF PlaceFrame, FrameOK, Own, Loop, Early
  <2>5. FrameOK(reports', actions', delivered', t, "hitDecision", c)
    BY <2>3, <2>4, FrameStays
  <2> QED
    BY <2>1, <2>3, <2>5 DEF StepFrame
<1>5. CASE CheckCascade(t)
  <2> DEFINE g == [c EXCEPT !.cascade = CascadeSource(FlowOf[t])]
  <2>1. Move(t, "save", g) /\ pc[t] = "cascade" /\ reports' = reports /\ actions' = actions
        /\ delivered' = delivered
    BY <1>5 DEF CheckCascade, store
  <2>2. CascadeSource(FlowOf[t]) => Upstreamed(reports, FlowOf[t])
    BY DEF CascadeSource, HasRecentFailure, Upstreamed
  <2>3. /\ g.tally = c.tally /\ g.recording = c.recording
        /\ g.cascade = CascadeSource(FlowOf[t])
    BY <1>1 DEF Frame
  <2> HIDE DEF c, g
  <2>4. FrameOK(reports, actions, delivered, t, "save", g)
    BY <1>1, <2>1, <2>2, <2>3 DEF PlaceFrame, FrameOK, Own, Loop, Early
  <2> QED
    BY <2>1, <2>4, MoveOnly
<1> QED
  BY <1>2, <1>3, <1>4, <1>5

\* What save_report commits is what its thread then answers for.
LEMMA StoreFrame ==
  ASSUME TypeOK, Frames, NEW t \in Thread, SaveReport(t) \/ Diagnose(t)
  PROVE  StepFrame(t)
<1> DEFINE c == call[t]
<1>1. /\ c \in Frame /\ PlaceFrame(reports, t, pc[t], c)
      /\ Own(pc[t], c) => OwnReport(reports, t, c)
  BY DEF TypeOK, Frames, FrameOK, LoopFrame
<1>2. CASE SaveReport(t)
  <2> DEFINE r == [flow |-> FlowOf[t], sig |-> c.sig, sev |-> c.sev,
                   at |-> clock, cascade |-> c.cascade, by |-> t, dedup |-> 1]
             last == Len(reports) + 1
             g == [c EXCEPT !.rid = last]
             h == EnterDispatch(t, g)
  <2>1. /\ reports' = Append(reports, r) /\ actions' = actions /\ delivered' = delivered
        /\ pc[t] = "save"
    BY <1>2 DEF SaveReport
  <2>2. Move(t, "diagnose", g) \/ Move(t, "gate", h)
    BY <1>2 DEF SaveReport
  <2>3. r \in Report /\ r.sev = c.sev /\ r.cascade = c.cascade /\ r.by = t
    BY StoredReport DEF Report
  <2>4. reports \in Seq(Report) /\ last \in Nat
    BY LenProperties DEF TypeOK
  <2>5. /\ g.rid = last /\ g.sev = c.sev /\ g.cascade = c.cascade /\ g.tally = {}
        /\ ~g.recording
    BY <1>1, <2>1, <2>4 DEF Frame, PlaceFrame, Early
  <2>6. /\ h.rid = last /\ h.sev = c.sev /\ h.cascade = c.cascade /\ h.tally = {}
        /\ h.todo = NotifierIds(FlowOf[t])
    BY <1>1, <2>1, <2>4 DEF Frame, PlaceFrame, Early, EnterDispatch
  <2> HIDE DEF r, g, h
  <2>7. /\ DOMAIN reports' = 1..last /\ DOMAIN reports = 1..Len(reports) /\ Len(reports) \in Nat
        /\ \A i \in DOMAIN reports : reports'[i] = reports[i]
        /\ reports'[last] = r
    BY <2>1, <2>3, <2>4, AppendRow
  <2>8. Grown(reports, actions, delivered, reports', actions', delivered')
    BY <2>1, <2>7 DEF Grown, GrownReports, GrownActions, SameReport
  <2>9. OwnReport(reports', t, g) /\ OwnReport(reports', t, h)
    BY <2>3, <2>5, <2>6, <2>7 DEF OwnReport
  <2>10. FrameOK(reports', actions', delivered', t, "diagnose", g)
    BY <2>5, <2>9, EnterFrame
  <2>11. FrameOK(reports', actions', delivered', t, "gate", h)
    BY <2>6, <2>9, EnterFrame
  <2> QED
    BY <2>2, <2>8, <2>10, <2>11 DEF StepFrame
<1>3. CASE Diagnose(t)
  <2>1. PICK k : Move(t, "gate", EnterDispatch(t, [c EXCEPT !.cat = k]))
    BY <1>3 DEF Diagnose
  <2> DEFINE g == EnterDispatch(t, [c EXCEPT !.cat = k])
  <2>2. Move(t, "gate", g) /\ pc[t] = "diagnose" /\ reports' = reports /\ actions' = actions
        /\ delivered' = delivered
    BY <1>3, <2>1 DEF Diagnose, store
  <2>3. /\ g.rid = c.rid /\ g.sev = c.sev /\ g.cascade = c.cascade /\ g.tally = c.tally
        /\ g.recording = c.recording /\ g.todo = NotifierIds(FlowOf[t])
    BY <1>1 DEF Frame, EnterDispatch
  <2>4. c.tally = {} /\ ~c.recording /\ OwnReport(reports, t, c)
    BY <1>1, <2>2 DEF PlaceFrame, Early, Own, Loop
  <2> HIDE DEF c, g
  <2>5. OwnReport(reports, t, g)
    BY <2>3, <2>4 DEF OwnReport
  <2>6. FrameOK(reports, actions, delivered, t, "gate", g)
    BY <2>3, <2>4, <2>5, EnterFrame
  <2> QED
    BY <2>2, <2>6, MoveOnly
<1> QED
  BY <1>2, <1>3

\* A notifier that is passed over did not want the report.
LEMMA SkipFrame ==
  ASSUME TypeOK, Frames, NEW t \in Thread, SkipNotifier(t)
  PROVE  StepFrame(t)
<1> DEFINE c == call[t]
<1>1. PICK n : /\ n \in Upcoming(FlowOf[t], c.todo) /\ PassedOver(t, n) # {}
               /\ Done(t, n, PassedOver(t, n) \ {"not_archival"})
  BY DEF SkipNotifier
<1> DEFINE w == PassedOver(t, n) \ {"not_archival"}
           g == Counted(c, n, w)
<1>2. c \in Frame /\ FrameOK(reports, actions, delivered, t, "gate", c)
  BY DEF TypeOK, Frames, SkipNotifier
<1>3. Move(t, "gate", g) /\ reports' = reports /\ actions' = actions /\ delivered' = delivered
  BY <1>1, DoneMoves DEF SkipNotifier, store
<1>4. w \subseteq {"severity_skipped", "category_skipped"}
  BY DEF PassedOver
<1>5. c.recording \/ ~Wants(Notifiers[FlowOf[t]][n], c.sev)
  BY <1>1 DEF PassedOver, Wants
<1> HIDE DEF w
<1>6. /\ g.rid = c.rid /\ g.sev = c.sev /\ g.cascade = c.cascade
      /\ g.recording = c.recording /\ g.todo = c.todo \ {n} /\ g.tally = c.tally \cup w
  BY <1>2 DEF Frame, Counted
<1> HIDE DEF c, g
<1>7. PlaceFrame(reports, t, "gate", g)
  BY DEF PlaceFrame, Early
<1>8. ASSUME Own("gate", g) PROVE LoopFrame(reports, actions, delivered, t, "gate", g)
  <2>1. LoopFrame(reports, actions, delivered, t, "gate", c) /\ ~c.recording
    BY <1>2, <1>6, <1>8 DEF Own, FrameOK
  <2>2. OwnReport(reports, t, g)
    BY <2>1, <1>6 DEF LoopFrame, OwnReport
  <2>3. Backed(actions, delivered, g)
    BY <2>1, <1>4, <1>6 DEF LoopFrame, Backed
  <2>4. Heard(actions, FlowOf[t], g)
    BY <2>1, <1>5, <1>6 DEF LoopFrame, Heard
  <2> QED
    BY <2>2, <2>3, <2>4 DEF LoopFrame
<1>9. FrameOK(reports, actions, delivered, t, "gate", g)
  BY <1>7, <1>8 DEF FrameOK
<1> QED
  BY <1>3, <1>9, MoveOnly

\* From the budget check to the outcome of the send nothing is counted.
LEMMA SendFrame ==
  ASSUME TypeOK, Frames, NEW t \in Thread,
         CheckBudget(t) \/ SetResolution(t) \/ SendAccepted(t) \/ SendRefused(t)
         \/ SendRaised(t) \/ LoseOutcome(t)
  PROVE  StepFrame(t)
<1> DEFINE c == call[t]
<1>1. c \in Frame /\ FrameOK(reports, actions, delivered, t, pc[t], c)
  BY DEF TypeOK, Frames
<1>2. CASE CheckBudget(t)
  <2>1. PICK n, p : /\ p \in {"degrade", "resolve", "send"}
                    /\ Move(t, p, [c EXCEPT !.n = n])
                    /\ p = "degrade" => c.sev \notin Exempt
    BY <1>2, Zenon DEF CheckBudget, Allowed
  <2> DEFINE g == [c EXCEPT !.n = n]
  <2>2. AlikeFrames(c, g)
    BY <1>1 DEF Frame, AlikeFrames
  <2>3. Move(t, p, g) /\ pc[t] = "gate" /\ reports' = reports /\ actions' = actions
        /\ delivered' = delivered
    BY <1>2, <2>1, Zenon DEF CheckBudget, AtNotifier, store
  <2> HIDE DEF c, g
  <2>4. FrameOK(reports, actions, delivered, t, p, g)
    BY <1>1, <2>1, <2>2, <2>3, LoopMove DEF Loop
  <2> QED
    BY <2>3, <2>4, MoveOnly
<1>3. CASE SetResolution(t)
  <2>1. Move(t, "send", c) /\ pc[t] = "resolve" /\ reports' = reports /\ actions' = actions
        /\ delivered' = delivered
    BY <1>3 DEF SetResolution, store
  <2>2. FrameOK(reports, actions, delivered, t, "send", c)
    BY <1>1, <2>1, LoopMove DEF Loop, AlikeFrames
  <2> QED
    BY <2>1, <2>2, MoveOnly
<1>4. CASE SendAccepted(t)
  <2>1. pc[t] = "send" /\ reports' = reports /\ actions' = actions
    BY <1>4 DEF SendAccepted, store
  <2>2. PICK a \in {"target", "issue"} : /\ delivered' = delivered \cup {Sent(t, a)}
                                         /\ Move(t, "outcome", Accepted(c, a))
    BY <1>4, Accepts
  <2> DEFINE g == Accepted(c, a)
             m == Sent(t, a)
  <2>m. m \in delivered' /\ m.rid = c.rid /\ m.recording = c.recording /\ m.answer # "none"
    BY <2>2 DEF Sent
  <2>3. AlikeFrames(c, g)
    BY <1>1 DEF Frame, Accepted, AlikeFrames
  <2> HIDE DEF c, g, m
  <2>4. ~c.recording => Reached(delivered', c.rid)
    BY <2>m DEF Reached
  <2>5. FrameOK(reports, actions, delivered', t, "send", c)
    <3>1. Grown(reports, actions, delivered, reports, actions, delivered')
      BY <2>2, StillGrows
    <3>2. FrameOK(reports, actions, delivered, t, "send", c)
      BY <1>1, <2>1
    <3> QED
      BY <3>1, <3>2, FrameStays
  <2>6. FrameOK(reports, actions, delivered', t, "outcome", g)
    BY <2>3, <2>4, <2>5, LoopMove DEF Loop
  <2> QED
    BY <2>1, <2>2, <2>6, MoveOnly DEF c, g
<1>5. CASE SendRefused(t)
  <2> DEFINE g == [c EXCEPT !.ok = FALSE]
  <2>1. Move(t, "outcome", g) /\ pc[t] = "send" /\ reports' = reports /\ actions' = actions
        /\ delivered \subseteq delivered'
    BY <1>5, Unanswers DEF SendRefused
  <2>2. AlikeFrames(c, g) /\ ~g.ok
    BY <1>1 DEF Frame, AlikeFrames
  <2> HIDE DEF g
  <2>3. FrameOK(reports, actions, delivered', t, "send", c)
    <3>1. Grown(reports, actions, delivered, reports, actions, delivered')
      BY <2>1, StillGrows
    <3>2. FrameOK(reports, actions, delivered, t, "send", c)
      BY <1>1, <2>1
    <3> QED
      BY <3>1, <3>2, FrameStays
  <2>4. FrameOK(reports, actions, delivered', t, "outcome", g)
    BY <2>1, <2>2, <2>3, LoopMove DEF Loop
  <2> QED
    BY <2>1, <2>4, MoveOnly
<1>6. CASE SendRaised(t) \/ LoseOutcome(t)
  <2>1. Move(t, "recover", c) /\ pc[t] \in {"send", "outcome"} /\ reports' = reports
        /\ actions' = actions /\ delivered \subseteq delivered'
    BY <1>6, Unanswers DEF SendRaised, LoseOutcome, store
  <2>2. FrameOK(reports, actions, delivered', t, pc[t], c)
    <3>1. Grown(reports, actions, delivered, reports, actions, delivered')
      BY <2>1, StillGrows
    <3> QED
      BY <1>1, <3>1, FrameStays
  <2>3. FrameOK(reports, actions, delivered', t, "recover", c)
    BY <2>1, <2>2, LoopMove DEF Loop, AlikeFrames
  <2> QED
    BY <2>1, <2>3, MoveOnly
<1> QED
  BY <1>2, <1>3, <1>4, <1>5, <1>6

\* The steps that commit a row.
LEMMA OutcomeFrame ==
  ASSUME TypeOK, Located, Frames, NEW t \in Thread,
         SuppressCascade(t) \/ Degrade(t) \/ SaveOutcome(t) \/ SaveFailure(t)
  PROVE  StepFrame(t)
<1> DEFINE c == call[t]
<1>1. FrameOK(reports, actions, delivered, t, pc[t], c)
  BY DEF Frames
<1>2. CASE SuppressCascade(t)
  <2>1. PICK n \in NotifierIds(FlowOf[t]) :
          /\ AtNotifier(t, n) /\ CascadeSuppressed(t, n)
          /\ SaveAction(t, n, "degraded") /\ Done(t, n, {"cascade_skipped"})
    BY <1>2 DEF SuppressCascade
  <2>2. pc[t] = "gate" /\ reports' = reports /\ delivered' = delivered
    BY <1>2, <2>1 DEF SuppressCascade, AtNotifier
  <2> QED
    BY <2>1, <2>2, RowStep DEF Loop, Status, Skip
<1>3. CASE Degrade(t)
  <2>1. /\ c.n \in NotifierIds(FlowOf[t]) /\ pc[t] = "degrade" /\ reports' = reports
        /\ delivered' = delivered
        /\ SaveAction(t, c.n, "degraded") /\ Done(t, c.n, {"degraded"})
    BY <1>3 DEF Degrade, Located
  <2>2. c.sev \notin Exempt
    BY <1>1, <2>1 DEF FrameOK, PlaceFrame
  <2> QED
    BY <2>1, <2>2, RowStep DEF Loop, Status
<1>4. CASE SaveOutcome(t)
  <2>1. /\ c.n \in NotifierIds(FlowOf[t]) /\ pc[t] = "outcome" /\ reports' = reports
        /\ delivered' = delivered
    BY <1>4 DEF SaveOutcome, Located
  <2>2. PICK s : /\ s = IF c.ok THEN "sent" ELSE "failed"
                 /\ SaveAction(t, c.n, s) /\ Done(t, c.n, {s})
    BY <1>4 DEF SaveOutcome
  <2>3. s = "sent" => (~c.recording => Reached(delivered, c.rid))
    BY <1>1, <2>1, <2>2 DEF FrameOK, LoopFrame, Own, Loop
  <2> QED
    BY <2>1, <2>2, <2>3, RowStep DEF Loop, Status
<1>5. CASE SaveFailure(t)
  <2>1. /\ c.n \in NotifierIds(FlowOf[t]) /\ pc[t] = "recover" /\ reports' = reports
        /\ delivered' = delivered
        /\ SaveAction(t, c.n, "failed") /\ Done(t, c.n, {"failed"})
    BY <1>5 DEF SaveFailure, Located
  <2> QED
    BY <2>1, RowStep DEF Loop, Status
<1> QED
  BY <1>2, <1>3, <1>4, <1>5

\* The steps that record a decision or return.
LEMMA LeaveFrame ==
  ASSUME TypeOK, Frames, NEW t \in Thread,
         DecideDeduped(t) \/ DecideDispatched(t) \/ ReturnUndecided(t) \/ Abort(t)
  PROVE  StepFrame(t)
<1>1. CASE DecideDeduped(t)
  <2> DEFINE g == EnterDispatch(t, [call[t] EXCEPT !.recording = TRUE])
  <2>1. call[t] \in Frame /\ PlaceFrame(reports, t, pc[t], call[t])
    BY DEF TypeOK, Frames, FrameOK
  <2>2. Move(t, "gate", g) /\ pc[t] = "hitDecision" /\ reports' = reports /\ actions' = actions
        /\ delivered' = delivered
    BY <1>1 DEF DecideDeduped, RecordDecision
  <2>3. g.recording /\ g.tally = {} /\ g.todo = NotifierIds(FlowOf[t])
    BY <2>1, <2>2 DEF Frame, EnterDispatch, PlaceFrame, Early
  <2> HIDE DEF g
  <2>4. FrameOK(reports, actions, delivered, t, "gate", g)
    BY <2>3, EnterFrame
  <2> QED
    BY <2>2, <2>4, MoveOnly
<1>2. CASE DecideDispatched(t) \/ ReturnUndecided(t) \/ Abort(t)
  <2>1. Move(t, "idle", NoCall) /\ reports' = reports /\ actions' = actions
        /\ delivered' = delivered
    BY <1>2 DEF DecideDispatched, ReturnUndecided, Abort, RecordDecision, store
  <2> QED
    BY <2>1, IdleFrame, MoveOnly
<1> QED
  BY <1>1, <1>2

LEMMA EveryStepFrame ==
  ASSUME TypeOK, Located, Frames, NEW t \in Thread, Step(t)
  PROVE  StepFrame(t)
BY FindFrame, StoreFrame, SkipFrame, SendFrame, OutcomeFrame, LeaveFrame, Step(t), Zenon DEF Step

\* The host, a crash and time change no table and no frame of the loop.
LEMMA OtherFrames ==
  ASSUME TypeOK, Frames,
         \/ \E t \in Thread, in \in Inputs : Call(t, in)
         \/ \E f \in Flow : Crash(f)
         \/ Tick \/ Rest \/ UNCHANGED vars
  PROVE  /\ Frames' /\ decisions' = decisions
         /\ reports' = reports /\ actions' = actions /\ delivered' = delivered
<1>1. CASE \E t \in Thread, in \in Inputs : Call(t, in)
  <2>1. PICK t \in Thread, in \in Inputs : Call(t, in)
    BY <1>1
  <2> DEFINE p == IF in.sig = NoSig THEN "save" ELSE "find"
             g == [NoCall EXCEPT !.api = in.api, !.sev = in.sev, !.sig = in.sig]
  <2>2. /\ Move(t, p, g) /\ reports' = reports /\ actions' = actions /\ delivered' = delivered
        /\ decisions' = decisions
    BY <2>1 DEF Call, store
  <2>3. g.sig = in.sig /\ g.tally = {} /\ ~g.recording /\ ~g.cascade
    BY DEF NoCall
  <2>4. p \in {"save", "find"} /\ (p = "find" => in.sig # NoSig)
    OBVIOUS
  <2> HIDE DEF p, g
  <2>5. FrameOK(reports, actions, delivered, t, p, g)
    BY <2>3, <2>4 DEF FrameOK, PlaceFrame, Own, Loop
  <2> QED
    BY <2>2, <2>5, MoveOnly, FramesMove
<1>2. CASE \E f \in Flow : Crash(f)
  <2>1. PICK f \in Flow : Crash(f)
    BY <1>2
  <2>2. /\ reports' = reports /\ actions' = actions /\ delivered' = delivered
        /\ decisions' = decisions
    BY <2>1 DEF Crash, store
  <2>3. \A t \in Thread : IF FlowOf[t] = f THEN pc'[t] = "idle"
                          ELSE pc'[t] = pc[t] /\ call'[t] = call[t]
    BY <2>1 DEF Crash
  <2>4. \A t \in Thread : FrameOK(reports, actions, delivered, t, pc'[t], call'[t])
    BY <2>3, IdleFrame DEF Frames
  <2> QED
    BY <2>2, <2>4 DEF Frames
<1>3. CASE Tick \/ Rest \/ UNCHANGED vars
  BY <1>3 DEF Tick, Rest, vars, store, Frames
<1> QED
  BY <1>1, <1>2, <1>3

\* _classify_dispatch names a counter that is not zero.
LEMMA ClassifyMeans ==
  ASSUME NEW y \in SUBSET (Status \cup Skip)
  PROVE  /\ Classify(y) = "fired" <=> "sent" \in y
         /\ Classify(y) = "delivery_failed" <=> "sent" \notin y /\ "failed" \in y
         /\ Classify(y) = "rate_limited" => "degraded" \in y
         /\ Classify(y) = "cascade_suppressed" => "cascade_skipped" \in y
         /\ Classify(y) # "deduped"
BY DEF Classify, Status

\* A step adds at most one decision, the one RecordDecision is given.
LEMMA DecisionRows ==
  ASSUME TypeOK, NEW t \in Thread, NEW r \in Reason, RecordDecision(t, r)
  PROVE  \E d \in Decision :
           /\ d.rid = call[t].rid /\ d.flow = FlowOf[t] /\ d.reason = r
           /\ \A k \in DOMAIN decisions' :
                (k \in DOMAIN decisions /\ decisions'[k] = decisions[k]) \/ decisions'[k] = d
<1> DEFINE d == [rid |-> call[t].rid, flow |-> FlowOf[t], reason |-> r]
<1>1. d \in Decision /\ d.rid = call[t].rid /\ d.flow = FlowOf[t] /\ d.reason = r
  BY ConfigAssumption DEF TypeOK, Decision, Frame
<1>2. decisions' = Append(decisions, d) \/ decisions' = decisions
  BY Zenon DEF RecordDecision
<1>3. decisions \in Seq(Decision)
  BY DEF TypeOK
<1> HIDE DEF d
<1>4. \A k \in DOMAIN decisions' :
        (k \in DOMAIN decisions /\ decisions'[k] = decisions[k]) \/ decisions'[k] = d
  <2>1. CASE decisions' = decisions
    BY <2>1
  <2>2. CASE decisions' = Append(decisions, d)
    <3>1. /\ DOMAIN decisions' = 1..(Len(decisions) + 1) /\ DOMAIN decisions = 1..Len(decisions)
          /\ Len(decisions) \in Nat
          /\ \A i \in DOMAIN decisions : decisions'[i] = decisions[i]
          /\ decisions'[Len(decisions) + 1] = d
      BY <1>1, <1>3, <2>2, AppendRow
    <3> QED
      BY <3>1
  <2> QED
    BY <1>2, <2>1, <2>2
<1> QED
  BY <1>1, <1>4

\* A step records no decision, or one that is true of the tables.
LEMMA StepDecides ==
  ASSUME TypeOK, Frames, NEW t \in Thread, Step(t)
  PROVE  \/ decisions' = decisions
         \/ \E d \in Decision :
              /\ DecisionOK(reports, actions, delivered, d)
              /\ \A k \in DOMAIN decisions' :
                   (k \in DOMAIN decisions /\ decisions'[k] = decisions[k]) \/ decisions'[k] = d
<1> DEFINE c == call[t]
<1>1. c \in Frame /\ FrameOK(reports, actions, delivered, t, pc[t], c)
  BY DEF TypeOK, Frames
<1>2. CASE DecideDeduped(t)
  <2>1. RecordDecision(t, "deduped") /\ pc[t] = "hitDecision"
    BY <1>2 DEF DecideDeduped
  <2>2. PICK d \in Decision :
           /\ d.rid = c.rid /\ d.flow = FlowOf[t] /\ d.reason = "deduped"
           /\ \A k \in DOMAIN decisions' :
                (k \in DOMAIN decisions /\ decisions'[k] = decisions[k]) \/ decisions'[k] = d
    BY <2>1, DecisionRows DEF Reason
  <2>3. DecisionOK(reports, actions, delivered, d)
    BY <1>1, <2>1, <2>2 DEF FrameOK, PlaceFrame, DecisionOK, Honest, AllAnswered
  <2> QED
    BY <2>2, <2>3
<1>3. CASE DecideDispatched(t)
  <2>1. /\ RecordDecision(t, Classify(c.tally)) /\ pc[t] = "gate" /\ c.todo = {}
        /\ ~c.recording
    BY <1>3 DEF DecideDispatched
  <2>2. PICK d \in Decision :
           /\ d.rid = c.rid /\ d.flow = FlowOf[t] /\ d.reason = Classify(c.tally)
           /\ \A k \in DOMAIN decisions' :
                (k \in DOMAIN decisions /\ decisions'[k] = decisions[k]) \/ decisions'[k] = d
    BY <2>1, DecisionRows, ClassifyType
  <2>3. LoopFrame(reports, actions, delivered, t, "gate", c)
    BY <1>1, <2>1 DEF FrameOK, Own, Loop
  <2>4. c.tally \in SUBSET (Status \cup Skip)
    BY <1>1 DEF Frame
  <2>5. Honest(reports, actions, delivered, d)
    BY <2>2, <2>3, <2>4, ClassifyMeans DEF LoopFrame, OwnReport, Backed, Honest
  <2>6. AllAnswered(reports, actions, d)
    BY <2>1, <2>2, <2>3 DEF LoopFrame, OwnReport, Heard, AllAnswered
  <2> QED
    BY <2>2, <2>5, <2>6 DEF DecisionOK
<1>4. CASE ~(DecideDeduped(t) \/ DecideDispatched(t))
  <2>1. decisions' = decisions
    BY <1>4, Step(t), Zenon DEF Step, FindHit, FindNone, RecordDedupHit, CheckCascade,
       SaveReport, Diagnose, SkipNotifier, SuppressCascade, CheckBudget, Degrade,
       SetResolution, SendAccepted, SendRefused, SendRaised, SaveOutcome, SaveFailure,
       ReturnUndecided, LoseOutcome, Abort, store
  <2> QED
    BY <2>1
<1> QED
  BY <1>2, <1>3, <1>4

\* Every report but a new one of thread t was there before.
LEMMA ReportRows ==
  ASSUME TypeOK, NEW t \in Thread, Step(t)
  PROVE  \/ DOMAIN reports' = DOMAIN reports
         \/ /\ SaveReport(t)
            /\ DOMAIN reports' = DOMAIN reports \cup {Len(reports) + 1}
            /\ DOMAIN reports = 1..Len(reports) /\ Len(reports) \in Nat
            /\ reports'[Len(reports) + 1].flow = FlowOf[t]
            /\ reports'[Len(reports) + 1].cascade = call[t].cascade
            /\ pc[t] = "save"
<1>1. CASE SaveReport(t)
  <2> DEFINE r == [flow |-> FlowOf[t], sig |-> call[t].sig, sev |-> call[t].sev,
                   at |-> clock, cascade |-> call[t].cascade, by |-> t, dedup |-> 1]
  <2>1. reports' = Append(reports, r) /\ pc[t] = "save" /\ reports \in Seq(Report)
    BY <1>1 DEF SaveReport, TypeOK
  <2>2. r \in Report /\ r.flow = FlowOf[t] /\ r.cascade = call[t].cascade
    BY StoredReport DEF Report
  <2> HIDE DEF r
  <2>3. /\ DOMAIN reports' = 1..(Len(reports) + 1) /\ DOMAIN reports = 1..Len(reports)
        /\ Len(reports) \in Nat /\ reports'[Len(reports) + 1] = r
    BY <2>1, <2>2, AppendRow
  <2>4. 1..(Len(reports) + 1) = 1..Len(reports) \cup {Len(reports) + 1}
    BY <2>3
  <2> QED
    BY <1>1, <2>1, <2>2, <2>3, <2>4, Zenon
<1>2. CASE RecordDedupHit(t)
  BY <1>2, CountedRepeat DEF RecordDedupHit
<1>3. CASE ~(SaveReport(t) \/ RecordDedupHit(t))
  <2>1. reports' = reports
    BY <1>3, Step(t), Zenon DEF Step, FindHit, FindNone, DecideDeduped, CheckCascade,
       Diagnose, SkipNotifier, SuppressCascade, CheckBudget, Degrade,
       SetResolution, SendAccepted, SendRefused, SendRaised, SaveOutcome, SaveFailure,
       DecideDispatched, ReturnUndecided, LoseOutcome, Abort, RecordDecision, store
  <2> QED
    BY <2>1, Zenon
<1> QED
  BY <1>1, <1>2, <1>3

\* A report is marked a cascade only when the failure upstream is stored already.
LEMMA StepCascade ==
  ASSUME TypeOK, Located, Frames, CascadeHasUpstream, NEW t \in Thread, Step(t)
  PROVE  CascadeHasUpstream'
<1>1. GrownReports(reports, reports')
  BY EveryStepFrame DEF StepFrame, Grown
<1>2. DOMAIN reports = 1..Len(reports) /\ Len(reports) \in Nat
  BY LenProperties DEF TypeOK
<1> SUFFICES ASSUME NEW i \in DOMAIN reports', reports'[i].cascade
             PROVE  \E j \in 1..(i - 1) :
                      /\ reports'[j].flow \in DependsOn[reports'[i].flow]
                      /\ reports'[j].sev \in {"error", "critical"}
  BY DEF CascadeHasUpstream
<1>3. CASE i \in DOMAIN reports
  <2>1. reports[i].cascade /\ reports'[i].flow = reports[i].flow
    BY <1>1, <1>3 DEF GrownReports, SameReport
  <2>2. PICK j \in 1..(i - 1) : /\ reports[j].flow \in DependsOn[reports[i].flow]
                                /\ reports[j].sev \in {"error", "critical"}
    BY <1>3, <2>1 DEF CascadeHasUpstream
  <2>3. j \in DOMAIN reports
    BY <1>2, <1>3
  <2> QED
    BY <1>1, <2>1, <2>2, <2>3 DEF GrownReports, SameReport
<1>4. CASE i \notin DOMAIN reports
  <2>1. /\ i = Len(reports) + 1 /\ pc[t] = "save" /\ call[t].cascade
        /\ reports'[i].flow = FlowOf[t]
    BY <1>4, ReportRows
  <2>2. Upstreamed(reports, FlowOf[t])
    BY <2>1 DEF Frames, FrameOK, PlaceFrame
  <2>3. PICK j \in DOMAIN reports : /\ reports[j].flow \in DependsOn[FlowOf[t]]
                                    /\ reports[j].sev \in {"error", "critical"}
    BY <2>2 DEF Upstreamed
  <2>4. j \in 1..(i - 1)
    BY <1>2, <2>1
  <2> QED
    BY <1>1, <2>1, <2>3, <2>4 DEF GrownReports, SameReport
<1> QED
  BY <1>3, <1>4

LEMMA InitTrail == Init => TrailInv
<1> SUFFICES ASSUME Init PROVE TrailInv
  OBVIOUS
<1>1. TypeOK /\ Located
  BY InitDedupInv DEF DedupInv
<1>2. Frames
  BY IdleFrame DEF Init, Frames
<1>3. Trail /\ CascadeHasUpstream
  BY DEF Init, Trail, CascadeHasUpstream
<1> QED
  BY <1>1, <1>2, <1>3 DEF TrailInv

LEMMA NextTrail == TrailInv /\ [Next]_vars => TrailInv'
<1> SUFFICES ASSUME TrailInv, [Next]_vars PROVE TrailInv'
  OBVIOUS
<1> USE DEF TrailInv
<1>1. TypeOK' /\ Located'
  BY StepType, OtherType DEF Next
<1>2. CASE \E t \in Thread : Step(t)
  <2>1. PICK t \in Thread : Step(t)
    BY <1>2
  <2>2. StepFrame(t)
    BY <2>1, EveryStepFrame
  <2>3. Grown(reports, actions, delivered, reports', actions', delivered')
    BY <2>2 DEF StepFrame
  <2>4. Trail'
    <3> SUFFICES ASSUME NEW k \in DOMAIN decisions'
                 PROVE  DecisionOK(reports', actions', delivered', decisions'[k])
      BY DEF Trail
    <3>1. DecisionOK(reports, actions, delivered, decisions'[k])
      BY <2>1, StepDecides DEF Trail
    <3> QED
      BY <3>1, <2>3, DecisionStays
  <2> QED
    BY <1>1, <2>1, <2>2, <2>4, FramesMove, StepCascade
<1>3. CASE ~\E t \in Thread : Step(t)
  <2>1. /\ Frames' /\ decisions' = decisions
        /\ reports' = reports /\ actions' = actions /\ delivered' = delivered
    BY <1>3, OtherFrames DEF Next
  <2> QED
    BY <1>1, <2>1 DEF Trail, CascadeHasUpstream
<1> QED
  BY <1>2, <1>3

\* The invariant says what the runs check.
LEMMA TrailSays == TrailInv => DecisionMatchesStore /\ RecipientsAccounted /\ CascadeHasUpstream
<1> SUFFICES ASSUME TrailInv PROVE DecisionMatchesStore /\ RecipientsAccounted
  BY DEF TrailInv
<1>1. \A k \in DOMAIN decisions : DecisionOK(reports, actions, delivered, decisions[k])
  BY DEF TrailInv, Trail
<1>2. DecisionMatchesStore
  BY <1>1 DEF DecisionOK, Honest, DecisionMatchesStore, HasRow, Delivery, RowFor, Reached
<1>3. RecipientsAccounted
  BY <1>1 DEF DecisionOK, AllAnswered, RecipientsAccounted, RowOf, Answers, Wants
<1> QED
  BY <1>2, <1>3

\* However calls interleave, abort and lose rows: a recorded reason is backed
\* by the action rows, the messages and the report it cites.
THEOREM DecisionsBacked == Spec => []DecisionMatchesStore
BY InitTrail, NextTrail, TrailSays, PTL DEF Spec

\* When a dispatch is decided, every notifier that opted in has a row, and a
\* failure page on it was attempted, never degraded by the daily cap.
THEOREM EveryoneHeard == Spec => []RecipientsAccounted
BY InitTrail, NextTrail, TrailSays, PTL DEF Spec

\* A report marked a cascade has a failure of a declared dependency stored
\* before it.
THEOREM CascadesFounded == Spec => []CascadeHasUpstream
BY InitTrail, NextTrail, TrailSays, PTL DEF Spec

(***************************************************************************)
(* Silence: what is suppressed paged nobody                                *)
(***************************************************************************)

\* A report still in its thread's hands has no decision yet but those that
\* cite it as the original of a repeat; a message about it has been counted or
\* is about to be, and while no store call has failed it is counted as sent if
\* send() said so.
Taken(D, rid) == \E m \in D : m.rid = rid /\ ~m.recording
Tried(p, c) == c.tally \cap {"sent", "failed"} # {} \/ p \in {"outcome", "recover"}
QuietFrame(D, K, flt, p, c) ==
  Own(p, c) =>
    /\ \A k \in DOMAIN K : K[k].rid = c.rid => K[k].reason = "deduped"
    /\ flt = 0 /\ Reached(D, c.rid) => "sent" \in c.tally \/ (p = "outcome" /\ c.ok)
    /\ Taken(D, c.rid) => Tried(p, c)

MessagesKnown ==
  \A m \in delivered : /\ m.recording \in BOOLEAN
                       /\ ~m.recording => m.rid \in DOMAIN reports
QuietFrames == \A t \in Thread : QuietFrame(delivered, decisions, faults, pc[t], call[t])
QuietInv == TrailInv /\ MessagesKnown /\ QuietFrames /\ QuietMeansQuiet

\* Two threads in the loop are about two reports.
LEMMA Apart ==
  ASSUME Frames, NEW t \in Thread, NEW u \in Thread, t # u,
         Own(pc[t], call[t]), Own(pc[u], call[u])
  PROVE  call[t].rid # call[u].rid
BY DEF Frames, FrameOK, LoopFrame, OwnReport

\* Only send() lets a message out, and it is about the sender's report.
LEMMA MessageRows ==
  ASSUME NEW t \in Thread, Step(t)
  PROVE  /\ delivered \subseteq delivered'
         /\ \A m \in delivered' \ delivered :
              /\ pc[t] = "send"
              /\ \/ SendAccepted(t) /\ m.answer \in {"target", "issue"}
                 \/ (SendRefused(t) \/ SendRaised(t)) /\ m.answer = "none"
              /\ m.answer = "issue" => Here(t).files
              /\ m.flow = FlowOf[t] /\ m.rid = call[t].rid /\ m.n = call[t].n
              /\ m.recording = call[t].recording /\ m.at = clock
              /\ m.issue = resolution[FlowOf[t]][call[t].n]
<1>0. ASSUME NEW a
      PROVE  LET m == Sent(t, a)
             IN  /\ m.flow = FlowOf[t] /\ m.rid = call[t].rid /\ m.n = call[t].n
                 /\ m.recording = call[t].recording /\ m.at = clock
                 /\ m.issue = resolution[FlowOf[t]][call[t].n] /\ m.answer = a
  BY DEF Sent
<1>1. CASE SendAccepted(t)
  <2>1. pc[t] = "send"
    BY <1>1 DEF SendAccepted
  <2>2. PICK a \in {"target", "issue"} : /\ a = "issue" => Here(t).files
                                         /\ delivered' = delivered \cup {Sent(t, a)}
    BY <1>1, Accepts
  <2> QED
    BY <1>0, <1>1, <2>1, <2>2
<1>2. CASE SendRefused(t) \/ SendRaised(t)
  BY <1>0, <1>2, Unanswers
<1>3. CASE ~(SendAccepted(t) \/ SendRefused(t) \/ SendRaised(t))
  <2>1. delivered' = delivered
    BY <1>3, Step(t), Zenon DEF Step, FindHit, FindNone, RecordDedupHit, DecideDeduped,
       CheckCascade, SaveReport, Diagnose, SkipNotifier, SuppressCascade, CheckBudget,
       Degrade, SetResolution, SaveOutcome, SaveFailure,
       DecideDispatched, ReturnUndecided, LoseOutcome, Abort, RecordDecision
  <2> QED
    BY <2>1
<1> QED
  BY <1>1, <1>2, <1>3

\* A step of the loop whose send, if it is one, does not say that the message
\* was taken: the frame keeps its report, an accepted message is counted unless
\* the store fails, and any other is counted or about to be.
Unsaid(t) == \/ delivered' = delivered
             \/ pc[t] = "send" /\ delivered' = delivered \cup {Sent(t, "none")}
KeepsCall(t, p, g) ==
  /\ Move(t, p, g)
  /\ g.rid = call[t].rid /\ g.recording = call[t].recording
  /\ g.issue = call[t].issue /\ call[t].tally \subseteq g.tally
  /\ (pc[t] = "outcome" /\ call[t].ok) => "sent" \in g.tally \/ faults' # 0
  /\ pc[t] \in {"send", "outcome", "recover"} => Tried(p, g)
LoopStep(t) ==
  /\ pc[t] \in Loop
  /\ Unsaid(t) /\ decisions' = decisions
  /\ \E p \in Loop \ {"diagnose"} : \E g : KeepsCall(t, p, g)

LEMMA CountedStep ==
  ASSUME TypeOK, NEW t \in Thread, pc[t] \in Loop \ {"send"}, NEW n, NEW w, Done(t, n, w),
         delivered' = delivered, decisions' = decisions,
         (pc[t] = "outcome" /\ call[t].ok) => "sent" \in w,
         pc[t] \in {"outcome", "recover"} => w \cap {"sent", "failed"} # {}
  PROVE  LoopStep(t)
<1> DEFINE c == call[t]
           g == Counted(c, n, w)
<1>1. c \in Frame
  BY DEF TypeOK
<1>2. /\ g.rid = c.rid /\ g.recording = c.recording /\ g.issue = c.issue
      /\ g.tally = c.tally \cup w
  BY <1>1 DEF Frame, Counted
<1>3. Move(t, "gate", g)
  BY DoneMoves
<1> HIDE DEF g
<1>4. KeepsCall(t, "gate", g)
  BY <1>2, <1>3 DEF KeepsCall, Tried
<1>5. "gate" \in Loop \ {"diagnose"}
  BY DEF Loop
<1> QED
  BY <1>4, <1>5 DEF LoopStep, Unsaid

LEMMA LoopSteps ==
  ASSUME TypeOK, NEW t \in Thread,
         \/ Diagnose(t) \/ SkipNotifier(t) \/ SuppressCascade(t) \/ CheckBudget(t)
         \/ Degrade(t) \/ SetResolution(t) \/ SendRefused(t) \/ SendRaised(t)
         \/ SaveOutcome(t) \/ SaveFailure(t) \/ LoseOutcome(t)
  PROVE  LoopStep(t)
<1> DEFINE c == call[t]
<1>1. c \in Frame
  BY DEF TypeOK
<1>2. CASE Diagnose(t)
  <2>1. PICK k : Move(t, "gate", EnterDispatch(t, [c EXCEPT !.cat = k]))
    BY <1>2 DEF Diagnose
  <2> DEFINE g == EnterDispatch(t, [c EXCEPT !.cat = k])
  <2>2. g.rid = c.rid /\ g.recording = c.recording /\ g.issue = c.issue /\ g.tally = c.tally
    BY <1>1 DEF Frame, EnterDispatch
  <2>3. /\ Move(t, "gate", g) /\ pc[t] = "diagnose" /\ delivered' = delivered
        /\ decisions' = decisions
    BY <1>2, <2>1 DEF Diagnose, store
  <2> HIDE DEF g
  <2>4. "gate" \in Loop \ {"diagnose"} /\ "diagnose" \in Loop
    BY DEF Loop
  <2> QED
    BY <2>2, <2>3, <2>4 DEF LoopStep, KeepsCall, Unsaid
<1>3. CASE SkipNotifier(t)
  <2>1. \E n, w : Done(t, n, w)
    BY <1>3, Zenon DEF SkipNotifier
  <2>2. pc[t] = "gate" /\ delivered' = delivered /\ decisions' = decisions
    BY <1>3 DEF SkipNotifier, store
  <2> QED
    BY <2>1, <2>2, CountedStep DEF Loop
<1>4. CASE SuppressCascade(t) \/ Degrade(t) \/ SaveFailure(t)
  <2>1. \E n, w : Done(t, n, w) /\ (pc[t] = "recover" => w = {"failed"})
    <3>1. CASE SuppressCascade(t) \/ Degrade(t)
      BY <3>1, Zenon DEF SuppressCascade, AtNotifier, Degrade
    <3>2. CASE SaveFailure(t)
      BY <3>2, Zenon DEF SaveFailure
    <3> QED
      BY <1>4, <3>1, <3>2
  <2>2. /\ pc[t] \in {"gate", "degrade", "recover"} /\ delivered' = delivered
        /\ decisions' = decisions
    BY <1>4 DEF SuppressCascade, AtNotifier, Degrade, SaveFailure
  <2> QED
    BY <2>1, <2>2, CountedStep DEF Loop
<1>5. CASE SaveOutcome(t)
  <2>1. PICK s : s = (IF c.ok THEN "sent" ELSE "failed") /\ Done(t, c.n, {s})
    BY <1>5 DEF SaveOutcome
  <2>2. pc[t] = "outcome" /\ delivered' = delivered /\ decisions' = decisions
    BY <1>5 DEF SaveOutcome
  <2> QED
    BY <2>1, <2>2, CountedStep DEF Loop
<1>6. CASE CheckBudget(t)
  <2>1. PICK n, p : p \in {"degrade", "resolve", "send"} /\ Move(t, p, [c EXCEPT !.n = n])
    BY <1>6, Zenon DEF CheckBudget
  <2> DEFINE g == [c EXCEPT !.n = n]
  <2>2. g.rid = c.rid /\ g.recording = c.recording /\ g.issue = c.issue /\ g.tally = c.tally
    BY <1>1 DEF Frame
  <2>3. Move(t, p, g) /\ pc[t] = "gate" /\ delivered' = delivered /\ decisions' = decisions
    BY <1>6, <2>1, Zenon DEF CheckBudget, AtNotifier, store
  <2> HIDE DEF g
  <2>4. p \in Loop \ {"diagnose"} /\ "gate" \in Loop
    BY <2>1 DEF Loop
  <2> QED
    BY <2>2, <2>3, <2>4 DEF LoopStep, KeepsCall, Unsaid
<1>7. CASE SendRefused(t)
  <2> DEFINE g == [c EXCEPT !.ok = FALSE]
  <2>1. g.rid = c.rid /\ g.recording = c.recording /\ g.issue = c.issue /\ g.tally = c.tally
    BY <1>1 DEF Frame
  <2>2. Move(t, "outcome", g)
    BY <1>7 DEF SendRefused
  <2>3. pc[t] = "send" /\ decisions' = decisions /\ Unsaid(t)
    BY <1>7, Unanswers DEF Unsaid
  <2> HIDE DEF g
  <2>4. "outcome" \in Loop \ {"diagnose"} /\ "send" \in Loop
    BY DEF Loop
  <2>5. KeepsCall(t, "outcome", g)
    BY <2>1, <2>2, <2>3 DEF KeepsCall, Tried
  <2> QED
    BY <2>3, <2>4, <2>5 DEF LoopStep
<1>8. CASE SendRaised(t)
  <2>1. Move(t, "recover", c)
    BY <1>8 DEF SendRaised
  <2>2. pc[t] = "send" /\ decisions' = decisions /\ Unsaid(t)
    BY <1>8, Unanswers DEF Unsaid
  <2>3. "recover" \in Loop \ {"diagnose"} /\ "send" \in Loop
    BY DEF Loop
  <2>4. KeepsCall(t, "recover", c)
    BY <2>1, <2>2 DEF KeepsCall, Tried
  <2> QED
    BY <2>2, <2>3, <2>4 DEF LoopStep
<1>9. CASE SetResolution(t) \/ LoseOutcome(t)
  <2>1. PICK p \in {"send", "recover"} : Move(t, p, c) /\ (pc[t] = "outcome" => p = "recover")
    BY <1>9 DEF SetResolution, LoseOutcome
  <2>2. /\ pc[t] \in {"resolve", "outcome"} /\ delivered' = delivered
        /\ decisions' = decisions
    BY <1>9 DEF SetResolution, LoseOutcome, store
  <2>3. pc[t] = "outcome" => faults' # 0
    BY <1>9 DEF SetResolution, LoseOutcome, TypeOK
  <2>4. p \in Loop \ {"diagnose"} /\ pc[t] \in Loop
    BY <2>1, <2>2 DEF Loop
  <2>5. KeepsCall(t, p, c)
    BY <2>1, <2>2, <2>3 DEF KeepsCall, Tried
  <2> QED
    BY <2>2, <2>4, <2>5 DEF LoopStep, Unsaid
<1> QED
  BY <1>2, <1>3, <1>4, <1>5, <1>6, <1>7, <1>8, <1>9

LEMMA FaultsStay == ASSUME TypeOK, NEW t \in Thread, Step(t) PROVE faults' = 0 => faults = 0
<1>1. faults' = faults \/ faults' = faults + 1
  BY Step(t), Zenon DEF Step, FindHit, FindNone, RecordDedupHit, DecideDeduped,
     CheckCascade, SaveReport, Diagnose, SkipNotifier, SuppressCascade, CheckBudget,
     Degrade, SetResolution, SendAccepted, SendRefused, SendRaised, SaveOutcome, SaveFailure,
     DecideDispatched, ReturnUndecided, LoseOutcome, Abort, RecordDecision, world
<1> QED
  BY <1>1 DEF TypeOK

\* The steps that take no part in the loop, or leave it.
LEMMA OutsideLoop ==
  ASSUME TypeOK, NEW t \in Thread,
         \/ FindHit(t) \/ FindNone(t) \/ RecordDedupHit(t) \/ DecideDeduped(t)
         \/ CheckCascade(t) \/ DecideDispatched(t) \/ ReturnUndecided(t) \/ Abort(t)
  PROVE  \E p, g : Move(t, p, g) /\ ~Own(p, g)
<1>1. CASE DecideDeduped(t)
  <2> DEFINE g == EnterDispatch(t, [call[t] EXCEPT !.recording = TRUE])
  <2>1. Move(t, "gate", g)
    BY <1>1 DEF DecideDeduped
  <2>2. g.recording
    BY DEF EnterDispatch, TypeOK, Frame
  <2> QED
    BY <2>1, <2>2 DEF Own
<1>2. CASE ~DecideDeduped(t)
  <2>1. \E p \in {"hit", "cascade", "save", "hitDecision", "idle"} : \E g : Move(t, p, g)
    BY <1>2 DEF FindHit, FindNone, RecordDedupHit, CheckCascade, DecideDispatched,
       ReturnUndecided, Abort
  <2> QED
    BY <2>1 DEF Own, Loop
<1> QED
  BY <1>1, <1>2

\* The report that save_report commits is nobody's yet.
LEMMA FreshReport ==
  ASSUME QuietInv
  PROVE  /\ ~Reached(delivered, Len(reports) + 1) /\ ~Taken(delivered, Len(reports) + 1)
         /\ \A k \in DOMAIN decisions : decisions[k].rid # Len(reports) + 1
<1>1. DOMAIN reports = 1..Len(reports) /\ Len(reports) \in Nat
  BY LenProperties DEF QuietInv, TrailInv, TypeOK
<1>2. Len(reports) + 1 \notin DOMAIN reports
  BY <1>1
<1>3. \A k \in DOMAIN decisions : decisions[k].rid \in DOMAIN reports
  BY DEF QuietInv, TrailInv, Trail, DecisionOK, Honest
<1> QED
  BY <1>2, <1>3 DEF QuietInv, MessagesKnown, Reached, Taken

LEMMA OwnQuiet ==
  ASSUME QuietInv, NEW t \in Thread, Step(t)
  PROVE  \E p, g : Move(t, p, g) /\ QuietFrame(delivered', decisions', faults', p, g)
<1> DEFINE c == call[t]
<1> USE DEF QuietInv, TrailInv
<1>1. c \in Frame /\ QuietFrame(delivered, decisions, faults, pc[t], c)
  BY DEF TypeOK, QuietFrames
<1>2. CASE \/ FindHit(t) \/ FindNone(t) \/ RecordDedupHit(t) \/ DecideDeduped(t)
           \/ CheckCascade(t) \/ DecideDispatched(t) \/ ReturnUndecided(t) \/ Abort(t)
  BY <1>2, OutsideLoop DEF QuietFrame
<1>3. CASE SaveReport(t)
  <2> DEFINE last == Len(reports) + 1
             g == [c EXCEPT !.rid = last]
             h == EnterDispatch(t, g)
  <2>1. Move(t, "diagnose", g) \/ Move(t, "gate", h)
    BY <1>3 DEF SaveReport
  <2>2. delivered' = delivered /\ decisions' = decisions
    BY <1>3 DEF SaveReport
  <2>3. g.rid = last /\ h.rid = last
    BY <1>1 DEF Frame, EnterDispatch
  <2> HIDE DEF g, h
  <2>4. QuietFrame(delivered', decisions', faults', "diagnose", g)
        /\ QuietFrame(delivered', decisions', faults', "gate", h)
    BY <2>2, <2>3, FreshReport DEF QuietFrame
  <2> QED
    BY <2>1, <2>4
<1>4. CASE SendAccepted(t)
  <2>1. PICK a : Move(t, "outcome", Accepted(c, a))
    BY <1>4, Accepts
  <2> DEFINE g == Accepted(c, a)
  <2>2. pc[t] = "send" /\ decisions' = decisions
    BY <1>4 DEF SendAccepted, store
  <2>3. g.rid = c.rid /\ g.recording = c.recording /\ g.ok
    BY <1>1 DEF Frame, Accepted
  <2>4. Move(t, "outcome", g)
    BY <2>1
  <2> HIDE DEF g
  <2>5. QuietFrame(delivered', decisions', faults', "outcome", g)
    BY <1>1, <2>2, <2>3 DEF QuietFrame, Own, Loop, Tried
  <2> QED
    BY <2>4, <2>5
<1>5. CASE \/ Diagnose(t) \/ SkipNotifier(t) \/ SuppressCascade(t) \/ CheckBudget(t)
           \/ Degrade(t) \/ SetResolution(t) \/ SendRefused(t) \/ SendRaised(t)
           \/ SaveOutcome(t) \/ SaveFailure(t) \/ LoseOutcome(t)
  <2>1. LoopStep(t)
    BY <1>5, LoopSteps
  <2>0. PICK p \in Loop \ {"diagnose"} : \E g : KeepsCall(t, p, g)
    BY <2>1 DEF LoopStep
  <2>2. PICK g : KeepsCall(t, p, g)
    BY <2>0
  <2>3. pc[t] \in Loop /\ decisions' = decisions
    BY <2>1 DEF LoopStep
  <2>4. faults' = 0 => faults = 0
    BY FaultsStay
  <2>5. Reached(delivered', c.rid) => Reached(delivered, c.rid)
    BY <2>1 DEF LoopStep, Unsaid, Reached, Sent
  <2>6. Taken(delivered', c.rid) => Taken(delivered, c.rid) \/ pc[t] = "send"
    BY <2>1 DEF LoopStep, Unsaid, Taken
  <2>7. ASSUME Own(p, g) PROVE Taken(delivered', c.rid) => Tried(p, g)
    <3>1. Own(pc[t], c)
      BY <2>2, <2>3, <2>7 DEF KeepsCall, Own
    <3> QED
      BY <1>1, <2>2, <2>6, <3>1 DEF KeepsCall, QuietFrame, Tried
  <2>8. QuietFrame(delivered', decisions', faults', p, g)
    BY <1>1, <2>2, <2>3, <2>4, <2>5, <2>7 DEF QuietFrame, Own, KeepsCall
  <2> QED
    BY <2>2, <2>8 DEF KeepsCall
<1> QED
  BY <1>2, <1>3, <1>4, <1>5, Step(t) DEF Step

\* A decision other than "deduped" is the thread's own, on what it counted.
LEMMA OwnDecisions ==
  ASSUME TypeOK, NEW t \in Thread, Step(t)
  PROVE  \/ decisions' = decisions
         \/ \E d \in Decision :
              /\ d.rid = call[t].rid
              /\ d.reason = "deduped"
                   \/ /\ d.reason = Classify(call[t].tally) /\ DecideDispatched(t)
                      /\ pc[t] = "gate" /\ Own(pc[t], call[t])
              /\ \A k \in DOMAIN decisions' :
                   (k \in DOMAIN decisions /\ decisions'[k] = decisions[k]) \/ decisions'[k] = d
<1> DEFINE c == call[t]
<1>1. CASE DecideDeduped(t)
  <2>1. RecordDecision(t, "deduped")
    BY <1>1 DEF DecideDeduped
  <2> QED
    BY <2>1, DecisionRows DEF Reason
<1>2. CASE DecideDispatched(t)
  <2>1. RecordDecision(t, Classify(c.tally)) /\ pc[t] = "gate" /\ ~c.recording
    BY <1>2 DEF DecideDispatched
  <2>2. Own(pc[t], c)
    BY <2>1 DEF Own, Loop
  <2> QED
    BY <1>2, <2>1, <2>2, DecisionRows, ClassifyType
<1>3. CASE ~(DecideDeduped(t) \/ DecideDispatched(t))
  <2>1. decisions' = decisions
    BY <1>3, Step(t), Zenon DEF Step, FindHit, FindNone, RecordDedupHit, CheckCascade,
       SaveReport, Diagnose, SkipNotifier, SuppressCascade, CheckBudget, Degrade,
       SetResolution, SendAccepted, SendRefused, SendRaised, SaveOutcome, SaveFailure,
       ReturnUndecided, LoseOutcome, Abort, store
  <2> QED
    BY <2>1
<1> QED
  BY <1>1, <1>2, <1>3

\* What a step says and decides concerns no other thread's report.
LEMMA OthersQuiet ==
  ASSUME QuietInv, NEW t \in Thread, Step(t), NEW u \in Thread, u # t
  PROVE  QuietFrame(delivered', decisions', faults', pc[u], call[u])
<1> USE DEF QuietInv, TrailInv
<1> SUFFICES ASSUME Own(pc[u], call[u])
             PROVE  QuietFrame(delivered', decisions', faults', pc[u], call[u])
  BY DEF QuietFrame
<1>1. QuietFrame(delivered, decisions, faults, pc[u], call[u])
  BY DEF QuietFrames
<1>2. faults' = 0 => faults = 0
  BY FaultsStay
<1>3. Own(pc[t], call[t]) => call[t].rid # call[u].rid
  BY Apart
<1>4. /\ Reached(delivered', call[u].rid) => Reached(delivered, call[u].rid)
      /\ Taken(delivered', call[u].rid) => Taken(delivered, call[u].rid)
  <2>1. \A m \in delivered' \ delivered :
          pc[t] = "send" /\ m.rid = call[t].rid /\ m.recording = call[t].recording
    BY MessageRows
  <2> QED
    BY <1>3, <2>1 DEF Reached, Taken, Own, Loop
<1>5. \A k \in DOMAIN decisions' :
        decisions'[k].rid = call[u].rid => decisions'[k].reason = "deduped"
  <2>1. \A k \in DOMAIN decisions :
          decisions[k].rid = call[u].rid => decisions[k].reason = "deduped"
    BY <1>1 DEF QuietFrame
  <2> QED
    BY <1>3, <2>1, OwnDecisions
<1> QED
  BY <1>1, <1>2, <1>4, <1>5 DEF QuietFrame

LEMMA StepQuiet ==
  ASSUME QuietInv, NEW t \in Thread, Step(t)
  PROVE  MessagesKnown' /\ QuietFrames' /\ QuietMeansQuiet'
<1> USE DEF QuietInv, TrailInv
<1>m. \A m \in delivered' \ delivered :
        /\ pc[t] = "send" /\ m.rid = call[t].rid /\ m.recording = call[t].recording
  BY MessageRows
<1>1. MessagesKnown'
  <2>1. \A m \in delivered' : ~m.recording => m.rid \in DOMAIN reports
    <3> SUFFICES ASSUME NEW m \in delivered', ~m.recording PROVE m.rid \in DOMAIN reports
      OBVIOUS
    <3>1. CASE m \in delivered
      BY <3>1 DEF MessagesKnown
    <3>2. CASE m \notin delivered
      BY <1>m, <3>2 DEF Frames, FrameOK, LoopFrame, OwnReport, Own, Loop
    <3> QED
      BY <3>1, <3>2
  <2>2. \A m \in delivered' : m.recording \in BOOLEAN
    BY <1>m DEF MessagesKnown, TypeOK, Frame
  <2>3. DOMAIN reports \subseteq DOMAIN reports'
    BY EveryStepFrame DEF StepFrame, Grown, GrownReports
  <2> QED
    BY <2>1, <2>2, <2>3 DEF MessagesKnown
<1>2. QuietFrames'
  <2>1. PICK p, g : Move(t, p, g) /\ QuietFrame(delivered', decisions', faults', p, g)
    BY OwnQuiet
  <2>2. \A u \in Thread : pc'[u] = (IF u = t THEN p ELSE pc[u])
                          /\ call'[u] = (IF u = t THEN g ELSE call[u])
    BY <2>1 DEF TypeOK, Move
  <2> SUFFICES ASSUME NEW u \in Thread
               PROVE  QuietFrame(delivered', decisions', faults', pc'[u], call'[u])
    BY DEF QuietFrames
  <2>3. CASE u = t
    BY <2>1, <2>2, <2>3
  <2>4. CASE u # t
    BY <2>2, <2>4, OthersQuiet
  <2> QED
    BY <2>3, <2>4
<1>3. QuietMeansQuiet'
  <2> SUFFICES ASSUME faults' = 0, NEW k \in DOMAIN decisions',
                      decisions'[k].reason \notin {"fired", "deduped"},
                      NEW m \in delivered', m.rid = decisions'[k].rid, ~m.recording
               PROVE  decisions'[k].reason = "delivery_failed" /\ m.answer = "none"
    BY DEF QuietMeansQuiet
  <2>1. faults = 0
    BY FaultsStay
  <2>2. QuietFrame(delivered, decisions, faults, pc[t], call[t])
    BY DEF QuietFrames
  <2>3. CASE k \in DOMAIN decisions /\ decisions'[k] = decisions[k]
    <3>1. CASE m \in delivered
      BY <2>1, <2>3, <3>1 DEF QuietMeansQuiet
    <3>2. CASE m \notin delivered
      <4>1. Own(pc[t], call[t]) /\ call[t].rid = decisions[k].rid
        BY <1>m, <2>3, <3>2 DEF Own, Loop
      <4> QED
        BY <2>2, <2>3, <4>1 DEF QuietFrame
    <3> QED
      BY <3>1, <3>2
  <2>4. CASE ~(k \in DOMAIN decisions /\ decisions'[k] = decisions[k])
    <3>1. /\ decisions'[k].rid = call[t].rid
          /\ decisions'[k].reason = Classify(call[t].tally) /\ DecideDispatched(t)
          /\ pc[t] = "gate" /\ Own(pc[t], call[t])
      BY <2>4, OwnDecisions
    <3>2. call[t].tally \in SUBSET (Status \cup Skip)
      BY DEF TypeOK, Frame
    <3>3. "sent" \notin call[t].tally
      BY <3>1, <3>2, ClassifyMeans
    <3>4. ~Reached(delivered, call[t].rid)
      BY <2>1, <2>2, <3>1, <3>3 DEF QuietFrame
    <3>5. m \in delivered
      BY <1>m, <3>1
    <3>6. m.answer = "none" /\ Taken(delivered, call[t].rid)
      BY <3>1, <3>4, <3>5 DEF Reached, Taken
    <3>7. "failed" \in call[t].tally
      BY <2>2, <3>1, <3>3, <3>6 DEF QuietFrame, Tried
    <3>8. decisions'[k].reason = "delivery_failed"
      BY <3>1, <3>2, <3>3, <3>7, ClassifyMeans
    <3> QED
      BY <3>6, <3>8
  <2> QED
    BY <2>3, <2>4
<1> QED
  BY <1>1, <1>2, <1>3

LEMMA OtherQuiet ==
  ASSUME QuietInv,
         \/ \E t \in Thread, in \in Inputs : Call(t, in)
         \/ \E f \in Flow : Crash(f)
         \/ Tick \/ Rest \/ UNCHANGED vars
  PROVE  MessagesKnown' /\ QuietFrames' /\ QuietMeansQuiet'
<1> USE DEF QuietInv, TrailInv
<1>1. /\ decisions' = decisions /\ reports' = reports /\ delivered' = delivered
  BY OtherFrames
<1>2. (faults' = 0 => faults = 0)
      /\ \A u \in Thread : ~Own(pc'[u], call'[u]) \/ (pc'[u] = pc[u] /\ call'[u] = call[u])
  <2>1. CASE \E t \in Thread, in \in Inputs : Call(t, in)
    <3>1. PICK t \in Thread, in \in Inputs : Call(t, in)
      BY <2>1
    <3>2. \E p \in {"save", "find"} : \E g : Move(t, p, g)
      BY <3>1 DEF Call
    <3>3. faults' = faults
      BY <3>1 DEF Call
    <3> QED
      BY <3>2, <3>3 DEF Own, Loop, Move, TypeOK
  <2>2. CASE \E f \in Flow : Crash(f)
    BY <2>2 DEF Crash, TypeOK, Own, Loop
  <2>3. CASE Tick \/ Rest \/ UNCHANGED vars
    BY <2>3 DEF Tick, Rest, vars
  <2> QED
    BY <2>1, <2>2, <2>3
<1>3. MessagesKnown' /\ QuietMeansQuiet'
  BY <1>1, <1>2 DEF MessagesKnown, QuietMeansQuiet, Delivery
<1>4. QuietFrames'
  BY <1>1, <1>2 DEF QuietFrames, QuietFrame
<1> QED
  BY <1>3, <1>4

LEMMA InitQuiet == Init => QuietInv
BY InitTrail DEF Init, QuietInv, MessagesKnown, QuietFrames, QuietFrame, Own, Loop, QuietMeansQuiet

LEMMA NextQuiet == QuietInv /\ [Next]_vars => QuietInv'
<1> SUFFICES ASSUME QuietInv, [Next]_vars PROVE QuietInv'
  OBVIOUS
<1>1. TrailInv'
  BY NextTrail DEF QuietInv
<1>2. MessagesKnown' /\ QuietFrames' /\ QuietMeansQuiet'
  <2>1. CASE \E t \in Thread : Step(t)
    BY <2>1, StepQuiet
  <2>2. CASE ~\E t \in Thread : Step(t)
    BY <2>2, OtherQuiet DEF Next
  <2> QED
    BY <2>1, <2>2
<1> QED
  BY <1>1, <1>2 DEF QuietInv

\* While no store call has failed, a report that was suppressed reached no
\* delivery channel, and one recorded "delivery_failed" none that said so, with
\* channels that take a message and lose the answer.
THEOREM SilenceHonest == Spec => []QuietMeansQuiet
<1>1. QuietInv => QuietMeansQuiet
  BY DEF QuietInv
<1> QED
  BY <1>1, InitQuiet, NextQuiet, PTL DEF Spec

(***************************************************************************)
(* The issue an alert names                                                *)
(*                                                                         *)
(* One thread per instance: with two, the resolution of one call is sent   *)
(* with the message of another.                                            *)
(***************************************************************************)

OneThreadPerFlow == \A t, u \in Thread : FlowOf[t] = FlowOf[u] => t = u

AtOne == {"degrade", "resolve", "send", "outcome", "recover"}
Filed(D, rid) ==
  \E x \in D : /\ x.rid = rid /\ ~x.recording
               /\ Notifiers[x.flow][x.n].files /\ x.answer = "issue"
Named(D, rid) ==
  \E x \in D : x.rid = rid /\ ~x.recording /\ Notifiers[x.flow][x.n].names

\* What the call knows of its issue: it is the one filed, the notifier that
\* is to name it holds it, and from the first name on no filer is to come.
IssueLoop(D, res, t, p, c) ==
  LET v == Notifiers[FlowOf[t]]
      naming == p \in AtOne /\ v[c.n].names
  IN  /\ c.issue = IF Filed(D, c.rid) THEN c.rid ELSE 0
      /\ p = "diagnose" => ~Named(D, c.rid)
      /\ (p = "send" /\ naming) => res[FlowOf[t]][c.n] = c.issue
      /\ Named(D, c.rid) \/ naming =>
           /\ \A n \in c.todo : ~v[n].files
           /\ p \in AtOne => ~v[c.n].files
IssueFrame(D, res, t, p, c) ==
  /\ p \in Early => c.issue = 0
  /\ p \in AtOne /\ c.recording => Notifiers[FlowOf[t]][c.n].records
  /\ Own(p, c) => IssueLoop(D, res, t, p, c)

NamesTheIssue(D, m) ==
  Notifiers[m.flow][m.n].names =>
    ~m.recording /\ m.issue = IF Filed(D, m.rid) THEN m.rid ELSE 0

IssueFrames == \A t \in Thread : IssueFrame(delivered, resolution, t, pc[t], call[t])
Issues == \A m \in delivered : NamesTheIssue(delivered, m)
IssueInv == QuietInv /\ IssueFrames /\ Issues

\* The loop is at notifiers that do not both name and file, or name and record.
LEMMA NotifierKinds ==
  ASSUME NEW t \in Thread, NEW n \in NotifierIds(FlowOf[t]), Notifiers[FlowOf[t]][n].names
  PROVE  ~Notifiers[FlowOf[t]][n].files /\ ~Notifiers[FlowOf[t]][n].records
<1>1. FlowOf[t] \in Flow
  BY ConfigAssumption
<1> QED
  BY <1>1, NotifierAssumption DEF NotifierIds

\* What the messages say of the call's issue is the same, but for one more name.
NoNews(D, E, t, p, c) ==
  ~c.recording =>
    /\ Filed(E, c.rid) <=> Filed(D, c.rid)
    /\ Named(E, c.rid) => \/ Named(D, c.rid)
                          \/ p \in AtOne /\ Notifiers[FlowOf[t]][c.n].names

\* A move of the loop that leaves issue and report alone.
LEMMA IssueMove ==
  ASSUME NEW D, NEW E, NEW res, NEW t, NEW p, NEW c, NEW q, NEW g,
         IssueFrame(D, res, t, p, c), p \in Loop, q \in Loop \ {"diagnose"},
         NoNews(D, E, t, p, c),
         g.rid = c.rid, g.recording = c.recording, g.issue = c.issue,
         g.todo \subseteq c.todo \/ p = "diagnose",
         q \in AtOne => p \in AtOne /\ g.n = c.n,
         q # "send"
  PROVE  IssueFrame(E, res, t, q, g)
<1>1. q \notin Early
  BY DEF Early, Loop
<1>2. q \in AtOne /\ g.recording => Notifiers[FlowOf[t]][g.n].records
  BY DEF IssueFrame
<1>3. ASSUME Own(q, g) PROVE IssueLoop(E, res, t, q, g)
  <2>1. IssueLoop(D, res, t, p, c)
    BY <1>3 DEF IssueFrame, Own
  <2>2. q # "diagnose" /\ q # "send"
    OBVIOUS
  <2>3. ~c.recording
    BY <1>3 DEF Own
  <2> QED
    BY <2>1, <2>2, <2>3 DEF IssueLoop, AtOne, NoNews
<1> QED
  BY <1>1, <1>2, <1>3 DEF IssueFrame

\* Being done with a notifier.
LEMMA IssueDone ==
  ASSUME TypeOK, IssueFrames, NEW t \in Thread, pc[t] \in Loop, NEW n, NEW w, Done(t, n, w),
         delivered' = delivered, resolution' = resolution
  PROVE  \E p, g : Move(t, p, g) /\ IssueFrame(delivered', resolution', t, p, g)
<1> DEFINE c == call[t]
           g == Counted(c, n, w)
<1>1. c \in Frame /\ IssueFrame(delivered, resolution, t, pc[t], c)
  BY DEF TypeOK, IssueFrames
<1>2. /\ g.rid = c.rid /\ g.recording = c.recording /\ g.issue = c.issue
      /\ g.todo \subseteq c.todo
  BY <1>1 DEF Frame, Counted
<1>3. Move(t, "gate", g)
  BY DoneMoves
<1> HIDE DEF c, g
<1>4. NoNews(delivered, delivered, t, pc[t], c)
  BY DEF NoNews
<1>5. IssueFrame(delivered, resolution, t, "gate", g)
  BY <1>1, <1>2, <1>4, IssueMove DEF Loop, AtOne, c
<1> QED
  BY <1>3, <1>5

\* The first notifier of the loop that names an issue comes after all filers.
LEMMA FilersFirst ==
  ASSUME NEW f, NEW todo, NEW n \in Upcoming(f, todo), ~Notifiers[f][n].files
  PROVE  n \in todo /\ \A m \in todo : ~Notifiers[f][m].files
<1>1. n \in todo /\ \A m \in todo : Before(f, n, m)
  BY DEF Upcoming
<1> QED
  BY <1>1 DEF Before

LEMMA BudgetIssue ==
  ASSUME IssueInv, NEW t \in Thread, CheckBudget(t)
  PROVE  \E p, g : Move(t, p, g) /\ IssueFrame(delivered', resolution', t, p, g)
<1> DEFINE c == call[t]
           v == Notifiers[FlowOf[t]]
<1> USE DEF IssueInv, QuietInv, TrailInv
<1>1. c \in Frame /\ IssueFrame(delivered, resolution, t, "gate", c)
  BY DEF TypeOK, IssueFrames, CheckBudget, AtNotifier
<1>2. PICK n \in NotifierIds(FlowOf[t]), p \in {"degrade", "resolve", "send"} :
        /\ AtNotifier(t, n) /\ Move(t, p, [c EXCEPT !.n = n])
        /\ p = "send" => ~v[n].names
  BY DEF CheckBudget
<1> DEFINE g == [c EXCEPT !.n = n]
<1>3. /\ g.rid = c.rid /\ g.recording = c.recording /\ g.issue = c.issue
      /\ g.todo = c.todo /\ g.n = n
  BY <1>1, ConfigAssumption, LenProperties DEF Frame
<1>4. delivered' = delivered /\ resolution' = resolution /\ Move(t, p, g)
  BY <1>2 DEF CheckBudget
<1>5. c.recording => v[n].records
  BY <1>2 DEF AtNotifier, PassedOver
<1>6. n \in c.todo /\ (~v[n].files => \A m \in c.todo : ~v[m].files)
  <2>1. n \in Upcoming(FlowOf[t], c.todo)
    BY <1>2 DEF AtNotifier
  <2> QED
    BY <2>1, FilersFirst DEF Upcoming
<1>7. v[n].names => ~v[n].files
  BY NotifierKinds
<1> HIDE DEF c, g
<1>8. ASSUME Own(p, g) PROVE IssueLoop(delivered, resolution, t, p, g)
  <2>1. IssueLoop(delivered, resolution, t, "gate", c)
    BY <1>1, <1>3, <1>8 DEF IssueFrame, Own, Loop
  <2> QED
    BY <2>1, <1>2, <1>3, <1>6, <1>7 DEF IssueLoop, AtOne
<1>9. IssueFrame(delivered, resolution, t, p, g)
  BY <1>2, <1>3, <1>5, <1>8 DEF IssueFrame, Early
<1> QED
  BY <1>4, <1>9

\* The resolution a thread sets is the one it sends: its instance is its own.
LEMMA ResolutionIssue ==
  ASSUME IssueInv, NEW t \in Thread, SetResolution(t)
  PROVE  Move(t, "send", call[t]) /\ IssueFrame(delivered', resolution', t, "send", call[t])
<1> DEFINE c == call[t]
<1> USE DEF IssueInv, QuietInv, TrailInv
<1>1. /\ IssueFrame(delivered, resolution, t, "resolve", c) /\ c.n \in NotifierIds(FlowOf[t])
      /\ FlowOf[t] \in Flow
  BY ConfigAssumption DEF TypeOK, IssueFrames, SetResolution, Located
<1>2. /\ resolution' = [resolution EXCEPT ![FlowOf[t]][c.n] = c.issue]
      /\ Move(t, "send", c) /\ delivered' = delivered
  BY DEF SetResolution
<1>3. resolution'[FlowOf[t]][c.n] = c.issue
  BY <1>1, <1>2 DEF TypeOK
<1>4. ASSUME Own("send", c) PROVE IssueLoop(delivered, resolution', t, "send", c)
  <2>1. IssueLoop(delivered, resolution, t, "resolve", c)
    BY <1>1, <1>4 DEF IssueFrame, Own, Loop
  <2> QED
    BY <2>1, <1>3 DEF IssueLoop, AtOne
<1>5. IssueFrame(delivered, resolution', t, "send", c)
  BY <1>1, <1>4 DEF IssueFrame, Early, AtOne
<1> QED
  BY <1>2, <1>5

\* What a send says of its message changes what the messages say of the issue
\* only if it files one, and adds a name only if the notifier names.
LEMMA SentNews ==
  ASSUME NEW t \in Thread, NEW D, NEW a, ~call[t].recording
  PROVE  LET E == D \cup {Sent(t, a)}
             v == Notifiers[FlowOf[t]][call[t].n]
         IN  /\ Filed(E, call[t].rid)
                  <=> Filed(D, call[t].rid) \/ (v.files /\ a = "issue")
             /\ Named(E, call[t].rid) <=> Named(D, call[t].rid) \/ v.names
<1>1. LET m == Sent(t, a)
      IN  /\ m.rid = call[t].rid /\ m.recording = call[t].recording /\ m.answer = a
          /\ m.flow = FlowOf[t] /\ m.n = call[t].n
  BY DEF Sent
<1> QED
  BY <1>1 DEF Filed, Named

\* An answer that says which issue was filed makes its report the issue; a
\* message that names changes nothing that is known of the issue.
LEMMA SendIssue ==
  ASSUME IssueInv, NEW t \in Thread, SendAccepted(t)
  PROVE  \E p, g : Move(t, p, g) /\ IssueFrame(delivered', resolution', t, p, g)
<1> DEFINE c == call[t]
           v == Notifiers[FlowOf[t]]
<1> USE DEF IssueInv, QuietInv, TrailInv
<1>1. c \in Frame /\ IssueFrame(delivered, resolution, t, "send", c)
      /\ c.n \in NotifierIds(FlowOf[t])
  BY DEF TypeOK, IssueFrames, SendAccepted, Located
<1>2. PICK a \in {"target", "issue"} :
        /\ a = "issue" => Here(t).files
        /\ delivered' = delivered \cup {Sent(t, a)}
        /\ Move(t, "outcome", Accepted(c, a))
  BY Accepts
<1> DEFINE g == Accepted(c, a)
<1>3. resolution' = resolution /\ Move(t, "outcome", g)
  BY <1>2 DEF SendAccepted
<1>4. a = "issue" => v[c.n].files
  BY <1>2 DEF Here
<1>5. /\ g.rid = c.rid /\ g.recording = c.recording /\ g.todo = c.todo /\ g.n = c.n
      /\ g.issue = IF a = "issue" THEN c.rid ELSE c.issue
  BY <1>1 DEF Frame, Accepted
<1>6. v[c.n].names => ~v[c.n].files
  BY <1>1, NotifierKinds
<1> HIDE DEF g
<1>7. ASSUME Own("outcome", g) PROVE IssueLoop(delivered', resolution, t, "outcome", g)
  <2>1. IssueLoop(delivered, resolution, t, "send", c) /\ ~c.recording
    BY <1>1, <1>5, <1>7 DEF IssueFrame, Own, Loop
  <2>2. /\ Filed(delivered', c.rid) <=> Filed(delivered, c.rid) \/ a = "issue"
        /\ Named(delivered', c.rid) <=> Named(delivered, c.rid) \/ v[c.n].names
    BY <1>2, <1>4, <2>1, SentNews
  <2> HIDE DEF c
  <2> QED
    BY <2>1, <2>2, <1>4, <1>5, <1>6 DEF IssueLoop, AtOne
<1>8. IssueFrame(delivered', resolution, t, "outcome", g)
  BY <1>1, <1>5, <1>7 DEF IssueFrame, Early, AtOne
<1> QED
  BY <1>3, <1>8

\* Entering a call or the loop: nothing is filed or named yet.
LEMMA EnterIssue ==
  ASSUME IssueInv, NEW t \in Thread, SaveReport(t)
  PROVE  \E p, g : Move(t, p, g) /\ IssueFrame(delivered', resolution', t, p, g)
<1> DEFINE c == call[t]
           last == Len(reports) + 1
           g == [c EXCEPT !.rid = last]
           h == EnterDispatch(t, g)
<1> USE DEF IssueInv, QuietInv, TrailInv
<1>1. c \in Frame /\ IssueFrame(delivered, resolution, t, "save", c)
  BY DEF TypeOK, IssueFrames, SaveReport
<1>2. c.issue = 0
  BY <1>1 DEF IssueFrame, Early
<1>3. Move(t, "diagnose", g) \/ Move(t, "gate", h)
  BY DEF SaveReport
<1>4. delivered' = delivered /\ resolution' = resolution
  BY DEF SaveReport
<1>5. ~Filed(delivered, last) /\ ~Named(delivered, last)
  BY FreshReport DEF Filed, Named, Taken
<1>6. g.rid = last /\ h.rid = last /\ g.issue = 0 /\ h.issue = 0
  BY <1>1, <1>2 DEF Frame, EnterDispatch
<1> HIDE DEF g, h, last
<1>7. IssueFrame(delivered, resolution, t, "diagnose", g)
      /\ IssueFrame(delivered, resolution, t, "gate", h)
  BY <1>5, <1>6 DEF IssueFrame, IssueLoop, Early, AtOne
<1> QED
  BY <1>3, <1>4, <1>7

\* The steps before a report is stored, and those that leave the loop.
LEMMA OutsideIssue ==
  ASSUME IssueInv, NEW t \in Thread,
         \/ FindHit(t) \/ FindNone(t) \/ RecordDedupHit(t) \/ DecideDeduped(t)
         \/ CheckCascade(t) \/ DecideDispatched(t) \/ ReturnUndecided(t) \/ Abort(t)
  PROVE  \E p, g : Move(t, p, g) /\ IssueFrame(delivered', resolution', t, p, g)
<1> DEFINE c == call[t]
<1> USE DEF IssueInv, QuietInv, TrailInv
<1>1. c \in Frame /\ IssueFrame(delivered, resolution, t, pc[t], c)
  BY DEF TypeOK, IssueFrames
<1>2. CASE DecideDeduped(t)
  <2> DEFINE g == EnterDispatch(t, [c EXCEPT !.recording = TRUE])
  <2>1. Move(t, "gate", g)
    BY <1>2 DEF DecideDeduped
  <2>2. g.recording
    BY <1>1 DEF EnterDispatch, Frame
  <2> HIDE DEF g
  <2>3. IssueFrame(delivered', resolution', t, "gate", g)
    BY <2>2 DEF IssueFrame, Own, Early, AtOne
  <2> QED
    BY <2>1, <2>3
<1>3. CASE FindHit(t) \/ FindNone(t) \/ RecordDedupHit(t) \/ CheckCascade(t)
  <2>1. \E p \in {"hit", "cascade", "save", "hitDecision"} : \E g :
          Move(t, p, g) /\ g.issue = c.issue
    <3>1. CASE FindHit(t)
      <4>1. PICK i : Move(t, "hit", [c EXCEPT !.rid = i])
        BY <3>1 DEF FindHit
      <4>2. [c EXCEPT !.rid = i].issue = c.issue
        BY <1>1 DEF Frame
      <4> QED
        BY <4>1, <4>2
    <3>2. CASE CheckCascade(t)
      <4>1. Move(t, "save", [c EXCEPT !.cascade = CascadeSource(FlowOf[t])])
        BY <3>2 DEF CheckCascade
      <4>2. [c EXCEPT !.cascade = CascadeSource(FlowOf[t])].issue = c.issue
        BY <1>1 DEF Frame
      <4> QED
        BY <4>1, <4>2
    <3>3. CASE FindNone(t) \/ RecordDedupHit(t)
      BY <3>3 DEF FindNone, RecordDedupHit
    <3> QED
      BY <1>3, <3>1, <3>2, <3>3
  <2>2. pc[t] \in Early
    BY <1>3 DEF FindHit, FindNone, RecordDedupHit, CheckCascade, Early
  <2>3. c.issue = 0
    BY <1>1, <2>2 DEF IssueFrame
  <2>0. PICK p \in {"hit", "cascade", "save", "hitDecision"} : \E g :
          Move(t, p, g) /\ g.issue = c.issue
    BY <2>1
  <2>4. PICK g : Move(t, p, g) /\ g.issue = c.issue
    BY <2>0
  <2>5. IssueFrame(delivered', resolution', t, p, g)
    BY <2>3, <2>4 DEF IssueFrame, Own, Loop, AtOne
  <2> QED
    BY <2>4, <2>5
<1>4. CASE DecideDispatched(t) \/ ReturnUndecided(t) \/ Abort(t)
  <2>1. Move(t, "idle", NoCall)
    BY <1>4 DEF DecideDispatched, ReturnUndecided, Abort
  <2>2. IssueFrame(delivered', resolution', t, "idle", NoCall)
    BY DEF IssueFrame, Own, Loop, AtOne, Early
  <2> QED
    BY <2>1, <2>2
<1> QED
  BY <1>2, <1>3, <1>4

\* The other steps of the loop.
LEMMA LoopIssue ==
  ASSUME IssueInv, NEW t \in Thread,
         \/ Diagnose(t) \/ SkipNotifier(t) \/ SuppressCascade(t) \/ Degrade(t)
         \/ SendRefused(t) \/ SendRaised(t) \/ SaveOutcome(t) \/ SaveFailure(t)
         \/ LoseOutcome(t)
  PROVE  \E p, g : Move(t, p, g) /\ IssueFrame(delivered', resolution', t, p, g)
<1> DEFINE c == call[t]
<1> USE DEF IssueInv, QuietInv, TrailInv
<1>1. c \in Frame /\ IssueFrame(delivered, resolution, t, pc[t], c)
  BY DEF TypeOK, IssueFrames
<1>0. NoNews(delivered, delivered, t, pc[t], c)
  BY DEF NoNews
<1>2. CASE Diagnose(t)
  <2>1. PICK k : Move(t, "gate", EnterDispatch(t, [c EXCEPT !.cat = k]))
    BY <1>2 DEF Diagnose
  <2> DEFINE g == EnterDispatch(t, [c EXCEPT !.cat = k])
  <2>2. g.rid = c.rid /\ g.recording = c.recording /\ g.issue = c.issue
    BY <1>1 DEF Frame, EnterDispatch
  <2>3. Move(t, "gate", g) /\ pc[t] = "diagnose" /\ delivered' = delivered
        /\ resolution' = resolution
    BY <1>2, <2>1 DEF Diagnose
  <2> HIDE DEF c, g
  <2>4. IssueFrame(delivered, resolution, t, "gate", g)
    BY <1>0, <1>1, <2>2, <2>3, IssueMove DEF Loop, AtOne
  <2> QED
    BY <2>3, <2>4
<1>3. CASE SkipNotifier(t) \/ SuppressCascade(t) \/ Degrade(t) \/ SaveOutcome(t)
           \/ SaveFailure(t)
  <2>1. \E n, w : Done(t, n, w)
    BY <1>3, Zenon DEF SkipNotifier, SuppressCascade, Degrade, SaveOutcome, SaveFailure
  <2>2. /\ pc[t] \in {"gate", "degrade", "outcome", "recover"}
        /\ delivered' = delivered /\ resolution' = resolution
    BY <1>3 DEF SkipNotifier, SuppressCascade, AtNotifier, Degrade, SaveOutcome, SaveFailure
  <2> QED
    BY <2>1, <2>2, IssueDone DEF Loop
<1>4. ASSUME SendRefused(t) \/ SendRaised(t)
      PROVE  NoNews(delivered, delivered', t, pc[t], c)
  <2>1. pc[t] = "send" /\ (delivered' = delivered \/ delivered' = delivered \cup {Sent(t, "none")})
    BY <1>4, Unanswers
  <2> SUFFICES ASSUME ~c.recording
               PROVE  /\ Filed(delivered', c.rid) <=> Filed(delivered, c.rid)
                      /\ Named(delivered', c.rid) =>
                           \/ Named(delivered, c.rid)
                           \/ pc[t] \in AtOne /\ Notifiers[FlowOf[t]][c.n].names
    BY DEF NoNews
  <2>2. CASE delivered' = delivered
    BY <2>2
  <2>3. CASE delivered' = delivered \cup {Sent(t, "none")}
    BY <2>1, <2>3, SentNews DEF AtOne
  <2> QED
    BY <2>1, <2>2, <2>3
<1>5. CASE SendRefused(t)
  <2> DEFINE g == [c EXCEPT !.ok = FALSE]
  <2>1. /\ g.rid = c.rid /\ g.recording = c.recording /\ g.issue = c.issue
        /\ g.todo = c.todo /\ g.n = c.n
    BY <1>1 DEF Frame
  <2>2. /\ Move(t, "outcome", g) /\ pc[t] = "send" /\ resolution' = resolution
    BY <1>5 DEF SendRefused
  <2>3. NoNews(delivered, delivered', t, pc[t], c)
    BY <1>4, <1>5
  <2> HIDE DEF c, g
  <2>4. IssueFrame(delivered', resolution, t, "outcome", g)
    BY <1>1, <2>1, <2>2, <2>3, IssueMove DEF Loop, AtOne
  <2> QED
    BY <2>2, <2>4
<1>6. CASE SendRaised(t)
  <2>1. Move(t, "recover", c) /\ pc[t] = "send" /\ resolution' = resolution
    BY <1>6 DEF SendRaised
  <2>2. NoNews(delivered, delivered', t, pc[t], c)
    BY <1>4, <1>6
  <2> HIDE DEF c
  <2>3. IssueFrame(delivered', resolution, t, "recover", c)
    BY <1>1, <2>1, <2>2, IssueMove DEF Loop, AtOne
  <2> QED
    BY <2>1, <2>3
<1>7. CASE LoseOutcome(t)
  <2>1. /\ Move(t, "recover", c) /\ pc[t] = "outcome" /\ delivered' = delivered
        /\ resolution' = resolution
    BY <1>7 DEF LoseOutcome
  <2> HIDE DEF c
  <2>2. IssueFrame(delivered, resolution, t, "recover", c)
    BY <1>0, <1>1, <2>1, IssueMove DEF Loop, AtOne
  <2> QED
    BY <2>1, <2>2
<1> QED
  BY <1>2, <1>3, <1>5, <1>6, <1>7

LEMMA OwnIssue ==
  ASSUME IssueInv, NEW t \in Thread, Step(t)
  PROVE  \E p, g : Move(t, p, g) /\ IssueFrame(delivered', resolution', t, p, g)
BY BudgetIssue, ResolutionIssue, SendIssue, EnterIssue, OutsideIssue, LoopIssue, Step(t),
   Zenon DEF Step

\* Another instance's thread knows as much as before.
LEMMA OthersIssue ==
  ASSUME OneThreadPerFlow, IssueInv, NEW t \in Thread, Step(t), NEW u \in Thread, u # t
  PROVE  IssueFrame(delivered', resolution', u, pc[u], call[u])
<1> DEFINE c == call[u]
<1> USE DEF IssueInv, QuietInv, TrailInv
<1>1. IssueFrame(delivered, resolution, u, pc[u], c)
  BY DEF IssueFrames
<1> SUFFICES ASSUME Own(pc[u], c) PROVE IssueLoop(delivered', resolution', u, pc[u], c)
  BY <1>1 DEF IssueFrame
<1>2. IssueLoop(delivered, resolution, u, pc[u], c)
  BY <1>1 DEF IssueFrame
<1>3. \A m \in delivered' \ delivered : m.recording \/ m.rid # c.rid
  <2>1. Own(pc[t], call[t]) => call[t].rid # c.rid
    BY Apart
  <2> QED
    BY <2>1, MessageRows DEF Own, Loop
<1>4. delivered \subseteq delivered'
  BY MessageRows
<1>5. (Filed(delivered', c.rid) <=> Filed(delivered, c.rid))
      /\ (Named(delivered', c.rid) <=> Named(delivered, c.rid))
  BY <1>3, <1>4 DEF Filed, Named
<1>6. resolution'[FlowOf[u]] = resolution[FlowOf[u]]
  <2>1. CASE SetResolution(t)
    <3>1. FlowOf[u] # FlowOf[t] /\ FlowOf[u] \in Flow
      BY ConfigAssumption DEF OneThreadPerFlow
    <3> QED
      BY <2>1, <3>1 DEF SetResolution, TypeOK
  <2>2. CASE ~SetResolution(t)
    <3>1. resolution' = resolution
      BY <2>2, Step(t), Zenon DEF Step, FindHit, FindNone, RecordDedupHit, DecideDeduped,
         CheckCascade, SaveReport, Diagnose, SkipNotifier, SuppressCascade, CheckBudget,
         Degrade, SendAccepted, SendRefused, SendRaised, SaveOutcome, SaveFailure,
         DecideDispatched, ReturnUndecided, LoseOutcome, Abort, RecordDecision
    <3> QED
      BY <3>1
  <2> QED
    BY <2>1, <2>2
<1> QED
  BY <1>2, <1>5, <1>6 DEF IssueLoop

\* The messages sent keep naming the right issue, and so does the new one.
LEMMA MessageIssue ==
  ASSUME IssueInv, NEW t \in Thread, Step(t)
  PROVE  Issues'
<1> DEFINE c == call[t]
           v == Notifiers[FlowOf[t]]
<1> USE DEF IssueInv, QuietInv, TrailInv
<1>1. delivered \subseteq delivered'
      /\ \A m \in delivered' \ delivered :
           /\ pc[t] = "send" /\ (m.answer = "issue" => v[c.n].files)
           /\ m.flow = FlowOf[t] /\ m.rid = c.rid /\ m.n = c.n
           /\ m.recording = c.recording /\ m.issue = resolution[FlowOf[t]][c.n]
  BY MessageRows DEF Here
<1>2. IssueFrame(delivered, resolution, t, pc[t], c)
  BY DEF IssueFrames
<1>3. pc[t] = "send" => c.n \in NotifierIds(FlowOf[t])
  BY DEF Located
<1>4. pc[t] = "send" /\ v[c.n].names => ~v[c.n].files /\ ~v[c.n].records
  BY <1>3, NotifierKinds
<1> SUFFICES ASSUME NEW m \in delivered', Notifiers[m.flow][m.n].names
             PROVE  ~m.recording /\ m.issue = IF Filed(delivered', m.rid) THEN m.rid ELSE 0
  BY DEF Issues, NamesTheIssue
<1>5. CASE m \in delivered
  <2>1. ~m.recording /\ m.issue = IF Filed(delivered, m.rid) THEN m.rid ELSE 0
    BY <1>5 DEF Issues, NamesTheIssue
  <2>2. Named(delivered, m.rid)
    BY <1>5, <2>1 DEF Named
  <2>3. Filed(delivered', m.rid) => Filed(delivered, m.rid)
    <3> SUFFICES ASSUME NEW x \in delivered' \ delivered, x.rid = m.rid, ~x.recording,
                        Notifiers[x.flow][x.n].files, x.answer = "issue"
                 PROVE  FALSE
      BY DEF Filed
    <3>1. pc[t] = "send" /\ c.rid = m.rid /\ ~c.recording /\ v[c.n].files
      BY <1>1
    <3>2. IssueLoop(delivered, resolution, t, "send", c)
      BY <1>2, <3>1 DEF IssueFrame, Own, Loop
    <3> QED
      BY <2>2, <3>1, <3>2 DEF IssueLoop, AtOne
  <2>4. Filed(delivered, m.rid) => Filed(delivered', m.rid)
    BY <1>1 DEF Filed
  <2> QED
    BY <2>1, <2>3, <2>4
<1>6. CASE m \notin delivered
  <2>1. /\ pc[t] = "send" /\ m.rid = c.rid /\ m.recording = c.recording
        /\ v[c.n].names /\ m.issue = resolution[FlowOf[t]][c.n]
    BY <1>1, <1>6
  <2>2. ~c.recording
    BY <1>2, <1>4, <2>1 DEF IssueFrame, AtOne
  <2>3. IssueLoop(delivered, resolution, t, "send", c)
    BY <1>2, <2>1, <2>2 DEF IssueFrame, Own, Loop
  <2>4. m.issue = IF Filed(delivered, c.rid) THEN c.rid ELSE 0
    BY <2>1, <2>3 DEF IssueLoop, AtOne
  <2>5. Filed(delivered', c.rid) <=> Filed(delivered, c.rid)
    <3>1. \A x \in delivered' \ delivered : ~Notifiers[x.flow][x.n].files
      BY <1>1, <1>4, <2>1
    <3> QED
      BY <1>1, <3>1 DEF Filed
  <2> QED
    BY <2>1, <2>2, <2>4, <2>5
<1> QED
  BY <1>5, <1>6

LEMMA StepIssue ==
  ASSUME OneThreadPerFlow, IssueInv, NEW t \in Thread, Step(t)
  PROVE  IssueFrames' /\ Issues'
<1>1. PICK p, g : Move(t, p, g) /\ IssueFrame(delivered', resolution', t, p, g)
  BY OwnIssue
<1>2. \A u \in Thread : pc'[u] = (IF u = t THEN p ELSE pc[u])
                        /\ call'[u] = (IF u = t THEN g ELSE call[u])
  BY <1>1 DEF IssueInv, QuietInv, TrailInv, TypeOK, Move
<1>3. IssueFrames'
  <2> SUFFICES ASSUME NEW u \in Thread
               PROVE  IssueFrame(delivered', resolution', u, pc'[u], call'[u])
    BY DEF IssueFrames
  <2>1. CASE u = t
    BY <1>1, <1>2, <2>1
  <2>2. CASE u # t
    BY <1>2, <2>2, OthersIssue
  <2> QED
    BY <2>1, <2>2
<1> QED
  BY <1>3, MessageIssue

LEMMA OtherIssue ==
  ASSUME IssueInv,
         \/ \E t \in Thread, in \in Inputs : Call(t, in)
         \/ \E f \in Flow : Crash(f)
         \/ Tick \/ Rest \/ UNCHANGED vars
  PROVE  IssueFrames' /\ Issues'
<1> USE DEF IssueInv, QuietInv, TrailInv
<1>1. delivered' = delivered
  BY OtherFrames
<1>2. Issues'
  BY <1>1 DEF Issues
<1>3. IssueFrames'
  <2>1. CASE \E t \in Thread, in \in Inputs : Call(t, in)
    <3>1. PICK t \in Thread, in \in Inputs : Call(t, in)
      BY <2>1
    <3> DEFINE p == IF in.sig = NoSig THEN "save" ELSE "find"
               g == [NoCall EXCEPT !.api = in.api, !.sev = in.sev, !.sig = in.sig]
    <3>2. Move(t, p, g) /\ resolution' = resolution /\ p \in {"save", "find"}
      BY <3>1 DEF Call
    <3>3. g.issue = 0
      BY DEF NoCall
    <3> HIDE DEF p, g
    <3>4. IssueFrame(delivered, resolution, t, p, g)
      BY <3>2, <3>3 DEF IssueFrame, Own, Loop, AtOne
    <3>5. \A u \in Thread : pc'[u] = (IF u = t THEN p ELSE pc[u])
                            /\ call'[u] = (IF u = t THEN g ELSE call[u])
      BY <3>2 DEF TypeOK, Move
    <3> QED
      BY <1>1, <3>2, <3>4, <3>5 DEF IssueFrames
  <2>2. CASE \E f \in Flow : Crash(f)
    <3>1. PICK f \in Flow : Crash(f)
      BY <2>2
    <3>2. resolution' = [resolution EXCEPT ![f] = [n \in NotifierIds(f) |-> 0]]
      BY <3>1 DEF Crash
    <3>3. \A t \in Thread :
            IF FlowOf[t] = f THEN pc'[t] = "idle"
            ELSE pc'[t] = pc[t] /\ call'[t] = call[t]
      BY <3>1 DEF Crash
    <3>4. \A t \in Thread : FlowOf[t] # f => resolution'[FlowOf[t]] = resolution[FlowOf[t]]
      BY <3>2, ConfigAssumption DEF TypeOK
    <3> SUFFICES ASSUME NEW t \in Thread
                 PROVE  IssueFrame(delivered', resolution', t, pc'[t], call'[t])
      BY DEF IssueFrames
    <3>5. CASE FlowOf[t] = f
      BY <3>3, <3>5 DEF IssueFrame, Own, Loop, Early, AtOne
    <3>6. CASE FlowOf[t] # f
      <4>1. IssueFrame(delivered, resolution, t, pc[t], call[t])
        BY DEF IssueFrames
      <4>2. IssueFrame(delivered, resolution', t, pc[t], call[t])
        BY <4>1, <3>4, <3>6 DEF IssueFrame, IssueLoop
      <4> QED
        BY <1>1, <3>3, <3>6, <4>2
    <3> QED
      BY <3>5, <3>6
  <2>3. CASE Tick \/ Rest \/ UNCHANGED vars
    BY <2>3 DEF Tick, Rest, vars, IssueFrames
  <2> QED
    BY <2>1, <2>2, <2>3
<1> QED
  BY <1>2, <1>3

LEMMA IssuesSay == IssueInv => AlertNamesItsIssue
<1> SUFFICES ASSUME IssueInv, NEW m \in delivered, Notifiers[m.flow][m.n].names
             PROVE  m.issue = IF \E x \in delivered :
                                   /\ x.rid = m.rid /\ x.recording = m.recording
                                   /\ Notifiers[x.flow][x.n].files /\ x.answer = "issue"
                              THEN m.rid ELSE 0
  BY DEF AlertNamesItsIssue
<1>1. ~m.recording /\ m.issue = IF Filed(delivered, m.rid) THEN m.rid ELSE 0
  BY DEF IssueInv, Issues, NamesTheIssue
<1>2. \A x \in delivered : x.recording \in BOOLEAN
  BY DEF IssueInv, QuietInv, MessagesKnown
<1> QED
  BY <1>1, <1>2 DEF Filed

\* With one thread per instance, every alert names the issue filed for its
\* report when GitHub's answer said which, and none otherwise.
THEOREM AlertsName == ASSUME OneThreadPerFlow PROVE Spec => []AlertNamesItsIssue
<1>1. Init => IssueInv
  BY InitQuiet DEF Init, IssueInv, IssueFrames, IssueFrame, Own, Loop, Early, AtOne, Issues
<1>2. IssueInv /\ [Next]_vars => IssueInv'
  <2> SUFFICES ASSUME IssueInv, [Next]_vars PROVE IssueInv'
    OBVIOUS
  <2>1. QuietInv'
    BY NextQuiet DEF IssueInv
  <2>2. CASE \E t \in Thread : Step(t)
    BY <2>1, <2>2, StepIssue DEF IssueInv
  <2>3. CASE ~\E t \in Thread : Step(t)
    BY <2>1, <2>3, OtherIssue DEF IssueInv, Next
  <2> QED
    BY <2>2, <2>3
<1> QED
  BY <1>1, <1>2, IssuesSay, PTL DEF Spec

(***************************************************************************)
(* The daily budget                                                        *)
(***************************************************************************)

\* Rows of the day that count against the budget and are not exempt, and the
\* alerts a thread was cleared for and has not recorded yet.
SpentToday(f, type) ==
  {k \in ActionsToday(actions, type, f, clock, {"failed", "degraded"}) :
     actions[k].sev \notin Exempt}
Flying == {"resolve", "send", "outcome"}
InFlight(f, type) ==
  {u \in Thread : /\ FlowOf[u] = f /\ pc[u] \in Flying /\ call[u].sev \notin Exempt
                  /\ Notifiers[f][call[u].n].type = type}
Others(t) == {u \in Thread \ {t} : FlowOf[u] = FlowOf[t]}

\* A cleared alert is spent before it is recorded.
Budget ==
  \A t \in Thread, type \in DOMAIN Limit :
    Cardinality(SpentToday(FlowOf[t], type)) + Cardinality(InFlight(FlowOf[t], type))
      <= Limit[type] + Cardinality(Others(t))
BudgetInv == TypeOK /\ Located /\ Budget

LEMMA DivMonotone ==
  ASSUME NEW a \in Int, NEW b \in Int, NEW n \in Nat, n > 0, a <= b
  PROVE  /\ a \div n \in Int /\ b \div n \in Int
         /\ (a \div n) * n <= (b \div n) * n
<1> DEFINE q == a \div n
           r == b \div n
<1>1. /\ q \in Int /\ r \in Int
      /\ q * n <= a /\ b < (r + 1) * n
  BY SMT
<1> HIDE DEF q, r
<1>2. q * n < (r + 1) * n
  BY <1>1
<1>3. q < r + 1
  <2> SUFFICES ASSUME q >= r + 1 PROVE FALSE
    BY <1>1
  <2>1. q * n >= (r + 1) * n
    BY <1>1, SMT
  <2> QED
    BY <1>1, <1>2, <2>1
<1>4. q <= r
  BY <1>1, <1>3
<1>5. q * n <= r * n
  BY <1>1, <1>4, SMT
<1> QED
  BY <1>1, <1>5 DEF q, r

\* The day begins no earlier as time passes.
LEMMA DayMoves ==
  ASSUME NEW now \in Int
  PROVE  DayStart(now) \in Int /\ DayStart(now + 1) \in Int /\ DayStart(now) <= DayStart(now + 1)
<1>1. DayLen \in Nat /\ DayLen > 0 /\ ZoneOffset \in Int
  BY ClockAssumption
<1> DEFINE a == now + ZoneOffset
           b == now + 1 + ZoneOffset
<1>2. a \in Int /\ b \in Int /\ a <= b
  BY <1>1
<1> HIDE DEF a, b
<1>3. /\ a \div DayLen \in Int /\ b \div DayLen \in Int
      /\ (a \div DayLen) * DayLen <= (b \div DayLen) * DayLen
  BY <1>1, <1>2, DivMonotone
<1> QED
  BY <1>1, <1>3 DEF DayStart, a, b

LEMMA BudgetSets ==
  ASSUME TypeOK
  PROVE  \A f, type :
           /\ IsFiniteSet(SpentToday(f, type)) /\ Cardinality(SpentToday(f, type)) \in Nat
           /\ IsFiniteSet(InFlight(f, type)) /\ Cardinality(InFlight(f, type)) \in Nat
<1> TAKE f, type
<1>1. DOMAIN actions = 1..Len(actions) /\ Len(actions) \in Nat
  BY LenProperties DEF TypeOK
<1>2. IsFiniteSet(1..Len(actions))
  BY <1>1, FS_Interval
<1>3. SpentToday(f, type) \in SUBSET (1..Len(actions)) /\ InFlight(f, type) \in SUBSET Thread
  BY <1>1 DEF SpentToday, ActionsToday, InFlight
<1> QED
  BY <1>2, <1>3, FS_Subset, FS_CardinalityType, ConfigAssumption

LEMMA OthersCount ==
  ASSUME NEW t \in Thread
  PROVE  /\ Cardinality(Others(t)) \in Nat
         /\ Cardinality({u \in Thread : FlowOf[u] = FlowOf[t]}) = Cardinality(Others(t)) + 1
<1> DEFINE T == {u \in Thread : FlowOf[u] = FlowOf[t]}
<1>1. Others(t) \in SUBSET Thread /\ t \notin Others(t) /\ T = Others(t) \cup {t}
  BY DEF Others
<1>2. IsFiniteSet(Others(t)) /\ Cardinality(Others(t)) \in Nat
  BY <1>1, FS_Subset, FS_CardinalityType, ConfigAssumption
<1> HIDE DEF T
<1>3. Cardinality(T) = Cardinality(Others(t)) + 1
  BY <1>1, <1>2, FS_AddElement
<1> QED
  BY <1>2, <1>3 DEF T

\* Fewer alerts spent and fewer in flight.
LEMMA BudgetShrinks ==
  ASSUME TypeOK, TypeOK', Budget,
         \A f, type : SpentToday(f, type)' \subseteq SpentToday(f, type)
                      /\ InFlight(f, type)' \subseteq InFlight(f, type)
  PROVE  Budget'
<1> SUFFICES ASSUME NEW t \in Thread, NEW type \in DOMAIN Limit
             PROVE  Cardinality(SpentToday(FlowOf[t], type)')
                      + Cardinality(InFlight(FlowOf[t], type)')
                      <= Limit[type] + Cardinality(Others(t))
  BY DEF Budget, Others
<1> DEFINE f == FlowOf[t]
<1>1. /\ Cardinality(SpentToday(f, type)') <= Cardinality(SpentToday(f, type))
      /\ Cardinality(InFlight(f, type)') <= Cardinality(InFlight(f, type))
  BY BudgetSets, FS_Subset
<1>2. Cardinality(SpentToday(f, type)) + Cardinality(InFlight(f, type))
        <= Limit[type] + Cardinality(Others(t))
  BY DEF Budget
<1>3. Limit[type] \in Nat /\ Cardinality(Others(t)) \in Nat
  BY OthersCount, ConfigAssumption
<1>4. /\ Cardinality(SpentToday(f, type)) \in Nat /\ Cardinality(InFlight(f, type)) \in Nat
      /\ Cardinality(SpentToday(f, type)') \in Nat /\ Cardinality(InFlight(f, type)') \in Nat
  BY BudgetSets, FS_Subset, FS_CardinalityType
<1> QED
  BY <1>1, <1>2, <1>3, <1>4

\* A thread that moves stays in flight only with the same alert.
LEMMA FlightMove ==
  ASSUME TypeOK, NEW t \in Thread, NEW p, NEW g, Move(t, p, g), NEW f, NEW type
  PROVE  /\ InFlight(f, type)' \subseteq InFlight(f, type) \cup {t}
         /\ t \in InFlight(f, type)' <=>
              /\ FlowOf[t] = f /\ p \in Flying /\ g.sev \notin Exempt
              /\ Notifiers[f][g.n].type = type
<1>1. \A u \in Thread : pc'[u] = (IF u = t THEN p ELSE pc[u])
                        /\ call'[u] = (IF u = t THEN g ELSE call[u])
  BY DEF TypeOK, Move
<1> QED
  BY <1>1 DEF InFlight

LEMMA SameActions ==
  ASSUME actions' = actions, clock' = clock
  PROVE  \A f, type : SpentToday(f, type)' = SpentToday(f, type)
BY DEF SpentToday, ActionsToday

\* The row of an attempt: spent only if it was sent, by a thread in flight.
LEMMA SpentRow ==
  ASSUME TypeOK, NEW t \in Thread, NEW n \in NotifierIds(FlowOf[t]), NEW s \in Status,
         SaveAction(t, n, s), clock' = clock, NEW f, NEW type
  PROVE  \/ SpentToday(f, type)' \subseteq SpentToday(f, type)
         \/ /\ s = "sent" /\ FlowOf[t] = f /\ call[t].sev \notin Exempt
            /\ Notifiers[f][n].type = type
            /\ \E k : SpentToday(f, type)' \subseteq SpentToday(f, type) \cup {k}
<1> DEFINE r == Row(t, n, s)
           last == Len(actions) + 1
<1>1. r \in Action
  <2>1. call[t] \in Frame /\ FlowOf[t] \in Flow /\ clock \in Int
    BY ConfigAssumption DEF TypeOK
  <2>2. Notifiers[FlowOf[t]] \in Seq(NotifierType)
    BY <2>1, ConfigAssumption
  <2>3. Notifiers[FlowOf[t]][n] \in NotifierType
    BY <2>2, ElementOfSeq, LenProperties DEF NotifierIds
  <2> QED
    BY <2>1, <2>3 DEF Row, Action, Frame, NotifierType
<1>2. /\ r.type = Notifiers[FlowOf[t]][n].type /\ r.flow = FlowOf[t] /\ r.status = s
      /\ r.sev = call[t].sev
  BY DEF Row
<1> HIDE DEF r
<1>3. actions' = Append(actions, r) /\ actions \in Seq(Action)
  BY DEF SaveAction, TypeOK, r
<1>4. /\ DOMAIN actions' = 1..last /\ DOMAIN actions = 1..Len(actions) /\ Len(actions) \in Nat
      /\ \A i \in DOMAIN actions : actions'[i] = actions[i]
      /\ actions'[last] = r
  BY <1>1, <1>3, AppendRow
<1>5. SpentToday(f, type)' \subseteq SpentToday(f, type) \cup {last}
  BY <1>4 DEF SpentToday, ActionsToday
<1>6. last \in SpentToday(f, type)' =>
        /\ r.type = type /\ r.flow = f /\ r.status \notin {"failed", "degraded"}
        /\ r.sev \notin Exempt
  BY <1>4 DEF SpentToday, ActionsToday
<1> HIDE DEF last
<1>7. CASE last \in SpentToday(f, type)'
  BY <1>2, <1>5, <1>6, <1>7 DEF Status
<1>8. CASE last \notin SpentToday(f, type)'
  BY <1>5, <1>8
<1> QED
  BY <1>7, <1>8

\* A step that spends what was in flight.
LEMMA OutcomeBudget ==
  ASSUME TypeOK, TypeOK', Located, Budget, NEW t \in Thread, SaveOutcome(t)
  PROVE  Budget'
<1> DEFINE c == call[t]
           st == IF c.ok THEN "sent" ELSE "failed"
           g == Counted(c, c.n, {st})
<1>1. c.n \in NotifierIds(FlowOf[t]) /\ pc[t] = "outcome" /\ clock' = clock
  BY DEF Located, SaveOutcome, world
<1>2. SaveAction(t, c.n, st) /\ Move(t, "gate", g) /\ st \in Status
  BY DoneMoves DEF SaveOutcome, Status
<1> HIDE DEF g, st
<1>3. \A f, type : InFlight(f, type)' \subseteq InFlight(f, type) \ {t}
  BY <1>2, FlightMove DEF Flying
<1>4. \A f, type :
         \/ SpentToday(f, type)' \subseteq SpentToday(f, type)
         \/ /\ FlowOf[t] = f /\ c.sev \notin Exempt /\ Notifiers[f][c.n].type = type
            /\ \E k : SpentToday(f, type)' \subseteq SpentToday(f, type) \cup {k}
  BY <1>1, <1>2, SpentRow
<1> SUFFICES ASSUME NEW u \in Thread, NEW type \in DOMAIN Limit
             PROVE  Cardinality(SpentToday(FlowOf[u], type)')
                      + Cardinality(InFlight(FlowOf[u], type)')
                      <= Limit[type] + Cardinality(Others(u))
  BY DEF Budget, Others
<1> DEFINE f == FlowOf[u]
           A == SpentToday(f, type)
           B == SpentToday(f, type)'
           I == InFlight(f, type)
           J == InFlight(f, type)'
<1>5. /\ IsFiniteSet(A) /\ Cardinality(A) \in Nat /\ IsFiniteSet(I) /\ Cardinality(I) \in Nat
  BY BudgetSets
<1>6. Cardinality(A) + Cardinality(I) <= Limit[type] + Cardinality(Others(u))
  BY DEF Budget
<1>7. Limit[type] \in Nat /\ Cardinality(Others(u)) \in Nat
  BY OthersCount, ConfigAssumption
<1>8. J \subseteq I \ {t}
  BY <1>3
<1>9. B \subseteq A \/ (t \in I /\ \E k : B \subseteq A \cup {k})
  BY <1>1, <1>4 DEF InFlight, Flying
<1> HIDE DEF A, B, I, J
<1>10. /\ IsFiniteSet(I \ {t}) /\ Cardinality(J) \in Nat
       /\ Cardinality(J) <= Cardinality(I \ {t})
       /\ Cardinality(I \ {t}) = IF t \in I THEN Cardinality(I) - 1 ELSE Cardinality(I)
  BY <1>5, <1>8, FS_RemoveElement, FS_Subset, FS_CardinalityType
<1>11. CASE B \subseteq A
  <2>1. Cardinality(B) \in Nat /\ Cardinality(B) <= Cardinality(A)
    BY <1>5, <1>11, FS_Subset, FS_CardinalityType
  <2> QED
    BY <2>1, <1>5, <1>6, <1>7, <1>10 DEF A, B, I, J
<1>12. CASE t \in I /\ \E k : B \subseteq A \cup {k}
  <2>1. PICK k : B \subseteq A \cup {k}
    BY <1>12
  <2>2. /\ IsFiniteSet(A \cup {k})
        /\ Cardinality(A \cup {k}) = IF k \in A THEN Cardinality(A) ELSE Cardinality(A) + 1
    BY <1>5, FS_AddElement
  <2>3. Cardinality(B) \in Nat /\ Cardinality(B) <= Cardinality(A \cup {k})
    BY <2>1, <2>2, FS_Subset, FS_CardinalityType
  <2> QED
    BY <2>2, <2>3, <1>5, <1>6, <1>7, <1>10, <1>12 DEF A, B, I, J
<1> QED
  BY <1>9, <1>11, <1>12

\* A thread is cleared while the day's count is below the limit.
LEMMA ClearedBudget ==
  ASSUME TypeOK, TypeOK', Located, Budget, NEW t \in Thread, CheckBudget(t)
  PROVE  Budget'
<1> DEFINE c == call[t]
           ft == FlowOf[t]
<1>1. PICK n \in NotifierIds(ft), p \in {"degrade", "resolve", "send"} :
         /\ Move(t, p, [c EXCEPT !.n = n])
         /\ p # "degrade" => Allowed(ft, Notifiers[ft][n].type, c.sev)
  BY DEF CheckBudget
<1> DEFINE g == [c EXCEPT !.n = n]
           y == Notifiers[ft][n].type
<1>2. g.n = n /\ g.sev = c.sev
  BY DEF TypeOK, Frame
<1>3. Move(t, p, g) /\ actions' = actions /\ clock' = clock
  BY <1>1 DEF CheckBudget, store, world
<1> HIDE DEF g
<1>4. \A f, type : /\ InFlight(f, type)' \subseteq InFlight(f, type) \cup {t}
                   /\ t \in InFlight(f, type)' =>
                        ft = f /\ p \in Flying /\ c.sev \notin Exempt /\ y = type
  BY <1>2, <1>3, FlightMove
<1>5. \A f, type : SpentToday(f, type)' = SpentToday(f, type)
  BY <1>3, SameActions
<1> SUFFICES ASSUME NEW u \in Thread, NEW type \in DOMAIN Limit
             PROVE  Cardinality(SpentToday(FlowOf[u], type)')
                      + Cardinality(InFlight(FlowOf[u], type)')
                      <= Limit[type] + Cardinality(Others(u))
  BY DEF Budget, Others
<1> DEFINE f == FlowOf[u]
           A == SpentToday(f, type)
           I == InFlight(f, type)
           J == InFlight(f, type)'
<1>6. /\ IsFiniteSet(A) /\ Cardinality(A) \in Nat /\ IsFiniteSet(I) /\ Cardinality(I) \in Nat
  BY BudgetSets
<1>7. Cardinality(A) + Cardinality(I) <= Limit[type] + Cardinality(Others(u))
  BY DEF Budget
<1>8. Limit[type] \in Nat /\ Cardinality(Others(u)) \in Nat
  BY OthersCount, ConfigAssumption
<1>9. CASE t \notin J
  <2>1. J \subseteq I
    BY <1>4, <1>9
  <2> HIDE DEF A, I, J
  <2>2. Cardinality(J) \in Nat /\ Cardinality(J) <= Cardinality(I)
    BY <1>6, <2>1, FS_Subset, FS_CardinalityType
  <2> QED
    BY <2>2, <1>5, <1>6, <1>7, <1>8 DEF A, I, J
<1>10. CASE t \in J
  <2>1. ft = f /\ p \in Flying /\ c.sev \notin Exempt /\ y = type
    BY <1>4, <1>10
  <2>2. Spent(f, type) < Limit[type]
    BY <1>1, <2>1 DEF Allowed, Flying
  <2> DEFINE X == IF type \in AlertActions THEN {"failed"} ELSE {}
             S == ActionsToday(actions, type, f, clock, X)
  <2>3. A \subseteq S
    BY DEF SpentToday, ActionsToday
  <2>4. Spent(f, type) = Cardinality(S)
    BY DEF Spent, CountActionsToday
  <2>5. IsFiniteSet(S)
    <3>1. DOMAIN actions = 1..Len(actions) /\ Len(actions) \in Nat
      BY LenProperties DEF TypeOK
    <3>2. IsFiniteSet(1..Len(actions)) /\ S \in SUBSET (1..Len(actions))
      BY <3>1, FS_Interval DEF ActionsToday
    <3> QED
      BY <3>2, FS_Subset
  <2>6. J \subseteq {v \in Thread : FlowOf[v] = FlowOf[u]}
    BY <1>4 DEF InFlight
  <2>7. /\ IsFiniteSet({v \in Thread : FlowOf[v] = FlowOf[u]})
        /\ Cardinality({v \in Thread : FlowOf[v] = FlowOf[u]}) = Cardinality(Others(u)) + 1
    <3>1. {v \in Thread : FlowOf[v] = FlowOf[u]} \in SUBSET Thread
      OBVIOUS
    <3> QED
      BY <3>1, FS_Subset, ConfigAssumption, OthersCount
  <2> HIDE DEF A, I, J, S
  <2>8. Cardinality(S) \in Nat /\ Cardinality(A) <= Cardinality(S)
    BY <2>3, <2>5, FS_Subset, FS_CardinalityType
  <2>9. Cardinality(J) \in Nat /\ Cardinality(J) <= Cardinality(Others(u)) + 1
    BY <2>6, <2>7, FS_Subset, FS_CardinalityType
  <2> QED
    BY <2>2, <2>4, <2>8, <2>9, <1>5, <1>6, <1>8 DEF A, J
<1> QED
  BY <1>9, <1>10

\* A step that clears nobody and sends nothing.
LEMMA CalmBudget ==
  ASSUME TypeOK, TypeOK', Located, Budget, NEW t \in Thread, NEW p, NEW g, Move(t, p, g),
         p \in Flying => pc[t] \in Flying /\ g.sev = call[t].sev /\ g.n = call[t].n,
         \A f, type : SpentToday(f, type)' \subseteq SpentToday(f, type)
  PROVE  Budget'
<1>1. \A f, type : InFlight(f, type)' \subseteq InFlight(f, type)
  <2> TAKE f, type
  <2>1. /\ InFlight(f, type)' \subseteq InFlight(f, type) \cup {t}
        /\ t \in InFlight(f, type)' =>
             /\ FlowOf[t] = f /\ p \in Flying /\ g.sev \notin Exempt
             /\ Notifiers[f][g.n].type = type
    BY FlightMove
  <2>2. t \in InFlight(f, type)' => t \in InFlight(f, type)
    BY <2>1 DEF InFlight
  <2> QED
    BY <2>1, <2>2
<1> QED
  BY <1>1, BudgetShrinks

LEMMA RowBudget ==
  ASSUME TypeOK, TypeOK', Located, Budget, NEW t \in Thread,
         NEW n \in NotifierIds(FlowOf[t]), NEW s \in {"failed", "degraded"}, NEW w,
         SaveAction(t, n, s), Done(t, n, w), clock' = clock
  PROVE  Budget'
<1> DEFINE g == Counted(call[t], n, w)
<1>1. Move(t, "gate", g) /\ "gate" \notin Flying
  BY DoneMoves DEF Flying
<1>2. \A f, type : SpentToday(f, type)' \subseteq SpentToday(f, type)
  BY SpentRow DEF Status
<1> HIDE DEF g
<1> QED
  BY <1>1, <1>2, CalmBudget

LEMMA StepBudget ==
  ASSUME TypeOK, TypeOK', Located, Budget, NEW t \in Thread, Step(t)
  PROVE  Budget'
<1> DEFINE c == call[t]
<1>1. CASE CheckBudget(t)
  BY <1>1, ClearedBudget
<1>2. CASE SaveOutcome(t)
  BY <1>2, OutcomeBudget
<1>3. CASE SuppressCascade(t)
  <2>1. PICK n \in NotifierIds(FlowOf[t]) :
          SaveAction(t, n, "degraded") /\ Done(t, n, {"cascade_skipped"})
    BY <1>3 DEF SuppressCascade
  <2>2. clock' = clock
    BY <1>3 DEF SuppressCascade, world
  <2> QED
    BY <2>1, <2>2, RowBudget
<1>4. CASE Degrade(t) \/ SaveFailure(t)
  <2>1. c.n \in NotifierIds(FlowOf[t]) /\ clock' = clock
    BY <1>4 DEF Degrade, SaveFailure, Located, world
  <2>2. \E s \in {"failed", "degraded"} : \E w : SaveAction(t, c.n, s) /\ Done(t, c.n, w)
    BY <1>4 DEF Degrade, SaveFailure
  <2> QED
    BY <2>1, <2>2, RowBudget
<1>5. CASE \/ SetResolution(t) \/ SendAccepted(t) \/ SendRefused(t)
  <2>1. \E p, g : /\ Move(t, p, g) /\ pc[t] \in Flying
                  /\ g.sev = c.sev /\ g.n = c.n
    <3>1. c \in Frame
      BY DEF TypeOK
    <3>2. CASE SetResolution(t)
      BY <3>2 DEF SetResolution, Flying
    <3>3. CASE SendAccepted(t)
      <4>1. PICK a : Move(t, "outcome", Accepted(c, a))
        BY <3>3, Accepts
      <4>2. pc[t] = "send" /\ Accepted(c, a).sev = c.sev /\ Accepted(c, a).n = c.n
        BY <3>1, <3>3 DEF SendAccepted, Accepted, Frame
      <4> QED
        BY <4>1, <4>2 DEF Flying
    <3>4. CASE SendRefused(t)
      <4>1. Move(t, "outcome", [c EXCEPT !.ok = FALSE]) /\ pc[t] = "send"
        BY <3>4 DEF SendRefused
      <4>2. [c EXCEPT !.ok = FALSE].sev = c.sev /\ [c EXCEPT !.ok = FALSE].n = c.n
        BY <3>1 DEF Frame
      <4> QED
        BY <4>1, <4>2 DEF Flying
    <3> QED
      BY <1>5, <3>2, <3>3, <3>4
  <2>2. actions' = actions /\ clock' = clock
    BY <1>5 DEF SetResolution, SendAccepted, SendRefused, store, world
  <2> QED
    BY <2>1, <2>2, SameActions, CalmBudget
<1>6. CASE ~(\/ CheckBudget(t) \/ SaveOutcome(t) \/ SuppressCascade(t) \/ Degrade(t)
             \/ SaveFailure(t) \/ SetResolution(t) \/ SendAccepted(t) \/ SendRefused(t))
  <2>1. actions' = actions /\ clock' = clock
    BY <1>6, Step(t), Zenon DEF Step, FindHit, FindNone, RecordDedupHit, DecideDeduped,
       CheckCascade, SaveReport, Diagnose, SkipNotifier, SendRaised, DecideDispatched,
       ReturnUndecided, LoseOutcome, Abort, RecordDecision, store, world
  <2>2. \E p \in PC \ Flying : \E g : Move(t, p, g)
    <3> DEFINE calm == {"hit", "cascade", "save", "hitDecision", "diagnose", "gate",
                        "recover", "idle"}
    <3>1. \E p \in calm : \E g : Move(t, p, g)
      <4>1. CASE FindHit(t) \/ FindNone(t) \/ RecordDedupHit(t) \/ CheckCascade(t)
        BY <4>1 DEF FindHit, FindNone, RecordDedupHit, CheckCascade
      <4>2. CASE SaveReport(t) \/ Diagnose(t) \/ DecideDeduped(t)
        BY <4>2 DEF SaveReport, Diagnose, DecideDeduped
      <4>3. CASE SkipNotifier(t)
        BY <4>3, Zenon DEF SkipNotifier, Done
      <4>4. CASE SendRaised(t) \/ DecideDispatched(t) \/ ReturnUndecided(t)
                 \/ LoseOutcome(t) \/ Abort(t)
        BY <4>4 DEF SendRaised, DecideDispatched, ReturnUndecided, LoseOutcome, Abort
      <4> QED
        BY <1>6, <4>1, <4>2, <4>3, <4>4, Step(t), Zenon DEF Step
    <3>2. calm \subseteq PC \ Flying
      BY DEF PC, Flying
    <3> QED
      BY <3>1, <3>2
  <2> QED
    BY <2>1, <2>2, SameActions, CalmBudget
<1> QED
  BY <1>1, <1>2, <1>3, <1>4, <1>5, <1>6

LEMMA OtherBudget ==
  ASSUME TypeOK, TypeOK', Located, Budget,
         \/ \E t \in Thread, in \in Inputs : Call(t, in)
         \/ \E f \in Flow : Crash(f)
         \/ Tick \/ Rest \/ UNCHANGED vars
  PROVE  Budget'
<1>1. CASE \E t \in Thread, in \in Inputs : Call(t, in)
  <2>1. PICK t \in Thread, in \in Inputs : Call(t, in)
    BY <1>1
  <2>2. \E p \in {"save", "find"} : \E g : Move(t, p, g)
    BY <2>1 DEF Call
  <2>3. actions' = actions /\ clock' = clock
    BY <2>1 DEF Call, store
  <2> QED
    BY <2>2, <2>3, SameActions, CalmBudget DEF Flying
<1>2. CASE \E f \in Flow : Crash(f)
  <2>1. actions' = actions /\ clock' = clock
        /\ \A u \in Thread : pc'[u] = "idle" \/ (pc'[u] = pc[u] /\ call'[u] = call[u])
    BY <1>2 DEF Crash, store
  <2>2. \A f, type : InFlight(f, type)' \subseteq InFlight(f, type)
    BY <2>1 DEF InFlight, Flying
  <2> QED
    BY <2>1, <2>2, SameActions, BudgetShrinks
<1>3. CASE Tick
  <2>1. actions' = actions /\ clock' = clock + 1 /\ pc' = pc /\ call' = call
    BY <1>3 DEF Tick, store
  <2>2. \A f, type : InFlight(f, type)' \subseteq InFlight(f, type)
    BY <2>1 DEF InFlight
  <2>3. DayStart(clock) \in Int /\ DayStart(clock') \in Int /\ DayStart(clock) <= DayStart(clock')
    BY <2>1, DayMoves DEF TypeOK
  <2>4. \A k \in DOMAIN actions : actions[k].at \in Int
    <3>1. actions \in Seq(Action)
      BY DEF TypeOK
    <3>2. \A k \in DOMAIN actions : actions[k] \in Action
      BY <3>1, ElementOfSeq, LenProperties
    <3> QED
      BY <3>2 DEF Action
  <2>5. \A f, type : SpentToday(f, type)' \subseteq SpentToday(f, type)
    BY <2>1, <2>3, <2>4 DEF SpentToday, ActionsToday
  <2> QED
    BY <2>2, <2>5, BudgetShrinks
<1>4. CASE Rest \/ UNCHANGED vars
  BY <1>4 DEF Rest, vars, Budget, SpentToday, ActionsToday, InFlight, Others
<1> QED
  BY <1>1, <1>2, <1>3, <1>4

LEMMA InitBudget == Init => BudgetInv
<1> SUFFICES ASSUME Init PROVE BudgetInv
  OBVIOUS
<1>1. TypeOK /\ Located
  BY InitDedupInv DEF DedupInv
<1>2. \A f, type : SpentToday(f, type) = {} /\ InFlight(f, type) = {}
  BY DEF Init, SpentToday, ActionsToday, InFlight, Flying
<1>3. \A t \in Thread, type \in DOMAIN Limit :
        0 <= Limit[type] + Cardinality(Others(t)) /\ Cardinality({}) = 0
  <2> TAKE t \in Thread, type \in DOMAIN Limit
  <2>1. Cardinality(Others(t)) \in Nat
    BY OthersCount
  <2>2. Limit[type] \in Nat
    BY ConfigAssumption
  <2>3. Cardinality({}) = 0
    BY FS_EmptySet
  <2> HIDE DEF Others
  <2> QED
    BY <2>1, <2>2, <2>3
<1> QED
  BY <1>1, <1>2, <1>3 DEF BudgetInv, Budget

LEMMA NextBudget == BudgetInv /\ [Next]_vars => BudgetInv'
<1> SUFFICES ASSUME BudgetInv, [Next]_vars PROVE BudgetInv'
  OBVIOUS
<1> USE DEF BudgetInv
<1>1. TypeOK' /\ Located'
  BY StepType, OtherType DEF Next
<1>2. CASE \E t \in Thread : Step(t)
  BY <1>1, <1>2, StepBudget
<1>3. CASE ~\E t \in Thread : Step(t)
  BY <1>1, <1>3, OtherBudget DEF Next
<1> QED
  BY <1>1, <1>2, <1>3

\* What the rows and the threads account for, of the alerts since a time: rows
\* that say "sent", threads that have the answer and are about to write one, and
\* those whose rows a store error or a crash may have lost.
Team(f) == {u \in Thread : FlowOf[u] = f}
SentRows(f, type, since) ==
  {k \in DOMAIN actions :
     /\ actions[k].type = type /\ actions[k].flow = f /\ actions[k].status = "sent"
     /\ actions[k].at >= since /\ actions[k].sev \notin Exempt}
Unwritten(f, type) == {u \in InFlight(f, type) : pc[u] = "outcome" /\ call[u].ok}
Lost(f) == faults * Cardinality(Team(f))

\* Every alert is accounted for.
Losses ==
  \A f, type : \A since \in Int :
    Cardinality(Alerts(f, type, since))
      <= Cardinality(SentRows(f, type, since)) + Cardinality(Unwritten(f, type)) + Lost(f)
MessagesPast == \A m \in delivered : m.at \in Int /\ m.at <= clock
LossInv == QuietInv /\ IsFiniteSet(delivered) /\ MessagesPast /\ Losses

Countable ==
  \A f, type, since :
    /\ IsFiniteSet(Alerts(f, type, since)) /\ Cardinality(Alerts(f, type, since)) \in Nat
    /\ IsFiniteSet(SentRows(f, type, since)) /\ Cardinality(SentRows(f, type, since)) \in Nat
    /\ IsFiniteSet(Unwritten(f, type)) /\ Cardinality(Unwritten(f, type)) \in Nat
    /\ Unwritten(f, type) \subseteq Team(f)
    /\ IsFiniteSet(Team(f)) /\ Cardinality(Team(f)) \in Nat /\ Lost(f) \in Nat

LEMMA LossSets == TypeOK /\ IsFiniteSet(delivered) => Countable
<1> SUFFICES ASSUME TypeOK, IsFiniteSet(delivered), NEW f, NEW type, NEW since
             PROVE  /\ IsFiniteSet(Alerts(f, type, since))
                    /\ Cardinality(Alerts(f, type, since)) \in Nat
                    /\ IsFiniteSet(SentRows(f, type, since))
                    /\ Cardinality(SentRows(f, type, since)) \in Nat
                    /\ IsFiniteSet(Unwritten(f, type)) /\ Cardinality(Unwritten(f, type)) \in Nat
                    /\ Unwritten(f, type) \subseteq Team(f)
                    /\ IsFiniteSet(Team(f)) /\ Cardinality(Team(f)) \in Nat /\ Lost(f) \in Nat
  BY DEF Countable
<1>1. DOMAIN actions = 1..Len(actions) /\ Len(actions) \in Nat /\ faults \in Nat
  BY LenProperties DEF TypeOK
<1>2. IsFiniteSet(1..Len(actions))
  BY <1>1, FS_Interval
<1>3. /\ Alerts(f, type, since) \in SUBSET delivered
      /\ SentRows(f, type, since) \in SUBSET (1..Len(actions))
      /\ Unwritten(f, type) \in SUBSET Thread /\ Team(f) \in SUBSET Thread
      /\ Unwritten(f, type) \subseteq Team(f)
  BY <1>1 DEF Alerts, SentRows, Unwritten, InFlight, Team
<1>4. IsFiniteSet(Team(f)) /\ Cardinality(Team(f)) \in Nat
  BY <1>3, FS_Subset, FS_CardinalityType, ConfigAssumption
<1>5. Lost(f) \in Nat
  BY <1>1, <1>4 DEF Lost
<1> QED
  BY <1>2, <1>3, <1>4, <1>5, FS_Subset, FS_CardinalityType, ConfigAssumption
LEMMA LossSetsNext == (TypeOK /\ IsFiniteSet(delivered) => Countable)'
BY LossSets, PTL

\* Rows stay, and only send() adds to the messages.
LEMMA AlertsStay ==
  ASSUME QuietInv, Grown(reports, actions, delivered, reports', actions', delivered'),
         NEW f, NEW type, NEW since
  PROVE  /\ SentRows(f, type, since) \subseteq SentRows(f, type, since)'
         /\ \A m \in delivered : m \in Alerts(f, type, since)' <=> m \in Alerts(f, type, since)
<1>1. \A m \in delivered : ~m.recording => reports'[m.rid].sev = reports[m.rid].sev
  BY DEF QuietInv, MessagesKnown, Grown, GrownReports, SameReport
<1> QED
  BY <1>1 DEF Grown, GrownActions, SentRows, Alerts

\* A step that adds no alert and loses no row, or is a fault.
LEMMA LossCalm ==
  ASSUME QuietInv, IsFiniteSet(delivered), Losses, TypeOK', IsFiniteSet(delivered'),
         Grown(reports, actions, delivered, reports', actions', delivered'),
         \A m \in delivered' \ delivered : m.answer = "none",
         \/ /\ faults' = faults
            /\ \A f, type : Unwritten(f, type) \subseteq Unwritten(f, type)'
         \/ faults' = faults + 1
  PROVE  Losses'
<1> USE DEF QuietInv, TrailInv
<1> SUFFICES ASSUME NEW f, NEW type, NEW since \in Int
             PROVE  Cardinality(Alerts(f, type, since)')
                      <= Cardinality(SentRows(f, type, since)')
                           + Cardinality(Unwritten(f, type)') + Lost(f)'
  BY DEF Losses
<1> DEFINE A == Alerts(f, type, since)
           B == Alerts(f, type, since)'
           S == SentRows(f, type, since)
           T == SentRows(f, type, since)'
           U == Unwritten(f, type)
           V == Unwritten(f, type)'
           n == Cardinality(Team(f))
<1>1. /\ IsFiniteSet(A) /\ Cardinality(A) \in Nat /\ IsFiniteSet(S) /\ Cardinality(S) \in Nat
      /\ IsFiniteSet(U) /\ Cardinality(U) \in Nat /\ U \subseteq Team(f)
      /\ IsFiniteSet(Team(f)) /\ n \in Nat /\ Lost(f) \in Nat
  BY LossSets DEF Countable
<1>2. /\ IsFiniteSet(B) /\ Cardinality(B) \in Nat /\ IsFiniteSet(T) /\ Cardinality(T) \in Nat
      /\ IsFiniteSet(V) /\ Cardinality(V) \in Nat
  BY LossSetsNext DEF Countable
<1>3. B \subseteq A /\ S \subseteq T
  <2>1. S \subseteq T /\ \A m \in delivered : m \in B <=> m \in A
    BY AlertsStay
  <2>2. \A m \in B : m \in delivered' /\ m.answer # "none"
    BY DEF Alerts
  <2> QED
    BY <2>1, <2>2
<1>4. Cardinality(A) <= Cardinality(S) + Cardinality(U) + Lost(f)
  BY DEF Losses
<1>5. Lost(f) = faults * n /\ Lost(f)' = faults' * n /\ faults \in Nat
  BY DEF Lost, Team, TypeOK
<1> HIDE DEF A, B, S, T, U, V, n
<1>6. /\ Cardinality(B) <= Cardinality(A) /\ Cardinality(S) <= Cardinality(T)
      /\ Cardinality(U) <= n
  BY <1>1, <1>2, <1>3, FS_Subset DEF n
<1>7. CASE faults' = faults /\ U \subseteq V
  <2>1. Cardinality(U) <= Cardinality(V)
    BY <1>2, <1>7, FS_Subset
  <2> QED
    BY <1>1, <1>2, <1>4, <1>5, <1>6, <1>7, <2>1 DEF B, T, V
<1>8. CASE faults' = faults + 1
  <2>1. faults' * n = faults * n + n
    BY <1>1, <1>5, <1>8
  <2> QED
    BY <1>1, <1>2, <1>4, <1>5, <1>6, <2>1 DEF B, T, V
<1> QED
  BY <1>7, <1>8 DEF U, V

\* Who is about to write a row, after a move of thread t.
LEMMA UnwrittenMove ==
  ASSUME TypeOK, NEW t \in Thread, NEW p, NEW g, Move(t, p, g), NEW f, NEW type
  PROVE  /\ Unwritten(f, type) \ {t} \subseteq Unwritten(f, type)'
         /\ t \in Unwritten(f, type)' <=>
              /\ FlowOf[t] = f /\ p = "outcome" /\ g.ok /\ g.sev \notin Exempt
              /\ Notifiers[f][g.n].type = type
<1>1. \A u \in Thread : pc'[u] = (IF u = t THEN p ELSE pc[u])
                        /\ call'[u] = (IF u = t THEN g ELSE call[u])
  BY DEF TypeOK, Move
<1> QED
  BY <1>1 DEF Unwritten, InFlight, Flying

\* An alert is out, and its thread is about to say so.
LEMMA LossSend ==
  ASSUME QuietInv, IsFiniteSet(delivered), Losses, TypeOK', IsFiniteSet(delivered'),
         NEW t \in Thread, SendAccepted(t),
         Grown(reports, actions, delivered, reports', actions', delivered')
  PROVE  Losses'
<1> USE DEF QuietInv, TrailInv
<1> DEFINE c == call[t]
<1>1. PICK a \in {"target", "issue"} : /\ delivered' = delivered \cup {Sent(t, a)}
                                      /\ Move(t, "outcome", Accepted(c, a))
  BY Accepts
<1> DEFINE m == Sent(t, a)
<1>2. /\ pc[t] = "send" /\ faults' = faults /\ reports' = reports /\ actions' = actions
      /\ c \in Frame /\ clock \in Int
  BY DEF SendAccepted, store, world, TypeOK
<1>3. /\ m.flow = FlowOf[t] /\ m.rid = c.rid /\ m.n = c.n /\ m.recording = c.recording
  BY DEF Sent
<1>4. Accepted(c, a).ok /\ Accepted(c, a).sev = c.sev /\ Accepted(c, a).n = c.n
  BY <1>2 DEF Accepted, Frame
<1>5. ~c.recording => reports[c.rid].sev = c.sev
  <2>1. LoopFrame(reports, actions, delivered, t, "send", c) \/ c.recording
    BY <1>2 DEF Frames, FrameOK, Own, Loop
  <2> QED
    BY <2>1 DEF LoopFrame, OwnReport
<1> SUFFICES ASSUME NEW f, NEW type, NEW since \in Int
             PROVE  Cardinality(Alerts(f, type, since)')
                      <= Cardinality(SentRows(f, type, since)')
                           + Cardinality(Unwritten(f, type)') + Lost(f)'
  BY DEF Losses
<1> HIDE DEF m, c
<1> DEFINE A == Alerts(f, type, since)
           B == Alerts(f, type, since)'
           S == SentRows(f, type, since)
           T == SentRows(f, type, since)'
           U == Unwritten(f, type)
           V == Unwritten(f, type)'
<1>6. t \notin U /\ U \subseteq V
  <2>1. t \notin U
    BY <1>2 DEF Unwritten
  <2> QED
    BY <1>1, <2>1, UnwrittenMove DEF c
<1>7. B \subseteq A \/ (t \in V /\ B \subseteq A \cup {m})
  <2>1. \A x \in delivered : x \in B <=> x \in A
    BY AlertsStay
  <2>2. B \subseteq delivered \cup {m}
    BY <1>1 DEF Alerts, m
  <2>3. m \in B => FlowOf[t] = f /\ Notifiers[f][c.n].type = type /\ c.sev \notin Exempt
    BY <1>2, <1>3, <1>5 DEF Alerts
  <2>4. m \in B => t \in V
    BY <1>1, <1>4, <2>3, UnwrittenMove DEF c
  <2> QED
    BY <2>1, <2>2, <2>4
<1>8. /\ IsFiniteSet(A) /\ Cardinality(A) \in Nat /\ Cardinality(S) \in Nat
      /\ IsFiniteSet(U) /\ Cardinality(U) \in Nat /\ Lost(f) \in Nat
  BY LossSets DEF Countable
<1>9. /\ IsFiniteSet(B) /\ Cardinality(B) \in Nat /\ IsFiniteSet(V) /\ Cardinality(V) \in Nat
  BY LossSetsNext DEF Countable
<1>10. Cardinality(A) <= Cardinality(S) + Cardinality(U) + Lost(f)
  BY DEF Losses
<1>11. T = S /\ Lost(f)' = Lost(f)
  BY <1>2 DEF SentRows, Lost, Team
<1> HIDE DEF A, B, S, T, U, V
<1>12. CASE B \subseteq A
  <2>1. Cardinality(B) <= Cardinality(A) /\ Cardinality(U) <= Cardinality(V)
    BY <1>6, <1>8, <1>9, <1>12, FS_Subset
  <2> QED
    BY <1>8, <1>9, <1>10, <1>11, <2>1 DEF B, T, V
<1>13. CASE t \in V /\ B \subseteq A \cup {m}
  <2>1. /\ IsFiniteSet(A \cup {m})
        /\ Cardinality(A \cup {m}) = IF m \in A THEN Cardinality(A) ELSE Cardinality(A) + 1
    BY <1>8, FS_AddElement
  <2>2. Cardinality(B) <= Cardinality(A \cup {m})
    BY <1>13, <2>1, FS_Subset
  <2>3. IsFiniteSet(U \cup {t}) /\ Cardinality(U \cup {t}) = Cardinality(U) + 1
    BY <1>6, <1>8, FS_AddElement
  <2>4. Cardinality(U \cup {t}) <= Cardinality(V)
    BY <1>6, <1>9, <1>13, FS_Subset
  <2> QED
    BY <1>8, <1>9, <1>10, <1>11, <2>1, <2>2, <2>3, <2>4 DEF B, T, V
<1> QED
  BY <1>7, <1>12, <1>13

\* The row of an alert is written.
LEMMA LossSave ==
  ASSUME LossInv, TypeOK', NEW t \in Thread, SaveOutcome(t)
  PROVE  Losses'
<1> USE DEF LossInv, QuietInv, TrailInv
<1> DEFINE c == call[t]
           st == IF c.ok THEN "sent" ELSE "failed"
           row == Row(t, c.n, st)
           last == Len(actions) + 1
<1>1. /\ pc[t] = "outcome" /\ clock' = clock /\ faults' = faults /\ reports' = reports
      /\ delivered' = delivered /\ c.n \in NotifierIds(FlowOf[t])
  BY DEF Located, SaveOutcome, world
<1>2. SaveAction(t, c.n, st) /\ Move(t, "gate", Counted(c, c.n, {st})) /\ st \in Status
  BY DoneMoves DEF SaveOutcome, Status
<1>3. row \in Action /\ actions' = Append(actions, row) /\ actions \in Seq(Action)
  BY <1>1, <1>2, SavedAction DEF SaveAction, TypeOK
<1>4. /\ row.type = Notifiers[FlowOf[t]][c.n].type /\ row.flow = FlowOf[t]
      /\ row.status = st /\ row.sev = c.sev /\ row.at = clock
  BY DEF Row
<1> HIDE DEF row
<1>5. /\ DOMAIN actions' = 1..last /\ DOMAIN actions = 1..Len(actions) /\ Len(actions) \in Nat
      /\ \A i \in DOMAIN actions : actions'[i] = actions[i]
      /\ actions'[last] = row
  BY <1>3, AppendRow
<1> SUFFICES ASSUME NEW f, NEW type, NEW since \in Int
             PROVE  Cardinality(Alerts(f, type, since)')
                      <= Cardinality(SentRows(f, type, since)')
                           + Cardinality(Unwritten(f, type)') + Lost(f)'
  BY DEF Losses
<1> DEFINE A == Alerts(f, type, since)
           S == SentRows(f, type, since)
           T == SentRows(f, type, since)'
           U == Unwritten(f, type)
           V == Unwritten(f, type)'
<1>6. Alerts(f, type, since)' = A /\ Lost(f)' = Lost(f)
  BY <1>1 DEF Alerts, Lost, Team
<1>7. S \subseteq T /\ last \notin S
  BY <1>5 DEF SentRows
<1>8. U \ {t} \subseteq V
  BY <1>2, UnwrittenMove
<1>9. t \in U /\ since <= clock => last \in T
  BY <1>1, <1>4, <1>5 DEF Unwritten, InFlight, SentRows
<1>10. since > clock => A = {}
  BY DEF Alerts, MessagesPast, TypeOK
<1>11. /\ IsFiniteSet(A) /\ Cardinality(A) \in Nat /\ IsFiniteSet(S) /\ Cardinality(S) \in Nat
       /\ IsFiniteSet(U) /\ Cardinality(U) \in Nat /\ Lost(f) \in Nat
  BY LossSets DEF Countable
<1>12. /\ IsFiniteSet(T) /\ Cardinality(T) \in Nat /\ IsFiniteSet(V) /\ Cardinality(V) \in Nat
  <2>1. IsFiniteSet(delivered')
    BY <1>1
  <2> QED
    BY <2>1, LossSetsNext DEF Countable
<1>13. Cardinality(A) <= Cardinality(S) + Cardinality(U) + Lost(f)
  BY DEF Losses
<1>14. clock \in Int
  BY DEF TypeOK
<1> HIDE DEF A, S, T, U, V, last, c, st
<1>15. /\ Cardinality(S) <= Cardinality(T)
       /\ IsFiniteSet(U \ {t}) /\ Cardinality(U \ {t}) <= Cardinality(V)
       /\ Cardinality(U \ {t}) = IF t \in U THEN Cardinality(U) - 1 ELSE Cardinality(U)
  BY <1>7, <1>8, <1>11, <1>12, FS_Subset, FS_RemoveElement
<1>16. CASE t \notin U
  BY <1>6, <1>11, <1>12, <1>13, <1>15, <1>16 DEF A, T, V
<1>17. CASE t \in U /\ since <= clock
  <2>1. IsFiniteSet(S \cup {last}) /\ Cardinality(S \cup {last}) = Cardinality(S) + 1
    BY <1>7, <1>11, FS_AddElement
  <2>2. Cardinality(S \cup {last}) <= Cardinality(T)
    BY <1>7, <1>9, <1>12, <1>17, FS_Subset
  <2> QED
    BY <1>6, <1>11, <1>12, <1>13, <1>15, <1>17, <2>1, <2>2 DEF A, T, V
<1>18. CASE since > clock
  <2>1. Cardinality(A) = 0
    BY <1>10, <1>18, FS_EmptySet
  <2> QED
    BY <1>6, <1>11, <1>12, <2>1 DEF A, T, V
<1> QED
  BY <1>14, <1>16, <1>17, <1>18

LEMMA StepLoss ==
  ASSUME LossInv, TypeOK', NEW t \in Thread, Step(t)
  PROVE  IsFiniteSet(delivered') /\ MessagesPast' /\ Losses'
<1> USE DEF LossInv, QuietInv, TrailInv
<1>1. Grown(reports, actions, delivered, reports', actions', delivered')
  BY EveryStepFrame DEF StepFrame
<1>2. CASE SendAccepted(t)
  <2>1. PICK a : delivered' = delivered \cup {Sent(t, a)}
    BY <1>2, Accepts
  <2>2. IsFiniteSet(delivered')
    BY <2>1, FS_AddElement
  <2>3. Sent(t, a).at = clock /\ clock \in Int /\ clock' = clock
    BY <1>2 DEF Sent, TypeOK, SendAccepted, world
  <2> QED
    BY <1>1, <1>2, <2>1, <2>2, <2>3, LossSend DEF MessagesPast
<1>3. CASE SaveOutcome(t)
  BY <1>3, LossSave DEF SaveOutcome, world, MessagesPast
<1>4. CASE SendRefused(t) \/ SendRaised(t)
  <2>1. /\ delivered' = delivered \/ delivered' = delivered \cup {Sent(t, "none")}
        /\ pc[t] = "send" /\ clock' = clock /\ faults' = faults
    BY <1>4, Unanswers
  <2>2. IsFiniteSet(delivered')
    BY <2>1, FS_AddElement
  <2>3. Sent(t, "none").at = clock /\ Sent(t, "none").answer = "none" /\ clock \in Int
    BY DEF Sent, TypeOK
  <2>4. MessagesPast'
    BY <2>1, <2>3 DEF MessagesPast
  <2>5. \A f, type : Unwritten(f, type) \subseteq Unwritten(f, type)'
    <3>1. \E p, g : Move(t, p, g)
      BY <1>4 DEF SendRefused, SendRaised
    <3>2. \A f, type : t \notin Unwritten(f, type)
      BY <2>1 DEF Unwritten
    <3> QED
      BY <3>1, <3>2, UnwrittenMove
  <2>6. Losses'
    BY <1>1, <2>1, <2>2, <2>3, <2>5, LossCalm
  <2> QED
    BY <2>2, <2>4, <2>6
<1>5. CASE LoseOutcome(t)
  <2>1. delivered' = delivered /\ clock' = clock /\ faults' = faults + 1
    BY <1>5 DEF LoseOutcome
  <2> QED
    BY <1>1, <2>1, LossCalm DEF MessagesPast
<1>6. CASE ~(\/ SendAccepted(t) \/ SendRefused(t) \/ SendRaised(t) \/ SaveOutcome(t)
             \/ LoseOutcome(t))
  <2>1. /\ delivered' = delivered /\ clock' = clock
        /\ faults' = faults \/ faults' = faults + 1
    BY <1>6, Step(t), Zenon DEF Step, FindHit, FindNone, RecordDedupHit, DecideDeduped,
       CheckCascade, SaveReport, Diagnose, SkipNotifier, SuppressCascade, CheckBudget,
       Degrade, SetResolution, SaveFailure, DecideDispatched, ReturnUndecided, Abort,
       RecordDecision, world
  <2>2. pc[t] # "outcome"
    <3>1. CASE Abort(t)
      BY <3>1, Zenon DEF Abort, AtNotifier
    <3>2. CASE ~Abort(t)
      BY <1>6, <3>2, Step(t), Zenon DEF Step, FindHit, FindNone, RecordDedupHit,
         DecideDeduped, CheckCascade, SaveReport, Diagnose, SkipNotifier, SuppressCascade,
         AtNotifier, CheckBudget, Degrade, SetResolution, SaveFailure, DecideDispatched,
         ReturnUndecided
    <3> QED
      BY <3>1, <3>2
  <2>3. \A f, type : Unwritten(f, type) \subseteq Unwritten(f, type)'
    <3>1. \E p, g : Move(t, p, g)
      BY EveryStepFrame DEF StepFrame
    <3>2. \A f, type : t \notin Unwritten(f, type)
      BY <2>2 DEF Unwritten
    <3> QED
      BY <3>1, <3>2, UnwrittenMove
  <2>4. Losses'
    BY <1>1, <2>1, <2>3, LossCalm
  <2> QED
    BY <2>1, <2>4 DEF MessagesPast
<1> QED
  BY <1>2, <1>3, <1>4, <1>5, <1>6

LEMMA OtherLoss ==
  ASSUME LossInv, TypeOK',
         \/ \E t \in Thread, in \in Inputs : Call(t, in)
         \/ \E f \in Flow : Crash(f)
         \/ Tick \/ Rest \/ UNCHANGED vars
  PROVE  IsFiniteSet(delivered') /\ MessagesPast' /\ Losses'
<1> USE DEF LossInv, QuietInv, TrailInv
<1>1. reports' = reports /\ actions' = actions /\ delivered' = delivered
  BY OtherFrames
<1>2. clock \in Int /\ (clock' = clock \/ clock' = clock + 1)
  BY DEF Call, Crash, Tick, Rest, vars, TypeOK
<1>3. MessagesPast'
  BY <1>1, <1>2 DEF MessagesPast
<1>4. Grown(reports, actions, delivered, reports', actions', delivered')
  BY <1>1, StillGrows
<1>5. \/ faults' = faults + 1
      \/ faults' = faults /\ \A f, type : Unwritten(f, type) \subseteq Unwritten(f, type)'
  <2>1. CASE \E t \in Thread, in \in Inputs : Call(t, in)
    <3>1. PICK t \in Thread, in \in Inputs : Call(t, in)
      BY <2>1
    <3>2. /\ pc[t] = "idle" /\ faults' = faults /\ \E p, g : Move(t, p, g)
      BY <3>1 DEF Call
    <3>3. \A f, type : t \notin Unwritten(f, type)
      BY <3>2 DEF Unwritten
    <3> QED
      BY <3>2, <3>3, UnwrittenMove
  <2>2. CASE \E f \in Flow : Crash(f)
    BY <2>2 DEF Crash
  <2>3. CASE Tick \/ Rest \/ UNCHANGED vars
    BY <2>3 DEF Tick, Rest, vars, Unwritten, InFlight
  <2> QED
    BY <2>1, <2>2, <2>3
<1> QED
  BY <1>1, <1>3, <1>4, <1>5, LossCalm

LEMMA InitLoss == Init => LossInv
<1> SUFFICES ASSUME Init PROVE LossInv
  OBVIOUS
<1>1. QuietInv /\ delivered = {}
  BY InitQuiet DEF Init
<1>2. \A f, type, since : Alerts(f, type, since) = {}
  BY <1>1 DEF Alerts
<1>3. IsFiniteSet(delivered) /\ Cardinality({}) = 0
  BY <1>1, FS_EmptySet
<1>4. TypeOK
  BY <1>1 DEF QuietInv, TrailInv
<1>5. Losses
  <2> SUFFICES ASSUME NEW f, NEW type, NEW since \in Int
               PROVE  Cardinality(Alerts(f, type, since))
                        <= Cardinality(SentRows(f, type, since))
                             + Cardinality(Unwritten(f, type)) + Lost(f)
    BY DEF Losses
  <2>1. /\ Cardinality(SentRows(f, type, since)) \in Nat
        /\ Cardinality(Unwritten(f, type)) \in Nat /\ Lost(f) \in Nat
    BY <1>3, <1>4, LossSets DEF Countable
  <2> QED
    BY <1>2, <1>3, <2>1
<1> QED
  BY <1>1, <1>3, <1>5 DEF LossInv, MessagesPast

LEMMA NextLoss == LossInv /\ [Next]_vars => LossInv'
<1> SUFFICES ASSUME LossInv, [Next]_vars PROVE LossInv'
  OBVIOUS
<1>1. QuietInv' /\ TypeOK'
  BY NextQuiet DEF LossInv, QuietInv, TrailInv
<1>2. CASE \E t \in Thread : Step(t)
  BY <1>1, <1>2, StepLoss DEF LossInv
<1>3. CASE ~\E t \in Thread : Step(t)
  BY <1>1, <1>3, OtherLoss DEF LossInv, Next
<1> QED
  BY <1>2, <1>3

\* Alerts the channels accepted exceed the day's budget by at most one per other
\* thread of the flow, and by one per thread for every fault, however many race.
THEOREM BudgetHolds == Spec => []BudgetOverrunBounded
<1>1. BudgetInv /\ LossInv => BudgetOverrunBounded
  <2> SUFFICES ASSUME BudgetInv, LossInv, NEW t \in Thread, NEW type \in DOMAIN Limit
               PROVE  Cardinality(Alerts(FlowOf[t], type, DayStart(clock)))
                        <= Limit[type] + Cardinality(Others(t)) + Lost(FlowOf[t])
    <3>1. \A t \in Thread : /\ {u \in Thread : FlowOf[u] = FlowOf[t]} = Team(FlowOf[t])
                            /\ Team(FlowOf[t]) \ {t} = Others(t)
      BY DEF Team, Others
    <3> QED
      BY <3>1 DEF BudgetOverrunBounded, Lost
  <2> USE DEF LossInv, QuietInv, TrailInv
  <2> DEFINE f == FlowOf[t]
             now == DayStart(clock)
             A == Alerts(f, type, now)
             S == SentRows(f, type, now)
             U == Unwritten(f, type)
  <2>1. /\ Cardinality(SpentToday(f, type)) \in Nat /\ Cardinality(InFlight(f, type)) \in Nat
        /\ IsFiniteSet(SpentToday(f, type)) /\ IsFiniteSet(InFlight(f, type))
    BY BudgetSets
  <2>2. Cardinality(SpentToday(f, type)) + Cardinality(InFlight(f, type))
          <= Limit[type] + Cardinality(Others(t))
    BY DEF BudgetInv, Budget
  <2>3. Limit[type] \in Nat /\ Cardinality(Others(t)) \in Nat
    BY OthersCount, ConfigAssumption
  <2>4. now \in Int
    BY DayMoves DEF TypeOK
  <2>5. /\ Cardinality(A) \in Nat /\ Cardinality(S) \in Nat /\ Cardinality(U) \in Nat
        /\ Lost(f) \in Nat
    BY LossSets DEF Countable
  <2>6. Cardinality(A) <= Cardinality(S) + Cardinality(U) + Lost(f)
    BY <2>4 DEF Losses
  <2>7. S \subseteq SpentToday(f, type) /\ U \subseteq InFlight(f, type)
    BY DEF SentRows, SpentToday, ActionsToday, Unwritten
  <2>8. /\ Cardinality(S) <= Cardinality(SpentToday(f, type))
        /\ Cardinality(U) <= Cardinality(InFlight(f, type))
    BY <2>1, <2>7, FS_Subset
  <2> QED
    BY <2>1, <2>2, <2>3, <2>5, <2>6, <2>8
<1> QED
  BY <1>1, InitBudget, NextBudget, InitLoss, NextLoss, PTL DEF Spec

\* With a single thread the README's dedup promise holds: within a cooldown a
\* signature is stored once.
THEOREM DedupOnce == ASSUME \A t, u \in Thread : t = u PROVE Spec => []OncePerWindow
<1>1. DedupInv => OncePerWindow
  <2> SUFFICES ASSUME DedupInv, NEW i \in DOMAIN reports, NEW j \in DOMAIN reports,
                      Repeats(i, j)
               PROVE  reports[i].at + Cooldown < reports[j].at
    BY DEF OncePerWindow
  <2>1. reports[i].by \in Thread /\ reports[j].by \in Thread
    BY RowTypes DEF DedupInv, Report
  <2>2. reports[i].by = reports[j].by
    BY <2>1
  <2> QED
    BY <2>2 DEF DedupInv, OnePerThreadPerWindow
<1> QED
  BY <1>1, InitDedupInv, NextDedup, PTL DEF Spec

(***************************************************************************)
(* Pages: who is paged, and that nobody is paged twice                     *)
(***************************************************************************)

\* The notifier a call is at is one it has not done, and one that asked for
\* what the call carries.
AskedFor(t, c) ==
  LET v == Notifiers[FlowOf[t]][c.n]
  IN  /\ c.n \in c.todo
      /\ c.sev \in v.on
      /\ c.cascade => v.onCascade
      /\ c.recording => v.records
SentBy(D, t, c) ==
  \E m \in D : /\ m.flow = FlowOf[t] /\ m.rid = c.rid /\ m.n = c.n
               /\ m.recording = c.recording /\ m.answer # "none"
\* No notifier that is still to come has been paged for the report.
NotYet(D, p, c) ==
  \A m \in D : m.rid = c.rid /\ ~m.recording =>
    m.n \notin c.todo \/ (p \in {"outcome", "recover"} /\ m.n = c.n)

PageFrame(R, D, t, p, c) ==
  /\ p \in Loop => c.rid \in DOMAIN R
  /\ p \in AtOne => AskedFor(t, c)
  /\ p = "outcome" /\ c.ok => SentBy(D, t, c)
  /\ Own(p, c) => NotYet(D, p, c)
  /\ Own(p, c) /\ p = "diagnose" => ~Taken(D, c.rid)

PageFrames == \A t \in Thread : PageFrame(reports, delivered, t, pc[t], call[t])
\* A report is its thread's instance's.
Origins == \A i \in DOMAIN reports : reports[i].flow = FlowOf[reports[i].by]
PageInv == QuietInv /\ PageFrames /\ Origins

\* A move inside the loop that sends nothing, at the same notifier or on to
\* one that asked for the report.
LEMMA PageMove ==
  ASSUME NEW R, NEW D, NEW t, NEW p \in Loop, NEW c, NEW q \in Loop \ {"diagnose"}, NEW g,
         PageFrame(R, D, t, p, c),
         g.rid = c.rid, g.recording = c.recording,
         g.todo \subseteq c.todo \/ p = "diagnose",
         q \in AtOne => AskedFor(t, g),
         q = "outcome" /\ g.ok => SentBy(D, t, g),
         p \in {"outcome", "recover"}
           => \/ q \in {"outcome", "recover"} /\ g.n = c.n
              \/ c.n \notin g.todo
  PROVE  PageFrame(R, D, t, q, g)
<1>1. ASSUME Own(q, g) PROVE NotYet(D, q, g)
  <2>1. Own(p, c)
    BY <1>1 DEF Own
  <2> SUFFICES ASSUME NEW m \in D, m.rid = g.rid, ~m.recording
               PROVE  m.n \notin g.todo \/ (q \in {"outcome", "recover"} /\ m.n = g.n)
    BY DEF NotYet
  <2>2. CASE p = "diagnose"
    BY <2>1, <2>2 DEF PageFrame, Taken
  <2>3. CASE p # "diagnose"
    BY <2>1, <2>3 DEF PageFrame, NotYet
  <2> QED
    BY <2>2, <2>3
<1> QED
  BY <1>1 DEF PageFrame

\* Outside the loop a frame claims nothing.
LEMMA PageOutside ==
  ASSUME NEW R, NEW D, NEW t, NEW p, p \notin Loop, NEW c
  PROVE  PageFrame(R, D, t, p, c)
BY DEF PageFrame, Own, Loop, AtOne

\* The loop is done with notifier n.
LEMMA PageDone ==
  ASSUME TypeOK, PageFrames, NEW t \in Thread, pc[t] \in Loop, NEW n, NEW w, Done(t, n, w),
         pc[t] \in {"outcome", "recover"} => n = call[t].n
  PROVE  \E p, g : Move(t, p, g) /\ PageFrame(reports, delivered, t, p, g)
<1> DEFINE c == call[t]
           g == Counted(c, n, w)
<1>1. c \in Frame /\ PageFrame(reports, delivered, t, pc[t], c)
  BY DEF TypeOK, PageFrames
<1>2. g.rid = c.rid /\ g.recording = c.recording /\ g.todo = c.todo \ {n}
  BY <1>1 DEF Frame, Counted
<1>3. Move(t, "gate", g)
  BY DoneMoves
<1> HIDE DEF g
<1>4. "gate" \in Loop \ {"diagnose"} /\ "gate" \notin AtOne
  BY DEF Loop, AtOne
<1>5. PageFrame(reports, delivered, t, "gate", g)
  BY <1>1, <1>2, <1>4, PageMove
<1> QED
  BY <1>3, <1>5

\* What the steps of the loop that send nothing do to the frame.
LEMMA LoopPage ==
  ASSUME TypeOK, PageFrames, NEW t \in Thread,
         \/ Diagnose(t) \/ SkipNotifier(t) \/ SuppressCascade(t) \/ CheckBudget(t)
         \/ Degrade(t) \/ SetResolution(t) \/ SaveOutcome(t) \/ SaveFailure(t)
         \/ LoseOutcome(t)
  PROVE  \E p, g : Move(t, p, g) /\ PageFrame(reports, delivered, t, p, g)
<1> DEFINE c == call[t]
<1>1. c \in Frame /\ PageFrame(reports, delivered, t, pc[t], c)
  BY DEF TypeOK, PageFrames
<1>2. CASE Diagnose(t)
  <2>1. PICK k : Move(t, "gate", EnterDispatch(t, [c EXCEPT !.cat = k]))
    BY <1>2 DEF Diagnose
  <2> DEFINE g == EnterDispatch(t, [c EXCEPT !.cat = k])
  <2>2. g.rid = c.rid /\ g.recording = c.recording
    BY <1>1 DEF Frame, EnterDispatch
  <2>3. Move(t, "gate", g) /\ pc[t] = "diagnose"
    BY <1>2, <2>1 DEF Diagnose
  <2> HIDE DEF c, g
  <2>4. PageFrame(reports, delivered, t, "gate", g)
    BY <1>1, <2>2, <2>3, PageMove DEF Loop, AtOne
  <2> QED
    BY <2>3, <2>4
<1>3. CASE SkipNotifier(t)
  <2>1. \E n, w : Done(t, n, w)
    BY <1>3, Zenon DEF SkipNotifier
  <2>2. pc[t] = "gate"
    BY <1>3 DEF SkipNotifier
  <2> QED
    BY <2>1, <2>2, PageDone DEF Loop
<1>4. CASE SuppressCascade(t)
  <2>1. \E n, w : Done(t, n, w)
    BY <1>4, Zenon DEF SuppressCascade
  <2>2. pc[t] = "gate"
    BY <1>4 DEF SuppressCascade, AtNotifier
  <2> QED
    BY <2>1, <2>2, PageDone DEF Loop
<1>5. CASE Degrade(t) \/ SaveOutcome(t) \/ SaveFailure(t)
  <2>1. \E w : Done(t, c.n, w)
    BY <1>5, Zenon DEF Degrade, SaveOutcome, SaveFailure
  <2>2. pc[t] \in {"degrade", "outcome", "recover"}
    BY <1>5 DEF Degrade, SaveOutcome, SaveFailure
  <2> QED
    BY <2>1, <2>2, PageDone DEF Loop
<1>6. CASE CheckBudget(t)
  <2>1. PICK n \in NotifierIds(FlowOf[t]), p \in {"degrade", "resolve", "send"} :
          /\ AtNotifier(t, n) /\ ~CascadeSuppressed(t, n)
          /\ Move(t, p, [c EXCEPT !.n = n])
    BY <1>6, Zenon DEF CheckBudget
  <2> DEFINE g == [c EXCEPT !.n = n]
  <2>2. /\ g.rid = c.rid /\ g.recording = c.recording /\ g.todo = c.todo /\ g.n = n
        /\ g.sev = c.sev /\ g.cascade = c.cascade
    BY <1>1 DEF Frame
  <2>3. Move(t, p, g) /\ pc[t] = "gate" /\ n \in c.todo /\ PassedOver(t, n) = {}
    BY <2>1 DEF AtNotifier, Upcoming
  <2>4. /\ c.sev \in Notifiers[FlowOf[t]][n].on
        /\ c.recording => Notifiers[FlowOf[t]][n].records
    BY <2>3 DEF PassedOver
  <2>5. c.cascade => Notifiers[FlowOf[t]][n].onCascade
    BY <2>1 DEF CascadeSuppressed
  <2> HIDE DEF c, g
  <2>6. AskedFor(t, g)
    BY <2>2, <2>3, <2>4, <2>5 DEF AskedFor
  <2>7. p \in Loop \ {"diagnose"} /\ "gate" \in Loop /\ p # "outcome"
    BY DEF Loop
  <2>8. PageFrame(reports, delivered, t, "gate", c)
    BY <1>1, <2>3
  <2>9. PageFrame(reports, delivered, t, p, g)
    BY <2>2, <2>6, <2>7, <2>8, PageMove
  <2> QED
    BY <2>3, <2>9
<1>7. CASE SetResolution(t) \/ LoseOutcome(t)
  <2>1. PICK p \in {"send", "recover"} : Move(t, p, c) /\ (p = "send" => pc[t] = "resolve")
    BY <1>7 DEF SetResolution, LoseOutcome
  <2>2. pc[t] \in {"resolve", "outcome"}
    BY <1>7 DEF SetResolution, LoseOutcome
  <2> HIDE DEF c
  <2>3. AskedFor(t, c)
    BY <1>1, <2>2 DEF PageFrame, AtOne
  <2>4. /\ p \in Loop \ {"diagnose"} /\ pc[t] \in Loop /\ p # "outcome"
        /\ pc[t] \in {"outcome", "recover"} => p \in {"outcome", "recover"}
    BY <2>1, <2>2 DEF Loop
  <2>5. PageFrame(reports, delivered, t, p, c)
    BY <1>1, <2>3, <2>4, PageMove
  <2> QED
    BY <2>1, <2>5
<1> QED
  BY <1>2, <1>3, <1>4, <1>5, <1>6, <1>7

\* A send: its notifier is the one the call is now done with, whatever came back.
LEMMA HandedPage ==
  ASSUME TypeOK, PageFrames, NEW t \in Thread, pc[t] = "send", NEW p \in {"outcome", "recover"},
         NEW g, NEW D,
         \A m \in D \ delivered : m.n = call[t].n,
         g.rid = call[t].rid, g.recording = call[t].recording, g.todo = call[t].todo,
         g.n = call[t].n, g.sev = call[t].sev, g.cascade = call[t].cascade,
         p = "outcome" /\ g.ok => SentBy(D, t, g)
  PROVE  PageFrame(reports, D, t, p, g)
<1>1. PageFrame(reports, delivered, t, "send", call[t])
  BY DEF PageFrames
<1>2. call[t].rid \in DOMAIN reports /\ AskedFor(t, call[t])
  BY <1>1 DEF PageFrame, Loop, AtOne
<1>3. AskedFor(t, g)
  BY <1>2 DEF AskedFor
<1>4. ASSUME Own(p, g) PROVE NotYet(D, p, g)
  <2>1. NotYet(delivered, "send", call[t])
    BY <1>1, <1>4 DEF PageFrame, Own, Loop
  <2> QED
    BY <2>1 DEF NotYet
<1> QED
  BY <1>2, <1>3, <1>4 DEF PageFrame

LEMMA SendPage ==
  ASSUME TypeOK, PageFrames, NEW t \in Thread,
         SendAccepted(t) \/ SendRefused(t) \/ SendRaised(t)
  PROVE  \E p, g : Move(t, p, g) /\ PageFrame(reports, delivered', t, p, g)
<1> DEFINE c == call[t]
<1>1. c \in Frame
  BY DEF TypeOK
<1>2. ASSUME NEW a
      PROVE  LET m == Sent(t, a)
             IN  /\ m.flow = FlowOf[t] /\ m.rid = c.rid /\ m.n = c.n
                 /\ m.recording = c.recording /\ m.answer = a
  BY DEF Sent
<1>3. CASE SendAccepted(t)
  <2>1. PICK a \in {"target", "issue"} : /\ delivered' = delivered \cup {Sent(t, a)}
                                        /\ Move(t, "outcome", Accepted(c, a))
    BY <1>3, Accepts
  <2> DEFINE g == Accepted(c, a)
  <2>2. /\ g.rid = c.rid /\ g.recording = c.recording /\ g.todo = c.todo /\ g.n = c.n
        /\ g.sev = c.sev /\ g.cascade = c.cascade
    BY <1>1 DEF Frame, Accepted
  <2>3. pc[t] = "send" /\ Move(t, "outcome", g)
    BY <1>3, <2>1 DEF SendAccepted
  <2> HIDE DEF g
  <2>4. SentBy(delivered', t, g)
    BY <1>2, <2>1, <2>2 DEF SentBy
  <2>5. \A m \in delivered' \ delivered : m.n = c.n
    BY <1>2, <2>1
  <2>6. PageFrame(reports, delivered', t, "outcome", g)
    BY <2>2, <2>3, <2>4, <2>5, HandedPage
  <2> QED
    BY <2>3, <2>6
<1>4. ASSUME SendRefused(t) \/ SendRaised(t)
      PROVE  pc[t] = "send" /\ \A m \in delivered' \ delivered : m.n = c.n
  BY <1>2, <1>4, Unanswers
<1>5. CASE SendRefused(t)
  <2> DEFINE g == [c EXCEPT !.ok = FALSE]
  <2>1. /\ g.rid = c.rid /\ g.recording = c.recording /\ g.todo = c.todo /\ g.n = c.n
        /\ g.sev = c.sev /\ g.cascade = c.cascade /\ ~g.ok
    BY <1>1 DEF Frame
  <2>2. Move(t, "outcome", g)
    BY <1>5 DEF SendRefused
  <2> HIDE DEF g
  <2>3. PageFrame(reports, delivered', t, "outcome", g)
    BY <1>4, <1>5, <2>1, HandedPage
  <2> QED
    BY <2>2, <2>3
<1>6. CASE SendRaised(t)
  <2>1. Move(t, "recover", c)
    BY <1>6 DEF SendRaised
  <2>2. PageFrame(reports, delivered', t, "recover", c)
    BY <1>4, <1>6, HandedPage
  <2> QED
    BY <2>1, <2>2
<1> QED
  BY <1>3, <1>5, <1>6

\* The frame a step takes its thread to keeps its claims.
LEMMA OwnPage ==
  ASSUME PageInv, NEW t \in Thread, Step(t)
  PROVE  \E p, g : Move(t, p, g) /\ PageFrame(reports', delivered', t, p, g)
<1> DEFINE c == call[t]
<1> USE DEF PageInv, QuietInv, TrailInv
<1>1. c \in Frame /\ PageFrame(reports, delivered, t, pc[t], c)
  BY DEF TypeOK, PageFrames
<1>2. CASE DecideDeduped(t)
  <2> DEFINE g == EnterDispatch(t, [c EXCEPT !.recording = TRUE])
  <2>1. /\ Move(t, "gate", g) /\ pc[t] = "hitDecision"
        /\ reports' = reports /\ delivered' = delivered
    BY <1>2 DEF DecideDeduped, RecordDecision
  <2>2. g.recording /\ g.rid = c.rid
    BY <1>1 DEF Frame, EnterDispatch
  <2>3. c.rid \in DOMAIN reports
    BY <2>1 DEF Frames, FrameOK, PlaceFrame
  <2> HIDE DEF c, g
  <2>4. PageFrame(reports, delivered, t, "gate", g)
    BY <2>2, <2>3 DEF PageFrame, AtOne, Own
  <2> QED
    BY <2>1, <2>4
<1>3. CASE \/ FindHit(t) \/ FindNone(t) \/ RecordDedupHit(t)
           \/ CheckCascade(t) \/ DecideDispatched(t) \/ ReturnUndecided(t) \/ Abort(t)
  <2>1. \E p \in {"hit", "cascade", "save", "hitDecision", "idle"} : \E g : Move(t, p, g)
    BY <1>3 DEF FindHit, FindNone, RecordDedupHit, CheckCascade, DecideDispatched,
       ReturnUndecided, Abort
  <2> QED
    BY <2>1, PageOutside DEF Loop
<1>4. CASE SaveReport(t)
  <2> DEFINE last == Len(reports) + 1
             g == [c EXCEPT !.rid = last]
             h == EnterDispatch(t, g)
  <2>1. Move(t, "diagnose", g) \/ Move(t, "gate", h)
    BY <1>4 DEF SaveReport
  <2>2. delivered' = delivered /\ last \in DOMAIN reports'
    BY <1>4, ReportRows DEF SaveReport
  <2>3. g.rid = last /\ h.rid = last
    BY <1>1 DEF Frame, EnterDispatch
  <2>4. ~Taken(delivered, last)
    BY FreshReport
  <2> HIDE DEF g, h, last
  <2>5. PageFrame(reports', delivered', t, "diagnose", g)
        /\ PageFrame(reports', delivered', t, "gate", h)
    BY <2>2, <2>3, <2>4 DEF PageFrame, NotYet, Taken, AtOne
  <2> QED
    BY <2>1, <2>5
<1>5. CASE SendAccepted(t) \/ SendRefused(t) \/ SendRaised(t)
  <2>1. reports' = reports
    BY <1>5, Zenon DEF SendAccepted, SendRefused, SendRaised, store
  <2> QED
    BY <1>5, <2>1, SendPage
<1>6. CASE \/ Diagnose(t) \/ SkipNotifier(t) \/ SuppressCascade(t) \/ CheckBudget(t)
           \/ Degrade(t) \/ SetResolution(t) \/ SaveOutcome(t) \/ SaveFailure(t)
           \/ LoseOutcome(t)
  <2>1. delivered' = delivered
    BY <1>6, Zenon DEF Diagnose, SkipNotifier, SuppressCascade, CheckBudget, Degrade,
       SetResolution, SaveOutcome, SaveFailure, LoseOutcome
  <2>2. reports' = reports
    BY <1>6, Zenon DEF Diagnose, SkipNotifier, SuppressCascade, CheckBudget, Degrade,
       SetResolution, SaveOutcome, SaveFailure, LoseOutcome, store
  <2> QED
    BY <1>6, <2>1, <2>2, LoopPage
<1> QED
  BY <1>2, <1>3, <1>4, <1>5, <1>6, Step(t) DEF Step

\* What a step sends is not about the report another thread is dispatching.
LEMMA OthersPage ==
  ASSUME PageInv, NEW t \in Thread, Step(t), NEW u \in Thread, u # t
  PROVE  PageFrame(reports', delivered', u, pc[u], call[u])
<1> USE DEF PageInv, QuietInv, TrailInv
<1>1. PageFrame(reports, delivered, u, pc[u], call[u])
  BY DEF PageFrames
<1>2. DOMAIN reports \subseteq DOMAIN reports' /\ delivered \subseteq delivered'
  BY EveryStepFrame DEF StepFrame, Grown, GrownReports
<1>3. SentBy(delivered, u, call[u]) => SentBy(delivered', u, call[u])
  BY <1>2 DEF SentBy
<1>4. ASSUME Own(pc[u], call[u]), NEW m \in delivered', m.rid = call[u].rid, ~m.recording
      PROVE  m \in delivered
  <2>1. Own(pc[t], call[t]) => call[t].rid # call[u].rid
    BY <1>4, Apart
  <2> QED
    BY <1>4, <2>1, MessageRows DEF Own, Loop
<1>5. Own(pc[u], call[u]) => NotYet(delivered', pc[u], call[u])
  BY <1>1, <1>4 DEF PageFrame, NotYet
<1>6. Own(pc[u], call[u]) /\ pc[u] = "diagnose" => ~Taken(delivered', call[u].rid)
  BY <1>1, <1>4 DEF PageFrame, Taken
<1> QED
  BY <1>1, <1>2, <1>3, <1>5, <1>6 DEF PageFrame

LEMMA StepPage ==
  ASSUME PageInv, NEW t \in Thread, Step(t)
  PROVE  PageFrames' /\ Origins'
<1> USE DEF PageInv, QuietInv, TrailInv
<1>1. PageFrames'
  <2>1. PICK p, g : Move(t, p, g) /\ PageFrame(reports', delivered', t, p, g)
    BY OwnPage
  <2>2. \A u \in Thread : pc'[u] = (IF u = t THEN p ELSE pc[u])
                          /\ call'[u] = (IF u = t THEN g ELSE call[u])
    BY <2>1 DEF TypeOK, Move
  <2> SUFFICES ASSUME NEW u \in Thread
               PROVE  PageFrame(reports', delivered', u, pc'[u], call'[u])
    BY DEF PageFrames
  <2>3. CASE u = t
    BY <2>1, <2>2, <2>3
  <2>4. CASE u # t
    BY <2>2, <2>4, OthersPage
  <2> QED
    BY <2>3, <2>4
<1>2. Origins'
  <2>1. GrownReports(reports, reports')
    BY EveryStepFrame DEF StepFrame, Grown
  <2> SUFFICES ASSUME NEW i \in DOMAIN reports'
               PROVE  reports'[i].flow = FlowOf[reports'[i].by]
    BY DEF Origins
  <2>2. CASE i \in DOMAIN reports
    BY <2>1, <2>2 DEF Origins, GrownReports, SameReport
  <2>3. CASE i \notin DOMAIN reports
    <3>1. SaveReport(t) /\ i = Len(reports) + 1
      BY <2>3, ReportRows
    <3> DEFINE r == [flow |-> FlowOf[t], sig |-> call[t].sig, sev |-> call[t].sev,
                     at |-> clock, cascade |-> call[t].cascade, by |-> t, dedup |-> 1]
    <3>2. reports' = Append(reports, r) /\ reports \in Seq(Report)
      BY <3>1 DEF SaveReport, TypeOK
    <3>3. r \in Report /\ r.flow = FlowOf[t] /\ r.by = t
      BY StoredReport DEF Report
    <3> HIDE DEF r
    <3>4. reports'[i] = r
      BY <3>1, <3>2, <3>3, AppendRow
    <3> QED
      BY <3>3, <3>4
  <2> QED
    BY <2>2, <2>3
<1> QED
  BY <1>1, <1>2

LEMMA OtherPage ==
  ASSUME PageInv,
         \/ \E t \in Thread, in \in Inputs : Call(t, in)
         \/ \E f \in Flow : Crash(f)
         \/ Tick \/ Rest \/ UNCHANGED vars
  PROVE  PageFrames' /\ Origins'
<1> USE DEF PageInv, QuietInv, TrailInv
<1>1. reports' = reports /\ delivered' = delivered
  BY OtherFrames
<1>2. \A u \in Thread : pc'[u] \notin Loop \/ (pc'[u] = pc[u] /\ call'[u] = call[u])
  <2>1. CASE \E t \in Thread, in \in Inputs : Call(t, in)
    <3>1. PICK t \in Thread, in \in Inputs : Call(t, in)
      BY <2>1
    <3>2. \E p \in {"save", "find"} : \E g : Move(t, p, g)
      BY <3>1 DEF Call
    <3> QED
      BY <3>2 DEF Loop, Move, TypeOK
  <2>2. CASE \E f \in Flow : Crash(f)
    BY <2>2 DEF Crash, TypeOK, Loop
  <2>3. CASE Tick \/ Rest \/ UNCHANGED vars
    BY <2>3 DEF Tick, Rest, vars
  <2> QED
    BY <2>1, <2>2, <2>3
<1>3. PageFrames'
  BY <1>1, <1>2, PageOutside DEF PageFrames
<1> QED
  BY <1>1, <1>3 DEF Origins

LEMMA InitPage == Init => PageInv
BY InitQuiet DEF Init, PageInv, PageFrames, PageFrame, Own, Loop, AtOne, Origins

LEMMA NextPage == PageInv /\ [Next]_vars => PageInv'
<1> SUFFICES ASSUME PageInv, [Next]_vars PROVE PageInv'
  OBVIOUS
<1>1. QuietInv'
  BY NextQuiet DEF PageInv
<1>2. PageFrames' /\ Origins'
  <2>1. CASE \E t \in Thread : Step(t)
    BY <2>1, StepPage
  <2>2. CASE ~\E t \in Thread : Step(t)
    BY <2>2, OtherPage DEF Next
  <2> QED
    BY <2>1, <2>2
<1> QED
  BY <1>1, <1>2 DEF PageInv

LEMMA PagesSay == PageInv => PagedOnce
<1> SUFFICES ASSUME PageInv, NEW t \in Thread, pc[t] = "send", ~call[t].recording,
                    NEW m \in delivered, m.n = call[t].n, m.rid = call[t].rid, ~m.recording
             PROVE  FALSE
  BY DEF PagedOnce
<1>1. PageFrame(reports, delivered, t, "send", call[t])
  BY DEF PageInv, PageFrames
<1>2. NotYet(delivered, "send", call[t]) /\ call[t].n \in call[t].todo
  BY <1>1 DEF PageFrame, AskedFor, AtOne, Own, Loop
<1> QED
  BY <1>2 DEF NotYet

\* Whenever a notifier is about to be handed a report as a page, its channel has
\* not taken that report before, whatever raised or was lost in between.
THEOREM NobodyPagedTwice == Spec => []PagedOnce
BY InitPage, NextPage, PagesSay, PTL DEF Spec

(***************************************************************************)
(* The pipeline implements ReportPromise                                   *)
(*                                                                         *)
(* A step files a report, sends a message, acknowledges one, judges a      *)
(* report or fails; every other step leaves what the promise is about      *)
(* alone.                                                                  *)
(***************************************************************************)

PromiseStep == [Promise!PromiseNext]_(Promise!promiseVars)
Untold == Receipts' = Receipts /\ Verdicts' = Verdicts
Unsent == Messages(FALSE)' = Messages(FALSE) /\ Messages(TRUE)' = Messages(TRUE)
SameTables == Stored' = Stored /\ Unsent /\ Untold

LEMMA StoredRows ==
  ASSUME TypeOK
  PROVE  /\ DOMAIN Stored = DOMAIN reports
         /\ \A i \in DOMAIN reports :
              /\ Stored[i].flow = reports[i].flow /\ Stored[i].sev = reports[i].sev
              /\ Stored[i].cascade = reports[i].cascade
BY DEF Stored

\* Whatever a store error or a crash leaves undone, it breaks no promise: it
\* only ends the time in which silence can be relied on.
LEMMA Falters ==
  ASSUME TypeOK, faults' \in {faults, faults + 1}, SameTables
  PROVE  PromiseStep
<1>1. CASE faults' = faults
  BY <1>1 DEF SameTables, Unsent, Untold, PromiseStep, Promise!promiseVars
<1>2. CASE faults' = faults + 1
  <2>1. (faults' = 0) = FALSE
    BY <1>2 DEF TypeOK
  <2>2. Promise!Falter
    BY <2>1 DEF SameTables, Unsent, Untold, Promise!Falter
  <2> QED
    BY <2>2 DEF PromiseStep, Promise!PromiseNext
<1> QED
  BY <1>1, <1>2

\* A repeat that is counted leaves the report what it was.
LEMMA StoredStays ==
  ASSUME TypeOK, NEW t \in Thread, Step(t), ~SaveReport(t), GrownReports(reports, reports')
  PROVE  Stored' = Stored
<1>1. DOMAIN reports' = DOMAIN reports
  BY ReportRows
<1>2. \A i \in DOMAIN reports : /\ reports'[i].flow = reports[i].flow
                                /\ reports'[i].sev = reports[i].sev
                                /\ reports'[i].cascade = reports[i].cascade
  BY DEF GrownReports, SameReport
<1> QED
  BY <1>1, <1>2 DEF Stored

LEMMA FilesReport ==
  ASSUME TypeOK, NEW t \in Thread, SaveReport(t)
  PROVE  PromiseStep
<1> DEFINE r == [flow |-> FlowOf[t], sig |-> call[t].sig, sev |-> call[t].sev,
                 at |-> clock, cascade |-> call[t].cascade, by |-> t, dedup |-> 1]
           e == [flow |-> FlowOf[t], sev |-> call[t].sev, cascade |-> call[t].cascade]
<1>1. reports' = Append(reports, r) /\ reports \in Seq(Report)
  BY DEF SaveReport, TypeOK
<1>2. r \in Report /\ r.flow = FlowOf[t] /\ r.sev = call[t].sev /\ r.cascade = call[t].cascade
  BY StoredReport DEF Report
<1>3. FlowOf[t] \in Flow /\ call[t].sev \in Severity /\ call[t].cascade \in BOOLEAN
  BY ConfigAssumption DEF TypeOK, Frame
<1> HIDE DEF r
<1>4. /\ DOMAIN reports' = 1..(Len(reports) + 1) /\ DOMAIN reports = 1..Len(reports)
      /\ Len(reports) \in Nat /\ reports'[Len(reports) + 1] = r
      /\ \A i \in DOMAIN reports : reports'[i] = reports[i]
  BY <1>1, <1>2, AppendRow
<1>5. Stored' = Append(Stored, e)
  <2>1. Stored \in Seq({[flow |-> reports[i].flow, sev |-> reports[i].sev,
                         cascade |-> reports[i].cascade] : i \in DOMAIN reports} \cup {e})
    BY <1>4, IsASeq DEF Stored
  <2>2. Len(Stored) = Len(reports)
    BY <1>4, <2>1, LenProperties DEF Stored
  <2>3. /\ DOMAIN Append(Stored, e) = 1..(Len(reports) + 1)
        /\ \A i \in DOMAIN reports : Append(Stored, e)[i] = Stored[i]
        /\ Append(Stored, e)[Len(reports) + 1] = e
    BY <1>4, <2>1, <2>2, AppendRow
  <2>4. Append(Stored, e) = [i \in 1..(Len(reports) + 1) |-> Append(Stored, e)[i]]
    BY <2>1, <2>3, AppendRow
  <2>5. Stored' = [i \in 1..(Len(reports) + 1) |->
                     [flow |-> reports'[i].flow, sev |-> reports'[i].sev,
                      cascade |-> reports'[i].cascade]]
    BY <1>4 DEF Stored
  <2>6. \A i \in 1..(Len(reports) + 1) :
          Append(Stored, e)[i] = [flow |-> reports'[i].flow, sev |-> reports'[i].sev,
                                  cascade |-> reports'[i].cascade]
    <3>1. \A i \in 1..(Len(reports) + 1) : i \in DOMAIN reports \/ i = Len(reports) + 1
      BY <1>4
    <3>2. \A i \in DOMAIN reports : Stored[i] = [flow |-> reports[i].flow, sev |-> reports[i].sev,
                                                cascade |-> reports[i].cascade]
      BY DEF Stored
    <3> QED
      BY <1>2, <1>4, <2>3, <3>1, <3>2
  <2> QED
    BY <2>4, <2>5, <2>6
<1>6. /\ actions' = actions /\ decisions' = decisions /\ delivered' = delivered
      /\ faults' = faults
  BY DEF SaveReport, world
<1>7. Promise!File(FlowOf[t], call[t].sev, call[t].cascade)
  BY <1>5, <1>6 DEF Promise!File, Messages, Receipts, Verdicts
<1> QED
  BY <1>3, <1>7 DEF PromiseStep, Promise!PromiseNext

\* The message as the promise sees it.
Told(m) == [report |-> m.rid, flow |-> m.flow, n |-> m.n, answered |-> m.answer # "none"]

\* One more message is one more page or one more archive copy.
LEMMA SendsMessage ==
  ASSUME PageInv, NEW t \in Thread, pc[t] = "send", NEW a, delivered' = delivered \cup {Sent(t, a)},
         reports' = reports, actions' = actions, decisions' = decisions, faults' = faults
  PROVE  PromiseStep
<1> DEFINE c == call[t]
           f == FlowOf[t]
           m == Sent(t, a)
           b == a # "none"
           e == [report |-> c.rid, flow |-> f, n |-> c.n, answered |-> b]
<1> USE DEF PageInv, QuietInv, TrailInv
<1>2. m.flow = f /\ m.rid = c.rid /\ m.n = c.n /\ m.recording = c.recording /\ m.answer = a
  BY DEF Sent
<1>3. c.recording \in BOOLEAN /\ f \in Flow /\ c.n \in DOMAIN Notifiers[f] /\ b \in BOOLEAN
  BY ConfigAssumption DEF TypeOK, Frame, Located, NotifierIds
<1>4. c.rid \in DOMAIN reports /\ AskedFor(t, c)
  BY DEF PageFrames, PageFrame, Loop, AtOne
<1>5. Told(m) = e
  BY <1>2 DEF Told
<1> HIDE DEF m, b
<1>6. /\ Messages(TRUE)' = IF c.recording THEN Messages(TRUE) \cup {e} ELSE Messages(TRUE)
      /\ Messages(FALSE)' = IF c.recording THEN Messages(FALSE) ELSE Messages(FALSE) \cup {e}
  <2>1. ASSUME NEW r \in BOOLEAN
        PROVE  Messages(r)' = IF r = c.recording THEN Messages(r) \cup {e} ELSE Messages(r)
    <3>1. {x \in delivered' : x.recording = r} =
            {x \in delivered : x.recording = r} \cup (IF r = c.recording THEN {m} ELSE {})
      BY <1>2 DEF m
    <3>2. /\ Messages(r) = {Told(x) : x \in {y \in delivered : y.recording = r}}
          /\ Messages(r)' = {Told(x) : x \in {y \in delivered' : y.recording = r}}
      BY DEF Messages, Told
    <3> HIDE DEF e, c
    <3> QED
      BY <3>1, <3>2, <1>5
  <2> QED
    BY <2>1, <1>3
<1>7. Stored' = Stored /\ Receipts' = Receipts /\ Verdicts' = Verdicts
  BY DEF Stored, Receipts, Verdicts
<1>8. CASE c.recording
  <2>1. Promise!Archive(c.rid, f, c.n)
    BY <1>3, <1>4, <1>6, <1>7, <1>8 DEF Promise!Archive, AskedFor
  <2> QED
    BY <1>3, <1>4, <2>1, StoredRows DEF PromiseStep, Promise!PromiseNext
<1>9. CASE ~c.recording
  <2>1. Own(pc[t], c)
    BY <1>9 DEF Own, Loop
  <2>2. OwnReport(reports, t, c)
    BY <2>1 DEF Frames, FrameOK, LoopFrame
  <2>3. Stored[c.rid].flow = f /\ Stored[c.rid].sev = c.sev /\ Stored[c.rid].cascade = c.cascade
    BY <2>2, StoredRows DEF OwnReport, Origins
  <2>4. ~Promise!Judged(c.rid)
    BY <2>1 DEF QuietFrames, QuietFrame, Promise!Judged, Verdicts
  <2>5. Promise!Page(c.rid, c.n)
    BY <1>3, <1>4, <1>6, <1>7, <1>9, <2>3, <2>4 DEF Promise!Page, AskedFor
  <2> QED
    BY <1>3, <1>4, <2>3, <2>5, StoredRows DEF PromiseStep, Promise!PromiseNext
<1> QED
  BY <1>3, <1>8, <1>9

LEMMA SendSteps ==
  ASSUME PageInv, NEW t \in Thread, SendAccepted(t) \/ SendRefused(t) \/ SendRaised(t)
  PROVE  PromiseStep
<1>1. /\ pc[t] = "send" /\ reports' = reports /\ actions' = actions /\ decisions' = decisions
      /\ faults' = faults
  BY Zenon DEF SendAccepted, SendRefused, SendRaised, store, world
<1>2. delivered' = delivered \/ \E a : delivered' = delivered \cup {Sent(t, a)}
  BY Accepts, Unanswers
<1>3. CASE delivered' = delivered
  BY <1>1, <1>3, Falters DEF SameTables, Stored, Unsent, Messages, Untold, Receipts, Verdicts,
     PageInv, QuietInv, TrailInv
<1>4. CASE \E a : delivered' = delivered \cup {Sent(t, a)}
  BY <1>1, <1>4, SendsMessage
<1> QED
  BY <1>2, <1>3, <1>4

\* What a committed row claims.
LEMMA ReceiptRows ==
  ASSUME TypeOK, NEW t \in Thread, NEW n \in NotifierIds(FlowOf[t]), NEW s \in Status,
         SaveAction(t, n, s)
  PROVE  Receipts' = Receipts \cup
           (IF s = "sent" THEN {[report |-> call[t].rid, flow |-> FlowOf[t],
                                 type |-> Notifiers[FlowOf[t]][n].type]}
            ELSE {})
<1> DEFINE r == Row(t, n, s)
           Claim(a) == [report |-> a.rid, flow |-> a.flow, type |-> a.type]
<1>1. r \in Action
  <2>1. call[t] \in Frame /\ FlowOf[t] \in Flow /\ clock \in Int
    BY ConfigAssumption DEF TypeOK
  <2>2. Notifiers[FlowOf[t]] \in Seq(NotifierType)
    BY <2>1, ConfigAssumption
  <2>3. Notifiers[FlowOf[t]][n] \in NotifierType
    BY <2>2, ElementOfSeq, LenProperties DEF NotifierIds
  <2> QED
    BY <2>1, <2>3 DEF Row, Action, Frame, NotifierType
<1>2. /\ r.status = s
      /\ Claim(r) = [report |-> call[t].rid, flow |-> FlowOf[t],
                     type |-> Notifiers[FlowOf[t]][n].type]
  BY DEF Row
<1>3. actions' = Append(actions, r) /\ actions \in Seq(Action)
  BY DEF SaveAction, TypeOK
<1> HIDE DEF r
<1>4. /\ DOMAIN actions' = 1..(Len(actions) + 1) /\ DOMAIN actions = 1..Len(actions)
      /\ Len(actions) \in Nat /\ actions'[Len(actions) + 1] = r
      /\ \A i \in DOMAIN actions : actions'[i] = actions[i]
  BY <1>1, <1>3, AppendRow
<1>5. Receipts = {Claim(actions[k]) : k \in {j \in DOMAIN actions : actions[j].status = "sent"}}
  BY DEF Receipts
<1>6. Receipts' = {Claim(actions'[k]) : k \in {j \in DOMAIN actions' : actions'[j].status = "sent"}}
  BY DEF Receipts
<1>7. {j \in DOMAIN actions' : actions'[j].status = "sent"} =
        {j \in DOMAIN actions : actions[j].status = "sent"}
          \cup (IF s = "sent" THEN {Len(actions) + 1} ELSE {})
  BY <1>2, <1>4
<1>8. \A k \in {j \in DOMAIN actions : actions[j].status = "sent"} :
        Claim(actions'[k]) = Claim(actions[k])
  BY <1>4
<1>9. Claim(actions'[Len(actions) + 1]) = Claim(r)
  BY <1>4
<1> HIDE DEF Claim
<1> QED
  BY <1>2, <1>5, <1>6, <1>7, <1>8, <1>9

\* A "sent" row acknowledges the message its call has just sent; the other
\* rows claim no message.
LEMMA CommitsRow ==
  ASSUME PageInv, NEW t \in Thread,
         SuppressCascade(t) \/ Degrade(t) \/ SaveOutcome(t) \/ SaveFailure(t)
  PROVE  PromiseStep
<1> DEFINE c == call[t]
           f == FlowOf[t]
<1> USE DEF PageInv, QuietInv, TrailInv
<1>1. /\ reports' = reports /\ decisions' = decisions /\ delivered' = delivered
      /\ faults' = faults
  BY DEF SuppressCascade, Degrade, SaveOutcome, SaveFailure, world
<1>2. Stored' = Stored /\ Unsent /\ Verdicts' = Verdicts
  BY <1>1 DEF Stored, Unsent, Messages, Verdicts
<1>3. CASE SaveOutcome(t) /\ c.ok
  <2>1. /\ c.n \in NotifierIds(f) /\ pc[t] = "outcome" /\ SaveAction(t, c.n, "sent")
    BY <1>3 DEF SaveOutcome, Located
  <2> DEFINE e == [report |-> c.rid, flow |-> f, type |-> Notifiers[f][c.n].type]
             m == [report |-> c.rid, flow |-> f, n |-> c.n, answered |-> TRUE]
  <2>2. Receipts' = Receipts \cup {e}
    BY <2>1, ReceiptRows DEF Status
  <2>3. SentBy(delivered, t, c) /\ c.recording \in BOOLEAN
    BY <1>3, <2>1 DEF PageFrames, PageFrame, TypeOK, Frame
  <2>4. PICK x \in delivered : x.flow = f /\ x.rid = c.rid /\ x.n = c.n
                               /\ x.recording = c.recording /\ x.answer # "none"
    BY <2>3 DEF SentBy
  <2>5. m = Told(x)
    BY <2>4 DEF Told
  <2>7. e = [report |-> m.report, flow |-> m.flow, type |-> Promise!Type(m)] /\ m.answered
    BY DEF Promise!Type
  <2> HIDE DEF e, m
  <2>6. m \in Messages(FALSE) \cup Messages(TRUE)
    <3>1. \A r \in BOOLEAN : Messages(r) = {Told(y) : y \in {z \in delivered : z.recording = r}}
      BY DEF Messages, Told
    <3> QED
      BY <2>3, <2>4, <2>5, <3>1
  <2>8. Promise!Acknowledge(m)
    BY <1>1, <1>2, <2>2, <2>7 DEF Promise!Acknowledge, Unsent
  <2> QED
    BY <2>6, <2>8 DEF PromiseStep, Promise!PromiseNext
<1>4. CASE ~(SaveOutcome(t) /\ c.ok)
  <2>1. \E n \in NotifierIds(f), s \in {"failed", "degraded"} : SaveAction(t, n, s)
    <3>1. CASE SuppressCascade(t)
      BY <3>1 DEF SuppressCascade
    <3>2. CASE Degrade(t) \/ SaveOutcome(t) \/ SaveFailure(t)
      <4>1. c.n \in NotifierIds(f)
        BY <3>2 DEF Degrade, SaveOutcome, SaveFailure, Located
      <4> QED
        BY <1>4, <3>2, <4>1 DEF Degrade, SaveOutcome, SaveFailure
    <3> QED
      BY <3>1, <3>2
  <2>2. Receipts' = Receipts
    BY <2>1, ReceiptRows DEF Status
  <2> QED
    BY <1>1, <1>2, <2>2, Falters DEF SameTables, Untold
<1> QED
  BY <1>3, <1>4

\* A recorded decision is a verdict on a report that had none, and an honest
\* one; a lost one is a failure of the store.
LEMMA JudgesReport ==
  ASSUME PageInv, NEW t \in Thread, DecideDispatched(t)
  PROVE  PromiseStep
<1> DEFINE c == call[t]
           f == FlowOf[t]
           why == Classify(c.tally)
           d == [rid |-> c.rid, flow |-> f, reason |-> why]
<1> USE DEF PageInv, QuietInv, TrailInv
<1>1. /\ pc[t] = "gate" /\ RecordDecision(t, why) /\ Own(pc[t], c)
  BY DEF DecideDispatched, Own, Loop
<1>2. reports' = reports /\ actions' = actions /\ delivered' = delivered
  BY <1>1 DEF RecordDecision
<1>3. Stored' = Stored /\ Unsent /\ Receipts' = Receipts
  BY <1>2 DEF Stored, Unsent, Messages, Receipts
<1>4. CASE decisions' = decisions /\ faults' = faults + 1
  BY <1>3, <1>4, Falters DEF SameTables, Untold, Verdicts
<1>5. CASE decisions' = Append(decisions, d) /\ faults' = faults
  <2>1. c.tally \in SUBSET (Status \cup Skip)
    BY DEF TypeOK, Frame
  <2>2. why \in Reason /\ why # "deduped"
    BY <2>1, ClassifyType, ClassifyMeans
  <2>3. d \in Decision /\ d.reason # "deduped" /\ decisions \in Seq(Decision)
    BY <2>2, ConfigAssumption DEF Decision, TypeOK, Frame
  <2>4. /\ LoopFrame(reports, actions, delivered, t, "gate", c)
        /\ QuietFrame(delivered, decisions, faults, "gate", c)
    BY <1>1 DEF Frames, FrameOK, QuietFrames
  <2>5. /\ c.rid \in DOMAIN reports
        /\ Stored[c.rid].flow = f /\ Stored[c.rid].sev = c.sev /\ Stored[c.rid].cascade = c.cascade
    BY <2>4, StoredRows DEF LoopFrame, OwnReport, Origins
  <2>6. ~Promise!Judged(c.rid)
    BY <1>1, <2>4 DEF QuietFrame, Promise!Judged, Verdicts
  <2>7. /\ Reached(delivered, c.rid) <=> Promise!Answered(c.rid)
        /\ Taken(delivered, c.rid) <=> Promise!Paged(c.rid)
    <3>1. \A m \in delivered : m.recording = FALSE <=> ~m.recording
      BY DEF MessagesKnown
    <3>2. Messages(FALSE) = {Told(x) : x \in {y \in delivered : y.recording = FALSE}}
      BY DEF Messages, Told
    <3>3. ASSUME NEW m \in Messages(FALSE)
          PROVE  \E x \in delivered : /\ ~x.recording /\ m.report = x.rid
                                      /\ m.answered <=> x.answer # "none"
      <4>1. PICK x \in {y \in delivered : y.recording = FALSE} : m = Told(x)
        BY <3>2, Zenon
      <4> QED
        BY <4>1 DEF Told
    <3>4. ASSUME NEW x \in delivered, ~x.recording
          PROVE  \E m \in Messages(FALSE) : /\ m.report = x.rid
                                            /\ m.answered <=> x.answer # "none"
      <4>1. x.recording = FALSE
        BY <3>1, <3>4
      <4>2. Told(x) \in Messages(FALSE)
        BY <3>2, <4>1
      <4> QED
        BY <4>2 DEF Told
    <3>5. Taken(delivered, c.rid) <=> Promise!Paged(c.rid)
      BY <3>3, <3>4, Zenon DEF Promise!Paged, Taken
    <3>6. Reached(delivered, c.rid) => Promise!Answered(c.rid)
      <4> SUFFICES ASSUME NEW x \in delivered, x.rid = c.rid, ~x.recording, x.answer # "none"
                   PROVE  Promise!Answered(c.rid)
        BY DEF Reached
      <4>1. \E m \in Messages(FALSE) : m.report = x.rid /\ m.answered
        BY <3>4
      <4> QED
        BY <4>1 DEF Promise!Answered
    <3>7. Promise!Answered(c.rid) => Reached(delivered, c.rid)
      <4> SUFFICES ASSUME NEW m \in Messages(FALSE), m.report = c.rid, m.answered
                   PROVE  Reached(delivered, c.rid)
        BY DEF Promise!Answered
      <4>1. PICK x \in delivered : /\ ~x.recording /\ m.report = x.rid
                                   /\ m.answered <=> x.answer # "none"
        BY <3>3
      <4> QED
        BY <4>1 DEF Reached
    <3> QED
      BY <3>5, <3>6, <3>7
  <2>8. /\ why = "fired" => Reached(delivered, c.rid)
        /\ why # "fired" /\ faults = 0 =>
             /\ ~Reached(delivered, c.rid)
             /\ why # "delivery_failed" => ~Taken(delivered, c.rid)
        /\ why = "cascade_suppressed" => c.cascade
        /\ why = "rate_limited" => c.sev \notin Exempt
    BY <1>1, <2>1, <2>4, ClassifyMeans DEF LoopFrame, Backed, QuietFrame, Tried
  <2>9. Verdicts' = Verdicts \cup {d}
    <3> HIDE DEF d
    <3>1. /\ DOMAIN decisions' = 1..(Len(decisions) + 1) /\ DOMAIN decisions = 1..Len(decisions)
          /\ Len(decisions) \in Nat /\ decisions'[Len(decisions) + 1] = d
          /\ \A i \in DOMAIN decisions : decisions'[i] = decisions[i]
      BY <1>5, <2>3, AppendRow
    <3>2. {j \in DOMAIN decisions' : decisions'[j].reason # "deduped"} =
            {j \in DOMAIN decisions : decisions[j].reason # "deduped"} \cup {Len(decisions) + 1}
      BY <2>3, <3>1
    <3> QED
      BY <3>1, <3>2 DEF Verdicts
  <2>10. d = [rid |-> c.rid, flow |-> Stored[c.rid].flow, reason |-> why]
    BY <2>5
  <2> HIDE DEF d, why
  <2>11. Promise!Judge(c.rid, why)
    BY <1>3, <1>5, <2>5, <2>6, <2>7, <2>8, <2>9, <2>10 DEF Promise!Judge, Unsent
  <2> QED
    BY <2>2, <2>5, <2>11, StoredRows DEF PromiseStep, Promise!PromiseNext
<1> QED
  BY <1>1, <1>4, <1>5, Zenon DEF RecordDecision

\* That a report was repeated is no verdict on it.
LEMMA CountsRepeat ==
  ASSUME TypeOK, NEW t \in Thread, DecideDeduped(t)
  PROVE  Verdicts' = Verdicts
<1> DEFINE d == [rid |-> call[t].rid, flow |-> FlowOf[t], reason |-> "deduped"]
<1>1. decisions' = decisions \/ decisions' = Append(decisions, d)
  BY Zenon DEF DecideDeduped, RecordDecision
<1>2. d \in Decision /\ d.reason = "deduped" /\ decisions \in Seq(Decision)
  BY ConfigAssumption DEF Decision, TypeOK, Frame, Reason
<1> HIDE DEF d
<1>3. CASE decisions' = Append(decisions, d)
  <2>1. /\ DOMAIN decisions' = 1..(Len(decisions) + 1) /\ DOMAIN decisions = 1..Len(decisions)
        /\ Len(decisions) \in Nat /\ decisions'[Len(decisions) + 1] = d
        /\ \A i \in DOMAIN decisions : decisions'[i] = decisions[i]
    BY <1>2, <1>3, AppendRow
  <2>2. {j \in DOMAIN decisions' : decisions'[j].reason # "deduped"} =
          {j \in DOMAIN decisions : decisions[j].reason # "deduped"}
    BY <1>2, <2>1
  <2> QED
    BY <2>1, <2>2 DEF Verdicts
<1>4. CASE decisions' = decisions
  BY <1>4 DEF Verdicts
<1> QED
  BY <1>1, <1>3, <1>4

\* The steps the promise does not see, unless they fail.
LEMMA QuietSteps ==
  ASSUME PageInv, NEW t \in Thread,
         \/ FindHit(t) \/ FindNone(t) \/ RecordDedupHit(t) \/ DecideDeduped(t)
         \/ CheckCascade(t) \/ Diagnose(t) \/ SkipNotifier(t) \/ CheckBudget(t)
         \/ SetResolution(t) \/ ReturnUndecided(t) \/ LoseOutcome(t) \/ Abort(t)
  PROVE  PromiseStep
<1> USE DEF PageInv, QuietInv, TrailInv
<1>1. Step(t)
  BY Zenon DEF Step
<1>2. ~SaveReport(t)
  BY DEF FindHit, FindNone, RecordDedupHit, DecideDeduped, CheckCascade, Diagnose,
     SkipNotifier, CheckBudget, AtNotifier, SetResolution,
     ReturnUndecided, LoseOutcome, Abort, SaveReport, Move, TypeOK
<1>3. Stored' = Stored
  BY <1>1, <1>2, StoredStays, EveryStepFrame DEF StepFrame, Grown
<1>4. actions' = actions /\ delivered' = delivered /\ faults' \in {faults, faults + 1}
  BY Zenon DEF FindHit, FindNone, RecordDedupHit, DecideDeduped, CheckCascade, Diagnose,
     SkipNotifier, CheckBudget, SetResolution,
     ReturnUndecided, LoseOutcome, Abort, RecordDecision, store, world
<1>5. Verdicts' = Verdicts
  <2>1. CASE DecideDeduped(t)
    BY <2>1, CountsRepeat
  <2>2. CASE ~DecideDeduped(t)
    <3>1. decisions' = decisions
      BY <2>2, Zenon DEF FindHit, FindNone, RecordDedupHit, CheckCascade, Diagnose,
         SkipNotifier, CheckBudget, SetResolution,
         ReturnUndecided, LoseOutcome, Abort, store
    <3> QED
      BY <3>1 DEF Verdicts
  <2> QED
    BY <2>1, <2>2
<1>6. Unsent /\ Receipts' = Receipts
  BY <1>4 DEF Unsent, Messages, Receipts
<1> QED
  BY <1>3, <1>4, <1>5, <1>6, Falters DEF SameTables, Untold

LEMMA EveryStepKept == ASSUME PageInv, NEW t \in Thread, Step(t) PROVE PromiseStep
<1>1. TypeOK
  BY DEF PageInv, QuietInv, TrailInv
<1> QED
  BY <1>1, FilesReport, SendSteps, CommitsRow, JudgesReport, QuietSteps, Step(t), Zenon DEF Step

\* The host, a crash and time.
LEMMA OthersKept ==
  ASSUME PageInv,
         \/ \E t \in Thread, in \in Inputs : Call(t, in)
         \/ \E f \in Flow : Crash(f)
         \/ Tick \/ Rest \/ UNCHANGED vars
  PROVE  PromiseStep
<1> USE DEF PageInv, QuietInv, TrailInv
<1>1. /\ decisions' = decisions /\ reports' = reports
      /\ actions' = actions /\ delivered' = delivered
  BY OtherFrames
<1>2. SameTables
  BY <1>1 DEF SameTables, Stored, Unsent, Messages, Untold, Receipts, Verdicts
<1>3. faults' \in {faults, faults + 1}
  BY DEF Call, Crash, Tick, Rest, vars
<1> QED
  BY <1>2, <1>3, Falters

\* Who is paged, what is archived and what the tables say of it never
\* disagree, from one step to the next: the pipeline implements ReportPromise.
THEOREM PromiseKept == Spec => KeepsReportPromise
<1>1. Init => Promise!PromiseInit
  BY DEF Init, Promise!PromiseInit, Stored, Messages, Receipts, Verdicts
<1>2. PageInv /\ [Next]_vars => PromiseStep
  BY EveryStepKept, OthersKept DEF Next
<1> QED
  BY <1>1, <1>2, InitPage, NextPage, PTL
  DEF Spec, KeepsReportPromise, Promise!PromiseSpec, PromiseStep

(***************************************************************************)
(* Why every call returns                                                  *)
(*                                                                         *)
(* A measure that each step of a call makes smaller, and that no call is   *)
(* ever at a place it has no step from: what is left of EveryCallReturns   *)
(* is that a thread which can take a step takes one.                       *)
(***************************************************************************)

Places ==
  [idle |-> 0, recover |-> 1, outcome |-> 2, send |-> 3, resolve |-> 4, degrade |-> 4,
   gate |-> 5, diagnose |-> 6, hitDecision |-> 6, save |-> 7, hit |-> 7, cascade |-> 8,
   find |-> 9]

\* At most so many steps are left: six for each notifier to come, and those
\* before and after the loop.
StepsLeft(t, p, c) ==
  LET ahead == IF p = "idle" THEN {}
               ELSE IF p \in Loop \ {"diagnose"} THEN c.todo
               ELSE NotifierIds(FlowOf[t])
  IN  6 * Cardinality(ahead) + Places[p]

Advances(t) ==
  pc[t] # "idle" =>
    \/ pc'[t] = pc[t] /\ call'[t] = call[t]
    \/ StepsLeft(t, pc'[t], call'[t]) < StepsLeft(t, pc[t], call[t])

LEMMA NotifiersFinite ==
  ASSUME NEW t \in Thread
  PROVE  IsFiniteSet(NotifierIds(FlowOf[t])) /\ NotifierIds(FlowOf[t]) \subseteq Nat
<1>1. Notifiers[FlowOf[t]] \in Seq(NotifierType)
  BY ConfigAssumption
<1>2. /\ NotifierIds(FlowOf[t]) = 1..Len(Notifiers[FlowOf[t]])
      /\ Len(Notifiers[FlowOf[t]]) \in Nat
  BY <1>1, LenProperties DEF NotifierIds
<1> QED
  BY <1>2, FS_Interval

LEMMA PlacesType == \A p \in PC : Places[p] \in Nat
BY DEF Places, PC

LEMMA StepsLeftType ==
  ASSUME NEW t \in Thread, NEW p \in PC, NEW c, c.todo \subseteq NotifierIds(FlowOf[t])
  PROVE  /\ StepsLeft(t, p, c) \in Nat
         /\ IsFiniteSet(c.todo) /\ Cardinality(c.todo) \in Nat
         /\ Cardinality(c.todo) <= Cardinality(NotifierIds(FlowOf[t]))
         /\ Cardinality(NotifierIds(FlowOf[t])) \in Nat
<1>1. IsFiniteSet(NotifierIds(FlowOf[t]))
  BY NotifiersFinite
<1>2. /\ IsFiniteSet(c.todo)
      /\ Cardinality(c.todo) <= Cardinality(NotifierIds(FlowOf[t]))
  BY <1>1, FS_Subset
<1>3. Cardinality(c.todo) \in Nat /\ Cardinality(NotifierIds(FlowOf[t])) \in Nat
  BY <1>1, <1>2, FS_CardinalityType
<1>4. Cardinality({}) = 0
  BY FS_EmptySet
<1> QED
  BY <1>2, <1>3, <1>4, PlacesType DEF StepsLeft

\* Between two places outside the loop, and on to its start.
LEMMA EarlySteps ==
  ASSUME NEW t \in Thread, NEW p \in PC \ {"idle"}, NEW c, p \notin Loop \ {"diagnose"},
         NEW q \in PC, NEW g, Places[q] < Places[p],
         c.todo \subseteq NotifierIds(FlowOf[t]), g.todo \subseteq NotifierIds(FlowOf[t])
  PROVE  StepsLeft(t, q, g) < StepsLeft(t, p, c)
<1> DEFINE all == Cardinality(NotifierIds(FlowOf[t]))
<1>1. all \in Nat /\ Cardinality(g.todo) \in Nat /\ Cardinality(g.todo) <= all
  BY StepsLeftType
<1>2. StepsLeft(t, p, c) = 6 * all + Places[p]
  BY DEF StepsLeft
<1>3. StepsLeft(t, q, g) \in {6 * 0 + Places[q], 6 * Cardinality(g.todo) + Places[q],
                              6 * all + Places[q]}
  BY FS_EmptySet DEF StepsLeft
<1>4. Places[p] \in Nat /\ Places[q] \in Nat
  BY PlacesType
<1> HIDE DEF all
<1> QED
  BY <1>1, <1>2, <1>3, <1>4

\* Between two places of the loop at the same notifier.
LEMMA LoopPlaces ==
  ASSUME NEW t \in Thread, NEW p \in Loop \ {"diagnose"}, NEW q \in Loop \ {"diagnose"},
         NEW c, NEW g, c.todo \subseteq NotifierIds(FlowOf[t]), g.todo = c.todo,
         Places[q] < Places[p]
  PROVE  StepsLeft(t, q, g) < StepsLeft(t, p, c)
<1>1. Cardinality(c.todo) \in Nat
  BY StepsLeftType DEF PC
<1>2. /\ StepsLeft(t, p, c) = 6 * Cardinality(c.todo) + Places[p]
      /\ StepsLeft(t, q, g) = 6 * Cardinality(c.todo) + Places[q]
  BY DEF StepsLeft, Loop
<1>3. Places[p] \in Nat /\ Places[q] \in Nat
  BY PlacesType DEF Loop, PC
<1> QED
  BY <1>1, <1>2, <1>3

\* Being done with a notifier.
LEMMA DoneSteps ==
  ASSUME TypeOK, Located, NEW t \in Thread, pc[t] \in Loop \ {"diagnose"},
         NEW n \in call[t].todo, NEW w, Done(t, n, w)
  PROVE  Advances(t)
<1> DEFINE c == call[t]
           g == Counted(c, n, w)
<1>1. c \in Frame /\ c.todo \subseteq NotifierIds(FlowOf[t])
  BY DEF TypeOK, Located
<1>2. g.todo = c.todo \ {n} /\ pc'[t] = "gate" /\ call'[t] = g
  <2>1. g.todo = c.todo \ {n}
    BY <1>1 DEF Frame, Counted
  <2>2. Move(t, "gate", g)
    BY DoneMoves
  <2> HIDE DEF g
  <2> QED
    BY <2>1, <2>2 DEF Move, TypeOK
<1>3. IsFiniteSet(c.todo) /\ Cardinality(c.todo) \in Nat
  BY <1>1, StepsLeftType DEF TypeOK
<1>4. Cardinality(c.todo \ {n}) = Cardinality(c.todo) - 1
  BY <1>3, FS_RemoveElement
<1>5. StepsLeft(t, "gate", g) = 6 * Cardinality(c.todo \ {n}) + 5
  BY <1>2 DEF StepsLeft, Loop, Places
<1>6. StepsLeft(t, pc[t], c) = 6 * Cardinality(c.todo) + Places[pc[t]] /\ Places[pc[t]] \in Nat \ {0}
  BY DEF StepsLeft, Loop, Places
<1> HIDE DEF c, g
<1>7. StepsLeft(t, "gate", g) < StepsLeft(t, pc[t], c)
  BY <1>3, <1>4, <1>5, <1>6
<1> QED
  BY <1>2, <1>7 DEF Advances, c

LEMMA StepAdvances ==
  ASSUME PageInv, NEW t \in Thread, Step(t)
  PROVE  Advances(t)
<1> DEFINE c == call[t]
<1> USE DEF PageInv, QuietInv, TrailInv
<1>1. /\ c \in Frame /\ c.todo \subseteq NotifierIds(FlowOf[t]) /\ pc[t] \in PC
      /\ call'[t].todo \subseteq NotifierIds(FlowOf[t]) /\ pc'[t] \in PC
  BY StepType DEF TypeOK, Located
<1>m. \A p, g : Move(t, p, g) => pc'[t] = p /\ call'[t] = g
  BY DEF Move, TypeOK
<1>2. CASE \/ FindHit(t) \/ FindNone(t) \/ RecordDedupHit(t) \/ DecideDeduped(t)
           \/ CheckCascade(t) \/ SaveReport(t) \/ Diagnose(t)
  <2>1. /\ pc[t] \in PC \ {"idle"} /\ pc[t] \notin Loop \ {"diagnose"}
        /\ Places[pc'[t]] < Places[pc[t]]
    <3>1. \/ pc[t] = "find" /\ pc'[t] \in {"hit", "cascade", "save"}
          \/ pc[t] = "hit" /\ pc'[t] = "hitDecision"
          \/ pc[t] \in {"hitDecision", "diagnose"} /\ pc'[t] = "gate"
          \/ pc[t] = "cascade" /\ pc'[t] = "save"
          \/ pc[t] = "save" /\ pc'[t] \in {"diagnose", "gate"}
      <4>1. CASE FindHit(t)
        <5>1. \E g : Move(t, "hit", g)
          BY <4>1, Zenon DEF FindHit
        <5> QED
          BY <4>1, <5>1, <1>m DEF FindHit
      <4>2. CASE Diagnose(t)
        <5>1. \E g : Move(t, "gate", g)
          BY <4>2, Zenon DEF Diagnose
        <5> QED
          BY <4>2, <5>1, <1>m DEF Diagnose
      <4>3. CASE SaveReport(t)
        BY <4>3, <1>m DEF SaveReport
      <4>4. CASE FindNone(t) \/ RecordDedupHit(t) \/ DecideDeduped(t) \/ CheckCascade(t)
        BY <4>4, <1>m DEF FindNone, RecordDedupHit, DecideDeduped, CheckCascade
      <4> QED
        BY <1>2, <4>1, <4>2, <4>3, <4>4
    <3> QED
      BY <3>1 DEF Loop, PC, Places
  <2> QED
    BY <1>1, <2>1, EarlySteps DEF Advances
<1>3. CASE DecideDispatched(t) \/ ReturnUndecided(t) \/ Abort(t)
  <2>1. pc'[t] = "idle"
    BY <1>3, <1>m DEF DecideDispatched, ReturnUndecided, Abort
  <2>2. StepsLeft(t, "idle", call'[t]) = 0
    BY FS_EmptySet DEF StepsLeft, Places
  <2>3. pc[t] # "idle" => StepsLeft(t, pc[t], c) > 0
    <3> SUFFICES ASSUME pc[t] # "idle" PROVE StepsLeft(t, pc[t], c) > 0
      OBVIOUS
    <3>1. Cardinality(c.todo) \in Nat /\ Cardinality(NotifierIds(FlowOf[t])) \in Nat
      BY <1>1, StepsLeftType
    <3>2. Places[pc[t]] \in Nat \ {0}
      BY <1>1 DEF PC, Places
    <3> QED
      BY <3>1, <3>2 DEF StepsLeft
  <2> QED
    BY <2>1, <2>2, <2>3 DEF Advances
<1>4. CASE SkipNotifier(t) \/ SuppressCascade(t)
  <2>1. pc[t] = "gate" /\ \E n \in c.todo : \E w : Done(t, n, w)
    BY <1>4, Zenon DEF SkipNotifier, SuppressCascade, AtNotifier, Upcoming
  <2> QED
    BY <2>1, DoneSteps DEF Loop
<1>5. CASE Degrade(t) \/ SaveOutcome(t) \/ SaveFailure(t)
  <2>1. pc[t] \in {"degrade", "outcome", "recover"}
    BY <1>5 DEF Degrade, SaveOutcome, SaveFailure
  <2>2. c.n \in c.todo
    BY <2>1 DEF PageFrames, PageFrame, AskedFor, AtOne
  <2>3. \E w : Done(t, c.n, w)
    BY <1>5, Zenon DEF Degrade, SaveOutcome, SaveFailure
  <2> QED
    BY <2>1, <2>2, <2>3, DoneSteps DEF Loop
<1>6. CASE \/ CheckBudget(t) \/ SetResolution(t) \/ SendAccepted(t) \/ SendRefused(t)
           \/ SendRaised(t) \/ LoseOutcome(t)
  <2>1. /\ pc[t] \in Loop \ {"diagnose"} /\ pc'[t] \in Loop \ {"diagnose"}
        /\ Places[pc'[t]] < Places[pc[t]]
    <3>1. CASE CheckBudget(t)
      <4>1. pc[t] = "gate" /\ pc'[t] \in {"degrade", "resolve", "send"}
        BY <3>1, <1>m, Zenon DEF CheckBudget, AtNotifier
      <4> QED
        BY <4>1 DEF Loop, Places
    <3>2. CASE SendAccepted(t)
      <4>1. pc[t] = "send" /\ pc'[t] = "outcome"
        BY <3>2, <1>m, Accepts DEF SendAccepted
      <4> QED
        BY <4>1 DEF Loop, Places
    <3>3. CASE SetResolution(t) \/ SendRefused(t) \/ SendRaised(t) \/ LoseOutcome(t)
      BY <1>m, <3>3 DEF SetResolution, SendRefused, SendRaised, LoseOutcome, Loop, Places
    <3> QED
      BY <1>6, <3>1, <3>2, <3>3
  <2>2. call'[t].todo = c.todo
    <3>1. CASE CheckBudget(t)
      <4>1. PICK n, p : Move(t, p, [c EXCEPT !.n = n])
        BY <3>1, Zenon DEF CheckBudget
      <4>2. call'[t] = [c EXCEPT !.n = n]
        BY <1>m, <4>1
      <4> QED
        BY <1>1, <4>2 DEF Frame
    <3>2. CASE SendAccepted(t)
      <4>1. PICK a : call'[t] = Accepted(c, a)
        BY <3>2, <1>m, Accepts
      <4> QED
        BY <1>1, <4>1 DEF Frame, Accepted
    <3>3. CASE SetResolution(t) \/ SendRefused(t) \/ SendRaised(t) \/ LoseOutcome(t)
      BY <1>1, <1>m, <3>3 DEF SetResolution, SendRefused, SendRaised, LoseOutcome, Frame
    <3> QED
      BY <1>6, <3>1, <3>2, <3>3
  <2> QED
    BY <1>1, <2>1, <2>2, LoopPlaces DEF Advances
<1> QED
  BY <1>2, <1>3, <1>4, <1>5, <1>6, Step(t), Zenon DEF Step

LEMMA NextAdvances == PageInv /\ [Next]_vars => \A t \in Thread : Advances(t)
<1> SUFFICES ASSUME PageInv, [Next]_vars, NEW t \in Thread PROVE Advances(t)
  OBVIOUS
<1> USE DEF PageInv, QuietInv, TrailInv
<1>1. CASE Step(t)
  BY <1>1, StepAdvances
<1>2. CASE \E u \in Thread \ {t} : Step(u) \/ \E in \in Inputs : Call(u, in)
  <2>1. PICK u \in Thread \ {t} : Step(u) \/ \E in \in Inputs : Call(u, in)
    BY <1>2
  <2>2. \E p, g : Move(u, p, g)
    <3>1. CASE Step(u)
      BY <3>1, EveryStepFrame DEF StepFrame
    <3>2. CASE \E in \in Inputs : Call(u, in)
      BY <3>2, Zenon DEF Call
    <3> QED
      BY <2>1, <3>1, <3>2
  <2> QED
    BY <2>2 DEF Move, TypeOK, Advances
<1>3. CASE \E in \in Inputs : Call(t, in)
  BY <1>3 DEF Call, Advances
<1>4. CASE \E f \in Flow : Crash(f)
  <2>1. PICK f \in Flow : Crash(f)
    BY <1>4
  <2>2. CASE FlowOf[t] # f
    BY <2>1, <2>2 DEF Crash, Advances
  <2>3. CASE FlowOf[t] = f /\ pc[t] # "idle"
    <3>1. pc'[t] = "idle"
      BY <2>1, <2>3 DEF Crash
    <3>2. StepsLeft(t, "idle", call'[t]) = 0
      BY FS_EmptySet DEF StepsLeft, Places
    <3>3. /\ call[t].todo \subseteq NotifierIds(FlowOf[t]) /\ pc[t] \in PC
      BY DEF TypeOK, Located
    <3>4. Cardinality(call[t].todo) \in Nat /\ Cardinality(NotifierIds(FlowOf[t])) \in Nat
      BY <3>3, StepsLeftType
    <3>5. Places[pc[t]] \in Nat \ {0}
      BY <2>3, <3>3 DEF PC, Places
    <3>6. StepsLeft(t, pc[t], call[t]) > 0
      BY <2>3, <3>4, <3>5 DEF StepsLeft
    <3> QED
      BY <3>1, <3>2, <3>6 DEF Advances
  <2> QED
    BY <2>2, <2>3 DEF Advances
<1>5. CASE Tick \/ Rest \/ UNCHANGED vars
  BY <1>5 DEF Tick, Rest, vars, Advances
<1> QED
  BY <1>1, <1>2, <1>3, <1>4, <1>5 DEF Next

\* Every step of a call, its own or a crash, leaves it fewer steps to go; no
\* other thread can give it more.
THEOREM CallsAdvance == Spec => [][\A t \in Thread : Advances(t)]_vars
BY InitPage, NextPage, NextAdvances, PTL DEF Spec

\* A set of naturals that is not empty has a least element.
LEMMA Smallest ==
  ASSUME NEW S, S \subseteq Nat, S # {}
  PROVE  \E n \in S : \A m \in S : n <= m
<1> DEFINE R == OpToRel(<, Nat)
<1>1. IsWellFoundedOn(R, Nat)
  BY NatLessThanWellFounded
<1>2. \A x, y \in Nat : x < y => <<x, y>> \in R
  BY DEF OpToRel
<1> HIDE DEF R
<1>3. PICK n \in S : \A m \in S : ~(<<m, n>> \in R)
  BY <1>1, WFMin
<1>4. ASSUME NEW m \in S PROVE n <= m
  <2>1. ~(m < n)
    BY <1>2, <1>3
  <2> QED
    BY <2>1
<1> QED
  BY <1>4

\* The loop always has a notifier to go on with: the first filer, or the first
\* of all when no filer is left.
LEMMA SomeoneIsNext ==
  ASSUME NEW f, NEW todo, todo \subseteq Nat, todo # {}
  PROVE  Upcoming(f, todo) # {}
<1> DEFINE filers == {n \in todo : Notifiers[f][n].files}
<1>1. CASE filers # {}
  <2>1. PICK n \in filers : \A m \in filers : n <= m
    BY <1>1, Smallest
  <2>2. \A m \in todo : Before(f, n, m)
    BY <2>1 DEF Before
  <2> QED
    BY <2>2 DEF Upcoming
<1>2. CASE filers = {}
  <2>1. PICK n \in todo : \A m \in todo : n <= m
    BY Smallest
  <2>2. \A m \in todo : Before(f, n, m)
    BY <1>2, <2>1 DEF Before
  <2> QED
    BY <2>2 DEF Upcoming
<1> QED
  BY <1>1, <1>2

\* Of reports no older than since and no newer than now one is the newest.
LEMMA SomeIsNewest ==
  ASSUME TypeOK, ReportsPast, NEW since \in Int, NEW ids, ids \subseteq DOMAIN reports, ids # {},
         \A i \in ids : reports[i].at >= since
  PROVE  Newest(reports, ids) # {}
<1> DEFINE ages == {clock - reports[i].at : i \in ids}
<1>1. clock \in Int /\ \A i \in ids : reports[i].at \in Int /\ reports[i].at <= clock
  <2>1. \A i \in DOMAIN reports : reports[i] \in Report
    BY ElementOfSeq, LenProperties DEF TypeOK
  <2> QED
    BY <2>1 DEF TypeOK, Report, ReportsPast
<1>2. ages \subseteq Nat /\ ages # {}
  BY <1>1
<1>3. PICK a \in ages : \A b \in ages : a <= b
  BY <1>2, Smallest
<1>4. PICK i \in ids : a = clock - reports[i].at
  OBVIOUS
<1>5. \A j \in ids : reports[j].at <= reports[i].at
  BY <1>1, <1>3, <1>4
<1> QED
  BY <1>5 DEF Newest

\* The two places of a call where the next step has to choose from a set.
GoesOn(t) ==
  /\ pc[t] = "find" =>
       SeenBefore(call[t].sig) = {} \/ Newest(reports, SeenBefore(call[t].sig)) # {}
  /\ pc[t] = "gate" => call[t].todo = {} \/ Upcoming(FlowOf[t], call[t].todo) # {}

\* No call is ever at a place it has no step from: the dedup query returns a
\* row when there is one, and the loop has a next notifier until it is done.
THEOREM CallsGoOn == Spec => [](\A t \in Thread : GoesOn(t))
<1>1. DedupInv => \A t \in Thread : GoesOn(t)
  <2> SUFFICES ASSUME DedupInv, NEW t \in Thread PROVE GoesOn(t)
    OBVIOUS
  <2> USE DEF DedupInv
  <2>1. Upcoming(FlowOf[t], call[t].todo) # {} \/ call[t].todo = {}
    <3>1. call[t].todo \subseteq Nat
      BY NotifiersFinite DEF Located
    <3> QED
      BY <3>1, SomeoneIsNext
  <2>2. SeenBefore(call[t].sig) = {} \/ Newest(reports, SeenBefore(call[t].sig)) # {}
    <3>1. clock - Cooldown \in Int
      BY ConfigAssumption DEF TypeOK
    <3>2. \A i \in SeenBefore(call[t].sig) :
            i \in DOMAIN reports /\ reports[i].at >= clock - Cooldown
      BY DEF SeenBefore, SignatureMatches
    <3> QED
      BY <3>1, <3>2, SomeIsNewest
  <2> QED
    BY <2>1, <2>2 DEF GoesOn
<1> QED
  BY <1>1, InitDedupInv, NextDedup, PTL DEF Spec
=============================================================================
