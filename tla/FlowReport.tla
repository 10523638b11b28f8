----------------------------- MODULE FlowReport -----------------------------
(***************************************************************************)
(* The report pipeline of FlowDoctor: report(), notify_event() and         *)
(* notify_success(), from the call to the return, run by several threads   *)
(* of one or more flows over one shared store.                             *)
(*                                                                         *)
(* A step is one access to what threads share: one store statement, one    *)
(* write or read of a notifier object, one send.  Python code between two  *)
(* such accesses runs with the later one.  A flow is one FlowDoctor        *)
(* instance (config, notifiers, _last_dispatch_reason); the store is       *)
(* common to all of them.  A store call may raise, and a process may die,  *)
(* between any two steps, at most MaxFaults times in a behaviour.          *)
(***************************************************************************)
EXTENDS StoreQueries

CONSTANTS
  Flow,           \* FlowDoctor instances
  Thread,         \* threads that call them
  FlowOf,         \* [Thread -> Flow], the instance a thread calls
  DependsOn,      \* [Flow -> SUBSET Flow], config.dependencies
  Sig, NoSig,     \* error signatures; NoSig when no dedup applies
  Category,       \* diagnosis categories
  NoDiagnosis,    \* diagnosis is None
  Notifiers,      \* [Flow -> Seq(NotifierType)], as configured
  AlertActions,   \* action types whose FAILED rows are not counted
  Limit,          \* budgeted action types -> rows per day
  Exempt,         \* rate_limit_exempt_severities
  Cooldown,       \* dedup cooldown, in ticks
  Window,         \* cascade window, in ticks
  Inputs,         \* calls the host may make: [api, sev, sig]
  MaxCalls,       \* bound: calls per thread
  MaxTime,        \* bound: ticks
  MaxFaults       \* bound: store errors and crashes in a behaviour

Severity == {"critical", "error", "warning", "info"}
Api == {"report", "event", "success"}
Status == {"sent", "failed", "degraded"}
Skip == {"severity_skipped", "category_skipped", "cascade_skipped"}
Reason == {"fired", "deduped", "rate_limited", "severity_filtered",
           "category_filtered", "cascade_suppressed", "delivery_failed",
           "no_notifiers"}
NotifierType ==
  [type : STRING,             \* its ActionType
   on : SUBSET Severity,      \* notify_on, the default set when unset
   cats : SUBSET Category,    \* notify_on_category, {} when unset
   onCascade : BOOLEAN,       \* notify_on_cascade
   records : BOOLEAN,         \* records_on_dedup
   files : BOOLEAN,           \* has auto_fix_pr: files issues, runs first
   names : BOOLEAN]           \* has resolution: names the issue in its text

ASSUME ConfigAssumption ==
  /\ IsFiniteSet(Thread)
  /\ FlowOf \in [Thread -> Flow]
  /\ DependsOn \in [Flow -> SUBSET Flow]
  /\ NoSig \notin Sig
  /\ NoDiagnosis \notin Category
  /\ Notifiers \in [Flow -> Seq(NotifierType)]
  /\ \A a \in DOMAIN Limit : Limit[a] \in Nat
  /\ Exempt \subseteq Severity
  /\ Cooldown \in Nat /\ Window \in Nat
  /\ Inputs \subseteq [api : Api, sev : Severity, sig : Sig \cup {NoSig}]
  /\ \A c \in Inputs : /\ c.api = "report" => c.sig # NoSig
                       /\ c.api = "success" => c.sig = NoSig /\ c.sev = "info"
  /\ MaxCalls \in Nat /\ MaxTime \in Nat /\ MaxFaults \in Nat

\* Only GitHubNotifier has auto_fix_pr, only S3Notifier records_on_dedup, only
\* TelegramNotifier resolution.
ASSUME NotifierAssumption ==
  \A f \in Flow : \A n \in DOMAIN Notifiers[f] :
    Notifiers[f][n].names => ~Notifiers[f][n].files /\ ~Notifiers[f][n].records

VARIABLES
  clock,       \* UTC now
  reports, actions, decisions,   \* the tables of the shared store
  lastReason,  \* [Flow -> _last_dispatch_reason]
  resolution,  \* [Flow -> [notifier -> the issue its resolution names, or 0]]
  delivered,   \* what left the process: the messages accepted by a channel,
               \* and what send() came back with, which may be nothing
  saturated,   \* ERROR log lines of the rate limiter: [flow, type, day]
  pc,          \* [Thread -> where its call stands]
  call,        \* [Thread -> the locals of its call]
  calls,       \* [Thread -> calls made]
  faults       \* faults so far

store == <<reports, actions, decisions>>
world == <<clock, calls, faults>>
vars == <<clock, reports, actions, decisions, lastReason, resolution,
          delivered, saturated, pc, call, calls, faults>>

PC == {"idle", "find", "hit", "hitDecision", "cascade", "save", "diagnose",
       "gate", "degrade", "resolve", "send", "outcome", "recover"}

Report == [flow : Flow, sig : Sig \cup {NoSig}, sev : Severity, at : Int,
           cascade : BOOLEAN, by : Thread, dedup : Nat]
\* sev is history: the severity the call was gated on, not a column.
Action == [rid : Nat, type : STRING, flow : Flow, status : Status, at : Int,
           sev : Severity]
Decision == [rid : Nat, flow : Flow, reason : Reason]
Frame == [api : Api, sev : Severity, sig : Sig \cup {NoSig},
          rid : Nat,                      \* the report, or the one it repeats
          cascade : BOOLEAN,              \* cascade_source is not None
          cat : Category \cup {NoDiagnosis},
          recording : BOOLEAN,            \* recording_only
          todo : SUBSET Nat,              \* notifiers the loop has not done
          n : Nat,                        \* the notifier it is at
          tally : SUBSET (Status \cup Skip),   \* counters that are > 0
          ok : BOOLEAN,                   \* send returned a target
          issue : Nat]                    \* resolution_issue_url, 0 for None

\* A frame whose call has not begun.
NoCall == [api |-> "report", sev |-> "info", sig |-> NoSig, rid |-> 0,
           cascade |-> FALSE, cat |-> NoDiagnosis, recording |-> FALSE,
           todo |-> {}, n |-> 0, tally |-> {}, ok |-> FALSE, issue |-> 0]

NotifierIds(f) == DOMAIN Notifiers[f]
\* The notifier thread t's dispatch loop is at.
Here(t) == Notifiers[FlowOf[t]][call[t].n]

(***************************************************************************)
(* Pure parts of the dispatch                                              *)
(***************************************************************************)

\* Mutant: the notifiers run in configured order.
BeforeAsConfigured(f, n, m) == n <= m

\* sorted(key = issue filers first), stable: n comes before m.
Before(f, n, m) ==
  LET late(k) == ~Notifiers[f][k].files
  IN  \/ ~late(n) /\ late(m)
      \/ late(n) = late(m) /\ n <= m
Upcoming(f, todo) == {n \in todo : \A m \in todo : Before(f, n, m)}

\* Mutant: a failure outranks a success.
ClassifyFailedFirst(tally) ==
  CASE "failed" \in tally -> "delivery_failed"
    [] "failed" \notin tally /\ "sent" \in tally -> "fired"
    [] OTHER -> "no_notifiers"

\* _classify_dispatch: the first rule that applies.
Classify(tally) ==
  CASE "sent" \in tally -> "fired"
    [] "sent" \notin tally /\ "failed" \in tally -> "delivery_failed"
    [] tally \cap {"sent", "failed"} = {} /\ "degraded" \in tally
         -> "rate_limited"
    [] tally \cap Status = {} /\ "cascade_skipped" \in tally
         -> "cascade_suppressed"
    [] tally \cap Status = {} /\ "cascade_skipped" \notin tally
         /\ "severity_skipped" \in tally -> "severity_filtered"
    [] tally = {"category_skipped"} -> "category_filtered"
    [] OTHER -> "no_notifiers"

\* Rows of this flow and type that spend today's budget.
Spent(f, type) ==
  CountActionsToday(actions, type, f, clock,
                    IF type \in AlertActions THEN {"failed"} ELSE {})

\* Mutant: one too many.
AllowedOneMore(f, type, sev) ==
  sev \in Exempt \/ type \notin DOMAIN Limit \/ Spent(f, type) <= Limit[type]

\* Mutant: failures are capped like everything else.
AllowedNoneExempt(f, type, sev) ==
  type \notin DOMAIN Limit \/ Spent(f, type) < Limit[type]

\* RateLimiter.check
Allowed(f, type, sev) ==
  \/ sev \in Exempt
  \/ type \notin DOMAIN Limit
  \/ Spent(f, type) < Limit[type]

\* CascadeDetector.check_cascade
CascadeSource(f) ==
  \E dep \in DependsOn[f] : HasRecentFailure(reports, dep, clock - Window)

\* Mutant: the cooldown ends a tick early.
SeenBeforeShort(sig) == SignatureMatches(reports, sig, clock - Cooldown + 1)

\* DedupChecker.is_duplicate: the reports that make a signature a repeat.
SeenBefore(sig) == SignatureMatches(reports, sig, clock - Cooldown)

(***************************************************************************)
(* Entering a call                                                         *)
(***************************************************************************)

\* Thread t goes on at p with the locals g.
Move(t, p, g) ==
  /\ pc' = [pc EXCEPT ![t] = p]
  /\ call' = [call EXCEPT ![t] = g]

\* The host calls one of the three APIs.
Call(t, in) ==
  /\ pc[t] = "idle" /\ calls[t] < MaxCalls
  /\ Move(t, IF in.sig = NoSig THEN "save" ELSE "find",
          [NoCall EXCEPT !.api = in.api, !.sev = in.sev, !.sig = in.sig])
  /\ calls' = [calls EXCEPT ![t] = @ + 1]
  /\ UNCHANGED <<store, clock, faults, lastReason, resolution, delivered,
                 saturated>>

\* The dedup query finds a report of the signature within the cooldown ...
FindHit(t) ==
  /\ pc[t] = "find"
  /\ \E i \in Newest(reports, SeenBefore(call[t].sig)) :
       Move(t, "hit", [call[t] EXCEPT !.rid = i])
  /\ UNCHANGED <<store, world, lastReason, resolution, delivered, saturated>>

\* ... or none.  Only report() goes on to look for a cascade.
FindNone(t) ==
  /\ pc[t] = "find"
  /\ SeenBefore(call[t].sig) = {}
  /\ Move(t, IF call[t].api = "report" THEN "cascade" ELSE "save", call[t])
  /\ UNCHANGED <<store, world, lastReason, resolution, delivered, saturated>>

RecordDedupHit(t) ==
  /\ pc[t] = "hit"
  /\ reports' = IncrementDedup(reports, call[t].rid)
  /\ Move(t, "hitDecision", call[t])
  /\ UNCHANGED <<actions, decisions, world, lastReason, resolution,
                 delivered, saturated>>

CheckCascade(t) ==
  /\ pc[t] = "cascade"
  /\ Move(t, "save", [call[t] EXCEPT !.cascade = CascadeSource(FlowOf[t])])
  /\ UNCHANGED <<store, world, lastReason, resolution, delivered, saturated>>

\* The loop over all notifiers starts, as a delivery or as a recording only.
EnterDispatch(t, frame) ==
  [frame EXCEPT !.todo = NotifierIds(FlowOf[t])]

\* Report(...) takes its created_at here; save_report commits it.
\* notify_success() never diagnoses, notify_event() only failures.
SaveReport(t) ==
  /\ pc[t] = "save"
  /\ reports' = Append(reports,
       [flow |-> FlowOf[t], sig |-> call[t].sig, sev |-> call[t].sev,
        at |-> clock, cascade |-> call[t].cascade, by |-> t, dedup |-> 1])
  /\ LET diagnosed == \/ call[t].api = "report"
                      \/ call[t].api = "event" /\ call[t].sev \in {"critical", "error"}
         frame == [call[t] EXCEPT !.rid = Len(reports) + 1]
     IN  IF diagnosed THEN Move(t, "diagnose", frame)
         ELSE Move(t, "gate", EnterDispatch(t, frame))
  /\ UNCHANGED <<actions, decisions, world, lastReason, resolution, delivered,
                 saturated>>

\* _run_diagnosis seen from the pipeline: it never raises, and returns a
\* category or None; warnings and cascades are never diagnosed.
Diagnose(t) ==
  /\ pc[t] = "diagnose"
  /\ \E c \in {NoDiagnosis} \cup
              (IF call[t].sev = "warning" \/ call[t].cascade THEN {} ELSE Category) :
       Move(t, "gate", EnterDispatch(t, [call[t] EXCEPT !.cat = c]))
  /\ UNCHANGED <<store, world, lastReason, resolution, delivered, saturated>>

(***************************************************************************)
(* _send_notifications: the loop over the notifiers                        *)
(***************************************************************************)

\* Mutant: nobody asks what severities the notifier opted in to.
PassedOverUnasked(t, n) ==
  LET c == call[t]  v == Notifiers[FlowOf[t]][n]
  IN  IF c.recording /\ ~v.records THEN {"not_archival"}
      ELSE IF v.cats # {} /\ c.cat \notin v.cats \cup {NoDiagnosis}
           THEN {"category_skipped"}
      ELSE {}

\* Why the loop passes over notifier n without touching the store.
PassedOver(t, n) ==
  LET c == call[t]  v == Notifiers[FlowOf[t]][n]
      cascaded == c.cascade /\ ~v.onCascade
  IN  IF c.recording /\ ~v.records THEN {"not_archival"}
      ELSE IF c.sev \notin v.on THEN {"severity_skipped"}
      ELSE IF /\ ~cascaded /\ v.cats # {} /\ c.cat # NoDiagnosis
              /\ c.cat \notin v.cats THEN {"category_skipped"}
      ELSE {}

\* The loop is at notifier n, which passed the gates that need no store.
AtNotifier(t, n) ==
  /\ pc[t] = "gate"
  /\ n \in Upcoming(FlowOf[t], call[t].todo)
  /\ PassedOver(t, n) = {}

\* Mutant: the flag of the first notifier decides for all of them.
CascadeByFirst(t, n) ==
  call[t].cascade /\ ~Notifiers[FlowOf[t]][1].onCascade

CascadeSuppressed(t, n) ==
  call[t].cascade /\ ~Notifiers[FlowOf[t]][n].onCascade

\* The loop is done with notifier n, having counted the outcome c; the locals of
\* that round are gone.
Done(t, n, c) ==
  Move(t, "gate", [call[t] EXCEPT !.todo = @ \ {n}, !.tally = @ \cup c,
                                  !.n = 0, !.ok = FALSE])

Row(t, n, status) ==
  [rid |-> call[t].rid, type |-> Notifiers[FlowOf[t]][n].type,
   flow |-> FlowOf[t], status |-> status, at |-> clock, sev |-> call[t].sev]
SaveAction(t, n, status) ==
  actions' = Append(actions, Row(t, n, status))

\* Mutant: a notifier that is not archival is counted as an outcome.
SkipNotifierCounted(t) ==
  /\ pc[t] = "gate"
  /\ \E n \in Upcoming(FlowOf[t], call[t].todo) :
       PassedOver(t, n) # {} /\ Done(t, n, PassedOver(t, n))
  /\ UNCHANGED <<store, world, lastReason, resolution, delivered, saturated>>

\* Mutant: the loop does not advance past a skipped notifier.
SkipNotifierStuck(t) ==
  /\ pc[t] = "gate"
  /\ \E n \in Upcoming(FlowOf[t], call[t].todo) :
       PassedOver(t, n) # {} /\ Move(t, "gate", call[t])
  /\ UNCHANGED <<store, world, lastReason, resolution, delivered, saturated>>

SkipNotifier(t) ==
  /\ pc[t] = "gate"
  /\ \E n \in Upcoming(FlowOf[t], call[t].todo) :
       /\ PassedOver(t, n) # {}
       /\ Done(t, n, PassedOver(t, n) \ {"not_archival"})
  /\ UNCHANGED <<store, world, lastReason, resolution, delivered, saturated>>

\* A derived failure is queued for the digest instead of being pushed.
SuppressCascade(t) ==
  /\ \E n \in NotifierIds(FlowOf[t]) :
       /\ AtNotifier(t, n) /\ CascadeSuppressed(t, n)
       /\ SaveAction(t, n, "degraded")
       /\ Done(t, n, {"cascade_skipped"})
  /\ UNCHANGED <<reports, decisions, world, lastReason, resolution,
                 delivered, saturated>>

\* The rate limiter counts today's rows.  At the limit it logs, at ERROR
\* when the count equals it exactly.
CheckBudget(t) ==
  /\ \E n \in NotifierIds(FlowOf[t]) :
       /\ AtNotifier(t, n) /\ ~CascadeSuppressed(t, n)
       /\ LET f == FlowOf[t]  v == Notifiers[f][n]
          IN  /\ Move(t, IF ~Allowed(f, v.type, call[t].sev) THEN "degrade"
                         ELSE IF v.names THEN "resolve" ELSE "send",
                      [call[t] EXCEPT !.n = n])
              /\ saturated' = saturated \cup
                   {e \in {[flow |-> f, type |-> v.type, day |-> DayStart(clock)]} :
                      /\ ~Allowed(f, v.type, call[t].sev)
                      /\ Spent(f, v.type) = Limit[v.type]}
  /\ UNCHANGED <<store, world, lastReason, resolution, delivered>>

Degrade(t) ==
  /\ pc[t] = "degrade"
  /\ SaveAction(t, call[t].n, "degraded")
  /\ Done(t, call[t].n, {"degraded"})
  /\ UNCHANGED <<reports, decisions, world, lastReason, resolution, delivered,
                 saturated>>

\* setattr(notifier, "resolution", ...): the notifier object is shared by
\* every thread that calls this instance.
SetResolution(t) ==
  /\ pc[t] = "resolve"
  /\ resolution' = [resolution EXCEPT ![FlowOf[t]][call[t].n] = call[t].issue]
  /\ Move(t, "send", call[t])
  /\ UNCHANGED <<store, world, lastReason, delivered, saturated>>

\* The channel takes the message.  The text names the issue resolution holds by
\* then; answer is what send() comes back with, "none" for a falsy target or an
\* exception.
Deliver(t, answer) ==
  delivered' = delivered \cup
    {[flow |-> FlowOf[t], rid |-> call[t].rid, n |-> call[t].n,
      recording |-> call[t].recording, at |-> clock, answer |-> answer,
      issue |-> resolution[FlowOf[t]][call[t].n]]}

\* notifier.send() returns a target.  That of an issue filer names the issue,
\* or only the repository when GitHub's answer lacks the URL.
SendAccepted(t) ==
  /\ pc[t] = "send"
  /\ \E answer \in {"target"} \cup (IF Here(t).files THEN {"issue"} ELSE {}) :
       /\ Deliver(t, answer)
       /\ Move(t, "outcome",
               [call[t] EXCEPT !.ok = TRUE,
                               !.issue = IF answer = "issue" THEN call[t].rid ELSE @])
  /\ UNCHANGED <<store, world, lastReason, resolution, saturated>>

\* Nothing comes back: the channel refused the message, or took it and its
\* answer was lost or could not be read.
Unanswered(t) == Deliver(t, "none") \/ UNCHANGED delivered

\* ... as a falsy target, or an exception.
SendRefused(t) ==
  /\ pc[t] = "send"
  /\ Unanswered(t)
  /\ Move(t, "outcome", [call[t] EXCEPT !.ok = FALSE])
  /\ UNCHANGED <<store, world, lastReason, resolution, saturated>>

SendRaised(t) ==
  /\ pc[t] = "send"
  /\ Unanswered(t)
  /\ Move(t, "recover", call[t])
  /\ UNCHANGED <<store, world, lastReason, resolution, saturated>>

SaveOutcome(t) ==
  /\ pc[t] = "outcome"
  /\ LET status == IF call[t].ok THEN "sent" ELSE "failed"
     IN  /\ SaveAction(t, call[t].n, status)
         /\ Done(t, call[t].n, {status})
  /\ UNCHANGED <<reports, decisions, world, lastReason, resolution, delivered,
                 saturated>>

\* Mutant: a send that raised leaves no row.
SaveFailureUnrecorded(t) ==
  /\ pc[t] = "recover"
  /\ Done(t, call[t].n, {"failed"})
  /\ UNCHANGED <<store, world, lastReason, resolution, delivered, saturated>>

\* The except branch around send() and its save_action: the attempt counts
\* as failed whatever raised.
SaveFailure(t) ==
  /\ pc[t] = "recover"
  /\ SaveAction(t, call[t].n, "failed")
  /\ Done(t, call[t].n, {"failed"})
  /\ UNCHANGED <<reports, decisions, world, lastReason, resolution, delivered,
                 saturated>>

(***************************************************************************)
(* Leaving a call                                                          *)
(***************************************************************************)

\* _record_decision: the in-process reason is set first; the row may be
\* lost to a store error, which is only logged.
RecordDecision(t, reason) ==
  /\ lastReason' = [lastReason EXCEPT ![FlowOf[t]] = reason]
  /\ \/ /\ decisions' = Append(decisions,
             [rid |-> call[t].rid, flow |-> FlowOf[t], reason |-> reason])
        /\ UNCHANGED faults
     \/ /\ faults < MaxFaults
        /\ faults' = faults + 1
        /\ UNCHANGED decisions
  /\ UNCHANGED <<reports, actions, clock, calls, resolution, delivered, saturated>>

\* A repeat is decided before its archival-only dispatch.
DecideDeduped(t) ==
  /\ pc[t] = "hitDecision"
  /\ RecordDecision(t, "deduped")
  /\ Move(t, "gate", EnterDispatch(t, [call[t] EXCEPT !.recording = TRUE]))

\* The loop is over: report() and notify_event() record why it alerted or not.
DecideDispatched(t) ==
  /\ pc[t] = "gate" /\ call[t].todo = {}
  /\ ~call[t].recording /\ call[t].api # "success"
  /\ RecordDecision(t, Classify(call[t].tally))
  /\ Move(t, "idle", NoCall)

\* A repeat returns None, notify_success() the report's id.
ReturnUndecided(t) ==
  /\ pc[t] = "gate" /\ call[t].todo = {}
  /\ call[t].recording \/ call[t].api = "success"
  /\ Move(t, "idle", NoCall)
  /\ UNCHANGED <<store, world, lastReason, resolution, delivered, saturated>>

(***************************************************************************)
(* Faults and time                                                         *)
(***************************************************************************)

\* Mutant: the lost row is taken for a lost send, which is tried again.
LoseOutcomeResends(t) ==
  /\ pc[t] = "outcome" /\ faults < MaxFaults
  /\ faults' = faults + 1
  /\ Move(t, "send", call[t])
  /\ UNCHANGED <<store, clock, calls, lastReason, resolution, delivered,
                 saturated>>

\* save_action raises inside the try around send().
LoseOutcome(t) ==
  /\ pc[t] = "outcome" /\ faults < MaxFaults
  /\ faults' = faults + 1
  /\ Move(t, "recover", call[t])
  /\ UNCHANGED <<store, clock, calls, lastReason, resolution, delivered,
                 saturated>>

\* A store call outside it raises; the API catches that and returns None.
Abort(t) ==
  /\ \/ pc[t] \in {"find", "hit", "cascade", "save", "degrade", "recover"}
     \/ \E n \in NotifierIds(FlowOf[t]) :
          /\ AtNotifier(t, n)
          /\ \/ CascadeSuppressed(t, n)
             \/ /\ call[t].sev \notin Exempt
                /\ Notifiers[FlowOf[t]][n].type \in DOMAIN Limit
  /\ faults < MaxFaults
  /\ faults' = faults + 1
  /\ Move(t, "idle", NoCall)
  /\ UNCHANGED <<store, clock, calls, lastReason, resolution, delivered,
                 saturated>>

\* The process of instance f dies with every call it was running.
Crash(f) ==
  /\ faults < MaxFaults
  /\ \E t \in Thread : FlowOf[t] = f /\ pc[t] # "idle"
  /\ faults' = faults + 1
  /\ pc' = [t \in Thread |-> IF FlowOf[t] = f THEN "idle" ELSE pc[t]]
  /\ call' = [t \in Thread |-> IF FlowOf[t] = f THEN NoCall ELSE call[t]]
  /\ lastReason' = [lastReason EXCEPT ![f] = "none"]
  /\ resolution' = [resolution EXCEPT ![f] = [n \in NotifierIds(f) |-> 0]]
  /\ UNCHANGED <<store, clock, calls, delivered, saturated>>

Tick ==
  /\ clock < MaxTime
  /\ clock' = clock + 1
  /\ UNCHANGED <<store, calls, faults, lastReason, resolution, delivered,
                 saturated, pc, call>>

\* Nothing is left to do within the bounds.
Rest ==
  /\ clock = MaxTime
  /\ \A t \in Thread : pc[t] = "idle" /\ calls[t] = MaxCalls
  /\ UNCHANGED vars

(***************************************************************************)
(* The specification                                                       *)
(***************************************************************************)

Init ==
  /\ clock = DayLen
  /\ reports = <<>> /\ actions = <<>> /\ decisions = <<>>
  /\ lastReason = [f \in Flow |-> "none"]
  /\ resolution = [f \in Flow |-> [n \in NotifierIds(f) |-> 0]]
  /\ delivered = {} /\ saturated = {}
  /\ pc = [t \in Thread |-> "idle"]
  /\ call = [t \in Thread |-> NoCall]
  /\ calls = [t \in Thread |-> 0]
  /\ faults = 0

\* What thread t does inside a call.
Step(t) ==
  \/ FindHit(t) \/ FindNone(t) \/ RecordDedupHit(t) \/ DecideDeduped(t)
  \/ CheckCascade(t) \/ SaveReport(t) \/ Diagnose(t)
  \/ SkipNotifier(t) \/ SuppressCascade(t) \/ CheckBudget(t) \/ Degrade(t)
  \/ SetResolution(t) \/ SendAccepted(t) \/ SendRefused(t) \/ SendRaised(t)
  \/ SaveOutcome(t) \/ SaveFailure(t)
  \/ DecideDispatched(t) \/ ReturnUndecided(t)
  \/ LoseOutcome(t) \/ Abort(t)

Next ==
  \/ \E t \in Thread : Step(t) \/ \E in \in Inputs : Call(t, in)
  \/ \E f \in Flow : Crash(f)
  \/ Tick
  \/ Rest

Spec == Init /\ [][Next]_vars

\* Every thread inside a call keeps running: a send and a store call return
\* or raise, both have timeouts.
FairSpec == Spec /\ \A t \in Thread : WF_vars(Step(t))

(***************************************************************************)
(* Properties                                                              *)
(***************************************************************************)

\* Every variable keeps its type; the one type invariant of the module.
TypeOK ==
  /\ clock \in Int /\ faults \in Nat
  /\ reports \in Seq(Report)
  /\ actions \in Seq(Action)
  /\ decisions \in Seq(Decision)
  /\ lastReason \in [Flow -> Reason \cup {"none"}]
  /\ DOMAIN resolution = Flow
  /\ \A f \in Flow : resolution[f] \in [NotifierIds(f) -> Nat]
  /\ pc \in [Thread -> PC]
  /\ call \in [Thread -> Frame]
  /\ calls \in [Thread -> Nat]

\* A thread's loop is over notifiers of its own instance.
Located ==
  \A t \in Thread :
    /\ call[t].todo \subseteq NotifierIds(FlowOf[t])
    /\ pc[t] \in {"degrade", "resolve", "send", "outcome", "recover"}
         => call[t].n \in NotifierIds(FlowOf[t])

\* No report is newer than now.
ReportsPast == \A i \in DOMAIN reports : reports[i].at <= clock

\* A thread past its dedup query has no report of that signature of its own
\* within the cooldown: none was there when it looked, and it stored none since.
Searched ==
  \A t \in Thread : \A i \in DOMAIN reports :
    pc[t] \in {"cascade", "save"} /\ call[t].sig # NoSig =>
      (reports[i].by = t /\ reports[i].sig = call[t].sig
         => reports[i].at + Cooldown < clock)

Repeats(i, j) ==
  i < j /\ reports[i].sig = reports[j].sig /\ reports[i].sig # NoSig

\* The promise dedup keeps under concurrency (is_duplicate reads, save_report
\* writes, nothing in between holds a lock): one thread never stores two
\* reports of a signature within one cooldown, however long its call stalls
\* between the query and the insert, so a storm costs at most one report per
\* thread and cooldown.
OnePerThreadPerWindow ==
  \A i, j \in DOMAIN reports :
    Repeats(i, j) /\ reports[i].by = reports[j].by
      => reports[i].at + Cooldown < reports[j].at

\* OnePerThreadPerWindow made inductive: what a thread between query and
\* insert still knows about the store.
DedupInv ==
  TypeOK /\ Located /\ ReportsPast /\ Searched /\ OnePerThreadPerWindow

\* What the README promises of dedup: within a cooldown a signature is stored
\* and delivered once, whoever reports it.
OncePerWindow ==
  \A i, j \in DOMAIN reports :
    Repeats(i, j) => reports[i].at + Cooldown < reports[j].at

HasRow(rid, statuses) ==
  \E k \in DOMAIN actions : actions[k].rid = rid /\ actions[k].status \in statuses
Delivery(rid) == \E m \in delivered : m.rid = rid /\ ~m.recording

\* The decision trail never lies about the tables: a reason recorded by
\* _record_decision is backed by the action rows and the report it cites,
\* whatever other threads, lost rows and aborted calls did in between.
DecisionMatchesStore ==
  \A k \in DOMAIN decisions :
    LET d == decisions[k]  r == reports[d.rid]
    IN  /\ d.rid \in DOMAIN reports
        /\ d.reason = "fired" => HasRow(d.rid, {"sent"}) /\ Delivery(d.rid)
        /\ d.reason = "delivery_failed" => HasRow(d.rid, {"failed"})
        /\ d.reason = "rate_limited" =>
             HasRow(d.rid, {"degraded"}) /\ r.sev \notin Exempt
        /\ d.reason = "cascade_suppressed" =>
             HasRow(d.rid, {"degraded"}) /\ r.cascade
        /\ d.reason = "deduped" => r.sig # NoSig

\* While no store call fails, a report that was suppressed (by cap, severity,
\* category or cascade, or for want of notifiers) reached no delivery channel,
\* and one recorded "delivery_failed" none that said so: what somebody may have
\* been told of it is what a channel took without an answer.
QuietMeansQuiet ==
  faults = 0 =>
    \A k \in DOMAIN decisions : \A m \in delivered :
      /\ m.rid = decisions[k].rid /\ ~m.recording
      /\ decisions[k].reason \notin {"fired", "deduped"}
      => decisions[k].reason = "delivery_failed" /\ m.answer = "none"

\* "Saw N, alerted M" adds up: when a dispatch is decided, every notifier that
\* opted in to the severity has a row for that report, and a failure page that
\* is not a cascade was attempted on it, never degraded by the daily cap.
RecipientsAccounted ==
  \A k \in DOMAIN decisions : \A n \in NotifierIds(decisions[k].flow) :
    LET d == decisions[k]  v == Notifiers[d.flow][n]  r == reports[d.rid]
    IN  (d.reason # "deduped" /\ r.sev \in v.on /\ v.cats = {}) =>
          \E a \in DOMAIN actions :
            /\ actions[a].rid = d.rid /\ actions[a].type = v.type
            /\ (r.sev \in Exempt /\ (r.cascade => v.onCascade))
                 => actions[a].status \in {"sent", "failed"}

\* The alerts of a flow and type a channel has accepted since then and said so,
\* but for failure pages.
Alerts(f, type, since) ==
  {m \in delivered :
     /\ m.flow = f /\ Notifiers[f][m.n].type = type /\ m.at >= since
     /\ ~m.recording /\ m.answer # "none" /\ reports[m.rid].sev \notin Exempt}

\* The daily budget under concurrency (RateLimiter.check reads the count that
\* save_action raises later): alerts that are not exempt exceed it by at most
\* one per other thread of the flow, and by one per thread for a store error or
\* a crash, which may lose the row of an alert that is out. An alert whose
\* answer was lost is not counted: its row says "failed", and the limiter gives
\* failures another try.
BudgetOverrunBounded ==
  \A t \in Thread, type \in DOMAIN Limit :
    LET threads == {u \in Thread : FlowOf[u] = FlowOf[t]}
    IN  Cardinality(Alerts(FlowOf[t], type, DayStart(clock)))
          <= Limit[type] + Cardinality(threads \ {t}) + faults * Cardinality(threads)

\* Every alert names the issue that resolves it: a message whose report also
\* got an issue filed, with an answer that said which, carries that issue, any
\* other message carries none.
AlertNamesItsIssue ==
  \A m \in delivered :
    Notifiers[m.flow][m.n].names =>
      LET filed == \E x \in delivered :
                     /\ x.rid = m.rid /\ x.recording = m.recording
                     /\ Notifiers[x.flow][x.n].files /\ x.answer = "issue"
      IN  m.issue = IF filed THEN m.rid ELSE 0

\* A report is called a cascade only if a declared dependency stored a failure
\* before it; a flow's own failures and upstream warnings never mark it.
CascadeHasUpstream ==
  \A i \in DOMAIN reports :
    reports[i].cascade =>
      \E j \in 1..(i - 1) :
        /\ reports[j].flow \in DependsOn[reports[i].flow]
        /\ reports[j].sev \in {"error", "critical"}

\* A page is not repeated: whenever a notifier is about to be handed a report,
\* it has not accepted that report before, though send() or the row after it
\* raised, the call was one of several, or another thread reported the same.
PagedOnce ==
  \A t \in Thread :
    pc[t] = "send" /\ ~call[t].recording =>
      ~\E m \in delivered :
         /\ m.flow = FlowOf[t] /\ m.n = call[t].n
         /\ m.rid = call[t].rid /\ ~m.recording

\* The tables and messages as ReportPromise sees them.
Stored == [i \in DOMAIN reports |-> [flow |-> reports[i].flow, sev |-> reports[i].sev,
                                     cascade |-> reports[i].cascade]]
Messages(recording) ==
  {[report |-> m.rid, flow |-> m.flow, n |-> m.n, answered |-> m.answer # "none"] :
     m \in {x \in delivered : x.recording = recording}}
Receipts ==
  {[report |-> actions[k].rid, flow |-> actions[k].flow, type |-> actions[k].type] :
     k \in {j \in DOMAIN actions : actions[j].status = "sent"}}
Verdicts ==
  {decisions[k] : k \in {j \in DOMAIN decisions : decisions[j].reason # "deduped"}}

Promise == INSTANCE ReportPromise WITH
  stored <- Stored, pages <- Messages(FALSE), archived <- Messages(TRUE),
  receipts <- Receipts, verdicts <- Verdicts, sound <- faults = 0

\* The pipeline implements ReportPromise (README.md, "Decision trail" and
\* "Notifier opt-in"): who is paged, what is archived and what the tables say
\* of it never disagree, from one step to the next.
KeepsReportPromise == Promise!PromiseSpec

\* report(), notify_event() and notify_success() always come back, with every
\* notifier refusing, every store call failing or the process dying.
EveryCallReturns == \A t \in Thread : pc[t] # "idle" ~> pc[t] = "idle"
=============================================================================
