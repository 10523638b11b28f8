----------------------------- MODULE GithubIssues -----------------------------
(***************************************************************************)
(* The GitHub notifier (notify/github.py) and the tracker it files in.     *)
(* Threads send reports through notifier instances, one per process or     *)
(* shared; a step is one request, or one look at the memory the threads of *)
(* an instance share. GitHub is external: an issue is created, commented   *)
(* on, patched and closed at once, while the search endpoint answers from  *)
(* an index that follows later. A request that fails may have been carried *)
(* out all the same.                                                       *)
(***************************************************************************)
EXTENDS Naturals, Sequences, SequencesExt

CONSTANTS
  Threads, Instances,
  Findings,      \* error texts
  FingerprintOf, \* compute_body_fingerprint: digits do not count
  Restates,      \* pairs of texts one of which contains the other
  Diagnosed,     \* those whose report comes with a diagnosis
  AutoFix,       \* auto_fix_pr
  Window,        \* _COLLAPSE_WINDOW_SECONDS, in ticks
  MaxRecent,     \* _MAX_RECENT_SENDS
  MaxSends, MaxClock, MaxFaults

ASSUME GithubAssumption ==
  /\ IsFiniteSet(Threads) /\ Findings # {}
  /\ Restates \subseteq Findings \X Findings
  /\ DOMAIN FingerprintOf = Findings
  /\ Diagnosed \subseteq Findings
  /\ AutoFix \in BOOLEAN
  /\ Window \in Nat /\ MaxRecent \in Nat \ {0}
  /\ MaxSends \in Nat /\ MaxClock \in Nat /\ MaxFaults \in Nat

VARIABLES
  home,       \* the notifier each thread sends through; never changes
  issues,     \* the tracker, by issue number
  index,      \* per issue, what the search endpoint knows of it
  recent,     \* per instance, _recent_sends
  filed,      \* per instance, _filed_by_fingerprint, oldest first
  call,       \* per thread, the frame of send()
  lastError,  \* per instance, whether last_error is set
  clock, sends, faults,
  crossed     \* history: threads whose send overlapped another of its finding
              \* through its instance

vars == <<home, issues, index, recent, filed, call, lastError, clock, sends, faults,
          crossed>>

Numbers == DOMAIN issues
Fingerprints == {FingerprintOf[f] : f \in Findings}
Idle == [at |-> "idle", finding |-> CHOOSE f \in Findings : TRUE, diagnosed |-> FALSE,
         begun |-> 0, blind |-> FALSE, target |-> 0, count |-> 0, fresh |-> TRUE]
Unindexed == [open |-> FALSE, count |-> 0]

TypeOK ==
  /\ home \in [Threads -> Instances]
  /\ issues \in Seq([fingerprint : Fingerprints, by : Instances, open : BOOLEAN,
                     count : Nat, recurred : Nat, comments : Nat, diagnosed : BOOLEAN,
                     labelled : BOOLEAN, blind : BOOLEAN, noted : BOOLEAN,
                     apart : BOOLEAN, undisturbed : BOOLEAN])
  /\ index \in [Numbers -> [open : BOOLEAN, count : Nat]]
  /\ recent \in [Instances -> Seq([ts : 0 .. MaxClock, finding : Findings, issue : Numbers])]
  /\ filed \in [Instances -> Seq([fingerprint : Fingerprints, issue : Numbers])]
  /\ \A p \in Instances : Len(recent[p]) <= MaxRecent /\ Len(filed[p]) <= MaxRecent
  /\ call \in [Threads -> [at : {"idle", "search", "readback", "get", "pop", "comment", "bump",
                                 "create", "remember", "label"},
                           finding : Findings, diagnosed : BOOLEAN, begun : 0 .. MaxClock,
                           blind : BOOLEAN, target : Nat, count : Nat, fresh : BOOLEAN]]
  /\ lastError \in [Instances -> BOOLEAN]
  /\ clock \in 0 .. MaxClock /\ sends \in 0 .. MaxSends /\ faults \in 0 .. MaxFaults
  /\ crossed \subseteq Threads

-------------------------------------------------------------------------------

At(t, step) == call[t].at = step
Fault == faults < MaxFaults /\ faults' = faults + 1
NoFault == UNCHANGED faults
Return(t) == call' = [call EXCEPT ![t] = Idle] /\ crossed' = crossed \ {t}

SameFinding(a, b) == a = b \/ <<a, b>> \in Restates \/ <<b, a>> \in Restates

\* The newest `MaxRecent' members of a list that grows at its end.
Trim(s) == IF Len(s) > MaxRecent THEN SubSeq(s, Len(s) - MaxRecent + 1, Len(s)) ELSE s

\* The members of s that are in T, in their order (a list comprehension).
Kept(s, T) ==
  LET kept[i \in 0 .. Len(s)] ==
        IF i = 0 THEN <<>>
        ELSE IF s[i] \in T THEN Append(kept[i - 1], s[i]) ELSE kept[i - 1]
  IN  kept[Len(s)]

RecentOf(p) == Kept(recent[p], {e \in Range(recent[p]) : clock - e.ts <= Window})
CollapseTargets(p, f) == {e \in Range(RecentOf(p)) : SameFinding(f, e.finding)}

\* The dict without its entry for fp; it has at most one.
WithoutFiled(table, fp) ==
  LET places == {i \in DOMAIN table : table[i].fingerprint = fp}
  IN  IF places = {} THEN table
      ELSE RemoveAt(table, CHOOSE i \in places : TRUE)

\* Mutant: only the search endpoint is asked.
FiledHereForgotten(p, fp) == {}

FiledHere(p, fp) == {e.issue : e \in {d \in Range(filed[p]) : d.fingerprint = fp}}

RememberFiled(p, fp, n) ==
  filed' = [filed EXCEPT ![p] = Trim(Append(WithoutFiled(@, fp), [fingerprint |-> fp, issue |-> n]))]

RememberSend(t, n) ==
  LET p == home[t]
  IN  recent' = [recent EXCEPT ![p] = Trim(Append(@, [ts |-> call[t].begun,
                                                      finding |-> call[t].finding, issue |-> n]))]

-------------------------------------------------------------------------------
(* send(), request by request.                                             *)

\* A report that restates one just sent returns that issue's link and leaves
\* nothing on it.
Collapse(t, f) ==
  LET p == home[t]
  IN  /\ At(t, "idle") /\ sends < MaxSends
      /\ CollapseTargets(p, f) # {}
      /\ lastError' = [lastError EXCEPT ![p] = FALSE]
      /\ recent' = [recent EXCEPT ![p] = RecentOf(p)]
      /\ sends' = sends + 1
      /\ UNCHANGED <<home, issues, index, filed, call, clock, faults, crossed>>

\* The other sends of the finding through t's instance.
Rivals(t, f) ==
  {u \in Threads \ {t} : /\ home[u] = home[t] /\ ~At(u, "idle")
                         /\ FingerprintOf[call[u].finding] = FingerprintOf[f]}

Begin(t, f) ==
  LET p == home[t]
  IN  /\ At(t, "idle") /\ sends < MaxSends
      /\ CollapseTargets(p, f) = {}
      /\ lastError' = [lastError EXCEPT ![p] = FALSE]
      /\ recent' = [recent EXCEPT ![p] = RecentOf(p)]
      /\ call' = [call EXCEPT ![t] = [Idle EXCEPT !.at = "search", !.finding = f,
                    !.diagnosed = (f \in Diagnosed), !.begun = clock]]
      /\ sends' = sends + 1
      /\ crossed' = IF Rivals(t, f) = {} THEN crossed \ {t}
                    ELSE crossed \cup Rivals(t, f) \cup {t}
      /\ UNCHANGED <<home, issues, index, filed, clock, faults>>

Found(t, n, count) ==
  call' = [call EXCEPT ![t].at = "comment", ![t].target = n, ![t].count = count,
                       ![t].fresh = (count = issues[n].count)]

\* Mutant: a hit is taken for the finding's without comparing fingerprints.
SearchUnverified(t) ==
  LET hits == {n \in Numbers : index[n].open}
  IN  /\ At(t, "search")
      /\ \/ NoFault /\ \E n \in hits : Found(t, n, index[n].count)
         \/ NoFault /\ hits = {} /\ call' = [call EXCEPT ![t].at = "readback"]
      /\ UNCHANGED <<home, issues, index, recent, filed, lastError, clock, sends, crossed>>

\* A search that fails is a search that found nothing.
Search(t) ==
  LET hits == {n \in Numbers : index[n].open
                 /\ issues[n].fingerprint = FingerprintOf[call[t].finding]}
  IN  /\ At(t, "search")
      /\ \/ NoFault /\ \E n \in hits : Found(t, n, index[n].count)
         \/ NoFault /\ hits = {} /\ call' = [call EXCEPT ![t].at = "readback"]
         \/ Fault /\ call' = [call EXCEPT ![t].at = "readback", ![t].blind = TRUE]
      /\ UNCHANGED <<home, issues, index, recent, filed, lastError, clock, sends, crossed>>

\* _get_open_issue_filed_here looks the finding up in the table ...
ReadBack(t) ==
  LET here == FiledHere(home[t], FingerprintOf[call[t].finding])
  IN  /\ At(t, "readback")
      /\ \/ here = {} /\ call' = [call EXCEPT ![t].at = "create"]
         \/ \E n \in here : call' = [call EXCEPT ![t].at = "get", ![t].target = n]
      /\ UNCHANGED <<home, issues, index, recent, filed, lastError, clock, sends, faults,
                     crossed>>

\* ... asks for the issue itself: no index in between ...
GetIssue(t) ==
  LET n == call[t].target
  IN  /\ At(t, "get")
      /\ \/ NoFault /\ issues[n].open /\ Found(t, n, issues[n].count)
         \/ NoFault /\ ~issues[n].open /\ call' = [call EXCEPT ![t].at = "pop"]
         \/ Fault /\ call' = [call EXCEPT ![t].at = "create", ![t].blind = TRUE]
      /\ UNCHANGED <<home, issues, index, recent, filed, lastError, clock, sends, crossed>>

\* ... and drops the entry of a closed one, or what another send put in its place.
ForgetFiled(t) ==
  /\ At(t, "pop")
  /\ filed' = [filed EXCEPT ![home[t]] = WithoutFiled(@, FingerprintOf[call[t].finding])]
  /\ call' = [call EXCEPT ![t].at = "create"]
  /\ UNCHANGED <<home, issues, index, recent, lastError, clock, sends, faults, crossed>>

\* A request carried out; its answer may be lost.
Carried == NoFault \/ Fault

PostRecurrence(t) ==
  LET n == call[t].target
  IN  /\ At(t, "comment")
      /\ \/ Carried /\ issues' = [issues EXCEPT ![n].comments = @ + 1]
         \/ Fault /\ UNCHANGED issues
      /\ call' = [call EXCEPT ![t].at = "bump"]
      /\ UNCHANGED <<home, index, recent, filed, lastError, clock, sends, crossed>>

\* Mutant: the line in the body is never recognised, so the count restarts at 2.
BumpUnparsed(t) ==
  LET n == call[t].target
      alone == \A u \in Threads \ {t} : At(u, "idle")
  IN  /\ At(t, "bump") /\ NoFault
      /\ issues' = [issues EXCEPT ![n].count = 2, ![n].recurred = @ + 1,
                      ![n].undisturbed = @ /\ alone /\ call[t].fresh]
      /\ RememberSend(t, n)
      /\ Return(t)
      /\ UNCHANGED <<home, index, filed, lastError, clock, sends>>

\* PATCH the body as it was read, with the count in it plus one.
BumpOccurrences(t) ==
  LET n == call[t].target
      alone == \A u \in Threads \ {t} : At(u, "idle")
  IN  /\ At(t, "bump")
      /\ \/ /\ Carried
            /\ issues' = [issues EXCEPT ![n].count = call[t].count + 1, ![n].recurred = @ + 1,
                            ![n].undisturbed = @ /\ alone /\ call[t].fresh]
         \/ /\ Fault
            /\ issues' = [issues EXCEPT ![n].recurred = @ + 1, ![n].undisturbed = FALSE]
      /\ RememberSend(t, n)
      /\ Return(t)
      /\ UNCHANGED <<home, index, filed, lastError, clock, sends>>

\* POST the issue. It may be refused, or filed while the answer is lost.
Create(t) ==
  LET issue == [fingerprint |-> FingerprintOf[call[t].finding], by |-> home[t], open |-> TRUE,
                count |-> 1, recurred |-> 0, comments |-> 0,
                diagnosed |-> call[t].diagnosed, labelled |-> FALSE,
                blind |-> call[t].blind, noted |-> FALSE, apart |-> FALSE,
                undisturbed |-> TRUE]
      filing == issues' = Append(issues, issue) /\ index' = Append(index, Unindexed)
  IN  /\ At(t, "create")
      /\ \/ /\ NoFault /\ filing
            /\ call' = [call EXCEPT ![t].at = "remember", ![t].target = Len(issues) + 1]
            /\ UNCHANGED <<lastError, crossed>>
         \/ /\ Fault
            /\ filing \/ UNCHANGED <<issues, index>>
            /\ lastError' = [lastError EXCEPT ![home[t]] = TRUE]
            /\ Return(t)
      /\ UNCHANGED <<home, recent, filed, clock, sends>>

\* The answer is there: both memories learn of the issue.
Remember(t) ==
  LET n == call[t].target
  IN  /\ At(t, "remember")
      /\ issues' = [issues EXCEPT ![n].noted = TRUE, ![n].apart = (t \notin crossed)]
      /\ RememberSend(t, n)
      /\ RememberFiled(home[t], FingerprintOf[call[t].finding], n)
      /\ IF AutoFix /\ call[t].diagnosed
         THEN call' = [call EXCEPT ![t].at = "label"] /\ UNCHANGED crossed
         ELSE Return(t)
      /\ UNCHANGED <<home, index, lastError, clock, sends, faults>>

AddLabel(t) ==
  /\ At(t, "label")
  /\ \/ Carried /\ issues' = [issues EXCEPT ![call[t].target].labelled = TRUE]
     \/ Fault /\ UNCHANGED issues
  /\ Return(t)
  /\ UNCHANGED <<home, index, recent, filed, lastError, clock, sends>>

-------------------------------------------------------------------------------
(* The world.                                                              *)

Reindex(n) ==
  /\ index' = [index EXCEPT ![n] = [open |-> issues[n].open, count |-> issues[n].count]]
  /\ UNCHANGED <<home, issues, recent, filed, call, lastError, clock, sends, faults,
                 crossed>>

Close(n) ==
  /\ issues[n].open
  /\ issues' = [issues EXCEPT ![n].open = FALSE]
  /\ UNCHANGED <<home, index, recent, filed, call, lastError, clock, sends, faults,
                 crossed>>

Tick ==
  /\ clock < MaxClock /\ clock' = clock + 1
  /\ UNCHANGED <<home, issues, index, recent, filed, call, lastError, sends, faults, crossed>>

Init ==
  /\ home \in [Threads -> Instances]
  /\ issues = <<>> /\ index = <<>>
  /\ recent = [p \in Instances |-> <<>>]
  /\ filed = [p \in Instances |-> <<>>]
  /\ call = [t \in Threads |-> Idle]
  /\ lastError = [p \in Instances |-> FALSE]
  /\ clock = 0 /\ sends = 0 /\ faults = 0 /\ crossed = {}

Step(t) ==
  \/ \E f \in Findings : Collapse(t, f) \/ Begin(t, f)
  \/ Search(t) \/ ReadBack(t) \/ GetIssue(t) \/ ForgetFiled(t)
  \/ PostRecurrence(t) \/ BumpOccurrences(t)
  \/ Create(t) \/ Remember(t) \/ AddLabel(t)

Next == Tick \/ (\E t \in Threads : Step(t)) \/ (\E n \in Numbers : Reindex(n) \/ Close(n))

Spec == Init /\ [][Next]_vars

-------------------------------------------------------------------------------
(* Properties.                                                             *)

FiledBefore(j) ==
  {i \in 1 .. j - 1 : /\ issues[i].fingerprint = issues[j].fingerprint
                      /\ issues[i].by = issues[j].by
                      /\ issues[i].noted}

\* An instance does not file a finding twice: of the issues it knows it has
\* filed for a fingerprint the last one is closed before it files another,
\* however far the search index lags (github.py:89-103, and
\* _get_open_issue_filed_here), unless a lookup of that send failed, or the
\* last one was filed while another send of the finding went through the same
\* instance: that one may have looked before the answer was there, or drop the
\* entry for the issue it replaced. It holds while the table has room for every
\* fingerprint: an entry pushed out of it is a filing the instance no longer
\* knows of.
OneOpenPerInstance ==
  \A j \in Numbers : ~issues[j].blind =>
    \A i \in FiledBefore(j) :
      issues[i].apart /\ issues[i].open => \E k \in FiledBefore(j) : k > i

\* "Occurrences: N" never claims more than happened, and is exact where sends
\* did not overlap and the body they read was current; a recurrence whose
\* counter was patched away is still in the comments, but for failed calls.
CountHonest ==
  \A n \in Numbers :
    /\ issues[n].count <= 1 + issues[n].recurred
    /\ issues[n].undisturbed => issues[n].count = 1 + issues[n].recurred
    /\ issues[n].comments + faults >= issues[n].recurred

\* The sends as TrackerPromise sees them: c is the frame, p the instance.
StageOf == [search |-> "asked", readback |-> "asked", get |-> "asked", pop |-> "asked",
            comment |-> "asked", create |-> "asked", bump |-> "noted",
            remember |-> "filed", label |-> "told"]
SendOf(c, p) ==
  IF c.at = "idle" THEN [stage |-> "none"]
  ELSE [stage |-> StageOf[c.at], fingerprint |-> FingerprintOf[c.finding],
        by |-> p, diagnosed |-> c.diagnosed, blind |-> c.blind,
        issue |-> IF c.at \in {"bump", "remember", "label"} THEN c.target ELSE 0]
Sending == [t \in Threads |-> SendOf(call[t], home[t])]

Promise == INSTANCE TrackerPromise WITH
  Sender <- Threads, Instance <- Instances, Fingerprint <- Fingerprints,
  Labels <- AutoFix, tracker <- issues, sending <- Sending, failed <- faults

\* send() implements TrackerPromise (github.py:80-120): its searches, its two
\* memories and their limits are not to be seen from outside, whatever lags,
\* overlaps or fails. Like OneOpenPerInstance it asks for a table with room for
\* every fingerprint.
KeepsTrackerPromise == Promise!TrackerSpec
===============================================================================
