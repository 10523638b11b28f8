---------------------------- MODULE TrackerPromise ----------------------------
(***************************************************************************)
(* What send() promises to whoever reads the tracker, however far its      *)
(* search lags, whoever else files and whichever request fails or is       *)
(* carried out without an answer.  A send notes its finding on an issue of *)
(* that very finding and counts it there, or it files one; it files only   *)
(* where the instance it belongs to has left none open that it knows of,   *)
(* unless a lookup of its own failed, or sends of that finding overlapped. *)
(* A label goes to the issue the send has just filed, and only for a       *)
(* report with a diagnosis.  No counter claims more than happened, and     *)
(* nothing else on an issue ever changes but that people close it.         *)
(***************************************************************************)
EXTENDS Naturals, Sequences

CONSTANTS
  Sender,
  Instance,
  Fingerprint,
  Labels       \* whether diagnosed findings are labelled for the auto-fix

VARIABLES
  tracker,     \* the issues, by number
  sending,     \* [Sender -> what its send has come to]
  crossed,     \* senders whose send overlapped another of its finding
  failed       \* requests that failed

trackerVars == <<tracker, sending, crossed, failed>>

AtRest == [stage |-> "none"]

Ends(t) == sending' = [sending EXCEPT ![t] = AtRest] /\ crossed' = crossed \ {t}
Fails == failed' = failed + 1
\* A request carried out: its answer may be lost.
Carried == UNCHANGED failed \/ Fails

\* The issues instance p knows it has filed for fp.
Own(p, fp) ==
  {i \in DOMAIN tracker : /\ tracker[i].fingerprint = fp /\ tracker[i].by = p
                          /\ tracker[i].noted}

\* None is open but perhaps one that a later filing has replaced, or one filed
\* while another send of that finding was under way.
NoneOpen(s) ==
  \A i \in Own(s.by, s.fingerprint) :
    tracker[i].apart /\ tracker[i].open => \E k \in Own(s.by, s.fingerprint) : k > i

\* Other sends of the finding through the instance.
Others(t, p, fp) ==
  {u \in Sender \ {t} : /\ sending[u].stage # "none"
                        /\ sending[u].by = p /\ sending[u].fingerprint = fp}

Ask(t, s) ==
  /\ s.stage = "none"
  /\ UNCHANGED <<tracker, failed>>
  /\ \E p \in Instance, fp \in Fingerprint, diagnosed \in BOOLEAN :
       /\ sending' = [sending EXCEPT ![t] =
            [stage |-> "asked", fingerprint |-> fp, by |-> p, diagnosed |-> diagnosed,
             blind |-> FALSE, issue |-> 0]]
       /\ crossed' = IF Others(t, p, fp) = {} THEN crossed \ {t}
                     ELSE crossed \cup Others(t, p, fp) \cup {t}

\* A lookup fails: the send goes on as if there were nothing to find.
Miss(t, s) ==
  /\ s.stage = "asked"
  /\ sending' = [sending EXCEPT ![t].blind = TRUE]
  /\ Fails
  /\ UNCHANGED <<tracker, crossed>>

Note(t, s) ==
  /\ s.stage = "asked"
  /\ \E n \in DOMAIN tracker :
       /\ tracker[n].fingerprint = s.fingerprint
       /\ sending' = [sending EXCEPT ![t].stage = "noted", ![t].issue = n]
       /\ \/ tracker' = [tracker EXCEPT ![n].comments = @ + 1] /\ Carried
          \/ Fails /\ UNCHANGED tracker
  /\ UNCHANGED crossed

\* After r recurrences a counter shows at most r + 1, and exactly that as long
\* as the issue counts as undisturbed, which once lost does not come back.
Count(t, s) ==
  LET n == s.issue
      recurred == tracker[n].recurred + 1
  IN  /\ s.stage = "noted"
      /\ \/ /\ \E c \in 0 .. recurred + 1, exact \in BOOLEAN :
                 /\ exact => tracker[n].undisturbed /\ c = recurred + 1
                 /\ tracker' = [tracker EXCEPT ![n].count = c, ![n].recurred = recurred,
                                               ![n].undisturbed = exact]
            /\ Carried
         \/ /\ tracker' = [tracker EXCEPT ![n].recurred = recurred,
                                          ![n].undisturbed = FALSE]
            /\ Fails
      /\ Ends(t)

\* A filing may be refused, or carried out though its answer is lost.
File(t, s) ==
  LET issue == [fingerprint |-> s.fingerprint, by |-> s.by, open |-> TRUE, count |-> 1,
                recurred |-> 0, comments |-> 0, diagnosed |-> s.diagnosed,
                labelled |-> FALSE, blind |-> s.blind, noted |-> FALSE, apart |-> FALSE,
                undisturbed |-> TRUE]
  IN  /\ s.stage = "asked"
      /\ s.blind \/ NoneOpen(s)
      /\ \/ /\ tracker' = Append(tracker, issue)
            /\ sending' = [sending EXCEPT ![t].stage = "filed",
                                          ![t].issue = Len(tracker) + 1]
            /\ UNCHANGED <<crossed, failed>>
         \/ /\ tracker' \in {tracker, Append(tracker, issue)}
            /\ Ends(t) /\ Fails

\* The instance learns what it has filed.
Tell(t, s) ==
  /\ s.stage = "filed"
  /\ tracker' = [tracker EXCEPT ![s.issue].noted = TRUE, ![s.issue].apart = (t \notin crossed)]
  /\ IF Labels /\ s.diagnosed
     THEN sending' = [sending EXCEPT ![t].stage = "told"] /\ UNCHANGED crossed
     ELSE Ends(t)
  /\ UNCHANGED failed

Label(t, s) ==
  /\ s.stage = "told"
  /\ \/ tracker' = [tracker EXCEPT ![s.issue].labelled = TRUE] /\ Carried
     \/ Fails /\ UNCHANGED tracker
  /\ Ends(t)

Close(n) ==
  /\ tracker[n].open
  /\ tracker' = [tracker EXCEPT ![n].open = FALSE]
  /\ UNCHANGED <<sending, crossed, failed>>

TrackerInit ==
  /\ tracker = <<>> /\ sending = [t \in Sender |-> AtRest]
  /\ crossed = {} /\ failed = 0

TrackerNext ==
  \/ \E t \in Sender :
       LET s == sending[t]
       IN  \/ Ask(t, s) \/ Miss(t, s) \/ Note(t, s) \/ Count(t, s)
           \/ File(t, s) \/ Tell(t, s) \/ Label(t, s)
  \/ \E n \in DOMAIN tracker : Close(n)

TrackerSpec == TrackerInit /\ [][TrackerNext]_trackerVars
===============================================================================
