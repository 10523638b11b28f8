---------------------------- MODULE ReportPromise ----------------------------
(***************************************************************************)
(* What the pipeline promises to the people it pages and to whoever reads  *)
(* its tables afterwards, whatever threads, caps, cooldowns and failures   *)
(* stand behind it: a page is about a report stored before it, goes to a   *)
(* channel that asked for it and comes before the verdict; an archive      *)
(* receives nothing but stored reports; a "sent" row has a message behind  *)
(* it, and one that answered; a report gets at most one verdict, and one   *)
(* that can be relied on: "fired" means that somebody was paged, and until *)
(* a store call fails "delivery_failed" that no channel said so, any other *)
(* verdict that nobody was.                                                *)
(***************************************************************************)
EXTENDS Naturals, Sequences

CONSTANTS
  Flow,        \* the instances
  Severity,
  Notifiers,   \* [Flow -> Seq of channels], with what each asked for
  Reason,      \* what a verdict can say
  Exempt       \* the severities no daily cap applies to

VARIABLES
  stored,      \* the reports, in the order they were stored
  pages,       \* messages to somebody: [report, flow, n, answered]
  archived,    \* messages to an archive, about a repeat: the same
  receipts,    \* what the "sent" rows claim: [report, flow, type]
  verdicts,    \* [rid, flow, reason], repeats aside; rid is the report
  sound        \* no store call has failed yet

promiseVars == <<stored, pages, archived, receipts, verdicts, sound>>

Judged(i) == \E v \in verdicts : v.rid = i
Paged(i) == \E m \in pages : m.report = i
Answered(i) == \E m \in pages : m.report = i /\ m.answered
Type(m) == Notifiers[m.flow][m.n].type

File(f, sev, cascade) ==
  /\ stored' = Append(stored, [flow |-> f, sev |-> sev, cascade |-> cascade])
  /\ UNCHANGED <<pages, archived, receipts, verdicts, sound>>

\* The instance that stored report i pages its n-th channel.
Page(i, n) ==
  LET r == stored[i]  asked == Notifiers[r.flow][n]
  IN  /\ r.sev \in asked.on
      /\ r.cascade => asked.onCascade
      /\ ~Judged(i)
      /\ \E answered \in BOOLEAN :
           pages' = pages \cup {[report |-> i, flow |-> r.flow, n |-> n,
                                 answered |-> answered]}
      /\ UNCHANGED <<stored, archived, receipts, verdicts, sound>>

\* An instance, not always the one that stored it, archives report i again.
Archive(i, f, n) ==
  /\ Notifiers[f][n].records
  /\ \E answered \in BOOLEAN :
       archived' = archived \cup {[report |-> i, flow |-> f, n |-> n,
                                   answered |-> answered]}
  /\ UNCHANGED <<stored, pages, receipts, verdicts, sound>>

Acknowledge(m) ==
  /\ m.answered
  /\ receipts' = receipts \cup
       {[report |-> m.report, flow |-> m.flow, type |-> Type(m)]}
  /\ UNCHANGED <<stored, pages, archived, verdicts, sound>>

Judge(i, reason) ==
  /\ ~Judged(i)
  /\ reason = "fired" => Answered(i)
  /\ reason # "fired" /\ sound =>
       IF reason = "delivery_failed" THEN ~Answered(i) ELSE ~Paged(i)
  /\ reason = "cascade_suppressed" => stored[i].cascade
  /\ reason = "rate_limited" => stored[i].sev \notin Exempt
  /\ verdicts' = verdicts \cup
       {[rid |-> i, flow |-> stored[i].flow, reason |-> reason]}
  /\ UNCHANGED <<stored, pages, archived, receipts, sound>>

\* A store call failed or a process died.
Falter ==
  /\ sound' = FALSE
  /\ UNCHANGED <<stored, pages, archived, receipts, verdicts>>

PromiseInit ==
  /\ stored = <<>>
  /\ pages = {} /\ archived = {} /\ receipts = {} /\ verdicts = {}
  /\ sound = TRUE

PromiseNext ==
  \/ \E f \in Flow, sev \in Severity, cascade \in BOOLEAN : File(f, sev, cascade)
  \/ \E i \in DOMAIN stored : \E n \in DOMAIN Notifiers[stored[i].flow] : Page(i, n)
  \/ \E i \in DOMAIN stored, f \in Flow : \E n \in DOMAIN Notifiers[f] : Archive(i, f, n)
  \/ \E m \in pages \cup archived : Acknowledge(m)
  \/ \E i \in DOMAIN stored, reason \in Reason : Judge(i, reason)
  \/ Falter

PromiseSpec == PromiseInit /\ [][PromiseNext]_promiseVars
===============================================================================
