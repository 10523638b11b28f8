----------------------------- MODULE LogHandler -----------------------------
(***************************************************************************)
(* FlowDoctorHandler: the logging.Handler that feeds the host's ERROR      *)
(* records to one worker thread through a bounded queue, and its shutdown. *)
(*                                                                         *)
(* Host threads log while the worker reports; a report runs notifiers and  *)
(* a diagnosis that log themselves, on the worker's thread, through the    *)
(* same root logger.  logging (external) calls emit() with the handler's   *)
(* lock held, and at interpreter exit calls close() with it held; then the *)
(* process ends and the daemon worker with it.                             *)
(***************************************************************************)
EXTENDS Naturals, Sequences, FiniteSets

CONSTANTS
  Thread,      \* host threads that log or close the handler
  Main,        \* the one that runs the exit handlers
  Capacity,    \* queue_size
  Worker, Nobody, Stop, Open,
  MaxRecords,  \* bound: records written by anyone but flow-doctor
  MaxCloses    \* bound: shutdown() calls outside the exit handlers

\* Who wrote a record: the host, a logger named flow_doctor.*, any logger
\* inside flow-doctor's own LLM call, a transport library during a send; or
\* the host, with a message the include or exclude patterns drop.
Source == {"host", "own", "llm", "transport", "filtered"}
Echo == {"own", "llm", "transport"}

ASSUME HandlerAssumption ==
  /\ Main \in Thread
  /\ Worker \notin Thread /\ Nobody \notin Thread \cup {Worker}
  /\ Capacity \in Nat \ {0} /\ MaxRecords \in Nat
  /\ MaxCloses \in Nat
  /\ Stop \notin Nat /\ Open \notin Nat

VARIABLES
  queue,     \* of record numbers and Stop
  lock,      \* the handler's lock: the thread that closes it at exit, or Nobody
  worker,    \* "get", "report", "emit" (it logs, lock wanted) or "exited"
  item,      \* the record the worker reports
  echo,      \* what the worker is about to log
  host,      \* [Thread -> "run", "join", "done" (process over)]
  closes,    \* shutdown() calls so far
  logged,    \* records written so far by anyone but flow-doctor
  taken, reported, sealed   \* history: see LogPromise

vars == <<queue, lock, worker, item, echo, host, closes, logged,
          taken, reported, sealed>>
workerVars == <<worker, item, echo>>

\* The process has ended: the daemon worker is killed.
Over == host[Main] = "done"

(***************************************************************************)
(* emit()                                                                  *)
(***************************************************************************)

\* Mutant: no look at the record's logger.
CaptureOwn(source) ==
  IF source \in {"host", "own", "transport"} /\ Len(queue) < Capacity
  THEN queue' = Append(queue, taken + 1) /\ taken' = taken + 1
  ELSE UNCHANGED <<queue, taken>>

\* emit() puts a record unless flow-doctor itself caused it, a pattern drops
\* it, or the queue is full: a full queue loses it silently.
Capture(source) ==
  IF source \in {"host", "transport"} /\ Len(queue) < Capacity
  THEN /\ queue' = Append(queue, taken + 1)
       /\ taken' = taken + 1
  ELSE UNCHANGED <<queue, taken>>

\* A host thread logs.  A thread about to log waits for the lock first.
HostLogs(t) ==
  /\ ~Over /\ host[t] = "run" /\ lock = Nobody
  /\ logged < MaxRecords
  /\ logged' = logged + 1
  /\ \E source \in {"host", "filtered"} : Capture(source)
  /\ UNCHANGED <<lock, workerVars, host, closes, reported, sealed>>

(***************************************************************************)
(* _drain()                                                                *)
(***************************************************************************)

\* Mutant: the newest record first.
GetNewest ==
  /\ ~Over /\ worker = "get" /\ queue # <<>>
  /\ LET last == queue[Len(queue)]
     IN  IF last = Stop THEN worker' = "exited" /\ UNCHANGED item
         ELSE worker' = "report" /\ item' = last
  /\ queue' = SubSeq(queue, 1, Len(queue) - 1)
  /\ UNCHANGED <<lock, echo, host, closes, logged, taken, reported, sealed>>

Get ==
  /\ ~Over /\ worker = "get" /\ queue # <<>>
  /\ queue' = Tail(queue)
  /\ IF Head(queue) = Stop
     THEN worker' = "exited" /\ UNCHANGED item
     ELSE worker' = "report" /\ item' = Head(queue)
  /\ UNCHANGED <<lock, echo, host, closes, logged, taken, reported, sealed>>

\* The report logs on the worker's thread: Handler.handle takes the lock
\* before emit() can look at the record.
WorkerLogs ==
  /\ ~Over /\ worker = "report"
  /\ echo' \in Echo
  /\ logged' = IF echo' = "transport" THEN logged + 1 ELSE logged
  /\ logged' <= MaxRecords
  /\ worker' = "emit"
  /\ UNCHANGED <<queue, lock, item, host, closes, taken, reported, sealed>>

WorkerEmits ==
  /\ ~Over /\ worker = "emit" /\ lock = Nobody
  /\ Capture(echo)
  /\ worker' = "report"
  /\ UNCHANGED <<lock, item, echo, host, closes, logged, reported, sealed>>

\* Mutant: a report that raises ends the loop.
ReportDoneOrDead ==
  /\ ~Over /\ worker = "report"
  /\ worker' \in {"get", "exited"}
  /\ reported' = item
  /\ UNCHANGED <<queue, lock, item, echo, host, closes, logged, taken, sealed>>

\* fd.report() returned, or raised and was swallowed.
ReportDone ==
  /\ ~Over /\ worker = "report"
  /\ worker' = "get"
  /\ reported' = item
  /\ UNCHANGED <<queue, lock, item, echo, host, closes, logged, taken, sealed>>

(***************************************************************************)
(* shutdown(), close()                                                     *)
(***************************************************************************)

\* Mutant: the sentinel overtakes the records.
PutStopFirst(t, next) ==
  IF Len(queue) < Capacity
  THEN /\ queue' = <<Stop>> \o queue
       /\ sealed' = IF sealed = Open THEN taken ELSE sealed
       /\ host' = [host EXCEPT ![t] = "join"]
  ELSE host' = [host EXCEPT ![t] = next] /\ UNCHANGED <<queue, sealed>>

\* The sentinel is queued and the caller joins the worker; on a full queue
\* shutdown() returns at once and the caller goes on at next.
PutStop(t, next) ==
  IF Len(queue) < Capacity
  THEN /\ queue' = Append(queue, Stop)
       /\ sealed' = IF sealed = Open THEN taken ELSE sealed
       /\ host' = [host EXCEPT ![t] = "join"]
  ELSE host' = [host EXCEPT ![t] = next] /\ UNCHANGED <<queue, sealed>>

\* The host calls shutdown() or close().
Shutdown(t) ==
  /\ ~Over /\ host[t] = "run" /\ closes < MaxCloses
  /\ closes' = closes + 1
  /\ PutStop(t, "run")
  /\ UNCHANGED <<lock, workerVars, logged, taken, reported>>

\* logging.shutdown() at interpreter exit: acquire, close, release.
CloseAtExit ==
  /\ host[Main] = "run" /\ lock = Nobody
  /\ PutStop(Main, "done")
  /\ lock' = IF host'[Main] = "join" THEN Main ELSE Nobody
  /\ UNCHANGED <<workerVars, closes, logged, taken, reported>>

\* Mutant: a join without a timeout.
JoinWaits(t) ==
  /\ ~Over /\ host[t] = "join" /\ worker = "exited"
  /\ host' = [host EXCEPT ![t] = IF lock = t THEN "done" ELSE "run"]
  /\ lock' = IF lock = t THEN Nobody ELSE lock
  /\ UNCHANGED <<queue, workerVars, closes, logged, taken, reported, sealed>>

\* join() returns: the worker is gone, or the timeout passed.  After the
\* close at exit the process ends.
JoinReturns(t) ==
  /\ ~Over /\ host[t] = "join"
  /\ host' = [host EXCEPT ![t] = IF lock = t THEN "done" ELSE "run"]
  /\ lock' = IF lock = t THEN Nobody ELSE lock
  /\ UNCHANGED <<queue, workerVars, closes, logged, taken, reported, sealed>>

\* The process is over.
Gone == Over /\ UNCHANGED vars

(***************************************************************************)
(* The specification                                                       *)
(***************************************************************************)

Init ==
  /\ queue = <<>> /\ lock = Nobody
  /\ worker = "get" /\ item = 0 /\ echo = "own"
  /\ host = [t \in Thread |-> "run"]
  /\ closes = 0 /\ logged = 0
  /\ taken = 0 /\ reported = 0 /\ sealed = Open

WorkerStep == Get \/ WorkerLogs \/ WorkerEmits \/ ReportDone

Next ==
  \/ \E t \in Thread : HostLogs(t) \/ Shutdown(t) \/ JoinReturns(t)
  \/ CloseAtExit
  \/ WorkerStep
  \/ Gone

Spec == Init /\ [][Next]_vars

\* The worker runs, and a report returns after finitely many log lines; a
\* join returns by its timeout at the latest.  The host may run forever.
FairSpec ==
  /\ Spec
  /\ WF_vars(Get) /\ WF_vars(WorkerEmits) /\ SF_vars(ReportDone)
  /\ \A t \in Thread : WF_vars(JoinReturns(t))

(***************************************************************************)
(* Properties                                                              *)
(***************************************************************************)

\* Types, and the queue within its size: a storm costs bounded memory.
TypeOK ==
  /\ queue \in Seq(Nat \cup {Stop}) /\ Len(queue) <= Capacity
  /\ lock \in {Nobody, Main}
  /\ worker \in {"get", "report", "emit", "exited"}
  /\ item \in Nat /\ echo \in Echo
  /\ host \in [Thread -> {"run", "join", "done"}]
  /\ closes \in Nat /\ logged \in Nat
  /\ taken \in Nat /\ reported \in Nat /\ sealed \in Nat \cup {Open}

\* What the worker is done with or busy with.
Begun == IF worker \in {"report", "emit"} THEN reported + 1 ELSE reported

\* The queue between worker and producers: consecutive records, up to the
\* first sentinel the last one taken before the close.
QueueInOrder ==
  /\ worker \in {"report", "emit"} => item = reported + 1
  /\ sealed = Open =>
       /\ worker # "exited"
       /\ taken = Begun + Len(queue)
       /\ \A i \in DOMAIN queue : queue[i] = Begun + i
  /\ sealed # Open /\ worker # "exited" =>
       /\ Begun <= sealed /\ sealed - Begun + 1 \in DOMAIN queue
       /\ queue[sealed - Begun + 1] = Stop
       /\ \A i \in 1..(sealed - Begun) : queue[i] = Begun + i

\* The worker ends only after it reported every record taken before the
\* first shutdown(), whoever logged, closed again or timed out meanwhile.
NothingLostBeforeClose == worker = "exited" => reported = sealed

\* A storm cannot feed itself through flow-doctor's own lines or those of its
\* LLM call (handler.py:73-103): the records taken are no more than were written
\* by somebody else. What a library writes on the worker's thread outside that
\* call (a notifier's HTTP client, say) counts as somebody else's.
NoFeedback == taken <= logged

\* NoFeedback with the line the worker is about to log.
Counted ==
  taken + (IF worker = "emit" /\ echo = "transport" THEN 1 ELSE 0) <= logged

\* The inductive invariant: what every step keeps of queue and counters.
HandlerInv == TypeOK /\ QueueInOrder /\ NothingLostBeforeClose /\ Counted

\* The handler keeps LogPromise: order, no skip, no repeat, nothing after the
\* close.
Promise == INSTANCE LogPromise
KeepsPromise == Promise!LSpec

\* shutdown() and close() always return, even at exit with the worker stuck.
CloseReturns == \A t \in Thread : host[t] = "join" ~> host[t] # "join" \/ Over

\* Every record taken before the close is reported in the end, unless the
\* process ends first.
TakenIsReported ==
  \A n \in 1..MaxRecords :
    taken >= n ~> \/ reported >= n \/ Over
                  \/ sealed # Open /\ sealed < n
=============================================================================
