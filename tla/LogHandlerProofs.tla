-------------------------- MODULE LogHandlerProofs --------------------------
(***************************************************************************)
(* Theorems about LogHandler for any number of host threads, any queue     *)
(* size and any number of records: nothing taken before the close is lost, *)
(* a storm does not feed itself, and the handler implements LogPromise.    *)
(***************************************************************************)
EXTENDS LogHandler, SequenceTheorems, TLAPS

\* What an item appended to the queue does to it.
LEMMA Queued ==
  ASSUME NEW S, NEW q \in Seq(S), NEW e \in S
  PROVE  /\ Append(q, e) \in Seq(S)
         /\ Len(Append(q, e)) = Len(q) + 1 /\ Len(q) \in Nat
         /\ DOMAIN q = 1..Len(q) /\ DOMAIN Append(q, e) = 1..(Len(q) + 1)
         /\ \A i \in 1..Len(q) : Append(q, e)[i] = q[i]
         /\ Append(q, e)[Len(q) + 1] = e
  BY AppendProperties, LenProperties

\* What taking the first item leaves.
LEMMA Taken ==
  ASSUME NEW S, NEW q \in Seq(S), q # <<>>
  PROVE  /\ Tail(q) \in Seq(S) /\ Head(q) \in S /\ Head(q) = q[1]
         /\ Len(Tail(q)) = Len(q) - 1 /\ Len(q) \in Nat \ {0}
         /\ DOMAIN q = 1..Len(q) /\ DOMAIN Tail(q) = 1..(Len(q) - 1)
         /\ \A i \in 1..(Len(q) - 1) : Tail(q)[i] = q[i + 1]
  BY HeadTailProperties, LenProperties, EmptySeq

\* The initial state satisfies the invariant.
LEMMA InitHandler == Init => HandlerInv
  BY HandlerAssumption, EmptySeq
  DEF Init, HandlerInv, TypeOK, QueueInOrder, NothingLostBeforeClose, Counted,
      Begun, Echo

\* Whoever logs, capturing a record keeps the queue in order.
LEMMA CaptureInOrder ==
  ASSUME HandlerInv, NEW source, Capture(source),
         item' = item, reported' = reported, sealed' = sealed,
         worker' = worker \/ (worker = "emit" /\ worker' = "report")
  PROVE  /\ queue' \in Seq(Nat \cup {Stop}) /\ Len(queue') <= Capacity
         /\ taken' \in Nat
         /\ taken' = taken \/ (taken' = taken + 1 /\ source \in {"host", "transport"})
         /\ QueueInOrder' /\ NothingLostBeforeClose'
<1> USE HandlerAssumption DEF HandlerInv
<1>1. Begun' = Begun /\ Begun \in Nat
  BY DEF Begun, TypeOK
<1>2. queue \in Seq(Nat \cup {Stop}) /\ taken \in Nat /\ Len(queue) \in Nat
  BY LenProperties DEF TypeOK
<1>3. CASE UNCHANGED <<queue, taken>>
  BY <1>1, <1>2, <1>3 DEF TypeOK, QueueInOrder, NothingLostBeforeClose
<1>4. CASE /\ source \in {"host", "transport"} /\ Len(queue) < Capacity
           /\ queue' = Append(queue, taken + 1) /\ taken' = taken + 1
  <2>1. /\ queue' \in Seq(Nat \cup {Stop})
        /\ Len(queue') = Len(queue) + 1
        /\ DOMAIN queue = 1..Len(queue) /\ DOMAIN queue' = 1..(Len(queue) + 1)
        /\ \A i \in 1..Len(queue) : queue'[i] = queue[i]
        /\ queue'[Len(queue) + 1] = taken + 1
    BY <1>2, <1>4, Queued
  <2>2. CASE sealed = Open
    BY <1>1, <1>2, <1>4, <2>1, <2>2 DEF QueueInOrder, NothingLostBeforeClose
  <2>3. CASE sealed # Open
    BY <1>1, <1>2, <1>4, <2>1, <2>3 DEF QueueInOrder, NothingLostBeforeClose, TypeOK
  <2> QED
    BY <1>2, <1>4, <2>1, <2>2, <2>3
<1> QED
  BY <1>3, <1>4 DEF Capture

\* Queueing the sentinel seals the records taken so far.
LEMMA StopInOrder ==
  ASSUME HandlerInv, NEW t \in Thread, NEW next \in {"run", "done"},
         PutStop(t, next), UNCHANGED <<worker, item, taken, reported>>
  PROVE  /\ queue' \in Seq(Nat \cup {Stop}) /\ Len(queue') <= Capacity
         /\ host' \in [Thread -> {"run", "join", "done"}]
         /\ sealed' \in Nat \cup {Open}
         /\ QueueInOrder' /\ NothingLostBeforeClose'
         /\ sealed' = sealed \/ (sealed = Open /\ sealed' = taken)
<1> USE HandlerAssumption DEF HandlerInv
<1>1. Begun' = Begun /\ Begun \in Nat
  BY DEF Begun, TypeOK
<1>2. queue \in Seq(Nat \cup {Stop}) /\ taken \in Nat /\ Len(queue) \in Nat
  BY LenProperties DEF TypeOK
<1>3. CASE ~(Len(queue) < Capacity)
  <2>1. host' = [host EXCEPT ![t] = next] /\ UNCHANGED <<queue, sealed>>
    BY <1>3 DEF PutStop
  <2>2. host' \in [Thread -> {"run", "join", "done"}]
    BY <2>1 DEF TypeOK
  <2>3. QueueInOrder' /\ NothingLostBeforeClose'
    BY <1>1, <2>1 DEF QueueInOrder, NothingLostBeforeClose
  <2> QED
    BY <2>1, <2>2, <2>3 DEF TypeOK
<1>4. CASE Len(queue) < Capacity
  <2>1. /\ queue' = Append(queue, Stop)
        /\ sealed' = IF sealed = Open THEN taken ELSE sealed
        /\ host' = [host EXCEPT ![t] = "join"]
    BY <1>4 DEF PutStop
  <2>2. /\ queue' \in Seq(Nat \cup {Stop})
        /\ Len(queue') = Len(queue) + 1
        /\ DOMAIN queue = 1..Len(queue) /\ DOMAIN queue' = 1..(Len(queue) + 1)
        /\ \A i \in 1..Len(queue) : queue'[i] = queue[i]
        /\ queue'[Len(queue) + 1] = Stop
    BY <1>2, <2>1, Queued
  <2>3. QueueInOrder' /\ NothingLostBeforeClose'
    <3>1. CASE sealed = Open
      <4>1. sealed' = taken /\ sealed' # Open /\ taken = Begun + Len(queue)
        BY <1>2, <2>1, <3>1 DEF QueueInOrder
      <4>2. sealed' - Begun' + 1 = Len(queue) + 1
        BY <1>1, <1>2, <4>1
      <4>3. \A i \in 1..(sealed' - Begun') : queue'[i] = Begun' + i
        BY <1>1, <1>2, <2>2, <3>1, <4>1, <4>2 DEF QueueInOrder
      <4> QED
        BY <1>1, <1>2, <2>2, <3>1, <4>1, <4>2, <4>3 DEF QueueInOrder, NothingLostBeforeClose
    <3>2. CASE sealed # Open
      <4>1. sealed' = sealed /\ sealed \in Nat
        BY <2>1, <3>2 DEF TypeOK
      <4>2. CASE worker = "exited"
        BY <1>1, <3>2, <4>1, <4>2 DEF QueueInOrder, NothingLostBeforeClose
      <4>3. CASE worker # "exited"
        BY <1>1, <1>2, <2>2, <3>2, <4>1, <4>3 DEF QueueInOrder, NothingLostBeforeClose
      <4> QED
        BY <4>2, <4>3
    <3> QED
      BY <3>1, <3>2
  <2>4. sealed' = sealed \/ (sealed = Open /\ sealed' = taken)
    BY <2>1
  <2>5. host' \in [Thread -> {"run", "join", "done"}] /\ sealed' \in Nat \cup {Open}
    BY <1>2, <2>1 DEF TypeOK
  <2> QED
    BY <1>2, <1>4, <2>1, <2>2, <2>3, <2>4, <2>5
<1> QED
  BY <1>3, <1>4

\* The worker takes the next record in order, or the sentinel when every
\* record before it is reported.
LEMMA GetInOrder ==
  ASSUME HandlerInv, Get
  PROVE  /\ HandlerInv'
         /\ UNCHANGED <<taken, reported, sealed>>
<1> USE HandlerAssumption DEF HandlerInv
<1>1. /\ queue \in Seq(Nat \cup {Stop}) /\ queue # <<>> /\ worker = "get"
      /\ queue' = Tail(queue) /\ Begun = reported
      /\ UNCHANGED <<lock, echo, host, closes, logged, taken, reported, sealed>>
  BY DEF Get, TypeOK, Begun
<1>2. /\ Tail(queue) \in Seq(Nat \cup {Stop}) /\ Head(queue) \in Nat \cup {Stop}
      /\ Head(queue) = queue[1]
      /\ Len(Tail(queue)) = Len(queue) - 1 /\ Len(queue) \in Nat \ {0}
      /\ DOMAIN queue = 1..Len(queue) /\ DOMAIN Tail(queue) = 1..(Len(queue) - 1)
      /\ \A i \in 1..(Len(queue) - 1) : Tail(queue)[i] = queue[i + 1]
  BY <1>1, Taken
<1>3. CASE Head(queue) = Stop
  <2>1. worker' = "exited" /\ item' = item
    BY <1>3 DEF Get
  <2>2. sealed # Open /\ sealed = reported
    BY <1>1, <1>2, <1>3 DEF QueueInOrder, TypeOK
  <2>3. TypeOK'
    BY <1>1, <1>2, <2>1 DEF TypeOK
  <2> QED
    BY <1>1, <2>1, <2>2, <2>3
    DEF QueueInOrder, NothingLostBeforeClose, Counted, TypeOK
<1>4. CASE Head(queue) # Stop
  <2>1. worker' = "report" /\ item' = Head(queue) /\ Begun' = reported + 1
    BY <1>1, <1>4 DEF Get, Begun
  <2>2. TypeOK'
    BY <1>1, <1>2, <1>4, <2>1 DEF TypeOK
  <2>3. CASE sealed = Open
    <3>1. QueueInOrder'
      BY <1>1, <1>2, <2>1, <2>3 DEF QueueInOrder, TypeOK
    <3> QED
      BY <1>1, <2>1, <2>2, <3>1 DEF NothingLostBeforeClose, Counted
  <2>4. CASE sealed # Open
    <3>1. sealed \in Nat /\ reported \in Nat /\ sealed # reported /\ item' = reported + 1
      BY <1>1, <1>2, <1>4, <2>1, <2>4 DEF QueueInOrder, TypeOK
    <3>2. QueueInOrder'
      BY <1>1, <1>2, <1>4, <2>1, <2>4, <3>1 DEF QueueInOrder, TypeOK
    <3> QED
      BY <1>1, <2>1, <2>2, <3>2 DEF NothingLostBeforeClose, Counted
  <2> QED
    BY <1>1, <2>3, <2>4
<1> QED
  BY <1>3, <1>4

\* A finished report is the next one in order.
LEMMA DoneInOrder ==
  ASSUME HandlerInv, ReportDone
  PROVE  /\ HandlerInv'
         /\ reported' = reported + 1 /\ UNCHANGED <<taken, sealed>>
         /\ reported < (IF sealed = Open THEN taken ELSE sealed)
<1> USE HandlerAssumption DEF HandlerInv
<1>1. /\ worker = "report" /\ worker' = "get" /\ reported' = item
      /\ UNCHANGED <<queue, lock, item, echo, host, closes, logged, taken, sealed>>
  BY DEF ReportDone
<1>2. item = reported + 1 /\ Begun = reported + 1 /\ Begun' = reported + 1 /\ reported \in Nat
  BY <1>1 DEF QueueInOrder, Begun, TypeOK
<1>3. Len(queue) \in Nat
  BY LenProperties DEF TypeOK
<1>4. reported < (IF sealed = Open THEN taken ELSE sealed)
  BY <1>1, <1>2, <1>3 DEF QueueInOrder, TypeOK
<1>5. HandlerInv'
  BY <1>1, <1>2 DEF TypeOK, QueueInOrder, NothingLostBeforeClose, Counted
<1> QED
  BY <1>1, <1>2, <1>4, <1>5

\* What a step does to the three counters of LogPromise.
PromiseStep ==
  \/ UNCHANGED <<taken, reported, sealed>>
  \/ taken' = taken + 1 /\ UNCHANGED <<reported, sealed>>
  \/ sealed = Open /\ sealed' = taken /\ UNCHANGED <<taken, reported>>
  \/ /\ reported < (IF sealed = Open THEN taken ELSE sealed)
     /\ reported' = reported + 1 /\ UNCHANGED <<taken, sealed>>

\* Every step keeps the invariant and is a step of LogPromise or a stutter.
LEMMA NextHandler ==
  ASSUME HandlerInv, [Next]_vars
  PROVE  HandlerInv' /\ PromiseStep
<1> USE HandlerAssumption DEF HandlerInv, PromiseStep
<1>1. CASE Get
  BY <1>1, GetInOrder
<1>2. CASE ReportDone
  BY <1>2, DoneInOrder
<1>3. CASE WorkerLogs
  <2>1. /\ worker = "report" /\ worker' = "emit" /\ echo' \in Echo
        /\ logged' = (IF echo' = "transport" THEN logged + 1 ELSE logged)
        /\ UNCHANGED <<queue, lock, item, host, closes, taken, reported, sealed>>
    BY <1>3 DEF WorkerLogs
  <2>2. Begun' = Begun
    BY <2>1 DEF Begun
  <2> QED
    BY <2>1, <2>2 DEF TypeOK, QueueInOrder, NothingLostBeforeClose, Counted
<1>4. CASE WorkerEmits
  <2>1. /\ Capture(echo) /\ worker = "emit" /\ worker' = "report"
        /\ UNCHANGED <<lock, item, echo, host, closes, logged, reported, sealed>>
    BY <1>4 DEF WorkerEmits
  <2>2. /\ queue' \in Seq(Nat \cup {Stop}) /\ Len(queue') <= Capacity /\ taken' \in Nat
        /\ taken' = taken \/ (taken' = taken + 1 /\ echo \in {"host", "transport"})
        /\ QueueInOrder' /\ NothingLostBeforeClose'
    BY <2>1, CaptureInOrder
  <2>3. Counted'
    <3>1. taken \in Nat /\ logged \in Nat /\ echo # "host"
      BY DEF TypeOK, Echo
    <3>2. taken + (IF echo = "transport" THEN 1 ELSE 0) <= logged
      BY <2>1 DEF Counted
    <3>3. taken' <= logged
      BY <2>2, <3>1, <3>2
    <3>4. logged' = logged /\ worker' # "emit"
      BY <2>1
    <3> QED
      BY <2>2, <3>3, <3>4 DEF Counted
  <2> QED
    BY <2>1, <2>2, <2>3 DEF TypeOK
<1>5. CASE \E t \in Thread : HostLogs(t)
  <2>1. PICK source \in {"host", "filtered"} :
          /\ Capture(source) /\ logged' = logged + 1
          /\ UNCHANGED <<lock, worker, item, echo, host, closes, reported, sealed>>
    BY <1>5 DEF HostLogs, workerVars
  <2>2. /\ queue' \in Seq(Nat \cup {Stop}) /\ Len(queue') <= Capacity /\ taken' \in Nat
        /\ taken' = taken \/ taken' = taken + 1
        /\ QueueInOrder' /\ NothingLostBeforeClose'
    BY <2>1, CaptureInOrder
  <2>3. Counted'
    <3> DEFINE due == IF worker = "emit" /\ echo = "transport" THEN 1 ELSE 0
    <3>1. taken \in Nat /\ logged \in Nat /\ due \in Nat
      BY DEF TypeOK
    <3>2. taken + due <= logged
      BY DEF Counted
    <3> HIDE DEF due
    <3>3. taken' = taken \/ taken' = taken + 1
      BY <2>2, Zenon
    <3>4. taken' + due <= logged + 1
      BY <3>1, <3>2, <3>3
    <3> QED
      BY <2>1, <3>4 DEF Counted, due
  <2> QED
    BY <2>1, <2>2, <2>3 DEF TypeOK
<1>6. CASE \E t \in Thread : Shutdown(t)
  <2>1. PICK t \in Thread :
          /\ PutStop(t, "run") /\ closes' = closes + 1
          /\ UNCHANGED <<lock, worker, item, echo, logged, taken, reported>>
    BY <1>6 DEF Shutdown, workerVars
  <2>2. /\ queue' \in Seq(Nat \cup {Stop}) /\ Len(queue') <= Capacity
        /\ host' \in [Thread -> {"run", "join", "done"}]
        /\ sealed' \in Nat \cup {Open}
        /\ QueueInOrder' /\ NothingLostBeforeClose'
        /\ sealed' = sealed \/ (sealed = Open /\ sealed' = taken)
    BY <2>1, StopInOrder
  <2> QED
    BY <2>1, <2>2 DEF TypeOK, Counted
<1>7. CASE CloseAtExit
  <2>1. /\ PutStop(Main, "done") /\ lock' \in {Main, Nobody}
        /\ UNCHANGED <<worker, item, echo, closes, logged, taken, reported>>
    BY <1>7 DEF CloseAtExit, workerVars
  <2>2. /\ queue' \in Seq(Nat \cup {Stop}) /\ Len(queue') <= Capacity
        /\ host' \in [Thread -> {"run", "join", "done"}]
        /\ sealed' \in Nat \cup {Open}
        /\ QueueInOrder' /\ NothingLostBeforeClose'
        /\ sealed' = sealed \/ (sealed = Open /\ sealed' = taken)
    BY <2>1, StopInOrder
  <2> QED
    BY <2>1, <2>2 DEF TypeOK, Counted
<1>8. CASE \E t \in Thread : JoinReturns(t)
  <2>1. PICK t \in Thread :
          /\ host' = [host EXCEPT ![t] = IF lock = t THEN "done" ELSE "run"]
          /\ lock' = (IF lock = t THEN Nobody ELSE lock)
          /\ UNCHANGED <<queue, worker, item, echo, closes, logged, taken, reported, sealed>>
    BY <1>8 DEF JoinReturns, workerVars
  <2>2. host' \in [Thread -> {"run", "join", "done"}] /\ lock' \in {Nobody, Main}
    BY <2>1 DEF TypeOK
  <2> QED
    BY <2>1, <2>2 DEF TypeOK, QueueInOrder, Begun, NothingLostBeforeClose, Counted
<1>9. CASE UNCHANGED vars
  BY <1>9 DEF vars, TypeOK, QueueInOrder, Begun, NothingLostBeforeClose, Counted
<1> QED
  BY <1>1, <1>2, <1>3, <1>4, <1>5, <1>6, <1>7, <1>8, <1>9 DEF Next, WorkerStep, Gone

\* The inductive invariant holds in every run.
THEOREM HandlerInvariant == Spec => []HandlerInv
<1>1. HandlerInv /\ [Next]_vars => HandlerInv'
  BY NextHandler
<1> QED
  BY InitHandler, <1>1, PTL DEF Spec

\* Every record the handler holds is one it took, and nobody but the thread
\* that closes it ever waits for the worker.
THEOREM TypeCorrect == Spec => []TypeOK
<1>1. HandlerInv => TypeOK
  BY DEF HandlerInv
<1> QED
  BY HandlerInvariant, <1>1, PTL

\* However many threads log, close twice or time out: the worker never ends
\* before it reported every record taken before the first shutdown().
THEOREM CloseLosesNothing == Spec => []NothingLostBeforeClose
<1>1. HandlerInv => NothingLostBeforeClose
  BY DEF HandlerInv
<1> QED
  BY HandlerInvariant, <1>1, PTL

\* A report never begets another through flow-doctor's own log lines or those
\* of its LLM call, however much it logs.
THEOREM StormDoesNotFeedItself == Spec => []NoFeedback
<1>1. HandlerInv => NoFeedback
  BY DEF HandlerInv, Counted, NoFeedback, TypeOK
<1> QED
  BY HandlerInvariant, <1>1, PTL

\* FlowDoctorHandler implements LogPromise.
THEOREM HandlerKeepsPromise == Spec => KeepsPromise
<1>1. Init => Promise!LInit
  BY DEF Init, Promise!LInit
<1>2. HandlerInv /\ [Next]_vars => [Promise!LNext]_(Promise!lvars)
  <2> SUFFICES ASSUME HandlerInv, [Next]_vars
               PROVE  Promise!LNext \/ UNCHANGED Promise!lvars
    OBVIOUS
  <2>1. PromiseStep
    BY NextHandler
  <2> QED
    BY <2>1 DEF PromiseStep, Promise!LNext, Promise!Take, Promise!ReportNext,
                Promise!Seal, Promise!End, Promise!lvars
<1> QED
  BY <1>1, <1>2, HandlerInvariant, PTL DEF Spec, KeepsPromise, Promise!LSpec
=============================================================================
