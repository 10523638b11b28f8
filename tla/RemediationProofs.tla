-------------------------- MODULE RemediationProofs --------------------------
(***************************************************************************)
(* What Remediation promises, for every number of processes and threads,   *)
(* every set of failures, every limit and every number of faults.          *)
(*                                                                         *)
(* The arguments count: a remediation that reached a machine is matched    *)
(* with its row of the audit trail, with the thread that is about to write *)
(* it, or with the fault that kept it from being written.                  *)
(***************************************************************************)
EXTENDS Remediation, FiniteSetTheorems, TLAPS

(***************************************************************************)
(* Numbers and counting                                                    *)
(***************************************************************************)

LEMMA Bounds ==
  /\ DayLen \in Nat /\ DayLen > 0 /\ ZoneOffset \in Int
  /\ MaxPerDay \in Nat /\ MaxPerFailure \in Nat /\ DryRun \in BOOLEAN
  /\ Cardinality(Thread) \in Nat
BY RemediationAssumption, FS_CardinalityType

LEMMA DivMonotone ==
  ASSUME NEW a \in Int, NEW b \in Int, NEW n \in Nat, n > 0, a <= b
  PROVE  /\ a \div n \in Int /\ b \div n \in Int
         /\ a \div n <= b \div n
         /\ (a \div n) * n <= (b \div n) * n
<1> DEFINE q == a \div n
           r == b \div n
<1>1. /\ q \in Int /\ r \in Int
      /\ q * n <= a /\ b < (r + 1) * n
  BY SMT
<1> HIDE DEF q, r
<1>2. q * n < (r + 1) * n
  BY <1>1
<1>3. q < r + 1
  <2> SUFFICES ASSUME q >= r + 1 PROVE FALSE
    BY <1>1
  <2>1. q * n >= (r + 1) * n
    BY <1>1, SMT
  <2> QED
    BY <1>1, <1>2, <2>1
<1>4. q <= r
  BY <1>1, <1>3
<1>5. q * n <= r * n
  BY <1>1, <1>4, SMT
<1> QED
  BY <1>1, <1>4, <1>5 DEF q, r

\* Every set of natural numbers that is not empty has a least element.
LEMMA Least ==
  ASSUME NEW T, T \subseteq Nat, T # {}
  PROVE  \E x \in T : \A y \in T : x <= y
<1> DEFINE D == {0..x : x \in T}
           R == StrictSubsetOrdering(Nat)
           S == FiniteSubsetsOf(Nat)
<1>1. D \subseteq S
  <2> SUFFICES ASSUME NEW x \in T PROVE (0..x) \in S
    BY Zenon
  <2>1. x \in Nat /\ (0..x) \subseteq Nat
    OBVIOUS
  <2> QED
    BY <2>1, FS_Interval DEF FiniteSubsetsOf
<1>2. D # {}
  OBVIOUS
<1>3. IsWellFoundedOn(R, S)
  BY FS_StrictSubsetOrderingWellFounded
<1> HIDE DEF R, S
<1>4. PICK d \in D : \A e \in D : ~ (<<e, d>> \in R)
  BY <1>1, <1>2, <1>3, WFMin
<1>5. PICK x \in T : d = 0..x
  OBVIOUS
<1>6. ASSUME NEW y \in T, y < x PROVE FALSE
  <2>1. (0..y) \in D
    OBVIOUS
  <2>2. /\ (0..y) \subseteq (0..x) /\ (0..y) # (0..x)
        /\ (0..y) \subseteq Nat /\ (0..x) \subseteq Nat
    <3>1. x \in Nat /\ y \in Nat
      OBVIOUS
    <3>2. x \in 0..x /\ x \notin 0..y
      BY <3>1, <1>6
    <3> QED
      BY <3>1, <3>2, <1>6
  <2>3. <<0..y, 0..x>> \in R
    BY <2>2 DEF R, StrictSubsetOrdering
  <2> QED
    BY <2>1, <2>3, <1>4, <1>5
<1> QED
  BY <1>6

\* The places of s that hold an element of T, and how Append adds to them.
Hits(s, T) == {i \in DOMAIN s : s[i] \in T}

LEMMA HitsFinite ==
  ASSUME NEW S, NEW s \in Seq(S), NEW T
  PROVE  IsFiniteSet(Hits(s, T)) /\ Cardinality(Hits(s, T)) \in Nat
<1>1. DOMAIN s = 1..Len(s) /\ Len(s) \in Int
  OBVIOUS
<1>2. IsFiniteSet(1..Len(s))
  BY <1>1, FS_Interval
<1>3. Hits(s, T) \in SUBSET (1..Len(s))
  BY <1>1 DEF Hits
<1>4. IsFiniteSet(Hits(s, T))
  BY <1>2, <1>3, FS_Subset
<1> QED
  BY <1>4, FS_CardinalityType

LEMMA HitsAppend ==
  ASSUME NEW S, NEW s \in Seq(S), NEW e \in S, NEW T
  PROVE  Cardinality(Hits(Append(s, e), T))
           = Cardinality(Hits(s, T)) + (IF e \in T THEN 1 ELSE 0)
<1> DEFINE a == Append(s, e)
           n == Len(s) + 1
<1>1. /\ DOMAIN a = 1..n /\ DOMAIN s = 1..(n - 1) /\ n \in Nat /\ n > 0
      /\ \A i \in 1..(n - 1) : a[i] = s[i]
      /\ a[n] = e
  OBVIOUS
<1> HIDE DEF a, n
<1>2. IsFiniteSet(Hits(s, T)) /\ Cardinality(Hits(s, T)) \in Nat
  BY HitsFinite
<1>3. n \notin Hits(s, T)
  BY <1>1 DEF Hits
<1>4. CASE e \in T
  <2>1. Hits(a, T) = Hits(s, T) \cup {n}
    <3>1. 1..n = (1..(n - 1)) \cup {n}
      BY <1>1
    <3>2. ASSUME NEW i PROVE i \in Hits(a, T) <=> i \in Hits(s, T) \cup {n}
      BY <1>1, <1>4, <3>1 DEF Hits
    <3> QED
      BY <3>2
  <2> QED
    BY <2>1, <1>2, <1>3, <1>4, FS_AddElement DEF a
<1>5. CASE e \notin T
  <2>1. Hits(a, T) = Hits(s, T)
    BY <1>1, <1>5 DEF Hits
  <2> QED
    BY <2>1, <1>2, <1>5 DEF a
<1> QED
  BY <1>4, <1>5

LEMMA HitsSubset ==
  ASSUME NEW S, NEW s \in Seq(S), NEW T, NEW U, S \cap T \subseteq U
  PROVE  Cardinality(Hits(s, T)) <= Cardinality(Hits(s, U))
<1>1. Hits(s, T) \subseteq Hits(s, U)
  <2>1. \A i \in DOMAIN s : s[i] \in S
    OBVIOUS
  <2> QED
    BY <2>1 DEF Hits
<1> QED
  BY <1>1, HitsFinite, FS_Subset

\* The threads at one of the places in Q, and how a move changes them.
Standing(places, Q) == {t \in Thread : places[t] \in Q}

LEMMA StandingFinite ==
  ASSUME NEW places, NEW Q
  PROVE  /\ IsFiniteSet(Standing(places, Q))
         /\ Cardinality(Standing(places, Q)) \in Nat
         /\ Cardinality(Standing(places, Q)) <= Cardinality(Thread)
<1>1. Standing(places, Q) \in SUBSET Thread
  BY DEF Standing
<1> QED
  BY <1>1, RemediationAssumption, FS_Subset, FS_CardinalityType

LEMMA StandingMove ==
  ASSUME NEW places, NEW moved, NEW t \in Thread, NEW Q,
         \A u \in Thread \ {t} : moved[u] = places[u]
  PROVE  Cardinality(Standing(moved, Q))
           = Cardinality(Standing(places, Q))
               + (IF moved[t] \in Q THEN 1 ELSE 0) - (IF places[t] \in Q THEN 1 ELSE 0)
<1> DEFINE A == Standing(places, Q)
           B == Standing(moved, Q)
<1>1. IsFiniteSet(A) /\ Cardinality(A) \in Nat
  BY StandingFinite
<1>2. /\ t \in A <=> places[t] \in Q
      /\ t \in B <=> moved[t] \in Q
      /\ B \ {t} = A \ {t}
  BY DEF Standing
<1>3. IsFiniteSet(B) /\ Cardinality(B) \in Nat
  BY StandingFinite
<1> HIDE DEF A, B
<1>4. /\ Cardinality(A \ {t}) = Cardinality(A) - (IF places[t] \in Q THEN 1 ELSE 0)
      /\ Cardinality(B \ {t}) = Cardinality(B) - (IF moved[t] \in Q THEN 1 ELSE 0)
  <2>1. /\ Cardinality(A \ {t}) = IF t \in A THEN Cardinality(A) - 1 ELSE Cardinality(A)
        /\ Cardinality(B \ {t}) = IF t \in B THEN Cardinality(B) - 1 ELSE Cardinality(B)
    BY <1>1, <1>3, FS_RemoveElement
  <2> QED
    BY <2>1, <1>1, <1>2, <1>3
<1>5. Cardinality(B) = Cardinality(A) + (IF moved[t] \in Q THEN 1 ELSE 0)
                         - (IF places[t] \in Q THEN 1 ELSE 0)
  <2>1. Cardinality(A \ {t}) = Cardinality(B \ {t})
    BY <1>2
  <2> QED
    BY <2>1, <1>1, <1>3, <1>4
<1> QED
  BY <1>5 DEF A, B

(***************************************************************************)
(* The invariant                                                           *)
(***************************************************************************)

RowType == [type : {"auto_remediate", "generate_fix_pr", "escalate"}, at : Int]
EffectType == [proc : Process, failure : Failure, at : Int, since : Int]

\* The remediations and their rows, from the moment w on.
EffectsFrom(w) == Hits(effects, {e \in EffectType : e.at >= w})
AutosFrom(w) == Hits(rows, {r \in RowType : r.type = "auto_remediate" /\ r.at >= w})

\* What reached a machine on a decision that process p took on day d.
Done(p, f, d) ==
  Hits(effects, {e \in EffectType : e.proc = p /\ e.failure = f /\ Day(e.since) = d})

\* Past the daily limit, with nothing sent yet.
ClearedAt == {"failure", "grant", "dispatch"}
Cleared == Standing(pc, ClearedAt)
Auditors == Standing(pc, {"audit"})

\* The process with the most threads, and how many it has: what one fault
\* can cost.
Widest == CHOOSE p \in Process :
            \A q \in Process : Cardinality(ThreadsOf(q)) <= Cardinality(ThreadsOf(p))
Most == Cardinality(ThreadsOf(Widest))

\* Where the daily limit begins to count.
Midnight == ((clock + ZoneOffset) \div DayLen) * DayLen

\* Nothing is later than the clock.
TimeInv ==
  /\ clock >= DayLen
  /\ \A i \in DOMAIN effects : effects[i].at >= DayLen /\ effects[i].at <= clock

\* From every moment on, what reached a machine is audited, about to be, or
\* paid for with a fault.
AuditInv ==
  \A w \in Int : Cardinality(EffectsFrom(w))
                   <= Cardinality(AutosFrom(w)) + Cardinality(Auditors) + faults * Most

\* The threads that are past the limit are counted with what was done today.
CapInv ==
  Backend = "sqlite" =>
    Cardinality(EffectsFrom(Midnight)) + Cardinality(Cleared)
      <= MaxPerDay + Cardinality(Thread) - 1 + faults * Most

\* Thread t alone decides for process p: the gate's day is the day of its
\* decision, and the gate's counts cover what was done on that day.
KeyOf(t) == case[t].what.failure
DecisionInv(p, t) ==
  /\ gate[p].day <= Day(clock)
  /\ pc[t] # "idle" => Day(case[t].since) = gate[p].day
  /\ \A f \in Failure : gate[p].failures[f] <= MaxPerFailure
  /\ pc[t] = "grant" => /\ case[t].seen = gate[p].failures[KeyOf(t)]
                        /\ case[t].seen < MaxPerFailure
DoneInv(p, t) ==
  /\ \A i \in DOMAIN effects : effects[i].proc = p => Day(effects[i].since) <= gate[p].day
  /\ \A f \in Failure :
       Cardinality(Done(p, f, gate[p].day))
           + (IF pc[t] = "dispatch" /\ KeyOf(t) = f THEN 1 ELSE 0)
         <= gate[p].failures[f]
  /\ \A f \in Failure, d \in Int : Cardinality(Done(p, f, d)) <= MaxPerFailure
GateInv(p, t) == DecisionInv(p, t) /\ DoneInv(p, t)

Alone(p, t) == ThreadsOf(p) = {t}

FailureInv ==
  faults = 0 => \A p \in Process, t \in Thread : Alone(p, t) => GateInv(p, t)

RemediationInv == TypeOK /\ TimeInv /\ AuditInv /\ CapInv /\ FailureInv

(***************************************************************************)
(* Types                                                                   *)
(***************************************************************************)

GateType == [day : Int, daily : Nat, failures : [Failure -> Nat]]

LEMMA DayInt == ASSUME NEW a \in Int PROVE Day(a) \in Int
BY Bounds, DivMonotone DEF Day

LEMMA GateTypes ==
  /\ FreshGate \in GateType
  /\ \A g \in GateType : clock \in Int => Reset(g) \in GateType
<1>1. FreshGate \in GateType
  BY DEF FreshGate, GateType
<1>2. ASSUME NEW g \in GateType, clock \in Int PROVE Reset(g) \in GateType
  <2>1. Day(clock) \in Int
    BY <1>2, DayInt
  <2> QED
    BY <1>1, <2>1 DEF Reset, GateType
<1> QED
  BY <1>1, <1>2

LEMMA NoCaseType == NoCase \in [what : Case, since : Int, seen : Nat]
<1>1. (CHOOSE c \in Case : TRUE) \in Case
  BY RemediationAssumption
<1> QED
  BY <1>1 DEF NoCase

LEMMA RouteType == ASSUME NEW c \in Case PROVE Route(c) \in {"idle", "count", "recordPr", "recordEscalation"}
BY RemediationAssumption DEF Route, CaseType

\* What one decision of one thread does to the types.
LEMMA MoveType ==
  ASSUME TypeOK, NEW t \in Thread, NEW q \in PC, Move(t, q)
  PROVE  pc' \in [Thread -> PC]
BY DEF Move, TypeOK

LEMMA ProcessOf == ASSUME NEW t \in Thread PROVE ProcOf[t] \in Process
BY RemediationAssumption

LEMMA CaseFields == ASSUME NEW c \in Case PROVE c.failure \in Failure
BY RemediationAssumption DEF CaseType

LEMMA InitTyped == Init => TypeOK
BY Bounds, GateTypes, NoCaseType DEF Init, TypeOK, PC, GateType

LEMMA StepTyped == TypeOK /\ [Next]_vars => TypeOK'
<1> SUFFICES ASSUME TypeOK, [Next]_vars PROVE TypeOK'
  OBVIOUS
<1> USE DEF GateType
<1>1. ASSUME NEW t \in Thread, NEW c \in Case, Decide(t, c) PROVE TypeOK'
  <2> DEFINE k == IF Route(c) = "idle" THEN NoCase ELSE [what |-> c, since |-> clock, seen |-> 0]
  <2>1. gate' \in [Process -> GateType]
    BY <1>1, ProcessOf, GateTypes DEF Decide, TypeOK
  <2>2. k \in [what : Case, since : Int, seen : Nat]
    BY NoCaseType DEF TypeOK
  <2>3. case' = [case EXCEPT ![t] = k]
    BY <1>1 DEF Decide
  <2> HIDE DEF k
  <2>4. case' \in [Thread -> [what : Case, since : Int, seen : Nat]]
    BY <2>2, <2>3 DEF TypeOK
  <2>5. pc' \in [Thread -> PC]
    BY <1>1, RouteType, MoveType DEF Decide, PC
  <2> QED
    BY <1>1, <2>1, <2>4, <2>5 DEF Decide, TypeOK
<1>2. ASSUME NEW t \in Thread, CheckDaily(t) \/ CheckDailyInMemory(t) PROVE TypeOK'
  <2>1. pc' \in [Thread -> PC]
    BY <1>2 DEF CheckDaily, CheckDailyInMemory, Move, PC, TypeOK
  <2> QED
    BY <1>2, <2>1 DEF CheckDaily, CheckDailyInMemory, TypeOK
<1>3. ASSUME NEW t \in Thread, CheckFailure(t) PROVE TypeOK'
  <2> DEFINE n == gate[ProcOf[t]].failures[case[t].what.failure]
  <2>1. n \in Nat
    BY ProcessOf, CaseFields DEF TypeOK
  <2>2. case' = [case EXCEPT ![t].seen = n]
    BY <1>3 DEF CheckFailure
  <2> HIDE DEF n
  <2>3. case' \in [Thread -> [what : Case, since : Int, seen : Nat]]
    BY <2>1, <2>2 DEF TypeOK
  <2>4. pc' \in [Thread -> PC]
    BY <1>3 DEF CheckFailure, Move, PC, TypeOK
  <2> QED
    BY <1>3, <2>3, <2>4 DEF CheckFailure, TypeOK
<1>4. ASSUME NEW t \in Thread, Grant(t) PROVE TypeOK'
  <2> DEFINE g == [gate[ProcOf[t]] EXCEPT !.daily = @ + 1,
                     !.failures[case[t].what.failure] = case[t].seen + 1]
  <2>1. g \in GateType
    <3>1. /\ gate[ProcOf[t]] \in [day : Int, daily : Nat, failures : [Failure -> Nat]]
          /\ case[t].what.failure \in Failure /\ case[t].seen + 1 \in Nat
      BY ProcessOf, CaseFields DEF TypeOK
    <3>2. gate[ProcOf[t]].daily + 1 \in Nat
      BY <3>1
    <3> QED
      BY <3>1, <3>2
  <2>2. gate' = [gate EXCEPT ![ProcOf[t]] = g]
    BY <1>4, ProcessOf DEF Grant, TypeOK
  <2> HIDE DEF g
  <2>3. gate' \in [Process -> GateType]
    BY <2>1, <2>2, ProcessOf DEF TypeOK
  <2>4. pc' \in [Thread -> PC]
    BY <1>4 DEF Grant, Move, PC, TypeOK
  <2> QED
    BY <1>4, <2>3, <2>4 DEF Grant, TypeOK
<1>5. ASSUME NEW t \in Thread, Dispatch(t) PROVE TypeOK'
  <2> DEFINE e == [proc |-> ProcOf[t], failure |-> case[t].what.failure,
                   at |-> clock, since |-> case[t].since]
  <2>1. e \in EffectType
    BY ProcessOf, CaseFields DEF TypeOK, EffectType
  <2>2. effects' = effects \/ effects' = Append(effects, e)
    BY <1>5, Zenon DEF Dispatch
  <2> HIDE DEF e
  <2>3. effects' \in Seq(EffectType)
    <3>1. effects \in Seq(EffectType)
      BY DEF TypeOK, EffectType
    <3> QED
      BY <2>1, <2>2, <3>1
  <2>4. pc' \in [Thread -> PC]
    BY <1>5 DEF Dispatch, Move, PC, TypeOK
  <2> QED
    BY <1>5, <2>3, <2>4 DEF Dispatch, TypeOK, EffectType
<1>6. ASSUME NEW t \in Thread, Finish(t)
      PROVE  /\ pc' \in [Thread -> PC]
             /\ case' \in [Thread -> [what : Case, since : Int, seen : Nat]]
  BY <1>6, NoCaseType DEF Finish, Move, PC, TypeOK
<1>7. ASSUME NEW t \in Thread, SaveRow(t) PROVE TypeOK'
  <2> DEFINE r == [type |-> RowOf(pc[t]), at |-> clock]
  <2>1. r \in RowType
    BY <1>7 DEF SaveRow, RowOf, RowType, TypeOK
  <2>2. rows' = Append(rows, r) /\ Finish(t)
    BY <1>7 DEF SaveRow
  <2> HIDE DEF r
  <2>3. rows' \in Seq(RowType)
    BY <2>1, <2>2 DEF TypeOK, RowType
  <2> QED
    BY <1>6, <1>7, <2>2, <2>3 DEF SaveRow, TypeOK, RowType
<1>8. ASSUME NEW t \in Thread, LoseRow(t) PROVE TypeOK'
  <2>1. Finish(t)
    BY <1>8 DEF LoseRow
  <2> QED
    BY <1>6, <1>8, <2>1 DEF LoseRow, TypeOK
<1>9. ASSUME NEW p \in Process, Restart(p) PROVE TypeOK'
  <2>1. gate' \in [Process -> GateType]
    BY <1>9, GateTypes DEF Restart, TypeOK
  <2>2. pc' \in [Thread -> PC]
    BY <1>9 DEF Restart, TypeOK, PC
  <2>3. case' \in [Thread -> [what : Case, since : Int, seen : Nat]]
    BY <1>9, NoCaseType DEF Restart, TypeOK
  <2> QED
    BY <1>9, <2>1, <2>2, <2>3 DEF Restart, TypeOK
<1>10. ASSUME Tick \/ Rest \/ UNCHANGED vars PROVE TypeOK'
  BY <1>10 DEF Tick, Rest, vars, TypeOK
<1> QED
  BY <1>1, <1>2, <1>3, <1>4, <1>5, <1>7, <1>8, <1>9, <1>10, Zenon DEF Next

\* TypeOK: the variables keep their types.
THEOREM TypeCorrect == Spec => []TypeOK
BY InitTyped, StepTyped, PTL DEF Spec

(***************************************************************************)
(* What each step does to the counts                                       *)
(***************************************************************************)

LEMMA MostThreads ==
  /\ Widest \in Process
  /\ Most \in Nat /\ Most >= 1
  /\ \A p \in Process : /\ IsFiniteSet(ThreadsOf(p))
                        /\ Cardinality(ThreadsOf(p)) <= Most
<1> DEFINE N == Cardinality(Thread)
           size(p) == Cardinality(ThreadsOf(p))
           T == {N - size(p) : p \in Process}
<1>1. ASSUME NEW p \in Process
      PROVE  /\ IsFiniteSet(ThreadsOf(p))
             /\ size(p) \in Nat /\ size(p) <= N
  <2>1. ThreadsOf(p) \in SUBSET Thread
    BY DEF ThreadsOf
  <2> QED
    BY <2>1, RemediationAssumption, FS_Subset, FS_CardinalityType
<1>2. N \in Nat
  BY Bounds
<1>3. PICK u \in Thread : TRUE
  BY RemediationAssumption
<1>4. ProcOf[u] \in Process
  BY ProcessOf
<1> HIDE DEF N, size
<1>5. T \subseteq Nat /\ T # {}
  <2>1. ASSUME NEW p \in Process PROVE N - size(p) \in Nat
    BY <1>1, <1>2
  <2> QED
    BY <2>1, <1>4
<1>6. PICK x \in T : \A y \in T : x <= y
  BY <1>5, Least
<1>7. PICK p \in Process : x = N - size(p)
  OBVIOUS
<1>8. \A q \in Process : size(q) <= size(p)
  <2> SUFFICES ASSUME NEW q \in Process PROVE size(q) <= size(p)
    OBVIOUS
  <2>1. N - size(p) <= N - size(q)
    BY <1>6, <1>7
  <2> QED
    BY <2>1, <1>1, <1>2
<1>9. Widest \in Process /\ \A q \in Process : size(q) <= Most
  BY <1>8, Zenon DEF Widest, Most, size
<1>10. Most \in Nat
  BY <1>1, <1>9, Zenon DEF Most, size
<1>11. size(ProcOf[u]) >= 1
  <2>1. u \in ThreadsOf(ProcOf[u])
    BY DEF ThreadsOf
  <2>2. size(ProcOf[u]) # 0
    BY <2>1, <1>1, <1>4, FS_EmptySet DEF size
  <2> QED
    BY <2>2, <1>1, <1>4
<1> QED
  BY <1>1, <1>4, <1>9, <1>10, <1>11 DEF size

\* One more fault pays for the threads of one process.
LEMMA Paid ==
  ASSUME NEW f \in Nat
  PROVE  /\ f * Most \in Nat /\ (f + 1) * Most \in Nat
         /\ (f + 1) * Most = f * Most + Most
<1> DEFINE m == Most
<1>1. m \in Nat
  BY MostThreads
<1> HIDE DEF m
<1>2. f * m \in Nat /\ (f + 1) * m \in Nat /\ (f + 1) * m = f * m + m
  BY <1>1, SMT
<1> QED
  BY <1>2 DEF m

LEMMA Counts ==
  ASSUME TypeOK
  PROVE  /\ Cardinality(Auditors) \in Nat /\ Cardinality(Cleared) \in Nat
         /\ \A T : /\ Cardinality(Hits(effects, T)) \in Nat
                   /\ Cardinality(Hits(rows, T)) \in Nat
         /\ faults \in Nat
BY HitsFinite, StandingFinite DEF TypeOK, Auditors, Cleared

LEMMA CountMove ==
  ASSUME TypeOK, NEW t \in Thread, NEW q \in PC, Move(t, q)
  PROVE  /\ Cardinality(Auditors') = Cardinality(Auditors)
              + (IF q = "audit" THEN 1 ELSE 0) - (IF pc[t] = "audit" THEN 1 ELSE 0)
         /\ Cardinality(Cleared') = Cardinality(Cleared)
              + (IF q \in ClearedAt THEN 1 ELSE 0) - (IF pc[t] \in ClearedAt THEN 1 ELSE 0)
<1>1. pc \in [Thread -> PC] /\ pc' = [pc EXCEPT ![t] = q]
  BY DEF TypeOK, Move
<1>2. ASSUME NEW Q
      PROVE  Cardinality(Standing(pc', Q))
               = Cardinality(Standing(pc, Q))
                   + (IF q \in Q THEN 1 ELSE 0) - (IF pc[t] \in Q THEN 1 ELSE 0)
  <2>1. pc'[t] = q /\ \A u \in Thread \ {t} : pc'[u] = pc[u]
    BY <1>1
  <2>2. Cardinality(Standing(pc', Q))
          = Cardinality(Standing(pc, Q))
              + (IF pc'[t] \in Q THEN 1 ELSE 0) - (IF pc[t] \in Q THEN 1 ELSE 0)
    BY <2>1, StandingMove
  <2> QED
    BY <2>1, <2>2
<1>3. Cardinality(Standing(pc', {"audit"})) = Cardinality(Standing(pc, {"audit"}))
        + (IF q \in {"audit"} THEN 1 ELSE 0) - (IF pc[t] \in {"audit"} THEN 1 ELSE 0)
  BY <1>2
<1>4. (q \in {"audit"} <=> q = "audit") /\ (pc[t] \in {"audit"} <=> pc[t] = "audit")
  OBVIOUS
<1> QED
  BY <1>2, <1>3, <1>4 DEF Auditors, Cleared

\* A thread that stands at neither place leaves room for itself.
LEMMA RoomLeft ==
  ASSUME TypeOK, NEW t \in Thread, pc[t] = "count"
  PROVE  Cardinality(Auditors) + Cardinality(Cleared) + 1 <= Cardinality(Thread)
<1>1. /\ IsFiniteSet(Auditors) /\ Cardinality(Auditors) \in Nat
      /\ IsFiniteSet(Cleared) /\ Cardinality(Cleared) \in Nat
  BY StandingFinite DEF Auditors, Cleared
<1>2. Auditors \cap Cleared = {}
  BY DEF Auditors, Cleared, Standing, ClearedAt
<1>3. /\ IsFiniteSet(Auditors \cup Cleared)
      /\ Cardinality(Auditors \cup Cleared) = Cardinality(Auditors) + Cardinality(Cleared)
  <2>1. Cardinality(Auditors \cap Cleared) = 0
    BY <1>2, FS_EmptySet
  <2>2. /\ IsFiniteSet(Auditors \cup Cleared)
        /\ Cardinality(Auditors \cup Cleared)
             = Cardinality(Auditors) + Cardinality(Cleared) - Cardinality(Auditors \cap Cleared)
    BY <1>1, FS_Union
  <2> QED
    BY <2>1, <2>2, <1>1
<1>4. t \notin Auditors \cup Cleared
  BY DEF Auditors, Cleared, Standing, ClearedAt
<1>5. /\ IsFiniteSet((Auditors \cup Cleared) \cup {t})
      /\ Cardinality((Auditors \cup Cleared) \cup {t}) = Cardinality(Auditors) + Cardinality(Cleared) + 1
  BY <1>3, <1>4, FS_AddElement
<1>6. ((Auditors \cup Cleared) \cup {t}) \in SUBSET Thread
  BY DEF Auditors, Cleared, Standing
<1> QED
  BY <1>5, <1>6, FS_Subset, RemediationAssumption

\* An effect of this step, if there is one, is of the thread's decision.
LEMMA Sent ==
  ASSUME TypeOK, NEW t \in Thread, Dispatch(t)
  PROVE  \E e \in EffectType :
           /\ e = [proc |-> ProcOf[t], failure |-> case[t].what.failure,
                   at |-> clock, since |-> case[t].since]
           /\ effects' = effects \/ effects' = Append(effects, e)
           /\ effects \in Seq(EffectType)
<1> DEFINE e == [proc |-> ProcOf[t], failure |-> case[t].what.failure,
                 at |-> clock, since |-> case[t].since]
<1>1. e \in EffectType
  BY ProcessOf, CaseFields DEF TypeOK, EffectType
<1>2. effects' = effects \/ effects' = Append(effects, e)
  BY Zenon DEF Dispatch
<1>3. effects \in Seq(EffectType)
  BY DEF TypeOK, EffectType
<1> QED
  BY <1>1, <1>2, <1>3, Zenon

LEMMA SentCount ==
  ASSUME TypeOK, NEW t \in Thread, Dispatch(t), NEW T
  PROVE  Cardinality(Hits(effects', T)) <= Cardinality(Hits(effects, T)) + 1
<1>1. PICK e \in EffectType : /\ effects' = effects \/ effects' = Append(effects, e)
                              /\ effects \in Seq(EffectType)
  BY Sent, Zenon
<1>2. Cardinality(Hits(effects, T)) \in Nat
  BY Counts
<1>3. CASE effects' = effects
  BY <1>2, <1>3
<1>4. CASE effects' = Append(effects, e)
  BY <1>1, <1>2, <1>4, HitsAppend
<1> QED
  BY <1>1, <1>3, <1>4

\* The threads that lose their place when process p restarts are its own.
LEMMA RestartCount ==
  ASSUME TypeOK, NEW p \in Process, Restart(p)
  PROVE  /\ Cardinality(Auditors) <= Cardinality(Auditors') + Most
         /\ Cardinality(Cleared') <= Cardinality(Cleared)
         /\ Cardinality(Auditors') \in Nat /\ Cardinality(Cleared') \in Nat
<1>1. /\ IsFiniteSet(Auditors) /\ Cardinality(Auditors) \in Nat
      /\ IsFiniteSet(Cleared) /\ Cardinality(Cleared) \in Nat
      /\ IsFiniteSet(Auditors') /\ Cardinality(Auditors') \in Nat
      /\ Cardinality(Cleared') \in Nat
  BY StandingFinite DEF Auditors, Cleared
<1>2. /\ Auditors \subseteq Auditors' \cup ThreadsOf(p)
      /\ Cleared' \in SUBSET Cleared
  BY DEF Restart, Auditors, Cleared, Standing, ClearedAt, ThreadsOf
<1>3. /\ IsFiniteSet(ThreadsOf(p)) /\ Cardinality(ThreadsOf(p)) <= Most
      /\ Cardinality(ThreadsOf(p)) \in Nat /\ Most \in Nat
  BY MostThreads, FS_CardinalityType
<1>4. /\ IsFiniteSet(Auditors' \cup ThreadsOf(p))
      /\ Cardinality(Auditors' \cup ThreadsOf(p))
           = Cardinality(Auditors') + Cardinality(ThreadsOf(p))
               - Cardinality(Auditors' \cap ThreadsOf(p))
  BY <1>1, <1>3, FS_Union
<1>5. Cardinality(Auditors' \cap ThreadsOf(p)) \in Nat
  BY <1>1, FS_Intersection, FS_CardinalityType
<1>6. Cardinality(Auditors) <= Cardinality(Auditors' \cup ThreadsOf(p))
  BY <1>2, <1>4, FS_Subset
<1>7. Cardinality(Auditors' \cup ThreadsOf(p)) \in Nat
  BY <1>4, FS_CardinalityType
<1>8. Cardinality(Cleared') <= Cardinality(Cleared)
  BY <1>1, <1>2, FS_Subset
<1> QED
  BY <1>1, <1>3, <1>4, <1>5, <1>6, <1>7, <1>8

(***************************************************************************)
(* Each part of the invariant is kept                                      *)
(***************************************************************************)

LEMMA EffectTypes ==
  ASSUME TypeOK, NEW i \in DOMAIN effects
  PROVE  /\ effects[i] \in EffectType
         /\ effects[i].at \in Int /\ effects[i].since \in Int
<1>1. effects \in Seq(EffectType)
  BY DEF TypeOK, EffectType
<1>2. effects[i] \in EffectType
  BY <1>1
<1> QED
  BY <1>2 DEF EffectType

LEMMA StepTime == TypeOK /\ TimeInv /\ [Next]_vars => TimeInv'
<1> SUFFICES ASSUME TypeOK, TimeInv, [Next]_vars PROVE TimeInv'
  OBVIOUS
<1>1. clock \in Int /\ DayLen \in Int
  BY Bounds DEF TypeOK
<1>2. ASSUME clock' = clock \/ clock' = clock + 1, effects' = effects PROVE TimeInv'
  <2>2. \A i \in DOMAIN effects : effects[i].at \in Int
    BY EffectTypes
  <2> QED
    BY <1>1, <1>2, <2>2 DEF TimeInv
<1>3. ASSUME NEW t \in Thread, Dispatch(t) PROVE TimeInv'
  <2>1. PICK e \in EffectType :
           /\ e = [proc |-> ProcOf[t], failure |-> case[t].what.failure,
                   at |-> clock, since |-> case[t].since]
           /\ effects' = effects \/ effects' = Append(effects, e)
           /\ effects \in Seq(EffectType)
    BY <1>3, Sent, Zenon
  <2>2. clock' = clock
    BY <1>3 DEF Dispatch
  <2>3. e.at = clock
    BY <2>1
  <2>4. ASSUME effects' = Append(effects, e), NEW i \in DOMAIN effects'
        PROVE  effects'[i].at >= DayLen /\ effects'[i].at <= clock
    <3>1. effects'[i] = e \/ (i \in DOMAIN effects /\ effects'[i] = effects[i])
      BY <2>1, <2>4
    <3> QED
      BY <3>1, <2>3, <1>1 DEF TimeInv
  <2> QED
    BY <2>1, <2>2, <2>4, <1>2 DEF TimeInv
<1>4. CASE Tick
  BY <1>2, <1>4 DEF Tick
<1>5. CASE UNCHANGED <<clock, effects>>
  BY <1>2, <1>5
<1>6. UNCHANGED <<clock, effects>> \/ Tick \/ \E t \in Thread : Dispatch(t)
  BY DEF Next, vars, Decide, CheckDaily, CheckDailyInMemory, CheckFailure, Grant, SaveRow,
         LoseRow, Restart, Rest
<1> QED
  BY <1>3, <1>4, <1>5, <1>6

\* Moves away from every place where a row is due, or to none.
LEMMA MovesOf ==
  ASSUME TypeOK, NEW t \in Thread
  PROVE  /\ \A c \in Case : Decide(t, c) =>
              \E q \in PC \ (ClearedAt \cup {"audit"}) : pc[t] = "idle" /\ Move(t, q)
         /\ CheckDaily(t) \/ CheckDailyInMemory(t) =>
              \E q \in {"recordEscalation", "failure"} : pc[t] = "count" /\ Move(t, q)
         /\ CheckFailure(t) \/ Grant(t) =>
              \E q \in PC \ {"audit", "failure"} : pc[t] \in ClearedAt /\ Move(t, q)
         /\ Dispatch(t) => pc[t] = "dispatch" /\ Move(t, "audit")
         /\ SaveRow(t) \/ LoseRow(t) =>
              /\ Move(t, "idle")
              /\ pc[t] \in {"audit", "recordPr", "recordEscalation"}
<1>1. ASSUME NEW c \in Case, Decide(t, c)
      PROVE  \E q \in PC \ (ClearedAt \cup {"audit"}) : pc[t] = "idle" /\ Move(t, q)
  <2>1. Route(c) \in PC \ (ClearedAt \cup {"audit"})
    BY RouteType DEF PC, ClearedAt
  <2> QED
    BY <1>1, <2>1, Zenon DEF Decide
<1>2. ASSUME CheckDaily(t) \/ CheckDailyInMemory(t)
      PROVE  \E q \in {"recordEscalation", "failure"} : pc[t] = "count" /\ Move(t, q)
  BY <1>2, Zenon DEF CheckDaily, CheckDailyInMemory
<1>3. ASSUME CheckFailure(t)
      PROVE  \E q \in PC \ {"audit", "failure"} : pc[t] \in ClearedAt /\ Move(t, q)
  <2>1. \E q \in {"recordEscalation", "recordPr", "grant"} : pc[t] = "failure" /\ Move(t, q)
    BY <1>3, Zenon DEF CheckFailure
  <2> QED
    BY <2>1 DEF PC, ClearedAt
<1>4. ASSUME Grant(t)
      PROVE  \E q \in PC \ {"audit", "failure"} : pc[t] \in ClearedAt /\ Move(t, q)
  <2>1. pc[t] = "grant" /\ Move(t, "dispatch")
    BY <1>4 DEF Grant
  <2>2. "dispatch" \in PC \ {"audit", "failure"} /\ pc[t] \in ClearedAt
    BY <2>1 DEF PC, ClearedAt
  <2> QED
    BY <2>1, <2>2, Zenon
<1>5. ASSUME Dispatch(t) PROVE pc[t] = "dispatch" /\ Move(t, "audit")
  BY <1>5 DEF Dispatch
<1>6. ASSUME SaveRow(t) \/ LoseRow(t)
      PROVE  Move(t, "idle") /\ pc[t] \in {"audit", "recordPr", "recordEscalation"}
  BY <1>6 DEF SaveRow, LoseRow, Finish
<1> QED
  BY <1>1, <1>2, <1>3, <1>4, <1>5, <1>6, Zenon

LEMMA StepAudit == TypeOK /\ TimeInv /\ AuditInv /\ [Next]_vars => AuditInv'
<1> SUFFICES ASSUME TypeOK, TimeInv, AuditInv, [Next]_vars, NEW w \in Int
             PROVE  Cardinality(EffectsFrom(w)')
                      <= Cardinality(AutosFrom(w)') + Cardinality(Auditors') + faults' * Most
  BY Zenon DEF AuditInv, Most, Widest
<1> DEFINE E == Cardinality(EffectsFrom(w))
           A == Cardinality(AutosFrom(w))
           N == Cardinality(Auditors)
<1>1. /\ E \in Nat /\ A \in Nat /\ N \in Nat
      /\ E <= A + N + faults * Most
      /\ faults \in Nat /\ faults * Most \in Nat
      /\ Most \in Nat /\ Most >= 1
  BY Counts, MostThreads, Paid DEF AuditInv, EffectsFrom, AutosFrom
<1>2. ASSUME faults' = faults + 1 PROVE faults' * Most = faults * Most + Most
  BY <1>1, <1>2, Paid
<1>3. ASSUME effects' = effects, rows' = rows, Cardinality(Auditors') = N,
             faults' = faults \/ faults' = faults + 1
      PROVE  Cardinality(EffectsFrom(w)')
               <= Cardinality(AutosFrom(w)') + Cardinality(Auditors') + faults' * Most
  <2>1. EffectsFrom(w)' = EffectsFrom(w) /\ AutosFrom(w)' = AutosFrom(w)
    BY <1>3 DEF EffectsFrom, AutosFrom
  <2> HIDE DEF N
  <2>2. CASE faults' = faults
    BY <1>1, <1>3, <2>1, <2>2
  <2>3. CASE faults' = faults + 1
    BY <1>1, <1>2, <1>3, <2>1, <2>3
  <2> QED
    BY <1>3, <2>2, <2>3
<1>4. ASSUME NEW t \in Thread, NEW q \in PC \ {"audit"}, pc[t] # "audit", Move(t, q)
      PROVE  Cardinality(Auditors') = N
  BY <1>1, <1>4, CountMove
<1>5. ASSUME NEW t \in Thread, NEW c \in Case, Decide(t, c)
      PROVE  effects' = effects /\ rows' = rows /\ faults' = faults /\ Cardinality(Auditors') = N
  BY <1>4, <1>5, MovesOf DEF Decide
<1>6. ASSUME NEW t \in Thread, CheckDaily(t) \/ CheckDailyInMemory(t)
      PROVE  /\ effects' = effects /\ rows' = rows /\ Cardinality(Auditors') = N
             /\ faults' = faults \/ faults' = faults + 1
  <2>1. PICK q \in {"recordEscalation", "failure"} : pc[t] = "count" /\ Move(t, q)
    BY <1>6, MovesOf, Zenon
  <2>2. q \in PC \ {"audit"}
    BY DEF PC
  <2> HIDE DEF N
  <2> QED
    BY <1>4, <1>6, <2>1, <2>2 DEF CheckDaily, CheckDailyInMemory
<1>7. ASSUME NEW t \in Thread, CheckFailure(t) \/ Grant(t)
      PROVE  effects' = effects /\ rows' = rows /\ faults' = faults /\ Cardinality(Auditors') = N
  <2>1. PICK q \in PC \ {"audit", "failure"} : pc[t] \in ClearedAt /\ Move(t, q)
    BY <1>7, MovesOf, Zenon
  <2> HIDE DEF N
  <2> QED
    BY <1>4, <1>7, <2>1 DEF CheckFailure, Grant, ClearedAt
<1>8. ASSUME NEW t \in Thread, Dispatch(t)
      PROVE  Cardinality(EffectsFrom(w)')
               <= Cardinality(AutosFrom(w)') + Cardinality(Auditors') + faults' * Most
  <2>1. Cardinality(EffectsFrom(w)') <= E + 1
    BY <1>8, SentCount DEF EffectsFrom
  <2>2. Cardinality(EffectsFrom(w)') \in Nat
    <3>1. effects' \in Seq(EffectType)
      BY StepTyped DEF TypeOK, EffectType
    <3> QED
      BY <3>1, HitsFinite DEF EffectsFrom
  <2>3. Cardinality(Auditors') = N + 1
    <3>1. "audit" \in PC
      BY DEF PC
    <3> QED
      BY <1>1, <1>8, <3>1, MovesOf, CountMove
  <2>4. AutosFrom(w)' = AutosFrom(w) /\ faults' = faults
    BY <1>8 DEF Dispatch, AutosFrom
  <2> HIDE DEF E, N
  <2> QED
    BY <1>1, <2>1, <2>2, <2>3, <2>4
<1>9. ASSUME NEW t \in Thread, SaveRow(t) \/ LoseRow(t)
      PROVE  Cardinality(Auditors') = N - (IF pc[t] = "audit" THEN 1 ELSE 0)
  <2>1. "idle" \in PC /\ Move(t, "idle")
    BY <1>9, MovesOf DEF PC
  <2> QED
    BY <1>1, <2>1, CountMove
<1>10. ASSUME NEW t \in Thread, SaveRow(t)
       PROVE  Cardinality(EffectsFrom(w)')
                <= Cardinality(AutosFrom(w)') + Cardinality(Auditors') + faults' * Most
  <2> DEFINE r == [type |-> RowOf(pc[t]), at |-> clock]
             T == {x \in RowType : x.type = "auto_remediate" /\ x.at >= w}
  <2>1. /\ r \in RowType /\ rows' = Append(rows, r) /\ rows \in Seq(RowType)
        /\ clock \in Int /\ faults' = faults
        /\ pc[t] = "audit" => r.type = "auto_remediate" /\ r.at = clock
    BY <1>10 DEF SaveRow, RowOf, RowType, TypeOK
  <2>2. EffectsFrom(w)' = EffectsFrom(w)
    BY <1>10 DEF SaveRow, EffectsFrom
  <2>3. Cardinality(AutosFrom(w)') = A + (IF r \in T THEN 1 ELSE 0)
    <3> HIDE DEF r
    <3>1. Cardinality(Hits(Append(rows, r), T)) = Cardinality(Hits(rows, T)) + (IF r \in T THEN 1 ELSE 0)
      BY <2>1, HitsAppend
    <3> QED
      BY <2>1, <3>1 DEF AutosFrom
  <2>4. Cardinality(Auditors') = N - (IF pc[t] = "audit" THEN 1 ELSE 0)
    BY <1>9, <1>10
  <2>5. CASE w <= clock \/ pc[t] # "audit"
    <3>1. pc[t] = "audit" => r \in T
      BY <2>1, <2>5
    <3> HIDE DEF E, N, r, T
    <3>2. Cardinality(EffectsFrom(w)') = E
      BY <2>2 DEF E
    <3> QED
      BY <1>1, <2>1, <2>3, <2>4, <3>1, <3>2
  <2>6. CASE w > clock /\ pc[t] = "audit"
    <3>1. \A i \in DOMAIN effects : effects[i].at \in Int
      BY EffectTypes
    <3>2. EffectsFrom(w) = {}
      BY <2>1, <2>6, <3>1 DEF TimeInv, EffectsFrom, Hits
    <3>3. Cardinality(EffectsFrom(w)') = 0
      BY <2>2, <3>2, FS_EmptySet
    <3>4. /\ Cardinality(AutosFrom(w)') \in Nat
          /\ Cardinality(Auditors') \in Nat
      <4>1. Cardinality(Auditors') \in Nat
        BY StandingFinite DEF Auditors
      <4> HIDE DEF r, T
      <4> QED
        BY <1>1, <2>3, <4>1
    <3> HIDE DEF E, A, N
    <3> QED
      BY <1>1, <2>1, <3>3, <3>4
  <2> QED
    BY <2>1, <2>5, <2>6
<1>11. ASSUME NEW t \in Thread, LoseRow(t)
       PROVE  Cardinality(EffectsFrom(w)')
                <= Cardinality(AutosFrom(w)') + Cardinality(Auditors') + faults' * Most
  <2>1. /\ EffectsFrom(w)' = EffectsFrom(w) /\ AutosFrom(w)' = AutosFrom(w)
        /\ faults' = faults + 1
    BY <1>11 DEF LoseRow, EffectsFrom, AutosFrom
  <2>2. Cardinality(Auditors') = N - (IF pc[t] = "audit" THEN 1 ELSE 0)
    BY <1>9, <1>11
  <2> HIDE DEF N
  <2> QED
    BY <1>1, <1>2, <2>1, <2>2
<1>12. ASSUME NEW p \in Process, Restart(p)
       PROVE  Cardinality(EffectsFrom(w)')
                <= Cardinality(AutosFrom(w)') + Cardinality(Auditors') + faults' * Most
  <2>1. /\ EffectsFrom(w)' = EffectsFrom(w) /\ AutosFrom(w)' = AutosFrom(w)
        /\ faults' = faults + 1
    BY <1>12 DEF Restart, EffectsFrom, AutosFrom
  <2>2. N <= Cardinality(Auditors') + Most /\ Cardinality(Auditors') \in Nat
    BY <1>12, RestartCount
  <2> HIDE DEF N
  <2> QED
    BY <1>1, <1>2, <2>1, <2>2
<1>13. ASSUME Tick \/ Rest \/ UNCHANGED vars
       PROVE  effects' = effects /\ rows' = rows /\ faults' = faults /\ Cardinality(Auditors') = N
  BY <1>13 DEF Tick, Rest, vars, Auditors
<1> HIDE DEF E, A, N
<1>14. CASE \E t \in Thread : \/ \E c \in Case : Decide(t, c)
                              \/ CheckDaily(t) \/ CheckDailyInMemory(t) \/ CheckFailure(t) \/ Grant(t)
  BY <1>3, <1>5, <1>6, <1>7, <1>14
<1>15. CASE Tick \/ Rest \/ UNCHANGED vars
  BY <1>3, <1>13, <1>15
<1> QED
  BY <1>8, <1>10, <1>11, <1>12, <1>14, <1>15, Zenon DEF Next

LEMMA MidnightMoves ==
  ASSUME TypeOK, clock' = clock \/ clock' = clock + 1
  PROVE  Midnight \in Int /\ Midnight' \in Int /\ Midnight <= Midnight'
<1>1. clock \in Int /\ ZoneOffset \in Int /\ DayLen \in Nat /\ DayLen > 0
  BY Bounds DEF TypeOK
<1>2. /\ clock + ZoneOffset \in Int /\ clock' + ZoneOffset \in Int
      /\ clock + ZoneOffset <= clock' + ZoneOffset
  BY <1>1
<1> DEFINE a == clock + ZoneOffset
           b == clock' + ZoneOffset
<1>3. /\ (a \div DayLen) \in Int /\ (b \div DayLen) \in Int
      /\ (a \div DayLen) * DayLen <= (b \div DayLen) * DayLen
  BY <1>1, <1>2, DivMonotone
<1> HIDE DEF a, b
<1>4. (a \div DayLen) * DayLen \in Int /\ (b \div DayLen) * DayLen \in Int
  BY <1>1, <1>3
<1> QED
  BY <1>3, <1>4 DEF Midnight, a, b

LEMMA StepCap == TypeOK /\ AuditInv /\ CapInv /\ [Next]_vars => CapInv'
<1> SUFFICES ASSUME TypeOK, AuditInv, CapInv, [Next]_vars, Backend = "sqlite"
             PROVE  Cardinality(EffectsFrom(Midnight)') + Cardinality(Cleared')
                      <= MaxPerDay + Cardinality(Thread) - 1 + faults' * Most
  BY Zenon DEF CapInv, Most, Widest
<1> DEFINE E == Cardinality(EffectsFrom(Midnight))
           C == Cardinality(Cleared)
           N == Cardinality(Auditors)
           K == Cardinality(Thread)
           Goal == Cardinality(EffectsFrom(Midnight)') + Cardinality(Cleared')
                     <= MaxPerDay + K - 1 + faults' * Most
<1>1. /\ E \in Nat /\ C \in Nat /\ N \in Nat /\ K \in Nat /\ MaxPerDay \in Nat
      /\ E + C <= MaxPerDay + K - 1 + faults * Most
      /\ faults \in Nat /\ faults * Most \in Nat
      /\ Most \in Nat /\ Most >= 1
  BY Counts, MostThreads, Paid, Bounds DEF CapInv, EffectsFrom
<1>2. ASSUME faults' = faults + 1 PROVE faults' * Most = faults * Most + Most
  BY <1>1, <1>2, Paid
<1>3. ASSUME effects' = effects, clock' = clock \/ clock' = clock + 1
      PROVE  Cardinality(EffectsFrom(Midnight)') \in Nat /\ Cardinality(EffectsFrom(Midnight)') <= E
  <2>1. Midnight \in Int /\ Midnight' \in Int /\ Midnight <= Midnight'
    BY <1>3, MidnightMoves
  <2>2. effects \in Seq(EffectType)
    BY DEF TypeOK, EffectType
  <2> DEFINE late(w) == {e \in EffectType : e.at >= w}
  <2>3. late(Midnight') \subseteq late(Midnight)
    BY <2>1 DEF EffectType
  <2> HIDE DEF late
  <2>4. /\ Cardinality(Hits(effects, late(Midnight'))) <= Cardinality(Hits(effects, late(Midnight)))
        /\ Cardinality(Hits(effects, late(Midnight'))) \in Nat
    BY <2>2, <2>3, HitsSubset, HitsFinite
  <2> QED
    BY <1>3, <2>4 DEF EffectsFrom, late
<1>4. ASSUME effects' = effects, clock' = clock \/ clock' = clock + 1,
             Cardinality(Cleared') \in Nat, Cardinality(Cleared') <= C,
             faults' = faults \/ faults' = faults + 1
      PROVE  Goal
  <2> HIDE DEF E, C, K
  <2>1. CASE faults' = faults
    BY <1>1, <1>3, <1>4, <2>1
  <2>2. CASE faults' = faults + 1
    BY <1>1, <1>2, <1>3, <1>4, <2>2
  <2> QED
    BY <1>4, <2>1, <2>2
<1>5. Cardinality(Cleared') \in Nat
  BY StandingFinite DEF Cleared
<1>6. ASSUME NEW t \in Thread, NEW c \in Case, Decide(t, c) PROVE Goal
  <2>1. PICK q \in PC \ (ClearedAt \cup {"audit"}) : pc[t] = "idle" /\ Move(t, q)
    BY <1>6, MovesOf, Zenon
  <2>2. Cardinality(Cleared') = C
    BY <1>1, <2>1, CountMove DEF ClearedAt
  <2> HIDE DEF Goal, C
  <2> QED
    BY <1>1, <1>4, <1>5, <1>6, <2>2 DEF Decide
<1>7. ASSUME NEW t \in Thread, CheckDaily(t) PROVE Goal
  <2>1. PICK q \in {"recordEscalation", "failure"} : pc[t] = "count" /\ Move(t, q)
    BY <1>7, MovesOf, Zenon
  <2>2. q \in PC
    BY DEF PC
  <2>3. CASE q = "recordEscalation"
    <3>1. Cardinality(Cleared') = C
      BY <1>1, <2>1, <2>2, <2>3, CountMove DEF ClearedAt
    <3> HIDE DEF Goal, C
    <3> QED
      BY <1>1, <1>4, <1>5, <1>7, <3>1 DEF CheckDaily
  <2>4. CASE q = "failure"
    <3>1. Cardinality(Cleared') = C + 1
      BY <1>1, <2>1, <2>2, <2>4, CountMove DEF ClearedAt
    <3>2. CountToday = Cardinality(AutosFrom(Midnight))
      <4>1. rows \in Seq(RowType)
        BY DEF TypeOK, RowType
      <4>2. \A i \in DOMAIN rows : rows[i] \in RowType
        BY <4>1
      <4>3. AutosFrom(Midnight) = {i \in DOMAIN rows : /\ rows[i].type = "auto_remediate"
                                                       /\ rows[i].at >= Midnight}
        BY <4>2 DEF AutosFrom, Hits
      <4> QED
        BY <4>3 DEF CountToday, Midnight
    <3>3. CountToday < MaxPerDay
      <4>1. pc \in [Thread -> PC] /\ pc'[t] = "failure"
        BY <2>1, <2>4 DEF TypeOK, Move
      <4>2. pc'[t] = IF CountToday >= MaxPerDay THEN "recordEscalation" ELSE "failure"
        BY <1>7, <4>1 DEF CheckDaily, Move
      <4>3. ~ (CountToday >= MaxPerDay)
        BY <4>1, <4>2
      <4>4. CountToday \in Int
        BY <3>2, Counts DEF AutosFrom
      <4> QED
        BY <4>3, <4>4, <1>1
    <3>4. E <= Cardinality(AutosFrom(Midnight)) + N + faults * Most
      <4>1. Midnight \in Int
        BY <1>7, MidnightMoves DEF CheckDaily
      <4> QED
        BY <4>1 DEF AuditInv
    <3>5. N + C + 1 <= K
      BY <2>1, RoomLeft
    <3>6. Cardinality(AutosFrom(Midnight)) \in Nat
      BY Counts DEF AutosFrom
    <3>7. EffectsFrom(Midnight)' = EffectsFrom(Midnight) /\ faults' = faults
      BY <1>7 DEF CheckDaily, EffectsFrom, Midnight
    <3> DEFINE A == Cardinality(AutosFrom(Midnight))
               D == faults * Most
    <3>8. A < MaxPerDay
      BY <3>2, <3>3
    <3> HIDE DEF E, C, N, K, A, D
    <3>9. E + (C + 1) <= MaxPerDay + K - 1 + D
      <4>1. A \in Nat /\ E <= A + N + D
        BY <3>4, <3>6 DEF A, D
      <4>2. D \in Nat
        BY <1>1 DEF D
      <4> QED
        BY <1>1, <3>5, <3>8, <4>1, <4>2
    <3> QED
      BY <3>1, <3>7, <3>9 DEF E, D
  <2> QED
    BY <2>1, <2>3, <2>4
<1>8. ASSUME NEW t \in Thread, CheckDailyInMemory(t) PROVE Goal
  <2>1. PICK q \in {"recordEscalation", "failure"} : pc[t] = "count" /\ Move(t, q)
    BY <1>8, MovesOf, Zenon
  <2>2. q \in PC
    BY DEF PC
  <2>3. Cardinality(Cleared') <= C + 1
    BY <1>1, <2>1, <2>2, CountMove DEF ClearedAt
  <2>4. effects' = effects /\ clock' = clock /\ faults' = faults + 1
    BY <1>8 DEF CheckDailyInMemory
  <2> HIDE DEF E, C, K
  <2> QED
    BY <1>1, <1>2, <1>3, <1>5, <2>3, <2>4
<1>9. ASSUME NEW t \in Thread, CheckFailure(t) \/ Grant(t) PROVE Goal
  <2>1. PICK q \in PC \ {"audit", "failure"} : pc[t] \in ClearedAt /\ Move(t, q)
    BY <1>9, MovesOf, Zenon
  <2>2. Cardinality(Cleared') <= C
    BY <1>1, <2>1, CountMove
  <2> HIDE DEF Goal, C
  <2> QED
    BY <1>4, <1>5, <1>9, <2>2 DEF CheckFailure, Grant
<1>10. ASSUME NEW t \in Thread, Dispatch(t) PROVE Goal
  <2>1. Cardinality(EffectsFrom(Midnight)') <= E + 1
    <3>1. Midnight' = Midnight
      BY <1>10 DEF Dispatch, Midnight
    <3> DEFINE T == {e \in EffectType : e.at >= Midnight}
    <3>2. Cardinality(Hits(effects', T)) <= Cardinality(Hits(effects, T)) + 1
      BY <1>10, SentCount
    <3> QED
      BY <3>1, <3>2 DEF EffectsFrom
  <2>2. Cardinality(EffectsFrom(Midnight)') \in Nat
    <3>1. effects' \in Seq(EffectType)
      BY StepTyped DEF TypeOK, EffectType
    <3> QED
      BY <3>1, HitsFinite DEF EffectsFrom
  <2>3. Cardinality(Cleared') = C - 1
    <3>1. "audit" \in PC /\ "audit" \notin ClearedAt /\ "dispatch" \in ClearedAt
      BY DEF PC, ClearedAt
    <3> QED
      BY <1>1, <1>10, <3>1, MovesOf, CountMove
  <2>4. faults' = faults
    BY <1>10 DEF Dispatch
  <2> HIDE DEF E, C, K
  <2> QED
    BY <1>1, <2>1, <2>2, <2>3, <2>4
<1>11. ASSUME NEW t \in Thread, SaveRow(t) \/ LoseRow(t) PROVE Goal
  <2>1. /\ "idle" \in PC /\ "idle" \notin ClearedAt /\ Move(t, "idle")
        /\ pc[t] \notin ClearedAt
    BY <1>11, MovesOf DEF PC, ClearedAt
  <2>2. Cardinality(Cleared') = C
    BY <1>1, <2>1, CountMove
  <2> HIDE DEF Goal, C
  <2> QED
    BY <1>1, <1>4, <1>5, <1>11, <2>2 DEF SaveRow, LoseRow
<1>12. ASSUME NEW p \in Process, Restart(p) PROVE Goal
  <2>1. Cardinality(Cleared') <= C
    BY <1>12, RestartCount
  <2> HIDE DEF Goal, C
  <2> QED
    BY <1>4, <1>5, <1>12, <2>1 DEF Restart
<1>13. ASSUME Tick \/ Rest \/ UNCHANGED vars PROVE Goal
  <2>1. Cleared' = Cleared
    BY <1>13 DEF Tick, Rest, vars, Cleared
  <2>2. /\ effects' = effects /\ faults' = faults
        /\ clock' = clock \/ clock' = clock + 1
    BY <1>13 DEF Tick, Rest, vars
  <2>3. Cardinality(Cleared') <= C
    BY <1>1, <2>1
  <2> HIDE DEF Goal, C
  <2> QED
    BY <1>4, <1>5, <2>2, <2>3
<1> HIDE DEF Goal
<1>14. Goal
  BY <1>6, <1>7, <1>8, <1>9, <1>10, <1>11, <1>12, <1>13, Zenon DEF Next
<1> QED
  BY <1>14 DEF Goal

\* The steps that leave what process p has done, and the gate it decides by,
\* as they were.
LEMMA DoneKept ==
  ASSUME TypeOK, NEW p \in Process, NEW t \in Thread, DoneInv(p, t),
         effects' = effects, gate'[p] = gate[p],
         \A f \in Failure : pc'[t] = "dispatch" /\ KeyOf(t)' = f => pc[t] = "dispatch" /\ KeyOf(t) = f
  PROVE  DoneInv(p, t)'
<1>1. \A f, d : Done(p, f, d)' = Done(p, f, d)
  BY DEF Done, Day
<1>2. ASSUME NEW i \in DOMAIN effects', effects'[i].proc = p
      PROVE  Day(effects'[i].since) <= gate'[p].day
  BY <1>2 DEF DoneInv
<1>3. ASSUME NEW f \in Failure
      PROVE  Cardinality(Done(p, f, gate[p].day)')
                + (IF pc'[t] = "dispatch" /\ KeyOf(t)' = f THEN 1 ELSE 0)
              <= gate'[p].failures[f]
  <2>1. Cardinality(Done(p, f, gate[p].day)) \in Nat /\ gate[p].failures[f] \in Nat
    BY Counts DEF Done, TypeOK
  <2>2. Done(p, f, gate[p].day)' = Done(p, f, gate[p].day)
    BY DEF Done
  <2> QED
    BY <2>1, <2>2 DEF DoneInv
<1>4. \A f \in Failure, d \in Int : Cardinality(Done(p, f, d)') <= MaxPerFailure
  BY <1>1 DEF DoneInv
<1> QED
  BY <1>2, <1>3, <1>4 DEF DoneInv

LEMMA OthersKeep ==
  ASSUME TypeOK, NEW p \in Process, NEW t \in Thread, Alone(p, t), GateInv(p, t),
         NEW u \in Thread, u # t,
         \/ \E c \in Case : Decide(u, c)
         \/ CheckDaily(u) \/ CheckFailure(u) \/ Grant(u) \/ Dispatch(u) \/ SaveRow(u)
  PROVE  GateInv(p, t)'
<1>1. ProcOf[u] # p /\ ProcOf[t] = p
  BY DEF Alone, ThreadsOf
<1>2. /\ pc \in [Thread -> PC] /\ ProcOf[u] \in Process
      /\ gate \in [Process -> [day : Int, daily : Nat, failures : [Failure -> Nat]]]
      /\ case \in [Thread -> [what : Case, since : Int, seen : Nat]]
  BY ProcessOf DEF TypeOK
<1>3. /\ gate'[p] = gate[p] /\ pc'[t] = pc[t] /\ case'[t] = case[t]
      /\ clock' = clock
  <2>1. CASE \E c \in Case : Decide(u, c)
    BY <1>1, <1>2, <2>1 DEF Decide, Move
  <2>2. CASE CheckDaily(u) \/ CheckFailure(u)
    BY <1>1, <1>2, <2>2 DEF CheckDaily, CheckFailure, Move
  <2>3. CASE Grant(u)
    BY <1>1, <1>2, <2>3 DEF Grant, Move
  <2>4. CASE Dispatch(u)
    BY <1>1, <1>2, <2>4 DEF Dispatch, Move
  <2>5. CASE SaveRow(u)
    BY <1>1, <1>2, <2>5 DEF SaveRow, Finish, Move
  <2> QED
    BY <2>1, <2>2, <2>3, <2>4, <2>5
<1>4. DecisionInv(p, t)'
  BY <1>3 DEF GateInv, DecisionInv, KeyOf, Day
<1>5. DoneInv(p, t)'
  <2>1. CASE ~ Dispatch(u)
    <3>1. effects' = effects
      BY <2>1 DEF Decide, CheckDaily, CheckFailure, Grant, SaveRow
    <3> QED
      BY <1>3, <3>1, DoneKept DEF GateInv, KeyOf
  <2>2. CASE Dispatch(u)
    <3>1. PICK e \in EffectType :
             /\ e = [proc |-> ProcOf[u], failure |-> case[u].what.failure,
                     at |-> clock, since |-> case[u].since]
             /\ effects' = effects \/ effects' = Append(effects, e)
             /\ effects \in Seq(EffectType)
      BY <2>2, Sent, Zenon
    <3>2. e.proc # p
      BY <1>1, <3>1
    <3>3. ASSUME effects' = Append(effects, e) PROVE DoneInv(p, t)'
      <4>1. ASSUME NEW f \in Failure, NEW d \in Int
            PROVE  Cardinality(Done(p, f, d)') = Cardinality(Done(p, f, d))
        <5> DEFINE T == {x \in EffectType : x.proc = p /\ x.failure = f /\ Day(x.since) = d}
        <5>1. e \notin T
          BY <3>2
        <5>2. Cardinality(Hits(effects, T)) \in Nat
          BY Counts
        <5> HIDE DEF T
        <5>3. Cardinality(Hits(effects', T)) = Cardinality(Hits(effects, T))
          BY <3>1, <3>3, <5>1, <5>2, HitsAppend
        <5> QED
          BY <5>3 DEF Done, T
      <4>2. ASSUME NEW i \in DOMAIN effects', effects'[i].proc = p
            PROVE  Day(effects'[i].since) <= gate'[p].day
        <5>1. i \in DOMAIN effects /\ effects'[i] = effects[i]
          BY <3>1, <3>2, <3>3, <4>2
        <5> QED
          BY <1>3, <4>2, <5>1 DEF GateInv, DoneInv
      <4>3. ASSUME NEW f \in Failure
            PROVE  Cardinality(Done(p, f, gate[p].day)')
                     + (IF pc'[t] = "dispatch" /\ KeyOf(t)' = f THEN 1 ELSE 0)
                   <= gate'[p].failures[f]
        <5>1. PICK d \in Int : d = gate[p].day
          BY <1>2
        <5>2. /\ Done(p, f, gate[p].day)' = Done(p, f, d)'
              /\ Done(p, f, gate[p].day) = Done(p, f, d)
              /\ KeyOf(t)' = KeyOf(t)
          BY <1>3, <5>1 DEF Done, KeyOf
        <5>3. Cardinality(Done(p, f, gate[p].day)') = Cardinality(Done(p, f, gate[p].day))
          BY <4>1, <5>2
        <5> QED
          BY <1>3, <5>2, <5>3 DEF GateInv, DoneInv
      <4>4. \A f \in Failure, d \in Int : Cardinality(Done(p, f, d)') <= MaxPerFailure
        BY <4>1 DEF GateInv, DoneInv
      <4> QED
        BY <4>2, <4>3, <4>4 DEF DoneInv
    <3>4. ASSUME effects' = effects PROVE DoneInv(p, t)'
      BY <1>3, <3>4, DoneKept DEF GateInv, KeyOf
    <3> QED
      BY <3>1, <3>3, <3>4
  <2> QED
    BY <2>1, <2>2
<1> QED
  BY <1>4, <1>5 DEF GateInv

LEMMA OwnDecision ==
  ASSUME TypeOK, NEW p \in Process, NEW t \in Thread, Alone(p, t), GateInv(p, t),
         NEW c \in Case, Decide(t, c)
  PROVE  GateInv(p, t)'
<1>1. ProcOf[t] = p
  BY DEF Alone, ThreadsOf
<1>2. /\ clock \in Int /\ Day(clock) \in Int /\ MaxPerFailure \in Nat
      /\ pc \in [Thread -> PC]
      /\ gate \in [Process -> [day : Int, daily : Nat, failures : [Failure -> Nat]]]
      /\ case \in [Thread -> [what : Case, since : Int, seen : Nat]]
  BY Bounds, DayInt DEF TypeOK
<1>3. /\ gate'[p] = Reset(gate[p]) /\ clock' = clock /\ effects' = effects
      /\ pc'[t] = Route(c)
      /\ Route(c) # "idle" => case'[t].since = clock
  <2>1. Route(c) # "idle" => case' = [case EXCEPT ![t] = [what |-> c, since |-> clock, seen |-> 0]]
    BY DEF Decide
  <2> QED
    BY <1>1, <1>2, <2>1 DEF Decide, Move
<1>4. Route(c) \notin {"grant", "dispatch"}
  BY RouteType
<1>5. gate'[p].day = Day(clock)
  BY <1>2, <1>3 DEF Reset, FreshGate
<1>6. CASE gate[p].day = Day(clock)
  <2>1. gate'[p] = gate[p]
    BY <1>3, <1>6 DEF Reset
  <2>2. DoneInv(p, t)'
    BY <1>3, <1>4, <2>1, DoneKept DEF GateInv
  <2>3. DecisionInv(p, t)'
    BY <1>3, <1>4, <1>5, <2>1 DEF GateInv, DecisionInv, Day
  <2> QED
    BY <2>2, <2>3 DEF GateInv
<1>7. CASE gate[p].day # Day(clock)
  <2>1. \A f \in Failure : gate'[p].failures[f] = 0
    BY <1>3, <1>7 DEF Reset, FreshGate
  <2>2. gate[p].day < Day(clock)
    <3>1. gate[p].day \in Int /\ Day(clock) \in Int
      BY <1>2
    <3>2. gate[p].day <= Day(clock)
      BY DEF GateInv, DecisionInv
    <3> QED
      BY <1>7, <3>1, <3>2
  <2>3. \A i \in DOMAIN effects : effects[i].proc = p =>
           Day(effects[i].since) \in Int /\ Day(effects[i].since) < Day(clock)
    <3>1. \A i \in DOMAIN effects : Day(effects[i].since) \in Int
      BY EffectTypes, DayInt
    <3> QED
      BY <1>2, <2>2, <3>1 DEF GateInv, DoneInv
  <2>4. DecisionInv(p, t)'
    BY <1>2, <1>3, <1>4, <1>5, <2>1 DEF DecisionInv, Day
  <2>5. ASSUME NEW f \in Failure PROVE Cardinality(Done(p, f, gate[p].day)') = 0
    <3>1. Done(p, f, gate[p].day)' = {}
      BY <1>3, <1>5, <2>3 DEF Done, Hits, Day
    <3> QED
      BY <3>1, FS_EmptySet
  <2>6. ASSUME NEW f \in Failure, NEW d \in Int PROVE Done(p, f, d)' = Done(p, f, d)
    BY <1>3 DEF Done, Day
  <2>7. \A i \in DOMAIN effects' : effects'[i].proc = p => Day(effects'[i].since) <= gate'[p].day
    BY <1>2, <1>3, <1>5, <2>3
  <2>8. \A f \in Failure, d \in Int : Cardinality(Done(p, f, d)') <= MaxPerFailure
    BY <2>6 DEF GateInv, DoneInv
  <2>9. \A f \in Failure :
           Cardinality(Done(p, f, gate[p].day)')
               + (IF pc'[t] = "dispatch" /\ KeyOf(t)' = f THEN 1 ELSE 0)
             <= gate'[p].failures[f]
    BY <1>3, <1>4, <2>1, <2>5
  <2>10. DoneInv(p, t)'
    BY <2>7, <2>8, <2>9 DEF DoneInv, Day
  <2> QED
    BY <2>4, <2>10 DEF GateInv
<1> QED
  BY <1>6, <1>7

LEMMA OwnStep ==
  ASSUME TypeOK, NEW p \in Process, NEW t \in Thread, Alone(p, t), GateInv(p, t),
         CheckDaily(t) \/ CheckFailure(t) \/ Grant(t) \/ SaveRow(t)
  PROVE  GateInv(p, t)'
<1>1. ProcOf[t] = p
  BY DEF Alone, ThreadsOf
<1>2. /\ clock \in Int /\ Day(clock) \in Int /\ MaxPerFailure \in Nat
      /\ pc \in [Thread -> PC]
      /\ gate \in [Process -> [day : Int, daily : Nat, failures : [Failure -> Nat]]]
      /\ case \in [Thread -> [what : Case, since : Int, seen : Nat]]
      /\ KeyOf(t) \in Failure
  BY Bounds, DayInt, CaseFields DEF TypeOK, KeyOf
<1>3. clock' = clock /\ effects' = effects
  BY DEF CheckDaily, CheckFailure, Grant, SaveRow
<1>4. CASE CheckDaily(t)
  <2>1. /\ gate'[p] = gate[p] /\ case'[t] = case[t]
        /\ pc[t] = "count" /\ pc'[t] \in {"recordEscalation", "failure"}
    BY <1>2, <1>4 DEF CheckDaily, Move
  <2>2. DecisionInv(p, t)'
    BY <1>3, <2>1 DEF GateInv, DecisionInv, KeyOf, Day
  <2>3. DoneInv(p, t)'
    BY <1>3, <2>1, DoneKept DEF GateInv, KeyOf
  <2> QED
    BY <2>2, <2>3 DEF GateInv
<1>5. CASE CheckFailure(t)
  <2>1. PICK q \in {"recordEscalation", "recordPr", "grant"} :
          /\ Move(t, q)
          /\ gate' = gate /\ pc[t] = "failure"
          /\ q = "grant" => ~ (gate[p].failures[KeyOf(t)] >= MaxPerFailure)
          /\ case' = [case EXCEPT ![t].seen = gate[p].failures[KeyOf(t)]]
    BY <1>1, <1>5, Zenon DEF CheckFailure, KeyOf
  <2>2. /\ gate'[p] = gate[p] /\ pc'[t] = q
        /\ case'[t].what = case[t].what /\ case'[t].since = case[t].since
        /\ case'[t].seen = gate[p].failures[KeyOf(t)]
    BY <1>2, <2>1 DEF Move
  <2>3. gate[p].failures[KeyOf(t)] \in Nat
    BY <1>2
  <2>4. DecisionInv(p, t)'
    BY <1>2, <1>3, <2>1, <2>2, <2>3 DEF GateInv, DecisionInv, KeyOf, Day
  <2>5. DoneInv(p, t)'
    BY <1>3, <2>1, <2>2, DoneKept DEF GateInv, KeyOf
  <2> QED
    BY <2>4, <2>5 DEF GateInv
<1>6. CASE Grant(t)
  <2>1. pc[t] = "grant" /\ pc'[t] = "dispatch" /\ case' = case
    BY <1>2, <1>6 DEF Grant, Move
  <2>2. gate' = [gate EXCEPT ![p].daily = @ + 1,
                             ![p].failures[KeyOf(t)] = case[t].seen + 1]
    BY <1>1, <1>6 DEF Grant, KeyOf
  <2>3. /\ gate'[p].day = gate[p].day
        /\ gate'[p].failures = [gate[p].failures EXCEPT ![KeyOf(t)] = case[t].seen + 1]
    BY <1>2, <2>2
  <2>4. /\ gate[p].failures \in [Failure -> Nat] /\ gate[p].day \in Int
        /\ case[t].seen \in Nat
        /\ case[t].seen = gate[p].failures[KeyOf(t)]
        /\ case[t].seen < MaxPerFailure
        /\ Day(case[t].since) = gate[p].day
    BY <1>2, <2>1 DEF GateInv, DecisionInv
  <2>5. \A f \in Failure : gate'[p].failures[f]
           = gate[p].failures[f] + (IF f = KeyOf(t) THEN 1 ELSE 0)
    BY <1>2, <2>3, <2>4
  <2>6. \A f \in Failure : gate'[p].failures[f] <= MaxPerFailure
    <3>1. \A f \in Failure : gate[p].failures[f] \in Nat /\ gate[p].failures[f] <= MaxPerFailure
      BY <2>4 DEF GateInv, DecisionInv
    <3> QED
      BY <1>2, <2>4, <2>5, <3>1
  <2>7. DecisionInv(p, t)'
    BY <1>3, <2>1, <2>3, <2>4, <2>6 DEF GateInv, DecisionInv, KeyOf, Day
  <2>8. ASSUME NEW f \in Failure
        PROVE  Cardinality(Done(p, f, gate[p].day)')
                  + (IF pc'[t] = "dispatch" /\ KeyOf(t)' = f THEN 1 ELSE 0)
                <= gate'[p].failures[f]
    <3>1. Done(p, f, gate[p].day)' = Done(p, f, gate[p].day) /\ KeyOf(t)' = KeyOf(t)
      BY <1>3, <2>1, <2>3 DEF Done, Day, KeyOf
    <3>2. Cardinality(Done(p, f, gate[p].day)) \in Nat /\ gate[p].failures[f] \in Nat
      BY <2>4, Counts DEF Done
    <3>3. Cardinality(Done(p, f, gate[p].day)) <= gate[p].failures[f]
      BY <2>1, <3>2 DEF GateInv, DoneInv
    <3> QED
      BY <2>5, <3>1, <3>2, <3>3
  <2>9. \A f \in Failure, d \in Int : Cardinality(Done(p, f, d)') <= MaxPerFailure
    BY <1>3 DEF GateInv, DoneInv, Done, Day
  <2>10. \A i \in DOMAIN effects' : effects'[i].proc = p => Day(effects'[i].since) <= gate'[p].day
    BY <1>3, <2>3 DEF GateInv, DoneInv
  <2>11. DoneInv(p, t)'
    BY <2>8, <2>9, <2>10 DEF DoneInv, Day
  <2> QED
    BY <2>7, <2>11 DEF GateInv
<1>7. CASE SaveRow(t)
  <2>1. gate'[p] = gate[p] /\ pc'[t] = "idle"
    BY <1>2, <1>7 DEF SaveRow, Finish, Move
  <2>2. DecisionInv(p, t)'
    BY <1>3, <2>1 DEF GateInv, DecisionInv, Day
  <2>3. DoneInv(p, t)'
    BY <1>3, <2>1, DoneKept DEF GateInv
  <2> QED
    BY <2>2, <2>3 DEF GateInv
<1> QED
  BY <1>4, <1>5, <1>6, <1>7

LEMMA OwnDispatch ==
  ASSUME TypeOK, NEW p \in Process, NEW t \in Thread, Alone(p, t), GateInv(p, t),
         Dispatch(t)
  PROVE  GateInv(p, t)'
<1>1. ProcOf[t] = p
  BY DEF Alone, ThreadsOf
<1>2. /\ MaxPerFailure \in Nat
      /\ pc \in [Thread -> PC]
      /\ gate \in [Process -> [day : Int, daily : Nat, failures : [Failure -> Nat]]]
      /\ case \in [Thread -> [what : Case, since : Int, seen : Nat]]
      /\ KeyOf(t) \in Failure
  BY Bounds, CaseFields DEF TypeOK, KeyOf
<1>3. /\ clock' = clock /\ gate' = gate /\ case' = case
      /\ pc[t] = "dispatch" /\ pc'[t] = "audit"
  BY <1>2 DEF Dispatch, Move
<1>4. DecisionInv(p, t)'
  BY <1>3 DEF GateInv, DecisionInv, Day
<1>5. CASE effects' = effects
  <2>1. DoneInv(p, t)'
    BY <1>3, <1>5, DoneKept DEF GateInv
  <2> QED
    BY <1>4, <2>1 DEF GateInv
<1>6. CASE effects' # effects
  <2>1. PICK e \in EffectType :
           /\ e = [proc |-> ProcOf[t], failure |-> case[t].what.failure,
                   at |-> clock, since |-> case[t].since]
           /\ effects' = effects \/ effects' = Append(effects, e)
           /\ effects \in Seq(EffectType)
    BY Sent, Zenon
  <2>2. /\ effects' = Append(effects, e)
        /\ e.proc = p /\ e.failure = KeyOf(t) /\ Day(e.since) = gate[p].day
    <3>1. Day(case[t].since) = gate[p].day
      BY <1>3 DEF GateInv, DecisionInv
    <3> QED
      BY <1>1, <1>6, <2>1, <3>1 DEF KeyOf
  <2>3. ASSUME NEW f \in Failure, NEW d \in Int
        PROVE  /\ Cardinality(Done(p, f, d)') = Cardinality(Done(p, f, d))
                    + (IF f = KeyOf(t) /\ d = gate[p].day THEN 1 ELSE 0)
               /\ Cardinality(Done(p, f, d)) \in Nat
    <3> DEFINE T == {x \in EffectType : x.proc = p /\ x.failure = f /\ Day(x.since) = d}
    <3>1. e \in T <=> f = KeyOf(t) /\ d = gate[p].day
      BY <2>2
    <3>2. Cardinality(Hits(effects, T)) \in Nat
      BY Counts
    <3> HIDE DEF T
    <3>3. Cardinality(Hits(effects', T)) = Cardinality(Hits(effects, T)) + (IF e \in T THEN 1 ELSE 0)
      BY <2>1, <2>2, <3>2, HitsAppend
    <3>4. Done(p, f, d)' = Hits(effects', T) /\ Done(p, f, d) = Hits(effects, T)
      BY DEF Done, T, Day
    <3> QED
      BY <3>1, <3>2, <3>3, <3>4
  <2>4. gate[p].day \in Int /\ \A f \in Failure : gate[p].failures[f] \in Nat
    BY <1>2
  <2>5. ASSUME NEW f \in Failure
        PROVE  /\ Cardinality(Done(p, f, gate[p].day)') <= gate[p].failures[f]
               /\ gate[p].failures[f] <= MaxPerFailure
               /\ Cardinality(Done(p, f, gate[p].day)') \in Nat
    <3>1. PICK d \in Int : d = gate[p].day
      BY <2>4
    <3>2. /\ Done(p, f, gate[p].day)' = Done(p, f, d)'
          /\ Done(p, f, gate[p].day) = Done(p, f, d)
      BY <1>3, <3>1 DEF Done
    <3>3. Cardinality(Done(p, f, d)) + (IF f = KeyOf(t) THEN 1 ELSE 0) <= gate[p].failures[f]
      BY <1>3, <3>1, <3>2 DEF GateInv, DoneInv
    <3>4. Cardinality(Done(p, f, d)') = Cardinality(Done(p, f, d)) + (IF f = KeyOf(t) THEN 1 ELSE 0)
      BY <2>3, <3>1
    <3>5. Cardinality(Done(p, f, d)) \in Nat
      BY <2>3
    <3>6. gate[p].failures[f] <= MaxPerFailure
      BY DEF GateInv, DecisionInv
    <3> QED
      BY <2>4, <3>2, <3>3, <3>4, <3>5, <3>6
  <2>6. ASSUME NEW f \in Failure, NEW d \in Int
        PROVE  Cardinality(Done(p, f, d)') <= MaxPerFailure
    <3>1. CASE d = gate[p].day
      <4>1. Done(p, f, gate[p].day)' = Done(p, f, d)'
        BY <1>3, <3>1 DEF Done
      <4> QED
        BY <1>2, <2>4, <2>5, <4>1
    <3>2. CASE d # gate[p].day
      BY <2>3, <3>2 DEF GateInv, DoneInv
    <3> QED
      BY <3>1, <3>2
  <2>7. ASSUME NEW i \in DOMAIN effects', effects'[i].proc = p
        PROVE  Day(effects'[i].since) <= gate'[p].day
    <3>1. effects'[i] = e \/ (i \in DOMAIN effects /\ effects'[i] = effects[i])
      BY <2>1, <2>2
    <3>2. CASE effects'[i] = e
      BY <1>3, <2>2, <2>4, <3>2
    <3>3. CASE i \in DOMAIN effects /\ effects'[i] = effects[i]
      BY <1>3, <2>7, <3>3 DEF GateInv, DoneInv
    <3> QED
      BY <3>1, <3>2, <3>3
  <2>8. \A f \in Failure :
           Cardinality(Done(p, f, gate[p].day)')
               + (IF pc'[t] = "dispatch" /\ KeyOf(t)' = f THEN 1 ELSE 0)
             <= gate'[p].failures[f]
    BY <1>3, <2>4, <2>5
  <2>9. DoneInv(p, t)'
    BY <2>6, <2>7, <2>8 DEF DoneInv, Day
  <2> QED
    BY <1>4, <2>9 DEF GateInv
<1> QED
  BY <1>5, <1>6

LEMMA StepFailure == TypeOK /\ TimeInv /\ FailureInv /\ [Next]_vars => FailureInv'
<1> SUFFICES ASSUME TypeOK, TimeInv, FailureInv, [Next]_vars, faults' = 0,
                    NEW p \in Process, NEW t \in Thread, Alone(p, t)
             PROVE  GateInv(p, t)'
  BY Zenon DEF FailureInv, Alone, ThreadsOf
<1>1. faults = 0 /\ \A q \in Process : ~ Restart(q)
  <2>1. faults \in Nat /\ faults + 1 # 0
    BY DEF TypeOK
  <2>2. faults' = faults \/ faults' = faults + 1
    BY DEF Next, vars, Decide, CheckDaily, CheckDailyInMemory, CheckFailure, Grant, Dispatch,
           SaveRow, LoseRow, Restart, Tick, Rest
  <2>3. \A q \in Process : ~ Restart(q)
    BY <2>1 DEF Restart
  <2> QED
    BY <2>1, <2>2, <2>3
<1>2. GateInv(p, t)
  BY <1>1 DEF FailureInv
<1>3. \A u \in Thread : ~ CheckDailyInMemory(u) /\ ~ LoseRow(u)
  BY <1>1 DEF CheckDailyInMemory, LoseRow
<1>4. CASE Tick \/ Rest \/ UNCHANGED vars
  <2>1. /\ effects' = effects /\ gate' = gate /\ pc' = pc /\ case' = case
        /\ clock' = clock \/ clock' = clock + 1
    BY <1>4 DEF Tick, Rest, vars
  <2>2. Day(clock) \in Int /\ Day(clock') \in Int /\ Day(clock) <= Day(clock')
    <3>1. clock \in Int /\ clock' \in Int /\ clock <= clock'
      BY <2>1 DEF TypeOK
    <3> QED
      BY <3>1, Bounds, DivMonotone DEF Day
  <2>3. gate[p].day \in Int
    BY DEF TypeOK
  <2>4. gate[p].day <= Day(clock)
    BY <1>2 DEF GateInv, DecisionInv
  <2>5. gate[p].day <= Day(clock')
    BY <2>2, <2>3, <2>4
  <2>6. DecisionInv(p, t)'
    BY <1>2, <2>1, <2>5 DEF GateInv, DecisionInv, KeyOf, Day
  <2>7. DoneInv(p, t)'
    BY <1>2, <2>1, DoneKept DEF GateInv, KeyOf
  <2> QED
    BY <2>6, <2>7 DEF GateInv
<1>5. ASSUME NEW u \in Thread,
             \/ \E c \in Case : Decide(u, c)
             \/ CheckDaily(u) \/ CheckFailure(u) \/ Grant(u) \/ Dispatch(u) \/ SaveRow(u)
      PROVE  GateInv(p, t)'
  <2>1. CASE u # t
    BY <1>2, <1>5, <2>1, OthersKeep
  <2>2. CASE u = t /\ \E c \in Case : Decide(t, c)
    BY <1>2, <2>2, OwnDecision
  <2>3. CASE u = t /\ Dispatch(t)
    BY <1>2, <2>3, OwnDispatch
  <2>4. CASE u = t /\ (CheckDaily(t) \/ CheckFailure(t) \/ Grant(t) \/ SaveRow(t))
    BY <1>2, <2>4, OwnStep
  <2> QED
    BY <1>5, <2>1, <2>2, <2>3, <2>4
<1> QED
  BY <1>1, <1>3, <1>4, <1>5, Zenon DEF Next

LEMMA InitRemediation == Init => RemediationInv
<1> SUFFICES ASSUME Init PROVE RemediationInv
  OBVIOUS
<1>1. TypeOK
  BY InitTyped
<1>2. TimeInv
  BY Bounds DEF Init, TimeInv
<1>3. \A T : Hits(effects, T) = {}
  BY DEF Init, Hits
<1>4. \A T : Cardinality(Hits(effects, T)) = 0
  BY <1>3, FS_EmptySet
<1>5. Most \in Nat /\ faults = 0 /\ faults * Most = 0
  <2>1. Most \in Nat /\ faults = 0
    BY MostThreads DEF Init
  <2> DEFINE m == Most
  <2> HIDE DEF m
  <2>2. m \in Nat => 0 * m = 0
    OBVIOUS
  <2> QED
    BY <2>1, <2>2 DEF m
<1>6. AuditInv
  <2> SUFFICES ASSUME NEW w \in Int
               PROVE  Cardinality(EffectsFrom(w))
                        <= Cardinality(AutosFrom(w)) + Cardinality(Auditors) + faults * Most
    BY DEF AuditInv
  <2>1. Cardinality(EffectsFrom(w)) = 0
    BY <1>4 DEF EffectsFrom
  <2>2. Cardinality(AutosFrom(w)) \in Nat /\ Cardinality(Auditors) \in Nat
    BY <1>1, Counts DEF AutosFrom
  <2> QED
    BY <1>5, <2>1, <2>2
<1>7. CapInv
  <2>1. Cardinality(EffectsFrom(Midnight)) = 0
    BY <1>4 DEF EffectsFrom
  <2>2. Cleared = {}
    BY DEF Init, Cleared, Standing, ClearedAt
  <2>3. Cardinality(Cleared) = 0
    BY <2>2, FS_EmptySet
  <2>4. Cardinality(Thread) \in Nat /\ Cardinality(Thread) # 0 /\ MaxPerDay \in Nat
    BY Bounds, RemediationAssumption, FS_EmptySet
  <2> QED
    BY <1>5, <2>1, <2>3, <2>4 DEF CapInv
<1>8. FailureInv
  <2> SUFFICES ASSUME NEW p \in Process, NEW t \in Thread PROVE GateInv(p, t)
    BY DEF FailureInv
  <2>1. gate[p] = FreshGate /\ pc[t] = "idle" /\ effects = <<>> /\ MaxPerFailure \in Nat
    BY Bounds DEF Init
  <2>2. Day(clock) >= 0
    <3>1. 0 \div DayLen = 0 /\ 0 <= clock /\ clock \in Int
      BY Bounds DEF Init
    <3> QED
      BY <3>1, Bounds, DivMonotone DEF Day
  <2>3. DecisionInv(p, t)
    <3>1. Day(clock) \in Int
      BY <1>1, DayInt DEF TypeOK
    <3> QED
      BY <2>1, <2>2, <3>1 DEF DecisionInv, FreshGate
  <2>4. DoneInv(p, t)
    BY <1>4, <2>1 DEF DoneInv, Done, FreshGate
  <2> QED
    BY <2>3, <2>4 DEF GateInv
<1> QED
  BY <1>1, <1>2, <1>6, <1>7, <1>8 DEF RemediationInv

\* The invariant is inductive.
THEOREM RemediationInductive == Spec => []RemediationInv
<1>1. RemediationInv /\ [Next]_vars => RemediationInv'
  BY StepTyped, StepTime, StepAudit, StepCap, StepFailure, Zenon DEF RemediationInv
<1> QED
  BY InitRemediation, <1>1, PTL DEF Spec

(***************************************************************************)
(* The properties                                                          *)
(***************************************************************************)

LEMMA AuditorsAre == Auditors = Auditing
BY DEF Auditors, Auditing, Standing

\* EffectsAudited: what reached a machine is in the audit trail, is about to
\* be, or was lost to a fault, which costs at most as many rows as one process
\* has threads.
THEOREM AuditComplete == Spec => []EffectsAudited
<1>1. RemediationInv => EffectsAudited
  <2> SUFFICES ASSUME RemediationInv PROVE EffectsAudited
    OBVIOUS
  <2>1. TypeOK /\ TimeInv /\ AuditInv /\ DayLen \in Int
    BY Bounds DEF RemediationInv
  <2>2. effects \in Seq(EffectType)
    BY <2>1 DEF TypeOK, EffectType
  <2>3. EffectsFrom(DayLen) = 1..Len(effects) /\ Len(effects) \in Nat
    <3>1. \A i \in DOMAIN effects : effects[i] \in EffectType /\ effects[i].at >= DayLen
      BY <2>1, EffectTypes DEF TimeInv
    <3>2. EffectsFrom(DayLen) = DOMAIN effects
      BY <3>1 DEF EffectsFrom, Hits
    <3> QED
      BY <2>2, <3>2
  <2>4. Cardinality(EffectsFrom(DayLen)) = Len(effects)
    <3>1. Len(effects) \in Int /\ 1 \in Int
      BY <2>3
    <3>2. Cardinality(1..Len(effects)) = IF 1 > Len(effects) THEN 0 ELSE Len(effects) - 1 + 1
      BY <3>1, FS_Interval
    <3> QED
      BY <2>3, <3>2
  <2>5. rows \in Seq(RowType)
    BY <2>1 DEF TypeOK, RowType
  <2>6. Cardinality(AutosFrom(DayLen)) <= Cardinality(Autos) /\ Cardinality(Autos) \in Nat
        /\ Cardinality(AutosFrom(DayLen)) \in Nat
    <3> DEFINE T == {r \in RowType : r.type = "auto_remediate"}
    <3>1. \A i \in DOMAIN rows : rows[i] \in RowType
      BY <2>5
    <3>2. Autos = Hits(rows, T)
      BY <3>1 DEF Autos, Hits
    <3>3. AutosFrom(DayLen) \subseteq Autos
      BY DEF AutosFrom, Autos, Hits
    <3>4. IsFiniteSet(Autos) /\ Cardinality(Autos) \in Nat
      BY <2>5, <3>2, HitsFinite
    <3> QED
      BY <2>1, <3>3, <3>4, FS_Subset, Counts DEF AutosFrom
  <2>7. Len(effects) <= Cardinality(Autos) + Cardinality(Auditing) + faults * Most
    <3>1. Cardinality(EffectsFrom(DayLen))
            <= Cardinality(AutosFrom(DayLen)) + Cardinality(Auditors) + faults * Most
      BY <2>1 DEF AuditInv
    <3>2. Cardinality(Auditors) \in Nat /\ faults * Most \in Nat
      BY <2>1, Counts, Paid
    <3> QED
      BY <2>3, <2>4, <2>6, <3>1, <3>2, AuditorsAre
  <2> QED
    BY <2>7, MostThreads DEF EffectsAudited, Most
<1> QED
  BY <1>1, RemediationInductive, PTL

\* DailyCapHeld, for the store that counts (sqlite): the remediations of one
\* day stay within the limit plus what was already past the check, whatever
\* the processes, their restarts and midnight do.
THEOREM DailyCap == ASSUME Backend = "sqlite" PROVE Spec => []DailyCapHeld
<1>1. RemediationInv => DailyCapHeld
  <2> SUFFICES ASSUME RemediationInv PROVE DailyCapHeld
    OBVIOUS
  <2>1. TypeOK /\ CapInv
    BY DEF RemediationInv
  <2> DEFINE today == {i \in DOMAIN effects : effects[i].at >= Midnight}
  <2>2. EffectsFrom(Midnight) = today
    <3>1. \A i \in DOMAIN effects : effects[i] \in EffectType
      BY <2>1, EffectTypes
    <3> QED
      BY <3>1 DEF EffectsFrom, Hits
  <2>3. Cardinality(EffectsFrom(Midnight)) \in Nat /\ Cardinality(Cleared) \in Nat
    BY <2>1, Counts DEF EffectsFrom
  <2>4. /\ MaxPerDay + Cardinality(Thread) - 1 \in Int
        /\ faults * Most \in Nat
    <3>1. faults \in Nat
      BY <2>1 DEF TypeOK
    <3>2. MaxPerDay \in Nat /\ Cardinality(Thread) \in Nat
      BY Bounds
    <3> QED
      BY <3>1, <3>2, Paid
  <2>5. Cardinality(today) <= MaxPerDay + Cardinality(Thread) - 1 + faults * Most
    <3>1. Cardinality(EffectsFrom(Midnight)) + Cardinality(Cleared)
            <= MaxPerDay + Cardinality(Thread) - 1 + faults * Most
      BY <2>1 DEF CapInv
    <3> QED
      BY <2>2, <2>3, <2>4, <3>1
  <2> QED
    BY <2>5, MostThreads, Zenon DEF DailyCapHeld, Most, Midnight
<1> QED
  BY <1>1, RemediationInductive, PTL

\* FailureCapHeld: a process with one thread that is not restarted never acts
\* on the same failure more often than the limit on its decisions of one day.
THEOREM FailureCap == Spec => []FailureCapHeld
<1>1. RemediationInv => FailureCapHeld
  <2> SUFFICES ASSUME RemediationInv, NEW p \in Process, NEW f \in Failure,
                      faults = 0, Cardinality(ThreadsOf(p)) = 1,
                      NEW d \in {Day(effects[i].since) : i \in DOMAIN effects}
               PROVE  Cardinality({i \in DOMAIN effects :
                         /\ effects[i].proc = p /\ effects[i].failure = f
                         /\ Day(effects[i].since) = d}) <= MaxPerFailure
    BY Zenon DEF FailureCapHeld
  <2>1. TypeOK /\ FailureInv
    BY DEF RemediationInv
  <2>2. \A i \in DOMAIN effects : effects[i] \in EffectType /\ effects[i].since \in Int
    BY <2>1, EffectTypes
  <2>3. d \in Int
    BY <2>2, DayInt
  <2>4. PICK t : ThreadsOf(p) = {t}
    BY MostThreads, FS_Singleton
  <2>5. t \in Thread
    BY <2>4 DEF ThreadsOf
  <2>6. GateInv(p, t)
    BY <2>1, <2>4, <2>5 DEF FailureInv, Alone
  <2>7. Cardinality(Done(p, f, d)) <= MaxPerFailure
    BY <2>3, <2>6 DEF GateInv, DoneInv
  <2>8. Done(p, f, d) = {i \in DOMAIN effects :
                         /\ effects[i].proc = p /\ effects[i].failure = f
                         /\ Day(effects[i].since) = d}
    BY <2>2 DEF Done, Hits
  <2> QED
    BY <2>7, <2>8
<1> QED
  BY <1>1, RemediationInductive, PTL

=============================================================================
