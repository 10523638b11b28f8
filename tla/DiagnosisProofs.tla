--------------------------- MODULE DiagnosisProofs ---------------------------
(***************************************************************************)
(* What Diagnosis promises, for every number of flows and threads, every   *)
(* limit, time zone and length of the day, and every number of attempts    *)
(* and store errors.                                                       *)
(*                                                                         *)
(* The budgets are proved by counting: what was asked or paid is matched   *)
(* with a row or with the thread that is about to write it.  The page of   *)
(* an outage is proved from what a thread knows of its own failed row      *)
(* while it decides whether to page.                                       *)
(***************************************************************************)
EXTENDS Diagnosis, FiniteSetTheorems, TLAPS

(***************************************************************************)
(* The detector's flag                                                     *)
(***************************************************************************)

\* What AlertFlagOwned needs to be inductive: where the threads stand and the
\* flags, as functions.
FlagInv ==
  /\ pc \in [Thread -> PC]
  /\ alerting \in [Flow -> BOOLEAN]
  /\ AlertFlagOwned

THEOREM InitFlagInv == Init => FlagInv
<1> SUFFICES ASSUME Init PROVE FlagInv
  OBVIOUS
<1>1. pc \in [Thread -> PC] /\ alerting \in [Flow -> BOOLEAN]
  BY DEF Init, PC
<1>2. AlertFlagOwned
  BY DEF Init, AlertFlagOwned
<1> QED BY <1>1, <1>2 DEF FlagInv

\* A thread that moves between two places other than the dispatch of the
\* alert takes no flag's owner away.
LEMMA MoveElsewhere ==
  ASSUME FlagInv, NEW t \in Thread, NEW p \in PC,
         pc[t] # "page", Move(t, p), UNCHANGED alerting
  PROVE  FlagInv'
<1>1. pc' \in [Thread -> PC] /\ alerting' \in [Flow -> BOOLEAN]
  BY DEF FlagInv, Move
<1>2. ASSUME NEW f \in Flow, alerting'[f]
      PROVE  \E u \in Thread : FlowOf[u] = f /\ pc'[u] = "page"
  <2>1. PICK u \in Thread : FlowOf[u] = f /\ pc[u] = "page"
    BY <1>2 DEF FlagInv, AlertFlagOwned
  <2>2. pc'[u] = "page"
    BY <2>1 DEF FlagInv, Move
  <2> QED BY <2>1, <2>2
<1> QED BY <1>1, <1>2 DEF FlagInv, AlertFlagOwned

\* A thread that takes its flow's flag down may leave the dispatch.
LEMMA FlagDown ==
  ASSUME FlagInv, NEW t \in Thread, NEW p \in PC, Move(t, p),
         alerting' = [alerting EXCEPT ![FlowOf[t]] = FALSE]
  PROVE  FlagInv'
<1>0. FlowOf[t] \in Flow
  BY DiagnosisAssumption
<1>1. pc' \in [Thread -> PC] /\ alerting' \in [Flow -> BOOLEAN]
  BY <1>0 DEF FlagInv, Move
<1>2. ASSUME NEW f \in Flow, alerting'[f]
      PROVE  \E u \in Thread : FlowOf[u] = f /\ pc'[u] = "page"
  <2>1. f # FlowOf[t] /\ alerting[f]
    BY <1>0, <1>2 DEF FlagInv
  <2>2. PICK u \in Thread : FlowOf[u] = f /\ pc[u] = "page"
    BY <2>1 DEF FlagInv, AlertFlagOwned
  <2>3. pc'[u] = "page"
    BY <2>1, <2>2 DEF FlagInv, Move
  <2> QED BY <2>2, <2>3
<1> QED BY <1>1, <1>2 DEF FlagInv, AlertFlagOwned

\* A thread that puts its flow's flag up enters the dispatch.
LEMMA FlagUp ==
  ASSUME FlagInv, NEW t \in Thread, BeginAlert(t)
  PROVE  FlagInv'
<1>0. FlowOf[t] \in Flow
  BY DiagnosisAssumption
<1>1. pc' \in [Thread -> PC] /\ alerting' \in [Flow -> BOOLEAN]
  BY <1>0 DEF FlagInv, BeginAlert, Move, PC
<1>2. ASSUME NEW f \in Flow, alerting'[f]
      PROVE  \E u \in Thread : FlowOf[u] = f /\ pc'[u] = "page"
  <2>1. CASE f = FlowOf[t]
    <3>1. pc'[t] = "page"
      BY DEF FlagInv, BeginAlert, Move
    <3> QED BY <2>1, <3>1
  <2>2. CASE f # FlowOf[t]
    <3>1. alerting[f]
      BY <1>0, <1>2, <2>2 DEF FlagInv, BeginAlert
    <3>2. PICK u \in Thread : FlowOf[u] = f /\ pc[u] = "page"
      BY <3>1 DEF FlagInv, AlertFlagOwned
    <3>3. pc'[u] = "page"
      BY <3>2 DEF FlagInv, BeginAlert, Move
    <3> QED BY <3>2, <3>3
  <2> QED BY <2>1, <2>2
<1> QED BY <1>1, <1>2 DEF FlagInv, AlertFlagOwned

\* A store error: the detector's finally takes the flag down, an error
\* anywhere else leaves the flag as it is.
LEMMA FlagAfterError ==
  ASSUME FlagInv, NEW t \in Thread, StoreRaises(t)
  PROVE  FlagInv'
<1>0. FlowOf[t] \in Flow
  BY DiagnosisAssumption
<1>1. PICK p \in PC : Move(t, p)
  BY DEF StoreRaises, PC
<1>2. CASE pc[t] = "page"
  <2>1. alerting' = [alerting EXCEPT ![FlowOf[t]] = FALSE]
    BY <1>2 DEF StoreRaises
  <2> QED BY <1>1, <2>1, FlagDown
<1>3. CASE pc[t] # "page"
  <2>1. alerting' = [alerting EXCEPT ![FlowOf[t]] = alerting[FlowOf[t]]]
    BY <1>0, <1>3 DEF StoreRaises, FlagInv
  <2>2. UNCHANGED alerting
    BY <1>0, <2>1 DEF FlagInv
  <2> QED BY <1>1, <1>3, <2>2, MoveElsewhere
<1> QED BY <1>2, <1>3

LEMMA StepFlagInv ==
  ASSUME FlagInv, NEW t \in Thread, Begin(t) \/ Step(t)
  PROVE  FlagInv'
<1>1. CASE BeginAlert(t)
  BY <1>1, FlagUp
<1>2. CASE SendAlert(t)
  <2>1. Move(t, "idle") /\ alerting' = [alerting EXCEPT ![FlowOf[t]] = FALSE]
    BY <1>2 DEF SendAlert
  <2>2. "idle" \in PC
    BY DEF PC
  <2> QED BY <2>1, <2>2, FlagDown
<1>3. CASE StoreRaises(t)
  BY <1>3, FlagAfterError
<1>4. CASE Begin(t) \/ Lookup(t) \/ SaveDiagnosis(t) \/ SaveSent(t)
             \/ SaveDegraded(t) \/ SaveFailed(t) \/ CallLlm(t)
  <2>1. \E p \in PC : pc[t] # "page" /\ Move(t, p) /\ UNCHANGED alerting
    BY <1>4 DEF Begin, Lookup, SaveDiagnosis, SaveSent, SaveDegraded, SaveFailed,
                CallLlm, PC
  <2> QED BY <2>1, MoveElsewhere
<1>5. CASE CheckBudget(t) \/ CheckCost(t) \/ CheckStreak(t) \/ CheckFirstToday(t)
  <2>1. \E p \in PC : pc[t] # "page" /\ Move(t, p) /\ UNCHANGED alerting
    BY <1>5 DEF CheckBudget, CheckCost, CheckStreak, CheckFirstToday, PC
  <2> QED BY <2>1, MoveElsewhere
<1> QED BY <1>1, <1>2, <1>3, <1>4, <1>5 DEF Step

LEMMA NextFlagInv == FlagInv /\ [Next]_vars => FlagInv'
<1> SUFFICES ASSUME FlagInv, [Next]_vars PROVE FlagInv'
  OBVIOUS
<1>1. ASSUME NEW t \in Thread, Begin(t) \/ Step(t) PROVE FlagInv'
  BY <1>1, StepFlagInv
<1>2. CASE Tick \/ Rest \/ UNCHANGED vars
  <2>1. UNCHANGED <<pc, alerting>>
    BY <1>2 DEF Tick, Rest, vars
  <2> QED BY <2>1 DEF FlagInv, AlertFlagOwned
<1> QED BY <1>1, <1>2 DEF Next

\* The detector of a diagnosis outage is never left switched off: its
\* re-entrance flag is up only while a thread of the flow sends the alert.
THEOREM DetectorNeverStuck == Spec => []AlertFlagOwned
<1>1. FlagInv => AlertFlagOwned
  BY DEF FlagInv
<1> QED BY InitFlagInv, NextFlagInv, <1>1, PTL DEF Spec

(***************************************************************************)
(* Types                                                                   *)
(***************************************************************************)

DiagnosisRow ==
  [type : {"diagnosis"}, flow : Flow, at : Int, status : {"sent", "failed", "degraded"}]
Ask == [flow : Flow, at : Int]

LEMMA Bounds ==
  /\ DayLen \in Nat /\ DayLen > 0 /\ ZoneOffset \in Int
  /\ DailyBudget \in Nat /\ CostCap \in Nat /\ Threshold \in Nat
  /\ Cardinality(Thread) \in Nat /\ IsFiniteSet(Thread)
  /\ \A t \in Thread : FlowOf[t] \in Flow
BY DiagnosisAssumption, ClockAssumption, FS_CardinalityType

\* A step that only moves a thread, counts a fault or lowers a flag.
LEMMA TypesMove ==
  ASSUME TypeOK, NEW t \in Thread, NEW p \in PC, Move(t, p),
         alerting' \in [Flow -> BOOLEAN], attempts' \in Nat, faults' \in Nat,
         UNCHANGED <<clock, actions, diagnoses, row, asked, pages>>
  PROVE  TypeOK'
BY DEF TypeOK, Move

\* A step that saves a row of the diagnosis's outcome.
LEMMA TypesSave ==
  ASSUME TypeOK, NEW t \in Thread, NEW p \in PC, Move(t, p),
         NEW s \in {"sent", "failed", "degraded"}, Save(t, s),
         row' = row \/ row' = [row EXCEPT ![t] = Len(actions) + 1],
         UNCHANGED <<clock, diagnoses, alerting, attempts, faults, asked, pages>>
  PROVE  TypeOK'
<1> DEFINE e == [type |-> "diagnosis", flow |-> FlowOf[t], status |-> s, at |-> clock]
<1>1. /\ actions \in Seq(DiagnosisRow) /\ row \in [Thread -> 0..Len(actions)]
      /\ clock \in Int
  BY DEF TypeOK, DiagnosisRow
<1>2. e \in DiagnosisRow
  BY <1>1, Bounds DEF DiagnosisRow
<1>3. actions' = Append(actions, e)
  BY DEF Save
<1> HIDE DEF e
<1>4. actions' \in Seq(DiagnosisRow) /\ Len(actions') = Len(actions) + 1
  BY <1>1, <1>2, <1>3
<1>5. row' \in [Thread -> 0..Len(actions')]
  BY <1>1, <1>4
<1>6. pc' \in [Thread -> PC]
  BY DEF TypeOK, Move
<1> QED
  BY <1>4, <1>5, <1>6 DEF TypeOK, DiagnosisRow

LEMMA StepTypes ==
  ASSUME TypeOK, NEW t \in Thread, Begin(t) \/ Step(t)
  PROVE  TypeOK'
<1>0. /\ FlowOf[t] \in Flow /\ attempts \in Nat /\ faults \in Nat /\ clock \in Int
      /\ alerting \in [Flow -> BOOLEAN]
  BY Bounds DEF TypeOK
<1>1. CASE Begin(t) \/ Lookup(t) \/ CheckBudget(t) \/ CheckCost(t)
             \/ CheckStreak(t) \/ CheckFirstToday(t)
  <2>1. \E p \in PC : Move(t, p)
    BY <1>1 DEF Begin, Lookup, CheckBudget, CheckCost, CheckStreak, CheckFirstToday, PC
  <2>2. /\ UNCHANGED <<clock, actions, diagnoses, alerting, row, faults, asked, pages>>
        /\ attempts' \in Nat
    BY <1>0, <1>1 DEF Begin, Lookup, CheckBudget, CheckCost, CheckStreak, CheckFirstToday
  <2> QED
    BY <2>1, <2>2, <1>0, TypesMove
<1>2. CASE SaveDegraded(t) \/ SaveSent(t)
  <2>1. /\ \E s \in {"sent", "failed", "degraded"} : Save(t, s)
        /\ \E p \in PC : Move(t, p)
        /\ UNCHANGED <<row, clock, diagnoses, alerting, attempts, faults, asked, pages>>
    BY <1>2 DEF SaveDegraded, SaveSent, PC
  <2> QED
    BY <2>1, TypesSave
<1>3. CASE SaveFailed(t)
  <2>1. /\ Save(t, "failed") /\ Move(t, "check")
        /\ row' = [row EXCEPT ![t] = Len(actions) + 1]
        /\ UNCHANGED <<clock, diagnoses, alerting, attempts, faults, asked, pages>>
    BY <1>3 DEF SaveFailed
  <2>2. "check" \in PC
    BY DEF PC
  <2> QED
    BY <2>1, <2>2, TypesSave
<1>4. CASE CallLlm(t)
  <2>1. \E p \in PC : Move(t, p)
    BY <1>4 DEF CallLlm, PC
  <2>2. asked' \in Seq([flow : Flow, at : Int])
    <3>1. asked \in Seq(Ask) /\ [flow |-> FlowOf[t], at |-> clock] \in Ask
      BY <1>0 DEF TypeOK, Ask
    <3>2. \/ asked' = Append(asked, [flow |-> FlowOf[t], at |-> clock])
          \/ asked' = asked
      BY <1>4 DEF CallLlm
    <3>3. asked' \in Seq(Ask)
      BY <3>1, <3>2
    <3> QED
      BY <3>3 DEF Ask
  <2>3. UNCHANGED <<clock, actions, diagnoses, alerting, row, attempts, faults, pages>>
    BY <1>4 DEF CallLlm
  <2> QED
    BY <2>1, <2>2, <2>3 DEF TypeOK, Move
<1>5. CASE SaveDiagnosis(t)
  <2>1. Move(t, "saveSent") /\ "saveSent" \in PC
    BY <1>5 DEF SaveDiagnosis, PC
  <2>2. diagnoses' \in Seq(Int)
    BY <1>0, <1>5 DEF SaveDiagnosis, TypeOK
  <2>3. UNCHANGED <<clock, actions, asked, alerting, row, attempts, faults, pages>>
    BY <1>5 DEF SaveDiagnosis
  <2> QED
    BY <2>1, <2>2, <2>3 DEF TypeOK, Move
<1>6. CASE BeginAlert(t)
  <2>1. Move(t, "page") /\ "page" \in PC
    BY <1>6 DEF BeginAlert, PC
  <2>2. /\ alerting' \in [Flow -> BOOLEAN]
        /\ UNCHANGED <<clock, actions, diagnoses, row, attempts, faults, asked, pages>>
    BY <1>0, <1>6 DEF BeginAlert
  <2> QED
    BY <2>1, <2>2, <1>0, TypesMove
<1>7. CASE SendAlert(t)
  <2>1. Move(t, "idle") /\ "idle" \in PC
    BY <1>7 DEF SendAlert, PC
  <2>2. /\ alerting' \in [Flow -> BOOLEAN]
        /\ UNCHANGED <<clock, actions, diagnoses, row, attempts, faults, asked>>
    BY <1>0, <1>7 DEF SendAlert
  <2>3. row[t] \in Nat
    BY DEF TypeOK
  <2>4. pages' \in Seq([flow : Flow, row : Nat])
    BY <1>0, <1>7, <2>3 DEF SendAlert, TypeOK
  <2> QED
    BY <2>1, <2>2, <2>4 DEF TypeOK, Move
<1>8. CASE StoreRaises(t)
  <2>1. \E p \in PC : Move(t, p)
    BY <1>8 DEF StoreRaises, PC
  <2>2. /\ alerting' \in [Flow -> BOOLEAN]
        /\ faults' \in Nat
        /\ UNCHANGED <<clock, actions, diagnoses, row, attempts, asked, pages>>
    BY <1>0, <1>8 DEF StoreRaises
  <2> QED
    BY <2>1, <2>2, <1>0, TypesMove
<1> QED
  BY <1>1, <1>2, <1>3, <1>4, <1>5, <1>6, <1>7, <1>8 DEF Step

LEMMA InitTypes == Init => TypeOK
BY Bounds DEF Init, TypeOK, PC

LEMMA NextTypes == TypeOK /\ [Next]_vars => TypeOK'
<1> SUFFICES ASSUME TypeOK, [Next]_vars PROVE TypeOK'
  OBVIOUS
<1>1. ASSUME NEW t \in Thread, Begin(t) \/ Step(t) PROVE TypeOK'
  BY <1>1, StepTypes
<1>2. CASE Tick
  BY <1>2 DEF Tick, TypeOK
<1>3. CASE Rest \/ UNCHANGED vars
  BY <1>3 DEF Rest, vars, TypeOK
<1> QED
  BY <1>1, <1>2, <1>3 DEF Next

\* Every outcome is a row of one of three statuses, and a thread's row is one
\* of the table.
THEOREM TypeCorrect == Spec => []TypeOK
<1> QED
  BY InitTypes, NextTypes, PTL DEF Spec

(***************************************************************************)
(* Counting                                                                *)
(***************************************************************************)

LEMMA DayStartMonotone ==
  ASSUME NEW a \in Int, NEW b \in Int, a <= b
  PROVE  DayStart(a) \in Int /\ DayStart(b) \in Int /\ DayStart(a) <= DayStart(b)
<1> DEFINE n == DayLen
           q == (a + ZoneOffset) \div n
           r == (b + ZoneOffset) \div n
<1>0. /\ n \in Nat /\ n > 0 /\ a + ZoneOffset \in Int /\ b + ZoneOffset \in Int
      /\ a + ZoneOffset <= b + ZoneOffset
  BY Bounds
<1>1. /\ q \in Int /\ r \in Int
      /\ q * n <= a + ZoneOffset /\ b + ZoneOffset < (r + 1) * n
  BY <1>0, SMT
<1> HIDE DEF n
<1>2. DayStart(a) = q * n /\ DayStart(b) = r * n
  BY DEF DayStart, n
<1> HIDE DEF q, r
<1>3. q * n < (r + 1) * n
  BY <1>0, <1>1
<1>4. q < r + 1
  <2> SUFFICES ASSUME q >= r + 1 PROVE FALSE
    BY <1>1
  <2>1. q * n >= (r + 1) * n
    BY <1>0, <1>1, SMT
  <2> QED
    BY <1>0, <1>1, <1>3, <2>1
<1>5. q * n <= r * n
  BY <1>0, <1>1, <1>4, SMT
<1> QED
  BY <1>0, <1>1, <1>2, <1>5

\* The places of a table that hold an element of T.
Hits(s, T) == {i \in DOMAIN s : s[i] \in T}

LEMMA HitsFinite ==
  ASSUME NEW S, NEW s \in Seq(S), NEW T
  PROVE  IsFiniteSet(Hits(s, T)) /\ Cardinality(Hits(s, T)) \in Nat
<1>1. DOMAIN s = 1..Len(s) /\ Len(s) \in Int
  OBVIOUS
<1>2. IsFiniteSet(1..Len(s))
  BY <1>1, FS_Interval
<1>3. Hits(s, T) \in SUBSET (1..Len(s))
  BY <1>1 DEF Hits
<1>4. IsFiniteSet(Hits(s, T))
  BY <1>2, <1>3, FS_Subset
<1> QED
  BY <1>4, FS_CardinalityType

LEMMA HitsAppend ==
  ASSUME NEW S, NEW s \in Seq(S), NEW e \in S, NEW T
  PROVE  Cardinality(Hits(Append(s, e), T))
           = Cardinality(Hits(s, T)) + (IF e \in T THEN 1 ELSE 0)
<1> DEFINE a == Append(s, e)
           n == Len(s) + 1
<1>1. /\ DOMAIN a = 1..n /\ DOMAIN s = 1..(n - 1) /\ n \in Nat /\ n > 0
      /\ \A i \in 1..(n - 1) : a[i] = s[i]
      /\ a[n] = e
  OBVIOUS
<1> HIDE DEF a, n
<1>2. IsFiniteSet(Hits(s, T)) /\ Cardinality(Hits(s, T)) \in Nat
  BY HitsFinite
<1>3. n \notin Hits(s, T)
  BY <1>1 DEF Hits
<1>4. CASE e \in T
  <2>1. Hits(a, T) = Hits(s, T) \cup {n}
    <3>1. 1..n = (1..(n - 1)) \cup {n}
      BY <1>1
    <3>2. ASSUME NEW i PROVE i \in Hits(a, T) <=> i \in Hits(s, T) \cup {n}
      BY <1>1, <1>4, <3>1 DEF Hits
    <3> QED
      BY <3>2
  <2> QED
    BY <2>1, <1>2, <1>3, <1>4, FS_AddElement DEF a
<1>5. CASE e \notin T
  <2>1. Hits(a, T) = Hits(s, T)
    BY <1>1, <1>5 DEF Hits
  <2> QED
    BY <2>1, <1>2, <1>5 DEF a
<1> QED
  BY <1>4, <1>5

LEMMA HitsSubset ==
  ASSUME NEW S, NEW s \in Seq(S), NEW T, NEW U, S \cap T \subseteq U
  PROVE  Cardinality(Hits(s, T)) <= Cardinality(Hits(s, U))
<1>1. Hits(s, T) \subseteq Hits(s, U)
  <2>1. \A i \in DOMAIN s : s[i] \in S
    OBVIOUS
  <2> QED
    BY <2>1 DEF Hits
<1> QED
  BY <1>1, HitsFinite, FS_Subset

\* The threads of G at one of the places in Q, and how a move changes them.
Standing(G, places, Q) == {u \in G : places[u] \in Q}

LEMMA StandingFinite ==
  ASSUME NEW G \in SUBSET Thread, NEW places, NEW Q
  PROVE  /\ IsFiniteSet(Standing(G, places, Q))
         /\ Cardinality(Standing(G, places, Q)) \in Nat
         /\ Cardinality(Standing(G, places, Q)) <= Cardinality(G)
         /\ Cardinality(G) \in Nat /\ IsFiniteSet(G)
<1>1. IsFiniteSet(G) /\ Cardinality(G) \in Nat
  BY Bounds, FS_Subset, FS_CardinalityType
<1>2. Standing(G, places, Q) \in SUBSET G
  BY DEF Standing
<1> QED
  BY <1>1, <1>2, FS_Subset, FS_CardinalityType

LEMMA StandingMove ==
  ASSUME NEW G \in SUBSET Thread, NEW places, NEW moved, NEW t \in G, NEW Q,
         \A u \in G \ {t} : moved[u] = places[u]
  PROVE  Cardinality(Standing(G, moved, Q))
           = Cardinality(Standing(G, places, Q))
               + (IF moved[t] \in Q THEN 1 ELSE 0) - (IF places[t] \in Q THEN 1 ELSE 0)
<1> DEFINE A == Standing(G, places, Q)
           B == Standing(G, moved, Q)
<1>1. /\ IsFiniteSet(A) /\ Cardinality(A) \in Nat
      /\ IsFiniteSet(B) /\ Cardinality(B) \in Nat
  BY StandingFinite
<1>2. /\ t \in A <=> places[t] \in Q
      /\ t \in B <=> moved[t] \in Q
      /\ B \ {t} = A \ {t}
  BY DEF Standing
<1> HIDE DEF A, B
<1>3. /\ Cardinality(A \ {t}) = Cardinality(A) - (IF places[t] \in Q THEN 1 ELSE 0)
      /\ Cardinality(B \ {t}) = Cardinality(B) - (IF moved[t] \in Q THEN 1 ELSE 0)
  <2>1. /\ Cardinality(A \ {t}) = IF t \in A THEN Cardinality(A) - 1 ELSE Cardinality(A)
        /\ Cardinality(B \ {t}) = IF t \in B THEN Cardinality(B) - 1 ELSE Cardinality(B)
    BY <1>1, FS_RemoveElement
  <2> QED
    BY <2>1, <1>1, <1>2
<1>4. Cardinality(A \ {t}) = Cardinality(B \ {t})
  BY <1>2
<1>5. Cardinality(B) = Cardinality(A) + (IF moved[t] \in Q THEN 1 ELSE 0)
                         - (IF places[t] \in Q THEN 1 ELSE 0)
  BY <1>1, <1>3, <1>4
<1> QED
  BY <1>5 DEF A, B

\* Threads outside the group do not count.
LEMMA StandingElsewhere ==
  ASSUME NEW G \in SUBSET Thread, NEW places, NEW moved, NEW t \in Thread \ G, NEW Q,
         \A u \in Thread \ {t} : moved[u] = places[u]
  PROVE  Standing(G, moved, Q) = Standing(G, places, Q)
BY DEF Standing

LEMMA MoveIs ==
  ASSUME TypeOK, NEW t \in Thread, NEW p, Move(t, p)
  PROVE  /\ pc'[t] = p /\ \A u \in Thread \ {t} : pc'[u] = pc[u]
         /\ pc' = [pc EXCEPT ![t] = p]
BY DEF TypeOK, Move

(***************************************************************************)
(* The cost cap                                                            *)
(***************************************************************************)

\* A thread that was let past the cap and has not stored its diagnosis yet
\* may be one too many, as may every other.
Spending == {"llm", "saveDiagnosis"}
CostInv ==
  CostCap > 0 =>
    CostToday + Cardinality(Standing(Thread, pc, Spending))
      <= CostCap - 1 + Cardinality(Thread)

Since(d) == {e \in Int : e >= d}

LEMMA CostIs ==
  ASSUME TypeOK
  PROVE  CostToday = Cardinality(Hits(diagnoses, Since(DayStart(clock))))
         /\ CostToday \in Nat
<1>1. diagnoses \in Seq(Int) /\ clock \in Int
  BY DEF TypeOK
<1>2. \A i \in DOMAIN diagnoses : diagnoses[i] \in Int
  BY <1>1
<1>3. {i \in DOMAIN diagnoses : diagnoses[i] >= DayStart(clock)}
        = Hits(diagnoses, Since(DayStart(clock)))
  BY <1>2 DEF Hits, Since
<1> QED
  BY <1>1, <1>3, HitsFinite DEF CostToday

\* A step that spends nothing and admits nobody.
LEMMA CostMove ==
  ASSUME TypeOK, CostInv, NEW t \in Thread, NEW p, Move(t, p),
         p \in Spending => pc[t] \in Spending, UNCHANGED <<clock, diagnoses>>
  PROVE  CostInv'
<1>1. Cardinality(Standing(Thread, pc', Spending))
        = Cardinality(Standing(Thread, pc, Spending))
            + (IF pc'[t] \in Spending THEN 1 ELSE 0)
            - (IF pc[t] \in Spending THEN 1 ELSE 0)
  BY StandingMove, MoveIs
<1>2. CostToday' = CostToday /\ CostToday \in Nat
  BY CostIs DEF CostToday
<1>3. /\ Cardinality(Standing(Thread, pc, Spending)) \in Nat
      /\ Cardinality(Standing(Thread, pc', Spending)) \in Nat
  BY StandingFinite
<1>4. pc'[t] \in Spending => pc[t] \in Spending
  BY MoveIs
<1> QED
  BY <1>1, <1>2, <1>3, <1>4, Bounds DEF CostInv

LEMMA CostPassed ==
  ASSUME TypeOK, CostInv, NEW t \in Thread, CheckCost(t)
  PROVE  CostInv'
<1>1. CASE CostToday >= CostCap
  <2>1. Move(t, "saveDegraded") /\ UNCHANGED <<clock, diagnoses>>
    BY <1>1 DEF CheckCost
  <2>2. "saveDegraded" \notin Spending
    BY DEF Spending
  <2> QED
    BY <2>1, <2>2, CostMove
<1>2. CASE CostToday < CostCap
  <2>1. CostToday' = CostToday /\ CostToday \in Nat
    BY CostIs DEF CheckCost, CostToday
  <2>2. Cardinality(Standing(Thread, pc', Spending)) <= Cardinality(Thread)
        /\ Cardinality(Standing(Thread, pc', Spending)) \in Nat
    BY StandingFinite
  <2> QED
    BY <1>2, <2>1, <2>2, Bounds DEF CostInv
<1> QED
  BY <1>1, <1>2, CostIs, Bounds

LEMMA CostSpent ==
  ASSUME TypeOK, CostInv, NEW t \in Thread, SaveDiagnosis(t)
  PROVE  CostInv'
<1>0. TypeOK'
  BY StepTypes DEF Step
<1>1. /\ Move(t, "saveSent") /\ pc[t] = "saveDiagnosis"
      /\ diagnoses' = Append(diagnoses, clock) /\ clock' = clock
  BY DEF SaveDiagnosis
<1>2. Cardinality(Standing(Thread, pc', Spending))
        = Cardinality(Standing(Thread, pc, Spending))
            + (IF pc'[t] \in Spending THEN 1 ELSE 0)
            - (IF pc[t] \in Spending THEN 1 ELSE 0)
  <2>1. \A u \in Thread \ {t} : pc'[u] = pc[u]
    BY <1>1, MoveIs
  <2> QED
    BY <2>1, StandingMove
<1>3. pc'[t] \notin Spending /\ pc[t] \in Spending
  BY <1>1, MoveIs DEF Spending
<1>4. clock \in Int /\ diagnoses \in Seq(Int)
  BY DEF TypeOK
<1>5. CostToday' = Cardinality(Hits(diagnoses', Since(DayStart(clock'))))
  <2>1. diagnoses' \in Seq(Int) /\ clock' \in Int
    BY <1>0 DEF TypeOK
  <2>2. \A i \in DOMAIN diagnoses' : diagnoses'[i] \in Int
    BY <2>1
  <2> QED
    BY <2>2 DEF CostToday, Hits, Since
<1>6. CostToday' <= CostToday + 1 /\ CostToday' \in Nat /\ CostToday \in Nat
  <2>1. Cardinality(Hits(Append(diagnoses, clock), Since(DayStart(clock))))
          = Cardinality(Hits(diagnoses, Since(DayStart(clock))))
              + (IF clock \in Since(DayStart(clock)) THEN 1 ELSE 0)
    BY <1>4, HitsAppend
  <2>2. CostToday' = CostToday + (IF clock \in Since(DayStart(clock)) THEN 1 ELSE 0)
    BY <1>1, <1>5, <2>1, CostIs
  <2> QED
    BY <2>2, CostIs
<1>7. /\ Cardinality(Standing(Thread, pc, Spending)) \in Nat
      /\ Cardinality(Standing(Thread, pc', Spending)) \in Nat
  BY StandingFinite
<1> QED
  BY <1>2, <1>3, <1>6, <1>7, Bounds DEF CostInv

LEMMA CostLater ==
  ASSUME TypeOK, CostInv, Tick
  PROVE  CostInv'
<1>1. clock \in Int /\ clock' = clock + 1 /\ UNCHANGED <<diagnoses, pc>>
      /\ diagnoses \in Seq(Int)
  BY DEF TypeOK, Tick
<1>2. DayStart(clock) \in Int /\ DayStart(clock') \in Int /\ DayStart(clock) <= DayStart(clock')
  BY <1>1, DayStartMonotone
<1>3. Since(DayStart(clock')) \subseteq Since(DayStart(clock))
  BY <1>2 DEF Since
<1>4. CostToday' = Cardinality(Hits(diagnoses, Since(DayStart(clock'))))
  <2>1. \A i \in DOMAIN diagnoses : diagnoses[i] \in Int
    BY <1>1
  <2> QED
    BY <1>1, <2>1 DEF CostToday, Hits, Since
<1>5. CostToday' <= CostToday /\ CostToday \in Nat /\ CostToday' \in Nat
  BY <1>1, <1>3, <1>4, HitsSubset, HitsFinite, CostIs
<1>6. Cardinality(Standing(Thread, pc, Spending)) \in Nat
  BY StandingFinite
<1> QED
  BY <1>1, <1>5, <1>6, Bounds DEF CostInv

LEMMA NextCost == TypeOK /\ CostInv /\ [Next]_vars => CostInv'
<1> SUFFICES ASSUME TypeOK, CostInv, [Next]_vars PROVE CostInv'
  OBVIOUS
<1>1. ASSUME NEW t \in Thread, Begin(t) \/ Step(t) PROVE CostInv'
  <2>1. CASE CheckCost(t)
    BY <2>1, CostPassed
  <2>2. CASE SaveDiagnosis(t)
    BY <2>2, CostSpent
  <2>3. CASE CheckBudget(t)
    <3>1. CASE CostCap = 0
      BY <3>1 DEF CostInv
    <3>2. CASE CostCap > 0
      <4>1. \E p : Move(t, p) /\ p \notin Spending
        BY <2>3, <3>2 DEF CheckBudget, Spending
      <4> QED
        BY <4>1, <2>3, CostMove DEF CheckBudget
    <3> QED
      BY <3>1, <3>2, Bounds
  <2>4. CASE Begin(t) \/ Lookup(t) \/ SaveDegraded(t) \/ CallLlm(t) \/ SaveSent(t)
               \/ SaveFailed(t) \/ CheckStreak(t)
    <3>1. \E p : Move(t, p) /\ (p \in Spending => pc[t] \in Spending)
      BY <2>4 DEF Begin, Lookup, SaveDegraded, CallLlm, SaveSent, SaveFailed,
                  CheckStreak, Spending
    <3>2. UNCHANGED <<clock, diagnoses>>
      BY <2>4 DEF Begin, Lookup, SaveDegraded, CallLlm, SaveSent, SaveFailed, CheckStreak
    <3> QED
      BY <3>1, <3>2, CostMove
  <2>5. CASE CheckFirstToday(t) \/ BeginAlert(t) \/ SendAlert(t) \/ StoreRaises(t)
    <3>1. \E p : Move(t, p) /\ (p \in Spending => pc[t] \in Spending)
      BY <2>5 DEF CheckFirstToday, BeginAlert, SendAlert, StoreRaises, Spending
    <3>2. UNCHANGED <<clock, diagnoses>>
      BY <2>5 DEF CheckFirstToday, BeginAlert, SendAlert, StoreRaises
    <3> QED
      BY <3>1, <3>2, CostMove
  <2> QED
    BY <1>1, <2>1, <2>2, <2>3, <2>4, <2>5 DEF Step
<1>2. CASE Tick
  BY <1>2, CostLater
<1>3. CASE Rest \/ UNCHANGED vars
  BY <1>3 DEF Rest, vars, CostInv, CostToday
<1> QED
  BY <1>1, <1>2, <1>3 DEF Next

LEMMA InitCost == Init => CostInv
<1> SUFFICES ASSUME Init PROVE CostInv
  OBVIOUS
<1>1. CostToday = 0
  <2>1. {i \in DOMAIN diagnoses : diagnoses[i] >= DayStart(clock)} = {}
    BY DEF Init
  <2> QED
    BY <2>1, FS_EmptySet DEF CostToday
<1>2. Cardinality(Standing(Thread, pc, Spending)) = 0
  <2>1. Standing(Thread, pc, Spending) = {}
    BY DEF Standing, Spending, Init
  <2> QED
    BY <2>1, FS_EmptySet
<1> QED
  BY <1>1, <1>2, Bounds DEF CostInv

\* The daily cost of a store exceeds its cap by at most one diagnosis per
\* other thread: what each of them was let past the cap for and has not
\* stored yet, whatever fails and whenever midnight comes.
THEOREM CostHolds == Spec => []CostOverrunBounded
<1>1. TypeOK /\ CostInv => CostOverrunBounded
  <2> SUFFICES ASSUME TypeOK, CostInv, CostCap > 0
               PROVE  CostToday <= CostCap + Cardinality(Thread) - 1
    BY DEF CostOverrunBounded
  <2>1. Cardinality(Standing(Thread, pc, Spending)) \in Nat
    BY StandingFinite
  <2> QED
    BY <2>1, CostIs, Bounds DEF CostInv
<1> QED
  BY TypeCorrect, InitCost, NextCost, <1>1, PTL DEF Spec

(***************************************************************************)
(* The daily budget                                                        *)
(***************************************************************************)

Of(f) == {u \in Thread : FlowOf[u] = f}
AsksSince(f, d) == {e \in Ask : e.flow = f /\ e.at >= d}
OutcomesSince(f, d) == {e \in DiagnosisRow : e.flow = f /\ e.at >= d}

\* Past the LLM, the attempt's row not yet written; past the budget, the LLM
\* not yet asked.
Unrecorded == {"saveDiagnosis", "saveSent", "saveFailed"}
Admitted == {"cost", "llm"}

\* Of any time on, a flow's questions are recorded, about to be, or lost.
AskedInv ==
  /\ \A i \in DOMAIN asked : asked[i].at <= clock
  /\ \A f \in Flow, d \in Int :
       Cardinality(Hits(asked, AsksSince(f, d)))
         <= Cardinality(Hits(actions, OutcomesSince(f, d)))
              + Cardinality(Standing(Of(f), pc, Unrecorded)) + faults

\* Every thread of a flow may be let past the budget's last attempt.
BudgetInv ==
  \A f \in Flow : Of(f) # {} =>
    Cardinality(Hits(asked, AsksSince(f, DayStart(clock))))
      + Cardinality(Standing(Of(f), pc, Admitted))
      <= DailyBudget - 1 + Cardinality(Of(f)) + faults

LEMMA Numbers ==
  ASSUME TypeOK
  PROVE  /\ faults \in Nat /\ clock \in Int
         /\ asked \in Seq(Ask) /\ actions \in Seq(DiagnosisRow)
         /\ \A f, d : Cardinality(Hits(asked, AsksSince(f, d))) \in Nat
         /\ \A f, d : Cardinality(Hits(actions, OutcomesSince(f, d))) \in Nat
         /\ \A f : Of(f) \in SUBSET Thread /\ Cardinality(Of(f)) \in Nat
         /\ \A f, Q : Cardinality(Standing(Of(f), pc, Q)) \in Nat
<1>1. /\ faults \in Nat /\ clock \in Int
      /\ asked \in Seq(Ask) /\ actions \in Seq(DiagnosisRow)
  BY DEF TypeOK, Ask, DiagnosisRow
<1>2. \A f : Of(f) \in SUBSET Thread
  BY DEF Of
<1>3. \A f : Cardinality(Of(f)) \in Nat
  BY <1>2, StandingFinite, Zenon
<1>4. \A f, Q : Cardinality(Standing(Of(f), pc, Q)) \in Nat
  <2> TAKE f, Q
  <2> QED
    BY <1>2, StandingFinite
<1>5. \A f, d : /\ Cardinality(Hits(asked, AsksSince(f, d))) \in Nat
                /\ Cardinality(Hits(actions, OutcomesSince(f, d))) \in Nat
  BY <1>1, HitsFinite, Zenon
<1> QED
  BY <1>1, <1>2, <1>3, <1>4, <1>5

\* How the threads of a flow stand after one of them moved.
LEMMA FlowMove ==
  ASSUME TypeOK, NEW t \in Thread, NEW p, Move(t, p), NEW f, NEW Q
  PROVE  /\ FlowOf[t] = f =>
              Cardinality(Standing(Of(f), pc', Q))
                = Cardinality(Standing(Of(f), pc, Q))
                    + (IF p \in Q THEN 1 ELSE 0) - (IF pc[t] \in Q THEN 1 ELSE 0)
         /\ FlowOf[t] # f =>
              Cardinality(Standing(Of(f), pc', Q)) = Cardinality(Standing(Of(f), pc, Q))
<1>1. pc'[t] = p /\ \A u \in Thread \ {t} : pc'[u] = pc[u]
  BY MoveIs
<1>2. Of(f) \in SUBSET Thread /\ (t \in Of(f) <=> FlowOf[t] = f)
  BY DEF Of
<1>3. CASE FlowOf[t] = f
  <2>1. \A u \in Of(f) \ {t} : pc'[u] = pc[u]
    BY <1>1, <1>2
  <2>2. t \in Of(f)
    BY <1>2, <1>3
  <2>3. Cardinality(Standing(Of(f), pc', Q))
          = Cardinality(Standing(Of(f), pc, Q))
              + (IF pc'[t] \in Q THEN 1 ELSE 0) - (IF pc[t] \in Q THEN 1 ELSE 0)
    BY <1>2, <2>1, <2>2, StandingMove
  <2> QED
    BY <1>1, <1>3, <2>3
<1>4. CASE FlowOf[t] # f
  <2>1. t \in Thread \ Of(f)
    BY <1>2, <1>4
  <2>2. Standing(Of(f), pc', Q) = Standing(Of(f), pc, Q)
    BY <1>1, <1>2, <2>1, StandingElsewhere
  <2> QED
    BY <1>4, <2>2
<1> QED
  BY <1>3, <1>4

\* A move that drops no unrecorded attempt without a fault.
LEMMA AskedMove ==
  ASSUME TypeOK, AskedInv, NEW t \in Thread, NEW p, Move(t, p),
         UNCHANGED <<clock, asked, actions>>,
         faults' = faults \/ faults' = faults + 1,
         pc[t] \in Unrecorded => p \in Unrecorded \/ faults' = faults + 1
  PROVE  AskedInv'
<1> SUFFICES ASSUME NEW f \in Flow, NEW d \in Int
             PROVE  Cardinality(Hits(asked, AsksSince(f, d)))
                      <= Cardinality(Hits(actions, OutcomesSince(f, d)))
                           + Cardinality(Standing(Of(f), pc', Unrecorded)) + faults'
  BY DEF AskedInv
<1>1. Cardinality(Hits(asked, AsksSince(f, d)))
        <= Cardinality(Hits(actions, OutcomesSince(f, d)))
             + Cardinality(Standing(Of(f), pc, Unrecorded)) + faults
  BY DEF AskedInv
<1>2. /\ FlowOf[t] = f =>
           Cardinality(Standing(Of(f), pc', Unrecorded))
             = Cardinality(Standing(Of(f), pc, Unrecorded))
                 + (IF p \in Unrecorded THEN 1 ELSE 0)
                 - (IF pc[t] \in Unrecorded THEN 1 ELSE 0)
      /\ FlowOf[t] # f =>
           Cardinality(Standing(Of(f), pc', Unrecorded))
             = Cardinality(Standing(Of(f), pc, Unrecorded))
  BY FlowMove
<1>3. Cardinality(Standing(Of(f), pc, Unrecorded)) + faults
        <= Cardinality(Standing(Of(f), pc', Unrecorded)) + faults'
  <2>1. CASE FlowOf[t] = f
    BY <1>2, <2>1, Numbers
  <2>2. CASE FlowOf[t] # f
    BY <1>2, <2>2, Numbers
  <2> QED
    BY <2>1, <2>2
<1>4. Cardinality(Standing(Of(f), pc', Unrecorded)) \in Nat /\ faults' \in Nat
  <2>1. Of(f) \in SUBSET Thread
    BY DEF Of
  <2> QED
    BY <2>1, StandingFinite, Numbers
<1> QED
  BY <1>1, <1>3, <1>4, Numbers

\* The LLM is asked: one more question, one more attempt to record.
LEMMA AskedCall ==
  ASSUME TypeOK, AskedInv, NEW t \in Thread, NEW p \in Unrecorded, Move(t, p),
         pc[t] \notin Unrecorded,
         asked' = Append(asked, [flow |-> FlowOf[t], at |-> clock]),
         UNCHANGED <<clock, actions, faults>>
  PROVE  AskedInv'
<1> DEFINE e == [flow |-> FlowOf[t], at |-> clock]
<1>0. /\ asked \in Seq(Ask) /\ e \in Ask /\ clock \in Int
      /\ e.flow = FlowOf[t] /\ e.at = clock /\ asked' = Append(asked, e)
  BY Numbers, Bounds DEF Ask
<1> HIDE DEF e
<1>1. \A i \in DOMAIN asked' : asked'[i].at <= clock
  BY <1>0 DEF AskedInv
<1>2. ASSUME NEW f \in Flow, NEW d \in Int
      PROVE  Cardinality(Hits(asked', AsksSince(f, d)))
               <= Cardinality(Hits(actions, OutcomesSince(f, d)))
                    + Cardinality(Standing(Of(f), pc', Unrecorded)) + faults
  <2>1. Cardinality(Hits(asked, AsksSince(f, d)))
          <= Cardinality(Hits(actions, OutcomesSince(f, d)))
               + Cardinality(Standing(Of(f), pc, Unrecorded)) + faults
    BY DEF AskedInv
  <2>2. Cardinality(Hits(asked', AsksSince(f, d)))
          = Cardinality(Hits(asked, AsksSince(f, d))) + (IF e \in AsksSince(f, d) THEN 1 ELSE 0)
    BY <1>0, HitsAppend
  <2>3. FlowOf[t] # f => e \notin AsksSince(f, d)
    BY <1>0 DEF AsksSince
  <2>4. /\ FlowOf[t] = f =>
             Cardinality(Standing(Of(f), pc', Unrecorded))
               = Cardinality(Standing(Of(f), pc, Unrecorded))
                   + (IF p \in Unrecorded THEN 1 ELSE 0)
                   - (IF pc[t] \in Unrecorded THEN 1 ELSE 0)
        /\ FlowOf[t] # f =>
             Cardinality(Standing(Of(f), pc', Unrecorded))
               = Cardinality(Standing(Of(f), pc, Unrecorded))
    BY FlowMove
  <2> QED
    BY <2>1, <2>2, <2>3, <2>4, Numbers
<1> QED
  BY <1>1, <1>2 DEF AskedInv

\* The attempt's row is written.
LEMMA AskedSave ==
  ASSUME TypeOK, AskedInv, NEW t \in Thread, NEW p, Move(t, p), p \notin Unrecorded,
         NEW s \in {"sent", "failed", "degraded"}, Save(t, s),
         UNCHANGED <<clock, asked, faults>>
  PROVE  AskedInv'
<1> DEFINE e == [type |-> "diagnosis", flow |-> FlowOf[t], status |-> s, at |-> clock]
<1>0. /\ actions \in Seq(DiagnosisRow) /\ e \in DiagnosisRow /\ clock \in Int
      /\ e.flow = FlowOf[t] /\ e.at = clock /\ actions' = Append(actions, e)
      /\ asked \in Seq(Ask)
  BY Numbers, Bounds DEF DiagnosisRow, Save
<1> HIDE DEF e
<1>1. \A i \in DOMAIN asked : asked[i].at <= clock
  BY DEF AskedInv
<1>2. ASSUME NEW f \in Flow, NEW d \in Int
      PROVE  Cardinality(Hits(asked, AsksSince(f, d)))
               <= Cardinality(Hits(actions', OutcomesSince(f, d)))
                    + Cardinality(Standing(Of(f), pc', Unrecorded)) + faults
  <2>1. Cardinality(Hits(asked, AsksSince(f, d)))
          <= Cardinality(Hits(actions, OutcomesSince(f, d)))
               + Cardinality(Standing(Of(f), pc, Unrecorded)) + faults
    BY DEF AskedInv
  <2>2. Cardinality(Hits(actions', OutcomesSince(f, d)))
          = Cardinality(Hits(actions, OutcomesSince(f, d)))
              + (IF e \in OutcomesSince(f, d) THEN 1 ELSE 0)
    BY <1>0, HitsAppend
  <2>3. FlowOf[t] = f /\ clock >= d => e \in OutcomesSince(f, d)
    BY <1>0 DEF OutcomesSince
  <2>4. /\ FlowOf[t] = f =>
             Cardinality(Standing(Of(f), pc', Unrecorded))
               = Cardinality(Standing(Of(f), pc, Unrecorded))
                   + (IF p \in Unrecorded THEN 1 ELSE 0)
                   - (IF pc[t] \in Unrecorded THEN 1 ELSE 0)
        /\ FlowOf[t] # f =>
             Cardinality(Standing(Of(f), pc', Unrecorded))
               = Cardinality(Standing(Of(f), pc, Unrecorded))
    BY FlowMove
  <2>5. /\ Cardinality(Standing(Of(f), pc', Unrecorded)) \in Nat
        /\ Cardinality(Hits(actions', OutcomesSince(f, d))) \in Nat
    <3>1. Of(f) \in SUBSET Thread
      BY DEF Of
    <3> QED
      BY <3>1, <2>2, Numbers, StandingFinite
  <2>6. CASE clock >= d
    BY <2>1, <2>2, <2>3, <2>4, <2>6, Numbers
  <2>7. CASE clock < d
    <3>1. Hits(asked, AsksSince(f, d)) = {}
      <4> SUFFICES ASSUME NEW i \in DOMAIN asked, asked[i] \in AsksSince(f, d) PROVE FALSE
        BY DEF Hits
      <4>1. asked[i].at >= d /\ asked[i].at \in Int
        BY DEF AsksSince, Ask
      <4> QED
        BY <1>0, <1>1, <2>7, <4>1
    <3>2. Cardinality(Hits(asked, AsksSince(f, d))) = 0
      BY <3>1, FS_EmptySet
    <3> QED
      BY <3>2, <2>5, Numbers
  <2> QED
    BY <1>0, <2>6, <2>7
<1> QED
  BY <1>1, <1>2 DEF AskedInv

LEMMA StepAsked ==
  ASSUME TypeOK, AskedInv, NEW t \in Thread, Begin(t) \/ Step(t)
  PROVE  AskedInv'
<1>1. CASE Begin(t) \/ Lookup(t) \/ CheckBudget(t) \/ CheckCost(t)
  <2>1. \E p : Move(t, p)
    BY <1>1 DEF Begin, Lookup, CheckBudget, CheckCost
  <2>2. pc[t] \notin Unrecorded /\ UNCHANGED <<clock, asked, actions, faults>>
    BY <1>1 DEF Begin, Lookup, CheckBudget, CheckCost, Unrecorded
  <2> QED
    BY <2>1, <2>2, AskedMove
<1>2. CASE CheckStreak(t) \/ CheckFirstToday(t) \/ BeginAlert(t) \/ SendAlert(t)
  <2>1. \E p : Move(t, p)
    BY <1>2 DEF CheckStreak, CheckFirstToday, BeginAlert, SendAlert
  <2>2. pc[t] \notin Unrecorded /\ UNCHANGED <<clock, asked, actions, faults>>
    BY <1>2 DEF CheckStreak, CheckFirstToday, BeginAlert, SendAlert, Unrecorded
  <2> QED
    BY <2>1, <2>2, AskedMove
<1>3. CASE SaveDiagnosis(t)
  <2>1. Move(t, "saveSent") /\ "saveSent" \in Unrecorded
        /\ UNCHANGED <<clock, asked, actions, faults>>
    BY <1>3 DEF SaveDiagnosis, Unrecorded
  <2> QED
    BY <2>1, AskedMove
<1>4. CASE CallLlm(t)
  <2>1. /\ pc[t] \notin Unrecorded /\ UNCHANGED <<clock, actions, faults>>
        /\ \E p \in Unrecorded :
             /\ Move(t, p)
             /\ \/ asked' = Append(asked, [flow |-> FlowOf[t], at |-> clock])
                \/ UNCHANGED asked
    BY <1>4 DEF CallLlm, Unrecorded
  <2>2. PICK p \in Unrecorded :
          /\ Move(t, p)
          /\ \/ asked' = Append(asked, [flow |-> FlowOf[t], at |-> clock])
             \/ UNCHANGED asked
    BY <2>1
  <2>3. CASE asked' = Append(asked, [flow |-> FlowOf[t], at |-> clock])
    BY <2>1, <2>2, <2>3, AskedCall
  <2>4. CASE UNCHANGED asked
    BY <2>1, <2>2, <2>4, AskedMove
  <2> QED
    BY <2>2, <2>3, <2>4
<1>5. CASE SaveDegraded(t) \/ SaveSent(t) \/ SaveFailed(t)
  <2>1. \E s \in {"sent", "failed", "degraded"} : Save(t, s)
    BY <1>5 DEF SaveDegraded, SaveSent, SaveFailed
  <2>2. \E p : Move(t, p) /\ p \notin Unrecorded
    BY <1>5 DEF SaveDegraded, SaveSent, SaveFailed, Unrecorded
  <2>3. UNCHANGED <<clock, asked, faults>>
    BY <1>5 DEF SaveDegraded, SaveSent, SaveFailed
  <2> QED
    BY <2>1, <2>2, <2>3, AskedSave
<1>6. CASE StoreRaises(t)
  <2>1. /\ faults' = faults + 1 /\ UNCHANGED <<clock, asked, actions>>
        /\ \E p : Move(t, p)
    BY <1>6 DEF StoreRaises
  <2> QED
    BY <2>1, AskedMove
<1> QED
  BY <1>1, <1>2, <1>3, <1>4, <1>5, <1>6 DEF Step

LEMMA NextAsked == TypeOK /\ AskedInv /\ [Next]_vars => AskedInv'
<1> SUFFICES ASSUME TypeOK, AskedInv, [Next]_vars PROVE AskedInv'
  OBVIOUS
<1>1. ASSUME NEW t \in Thread, Begin(t) \/ Step(t) PROVE AskedInv'
  BY <1>1, StepAsked
<1>2. CASE Tick
  <2>1. clock' = clock + 1 /\ UNCHANGED <<asked, actions, pc, faults>>
    BY <1>2 DEF Tick
  <2>2. asked \in Seq(Ask) /\ clock \in Int
    BY Numbers
  <2>3. \A i \in DOMAIN asked : asked[i].at \in Int
    <3> TAKE i \in DOMAIN asked
    <3>1. asked[i] \in Ask
      BY <2>2
    <3> QED
      BY <3>1 DEF Ask
  <2>4. \A i \in DOMAIN asked : asked[i].at <= clock'
    BY <2>1, <2>2, <2>3 DEF AskedInv
  <2> QED
    BY <2>1, <2>4 DEF AskedInv
<1>3. CASE Rest \/ UNCHANGED vars
  BY <1>3 DEF Rest, vars, AskedInv
<1> QED
  BY <1>1, <1>2, <1>3 DEF Next

LEMMA AttemptsAre ==
  ASSUME TypeOK, NEW f \in Flow
  PROVE  /\ AttemptsToday(f) = Cardinality(Hits(actions, OutcomesSince(f, DayStart(clock))))
         /\ AttemptsToday(f) \in Nat
<1>1. actions \in Seq(DiagnosisRow)
  BY Numbers
<1>2. \A i \in DOMAIN actions : actions[i] \in DiagnosisRow /\ actions[i].type = "diagnosis"
  <2> TAKE i \in DOMAIN actions
  <2>1. actions[i] \in DiagnosisRow
    BY <1>1
  <2> QED
    BY <2>1 DEF DiagnosisRow
<1>3. ActionsToday(actions, "diagnosis", f, clock, {})
        = Hits(actions, OutcomesSince(f, DayStart(clock)))
  BY <1>2 DEF ActionsToday, Hits, OutcomesSince
<1> QED
  BY <1>3, Numbers DEF AttemptsToday, CountActionsToday

\* A move that admits nobody and asks nothing.
LEMMA BudgetMove ==
  ASSUME TypeOK, BudgetInv, NEW t \in Thread, NEW p, Move(t, p),
         p \in Admitted => pc[t] \in Admitted,
         UNCHANGED <<clock, asked>>, faults' = faults \/ faults' = faults + 1
  PROVE  BudgetInv'
<1> SUFFICES ASSUME NEW f \in Flow, Of(f) # {}
             PROVE  Cardinality(Hits(asked, AsksSince(f, DayStart(clock))))
                      + Cardinality(Standing(Of(f), pc', Admitted))
                      <= DailyBudget - 1 + Cardinality(Of(f)) + faults'
  BY DEF BudgetInv, DayStart
<1>1. Cardinality(Hits(asked, AsksSince(f, DayStart(clock))))
        + Cardinality(Standing(Of(f), pc, Admitted))
        <= DailyBudget - 1 + Cardinality(Of(f)) + faults
  BY DEF BudgetInv
<1>2. /\ FlowOf[t] = f =>
           Cardinality(Standing(Of(f), pc', Admitted))
             = Cardinality(Standing(Of(f), pc, Admitted))
                 + (IF p \in Admitted THEN 1 ELSE 0)
                 - (IF pc[t] \in Admitted THEN 1 ELSE 0)
      /\ FlowOf[t] # f =>
           Cardinality(Standing(Of(f), pc', Admitted))
             = Cardinality(Standing(Of(f), pc, Admitted))
  BY FlowMove
<1> QED
  BY <1>1, <1>2, Numbers, Bounds

\* The LLM is asked: one thread less is admitted, one question more asked.
LEMMA BudgetCall ==
  ASSUME TypeOK, BudgetInv, NEW t \in Thread, NEW p, Move(t, p), p \notin Admitted,
         pc[t] \in Admitted,
         asked' = Append(asked, [flow |-> FlowOf[t], at |-> clock]),
         UNCHANGED <<clock, faults>>
  PROVE  BudgetInv'
<1> DEFINE e == [flow |-> FlowOf[t], at |-> clock]
<1>0. /\ asked \in Seq(Ask) /\ e \in Ask /\ clock \in Int
      /\ e.flow = FlowOf[t] /\ asked' = Append(asked, e)
  BY Numbers, Bounds DEF Ask
<1> HIDE DEF e
<1> SUFFICES ASSUME NEW f \in Flow, Of(f) # {}
             PROVE  Cardinality(Hits(asked', AsksSince(f, DayStart(clock))))
                      + Cardinality(Standing(Of(f), pc', Admitted))
                      <= DailyBudget - 1 + Cardinality(Of(f)) + faults
  BY DEF BudgetInv, DayStart
<1>1. Cardinality(Hits(asked, AsksSince(f, DayStart(clock))))
        + Cardinality(Standing(Of(f), pc, Admitted))
        <= DailyBudget - 1 + Cardinality(Of(f)) + faults
  BY DEF BudgetInv
<1>2. /\ FlowOf[t] = f =>
           Cardinality(Standing(Of(f), pc', Admitted))
             = Cardinality(Standing(Of(f), pc, Admitted))
                 + (IF p \in Admitted THEN 1 ELSE 0)
                 - (IF pc[t] \in Admitted THEN 1 ELSE 0)
      /\ FlowOf[t] # f =>
           Cardinality(Standing(Of(f), pc', Admitted))
             = Cardinality(Standing(Of(f), pc, Admitted))
  BY FlowMove
<1>3. Cardinality(Hits(asked', AsksSince(f, DayStart(clock))))
        = Cardinality(Hits(asked, AsksSince(f, DayStart(clock))))
            + (IF e \in AsksSince(f, DayStart(clock)) THEN 1 ELSE 0)
  BY <1>0, HitsAppend
<1>4. FlowOf[t] # f => e \notin AsksSince(f, DayStart(clock))
  BY <1>0 DEF AsksSince
<1> QED
  BY <1>1, <1>2, <1>3, <1>4, Numbers, Bounds

\* A thread is let past the budget: what its flow asked today is in the rows
\* it counted, lost, or in the hands of its other threads.
LEMMA BudgetPassed ==
  ASSUME TypeOK, AskedInv, BudgetInv, NEW t \in Thread, CheckBudget(t)
  PROVE  BudgetInv'
<1>0. FlowOf[t] \in Flow /\ pc[t] = "budget" /\ UNCHANGED <<clock, asked, faults>>
  BY Bounds DEF CheckBudget
<1>1. CASE AttemptsToday(FlowOf[t]) >= DailyBudget
  <2>1. Move(t, "saveDegraded") /\ "saveDegraded" \notin Admitted
    BY <1>1 DEF CheckBudget, Admitted
  <2> QED
    BY <1>0, <2>1, BudgetMove
<1>2. CASE AttemptsToday(FlowOf[t]) < DailyBudget
  <2> SUFFICES ASSUME NEW f \in Flow, Of(f) # {}
               PROVE  Cardinality(Hits(asked, AsksSince(f, DayStart(clock))))
                        + Cardinality(Standing(Of(f), pc', Admitted))
                        <= DailyBudget - 1 + Cardinality(Of(f)) + faults
    BY <1>0 DEF BudgetInv, DayStart
  <2>1. PICK p \in Admitted : Move(t, p)
    <3>1. Move(t, IF CostCap > 0 THEN "cost" ELSE "llm")
      BY <1>2, Bounds, AttemptsAre, <1>0 DEF CheckBudget
    <3> QED
      BY <3>1 DEF Admitted
  <2>2. CASE FlowOf[t] # f
    <3>1. Cardinality(Standing(Of(f), pc', Admitted))
            = Cardinality(Standing(Of(f), pc, Admitted))
      BY <2>1, <2>2, FlowMove
    <3>2. Cardinality(Hits(asked, AsksSince(f, DayStart(clock))))
            + Cardinality(Standing(Of(f), pc, Admitted))
            <= DailyBudget - 1 + Cardinality(Of(f)) + faults
      BY DEF BudgetInv
    <3> QED
      BY <3>1, <3>2
  <2>3. CASE FlowOf[t] = f
    <3>1. Cardinality(Hits(asked, AsksSince(f, DayStart(clock))))
            <= AttemptsToday(f) + Cardinality(Standing(Of(f), pc, Unrecorded)) + faults
      <4>1. DayStart(clock) \in Int
        BY Numbers, DayStartMonotone
      <4> QED
        BY <4>1, AttemptsAre DEF AskedInv
    <3>2. Cardinality(Standing(Of(f), pc, Unrecorded))
            = Cardinality(Standing(Of(f), pc', Unrecorded))
      <4>1. p \notin Unrecorded /\ pc[t] \notin Unrecorded
        BY <1>0 DEF Admitted, Unrecorded
      <4>2. FlowOf[t] = f =>
              Cardinality(Standing(Of(f), pc', Unrecorded))
                = Cardinality(Standing(Of(f), pc, Unrecorded))
                    + (IF p \in Unrecorded THEN 1 ELSE 0)
                    - (IF pc[t] \in Unrecorded THEN 1 ELSE 0)
        BY <2>1, FlowMove
      <4> QED
        BY <2>3, <4>1, <4>2, Numbers
    <3>3. /\ Cardinality(Standing(Of(f), pc', Unrecorded)) \in Nat
          /\ Cardinality(Standing(Of(f), pc', Admitted)) \in Nat
          /\ Cardinality(Standing(Of(f), pc', Unrecorded))
               + Cardinality(Standing(Of(f), pc', Admitted)) <= Cardinality(Of(f))
      <4> DEFINE A == Standing(Of(f), pc', Unrecorded)
                 B == Standing(Of(f), pc', Admitted)
      <4>1. Of(f) \in SUBSET Thread
        BY DEF Of
      <4>2. IsFiniteSet(A) /\ IsFiniteSet(B) /\ IsFiniteSet(Of(f))
            /\ Cardinality(A) \in Nat /\ Cardinality(B) \in Nat
        BY <4>1, StandingFinite
      <4>3. A \cap B = {} /\ A \cup B \subseteq Of(f)
        BY DEF Standing, Unrecorded, Admitted
      <4> HIDE DEF A, B
      <4>4. Cardinality(A \cup B) = Cardinality(A) + Cardinality(B)
        <5>1. Cardinality(A \cup B) = Cardinality(A) + Cardinality(B) - Cardinality(A \cap B)
          BY <4>2, FS_Union
        <5>2. Cardinality(A \cap B) = 0
          BY <4>3, FS_EmptySet
        <5> QED
          BY <4>2, <5>1, <5>2
      <4>5. Cardinality(A \cup B) <= Cardinality(Of(f))
        BY <4>2, <4>3, FS_Subset
      <4>6. Cardinality(A) + Cardinality(B) <= Cardinality(Of(f))
        BY <4>4, <4>5
      <4> QED
        BY <4>2, <4>6 DEF A, B
    <3>4. AttemptsToday(f) \in Nat /\ AttemptsToday(f) < DailyBudget
      BY <1>2, <2>3, AttemptsAre
    <3> QED
      BY <3>1, <3>2, <3>3, <3>4, Numbers, Bounds
  <2> QED
    BY <2>2, <2>3
<1> QED
  BY <1>0, <1>1, <1>2, AttemptsAre, Bounds

LEMMA BudgetLater ==
  ASSUME TypeOK, BudgetInv, Tick
  PROVE  BudgetInv'
<1>1. clock' = clock + 1 /\ UNCHANGED <<asked, pc, faults>>
  BY DEF Tick
<1>2. clock \in Int /\ asked \in Seq(Ask)
  BY Numbers
<1>3. DayStart(clock) \in Int /\ DayStart(clock') \in Int /\ DayStart(clock) <= DayStart(clock')
  BY <1>1, <1>2, DayStartMonotone
<1> SUFFICES ASSUME NEW f \in Flow, Of(f) # {}
             PROVE  Cardinality(Hits(asked, AsksSince(f, DayStart(clock'))))
                      + Cardinality(Standing(Of(f), pc, Admitted))
                      <= DailyBudget - 1 + Cardinality(Of(f)) + faults
  BY <1>1 DEF BudgetInv
<1>4. Ask \cap AsksSince(f, DayStart(clock')) \subseteq AsksSince(f, DayStart(clock))
  BY <1>3 DEF AsksSince, Ask
<1>5. Cardinality(Hits(asked, AsksSince(f, DayStart(clock'))))
        <= Cardinality(Hits(asked, AsksSince(f, DayStart(clock))))
  BY <1>2, <1>4, HitsSubset
<1>6. Cardinality(Hits(asked, AsksSince(f, DayStart(clock))))
        + Cardinality(Standing(Of(f), pc, Admitted))
        <= DailyBudget - 1 + Cardinality(Of(f)) + faults
  BY DEF BudgetInv
<1> QED
  BY <1>5, <1>6, Numbers, Bounds

LEMMA StepBudget ==
  ASSUME TypeOK, AskedInv, BudgetInv, NEW t \in Thread, Begin(t) \/ Step(t)
  PROVE  BudgetInv'
<1>1. CASE CheckBudget(t)
  BY <1>1, BudgetPassed
<1>2. CASE CallLlm(t)
  <2>1. /\ pc[t] \in Admitted /\ UNCHANGED <<clock, faults>>
        /\ \E p : /\ p \notin Admitted /\ Move(t, p)
                  /\ \/ asked' = Append(asked, [flow |-> FlowOf[t], at |-> clock])
                     \/ UNCHANGED asked
    BY <1>2 DEF CallLlm, Admitted
  <2>2. PICK p : /\ p \notin Admitted /\ Move(t, p)
                 /\ \/ asked' = Append(asked, [flow |-> FlowOf[t], at |-> clock])
                    \/ UNCHANGED asked
    BY <2>1
  <2>3. CASE asked' = Append(asked, [flow |-> FlowOf[t], at |-> clock])
    BY <2>1, <2>2, <2>3, BudgetCall
  <2>4. CASE UNCHANGED asked
    BY <2>1, <2>2, <2>4, BudgetMove
  <2> QED
    BY <2>2, <2>3, <2>4
<1>3. CASE CheckCost(t)
  <2>1. \E p : Move(t, p) /\ pc[t] \in Admitted
    BY <1>3 DEF CheckCost, Admitted
  <2>2. UNCHANGED <<clock, asked, faults>>
    BY <1>3 DEF CheckCost
  <2> QED
    BY <2>1, <2>2, BudgetMove
<1>4. CASE Begin(t) \/ Lookup(t) \/ SaveDegraded(t) \/ SaveDiagnosis(t) \/ SaveSent(t)
             \/ SaveFailed(t)
  <2>1. \E p : Move(t, p) /\ p \notin Admitted
    BY <1>4 DEF Begin, Lookup, SaveDegraded, SaveDiagnosis, SaveSent, SaveFailed, Admitted
  <2>2. UNCHANGED <<clock, asked, faults>>
    BY <1>4 DEF Begin, Lookup, SaveDegraded, SaveDiagnosis, SaveSent, SaveFailed
  <2> QED
    BY <2>1, <2>2, BudgetMove
<1>5. CASE CheckStreak(t) \/ CheckFirstToday(t) \/ BeginAlert(t) \/ SendAlert(t)
             \/ StoreRaises(t)
  <2>1. \E p : Move(t, p) /\ p \notin Admitted
    BY <1>5 DEF CheckStreak, CheckFirstToday, BeginAlert, SendAlert, StoreRaises, Admitted
  <2>2. UNCHANGED <<clock, asked>> /\ (faults' = faults \/ faults' = faults + 1)
    BY <1>5 DEF CheckStreak, CheckFirstToday, BeginAlert, SendAlert, StoreRaises
  <2> QED
    BY <2>1, <2>2, BudgetMove
<1> QED
  BY <1>1, <1>2, <1>3, <1>4, <1>5 DEF Step

LEMMA NextBudget == TypeOK /\ AskedInv /\ BudgetInv /\ [Next]_vars => BudgetInv'
<1> SUFFICES ASSUME TypeOK, AskedInv, BudgetInv, [Next]_vars PROVE BudgetInv'
  OBVIOUS
<1>1. ASSUME NEW t \in Thread, Begin(t) \/ Step(t) PROVE BudgetInv'
  BY <1>1, StepBudget
<1>2. CASE Tick
  BY <1>2, BudgetLater
<1>3. CASE Rest \/ UNCHANGED vars
  BY <1>3 DEF Rest, vars, BudgetInv, DayStart
<1> QED
  BY <1>1, <1>2, <1>3 DEF Next

LEMMA InitBudget == Init => AskedInv /\ BudgetInv
<1> SUFFICES ASSUME Init PROVE AskedInv /\ BudgetInv
  OBVIOUS
<1>1. TypeOK
  BY InitTypes
<1>2. asked = <<>> /\ faults = 0
  BY DEF Init
<1>3. \A f, d : Cardinality(Hits(asked, AsksSince(f, d))) = 0
  <2>1. \A f, d : Hits(asked, AsksSince(f, d)) = {}
    BY <1>2 DEF Hits
  <2> QED
    BY <2>1, FS_EmptySet, Zenon
<1>4. AskedInv
  BY <1>1, <1>2, <1>3, Numbers DEF AskedInv
<1>5. ASSUME NEW f \in Flow, Of(f) # {}
      PROVE  Cardinality(Standing(Of(f), pc, Admitted)) = 0 /\ Cardinality(Of(f)) >= 1
  <2>1. Standing(Of(f), pc, Admitted) = {}
    BY DEF Standing, Of, Init, Admitted
  <2>2. Of(f) \in SUBSET Thread
    BY DEF Of
  <2>3. IsFiniteSet(Of(f)) /\ Cardinality(Of(f)) \in Nat
    BY <2>2, StandingFinite
  <2>4. Cardinality(Of(f)) # 0
    BY <1>5, <2>3, FS_EmptySet
  <2> QED
    BY <2>1, <2>3, <2>4, FS_EmptySet
<1>6. BudgetInv
  BY <1>1, <1>2, <1>3, <1>5, Numbers, Bounds DEF BudgetInv
<1> QED
  BY <1>4, <1>6

\* In a day the LLM is asked about one flow at most DailyBudget times, one
\* more for each other thread of the flow that was let past the budget before
\* the last attempt was recorded, and one more for each row a fault lost.
THEOREM LlmBudgetHolds == Spec => []LlmBudgetBounded
<1>1. TypeOK /\ BudgetInv => LlmBudgetBounded
  <2> SUFFICES ASSUME TypeOK, BudgetInv, NEW t \in Thread
               PROVE  Cardinality({i \in DOMAIN asked :
                                     asked[i].flow = FlowOf[t] /\ asked[i].at >= DayStart(clock)})
                        <= DailyBudget
                             + Cardinality({u \in Thread \ {t} : FlowOf[u] = FlowOf[t]})
                             + faults
    BY DEF LlmBudgetBounded
  <2> DEFINE f == FlowOf[t]
  <2>1. f \in Flow /\ t \in Of(f)
    BY Bounds DEF Of
  <2>2. {i \in DOMAIN asked : asked[i].flow = f /\ asked[i].at >= DayStart(clock)}
          = Hits(asked, AsksSince(f, DayStart(clock)))
    <3>1. \A i \in DOMAIN asked : asked[i] \in Ask
      BY Numbers
    <3> QED
      BY <3>1 DEF Hits, AsksSince
  <2>3. {u \in Thread \ {t} : FlowOf[u] = f} = Of(f) \ {t}
    BY DEF Of
  <2>4. Cardinality(Of(f) \ {t}) = Cardinality(Of(f)) - 1 /\ Cardinality(Of(f)) \in Nat
    <3>1. Of(f) \in SUBSET Thread
      BY DEF Of
    <3>2. IsFiniteSet(Of(f)) /\ Cardinality(Of(f)) \in Nat
      BY <3>1, StandingFinite
    <3> QED
      BY <2>1, <3>2, FS_RemoveElement
  <2>5. Cardinality(Hits(asked, AsksSince(f, DayStart(clock))))
          + Cardinality(Standing(Of(f), pc, Admitted))
          <= DailyBudget - 1 + Cardinality(Of(f)) + faults
    BY <2>1, Zenon DEF BudgetInv
  <2> HIDE DEF f
  <2>6. Cardinality(Hits(asked, AsksSince(f, DayStart(clock))))
          <= DailyBudget + Cardinality(Of(f) \ {t}) + faults
    BY <2>4, <2>5, Numbers, Bounds
  <2> QED
    BY <2>2, <2>3, <2>6 DEF f
<1> QED
  BY TypeCorrect, InitBudget, NextAsked, NextBudget, <1>1, PTL DEF Spec

(***************************************************************************)
(* The page of an outage                                                   *)
(***************************************************************************)

\* A flow is called by one thread: with two, the row of one may complete the
\* run while the other, whose row is already newer, is the first to look.
OneThreadPerFlow == \A t, u \in Thread : FlowOf[t] = FlowOf[u] => t = u

RunOf(A, k) ==
  {i \in 1..k :
     /\ A[i].flow = A[k].flow /\ A[i].status = "failed"
     /\ \A j \in i..k : A[j].flow = A[k].flow => A[j].status # "sent"}

Day(A, k) == A[k].at \div DayLen

\* Row k is the last one of flow f, and failed.
Latest(A, f, k) ==
  /\ k \in DOMAIN A /\ A[k].flow = f /\ A[k].status = "failed"
  /\ \A j \in DOMAIN A : j > k => A[j].flow # f

Paged(P, k) == \E p \in DOMAIN P : P[p].row = k

Deciders == {"check", "firstToday", "alert", "page"}
Undecided(R, c, k) == \E t \in Thread : R[t] = k /\ c[t] \in Deciders

Tables(A, P, now) ==
  /\ \A p \in DOMAIN P : P[p].row \in DOMAIN A /\ A[P[p].row].status = "failed"
  /\ \A i, j \in DOMAIN A : i <= j => A[i].at <= A[j].at
  /\ \A i \in DOMAIN A : A[i].at <= now

\* A thread that decides, at place p, whether its row k pages flow f.
Answered(A, P, f, p, k) ==
  p \in Deciders =>
    /\ Latest(A, f, k) /\ ~Paged(P, k)
    /\ p = "firstToday" => Cardinality(RunOf(A, k)) > Threshold
    /\ p \in {"alert", "page"} =>
         /\ Cardinality(RunOf(A, k)) >= Threshold
         /\ \A q \in DOMAIN P : P[q].row \in RunOf(A, k) => Day(A, P[q].row) # Day(A, k)

\* The rows that complete a run page, the pages are of long enough runs, and
\* two of one run are of different days.
Complete(A, P, R, c) ==
  \A k \in DOMAIN A :
    A[k].status = "failed" /\ ~Undecided(R, c, k) /\ Cardinality(RunOf(A, k)) = Threshold
      => Paged(P, k)
LongEnough(A, P) == \A p \in DOMAIN P : Cardinality(RunOf(A, P[p].row)) >= Threshold
DayApart(A, P) ==
  \A p, q \in DOMAIN P :
    p # q /\ P[p].row \in RunOf(A, P[q].row) => Day(A, P[p].row) # Day(A, P[q].row)

StreakInv ==
  faults = 0 =>
    /\ Tables(actions, pages, clock)
    /\ \A t \in Thread : Answered(actions, pages, FlowOf[t], pc[t], row[t])
    /\ Complete(actions, pages, row, pc)
    /\ LongEnough(actions, pages)
    /\ DayApart(actions, pages)

(***************************************************************************)
(* Runs of failed rows                                                     *)
(***************************************************************************)

LEMMA RunFinite ==
  ASSUME NEW A \in Seq(DiagnosisRow), NEW k \in DOMAIN A
  PROVE  /\ IsFiniteSet(RunOf(A, k)) /\ Cardinality(RunOf(A, k)) \in Nat
         /\ RunOf(A, k) \subseteq 1..k
         /\ A[k].status = "failed" => k \in RunOf(A, k) /\ Cardinality(RunOf(A, k)) >= 1
<1>1. k \in Nat /\ k >= 1
  OBVIOUS
<1>2. RunOf(A, k) \subseteq 1..k
  BY DEF RunOf
<1>3. IsFiniteSet(RunOf(A, k)) /\ Cardinality(RunOf(A, k)) \in Nat
  <2>1. IsFiniteSet(1..k)
    BY <1>1, FS_Interval
  <2>2. IsFiniteSet(RunOf(A, k))
    BY <1>2, <2>1, FS_Subset
  <2> QED
    BY <2>2, FS_CardinalityType
<1>4. A[k].status = "failed" => k \in RunOf(A, k)
  <2>1. \A j \in k..k : j = k
    BY <1>1
  <2> QED
    BY <1>1, <2>1 DEF RunOf
<1>5. k \in RunOf(A, k) => Cardinality(RunOf(A, k)) # 0
  BY <1>3, FS_EmptySet
<1> QED
  BY <1>2, <1>3, <1>4, <1>5

\* What an earlier row of a run ends is a shorter run.
LEMMA RunNests ==
  ASSUME NEW A \in Seq(DiagnosisRow), NEW k \in DOMAIN A, NEW r \in RunOf(A, k), r # k,
         A[k].status = "failed"
  PROVE  Cardinality(RunOf(A, r)) < Cardinality(RunOf(A, k))
<1>1. k \in Nat /\ r \in 1..k /\ r \in Nat /\ r < k /\ r \in DOMAIN A
  BY DEF RunOf
<1>2. RunOf(A, r) \subseteq RunOf(A, k)
  <2> SUFFICES ASSUME NEW i \in RunOf(A, r) PROVE i \in RunOf(A, k)
    OBVIOUS
  <2>1. i \in 1..r /\ A[i].flow = A[r].flow /\ A[i].status = "failed"
        /\ \A j \in i..r : A[j].flow = A[r].flow => A[j].status # "sent"
    BY DEF RunOf
  <2>2. A[r].flow = A[k].flow
        /\ \A j \in r..k : A[j].flow = A[k].flow => A[j].status # "sent"
    BY DEF RunOf
  <2>3. \A j \in i..k : j \in i..r \/ j \in r..k
    BY <1>1, <2>1
  <2>4. \A j \in i..k : A[j].flow = A[k].flow => A[j].status # "sent"
    BY <2>1, <2>2, <2>3
  <2>5. i \in 1..k
    BY <1>1, <2>1
  <2> QED
    BY <2>1, <2>2, <2>4, <2>5 DEF RunOf
<1>3. k \in RunOf(A, k) /\ k \notin RunOf(A, r)
  <2>1. k \notin 1..r
    BY <1>1
  <2> QED
    BY <2>1, RunFinite DEF RunOf
<1>4. RunOf(A, r) \subseteq RunOf(A, k) \ {k}
  BY <1>2, <1>3
<1>5. IsFiniteSet(RunOf(A, k)) /\ Cardinality(RunOf(A, k)) \in Nat
      /\ Cardinality(RunOf(A, r)) \in Nat
  BY <1>1, RunFinite
<1>6. Cardinality(RunOf(A, k) \ {k}) = Cardinality(RunOf(A, k)) - 1
      /\ IsFiniteSet(RunOf(A, k) \ {k})
  BY <1>3, <1>5, FS_RemoveElement
<1>7. Cardinality(RunOf(A, r)) <= Cardinality(RunOf(A, k) \ {k})
  BY <1>4, <1>6, FS_Subset
<1> QED
  BY <1>5, <1>6, <1>7

\* A row added to the table changes no run that ended before it.
LEMMA RunStays ==
  ASSUME NEW A \in Seq(DiagnosisRow), NEW e \in DiagnosisRow, NEW k \in DOMAIN A
  PROVE  RunOf(Append(A, e), k) = RunOf(A, k)
<1> DEFINE B == Append(A, e)
<1>1. k \in Nat /\ \A i \in 1..k : B[i] = A[i]
  OBVIOUS
<1> HIDE DEF B
<1>2. ASSUME NEW i \in 1..k
      PROVE  i \in RunOf(B, k) <=> i \in RunOf(A, k)
  <2>1. B[i] = A[i] /\ B[k] = A[k]
    BY <1>1
  <2>2. \A j \in i..k : B[j] = A[j]
    BY <1>1
  <2> QED
    BY <2>1, <2>2 DEF RunOf
<1>3. RunOf(B, k) \subseteq 1..k /\ RunOf(A, k) \subseteq 1..k
  BY DEF RunOf
<1>4. RunOf(B, k) = RunOf(A, k)
  BY <1>2, <1>3
<1> QED
  BY <1>4 DEF B

LEMMA RunIs == \A k : Run(k) = RunOf(actions, k)
BY DEF Run, RunOf

\* Outcomes that are not of the last run are older than it.
LEMMA RunIsLast ==
  ASSUME TypeOK, NEW f, NEW k, Latest(actions, f, k)
  PROVE  /\ RunOf(actions, k) \subseteq Outcomes(f)
         /\ \A i \in Outcomes(f) \ RunOf(actions, k), j \in RunOf(actions, k) : i < j
<1>1. actions \in Seq(DiagnosisRow) /\ k \in DOMAIN actions /\ actions[k].flow = f
      /\ k \in Nat
  BY Numbers DEF Latest
<1>2. RunOf(actions, k) \subseteq Outcomes(f)
  <2> SUFFICES ASSUME NEW i \in RunOf(actions, k) PROVE i \in Outcomes(f)
    OBVIOUS
  <2>1. i \in 1..k /\ actions[i].flow = f /\ actions[i].status = "failed"
    BY <1>1 DEF RunOf
  <2>2. i \in DOMAIN actions
    BY <1>1, <2>1
  <2> QED
    BY <2>1, <2>2 DEF Outcomes
<1>3. ASSUME NEW i \in Outcomes(f) \ RunOf(actions, k), NEW j \in RunOf(actions, k), ~(i < j)
      PROVE  FALSE
  <2>1. i \in DOMAIN actions /\ actions[i].flow = f /\ actions[i].status # "degraded"
    BY DEF Outcomes
  <2>2. i \in 1..k
    BY <1>1, <2>1 DEF Latest
  <2>3. j \in 1..k /\ i \in j..k /\ i \in Nat /\ j \in Nat
    BY <1>1, <1>3, <2>2 DEF RunOf
  <2>4. \A m \in j..k : actions[m].flow = f => actions[m].status # "sent"
    BY <1>1 DEF RunOf
  <2>5. actions[i].status = "failed"
    <3>1. actions[i] \in DiagnosisRow
      BY <1>1, <2>1
    <3>2. actions[i].status \in {"sent", "failed", "degraded"}
      BY <3>1 DEF DiagnosisRow
    <3> QED
      BY <3>2, <2>1, <2>3, <2>4
  <2>6. \A m \in i..k : m \in j..k
    BY <2>3
  <2>7. i \in RunOf(actions, k)
    BY <1>1, <2>1, <2>2, <2>4, <2>5, <2>6 DEF RunOf
  <2> QED
    BY <2>7
<1> QED
  BY <1>2, <1>3

\* recent_diagnosis_outcomes sees n failures only in a run of at least n.
LEMMA FailedAreRun ==
  ASSUME TypeOK, NEW f, NEW k, Latest(actions, f, k), NEW ids \in SUBSET Outcomes(f),
         \A i \in Outcomes(f) \ ids, j \in ids : i < j,
         \A j \in ids : actions[j].status = "failed"
  PROVE  ids \subseteq RunOf(actions, k)
<1>1. actions \in Seq(DiagnosisRow) /\ k \in DOMAIN actions /\ actions[k].flow = f
      /\ k \in Nat
  BY Numbers DEF Latest
<1> SUFFICES ASSUME NEW i \in ids PROVE i \in RunOf(actions, k)
  OBVIOUS
<1>2. i \in DOMAIN actions /\ actions[i].flow = f /\ actions[i].status = "failed" /\ i \in Nat
  BY <1>1 DEF Outcomes
<1>3. i \in 1..k
  BY <1>1, <1>2 DEF Latest
<1>4. ASSUME NEW j \in i..k, actions[j].flow = f, actions[j].status = "sent"
      PROVE  FALSE
  <2>1. j \in DOMAIN actions /\ j \in Nat
    BY <1>1, <1>3
  <2>2. j \in Outcomes(f) \ ids
    BY <1>4, <2>1 DEF Outcomes
  <2>3. j < i
    BY <2>2
  <2> QED
    BY <1>2, <2>1, <2>3
<1> QED
  BY <1>1, <1>2, <1>3, <1>4 DEF RunOf

LEMMA FailedWithin ==
  ASSUME TypeOK, NEW f, NEW k, Latest(actions, f, k), NEW n \in Nat, LastFailed(f, n)
  PROVE  n <= Cardinality(RunOf(actions, k))
<1>1. PICK ids \in SUBSET Outcomes(f) :
        /\ Cardinality(ids) = n
        /\ \A i \in Outcomes(f) \ ids, j \in ids : i < j
        /\ \A j \in ids : actions[j].status = "failed"
  BY DEF LastFailed
<1>2. ids \subseteq RunOf(actions, k)
  BY <1>1, FailedAreRun
<1>3. IsFiniteSet(RunOf(actions, k)) /\ Cardinality(RunOf(actions, k)) \in Nat
  BY Numbers, RunFinite DEF Latest
<1> QED
  BY <1>1, <1>2, <1>3, FS_Subset

LEMMA RunFailed ==
  ASSUME TypeOK, NEW f, NEW k, Latest(actions, f, k)
  PROVE  LastFailed(f, Cardinality(RunOf(actions, k)))
<1> DEFINE ids == RunOf(actions, k)
<1>1. /\ ids \in SUBSET Outcomes(f)
      /\ \A i \in Outcomes(f) \ ids, j \in ids : i < j
  BY RunIsLast
<1>2. \A j \in ids : actions[j].status = "failed"
  BY DEF RunOf
<1> HIDE DEF ids
<1>3. LastFailed(f, Cardinality(ids))
  BY <1>1, <1>2 DEF LastFailed
<1> QED
  BY <1>3 DEF ids

\* Every set of natural numbers that is not empty has a least element.
LEMMA Least ==
  ASSUME NEW T, T \subseteq Nat, T # {}
  PROVE  \E x \in T : \A y \in T : x <= y
<1> DEFINE D == {0..x : x \in T}
           R == StrictSubsetOrdering(Nat)
           S == FiniteSubsetsOf(Nat)
<1>1. D \subseteq S
  <2> SUFFICES ASSUME NEW x \in T PROVE (0..x) \in S
    BY Zenon
  <2>1. x \in Nat /\ (0..x) \subseteq Nat
    OBVIOUS
  <2> QED
    BY <2>1, FS_Interval DEF FiniteSubsetsOf
<1>2. D # {}
  OBVIOUS
<1>3. IsWellFoundedOn(R, S)
  BY FS_StrictSubsetOrderingWellFounded
<1> HIDE DEF R, S
<1>4. PICK d \in D : \A e \in D : ~ (<<e, d>> \in R)
  BY <1>1, <1>2, <1>3, WFMin
<1>5. PICK x \in T : d = 0..x
  OBVIOUS
<1>6. ASSUME NEW y \in T, y < x PROVE FALSE
  <2>1. (0..y) \in D
    OBVIOUS
  <2>2. /\ (0..y) \subseteq (0..x) /\ (0..y) # (0..x)
        /\ (0..y) \subseteq Nat /\ (0..x) \subseteq Nat
    <3>1. x \in Nat /\ y \in Nat
      OBVIOUS
    <3>2. x \in 0..x /\ x \notin 0..y
      BY <3>1, <1>6
    <3> QED
      BY <3>1, <3>2, <1>6
  <2>3. <<0..y, 0..x>> \in R
    BY <2>2 DEF R, StrictSubsetOrdering
  <2> QED
    BY <2>1, <2>3, <1>4, <1>5
<1> QED
  BY <1>6

\* Of a run longer than n, the n + 1 newest failed as well.
LEMMA FailedFurther ==
  ASSUME TypeOK, NEW f, NEW k, Latest(actions, f, k), NEW n \in Nat, LastFailed(f, n),
         n < Cardinality(RunOf(actions, k))
  PROVE  LastFailed(f, n + 1)
<1>1. PICK ids \in SUBSET Outcomes(f) :
        /\ Cardinality(ids) = n
        /\ \A i \in Outcomes(f) \ ids, j \in ids : i < j
        /\ \A j \in ids : actions[j].status = "failed"
  BY DEF LastFailed
<1>2. ids \subseteq RunOf(actions, k)
  BY <1>1, FailedAreRun
<1>3. IsFiniteSet(RunOf(actions, k)) /\ RunOf(actions, k) \subseteq 1..k /\ k \in Nat
  BY Numbers, RunFinite DEF Latest
<1>4. IsFiniteSet(ids)
  BY <1>2, <1>3, FS_Subset
<1>5. RunOf(actions, k) \ ids # {}
  BY <1>1, <1>2
<1>6. PICK m \in RunOf(actions, k) \ ids : \A i \in RunOf(actions, k) \ ids : i <= m
  <2> DEFINE T == {k - x : x \in RunOf(actions, k) \ ids}
  <2>1. T \subseteq Nat /\ T # {}
    BY <1>3, <1>5
  <2>2. PICK y \in T : \A z \in T : y <= z
    BY <2>1, Least
  <2>3. PICK m \in RunOf(actions, k) \ ids : y = k - m
    OBVIOUS
  <2>4. ASSUME NEW i \in RunOf(actions, k) \ ids PROVE i <= m
    <3>1. k - m <= k - i
      BY <2>2, <2>3
    <3>2. i \in Nat /\ m \in Nat
      BY <1>3
    <3> QED
      BY <1>3, <3>1, <3>2
  <2> QED
    BY <2>4
<1> DEFINE more == ids \cup {m}
<1>7. more \in SUBSET Outcomes(f)
  BY RunIsLast
<1>8. Cardinality(more) = n + 1
  BY <1>1, <1>4, FS_AddElement
<1>9. \A j \in more : actions[j].status = "failed"
  BY <1>1 DEF RunOf
<1>10. ASSUME NEW i \in Outcomes(f) \ more, NEW j \in more PROVE i < j
  <2>1. CASE j \in ids
    BY <1>1, <2>1
  <2>2. CASE j = m /\ i \in RunOf(actions, k)
    <3>1. i <= m /\ i # m
      BY <1>6, <2>2
    <3>2. i \in Nat /\ m \in Nat
      BY <1>3, <2>2
    <3> QED
      BY <2>2, <3>1, <3>2
  <2>3. CASE j = m /\ i \notin RunOf(actions, k)
    BY <2>3, RunIsLast
  <2> QED
    BY <2>1, <2>2, <2>3
<1> HIDE DEF more
<1> QED
  BY <1>7, <1>8, <1>9, <1>10 DEF LastFailed

(***************************************************************************)
(* The steps                                                               *)
(***************************************************************************)

LEMMA RunSizes ==
  ASSUME TypeOK
  PROVE  \A k \in DOMAIN actions :
           /\ Cardinality(RunOf(actions, k)) \in Nat
           /\ actions[k].status = "failed" => Cardinality(RunOf(actions, k)) >= 1
BY Numbers, RunFinite

\* A thread moves; if it stops deciding, its row completes no run.
LEMMA StreakMove ==
  ASSUME TypeOK, StreakInv, NEW t \in Thread, NEW p, Move(t, p),
         UNCHANGED <<clock, actions, row, pages, faults>>,
         faults = 0 => /\ Answered(actions, pages, FlowOf[t], p, row[t])
                       /\ pc[t] \in Deciders /\ p \notin Deciders =>
                            Cardinality(RunOf(actions, row[t])) # Threshold
  PROVE  StreakInv'
<1> SUFFICES ASSUME faults = 0
             PROVE  /\ \A u \in Thread : Answered(actions, pages, FlowOf[u], pc'[u], row[u])
                    /\ Complete(actions, pages, row, pc')
  BY DEF StreakInv
<1>1. pc'[t] = p /\ \A u \in Thread \ {t} : pc'[u] = pc[u]
  BY MoveIs
<1>2. \A u \in Thread : Answered(actions, pages, FlowOf[u], pc'[u], row[u])
  <2> TAKE u \in Thread
  <2>1. CASE u = t
    BY <1>1, <2>1
  <2>2. CASE u # t
    BY <1>1, <2>2 DEF StreakInv
  <2> QED
    BY <2>1, <2>2
<1>3. ASSUME NEW k \in DOMAIN actions, actions[k].status = "failed",
             ~Undecided(row, pc', k), Cardinality(RunOf(actions, k)) = Threshold
      PROVE  Paged(pages, k)
  <2>1. ~Undecided(row, pc, k)
    <3> SUFFICES ASSUME NEW u \in Thread, row[u] = k, pc[u] \in Deciders PROVE FALSE
      BY DEF Undecided
    <3>1. pc'[u] \notin Deciders
      BY <1>3 DEF Undecided
    <3>2. u = t
      BY <1>1, <3>1
    <3> QED
      BY <1>1, <1>3, <3>1, <3>2
  <2> QED
    BY <1>3, <2>1 DEF StreakInv, Complete
<1> QED
  BY <1>2, <1>3 DEF Complete

\* A row is added by a thread that has decided nothing yet.
LEMMA AnsweredStays ==
  ASSUME NEW A \in Seq(DiagnosisRow), NEW e \in DiagnosisRow, NEW P, NEW f, NEW p, NEW k,
         Answered(A, P, f, p, k), e.flow # f,
         \A q \in DOMAIN P : P[q].row \in DOMAIN A
  PROVE  Answered(Append(A, e), P, f, p, k)
<1> SUFFICES ASSUME p \in Deciders PROVE Answered(Append(A, e), P, f, p, k)
  BY DEF Answered
<1> DEFINE B == Append(A, e)
<1>1. /\ DOMAIN B = DOMAIN A \cup {Len(A) + 1} /\ B[Len(A) + 1] = e
      /\ \A i \in DOMAIN A : B[i] = A[i]
  OBVIOUS
<1>2. Latest(A, f, k) /\ k \in DOMAIN A
  BY DEF Answered, Latest
<1>3. RunOf(B, k) = RunOf(A, k)
  BY <1>2, RunStays
<1> HIDE DEF B
<1>4. Latest(B, f, k)
  BY <1>1, <1>2 DEF Latest
<1>5. \A q \in DOMAIN P : Day(B, P[q].row) = Day(A, P[q].row)
  BY <1>1 DEF Day
<1>6. Day(B, k) = Day(A, k)
  BY <1>1, <1>2 DEF Day
<1>7. Answered(B, P, f, p, k)
  BY <1>3, <1>4, <1>5, <1>6 DEF Answered
<1> QED
  BY <1>7 DEF B

LEMMA StreakSave ==
  ASSUME TypeOK, StreakInv, OneThreadPerFlow, NEW t \in Thread, NEW p, Move(t, p),
         pc[t] \notin Deciders, NEW s \in {"sent", "failed", "degraded"}, Save(t, s),
         UNCHANGED <<clock, pages, faults>>,
         \/ s # "failed" /\ p \notin Deciders /\ UNCHANGED row
         \/ s = "failed" /\ p = "check" /\ row' = [row EXCEPT ![t] = Len(actions) + 1]
  PROVE  StreakInv'
<1> SUFFICES ASSUME faults = 0
             PROVE  /\ Tables(actions', pages, clock)
                    /\ \A u \in Thread : Answered(actions', pages, FlowOf[u], pc'[u], row'[u])
                    /\ Complete(actions', pages, row', pc')
                    /\ LongEnough(actions', pages)
                    /\ DayApart(actions', pages)
  BY DEF StreakInv
<1> DEFINE e == [type |-> "diagnosis", flow |-> FlowOf[t], status |-> s, at |-> clock]
           n == Len(actions) + 1
<1>0. /\ actions \in Seq(DiagnosisRow) /\ e \in DiagnosisRow /\ clock \in Int
      /\ e.flow = FlowOf[t] /\ e.at = clock /\ e.status = s /\ actions' = Append(actions, e)
  BY Numbers, Bounds DEF DiagnosisRow, Save
<1> HIDE DEF e
<1>1. /\ DOMAIN actions' = DOMAIN actions \cup {n} /\ actions'[n] = e
      /\ \A i \in DOMAIN actions : actions'[i] = actions[i]
      /\ n \notin DOMAIN actions /\ n \in Nat /\ \A i \in DOMAIN actions : i < n /\ i \in Nat
  BY <1>0
<1>2. /\ pc'[t] = p /\ \A u \in Thread \ {t} : pc'[u] = pc[u]
      /\ \A u \in Thread \ {t} : row'[u] = row[u]
      /\ s = "failed" => row'[t] = n
  <2>1. row \in [Thread -> 0..Len(actions)]
    BY DEF TypeOK
  <2> QED
    BY <2>1, MoveIs
<1> HIDE DEF n
<1>3. \A k \in DOMAIN actions : RunOf(actions', k) = RunOf(actions, k)
  BY <1>0, RunStays
<1>4. /\ \A q \in DOMAIN pages : pages[q].row \in DOMAIN actions
                                   /\ actions[pages[q].row].status = "failed"
      /\ \A i, j \in DOMAIN actions : i <= j => actions[i].at <= actions[j].at
      /\ \A i \in DOMAIN actions : actions[i].at <= clock
  BY DEF StreakInv, Tables
<1>5. Tables(actions', pages, clock)
  <2>1. \A i \in DOMAIN actions' : actions'[i].at <= clock
    BY <1>0, <1>1, <1>4
  <2>2. ASSUME NEW i \in DOMAIN actions', NEW j \in DOMAIN actions', i <= j
        PROVE  actions'[i].at <= actions'[j].at
    <3>1. CASE j = n
      BY <1>0, <1>1, <2>1, <3>1
    <3>2. CASE j # n
      BY <1>1, <1>4, <2>2, <3>2
    <3> QED
      BY <3>1, <3>2
  <2> QED
    BY <1>1, <1>4, <2>1, <2>2 DEF Tables
<1>6. \A u \in Thread : Answered(actions', pages, FlowOf[u], pc'[u], row'[u])
  <2> TAKE u \in Thread
  <2>1. CASE u # t
    <3>1. Answered(actions, pages, FlowOf[u], pc[u], row[u])
      BY DEF StreakInv
    <3>2. e.flow # FlowOf[u]
      BY <1>0, <2>1 DEF OneThreadPerFlow
    <3>3. Answered(Append(actions, e), pages, FlowOf[u], pc[u], row[u])
      BY <1>0, <1>4, <3>1, <3>2, AnsweredStays
    <3> QED
      BY <1>0, <1>2, <2>1, <3>3
  <2>2. CASE u = t /\ s # "failed"
    BY <1>2, <2>2 DEF Answered
  <2>3. CASE u = t /\ s = "failed"
    <3>1. pc'[u] = "check" /\ row'[u] = n
      BY <1>2, <2>3
    <3>2. Latest(actions', FlowOf[u], n)
      BY <1>0, <1>1, <2>3 DEF Latest
    <3>3. ~Paged(pages, n)
      BY <1>1, <1>4 DEF Paged
    <3> QED
      BY <3>1, <3>2, <3>3 DEF Answered
  <2> QED
    BY <2>1, <2>2, <2>3
<1>7. Complete(actions', pages, row', pc')
  <2> SUFFICES ASSUME NEW k \in DOMAIN actions', actions'[k].status = "failed",
                      ~Undecided(row', pc', k), Cardinality(RunOf(actions', k)) = Threshold
               PROVE  Paged(pages, k)
    BY DEF Complete
  <2>1. k # n
    <3> SUFFICES ASSUME k = n PROVE FALSE
      OBVIOUS
    <3>1. s = "failed"
      BY <1>0, <1>1
    <3>2. row'[t] = n /\ pc'[t] \in Deciders
      BY <1>2, <3>1 DEF Deciders
    <3> QED
      BY <3>2 DEF Undecided
  <2>2. k \in DOMAIN actions /\ actions[k].status = "failed"
        /\ Cardinality(RunOf(actions, k)) = Threshold
    BY <1>1, <1>3, <2>1
  <2>3. ~Undecided(row, pc, k)
    <3> SUFFICES ASSUME NEW u \in Thread, row[u] = k, pc[u] \in Deciders PROVE FALSE
      BY DEF Undecided
    <3>1. u # t
      OBVIOUS
    <3> QED
      BY <1>2, <3>1 DEF Undecided
  <2> QED
    BY <2>2, <2>3 DEF StreakInv, Complete
<1>8. LongEnough(actions', pages)
  BY <1>3, <1>4 DEF StreakInv, LongEnough
<1>9. DayApart(actions', pages)
  <2>1. DayApart(actions, pages)
    BY DEF StreakInv
  <2>2. \A q \in DOMAIN pages : /\ Day(actions', pages[q].row) = Day(actions, pages[q].row)
                                /\ RunOf(actions', pages[q].row) = RunOf(actions, pages[q].row)
    BY <1>1, <1>3, <1>4 DEF Day
  <2> QED
    BY <2>1, <2>2 DEF DayApart
<1> QED
  BY <1>5, <1>6, <1>7, <1>8, <1>9

\* The run is looked at: exactly Threshold failures are a page, and no page
\* was sent in a run that only now is long enough.
LEMMA StreakChecked ==
  ASSUME TypeOK, FlagInv, StreakInv, OneThreadPerFlow, NEW t \in Thread, CheckStreak(t)
  PROVE  StreakInv'
<1>0. pc[t] = "check" /\ UNCHANGED <<clock, actions, row, pages, faults>>
      /\ FlowOf[t] \in Flow
  BY Bounds DEF CheckStreak
<1> DEFINE f == FlowOf[t]
           k == row[t]
           z == Cardinality(RunOf(actions, k))
<1>1. ~alerting[f]
  <2> SUFFICES ASSUME alerting[f] PROVE FALSE
    OBVIOUS
  <2>1. PICK u \in Thread : FlowOf[u] = f /\ pc[u] = "page"
    BY <1>0 DEF FlagInv, AlertFlagOwned
  <2> QED
    BY <1>0, <2>1 DEF OneThreadPerFlow
<1>2. ASSUME faults = 0
      PROVE  /\ Latest(actions, f, k) /\ ~Paged(pages, k)
             /\ z \in Nat /\ z >= 1 /\ LongEnough(actions, pages)
  <2>1. Answered(actions, pages, f, "check", k)
    BY <1>0, <1>2 DEF StreakInv
  <2>2. Latest(actions, f, k) /\ ~Paged(pages, k)
    BY <2>1 DEF Answered, Deciders
  <2>3. k \in DOMAIN actions /\ actions[k].status = "failed"
    BY <2>2 DEF Latest
  <2> QED
    BY <1>2, <2>2, <2>3, RunSizes DEF StreakInv
<1>3. CASE Threshold = 0 \/ ~LastFailed(f, Threshold)
  <2>1. Move(t, "idle") /\ "idle" \notin Deciders
    BY <1>3 DEF CheckStreak, Deciders
  <2>2. ASSUME faults = 0 PROVE z # Threshold
    <3>1. LastFailed(f, z) /\ z >= 1 /\ z \in Nat
      BY <1>2, <2>2, RunFailed
    <3> QED
      BY <1>3, <3>1, Bounds
  <2>3. Answered(actions, pages, f, "idle", k)
    BY <2>1 DEF Answered
  <2> QED
    BY <1>0, <2>1, <2>2, <2>3, StreakMove
<1>4. CASE Threshold # 0 /\ LastFailed(f, Threshold) /\ LastFailed(f, Threshold + 1)
  <2>1. Move(t, "firstToday") /\ "firstToday" \in Deciders
    BY <1>1, <1>4 DEF CheckStreak, Deciders
  <2>2. ASSUME faults = 0 PROVE Answered(actions, pages, f, "firstToday", k)
    <3>1. Threshold + 1 \in Nat
      BY Bounds
    <3>2. Threshold + 1 <= z
      BY <1>2, <1>4, <2>2, <3>1, FailedWithin
    <3>3. z > Threshold
      BY <1>2, <2>2, <3>2, Bounds
    <3> QED
      BY <1>2, <2>2, <3>3 DEF Answered
  <2> QED
    BY <1>0, <2>1, <2>2, StreakMove
<1>5. CASE Threshold # 0 /\ LastFailed(f, Threshold) /\ ~LastFailed(f, Threshold + 1)
  <2>1. Move(t, "alert") /\ "alert" \in Deciders
    BY <1>1, <1>5 DEF CheckStreak, Deciders
  <2>2. ASSUME faults = 0 PROVE Answered(actions, pages, f, "alert", k)
    <3>1. Threshold <= z
      BY <1>2, <1>5, <2>2, FailedWithin, Bounds
    <3>2. ~(Threshold < z)
      BY <1>2, <1>5, <2>2, FailedFurther, Bounds
    <3>3. z = Threshold
      BY <1>2, <2>2, <3>1, <3>2, Bounds
    <3>4. ASSUME NEW q \in DOMAIN pages, pages[q].row \in RunOf(actions, k) PROVE FALSE
      <4>1. pages[q].row # k
        BY <1>2, <2>2 DEF Paged
      <4>2. /\ actions \in Seq(DiagnosisRow) /\ k \in DOMAIN actions
            /\ actions[k].status = "failed"
        BY <1>2, <2>2, Numbers DEF Latest
      <4>3. Cardinality(RunOf(actions, pages[q].row)) < z
        BY <3>4, <4>1, <4>2, RunNests
      <4>4. Cardinality(RunOf(actions, pages[q].row)) >= Threshold
        BY <1>2, <2>2 DEF LongEnough
      <4>5. pages[q].row \in DOMAIN actions
        BY <2>2 DEF StreakInv, Tables
      <4>6. Cardinality(RunOf(actions, pages[q].row)) \in Nat
        BY <4>5, RunSizes
      <4> QED
        BY <3>3, <4>3, <4>4, <4>6, Bounds
    <3> HIDE DEF z, k, f
    <3>5. Cardinality(RunOf(actions, k)) >= Threshold
      BY <1>2, <2>2, <3>1, Bounds DEF z
    <3> QED
      BY <1>2, <2>2, <3>4, <3>5 DEF Answered
  <2> QED
    BY <1>0, <2>1, <2>2, StreakMove
<1> QED
  BY <1>3, <1>4, <1>5

LEMMA SameDay ==
  ASSUME NEW a \in Int, NEW b \in Int, NEW m \in Int,
         a \div DayLen = b \div DayLen, m * DayLen <= a
  PROVE  m * DayLen <= b
<1> DEFINE n == DayLen
           q == a \div n
           r == b \div n
<1>0. n \in Nat /\ n > 0
  BY Bounds
<1>1. q \in Int /\ r \in Int /\ a < (q + 1) * n /\ r * n <= b /\ q = r
  BY <1>0, SMT
<1> HIDE DEF n
<1>2. m * n <= a
  BY DEF n
<1> HIDE DEF q, r
<1>3. m * n < (q + 1) * n
  BY <1>0, <1>1, <1>2
<1>4. m < q + 1
  <2> SUFFICES ASSUME m >= q + 1 PROVE FALSE
    BY <1>1
  <2>1. m * n >= (q + 1) * n
    BY <1>0, <1>1, SMT
  <2> QED
    BY <1>0, <1>1, <1>3, <2>1
<1>5. m * n <= r * n
  BY <1>0, <1>1, <1>4, SMT
<1>6. m * n <= b
  BY <1>0, <1>1, <1>2, <1>5
<1> QED
  BY <1>6 DEF n

\* A longer run pages on the first attempt of a day: what paged earlier in it
\* is of another day, on either side of midnight and of the time zone.
LEMMA StreakFirstToday ==
  ASSUME TypeOK, StreakInv, NEW t \in Thread, CheckFirstToday(t)
  PROVE  StreakInv'
<1>0. pc[t] = "firstToday" /\ UNCHANGED <<clock, actions, row, pages, faults>>
      /\ FlowOf[t] \in Flow
  BY Bounds DEF CheckFirstToday
<1> DEFINE f == FlowOf[t]
           k == row[t]
           z == Cardinality(RunOf(actions, k))
<1>1. ASSUME faults = 0
      PROVE  /\ Latest(actions, f, k) /\ ~Paged(pages, k)
             /\ z \in Nat /\ z > Threshold /\ Tables(actions, pages, clock)
  <2>1. Answered(actions, pages, f, "firstToday", k)
    BY <1>0, <1>1 DEF StreakInv
  <2>2. Latest(actions, f, k) /\ ~Paged(pages, k) /\ z > Threshold
    BY <2>1 DEF Answered, Deciders
  <2>3. k \in DOMAIN actions
    BY <2>2 DEF Latest
  <2> QED
    BY <1>1, <2>2, <2>3, RunSizes DEF StreakInv
<1>2. CASE AttemptsToday(f) # 1
  <2>1. Move(t, "idle") /\ "idle" \notin Deciders
    BY <1>2 DEF CheckFirstToday, Deciders
  <2>2. ASSUME faults = 0 PROVE z # Threshold
    BY <1>1, <2>2, Bounds
  <2>3. Answered(actions, pages, f, "idle", k)
    BY <2>1 DEF Answered
  <2> QED
    BY <1>0, <2>1, <2>2, <2>3, StreakMove
<1>3. CASE AttemptsToday(f) = 1
  <2>1. Move(t, "alert") /\ "alert" \in Deciders
    BY <1>3 DEF CheckFirstToday, Deciders
  <2>2. ASSUME faults = 0 PROVE Answered(actions, pages, f, "alert", k)
    <3>0. actions \in Seq(DiagnosisRow) /\ clock \in Int
      BY Numbers
    <3>1. PICK m \in Int : DayStart(clock) = m * DayLen
      <4> DEFINE m == (clock + ZoneOffset) \div DayLen
      <4>1. m \in Int
        BY <3>0, Bounds
      <4>2. DayStart(clock) = m * DayLen
        BY DEF DayStart
      <4> QED
        BY <4>1, <4>2
    <3> DEFINE today == Hits(actions, OutcomesSince(f, DayStart(clock)))
    <3>2. Cardinality(today) = 1 /\ IsFiniteSet(today)
      BY <1>0, <1>3, <3>0, AttemptsAre, HitsFinite
    <3>3. PICK x : today = {x}
      BY <3>2, FS_Singleton
    <3>4. /\ x \in DOMAIN actions /\ actions[x] \in DiagnosisRow /\ actions[x].flow = f
          /\ actions[x].at >= DayStart(clock)
      <4>1. x \in today
        BY <3>3
      <4> QED
        BY <4>1 DEF Hits, OutcomesSince
    <3>5. \A i \in DOMAIN actions :
            actions[i].flow = f /\ actions[i].at >= DayStart(clock) => i = x
      <4> SUFFICES ASSUME NEW i \in DOMAIN actions, actions[i].flow = f,
                          actions[i].at >= DayStart(clock)
                   PROVE  i = x
        OBVIOUS
      <4>1. actions[i] \in DiagnosisRow
        BY <3>0
      <4>2. i \in today
        BY <4>1 DEF Hits, OutcomesSince
      <4> QED
        BY <3>3, <4>2
    <3> HIDE DEF today
    <3>6. k \in DOMAIN actions /\ actions[k].flow = f /\ x <= k
      <4>1. k \in DOMAIN actions /\ actions[k].flow = f
        BY <1>1, <2>2 DEF Latest
      <4>2. ~(x > k)
        BY <1>1, <2>2, <3>4 DEF Latest
      <4>3. x \in Nat /\ k \in Nat
        BY <3>0, <3>4, <4>1
      <4> QED
        BY <4>1, <4>2, <4>3
    <3>7. actions[k].at >= DayStart(clock) /\ k = x
          /\ actions[k].at \in Int
      <4>1. actions[x].at <= actions[k].at
        BY <1>1, <2>2, <3>4, <3>6 DEF Tables
      <4>2. actions[x].at \in Int /\ actions[k].at \in Int
        <5>1. actions[k] \in DiagnosisRow
          BY <3>0, <3>6
        <5> QED
          BY <5>1, <3>4 DEF DiagnosisRow
      <4>3. DayStart(clock) \in Int
        BY <3>0, DayStartMonotone
      <4>4. actions[k].at >= DayStart(clock)
        BY <3>4, <4>1, <4>2, <4>3
      <4> QED
        BY <3>5, <3>6, <4>2, <4>4
    <3>8. ASSUME NEW q \in DOMAIN pages, pages[q].row \in RunOf(actions, k),
                 Day(actions, pages[q].row) = Day(actions, k)
          PROVE  FALSE
      <4> DEFINE r == pages[q].row
      <4>1. r # k
        BY <1>1, <2>2 DEF Paged
      <4>2. r \in DOMAIN actions /\ actions[r].flow = f
        <5>1. r \in DOMAIN actions
          BY <1>1, <2>2 DEF Tables
        <5> QED
          BY <3>6, <3>8, <5>1 DEF RunOf
      <4>3. actions[r].at \in Int
        <5>1. actions[r] \in DiagnosisRow
          BY <3>0, <4>2
        <5> QED
          BY <5>1 DEF DiagnosisRow
      <4>4. m * DayLen <= actions[k].at
        BY <3>1, <3>7, Bounds
      <4>5. actions[k].at \div DayLen = actions[r].at \div DayLen
        BY <3>8 DEF Day
      <4>6. m * DayLen <= actions[r].at
        BY <3>7, <4>3, <4>4, <4>5, SameDay
      <4>7. actions[r].at >= DayStart(clock)
        BY <3>1, <4>3, <4>6, Bounds
      <4> QED
        BY <3>5, <3>7, <4>1, <4>2, <4>7
    <3> HIDE DEF z, k, f
    <3>9. Cardinality(RunOf(actions, k)) >= Threshold
      BY <1>1, <2>2, Bounds DEF z
    <3> QED
      BY <1>1, <2>2, <3>8, <3>9 DEF Answered
  <2> QED
    BY <1>0, <2>1, <2>2, StreakMove
<1> QED
  BY <1>2, <1>3

\* The page is sent: every earlier page of its run is of another day, and no
\* page is of a later row of the flow.
LEMMA StreakSent ==
  ASSUME TypeOK, StreakInv, OneThreadPerFlow, NEW t \in Thread, SendAlert(t)
  PROVE  StreakInv'
<1> SUFFICES ASSUME faults = 0
             PROVE  /\ Tables(actions, pages', clock)
                    /\ \A u \in Thread : Answered(actions, pages', FlowOf[u], pc'[u], row[u])
                    /\ Complete(actions, pages', row, pc')
                    /\ LongEnough(actions, pages')
                    /\ DayApart(actions, pages')
  BY DEF StreakInv, SendAlert
<1> DEFINE k == row[t]
           g == [flow |-> FlowOf[t], row |-> k]
           n == Len(pages) + 1
<1>0. /\ pages \in Seq([flow : Flow, row : Nat]) /\ actions \in Seq(DiagnosisRow)
      /\ row \in [Thread -> 0..Len(actions)] /\ k \in Nat
      /\ g \in [flow : Flow, row : Nat] /\ g.row = k /\ pages' = Append(pages, g)
      /\ pc[t] = "page" /\ UNCHANGED <<clock, actions, row, faults>>
  <2>1. row \in [Thread -> 0..Len(actions)] /\ actions \in Seq(DiagnosisRow)
    BY Numbers DEF TypeOK
  <2> QED
    BY <2>1, Bounds DEF TypeOK, SendAlert
<1> HIDE DEF g
<1>1. /\ DOMAIN pages' = DOMAIN pages \cup {n} /\ pages'[n].row = k
      /\ \A q \in DOMAIN pages : pages'[q] = pages[q] /\ q # n
  BY <1>0
<1> HIDE DEF n
<1>2. pc'[t] = "idle" /\ \A u \in Thread \ {t} : pc'[u] = pc[u]
  BY MoveIs DEF SendAlert
<1>3. /\ Latest(actions, FlowOf[t], k) /\ ~Paged(pages, k)
      /\ Cardinality(RunOf(actions, k)) >= Threshold
      /\ \A q \in DOMAIN pages : pages[q].row \in RunOf(actions, k) =>
           Day(actions, pages[q].row) # Day(actions, k)
  <2>1. Answered(actions, pages, FlowOf[t], "page", k)
    BY <1>0 DEF StreakInv
  <2>2. "page" \in Deciders
    BY DEF Deciders
  <2> QED
    BY <2>1, <2>2 DEF Answered
<1>4. k \in DOMAIN actions /\ actions[k].flow = FlowOf[t] /\ actions[k].status = "failed"
  BY <1>3 DEF Latest
<1>5. Tables(actions, pages', clock)
  <2>1. Tables(actions, pages, clock)
    BY DEF StreakInv
  <2> QED
    BY <1>1, <1>4, <2>1 DEF Tables
<1>6. \A u \in Thread : Answered(actions, pages', FlowOf[u], pc'[u], row[u])
  <2> TAKE u \in Thread
  <2>1. CASE u = t
    <3>1. pc'[u] \notin Deciders
      BY <1>2, <2>1 DEF Deciders
    <3> QED
      BY <3>1 DEF Answered
  <2>2. CASE u # t
    <3> SUFFICES ASSUME pc[u] \in Deciders
                 PROVE  Answered(actions, pages', FlowOf[u], pc[u], row[u])
      BY <1>2, <2>2 DEF Answered
    <3>1. Answered(actions, pages, FlowOf[u], pc[u], row[u])
      BY DEF StreakInv
    <3>2. FlowOf[u] # FlowOf[t]
      BY <2>2 DEF OneThreadPerFlow
    <3>3. Latest(actions, FlowOf[u], row[u]) /\ ~Paged(pages, row[u])
      BY <3>1 DEF Answered
    <3>4. k # row[u] /\ k \notin RunOf(actions, row[u])
      BY <1>4, <3>2, <3>3 DEF Latest, RunOf
    <3>5. ~Paged(pages', row[u])
      BY <1>1, <3>3, <3>4 DEF Paged
    <3>6. ASSUME NEW q \in DOMAIN pages', pages'[q].row \in RunOf(actions, row[u]),
                 pc[u] \in {"alert", "page"}
          PROVE  Day(actions, pages'[q].row) # Day(actions, row[u])
      <4>1. q \in DOMAIN pages /\ pages'[q] = pages[q]
        BY <1>1, <3>4, <3>6
      <4> QED
        BY <3>1, <3>6, <4>1 DEF Answered
    <3> QED
      BY <3>1, <3>3, <3>5, <3>6 DEF Answered
  <2> QED
    BY <2>1, <2>2
<1>7. Complete(actions, pages', row, pc')
  <2> SUFFICES ASSUME NEW j \in DOMAIN actions, actions[j].status = "failed",
                      ~Undecided(row, pc', j), Cardinality(RunOf(actions, j)) = Threshold
               PROVE  Paged(pages', j)
    BY DEF Complete
  <2>1. CASE j = k
    BY <1>1, <2>1 DEF Paged
  <2>2. CASE j # k
    <3>1. ~Undecided(row, pc, j)
      BY <1>2, <2>2 DEF Undecided
    <3>2. Paged(pages, j)
      BY <3>1 DEF StreakInv, Complete
    <3> QED
      BY <1>1, <3>2 DEF Paged
  <2> QED
    BY <2>1, <2>2
<1>8. LongEnough(actions, pages')
  <2>1. LongEnough(actions, pages)
    BY DEF StreakInv
  <2> QED
    BY <1>1, <1>3, <2>1 DEF LongEnough
<1>9. DayApart(actions, pages')
  <2> SUFFICES ASSUME NEW p \in DOMAIN pages', NEW q \in DOMAIN pages', p # q,
                      pages'[p].row \in RunOf(actions, pages'[q].row)
               PROVE  Day(actions, pages'[p].row) # Day(actions, pages'[q].row)
    BY DEF DayApart
  <2>1. CASE p # n /\ q # n
    BY <1>1, <2>1 DEF StreakInv, DayApart
  <2>2. CASE q = n
    BY <1>1, <1>3, <2>2
  <2>3. CASE p = n /\ q # n
    <3>1. q \in DOMAIN pages /\ pages'[q] = pages[q] /\ pages'[p].row = k
      BY <1>1, <2>3
    <3> DEFINE r == pages[q].row
    <3>2. r \in DOMAIN actions /\ r # k
      BY <1>3, <3>1 DEF StreakInv, Tables, Paged
    <3>3. k \in 1..r /\ actions[r].flow = actions[k].flow
      BY <3>1 DEF RunOf
    <3>4. r > k
      BY <1>0, <3>2, <3>3
    <3> QED
      BY <1>3, <1>4, <3>2, <3>3, <3>4 DEF Latest
  <2> QED
    BY <2>1, <2>2, <2>3
<1> QED
  BY <1>5, <1>6, <1>7, <1>8, <1>9

LEMMA StepStreak ==
  ASSUME TypeOK, FlagInv, StreakInv, OneThreadPerFlow, NEW t \in Thread, Begin(t) \/ Step(t)
  PROVE  StreakInv'
<1>1. CASE Begin(t) \/ Lookup(t) \/ CheckBudget(t) \/ CheckCost(t) \/ CallLlm(t)
             \/ SaveDiagnosis(t)
  <2>1. \E p : Move(t, p) /\ p \notin Deciders
    BY <1>1 DEF Begin, Lookup, CheckBudget, CheckCost, CallLlm, SaveDiagnosis, Deciders
  <2>2. pc[t] \notin Deciders /\ UNCHANGED <<clock, actions, row, pages, faults>>
    BY <1>1 DEF Begin, Lookup, CheckBudget, CheckCost, CallLlm, SaveDiagnosis, Deciders
  <2>3. PICK p : Move(t, p) /\ p \notin Deciders
    BY <2>1
  <2>4. Answered(actions, pages, FlowOf[t], p, row[t])
    BY <2>3 DEF Answered
  <2> QED
    BY <2>2, <2>3, <2>4, StreakMove
<1>2. CASE SaveDegraded(t) \/ SaveSent(t)
  <2>1. \E s \in {"sent", "degraded"} : Save(t, s)
    BY <1>2 DEF SaveDegraded, SaveSent
  <2>2. /\ Move(t, "idle") /\ "idle" \notin Deciders /\ pc[t] \notin Deciders
        /\ UNCHANGED <<clock, row, pages, faults>>
    BY <1>2 DEF SaveDegraded, SaveSent, Deciders
  <2>3. PICK s \in {"sent", "failed", "degraded"} : Save(t, s) /\ s # "failed"
    BY <2>1
  <2> QED
    BY <2>2, <2>3, StreakSave
<1>3. CASE SaveFailed(t)
  <2>1. /\ Save(t, "failed") /\ Move(t, "check") /\ pc[t] \notin Deciders
        /\ row' = [row EXCEPT ![t] = Len(actions) + 1]
        /\ UNCHANGED <<clock, pages, faults>>
    BY <1>3 DEF SaveFailed, Deciders
  <2> QED
    BY <2>1, StreakSave
<1>4. CASE CheckStreak(t)
  BY <1>4, StreakChecked
<1>5. CASE CheckFirstToday(t)
  BY <1>5, StreakFirstToday
<1>6. CASE BeginAlert(t)
  <2>1. /\ Move(t, "page") /\ pc[t] = "alert" /\ "page" \in Deciders
        /\ UNCHANGED <<clock, actions, row, pages, faults>>
    BY <1>6 DEF BeginAlert, Deciders
  <2>2. ASSUME faults = 0 PROVE Answered(actions, pages, FlowOf[t], "page", row[t])
    <3>1. Answered(actions, pages, FlowOf[t], "alert", row[t])
      BY <2>1, <2>2 DEF StreakInv
    <3> QED
      BY <3>1 DEF Answered, Deciders
  <2> QED
    BY <2>1, <2>2, StreakMove
<1>7. CASE SendAlert(t)
  BY <1>7, StreakSent
<1>8. CASE StoreRaises(t)
  <2>1. faults' # 0
    BY <1>8, Numbers DEF StoreRaises
  <2> QED
    BY <2>1 DEF StreakInv
<1> QED
  BY <1>1, <1>2, <1>3, <1>4, <1>5, <1>6, <1>7, <1>8 DEF Step

LEMMA NextStreak ==
  OneThreadPerFlow => (TypeOK /\ FlagInv /\ StreakInv /\ [Next]_vars => StreakInv')
<1> SUFFICES ASSUME OneThreadPerFlow, TypeOK, FlagInv, StreakInv, [Next]_vars
             PROVE  StreakInv'
  OBVIOUS
<1>1. ASSUME NEW t \in Thread, Begin(t) \/ Step(t) PROVE StreakInv'
  BY <1>1, StepStreak
<1>2. CASE Tick
  <2>1. clock' = clock + 1 /\ UNCHANGED <<actions, pages, pc, row, faults>>
    BY <1>2 DEF Tick
  <2>2. ASSUME Tables(actions, pages, clock) PROVE Tables(actions, pages, clock')
    <3>1. clock \in Int /\ \A i \in DOMAIN actions : actions[i].at \in Int
      <4>1. \A i \in DOMAIN actions : actions[i] \in DiagnosisRow
        BY Numbers
      <4> QED
        BY <4>1, Numbers DEF DiagnosisRow
    <3>2. \A i \in DOMAIN actions : actions[i].at <= clock'
      BY <2>1, <2>2, <3>1 DEF Tables
    <3> QED
      BY <2>2, <3>2 DEF Tables
  <2> QED
    BY <2>1, <2>2 DEF StreakInv
<1>3. CASE Rest \/ UNCHANGED vars
  BY <1>3 DEF Rest, vars, StreakInv
<1> QED
  BY <1>1, <1>2, <1>3 DEF Next

LEMMA InitStreak == Init => StreakInv
<1> SUFFICES ASSUME Init PROVE StreakInv
  OBVIOUS
<1>1. DOMAIN actions = {} /\ DOMAIN pages = {}
  BY DEF Init
<1>2. \A t \in Thread : pc[t] \notin Deciders
  BY DEF Init, Deciders
<1> QED
  BY <1>1, <1>2 DEF StreakInv, Tables, Answered, Complete, LongEnough, DayApart

\* Where a flow is called by one thread and the store takes every statement:
\* an outage pages exactly once when it reaches Threshold failed attempts, and
\* at most once more for each day it lasts.
THEOREM OutagePaged == ASSUME OneThreadPerFlow PROVE Spec => []StreakPagedOnce
<1>1. StreakInv => StreakPagedOnce
  <2> SUFFICES ASSUME StreakInv, faults = 0 PROVE StreakPagedOnce
    BY DEF StreakPagedOnce
  <2>1. ASSUME NEW k \in DOMAIN actions, actions[k].status = "failed", ~Deciding(k),
               Cardinality(Run(k)) = Threshold
        PROVE  \E p \in DOMAIN pages : pages[p].row = k
    <3>1. ~Undecided(row, pc, k)
      BY <2>1 DEF Deciding, Undecided, Deciders
    <3> QED
      BY <2>1, <3>1, RunIs DEF StreakInv, Complete, Paged
  <2>2. \A p \in DOMAIN pages : Cardinality(Run(pages[p].row)) >= Threshold
    BY RunIs DEF StreakInv, LongEnough
  <2>3. \A p, q \in DOMAIN pages :
          p # q /\ pages[p].row \in Run(pages[q].row)
            => actions[pages[p].row].at \div DayLen # actions[pages[q].row].at \div DayLen
    BY RunIs DEF StreakInv, DayApart, Day
  <2> QED
    BY <2>1, <2>2, <2>3 DEF StreakPagedOnce
<1>2. TypeOK /\ FlagInv /\ StreakInv /\ [Next]_vars => StreakInv'
  BY NextStreak
<1>3. Spec => []FlagInv
  BY InitFlagInv, NextFlagInv, PTL DEF Spec
<1> QED
  BY TypeCorrect, InitStreak, <1>1, <1>2, <1>3, PTL DEF Spec
=============================================================================
