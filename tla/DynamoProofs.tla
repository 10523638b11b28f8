---------------------------- MODULE DynamoProofs ----------------------------
(***************************************************************************)
(* The DynamoDB store for every number of threads, rows and operations and *)
(* every page size, with every get_item and put_item interleaved with every*)
(* other and a replica that may lag.                                       *)
(*                                                                         *)
(* IncrementsCounted is not inductive: a count that was read and not yet   *)
(* put back, or that a replica still answers, comes back later.  CountInv  *)
(* bounds these too, and adds that a row no two increments raced on has at *)
(* most one of them in flight, which holds the table's count.              *)
(*                                                                         *)
(* AnswersMatchSqlite compares the index with SQLite's tables, so it needs *)
(* Attributes: which entities carry which indexed attribute.               *)
(*                                                                         *)
(* WalkMissesNothing speaks of a walk that is over.  WalkInv says what is  *)
(* true of one under way: every row answered with is no older than the key it*)
(* resumes at, and every outcome seen at the start was answered or is older.*)
(***************************************************************************)
EXTENDS DynamoStore, FiniteSetTheorems, TLAPS

Reads(t, i) == doing[t].op = "increment" /\ doing[t].id = i

CountInv ==
  /\ \A i \in Ids \ DOMAIN rows : done[i] = 0
  /\ \A i \in DOMAIN rows :
       /\ rows[i].count <= done[i]
       /\ done[i] > 0 => rows[i].count > 0
       /\ i \notin raced => rows[i].count = done[i]
  /\ \A i \in Ids : \A c \in stale[i] : c <= done[i]
  /\ \A t \in Thread, i \in Ids :
       Reads(t, i) =>
         /\ i \in DOMAIN rows
         /\ doing[t].count <= done[i]
         /\ i \notin raced =>
              /\ doing[t].count = rows[i].count
              /\ \A u \in Thread : Reads(u, i) => u = t

StoreInv == TypeOK /\ CountInv

LEMMA InitStore == Init => StoreInv
<1> SUFFICES ASSUME Init PROVE StoreInv
  OBVIOUS
<1>1. TypeOK
  BY DynamoAssumption DEF Init, TypeOK, Operation, Ids
<1>2. CountInv
  BY DEF Init, CountInv, Reads, Idle
<1> QED
  BY <1>1, <1>2 DEF StoreInv

\* A new row: its counters start at what it was saved with.
LEMMA PutStore ==
  ASSUME StoreInv, NEW r \in Saved, Put(r) PROVE StoreInv'
<1> DEFINE k == Len(rows) + 1
           new == [r EXCEPT !.at = clock]
<1>t. TypeOK /\ CountInv
  BY DEF StoreInv
<1>1. new \in Row /\ new.count = 0
  BY <1>t, DynamoAssumption DEF TypeOK, Row
<1>2. rows' = Append(rows, new) /\ Len(rows) < MaxRows
  BY DEF Put
<1> HIDE DEF new
<1>3. /\ rows' \in Seq(Row) /\ Len(rows') = k /\ DOMAIN rows' = 1..k
      /\ rows'[k] = new /\ \A i \in 1..Len(rows) : rows'[i] = rows[i]
      /\ DOMAIN rows = 1..Len(rows) /\ Len(rows) \in Nat
  BY <1>t, <1>1, <1>2 DEF TypeOK
<1>4. UNCHANGED <<clock, indexed, stale, ops, doing, done, raced>>
  BY DEF Put
<1>5. TypeOK'
  BY <1>t, <1>2, <1>3, <1>4, DynamoAssumption DEF TypeOK
<1>6. k \in Ids \ DOMAIN rows /\ done[k] = 0 /\ k \notin raced
  BY <1>t, <1>2, <1>3, DynamoAssumption DEF Ids, CountInv, TypeOK
<1>7. \A t, i : Reads(t, i)' <=> Reads(t, i)
  BY <1>4 DEF Reads
<1>8. CountInv'
  BY <1>t, <1>1, <1>3, <1>4, <1>6, <1>7 DEF CountInv
<1> QED
  BY <1>5, <1>8 DEF StoreInv

\* get_item, for a row some index or scan showed.
LEMMA ReadStore ==
  ASSUME StoreInv, NEW t \in Thread, NEW i \in DOMAIN rows, ReadCount(t, i)
  PROVE StoreInv'
<1>t. TypeOK /\ CountInv
  BY DEF StoreInv
<1>i. i \in Ids
  BY <1>t, DynamoAssumption DEF TypeOK, Ids
<1>1. PICK c \in {rows[i].count} \cup stale[i] :
        /\ doing[t] = Idle
        /\ ops' = ops + 1
        /\ doing' = [doing EXCEPT ![t] = [op |-> "increment", id |-> i, count |-> c]]
        /\ raced' = IF stale[i] # {} \/ InFlight(i) # {} THEN raced \cup {i} ELSE raced
        /\ UNCHANGED <<clock, rows, indexed, stale, done>>
  BY DEF ReadCount, Begin
<1>2. rows[i] \in Row
  BY <1>t DEF TypeOK
<1>3. c \in Nat /\ c <= done[i]
  BY <1>t, <1>i, <1>1, <1>2 DEF TypeOK, Row, CountInv
<1>4. TypeOK'
  BY <1>t, <1>i, <1>1, <1>3 DEF TypeOK, Operation
<1>5. doing'[t] = [op |-> "increment", id |-> i, count |-> c]
      /\ \A u \in Thread : u # t => doing'[u] = doing[u]
  BY <1>t, <1>1 DEF TypeOK
<1>6. \A u \in Thread, j \in Ids :
        Reads(u, j)' => (u = t /\ j = i) \/ (u # t /\ Reads(u, j))
  BY <1>5 DEF Reads
<1>7. i \notin raced' =>
        c = rows[i].count /\ i \notin raced /\ \A u \in Thread : ~Reads(u, i)
  BY <1>1 DEF Reads, InFlight
<1>8. \A j : j # i => (j \in raced' <=> j \in raced)
  BY <1>1
<1>9. CountInv'
  <2>1. ASSUME NEW u \in Thread, NEW j \in Ids, Reads(u, j)'
        PROVE /\ j \in DOMAIN rows /\ doing'[u].count <= done[j]
              /\ j \notin raced' => /\ doing'[u].count = rows[j].count
                                    /\ \A v \in Thread : Reads(v, j)' => v = u
    <3>1. CASE u = t /\ j = i
      BY <1>3, <1>5, <1>6, <1>7, <3>1
    <3>2. CASE u # t /\ Reads(u, j)
      BY <1>t, <1>5, <1>6, <1>7, <1>8, <2>1, <3>2 DEF CountInv
    <3> QED
      BY <1>6, <2>1, <3>1, <3>2
  <2>2. \A j \in DOMAIN rows : j \notin raced' => j \notin raced
    BY <1>7, <1>8
  <2> QED
    BY <1>t, <1>1, <2>1, <2>2 DEF CountInv
<1> QED
  BY <1>4, <1>9 DEF StoreInv

\* put_item: the count that was read, plus one, takes the place of any other.
LEMMA PutCountStore ==
  ASSUME StoreInv, NEW t \in Thread, PutCount(t) PROVE StoreInv'
<1> DEFINE i == doing[t].id
           h == doing[t].count
<1>t. TypeOK /\ CountInv
  BY DEF StoreInv
<1>1. i \in Ids /\ h \in Nat /\ Reads(t, i) /\ i \in DOMAIN rows
  <2>1. doing[t].op = "increment" /\ doing[t] \in Operation
    BY <1>t DEF PutCount, TypeOK
  <2>2. i \in Ids /\ h \in Nat
    BY <2>1 DEF Operation, Idle
  <2> QED
    BY <1>t, <2>1, <2>2 DEF Reads, CountInv
<1>2. /\ rows' = [rows EXCEPT ![i] = [rows[i] EXCEPT !.count = h + 1]]
      /\ stale' = [stale EXCEPT ![i] = @ \cup {rows[i].count}]
      /\ done' = [done EXCEPT ![i] = @ + 1]
      /\ doing' = [doing EXCEPT ![t] = Idle]
      /\ UNCHANGED <<clock, indexed, ops, raced>>
  BY DEF PutCount
<1> HIDE DEF i, h
<1>r. rows[i] \in Row
  BY <1>t, <1>1 DEF TypeOK
<1>3. rows[i] \in Row /\ rows[i].count \in Nat /\ done[i] \in Nat
  BY <1>t, <1>1, <1>r DEF TypeOK, Row
<1>4. h <= done[i] /\ rows[i].count <= done[i] /\ (i \notin raced => h = done[i])
  BY <1>t, <1>1 DEF CountInv, i, h
<1>5. [rows[i] EXCEPT !.count = h + 1] \in Row
      /\ [rows[i] EXCEPT !.count = h + 1].count = h + 1
  BY <1>1, <1>3 DEF Row
<1>6. /\ rows' \in Seq(Row) /\ Len(rows') = Len(rows) /\ DOMAIN rows' = DOMAIN rows
      /\ rows'[i].count = h + 1 /\ \A j \in DOMAIN rows : j # i => rows'[j] = rows[j]
  <2> DEFINE new == [rows[i] EXCEPT !.count = h + 1]
  <2>1. new \in Row /\ new.count = h + 1 /\ rows' = [rows EXCEPT ![i] = new]
    BY <1>2, <1>5
  <2> HIDE DEF new
  <2>2. rows \in Seq(Row) /\ i \in DOMAIN rows
    BY <1>t, <1>1 DEF TypeOK
  <2> QED
    BY <2>1, <2>2
<1>7. TypeOK'
  BY <1>t, <1>1, <1>2, <1>3, <1>6 DEF TypeOK, Operation
<1>8. /\ done'[i] = done[i] + 1 /\ \A j \in Ids : j # i => done'[j] = done[j]
                                                  /\ stale'[j] = stale[j]
      /\ stale'[i] = stale[i] \cup {rows[i].count}
      /\ \A u \in Thread, j \in Ids : Reads(u, j)' =>
           u # t /\ Reads(u, j) /\ doing'[u] = doing[u]
  BY <1>t, <1>1, <1>2 DEF TypeOK, Reads, Idle
<1>9. CountInv'
  <2>1. \A j \in Ids \ DOMAIN rows' : done'[j] = 0
    BY <1>t, <1>1, <1>6, <1>8 DEF CountInv
  <2>2. ASSUME NEW j \in DOMAIN rows'
        PROVE /\ rows'[j].count <= done'[j]
              /\ done'[j] > 0 => rows'[j].count > 0
              /\ j \notin raced' => rows'[j].count = done'[j]
    <3>1. CASE j = i
      BY <1>1, <1>2, <1>3, <1>4, <1>6, <1>8, <3>1
    <3>2. CASE j # i
      <4>1. j \in Ids /\ j \in DOMAIN rows
        BY <1>t, <1>6, DynamoAssumption DEF TypeOK, Ids
      <4> QED
        BY <1>t, <1>2, <1>6, <1>8, <3>2, <4>1 DEF CountInv
    <3> QED
      BY <3>1, <3>2
  <2>3. ASSUME NEW j \in Ids, NEW c \in stale'[j] PROVE c <= done'[j]
    <3>1. CASE j = i
      <4>1. c \in Nat /\ c <= done[i]
        BY <1>t, <1>1, <1>3, <1>4, <1>8, <2>3, <3>1 DEF CountInv, TypeOK
      <4> QED
        BY <1>3, <1>8, <3>1, <4>1
    <3>2. CASE j # i
      BY <1>t, <1>8, <2>3, <3>2 DEF CountInv
    <3> QED
      BY <3>1, <3>2
  <2>4. ASSUME NEW u \in Thread, NEW j \in Ids, Reads(u, j)'
        PROVE /\ j \in DOMAIN rows' /\ doing'[u].count <= done'[j]
              /\ j \notin raced' => /\ doing'[u].count = rows'[j].count
                                    /\ \A v \in Thread : Reads(v, j)' => v = u
    <3>1. u # t /\ Reads(u, j) /\ doing'[u] = doing[u] /\ j \in DOMAIN rows
      BY <1>t, <1>8, <2>4 DEF CountInv
    <3>2. doing[u].count \in Nat /\ doing[u].count <= done[j]
      <4>1. doing[u] \in Operation /\ doing[u].op = "increment"
        BY <1>t, <3>1 DEF TypeOK, Reads
      <4>2. doing[u].count \in Nat
        BY <4>1 DEF Operation, Idle
      <4> QED
        BY <1>t, <3>1, <4>2 DEF CountInv
    <3>3. CASE j = i
      BY <1>t, <1>1, <1>2, <1>3, <1>6, <1>8, <3>1, <3>2, <3>3 DEF CountInv
    <3>4. CASE j # i
      BY <1>t, <1>2, <1>6, <1>8, <3>1, <3>2, <3>4 DEF CountInv
    <3> QED
      BY <3>3, <3>4
  <2> QED
    BY <2>1, <2>2, <2>3, <2>4 DEF CountInv
<1> QED
  BY <1>7, <1>9 DEF StoreInv

\* Steps that change no row and no count: what is in flight stays in flight.
LEMMA CountKept ==
  ASSUME StoreInv, UNCHANGED <<rows, done, raced>>,
         \A i \in Ids : stale'[i] \subseteq stale[i],
         \A t \in Thread : doing'[t] = doing[t] \/ doing'[t].op # "increment"
  PROVE CountInv'
<1>1. \A t \in Thread, i \in Ids : Reads(t, i)' => Reads(t, i) /\ doing'[t] = doing[t]
  BY DEF Reads
<1> QED
  BY <1>1 DEF StoreInv, CountInv

\* A page of the walk, its start and its end.
LEMMA WalkStore ==
  ASSUME StoreInv, NEW t \in Thread, BeginWalk(t) \/ NextPage(t) \/ Return(t)
  PROVE StoreInv'
<1>t. TypeOK
  BY DEF StoreInv
<1>1. UNCHANGED <<clock, rows, indexed, stale, done, raced>>
  BY DEF BeginWalk, NextPage, Return
<1>2. ops' \in Nat
  <2>1. CASE BeginWalk(t)
    BY <1>t, <2>1 DEF BeginWalk, Begin, TypeOK
  <2>2. CASE NextPage(t) \/ Return(t)
    <3>1. ops' = ops
      BY <2>2 DEF NextPage, Return
    <3> QED
      BY <1>t, <3>1 DEF TypeOK
  <2> QED
    BY <2>1, <2>2
<1>3. \E op \in Operation : op.op # "increment" /\ doing' = [doing EXCEPT ![t] = op]
  <2>i. indexed \subseteq Ids
    BY <1>t, DynamoAssumption DEF TypeOK, Ids
  <2>1. CASE BeginWalk(t)
    <3>1. PICK f \in Flows :
            doing' = [doing EXCEPT ![t] = [op |-> "walk", flow |-> f, after |-> 0,
                        pages |-> 0, got |-> {}, seen |-> OfFlow(f)]]
      BY <2>1 DEF BeginWalk, Begin
    <3>2. OfFlow(f) \subseteq Ids
      BY <2>i DEF OfFlow
    <3> QED
      BY <3>1, <3>2 DEF Operation
  <2>2. CASE NextPage(t)
    <3> DEFINE w == doing[t]
               page(k) == First(Ahead(w), k, Newer)
               match(k) == First({i \in page(k) : Outcome(i)},
                                 Limit - Cardinality(w.got), Newer)
               got(k) == w.got \cup match(k)
               answered(k) == [w EXCEPT !.got = got(k), !.pages = @ + 1]
    <3>1. \E k \in 1..PageSize :
             \/ \E last \in page(k) :
                  doing' = [doing EXCEPT ![t] = [answered(k) EXCEPT !.after = last]]
             \/ doing' = [doing EXCEPT ![t] = [answered(k) EXCEPT !.op = "walked"]]
      BY <2>2 DEF NextPage
    <3>k. PICK k \in 1..PageSize :
             \/ \E last \in page(k) :
                  doing' = [doing EXCEPT ![t] = [answered(k) EXCEPT !.after = last]]
             \/ doing' = [doing EXCEPT ![t] = [answered(k) EXCEPT !.op = "walked"]]
      BY <3>1
    <3>2. page(k) \subseteq Ids /\ match(k) \subseteq Ids
      BY <2>i DEF First, Ahead, OfFlow
    <3>w. w.op = "walk" /\ w \in Operation
      BY <1>t, <2>2 DEF NextPage, TypeOK
    <3>3. w \in [op : {"walk"}, flow : Flows, after : Nat, pages : Nat,
                 got : SUBSET Ids, seen : SUBSET Ids]
      BY <3>w DEF Operation, Idle
    <3>4. answered(k) \in [op : {"walk"}, flow : Flows, after : Nat, pages : Nat,
                           got : SUBSET Ids, seen : SUBSET Ids]
      <4>1. got(k) \subseteq Ids /\ w.pages + 1 \in Nat
        BY <3>2, <3>3
      <4> HIDE DEF w, got
      <4> QED
        BY <3>3, <4>1
    <3>5. page(k) \subseteq Nat
      BY <3>2 DEF Ids
    <3> HIDE DEF page, answered
    <3>6. ASSUME NEW last \in page(k)
          PROVE  [answered(k) EXCEPT !.after = last] \in Operation
      BY <3>4, <3>5 DEF Operation
    <3>7. [answered(k) EXCEPT !.op = "walked"] \in Operation
      BY <3>4 DEF Operation
    <3>8. \A last : /\ [answered(k) EXCEPT !.after = last].op = "walk"
                   /\ [answered(k) EXCEPT !.op = "walked"].op = "walked"
      BY <3>4
    <3> QED
      BY <3>k, <3>6, <3>7, <3>8
  <2>3. CASE Return(t)
    BY <2>3 DEF Return, Operation, Idle
  <2> QED
    BY <2>1, <2>2, <2>3
<1>4. PICK op \in Operation : op.op # "increment" /\ doing' = [doing EXCEPT ![t] = op]
  BY <1>3
<1>5. TypeOK'
  BY <1>t, <1>1, <1>2, <1>4 DEF TypeOK
<1>6. CountInv'
  BY <1>t, <1>1, <1>4, CountKept DEF TypeOK
<1> QED
  BY <1>5, <1>6 DEF StoreInv

\* Indexes and replicas catch up, time passes.
LEMMA TableStore ==
  ASSUME StoreInv, Propagate \/ Tick PROVE StoreInv'
<1>t. TypeOK
  BY DEF StoreInv
<1>1. UNCHANGED <<rows, ops, doing, done, raced>>
  BY DEF Propagate, Tick
<1>2. /\ clock' \in Nat /\ indexed' \subseteq DOMAIN rows
      /\ stale' \in [Ids -> SUBSET Nat] /\ \A i \in Ids : stale'[i] \subseteq stale[i]
  <2>1. CASE Tick
    BY <1>t, <2>1 DEF Tick, TypeOK
  <2>2. CASE Propagate
    BY <1>t, <2>2 DEF Propagate, TypeOK
  <2> QED
    BY <2>1, <2>2
<1>3. TypeOK'
  BY <1>t, <1>1, <1>2 DEF TypeOK
<1>4. CountInv'
  BY <1>1, <1>2, CountKept
<1> QED
  BY <1>3, <1>4 DEF StoreInv

LEMMA NextStore == StoreInv /\ [Next]_vars => StoreInv'
<1> SUFFICES ASSUME StoreInv, [Next]_vars PROVE StoreInv'
  OBVIOUS
<1>1. CASE UNCHANGED vars
  <2>1. TypeOK'
    BY <1>1 DEF StoreInv, TypeOK, vars
  <2>2. CountInv'
    BY <1>1, CountKept DEF vars
  <2> QED
    BY <2>1, <2>2 DEF StoreInv
<1>2. ASSUME NEW t \in Thread, IncrementDedupCount(t) \/ IncrementPatternHit(t)
      PROVE StoreInv'
  <2>1. \/ UNCHANGED vars
        \/ \E i \in DOMAIN rows : ReadCount(t, i)
    <3>1. indexed \subseteq DOMAIN rows
      BY DEF StoreInv, TypeOK
    <3>2. ASSUME NEW sig, NEW from, NEW i \in FindReport(sig, from)
          PROVE i \in DOMAIN rows
      BY <3>1, <3>2 DEF FindReport, First, Since, OfSignature
    <3>3. ASSUME NEW page \in Scan, NEW sig, NEW i \in OfKey(page, "known_pattern", sig)
          PROVE i \in DOMAIN rows
      BY <3>3 DEF OfKey, Are, Scan
    <3>4. \A i : MissItem(t, i) => UNCHANGED vars
      BY DEF MissItem
    <3>5. CASE IncrementDedupCount(t)
      BY <3>2, <3>4, <3>5 DEF IncrementDedupCount
    <3>6. CASE IncrementPatternHit(t)
      BY <3>3, <3>4, <3>6 DEF IncrementPatternHit
    <3> QED
      BY <1>2, <3>5, <3>6
  <2> QED
    BY <1>1, <2>1, ReadStore
<1>3. CASE \/ SaveReport \/ SaveAction \/ SaveDecision \/ SaveDiagnosis
           \/ SaveKnownPattern \/ SaveFixAttempt \/ SaveRemediationAction
  BY <1>3, PutStore
  DEF SaveReport, SaveAction, SaveDecision, SaveDiagnosis, SaveKnownPattern,
      SaveFixAttempt, SaveRemediationAction, SaveOf
<1> QED
  BY <1>1, <1>2, <1>3, PutCountStore, WalkStore, TableStore DEF Next

THEOREM StoreInvariant == Spec => []StoreInv
  BY InitStore, NextStore, PTL DEF Spec

\* Tables, indexes and operations keep their types, for every size of a page
\* and every number of rows, threads and operations.
THEOREM DynamoTypes == Spec => []TypeOK
<1>1. StoreInv => TypeOK
  BY DEF StoreInv
<1> QED
  BY <1>1, StoreInvariant, PTL

\* increment_dedup_count and increment_pattern_hit never count twice, never
\* undo the first increment, and lose none while they do not race.
THEOREM IncrementsNeverInvented == Spec => []IncrementsCounted
<1>1. StoreInv => IncrementsCounted
  BY DEF StoreInv, CountInv, IncrementsCounted
<1> QED
  BY <1>1, StoreInvariant, PTL

(***************************************************************************)
(* Rows                                                                    *)
(***************************************************************************)

LEMMA RowsAre ==
  ASSUME TypeOK
  PROVE  /\ rows \in Seq(Row) /\ DOMAIN rows \subseteq Ids /\ DOMAIN rows \subseteq Nat
         /\ IsFiniteSet(DOMAIN rows) /\ indexed \subseteq DOMAIN rows
         /\ \A i \in DOMAIN rows : rows[i] \in Row /\ rows[i].at \in Nat
<1>1. rows \in Seq(Row) /\ DOMAIN rows = 1..Len(rows) /\ Len(rows) \in Nat
      /\ Len(rows) <= MaxRows /\ indexed \subseteq DOMAIN rows
  BY DEF TypeOK
<1>2. IsFiniteSet(DOMAIN rows)
  BY <1>1, FS_Interval
<1>3. DOMAIN rows \subseteq Ids
  BY <1>1, DynamoAssumption DEF Ids
<1>4. \A i \in DOMAIN rows : rows[i] \in Row /\ rows[i].at \in Nat
  <2> TAKE i \in DOMAIN rows
  <2>1. rows[i] \in Row
    BY <1>1
  <2> QED
    BY <2>1 DEF Row
<1> QED
  BY <1>1, <1>2, <1>3, <1>4

\* Only reports have a top-level signature, only actions an action type.
Attributes ==
  \A i \in DOMAIN rows : /\ rows[i].sig # None => rows[i].entity = "report"
                         /\ rows[i].type # None => rows[i].entity = "action"

LEMMA InitAttributes == Init => Attributes
BY DEF Init, Attributes

\* Everything but a row's count is as it was saved.
SameBut(a, b) ==
  /\ b.entity = a.entity /\ b.flow = a.flow /\ b.sig = a.sig /\ b.sev = a.sev
  /\ b.type = a.type /\ b.status = a.status /\ b.at = a.at

LEMMA CountOnly ==
  ASSUME NEW a \in Row, NEW c
  PROVE  SameBut(a, [a EXCEPT !.count = c])
BY DEF SameBut, Row

\* A step adds a row that some caller saved, or counts.
LEMMA RowsGrow ==
  ASSUME StoreInv, [Next]_vars
  PROVE  /\ DOMAIN rows \subseteq DOMAIN rows' /\ indexed \subseteq indexed'
         /\ \A i \in DOMAIN rows : SameBut(rows[i], rows'[i])
         /\ \A i \in DOMAIN rows' \ DOMAIN rows :
              \E r \in Saved : rows'[i].sig = r.sig /\ rows'[i].type = r.type
                               /\ rows'[i].entity = r.entity
<1>t. TypeOK
  BY DEF StoreInv
<1>0. rows \in Seq(Row)
  BY <1>t, RowsAre
<1>1. ASSUME UNCHANGED rows PROVE /\ DOMAIN rows = DOMAIN rows'
                                  /\ \A i \in DOMAIN rows : SameBut(rows[i], rows'[i])
  BY <1>1 DEF SameBut
<1>2. ASSUME NEW r \in Saved, Put(r)
      PROVE  /\ DOMAIN rows \subseteq DOMAIN rows' /\ indexed' = indexed
             /\ \A i \in DOMAIN rows : SameBut(rows[i], rows'[i])
             /\ \A i \in DOMAIN rows' \ DOMAIN rows :
                  rows'[i].sig = r.sig /\ rows'[i].type = r.type /\ rows'[i].entity = r.entity
  <2> DEFINE new == [r EXCEPT !.at = clock]
             n == Len(rows) + 1
  <2>1. rows' = Append(rows, new) /\ indexed' = indexed
    BY <1>2 DEF Put
  <2>2. new.sig = r.sig /\ new.type = r.type /\ new.entity = r.entity
    <3>1. r \in Row
      BY DynamoAssumption
    <3> QED
      BY <3>1 DEF Row
  <2> HIDE DEF new
  <2>3. /\ DOMAIN rows' = DOMAIN rows \cup {n} /\ rows'[n] = new
        /\ \A i \in DOMAIN rows : rows'[i] = rows[i]
    BY <1>0, <2>1
  <2> QED
    BY <2>1, <2>2, <2>3 DEF SameBut
<1>3. ASSUME NEW t \in Thread, PutCount(t)
      PROVE  /\ DOMAIN rows = DOMAIN rows' /\ indexed' = indexed
             /\ \A i \in DOMAIN rows : SameBut(rows[i], rows'[i])
  <2> DEFINE k == doing[t].id
             c == doing[t].count + 1
  <2>1. rows' = [rows EXCEPT ![k].count = c] /\ indexed' = indexed
    BY <1>3 DEF PutCount
  <2> HIDE DEF k, c
  <2>2. /\ DOMAIN rows' = DOMAIN rows
        /\ \A i \in DOMAIN rows : i # k => rows'[i] = rows[i]
        /\ k \in DOMAIN rows => rows'[k] = [rows[k] EXCEPT !.count = c]
    BY <1>0, <2>1
  <2>3. ASSUME k \in DOMAIN rows PROVE SameBut(rows[k], rows'[k])
    <3>1. rows[k] \in Row /\ rows'[k] = [rows[k] EXCEPT !.count = c]
      BY <1>t, <2>2, <2>3, RowsAre
    <3> QED
      BY <3>1, CountOnly
  <2>4. \A i \in DOMAIN rows : SameBut(rows[i], rows'[i])
    <3> TAKE i \in DOMAIN rows
    <3>1. CASE i = k
      BY <2>3, <3>1
    <3>2. CASE i # k
      BY <2>2, <3>2 DEF SameBut
    <3> QED
      BY <3>1, <3>2
  <2> QED
    BY <2>1, <2>2, <2>4
<1>4. ASSUME NEW t \in Thread, IncrementDedupCount(t) \/ IncrementPatternHit(t)
      PROVE  UNCHANGED <<rows, indexed>>
  BY <1>4 DEF IncrementDedupCount, IncrementPatternHit, ReadCount, MissItem, vars
<1>5. ASSUME NEW t \in Thread, BeginWalk(t) \/ NextPage(t) \/ Return(t)
      PROVE  UNCHANGED <<rows, indexed>>
  BY <1>5 DEF BeginWalk, NextPage, Return
<1>6. ASSUME Propagate \/ Tick \/ UNCHANGED vars
      PROVE  UNCHANGED rows /\ indexed \subseteq indexed'
  BY <1>6 DEF Propagate, Tick, vars
<1>7. CASE \E r \in Saved : Put(r)
  <2>1. PICK r \in Saved : Put(r)
    BY <1>7
  <2> QED
    BY <1>2, <2>1
<1>8. CASE \E t \in Thread : PutCount(t)
  BY <1>3, <1>8
<1>9. CASE UNCHANGED rows /\ indexed \subseteq indexed'
  BY <1>1, <1>9
<1>10. CASE \/ SaveReport \/ SaveAction \/ SaveDecision \/ SaveDiagnosis
            \/ SaveKnownPattern \/ SaveFixAttempt \/ SaveRemediationAction
  BY <1>7, <1>10 DEF SaveReport, SaveAction, SaveDecision, SaveDiagnosis,
    SaveKnownPattern, SaveFixAttempt, SaveRemediationAction, SaveOf
<1>11. CASE \E t \in Thread : \/ IncrementDedupCount(t) \/ IncrementPatternHit(t)
                              \/ BeginWalk(t) \/ NextPage(t) \/ Return(t)
  BY <1>4, <1>5, <1>9, <1>11
<1> QED
  BY <1>6, <1>8, <1>9, <1>10, <1>11 DEF Next

LEMMA NextAttributes == StoreInv /\ Attributes /\ [Next]_vars => Attributes'
<1> SUFFICES ASSUME StoreInv, Attributes, [Next]_vars,
                    NEW i \in DOMAIN rows'
             PROVE  /\ rows'[i].sig # None => rows'[i].entity = "report"
                    /\ rows'[i].type # None => rows'[i].entity = "action"
  BY DEF Attributes
<1>1. CASE i \in DOMAIN rows
  BY <1>1, RowsGrow DEF Attributes, SameBut
<1>2. CASE i \notin DOMAIN rows
  <2>1. PICK r \in Saved : rows'[i].sig = r.sig /\ rows'[i].type = r.type
                           /\ rows'[i].entity = r.entity
    BY <1>2, RowsGrow
  <2>2. /\ r.sig # None => r.entity = "report"
        /\ r.type # None => r.entity = "action"
    BY DynamoAssumption, Zenon
  <2> QED
    BY <2>1, <2>2
<1> QED
  BY <1>1, <1>2

(***************************************************************************)
(* What a page holds                                                       *)
(***************************************************************************)

\* In a set of at most n rows, fewer than n stand before any one of them.
LEMMA Ranked ==
  ASSUME NEW S, IsFiniteSet(S), NEW n \in Nat, Cardinality(S) <= n,
         NEW i \in S, NEW T, T \subseteq S \ {i}
  PROVE  Cardinality(T) < n
<1>1. Cardinality(S \ {i}) = Cardinality(S) - 1 /\ IsFiniteSet(S \ {i})
      /\ Cardinality(S) \in Nat
  BY FS_RemoveElement, FS_CardinalityType
<1>2. Cardinality(T) <= Cardinality(S \ {i}) /\ Cardinality(T) \in Nat
  BY <1>1, FS_Subset, FS_CardinalityType
<1> QED
  BY <1>1, <1>2

LEMMA PageWhole ==
  ASSUME TypeOK, NEW S \in SUBSET DOMAIN rows, NEW n \in Nat, Cardinality(S) <= n
  PROVE  First(S, n, Newer) = S /\ First(S, n, Older) = S
<1>1. IsFiniteSet(S)
  BY RowsAre, FS_Subset
<1>2. ASSUME NEW i \in S
      PROVE  /\ Cardinality({j \in S : Newer(j, i)}) < n
             /\ Cardinality({j \in S : Older(j, i)}) < n
  <2>1. i \in Nat /\ rows[i].at \in Nat
    BY RowsAre
  <2>2. ~Newer(i, i)
    BY <2>1 DEF Newer
  <2>3. {j \in S : Newer(j, i)} \subseteq S \ {i}
    BY <2>2
  <2>4. {j \in S : Older(j, i)} \subseteq S \ {i}
    BY <2>2 DEF Older
  <2> QED
    BY <1>1, <2>3, <2>4, Ranked
<1> QED
  BY <1>2 DEF First

(***************************************************************************)
(* The two backends                                                        *)
(***************************************************************************)

LEMMA TableIs ==
  ASSUME NEW e
  PROVE  /\ DOMAIN Table(e) = {i \in DOMAIN rows : rows[i].entity = e}
         /\ \A i \in DOMAIN Table(e) : Table(e)[i] = rows[i]
BY DEF Table, Are

LEMMA ShownAre ==
  ASSUME TypeOK
  PROVE  /\ \A f : OfFlow(f) \subseteq DOMAIN rows
         /\ \A a : OfType(a) \subseteq DOMAIN rows
         /\ \A s : OfSignature(s) \subseteq DOMAIN rows
BY RowsAre DEF OfFlow, OfType, OfSignature

LEMMA NotNewer ==
  ASSUME TypeOK, NEW i \in DOMAIN rows, NEW j \in DOMAIN rows, ~Newer(j, i)
  PROVE  rows[j].at <= rows[i].at
BY RowsAre DEF Newer

\* The newest row is the answer: none that matched is newer.
LEMMA FirstNewest ==
  ASSUME TypeOK, NEW S \in SUBSET DOMAIN rows, NEW i \in First(S, 1, Newer), NEW j \in S
  PROVE  rows[j].at <= rows[i].at
<1>1. i \in S /\ Cardinality({k \in S : Newer(k, i)}) < 1
  BY DEF First
<1> DEFINE T == {k \in S : Newer(k, i)}
<1>2. IsFiniteSet(T) /\ Cardinality(T) \in Nat
  <2>1. T \in SUBSET DOMAIN rows
    OBVIOUS
  <2> QED
    BY <2>1, RowsAre, FS_Subset, FS_CardinalityType
<1>3. T = {}
  BY <1>1, <1>2, FS_EmptySet
<1>4. ~Newer(j, i)
  BY <1>3
<1> QED
  BY <1>1, <1>4, NotNewer

LEMMA SignatureAgrees ==
  ASSUME TypeOK, Attributes, NEW sig \in Signatures, NEW from
  PROVE  LET here == Sqlite!SignatureMatches(Table("report"), sig, from)
         IN  /\ FindReport(sig, from) \subseteq here
             /\ here \subseteq indexed =>
                  FindReport(sig, from) \subseteq Sqlite!Newest(rows, here)
<1> DEFINE here == Sqlite!SignatureMatches(Table("report"), sig, from)
           S == Since(OfSignature(sig), from)
<1>1. sig # None
  BY DEF Signatures
<1>2. here = {i \in DOMAIN rows : /\ rows[i].entity = "report" /\ rows[i].sig = sig
                                  /\ rows[i].at >= from}
  <2>1. /\ DOMAIN Table("report") = {i \in DOMAIN rows : rows[i].entity = "report"}
        /\ \A i \in DOMAIN Table("report") : Table("report")[i] = rows[i]
    BY TableIs
  <2> QED
    BY <2>1 DEF Sqlite!SignatureMatches
<1>3. S \subseteq here /\ S \in SUBSET DOMAIN rows
      /\ S = {i \in indexed : rows[i].sig = sig /\ rows[i].at >= from}
  BY <1>1, <1>2, RowsAre DEF Since, OfSignature, Attributes
<1>4. FindReport(sig, from) = First(S, 1, Newer)
  BY DEF FindReport
<1> HIDE DEF S, here
<1>5. FindReport(sig, from) \subseteq S
  BY <1>4 DEF First
<1>6. ASSUME here \subseteq indexed, NEW i \in FindReport(sig, from)
      PROVE  i \in Sqlite!Newest(rows, here)
  <2>1. here \subseteq S
    BY <1>2, <1>3, <1>6
  <2>2. \A j \in here : rows[j].at <= rows[i].at
    BY <1>3, <1>4, <1>6, <2>1, FirstNewest
  <2>3. i \in here
    BY <1>3, <1>5
  <2> QED
    BY <2>2, <2>3 DEF Sqlite!Newest
<1> QED
  BY <1>3, <1>5, <1>6 DEF here

\* The rows of a page of p, if the rows asked for all fit in it.
ShownIn(asked, p) == IF Cardinality(asked) <= p THEN indexed ELSE {}

LEMMA Fits ==
  ASSUME NEW asked, NEW p \in Nat, asked \subseteq ShownIn(asked, p)
  PROVE  Cardinality(asked) <= p /\ asked \subseteq indexed
<1>1. CASE Cardinality(asked) <= p
  BY <1>1 DEF ShownIn
<1>2. CASE ~(Cardinality(asked) <= p)
  <2>1. asked = {}
    BY <1>2 DEF ShownIn
  <2> QED
    BY <1>2, <2>1, FS_EmptySet
<1> QED
  BY <1>1, <1>2

LEMMA CountsAgree ==
  ASSUME TypeOK, Attributes, NEW type \in Types, NEW f, NEW excluded, NEW p \in Nat
  PROVE  LET asked == {i \in DOMAIN rows : rows[i].type = type /\ rows[i].at >= Today}
         IN  Agrees(CountedToday(type, f, excluded, p),
                    Sqlite!ActionsToday(Table("action"), type, f, clock, excluded),
                    asked, ShownIn(asked, p))
<1> DEFINE answer == CountedToday(type, f, excluded, p)
           truth == Sqlite!ActionsToday(Table("action"), type, f, clock, excluded)
           asked == {i \in DOMAIN rows : rows[i].type = type /\ rows[i].at >= Today}
           S == Since(OfType(type), Today)
<1>1. truth = {i \in DOMAIN rows : /\ rows[i].entity = "action" /\ rows[i].type = type
                                   /\ rows[i].flow = f /\ rows[i].status \notin excluded
                                   /\ rows[i].at >= Today}
  <2>1. /\ DOMAIN Table("action") = {i \in DOMAIN rows : rows[i].entity = "action"}
        /\ \A i \in DOMAIN Table("action") : Table("action")[i] = rows[i]
    BY TableIs
  <2> QED
    BY <2>1 DEF Sqlite!ActionsToday, Today
<1>2. truth = {i \in asked : rows[i].flow = f /\ rows[i].status \notin excluded}
  <2>1. type # None
    BY DEF Types
  <2> QED
    BY <1>1, <2>1 DEF Attributes
<1>3. S \subseteq asked /\ (asked \subseteq indexed => S = asked) /\ S \in SUBSET DOMAIN rows
  BY RowsAre DEF Since, OfType
<1>4. answer = {i \in First(S, p, Older) :
                  rows[i].flow = f /\ rows[i].status \notin excluded}
  BY DEF CountedToday
<1>5. First(S, p, Older) \subseteq S
  BY DEF First
<1>6. ASSUME asked \subseteq ShownIn(asked, p) PROVE First(S, p, Older) = asked
  <2>1. Cardinality(asked) <= p /\ asked \subseteq indexed
    BY <1>6, Fits
  <2> QED
    BY <1>3, <2>1, PageWhole
<1> HIDE DEF answer, truth, asked, S
<1>7. Agrees(answer, truth, asked, ShownIn(asked, p))
  BY <1>2, <1>3, <1>4, <1>5, <1>6 DEF Agrees
<1> QED
  BY <1>7 DEF answer, truth, asked

LEMMA FailuresAgree ==
  ASSUME TypeOK, NEW f, NEW from, HasRecentFailure(f, from)
  PROVE  Sqlite!HasRecentFailure(Table("report"), f, from)
<1>1. PICK i \in First(Since(OfFlow(f), from), 1, Older) :
        rows[i].entity = "report" /\ rows[i].sev \in {"error", "critical"}
  BY DEF HasRecentFailure, Are
<1>2. i \in DOMAIN rows /\ rows[i].flow = f /\ rows[i].at >= from
  BY RowsAre DEF First, Since, OfFlow
<1>3. i \in DOMAIN Table("report") /\ Table("report")[i] = rows[i]
  BY <1>1, <1>2, TableIs
<1> QED
  BY <1>1, <1>2, <1>3 DEF Sqlite!HasRecentFailure

LEMMA FlowAgrees ==
  ASSUME TypeOK, NEW f, NEW p \in Nat
  PROVE  LET asked == {i \in DOMAIN rows : rows[i].flow = f} IN
         /\ \A entity \in {"report", "decision"} :
              Agrees(OfToday(f, entity, p), Sqlite!RowsToday(Table(entity), f, clock),
                     asked, ShownIn(asked, p))
         /\ Agrees(ReportsOf(f, p), Are(asked, "report"), asked, ShownIn(asked, p))
<1> DEFINE asked == {i \in DOMAIN rows : rows[i].flow = f}
<1>0. /\ OfFlow(f) \subseteq asked /\ asked \in SUBSET DOMAIN rows
      /\ asked \subseteq indexed => OfFlow(f) = asked
      /\ IsFiniteSet(asked)
  <2>1. IsFiniteSet(asked)
    BY RowsAre, FS_Subset
  <2> QED
    BY <2>1, RowsAre DEF OfFlow
<1>1. ASSUME NEW entity \in {"report", "decision"}
      PROVE  Agrees(OfToday(f, entity, p), Sqlite!RowsToday(Table(entity), f, clock),
                    asked, ShownIn(asked, p))
  <2> DEFINE answer == OfToday(f, entity, p)
             truth == Sqlite!RowsToday(Table(entity), f, clock)
             S == Since(OfFlow(f), Today)
  <2>1. truth = {i \in asked : rows[i].entity = entity /\ rows[i].at >= Today}
    <3>1. /\ DOMAIN Table(entity) = {i \in DOMAIN rows : rows[i].entity = entity}
          /\ \A i \in DOMAIN Table(entity) : Table(entity)[i] = rows[i]
      BY TableIs
    <3> QED
      BY <3>1 DEF Sqlite!RowsToday, Today
  <2>2. S = {i \in OfFlow(f) : rows[i].at >= Today}
    BY DEF Since
  <2>3. answer = {i \in First(S, p, Older) : rows[i].entity = entity}
    BY DEF OfToday, Are
  <2>4. First(S, p, Older) \subseteq S
    BY DEF First
  <2>5. ASSUME asked \subseteq ShownIn(asked, p)
        PROVE  First(S, p, Older) = S /\ OfFlow(f) = asked
    <3>f. Cardinality(asked) <= p /\ asked \subseteq indexed
      BY <2>5, Fits
    <3>1. S \in SUBSET asked /\ S \in SUBSET DOMAIN rows
      BY <1>0, <2>2
    <3>2. Cardinality(S) <= Cardinality(asked) /\ Cardinality(S) \in Nat
          /\ Cardinality(asked) \in Nat
      BY <1>0, <3>1, FS_Subset, FS_CardinalityType
    <3> QED
      BY <1>0, <3>f, <3>1, <3>2, PageWhole
  <2> HIDE DEF answer, truth, asked, S
  <2>6. Agrees(answer, truth, asked, ShownIn(asked, p))
    BY <1>0, <2>1, <2>2, <2>3, <2>4, <2>5 DEF Agrees
  <2> QED
    BY <2>6 DEF answer, truth
<1>2. Agrees(ReportsOf(f, p), Are(asked, "report"), asked, ShownIn(asked, p))
  <2> DEFINE page == First(OfFlow(f), p, Newer)
  <2>1. ReportsOf(f, p) = {i \in page : rows[i].entity = "report"}
    BY DEF ReportsOf, Are
  <2>2. page \subseteq OfFlow(f)
    BY DEF First
  <2>3. ASSUME asked \subseteq ShownIn(asked, p)
        PROVE  page = asked /\ OfFlow(f) = asked
    <3>1. Cardinality(asked) <= p /\ asked \subseteq indexed
      BY <2>3, Fits
    <3> QED
      BY <1>0, <3>1, PageWhole
  <2> HIDE DEF page, asked
  <2> QED
    BY <1>0, <2>1, <2>2, <2>3 DEF Agrees, Are
<1> QED
  BY <1>1, <1>2

\* A scan's answer is what SQLite's would be, as far as its page goes.
LEMMA PageAgrees ==
  ASSUME NEW page, NEW answer, NEW truth, answer = truth \cap page
  PROVE  Agrees(answer, truth, truth, page)
BY DEF Agrees

LEMMA ScanAnswers == TypeOK => ScansAgree
<1> SUFFICES ASSUME TypeOK PROVE ScansAgree
  OBVIOUS
<1>1. \A page \in Scan : page \subseteq DOMAIN rows
  BY DEF Scan
<1>2. ASSUME NEW e
      PROVE  /\ DOMAIN Table(e) = {i \in DOMAIN rows : rows[i].entity = e}
             /\ \A i \in DOMAIN Table(e) : Table(e)[i] = rows[i]
  BY TableIs
<1>3. ASSUME NEW from, NEW e
      PROVE  /\ Sqlite!RowsSince(Table(e), from)
                  = {i \in DOMAIN rows : rows[i].entity = e /\ rows[i].at >= from}
             /\ \A page : Scanned(page, e, from)
                  = {i \in page : rows[i].entity = e /\ rows[i].at >= from}
  BY <1>2 DEF Sqlite!RowsSince, Scanned, Since, Are
<1>4. ASSUME NEW from, NEW page \in Scan
      PROVE  LET diagnoses == Sqlite!RowsSince(Table("diagnosis"), from)
             IN  Agrees(Scanned(page, "diagnosis", from), diagnoses, diagnoses, page)
  <2>1. Scanned(page, "diagnosis", from)
          = Sqlite!RowsSince(Table("diagnosis"), from) \cap page
    BY <1>1, <1>3
  <2> QED
    BY <2>1, PageAgrees
<1>5. ASSUME NEW from, NEW page \in Scan
      PROVE  LET degraded == Sqlite!Degraded(Table("action"), from)
             IN  Agrees(DegradedActions(page, from), degraded, degraded, page)
  <2>1. Sqlite!Degraded(Table("action"), from)
          = {i \in DOMAIN rows : /\ rows[i].entity = "action" /\ rows[i].at >= from
                                 /\ rows[i].status = "degraded"}
    <3>0. Sqlite!RowsSince(Table("action"), from)
            = {i \in DOMAIN rows : rows[i].entity = "action" /\ rows[i].at >= from}
      BY <1>3
    <3>1. \A i \in Sqlite!RowsSince(Table("action"), from) : Table("action")[i] = rows[i]
      BY <1>2, <3>0
    <3>2. Sqlite!Degraded(Table("action"), from)
            = {i \in Sqlite!RowsSince(Table("action"), from) :
                 Table("action")[i].status = "degraded"}
      BY DEF Sqlite!Degraded
    <3> QED
      BY <1>3, <3>1, <3>2
  <2>2. DegradedActions(page, from)
          = {i \in page : /\ rows[i].entity = "action" /\ rows[i].at >= from
                          /\ rows[i].status = "degraded"}
    BY <1>3 DEF DegradedActions
  <2>3. DegradedActions(page, from) = Sqlite!Degraded(Table("action"), from) \cap page
    BY <1>1, <2>1, <2>2
  <2> QED
    BY <2>3, PageAgrees
<1>6. ASSUME NEW e, NEW key, NEW page \in Scan
      PROVE  LET truth == Sqlite!RowsOfKey(Table(e), key)
             IN  Agrees(OfKey(page, e, key), truth, truth, page)
  <2>1. Sqlite!RowsOfKey(Table(e), key)
          = {i \in DOMAIN rows : rows[i].entity = e /\ rows[i].payload = key}
    <3>1. Sqlite!RowsOfKey(Table(e), key)
            = {i \in DOMAIN Table(e) : Table(e)[i].payload = key}
      BY DEF Sqlite!RowsOfKey
    <3>2. \A i \in DOMAIN Table(e) : Table(e)[i].payload = rows[i].payload
      BY <1>2
    <3>3. {i \in DOMAIN Table(e) : Table(e)[i].payload = key}
            = {i \in DOMAIN Table(e) : rows[i].payload = key}
      BY <3>2
    <3>4. DOMAIN Table(e) = {i \in DOMAIN rows : rows[i].entity = e}
      BY <1>2
    <3> QED
      BY <3>1, <3>3, <3>4
  <2>2. OfKey(page, e, key) = {i \in page : rows[i].entity = e /\ rows[i].payload = key}
    BY DEF OfKey, Are
  <2>3. OfKey(page, e, key) = Sqlite!RowsOfKey(Table(e), key) \cap page
    BY <1>1, <2>1, <2>2
  <2> QED
    BY <2>3, PageAgrees
<1> QED
  BY <1>4, <1>5, <1>6 DEF ScansAgree

LEMMA IndexAnswers ==
  ASSUME TypeOK, Attributes, NEW p \in Nat
  PROVE  QueriesAgree(p)
<1>1. ASSUME NEW type \in Types, NEW f \in Flows
      PROVE  LET asked == {i \in DOMAIN rows : rows[i].type = type /\ rows[i].at >= Today}
             IN  Agrees(CountedToday(type, f, {"failed"}, p),
                        Sqlite!ActionsToday(Table("action"), type, f, clock, {"failed"}),
                        asked, ShownIn(asked, p))
  BY CountsAgree
<1>2. ASSUME NEW f \in Flows
      PROVE  LET asked == {i \in DOMAIN rows : rows[i].flow = f}
             IN  /\ \A entity \in {"report", "decision"} :
                      Agrees(OfToday(f, entity, p), Sqlite!RowsToday(Table(entity), f, clock),
                             asked, ShownIn(asked, p))
                 /\ Agrees(ReportsOf(f, p), Are(asked, "report"), asked, ShownIn(asked, p))
  BY FlowAgrees
<1> QED
  BY <1>1, <1>2 DEF QueriesAgree, ShownIn

\* No answer of the DynamoDB store names a row that SQLite would not, and it
\* is SQLite's answer if the index shows the rows asked for and one page holds
\* them, or if the page that a lagging replica scans has all of them: for every
\* size of a page and every page a replica may answer with.
THEOREM AnswersMatch == Spec => []AnswersMatchSqlite
<1>1. TypeOK /\ Attributes => AnswersMatchSqlite
  BY SignatureAgrees, FailuresAgree, IndexAnswers, ScanAnswers DEF AnswersMatchSqlite
<1>2. StoreInv => TypeOK
  BY DEF StoreInv
<1> QED
  BY StoreInvariant, InitAttributes, NextAttributes, <1>1, <1>2, PTL DEF Spec

(***************************************************************************)
(* The order of a partition and its pages                                  *)
(***************************************************************************)

\* A finite set has an element that no other stands before.
LEMMA Extreme ==
  ASSUME NEW S, IsFiniteSet(S), S # {}, NEW R,
         \A i \in S : <<i, i>> \notin R,
         \A i, j, k \in S : <<i, j>> \in R /\ <<j, k>> \in R => <<i, k>> \in R
  PROVE  \E i \in S : \A j \in S : <<j, i>> \notin R
<1> DEFINE below == [i \in S |-> {k \in S : <<k, i>> \in R}]
           D == {below[i] : i \in S}
           L == StrictSubsetOrdering(S)
           F == FiniteSubsetsOf(S)
<1>b. \A i \in S : below[i] = {k \in S : <<k, i>> \in R}
  OBVIOUS
<1> HIDE DEF below
<1>1. D \subseteq F
  <2>1. ASSUME NEW i \in S PROVE below[i] \in F
    <3>1. below[i] \in SUBSET S
      BY <1>b
    <3>2. IsFiniteSet(below[i])
      BY <3>1, FS_Subset
    <3> QED
      BY <3>1, <3>2 DEF FiniteSubsetsOf
  <2> QED
    BY <2>1, Zenon
<1>2. D # {}
  OBVIOUS
<1>3. IsWellFoundedOn(L, F)
  BY FS_StrictSubsetOrderingWellFounded
<1> HIDE DEF L, F
<1>4. PICK d \in D : \A e \in D : ~ (<<e, d>> \in L)
  BY <1>1, <1>2, <1>3, WFMin
<1>5. PICK i \in S : d = below[i]
  BY <1>4, Zenon
<1>6. ASSUME NEW j \in S, <<j, i>> \in R PROVE FALSE
  <2>1. below[j] \in D
    OBVIOUS
  <2>2. /\ below[j] \subseteq below[i] /\ below[j] # below[i]
        /\ below[j] \subseteq S /\ below[i] \subseteq S
    BY <1>6, <1>b
  <2>3. <<below[j], below[i]>> \in L
    BY <2>2 DEF L, StrictSubsetOrdering
  <2> QED
    BY <2>1, <2>3, <1>4, <1>5
<1> QED
  BY <1>6

LEMMA Order ==
  ASSUME TypeOK
  PROVE  /\ \A i \in DOMAIN rows : ~Newer(i, i)
         /\ \A i, j \in DOMAIN rows : i # j => Newer(i, j) \/ Newer(j, i)
         /\ \A i, j, k \in DOMAIN rows : Newer(i, j) /\ Newer(j, k) => Newer(i, k)
         /\ \A i, j : Older(i, j) <=> Newer(j, i)
BY RowsAre DEF Newer, Older

LEMMA OldestNewest ==
  ASSUME TypeOK, NEW S \in SUBSET DOMAIN rows, S # {}
  PROVE  /\ \E i \in S : \A j \in S : j = i \/ Newer(j, i)
         /\ \E i \in S : \A j \in S : j = i \/ Newer(i, j)
<1>1. IsFiniteSet(S)
  BY RowsAre, FS_Subset
<1>2. \E i \in S : \A j \in S : ~Newer(i, j)
  <2> DEFINE R == {x \in S \X S : Newer(x[2], x[1])}
  <2>1. \A i, j \in S : <<i, j>> \in R <=> Newer(j, i)
    OBVIOUS
  <2> HIDE DEF R
  <2>2. /\ \A i \in S : <<i, i>> \notin R
        /\ \A i, j, k \in S : <<i, j>> \in R /\ <<j, k>> \in R => <<i, k>> \in R
    BY <2>1, Order
  <2>3. \E i \in S : \A j \in S : <<j, i>> \notin R
    BY <1>1, <2>2, Extreme
  <2> QED
    BY <2>1, <2>3
<1>3. \E i \in S : \A j \in S : ~Newer(j, i)
  <2> DEFINE R == {x \in S \X S : Newer(x[1], x[2])}
  <2>1. \A i, j \in S : <<i, j>> \in R <=> Newer(i, j)
    OBVIOUS
  <2> HIDE DEF R
  <2>2. /\ \A i \in S : <<i, i>> \notin R
        /\ \A i, j, k \in S : <<i, j>> \in R /\ <<j, k>> \in R => <<i, k>> \in R
    BY <2>1, Order
  <2>3. \E i \in S : \A j \in S : <<j, i>> \notin R
    BY <1>1, <2>2, Extreme
  <2> QED
    BY <2>1, <2>3
<1> QED
  BY <1>2, <1>3, Order

\* A page is the newest rows of a partition, all of them unless it is full.
LEMMA PageShape ==
  ASSUME TypeOK, NEW S \in SUBSET DOMAIN rows, NEW n \in Nat
  PROVE  LET F == First(S, n, Newer)
         IN  /\ F \subseteq S /\ IsFiniteSet(F) /\ Cardinality(F) \in Nat
             /\ \A i \in F, j \in S : Newer(j, i) => j \in F
             /\ Cardinality(F) <= n
             /\ F # S => Cardinality(F) = n
<1> DEFINE F == First(S, n, Newer)
           Before(i) == {j \in S : Newer(j, i)}
<1>1. F = {i \in S : Cardinality(Before(i)) < n}
  BY DEF First
<1>2. \A T \in SUBSET S : IsFiniteSet(T) /\ Cardinality(T) \in Nat
  BY RowsAre, FS_Subset, FS_CardinalityType
<1> HIDE DEF F
<1>3. F \in SUBSET S /\ IsFiniteSet(F) /\ Cardinality(F) \in Nat
  <2>1. F \in SUBSET S
    BY <1>1
  <2> QED
    BY <1>2, <2>1
<1>4. ASSUME NEW i \in F, NEW j \in S, Newer(j, i) PROVE j \in F
  <2>1. Before(j) \subseteq Before(i) /\ Before(i) \in SUBSET S /\ Before(j) \in SUBSET S
    BY <1>3, <1>4, Order
  <2>2. IsFiniteSet(Before(i)) /\ Cardinality(Before(i)) \in Nat
        /\ Cardinality(Before(j)) \in Nat
    BY <1>2, <2>1
  <2>3. Cardinality(Before(j)) <= Cardinality(Before(i))
    BY <2>1, <2>2, FS_Subset
  <2>4. Cardinality(Before(i)) < n
    BY <1>1
  <2>5. Cardinality(Before(j)) < n
    BY <2>2, <2>3, <2>4
  <2> QED
    BY <1>1, <2>5
<1>5. Cardinality(F) <= n
  <2>1. CASE F = {}
    BY <2>1, FS_EmptySet
  <2>2. CASE F # {}
    <3>1. PICK m \in F : \A j \in F : j = m \/ Newer(j, m)
      BY <1>3, <2>2, OldestNewest
    <3>2. F \ {m} \subseteq Before(m) /\ Before(m) \in SUBSET S
      BY <1>3, <3>1
    <3>3. Cardinality(Before(m)) < n /\ Cardinality(Before(m)) \in Nat
          /\ IsFiniteSet(Before(m))
      BY <1>1, <1>2, <3>1, <3>2
    <3>4. Cardinality(F \ {m}) = Cardinality(F) - 1
      BY <1>3, <3>1, FS_RemoveElement
    <3>5. Cardinality(F \ {m}) <= Cardinality(Before(m))
      BY <3>2, <3>3, FS_Subset
    <3> HIDE DEF Before
    <3> QED
      BY <1>3, <3>3, <3>4, <3>5
  <2> QED
    BY <2>1, <2>2
<1>6. ASSUME F # S PROVE Cardinality(F) = n
  <2>1. S \ F # {} /\ S \ F \in SUBSET DOMAIN rows
    BY <1>3, <1>6
  <2>2. PICK m \in S \ F : \A j \in S \ F : j = m \/ Newer(m, j)
    BY <2>1, OldestNewest
  <2>3. Before(m) \subseteq F
    <3> SUFFICES ASSUME NEW j \in S, Newer(j, m), j \notin F PROVE FALSE
      OBVIOUS
    <3>1. j = m \/ Newer(m, j)
      BY <2>2
    <3> QED
      BY <2>2, <3>1, Order
  <2>4. Cardinality(Before(m)) \in Nat /\ Cardinality(Before(m)) >= n
    <3>1. Before(m) \in SUBSET S
      OBVIOUS
    <3>2. Cardinality(Before(m)) \in Nat
      BY <1>2, <3>1
    <3>3. ~(Cardinality(Before(m)) < n)
      BY <1>1, <2>2
    <3> HIDE DEF Before
    <3> QED
      BY <3>2, <3>3
  <2>5. Cardinality(Before(m)) <= Cardinality(F)
    BY <1>3, <2>3, FS_Subset
  <2> HIDE DEF Before
  <2> QED
    BY <1>3, <1>5, <2>4, <2>5
<1> QED
  BY <1>3, <1>4, <1>5, <1>6 DEF F

(***************************************************************************)
(* The walk                                                                *)
(***************************************************************************)

FlowRows(A, I, f) == {i \in I : A[i].flow = f}
NewerIn(A, i, j) == A[i].at > A[j].at \/ (A[i].at = A[j].at /\ i > j)
OutcomeIn(A, i) == /\ A[i].entity = "action" /\ A[i].type = "diagnosis"
                   /\ A[i].status \in {"sent", "failed"}

\* Of the rows the index showed at the start, the outcomes no page has
\* reached yet are older than the key the last page ended at.
Underway(A, I, w) ==
  /\ Cardinality(w.got) < Limit
  /\ w.after = 0 => w.got = {}
  /\ w.after # 0 =>
       /\ w.after \in FlowRows(A, I, w.flow)
       /\ \A j \in w.got : j = w.after \/ NewerIn(A, j, w.after)
       /\ \A i \in w.seen : OutcomeIn(A, i) => NewerIn(A, w.after, i) \/ i \in w.got

Answer(A, w) ==
  /\ Cardinality(w.got) <= Limit
  /\ \A i \in w.seen, j \in w.got : OutcomeIn(A, i) /\ NewerIn(A, i, j) => i \in w.got
  /\ Cardinality(w.got) < Limit /\ w.pages < MaxPages
       => \A i \in w.seen : OutcomeIn(A, i) => i \in w.got

WalkOK(A, I, w) ==
  /\ w.op \in {"walk", "walked"} => /\ w.seen \subseteq FlowRows(A, I, w.flow)
                                    /\ w.got \subseteq FlowRows(A, I, w.flow)
  /\ w.op = "walk" => Underway(A, I, w)
  /\ w.op = "walked" => Answer(A, w)

WalkInv == \A t \in Thread : WalkOK(rows, indexed, doing[t])

\* Rows that arrive, counters and a fresher index do not disturb a walk.
LEMMA WalkStays ==
  ASSUME NEW A, NEW B, NEW I, NEW J, NEW w, I \subseteq DOMAIN A, I \subseteq J,
         \A i \in DOMAIN A : SameBut(A[i], B[i]), WalkOK(A, I, w)
  PROVE  WalkOK(B, J, w)
<1>1. \A i \in I : /\ B[i].flow = A[i].flow /\ B[i].at = A[i].at
                   /\ OutcomeIn(B, i) <=> OutcomeIn(A, i)
  BY DEF SameBut, OutcomeIn
<1>2. \A i, j \in I : NewerIn(B, i, j) <=> NewerIn(A, i, j)
  BY <1>1 DEF NewerIn
<1>3. \A f : FlowRows(A, I, f) \subseteq FlowRows(B, J, f)
  BY <1>1 DEF FlowRows
<1>4. \A f : FlowRows(A, I, f) \subseteq I
  BY DEF FlowRows
<1>5. CASE w.op = "walk"
  <2>1. Underway(A, I, w) /\ w.seen \subseteq I /\ w.got \subseteq I
        /\ w.seen \subseteq FlowRows(B, J, w.flow) /\ w.got \subseteq FlowRows(B, J, w.flow)
    BY <1>3, <1>4, <1>5 DEF WalkOK
  <2>2. Underway(B, J, w)
    <3>1. CASE w.after = 0
      BY <2>1, <3>1 DEF Underway
    <3>2. CASE w.after # 0
      <4>1. w.after \in FlowRows(A, I, w.flow) /\ w.after \in I
        BY <1>4, <2>1, <3>2 DEF Underway
      <4>2. w.after \in FlowRows(B, J, w.flow)
        BY <1>3, <4>1
      <4>3. \A j \in w.got : j = w.after \/ NewerIn(B, j, w.after)
        BY <1>2, <2>1, <3>2, <4>1 DEF Underway
      <4>4. \A i \in w.seen : OutcomeIn(B, i) => NewerIn(B, w.after, i) \/ i \in w.got
        BY <1>1, <1>2, <2>1, <3>2, <4>1 DEF Underway
      <4> QED
        BY <2>1, <3>2, <4>2, <4>3, <4>4 DEF Underway
    <3> QED
      BY <3>1, <3>2
  <2> QED
    BY <1>5, <2>1, <2>2 DEF WalkOK
<1>6. CASE w.op = "walked"
  <2>1. Answer(A, w) /\ w.seen \subseteq I /\ w.got \subseteq I
        /\ w.seen \subseteq FlowRows(B, J, w.flow) /\ w.got \subseteq FlowRows(B, J, w.flow)
    BY <1>3, <1>4, <1>6 DEF WalkOK
  <2>2. Answer(B, w)
    BY <1>1, <1>2, <2>1 DEF Answer
  <2> QED
    BY <1>6, <2>1, <2>2 DEF WalkOK
<1>7. CASE w.op \notin {"walk", "walked"}
  BY <1>7 DEF WalkOK
<1> QED
  BY <1>5, <1>6, <1>7

LEMMA WalkBegins ==
  ASSUME TypeOK, NEW t \in Thread, BeginWalk(t)
  PROVE  WalkOK(rows, indexed, doing'[t])
<1>1. PICK f \in Flows :
        doing' = [doing EXCEPT ![t] = [op |-> "walk", flow |-> f, after |-> 0, pages |-> 0,
                                       got |-> {}, seen |-> OfFlow(f)]]
  BY DEF BeginWalk, Begin
<1> DEFINE w == [op |-> "walk", flow |-> f, after |-> 0, pages |-> 0,
                 got |-> {}, seen |-> OfFlow(f)]
<1>2. doing'[t] = w
  BY <1>1 DEF TypeOK
<1>3. /\ w.op = "walk" /\ w.flow = f /\ w.after = 0 /\ w.got = {} /\ w.seen = OfFlow(f)
  OBVIOUS
<1>4. OfFlow(f) = FlowRows(rows, indexed, f)
  BY DEF OfFlow, FlowRows
<1> HIDE DEF w
<1>5. Cardinality(w.got) < Limit
  BY <1>3, FS_EmptySet, DynamoAssumption
<1>6. WalkOK(rows, indexed, w)
  BY <1>3, <1>4, <1>5 DEF WalkOK, Underway
<1> QED
  BY <1>2, <1>6

\* What an operation that is a walk holds.
LEMMA WalkShape ==
  ASSUME NEW w \in Operation, w.op = "walk"
  PROVE  w \in [op : {"walk"}, flow : Flows, after : Nat, pages : Nat,
                got : SUBSET Ids, seen : SUBSET Ids]
<1>1. w # Idle
  BY DEF Idle
<1>2. w \notin [op : {"increment"}, id : Ids, count : Nat]
  OBVIOUS
<1>3. w \in [op : {"walk", "walked"}, flow : Flows, after : Nat, pages : Nat,
             got : SUBSET Ids, seen : SUBSET Ids]
  BY <1>1, <1>2 DEF Operation
<1> QED
  BY <1>3

\* One page: what it answers with is of the partition ahead, and none of the
\* outcomes before the page's end is left out.
LEMMA WalkPages ==
  ASSUME TypeOK, NEW t \in Thread, NextPage(t), WalkOK(rows, indexed, doing[t])
  PROVE  WalkOK(rows, indexed, doing'[t])
<1>k. PICK k \in 1..PageSize :
        LET w == doing[t]
            page == First(Ahead(w), k, Newer)
            match == First({i \in page : Outcome(i)}, Limit - Cardinality(w.got), Newer)
            got == w.got \cup match
            more == /\ Cardinality(page) = k /\ Cardinality(got) < Limit
                    /\ w.pages + 1 < MaxPages
            answered == [w EXCEPT !.got = got, !.pages = @ + 1]
        IN  IF more
            THEN \E last \in page :
                   /\ \A i \in page : i = last \/ Newer(i, last)
                   /\ doing' = [doing EXCEPT ![t] = [answered EXCEPT !.after = last]]
            ELSE doing' = [doing EXCEPT ![t] = [answered EXCEPT !.op = "walked"]]
  BY Zenon DEF NextPage
<1> DEFINE w == doing[t]
           page == First(Ahead(w), k, Newer)
           M == {i \in page : Outcome(i)}
           match == First(M, Limit - Cardinality(w.got), Newer)
           got == w.got \cup match
           more == /\ Cardinality(page) = k /\ Cardinality(got) < Limit
                   /\ w.pages + 1 < MaxPages
           answered == [w EXCEPT !.got = got, !.pages = @ + 1]
           P == FlowRows(rows, indexed, w.flow)
<1>1. /\ w.op = "walk"
      /\ more => \E last \in page :
           /\ \A i \in page : i = last \/ Newer(i, last)
           /\ doing' = [doing EXCEPT ![t] = [answered EXCEPT !.after = last]]
      /\ ~more => doing' = [doing EXCEPT ![t] = [answered EXCEPT !.op = "walked"]]
  BY <1>k DEF NextPage
<1>n. k \in Nat
  BY DynamoAssumption
<1>2. w \in [op : {"walk"}, flow : Flows, after : Nat, pages : Nat,
             got : SUBSET Ids, seen : SUBSET Ids]
  <2>1. w \in Operation
    BY DEF TypeOK
  <2>2. w.op = "walk"
    BY <1>1
  <2> HIDE DEF w
  <2> QED
    BY <2>1, <2>2, WalkShape
<1>3. Underway(rows, indexed, w) /\ w.seen \subseteq P /\ w.got \subseteq P
  BY <1>1 DEF WalkOK
<1>4. P \in SUBSET DOMAIN rows /\ P = OfFlow(w.flow)
  BY RowsAre DEF FlowRows, OfFlow
<1>5. /\ \A i, j : NewerIn(rows, i, j) <=> Newer(i, j)
      /\ \A i : OutcomeIn(rows, i) <=> Outcome(i)
  BY DEF NewerIn, Newer, OutcomeIn, Outcome
<1>6. /\ \A i \in DOMAIN rows : ~Newer(i, i)
      /\ \A i, j \in DOMAIN rows : i # j => Newer(i, j) \/ Newer(j, i)
      /\ \A i, j, m \in DOMAIN rows : Newer(i, j) /\ Newer(j, m) => Newer(i, m)
  BY Order
<1>7. Ahead(w) = {i \in P : w.after = 0 \/ Newer(w.after, i)}
  BY <1>4 DEF Ahead, Older
<1>8. /\ Cardinality(w.got) < Limit
      /\ w.after = 0 => w.got = {}
      /\ w.after # 0 =>
           /\ w.after \in P
           /\ \A j \in w.got : j = w.after \/ Newer(j, w.after)
           /\ \A i \in w.seen : Outcome(i) => Newer(w.after, i) \/ i \in w.got
  BY <1>3, <1>5 DEF Underway
\* Outcomes seen that are not ahead were answered before; nothing answered is
\* ahead, and all of it is newer than what is.
<1>9. /\ \A i \in w.seen : Outcome(i) => i \in Ahead(w) \/ i \in w.got
      /\ \A j \in w.got, i \in Ahead(w) : Newer(j, i)
      /\ Ahead(w) \in SUBSET DOMAIN rows /\ Ahead(w) \subseteq P
  <2>1. \A i \in w.seen : Outcome(i) => i \in Ahead(w) \/ i \in w.got
    BY <1>3, <1>7, <1>8
  <2>2. ASSUME NEW j \in w.got, NEW i \in Ahead(w) PROVE Newer(j, i)
    <3>1. w.after # 0 /\ Newer(w.after, i) /\ i \in P
      BY <1>7, <1>8, <2>2
    <3> QED
      BY <1>3, <1>4, <1>6, <1>8, <3>1
  <2> QED
    BY <1>4, <1>7, <2>1, <2>2
<1>10. /\ page \subseteq Ahead(w) /\ \A i \in page, j \in Ahead(w) : Newer(j, i) => j \in page
       /\ page # Ahead(w) => Cardinality(page) = k
  BY <1>n, <1>9, PageShape
<1>11. M \in SUBSET DOMAIN rows /\ M \subseteq page
  BY <1>9, <1>10
<1>12. IsFiniteSet(w.got) /\ Cardinality(w.got) \in Nat /\ w.got \in SUBSET DOMAIN rows
  <2>1. w.got \in SUBSET DOMAIN rows
    BY <1>3, <1>4
  <2> QED
    BY <2>1, RowsAre, FS_Subset, FS_CardinalityType
<1>13. Limit \in Nat /\ Limit - Cardinality(w.got) \in Nat
  BY <1>8, <1>12, DynamoAssumption
<1>14. /\ match \subseteq M /\ IsFiniteSet(match) /\ Cardinality(match) \in Nat
       /\ \A i \in match, j \in M : Newer(j, i) => j \in match
       /\ Cardinality(match) <= Limit - Cardinality(w.got)
       /\ match # M => Cardinality(match) = Limit - Cardinality(w.got)
  BY <1>11, <1>13, PageShape
<1>15. M = {i \in page : Outcome(i)} /\ got = w.got \cup match
  OBVIOUS
<1>16. answered = [w EXCEPT !.got = got, !.pages = w.pages + 1]
  OBVIOUS
<1> HIDE DEF page, M, match, got, answered
<1>17. w.got \cap match = {}
  BY <1>6, <1>9, <1>10, <1>11, <1>12, <1>14
<1>18. Cardinality(got) = Cardinality(w.got) + Cardinality(match) /\ Cardinality(got) \in Nat
  <2>1. Cardinality(w.got \cap match) = 0
    BY <1>17, FS_EmptySet
  <2>2. Cardinality(w.got \cup match)
          = Cardinality(w.got) + Cardinality(match) - Cardinality(w.got \cap match)
    BY <1>12, <1>14, FS_Union
  <2> QED
    BY <1>12, <1>14, <1>15, <2>1, <2>2
<1>19. Cardinality(got) <= Limit /\ (Cardinality(got) < Limit => match = M)
  BY <1>12, <1>13, <1>14, <1>18
<1>20. got \subseteq P
  BY <1>3, <1>9, <1>10, <1>11, <1>14, <1>15
\* Of what was seen, an outcome not older than the page's end is answered.
<1>21. ASSUME NEW i \in w.seen, Outcome(i), NEW j \in got, Newer(i, j) PROVE i \in got
  <2>1. CASE i \in w.got
    BY <1>15, <2>1
  <2>2. CASE i \in Ahead(w) /\ j \in w.got
    <3>1. Newer(j, i) /\ i \in DOMAIN rows /\ j \in DOMAIN rows
      BY <1>9, <1>12, <2>2
    <3> QED
      BY <1>6, <1>21, <3>1
  <2>3. CASE i \in Ahead(w) /\ j \in match
    <3>1. j \in page
      BY <1>11, <1>14, <2>3
    <3>2. i \in M
      BY <1>10, <1>15, <1>21, <2>3, <3>1
    <3> QED
      BY <1>14, <1>15, <1>21, <2>3, <3>2
  <2> QED
    BY <1>9, <1>15, <1>21, <2>1, <2>2, <2>3
<1>22. CASE ~more
  <2> DEFINE v == [answered EXCEPT !.op = "walked"]
  <2>1. doing'[t] = v
    BY <1>1, <1>22 DEF TypeOK
  <2>2. v.op = "walked" /\ v.got = got /\ v.seen = w.seen /\ v.flow = w.flow
        /\ v.pages = w.pages + 1 /\ w.pages \in Nat
    <3> HIDE DEF w
    <3> QED
      BY <1>2, <1>16
  <2> HIDE DEF v
  <2>3. ASSUME Cardinality(got) < Limit, w.pages + 1 < MaxPages, NEW i \in w.seen, Outcome(i)
        PROVE  i \in got
    <3>1. Cardinality(page) # k
      BY <1>22, <2>3
    <3>2. page = Ahead(w)
      BY <1>10, <3>1
    <3>3. match = M
      BY <1>19, <2>3
    <3> QED
      BY <1>9, <1>15, <2>3, <3>2, <3>3
  <2>4. Answer(rows, v)
    BY <1>5, <1>19, <1>21, <2>2, <2>3 DEF Answer
  <2>5. WalkOK(rows, indexed, v)
    BY <1>3, <1>20, <2>2, <2>4 DEF WalkOK
  <2> QED
    BY <2>1, <2>5
<1>23. CASE more
  <2>1. PICK last \in page :
          /\ \A i \in page : i = last \/ Newer(i, last)
          /\ doing' = [doing EXCEPT ![t] = [answered EXCEPT !.after = last]]
    BY <1>1, <1>23
  <2> DEFINE v == [answered EXCEPT !.after = last]
  <2>2. doing'[t] = v
    BY <2>1 DEF TypeOK
  <2>3. v.op = "walk" /\ v.got = got /\ v.seen = w.seen /\ v.flow = w.flow /\ v.after = last
    <3> HIDE DEF w
    <3> QED
      BY <1>2, <1>16
  <2> HIDE DEF v
  <2>4. last \in Ahead(w) /\ last \in P /\ last \in DOMAIN rows /\ last # 0
    <3>1. last \in Ahead(w) /\ last \in P /\ last \in DOMAIN rows
      BY <1>9, <1>10, <2>1
    <3>2. last \in Ids
      BY <3>1, RowsAre
    <3> QED
      BY <3>1, <3>2, DynamoAssumption DEF Ids
  <2>5. \A j \in got : j = last \/ Newer(j, last)
    <3> TAKE j \in got
    <3>1. CASE j \in w.got
      BY <1>9, <2>4, <3>1
    <3>2. CASE j \in match
      BY <1>11, <1>14, <2>1, <3>2
    <3> QED
      BY <1>15, <3>1, <3>2
  <2>6. ASSUME NEW i \in w.seen, Outcome(i), i \notin got PROVE Newer(last, i)
    <3>1. i \in Ahead(w) /\ i \in DOMAIN rows
      BY <1>9, <1>15, <2>6
    <3>2. i \notin page
      <4>1. match = M
        BY <1>19, <1>23
      <4> QED
        BY <1>15, <2>6, <4>1
    <3>3. ~Newer(i, last)
      BY <1>10, <2>1, <3>1, <3>2
    <3>4. i # last
      BY <2>1, <3>2
    <3> QED
      BY <1>6, <2>4, <3>1, <3>3, <3>4
  <2>7. Underway(rows, indexed, v)
    BY <1>5, <1>23, <2>3, <2>4, <2>5, <2>6 DEF Underway
  <2>8. WalkOK(rows, indexed, v)
    BY <1>3, <1>20, <2>3, <2>7 DEF WalkOK
  <2> QED
    BY <2>2, <2>8
<1> QED
  BY <1>22, <1>23

LEMMA NextWalk == StoreInv /\ WalkInv /\ [Next]_vars => WalkInv'
<1> SUFFICES ASSUME StoreInv, WalkInv, [Next]_vars, NEW u \in Thread
             PROVE  WalkOK(rows', indexed', doing'[u])
  BY DEF WalkInv
<1>t. TypeOK
  BY DEF StoreInv
<1>w. WalkOK(rows, indexed, doing[u])
  BY DEF WalkInv
<1>1. ASSUME WalkOK(rows, indexed, doing'[u]) PROVE WalkOK(rows', indexed', doing'[u])
  <2>1. /\ indexed \subseteq DOMAIN rows /\ indexed \subseteq indexed'
        /\ \A i \in DOMAIN rows : SameBut(rows[i], rows'[i])
    BY <1>t, RowsAre, RowsGrow
  <2> QED
    BY <1>1, <2>1, WalkStays
<1>2. CASE doing'[u] = doing[u]
  BY <1>1, <1>2, <1>w
<1>3. CASE doing'[u].op \notin {"walk", "walked"}
  BY <1>3 DEF WalkOK
<1>4. CASE BeginWalk(u)
  BY <1>t, <1>1, <1>4, WalkBegins
<1>5. CASE NextPage(u)
  BY <1>t, <1>w, <1>1, <1>5, WalkPages
<1>6. ASSUME NEW t \in Thread,
             \/ IncrementDedupCount(t) \/ IncrementPatternHit(t) \/ PutCount(t) \/ Return(t)
      PROVE  doing'[u] = doing[u] \/ doing'[u].op \notin {"walk", "walked"}
  <2>1. \/ UNCHANGED doing
        \/ \E op : op.op \notin {"walk", "walked"} /\ doing' = [doing EXCEPT ![t] = op]
    <3>1. CASE PutCount(t) \/ Return(t)
      BY <3>1 DEF PutCount, Return, Idle
    <3>2. CASE IncrementDedupCount(t) \/ IncrementPatternHit(t)
      <4>1. \/ UNCHANGED doing
            \/ \E i, c : doing' = [doing EXCEPT ![t] = [op |-> "increment", id |-> i,
                                                        count |-> c]]
        BY <3>2 DEF IncrementDedupCount, IncrementPatternHit, ReadCount, MissItem, vars,
                    Begin
      <4> QED
        BY <4>1
    <3> QED
      BY <1>6, <3>1, <3>2
  <2> QED
    BY <1>t, <2>1 DEF TypeOK
<1>7. ASSUME NEW t \in Thread, t # u, BeginWalk(t) \/ NextPage(t)
      PROVE  doing'[u] = doing[u]
  <2>1. \E op : doing' = [doing EXCEPT ![t] = op]
    <3>1. CASE BeginWalk(t)
      BY <3>1 DEF BeginWalk, Begin
    <3>2. CASE NextPage(t)
      BY <3>2, Zenon DEF NextPage
    <3> QED
      BY <1>7, <3>1, <3>2
  <2> QED
    BY <1>t, <1>7, <2>1 DEF TypeOK
<1>8. CASE UNCHANGED doing
  BY <1>2, <1>8
<1>9. CASE \/ SaveReport \/ SaveAction \/ SaveDecision \/ SaveDiagnosis
           \/ SaveKnownPattern \/ SaveFixAttempt \/ SaveRemediationAction
  <2>1. UNCHANGED doing
    BY <1>9 DEF SaveReport, SaveAction, SaveDecision, SaveDiagnosis, SaveKnownPattern,
                SaveFixAttempt, SaveRemediationAction, SaveOf, Put
  <2> QED
    BY <1>8, <2>1
<1>10. CASE Propagate \/ Tick \/ UNCHANGED vars
  BY <1>8, <1>10 DEF Propagate, Tick, vars
<1>11. CASE \E t \in Thread : \/ IncrementDedupCount(t) \/ IncrementPatternHit(t)
                              \/ PutCount(t) \/ Return(t)
  BY <1>2, <1>3, <1>6, <1>11
<1>12. CASE \E t \in Thread : BeginWalk(t) \/ NextPage(t)
  <2>1. PICK t \in Thread : BeginWalk(t) \/ NextPage(t)
    BY <1>12
  <2>2. CASE t = u
    BY <1>4, <1>5, <2>1, <2>2
  <2>3. CASE t # u
    BY <1>2, <1>7, <2>1, <2>3
  <2> QED
    BY <2>2, <2>3
<1> QED
  BY <1>9, <1>10, <1>11, <1>12 DEF Next

\* The outage detector's walk skips no outcome the index showed when it began,
\* up to the oldest it answers with, and has all of them unless a limit cut it
\* off: for every size and number of pages, and whatever arrives meanwhile.
THEOREM WalkComplete == Spec => []WalkMissesNothing
<1>1. Init => WalkInv
  BY DEF Init, WalkInv, WalkOK, Idle
<1>2. WalkInv => WalkMissesNothing
  <2> SUFFICES ASSUME WalkInv, NEW t \in Thread, doing[t].op = "walked"
               PROVE  LET w == doing[t]
                          outcomes == {i \in w.seen : Outcome(i)}
                      IN  /\ Cardinality(w.got) <= Limit
                          /\ \A i \in outcomes, j \in w.got : Newer(i, j) => i \in w.got
                          /\ Cardinality(w.got) < Limit /\ w.pages < MaxPages
                               => outcomes \subseteq w.got
    BY DEF WalkMissesNothing
  <2>1. Answer(rows, doing[t])
    BY DEF WalkInv, WalkOK
  <2>2. /\ \A i, j : NewerIn(rows, i, j) <=> Newer(i, j)
        /\ \A i : OutcomeIn(rows, i) <=> Outcome(i)
    BY DEF NewerIn, Newer, OutcomeIn, Outcome
  <2> QED
    BY <2>1, <2>2 DEF Answer
<1> QED
  BY StoreInvariant, <1>1, NextWalk, <1>2, PTL DEF Spec
=============================================================================
