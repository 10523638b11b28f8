---------------------------- MODULE DynamoStore ----------------------------
(***************************************************************************)
(* DynamoDBStorage: one table that the flows of a fleet share.             *)
(*                                                                         *)
(* A row is one item; what the program keeps inside the JSON payload is    *)
(* its fields payload and count (dedup_count or hit_count, from the value  *)
(* it was saved with), every other field is a top-level attribute, the     *)
(* only kind a filter or an index can see.  The secondary indexes catch up *)
(* with the table later, and a plain get_item or scan may answer from a    *)
(* replica that lags: no read of the program asks for a consistent one.  A *)
(* query or a scan evaluates one page of rows and filters that page: rows  *)
(* beyond it are not looked at.  A page is 1 MB, so its rows vary.         *)
(***************************************************************************)
EXTENDS Integers, Sequences, FiniteSets

CONSTANTS
  Thread,
  Saved,        \* the rows callers save: as the saving method builds them
  None,         \* an attribute the item lacks
  PageSize,     \* the most rows in a page
  MaxPages,     \* _DIAGNOSIS_OUTCOME_MAX_PAGES
  Limit,        \* outcomes the outage detector asks for
  DayLen, ZoneOffset,
  MaxRows,      \* bound: rows
  MaxTime,      \* bound: ticks
  MaxOps,       \* bound: increments and index walks begun
  MaxWalks      \* bound: index walks at a time; they only read

Entity == {"report", "action", "decision", "diagnosis", "known_pattern",
           "fix_attempt", "remediation_action"}
Counted == {"report", "known_pattern"}
Ids == 1..MaxRows
Flows == {r.flow : r \in Saved} \ {None}
Types == {r.type : r \in Saved} \ {None}
Signatures == {r.sig : r \in Saved} \ {None}
Keys == {r.payload : r \in Saved} \ {None}
Row == [entity : Entity, flow : Flows \cup {None}, sig : Signatures \cup {None},
        sev : {r.sev : r \in Saved}, type : Types \cup {None},
        status : {r.status : r \in Saved}, payload : Keys \cup {None},
        count : Nat, at : Nat]

\* Only a report's item has a top-level error_signature and only an action's
\* an action_type (save_report, save_action).
ASSUME DynamoAssumption ==
  /\ Saved \subseteq Row /\ \A r \in Saved : r.count = 0
  /\ \A r \in Saved : /\ r.sig # None => r.entity = "report"
                      /\ r.type # None => r.entity = "action"
  /\ PageSize \in Nat \ {0} /\ MaxPages \in Nat \ {0} /\ Limit \in Nat \ {0}
  /\ MaxRows \in Nat /\ MaxTime \in Nat
  /\ MaxOps \in Nat /\ MaxWalks \in Nat

VARIABLES
  clock,
  rows,     \* the table, in the order the items were first put
  indexed,  \* the rows the secondary indexes show
  stale,    \* [id -> counts a lagging replica may still answer]
  ops,      \* operations of several calls begun
  doing,    \* [Thread -> its operation of several calls, or Idle]
  done,     \* history: [id -> increments completed]
  raced     \* history: rows read for an increment while stale, or while
            \* another increment of theirs was in flight

vars == <<clock, rows, indexed, stale, ops, doing, done, raced>>

(***************************************************************************)
(* What SQLite would answer over the same rows                             *)
(***************************************************************************)
Sqlite == INSTANCE StoreQueries

(***************************************************************************)
(* Queries and scans                                                       *)
(***************************************************************************)
Newer(i, j) == rows[i].at > rows[j].at \/ (rows[i].at = rows[j].at /\ i > j)
Older(i, j) == Newer(j, i)

\* The first n of S, in the order Before.
First(S, n, Before(_, _)) ==
  {i \in S : Cardinality({j \in S : Before(j, i)}) < n}

OfFlow(f) == {i \in indexed : rows[i].flow = f}           \* FlowIndex
OfType(a) == {i \in indexed : rows[i].type = a}           \* ActionTypeIndex
OfSignature(s) == {i \in indexed : rows[i].sig = s}       \* SignatureIndex
Since(S, from) == {i \in S : rows[i].at >= from}
Are(S, entity) == {i \in S : rows[i].entity = entity}
Today == Sqlite!DayStart(clock)

\* The pages a scan may evaluate: some of the rows a replica shows.  How far a
\* replica lags has no bound, and hashed keys come in no order of ours.
Scan == {page \in SUBSET (DOMAIN rows) : Cardinality(page) <= PageSize}

\* The ids find_report_by_signature can return: at most one.
FindReport(sig, from) == First(Since(OfSignature(sig), from), 1, Newer)

\* Mutant: the count is not scoped by flow.
CountedOfFleet(a, f, excluded, p) ==
  {i \in First(Since(OfType(a), Today), p, Older) :
     rows[i].status \notin excluded}

\* The rows count_actions_today counts, from a page of p rows.
CountedToday(a, f, excluded, p) ==
  {i \in First(Since(OfType(a), Today), p, Older) :
     rows[i].flow = f /\ rows[i].status \notin excluded}

\* Limit = 1 is the page: the oldest row of the flow, whatever it is.
HasRecentFailure(f, from) ==
  \E i \in Are(First(Since(OfFlow(f), from), 1, Older), "report") :
    rows[i].sev \in {"error", "critical"}

\* get_reports: the page is cut before the filter here too.
ReportsOf(f, n) == Are(First(OfFlow(f), n, Newer), "report")

\* One flow's reports, or decisions, of today.
OfToday(f, entity, p) == Are(First(Since(OfFlow(f), Today), p, Older), entity)

\* Those read by scan: since a time, the diagnoses whose cost is summed; the
\* degraded actions of the digest; the pattern of a signature, the diagnosis of
\* a report, the attempts at a diagnosis.
Scanned(page, entity, from) == Since(Are(page, entity), from)
DegradedActions(page, from) ==
  {i \in Scanned(page, "action", from) : rows[i].status = "degraded"}
OfKey(page, entity, key) == {i \in Are(page, entity) : rows[i].payload = key}

(***************************************************************************)
(* Calls of one write: put_item of a new key                               *)
(***************************************************************************)

\* created_at is UTC.
Put(r) ==
  /\ Len(rows) < MaxRows
  /\ rows' = Append(rows, [r EXCEPT !.at = clock])
  /\ UNCHANGED <<clock, indexed, stale, ops, doing, done, raced>>

SaveOf(entity) == \E r \in Saved : r.entity = entity /\ Put(r)
SaveReport == SaveOf("report")
SaveAction == SaveOf("action")
SaveDecision == SaveOf("decision")
SaveDiagnosis == SaveOf("diagnosis")
SaveKnownPattern == SaveOf("known_pattern")
SaveFixAttempt == SaveOf("fix_attempt")
SaveRemediationAction == SaveOf("remediation_action")

(***************************************************************************)
(* increment_dedup_count and increment_pattern_hit: read, then put back    *)
(***************************************************************************)
Idle == [op |-> "idle"]
Begin(t, op) ==
  /\ doing[t] = Idle /\ ops < MaxOps
  /\ ops' = ops + 1
  /\ doing' = [doing EXCEPT ![t] = op]

InFlight(id) == {t \in Thread : doing[t].op = "increment" /\ doing[t].id = id}

\* get_item reads a replica: the last count, or one it has not caught up with.
ReadCount(t, id) ==
  \E c \in {rows[id].count} \cup stale[id] :
    /\ rows[id].entity \in Counted
    /\ Begin(t, [op |-> "increment", id |-> id, count |-> c])
    /\ raced' = IF stale[id] # {} \/ InFlight(id) # {} THEN raced \cup {id} ELSE raced
    /\ UNCHANGED <<clock, rows, indexed, stale, done>>

\* `if not item: return`: the replica lacks the item, the occurrence is not
\* counted, and nothing else changes.
MissItem(t, id) ==
  /\ rows[id].entity \in Counted
  /\ doing[t] = Idle
  /\ UNCHANGED vars

\* The dedup checker increments the report its query found.
IncrementDedupCount(t) ==
  \E sig \in Signatures, from \in 0..clock :
    \E id \in FindReport(sig, from) : ReadCount(t, id) \/ MissItem(t, id)

\* The knowledge base, a pattern of the signature that its scan showed.
IncrementPatternHit(t) ==
  \E page \in Scan, sig \in Keys :
    \E id \in OfKey(page, "known_pattern", sig) : ReadCount(t, id) \/ MissItem(t, id)

\* Mutant: the count that was read is added to what is there.
PutCountTwice(t) ==
  /\ doing[t].op = "increment"
  /\ LET id == doing[t].id IN
       /\ rows' = [rows EXCEPT ![id].count = @ + doing[t].count + 1]
       /\ stale' = [stale EXCEPT ![id] = @ \cup {rows[id].count}]
       /\ done' = [done EXCEPT ![id] = @ + 1]
  /\ doing' = [doing EXCEPT ![t] = Idle]
  /\ UNCHANGED <<clock, indexed, ops, raced>>

\* The whole item goes back with the count that was read, plus one.
PutCount(t) ==
  /\ doing[t].op = "increment"
  /\ LET id == doing[t].id IN
       /\ rows' = [rows EXCEPT ![id].count = doing[t].count + 1]
       /\ stale' = [stale EXCEPT ![id] = @ \cup {rows[id].count}]
       /\ done' = [done EXCEPT ![id] = @ + 1]
  /\ doing' = [doing EXCEPT ![t] = Idle]
  /\ UNCHANGED <<clock, indexed, ops, raced>>

(***************************************************************************)
(* recent_diagnosis_outcomes: a walk of FlowIndex, newest first, by pages  *)
(***************************************************************************)
Outcome(i) == /\ rows[i].entity = "action" /\ rows[i].type = "diagnosis"
              /\ rows[i].status \in {"sent", "failed"}

BeginWalk(t) ==
  /\ Cardinality({u \in Thread : doing[u].op \in {"walk", "walked"}}) < MaxWalks
  /\ \E f \in Flows :
       Begin(t, [op |-> "walk", flow |-> f, after |-> 0, pages |-> 0,
                 got |-> {}, seen |-> OfFlow(f)])
  /\ UNCHANGED <<clock, rows, indexed, stale, done, raced>>

\* What is left of the partition after the key the last page ended at.
Ahead(w) ==
  {i \in OfFlow(w.flow) : w.after = 0 \/ Older(i, w.after)}

\* Mutant: the first page is the answer.
NextPageOnly(t) ==
  /\ doing[t].op = "walk"
  /\ LET w == doing[t]
         match == First({i \in First(Ahead(w), PageSize, Newer) : Outcome(i)},
                        Limit, Newer)
     IN  doing' = [doing EXCEPT ![t] =
           [w EXCEPT !.op = "walked", !.got = match, !.pages = 1]]
  /\ UNCHANGED <<clock, rows, indexed, stale, ops, done, raced>>

\* The walk ends at Limit outcomes, at the last key, or after MaxPages.  A page
\* that is full comes with a key to go on from, also when nothing follows it.
NextPage(t) ==
  /\ doing[t].op = "walk"
  /\ \E k \in 1..PageSize :
     LET w == doing[t]
         page == First(Ahead(w), k, Newer)
         match == First({i \in page : Outcome(i)}, Limit - Cardinality(w.got), Newer)
         got == w.got \cup match
         more == /\ Cardinality(page) = k /\ Cardinality(got) < Limit
                 /\ w.pages + 1 < MaxPages
         answered == [w EXCEPT !.got = got, !.pages = @ + 1]
     IN  IF more
         THEN \E last \in page :
                /\ \A i \in page : i = last \/ Newer(i, last)
                /\ doing' = [doing EXCEPT ![t] = [answered EXCEPT !.after = last]]
         ELSE doing' = [doing EXCEPT ![t] = [answered EXCEPT !.op = "walked"]]
  /\ UNCHANGED <<clock, rows, indexed, stale, ops, done, raced>>

Return(t) ==
  /\ doing[t].op = "walked"
  /\ doing' = [doing EXCEPT ![t] = Idle]
  /\ UNCHANGED <<clock, rows, indexed, stale, ops, done, raced>>

(***************************************************************************)
(* The table                                                               *)
(***************************************************************************)

\* An index holds only items that have its key attribute: the other entities
\* are in none of the three.
Keyed(i) == rows[i].flow # None \/ rows[i].sig # None \/ rows[i].type # None

\* The indexes and the replicas catch up with one row.
Propagate ==
  \/ \E id \in DOMAIN rows \ indexed :
       /\ Keyed(id)
       /\ indexed' = indexed \cup {id}
       /\ UNCHANGED <<clock, rows, stale, ops, doing, done, raced>>
  \/ \E id \in DOMAIN rows :
       /\ stale[id] # {}
       /\ stale' = [stale EXCEPT ![id] = {}]
       /\ UNCHANGED <<clock, rows, indexed, ops, doing, done, raced>>

Tick ==
  /\ clock < MaxTime
  /\ clock' = clock + 1
  /\ UNCHANGED <<rows, indexed, stale, ops, doing, done, raced>>

Init ==
  /\ clock = 0
  /\ rows = <<>>
  /\ indexed = {}
  /\ stale = [id \in Ids |-> {}]
  /\ ops = 0
  /\ doing = [t \in Thread |-> Idle]
  /\ done = [id \in Ids |-> 0]
  /\ raced = {}

Next ==
  \/ SaveReport \/ SaveAction \/ SaveDecision \/ SaveDiagnosis
  \/ SaveKnownPattern \/ SaveFixAttempt \/ SaveRemediationAction
  \/ \E t \in Thread : \/ IncrementDedupCount(t) \/ IncrementPatternHit(t)
                       \/ PutCount(t)
                       \/ BeginWalk(t) \/ NextPage(t) \/ Return(t)
  \/ Propagate \/ Tick

Spec == Init /\ [][Next]_vars

(***************************************************************************)
(* Properties                                                              *)
(***************************************************************************)

Operation ==
  {Idle} \cup [op : {"increment"}, id : Ids, count : Nat]
  \cup [op : {"walk", "walked"}, flow : Flows, after : Nat, pages : Nat,
         got : SUBSET Ids, seen : SUBSET Ids]

\* Every table, index and operation has the shape the code gives it; an index
\* shows rows of the table only.
TypeOK ==
  /\ clock \in Nat /\ ops \in Nat
  /\ rows \in Seq(Row) /\ Len(rows) <= MaxRows
  /\ indexed \subseteq DOMAIN rows
  /\ stale \in [Ids -> SUBSET Nat]
  /\ doing \in [Thread -> Operation]
  /\ done \in [Ids -> Nat]
  /\ raced \subseteq DOMAIN rows

\* Increments of one row that found it are counted exactly once while they do
\* not overlap and read what the last one put; overlapping or reading a lagging
\* replica they may be lost, never counted twice, and the first one is never
\* undone (the occurrence count of a report, the hit count of a pattern). One
\* that found no item there is nobody's: increment_dedup_count drops it.
IncrementsCounted ==
  \A i \in DOMAIN rows :
    /\ rows[i].count <= done[i]
    /\ i \notin raced => rows[i].count = done[i]
    /\ done[i] > 0 => rows[i].count > 0

\* The outcomes a walk answers with, over any number of pages and while rows
\* arrive: none of those the index showed when it began is skipped, up to the
\* oldest it answers, and a walk that was not cut off by its limits has all.
WalkMissesNothing ==
  \A t \in Thread : doing[t].op = "walked" =>
    LET w == doing[t]
        outcomes == {i \in w.seen : Outcome(i)}
    IN  /\ Cardinality(w.got) <= Limit
        /\ \A i \in outcomes, j \in w.got : Newer(i, j) => i \in w.got
        /\ Cardinality(w.got) < Limit /\ w.pages < MaxPages => outcomes \subseteq w.got

\* An answer from the rows shown names none that SQLite's does not, and all of
\* them once these have every row asked for.
Agrees(answer, truth, asked, shown) ==
  /\ answer \subseteq truth
  /\ asked \subseteq shown => answer = truth

\* SQLite's table of an entity.
Table(entity) == [i \in Are(DOMAIN rows, entity) |-> rows[i]]

\* The queries of an index, in a page of p rows: if the rows asked for are more,
\* they are not all shown.
QueriesAgree(p) ==
  LET shown(asked) == IF Cardinality(asked) <= p THEN indexed ELSE {}
  IN  /\ \A type \in Types, f \in Flows :
           LET asked == {i \in DOMAIN rows : rows[i].type = type /\ rows[i].at >= Today}
           IN  Agrees(CountedToday(type, f, {"failed"}, p),
                      Sqlite!ActionsToday(Table("action"), type, f, clock, {"failed"}),
                      asked, shown(asked))
      /\ \A f \in Flows :
           LET asked == {i \in DOMAIN rows : rows[i].flow = f}
           IN  /\ \A entity \in {"report", "decision"} :
                    Agrees(OfToday(f, entity, p),
                           Sqlite!RowsToday(Table(entity), f, clock),
                           asked, shown(asked))
               /\ Agrees(ReportsOf(f, p), Are(asked, "report"), asked, shown(asked))

\* The scans, of any page a replica may answer with.
ScansAgree ==
  /\ \A from \in 0..clock :
       LET diagnoses == Sqlite!RowsSince(Table("diagnosis"), from)
           degraded == Sqlite!Degraded(Table("action"), from)
       IN  \A page \in Scan :
             /\ Agrees(Scanned(page, "diagnosis", from), diagnoses, diagnoses, page)
             /\ Agrees(DegradedActions(page, from), degraded, degraded, page)
  /\ \A entity \in {"known_pattern", "diagnosis", "fix_attempt"}, key \in Keys :
       LET truth == Sqlite!RowsOfKey(Table(entity), key)
       IN  \A page \in Scan : Agrees(OfKey(page, entity, key), truth, truth, page)

\* The two backends answer alike (sqlite.py's count_actions_today): every read
\* by flow, by type, by signature or by key gives what SQLite would once the
\* index it queries, or the replica it scans, has caught up and a page holds the
\* partition; before that no answer names a row SQLite would not, so that
\* another flow's alerts never spend this one's budget.
AnswersMatchSqlite ==
  /\ \A sig \in Signatures, from \in 0..clock :
       LET here == Sqlite!SignatureMatches(Table("report"), sig, from) IN
         /\ FindReport(sig, from) \subseteq here
         /\ here \subseteq indexed =>
              FindReport(sig, from) \subseteq Sqlite!Newest(rows, here)
  /\ \A f \in Flows, from \in 0..clock :
       HasRecentFailure(f, from) => Sqlite!HasRecentFailure(Table("report"), f, from)
  /\ \A p \in 1..PageSize : QueriesAgree(p)
  /\ ScansAgree

\* has_recent_failure (base.py): whether a flow reported a failure since the
\* given time, once the index shows the flow's rows.
RecentFailureSeen ==
  \A f \in Flows, from \in 0..clock :
    /\ {i \in DOMAIN rows : rows[i].flow = f} \subseteq indexed
    /\ Sqlite!HasRecentFailure(Table("report"), f, from)
    => HasRecentFailure(f, from)
=============================================================================
