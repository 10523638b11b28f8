---------------------------- MODULE StoreQueries ----------------------------
(***************************************************************************)
(* The questions flow-doctor asks of its store, as pure operators over the *)
(* tables.  This module is the SQLite backend's answer to each; a table is *)
(* the sequence of its rows in the order they were committed, and a row id *)
(* is its position.  Times are ticks: created_at is UTC, "today" is the    *)
(* local calendar date of the host, compared with it as text.              *)
(***************************************************************************)
EXTENDS Integers, Sequences, FiniteSets

CONSTANTS
  DayLen,     \* ticks in a day
  ZoneOffset  \* local time minus UTC on the host, in ticks

ASSUME ClockAssumption == DayLen \in Nat \ {0} /\ ZoneOffset \in Int

\* date.today() at UTC time now, read back as the UTC instant its text
\* denotes when it is compared with created_at.
DayStart(now) == ((now + ZoneOffset) \div DayLen) * DayLen

\* The reports the dedup query can return: not scoped by flow.
SignatureMatches(reports, sig, since) ==
  {i \in DOMAIN reports : reports[i].sig = sig /\ reports[i].at >= since}

\* ORDER BY created_at DESC LIMIT 1, any of them on a tie.
Newest(reports, ids) ==
  {i \in ids : \A j \in ids : reports[j].at <= reports[i].at}

\* UPDATE ... SET dedup_count = dedup_count + 1: one atomic statement.
IncrementDedup(reports, id) == [reports EXCEPT ![id].dedup = @ + 1]

\* Mutant: warnings of the upstream count.
HasRecentReport(reports, flow, since) ==
  \E i \in DOMAIN reports : reports[i].flow = flow /\ reports[i].at >= since

HasRecentFailure(reports, flow, since) ==
  \E i \in DOMAIN reports :
    /\ reports[i].flow = flow
    /\ reports[i].sev \in {"error", "critical"}
    /\ reports[i].at >= since

\* The rows count_actions_today counts, and their number.
ActionsToday(actions, type, flow, now, excluded) ==
  {i \in DOMAIN actions :
     /\ actions[i].type = type
     /\ actions[i].flow = flow
     /\ actions[i].status \notin excluded
     /\ actions[i].at >= DayStart(now)}

CountActionsToday(actions, type, flow, now, excluded) ==
  Cardinality(ActionsToday(actions, type, flow, now, excluded))

\* Rows of a table: one flow's, since the day began; since a time; of a key.
RowsToday(table, flow, now) ==
  {i \in DOMAIN table : table[i].flow = flow /\ table[i].at >= DayStart(now)}
RowsSince(table, since) == {i \in DOMAIN table : table[i].at >= since}
RowsOfKey(table, key) == {i \in DOMAIN table : table[i].payload = key}

\* What the daily digest asks for.
Degraded(actions, since) ==
  {i \in RowsSince(actions, since) : actions[i].status = "degraded"}
=============================================================================
