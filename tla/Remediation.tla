----------------------------- MODULE Remediation -----------------------------
(***************************************************************************)
(* _run_remediation: the decision gate that routes a diagnosed failure,    *)
(* the executor that acts on the host's machines, and their audit trail.   *)
(*                                                                         *)
(* Every process has a gate of its own, whose counters live in memory and  *)
(* die with it; the remediation_actions table is common to all.  A step is *)
(* one store statement, one access to the gate's counters or one AWS call. *)
(***************************************************************************)
EXTENDS Integers, Sequences, FiniteSets

CONSTANTS
  Process, Thread,
  ProcOf,          \* [Thread -> Process]
  Failure,         \* failure keys: flow, category, root cause
  Case,            \* the diagnosed failures: see CaseType
  Backend,         \* the store: "sqlite" or "dynamodb"
  AutoMin, PrMin,  \* confidence thresholds
  MaxPerDay, MaxPerFailure,
  DryRun,
  DayLen, ZoneOffset,
  Market,          \* ticks within market hours
  MaxCases,        \* bound: decisions per thread
  MaxTime,         \* bound: ticks
  MaxFaults        \* bound: store errors and crashes

AutoCats == {"INFRA", "CONFIG", "TRANSIENT", "DATA"}
PrCats == {"CODE", "CONFIG"}
NoMatch == "none"
Kind == {"restart", "rerun", "update_config", "code_fix", "escalate", NoMatch}
CaseType == [failure : Failure, confidence : Nat,
             cat : AutoCats \cup PrCats \cup {"EXTERNAL"},
             denied : BOOLEAN,   \* a deny_repos entry matches
             match : Kind,       \* action_type of the first playbook match
             safe : BOOLEAN]     \* its safe_during_market_hours

ASSUME RemediationAssumption ==
  /\ ProcOf \in [Thread -> Process]
  /\ IsFiniteSet(Thread) /\ Thread # {}
  /\ Case \subseteq CaseType /\ Case # {}
  /\ Backend \in {"sqlite", "dynamodb"}
  /\ AutoMin \in Nat /\ PrMin \in Nat
  /\ MaxPerDay \in Nat /\ MaxPerFailure \in Nat /\ DryRun \in BOOLEAN
  /\ DayLen \in Nat \ {0} /\ ZoneOffset \in Int /\ Market \subseteq Int
  /\ MaxCases \in Nat /\ MaxTime \in Nat /\ MaxFaults \in Nat

VARIABLES
  clock,
  rows,     \* the remediation_actions table
  gate,     \* [Process -> the counters of its DecisionGate]
  pc,       \* [Thread -> where its decision stands]
  case,     \* [Thread -> its decision: the failure, when it began, and the
            \* failure_count it read]
  cases,    \* [Thread -> decisions begun]
  faults,
  effects   \* history: the calls that reached AWS

vars == <<clock, rows, gate, pc, case, cases, faults, effects>>

Day(now) == now \div DayLen
Move(t, p) == pc' = [pc EXCEPT ![t] = p]
PC == {"idle", "count", "failure", "grant", "dispatch", "audit",
       "recordPr", "recordEscalation"}
\* The locals of a thread that decides nothing.
NoCase == [what |-> CHOOSE c \in Case : TRUE, since |-> 0, seen |-> 0]
FreshGate == [day |-> -1, daily |-> 0, failures |-> [f \in Failure |-> 0]]

\* Mutant: a decision type that nothing downstream handles.
RouteLogged(c) ==
  IF c.cat = "TRANSIENT" /\ c.confidence < AutoMin THEN "recordLog" ELSE "count"

\* decide() before the safety checks: the first rule that applies.
Route(c) ==
  CASE c.denied -> "recordEscalation"
    [] ~c.denied /\ c.confidence >= AutoMin /\ c.cat \in AutoCats -> "count"
    [] OTHER ->
         IF c.confidence >= PrMin /\ c.cat \in PrCats THEN "recordPr"
         ELSE IF c.cat = "TRANSIENT" THEN "idle" ELSE "recordEscalation"

\* count_remediations_today: SQLite compares with the local date; DynamoDB
\* filters on decision_type, which its items hold inside the payload only.
CountToday ==
  IF Backend = "dynamodb" THEN 0
  ELSE LET start == ((clock + ZoneOffset) \div DayLen) * DayLen
       IN  Cardinality({i \in DOMAIN rows : /\ rows[i].type = "auto_remediate"
                                            /\ rows[i].at >= start})

(***************************************************************************)
(* DecisionGate.decide                                                     *)
(***************************************************************************)

\* Mutant: the counters are reset on every decision.
ResetAlways(g) == [FreshGate EXCEPT !.day = Day(clock)]

\* _maybe_reset_daily_counts: at the first decision of a UTC day.
Reset(g) == IF g.day = Day(clock) THEN g ELSE [FreshGate EXCEPT !.day = Day(clock)]

Decide(t, c) ==
  /\ pc[t] = "idle" /\ cases[t] < MaxCases
  /\ cases' = [cases EXCEPT ![t] = @ + 1]
  /\ gate' = [gate EXCEPT ![ProcOf[t]] = Reset(@)]
  /\ case' = [case EXCEPT ![t] =
               IF Route(c) = "idle" THEN NoCase
               ELSE [what |-> c, since |-> clock, seen |-> 0]]
  /\ Move(t, Route(c))
  /\ UNCHANGED <<clock, rows, faults, effects>>

\* Mutant: one too many.
CheckDailyLate(t) ==
  /\ pc[t] = "count"
  /\ Move(t, IF CountToday > MaxPerDay THEN "recordEscalation" ELSE "failure")
  /\ UNCHANGED <<clock, rows, gate, case, cases, faults, effects>>

\* The daily limit, by the store's count.
CheckDaily(t) ==
  /\ pc[t] = "count"
  /\ Move(t, IF CountToday >= MaxPerDay THEN "recordEscalation" ELSE "failure")
  /\ UNCHANGED <<clock, rows, gate, case, cases, faults, effects>>

\* The store raises: the gate's own count stands in for it.
CheckDailyInMemory(t) ==
  /\ pc[t] = "count"
  /\ faults < MaxFaults /\ faults' = faults + 1
  /\ Move(t, IF gate[ProcOf[t]].daily >= MaxPerDay THEN "recordEscalation" ELSE "failure")
  /\ UNCHANGED <<clock, rows, gate, case, cases, effects>>

\* The limit per failure, the lockout, and what the playbook says.
CheckFailure(t) ==
  /\ pc[t] = "failure"
  /\ LET c == case[t].what
         n == gate[ProcOf[t]].failures[c.failure]
     IN  /\ case' = [case EXCEPT ![t].seen = n]
         /\ Move(t, IF \/ n >= MaxPerFailure
                       \/ clock \in Market /\ (c.match = NoMatch \/ ~c.safe)
                       \/ c.match \in {NoMatch, "escalate"}
                    THEN "recordEscalation"
                    ELSE IF c.match = "code_fix" THEN "recordPr" ELSE "grant")
  /\ UNCHANGED <<clock, rows, gate, cases, faults, effects>>

Grant(t) ==
  /\ pc[t] = "grant"
  /\ gate' = [gate EXCEPT ![ProcOf[t]].daily = @ + 1,
                          ![ProcOf[t]].failures[case[t].what.failure] = case[t].seen + 1]
  /\ Move(t, "dispatch")
  /\ UNCHANGED <<clock, rows, case, cases, faults, effects>>

(***************************************************************************)
(* RemediationExecutor.execute, and the other decisions' rows              *)
(***************************************************************************)

\* A dry run and a config update never reach AWS; a live call may fail on
\* either side of it.
Dispatch(t) ==
  /\ pc[t] = "dispatch"
  /\ \/ UNCHANGED effects
     \/ /\ ~DryRun /\ case[t].what.match \in {"restart", "rerun"}
        /\ effects' = Append(effects,
             [proc |-> ProcOf[t], failure |-> case[t].what.failure,
              at |-> clock, since |-> case[t].since])
  /\ Move(t, "audit")
  /\ UNCHANGED <<clock, rows, gate, case, cases, faults>>

Finish(t) == Move(t, "idle") /\ case' = [case EXCEPT ![t] = NoCase]

RowOf(p) == CASE p = "audit" -> "auto_remediate"
              [] p = "recordPr" -> "generate_fix_pr"
              [] p = "recordEscalation" -> "escalate"

\* Mutant: a row only for what the gate handed to people.
SaveRowUnaudited(t) ==
  /\ pc[t] \in {"audit", "recordPr", "recordEscalation"}
  /\ rows' = IF pc[t] = "audit" THEN rows
             ELSE Append(rows, [type |-> RowOf(pc[t]), at |-> clock])
  /\ Finish(t)
  /\ UNCHANGED <<clock, gate, cases, faults, effects>>

\* save_remediation_action, whatever the outcome was.
SaveRow(t) ==
  /\ pc[t] \in {"audit", "recordPr", "recordEscalation"}
  /\ rows' = Append(rows, [type |-> RowOf(pc[t]), at |-> clock])
  /\ Finish(t)
  /\ UNCHANGED <<clock, gate, cases, faults, effects>>

\* It raises: logged, and the decision is over.
LoseRow(t) ==
  /\ pc[t] \in {"audit", "recordPr", "recordEscalation"}
  /\ faults < MaxFaults /\ faults' = faults + 1
  /\ Finish(t)
  /\ UNCHANGED <<clock, rows, gate, cases, effects>>

\* Process p dies and starts again with a new gate.
Restart(p) ==
  /\ faults < MaxFaults /\ faults' = faults + 1
  /\ gate' = [gate EXCEPT ![p] = FreshGate]
  /\ pc' = [t \in Thread |-> IF ProcOf[t] = p THEN "idle" ELSE pc[t]]
  /\ case' = [t \in Thread |-> IF ProcOf[t] = p THEN NoCase ELSE case[t]]
  /\ UNCHANGED <<clock, rows, cases, effects>>

Tick ==
  /\ clock < MaxTime /\ clock' = clock + 1
  /\ UNCHANGED <<rows, gate, pc, case, cases, faults, effects>>

\* Nothing is left to do within the bounds.
Rest ==
  /\ clock = MaxTime
  /\ \A t \in Thread : pc[t] = "idle" /\ cases[t] = MaxCases
  /\ UNCHANGED vars

(***************************************************************************)
(* The specification                                                       *)
(***************************************************************************)

Init ==
  /\ clock = DayLen
  /\ rows = <<>> /\ effects = <<>>
  /\ gate = [p \in Process |-> FreshGate]
  /\ pc = [t \in Thread |-> "idle"]
  /\ case = [t \in Thread |-> NoCase]
  /\ cases = [t \in Thread |-> 0]
  /\ faults = 0

Next ==
  \/ \E t \in Thread :
       \/ \E c \in Case : Decide(t, c)
       \/ CheckDaily(t) \/ CheckDailyInMemory(t) \/ CheckFailure(t) \/ Grant(t) \/ Dispatch(t)
       \/ SaveRow(t) \/ LoseRow(t)
  \/ \E p \in Process : Restart(p)
  \/ Tick
  \/ Rest

Spec == Init /\ [][Next]_vars

(***************************************************************************)
(* Properties                                                              *)
(***************************************************************************)

\* The types of the variables.
TypeOK ==
  /\ clock \in Int
  /\ rows \in Seq([type : {"auto_remediate", "generate_fix_pr", "escalate"}, at : Int])
  /\ gate \in [Process -> [day : Int, daily : Nat, failures : [Failure -> Nat]]]
  /\ pc \in [Thread -> PC]
  /\ case \in [Thread -> [what : Case, since : Int, seen : Nat]]
  /\ cases \in [Thread -> Nat] /\ faults \in Nat
  /\ effects \in Seq([proc : Process, failure : Failure, at : Int, since : Int])

Autos == {i \in DOMAIN rows : rows[i].type = "auto_remediate"}
Auditing == {t \in Thread : pc[t] = "audit"}
ThreadsOf(p) == {t \in Thread : ProcOf[t] = p}

\* Every remediation that reached a machine is in the audit trail, except the
\* ones whose row is still to be written, and those a store error or the
\* death of the process kept from being written.
EffectsAudited ==
  \E p \in Process :
    Len(effects) <= Cardinality(Autos) + Cardinality(Auditing)
                      + faults * Cardinality(ThreadsOf(p))

\* max_auto_remediations_per_day, over all processes, their restarts and
\* midnight: it is exceeded by at most one remediation per other thread, and
\* per fault by as many as a process has threads.
DailyCapHeld ==
  LET start == ((clock + ZoneOffset) \div DayLen) * DayLen
      today == {i \in DOMAIN effects : effects[i].at >= start}
  IN  \E p \in Process :
        Cardinality(today) <= MaxPerDay + Cardinality(Thread) - 1
                                + faults * Cardinality(ThreadsOf(p))

\* max_auto_remediations_per_failure, for a process with one thread that is
\* not restarted: what it decided in one UTC day, also when it acts on the
\* decision after midnight.
FailureCapHeld ==
  \A p \in Process, f \in Failure :
    faults = 0 /\ Cardinality(ThreadsOf(p)) = 1 =>
      \A d \in {Day(effects[i].since) : i \in DOMAIN effects} :
        Cardinality({i \in DOMAIN effects :
                       /\ effects[i].proc = p /\ effects[i].failure = f
                       /\ Day(effects[i].since) = d}) <= MaxPerFailure
=============================================================================
