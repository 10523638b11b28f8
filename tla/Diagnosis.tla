------------------------------ MODULE Diagnosis ------------------------------
(***************************************************************************)
(* _run_diagnosis: what a report's diagnosis costs and what an outage of   *)
(* the LLM looks like.  An attempt asks the knowledge base, the daily      *)
(* budget and the daily cost cap, then the LLM; its outcome is a row, and  *)
(* the Nth failed row in a run pages (_check_diagnosis_unavailable_streak).*)
(*                                                                         *)
(* One step is one store statement or one LLM call.  Threads call one or   *)
(* more flows over one store.                                              *)
(***************************************************************************)
EXTENDS StoreQueries

CONSTANTS
  Flow, Thread,
  FlowOf,        \* [Thread -> Flow]
  DailyBudget,   \* max_diagnosed_per_day
  CostCap,       \* max_daily_cost_usd over the price of one diagnosis; 0: none
  Threshold,     \* unavailable_alert_after; 0 disables the detector
  MaxAttempts,   \* bound: attempts of all threads
  MaxTime,       \* bound: ticks
  MaxFaults      \* bound: store errors

ASSUME DiagnosisAssumption ==
  /\ IsFiniteSet(Thread) /\ FlowOf \in [Thread -> Flow]
  /\ DailyBudget \in Nat /\ CostCap \in Nat /\ Threshold \in Nat
  /\ MaxAttempts \in Nat /\ MaxTime \in Nat /\ MaxFaults \in Nat

VARIABLES
  clock,
  actions,    \* the diagnosis rows of the actions table
  diagnoses,  \* the times of the rows of the diagnoses table that cost money
  alerting,   \* [Flow -> _in_diagnosis_streak_alert]
  pc,         \* [Thread -> where its attempt stands]
  row,        \* [Thread -> the FAILED row its attempt saved]
  attempts,   \* attempts begun
  faults,
  asked,      \* history: the LLM calls, [flow, at]
  pages       \* history: the pages sent, [flow, row]

vars == <<clock, actions, diagnoses, alerting, pc, row, attempts, faults,
          asked, pages>>

PC == {"idle", "lookup", "budget", "cost", "llm", "saveDiagnosis", "saveSent",
       "saveDegraded", "saveFailed", "check", "firstToday", "alert", "page"}

Move(t, p) == pc' = [pc EXCEPT ![t] = p]

\* Mutant: a degraded attempt breaks the run.
OutcomesAll(f) == {i \in DOMAIN actions : actions[i].flow = f}

\* recent_diagnosis_outcomes, before its LIMIT.
Outcomes(f) ==
  {i \in DOMAIN actions : actions[i].flow = f /\ actions[i].status # "degraded"}

\* The n newest outcomes of flow f all failed, and there are n.
LastFailed(f, n) ==
  \E ids \in SUBSET Outcomes(f) :
    /\ Cardinality(ids) = n
    /\ \A i \in Outcomes(f) \ ids, j \in ids : i < j
    /\ \A j \in ids : actions[j].status = "failed"

CostToday == Cardinality({i \in DOMAIN diagnoses : diagnoses[i] >= DayStart(clock)})

\* Mutant: failed attempts are not counted.
AttemptsUsable(f) == CountActionsToday(actions, "diagnosis", f, clock, {"failed"})

AttemptsToday(f) == CountActionsToday(actions, "diagnosis", f, clock, {})

Save(t, status) ==
  actions' = Append(actions, [type |-> "diagnosis", flow |-> FlowOf[t],
                              status |-> status, at |-> clock])

(***************************************************************************)
(* The attempt                                                             *)
(***************************************************************************)

\* A report that is neither a warning nor a cascade is to be diagnosed.
Begin(t) ==
  /\ pc[t] = "idle" /\ attempts < MaxAttempts
  /\ attempts' = attempts + 1
  /\ Move(t, "lookup")
  /\ UNCHANGED <<clock, actions, diagnoses, alerting, row, faults, asked, pages>>

\* A known pattern is the diagnosis: saved at no cost, and no attempt.
Lookup(t) ==
  /\ pc[t] = "lookup"
  /\ Move(t, "idle") \/ Move(t, "budget")
  /\ UNCHANGED <<clock, actions, diagnoses, alerting, row, attempts, faults,
                 asked, pages>>

CheckBudget(t) ==
  /\ pc[t] = "budget"
  /\ Move(t, IF AttemptsToday(FlowOf[t]) >= DailyBudget THEN "saveDegraded"
             ELSE IF CostCap > 0 THEN "cost" ELSE "llm")
  /\ UNCHANGED <<clock, actions, diagnoses, alerting, row, attempts, faults,
                 asked, pages>>

\* Mutant: the cap is compared with one call too many.
CheckCostLate(t) ==
  /\ pc[t] = "cost"
  /\ Move(t, IF CostToday > CostCap THEN "saveDegraded" ELSE "llm")
  /\ UNCHANGED <<clock, actions, diagnoses, alerting, row, attempts, faults,
                 asked, pages>>

\* The cap is over every flow of the store.
CheckCost(t) ==
  /\ pc[t] = "cost"
  /\ Move(t, IF CostToday >= CostCap THEN "saveDegraded" ELSE "llm")
  /\ UNCHANGED <<clock, actions, diagnoses, alerting, row, attempts, faults,
                 asked, pages>>

SaveDegraded(t) ==
  /\ pc[t] = "saveDegraded"
  /\ Save(t, "degraded")
  /\ Move(t, "idle")
  /\ UNCHANGED <<clock, diagnoses, alerting, row, attempts, faults, asked, pages>>

\* The provider answers, or raises (transport, credit, timeout); or the
\* context to ask it with could not be assembled.
CallLlm(t) ==
  /\ pc[t] = "llm"
  /\ \/ /\ asked' = Append(asked, [flow |-> FlowOf[t], at |-> clock])
        /\ Move(t, "saveDiagnosis") \/ Move(t, "saveFailed")
     \/ Move(t, "saveFailed") /\ UNCHANGED asked
  /\ UNCHANGED <<clock, actions, diagnoses, alerting, row, attempts, faults, pages>>

SaveDiagnosis(t) ==
  /\ pc[t] = "saveDiagnosis"
  /\ diagnoses' = Append(diagnoses, clock)
  /\ Move(t, "saveSent")
  /\ UNCHANGED <<clock, actions, alerting, row, attempts, faults, asked, pages>>

SaveSent(t) ==
  /\ pc[t] = "saveSent"
  /\ Save(t, "sent")
  /\ Move(t, "idle")
  /\ UNCHANGED <<clock, diagnoses, alerting, row, attempts, faults, asked, pages>>

\* The except branch: whatever failed above is recorded as a failed attempt.
SaveFailed(t) ==
  /\ pc[t] = "saveFailed"
  /\ Save(t, "failed")
  /\ row' = [row EXCEPT ![t] = Len(actions) + 1]
  /\ Move(t, "check")
  /\ UNCHANGED <<clock, diagnoses, alerting, attempts, faults, asked, pages>>

(***************************************************************************)
(* _check_diagnosis_unavailable_streak                                     *)
(***************************************************************************)

\* The run is exactly Threshold long, or longer, or shorter.
CheckStreak(t) ==
  /\ pc[t] = "check"
  /\ LET f == FlowOf[t]
     IN  Move(t, IF Threshold = 0 \/ alerting[f] \/ ~LastFailed(f, Threshold) THEN "idle"
                 ELSE IF LastFailed(f, Threshold + 1) THEN "firstToday" ELSE "alert")
  /\ UNCHANGED <<clock, actions, diagnoses, alerting, row, attempts, faults,
                 asked, pages>>

\* A longer run pages again on the first attempt of a day.
CheckFirstToday(t) ==
  /\ pc[t] = "firstToday"
  /\ Move(t, IF AttemptsToday(FlowOf[t]) = 1 THEN "alert" ELSE "idle")
  /\ UNCHANGED <<clock, actions, diagnoses, alerting, row, attempts, faults,
                 asked, pages>>

\* _in_diagnosis_streak_alert = True, and the alert's report is stored.
BeginAlert(t) ==
  /\ pc[t] = "alert"
  /\ alerting' = [alerting EXCEPT ![FlowOf[t]] = TRUE]
  /\ Move(t, "page")
  /\ UNCHANGED <<clock, actions, diagnoses, row, attempts, faults, asked, pages>>

\* _send_notifications, never raising a fault here; finally the flag is reset.
SendAlert(t) ==
  /\ pc[t] = "page"
  /\ pages' = Append(pages, [flow |-> FlowOf[t], row |-> row[t]])
  /\ alerting' = [alerting EXCEPT ![FlowOf[t]] = FALSE]
  /\ Move(t, "idle")
  /\ UNCHANGED <<clock, actions, diagnoses, row, attempts, faults, asked>>

(***************************************************************************)
(* Store errors, time                                                      *)
(***************************************************************************)

\* Mutant: the flag is not reset in a finally.
StoreRaisesFlagUp(t) ==
  /\ faults < MaxFaults /\ faults' = faults + 1
  /\ pc[t] = "page" /\ Move(t, "idle")
  /\ UNCHANGED <<clock, actions, diagnoses, alerting, row, attempts, asked, pages>>

\* Inside the attempt a store error is a failed attempt; while recording it,
\* checking the run or alerting it is only logged.
StoreRaises(t) ==
  /\ faults < MaxFaults
  /\ faults' = faults + 1
  /\ \/ /\ pc[t] \in {"lookup", "budget", "cost", "saveDegraded",
                      "saveDiagnosis", "saveSent"}
        /\ Move(t, "saveFailed")
     \/ /\ pc[t] \in {"saveFailed", "check", "firstToday", "page"}
        /\ Move(t, "idle")
  /\ alerting' = [alerting EXCEPT ![FlowOf[t]] = @ /\ pc[t] # "page"]
  /\ UNCHANGED <<clock, actions, diagnoses, row, attempts, asked, pages>>

Tick ==
  /\ clock < MaxTime
  /\ clock' = clock + 1
  /\ UNCHANGED <<actions, diagnoses, alerting, pc, row, attempts, faults, asked, pages>>

\* Nothing is left to do within the bounds.
Rest ==
  /\ clock = MaxTime /\ attempts = MaxAttempts
  /\ \A t \in Thread : pc[t] = "idle"
  /\ UNCHANGED vars

(***************************************************************************)
(* The specification                                                       *)
(***************************************************************************)

Init ==
  /\ clock = DayLen
  /\ actions = <<>> /\ diagnoses = <<>>
  /\ alerting = [f \in Flow |-> FALSE]
  /\ pc = [t \in Thread |-> "idle"] /\ row = [t \in Thread |-> 0]
  /\ attempts = 0 /\ faults = 0
  /\ asked = <<>> /\ pages = <<>>

Step(t) ==
  \/ Lookup(t) \/ CheckBudget(t) \/ CheckCost(t) \/ SaveDegraded(t)
  \/ CallLlm(t) \/ SaveDiagnosis(t) \/ SaveSent(t) \/ SaveFailed(t)
  \/ CheckStreak(t) \/ CheckFirstToday(t) \/ BeginAlert(t) \/ SendAlert(t)
  \/ StoreRaises(t)

Next ==
  \/ \E t \in Thread : Begin(t) \/ Step(t)
  \/ Tick
  \/ Rest

Spec == Init /\ [][Next]_vars

(***************************************************************************)
(* Properties                                                              *)
(***************************************************************************)

\* Types, and every row a thread refers to exists.
TypeOK ==
  /\ clock \in Int
  /\ actions \in Seq([type : {"diagnosis"}, flow : Flow, at : Int,
                      status : {"sent", "failed", "degraded"}])
  /\ diagnoses \in Seq(Int)
  /\ alerting \in [Flow -> BOOLEAN]
  /\ pc \in [Thread -> PC]
  /\ row \in [Thread -> 0..Len(actions)]
  /\ attempts \in Nat /\ faults \in Nat
  /\ asked \in Seq([flow : Flow, at : Int])
  /\ pages \in Seq([flow : Flow, row : Nat])

\* The unbroken run of failed outcomes that ends with row k.
Run(k) ==
  {i \in 1..k :
     /\ actions[i].flow = actions[k].flow /\ actions[i].status = "failed"
     /\ \A j \in i..k : actions[j].flow = actions[k].flow => actions[j].status # "sent"}

\* The thread that saved row k is still deciding about it.
Deciding(k) ==
  \E t \in Thread : row[t] = k /\ pc[t] \in {"check", "firstToday", "alert", "page"}

\* An outage of the diagnosis pages exactly once when the run of failed
\* attempts reaches Threshold, and at most once more per day it lasts.
StreakPagedOnce ==
  faults = 0 =>
    /\ \A k \in DOMAIN actions :
         /\ actions[k].status = "failed" /\ ~Deciding(k)
         /\ Cardinality(Run(k)) = Threshold
         => \E p \in DOMAIN pages : pages[p].row = k
    /\ \A p \in DOMAIN pages : Cardinality(Run(pages[p].row)) >= Threshold
    /\ \A p, q \in DOMAIN pages :
         LET day(i) == actions[pages[i].row].at \div DayLen
         IN  p # q /\ pages[p].row \in Run(pages[q].row) => day(p) # day(q)

\* The LLM is asked at most DailyBudget times a day per flow, one more for
\* each other thread of the flow and for each row a store error lost.
LlmBudgetBounded ==
  \A t \in Thread :
    LET f == FlowOf[t]
        today == {i \in DOMAIN asked :
                    asked[i].flow = f /\ asked[i].at >= DayStart(clock)}
        others == {u \in Thread \ {t} : FlowOf[u] = f}
    IN  Cardinality(today) <= DailyBudget + Cardinality(others) + faults

\* The daily cost over all flows of the store exceeds its cap by at most one
\* diagnosis per other thread, also when midnight falls into an attempt.
CostOverrunBounded == CostCap > 0 => CostToday <= CostCap + Cardinality(Thread) - 1

\* The detector is never left switched off: its re-entrance flag is up only
\* while a thread of the flow sends the alert, whatever raised meanwhile.
AlertFlagOwned ==
  \A f \in Flow : alerting[f] => \E t \in Thread : FlowOf[t] = f /\ pc[t] = "page"
=============================================================================
