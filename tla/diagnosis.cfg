\* Two flows, one thread each, over one store: an outage across two days.
SPECIFICATION Spec
CONSTANTS
  f1 = f1  f2 = f2  t1 = t1  t2 = t2
  Flow = {f1, f2}  Thread = {t1, t2}
  FlowOf <- TwoFlows
  DayLen = 1  ZoneOffset = 0
  DailyBudget = 2  CostCap = 2  Threshold = 2
  MaxAttempts = 4  MaxTime = 2  MaxFaults = 1
INVARIANTS
  StreakPagedOnce
  LlmBudgetBounded
  CostOverrunBounded
  AlertFlagOwned
