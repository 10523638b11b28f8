\* Two threads of one instance race on dedup and on the budget.
SPECIFICATION Spec
CONSTANTS
  f1 = f1  f2 = f2  t1 = t1  t2 = t2  s1 = s1  s2 = s2  code = code
  NoSig = NoSig  NoDiagnosis = NoDiagnosis
  Flow = {f1}  Thread = {t1, t2}  Sig = {s1}  Category = {}
  FlowOf <- OneFlow
  DependsOn <- NoDependency
  Notifiers <- OnlyTelegram
  AlertActions <- MCAlertActions
  Limit <- One
  Exempt <- Failure
  DayLen = 1  ZoneOffset = 0
  Cooldown = 0  Window = 1
  Inputs <- Storm
  MaxCalls = 2  MaxTime = 2  MaxFaults = 1
INVARIANTS
  OnePerThreadPerWindow
  BudgetOverrunBounded
SYMMETRY ThreadSymmetry
