\* A flow and its dependency on one store.
SPECIFICATION Spec
CONSTANTS
  f1 = f1  f2 = f2  t1 = t1  t2 = t2  s1 = s1  s2 = s2  code = code
  NoSig = NoSig  NoDiagnosis = NoDiagnosis
  Flow = {f1, f2}  Thread = {t1, t2}  Sig = {s1, s2}  Category = {}
  FlowOf <- TwoFlows
  DependsOn <- Downstream
  Notifiers <- Mixed
  AlertActions <- MCAlertActions
  Limit <- One
  Exempt <- Failure
  DayLen = 2  ZoneOffset = 0
  Cooldown = 1  Window = 1
  Inputs <- Upstream
  MaxCalls = 1  MaxTime = 4  MaxFaults = 1
INVARIANTS
  CascadeHasUpstream
PROPERTIES
  KeepsReportPromise
