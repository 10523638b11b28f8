\* Two processes over one audit trail, across midnight, with restarts.
SPECIFICATION Spec
CONSTANTS
  p1 = p1  p2 = p2  t1 = t1  t2 = t2  k1 = k1  k2 = k2
  Process = {p1, p2}  Thread = {t1, t2}  Failure = {k1, k2}
  ProcOf <- OneEach
  Case <- Cases
  Backend = "sqlite"
  AutoMin = 2  PrMin = 1
  MaxPerDay = 2  MaxPerFailure = 1
  DryRun = FALSE
  DayLen = 1  ZoneOffset = 0
  Market <- SecondDay
  MaxCases = 2  MaxTime = 2  MaxFaults = 1
INVARIANTS
  TypeOK
  EffectsAudited
  DailyCapHeld
  FailureCapHeld
