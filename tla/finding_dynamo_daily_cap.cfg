\* One thread, no fault, the DynamoDB store.
SPECIFICATION Spec
CONSTANTS
  p1 = p1  p2 = p2  t1 = t1  t2 = t2  k1 = k1  k2 = k2
  Process = {p1}  Thread = {t1}  Failure = {k1, k2}
  ProcOf <- OneEach
  Case <- Cases
  Backend = "dynamodb"
  AutoMin = 2  PrMin = 1
  MaxPerDay = 1  MaxPerFailure = 2
  DryRun = FALSE
  DayLen = 1  ZoneOffset = 0
  Market <- SecondDay
  MaxCases = 2  MaxTime = 2  MaxFaults = 0
INVARIANTS
  DailyCapHeld
