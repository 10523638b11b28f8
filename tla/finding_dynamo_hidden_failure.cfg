\* One process, an index that has caught up.
SPECIFICATION Spec
CONSTANTS
  t1 = t1  t2 = t2  f1 = f1  f2 = f2  s1 = s1  None = None
  Thread = {t1}
  Saved <- Reports
  PageSize = 3  MaxPages = 3  Limit = 2
  DayLen = 1  ZoneOffset = 0
  MaxRows = 3  MaxTime = 1  MaxOps = 0  MaxWalks = 0
INVARIANTS
  RecentFailureSeen
CHECK_DEADLOCK FALSE
