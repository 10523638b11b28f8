\* Two processes over a table whose pages hold one row or two.
SPECIFICATION Spec
CONSTANTS
  t1 = t1  t2 = t2  f1 = f1  f2 = f2  s1 = s1  None = None
  Thread = {t1, t2}
  Saved <- EachEntity
  PageSize = 2  MaxPages = 2  Limit = 2
  DayLen = 1  ZoneOffset = 0
  MaxRows = 3  MaxTime = 1  MaxOps = 2  MaxWalks = 1
INVARIANTS
  IncrementsCounted
  WalkMissesNothing
  AnswersMatchSqlite
SYMMETRY ThreadSymmetry
CHECK_DEADLOCK FALSE
