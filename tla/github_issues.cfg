SPECIFICATION Spec
CONSTANTS
  Threads = {t1, t2}
  Instances = {p1, p2}
  Findings = {"timeout", "wrapper"}
  FingerprintOf <- MCFingerprintOf
  Restates <- MCRestates
  Diagnosed = {"timeout"}
  AutoFix = TRUE
  Window = 0
  MaxRecent = 2
  MaxSends = 3
  MaxClock = 1
  MaxFaults = 1
INVARIANTS OneOpenPerInstance CountHonest
PROPERTIES KeepsTrackerPromise

SYMMETRY MCSymmetry
CHECK_DEADLOCK FALSE
