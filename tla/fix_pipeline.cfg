SPECIFICATION Spec
CONSTANTS
  Runs = {"r1", "r2"}
  DryRuns = {"r2"}
  Paths = {"a", "b", "x"}
  Allow = {"a", "b"}
  Deny = {}
  Unsafe = {}
  Secrets = {}
  Tracked = {"a", "b", "x"}
  TestOf <- MCTestOf
  Issues <- MCIssues
  Configs <- MCConfigs
  Patches <- MCPatches
  Residues <- MCResidues
  MaxEdits = 1
  MaxFaults = 1
INVARIANTS TypeOK FixMatchesItsBase LeftoversTold
PROPERTY KeepsFixPromise
CHECK_DEADLOCK FALSE
