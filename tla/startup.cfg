\* Three notifiers, one of them disabled and one without a check, under a budget of two ticks.
SPECIFICATION FairSpec
CONSTANTS
  t1 = t1  t2 = t2  slack = slack  github = github  telegram = telegram
  Thread = {t1, t2}
  Notifier = {slack, github, telegram}
  Configured <- ThreeInARow
  Disabled = {github}  NoCheck = {slack}
  Budget = 2
  MaxCaptures = 3  MaxCalls = 2
INVARIANTS
  PreflightHonest
  AlertsLimited
  CaptureInScope
PROPERTIES
  StartupEnds
CHECK_DEADLOCK FALSE
