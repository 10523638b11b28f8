\* One thread, every API, store errors and crashes: what survives them, and
\* that calls return.
SPECIFICATION FairSpec
CONSTANTS
  f1 = f1  f2 = f2  t1 = t1  t2 = t2  s1 = s1  s2 = s2  code = code
  NoSig = NoSig  NoDiagnosis = NoDiagnosis
  Flow = {f1}  Thread = {t1}  Sig = {s1}  Category = {code}
  FlowOf <- OneFlow
  DependsOn <- NoDependency
  Notifiers <- TelegramCode
  AlertActions <- MCAlertActions
  Limit <- One
  Exempt <- Failure
  DayLen = 2  ZoneOffset = 0
  Cooldown = 1  Window = 1
  Inputs <- EveryApi
  MaxCalls = 2  MaxTime = 4  MaxFaults = 1
INVARIANTS
  TypeOK
  OncePerWindow
  QuietMeansQuiet
  DecisionMatchesStore
  RecipientsAccounted
  AlertNamesItsIssue
  PagedOnce
PROPERTIES
  KeepsReportPromise
  EveryCallReturns
