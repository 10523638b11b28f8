\* Two host threads, a queue smaller than the storm, several closes.
SPECIFICATION FairSpec
CONSTANTS
  main = main  other = other
  Thread = {main, other}  Main = main
  Worker = Worker  Nobody = Nobody  Stop = Stop  Open = Open
  Capacity = 3  MaxRecords = 6  MaxCloses = 3
INVARIANTS
  NothingLostBeforeClose
  NoFeedback
PROPERTIES
  KeepsPromise
  CloseReturns
  TakenIsReported
