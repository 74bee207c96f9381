SPECIFICATION FairSpec
CONSTANTS
  NumWorkers = 2
  Tasks = {t1, t2, t3}
  Owner = owner
  NoTask = NoTask
  Limit = 2
  MaxInits = 2
INVARIANTS
  NoUseAfterFree
  NoNodeLeaks
PROPERTIES
  ImplementsTaskQueue
  AcceptedIsRun
  DestroyReturns
