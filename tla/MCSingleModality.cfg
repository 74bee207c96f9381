SPECIFICATION FairSpec
CONSTANTS
  Tasks = {t1, t2, t3}
  NULL = NULL
  MaxDepth = 2
PROPERTIES
  ImplementsTaskQueue
  StopEndsRuns
  AcceptedIsStarted
INVARIANTS
  NoUseAfterFree
  NoNodeLeaks
