SPECIFICATION VfsSpec
CONSTANTS
  r1 = r1
  r2 = r2
  e1 = e1
  e2 = e2
  NumWorkers = 2
  Tasks = {r1, r2}
  Owner = owner
  Limit = 1
  MaxInits = 1
  NoTask = NoTask
  Entries = {e1, e2}
  Matches <- Overlapping
  Silent = {r2}
  NULL = NULL
INVARIANTS
  NoContextLeaks
