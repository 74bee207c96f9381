SPECIFICATION MCSpec
CONSTANTS
  Producers = {p1}
  Consumers = {c1, c2}
  Items = {1, 2, 3, 4, 5}
  Capacity = 3
  NULL = NULL
INVARIANTS
  NothingLost
  NoSlotRace
PROPERTIES
  ImplementsQueue
  EveryAcceptedIsTaken
