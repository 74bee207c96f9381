SPECIFICATION MCSpec
CONSTANTS
  Classes <- MCClasses
  KnownFaults <- MCKnownFaults
  Uris = {"/home", "/item/1"}
  PathsOf <- MCPaths
  NoView = NoView
  Within <- MCWithin
  MaxRoutes = 2
  MaxStack = 2
  MaxDepth = 2
  Tabs = {"a", "b", "c", "d"}
  MaxTabs = 4
  Limit = 10
  BlockSize = 2
  Capacity = 3
  Nowhere = Nowhere
  Keys = {"k", "l"}
  Types = {1, 2}
  NoType = 0
  MaxEntries = 2
  Cos = {"a", "b", "c"}
  Main = "main"
  UiNodeIds = {"root", "inner", "leaf"}
  NoParent = NoParent
  ListenerIds = {1, 2}
  Watches = {v, w}
  v = v
  w = w
  WatchOwner = WatchOwner
  Unwatched <- MCUnwatched
  MaxChanges = 2
INVARIANTS
  NothingLeaks
  FreedOnce
  UsesLiveBlocks
  ShownIsTop
  BlocksAreConserved
  UndoReadsLiveState
  RetrievedWasStored
  ResumersWait
  HeardOnTheWay
  WatchOutlivesThread
PROPERTIES
  ActiveTabStays
  UnwatchReturns
CHECK_DEADLOCK FALSE
