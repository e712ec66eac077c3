\* Three calls of each function.
CONSTANTS
  Call = {c1, c2, c3}
  Value <- MCValue
  Program <- Functions
  None = None
  NoValue = NoValue
  Upstream = {200, 403}
SPECIFICATION FairSpec
INVARIANTS LazyMadeOnce CallsIsolated
PROPERTIES EveryCallAnswered
