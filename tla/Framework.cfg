\* Two connections, one session at a time, one request each.
CONSTANTS
  Conn = {c1, c2}
  kSessionCleanupThreshold = 1
  kMaximumSessions = 1
  None = None
  MaxRequests = 1
  Pipelining = FALSE
SPECIFICATION FairSpec
INVARIANTS TypeOK HandlersBounded NoCallCutShort
PROPERTIES ConnectionsServed
