\* Every test; two requests together; the limits of the code.
CONSTANTS
  Conn <- MCConn
  kSessionCleanupThreshold = 80
  kMaximumSessions = 160
  None = None
  MaxRequests = 1
  Pipelining = FALSE
  Tasks = 2
SPECIFICATION TestSpec
PROPERTIES TestsPass
