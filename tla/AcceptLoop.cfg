\* Three connections against two sessions: the third waits for a cleanup pass that
\* finds one of them ended; below the maximum there is a pass too.
CONSTANTS
  Conn = {c1, c2, c3}
  kSessionCleanupThreshold = 1
  kMaximumSessions = 2
  None = None
SPECIFICATION FairSpec
INVARIANTS TypeOK SessionBound ActiveHeld FailureSurfaces NothingLeftBehind OneLateAccept
PROPERTIES Implements EveryConnectionAnswered ShutdownCompletes
