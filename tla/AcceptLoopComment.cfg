\* The least instance whose threshold is below its maximum by more than one, as in
\* the code: one session ends, and the loop accepts with the other two running.
CONSTANTS
  Conn = {c1, c2, c3, c4}
  kSessionCleanupThreshold = 1
  kMaximumSessions = 3
  None = None
SYMMETRY ConnSymmetry
SPECIFICATION Spec
PROPERTIES BlocksUntilBelowThreshold
