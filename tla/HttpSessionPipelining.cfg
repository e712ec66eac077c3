\* One session whose client sends three requests without waiting.
CONSTANTS
  Conn = {c1}
  MaxRequests = 3
  Pipelining = TRUE
SPECIFICATION Spec
INVARIANTS NoRequestSkipped
