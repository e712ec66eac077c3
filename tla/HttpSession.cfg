\* Two sessions that share the stdio buffers, two requests each.
CONSTANTS
  Conn = {c1, c2}
  MaxRequests = 2
  Pipelining = FALSE
SPECIFICATION FairSpec
INVARIANTS TypeOK AnswersInOrder AnsweredIsLogged KeepAliveEchoed CallsAnswered
PROPERTIES SessionEndsAfterClient RequestAnswered
