\* A client with bytes behind its request, every end of either peer, one tick
\* of idle time.
CONSTANTS
  IdleTimeout = 1
  MayEnd = {"client", "remote"}
  MayStall = {}
  MaxSend = 2
  MaxBuffered = 1
SPECIFICATION Spec
INVARIANTS TypeOK StreamsInOrder NothingLeftBehind CleanEndIsComplete
PROPERTIES IdleCloseHasCause
CHECK_DEADLOCK FALSE
