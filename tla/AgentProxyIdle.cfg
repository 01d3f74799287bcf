\* A client with bytes behind its request and a remote end that does not read them.
CONSTANTS
  IdleTimeout = 1
  MayEnd = {"client"}
  MayStall = {"remote"}
  MaxSend = 1
  MaxBuffered = 1
SPECIFICATION FairSpec
PROPERTIES IdleConnectionCloses
CHECK_DEADLOCK FALSE
