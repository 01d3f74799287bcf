\* Either peer may stop reading; one byte each way.
CONSTANTS
  IdleTimeout = 1
  MayEnd = {"client"}
  MayStall = {"client", "remote"}
  MaxSend = 1
  MaxBuffered = 0
SPECIFICATION FairSpec
PROPERTIES RelayEndsTogether IdleRelayEnds CancelEndsRelay
CHECK_DEADLOCK FALSE
