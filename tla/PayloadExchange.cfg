\* Every route of every profile, with good and bad requests; two chunks each way.
SPECIFICATION Spec
CONSTANTS
  Deployments <- MCDeployments
  Calls <- MCCalls
  RawRequests <- MCRawRequests
  MaxChunks = 2
CHECK_DEADLOCK FALSE
INVARIANTS
  OutboundIsAuthorised
  AskedIsDone
  HalfCloseOnTime
  ResponseIsComplete
PROPERTY
  HalfCloseArrives
