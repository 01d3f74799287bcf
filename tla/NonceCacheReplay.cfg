\* A cache that never has to evict.
CONSTANTS
  n1 = n1  n2 = n2  n3 = n3  q1 = q1  q2 = q2  q3 = q3  q4 = q4
  Foreign = Foreign
  Nonces <- TwoNonces
  Requests <- ThreeRequests
  MaxEntries = 4
  Window = 1
  Skew = 0
  MaxTime = 2
SPECIFICATION Spec
INVARIANTS ReplayRejected
