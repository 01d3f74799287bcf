\* More tokens than entries; a client's clock may run a window and more ahead.
CONSTANTS
  n1 = n1  n2 = n2  n3 = n3  q1 = q1  q2 = q2  q3 = q3  q4 = q4
  Foreign = Foreign
  Nonces <- ThreeNonces
  Requests <- FourRequests
  MaxEntries = 2
  Window = 1
  Skew = 2
  MaxTime = 2
SPECIFICATION Spec
SYMMETRY Symmetry
INVARIANTS TypeOK AcceptedOnce Bounded
PROPERTIES RefusedForCause
