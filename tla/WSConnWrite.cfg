\* Two concurrent writers against the write deadline, Close and a peer that need not read.
CONSTANTS
  r1 = r1  r2 = r2  w1 = w1  w2 = w2
  Readers <- NoOne
  Writers <- TwoWriters
  MaxBytes = 0
  MaxMsg = 0
  MaxEmpty = 0
  MaxBuf = 1
  MaxTime = 1
  MaxCalls = 1
SPECIFICATION FairSpec
INVARIANTS OneWriteToken TimedOutWriteUnsent
PROPERTY DeadlineReleasesCallers
