\* One reader against readLoop, the clock, Close and every end of the peer.
CONSTANTS
  r1 = r1  r2 = r2  w1 = w1  w2 = w2
  Readers <- OneReader
  Writers <- NoOne
  MaxBytes = 2
  MaxMsg = 1
  MaxEmpty = 0
  MaxBuf = 1
  MaxTime = 1
  MaxCalls = 0
SPECIFICATION FairSpec
PROPERTIES CloseReleasesReaders DeadlineReleasesCallers PeerEndReleasesReaders
