\* Two concurrent readers against readLoop, the read deadline, Close and the peer.
CONSTANTS
  r1 = r1  r2 = r2  w1 = w1  w2 = w2
  Readers <- TwoReaders
  Writers <- NoOne
  MaxBytes = 3
  MaxMsg = 2
  MaxEmpty = 1
  MaxBuf = 1
  MaxTime = 1
  MaxCalls = 0
SPECIFICATION Spec
SYMMETRY ReaderSymmetry
INVARIANTS TypeOK StreamIntact EofComplete ParkedOnCurrentDeadline NoMissedWakeup
PROPERTY ImplementsByteStream
