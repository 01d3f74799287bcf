------------------------------ MODULE MCWSConn ------------------------------
(* Instances of WSConn for TLC. *)
EXTENDS WSConn, TLC

CONSTANTS r1, r2, w1, w2
NoOne == {}
TwoReaders == {r1, r2}
OneReader == {r1}
TwoWriters == {w1, w2}

ReaderSymmetry == Permutations(TwoReaders)
=============================================================================
