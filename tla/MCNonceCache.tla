---------------------------- MODULE MCNonceCache ----------------------------
(* Instances of NonceCache for TLC. *)
EXTENDS NonceCache, TLC

CONSTANTS n1, n2, n3, q1, q2, q3, q4
TwoNonces == {n1, n2}
ThreeNonces == {n1, n2, n3}
ThreeRequests == {q1, q2, q3}
FourRequests == {q1, q2, q3, q4}
Symmetry == Permutations(ThreeNonces) \cup Permutations(FourRequests)
=============================================================================
