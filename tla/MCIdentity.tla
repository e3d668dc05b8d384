------------------------------ MODULE MCIdentity ------------------------------
(* A small instance of Identity for TLC.                                   *)
EXTENDS Identity, TLC

CONSTANTS ops, bob, h1, h2, n1, v1, q1, q2, q3

ForOps == [n \in Nonces |-> ops]

\* Requests are alike until they are used.
Alike == Permutations(Requests)
=============================================================================
