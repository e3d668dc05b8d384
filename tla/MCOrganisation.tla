--------------------------- MODULE MCOrganisation ---------------------------
(* A small instance of Organisation for TLC.                               *)
EXTENDS Organisation, TLC

CONSTANTS boss, adm, alice, q1, q2, w1

Roles == (boss :> "owner") @@ (adm :> "admin") @@ (alice :> "viewer")
Alike == Permutations(Requests)
=============================================================================
