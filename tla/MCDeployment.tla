---------------------------- MODULE MCDeployment ----------------------------
(* Three networks, two of the five verifiers.                              *)
EXTENDS Deployment

CONSTANTS k1, k2, k3, Ceremony1

Others == <<"transfer">>
=============================================================================
