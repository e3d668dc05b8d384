------------------------- MODULE MCTreasuryDeposits -------------------------
(* Small instances of TreasuryDeposits for TLC.                            *)
EXTENDS TreasuryDeposits

CONSTANTS k1, k2, q1, q2, q3
=============================================================================
