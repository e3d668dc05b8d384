------------------------------ MODULE MCOnramp ------------------------------
(* Small instances of Onramp for TLC.                                      *)
EXTENDS Onramp

CONSTANTS alice, treasury, b1, b2, m1, m2, p1, p2

\* One message in each burn transaction.
OneEach == [b \in Burns |-> IF b = b1 THEN <<m1>> ELSE <<m2>>]

AliceAndTreasury == [m \in Messages |-> IF m = m1 THEN alice ELSE treasury]

WrongKeyInB2 == [m \in Messages |-> IF m = m1 THEN "right" ELSE "wrong"]
=============================================================================
