--------------------------- MODULE MCEncryptedERC ---------------------------
(* Small instances of EncryptedERC for TLC.                                *)
EXTENDS EncryptedERC

CONSTANTS alice, bob, kA, kA2, kB, usdc, odd, router

\* Alice can prove a second key; re-registering with it must be refused.
TwoKeys == [u \in Users |-> IF u = alice THEN {kA, kA2} ELSE {kB}]
OneKey == [u \in Users |-> IF u = alice THEN {kA} ELSE {kB}]

\* Scales of tokens with as many decimals as the eERC, of odd with more, and of
\* usdc with fewer.
Par == [t \in Tokens |-> 1]
MoreDecimals == [t \in Tokens |-> IF t = odd THEN 2 ELSE 1]
FewerDecimals == [t \in Tokens |-> IF t = usdc THEN 2 ELSE 1]

\* What a user or a depositor has to begin with.
TwoEach == [p \in Payers |-> 2]
ThreeAndRouterTwo == [p \in Payers |-> IF p = bob THEN 0 ELSE IF p = alice THEN 3 ELSE 2]
=============================================================================
