---------------------------- MODULE MCGiftEscrows ----------------------------
(* Small instances of the token's settings, and of gifts over it.          *)
EXTENDS GiftEscrows, MCEncryptedERC

CONSTANTS escrow, link

Settings == [gifts |-> 0, proofs |-> MaxProofs, keys |-> Keys, tokens |-> Tokens,
             depositors |-> Depositors]
Gifting == [gifts |-> 2, proofs |-> 0, keys |-> {kA, kB}, tokens |-> {odd},
            depositors |-> {escrow}]
MCPlans == {Settings, Gifting}
=============================================================================
