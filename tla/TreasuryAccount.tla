-------------------------- MODULE TreasuryAccount --------------------------
(***************************************************************************)
(* An organisation's treasury account as its node shows it: one account    *)
(* whose transactions carry consecutive nonces.  Payroll and treasury      *)
(* deposits both sign for it (services/api/src/payroll/chain.ts), each     *)
(* asking the node for the next nonce when it signs.                       *)
(*                                                                         *)
(* The node keeps what it accepted, does not replace a pending transaction *)
(* by one of the same nonce, and what is mined here has the confirmations  *)
(* the callers wait for.                                                   *)
(***************************************************************************)
EXTENDS Integers, Sequences, FiniteSets

VARIABLES
    mempool,  \* transactions accepted and not yet mined
    mined     \* sequence of [tx, ok]: the k-th one used nonce k - 1

accountVars == <<mempool, mined>>

AccountInit == mempool = {} /\ mined = <<>>

(* The nonce prepareTransactionRequest fills in: what is pending counts.   *)
NextNonce == Len(mined) + Cardinality(mempool)

NonceTooLow(tx) == tx.nonce < Len(mined)
AlreadyKnown(tx) == tx \in mempool
Accepts(tx) == \A other \in mempool : other.nonce # tx.nonce

(* What the node keeps of a transaction that is sent to it.                *)
MempoolWith(tx) ==
    IF ~NonceTooLow(tx) /\ Accepts(tx) THEN mempool \cup {tx} ELSE mempool

(* The call returns normally: the transaction was accepted, or refused     *)
(* with an error isIdempotentRawTransactionError takes for "already sent". *)
SendSucceeds(tx) == NonceTooLow(tx) \/ AlreadyKnown(tx) \/ Accepts(tx)

IsMined(tx) == \E k \in 1 .. Len(mined) : mined[k].tx = tx
Succeeded(tx) == \E k \in 1 .. Len(mined) : mined[k].tx = tx /\ mined[k].ok
Reverted(tx) == \E k \in 1 .. Len(mined) : mined[k].tx = tx /\ ~mined[k].ok

(* The transaction of the next nonce is mined; the contract decides ok.    *)
MineAs(tx, ok) ==
    /\ tx \in mempool
    /\ tx.nonce = Len(mined)
    /\ mempool' = mempool \ {tx}
    /\ mined' = Append(mined, [tx |-> tx, ok |-> ok])
=============================================================================
