------------------------ MODULE UserHistoryDeletion ------------------------
(***************************************************************************)
(* The array behind EncryptedUserBalances.amountPCTs.  The module          *)
(* EncryptedUserBalances keeps the amount PCTs of a balance as a set; the  *)
(* contract keeps a dynamic array, pushes every credit, and deletes what a *)
(* spend covers by a swap-and-pop loop over the array it is shrinking.     *)
(* Here the array and the set run side by side: the set in `balance` is    *)
(* what the array is to hold whenever no loop is running.                  *)
(*                                                                         *)
(* Solidity indices start at 0 and sequences at 1, so the loop variable i  *)
(* of the contract, whose element is index i - 1, is the index i here.     *)
(***************************************************************************)
EXTENDS EncryptedUserBalances, Sequences

CONSTANTS
    PCTs,               \* amounts credited
    PublicKey,          \* the key of the balance
    MaxHistoryIndex \* bound on the operations of a run

(* What the theorems ask of the constants.                                *)
DeletionAssumption == PCTs \subseteq Nat /\ PublicKey \in Keys

VARIABLES
    balance,          \* the encrypted balance, its amount PCTs as a set
    amountPCTs,       \* the array in storage
    i,                \* loop variable of _deleteUserHistory
    transactionIndex, \* its parameter: the history is deleted up to here
    deleting          \* the loop is running

deletionVars == <<balance, amountPCTs, i, transactionIndex, deleting>>

Elements(s) == {s[j] : j \in 1 .. Len(s)}

(* amountPCTs[index] = amountPCTs[length - 1]; amountPCTs.pop()            *)
SwapAndPop(s, j) ==
    [k \in 1 .. Len(s) - 1 |-> IF k = j THEN s[Len(s)] ELSE s[k]]

DeletionInit ==
    /\ balance = EmptyBalance
    /\ amountPCTs = <<>>
    /\ i = 0
    /\ transactionIndex = 0
    /\ deleting = FALSE

(* A credit: _addToUserBalance.                                            *)
Credit(pct) ==
    /\ ~deleting
    /\ balance.transactionIndex < MaxHistoryIndex
    /\ balance' = AddToUserBalance(balance, Encrypt(PublicKey, pct), pct)
    /\ amountPCTs' = Append(amountPCTs, [pct |-> pct, index |-> balance.transactionIndex])
    /\ UNCHANGED <<i, transactionIndex, deleting>>

(* A spend whose snapshot was verified at history entry h.                 *)
StartDeletion(h) ==
    /\ ~deleting
    /\ balance.transactionIndex < MaxHistoryIndex
    /\ h \in ValidHistory(balance)
    /\ transactionIndex' = h.index
    /\ i' = Len(amountPCTs)
    /\ deleting' = TRUE
    /\ UNCHANGED <<balance, amountPCTs>>

IsCovered(j) == amountPCTs[j].index <= transactionIndex

(* One iteration of the loop.                                              *)
Visit ==
    /\ deleting
    /\ i > 0
    /\ i' = i - 1
    /\ amountPCTs' = IF IsCovered(i) THEN SwapAndPop(amountPCTs, i) ELSE amountPCTs
    /\ UNCHANGED <<balance, transactionIndex, deleting>>

(* After the loop: nonce++ and _commitUserBalance.                         *)
FinishDeletion ==
    /\ deleting
    /\ i = 0
    /\ balance' = DeleteUserHistory(balance, transactionIndex)
    /\ deleting' = FALSE
    /\ UNCHANGED <<amountPCTs, i, transactionIndex>>

DeletionNext ==
    \/ \E pct \in PCTs : Credit(pct)
    \/ \E h \in ValidHistory(balance) : StartDeletion(h)
    \/ Visit
    \/ FinishDeletion

DeletionSpec == DeletionInit /\ [][DeletionNext]_deletionVars
-----------------------------------------------------------------------------
DeletionTypeOK ==
    /\ balance \in Balance
    /\ amountPCTs \in Seq(AmountPCT)
    /\ i \in Nat
    /\ transactionIndex \in Nat
    /\ deleting \in BOOLEAN

(* Whenever no deletion is running the array holds exactly the amounts the *)
(* set holds, each once: a client that adds up the array of the contract   *)
(* (getDecryptedBalance) reads every credit after the last spend once and  *)
(* nothing that a spend has covered.  The array is in no order: an earlier *)
(* deletion may have moved a recent credit before an old one.              *)
ArrayHoldsTheSet ==
    ~deleting => /\ Elements(amountPCTs) = balance.amountPCTs
                 /\ \A j, k \in 1 .. Len(amountPCTs) :
                        amountPCTs[j] = amountPCTs[k] => j = k

(* In the middle of the loop nothing that must stay has been lost, and     *)
(* everything that must go is gone from the part already visited,          *)
(* whatever was swapped into it.                                           *)
NothingLostSoFar ==
    deleting =>
        /\ DropAmounts(balance, transactionIndex).amountPCTs \subseteq Elements(amountPCTs)
        /\ \A j \in 1 .. Len(amountPCTs) : j > i => ~IsCovered(j)

(* The loop never indexes beyond the array or pops an empty one, which     *)
(* would revert the spend and every later one like it.                     *)
IndexInBounds == deleting => i <= Len(amountPCTs)

(* Together: before, in the middle of and after the loop the array is what *)
(* the set stands for.                                                     *)
DeletionFaithful == DeletionTypeOK /\ ArrayHoldsTheSet /\ NothingLostSoFar /\ IndexInBounds
=============================================================================
