----------------------- MODULE EncryptedUserBalances -----------------------
(***************************************************************************)
(* The encrypted balance of one user in one token, and the operations on   *)
(* it, as in contracts/eerc/EncryptedUserBalances.sol, with the ElGamal    *)
(* arithmetic of contracts/eerc/libraries/BabyJubJub.sol.                  *)
(*                                                                         *)
(* A ciphertext is symbolic: the key it is under, the plaintext v it       *)
(* decrypts to and the randomness r.  Encryption being additively          *)
(* homomorphic, adding ciphertexts adds v and r; under different keys the  *)
(* result decrypts under neither.  Two ciphertexts are equal exactly when  *)
(* key, v and r are, which is what the contract's keccak hash of the two   *)
(* curve points compares.  A Poseidon ciphertext (PCT) is the number in it.*)
(***************************************************************************)
EXTENDS Integers, FiniteSetsExt

CONSTANTS
    Keys,     \* BabyJubJub public keys
    NoKey,    \* the zero point (0, 0): no key, no ciphertext
    MixedKey  \* stands for a sum of ciphertexts under different keys

ASSUME KeysAssumption == NoKey \notin Keys /\ MixedKey \notin Keys /\ NoKey # MixedKey

Ciphertext == [key : Keys \cup {NoKey, MixedKey}, v : Int, r : Int]

\* Storage is zero before the first credit: c1 = (0, 0).
NoCiphertext == [key |-> NoKey, v |-> 0, r |-> 0]

\* elGamalEncryption with the randomness the contract fixes to 1.
Encrypt(publicKey, value) == [key |-> publicKey, v |-> value, r |-> 1]

SumKey(a, b) == IF a.key = b.key THEN a.key ELSE MixedKey

\* BabyJubJub._add and _sub on both points.
Add(a, b) == [key |-> SumKey(a, b), v |-> a.v + b.v, r |-> a.r + b.r]
Sub(a, b) == [key |-> SumKey(a, b), v |-> a.v - b.v, r |-> a.r - b.r]

AmountPCT == [pct : Int, index : Nat]

\* One entry of the mapping balanceList: the key is the hash of (ct, nonce).
BalanceHistory == [ct : Ciphertext, nonce : Nat, index : Nat]

Balance ==
    [eGCT : Ciphertext,
     balanceList : SUBSET BalanceHistory,
     nonce : Nat,
     transactionIndex : Nat,
     amountPCTs : SUBSET AmountPCT,
     balancePCT : Int]

EmptyBalance ==
    [eGCT |-> NoCiphertext, balanceList |-> {}, nonce |-> 0,
     transactionIndex |-> 0, amountPCTs |-> {}, balancePCT |-> 0]

\* Mutant: only the latest snapshot is kept.
SetHistoryForgetting(list, ct, nonce, index) ==
    {[ct |-> ct, nonce |-> nonce, index |-> index]}

(* Writing a mapping entry replaces the one that has the same key.         *)
SetHistory(list, ct, nonce, index) ==
    {h \in list : h.ct # ct \/ h.nonce # nonce}
        \cup {[ct |-> ct, nonce |-> nonce, index |-> index]}

(* The writes the functions below are made of, one per field.              *)
MarkValid(b) ==
    [b EXCEPT !.balanceList = SetHistory(@, b.eGCT, b.nonce, b.transactionIndex)]

RecordAmount(b, amountPCT) ==
    [b EXCEPT !.amountPCTs = @ \cup {[pct |-> amountPCT, index |-> b.transactionIndex]}]

AdvanceIndex(b) == [b EXCEPT !.transactionIndex = @ + 1]

AddToCiphertext(b, ct) ==
    [b EXCEPT !.eGCT = IF @ = NoCiphertext THEN ct ELSE Add(@, ct)]

SubFromCiphertext(b, ct) == [b EXCEPT !.eGCT = Sub(@, ct)]

DropAmounts(b, transactionIndex) ==
    [b EXCEPT !.amountPCTs = {p \in @ : p.index > transactionIndex}]

NextNonce(b) == [b EXCEPT !.nonce = @ + 1]

SetBalancePCT(b, balancePCT) == [b EXCEPT !.balancePCT = balancePCT]

(* The history entry of the ciphertext now stored, under the current nonce *)
(* and transaction index.                                                  *)
CommitUserBalance(b) == AdvanceIndex(MarkValid(b))

(* The history entry and the amount PCT share one transaction index.       *)
AddToUserHistory(b, amountPCT) == AdvanceIndex(RecordAmount(MarkValid(b), amountPCT))

AddToUserBalance(b, ct, amountPCT) ==
    AddToUserHistory(AddToCiphertext(b, ct), amountPCT)

\* Mutant: the nonce stays, so the snapshots before the spend stay valid.
DeleteUserHistoryKeepingNonce(b, transactionIndex) ==
    CommitUserBalance(DropAmounts(b, transactionIndex))

\* Mutant: the credit the spent snapshot was taken at stays in the history.
DeleteUserHistoryOffByOne(b, transactionIndex) ==
    CommitUserBalance(NextNonce(DropAmounts(b, transactionIndex - 1)))

(* Drops what the spent snapshot already covers and starts a new nonce.    *)
(* The array loop that does it is the module UserHistoryDeletion.          *)
DeleteUserHistory(b, transactionIndex) ==
    CommitUserBalance(NextNonce(DropAmounts(b, transactionIndex)))

SubtractFromUserBalance(b, ct, balancePCT, transactionIndex) ==
    SetBalancePCT(DeleteUserHistory(SubFromCiphertext(b, ct), transactionIndex), balancePCT)

ValidHistory(b) == {h \in b.balanceList : h.nonce = b.nonce}

IsBalanceValid(b, ct) == \E h \in ValidHistory(b) : h.ct = ct

(* The transaction index a verified ciphertext was committed at.           *)
VerifiedIndex(b, ct) == (CHOOSE h \in ValidHistory(b) : h.ct = ct).index

(* _privateBurn: verify the provided balance, then subtract.               *)
PrivateBurnBalance(b, providedBalance, ct, balancePCT) ==
    SubtractFromUserBalance(b, ct, balancePCT, VerifiedIndex(b, providedBalance))

(***************************************************************************)
(* The owner's side.  getDecryptedBalance reads the balance from the PCTs  *)
(* and refuses an account whose ciphertext does not decrypt to their sum.  *)
(***************************************************************************)
SumPCTs(pcts) == MapThenSumSet(LAMBDA p : p.pct, pcts)

TotalBalance(b) == b.balancePCT + SumPCTs(b.amountPCTs)

CanDecryptBalance(b) == b.eGCT = NoCiphertext \/ b.eGCT.v = TotalBalance(b)
=============================================================================
