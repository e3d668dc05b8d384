---------------------- MODULE TreasuryDeposits_proofs ----------------------
(***************************************************************************)
(* Theorems about TreasuryDeposits, for any number of idempotency keys,    *)
(* requests, faults and payroll transfers, where requests end within the   *)
(* 90 seconds after which their rows may be taken over (Prompt).           *)
(***************************************************************************)
EXTENDS TreasuryDeposits, FiniteSetTheorems, TLAPS

-----------------------------------------------------------------------------
(* The inductive invariant.                                                *)

(* Where a request has its row for itself, and where the row has the hash  *)
(* of the deposit it signed.                                               *)
Hashed == {"sending", "rejected", "confirming"}
Working == {"approving", "approved", "signing", "storing"} \cup Hashed

Works(q, k) == pc[q] \in Working /\ key[q] = k

RequestInv(q) ==
    /\ pc[q] # "idle" => key[q] \in IdempotencyKeys
    /\ pc[q] \in Working => status[key[q]] = "submitted" /\ ~old[key[q]]
    /\ pc[q] \in Working \ Hashed => txHash[key[q]] = NoTx
    /\ pc[q] \in Hashed => txHash[key[q]] = sent[q]
    /\ pc[q] \in Hashed \cup {"storing"} =>
           /\ sent[q] \in Tx /\ sent[q].by = q /\ sent[q].kind = "deposit"
           /\ sent[q].nonce <= NextNonce

(* No two requests work on the row of one key.                             *)
OneWorks ==
    \A k \in IdempotencyKeys, q, r \in Requests : Works(q, k) /\ Works(r, k) => q = r

RowInv(k) ==
    /\ status[k] = "absent" => txHash[k] = NoTx
    /\ status[k] = "confirmed" => Succeeded(txHash[k])
    /\ status[k] = "failed" => Reverted(txHash[k])

CandidateInv ==
    candidate # NoCandidate => StillCandidate /\ old[candidate.key]

(* The account's nonces are used once each and without gaps.               *)
AccountInv ==
    /\ IsFiniteSet(mempool)
    /\ \A tx \in mempool : Len(mined) <= tx.nonce /\ tx.nonce < NextNonce
    /\ \A tx, other \in mempool : tx.nonce = other.nonce => tx = other
    /\ \A j \in 1 .. Len(mined) : mined[j].tx.nonce = j - 1

(* The deposits the node accepted, and those that moved funds or still may.*)
Accepted == {tx \in Tx : tx.kind = "deposit" /\ (tx \in mempool \/ IsMined(tx))}
Live == {tx \in Tx : tx.kind = "deposit" /\ (tx \in mempool \/ Succeeded(tx))}

(* A request sends one deposit at most, and has sent it when it confirms.  *)
SentOnce ==
    \A tx \in Accepted :
        /\ tx.by \in Requests /\ tx = sent[tx.by]
        /\ pc[tx.by] \in {"confirming", "rejected", "replied"}
        /\ pc[tx.by] = "rejected" => replyLost

(* No live deposit of a key but the one stored in its row.                 *)
LiveIsStored ==
    ~replyLost => \A tx \in Live : txHash[key[tx.by]] = tx

IInv ==
    /\ TypeOK
    /\ \A q \in Requests : RequestInv(q)
    /\ OneWorks
    /\ \A k \in IdempotencyKeys : RowInv(k)
    /\ CandidateInv
    /\ AccountInv
    /\ SentOnce
    /\ LiveIsStored

-----------------------------------------------------------------------------
(* Types.                                                                  *)

LEMMA NextNonceType ==
    ASSUME TypeOK, IsFiniteSet(mempool)
    PROVE  NextNonce \in Nat /\ Len(mined) \in Nat /\ Len(mined) <= NextNonce
<1>1. Len(mined) \in Nat /\ Cardinality(mempool) \in Nat
  BY FS_CardinalityType DEF TypeOK
<1>2. QED
  BY <1>1 DEF NextNonce

LEMMA SignedType ==
    ASSUME TypeOK, IsFiniteSet(mempool), NEW q \in Requests \cup {Payroll},
           NEW kind \in {"approve", "deposit", "transfer"}
    PROVE  [by |-> q, kind |-> kind, nonce |-> NextNonce] \in Tx
BY NextNonceType DEF Tx

LEMMA RowType ==
    ASSUME TypeOK, NEW k \in IdempotencyKeys,
           NEW new \in {"absent", "submitted", "confirmed", "failed"},
           NEW hash \in Tx \cup {NoTx}, SetRow(k, new, hash)
    PROVE  /\ status' \in [IdempotencyKeys -> {"absent", "submitted", "confirmed", "failed"}]
           /\ txHash' \in [IdempotencyKeys -> Tx \cup {NoTx}]
           /\ old' \in [IdempotencyKeys -> BOOLEAN]
BY DEF TypeOK, SetRow

LEMMA MempoolType ==
    ASSUME TypeOK, NEW tx \in Tx
    PROVE  MempoolWith(tx) \subseteq Tx
BY DEF TypeOK, MempoolWith

LEMMA AccountTypes ==
    ASSUME TypeOK
    PROVE  /\ \A tx \in mempool : tx \in Tx /\ tx.nonce \in Nat
           /\ \A j \in 1 .. Len(mined) : mined[j].tx \in Tx /\ mined[j].ok \in BOOLEAN
<1>1. \A tx \in mempool : tx \in Tx
  BY DEF TypeOK
<1>2. \A tx \in Tx : tx.nonce \in Nat
  BY DEF Tx
<1>3. \A j \in 1 .. Len(mined) : mined[j] \in [tx : Tx, ok : BOOLEAN]
  <2> DEFINE Receipt == [tx : Tx, ok : BOOLEAN]
  <2>1. mined \in Seq(Receipt)
    BY DEF TypeOK
  <2> HIDE DEF Receipt
  <2>2. \A j \in 1 .. Len(mined) : mined[j] \in Receipt
    BY <2>1
  <2>3. QED
    BY <2>2 DEF Receipt
<1>4. QED
  BY <1>1, <1>2, <1>3

LEMMA HandleType ==
    ASSUME IInv, NEW q \in Requests, Handle(q) \/ Disturb(q)
    PROVE  TypeOK'
<1> USE DEF rowVars, requestVars, tokenVars, boundVars, accountVars, Go, Fault
<1>0. TypeOK /\ IsFiniteSet(mempool)
  BY DEF IInv, AccountInv
<1>a. pc[q] # "idle" => key[q] \in IdempotencyKeys
  BY DEF IInv, RequestInv
<1>b. pc[q] \in Hashed \cup {"storing"} => sent[q] \in Tx
  BY DEF IInv, RequestInv
<1>c. \A k \in IdempotencyKeys :
          /\ status[k] \in {"absent", "submitted", "confirmed", "failed"}
          /\ txHash[k] \in Tx \cup {NoTx}
  BY <1>0 DEF TypeOK
<1>1. CASE Insert(q)
  <2>1. CASE UNCHANGED rowVars
    BY <1>0, <1>1, <2>1 DEF Insert, TypeOK
  <2>2. CASE SetRow(key[q], "submitted", NoTx)
    BY <1>0, <1>1, <1>a, <2>2, RowType DEF Insert, TypeOK
  <2>3. QED
    BY <1>1, <2>1, <2>2 DEF Insert
<1>2. CASE Claim(q)
  <2>1. CASE UNCHANGED rowVars
    BY <1>0, <1>2, <2>1 DEF Claim, TypeOK
  <2>2. CASE SetRow(key[q], "submitted", NoTx)
    BY <1>0, <1>2, <1>a, <2>2, RowType DEF Claim, TypeOK
  <2>3. QED
    BY <1>2, <2>1, <2>2 DEF Claim
<1>3. CASE Approve(q)
  BY <1>0, <1>3, SignedType DEF Approve, Signed, TypeOK
<1>4. CASE ApproveConfirmed(q) \/ SignFails(q) \/ ApproveFails(q) \/ TimesOut(q)
  BY <1>0, <1>4 DEF ApproveConfirmed, SignFails, ApproveFails, TimesOut, TypeOK
<1>5. CASE Sign(q)
  BY <1>0, <1>5, SignedType DEF Sign, Signed, TypeOK
<1>6. CASE Store(q)
  <2>1. SetRow(key[q], status[key[q]], sent[q])
    BY <1>6 DEF Store
  <2>2. key[q] \in IdempotencyKeys /\ sent[q] \in Tx \cup {NoTx}
    BY <1>6, <1>a, <1>b DEF Store
  <2>3. QED
    BY <1>0, <1>6, <1>c, <2>1, <2>2, RowType DEF Store, TypeOK
<1>7. CASE Send(q)
  BY <1>0, <1>7, <1>b, MempoolType DEF Send, Hashed, TypeOK
<1>8. CASE SendReplyLost(q)
  BY <1>0, <1>8, <1>b, MempoolType DEF SendReplyLost, Hashed, TypeOK
<1>9. CASE Reject(q)
  BY <1>0, <1>9, <1>a, RowType DEF Reject, TypeOK
<1>10. CASE Confirm(q)
  BY <1>0, <1>10, <1>a, <1>b, RowType DEF Confirm, Hashed, TypeOK
<1>11. CASE ConfirmReverted(q)
  <2>1. SetRow(key[q], "failed", txHash[key[q]]) /\ key[q] \in IdempotencyKeys
    BY <1>11, <1>a DEF ConfirmReverted
  <2>2. QED
    BY <1>0, <1>11, <1>c, <2>1, RowType DEF ConfirmReverted, TypeOK
<1>12. QED
  BY <1>1, <1>2, <1>3, <1>4, <1>5, <1>6, <1>7, <1>8, <1>9, <1>10, <1>11 DEF Handle, Disturb

LEMMA SettleType ==
    ASSUME TypeOK, ReconcileSettle
    PROVE  TypeOK'
<1>1. candidate.key \in IdempotencyKeys /\ candidate.txHash \in Tx
  BY DEF ReconcileSettle, TypeOK
<1>2. CASE UNCHANGED rowVars
  BY <1>2 DEF ReconcileSettle, TypeOK, rowVars, requestVars, tokenVars, boundVars, accountVars
<1>3. CASE SetRow(candidate.key, ReceiptStatus(candidate.txHash), txHash[candidate.key])
           /\ ReceiptStatus(candidate.txHash) # "none"
  <2>1. ReceiptStatus(candidate.txHash) \in {"confirmed", "failed"}
    BY <1>3 DEF ReceiptStatus
  <2>2. txHash[candidate.key] \in Tx \cup {NoTx}
    BY <1>1 DEF TypeOK
  <2>3. QED
    BY <1>1, <1>3, <2>1, <2>2, RowType
       DEF ReconcileSettle, TypeOK, rowVars, requestVars, tokenVars, boundVars, accountVars
<1>4. QED
  BY <1>2, <1>3 DEF ReconcileSettle

LEMMA NextType ==
    ASSUME IInv, Next
    PROVE  TypeOK'
<1> USE DEF rowVars, requestVars, tokenVars, boundVars, accountVars, Go, Fault
<1>0. TypeOK /\ IsFiniteSet(mempool)
  BY DEF IInv, AccountInv
<1>1. ASSUME NEW q \in Requests, NEW k \in IdempotencyKeys, Receive(q, k) PROVE TypeOK'
  BY <1>0, <1>1 DEF Receive, TypeOK
<1>2. CASE Crash
  BY <1>0, <1>2 DEF Crash, TypeOK
<1>3. ASSUME NEW k \in IdempotencyKeys, Age(k) PROVE TypeOK'
  BY <1>0, <1>3 DEF Age, TypeOK
<1>4. ASSUME NEW k \in IdempotencyKeys, ReconcileRead(k) PROVE TypeOK'
  <2>1. txHash[k] \in Tx
    BY <1>0, <1>4 DEF ReconcileRead, TypeOK
  <2>2. [key |-> k, txHash |-> txHash[k]] \in [key : IdempotencyKeys, txHash : Tx]
    BY <2>1
  <2>3. QED
    BY <1>0, <1>4, <2>2 DEF ReconcileRead, TypeOK
<1>5. ASSUME NEW tx \in mempool, Mine(tx) PROVE TypeOK'
  <2>1. tx \in Tx /\ Executes(tx) \in BOOLEAN
    BY <1>0 DEF TypeOK, Executes
  <2>2. [tx |-> tx, ok |-> Executes(tx)] \in [tx : Tx, ok : BOOLEAN]
    BY <2>1
  <2>3. mempool' \subseteq Tx /\ mined' \in Seq([tx : Tx, ok : BOOLEAN])
    BY <1>0, <1>5, <2>2 DEF Mine, MineAs, TypeOK
  <2>4. allowance' \in {0, 1}
    <3>1. CanDeposit => allowance - 1 \in {0, 1}
      BY <1>0 DEF CanDeposit, TypeOK
    <3>2. QED
      BY <1>0, <1>5, <3>1 DEF Mine, AllowanceAfter, TypeOK
  <2>5. funds' \in Nat
    BY <1>0, <1>5 DEF Mine, CanDeposit, TypeOK
  <2>6. QED
    BY <1>0, <1>5, <2>3, <2>4, <2>5 DEF Mine, TypeOK
<1>6. CASE Transfer
  <2>1. [by |-> Payroll, kind |-> "transfer", nonce |-> NextNonce] \in Tx
    BY <1>0, SignedType
  <2>2. mempool' \subseteq Tx
    BY <1>0, <1>6, <2>1 DEF Transfer, TypeOK
  <2>3. QED
    BY <1>0, <1>6, <2>2 DEF Transfer, TypeOK
<1>7. QED
  BY <1>0, <1>1, <1>2, <1>3, <1>4, <1>5, <1>6, HandleType, SettleType DEF Next, Reconcile
-----------------------------------------------------------------------------
(* The account.                                                            *)

(* A step of the account after which no deposit is accepted or live that   *)
(* was not before, but those of the set new.                               *)
AccountStep(new) ==
    /\ AccountInv'
    /\ NextNonce' \in Nat /\ NextNonce <= NextNonce'
    /\ Accepted' \subseteq Accepted \cup new
    /\ Live' \subseteq Live \cup new
    /\ \A tx \in Tx \cup {NoTx} : Succeeded(tx) => Succeeded(tx)'
    /\ \A tx \in Tx \cup {NoTx} : Reverted(tx) => Reverted(tx)'

LEMMA NonceType ==
    ASSUME IInv
    PROVE  /\ NextNonce \in Nat /\ Len(mined) \in Nat /\ Len(mined) <= NextNonce
           /\ \A tx \in Tx : tx.nonce \in Nat
BY NextNonceType DEF IInv, AccountInv, Tx

LEMMA AccountKept ==
    ASSUME IInv, UNCHANGED accountVars
    PROVE  AccountStep({})
<1>1. AccountInv' /\ NextNonce' = NextNonce
  BY DEF IInv, AccountInv, NextNonce, accountVars
<1>2. Accepted' = Accepted /\ Live' = Live
  BY DEF Accepted, Live, IsMined, Succeeded, accountVars
<1>3. \A tx \in Tx \cup {NoTx} :
          (Succeeded(tx) => Succeeded(tx)') /\ (Reverted(tx) => Reverted(tx)')
  BY DEF Succeeded, Reverted, accountVars
<1>4. QED
  BY <1>1, <1>2, <1>3, NonceType DEF AccountStep

LEMMA AddedToMempool ==
    ASSUME IInv, NEW tx \in Tx, Accepts(tx), Len(mined) <= tx.nonce, tx.nonce <= NextNonce,
           mempool' = mempool \cup {tx}, mined' = mined
    PROVE  AccountStep({t \in {tx} : t.kind = "deposit"})
<1>1. tx \notin mempool
  BY DEF Accepts
<1>2. IsFiniteSet(mempool') /\ Cardinality(mempool') = Cardinality(mempool) + 1
  BY <1>1, FS_AddElement DEF IInv, AccountInv
<1>3. Cardinality(mempool) \in Nat /\ Len(mined) \in Nat /\ tx.nonce \in Nat
  BY FS_CardinalityType, NonceType DEF IInv, AccountInv
<1>4. NextNonce' = NextNonce + 1 /\ NextNonce \in Nat
  BY <1>2, <1>3 DEF NextNonce
<1>5. \A other \in mempool' : Len(mined) <= other.nonce /\ other.nonce < NextNonce'
  <2>1. \A other \in mempool :
            other.nonce \in Nat /\ Len(mined) <= other.nonce /\ other.nonce < NextNonce
    BY AccountTypes DEF IInv, AccountInv
  <2>2. QED
    BY <2>1, <1>3, <1>4
<1>6. \A one, other \in mempool' : one.nonce = other.nonce => one = other
  BY DEF IInv, AccountInv, Accepts
<1>7. AccountInv'
  BY <1>2, <1>4, <1>5, <1>6 DEF IInv, AccountInv
<1>8. \A t \in Tx \cup {NoTx} :
          Succeeded(t)' = Succeeded(t) /\ Reverted(t)' = Reverted(t) /\ IsMined(t)' = IsMined(t)
  BY DEF Succeeded, Reverted, IsMined
<1>9. /\ Accepted' \subseteq Accepted \cup {t \in {tx} : t.kind = "deposit"}
      /\ Live' \subseteq Live \cup {t \in {tx} : t.kind = "deposit"}
  BY <1>8 DEF Accepted, Live
<1>10. QED
  BY <1>4, <1>7, <1>8, <1>9 DEF AccountStep

(* The next nonce is accepted by a node that has just been asked for it.   *)
LEMMA NextAccepted ==
    ASSUME IInv, NEW tx \in Tx, tx.nonce = NextNonce,
           mempool' = mempool \cup {tx}, mined' = mined
    PROVE  AccountStep({t \in {tx} : t.kind = "deposit"})
<1>1. \A other \in mempool : other.nonce \in Nat /\ other.nonce < NextNonce
  BY AccountTypes DEF IInv, AccountInv
<1>2. Accepts(tx) /\ Len(mined) <= tx.nonce /\ tx.nonce <= NextNonce
  BY <1>1, NonceType DEF Accepts
<1>3. QED
  BY <1>2, AddedToMempool

LEMMA SentAccount ==
    ASSUME IInv, NEW tx \in Tx, tx.nonce <= NextNonce,
           mempool' = MempoolWith(tx), mined' = mined
    PROVE  AccountStep({t \in {tx} : t.kind = "deposit"})
<1>1. CASE mempool' = mempool
  BY <1>1, AccountKept DEF accountVars, AccountStep
<1>2. CASE ~NonceTooLow(tx) /\ Accepts(tx) /\ mempool' = mempool \cup {tx}
  <2>1. Len(mined) <= tx.nonce
    BY <1>2, NonceType DEF NonceTooLow
  <2>2. QED
    BY <1>2, <2>1, AddedToMempool
<1>3. QED
  BY <1>1, <1>2 DEF MempoolWith

(* A mined nonce tells its transaction, and no pending one has it.         *)
LEMMA MinedOnce ==
    ASSUME IInv
    PROVE  /\ \A i, j \in 1 .. Len(mined) : mined[i].tx = mined[j].tx => i = j
           /\ \A j \in 1 .. Len(mined) : mined[j].tx \notin mempool
<1>1. \A i, j \in 1 .. Len(mined) : mined[i].tx = mined[j].tx => i = j
  <2>1. \A j \in 1 .. Len(mined) : mined[j].tx.nonce = j - 1
    BY DEF IInv, AccountInv
  <2>2. \A i, j \in 1 .. Len(mined) : i - 1 = j - 1 => i = j
    OBVIOUS
  <2>3. QED
    BY <2>1, <2>2
<1>2. ASSUME NEW j \in 1 .. Len(mined), mined[j].tx \in mempool PROVE FALSE
  <2>1. Len(mined) <= mined[j].tx.nonce /\ mined[j].tx.nonce = j - 1
    BY <1>2 DEF IInv, AccountInv
  <2>2. QED
    BY <2>1, NonceType
<1>3. QED
  BY <1>1, <1>2

LEMMA MinedAccount ==
    ASSUME IInv, NEW tx \in mempool, NEW ok \in BOOLEAN, MineAs(tx, ok)
    PROVE  AccountStep({})
<1>1. IsFiniteSet(mempool') /\ Cardinality(mempool') = Cardinality(mempool) - 1
  BY FS_RemoveElement DEF IInv, AccountInv, MineAs
<1>2. Cardinality(mempool) \in Nat /\ Len(mined) \in Nat
  BY FS_CardinalityType, NonceType DEF IInv, AccountInv
<1>3. /\ Len(mined') = Len(mined) + 1
      /\ \A j \in 1 .. Len(mined) : mined'[j] = mined[j]
      /\ mined'[Len(mined) + 1] = [tx |-> tx, ok |-> ok]
  BY DEF IInv, TypeOK, MineAs
<1>4. NextNonce' = NextNonce /\ NextNonce \in Nat
  BY <1>1, <1>2, <1>3 DEF NextNonce
<1>5. \A other \in mempool' : Len(mined) + 1 <= other.nonce /\ other.nonce < NextNonce
  <2>1. SUFFICES ASSUME NEW other \in mempool'
                 PROVE  Len(mined) + 1 <= other.nonce /\ other.nonce < NextNonce
    OBVIOUS
  <2>2. other \in mempool /\ other # tx /\ tx.nonce = Len(mined)
    BY DEF MineAs
  <2>3. /\ other.nonce \in Nat /\ Len(mined) <= other.nonce /\ other.nonce < NextNonce
        /\ other.nonce # Len(mined)
    BY <2>2, AccountTypes DEF IInv, AccountInv
  <2>4. QED
    BY <1>2, <2>3
<1>6. \A j \in 1 .. Len(mined') : mined'[j].tx.nonce = j - 1
  <2>1. \A j \in 1 .. Len(mined) : mined[j].tx.nonce = j - 1
    BY DEF IInv, AccountInv
  <2>2. mined'[Len(mined) + 1].tx.nonce = Len(mined)
    BY <1>3 DEF MineAs
  <2>3. QED
    BY <1>2, <1>3, <2>1, <2>2
<1>7. \A one, other \in mempool' : one.nonce = other.nonce => one = other
  BY DEF IInv, AccountInv, MineAs
<1>8. AccountInv'
  BY <1>1, <1>3, <1>4, <1>5, <1>6, <1>7 DEF AccountInv
<1>9. \A t \in Tx \cup {NoTx} :
          (Succeeded(t) => Succeeded(t)') /\ (Reverted(t) => Reverted(t)')
  BY <1>2, <1>3 DEF Succeeded, Reverted
<1>10. \A t \in Tx : (IsMined(t)' => IsMined(t) \/ t = tx)
                     /\ (Succeeded(t)' => Succeeded(t) \/ t = tx)
  <2>1. \A j \in 1 .. Len(mined') : j \in 1 .. Len(mined) \/ j = Len(mined) + 1
    BY <1>2, <1>3
  <2>2. QED
    BY <1>3, <2>1 DEF IsMined, Succeeded
<1>11. Accepted' \subseteq Accepted /\ Live' \subseteq Live
  BY <1>10 DEF Accepted, Live, MineAs
<1>12. QED
  BY <1>4, <1>8, <1>9, <1>11 DEF AccountStep
-----------------------------------------------------------------------------
(* What a step of one request leaves alone.                                *)

Sends == {"confirming", "rejected", "replied"}

Others(q) ==
    \A r \in Requests \ {q} : pc'[r] = pc[r] /\ key'[r] = key[r] /\ sent'[r] = sent[r]

RowKept(k) == status'[k] = status[k] /\ txHash'[k] = txHash[k] /\ old'[k] = old[k]

LEMMA RequestKept ==
    ASSUME IInv, NEW r \in Requests, NextNonce' \in Nat, NextNonce <= NextNonce',
           pc'[r] = pc[r], key'[r] = key[r], sent'[r] = sent[r],
           pc[r] \in Working => RowKept(key[r])
    PROVE  RequestInv(r)'
<1>1. RequestInv(r) /\ NextNonce \in Nat
  BY NonceType DEF IInv
<1>2. sent[r] \in Tx => sent[r].nonce \in Nat
  BY DEF Tx
<1>3. Hashed \subseteq Working
  BY DEF Working
<1>4. sent[r] \in Tx /\ sent[r].nonce <= NextNonce => sent[r].nonce <= NextNonce'
  BY <1>1, <1>2
<1>5. QED
  BY <1>1, <1>3, <1>4 DEF RequestInv, RowKept

LEMMA SentOnceKept ==
    ASSUME IInv, NEW q \in Requests, NEW new \in SUBSET {sent'[q]}, AccountStep(new), Others(q),
           replyLost => replyLost',
           pc[q] \in Sends => pc'[q] = "replied" /\ sent'[q] = sent[q],
           new # {} => /\ sent'[q].by = q /\ pc'[q] \in Sends
                       /\ pc'[q] = "rejected" => replyLost'
    PROVE  SentOnce'
<1>1. SUFFICES ASSUME NEW tx \in Accepted'
               PROVE  /\ tx.by \in Requests /\ tx = sent'[tx.by]
                      /\ pc'[tx.by] \in Sends
                      /\ pc'[tx.by] = "rejected" => replyLost'
  BY DEF SentOnce, Sends
<1>2. CASE tx \in new
  BY <1>2
<1>3. CASE tx \in Accepted
  BY <1>3 DEF IInv, SentOnce, Sends, Others
<1>4. QED
  BY <1>2, <1>3 DEF AccountStep

LEMMA UnpaidRow ==
    ASSUME IInv, ~replyLost, NEW k, txHash[k] = NoTx \/ Reverted(txHash[k])
    PROVE  \A tx \in Live : key[tx.by] # k
<1>1. SUFFICES ASSUME NEW tx \in Live, tx = txHash[k]
               PROVE  FALSE
  BY DEF IInv, LiveIsStored
<1>2. tx \in Tx /\ (tx \in mempool \/ Succeeded(tx))
  BY DEF Live
<1>3. Reverted(tx)
  BY <1>1, <1>2, NoTxAssumption
<1>4. QED
  BY <1>2, <1>3, MinedOnce DEF Reverted, Succeeded

(* A request that moves without writing its row.                           *)
LEMMA MovedOn ==
    ASSUME IInv, TypeOK', NEW q \in Requests, NEW new \in SUBSET {sent'[q]}, AccountStep(new),
           Others(q), UNCHANGED <<rowVars, key, candidate>>, RequestInv(q)',
           replyLost => replyLost',
           pc'[q] \in Working => pc[q] \in Working,
           pc[q] \in Sends => pc'[q] = "replied" /\ sent'[q] = sent[q],
           new # {} => /\ sent'[q].by = q /\ pc'[q] \in Sends
                       /\ pc'[q] = "rejected" => replyLost'
                       /\ txHash[key[q]] = sent'[q]
    PROVE  IInv'
<1>1. NextNonce' \in Nat /\ NextNonce <= NextNonce' /\ AccountInv'
  BY DEF AccountStep
<1>2. ASSUME NEW r \in Requests PROVE RequestInv(r)'
  <2>1. CASE r = q
    BY <2>1
  <2>2. CASE r # q
    BY <1>1, <2>2, RequestKept DEF Others, RowKept, rowVars
  <2>3. QED
    BY <2>1, <2>2
<1>3. OneWorks'
  <2>1. ASSUME NEW r \in Requests, NEW k \in IdempotencyKeys, Works(r, k)' PROVE Works(r, k)
    BY <2>1 DEF Works, Others
  <2>2. QED
    BY <2>1 DEF OneWorks, IInv
<1>4. ASSUME NEW k \in IdempotencyKeys PROVE RowInv(k)'
  <2>1. RowInv(k) /\ txHash[k] \in Tx \cup {NoTx}
    BY DEF IInv, TypeOK
  <2>2. QED
    BY <2>1 DEF RowInv, AccountStep, rowVars
<1>5. CandidateInv'
  BY DEF IInv, CandidateInv, StillCandidate, rowVars
<1>6. SentOnce'
  BY SentOnceKept
<1>7. LiveIsStored'
  <2>1. SUFFICES ASSUME ~replyLost', NEW tx \in Live' PROVE txHash'[key'[tx.by]] = tx
    BY DEF LiveIsStored
  <2>2. CASE tx \in Live
    BY <2>1, <2>2 DEF IInv, LiveIsStored, rowVars
  <2>3. CASE tx \in new
    BY <2>3 DEF rowVars
  <2>4. QED
    BY <2>2, <2>3 DEF AccountStep
<1>8. QED
  BY <1>1, <1>2, <1>3, <1>4, <1>5, <1>6, <1>7 DEF IInv

(* A request that writes a row no other request works on.                  *)
LEMMA Written ==
    ASSUME IInv, TypeOK', NEW q \in Requests, key[q] \in IdempotencyKeys,
           NEW new, NEW hash, SetRow(key[q], new, hash),
           Others(q), UNCHANGED <<key, sent, candidate, replyLost, accountVars>>,
           \A r \in Requests : Works(r, key[q]) => r = q,
           candidate # NoCandidate => candidate.key # key[q],
           RequestInv(q)', RowInv(key[q])',
           pc[q] \in Sends => pc'[q] = "replied",
           ~replyLost => hash = txHash[key[q]] \/ \A tx \in Live : key[tx.by] # key[q]
    PROVE  IInv'
<1>1. /\ AccountStep({})
      /\ NextNonce' \in Nat /\ NextNonce <= NextNonce' /\ AccountInv'
  BY AccountKept DEF AccountStep
<1>2. \A k \in IdempotencyKeys \ {key[q]} : RowKept(k)
  BY DEF SetRow, RowKept, IInv, TypeOK
<1>3. txHash'[key[q]] = hash
  BY DEF SetRow, IInv, TypeOK
<1>4. ASSUME NEW r \in Requests PROVE RequestInv(r)'
  <2>1. CASE r = q
    BY <2>1
  <2>2. CASE r # q
    <3>1. pc[r] \in Working => RowKept(key[r])
      <4>1. pc[r] \in Working => key[r] \in IdempotencyKeys
        BY DEF IInv, RequestInv, Working, Hashed
      <4>2. QED
        BY <1>2, <2>2, <4>1 DEF Works
    <3>2. QED
      BY <1>1, <2>2, <3>1, RequestKept DEF Others
  <2>3. QED
    BY <2>1, <2>2
<1>5. OneWorks'
  <2>1. ASSUME NEW k \in IdempotencyKeys, NEW r \in Requests, r # q, Works(r, k)'
        PROVE  Works(r, k) /\ k # key[q]
    BY <2>1 DEF Works, Others
  <2>2. ASSUME NEW k \in IdempotencyKeys, Works(q, k)' PROVE k = key[q]
    BY <2>2 DEF Works
  <2>3. QED
    BY <2>1, <2>2 DEF OneWorks, IInv
<1>6. ASSUME NEW k \in IdempotencyKeys PROVE RowInv(k)'
  <2>1. CASE k = key[q]
    BY <2>1
  <2>2. CASE k # key[q]
    <3>1. RowInv(k) /\ txHash[k] \in Tx \cup {NoTx}
      BY DEF IInv, TypeOK
    <3>2. QED
      BY <1>1, <1>2, <2>2, <3>1 DEF RowInv, AccountStep, RowKept
  <2>3. QED
    BY <2>1, <2>2
<1>7. CandidateInv'
  <2>1. candidate # NoCandidate => candidate.key \in IdempotencyKeys
    BY DEF IInv, TypeOK
  <2>2. QED
    BY <1>2, <2>1 DEF IInv, CandidateInv, StillCandidate, RowKept
<1>8. SentOnce'
  BY <1>1, SentOnceKept
<1>9. LiveIsStored'
  <2>1. SUFFICES ASSUME ~replyLost', NEW tx \in Live' PROVE txHash'[key'[tx.by]] = tx
    BY DEF LiveIsStored
  <2>2. tx \in Live /\ txHash[key[tx.by]] = tx
    BY <1>1, <2>1 DEF IInv, LiveIsStored, AccountStep
  <2>3. key[tx.by] \in IdempotencyKeys
    BY <2>2 DEF IInv, Live, Accepted, Succeeded, IsMined, SentOnce, RequestInv
  <2>4. QED
    BY <1>2, <1>3, <2>1, <2>2, <2>3 DEF RowKept
<1>10. QED
  BY <1>1, <1>4, <1>5, <1>6, <1>7, <1>8, <1>9 DEF IInv
-----------------------------------------------------------------------------
(* The steps of a request.                                                 *)

LEMMA CandidateApart ==
    ASSUME IInv, NEW k, ~old[k] \/ status[k] # "submitted" \/ txHash[k] = NoTx
    PROVE  candidate # NoCandidate => candidate.key # k
BY NoTxAssumption DEF IInv, TypeOK, CandidateInv, StillCandidate

LEMMA NoneWorks ==
    ASSUME IInv, NEW k, old[k] \/ status[k] # "submitted", NEW r \in Requests
    PROVE  ~Works(r, k)
BY DEF IInv, RequestInv, Works

(* A request takes a row that nobody works on and nothing was paid for.    *)
LEMMA Taken ==
    ASSUME IInv, TypeOK', NEW q \in Requests, pc[q] \in {"inserting", "claiming"},
           Go(q, pc[q], "approving"), status[key[q]] = "absent" \/ Resumable(key[q]),
           SetRow(key[q], "submitted", NoTx),
           UNCHANGED <<key, sent, candidate, replyLost, accountVars>>
    PROVE  IInv'
<1>1. key[q] \in IdempotencyKeys
  BY DEF IInv, RequestInv
<1>2. Others(q) /\ pc'[q] = "approving"
  BY DEF IInv, TypeOK, Go, Others
<1>3. \A r \in Requests : Works(r, key[q]) => r = q
  BY NoneWorks DEF Resumable
<1>4. candidate # NoCandidate => candidate.key # key[q]
  BY CandidateApart DEF Resumable
<1>5. status'[key[q]] = "submitted" /\ txHash'[key[q]] = NoTx /\ ~old'[key[q]]
  BY <1>1 DEF SetRow, IInv, TypeOK
<1>6. RequestInv(q)'
  BY <1>1, <1>2, <1>5 DEF RequestInv, Working, Hashed
<1>7. RowInv(key[q])'
  BY <1>5 DEF RowInv
<1>8. ~replyLost => \A tx \in Live : key[tx.by] # key[q]
  <2>1. txHash[key[q]] = NoTx \/ Reverted(txHash[key[q]])
    BY <1>1 DEF IInv, RowInv, Resumable
  <2>2. QED
    BY <2>1, UnpaidRow
<1>9. QED
  BY <1>1, <1>2, <1>3, <1>4, <1>6, <1>7, <1>8, Written DEF Sends

(* A request writes the row it works on.                                   *)
LEMMA WritesOwn ==
    ASSUME IInv, TypeOK', NEW q \in Requests, pc[q] \in Working,
           NEW to, Go(q, pc[q], to), NEW new, NEW hash, SetRow(key[q], new, hash),
           UNCHANGED <<key, sent, candidate, replyLost, accountVars>>,
           RequestInv(q)', RowInv(key[q])',
           pc[q] \in Sends => to = "replied",
           ~replyLost => hash = txHash[key[q]] \/ \A tx \in Live : key[tx.by] # key[q]
    PROVE  IInv'
<1>1. key[q] \in IdempotencyKeys /\ ~old[key[q]]
  BY DEF IInv, RequestInv, Working, Hashed
<1>2. Others(q) /\ pc'[q] = to
  BY DEF IInv, TypeOK, Go, Others
<1>3. \A r \in Requests : Works(r, key[q]) => r = q
  BY <1>1 DEF IInv, OneWorks, Works
<1>4. candidate # NoCandidate => candidate.key # key[q]
  BY <1>1, CandidateApart
<1>5. QED
  BY <1>1, <1>2, <1>3, <1>4, Written

LEMMA StoreStep ==
    ASSUME IInv, TypeOK', NEW q \in Requests, Store(q)
    PROVE  IInv'
<1>1. /\ Go(q, "storing", "sending") /\ pc[q] = "storing" /\ pc'[q] = "sending"
      /\ SetRow(key[q], status[key[q]], sent[q])
      /\ UNCHANGED <<key, sent, candidate, replyLost, accountVars>>
  BY DEF Store, Go, boundVars, IInv, TypeOK
<1>2. /\ key[q] \in IdempotencyKeys
      /\ status[key[q]] = "submitted" /\ txHash[key[q]] = NoTx
      /\ sent[q] \in Tx /\ sent[q].by = q /\ sent[q].kind = "deposit"
      /\ sent[q].nonce <= NextNonce
  BY <1>1 DEF IInv, RequestInv, Working, Hashed
<1>3. status'[key[q]] = "submitted" /\ txHash'[key[q]] = sent[q] /\ ~old'[key[q]]
  BY <1>1, <1>2 DEF SetRow, IInv, TypeOK
<1>4. NextNonce' = NextNonce
  BY <1>1 DEF NextNonce, accountVars
<1>5. RequestInv(q)'
  BY <1>1, <1>2, <1>3, <1>4 DEF RequestInv, Working, Hashed
<1>6. RowInv(key[q])'
  BY <1>1, <1>3 DEF RowInv
<1>7. ~replyLost => \A tx \in Live : key[tx.by] # key[q]
  BY <1>2, UnpaidRow
<1>8. QED
  <2>1. ~replyLost => sent[q] = txHash[key[q]] \/ \A tx \in Live : key[tx.by] # key[q]
    BY <1>7
  <2>2. pc[q] \in Working /\ pc[q] \notin Sends /\ Go(q, pc[q], "sending")
    BY <1>1 DEF Working, Sends
  <2>3. QED
    BY <1>1, <1>5, <1>6, <2>1, <2>2, WritesOwn

(* A request that was rejected without a lost reply moved no funds.        *)
LEMMA RejectStep ==
    ASSUME IInv, TypeOK', NEW q \in Requests, Reject(q)
    PROVE  IInv'
<1>1. /\ Go(q, "rejected", "replied") /\ pc[q] = "rejected" /\ pc'[q] = "replied"
      /\ SetRow(key[q], "submitted", NoTx)
      /\ UNCHANGED <<key, sent, candidate, replyLost, accountVars>>
  BY DEF Reject, Go, boundVars, IInv, TypeOK
<1>2. /\ key[q] \in IdempotencyKeys
      /\ txHash[key[q]] = sent[q] /\ sent[q] \in Tx /\ sent[q].by = q
  BY <1>1 DEF IInv, RequestInv, Hashed
<1>3. status'[key[q]] = "submitted" /\ txHash'[key[q]] = NoTx
  BY <1>1, <1>2 DEF SetRow, IInv, TypeOK
<1>4. RequestInv(q)'
  BY <1>1, <1>2 DEF RequestInv, Working, Hashed
<1>5. RowInv(key[q])'
  BY <1>1, <1>3 DEF RowInv
<1>6. ASSUME ~replyLost, NEW tx \in Live, key[tx.by] = key[q] PROVE FALSE
  <2>1. tx = sent[q]
    BY <1>2, <1>6 DEF IInv, LiveIsStored
  <2>2. tx \in Accepted
    BY DEF Live, Accepted, Succeeded, IsMined
  <2>3. QED
    BY <1>1, <1>2, <1>6, <2>1, <2>2 DEF IInv, SentOnce
<1>7. QED
  <2>1. ~replyLost => NoTx = txHash[key[q]] \/ \A tx \in Live : key[tx.by] # key[q]
    BY <1>6
  <2>2. pc[q] \in Working /\ Go(q, pc[q], "replied")
    BY <1>1 DEF Working, Hashed
  <2>3. QED
    BY <1>1, <1>4, <1>5, <2>1, <2>2, WritesOwn

LEMMA ConfirmStep ==
    ASSUME IInv, TypeOK', NEW q \in Requests, Confirm(q) \/ ConfirmReverted(q)
    PROVE  IInv'
<1>1. /\ Go(q, "confirming", "replied") /\ pc[q] = "confirming" /\ pc'[q] = "replied"
      /\ UNCHANGED <<key, sent, candidate, replyLost, accountVars>>
  BY DEF Confirm, ConfirmReverted, Go, boundVars, IInv, TypeOK
<1>2. /\ key[q] \in IdempotencyKeys
      /\ txHash[key[q]] = sent[q]
  BY <1>1 DEF IInv, RequestInv, Hashed
<1>3. RequestInv(q)'
  BY <1>1, <1>2 DEF RequestInv, Working, Hashed
<1>4. CASE Confirm(q)
  <2>1. SetRow(key[q], "confirmed", sent[q]) /\ Succeeded(sent[q])
    BY <1>4 DEF Confirm
  <2>2. status'[key[q]] = "confirmed" /\ txHash'[key[q]] = sent[q]
    BY <1>2, <2>1 DEF SetRow, IInv, TypeOK
  <2>3. Succeeded(sent[q])'
    BY <1>1, <2>1 DEF Succeeded, accountVars
  <2>4. RowInv(key[q])'
    BY <1>1, <2>2, <2>3 DEF RowInv, Succeeded
  <2>5. QED
    BY <1>1, <1>2, <1>3, <2>1, <2>4, WritesOwn DEF Working, Hashed
<1>5. CASE ConfirmReverted(q)
  <2>1. SetRow(key[q], "failed", txHash[key[q]]) /\ Reverted(sent[q])
    BY <1>5 DEF ConfirmReverted
  <2>2. status'[key[q]] = "failed" /\ txHash'[key[q]] = sent[q]
    BY <1>2, <2>1 DEF SetRow, IInv, TypeOK
  <2>3. Reverted(sent[q])'
    BY <1>1, <2>1 DEF Reverted, accountVars
  <2>4. RowInv(key[q])'
    BY <1>1, <2>2, <2>3 DEF RowInv, Reverted
  <2>5. QED
    BY <1>1, <1>3, <2>1, <2>4, WritesOwn DEF Working, Hashed
<1>6. QED
  BY <1>4, <1>5

LEMMA SendStep ==
    ASSUME IInv, TypeOK', NEW q \in Requests, Send(q) \/ SendReplyLost(q)
    PROVE  IInv'
<1>1. /\ pc[q] = "sending" /\ pc'[q] \in {"confirming", "rejected"}
      /\ mempool' = MempoolWith(sent[q]) /\ mined' = mined
      /\ UNCHANGED <<rowVars, key, sent, candidate>> /\ (replyLost => replyLost')
      /\ Others(q)
  BY DEF Send, SendReplyLost, Go, boundVars, IInv, TypeOK, Others
<1>2. /\ key[q] \in IdempotencyKeys
      /\ status[key[q]] = "submitted" /\ ~old[key[q]]
      /\ txHash[key[q]] = sent[q]
      /\ sent[q] \in Tx /\ sent[q].by = q /\ sent[q].kind = "deposit"
      /\ sent[q].nonce <= NextNonce /\ sent[q].nonce \in Nat
  BY <1>1, NonceType DEF IInv, RequestInv, Working, Hashed
<1>3. AccountStep({sent[q]})
  BY <1>1, <1>2, SentAccount DEF AccountStep
<1>4. RequestInv(q)'
  <2>1. sent[q].nonce <= NextNonce'
    BY <1>2, <1>3, NonceType DEF AccountStep
  <2>2. QED
    BY <1>1, <1>2, <2>1 DEF RequestInv, Working, Hashed, rowVars
<1>5. CASE pc'[q] = "rejected" => replyLost'
  BY <1>1, <1>2, <1>3, <1>4, <1>5, MovedOn DEF Working, Hashed, Sends
<1>6. CASE pc'[q] = "rejected" /\ ~replyLost'
  <2>1. ~SendSucceeds(sent[q])
    BY <1>6 DEF Send, SendReplyLost, Go, IInv, TypeOK
  <2>2. mempool' = mempool
    BY <1>1, <2>1 DEF SendSucceeds, MempoolWith
  <2>3. AccountStep({})
    BY <1>1, <2>2, AccountKept DEF accountVars
  <2>4. QED
    BY <1>1, <1>4, <2>3, MovedOn DEF Working, Hashed, Sends
<1>7. QED
  BY <1>5, <1>6

LEMMA PrepareStep ==
    ASSUME IInv, TypeOK', NEW q \in Requests, Approve(q) \/ Sign(q)
    PROVE  IInv'
<1> USE DEF boundVars, accountVars
<1>1. /\ pc[q] \in {"approving", "signing"} /\ pc'[q] \in {"approved", "storing"}
      /\ UNCHANGED <<rowVars, key, candidate, replyLost>> /\ mined' = mined
      /\ Others(q)
  BY DEF Approve, Sign, Go, IInv, TypeOK, Others
<1>2. /\ key[q] \in IdempotencyKeys
      /\ status[key[q]] = "submitted" /\ ~old[key[q]]
      /\ txHash[key[q]] = NoTx
  BY <1>1 DEF IInv, RequestInv, Working, Hashed
<1>3. /\ \A kind \in {"approve", "deposit"} :
             Signed(q, kind) \in Tx /\ Signed(q, kind).nonce = NextNonce
                 /\ Signed(q, kind).by = q /\ Signed(q, kind).kind = kind
      /\ NextNonce \in Nat
  BY SignedType, NonceType DEF Signed, IInv, AccountInv
<1>4. AccountStep({})
  <2>1. CASE Sign(q)
    BY <2>1, AccountKept DEF Sign
  <2>2. CASE Approve(q)
    <3>1. mempool' = mempool \cup {Signed(q, "approve")}
      BY <2>2 DEF Approve
    <3>2. AccountStep({t \in {Signed(q, "approve")} : t.kind = "deposit"})
      BY <1>1, <1>3, <3>1, NextAccepted
    <3>3. {t \in {Signed(q, "approve")} : t.kind = "deposit"} = {}
      BY <1>3
    <3>4. QED
      BY <3>2, <3>3
  <2>3. QED
    BY <2>1, <2>2
<1>5. RequestInv(q)'
  <2>1. pc'[q] = "storing" => sent'[q] = Signed(q, "deposit") /\ NextNonce' = NextNonce
    BY DEF Approve, Sign, Go, IInv, TypeOK, NextNonce
  <2>2. QED
    BY <1>1, <1>2, <1>3, <2>1 DEF RequestInv, Working, Hashed, rowVars
<1>6. QED
  BY <1>1, <1>4, <1>5, MovedOn DEF Working, Sends

(* The steps at which a request only moves on or ends.                     *)
LEMMA PlainStep ==
    ASSUME IInv, TypeOK', NEW q \in Requests, UNCHANGED <<rowVars, key, sent, candidate, accountVars>>,
           replyLost' = replyLost, NEW to \in {"replied", "signing"},
           pc[q] # "idle", to = "signing" => pc[q] = "approved",
           pc' = [pc EXCEPT ![q] = to]
    PROVE  IInv'
<1>1. Others(q) /\ pc'[q] = to
  BY DEF IInv, TypeOK, Others
<1>2. AccountStep({})
  BY AccountKept
<1>3. key[q] \in IdempotencyKeys
  BY DEF IInv, RequestInv
<1>4. RequestInv(q)'
  BY <1>1, <1>3 DEF IInv, RequestInv, Working, Hashed, rowVars
<1>5. /\ pc'[q] \in Working => pc[q] \in Working
      /\ pc[q] \in Sends => pc'[q] = "replied" /\ sent'[q] = sent[q]
  BY <1>1 DEF Working, Hashed, Sends
<1>6. QED
  BY <1>1, <1>2, <1>4, <1>5, MovedOn

LEMMA HandleStep ==
    ASSUME IInv, NEW q \in Requests, Handle(q) \/ Disturb(q)
    PROVE  IInv'
<1> USE DEF boundVars
<1>0. TypeOK'
  BY HandleType
<1>1. CASE Insert(q)
  <2>1. CASE UNCHANGED rowVars /\ Go(q, "inserting", "replied")
    BY <1>0, <1>1, <2>1, PlainStep DEF Insert, Go
  <2>2. CASE SetRow(key[q], "submitted", NoTx) /\ status[key[q]] = "absent"
             /\ Go(q, "inserting", "approving")
    BY <1>0, <1>1, <2>2, Taken DEF Insert, Go
  <2>3. QED
    BY <1>1, <2>1, <2>2 DEF Insert
<1>2. CASE Claim(q)
  <2>1. CASE UNCHANGED rowVars /\ Go(q, "claiming", "replied")
    BY <1>0, <1>2, <2>1, PlainStep DEF Claim, Go
  <2>2. CASE SetRow(key[q], "submitted", NoTx) /\ Resumable(key[q])
             /\ Go(q, "claiming", "approving")
    BY <1>0, <1>2, <2>2, Taken DEF Claim, Go
  <2>3. QED
    BY <1>2, <2>1, <2>2 DEF Claim
<1>3. CASE ApproveConfirmed(q)
  BY <1>0, <1>3, PlainStep DEF ApproveConfirmed, Go
<1>4. CASE SignFails(q)
  BY <1>0, <1>4, PlainStep DEF SignFails, Go
<1>5. CASE ApproveFails(q)
  BY <1>0, <1>5, PlainStep DEF ApproveFails, Go
<1>6. CASE TimesOut(q)
  BY <1>0, <1>6, PlainStep DEF TimesOut
<1>7. QED
  BY <1>0, <1>1, <1>2, <1>3, <1>4, <1>5, <1>6, PrepareStep, StoreStep, SendStep, RejectStep,
     ConfirmStep DEF Handle, Disturb
-----------------------------------------------------------------------------
(* The other steps.                                                        *)

LEMMA AcceptedIsSent ==
    ASSUME IInv, NEW tx \in Accepted \cup Live
    PROVE  /\ tx.by \in Requests /\ tx = sent[tx.by]
           /\ pc[tx.by] \in Sends /\ (pc[tx.by] = "rejected" => replyLost)
           /\ key[tx.by] \in IdempotencyKeys
<1>1. tx \in Accepted
  BY DEF Live, Accepted, Succeeded, IsMined
<1>2. QED
  BY <1>1 DEF IInv, SentOnce, Sends, RequestInv

(* Steps that write no row and move no candidate.                          *)
LEMMA RowsKept ==
    ASSUME IInv, UNCHANGED rowVars, AccountStep({}), candidate' \in {candidate, NoCandidate}
    PROVE  /\ \A k \in IdempotencyKeys : RowInv(k)'
           /\ CandidateInv'
<1>1. ASSUME NEW k \in IdempotencyKeys PROVE RowInv(k)'
  <2>1. RowInv(k) /\ txHash[k] \in Tx \cup {NoTx}
    BY DEF IInv, TypeOK
  <2>2. QED
    BY <2>1 DEF RowInv, AccountStep, rowVars
<1>2. CandidateInv'
  BY DEF IInv, CandidateInv, StillCandidate, rowVars
<1>3. QED
  BY <1>1, <1>2

LEMMA ReceiveStep ==
    ASSUME IInv, NEW q \in Requests, NEW k \in IdempotencyKeys, Receive(q, k)
    PROVE  IInv'
<1>1. /\ UNCHANGED <<rowVars, sent, candidate, replyLost, accountVars>>
      /\ Others(q) /\ pc[q] = "idle" /\ pc'[q] \in {"inserting", "claiming", "replied"}
      /\ key'[q] = k
  BY DEF Receive, IInv, TypeOK, Others, boundVars
<1>2. AccountStep({})
  BY <1>1, AccountKept
<1>3. ASSUME NEW r \in Requests PROVE RequestInv(r)'
  <2>1. CASE r = q
    BY <1>1, <2>1 DEF RequestInv, Working, Hashed
  <2>2. CASE r # q
    BY <1>1, <1>2, <2>2, RequestKept DEF Others, RowKept, rowVars, AccountStep
  <2>3. QED
    BY <2>1, <2>2
<1>4. OneWorks'
  <2>1. ASSUME NEW r \in Requests, NEW j \in IdempotencyKeys, Works(r, j)' PROVE Works(r, j)
    BY <1>1, <2>1 DEF Works, Others, Working, Hashed
  <2>2. QED
    BY <2>1 DEF OneWorks, IInv
<1>5. SentOnce'
  BY <1>1, <1>2, SentOnceKept DEF Sends
<1>6. LiveIsStored'
  <2>1. SUFFICES ASSUME ~replyLost', NEW tx \in Live' PROVE txHash'[key'[tx.by]] = tx
    BY DEF LiveIsStored
  <2>2. tx \in Live
    BY <1>2 DEF AccountStep
  <2>3. tx.by \in Requests /\ tx.by # q
    BY <1>1, <2>2, AcceptedIsSent DEF Sends
  <2>4. QED
    BY <1>1, <2>1, <2>2, <2>3 DEF IInv, LiveIsStored, Others, rowVars
<1>7. QED
  BY <1>1, <1>2, <1>3, <1>4, <1>5, <1>6, RowsKept, NextType DEF IInv, AccountStep, Next

(* Steps of the account alone.                                             *)
LEMMA AccountOnly ==
    ASSUME IInv, TypeOK', AccountStep({}),
           UNCHANGED <<rowVars, requestVars, candidate, replyLost>>
    PROVE  IInv'
<1>1. \A r \in Requests : RequestInv(r)'
  BY RequestKept DEF RowKept, rowVars, requestVars, AccountStep
<1>2. OneWorks'
  BY DEF IInv, OneWorks, Works, requestVars
<1>3. SentOnce'
  BY DEF IInv, SentOnce, requestVars, AccountStep
<1>4. LiveIsStored'
  BY DEF IInv, LiveIsStored, requestVars, rowVars, AccountStep
<1>5. QED
  BY <1>1, <1>2, <1>3, <1>4, RowsKept DEF IInv, AccountStep

LEMMA ChainStep ==
    ASSUME IInv, Transfer \/ \E tx \in mempool : Mine(tx)
    PROVE  IInv'
<1>1. TypeOK'
  BY NextType DEF Next
<1>2. ASSUME NEW tx \in mempool, Mine(tx) PROVE IInv'
  <2>1. MineAs(tx, Executes(tx)) /\ Executes(tx) \in BOOLEAN
    BY <1>2 DEF Mine, Executes
  <2>2. AccountStep({})
    BY <2>1, MinedAccount
  <2>3. QED
    BY <1>1, <1>2, <2>2, AccountOnly DEF Mine, boundVars
<1>3. CASE Transfer
  <2> DEFINE tx == [by |-> Payroll, kind |-> "transfer", nonce |-> NextNonce]
  <2>1. tx \in Tx
    BY SignedType DEF IInv, AccountInv
  <2>2. tx.nonce = NextNonce /\ tx.kind # "deposit"
    OBVIOUS
  <2>3. mempool' = mempool \cup {tx} /\ mined' = mined
    BY <1>3 DEF Transfer
  <2> HIDE DEF tx
  <2>4. AccountStep({t \in {tx} : t.kind = "deposit"})
    BY <2>1, <2>2, <2>3, NextAccepted
  <2>5. {t \in {tx} : t.kind = "deposit"} = {}
    BY <2>2
  <2>6. AccountStep({})
    BY <2>4, <2>5
  <2>7. QED
    BY <1>1, <1>3, <2>6, AccountOnly DEF Transfer
<1>4. QED
  BY <1>2, <1>3

LEMMA CrashStep ==
    ASSUME IInv, Crash
    PROVE  IInv'
<1>1. /\ UNCHANGED <<rowVars, key, sent, replyLost, accountVars>> /\ candidate' = NoCandidate
      /\ \A q \in Requests : pc'[q] = IF pc[q] = "idle" THEN "idle" ELSE "replied"
  BY DEF Crash, InProgress
<1>2. AccountStep({})
  BY <1>1, AccountKept
<1>3. \A q \in Requests : RequestInv(q)'
  BY <1>1 DEF IInv, RequestInv, Working, Hashed
<1>4. OneWorks'
  BY <1>1 DEF OneWorks, Works, Working, Hashed
<1>5. SentOnce'
  <2>1. SUFFICES ASSUME NEW tx \in Accepted'
                 PROVE  /\ tx.by \in Requests /\ tx = sent'[tx.by]
                        /\ pc'[tx.by] = "replied"
    BY DEF SentOnce
  <2>2. tx \in Accepted
    BY <1>2 DEF AccountStep
  <2>3. QED
    BY <1>1, <2>2, AcceptedIsSent DEF Sends
<1>6. LiveIsStored'
  BY <1>1, <1>2 DEF IInv, LiveIsStored, rowVars, AccountStep
<1>7. QED
  BY <1>1, <1>2, <1>3, <1>4, <1>5, <1>6, RowsKept, NextType DEF IInv, AccountStep, Next

(* Only a row without a request in progress ages.                          *)
LEMMA AgeStep ==
    ASSUME Prompt, IInv, NEW k \in IdempotencyKeys, Age(k)
    PROVE  IInv'
<1>1. /\ UNCHANGED <<status, txHash, requestVars, candidate, replyLost, accountVars>>
      /\ \A j \in IdempotencyKeys : j # k => RowKept(j)
      /\ old'[k]
      /\ \A q \in Requests : key[q] = k => pc[q] \notin Working
  BY DEF Age, InProgress, RowKept, IInv, TypeOK, boundVars, Working, Hashed
<1>2. AccountStep({})
  BY <1>1, AccountKept
<1>3. ASSUME NEW q \in Requests PROVE RequestInv(q)'
  <2>1. pc[q] \in Working => RowKept(key[q])
    BY <1>1 DEF IInv, RequestInv, Working, Hashed
  <2>2. QED
    BY <1>1, <1>2, <2>1, RequestKept DEF requestVars, AccountStep
<1>4. OneWorks'
  BY <1>1 DEF IInv, OneWorks, Works, requestVars
<1>5. ASSUME NEW j \in IdempotencyKeys PROVE RowInv(j)'
  <2>1. RowInv(j) /\ txHash[j] \in Tx \cup {NoTx}
    BY DEF IInv, TypeOK
  <2>2. QED
    BY <1>1, <1>2, <2>1 DEF RowInv, AccountStep
<1>6. CandidateInv'
  <2>1. candidate # NoCandidate => candidate.key \in IdempotencyKeys
    BY DEF IInv, TypeOK
  <2>2. QED
    BY <1>1, <2>1 DEF IInv, CandidateInv, StillCandidate, RowKept
<1>7. SentOnce'
  BY <1>1, <1>2 DEF IInv, SentOnce, requestVars, AccountStep
<1>8. LiveIsStored'
  BY <1>1, <1>2 DEF IInv, LiveIsStored, requestVars, AccountStep
<1>9. QED
  BY <1>2, <1>3, <1>4, <1>5, <1>6, <1>7, <1>8, NextType DEF IInv, AccountStep, Next

LEMMA ReadStep ==
    ASSUME IInv, NEW k \in IdempotencyKeys, ReconcileRead(k)
    PROVE  IInv'
<1>1. /\ UNCHANGED <<rowVars, requestVars, replyLost, accountVars>>
      /\ status[k] = "submitted" /\ old[k]
      /\ candidate' = [key |-> k, txHash |-> txHash[k]]
  BY DEF ReconcileRead, boundVars
<1>2. AccountStep({})
  BY <1>1, AccountKept
<1>3. \A r \in Requests : RequestInv(r)'
  BY <1>1, <1>2, RequestKept DEF RowKept, rowVars, requestVars, AccountStep
<1>4. OneWorks' /\ SentOnce' /\ LiveIsStored'
  BY <1>1, <1>2 DEF IInv, OneWorks, Works, SentOnce, LiveIsStored, requestVars, rowVars, AccountStep
<1>5. CandidateInv'
  BY <1>1 DEF CandidateInv, StillCandidate, rowVars
<1>6. ASSUME NEW j \in IdempotencyKeys PROVE RowInv(j)'
  <2>1. RowInv(j) /\ txHash[j] \in Tx \cup {NoTx}
    BY DEF IInv, TypeOK
  <2>2. QED
    BY <1>1, <1>2, <2>1 DEF RowInv, AccountStep, rowVars
<1>7. QED
  BY <1>2, <1>3, <1>4, <1>5, <1>6, NextType DEF IInv, AccountStep, Next, Reconcile

(* The row the reconciler settles is one nobody works on.                  *)
LEMMA SettleStep ==
    ASSUME IInv, ReconcileSettle
    PROVE  IInv'
<1> DEFINE c == candidate.key
<1>0. /\ UNCHANGED <<requestVars, replyLost, accountVars>> /\ candidate' = NoCandidate
      /\ candidate # NoCandidate
      /\ c \in IdempotencyKeys /\ status[c] = "submitted" /\ old[c]
      /\ txHash[c] = candidate.txHash
  BY DEF ReconcileSettle, IInv, TypeOK, CandidateInv, StillCandidate, boundVars
<1>1. TypeOK'
  BY NextType DEF Next, Reconcile
<1>2. AccountStep({})
  BY <1>0, AccountKept
<1>3. CASE UNCHANGED rowVars
  BY <1>0, <1>1, <1>2, <1>3, RowsKept, RequestKept
     DEF IInv, OneWorks, Works, SentOnce, LiveIsStored, RowKept, requestVars, rowVars, AccountStep
<1>4. CASE ReceiptStatus(txHash[c]) # "none" /\ SetRow(c, ReceiptStatus(txHash[c]), txHash[c])
  <2>1. /\ \A j \in IdempotencyKeys : j # c => RowKept(j)
        /\ txHash' = txHash
        /\ status'[c] = ReceiptStatus(txHash[c])
    BY <1>0, <1>4 DEF SetRow, RowKept, IInv, TypeOK
  <2>2. ASSUME NEW q \in Requests PROVE RequestInv(q)'
    <3>1. ~Works(q, c)
      BY <1>0, NoneWorks
    <3>2. pc[q] \in Working => RowKept(key[q])
      BY <2>1, <3>1 DEF Works, IInv, RequestInv, Working, Hashed
    <3>3. QED
      BY <1>0, <1>2, <3>2, RequestKept DEF requestVars, AccountStep
  <2>3. OneWorks' /\ SentOnce' /\ LiveIsStored'
    BY <1>0, <1>2, <2>1
       DEF IInv, OneWorks, Works, SentOnce, LiveIsStored, requestVars, AccountStep
  <2>4. ASSUME NEW j \in IdempotencyKeys PROVE RowInv(j)'
    <3>1. RowInv(j) /\ txHash[j] \in Tx \cup {NoTx}
      BY DEF IInv, TypeOK
    <3>2. CASE j # c
      BY <1>2, <2>1, <3>1, <3>2 DEF RowInv, AccountStep, RowKept
    <3>3. CASE j = c
      <4>1. /\ status'[j] = "confirmed" => Succeeded(txHash[j])
            /\ status'[j] = "failed" => Reverted(txHash[j])
            /\ status'[j] # "absent"
        BY <1>4, <2>1, <3>3 DEF ReceiptStatus
      <4>2. QED
        BY <1>2, <2>1, <3>1, <4>1 DEF RowInv, AccountStep
    <3>4. QED
      BY <3>2, <3>3
  <2>5. CandidateInv'
    BY <1>0 DEF CandidateInv
  <2>6. QED
    BY <1>1, <1>2, <2>2, <2>3, <2>4, <2>5 DEF IInv, AccountStep
<1>5. QED
  BY <1>0, <1>3, <1>4 DEF ReconcileSettle
-----------------------------------------------------------------------------
(* The invariant holds, and implies what the run checks.                   *)

LEMMA InitInv == Init => IInv
<1> SUFFICES ASSUME Init PROVE IInv
  OBVIOUS
<1>1. mempool = {} /\ mined = <<>> /\ Len(mined) = 0
  BY DEF Init, AccountInit
<1>2. mined \in Seq([tx : Tx, ok : BOOLEAN])
  BY <1>1
<1>3. TypeOK
  BY <1>1, <1>2, DepositsAssumption DEF Init, TypeOK
<1>4. Accepted = {} /\ Live = {}
  BY <1>1 DEF Accepted, Live, IsMined, Succeeded
<1>5. AccountInv
  BY <1>1, FS_EmptySet DEF AccountInv
<1>6. \A q \in Requests : RequestInv(q) /\ pc[q] \notin Working
  BY DEF Init, RequestInv, Working, Hashed
<1>7. \A k \in IdempotencyKeys : RowInv(k)
  BY DEF Init, RowInv
<1>8. QED
  BY <1>3, <1>4, <1>5, <1>6, <1>7
     DEF Init, IInv, OneWorks, Works, CandidateInv, SentOnce, LiveIsStored

LEMMA StepInv ==
    ASSUME Prompt
    PROVE  IInv /\ [Next]_vars => IInv'
<1> SUFFICES ASSUME IInv, [Next]_vars PROVE IInv'
  OBVIOUS
<1>1. CASE UNCHANGED vars
  <2>1. AccountStep({}) /\ TypeOK'
    BY <1>1, AccountKept
       DEF vars, IInv, TypeOK, rowVars, requestVars, tokenVars, boundVars, accountVars
  <2>2. QED
    BY <1>1, <2>1, AccountOnly DEF vars, boundVars
<1>2. CASE Next
  BY <1>2, ReceiveStep, HandleStep, CrashStep, AgeStep, ReadStep, SettleStep, ChainStep
     DEF Next, Reconcile
<1>3. QED
  BY <1>1, <1>2

LEMMA AtMostOne ==
    ASSUME NEW S, \A i, j \in S : i = j
    PROVE  Cardinality(S) <= 1
<1>1. CASE S = {}
  BY <1>1, FS_EmptySet
<1>2. ASSUME NEW i \in S PROVE Cardinality(S) = 1
  <2>1. S = {i}
    BY <1>2
  <2>2. QED
    BY <2>1, FS_Singleton
<1>3. QED
  BY <1>1, <1>2

LEMMA InvImplies == IInv => DepositsTrue
<1> SUFFICES ASSUME IInv PROVE DepositsTrue
  OBVIOUS
<1>1. ASSUME ~replyLost, NEW k \in IdempotencyKeys, NEW j \in DepositsOf(k)
      PROVE  mined[j].tx \in Live /\ txHash[k] = mined[j].tx
  <2>1. /\ j \in 1 .. Len(mined) /\ mined[j].ok
        /\ mined[j].tx.kind = "deposit" /\ key[mined[j].tx.by] = k
    BY <1>1 DEF DepositsOf
  <2>2. mined[j].tx \in Live
    BY <2>1, AccountTypes DEF IInv, Live, Succeeded
  <2>3. QED
    BY <1>1, <2>1, <2>2 DEF IInv, LiveIsStored
<1>2. OneDepositPerKey
  <2>1. SUFFICES ASSUME ~replyLost, NEW k \in IdempotencyKeys
                 PROVE  Cardinality(DepositsOf(k)) <= 1
    BY DEF OneDepositPerKey
  <2>2. \A i, j \in DepositsOf(k) : i = j
    <3>1. DepositsOf(k) \subseteq 1 .. Len(mined)
      BY DEF DepositsOf
    <3>2. QED
      BY <1>1, <2>1, <3>1, MinedOnce
  <2>3. QED
    BY <2>2, AtMostOne
<1>3. ConfirmedDepositPaid
  BY DEF IInv, RowInv, ConfirmedDepositPaid
<1>4. FailedDepositUnpaid
  <2>1. SUFFICES ASSUME ~replyLost, NEW k \in IdempotencyKeys, status[k] = "failed"
                 PROVE  /\ DepositsOf(k) = {}
                        /\ \A tx \in mempool : tx.kind = "deposit" => key[tx.by] # k
    BY DEF FailedDepositUnpaid
  <2>2. \A tx \in Live : key[tx.by] # k
    BY <2>1, UnpaidRow DEF IInv, RowInv
  <2>3. DepositsOf(k) = {}
    BY <1>1, <2>1, <2>2 DEF DepositsOf
  <2>4. \A tx \in mempool : tx.kind = "deposit" => tx \in Live
    BY AccountTypes DEF IInv, Live
  <2>5. QED
    BY <2>2, <2>3, <2>4
<1>5. QED
  BY <1>2, <1>3, <1>4 DEF IInv, DepositsTrue

(* However requests for the same key are retried, crash, time out and race *)
(* with each other, with the reconciler and with the payroll, and whatever *)
(* the node refuses, a key's deposit moves funds once, unless the node     *)
(* took one whose reply was lost; a row that says confirmed names a        *)
(* deposit that succeeded, and one that says failed may be retried.  This  *)
(* is so where every request ends within the 90 seconds of the lease.      *)
THEOREM DepositsAreTrue ==
    ASSUME Prompt
    PROVE  Spec => []DepositsTrue
<1>1. IInv /\ [Next]_vars => IInv'
  BY StepInv
<1>2. QED
  BY <1>1, InitInv, InvImplies, PTL DEF Spec

(* A row that is confirmed, and its transaction, never change again.       *)
LEMMA ConfirmedStays ==
    ASSUME Prompt, IInv, [Next]_vars, NEW k \in IdempotencyKeys, status[k] = "confirmed"
    PROVE  status'[k] = "confirmed" /\ txHash'[k] = txHash[k]
<1> USE DEF rowVars
<1>1. SUFFICES ASSUME Next, ~RowKept(k) PROVE FALSE
  BY DEF RowKept, vars
<1>2. ASSUME NEW j \in IdempotencyKeys, NEW new, NEW hash, SetRow(j, new, hash)
      PROVE  j = k
  BY <1>1, <1>2 DEF SetRow, RowKept, IInv, TypeOK
<1>3. ASSUME NEW q \in Requests, Handle(q) PROVE FALSE
  <2>1. pc[q] # "idle" => key[q] \in IdempotencyKeys
    BY DEF IInv, RequestInv
  <2>2. pc[q] \in Working => status[key[q]] = "submitted"
    BY DEF IInv, RequestInv
  <2>3. QED
    BY <1>1, <1>2, <1>3, <2>1, <2>2
       DEF Handle, Insert, Claim, Resumable, Approve, ApproveConfirmed, Sign, SignFails, Store,
           Send, Reject, Confirm, ConfirmReverted, Go, RowKept, Working, Hashed
<1>4. ASSUME NEW j \in IdempotencyKeys, Age(j) PROVE FALSE
  BY <1>1, <1>4 DEF Age, RowKept, IInv, TypeOK
<1>5. CASE ReconcileSettle
  <2>1. candidate.key \in IdempotencyKeys /\ status[candidate.key] = "submitted"
    BY <1>5 DEF ReconcileSettle, IInv, TypeOK, CandidateInv, StillCandidate
  <2>2. QED
    BY <1>1, <1>2, <1>5, <2>1 DEF ReconcileSettle, RowKept
<1>6. QED
  BY <1>1, <1>3, <1>4, <1>5
     DEF Next, Reconcile, Receive, Disturb, ApproveFails, SendReplyLost, TimesOut, Crash,
         ReconcileRead, Mine, Transfer, RowKept

(* What a client was told of a confirmed deposit stays true, whoever       *)
(* retries it.                                                             *)
THEOREM ConfirmedStaysConfirmed ==
    ASSUME Prompt
    PROVE  Spec => ConfirmedIsFinal
<1>1. IInv /\ [Next]_vars => IInv'
  BY StepInv
<1>2. IInv /\ [Next]_vars
      => [\A k \in IdempotencyKeys : status[k] = "confirmed" =>
             status'[k] = "confirmed" /\ txHash'[k] = txHash[k]]_vars
  BY ConfirmedStays
<1>3. QED
  BY <1>1, <1>2, InitInv, PTL DEF Spec, ConfirmedIsFinal
=============================================================================
