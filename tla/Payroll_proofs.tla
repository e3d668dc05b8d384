--------------------------- MODULE Payroll_proofs ---------------------------
(***************************************************************************)
(* Theorems about Payroll, for any number of items, runs, handlers, faults *)
(* and requests.                                                           *)
(***************************************************************************)
EXTENDS Payroll, FiniteSetTheorems, TLAPS

-----------------------------------------------------------------------------
(* The inductive invariant.                                                *)

(* Where a handler holds the lock.                                         *)
Critical == {"loading", "starting", "proving", "signing", "storing", "sending",
             "confirming", "finalizing", "returning", "throwing"}

(* Where its item has no transaction yet, and where it has one.            *)
Unprepared == {"starting", "proving", "signing", "storing"}
Sending == {"sending", "confirming"}

WorkerInv(w) ==
    /\ pc[w] # "idle" => task[w] \in Items
    /\ pc[w] \in Critical => lock = w
    /\ pc[w] \in Unprepared =>
           itemStatus[task[w]] \in {"pending", "proving"} /\ txHash[task[w]] = NoTx
    /\ pc[w] = "storing" =>
           prepared[w] \in Tx /\ prepared[w].item = task[w] /\ prepared[w].nonce <= NextNonce
    /\ pc[w] \in Sending =>
           /\ itemStatus[task[w]] \in {"pending", "proving", "submitted"}
           /\ txHash[task[w]] \in Tx /\ prepared[w] = txHash[task[w]]

NeverPaid(i) ==
    /\ \A tx \in mempool : tx.item # i
    /\ \A k \in 1 .. Len(mined) : mined[k].tx.item = i => ~mined[k].ok

ItemInv(i) ==
    /\ itemStatus[i] = "submitted" => txHash[i] # NoTx
    /\ txHash[i] # NoTx => txHash[i].item = i /\ txHash[i].nonce <= NextNonce
    /\ itemStatus[i] = "confirmed" => Succeeded(txHash[i])
    /\ itemStatus[i] = "failed" => NeverPaid(i)

(* The account's nonces are used once each and without gaps.               *)
AccountInv ==
    /\ IsFiniteSet(mempool)
    /\ \A tx \in mempool : Len(mined) <= tx.nonce /\ tx.nonce < NextNonce
    /\ \A tx, other \in mempool : tx.nonce = other.nonce => tx = other
    /\ \A k \in 1 .. Len(mined) : mined[k].tx.nonce = k - 1

(* The only transaction ever sent for an item is the one stored with it.   *)
OneTransaction ==
    /\ \A tx \in mempool : tx.item \in Items => tx = txHash[tx.item]
    /\ \A k \in 1 .. Len(mined) :
           mined[k].tx.item \in Items => mined[k].tx = txHash[mined[k].tx.item]

IInv ==
    /\ TypeOK
    /\ \A w \in Workers : WorkerInv(w)
    /\ \A i \in Items : ItemInv(i)
    /\ AccountInv
    /\ OneTransaction
    /\ RunNotSettledEarly

-----------------------------------------------------------------------------
(* Types.                                                                  *)

LEMMA BalanceType ==
    ASSUME TypeOK
    PROVE  Balance \in Nat /\ IsFiniteSet(Transfers)
<1>1. Len(mined) \in Nat /\ Transfers \subseteq 1 .. Len(mined)
  BY DEF TypeOK, Transfers
<1>2. IsFiniteSet(1 .. Len(mined))
  BY <1>1, FS_Interval
<1>3. QED
  BY <1>1, <1>2, FS_Subset, FS_CardinalityType DEF Balance

LEMMA NextNonceType ==
    ASSUME IInv
    PROVE  NextNonce \in Nat /\ Len(mined) \in Nat /\ Len(mined) <= NextNonce
<1>1. Len(mined) \in Nat /\ Cardinality(mempool) \in Nat
  BY FS_CardinalityType DEF IInv, TypeOK, AccountInv
<1>2. QED
  BY <1>1 DEF NextNonce

LEMMA AtWork ==
    ASSUME IInv, NEW w \in Workers, pc[w] # "idle"
    PROVE  task[w] \in Items /\ RunOf[task[w]] \in Runs
BY PayrollAssumption DEF IInv, WorkerInv

LEMMA RetryJobType ==
    ASSUME TypeOK, NEW i \in Items, RetryJob(i)
    PROVE  /\ job' \in [Items -> {"none", "created", "active", "completed", "failed"}]
           /\ retries' \in [Items -> 0 .. RetryLimit]
<1>1. RetryLimit \in Nat /\ retries \in [Items -> 0 .. RetryLimit]
  BY PayrollAssumption DEF TypeOK
<1>2. CASE retries[i] < RetryLimit
  <2>1. retries[i] + 1 \in 0 .. RetryLimit
    BY <1>1, <1>2
  <2>2. QED
    BY <1>1, <1>2, <2>1 DEF TypeOK, RetryJob
<1>3. CASE ~(retries[i] < RetryLimit)
  BY <1>1, <1>3 DEF TypeOK, RetryJob
<1>4. QED
  BY <1>2, <1>3

LEMMA EnqueueType ==
    ASSUME TypeOK, NEW runs
    PROVE  Enqueue(runs) \in [Items -> {"none", "created", "active", "completed", "failed"}]
BY DEF TypeOK, Enqueue

LEMMA WorkType ==
    ASSUME IInv, NEW w \in Workers, Work(w) \/ Disturb(w)
    PROVE  TypeOK'
<1> USE DEF dbVars, queueVars, workerVars, operatorVars, boundVars, accountVars, Go, SetItem,
            item, run, Fault
<1>0. TypeOK
  BY DEF IInv
<1>1. ASSUME NEW i \in Items, FetchJob(w, i) PROVE TypeOK'
  BY <1>0, <1>1 DEF FetchJob, TypeOK
<1>2. CASE TakeLock(w)
  BY <1>0, <1>2 DEF TakeLock, TypeOK
<1>3. CASE Load(w)
  <2>1. task[w] \in Items
    BY <1>3, AtWork DEF Load, LoadIdleRun, LoadSettled, LoadSubmitted, LoadHopeless, LoadNew
  <2>2. QED
    <3>1. CASE LoadIdleRun(w)
      BY <1>0, <1>3, <3>1 DEF Load, LoadIdleRun, TypeOK
    <3>2. CASE LoadSettled(w)
      BY <1>0, <1>3, <3>2 DEF Load, LoadSettled, TypeOK
    <3>3. CASE LoadSubmitted(w)
      BY <1>0, <1>3, <2>1, <3>3 DEF Load, LoadSubmitted, TypeOK
    <3>4. CASE LoadHopeless(w)
      BY <1>0, <1>3, <2>1, <3>4 DEF Load, LoadHopeless, TypeOK
    <3>5. CASE LoadNew(w)
      BY <1>0, <1>3, <3>5 DEF Load, LoadNew, TypeOK
    <3>6. QED
      BY <1>3, <3>1, <3>2, <3>3, <3>4, <3>5 DEF Load
<1>4. CASE Start(w)
  <2>1. task[w] \in Items /\ RunOf[task[w]] \in Runs
    BY <1>4, AtWork DEF Start
  <2>2. QED
    BY <1>0, <1>4, <2>1 DEF Start, RunsIfStartable, TypeOK
<1>5. CASE Prove(w)
  BY <1>0, <1>5, BalanceType DEF Prove, TypeOK
<1>6. CASE Sign(w)
  <2>1. task[w] \in Items
    BY <1>6, AtWork DEF Sign
  <2>2. [item |-> item(w), attempt |-> attempt[item(w)], nonce |-> NextNonce,
         snapshot |-> snapshot[w]] \in Tx
    BY <1>0, <2>1, NextNonceType DEF Tx, TypeOK
  <2>3. QED
    BY <1>0, <1>6, <2>2 DEF Sign, TypeOK
<1>7. CASE SignFails(w) \/ ProveFails(w)
  <2>1. task[w] \in Items
    BY <1>7, AtWork DEF SignFails, ProveFails
  <2>2. GiveUpAttempt(w)
    BY <1>7 DEF SignFails, ProveFails
  <2>3. /\ itemStatus' \in [Items -> {"pending", "proving", "submitted", "confirmed", "failed"}]
        /\ pc' \in [Workers -> {"idle", "waiting", "loading", "starting", "proving", "signing",
                                "storing", "sending", "confirming", "finalizing", "returning",
                                "throwing"}]
        /\ UNCHANGED <<runStatus, attempt, txHash>>
    BY <1>0, <2>1, <2>2 DEF GiveUpAttempt, TypeOK
  <2>4. faults' \in Nat
    BY <1>0, <1>7 DEF SignFails, ProveFails, TypeOK
  <2>5. QED
    BY <1>0, <1>7, <2>3, <2>4 DEF SignFails, ProveFails, TypeOK
<1>8. CASE Store(w)
  <2>1. task[w] \in Items /\ prepared[w] \in Tx
    BY <1>8, AtWork DEF Store, IInv, WorkerInv
  <2>2. QED
    BY <1>0, <1>8, <2>1 DEF Store, TypeOK
<1>9. CASE Send(w) \/ SendFails(w)
  <2>1. task[w] \in Items /\ prepared[w] \in Tx
    BY <1>9, AtWork DEF Send, SendFails, IInv, WorkerInv, Sending
  <2>2. MempoolWith(prepared[w]) \subseteq Tx
    BY <1>0, <2>1 DEF MempoolWith, TypeOK
  <2>3. mempool' \subseteq Tx
    BY <1>0, <1>9, <2>2 DEF Send, SendFails, TypeOK
  <2>4. QED
    <3>1. CASE Send(w)
      BY <1>0, <2>1, <2>3, <3>1 DEF Send, SetSubmitted, TypeOK
    <3>2. CASE SendFails(w)
      BY <1>0, <2>1, <2>3, <3>2 DEF SendFails, SetSubmitted, TypeOK
    <3>3. QED
      BY <1>9, <3>1, <3>2
<1>10. CASE Confirm(w) \/ ConfirmReverted(w) \/ ConfirmTimesOut(w)
  <2>1. task[w] \in Items
    BY <1>10, AtWork DEF Confirm, ConfirmReverted, ConfirmTimesOut
  <2>2. QED
    <3>1. CASE Confirm(w)
      BY <1>0, <2>1, <3>1 DEF Confirm, TypeOK
    <3>2. CASE ConfirmReverted(w)
      BY <1>0, <2>1, <3>2 DEF ConfirmReverted, TypeOK
    <3>3. CASE ConfirmTimesOut(w)
      BY <1>0, <2>1, <3>3 DEF ConfirmTimesOut, TypeOK
    <3>4. QED
      BY <1>10, <3>1, <3>2, <3>3
<1>11. CASE Finalize(w)
  <2>1. task[w] \in Items /\ RunOf[task[w]] \in Runs
    BY <1>11, AtWork DEF Finalize
  <2>2. QED
    BY <1>0, <1>11, <2>1 DEF Finalize, FinalizedStatus, TypeOK
<1>12. CASE Return(w)
  BY <1>0, <1>12 DEF Return, Release, TypeOK
<1>13. CASE Throw(w)
  <2>1. task[w] \in Items
    BY <1>13, AtWork DEF Throw
  <2>2. /\ job' \in [Items -> {"none", "created", "active", "completed", "failed"}]
        /\ retries' \in [Items -> 0 .. RetryLimit]
    BY <1>0, <1>13, <2>1, RetryJobType DEF Throw, TypeOK
  <2>3. QED
    BY <1>0, <1>13, <2>2 DEF Throw, Release, TypeOK
<1>14. QED
  BY <1>1, <1>2, <1>3, <1>4, <1>5, <1>6, <1>7, <1>8, <1>9, <1>10, <1>11, <1>12, <1>13
     DEF Work, Disturb

LEMMA NextType ==
    ASSUME IInv, Next
    PROVE  TypeOK'
<1> USE DEF dbVars, queueVars, workerVars, operatorVars, boundVars, accountVars, Fault
<1>0. TypeOK
  BY DEF IInv
<1>1. ASSUME NEW w \in Workers, Work(w) \/ Disturb(w) PROVE TypeOK'
  BY <1>1, WorkType
<1>2. ASSUME NEW i \in Items, ExpireOrphan(i) PROVE TypeOK'
  BY <1>0, <1>2, RetryJobType DEF ExpireOrphan, TypeOK
<1>3. ASSUME NEW i \in Items, ExpireSlow(i) PROVE TypeOK'
  BY <1>0, <1>3, RetryJobType DEF ExpireSlow, TypeOK
<1>4. CASE Crash
  BY <1>0, <1>4, EnqueueType DEF Crash, TypeOK
<1>5. ASSUME NEW op \in Operations, NEW r \in Runs, Request(op, r) PROVE TypeOK'
  BY <1>0, <1>5 DEF Request, Requests, TypeOK
<1>6. CASE WriteRequest
  BY <1>0, <1>6 DEF WriteRequest, Requests, TypeOK
<1>7. CASE EnqueueRequest
  BY <1>0, <1>7, EnqueueType DEF EnqueueRequest, TypeOK
<1>8. ASSUME NEW tx \in mempool, Mine(tx) PROVE TypeOK'
  <2>1. tx \in Tx
    BY <1>0 DEF TypeOK
  <2>2. ProofHolds(tx) \in BOOLEAN
    BY DEF ProofHolds
  <2>3. [tx |-> tx, ok |-> ProofHolds(tx)] \in [tx : Tx, ok : BOOLEAN]
    BY <2>1, <2>2
  <2>4. /\ mempool' \subseteq Tx
        /\ mined' \in Seq([tx : Tx, ok : BOOLEAN])
    BY <1>0, <1>8, <2>3 DEF Mine, MineAs, TypeOK
  <2>5. QED
    BY <1>0, <1>8, <2>4 DEF Mine, TypeOK
<1>9. CASE Deposit
  <2>1. [item |-> NoItem, attempt |-> deposits, nonce |-> NextNonce, snapshot |-> 0] \in Tx
    BY <1>0, NextNonceType DEF Tx, TypeOK
  <2>2. QED
    BY <1>0, <1>9, <2>1 DEF Deposit, TypeOK
<1>10. QED
  BY <1>1, <1>2, <1>3, <1>4, <1>5, <1>6, <1>7, <1>8, <1>9 DEF Next

-----------------------------------------------------------------------------
(* The lock: no two handlers are past it.                                  *)

LEMMA Alone ==
    ASSUME IInv, NEW w \in Workers, pc[w] \in Critical, NEW v \in Workers, v # w
    PROVE  pc[v] \notin Critical
BY DEF IInv, WorkerInv

(* So what the holder of the lock does leaves the others as they are.      *)
LEMMA OthersKept ==
    ASSUME IInv, NEW v \in Workers, pc[v] \notin Critical, pc'[v] = pc[v], task'[v] = task[v]
    PROVE  WorkerInv(v)'
BY DEF IInv, WorkerInv, Critical, Unprepared, Sending

(* Where the rows are not touched, a handler that does not move either     *)
(* keeps its part of the invariant.                                        *)
LEMMA StillKept ==
    ASSUME IInv, NEW v \in Workers, UNCHANGED <<itemStatus, txHash, lock>>,
           pc'[v] = pc[v], task'[v] = task[v], prepared'[v] = prepared[v],
           NextNonce' \in Nat, NextNonce <= NextNonce'
    PROVE  WorkerInv(v)'
<1>1. WorkerInv(v) /\ NextNonce \in Nat
  BY NextNonceType DEF IInv
<1>2. prepared[v] \in Tx => prepared[v].nonce \in Nat
  BY DEF Tx
<1>3. QED
  BY <1>1, <1>2 DEF WorkerInv
-----------------------------------------------------------------------------
(* The account.                                                            *)

LEMMA AccountTypes ==
    ASSUME IInv
    PROVE  /\ \A tx \in mempool : tx \in Tx /\ tx.nonce \in Nat
           /\ \A k \in 1 .. Len(mined) : mined[k].tx \in Tx /\ mined[k].ok \in BOOLEAN
<1>1. \A tx \in mempool : tx \in Tx
  BY DEF IInv, TypeOK
<1>2. \A tx \in Tx : tx.nonce \in Nat
  BY DEF Tx
<1>3. \A k \in 1 .. Len(mined) : mined[k] \in [tx : Tx, ok : BOOLEAN]
  <2> DEFINE Receipt == [tx : Tx, ok : BOOLEAN]
  <2>1. mined \in Seq(Receipt)
    BY DEF IInv, TypeOK
  <2> HIDE DEF Receipt
  <2>2. \A k \in 1 .. Len(mined) : mined[k] \in Receipt
    BY <2>1
  <2>3. QED
    BY <2>2 DEF Receipt
<1>4. QED
  BY <1>1, <1>2, <1>3

LEMMA AccountKept ==
    ASSUME IInv, UNCHANGED accountVars
    PROVE  AccountInv' /\ NextNonce' = NextNonce
BY DEF IInv, AccountInv, NextNonce, accountVars

LEMMA AddedToMempool ==
    ASSUME IInv, NEW tx \in Tx, Accepts(tx), Len(mined) <= tx.nonce, tx.nonce <= NextNonce,
           mempool' = mempool \cup {tx}, mined' = mined
    PROVE  AccountInv' /\ NextNonce' = NextNonce + 1
<1>1. tx \notin mempool
  BY DEF Accepts
<1>2. IsFiniteSet(mempool') /\ Cardinality(mempool') = Cardinality(mempool) + 1
  BY <1>1, FS_AddElement DEF IInv, AccountInv
<1>3. Cardinality(mempool) \in Nat /\ Len(mined) \in Nat /\ tx.nonce \in Nat
  BY FS_CardinalityType DEF IInv, AccountInv, TypeOK, Tx
<1>4. NextNonce' = NextNonce + 1 /\ NextNonce \in Nat
  BY <1>2, <1>3 DEF NextNonce
<1>5. \A other \in mempool' : Len(mined) <= other.nonce /\ other.nonce < NextNonce'
  <2>1. \A other \in mempool :
            other.nonce \in Nat /\ Len(mined) <= other.nonce /\ other.nonce < NextNonce
    BY AccountTypes DEF IInv, AccountInv
  <2>2. QED
    BY <2>1, <1>3, <1>4
<1>6. \A one, other \in mempool' : one.nonce = other.nonce => one = other
  BY DEF IInv, AccountInv, Accepts
<1>7. QED
  BY <1>2, <1>4, <1>5, <1>6 DEF IInv, AccountInv

LEMMA SentAccount ==
    ASSUME IInv, NEW tx \in Tx, tx.nonce <= NextNonce,
           mempool' \in {mempool, MempoolWith(tx)}, mined' = mined
    PROVE  /\ AccountInv'
           /\ NextNonce' \in Nat /\ NextNonce <= NextNonce'
           /\ mempool \subseteq mempool' /\ mempool' \subseteq mempool \cup {tx}
<1>0. NextNonce \in Nat
  BY NextNonceType
<1>1. CASE mempool' = mempool
  BY <1>0, <1>1, AccountKept DEF accountVars
<1>2. CASE ~NonceTooLow(tx) /\ Accepts(tx) /\ mempool' = mempool \cup {tx}
  <2>1. Len(mined) <= tx.nonce
    BY <1>2, NextNonceType DEF NonceTooLow, Tx
  <2>2. QED
    BY <1>0, <1>2, <2>1, AddedToMempool
<1>3. QED
  BY <1>1, <1>2 DEF MempoolWith

LEMMA MinedAccount ==
    ASSUME IInv, NEW tx \in mempool, NEW ok \in BOOLEAN, MineAs(tx, ok)
    PROVE  /\ AccountInv'
           /\ NextNonce' = NextNonce
           /\ Len(mined') = Len(mined) + 1
           /\ \A k \in 1 .. Len(mined) : mined'[k] = mined[k]
           /\ mined'[Len(mined) + 1] = [tx |-> tx, ok |-> ok]
<1>1. IsFiniteSet(mempool') /\ Cardinality(mempool') = Cardinality(mempool) - 1
  BY FS_RemoveElement DEF IInv, AccountInv, MineAs
<1>2. Cardinality(mempool) \in Nat /\ Len(mined) \in Nat
  BY FS_CardinalityType DEF IInv, AccountInv, TypeOK
<1>3. /\ Len(mined') = Len(mined) + 1
      /\ \A k \in 1 .. Len(mined) : mined'[k] = mined[k]
      /\ mined'[Len(mined) + 1] = [tx |-> tx, ok |-> ok]
  BY DEF IInv, TypeOK, MineAs
<1>4. NextNonce' = NextNonce /\ NextNonce \in Nat
  BY <1>1, <1>2, <1>3 DEF NextNonce
<1>5. \A other \in mempool' : Len(mined) + 1 <= other.nonce /\ other.nonce < NextNonce
  <2>1. SUFFICES ASSUME NEW other \in mempool'
                 PROVE  Len(mined) + 1 <= other.nonce /\ other.nonce < NextNonce
    OBVIOUS
  <2>2. /\ other \in mempool /\ other # tx
        /\ tx.nonce = Len(mined)
    BY DEF MineAs
  <2>3. /\ other.nonce \in Nat /\ Len(mined) <= other.nonce /\ other.nonce < NextNonce
        /\ other.nonce # Len(mined)
    BY <2>2, AccountTypes DEF IInv, AccountInv
  <2>4. QED
    BY <1>2, <2>3
<1>6. \A k \in 1 .. Len(mined') : mined'[k].tx.nonce = k - 1
  <2>1. \A k \in 1 .. Len(mined) : mined[k].tx.nonce = k - 1
    BY DEF IInv, AccountInv
  <2>2. mined'[Len(mined) + 1].tx.nonce = Len(mined)
    BY <1>3 DEF MineAs
  <2>3. QED
    BY <1>2, <1>3, <2>1, <2>2
<1>7. \A one, other \in mempool' : one.nonce = other.nonce => one = other
  BY DEF IInv, AccountInv, MineAs
<1>8. QED
  BY <1>1, <1>3, <1>4, <1>5, <1>6, <1>7 DEF AccountInv

(* A mined nonce tells its transaction, and no pending one has it.         *)
LEMMA MinedOnce ==
    ASSUME IInv
    PROVE  /\ \A k, m \in 1 .. Len(mined) : mined[k].tx = mined[m].tx => k = m
           /\ \A k \in 1 .. Len(mined) : mined[k].tx \notin mempool
<1>1. \A k, m \in 1 .. Len(mined) : mined[k].tx = mined[m].tx => k = m
  <2>1. \A k \in 1 .. Len(mined) : mined[k].tx.nonce = k - 1
    BY DEF IInv, AccountInv
  <2>2. \A k, m \in 1 .. Len(mined) : k - 1 = m - 1 => k = m
    OBVIOUS
  <2>3. QED
    BY <2>1, <2>2
<1>2. ASSUME NEW k \in 1 .. Len(mined), mined[k].tx \in mempool PROVE FALSE
  <2>1. Len(mined) <= mined[k].tx.nonce /\ mined[k].tx.nonce = k - 1
    BY <1>2 DEF IInv, AccountInv
  <2>2. QED
    BY <2>1, NextNonceType
<1>3. QED
  BY <1>1, <1>2
-----------------------------------------------------------------------------
(* The items.                                                              *)

LEMMA UnpreparedNeverPaid ==
    ASSUME IInv, NEW i \in Items, txHash[i] = NoTx
    PROVE  NeverPaid(i)
BY AccountTypes, NoTxAssumption DEF IInv, OneTransaction, NeverPaid

LEMMA RevertedNeverPaid ==
    ASSUME IInv, NEW i \in Items, Reverted(txHash[i])
    PROVE  NeverPaid(i)
<1>1. PICK k \in 1 .. Len(mined) : mined[k].tx = txHash[i] /\ ~mined[k].ok
  BY DEF Reverted
<1>2. ASSUME NEW tx \in mempool, tx.item = i PROVE FALSE
  BY <1>1, <1>2, MinedOnce DEF IInv, OneTransaction
<1>3. ASSUME NEW m \in 1 .. Len(mined), mined[m].tx.item = i PROVE ~mined[m].ok
  BY <1>1, <1>3, MinedOnce DEF IInv, OneTransaction
<1>4. QED
  BY <1>2, <1>3 DEF NeverPaid

LEMMA ItemsKept ==
    ASSUME IInv, UNCHANGED <<itemStatus, txHash, accountVars>>
    PROVE  (\A i \in Items : ItemInv(i)') /\ AccountInv' /\ OneTransaction'
<1>1. AccountInv' /\ NextNonce' = NextNonce
  BY AccountKept
<1>2. QED
  BY <1>1 DEF IInv, ItemInv, OneTransaction, NeverPaid, Succeeded, accountVars

(* A change of one item's status that its transaction allows.              *)
Justified(i, status) ==
    \/ status \in {"pending", "proving"}
    \/ status = "submitted" /\ txHash[i] # NoTx
    \/ status = "confirmed" /\ Succeeded(txHash[i])
    \/ status = "failed" /\ NeverPaid(i)

LEMMA StatusWritten ==
    ASSUME IInv, NEW i \in Items, NEW status, Justified(i, status),
           itemStatus' = [itemStatus EXCEPT ![i] = status], UNCHANGED <<txHash, accountVars>>
    PROVE  (\A j \in Items : ItemInv(j)') /\ AccountInv' /\ OneTransaction'
<1>1. AccountInv' /\ NextNonce' = NextNonce
  BY AccountKept
<1>2. ASSUME NEW j \in Items PROVE ItemInv(j)'
  <2>1. itemStatus'[j] = IF j = i THEN status ELSE itemStatus[j]
    BY DEF IInv, TypeOK
  <2>2. QED
    BY <1>1, <2>1 DEF IInv, ItemInv, Justified, NeverPaid, Succeeded, accountVars
<1>3. QED
  BY <1>1, <1>2 DEF IInv, OneTransaction, accountVars

(* A run is not settled while one of its items is worked on, so a change   *)
(* of that item's status cannot reopen a settled run.                      *)
LEMMA RunsKept ==
    ASSUME IInv, NEW i \in Items, itemStatus[i] \notin settled, NEW status,
           itemStatus' = [itemStatus EXCEPT ![i] = status],
           \A r \in Runs : runStatus'[r] \in {"complete", "failed"} => runStatus'[r] = runStatus[r]
    PROVE  RunNotSettledEarly'
<1>1. \A j \in Items : j # i => itemStatus'[j] = itemStatus[j]
  BY DEF IInv, TypeOK
<1>2. ASSUME NEW r \in Runs, runStatus'[r] \in {"complete", "failed"}, NEW j \in ItemsOf(r)
      PROVE  itemStatus'[j] \in settled
  <2>1. \A m \in ItemsOf(r) : itemStatus[m] \in settled
    BY <1>2 DEF IInv, RunNotSettledEarly
  <2>2. QED
    BY <1>1, <2>1 DEF ItemsOf
<1>3. QED
  BY <1>2 DEF RunNotSettledEarly, ItemsOf

-----------------------------------------------------------------------------
(* One step.                                                               *)

(* A step that writes no item: of one handler, with all the others where   *)
(* they are.                                                               *)
LEMMA LocalStep ==
    ASSUME IInv, TypeOK', NEW w \in Workers, WorkerInv(w)', RunNotSettledEarly',
           UNCHANGED <<itemStatus, txHash, accountVars>>,
           \A v \in Workers : v # w =>
               /\ pc'[v] = pc[v] /\ task'[v] = task[v] /\ prepared'[v] = prepared[v]
               /\ lock' = lock \/ pc[v] \notin Critical
    PROVE  IInv'
<1>1. (\A i \in Items : ItemInv(i)') /\ AccountInv' /\ OneTransaction'
  BY ItemsKept
<1>2. NextNonce' \in Nat /\ NextNonce <= NextNonce'
  BY AccountKept, NextNonceType
<1>3. ASSUME NEW v \in Workers, v # w PROVE WorkerInv(v)'
  BY <1>2, <1>3, StillKept, OthersKept
<1>4. QED
  BY <1>1, <1>3 DEF IInv

(* A step in which the holder of the lock writes its item's status.        *)
LEMMA StatusStep ==
    ASSUME IInv, TypeOK', NEW w \in Workers, pc[w] \in Critical, WorkerInv(w)',
           NEW status, Justified(task[w], status),
           itemStatus[task[w]] \notin settled,
           itemStatus' = [itemStatus EXCEPT ![task[w]] = status],
           UNCHANGED <<txHash, accountVars>>,
           \A v \in Workers : v # w => pc'[v] = pc[v] /\ task'[v] = task[v],
           \A r \in Runs : runStatus'[r] \in {"complete", "failed"} => runStatus'[r] = runStatus[r]
    PROVE  IInv'
<1>1. task[w] \in Items
  BY AtWork DEF Critical
<1>2. (\A i \in Items : ItemInv(i)') /\ AccountInv' /\ OneTransaction'
  BY <1>1, StatusWritten
<1>3. RunNotSettledEarly'
  BY <1>1, RunsKept
<1>4. ASSUME NEW v \in Workers, v # w PROVE WorkerInv(v)'
  BY <1>4, Alone, OthersKept
<1>5. QED
  BY <1>2, <1>3, <1>4 DEF IInv

(* What a handler needs of its item where it is about to send.             *)
LEMMA WhileSending ==
    ASSUME IInv, NEW w \in Workers, pc[w] \in Sending
    PROVE  /\ task[w] \in Items /\ pc[w] \in Critical
           /\ itemStatus[task[w]] \notin settled
           /\ prepared[w] = txHash[task[w]] /\ txHash[task[w]] \in Tx
           /\ prepared[w].item = task[w] /\ prepared[w].nonce <= NextNonce
<1>1. task[w] \in Items /\ pc[w] \in Critical
  BY AtWork DEF Sending, Critical
<1>2. /\ itemStatus[task[w]] \in {"pending", "proving", "submitted"}
      /\ txHash[task[w]] \in Tx /\ prepared[w] = txHash[task[w]]
  BY DEF IInv, WorkerInv
<1>3. ItemInv(task[w]) /\ txHash[task[w]] # NoTx
  BY <1>1, <1>2, NoTxAssumption DEF IInv
<1>4. QED
  BY <1>1, <1>2, <1>3 DEF ItemInv, settled

LEMMA WhileUnprepared ==
    ASSUME IInv, NEW w \in Workers, pc[w] \in Unprepared
    PROVE  /\ task[w] \in Items /\ pc[w] \in Critical
           /\ itemStatus[task[w]] \notin settled
           /\ txHash[task[w]] = NoTx /\ NeverPaid(task[w])
<1>1. task[w] \in Items /\ pc[w] \in Critical
  BY AtWork DEF Unprepared, Critical
<1>2. itemStatus[task[w]] \in {"pending", "proving"} /\ txHash[task[w]] = NoTx
  BY DEF IInv, WorkerInv
<1>3. QED
  BY <1>1, <1>2, UnpreparedNeverPaid DEF settled

LEMMA FetchJobInv ==
    ASSUME IInv, TypeOK', NEW w \in Workers, NEW i \in Items, FetchJob(w, i)
    PROVE  IInv'
<1> USE DEF dbVars, queueVars, workerVars
<1>1. /\ UNCHANGED <<itemStatus, txHash, runStatus, lock, prepared, accountVars>>
      /\ pc' = [pc EXCEPT ![w] = "waiting"] /\ task' = [task EXCEPT ![w] = i]
  BY DEF FetchJob
<1>2. WorkerInv(w)'
  BY <1>1 DEF IInv, TypeOK, WorkerInv, Critical, Unprepared, Sending
<1>3. RunNotSettledEarly'
  BY <1>1 DEF IInv, RunNotSettledEarly
<1>4. \A v \in Workers : v # w => pc'[v] = pc[v] /\ task'[v] = task[v] /\ prepared'[v] = prepared[v]
  BY <1>1 DEF IInv, TypeOK
<1>5. QED
  BY <1>1, <1>2, <1>3, <1>4, LocalStep

LEMMA TakeLockInv ==
    ASSUME IInv, TypeOK', NEW w \in Workers, TakeLock(w)
    PROVE  IInv'
<1> USE DEF dbVars, queueVars, workerVars
<1>1. /\ UNCHANGED <<itemStatus, txHash, runStatus, task, prepared, accountVars>>
      /\ pc[w] = "waiting" /\ pc' = [pc EXCEPT ![w] = "loading"]
      /\ lock = NoWorker /\ lock' = w
  BY DEF TakeLock, Go
<1>2. WorkerInv(w)'
  BY <1>1 DEF IInv, TypeOK, WorkerInv, Critical, Unprepared, Sending
<1>3. RunNotSettledEarly'
  BY <1>1 DEF IInv, RunNotSettledEarly
<1>4. \A v \in Workers : v # w => pc'[v] = pc[v] /\ pc[v] \notin Critical
  BY <1>1, PayrollAssumption DEF IInv, TypeOK, WorkerInv
<1>5. QED
  BY <1>1, <1>2, <1>3, <1>4, LocalStep

LEMMA LoadInv ==
    ASSUME IInv, TypeOK', NEW w \in Workers, Load(w)
    PROVE  IInv'
<1> USE DEF dbVars, Go
<1>1. /\ UNCHANGED <<lock, task, accountVars>>
      /\ pc[w] = "loading" /\ task[w] \in Items /\ pc[w] \in Critical /\ lock = w
  <2>1. UNCHANGED <<lock, task, accountVars>> /\ pc[w] = "loading"
    BY DEF Load, LoadIdleRun, LoadSettled, LoadSubmitted, LoadHopeless, LoadNew
  <2>2. QED
    BY <2>1, AtWork DEF IInv, WorkerInv, Critical
<1>2. \A v \in Workers : v # w => pc'[v] = pc[v] /\ prepared'[v] = prepared[v]
  BY DEF IInv, TypeOK, Load, LoadIdleRun, LoadSettled, LoadSubmitted, LoadHopeless, LoadNew
<1>3. CASE LoadIdleRun(w) \/ LoadSettled(w)
  <2>1. pc'[w] \in {"returning", "finalizing"} /\ UNCHANGED <<runStatus, itemStatus, txHash>>
    BY <1>3 DEF IInv, TypeOK, LoadIdleRun, LoadSettled
  <2>2. WorkerInv(w)'
    BY <1>1, <2>1 DEF WorkerInv, Critical, Unprepared, Sending
  <2>3. RunNotSettledEarly'
    BY <2>1 DEF IInv, RunNotSettledEarly
  <2>4. QED
    BY <1>1, <1>2, <2>1, <2>2, <2>3, LocalStep
<1>4. CASE LoadSubmitted(w)
  <2>1. /\ pc'[w] = "sending" /\ UNCHANGED <<runStatus, itemStatus, txHash>>
        /\ prepared'[w] = txHash[task[w]]
        /\ itemStatus[task[w]] \in {"pending", "proving", "submitted"}
        /\ itemStatus[task[w]] = "submitted" \/ txHash[task[w]] # NoTx
    BY <1>1, <1>4 DEF IInv, TypeOK, LoadSubmitted, HasTransaction, item, settled
  <2>2. txHash[task[w]] \in Tx
    BY <1>1, <2>1 DEF IInv, TypeOK, ItemInv
  <2>3. WorkerInv(w)'
    BY <1>1, <2>1, <2>2 DEF WorkerInv, Critical, Unprepared, Sending
  <2>4. RunNotSettledEarly'
    BY <2>1 DEF IInv, RunNotSettledEarly
  <2>5. QED
    BY <1>1, <1>2, <2>1, <2>3, <2>4, LocalStep
<1>5. CASE LoadHopeless(w)
  <2>1. /\ pc'[w] = "finalizing" /\ UNCHANGED <<runStatus, txHash>>
        /\ itemStatus' = [itemStatus EXCEPT ![task[w]] = "failed"]
        /\ itemStatus[task[w]] \notin settled /\ txHash[task[w]] = NoTx
    BY <1>1, <1>5 DEF IInv, TypeOK, LoadHopeless, SetItem, HasTransaction, item
  <2>2. WorkerInv(w)'
    BY <1>1, <2>1 DEF WorkerInv, Critical, Unprepared, Sending
  <2>3. Justified(task[w], "failed")
    BY <1>1, <2>1, UnpreparedNeverPaid DEF Justified
  <2>4. QED
    BY <1>1, <1>2, <2>1, <2>2, <2>3, StatusStep
<1>6. CASE LoadNew(w)
  <2>1. /\ pc'[w] = "starting" /\ UNCHANGED <<runStatus, itemStatus, txHash>>
        /\ itemStatus[task[w]] \in {"pending", "proving"} /\ txHash[task[w]] = NoTx
    BY <1>1, <1>6 DEF IInv, TypeOK, LoadNew, HasTransaction, item, settled
  <2>2. WorkerInv(w)'
    BY <1>1, <2>1 DEF WorkerInv, Critical, Unprepared, Sending
  <2>3. RunNotSettledEarly'
    BY <2>1 DEF IInv, RunNotSettledEarly
  <2>4. QED
    BY <1>1, <1>2, <2>1, <2>2, <2>3, LocalStep
<1>7. QED
  BY <1>3, <1>4, <1>5, <1>6 DEF Load

LEMMA StartInv ==
    ASSUME IInv, TypeOK', NEW w \in Workers, Start(w)
    PROVE  IInv'
<1> USE DEF dbVars, workerVars, Go, item, run
<1>1. pc[w] = "starting" /\ pc[w] \in Unprepared /\ lock = w
  BY DEF Start, Unprepared, IInv, WorkerInv, Critical
<1>2. /\ UNCHANGED <<txHash, lock, task, prepared, accountVars>>
      /\ pc' = [pc EXCEPT ![w] = "proving"]
      /\ itemStatus' = [itemStatus EXCEPT ![task[w]] = "proving"]
      /\ runStatus' = [runStatus EXCEPT ![RunOf[task[w]]] = RunsIfStartable(@)]
  BY DEF Start
<1>3. /\ task[w] \in Items /\ pc[w] \in Critical
      /\ itemStatus[task[w]] \notin settled /\ txHash[task[w]] = NoTx
  BY <1>1, WhileUnprepared
<1>4. WorkerInv(w)'
  <2>1. pc'[w] = "proving" /\ itemStatus'[task[w]] = "proving"
    BY <1>2, <1>3 DEF IInv, TypeOK
  <2>2. QED
    BY <1>1, <1>2, <1>3, <2>1 DEF WorkerInv, Critical, Unprepared, Sending
<1>5. \A r \in Runs : runStatus'[r] \in {"complete", "failed"} => runStatus'[r] = runStatus[r]
  BY <1>2 DEF RunsIfStartable, IInv, TypeOK
<1>6. \A v \in Workers : v # w => pc'[v] = pc[v] /\ task'[v] = task[v]
  BY <1>2 DEF IInv, TypeOK
<1>7. Justified(task[w], "proving")
  BY DEF Justified
<1>8. QED
  BY <1>2, <1>3, <1>4, <1>5, <1>6, <1>7, StatusStep

LEMMA ProveSignInv ==
    ASSUME IInv, TypeOK', NEW w \in Workers, Prove(w) \/ Sign(w)
    PROVE  IInv'
<1> USE DEF dbVars, workerVars, Go, item
<1>1. /\ pc[w] \in Unprepared /\ lock = w
      /\ UNCHANGED <<runStatus, itemStatus, txHash, lock, task, accountVars>>
  BY DEF Prove, Sign, Unprepared, IInv, WorkerInv, Critical
<1>2. \A v \in Workers : v # w => pc'[v] = pc[v] /\ prepared'[v] = prepared[v]
  BY DEF Prove, Sign, IInv, TypeOK
<1>3. task[w] \in Items /\ itemStatus[task[w]] \in {"pending", "proving"} /\ txHash[task[w]] = NoTx
  BY <1>1, WhileUnprepared DEF IInv, WorkerInv
<1>4. WorkerInv(w)'
  <2>1. CASE Prove(w)
    <3>1. pc'[w] = "signing"
      BY <2>1 DEF Prove, IInv, TypeOK
    <3>2. QED
      BY <1>1, <1>3, <3>1 DEF WorkerInv, Critical, Unprepared, Sending
  <2>2. CASE Sign(w)
    <3>1. /\ pc'[w] = "storing"
          /\ prepared'[w] = [item |-> task[w], attempt |-> attempt[task[w]],
                             nonce |-> NextNonce, snapshot |-> snapshot[w]]
      BY <2>2 DEF Sign, IInv, TypeOK
    <3>2. prepared'[w] \in Tx /\ prepared'[w].item = task[w] /\ prepared'[w].nonce = NextNonce
      <4>1. attempt[task[w]] \in Nat /\ snapshot[w] \in Nat /\ NextNonce \in Nat
        BY <1>3, NextNonceType DEF IInv, TypeOK
      <4>2. QED
        BY <1>3, <3>1, <4>1 DEF Tx
    <3>3. NextNonce' = NextNonce /\ NextNonce <= NextNonce
      BY <1>1, AccountKept, NextNonceType
    <3>4. QED
      BY <1>1, <1>3, <3>1, <3>2, <3>3 DEF WorkerInv, Critical, Unprepared, Sending
  <2>3. QED
    BY <2>1, <2>2
<1>5. RunNotSettledEarly'
  BY <1>1 DEF IInv, RunNotSettledEarly
<1>6. QED
  BY <1>1, <1>2, <1>4, <1>5, LocalStep

LEMMA GiveUpInv ==
    ASSUME IInv, TypeOK', NEW w \in Workers, SignFails(w) \/ ProveFails(w)
    PROVE  IInv'
<1> USE DEF dbVars, workerVars
<1>1. /\ pc[w] \in Unprepared /\ GiveUpAttempt(w)
      /\ UNCHANGED <<lock, task, prepared, accountVars>>
  BY DEF SignFails, ProveFails, Unprepared
<1>2. PICK status \in {"failed", "pending"} :
          /\ itemStatus' = [itemStatus EXCEPT ![task[w]] = status]
          /\ UNCHANGED <<runStatus, txHash>>
          /\ \/ pc' = [pc EXCEPT ![w] = "finalizing"]
             \/ pc' = [pc EXCEPT ![w] = "throwing"]
  BY <1>1 DEF GiveUpAttempt, SetItem, item
<1>3. /\ task[w] \in Items /\ pc[w] \in Critical
      /\ itemStatus[task[w]] \notin settled /\ NeverPaid(task[w])
  BY <1>1, WhileUnprepared
<1>4. WorkerInv(w)'
  <2>1. pc'[w] \in {"finalizing", "throwing"} /\ lock = w
    BY <1>2, <1>3 DEF IInv, TypeOK, WorkerInv
  <2>2. QED
    BY <1>1, <1>3, <2>1 DEF WorkerInv, Critical, Unprepared, Sending
<1>5. \A v \in Workers : v # w => pc'[v] = pc[v] /\ task'[v] = task[v]
  BY <1>1, <1>2 DEF IInv, TypeOK
<1>6. Justified(task[w], status)
  BY <1>3 DEF Justified
<1>7. QED
  BY <1>1, <1>2, <1>3, <1>4, <1>5, <1>6, StatusStep

LEMMA StoreInv ==
    ASSUME IInv, TypeOK', NEW w \in Workers, Store(w)
    PROVE  IInv'
<1> USE DEF dbVars, workerVars, Go, item
<1>1. /\ pc[w] = "storing" /\ pc[w] \in Unprepared /\ lock = w
      /\ pc' = [pc EXCEPT ![w] = "sending"]
      /\ itemStatus' = [itemStatus EXCEPT ![task[w]] = "submitted"]
      /\ txHash' = [txHash EXCEPT ![task[w]] = prepared[w]]
      /\ UNCHANGED <<runStatus, lock, task, prepared, accountVars>>
  BY DEF Store, Unprepared, IInv, WorkerInv, Critical
<1>2. /\ task[w] \in Items /\ pc[w] \in Critical
      /\ itemStatus[task[w]] \notin settled /\ txHash[task[w]] = NoTx /\ NeverPaid(task[w])
  BY <1>1, WhileUnprepared
<1>3. /\ prepared[w] \in Tx /\ prepared[w] # NoTx
      /\ prepared[w].item = task[w] /\ prepared[w].nonce <= NextNonce
  BY <1>1, NoTxAssumption DEF IInv, WorkerInv
<1>4. itemStatus'[task[w]] = "submitted" /\ txHash'[task[w]] = prepared[w] /\ pc'[w] = "sending"
  BY <1>1, <1>2 DEF IInv, TypeOK
<1>5. \A j \in Items : j # task[w] => itemStatus'[j] = itemStatus[j] /\ txHash'[j] = txHash[j]
  BY <1>1 DEF IInv, TypeOK
<1>6. AccountInv' /\ NextNonce' = NextNonce
  BY <1>1, AccountKept
<1>7. ASSUME NEW v \in Workers PROVE WorkerInv(v)'
  <2>1. CASE v = w
    BY <1>1, <1>2, <1>3, <1>4, <2>1 DEF WorkerInv, Critical, Unprepared, Sending
  <2>2. CASE v # w
    <3>1. pc'[v] = pc[v] /\ task'[v] = task[v]
      BY <1>1, <2>2 DEF IInv, TypeOK
    <3>2. pc[v] \notin Critical
      BY <1>2, <2>2, Alone
    <3>3. QED
      BY <3>1, <3>2, OthersKept
  <2>3. QED
    BY <2>1, <2>2
<1>8. ASSUME NEW j \in Items PROVE ItemInv(j)'
  <2>1. CASE j = task[w]
    BY <1>3, <1>4, <1>6, <2>1 DEF ItemInv
  <2>2. CASE j # task[w]
    BY <1>1, <1>5, <1>6, <2>2 DEF IInv, ItemInv, NeverPaid, Succeeded, accountVars
  <2>3. QED
    BY <2>1, <2>2
<1>9. OneTransaction'
  <2>1. /\ \A tx \in mempool : tx.item # task[w]
        /\ \A k \in 1 .. Len(mined) : mined[k].tx.item # task[w]
    BY <1>2, AccountTypes, NoTxAssumption DEF IInv, OneTransaction
  <2>2. QED
    BY <1>1, <1>5, <2>1 DEF IInv, OneTransaction, accountVars
<1>10. RunNotSettledEarly'
  BY <1>1, <1>2, RunsKept
<1>11. QED
  BY <1>6, <1>7, <1>8, <1>9, <1>10 DEF IInv

LEMMA SendInv ==
    ASSUME IInv, TypeOK', NEW w \in Workers, Send(w) \/ SendFails(w)
    PROVE  IInv'
<1> USE DEF dbVars, workerVars, Go, item
<1> DEFINE tx == prepared[w]
<1>1. /\ pc[w] \in Sending
      /\ itemStatus' = [itemStatus EXCEPT ![task[w]] = "submitted"]
      /\ txHash' = [txHash EXCEPT ![task[w]] = tx]
      /\ mempool' \in {mempool, MempoolWith(tx)} /\ mined' = mined
      /\ UNCHANGED <<runStatus, lock, task, prepared>>
  BY DEF Send, SendFails, SetSubmitted, Sending
<1>2. /\ task[w] \in Items /\ pc[w] \in Critical
      /\ itemStatus[task[w]] \notin settled
      /\ tx = txHash[task[w]] /\ tx \in Tx /\ tx # NoTx
      /\ tx.item = task[w] /\ tx.nonce <= NextNonce
  BY <1>1, WhileSending, NoTxAssumption
<1>3. txHash' = txHash
  BY <1>1, <1>2 DEF IInv, TypeOK
<1>4. \A j \in Items : itemStatus'[j] = IF j = task[w] THEN "submitted" ELSE itemStatus[j]
  BY <1>1 DEF IInv, TypeOK
<1>5. /\ pc'[w] \in {"confirming", "throwing"} /\ lock = w
      /\ \A v \in Workers : v # w => pc'[v] = pc[v]
  BY <1>2 DEF Send, SendFails, IInv, TypeOK, WorkerInv
<1> HIDE DEF tx
<1>6. /\ AccountInv'
      /\ NextNonce' \in Nat /\ NextNonce <= NextNonce' /\ NextNonce \in Nat
      /\ mempool \subseteq mempool' /\ mempool' \subseteq mempool \cup {tx}
  BY <1>1, <1>2, SentAccount, NextNonceType
<1>7. ASSUME NEW v \in Workers PROVE WorkerInv(v)'
  <2>1. CASE v = w
    BY <1>1, <1>2, <1>3, <1>4, <1>5, <2>1 DEF WorkerInv, Critical, Unprepared, Sending, tx
  <2>2. CASE v # w
    BY <1>1, <1>2, <1>5, <2>2, Alone, OthersKept
  <2>3. QED
    BY <2>1, <2>2
<1>8. ASSUME NEW j \in Items PROVE ItemInv(j)'
  <2>1. ItemInv(j) /\ (txHash[j] # NoTx => txHash[j].nonce \in Nat)
    BY DEF IInv, TypeOK, Tx
  <2>2. txHash'[j] # NoTx => txHash'[j].item = j /\ txHash'[j].nonce <= NextNonce'
    BY <1>3, <1>6, <2>1 DEF ItemInv
  <2>3. CASE j = task[w]
    BY <1>2, <1>3, <1>4, <2>2, <2>3 DEF ItemInv
  <2>4. CASE j # task[w]
    <3>1. itemStatus'[j] = itemStatus[j]
      BY <1>4, <2>4
    <3>2. NeverPaid(j) => NeverPaid(j)'
      BY <1>1, <1>2, <1>6, <2>4 DEF NeverPaid
    <3>3. Succeeded(txHash[j]) => Succeeded(txHash[j])'
      BY <1>1, <1>3 DEF Succeeded
    <3>4. QED
      BY <1>3, <2>1, <2>2, <3>1, <3>2, <3>3 DEF ItemInv
  <2>5. QED
    BY <2>3, <2>4
<1>9. OneTransaction'
  BY <1>1, <1>2, <1>3, <1>6 DEF IInv, OneTransaction
<1>10. RunNotSettledEarly'
  BY <1>1, <1>2, RunsKept
<1>11. QED
  BY <1>6, <1>7, <1>8, <1>9, <1>10 DEF IInv

LEMMA ConfirmInv ==
    ASSUME IInv, TypeOK', NEW w \in Workers,
           Confirm(w) \/ ConfirmReverted(w) \/ ConfirmTimesOut(w)
    PROVE  IInv'
<1> USE DEF dbVars, workerVars, Go, item
<1>1. /\ pc[w] \in Sending
      /\ UNCHANGED <<runStatus, txHash, lock, task, prepared, accountVars>>
      /\ \/ pc' = [pc EXCEPT ![w] = "finalizing"]
         \/ pc' = [pc EXCEPT ![w] = "throwing"]
  BY DEF Confirm, ConfirmReverted, ConfirmTimesOut, SetItem, Sending
<1>2. /\ task[w] \in Items /\ pc[w] \in Critical
      /\ itemStatus[task[w]] \notin settled
      /\ prepared[w] = txHash[task[w]] /\ txHash[task[w]] \in Tx
  BY <1>1, WhileSending
<1>3. PICK status \in {"confirmed", "failed", "submitted"} :
          /\ itemStatus' = [itemStatus EXCEPT ![task[w]] = status]
          /\ Justified(task[w], status)
  BY <1>2, RevertedNeverPaid, NoTxAssumption
     DEF Confirm, ConfirmReverted, ConfirmTimesOut, SetItem, Justified
<1>4. /\ pc'[w] \in {"finalizing", "throwing"} /\ lock = w
      /\ \A v \in Workers : v # w => pc'[v] = pc[v] /\ task'[v] = task[v]
  BY <1>1, <1>2 DEF IInv, TypeOK, WorkerInv
<1>5. WorkerInv(w)'
  BY <1>1, <1>2, <1>4 DEF WorkerInv, Critical, Unprepared, Sending
<1>6. QED
  BY <1>1, <1>2, <1>3, <1>4, <1>5, StatusStep

LEMMA EndInv ==
    ASSUME IInv, TypeOK', NEW w \in Workers, Finalize(w) \/ Return(w) \/ Throw(w)
    PROVE  IInv'
<1> USE DEF dbVars, workerVars, Go
<1>1. /\ pc[w] \in Critical /\ task[w] \in Items /\ lock = w
      /\ UNCHANGED <<itemStatus, txHash, task, prepared, accountVars>>
      /\ \A v \in Workers : v # w => pc'[v] = pc[v]
  <2>1. pc[w] \in Critical /\ UNCHANGED <<itemStatus, txHash, task, prepared, accountVars>>
    BY DEF Finalize, Return, Throw, Critical
  <2>2. \A v \in Workers : v # w => pc'[v] = pc[v]
    BY DEF Finalize, Return, Throw, IInv, TypeOK
  <2>3. QED
    BY <2>1, <2>2, AtWork DEF IInv, WorkerInv, Critical
<1>2. WorkerInv(w)'
  <2>1. (pc'[w] = "returning" /\ lock' = w) \/ pc'[w] = "idle"
    BY <1>1 DEF Finalize, Return, Throw, IInv, TypeOK
  <2>2. QED
    BY <1>1, <2>1 DEF WorkerInv, Critical, Unprepared, Sending
<1>3. RunNotSettledEarly'
  <2>1. CASE Return(w) \/ Throw(w)
    BY <1>1, <2>1 DEF Return, Throw, IInv, RunNotSettledEarly
  <2>2. CASE Finalize(w)
    <3>1. CASE \E i \in ItemsOf(run(w)) : IsOutstanding(i)
      BY <1>1, <2>2, <3>1 DEF Finalize, IInv, RunNotSettledEarly
    <3>2. CASE ~\E i \in ItemsOf(run(w)) : IsOutstanding(i)
      <4>1. \A r \in Runs : r # run(w) => runStatus'[r] = runStatus[r]
        BY <2>2, <3>2 DEF Finalize, IInv, TypeOK
      <4>2. \A i \in ItemsOf(run(w)) : itemStatus[i] \in settled
        BY <3>2 DEF IsOutstanding, IInv, TypeOK, active, settled, ItemsOf
      <4>3. QED
        BY <1>1, <4>1, <4>2 DEF IInv, RunNotSettledEarly
    <3>3. QED
      BY <3>1, <3>2
  <2>3. QED
    BY <2>1, <2>2
<1>4. \A v \in Workers : v # w => pc[v] \notin Critical
  BY <1>1, Alone
<1>5. QED
  BY <1>1, <1>2, <1>3, <1>4, LocalStep

(* A step of the queue, the operator or a crash: no item is written and    *)
(* the handlers stay where they are, or are all gone.                      *)
LEMMA OutsideStep ==
    ASSUME IInv, TypeOK', UNCHANGED <<itemStatus, txHash, accountVars>>, RunNotSettledEarly',
           \/ UNCHANGED <<pc, task, prepared, lock>>
           \/ pc' = [w \in Workers |-> "idle"]
    PROVE  IInv'
<1>1. (\A i \in Items : ItemInv(i)') /\ AccountInv' /\ OneTransaction'
  BY ItemsKept
<1>2. NextNonce' \in Nat /\ NextNonce <= NextNonce'
  BY AccountKept, NextNonceType
<1>3. CASE UNCHANGED <<pc, task, prepared, lock>>
  BY <1>1, <1>2, <1>3, StillKept DEF IInv
<1>4. CASE pc' = [w \in Workers |-> "idle"]
  <2>1. ASSUME NEW w \in Workers PROVE WorkerInv(w)'
    BY <1>4 DEF WorkerInv, Critical, Unprepared, Sending
  <2>2. QED
    BY <1>1, <2>1 DEF IInv
<1>5. QED
  BY <1>3, <1>4

LEMMA MineInv ==
    ASSUME IInv, TypeOK', NEW tx \in mempool, Mine(tx)
    PROVE  IInv'
<1> DEFINE ok == ProofHolds(tx)
<1>1. MineAs(tx, ok) /\ ok \in BOOLEAN
  BY DEF Mine, ProofHolds
<1>2. UNCHANGED <<runStatus, itemStatus, txHash, pc, task, prepared, lock>>
  BY DEF Mine, dbVars, workerVars
<1> HIDE DEF ok
<1>3. /\ AccountInv' /\ NextNonce' = NextNonce
      /\ Len(mined') = Len(mined) + 1
      /\ \A k \in 1 .. Len(mined) : mined'[k] = mined[k]
      /\ mined'[Len(mined) + 1] = [tx |-> tx, ok |-> ok]
  BY <1>1, MinedAccount
<1>4. NextNonce \in Nat /\ Len(mined) \in Nat
  BY NextNonceType
<1>5. \A k \in 1 .. Len(mined') : k \in 1 .. Len(mined) \/ k = Len(mined) + 1
  BY <1>3, <1>4
<1>6. 1 .. Len(mined) \subseteq 1 .. Len(mined')
  BY <1>3, <1>4
<1>7. mempool' \subseteq mempool /\ tx \in mempool
  BY <1>1 DEF MineAs
<1>8. ASSUME NEW w \in Workers PROVE WorkerInv(w)'
  BY <1>2, <1>3, <1>4, StillKept
<1>9. ASSUME NEW i \in Items PROVE ItemInv(i)'
  <2>1. Succeeded(txHash[i]) => Succeeded(txHash[i])'
    BY <1>2, <1>3, <1>6 DEF Succeeded
  <2>2. NeverPaid(i) => NeverPaid(i)'
    <3>1. SUFFICES ASSUME NeverPaid(i), NEW k \in 1 .. Len(mined'), mined'[k].tx.item = i
                   PROVE  ~mined'[k].ok
      BY <1>7 DEF NeverPaid
    <3>2. tx.item # i
      BY <3>1 DEF NeverPaid
    <3>3. QED
      BY <1>3, <1>5, <3>1, <3>2 DEF NeverPaid
  <2>3. QED
    BY <1>2, <1>3, <2>1, <2>2 DEF IInv, ItemInv
<1>10. OneTransaction'
  <2>1. \A k \in 1 .. Len(mined') :
            mined'[k].tx.item \in Items => mined'[k].tx = txHash[mined'[k].tx.item]
    BY <1>3, <1>5 DEF IInv, OneTransaction
  <2>2. QED
    BY <1>2, <1>7, <2>1 DEF IInv, OneTransaction
<1>11. RunNotSettledEarly'
  BY <1>2 DEF IInv, RunNotSettledEarly
<1>12. QED
  BY <1>3, <1>8, <1>9, <1>10, <1>11 DEF IInv

LEMMA DepositInv ==
    ASSUME IInv, TypeOK', Deposit
    PROVE  IInv'
<1> DEFINE tx == [item |-> NoItem, attempt |-> deposits, nonce |-> NextNonce, snapshot |-> 0]
<1>1. /\ mempool' = mempool \cup {tx} /\ mined' = mined
      /\ UNCHANGED <<runStatus, itemStatus, txHash, pc, task, prepared, lock>>
  BY DEF Deposit, dbVars, workerVars
<1>2. NextNonce \in Nat /\ Len(mined) <= NextNonce
  BY NextNonceType
<1>3. tx \in Tx /\ tx.nonce = NextNonce /\ tx.item \notin Items
  BY <1>2, PayrollAssumption DEF Tx, IInv, TypeOK
<1> HIDE DEF tx
<1>4. Accepts(tx)
  <2>1. \A other \in mempool : other.nonce \in Nat /\ other.nonce < NextNonce
    BY AccountTypes DEF IInv, AccountInv
  <2>2. QED
    BY <1>2, <1>3, <2>1 DEF Accepts
<1>5. AccountInv' /\ NextNonce' = NextNonce + 1
  BY <1>1, <1>2, <1>3, <1>4, AddedToMempool
<1>6. ASSUME NEW w \in Workers PROVE WorkerInv(w)'
  BY <1>1, <1>2, <1>5, StillKept
<1>7. ASSUME NEW i \in Items PROVE ItemInv(i)'
  <2>1. ItemInv(i) /\ (txHash[i] # NoTx => txHash[i].nonce \in Nat)
    BY DEF IInv, TypeOK, Tx
  <2>2. txHash'[i] # NoTx => txHash'[i].item = i /\ txHash'[i].nonce <= NextNonce'
    BY <1>1, <1>2, <1>5, <2>1 DEF ItemInv
  <2>3. NeverPaid(i) => NeverPaid(i)'
    BY <1>1, <1>3 DEF NeverPaid
  <2>4. QED
    BY <1>1, <2>1, <2>2, <2>3 DEF ItemInv, Succeeded
<1>8. OneTransaction'
  BY <1>1, <1>3 DEF IInv, OneTransaction
<1>9. RunNotSettledEarly'
  BY <1>1 DEF IInv, RunNotSettledEarly
<1>10. QED
  BY <1>5, <1>6, <1>7, <1>8, <1>9 DEF IInv

LEMMA InitInv == Init => IInv
<1>1. SUFFICES ASSUME Init PROVE IInv
  OBVIOUS
<1>2. TypeOK
  <2>1. <<>> \in Seq([tx : Tx, ok : BOOLEAN])
    OBVIOUS
  <2>2. QED
    BY <1>1, <2>1, PayrollAssumption DEF Init, AccountInit, TypeOK
<1>3. mempool = {} /\ mined = <<>>
  BY <1>1 DEF Init, AccountInit
<1>4. AccountInv /\ OneTransaction
  BY <1>3, FS_EmptySet DEF AccountInv, OneTransaction
<1>5. \A w \in Workers : WorkerInv(w)
  BY <1>1 DEF Init, WorkerInv, Critical, Unprepared, Sending
<1>6. \A i \in Items : ItemInv(i)
  BY <1>1 DEF Init, ItemInv
<1>7. RunNotSettledEarly
  BY <1>1 DEF Init, RunNotSettledEarly
<1>8. QED
  BY <1>2, <1>4, <1>5, <1>6, <1>7 DEF IInv

LEMMA NextInv == IInv /\ [Next]_vars => IInv'
<1>1. SUFFICES ASSUME IInv, [Next]_vars PROVE IInv'
  OBVIOUS
<1>2. CASE Next
  <2> USE DEF dbVars, workerVars
  <2>1. TypeOK'
    BY <1>1, <1>2, NextType
  <2>2. ASSUME NEW w \in Workers, Work(w) \/ Disturb(w) PROVE IInv'
    BY <1>1, <2>1, <2>2, FetchJobInv, TakeLockInv, LoadInv, StartInv, ProveSignInv, GiveUpInv,
       StoreInv, SendInv, ConfirmInv, EndInv
       DEF Work, Disturb
  <2>3. ASSUME NEW i \in Items, ExpireOrphan(i) \/ ExpireSlow(i) PROVE IInv'
    <3>1. UNCHANGED <<runStatus, itemStatus, txHash, accountVars, pc, task, prepared, lock>>
      BY <2>3 DEF ExpireOrphan, ExpireSlow
    <3>2. RunNotSettledEarly'
      BY <1>1, <3>1 DEF IInv, RunNotSettledEarly
    <3>3. QED
      BY <1>1, <2>1, <3>1, <3>2, OutsideStep
  <2>4. CASE Crash
    <3>1. UNCHANGED <<runStatus, itemStatus, txHash, accountVars>> /\ pc' = [w \in Workers |-> "idle"]
      BY <2>4 DEF Crash
    <3>2. RunNotSettledEarly'
      BY <1>1, <3>1 DEF IInv, RunNotSettledEarly
    <3>3. QED
      BY <1>1, <2>1, <3>1, <3>2, OutsideStep
  <2>5. ASSUME NEW op \in Operations, NEW r \in Runs, Request(op, r) PROVE IInv'
    <3>1. UNCHANGED <<runStatus, itemStatus, txHash, accountVars, pc, task, prepared, lock>>
      BY <2>5 DEF Request
    <3>2. RunNotSettledEarly'
      BY <1>1, <3>1 DEF IInv, RunNotSettledEarly
    <3>3. QED
      BY <1>1, <2>1, <3>1, <3>2, OutsideStep
  <2>6. CASE WriteRequest
    <3>1. UNCHANGED <<itemStatus, txHash, accountVars, pc, task, prepared, lock>>
      BY <2>6 DEF WriteRequest
    <3>2. \A r \in Runs : runStatus'[r] \in {"complete", "failed"} => runStatus'[r] = runStatus[r]
      BY <1>1, <2>6 DEF WriteRequest, IInv, TypeOK
    <3>3. RunNotSettledEarly'
      BY <1>1, <3>1, <3>2 DEF IInv, RunNotSettledEarly
    <3>4. QED
      BY <1>1, <2>1, <3>1, <3>3, OutsideStep
  <2>7. CASE EnqueueRequest
    <3>1. UNCHANGED <<runStatus, itemStatus, txHash, accountVars, pc, task, prepared, lock>>
      BY <2>7 DEF EnqueueRequest
    <3>2. RunNotSettledEarly'
      BY <1>1, <3>1 DEF IInv, RunNotSettledEarly
    <3>3. QED
      BY <1>1, <2>1, <3>1, <3>2, OutsideStep
  <2>8. ASSUME NEW tx \in mempool, Mine(tx) PROVE IInv'
    BY <1>1, <2>1, <2>8, MineInv
  <2>9. CASE Deposit
    BY <1>1, <2>1, <2>9, DepositInv
  <2>10. QED
    BY <1>2, <2>2, <2>3, <2>4, <2>5, <2>6, <2>7, <2>8, <2>9 DEF Next
<1>3. CASE UNCHANGED vars
  <2>1. TypeOK' /\ RunNotSettledEarly'
    BY <1>1, <1>3 DEF vars, dbVars, queueVars, workerVars, operatorVars, boundVars, accountVars,
                      IInv, TypeOK, RunNotSettledEarly
  <2>2. QED
    BY <1>1, <1>3, <2>1, OutsideStep DEF vars, dbVars, workerVars
<1>4. QED
  BY <1>1, <1>2, <1>3

(* The invariant holds of every state a payroll reaches.                   *)
LEMMA Invariance == Spec => []IInv
BY InitInv, NextInv, PTL DEF Spec

-----------------------------------------------------------------------------
(* How often an item was paid.                                             *)

LEMMA PaidBySucceeded ==
    IInv => \A i \in Items : Paid(i) = IF Succeeded(txHash[i]) THEN 1 ELSE 0
<1>1. SUFFICES ASSUME IInv, NEW i \in Items
               PROVE  Paid(i) = IF Succeeded(txHash[i]) THEN 1 ELSE 0
  OBVIOUS
<1> DEFINE S == {k \in Transfers : mined[k].tx.item = i}
<1>2. \A k \in S : k \in 1 .. Len(mined) /\ mined[k].tx = txHash[i] /\ mined[k].ok
  BY <1>1 DEF Transfers, IInv, OneTransaction
<1>3. \A k \in 1 .. Len(mined) : mined[k].tx = txHash[i] /\ mined[k].ok => k \in S
  BY <1>1, AccountTypes, NoTxAssumption DEF Transfers, IInv, ItemInv
<1>4. CASE Succeeded(txHash[i])
  <2>1. PICK k \in 1 .. Len(mined) : mined[k].tx = txHash[i] /\ mined[k].ok
    BY <1>4 DEF Succeeded
  <2>2. S = {k}
    BY <1>1, <1>2, <1>3, <2>1, MinedOnce
  <2>3. Cardinality(S) = 1
    BY <2>2, FS_Singleton
  <2>4. QED
    BY <1>4, <2>3 DEF Paid
<1>5. CASE ~Succeeded(txHash[i])
  <2>1. S = {}
    BY <1>2, <1>5 DEF Succeeded
  <2>2. Cardinality(S) = 0
    BY <2>1, FS_EmptySet
  <2>3. QED
    BY <1>5, <2>2 DEF Paid
<1>6. QED
  BY <1>4, <1>5

LEMMA FailedIsNotPaid ==
    IInv => \A i \in Items : NeverPaid(i) => Paid(i) = 0
<1>1. SUFFICES ASSUME IInv, NEW i \in Items, NeverPaid(i) PROVE Paid(i) = 0
  OBVIOUS
<1>2. ~Succeeded(txHash[i])
  <2>1. SUFFICES ASSUME NEW k \in 1 .. Len(mined), mined[k].tx = txHash[i], mined[k].ok
                 PROVE  FALSE
    BY DEF Succeeded
  <2>2. txHash[i] \in Tx /\ txHash[i] # NoTx
    BY <1>1, <2>1, AccountTypes, NoTxAssumption
  <2>3. mined[k].tx.item = i
    BY <1>1, <2>1, <2>2 DEF IInv, ItemInv
  <2>4. QED
    BY <1>1, <2>1, <2>3 DEF NeverPaid
<1>3. QED
  BY <1>1, <1>2, PaidBySucceeded

(* Type correctness.                                                       *)
THEOREM TypeCorrect == Spec => []TypeOK
<1>1. IInv => TypeOK
  BY DEF IInv
<1>2. QED
  BY <1>1, Invariance, PTL

(* No item is paid twice, whatever crashes, expires, is retried or times   *)
(* out: the worker never replaces a transaction it stored.                 *)
THEOREM PaysAtMostOnce == Spec => []PaidAtMostOnce
<1>1. IInv => PaidAtMostOnce
  BY PaidBySucceeded DEF PaidAtMostOnce
<1>2. QED
  BY <1>1, Invariance, PTL

(* A confirmed item was paid by the transaction it links to.               *)
THEOREM ConfirmedWasPaid == Spec => []ConfirmedIsPaid
<1>1. IInv => ConfirmedIsPaid
  BY DEF IInv, ItemInv, ConfirmedIsPaid
<1>2. QED
  BY <1>1, Invariance, PTL

(* A failed item was not paid and no transaction of it can pay it later.   *)
THEOREM FailedWasNotPaid == Spec => []FailedNotPaid
<1>1. IInv => FailedNotPaid
  BY FailedIsNotPaid DEF IInv, ItemInv, FailedNotPaid, NeverPaid
<1>2. QED
  BY <1>1, Invariance, PTL

(* For any number of items, runs and handlers, and under any crashes,      *)
(* expired jobs, lost sends and deposits: no item is paid twice and what   *)
(* is reported of it is true.                                              *)
THEOREM ReportsAreTrue == Spec => []PaymentsReportedTruly
BY TypeCorrect, PaysAtMostOnce, ConfirmedWasPaid, FailedWasNotPaid, PTL DEF PaymentsReportedTruly


(* A run is settled only when all its items are.                           *)
THEOREM RunsSettleLast == Spec => []RunNotSettledEarly
<1>1. IInv => RunNotSettledEarly
  BY DEF IInv
<1>2. QED
  BY <1>1, Invariance, PTL
-----------------------------------------------------------------------------
(* Only the operator lifts a pause.                                        *)

LiftedByOperator ==
    \A r \in Runs : runStatus[r] = "paused" /\ runStatus'[r] = "running" =>
        request # NoRequest /\ request.run = r /\ request.op # "pause"

LEMMA WhoWritesRuns ==
    ASSUME Next
    PROVE  \/ UNCHANGED runStatus
           \/ \E w \in Workers : Start(w) \/ Finalize(w)
           \/ WriteRequest
<1> USE DEF dbVars
<1>1. ASSUME NEW w \in Workers, Work(w) \/ Disturb(w)
      PROVE  UNCHANGED runStatus \/ Start(w) \/ Finalize(w)
  <2>1. CASE Work(w)
    BY <2>1 DEF Work, FetchJob, TakeLock, Load, LoadIdleRun, LoadSettled, LoadSubmitted,
         LoadHopeless, LoadNew, SetItem, Prove, Sign, SignFails, GiveUpAttempt, Store, Send,
         SetSubmitted, Confirm, ConfirmReverted, Return, Throw
  <2>2. CASE Disturb(w)
    BY <2>2 DEF Disturb, ProveFails, GiveUpAttempt, SendFails, SetSubmitted, ConfirmTimesOut,
         SetItem
  <2>3. QED
    BY <1>1, <2>1, <2>2
<1>2. ASSUME NEW i \in Items, ExpireOrphan(i) \/ ExpireSlow(i) PROVE UNCHANGED runStatus
  BY <1>2 DEF ExpireOrphan, ExpireSlow
<1>3. ASSUME NEW op \in Operations, NEW r \in Runs, Request(op, r) PROVE UNCHANGED runStatus
  BY <1>3 DEF Request
<1>4. ASSUME NEW tx \in mempool, Mine(tx) PROVE UNCHANGED runStatus
  BY <1>4 DEF Mine
<1>5. Crash \/ EnqueueRequest \/ Deposit => UNCHANGED runStatus
  BY DEF Crash, EnqueueRequest, Deposit
<1>6. QED
  BY <1>1, <1>2, <1>3, <1>4, <1>5 DEF Next

(* A worker never writes a paused run back to running.                     *)
THEOREM PausesHold == Spec => PauseLiftedByOperator
<1>1. IInv /\ [Next]_vars => [LiftedByOperator]_vars
  <2>1. SUFFICES ASSUME IInv, Next PROVE LiftedByOperator
    OBVIOUS
  <2>2. CASE UNCHANGED runStatus
    BY <2>2 DEF LiftedByOperator
  <2>3. ASSUME NEW w \in Workers, Start(w) PROVE LiftedByOperator
    BY <2>1, <2>3 DEF Start, run, RunsIfStartable, LiftedByOperator, IInv, TypeOK
  <2>4. ASSUME NEW w \in Workers, Finalize(w) PROVE LiftedByOperator
    BY <2>1, <2>4 DEF Finalize, FinalizedStatus, LiftedByOperator, IInv, TypeOK
  <2>5. CASE WriteRequest
    BY <2>1, <2>5 DEF WriteRequest, LiftedByOperator, IInv, TypeOK
  <2>6. QED
    BY <2>1, <2>2, <2>3, <2>4, <2>5, WhoWritesRuns
<1>2. QED
  BY <1>1, Invariance, PTL DEF Spec, PauseLiftedByOperator, LiftedByOperator
-----------------------------------------------------------------------------
(* The payroll implements Payout.                                          *)

(* At most one item is written in a step, and then it was not settled.     *)
LEMMA WhoWritesItems ==
    ASSUME IInv, Next
    PROVE  \/ \E tx \in mempool : Mine(tx)
           \/ UNCHANGED <<itemStatus, mined>>
           \/ /\ UNCHANGED mined
              /\ \E i \in Items : /\ itemStatus[i] \notin settled
                                  /\ \A j \in Items : j # i => itemStatus'[j] = itemStatus[j]
<1> USE DEF dbVars, accountVars, item
<1> DEFINE Quiet == UNCHANGED <<itemStatus, mined>>
           Writes(i) == /\ UNCHANGED mined
                        /\ itemStatus[i] \notin settled
                        /\ \A j \in Items : j # i => itemStatus'[j] = itemStatus[j]
<1>0. itemStatus \in [Items -> {"pending", "proving", "submitted", "confirmed", "failed"}]
  BY DEF IInv, TypeOK
<1>1. ASSUME NEW w \in Workers, Work(w) \/ Disturb(w)
      PROVE  Quiet \/ (task[w] \in Items /\ Writes(task[w]))
  <2>1. CASE Load(w) /\ ~LoadHopeless(w)
    BY <2>1 DEF Load, LoadIdleRun, LoadSettled, LoadSubmitted, LoadNew
  <2>2. CASE Load(w) /\ LoadHopeless(w)
    <3>1. task[w] \in Items
      BY <2>2, AtWork DEF LoadHopeless, Go
    <3>2. QED
      BY <1>0, <2>2, <3>1 DEF Load, LoadHopeless, SetItem
  <2>3. CASE Start(w) \/ Store(w)
    <3>1. pc[w] \in Unprepared
      BY <2>3 DEF Start, Store, Go, Unprepared
    <3>2. QED
      BY <1>0, <2>3, <3>1, WhileUnprepared DEF Start, Store
  <2>4. CASE SignFails(w) \/ ProveFails(w)
    <3>1. pc[w] \in Unprepared
      BY <2>4 DEF SignFails, ProveFails, Unprepared
    <3>2. QED
      BY <1>0, <2>4, <3>1, WhileUnprepared DEF SignFails, ProveFails, GiveUpAttempt, SetItem
  <2>5. CASE Send(w) \/ SendFails(w)
    <3>1. pc[w] \in Sending
      BY <2>5 DEF Send, SendFails, Go, Sending
    <3>2. QED
      BY <1>0, <2>5, <3>1, WhileSending DEF Send, SendFails, SetSubmitted
  <2>6. CASE Confirm(w) \/ ConfirmReverted(w) \/ ConfirmTimesOut(w)
    <3>1. pc[w] \in Sending
      BY <2>6 DEF Confirm, ConfirmReverted, ConfirmTimesOut, Go, Sending
    <3>2. QED
      BY <1>0, <2>6, <3>1, WhileSending DEF Confirm, ConfirmReverted, ConfirmTimesOut, SetItem
  <2>7. CASE \/ \E i \in Items : FetchJob(w, i)
             \/ TakeLock(w) \/ Prove(w) \/ Sign(w) \/ Finalize(w) \/ Return(w) \/ Throw(w)
    BY <2>7 DEF FetchJob, TakeLock, Prove, Sign, Finalize, Return, Throw
  <2>8. QED
    BY <1>1, <2>1, <2>2, <2>3, <2>4, <2>5, <2>6, <2>7 DEF Work, Disturb
<1>2. ASSUME NEW i \in Items, ExpireOrphan(i) \/ ExpireSlow(i) PROVE Quiet
  BY <1>2 DEF ExpireOrphan, ExpireSlow
<1>3. ASSUME NEW op \in Operations, NEW r \in Runs, Request(op, r) PROVE Quiet
  BY <1>3 DEF Request
<1>4. Crash \/ EnqueueRequest \/ Deposit \/ WriteRequest => Quiet
  BY DEF Crash, EnqueueRequest, Deposit, WriteRequest
<1>5. QED
  BY <1>1, <1>2, <1>3, <1>4 DEF Next

(* How often an item was paid, told by its stored transaction.             *)
PaidMatches ==
    \A i \in Items : /\ Paid(i) = IF Succeeded(txHash[i]) THEN 1 ELSE 0
                     /\ NeverPaid(i) => Paid(i) = 0

LEMMA InitPromise == Init /\ IInv => Promise!Init
<1>1. SUFFICES ASSUME Init, IInv PROVE Promise!Init
  OBVIOUS
<1>2. ASSUME NEW i \in Items PROVE Paid(i) = 0 /\ Outcome(i) = "open"
  <2>1. NeverPaid(i)
    BY <1>1 DEF Init, AccountInit, NeverPaid
  <2>2. itemStatus[i] = "pending"
    BY <1>1 DEF Init
  <2>3. QED
    BY <1>1, <2>1, <2>2, FailedIsNotPaid DEF Outcome, settled
<1>3. QED
  BY <1>2 DEF Promise!Init

(* A mined transaction pays its item, or changes nothing of the promise.   *)
LEMMA MinePromise ==
    ASSUME IInv, IInv', PaidMatches', NEW tx \in mempool, Mine(tx)
    PROVE  [Promise!Next]_(Promise!vars)
<1> DEFINE ok == ProofHolds(tx)
           paidNow == [i \in Items |-> Paid(i)]
           outcomeNow == [i \in Items |-> Outcome(i)]
<1>1. MineAs(tx, ok) /\ ok \in BOOLEAN /\ UNCHANGED <<itemStatus, txHash>>
  BY DEF Mine, ProofHolds, dbVars
<1> HIDE DEF ok
<1>2. /\ Len(mined') = Len(mined) + 1 /\ Len(mined) \in Nat
      /\ \A k \in 1 .. Len(mined) : mined'[k] = mined[k]
      /\ mined'[Len(mined) + 1] = [tx |-> tx, ok |-> ok]
  BY <1>1, MinedAccount, NextNonceType
<1>3. tx \in Tx
  BY AccountTypes
<1>4. ASSUME NEW i \in Items
      PROVE  /\ Succeeded(txHash[i])' <=> Succeeded(txHash[i]) \/ (txHash[i] = tx /\ ok)
             /\ txHash[i] = tx <=> tx.item = i
             /\ txHash[i] = tx => ~Succeeded(txHash[i])
             /\ Outcome(i)' = Outcome(i)
  <2>1. Succeeded(txHash[i])' <=> Succeeded(txHash[i]) \/ (txHash[i] = tx /\ ok)
    <3>1. \A k : k \in 1 .. Len(mined') <=> k \in 1 .. Len(mined) \/ k = Len(mined) + 1
      BY <1>2
    <3>2. QED
      BY <1>1, <1>2, <3>1 DEF Succeeded
  <2>2. txHash[i] = tx <=> tx.item = i
    BY <1>3, NoTxAssumption DEF IInv, ItemInv, OneTransaction
  <2>3. txHash[i] = tx => ~Succeeded(txHash[i])
    BY MinedOnce DEF Succeeded
  <2>4. Outcome(i)' = Outcome(i)
    BY <1>1 DEF Outcome
  <2>5. QED
    BY <2>1, <2>2, <2>3, <2>4
<1>5. outcomeNow' = outcomeNow
  BY <1>4
<1>6. CASE tx.item \in Items /\ ok
  <2> DEFINE i == tx.item
  <2>1. Paid(i) = 0 /\ Paid(i)' = 1
    BY <1>4, <1>6, PaidBySucceeded DEF PaidMatches
  <2>2. Outcome(i) = "open"
    <3>1. itemStatus[i] # "confirmed"
      BY <1>4, <1>6 DEF IInv, ItemInv
    <3>2. itemStatus[i] # "failed"
      BY <1>6 DEF IInv, ItemInv, NeverPaid
    <3>3. QED
      BY <3>1, <3>2 DEF Outcome, settled
  <2>3. \A j \in Items : j # i => Paid(j)' = Paid(j)
    BY <1>4, PaidBySucceeded DEF PaidMatches
  <2>4. paidNow' = [paidNow EXCEPT ![i] = 1]
    BY <1>6, <2>1, <2>3
  <2>5. Promise!Pay(i)
    BY <1>5, <1>6, <2>1, <2>2, <2>4 DEF Promise!Pay
  <2>6. QED
    BY <1>6, <2>5 DEF Promise!Next
<1>7. CASE ~(tx.item \in Items /\ ok)
  <2>1. \A j \in Items : Paid(j)' = Paid(j)
    BY <1>4, <1>7, PaidBySucceeded DEF PaidMatches
  <2>2. QED
    BY <1>5, <2>1 DEF Promise!vars
<1>8. QED
  BY <1>6, <1>7

(* A write of an item's status that settles it is a Confirm or a Fail.     *)
LEMMA WritePromise ==
    ASSUME IInv, IInv', PaidMatches', \A i \in Items : Paid(i)' = Paid(i),
           NEW i \in Items, itemStatus[i] \notin settled,
           \A j \in Items : j # i => itemStatus'[j] = itemStatus[j]
    PROVE  [Promise!Next]_(Promise!vars)
<1> DEFINE paidNow == [j \in Items |-> Paid(j)]
           outcomeNow == [j \in Items |-> Outcome(j)]
<1>1. paidNow' = paidNow
  OBVIOUS
<1>2. \A j \in Items : j # i => Outcome(j)' = Outcome(j)
  BY DEF Outcome
<1>3. Outcome(i) = "open"
  BY DEF Outcome
<1>4. outcomeNow' = [outcomeNow EXCEPT ![i] = Outcome(i)']
  BY <1>2
<1>5. CASE itemStatus'[i] = "confirmed"
  <2>1. Paid(i) = 1 /\ Outcome(i)' = "confirmed"
    BY <1>5 DEF IInv, ItemInv, Outcome, settled, PaidMatches
  <2>2. Promise!Confirm(i)
    BY <1>1, <1>3, <1>4, <2>1 DEF Promise!Confirm
  <2>3. QED
    BY <2>2 DEF Promise!Next
<1>6. CASE itemStatus'[i] = "failed"
  <2>1. Paid(i) = 0 /\ Outcome(i)' = "failed"
    BY <1>6 DEF IInv, ItemInv, Outcome, settled, PaidMatches
  <2>2. Promise!Fail(i)
    BY <1>1, <1>3, <1>4, <2>1 DEF Promise!Fail
  <2>3. QED
    BY <2>2 DEF Promise!Next
<1>7. CASE itemStatus'[i] \notin {"confirmed", "failed"}
  <2>1. Outcome(i)' = Outcome(i)
    BY <1>3, <1>7 DEF Outcome, settled
  <2>2. QED
    BY <1>1, <1>2, <2>1 DEF Promise!vars
<1>8. QED
  BY <1>5, <1>6, <1>7

LEMMA NextPromise ==
    ASSUME IInv, IInv', PaidMatches', [Next]_vars
    PROVE  [Promise!Next]_(Promise!vars)
<1>1. UNCHANGED mined => \A i \in Items : Paid(i)' = Paid(i)
  BY DEF Paid, Transfers
<1>2. CASE UNCHANGED <<itemStatus, mined>>
  BY <1>1, <1>2 DEF Promise!vars, Outcome
<1>3. ASSUME NEW tx \in mempool, Mine(tx) PROVE [Promise!Next]_(Promise!vars)
  BY <1>3, MinePromise
<1>4. ASSUME UNCHANGED mined, NEW i \in Items, itemStatus[i] \notin settled,
             \A j \in Items : j # i => itemStatus'[j] = itemStatus[j]
      PROVE  [Promise!Next]_(Promise!vars)
  BY <1>1, <1>4, WritePromise
<1>5. CASE UNCHANGED vars
  BY <1>2, <1>5 DEF vars, dbVars, accountVars
<1>6. QED
  BY <1>2, <1>3, <1>4, <1>5, WhoWritesItems

(* Seen from outside, an item is paid, confirmed and failed only as Payout *)
(* allows.                                                                 *)
THEOREM PayrollImplementsPayout == Spec => ImplementsPayout
<1>1. Init => Promise!Init
  BY InitInv, InitPromise
<1>2. IInv => PaidMatches
  BY PaidBySucceeded, FailedIsNotPaid DEF PaidMatches
<1>3. IInv /\ PaidMatches /\ IInv' /\ PaidMatches' /\ [Next]_vars =>
          [Promise!Next]_(Promise!vars)
  BY NextPromise
<1>4. QED
  BY <1>1, <1>2, <1>3, Invariance, PTL DEF Spec, ImplementsPayout, Promise!Spec

-----------------------------------------------------------------------------
(* What the lock is for.  As long as nothing fails and no deposit is made, *)
(* the holder of the lock is the only one who signs, and it lets go only   *)
(* when its transaction is mined: between the balance it reads and the     *)
(* receipt nothing of the account is pending but its own transaction.      *)

CalmWorker(w) ==
    /\ pc[w] = "signing" => snapshot[w] = Balance
    /\ pc[w] \in {"storing", "sending"} =>
           prepared[w].snapshot = Balance /\ prepared[w].nonce = Len(mined)
    /\ pc[w] = "confirming" => prepared[w] \in mempool \/ IsMined(prepared[w])

(* What is pending is the next transaction, proved from the balance that   *)
(* is there, and its sender waits for it.                                  *)
CalmMempool ==
    \A tx \in mempool :
        /\ tx.nonce = Len(mined) /\ tx.snapshot = Balance
        /\ \E w \in Workers : pc[w] = "confirming" /\ prepared[w] = tx

(* An unsettled item with a transaction is in its worker's hands.          *)
CalmItem(i) ==
    itemStatus[i] \notin settled /\ txHash[i] # NoTx =>
        \E w \in Workers : task[w] = i /\ pc[w] \in Sending

Calm ==
    /\ \A w \in Workers : CalmWorker(w)
    /\ CalmMempool
    /\ \A i \in Items : CalmItem(i)
    /\ \A k \in 1 .. Len(mined) : mined[k].ok

CalmInv == Undisturbed => Calm

LEMMA BalanceKept ==
    ASSUME mined' = mined
    PROVE  Balance' = Balance /\ Len(mined') = Len(mined)
           /\ \A tx : (IsMined(tx))' <=> IsMined(tx)
BY DEF Balance, Transfers, IsMined

(* Before the holder of the lock waits for its receipt nothing is pending. *)
LEMMA NothingPending ==
    ASSUME IInv, Calm, NEW w \in Workers, pc[w] \in Critical, pc[w] # "confirming"
    PROVE  mempool = {}
<1>1. ASSUME NEW tx \in mempool PROVE FALSE
  <2>1. PICK v \in Workers : pc[v] = "confirming"
    BY DEF Calm, CalmMempool
  <2>2. v # w /\ pc[v] \in Critical
    BY <2>1 DEF Critical
  <2>3. QED
    BY <2>2, Alone
<1>2. QED
  BY <1>1

(* Steps that neither send nor make a transaction.                         *)
LEMMA QuietCalm ==
    ASSUME IInv, Calm, NEW w \in Workers, UNCHANGED <<mempool, mined, txHash>>,
           pc[w] \notin Sending, pc'[w] \notin {"storing", "sending", "confirming"},
           pc'[w] = "signing" => snapshot'[w] = Balance,
           \A v \in Workers : v # w =>
               /\ pc'[v] = pc[v] /\ task'[v] = task[v]
               /\ prepared'[v] = prepared[v] /\ snapshot'[v] = snapshot[v],
           \A i \in Items : itemStatus'[i] \notin settled =>
               itemStatus[i] \notin settled \/ txHash[i] = NoTx
    PROVE  Calm'
<1>1. Balance' = Balance /\ Len(mined') = Len(mined) /\ \A tx : (IsMined(tx))' <=> IsMined(tx)
  BY BalanceKept
<1>2. ASSUME NEW v \in Workers PROVE CalmWorker(v)'
  <2>1. CASE v = w
    BY <1>1, <2>1 DEF CalmWorker
  <2>2. CASE v # w
    <3>1. CalmWorker(v)
      BY DEF Calm
    <3>2. IsMined(prepared[v])' <=> IsMined(prepared[v])
      BY <2>2 DEF IsMined
    <3>3. QED
      BY <1>1, <2>2, <3>1, <3>2 DEF CalmWorker
  <2>3. QED
    BY <2>1, <2>2
<1>3. CalmMempool'
  <2>1. SUFFICES ASSUME NEW tx \in mempool
                 PROVE  /\ tx.nonce = Len(mined) /\ tx.snapshot = Balance
                        /\ \E v \in Workers : pc'[v] = "confirming" /\ prepared'[v] = tx
    BY <1>1 DEF CalmMempool
  <2>2. PICK v \in Workers : pc[v] = "confirming" /\ prepared[v] = tx
    BY DEF Calm, CalmMempool
  <2>3. v # w
    BY <2>2 DEF Sending
  <2>4. QED
    BY <2>2, <2>3 DEF Calm, CalmMempool
<1>4. ASSUME NEW i \in Items PROVE CalmItem(i)'
  <2>1. SUFFICES ASSUME itemStatus'[i] \notin settled, txHash[i] # NoTx
                 PROVE  \E v \in Workers : task'[v] = i /\ pc'[v] \in Sending
    BY DEF CalmItem
  <2>2. PICK v \in Workers : task[v] = i /\ pc[v] \in Sending
    BY <2>1 DEF Calm, CalmItem
  <2>3. v # w
    BY <2>2
  <2>4. QED
    BY <2>2, <2>3
<1>5. \A k \in 1 .. Len(mined') : mined'[k].ok
  BY DEF Calm
<1>6. QED
  BY <1>2, <1>3, <1>4, <1>5 DEF Calm

(* Steps outside the handlers.                                             *)
LEMMA OutsideCalm ==
    ASSUME Calm, UNCHANGED <<mempool, mined, txHash, itemStatus, pc, task, prepared, snapshot>>
    PROVE  Calm'
<1>1. Balance' = Balance
  BY DEF Balance, Transfers
<1>2. \A w \in Workers : CalmWorker(w)'
  BY <1>1 DEF Calm, CalmWorker, IsMined
<1>3. CalmMempool' /\ (\A i \in Items : CalmItem(i)')
  BY <1>1 DEF Calm, CalmMempool, CalmItem
<1>4. QED
  BY <1>2, <1>3 DEF Calm

(* The holder's own steps from the proof to the receipt.                   *)
LEMMA HolderCalm ==
    ASSUME IInv, Calm, NEW w \in Workers, pc[w] \in Critical, UNCHANGED <<mined, task, snapshot>>,
           CalmWorker(w)', CalmMempool',
           \A v \in Workers : v # w => pc'[v] = pc[v],
           \A i \in Items : i # task[w] =>
               txHash'[i] = txHash[i] /\ itemStatus'[i] = itemStatus[i],
           \/ pc'[w] \in Sending
           \/ itemStatus'[task[w]] \in settled
           \/ txHash'[task[w]] = NoTx
    PROVE  Calm'
<1>1. \A v \in Workers : v # w => pc[v] \notin Critical
  BY Alone
<1>2. \A v \in Workers : CalmWorker(v)'
  BY <1>1 DEF CalmWorker, Critical
<1>3. ASSUME NEW i \in Items PROVE CalmItem(i)'
  <2>1. CASE i = task[w]
    BY <2>1 DEF CalmItem
  <2>2. CASE i # task[w]
    <3>1. SUFFICES ASSUME itemStatus[i] \notin settled, txHash[i] # NoTx
                   PROVE  \E v \in Workers : task'[v] = i /\ pc'[v] \in Sending
      BY <2>2 DEF CalmItem
    <3>2. PICK v \in Workers : task[v] = i /\ pc[v] \in Sending
      BY <3>1 DEF Calm, CalmItem
    <3>3. v # w /\ pc[v] \in Critical
      BY <2>2, <3>2 DEF Sending, Critical
    <3>4. QED
      BY <1>1, <3>3
  <2>3. QED
    BY <2>1, <2>2
<1>4. QED
  BY <1>2, <1>3 DEF Calm

LEMMA LoadCalm ==
    ASSUME IInv, Calm, NEW w \in Workers, Load(w)
    PROVE  Calm'
<1> USE DEF dbVars, accountVars, Go
<1>1. /\ pc[w] = "loading" /\ task[w] \in Items
      /\ UNCHANGED <<mempool, mined, task, snapshot>>
  BY AtWork DEF Load, LoadIdleRun, LoadSettled, LoadSubmitted, LoadHopeless, LoadNew
<1>2. pc[w] \notin Sending /\ pc[w] \in Critical /\ DOMAIN pc = Workers
  BY <1>1 DEF Sending, Critical, IInv, TypeOK
<1>3. CASE LoadIdleRun(w) \/ LoadSettled(w) \/ LoadNew(w)
  <2>1. /\ UNCHANGED <<txHash, itemStatus, prepared>>
        /\ pc'[w] \in {"returning", "finalizing", "starting"}
        /\ \A v \in Workers : v # w => pc'[v] = pc[v]
    BY <1>2, <1>3 DEF LoadIdleRun, LoadSettled, LoadNew
  <2>2. QED
    BY <1>1, <1>2, <2>1, QuietCalm
<1>4. CASE LoadHopeless(w)
  <2>1. /\ UNCHANGED <<txHash, prepared>>
        /\ pc'[w] = "finalizing"
        /\ \A v \in Workers : v # w => pc'[v] = pc[v]
        /\ itemStatus' = [itemStatus EXCEPT ![task[w]] = "failed"]
    BY <1>2, <1>4 DEF LoadHopeless, SetItem, item
  <2>2. \A i \in Items : itemStatus'[i] \notin settled => itemStatus[i] \notin settled
    BY <1>1, <2>1 DEF IInv, TypeOK, settled
  <2>3. QED
    BY <1>1, <1>2, <2>1, <2>2, QuietCalm
<1>5. CASE LoadSubmitted(w)
  <2>1. itemStatus[task[w]] \notin settled /\ HasTransaction(task[w])
    BY <1>5 DEF LoadSubmitted, item
  <2>2. txHash[task[w]] # NoTx
    BY <1>1, <2>1 DEF HasTransaction, IInv, ItemInv
  <2>3. PICK v \in Workers : task[v] = task[w] /\ pc[v] \in Sending
    BY <1>1, <2>1, <2>2 DEF Calm, CalmItem
  <2>4. v # w /\ pc[v] \in Critical
    BY <1>2, <2>3 DEF Sending, Critical
  <2>5. QED
    BY <1>2, <2>4, Alone
<1>6. QED
  BY <1>3, <1>4, <1>5 DEF Load

LEMMA SendCalm ==
    ASSUME IInv, Calm, NEW w \in Workers, Send(w)
    PROVE  Calm'
<1> USE DEF dbVars, Go
<1>1. pc[w] = "sending" /\ task[w] \in Items /\ pc[w] \in Critical
  BY AtWork DEF Send, Critical
<1>2. mempool = {}
  BY <1>1, NothingPending
<1>3. prepared[w] \in Tx /\ prepared[w].snapshot = Balance /\ prepared[w].nonce = Len(mined)
  BY <1>1 DEF Calm, CalmWorker, IInv, WorkerInv, Sending
<1>4. Len(mined) \in Nat
  BY NextNonceType
<1>5. ~NonceTooLow(prepared[w]) /\ Accepts(prepared[w])
  BY <1>2, <1>3, <1>4 DEF NonceTooLow, Accepts
<1>6. /\ mempool' = {prepared[w]}
      /\ pc' = [pc EXCEPT ![w] = "confirming"]
      /\ UNCHANGED <<mined, task, prepared, snapshot>>
      /\ itemStatus' = [itemStatus EXCEPT ![task[w]] = "submitted"]
      /\ txHash' = [txHash EXCEPT ![task[w]] = prepared[w]]
  BY <1>2, <1>5 DEF Send, MempoolWith, SendSucceeds, SetSubmitted, item
<1>7. pc'[w] = "confirming" /\ \A v \in Workers : v # w => pc'[v] = pc[v]
  BY <1>6 DEF IInv, TypeOK
<1>8. Balance' = Balance
  BY <1>6, BalanceKept
<1>9. CalmWorker(w)' /\ CalmMempool'
  BY <1>3, <1>6, <1>7, <1>8 DEF CalmWorker, CalmMempool
<1>10. \A i \in Items : i # task[w] => txHash'[i] = txHash[i] /\ itemStatus'[i] = itemStatus[i]
  BY <1>6 DEF IInv, TypeOK
<1>11. pc'[w] \in Sending
  BY <1>7 DEF Sending
<1>12. QED
  BY <1>1, <1>6, <1>7, <1>9, <1>10, <1>11, HolderCalm

LEMMA WorkCalm ==
    ASSUME IInv, Calm, NEW w \in Workers, Work(w)
    PROVE  Calm'
<1> USE DEF dbVars, queueVars, workerVars, accountVars, Go, item, run
<1>0. DOMAIN pc = Workers /\ task \in [Workers -> Items \cup {NoItem}]
      /\ snapshot \in [Workers -> Nat] /\ prepared \in [Workers -> Tx \cup {NoTx}]
  BY DEF IInv, TypeOK
<1>1. ASSUME NEW i \in Items, FetchJob(w, i) PROVE Calm'
  <2>1. /\ pc[w] \notin Sending /\ pc'[w] = "waiting"
        /\ UNCHANGED <<mempool, mined, txHash, itemStatus, prepared, snapshot>>
        /\ \A v \in Workers : v # w => pc'[v] = pc[v] /\ task'[v] = task[v]
    BY <1>0, <1>1 DEF FetchJob, Sending
  <2>2. QED
    BY <2>1, QuietCalm
<1>2. CASE TakeLock(w) \/ Prove(w) \/ Finalize(w) \/ Return(w) \/ Throw(w)
  <2>1. /\ pc[w] \in {"waiting", "proving", "finalizing", "returning", "throwing"}
        /\ pc'[w] \in {"loading", "signing", "returning", "idle"}
        /\ pc'[w] = "signing" => snapshot'[w] = Balance
        /\ UNCHANGED <<mempool, mined, txHash, itemStatus, prepared, task>>
        /\ \A v \in Workers : v # w => pc'[v] = pc[v] /\ snapshot'[v] = snapshot[v]
    <3>1. CASE TakeLock(w) \/ Finalize(w) \/ Return(w) \/ Throw(w)
      BY <1>0, <3>1 DEF TakeLock, Finalize, Return, Throw
    <3>2. CASE Prove(w)
      BY <1>0, <3>2 DEF Prove
    <3>3. QED
      BY <1>2, <3>1, <3>2
  <2>2. pc[w] \notin Sending
    BY <2>1 DEF Sending
  <2>3. QED
    BY <2>1, <2>2, QuietCalm
<1>3. CASE Load(w)
  BY <1>3, LoadCalm
<1>4. CASE Start(w)
  <2>1. /\ pc[w] = "starting" /\ pc'[w] = "proving"
        /\ UNCHANGED <<mempool, mined, txHash, prepared, task, snapshot>>
        /\ \A v \in Workers : v # w => pc'[v] = pc[v]
        /\ itemStatus' = [itemStatus EXCEPT ![task[w]] = "proving"]
    BY <1>0, <1>4 DEF Start
  <2>2. txHash[task[w]] = NoTx /\ pc[w] \notin Sending
    BY <2>1 DEF IInv, WorkerInv, Unprepared, Sending
  <2>3. \A i \in Items : itemStatus'[i] \notin settled =>
            itemStatus[i] \notin settled \/ txHash[i] = NoTx
    BY <2>1, <2>2 DEF IInv, TypeOK
  <2>4. QED
    BY <2>1, <2>2, <2>3, QuietCalm
<1>5. CASE Sign(w)
  <2>1. /\ pc[w] = "signing" /\ pc'[w] = "storing" /\ snapshot[w] = Balance
        /\ UNCHANGED <<mempool, mined, txHash, itemStatus, task, snapshot>>
        /\ \A v \in Workers : v # w => pc'[v] = pc[v]
        /\ prepared'[w].nonce = NextNonce /\ prepared'[w].snapshot = Balance
    BY <1>0, <1>5 DEF Sign
  <2>2. pc[w] \in Critical /\ pc[w] \in Unprepared
    BY <2>1 DEF Critical, Unprepared
  <2>3. mempool = {}
    BY <2>1, <2>2, NothingPending
  <2>4. NextNonce = Len(mined)
    BY <2>3, NextNonceType, FS_EmptySet DEF NextNonce
  <2>5. Balance' = Balance
    BY <2>1, BalanceKept
  <2>6. CalmWorker(w)' /\ CalmMempool'
    BY <2>1, <2>3, <2>4, <2>5 DEF CalmWorker, CalmMempool
  <2>7. txHash'[task[w]] = NoTx
    BY <2>1, <2>2 DEF IInv, WorkerInv
  <2>8. QED
    BY <2>1, <2>2, <2>6, <2>7, HolderCalm
<1>6. CASE SignFails(w)
  BY <1>6 DEF SignFails, Calm, CalmWorker
<1>7. CASE Store(w)
  <2>1. /\ pc[w] = "storing" /\ pc'[w] = "sending"
        /\ UNCHANGED <<mempool, mined, prepared, task, snapshot>>
        /\ \A v \in Workers : v # w => pc'[v] = pc[v]
        /\ itemStatus' = [itemStatus EXCEPT ![task[w]] = "submitted"]
        /\ txHash' = [txHash EXCEPT ![task[w]] = prepared[w]]
    BY <1>0, <1>7 DEF Store
  <2>2. pc[w] \in Critical /\ pc'[w] \in Sending
    BY <2>1 DEF Critical, Sending
  <2>3. mempool = {}
    BY <2>1, <2>2, NothingPending
  <2>4. Balance' = Balance
    BY <2>1, BalanceKept
  <2>5. CalmWorker(w)' /\ CalmMempool'
    BY <2>1, <2>3, <2>4 DEF Calm, CalmWorker, CalmMempool
  <2>6. \A i \in Items : i # task[w] => txHash'[i] = txHash[i] /\ itemStatus'[i] = itemStatus[i]
    BY <2>1 DEF IInv, TypeOK
  <2>7. QED
    BY <2>1, <2>2, <2>5, <2>6, HolderCalm
<1>8. CASE Send(w)
  BY <1>8, SendCalm
<1>9. CASE Confirm(w)
  <2>1. /\ pc[w] = "confirming" /\ pc'[w] = "finalizing" /\ Succeeded(prepared[w])
        /\ UNCHANGED <<mempool, mined, prepared, task, snapshot, txHash>>
        /\ \A v \in Workers : v # w => pc'[v] = pc[v]
        /\ itemStatus' = [itemStatus EXCEPT ![task[w]] = "confirmed"]
    BY <1>0, <1>9 DEF Confirm, SetItem
  <2>2. pc[w] \in Critical /\ task[w] \in Items
    BY <2>1, AtWork DEF Critical
  <2>3. mempool = {}
    <3>1. ASSUME NEW tx \in mempool PROVE FALSE
      <4>1. PICK v \in Workers : pc[v] = "confirming" /\ prepared[v] = tx
        BY DEF Calm, CalmMempool
      <4>2. v = w
        BY <2>2, <4>1, Alone DEF Critical
      <4>3. QED
        BY <2>1, <4>1, <4>2, MinedOnce DEF Succeeded
    <3>2. QED
      BY <3>1
  <2>4. CalmWorker(w)' /\ CalmMempool'
    BY <2>1, <2>3 DEF CalmWorker, CalmMempool
  <2>5. \A i \in Items : i # task[w] => itemStatus'[i] = itemStatus[i]
    BY <2>1 DEF IInv, TypeOK
  <2>6. itemStatus'[task[w]] \in settled
    BY <2>1, <2>2 DEF IInv, TypeOK, settled
  <2>7. QED
    BY <2>1, <2>2, <2>4, <2>5, <2>6, HolderCalm
<1>10. CASE ConfirmReverted(w)
  BY <1>10 DEF ConfirmReverted, Reverted, Calm
<1>11. QED
  BY <1>1, <1>2, <1>3, <1>4, <1>5, <1>6, <1>7, <1>8, <1>9, <1>10 DEF Work

LEMMA MineCalm ==
    ASSUME IInv, Calm, NEW tx \in mempool, Mine(tx)
    PROVE  Calm'
<1>1. PICK w \in Workers : pc[w] = "confirming" /\ prepared[w] = tx
  BY DEF Calm, CalmMempool
<1>2. \A v \in Workers : v # w => pc[v] \notin Critical
  BY <1>1, Alone DEF Critical
<1>3. tx.snapshot = Balance /\ tx.nonce = Len(mined) /\ ProofHolds(tx)
  BY DEF Calm, CalmMempool, ProofHolds
<1>4. MineAs(tx, TRUE)
  BY <1>3, Zenon DEF Mine
<1>5. /\ UNCHANGED <<itemStatus, txHash, pc, task, prepared, snapshot>>
      /\ mempool' = mempool \ {tx}
  BY DEF Mine, MineAs, dbVars, workerVars
<1>6. /\ Len(mined') = Len(mined) + 1
      /\ \A k \in 1 .. Len(mined) : mined'[k] = mined[k]
      /\ mined'[Len(mined) + 1] = [tx |-> tx, ok |-> TRUE]
  BY <1>4, MinedAccount
<1>7. Len(mined) \in Nat
  BY NextNonceType
<1>8. \A k \in 1 .. Len(mined') : mined'[k].ok
  BY <1>6, <1>7 DEF Calm
<1>9. mempool' = {}
  <2>1. ASSUME NEW other \in mempool PROVE other = tx
    BY <1>3 DEF Calm, CalmMempool, IInv, AccountInv
  <2>2. QED
    BY <1>5, <2>1
<1>10. IsMined(tx)'
  BY <1>6, <1>7 DEF IsMined
<1>11. \A v \in Workers : CalmWorker(v)'
  BY <1>1, <1>2, <1>5, <1>10 DEF CalmWorker, Critical
<1>12. CalmMempool' /\ \A i \in Items : CalmItem(i)'
  BY <1>5, <1>9 DEF Calm, CalmMempool, CalmItem
<1>13. QED
  BY <1>8, <1>11, <1>12 DEF Calm

LEMMA CalmStep == IInv /\ CalmInv /\ [Next]_vars => CalmInv'
<1> SUFFICES ASSUME IInv, CalmInv, [Next]_vars, Undisturbed' PROVE Calm'
  BY DEF CalmInv
<1> USE DEF workerVars, dbVars, accountVars
<1>1. faults \in Nat /\ deposits \in Nat
  BY DEF IInv, TypeOK
<1>2. \A w \in Workers : ~Disturb(w)
  BY <1>1 DEF Disturb, ProveFails, SendFails, ConfirmTimesOut, Fault, Undisturbed
<1>3. ~Crash /\ ~Deposit /\ \A i \in Items : ~ExpireSlow(i)
  BY <1>1 DEF Crash, Deposit, ExpireSlow, Fault, Undisturbed
<1>4. ASSUME NEW w \in Workers, Work(w) PROVE Calm'
  <2>1. UNCHANGED <<faults, deposits>>
    BY <1>4 DEF Work, FetchJob, TakeLock, Load, Start, Prove, Sign, SignFails, Store, Send, Confirm,
                ConfirmReverted, Finalize, Return, Throw, boundVars
  <2>2. Calm
    BY <2>1 DEF CalmInv, Undisturbed
  <2>3. QED
    BY <1>4, <2>2, WorkCalm
<1>5. CASE UNCHANGED <<mempool, mined, txHash, itemStatus, pc, task, prepared, snapshot, faults,
                       deposits>>
  <2>1. Calm
    BY <1>5 DEF CalmInv, Undisturbed
  <2>2. QED
    BY <1>5, <2>1, OutsideCalm
<1>6. ASSUME NEW i \in Items, ExpireOrphan(i) PROVE Calm'
  BY <1>5, <1>6 DEF ExpireOrphan, boundVars
<1>7. ASSUME NEW op \in Operations, NEW r \in Runs, Request(op, r) PROVE Calm'
  BY <1>5, <1>7 DEF Request, boundVars
<1>8. CASE WriteRequest \/ EnqueueRequest
  BY <1>5, <1>8 DEF WriteRequest, EnqueueRequest, boundVars
<1>9. ASSUME NEW tx \in mempool, Mine(tx) PROVE Calm'
  <2>1. Calm
    BY <1>9 DEF Mine, boundVars, CalmInv, Undisturbed
  <2>2. QED
    BY <1>9, <2>1, MineCalm
<1>10. CASE UNCHANGED vars
  BY <1>5, <1>10 DEF vars, boundVars
<1>11. QED
  BY <1>2, <1>3, <1>4, <1>6, <1>7, <1>8, <1>9, <1>10 DEF Next

LEMMA CalmInit == Init => CalmInv
<1> SUFFICES ASSUME Init PROVE Calm
  BY DEF CalmInv
<1>1. /\ \A w \in Workers : pc[w] = "idle"
      /\ \A i \in Items : txHash[i] = NoTx
      /\ mempool = {} /\ mined = <<>>
  BY DEF Init, AccountInit
<1>2. QED
  BY <1>1 DEF Calm, CalmWorker, CalmMempool, CalmItem

(* While nothing is lost or late and nobody else signs for the account, no *)
(* transfer is reverted, and a submitted item's transaction is mined or    *)
(* can still be: what the lock is for.                                     *)
THEOREM TransfersDoGoThrough == Spec => []TransfersGoThrough
<1>1. IInv /\ CalmInv => NoTransferReverts
  BY DEF CalmInv, Calm, NoTransferReverts
<1>2. IInv /\ CalmInv => SubmittedCanConfirm
  <2>1. SUFFICES ASSUME IInv, Calm, NEW i \in Items, itemStatus[i] = "submitted"
                 PROVE  IsMined(txHash[i]) \/ txHash[i].nonce >= Len(mined)
    BY DEF CalmInv, SubmittedCanConfirm
  <2>2. txHash[i] # NoTx /\ itemStatus[i] \notin settled
    BY <2>1 DEF IInv, ItemInv, settled
  <2>3. PICK w \in Workers : task[w] = i /\ pc[w] \in Sending
    BY <2>1, <2>2 DEF Calm, CalmItem
  <2>4. prepared[w] = txHash[i]
    BY <2>1, <2>3 DEF IInv, WorkerInv
  <2>5. Len(mined) \in Nat
    BY <2>1, NextNonceType
  <2>6. CASE pc[w] = "sending"
    BY <2>1, <2>4, <2>5, <2>6 DEF Calm, CalmWorker
  <2>7. CASE pc[w] = "confirming"
    BY <2>1, <2>4, <2>5, <2>7 DEF Calm, CalmWorker, CalmMempool
  <2>8. QED
    BY <2>3, <2>6, <2>7 DEF Sending
<1>3. Spec => []CalmInv
  BY Invariance, CalmInit, CalmStep, PTL DEF Spec
<1>4. QED
  BY <1>1, <1>2, <1>3, Invariance, PTL DEF TransfersGoThrough
-----------------------------------------------------------------------------
(* Runs are attended.  What the queue holds of an item that is not settled *)
(* (QueueInv), and who closes a run (ClosingInv).                          *)

JobInv(i) ==
    /\ job[i] = "completed" => itemStatus[i] \in settled
    /\ runStatus[RunOf[i]] = "ready" => job[i] = "none"
    /\ runStatus[RunOf[i]] = "running" /\ itemStatus[i] \in active /\ job[i] = "none" =>
           BeingEnqueued(RunOf[i])

TaskInv(w) ==
    /\ pc[w] # "idle" => job[task[w]] # "none"
    /\ pc[w] \in {"finalizing", "returning"} => itemStatus[task[w]] \in settled
    /\ pc[w] = "throwing" => itemStatus[task[w]] \in active

QueueInv ==
    /\ \A r \in Runs : runStatus[r] # "paused"
    /\ request # NoRequest /\ request.at = "enqueue" => runStatus[request.run] # "ready"
    /\ \A i \in Items : JobInv(i)
    /\ \A w \in Workers : TaskInv(w)

(* Until the first request has filled the queue nothing happens.           *)
UntilStarted ==
    /\ requests = 0 => request = NoRequest /\ \A r \in Runs : runStatus[r] = "ready"
    /\ requests = 0 \/ request # NoRequest =>
           /\ \A i \in Items : job[i] = "none" /\ itemStatus[i] = "pending"
           /\ \A w \in Workers : pc[w] = "idle"

ToBeClosed(r) ==
    /\ runStatus[r] = "running" /\ request = NoRequest
    /\ ItemsOf(r) # {} /\ \A i \in ItemsOf(r) : itemStatus[i] \in settled

(* A handler that has looked at its run leaves none that is to be closed.  *)
ClosingInv ==
    /\ UntilStarted
    /\ \A w \in Workers : pc[w] = "returning" => ~ToBeClosed(RunOf[task[w]])
    /\ \A r \in Runs : ToBeClosed(r) => \E i \in ItemsOf(r) : WillFinalize(i)

Attended == QueueInv /\ (requests <= 1 => ClosingInv)

(* A handler goes on, without ending and without closing its run.          *)
Proceeds(w) ==
    /\ pc[w] \notin {"idle", "finalizing"} /\ pc'[w] # "idle"
    /\ UNCHANGED <<runStatus, job, task, request, requests>>
    /\ \A v \in Workers : v # w => pc'[v] = pc[v]
    /\ \A i \in Items : i # task[w] => itemStatus'[i] = itemStatus[i]
    /\ itemStatus'[task[w]] # itemStatus[task[w]] =>
           pc[w] \in Critical /\ itemStatus[task[w]] \in active
    /\ itemStatus'[task[w]] \in settled =>
           pc'[w] \in {"loading", "finalizing"} \/ runStatus[RunOf[task[w]]] # "running"
    /\ pc'[w] \in {"finalizing", "returning"} => itemStatus'[task[w]] \in settled
    /\ pc'[w] = "returning" => runStatus[RunOf[task[w]]] # "running"
    /\ pc'[w] = "throwing" => itemStatus'[task[w]] \in active

LEMMA ProceedsQueue ==
    ASSUME IInv, TypeOK', QueueInv, NEW w \in Workers, Proceeds(w)
    PROVE  QueueInv'
<1>1. /\ pc[w] # "idle" /\ task[w] \in Items /\ job[task[w]] # "none"
      /\ UNCHANGED <<runStatus, job, task, request>>
  BY AtWork DEF Proceeds, QueueInv, TaskInv
<1>2. ASSUME NEW i \in Items PROVE JobInv(i)'
  <2>1. JobInv(i)
    BY DEF QueueInv
  <2>2. CASE itemStatus'[i] = itemStatus[i]
    BY <1>1, <2>1, <2>2 DEF JobInv, BeingEnqueued
  <2>3. CASE itemStatus'[i] # itemStatus[i]
    <3>1. i = task[w] /\ itemStatus[i] \in active
      BY <2>3 DEF Proceeds
    <3>2. job[i] # "completed" /\ job[i] # "none"
      BY <1>1, <2>1, <3>1 DEF JobInv, active, settled
    <3>3. QED
      BY <1>1, <2>1, <3>2 DEF JobInv
  <2>4. QED
    BY <2>2, <2>3
<1>3. ASSUME NEW v \in Workers PROVE TaskInv(v)'
  <2>1. TaskInv(v)
    BY DEF QueueInv
  <2>2. CASE v = w
    BY <1>1, <2>2 DEF Proceeds, TaskInv
  <2>3. CASE v # w
    <3>1. pc'[v] = pc[v]
      BY <2>3 DEF Proceeds
    <3>2. CASE pc[v] \in {"finalizing", "returning", "throwing"}
      <4>1. pc[v] \in Critical /\ pc[v] # "idle"
        BY <3>2 DEF Critical
      <4>2. pc[w] \notin Critical /\ task[v] \in Items
        BY <2>3, <4>1, Alone, AtWork
      <4>3. itemStatus'[task[v]] = itemStatus[task[v]]
        BY <4>2 DEF Proceeds
      <4>4. QED
        BY <1>1, <2>1, <3>1, <4>3 DEF TaskInv
    <3>3. CASE pc[v] \notin {"finalizing", "returning", "throwing"}
      BY <1>1, <2>1, <3>1, <3>3 DEF TaskInv
    <3>4. QED
      BY <3>2, <3>3
  <2>4. QED
    BY <2>2, <2>3
<1>4. QED
  BY <1>1, <1>2, <1>3 DEF QueueInv

LEMMA ProceedsClosing ==
    ASSUME IInv, TypeOK', QueueInv, ClosingInv, NEW w \in Workers, Proceeds(w)
    PROVE  ClosingInv'
<1>1. /\ pc[w] # "idle" /\ task[w] \in Items /\ job[task[w]] # "none"
      /\ UNCHANGED <<runStatus, job, task, request, requests>>
  BY AtWork DEF Proceeds, QueueInv, TaskInv
<1>2. requests # 0 /\ request = NoRequest
  BY <1>1 DEF ClosingInv, UntilStarted
<1>3. UntilStarted'
  BY <1>1, <1>2 DEF UntilStarted
<1>4. \A r \in Runs : ToBeClosed(r)' =>
          \/ ToBeClosed(r) /\ \A i \in ItemsOf(r) : itemStatus'[i] = itemStatus[i]
          \/ task[w] \in ItemsOf(r) /\ itemStatus[task[w]] \in active
  BY <1>1 DEF ToBeClosed, ItemsOf, Proceeds
<1>5. ASSUME NEW v \in Workers, pc'[v] = "returning" PROVE ~ToBeClosed(RunOf[task[v]])'
  <2>1. CASE v = w
    BY <1>1, <1>5, <2>1 DEF Proceeds, ToBeClosed
  <2>2. CASE v # w
    <3>1. pc[v] = "returning" /\ pc[v] \in Critical
      BY <1>5, <2>2 DEF Proceeds, Critical
    <3>2. pc[w] \notin Critical /\ task[v] \in Items /\ RunOf[task[v]] \in Runs
      BY <2>2, <3>1, Alone, AtWork
    <3>3. \A i \in Items : itemStatus'[i] = itemStatus[i]
      BY <3>2 DEF Proceeds
    <3>4. ~ToBeClosed(RunOf[task[v]])
      BY <3>1 DEF ClosingInv
    <3>5. QED
      BY <1>1, <3>3, <3>4 DEF ToBeClosed, ItemsOf
  <2>3. QED
    BY <2>1, <2>2
<1>6. ASSUME NEW r \in Runs, ToBeClosed(r)' PROVE \E i \in ItemsOf(r) : WillFinalize(i)'
  <2>1. CASE task[w] \in ItemsOf(r) /\ itemStatus[task[w]] \in active
    <3>1. itemStatus'[task[w]] \in settled /\ runStatus[RunOf[task[w]]] = "running"
      BY <1>1, <1>6, <2>1 DEF ToBeClosed, ItemsOf
    <3>2. pc'[w] \in {"loading", "finalizing"}
      BY <3>1 DEF Proceeds
    <3>3. job[task[w]] \in {"created", "active", "failed"}
      <4>1. job[task[w]] # "completed"
        BY <1>1, <2>1 DEF QueueInv, JobInv, active, settled
      <4>2. QED
        BY <1>1, <4>1 DEF IInv, TypeOK
    <3>4. WillFinalize(task[w])'
      BY <1>1, <3>2, <3>3 DEF WillFinalize
    <3>5. QED
      BY <1>1, <2>1, <3>4
  <2>2. CASE ToBeClosed(r) /\ \A i \in ItemsOf(r) : itemStatus'[i] = itemStatus[i]
    <3>1. PICK i \in ItemsOf(r) : WillFinalize(i)
      BY <2>2 DEF ClosingInv
    <3>2. i \in Items /\ RunOf[i] = r /\ itemStatus'[i] \in settled /\ runStatus[r] = "running"
      BY <1>6, <2>2 DEF ToBeClosed, ItemsOf
    <3>3. CASE job[i] \in {"created", "failed"}
      BY <1>1, <3>3 DEF WillFinalize
    <3>4. CASE IsOrphan(i)
      <4>1. IsOrphan(i)'
        BY <1>1, <3>4 DEF IsOrphan, Proceeds
      <4>2. QED
        BY <4>1 DEF WillFinalize
    <3>5. ASSUME NEW v \in Workers, job[i] = "active", task[v] = i,
                 pc[v] \in {"waiting", "loading", "finalizing"}
          PROVE  WillFinalize(i)'
      <4>1. CASE v = w
        <5>1. pc'[w] \in {"loading", "finalizing"}
          BY <3>2, <3>5, <4>1 DEF Proceeds
        <5>2. QED
          BY <1>1, <3>5, <4>1, <5>1 DEF WillFinalize
      <4>2. CASE v # w
        <5>1. pc'[v] = pc[v]
          BY <4>2 DEF Proceeds
        <5>2. QED
          BY <1>1, <3>5, <5>1 DEF WillFinalize
      <4>3. QED
        BY <4>1, <4>2
    <3>6. QED
      BY <3>1, <3>3, <3>4, <3>5 DEF WillFinalize
  <2>3. QED
    BY <1>4, <1>6, <2>1, <2>2
<1>7. QED
  BY <1>3, <1>5, <1>6 DEF ClosingInv, ItemsOf

(* Giving up an attempt fails the item and closes, or throws for a retry.  *)
LEMMA GiveUpProceeds ==
    ASSUME IInv, TypeOK', NEW w \in Workers, pc[w] \in {"proving", "signing"}, GiveUpAttempt(w),
           UNCHANGED <<runStatus, job, task, request, requests>>
    PROVE  Proceeds(w)
<1>1. /\ pc[w] \in Unprepared /\ pc[w] \notin {"idle", "finalizing"}
      /\ pc[w] \in Critical
  BY DEF Unprepared, Critical
<1>2. task[w] \in Items /\ itemStatus[task[w]] \in active
  BY <1>1, WhileUnprepared DEF IInv, TypeOK, active, settled
<1>3. \A v \in Workers : v # w => pc'[v] = pc[v]
  BY DEF GiveUpAttempt, IInv, TypeOK
<1>4. \/ pc'[w] = "finalizing" /\ itemStatus' = [itemStatus EXCEPT ![task[w]] = "failed"]
      \/ pc'[w] = "throwing" /\ itemStatus' = [itemStatus EXCEPT ![task[w]] = "pending"]
  BY DEF GiveUpAttempt, SetItem, item, IInv, TypeOK
<1>5. /\ \A i \in Items : i # task[w] => itemStatus'[i] = itemStatus[i]
      /\ \/ pc'[w] = "finalizing" /\ itemStatus'[task[w]] = "failed"
         \/ pc'[w] = "throwing" /\ itemStatus'[task[w]] = "pending"
  BY <1>2, <1>4 DEF IInv, TypeOK
<1>6. QED
  BY <1>1, <1>2, <1>3, <1>5 DEF Proceeds, active, settled

LEMMA LoadProceeds ==
    ASSUME IInv, TypeOK', QueueInv, NEW w \in Workers, Load(w)
    PROVE  Proceeds(w)
<1> USE DEF dbVars, queueVars, operatorVars, Go, item, run
<1>1. /\ pc[w] = "loading" /\ pc[w] \in Critical /\ task[w] \in Items
      /\ UNCHANGED <<runStatus, job, task, request, requests>>
      /\ itemStatus[task[w]] \in active \cup settled
  <2>1. pc[w] = "loading" /\ UNCHANGED <<runStatus, job, task, request, requests>>
    BY DEF Load, LoadIdleRun, LoadSettled, LoadSubmitted, LoadHopeless, LoadNew, SetItem
  <2>2. task[w] \in Items
    BY <2>1, AtWork
  <2>3. QED
    BY <2>1, <2>2 DEF Critical, IInv, TypeOK, active, settled
<1>2. \A v \in Workers : v # w => pc'[v] = pc[v]
  BY DEF IInv, TypeOK, Load, LoadIdleRun, LoadSettled, LoadSubmitted, LoadHopeless, LoadNew
<1>3. CASE LoadIdleRun(w)
  <2>1. pc'[w] = "returning" /\ UNCHANGED itemStatus
    BY <1>3 DEF LoadIdleRun, IInv, TypeOK
  <2>2. runStatus[RunOf[task[w]]] \in {"complete", "failed"}
    BY <1>1, <1>3, PayrollAssumption DEF LoadIdleRun, Runnable, QueueInv, IInv, TypeOK
  <2>3. itemStatus[task[w]] \in settled
    BY <1>1, <2>2, PayrollAssumption DEF IInv, RunNotSettledEarly, ItemsOf
  <2>4. QED
    BY <1>1, <1>2, <2>1, <2>2, <2>3 DEF Proceeds
<1>4. CASE LoadSettled(w)
  <2>1. pc'[w] = "finalizing" /\ UNCHANGED itemStatus /\ itemStatus[task[w]] \in settled
    BY <1>4 DEF LoadSettled, IInv, TypeOK
  <2>2. QED
    BY <1>1, <1>2, <2>1 DEF Proceeds
<1>5. CASE LoadSubmitted(w) \/ LoadNew(w)
  <2>1. pc'[w] \in {"sending", "starting"} /\ UNCHANGED itemStatus /\ itemStatus[task[w]] \notin settled
    BY <1>5 DEF LoadSubmitted, LoadNew, IInv, TypeOK
  <2>2. QED
    BY <1>1, <1>2, <2>1 DEF Proceeds
<1>6. CASE LoadHopeless(w)
  <2>1. /\ pc'[w] = "finalizing" /\ itemStatus[task[w]] \in active
        /\ itemStatus' = [itemStatus EXCEPT ![task[w]] = "failed"]
    BY <1>1, <1>6 DEF LoadHopeless, SetItem, IInv, TypeOK
  <2>2. itemStatus'[task[w]] \in settled
        /\ \A i \in Items : i # task[w] => itemStatus'[i] = itemStatus[i]
    BY <1>1, <2>1 DEF IInv, TypeOK, settled
  <2>3. QED
    BY <1>1, <1>2, <2>1, <2>2 DEF Proceeds
<1>7. QED
  BY <1>3, <1>4, <1>5, <1>6 DEF Load

(* What is done with a transaction: stored, sent, confirmed.               *)
LEMMA SettleProceeds ==
    ASSUME IInv, TypeOK', NEW w \in Workers,
           \/ Store(w) \/ Send(w) \/ SendFails(w)
           \/ Confirm(w) \/ ConfirmReverted(w) \/ ConfirmTimesOut(w)
    PROVE  Proceeds(w)
<1> USE DEF queueVars, operatorVars, Go, item, SetItem, SetSubmitted
<1>1. /\ pc[w] \in {"storing", "sending", "confirming"}
      /\ UNCHANGED <<runStatus, job, task, request, requests>>
  BY DEF Store, Send, SendFails, Confirm, ConfirmReverted, ConfirmTimesOut
<1>2. pc[w] \in Critical /\ task[w] \in Items /\ itemStatus[task[w]] \in active
  <2>1. pc[w] \in Unprepared \cup Sending /\ pc[w] \in Critical
    BY <1>1 DEF Unprepared, Sending, Critical
  <2>2. task[w] \in Items /\ itemStatus[task[w]] \notin settled
    BY <2>1, WhileUnprepared, WhileSending
  <2>3. QED
    BY <2>1, <2>2 DEF IInv, TypeOK, active, settled
<1>3. \A v \in Workers : v # w => pc'[v] = pc[v]
  BY DEF Store, Send, SendFails, Confirm, ConfirmReverted, ConfirmTimesOut, IInv, TypeOK
<1>4. PICK status \in active \cup settled :
          /\ itemStatus' = [itemStatus EXCEPT ![task[w]] = status]
          /\ \/ status \in settled /\ pc'[w] = "finalizing"
             \/ status \in active /\ pc'[w] \in {"sending", "confirming", "throwing"}
  <2> DEFINE Writes(status) ==
          /\ itemStatus' = [itemStatus EXCEPT ![task[w]] = status]
          /\ \/ status \in settled /\ pc'[w] = "finalizing"
             \/ status \in active /\ pc'[w] \in {"sending", "confirming", "throwing"}
  <2>1. CASE Store(w) \/ Send(w) \/ SendFails(w) \/ ConfirmTimesOut(w)
    <3>1. Writes("submitted")
      BY <2>1 DEF Store, Send, SendFails, ConfirmTimesOut, IInv, TypeOK, active
    <3>2. QED
      BY <3>1 DEF active
  <2>2. CASE Confirm(w)
    <3>1. Writes("confirmed")
      BY <2>2 DEF Confirm, IInv, TypeOK, settled
    <3>2. QED
      BY <3>1 DEF settled
  <2>3. CASE ConfirmReverted(w)
    <3>1. Writes("failed")
      BY <2>3 DEF ConfirmReverted, IInv, TypeOK, settled
    <3>2. QED
      BY <3>1 DEF settled
  <2>4. QED
    BY <2>1, <2>2, <2>3
<1>5. /\ itemStatus'[task[w]] = status
      /\ \A i \in Items : i # task[w] => itemStatus'[i] = itemStatus[i]
  BY <1>2, <1>4 DEF IInv, TypeOK
<1>6. status \in active => status \notin settled
  BY DEF active, settled
<1>7. QED
  BY <1>1, <1>2, <1>3, <1>4, <1>5, <1>6 DEF Proceeds

(* A run whose items are worked on was started, so that Start changes no   *)
(* run.                                                                    *)
LEMMA WorkProceeds ==
    ASSUME IInv, TypeOK', QueueInv, NEW w \in Workers,
           \/ TakeLock(w) \/ Load(w) \/ Start(w) \/ Prove(w) \/ Sign(w) \/ SignFails(w) \/ Store(w)
           \/ Send(w) \/ Confirm(w) \/ ConfirmReverted(w) \/ Disturb(w)
    PROVE  Proceeds(w)
<1> USE DEF dbVars, queueVars, operatorVars, Go, item, run
<1>1. CASE TakeLock(w)
  <2>1. /\ pc[w] = "waiting" /\ pc'[w] = "loading" /\ \A v \in Workers : v # w => pc'[v] = pc[v]
        /\ UNCHANGED <<itemStatus, runStatus, job, task, request, requests>>
    BY <1>1 DEF TakeLock, IInv, TypeOK
  <2>2. QED
    BY <2>1 DEF Proceeds
<1>2. CASE Start(w)
  <2>1. /\ pc[w] = "starting" /\ pc[w] \in Unprepared /\ pc[w] \in Critical
        /\ task[w] \in Items /\ RunOf[task[w]] \in Runs
    BY <1>2, AtWork DEF Start, Unprepared, Critical
  <2>2. itemStatus[task[w]] \in active
    BY <2>1, WhileUnprepared DEF IInv, TypeOK, active, settled
  <2>3. runStatus[RunOf[task[w]]] # "ready"
    BY <2>1 DEF QueueInv, TaskInv, JobInv
  <2>4. runStatus' = runStatus
    BY <1>2, <2>1, <2>3 DEF Start, RunsIfStartable, IInv, TypeOK
  <2>5. /\ pc'[w] = "proving" /\ itemStatus'[task[w]] = "proving"
        /\ \A v \in Workers : v # w => pc'[v] = pc[v]
        /\ \A i \in Items : i # task[w] => itemStatus'[i] = itemStatus[i]
        /\ UNCHANGED <<job, task, request, requests>>
    BY <1>2, <2>1 DEF Start, IInv, TypeOK
  <2>6. QED
    BY <2>1, <2>2, <2>4, <2>5 DEF Proceeds, settled
<1>3. CASE Prove(w) \/ Sign(w)
  <2>1. /\ pc[w] \in {"proving", "signing"} /\ pc'[w] \in {"signing", "storing"}
        /\ \A v \in Workers : v # w => pc'[v] = pc[v]
        /\ UNCHANGED <<itemStatus, runStatus, job, task, request, requests>>
    BY <1>3 DEF Prove, Sign, IInv, TypeOK
  <2>2. itemStatus[task[w]] \notin settled
    BY <2>1, WhileUnprepared DEF Unprepared
  <2>3. QED
    BY <2>1, <2>2 DEF Proceeds
<1>4. CASE SignFails(w) \/ ProveFails(w)
  <2>1. /\ pc[w] \in {"proving", "signing"} /\ GiveUpAttempt(w)
        /\ UNCHANGED <<runStatus, job, task, request, requests>>
    BY <1>4 DEF SignFails, ProveFails, GiveUpAttempt, SetItem
  <2>2. QED
    BY <2>1, GiveUpProceeds
<1>5. QED
  BY <1>1, <1>2, <1>3, <1>4, LoadProceeds, SettleProceeds DEF Disturb

(* Someone still sees to an item whose job and handlers are the same.      *)
LEMMA StillFinalizes ==
    ASSUME NEW i \in Items, WillFinalize(i), job'[i] = job[i],
           \A v \in Workers :
               \/ pc'[v] = pc[v] /\ task'[v] = task[v]
               \/ pc'[v] = "idle" /\ (pc[v] = "idle" \/ task[v] # i)
               \/ pc[v] = "idle" /\ task'[v] # i
    PROVE  WillFinalize(i)'
<1>1. CASE job[i] \in {"created", "failed"}
  BY <1>1 DEF WillFinalize
<1>2. CASE IsOrphan(i)
  <2>1. IsOrphan(i)'
    BY <1>2 DEF IsOrphan
  <2>2. QED
    BY <2>1 DEF WillFinalize
<1>3. ASSUME NEW v \in Workers, job[i] = "active", task[v] = i,
             pc[v] \in {"waiting", "loading", "finalizing"}
      PROVE  WillFinalize(i)'
  <2>1. pc'[v] = pc[v] /\ task'[v] = task[v]
    BY <1>3
  <2>2. QED
    BY <1>3, <2>1 DEF WillFinalize
<1>4. QED
  BY <1>1, <1>2, <1>3 DEF WillFinalize

LEMMA FetchJobAttended ==
    ASSUME IInv, TypeOK', Attended, NEW w \in Workers, NEW i \in Items, FetchJob(w, i)
    PROVE  Attended'
<1> USE DEF dbVars, operatorVars
<1>1. /\ pc[w] = "idle" /\ pc'[w] = "waiting" /\ task'[w] = i
      /\ job[i] = "created" /\ job'[i] = "active"
      /\ \A v \in Workers : v # w => pc'[v] = pc[v] /\ task'[v] = task[v]
      /\ \A j \in Items : j # i => job'[j] = job[j]
      /\ UNCHANGED <<runStatus, itemStatus, request, requests>>
  BY DEF FetchJob, IInv, TypeOK
<1>2. QueueInv'
  <2>1. ASSUME NEW j \in Items PROVE JobInv(j)'
    <3>1. JobInv(j) /\ JobInv(i)
      BY DEF Attended, QueueInv
    <3>2. QED
      BY <1>1, <3>1 DEF JobInv, BeingEnqueued
  <2>2. ASSUME NEW v \in Workers PROVE TaskInv(v)'
    <3>1. TaskInv(v) /\ (pc[v] # "idle" => task[v] \in Items)
      BY AtWork DEF Attended, QueueInv
    <3>2. CASE v = w
      BY <1>1, <3>2 DEF TaskInv
    <3>3. CASE v # w
      <4>1. pc'[v] = pc[v] /\ task'[v] = task[v]
        BY <1>1, <3>3
      <4>2. pc[v] # "idle" => job'[task[v]] # "none"
        BY <1>1, <3>1 DEF TaskInv
      <4>3. QED
        BY <1>1, <3>1, <4>1, <4>2 DEF TaskInv
    <3>4. QED
      BY <3>2, <3>3
  <2>3. QED
    BY <1>1, <2>1, <2>2 DEF Attended, QueueInv
<1>3. ASSUME requests <= 1 PROVE ClosingInv'
  <2>1. ClosingInv
    BY <1>3 DEF Attended
  <2>2. requests # 0 /\ request = NoRequest
    BY <1>1, <2>1 DEF ClosingInv, UntilStarted
  <2>3. \A r \in Runs : ToBeClosed(r)' <=> ToBeClosed(r)
    BY <1>1 DEF ToBeClosed
  <2>4. ASSUME NEW v \in Workers, pc'[v] = "returning" PROVE ~ToBeClosed(RunOf[task[v]])' /\ task'[v] = task[v]
    <3>1. v # w
      BY <1>1, <2>4
    <3>2. pc[v] = "returning" /\ task'[v] = task[v]
      BY <1>1, <2>4, <3>1
    <3>3. RunOf[task[v]] \in Runs /\ ~ToBeClosed(RunOf[task[v]])
      BY <2>1, <3>2, AtWork DEF ClosingInv
    <3>4. QED
      BY <2>3, <3>2, <3>3
  <2>5. ASSUME NEW r \in Runs, ToBeClosed(r)' PROVE \E j \in ItemsOf(r) : WillFinalize(j)'
    <3>1. PICK j \in ItemsOf(r) : WillFinalize(j)
      BY <2>1, <2>3, <2>5 DEF ClosingInv
    <3>2. j \in Items
      BY <3>1 DEF ItemsOf
    <3>3. CASE j = i
      BY <1>1, <3>1, <3>3 DEF WillFinalize
    <3>4. CASE j # i
      BY <1>1, <3>1, <3>2, <3>4, StillFinalizes
    <3>5. QED
      BY <3>1, <3>3, <3>4
  <2>6. QED
    BY <1>1, <2>2, <2>4, <2>5 DEF ClosingInv, UntilStarted, ItemsOf, ToBeClosed
<1>4. QED
  BY <1>1, <1>2, <1>3 DEF Attended

LEMMA FinalizeAttended ==
    ASSUME IInv, TypeOK', Attended, NEW w \in Workers, Finalize(w)
    PROVE  Attended'
<1> USE DEF dbVars, queueVars, operatorVars, Go, run
<1>1. /\ pc[w] = "finalizing" /\ pc'[w] = "returning" /\ pc[w] \in Critical
      /\ task[w] \in Items /\ RunOf[task[w]] \in Runs
      /\ \A v \in Workers : v # w => pc'[v] = pc[v]
      /\ UNCHANGED <<itemStatus, job, task, request, requests>>
  <2>1. /\ pc[w] = "finalizing" /\ pc'[w] = "returning"
        /\ \A v \in Workers : v # w => pc'[v] = pc[v]
        /\ UNCHANGED <<itemStatus, job, task, request, requests>>
    BY DEF Finalize, IInv, TypeOK
  <2>2. QED
    BY <2>1, AtWork DEF Critical
<1>2. /\ \A r \in Runs : runStatus'[r] = runStatus[r] \/ runStatus'[r] \in {"complete", "failed"}
      /\ \A r \in Runs : r # RunOf[task[w]] => runStatus'[r] = runStatus[r]
      /\ ~ToBeClosed(RunOf[task[w]])'
  <2>1. CASE \E i \in ItemsOf(run(w)) : IsOutstanding(i)
    <3>1. runStatus' = runStatus
      BY <2>1 DEF Finalize
    <3>2. PICK i \in ItemsOf(run(w)) : IsOutstanding(i)
      BY <2>1
    <3>3. itemStatus'[i] \notin settled /\ i \in ItemsOf(run(w))
      BY <1>1, <3>2 DEF IsOutstanding, active, settled
    <3>4. QED
      BY <1>1, <3>1, <3>3 DEF ToBeClosed, ItemsOf
  <2>2. CASE ~\E i \in ItemsOf(run(w)) : IsOutstanding(i)
    <3>1. runStatus' = [runStatus EXCEPT ![run(w)] = FinalizedStatus(run(w))]
      BY <2>2 DEF Finalize
    <3>2. FinalizedStatus(run(w)) \in {"complete", "failed"}
      BY DEF FinalizedStatus
    <3>3. runStatus'[run(w)] \in {"complete", "failed"}
      BY <1>1, <3>1, <3>2 DEF IInv, TypeOK
    <3>4. QED
      BY <1>1, <3>1, <3>2, <3>3 DEF IInv, TypeOK, ToBeClosed
  <2>3. QED
    BY <2>1, <2>2
<1>3. \A r \in Runs : ToBeClosed(r)' => r # RunOf[task[w]] /\ ToBeClosed(r)
  BY <1>1, <1>2 DEF ToBeClosed
<1>4. QueueInv'
  <2>1. ASSUME NEW i \in Items PROVE JobInv(i)'
    <3>1. JobInv(i) /\ RunOf[i] \in Runs
      BY PayrollAssumption DEF Attended, QueueInv
    <3>2. QED
      BY <1>1, <1>2, <3>1 DEF JobInv, BeingEnqueued
  <2>2. ASSUME NEW v \in Workers PROVE TaskInv(v)'
    BY <1>1 DEF Attended, QueueInv, TaskInv
  <2>3. request # NoRequest => request.run \in Runs
    BY DEF IInv, TypeOK, Requests
  <2>4. QED
    BY <1>1, <1>2, <2>1, <2>2, <2>3 DEF Attended, QueueInv
<1>5. ASSUME requests <= 1 PROVE ClosingInv'
  <2>1. ClosingInv
    BY <1>5 DEF Attended
  <2>2. requests # 0 /\ request = NoRequest
    BY <1>1, <2>1 DEF ClosingInv, UntilStarted
  <2>3. ASSUME NEW v \in Workers, pc'[v] = "returning" PROVE ~ToBeClosed(RunOf[task[v]])'
    <3>1. CASE v = w
      BY <1>2, <3>1
    <3>2. CASE v # w
      <4>1. pc[v] = "returning" /\ pc[v] \in Critical
        BY <1>1, <2>3, <3>2 DEF Critical
      <4>2. QED
        BY <1>1, <3>2, <4>1, Alone
    <3>3. QED
      BY <3>1, <3>2
  <2>4. ASSUME NEW r \in Runs, ToBeClosed(r)' PROVE \E i \in ItemsOf(r) : WillFinalize(i)'
    <3>1. r # RunOf[task[w]] /\ ToBeClosed(r)
      BY <1>3, <2>4
    <3>2. PICK i \in ItemsOf(r) : WillFinalize(i)
      BY <2>1, <3>1 DEF ClosingInv
    <3>3. i \in Items /\ i # task[w]
      BY <3>1, <3>2 DEF ItemsOf
    <3>4. CASE job[i] \in {"created", "failed"}
      BY <1>1, <3>4 DEF WillFinalize
    <3>5. CASE IsOrphan(i)
      <4>1. IsOrphan(i)'
        BY <1>1, <3>3, <3>5 DEF IsOrphan
      <4>2. QED
        BY <4>1 DEF WillFinalize
    <3>6. ASSUME NEW v \in Workers, job[i] = "active", task[v] = i,
                 pc[v] \in {"waiting", "loading", "finalizing"}
          PROVE  WillFinalize(i)'
      <4>1. pc'[v] = pc[v]
        BY <1>1, <3>3, <3>6
      <4>2. QED
        BY <1>1, <3>6, <4>1 DEF WillFinalize
    <3>7. QED
      BY <3>2, <3>4, <3>5, <3>6 DEF WillFinalize
  <2>5. QED
    BY <1>1, <2>2, <2>3, <2>4 DEF ClosingInv, UntilStarted, ItemsOf
<1>6. QED
  BY <1>1, <1>4, <1>5 DEF Attended

(* A handler ends: none of its run is to be closed by it any more.         *)
LEMMA EndAttended ==
    ASSUME IInv, TypeOK', Attended, NEW w \in Workers, Return(w) \/ Throw(w)
    PROVE  Attended'
<1> USE DEF dbVars, operatorVars, Go, item
<1>1. /\ pc[w] \in {"returning", "throwing"} /\ pc'[w] = "idle"
      /\ task[w] \in Items /\ RunOf[task[w]] \in Runs
      /\ \A v \in Workers : v # w => pc'[v] = pc[v]
      /\ UNCHANGED <<runStatus, itemStatus, task, request, requests>>
  <2>1. /\ pc[w] \in {"returning", "throwing"} /\ pc'[w] = "idle"
        /\ \A v \in Workers : v # w => pc'[v] = pc[v]
        /\ UNCHANGED <<runStatus, itemStatus, task, request, requests>>
    BY DEF Return, Throw, IInv, TypeOK
  <2>2. QED
    BY <2>1, AtWork
<1>2. /\ TaskInv(w) /\ job[task[w]] # "none"
      /\ \A i \in Items : JobInv(i)
  BY <1>1 DEF Attended, QueueInv, TaskInv
<1>3. /\ \A i \in Items : i # task[w] => job'[i] = job[i]
      /\ job'[task[w]] # "none"
      /\ job'[task[w]] = "completed" => itemStatus[task[w]] \in settled
  <2>1. CASE Return(w)
    <3>1. pc[w] = "returning"
          /\ job' = [job EXCEPT ![task[w]] = IF @ = "active" THEN "completed" ELSE @]
      BY <2>1 DEF Return
    <3>2. QED
      BY <1>1, <1>2, <3>1 DEF IInv, TypeOK, TaskInv
  <2>2. CASE Throw(w)
    <3>1. \/ job' = job
          \/ job' = [job EXCEPT ![task[w]] = "created"]
          \/ job' = [job EXCEPT ![task[w]] = "failed"]
      BY <2>2 DEF Throw, RetryJob, queueVars
    <3>2. QED
      BY <1>1, <1>2, <3>1 DEF IInv, TypeOK, JobInv
  <2>3. QED
    BY <2>1, <2>2
<1>4. QueueInv'
  <2>1. ASSUME NEW i \in Items PROVE JobInv(i)'
    <3>1. JobInv(i) /\ JobInv(task[w])
      BY <1>1, <1>2
    <3>2. QED
      BY <1>1, <1>2, <1>3, <3>1 DEF JobInv, BeingEnqueued
  <2>2. ASSUME NEW v \in Workers PROVE TaskInv(v)'
    <3>1. TaskInv(v) /\ (pc[v] # "idle" => task[v] \in Items)
      BY AtWork DEF Attended, QueueInv
    <3>2. pc'[v] # "idle" => pc[v] = pc'[v]
      BY <1>1
    <3>3. pc[v] # "idle" => job'[task[v]] # "none"
      BY <1>3, <3>1 DEF TaskInv
    <3>4. QED
      BY <1>1, <3>1, <3>2, <3>3 DEF TaskInv
  <2>3. QED
    BY <1>1, <2>1, <2>2 DEF Attended, QueueInv
<1>5. ASSUME requests <= 1 PROVE ClosingInv'
  <2>1. ClosingInv
    BY <1>5 DEF Attended
  <2>2. requests # 0 /\ request = NoRequest
    BY <1>1, <2>1 DEF ClosingInv, UntilStarted
  <2>3. \A r \in Runs : ToBeClosed(r)' <=> ToBeClosed(r)
    BY <1>1 DEF ToBeClosed
  <2>4. ~ToBeClosed(RunOf[task[w]])
    <3>1. CASE pc[w] = "returning"
      BY <2>1, <3>1 DEF ClosingInv
    <3>2. CASE pc[w] = "throwing"
      BY <1>1, <1>2, <3>2 DEF TaskInv, ToBeClosed, ItemsOf, active, settled
    <3>3. QED
      BY <1>1, <3>1, <3>2
  <2>5. ASSUME NEW v \in Workers, pc'[v] = "returning" PROVE ~ToBeClosed(RunOf[task[v]])'
    <3>1. pc[v] = "returning"
      BY <1>1, <2>5
    <3>2. RunOf[task[v]] \in Runs /\ ~ToBeClosed(RunOf[task[v]])
      BY <2>1, <3>1, AtWork DEF ClosingInv
    <3>3. QED
      BY <1>1, <3>2 DEF ToBeClosed
  <2>6. ASSUME NEW r \in Runs, ToBeClosed(r)' PROVE \E i \in ItemsOf(r) : WillFinalize(i)'
    <3>1. ToBeClosed(r) /\ r # RunOf[task[w]]
      BY <2>3, <2>4, <2>6
    <3>2. PICK i \in ItemsOf(r) : WillFinalize(i)
      BY <2>1, <3>1 DEF ClosingInv
    <3>3. i \in Items /\ i # task[w]
      BY <3>1, <3>2 DEF ItemsOf
    <3>4. WillFinalize(i)'
      BY <1>1, <1>3, <3>2, <3>3, StillFinalizes
    <3>5. QED
      BY <3>2, <3>4
  <2>7. QED
    BY <1>1, <2>2, <2>5, <2>6 DEF ClosingInv, UntilStarted, ItemsOf
<1>6. QED
  BY <1>1, <1>4, <1>5 DEF Attended

(* The queue takes back a job that outlived its time.                      *)
LEMMA ExpireAttended ==
    ASSUME IInv, TypeOK', Attended, NEW i \in Items, ExpireOrphan(i) \/ ExpireSlow(i)
    PROVE  Attended'
<1> USE DEF dbVars, workerVars, operatorVars
<1>1. /\ job[i] = "active" /\ job'[i] \in {"created", "failed"}
      /\ \A j \in Items : j # i => job'[j] = job[j]
      /\ UNCHANGED <<runStatus, itemStatus, pc, task, request, requests>>
  <2>1. /\ job[i] = "active" /\ RetryJob(i)
        /\ UNCHANGED <<runStatus, itemStatus, pc, task, request, requests>>
    BY DEF ExpireOrphan, ExpireSlow, IsOrphan
  <2>2. job' = [job EXCEPT ![i] = "created"] \/ job' = [job EXCEPT ![i] = "failed"]
    BY <2>1 DEF RetryJob
  <2>3. QED
    BY <2>1, <2>2 DEF IInv, TypeOK
<1>2. QueueInv'
  <2>1. ASSUME NEW j \in Items PROVE JobInv(j)'
    <3>1. JobInv(j) /\ JobInv(i)
      BY DEF Attended, QueueInv
    <3>2. QED
      BY <1>1, <3>1 DEF JobInv, BeingEnqueued
  <2>2. ASSUME NEW v \in Workers PROVE TaskInv(v)'
    <3>1. TaskInv(v) /\ (pc[v] # "idle" => task[v] \in Items)
      BY AtWork DEF Attended, QueueInv
    <3>2. pc[v] # "idle" => job'[task[v]] # "none"
      BY <1>1, <3>1 DEF TaskInv
    <3>3. QED
      BY <1>1, <3>1, <3>2 DEF TaskInv
  <2>3. QED
    BY <1>1, <2>1, <2>2 DEF Attended, QueueInv
<1>3. ASSUME requests <= 1 PROVE ClosingInv'
  <2>1. ClosingInv
    BY <1>3 DEF Attended
  <2>2. requests # 0 /\ request = NoRequest
    BY <1>1, <2>1 DEF ClosingInv, UntilStarted
  <2>3. \A r \in Runs : ToBeClosed(r)' <=> ToBeClosed(r)
    BY <1>1 DEF ToBeClosed
  <2>4. ASSUME NEW v \in Workers, pc'[v] = "returning" PROVE ~ToBeClosed(RunOf[task[v]])'
    <3>1. RunOf[task[v]] \in Runs /\ ~ToBeClosed(RunOf[task[v]])
      BY <1>1, <2>1, <2>4, AtWork DEF ClosingInv
    <3>2. QED
      BY <1>1, <3>1 DEF ToBeClosed
  <2>5. ASSUME NEW r \in Runs, ToBeClosed(r)' PROVE \E j \in ItemsOf(r) : WillFinalize(j)'
    <3>1. PICK j \in ItemsOf(r) : WillFinalize(j)
      BY <2>1, <2>3, <2>5 DEF ClosingInv
    <3>2. j \in Items
      BY <3>1 DEF ItemsOf
    <3>3. WillFinalize(j)'
      <4>1. CASE j = i
        BY <1>1, <4>1 DEF WillFinalize
      <4>2. CASE j # i
        BY <1>1, <3>1, <3>2, <4>2, StillFinalizes
      <4>3. QED
        BY <4>1, <4>2
    <3>4. QED
      BY <3>1, <3>3
  <2>6. QED
    BY <1>1, <2>2, <2>4, <2>5 DEF ClosingInv, UntilStarted, ItemsOf
<1>4. QED
  BY <1>1, <1>2, <1>3 DEF Attended

(* The new process finds what the old one left: it puts in the queue what  *)
(* a request that died had not, and the jobs of dead handlers will expire. *)
LEMMA CrashAttended ==
    ASSUME IInv, TypeOK', Attended, Crash
    PROVE  Attended'
<1> DEFINE R == {r \in Runs : runStatus[r] = "running"}
<1>1. /\ \A w \in Workers : pc'[w] = "idle"
      /\ request' = NoRequest /\ job' = Enqueue(R)
      /\ UNCHANGED <<runStatus, itemStatus, task, requests>>
  BY DEF Crash, dbVars
<1>2. \A i \in Items :
          job'[i] = IF runStatus[RunOf[i]] = "running" /\ itemStatus[i] \in active /\ job[i] = "none"
                    THEN "created" ELSE job[i]
  BY <1>1, PayrollAssumption DEF Enqueue
<1>3. QueueInv'
  <2>1. ASSUME NEW i \in Items PROVE JobInv(i)'
    <3>1. JobInv(i)
      BY DEF Attended, QueueInv
    <3>2. QED
      BY <1>1, <1>2, <3>1 DEF JobInv
  <2>2. ASSUME NEW v \in Workers PROVE TaskInv(v)'
    BY <1>1 DEF TaskInv
  <2>3. QED
    BY <1>1, <2>1, <2>2 DEF Attended, QueueInv
<1>4. ASSUME requests <= 1 PROVE ClosingInv'
  <2>1. ClosingInv
    BY <1>4 DEF Attended
  <2>2. UntilStarted'
    <3>1. requests = 0 => \A i \in Items : job'[i] = job[i]
      BY <1>2, <2>1, PayrollAssumption DEF ClosingInv, UntilStarted
    <3>2. QED
      BY <1>1, <2>1, <3>1 DEF ClosingInv, UntilStarted
  <2>3. ASSUME NEW r \in Runs, ToBeClosed(r)' PROVE \E i \in ItemsOf(r) : WillFinalize(i)'
    <3>1. /\ runStatus[r] = "running" /\ ItemsOf(r) # {} /\ ItemsOf(r) \subseteq Items
          /\ \A i \in ItemsOf(r) : itemStatus[i] \in settled
      BY <1>1, <2>3 DEF ToBeClosed, ItemsOf
    <3>2. PICK j \in ItemsOf(r) : TRUE
      BY <3>1
    <3>3. itemStatus[j] # "pending" /\ j \in Items
      BY <3>1, <3>2 DEF settled
    <3>4. request = NoRequest
      BY <2>1, <3>3 DEF ClosingInv, UntilStarted
    <3>5. PICK i \in ItemsOf(r) : WillFinalize(i)
      BY <2>1, <3>1, <3>4 DEF ClosingInv, ToBeClosed
    <3>6. i \in Items /\ job[i] \in {"created", "active", "failed"}
      BY <3>1, <3>5 DEF WillFinalize, IsOrphan
    <3>7. job'[i] = job[i]
      BY <1>2, <3>6
    <3>8. WillFinalize(i)'
      BY <1>1, <3>6, <3>7 DEF WillFinalize, IsOrphan
    <3>9. QED
      BY <3>5, <3>8
  <2>4. QED
    BY <1>1, <2>2, <2>3 DEF ClosingInv, ItemsOf
<1>5. QED
  BY <1>1, <1>3, <1>4 DEF Attended

LEMMA RequestAttended ==
    ASSUME IInv, TypeOK', Attended, NEW op \in Operations, NEW r \in Runs, Request(op, r)
    PROVE  Attended'
<1>1. /\ request = NoRequest /\ request' = [op |-> op, run |-> r, at |-> "write"]
      /\ requests' = requests + 1 /\ requests \in Nat
      /\ UNCHANGED <<runStatus, itemStatus, job, pc, task>>
  BY DEF Request, dbVars, queueVars, workerVars, IInv, TypeOK
<1>2. request' # NoRequest /\ request'.at = "write"
  <2>1. request' \in Requests
    BY <1>1 DEF Requests
  <2>2. QED
    BY <1>1, <2>1, NoRequestAssumption
<1>3. QueueInv'
  <2>1. ASSUME NEW i \in Items PROVE JobInv(i)'
    BY <1>1 DEF Attended, QueueInv, JobInv, BeingEnqueued
  <2>2. ASSUME NEW v \in Workers PROVE TaskInv(v)'
    BY <1>1 DEF Attended, QueueInv, TaskInv
  <2>3. QED
    BY <1>1, <1>2, <2>1, <2>2 DEF Attended, QueueInv
<1>4. ASSUME requests' <= 1 PROVE ClosingInv'
  <2>1. requests = 0 /\ requests' # 0
    BY <1>1, <1>4
  <2>2. UntilStarted
    BY <2>1 DEF Attended, ClosingInv
  <2>3. UntilStarted' /\ \A w \in Workers : pc'[w] = "idle"
    BY <1>1, <2>1, <2>2 DEF UntilStarted
  <2>4. \A s \in Runs : ~ToBeClosed(s)'
    BY <1>2 DEF ToBeClosed
  <2>5. QED
    BY <2>3, <2>4 DEF ClosingInv
<1>5. QED
  BY <1>3, <1>4 DEF Attended

LEMMA WriteRequestAttended ==
    ASSUME IInv, TypeOK', "pause" \notin Operations, Attended, WriteRequest
    PROVE  Attended'
<1>1. /\ request # NoRequest /\ request \in Requests /\ request.run \in Runs
      /\ request.op # "pause" /\ request.at = "write"
  BY DEF WriteRequest, IInv, TypeOK, Requests
<1>2. /\ runStatus' = [runStatus EXCEPT ![request.run] = "running"]
      /\ request' = [request EXCEPT !.at = "enqueue"]
      /\ UNCHANGED <<itemStatus, job, pc, task, requests>>
  BY <1>1 DEF WriteRequest, queueVars, workerVars
<1>3. request' # NoRequest /\ request'.at = "enqueue" /\ request'.run = request.run
  <2>1. request' \in Requests /\ request'.at = "enqueue" /\ request'.run = request.run
    BY <1>1, <1>2 DEF Requests
  <2>2. QED
    BY <2>1, NoRequestAssumption
<1>4. /\ runStatus'[request.run] = "running"
      /\ \A r \in Runs : r # request.run => runStatus'[r] = runStatus[r]
  BY <1>1, <1>2 DEF IInv, TypeOK
<1>5. QueueInv'
  <2>1. ASSUME NEW i \in Items PROVE JobInv(i)'
    <3>1. JobInv(i) /\ RunOf[i] \in Runs /\ ~BeingEnqueued(RunOf[i])
      BY <1>1, PayrollAssumption DEF Attended, QueueInv, BeingEnqueued
    <3>2. CASE RunOf[i] = request.run
      BY <1>2, <1>3, <1>4, <3>1, <3>2 DEF JobInv, BeingEnqueued
    <3>3. CASE RunOf[i] # request.run
      BY <1>2, <1>4, <3>1, <3>3 DEF JobInv
    <3>4. QED
      BY <3>2, <3>3
  <2>2. ASSUME NEW v \in Workers PROVE TaskInv(v)'
    BY <1>2 DEF Attended, QueueInv, TaskInv
  <2>3. QED
    BY <1>3, <1>4, <2>1, <2>2 DEF Attended, QueueInv
<1>6. ASSUME requests <= 1 PROVE ClosingInv'
  <2>1. UntilStarted
    BY <1>6 DEF Attended, ClosingInv
  <2>2. requests # 0
    BY <1>1, <2>1 DEF UntilStarted
  <2>3. UntilStarted' /\ \A w \in Workers : pc'[w] = "idle"
    BY <1>1, <1>2, <2>1, <2>2 DEF UntilStarted
  <2>4. \A s \in Runs : ~ToBeClosed(s)'
    BY <1>3 DEF ToBeClosed
  <2>5. QED
    BY <2>3, <2>4 DEF ClosingInv
<1>7. QED
  BY <1>2, <1>5, <1>6 DEF Attended

LEMMA EnqueueRequestAttended ==
    ASSUME IInv, TypeOK', Attended, EnqueueRequest
    PROVE  Attended'
<1> DEFINE R == {request.run}
<1>1. /\ request # NoRequest /\ request.at = "enqueue"
      /\ job' = Enqueue(R) /\ request' = NoRequest
      /\ UNCHANGED <<runStatus, itemStatus, pc, task, requests>>
  BY DEF EnqueueRequest, dbVars, workerVars
<1>2. \A i \in Items :
          job'[i] = IF RunOf[i] = request.run /\ itemStatus[i] \in active /\ job[i] = "none"
                    THEN "created" ELSE job[i]
  BY <1>1 DEF Enqueue
<1>3. QueueInv'
  <2>1. runStatus[request.run] # "ready"
    BY <1>1 DEF Attended, QueueInv
  <2>2. ASSUME NEW i \in Items PROVE JobInv(i)'
    <3>1. JobInv(i)
      BY DEF Attended, QueueInv
    <3>2. QED
      BY <1>1, <1>2, <2>1, <3>1 DEF JobInv, BeingEnqueued
  <2>3. ASSUME NEW v \in Workers PROVE TaskInv(v)'
    <3>1. TaskInv(v) /\ (pc[v] # "idle" => task[v] \in Items)
      BY AtWork DEF Attended, QueueInv
    <3>2. pc[v] # "idle" => job'[task[v]] # "none"
      BY <1>2, <3>1 DEF TaskInv
    <3>3. QED
      BY <1>1, <3>1, <3>2 DEF TaskInv
  <2>4. QED
    BY <1>1, <2>2, <2>3 DEF Attended, QueueInv
<1>4. ASSUME requests <= 1 PROVE ClosingInv'
  <2>1. /\ requests # 0
        /\ \A i \in Items : itemStatus[i] = "pending"
        /\ \A w \in Workers : pc[w] = "idle"
    BY <1>1, <1>4 DEF Attended, ClosingInv, UntilStarted
  <2>2. UntilStarted'
    BY <1>1, <2>1 DEF UntilStarted
  <2>3. \A r \in Runs : ~ToBeClosed(r)'
    BY <1>1, <2>1 DEF ToBeClosed, ItemsOf, settled
  <2>4. QED
    BY <1>1, <2>1, <2>2, <2>3 DEF ClosingInv
<1>5. QED
  BY <1>1, <1>3, <1>4 DEF Attended

(* The chain and the treasury's deposits change nothing of this.           *)
LEMMA QuietAttended ==
    ASSUME Attended, UNCHANGED <<runStatus, itemStatus, job, pc, task, request, requests>>
    PROVE  Attended'
<1>1. QueueInv'
  <2>1. ASSUME NEW i \in Items PROVE JobInv(i)'
    BY DEF Attended, QueueInv, JobInv, BeingEnqueued
  <2>2. ASSUME NEW v \in Workers PROVE TaskInv(v)'
    BY DEF Attended, QueueInv, TaskInv
  <2>3. QED
    BY <2>1, <2>2 DEF Attended, QueueInv
<1>2. ASSUME requests <= 1 PROVE ClosingInv'
  <2>1. ClosingInv
    BY <1>2 DEF Attended
  <2>2. UntilStarted'
    BY <2>1 DEF ClosingInv, UntilStarted
  <2>3. QED
    BY <2>1, <2>2 DEF ClosingInv, ToBeClosed, ItemsOf, WillFinalize, IsOrphan
<1>3. QED
  BY <1>1, <1>2 DEF Attended

LEMMA NextAttended ==
    ASSUME "pause" \notin Operations, IInv, Attended, [Next]_vars
    PROVE  Attended'
<1>1. CASE Next
  <2>1. TypeOK'
    BY <1>1, NextType
  <2>2. ASSUME NEW w \in Workers, Work(w) \/ Disturb(w) PROVE Attended'
    <3>1. ASSUME NEW i \in Items, FetchJob(w, i) PROVE Attended'
      BY <2>1, <3>1, FetchJobAttended
    <3>2. CASE Finalize(w)
      BY <2>1, <3>2, FinalizeAttended
    <3>3. CASE Return(w) \/ Throw(w)
      BY <2>1, <3>3, EndAttended
    <3>4. CASE \/ TakeLock(w) \/ Load(w) \/ Start(w) \/ Prove(w) \/ Sign(w) \/ SignFails(w) \/ Store(w)
               \/ Send(w) \/ Confirm(w) \/ ConfirmReverted(w) \/ Disturb(w)
      <4>1. Proceeds(w) /\ QueueInv
        BY <2>1, <3>4, WorkProceeds DEF Attended
      <4>2. QueueInv'
        BY <2>1, <4>1, ProceedsQueue
      <4>3. requests <= 1 => ClosingInv'
        BY <2>1, <4>1, ProceedsClosing DEF Attended
      <4>4. QED
        BY <4>1, <4>2, <4>3 DEF Attended, Proceeds
    <3>5. QED
      BY <2>2, <3>1, <3>2, <3>3, <3>4 DEF Work
  <2>3. ASSUME NEW i \in Items, ExpireOrphan(i) \/ ExpireSlow(i) PROVE Attended'
    BY <2>1, <2>3, ExpireAttended
  <2>4. ASSUME NEW op \in Operations, NEW r \in Runs, Request(op, r) PROVE Attended'
    BY <2>1, <2>4, RequestAttended
  <2>5. CASE Crash \/ WriteRequest \/ EnqueueRequest
    BY <2>1, <2>5, CrashAttended, WriteRequestAttended, EnqueueRequestAttended
  <2>6. ASSUME NEW tx \in mempool, Mine(tx) PROVE Attended'
    BY <2>6, QuietAttended DEF Mine, dbVars, queueVars, workerVars, operatorVars
  <2>7. CASE Deposit
    BY <2>7, QuietAttended DEF Deposit, dbVars, queueVars, workerVars, operatorVars
  <2>8. QED
    BY <1>1, <2>2, <2>3, <2>4, <2>5, <2>6, <2>7 DEF Next
<1>2. CASE UNCHANGED vars
  BY <1>2, QuietAttended DEF vars, dbVars, queueVars, workerVars, operatorVars
<1>3. QED
  BY <1>1, <1>2

LEMMA InitAttended == Init => Attended
<1>1. SUFFICES ASSUME Init PROVE Attended
  OBVIOUS
<1>2. /\ runStatus = [r \in Runs |-> "ready"]
      /\ itemStatus = [i \in Items |-> "pending"]
      /\ job = [i \in Items |-> "none"]
      /\ pc = [w \in Workers |-> "idle"]
      /\ request = NoRequest /\ requests = 0
  BY <1>1 DEF Init
<1>3. QueueInv
  BY <1>2, PayrollAssumption DEF QueueInv, JobInv, TaskInv
<1>4. ClosingInv
  BY <1>2 DEF ClosingInv, UntilStarted, ToBeClosed
<1>5. QED
  BY <1>3, <1>4 DEF Attended

(* A run is reported ended only when all its items are; without pauses, an *)
(* outstanding item of a running run has a job or is being given one, and  *)
(* with a single request somebody is left to close a run whose items are   *)
(* all settled, whatever fails, expires or crashes.                        *)
THEOREM RunsAreAttended == Spec => []RunsAttended
<1> DEFINE Inv == "pause" \notin Operations => Attended
<1>1. Init => Inv
  BY InitAttended
<1>2. IInv /\ Inv /\ [Next]_vars => Inv'
  BY NextAttended
<1>3. IInv /\ Inv => RunsAttended
  <2>1. SUFFICES ASSUME IInv, Inv PROVE RunsAttended
    OBVIOUS
  <2>2. RunNotSettledEarly
    BY <2>1 DEF IInv
  <2>3. ASSUME "pause" \notin Operations PROVE ItemsAttended
    <3>1. ASSUME NEW i \in Items, runStatus[RunOf[i]] = "running", itemStatus[i] \in active
          PROVE  job[i] \in {"created", "active", "failed"} \/ BeingEnqueued(RunOf[i])
      <4>1. JobInv(i)
        BY <2>1, <2>3 DEF Attended, QueueInv
      <4>2. itemStatus[i] \notin settled
        BY <3>1 DEF active, settled
      <4>3. QED
        BY <2>1, <3>1, <4>1, <4>2 DEF JobInv, IInv, TypeOK
    <3>2. QED
      BY <3>1 DEF ItemsAttended
  <2>4. ASSUME "pause" \notin Operations, requests <= 1 PROVE LastItemFinalizes
    BY <2>1, <2>4 DEF Attended, ClosingInv, ToBeClosed, LastItemFinalizes
  <2>5. QED
    BY <2>2, <2>3, <2>4 DEF RunsAttended
<1> HIDE DEF Inv
<1>4. QED
  BY <1>1, <1>2, <1>3, Invariance, PTL DEF Spec

=============================================================================
