------------------------------ MODULE Payroll ------------------------------
(***************************************************************************)
(* The payroll of one organisation: the worker that proves and sends one   *)
(* confidential transfer per item (services/api/src/payroll/runner.ts),    *)
(* its job queue (jobs/index.ts) and the operator's requests               *)
(* (routes/payroll.ts).                                                    *)
(*                                                                         *)
(* A worker step ends where the code awaits something another actor can    *)
(* interfere with.  Statements on rows that only the holder of the         *)
(* organisation's lock writes share a step.  The process that serves the   *)
(* requests and works the jobs is one; it can crash between any two steps. *)
(***************************************************************************)
EXTENDS TreasuryAccount, FiniteSetsExt

CONSTANTS
    Items, Runs,
    RunOf,        \* the run of each item
    Unresolved,   \* items with no resolved address
    Workers,      \* concurrent job handlers
    NoItem, NoTx, NoWorker, NoRequest,
    MaxAttempts,  \* PAYROLL_MAX_ATTEMPTS
    RetryLimit,   \* retryLimit of the queue
    Faults,       \* which faults happen in this instance
    Operations,   \* which requests the operator makes
    MaxFaults, MaxRequests, MaxDeposits  \* bounds

ASSUME PayrollAssumption ==
    /\ RunOf \in [Items -> Runs]
    /\ Unresolved \subseteq Items
    /\ NoItem \notin Items /\ NoWorker \notin Workers
    /\ MaxAttempts \in Nat \ {0} /\ RetryLimit \in Nat
    /\ Faults \subseteq {"prove", "send", "timeout", "expire", "crash"}
    /\ Operations \subseteq {"start", "pause", "resume"}
    /\ MaxFaults \in Nat /\ MaxRequests \in Nat /\ MaxDeposits \in Nat

VARIABLES
    runStatus,   \* payroll_runs.status
    itemStatus,  \* payroll_items.status
    attempt,     \* payroll_items.attempt
    txHash,      \* payroll_items.tx_hash, with the sealed raw transaction
    job,         \* the item's job in the queue
    retries,     \* how often it was retried
    lock,        \* holder of the organisation's advisory lock
    pc,          \* where each worker is
    task,        \* the item it works on
    prepared,    \* the transaction it prepared or loaded
    snapshot,    \* the treasury balance it proves against
    request,     \* an operator's request in progress
    requests, faults, deposits

dbVars == <<runStatus, itemStatus, attempt, txHash>>
queueVars == <<job, retries>>
workerVars == <<pc, task, prepared, snapshot>>
operatorVars == <<request, requests>>
boundVars == <<faults, deposits>>
vars == <<dbVars, queueVars, lock, workerVars, operatorVars, boundVars, accountVars>>

(* Hash and raw transaction stand for each other: the transaction.         *)
Tx == [item : Items \cup {NoItem}, attempt : Nat, nonce : Nat, snapshot : Nat]

ASSUME NoTxAssumption == NoTx \notin Tx

Requests == [op : Operations, run : Runs, at : {"write", "enqueue"}]

ASSUME NoRequestAssumption == NoRequest \notin Requests

active == {"pending", "proving", "submitted"}
settled == {"confirmed", "failed"}

ItemsOf(r) == {i \in Items : RunOf[i] = r}

Fault(kind) ==
    /\ kind \in Faults
    /\ faults < MaxFaults
    /\ faults' = faults + 1

-----------------------------------------------------------------------------
(* The encrypted token, as the treasury sees it.  A proof is good as long  *)
(* as no other spend of the treasury was executed since the balance was    *)
(* read: SpendRevokes and ProofsOutliveCredits of EncryptedERC.            *)

Transfers == {k \in 1 .. Len(mined) : mined[k].ok /\ mined[k].tx.item \in Items}

Balance == Cardinality(Transfers)

ProofHolds(tx) == tx.item \in Items => tx.snapshot = Balance

Mine(tx) ==
    /\ MineAs(tx, ProofHolds(tx))
    /\ UNCHANGED <<dbVars, queueVars, lock, workerVars, operatorVars, boundVars>>

(* A treasury deposit: signed with the same account, outside the lock.     *)
Deposit ==
    /\ deposits < MaxDeposits
    /\ deposits' = deposits + 1
    /\ mempool' = mempool \cup
           {[item |-> NoItem, attempt |-> deposits, nonce |-> NextNonce, snapshot |-> 0]}
    /\ UNCHANGED <<dbVars, queueVars, lock, workerVars, operatorVars, faults, mined>>

-----------------------------------------------------------------------------
(* The queue.                                                              *)

(* enqueuePayrollRun: one job per outstanding item, unless the singleton   *)
(* key was used in the last thirty days, whatever became of that job.      *)
Enqueue(runs) ==
    [i \in Items |-> IF RunOf[i] \in runs /\ itemStatus[i] \in active /\ job[i] = "none"
                     THEN "created" ELSE job[i]]

(* A failed or expired job goes back to the queue or is given up.          *)
RetryJob(i) ==
    IF retries[i] < RetryLimit
    THEN /\ job' = [job EXCEPT ![i] = "created"]
         /\ retries' = [retries EXCEPT ![i] = @ + 1]
    ELSE /\ job' = [job EXCEPT ![i] = "failed"]
         /\ UNCHANGED retries

FetchJob(w, i) ==
    /\ pc[w] = "idle"
    /\ job[i] = "created"
    /\ job' = [job EXCEPT ![i] = "active"]
    /\ pc' = [pc EXCEPT ![w] = "waiting"]
    /\ task' = [task EXCEPT ![w] = i]
    /\ UNCHANGED <<dbVars, retries, lock, prepared, snapshot, operatorVars, boundVars, accountVars>>

(* A job outlives expireInSeconds: because its process crashed, or because *)
(* its worker is slow.                                                     *)
IsOrphan(i) == job[i] = "active" /\ \A w \in Workers : pc[w] = "idle" \/ task[w] # i

ExpireOrphan(i) ==
    /\ IsOrphan(i)
    /\ RetryJob(i)
    /\ UNCHANGED <<dbVars, lock, workerVars, operatorVars, boundVars, accountVars>>

ExpireSlow(i) ==
    /\ job[i] = "active" /\ ~IsOrphan(i)
    /\ Fault("expire")
    /\ RetryJob(i)
    /\ UNCHANGED <<dbVars, lock, workerVars, operatorVars, deposits, accountVars>>

-----------------------------------------------------------------------------
(* The worker: handlePayrollItemJob and processPayrollItem.                *)

Go(w, from, to) ==
    /\ pc[w] = from
    /\ pc' = [pc EXCEPT ![w] = to]

item(w) == task[w]
run(w) == RunOf[task[w]]

\* Mutant: no lock is taken.
TakeNoLock(w) ==
    /\ Go(w, "waiting", "loading")
    /\ UNCHANGED <<dbVars, queueVars, lock, task, prepared, snapshot, operatorVars,
                   boundVars, accountVars>>

TakeLock(w) ==
    /\ Go(w, "waiting", "loading")
    /\ lock = NoWorker
    /\ lock' = w
    /\ UNCHANGED <<dbVars, queueVars, task, prepared, snapshot, operatorVars,
                   boundVars, accountVars>>

Runnable(w) == runStatus[run(w)] \in {"ready", "running"}

\* Mutant: only the status tells a prepared item from a new one.
HasTransactionByStatus(i) == itemStatus[i] = "confirmed"

(* The item was prepared before: its transaction is confirmed, not made    *)
(* again.                                                                  *)
HasTransaction(i) == itemStatus[i] = "submitted" \/ txHash[i] # NoTx

SetItem(i, status) ==
    /\ itemStatus' = [itemStatus EXCEPT ![i] = status]
    /\ UNCHANGED <<runStatus, attempt, txHash>>

(* The run is paused, complete or failed: the job is done.                 *)
LoadIdleRun(w) ==
    /\ Go(w, "loading", "returning")
    /\ ~Runnable(w)
    /\ UNCHANGED <<dbVars, prepared>>

\* Mutant: a settled item ends the job without a look at the run.
LoadSettledOnly(w) ==
    /\ Go(w, "loading", "returning")
    /\ Runnable(w)
    /\ itemStatus[item(w)] \in settled
    /\ UNCHANGED <<dbVars, prepared>>

LoadSettled(w) ==
    /\ Go(w, "loading", "finalizing")
    /\ Runnable(w)
    /\ itemStatus[item(w)] \in settled
    /\ UNCHANGED <<dbVars, prepared>>

LoadSubmitted(w) ==
    /\ Go(w, "loading", "sending")
    /\ Runnable(w)
    /\ itemStatus[item(w)] \notin settled
    /\ HasTransaction(item(w))
    /\ prepared' = [prepared EXCEPT ![w] = txHash[item(w)]]
    /\ UNCHANGED dbVars

(* missing_resolved_address, max_attempts_exceeded                         *)
LoadHopeless(w) ==
    /\ Go(w, "loading", "finalizing")
    /\ Runnable(w)
    /\ itemStatus[item(w)] \notin settled /\ ~HasTransaction(item(w))
    /\ item(w) \in Unresolved \/ attempt[item(w)] >= MaxAttempts
    /\ SetItem(item(w), "failed")
    /\ UNCHANGED prepared

LoadNew(w) ==
    /\ Go(w, "loading", "starting")
    /\ Runnable(w)
    /\ itemStatus[item(w)] \notin settled /\ ~HasTransaction(item(w))
    /\ item(w) \notin Unresolved /\ attempt[item(w)] < MaxAttempts
    /\ UNCHANGED <<dbVars, prepared>>

Load(w) ==
    /\ \/ LoadIdleRun(w) \/ LoadSettled(w) \/ LoadSubmitted(w)
       \/ LoadHopeless(w) \/ LoadNew(w)
    /\ UNCHANGED <<queueVars, lock, task, snapshot, operatorVars, boundVars, accountVars>>

\* Mutant: the run is set to running whatever an operator did meanwhile.
RunsAlways(status) == "running"

(* "Only advance a run into running from a startable state."               *)
RunsIfStartable(status) == IF status \in {"ready", "running"} THEN "running" ELSE status

Start(w) ==
    /\ Go(w, "starting", "proving")
    /\ runStatus' = [runStatus EXCEPT ![run(w)] = RunsIfStartable(@)]
    /\ itemStatus' = [itemStatus EXCEPT ![item(w)] = "proving"]
    /\ attempt' = [attempt EXCEPT ![item(w)] = @ + 1]
    /\ UNCHANGED <<txHash, queueVars, lock, task, prepared, snapshot, operatorVars,
                   boundVars, accountVars>>

(* loadTransferContext and proveTransfer                                   *)
Prove(w) ==
    /\ Go(w, "proving", "signing")
    /\ snapshot' = [snapshot EXCEPT ![w] = Balance]
    /\ UNCHANGED <<dbVars, queueVars, lock, task, prepared, operatorVars, boundVars, accountVars>>

(* The catch of processPayrollItem: back to pending for a retry, or failed *)
(* at the last attempt.                                                    *)
GiveUpAttempt(w) ==
    \/ /\ attempt[item(w)] >= MaxAttempts
       /\ pc' = [pc EXCEPT ![w] = "finalizing"]
       /\ SetItem(item(w), "failed")
    \/ /\ attempt[item(w)] < MaxAttempts
       /\ pc' = [pc EXCEPT ![w] = "throwing"]
       /\ SetItem(item(w), "pending")

ProveFails(w) ==
    /\ pc[w] \in {"proving", "signing"}
    /\ Fault("prove")
    /\ GiveUpAttempt(w)
    /\ UNCHANGED <<queueVars, lock, task, prepared, snapshot, operatorVars, deposits, accountVars>>

(* prepareTransfer: the node estimates the gas, which fails for a stale    *)
(* proof, and tells the nonce; nothing is sent.                            *)
Sign(w) ==
    /\ Go(w, "signing", "storing")
    /\ snapshot[w] = Balance
    /\ prepared' = [prepared EXCEPT ![w] =
           [item |-> item(w), attempt |-> attempt[item(w)],
            nonce |-> NextNonce, snapshot |-> snapshot[w]]]
    /\ UNCHANGED <<dbVars, queueVars, lock, task, snapshot, operatorVars, boundVars, accountVars>>

SignFails(w) ==
    /\ pc[w] = "signing"
    /\ snapshot[w] # Balance
    /\ GiveUpAttempt(w)
    /\ UNCHANGED <<queueVars, lock, task, prepared, snapshot, operatorVars, boundVars, accountVars>>

Store(w) ==
    /\ Go(w, "storing", "sending")
    /\ itemStatus' = [itemStatus EXCEPT ![item(w)] = "submitted"]
    /\ txHash' = [txHash EXCEPT ![item(w)] = prepared[w]]
    /\ UNCHANGED <<runStatus, attempt, queueVars, lock, task, prepared, snapshot, operatorVars,
                   boundVars, accountVars>>

-----------------------------------------------------------------------------
(* confirmSubmittedItem                                                    *)

SetSubmitted(w) ==
    /\ itemStatus' = [itemStatus EXCEPT ![item(w)] = "submitted"]
    /\ txHash' = [txHash EXCEPT ![item(w)] = prepared[w]]
    /\ UNCHANGED <<runStatus, attempt>>

Send(w) ==
    /\ Go(w, "sending", IF SendSucceeds(prepared[w]) THEN "confirming" ELSE "throwing")
    /\ SetSubmitted(w)
    /\ mempool' = MempoolWith(prepared[w])
    /\ UNCHANGED <<queueVars, lock, task, prepared, snapshot, operatorVars, boundVars, mined>>

(* The call fails, whether or not the node got the transaction.            *)
SendFails(w) ==
    /\ Go(w, "sending", "throwing")
    /\ Fault("send")
    /\ SetSubmitted(w)
    /\ mempool' \in {mempool, MempoolWith(prepared[w])}
    /\ UNCHANGED <<queueVars, lock, task, prepared, snapshot, operatorVars, deposits, mined>>

Confirm(w) ==
    /\ Go(w, "confirming", "finalizing")
    /\ Succeeded(prepared[w])
    /\ SetItem(item(w), "confirmed")
    /\ UNCHANGED <<queueVars, lock, task, prepared, snapshot, operatorVars, boundVars, accountVars>>

(* "transfer_reverted"                                                     *)
ConfirmReverted(w) ==
    /\ Go(w, "confirming", "finalizing")
    /\ Reverted(prepared[w])
    /\ SetItem(item(w), "failed")
    /\ UNCHANGED <<queueVars, lock, task, prepared, snapshot, operatorVars, boundVars, accountVars>>

ConfirmTimesOut(w) ==
    /\ Go(w, "confirming", "throwing")
    /\ Fault("timeout")
    /\ SetItem(item(w), "submitted")
    /\ UNCHANGED <<queueVars, lock, task, prepared, snapshot, operatorVars, deposits, accountVars>>

\* Mutant: submitted items do not keep the run open.
IsOutstandingUnsent(i) == itemStatus[i] \in {"pending", "proving"}

IsOutstanding(i) == itemStatus[i] \in active

(* finalizeRunIfSettled                                                    *)
FinalizedStatus(r) ==
    IF \E i \in ItemsOf(r) : itemStatus[i] = "confirmed" THEN "complete" ELSE "failed"

Finalize(w) ==
    /\ Go(w, "finalizing", "returning")
    /\ runStatus' = IF \E i \in ItemsOf(run(w)) : IsOutstanding(i) THEN runStatus
                    ELSE [runStatus EXCEPT ![run(w)] = FinalizedStatus(run(w))]
    /\ UNCHANGED <<itemStatus, attempt, txHash, queueVars, lock, task, prepared, snapshot,
                   operatorVars, boundVars, accountVars>>

(* The handler returns or throws; either way the lock is released.         *)
Release(w) == lock' = IF lock = w THEN NoWorker ELSE lock

Return(w) ==
    /\ Go(w, "returning", "idle")
    /\ Release(w)
    /\ job' = [job EXCEPT ![item(w)] = IF @ = "active" THEN "completed" ELSE @]
    /\ UNCHANGED <<dbVars, retries, task, prepared, snapshot, operatorVars, boundVars, accountVars>>

Throw(w) ==
    /\ Go(w, "throwing", "idle")
    /\ Release(w)
    /\ IF job[item(w)] \in {"created", "active"} THEN RetryJob(item(w)) ELSE UNCHANGED queueVars
    /\ UNCHANGED <<dbVars, task, prepared, snapshot, operatorVars, boundVars, accountVars>>

\* Mutant: the new process does not look for runs in the middle.
CrashForgets ==
    /\ Fault("crash")
    /\ pc' = [w \in Workers |-> "idle"]
    /\ lock' = NoWorker
    /\ request' = NoRequest
    /\ UNCHANGED <<dbVars, queueVars, task, prepared, snapshot, requests, deposits, accountVars>>

(* The process dies, and with its connection the lock; the new one puts    *)
(* outstanding items of running runs in the queue.                         *)
Crash ==
    /\ Fault("crash")
    /\ pc' = [w \in Workers |-> "idle"]
    /\ lock' = NoWorker
    /\ request' = NoRequest
    /\ job' = Enqueue({r \in Runs : runStatus[r] = "running"})
    /\ UNCHANGED <<dbVars, retries, task, prepared, snapshot, requests, deposits, accountVars>>

-----------------------------------------------------------------------------
(* The operator.  Each request reads the status of the run, later writes   *)
(* it, and for start and resume then fills the queue.                      *)

AllowedFrom ==
    [start |-> {"ready", "paused", "running"},
     pause |-> {"ready", "paused", "running"},
     resume |-> {"paused"}]

Request(op, r) ==
    /\ request = NoRequest
    /\ requests < MaxRequests
    /\ runStatus[r] \in AllowedFrom[op]
    /\ request' = [op |-> op, run |-> r, at |-> "write"]
    /\ requests' = requests + 1
    /\ UNCHANGED <<dbVars, queueVars, lock, workerVars, boundVars, accountVars>>

WriteRequest ==
    /\ request # NoRequest /\ request.at = "write"
    /\ runStatus' = [runStatus EXCEPT ![request.run] =
                         IF request.op = "pause" THEN "paused" ELSE "running"]
    /\ request' = IF request.op = "pause" THEN NoRequest ELSE [request EXCEPT !.at = "enqueue"]
    /\ UNCHANGED <<itemStatus, attempt, txHash, queueVars, lock, workerVars, requests,
                   boundVars, accountVars>>

EnqueueRequest ==
    /\ request # NoRequest /\ request.at = "enqueue"
    /\ job' = Enqueue({request.run})
    /\ request' = NoRequest
    /\ UNCHANGED <<dbVars, retries, lock, workerVars, requests, boundVars, accountVars>>

-----------------------------------------------------------------------------
Init ==
    /\ runStatus = [r \in Runs |-> "ready"]
    /\ itemStatus = [i \in Items |-> "pending"]
    /\ attempt = [i \in Items |-> 0]
    /\ txHash = [i \in Items |-> NoTx]
    /\ job = [i \in Items |-> "none"]
    /\ retries = [i \in Items |-> 0]
    /\ lock = NoWorker
    /\ pc = [w \in Workers |-> "idle"]
    /\ task = [w \in Workers |-> NoItem]
    /\ prepared = [w \in Workers |-> NoTx]
    /\ snapshot = [w \in Workers |-> 0]
    /\ request = NoRequest
    /\ requests = 0 /\ faults = 0 /\ deposits = 0
    /\ AccountInit

(* What a worker does when nothing fails.                                  *)
Work(w) ==
    \/ \E i \in Items : FetchJob(w, i)
    \/ TakeLock(w) \/ Load(w) \/ Start(w) \/ Prove(w) \/ Sign(w) \/ SignFails(w) \/ Store(w)
    \/ Send(w) \/ Confirm(w) \/ ConfirmReverted(w)
    \/ Finalize(w) \/ Return(w) \/ Throw(w)

Disturb(w) == ProveFails(w) \/ SendFails(w) \/ ConfirmTimesOut(w)

Next ==
    \/ \E w \in Workers : Work(w) \/ Disturb(w)
    \/ \E i \in Items : ExpireOrphan(i) \/ ExpireSlow(i)
    \/ Crash
    \/ \E op \in Operations, r \in Runs : Request(op, r)
    \/ WriteRequest
    \/ EnqueueRequest
    \/ \E tx \in mempool : Mine(tx)
    \/ Deposit

Spec == Init /\ [][Next]_vars

(* The event loop keeps running the handlers and requests, the queue       *)
(* expires orphans, and the chain mines what is due.                       *)
FairSpec ==
    /\ Spec
    /\ \A w \in Workers : WF_vars(Work(w))
    /\ \A i \in Items : WF_vars(ExpireOrphan(i))
    /\ WF_vars(WriteRequest \/ EnqueueRequest)
    /\ WF_vars(\E tx \in mempool : Mine(tx))

-----------------------------------------------------------------------------
TypeOK ==
    /\ runStatus \in [Runs -> {"ready", "running", "paused", "complete", "failed"}]
    /\ itemStatus \in [Items -> {"pending", "proving", "submitted", "confirmed", "failed"}]
    /\ attempt \in [Items -> Nat]
    /\ txHash \in [Items -> Tx \cup {NoTx}]
    /\ job \in [Items -> {"none", "created", "active", "completed", "failed"}]
    /\ retries \in [Items -> 0 .. RetryLimit]
    /\ lock \in Workers \cup {NoWorker}
    /\ pc \in [Workers -> {"idle", "waiting", "loading", "starting", "proving", "signing",
                           "storing", "sending", "confirming", "finalizing", "returning",
                           "throwing"}]
    /\ task \in [Workers -> Items \cup {NoItem}]
    /\ prepared \in [Workers -> Tx \cup {NoTx}]
    /\ snapshot \in [Workers -> Nat]
    /\ request \in Requests \cup {NoRequest}
    /\ requests \in Nat /\ faults \in Nat /\ deposits \in Nat
    /\ mempool \subseteq Tx
    /\ mined \in Seq([tx : Tx, ok : BOOLEAN])

Paid(i) == Cardinality({k \in Transfers : mined[k].tx.item = i})

(* Crashes, expired jobs, retries and time-outs never make the worker pay  *)
(* an item a second time: a transaction that may have been sent is sent    *)
(* again, never replaced by a new one.                                     *)
PaidAtMostOnce == \A i \in Items : Paid(i) <= 1

(* An item reported confirmed was paid by the transaction it links to.     *)
ConfirmedIsPaid ==
    \A i \in Items : itemStatus[i] = "confirmed" => Succeeded(txHash[i])

(* An item reported failed was not paid, and no transaction of it that is  *)
(* still pending can pay it later: the operator may pay it by other means. *)
FailedNotPaid ==
    \A i \in Items : itemStatus[i] = "failed" =>
        Paid(i) = 0 /\ \A tx \in mempool : tx.item # i

(* Together: what is reported of an item is what happened to its payment.  *)
PaymentsReportedTruly == TypeOK /\ PaidAtMostOnce /\ ConfirmedIsPaid /\ FailedNotPaid

(* A run reported complete or failed has nothing outstanding.              *)
RunNotSettledEarly ==
    \A r \in Runs : runStatus[r] \in {"complete", "failed"} =>
        \A i \in ItemsOf(r) : itemStatus[i] \in settled

BeingEnqueued(r) == request # NoRequest /\ request.run = r /\ request.at = "enqueue"

(* Without pauses, an outstanding item of a running run is never forgotten *)
(* by the queue, whatever crashes between the request's write and its      *)
(* enqueuing: it has a job, unless all of its retries were used.           *)
ItemsAttended ==
    \A i \in Items :
        runStatus[RunOf[i]] = "running" /\ itemStatus[i] \in active =>
            job[i] \in {"created", "active", "failed"} \/ BeingEnqueued(RunOf[i])

(* The item's job has yet to look at the run, or ran out of retries.       *)
WillFinalize(i) ==
    \/ job[i] \in {"created", "failed"}
    \/ IsOrphan(i)
    \/ /\ job[i] = "active"
       /\ \E w \in Workers :
              task[w] = i /\ pc[w] \in {"waiting", "loading", "finalizing"}

(* And when the last of its items is settled, some handler is still to     *)
(* close the run, also if the one that settled it dies before it does.     *)
LastItemFinalizes ==
    \A r \in Runs :
        /\ runStatus[r] = "running" /\ request = NoRequest
        /\ ItemsOf(r) # {} /\ \A i \in ItemsOf(r) : itemStatus[i] \in settled
        => \E i \in ItemsOf(r) : WillFinalize(i)

(* Together: a run that is reported ended has ended, and one that is not   *)
(* has somebody to end it.  A pause uses up the jobs that meet it, and a   *)
(* second request may reopen a run that was just closed.                   *)
RunsAttended ==
    /\ RunNotSettledEarly
    /\ "pause" \notin Operations =>
           ItemsAttended /\ (requests <= 1 => LastItemFinalizes)

(* Only a request of the operator lifts a pause: a worker that read the    *)
(* run before the pause does not write it back to running.                 *)
PauseLiftedByOperator ==
    [][\A r \in Runs : runStatus[r] = "paused" /\ runStatus'[r] = "running" =>
           request # NoRequest /\ request.run = r /\ request.op # "pause"]_vars

(* The worker's reports about an item are what Payout promises.            *)
Outcome(i) == IF itemStatus[i] \in settled THEN itemStatus[i] ELSE "open"

Promise == INSTANCE Payout WITH
    paid <- [i \in Items |-> Paid(i)],
    outcome <- [i \in Items |-> Outcome(i)]

ImplementsPayout == Promise!Spec

(* While nothing is lost or late and nobody else signs for the account,    *)
(* the lock makes every transfer the treasury's next spend: none is        *)
(* reverted for a stale proof, though several handlers work on the items.  *)
Undisturbed == faults = 0 /\ deposits = 0

NoTransferReverts ==
    Undisturbed => \A k \in 1 .. Len(mined) : mined[k].ok

(* Then a submitted item's transaction is on the chain or can still get    *)
(* there: no other transaction was given its nonce.                        *)
SubmittedCanConfirm ==
    Undisturbed =>
        \A i \in Items : itemStatus[i] = "submitted" =>
            IsMined(txHash[i]) \/ txHash[i].nonce >= Len(mined)

(* Together: undisturbed, every transfer goes through.                     *)
TransfersGoThrough == NoTransferReverts /\ SubmittedCanConfirm

(* A run that was started ends, with every item reported.                  *)
RunSettles ==
    \A r \in Runs : runStatus[r] = "running" ~> runStatus[r] \in {"complete", "failed"}
=============================================================================
