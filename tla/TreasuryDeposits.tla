-------------------------- MODULE TreasuryDeposits --------------------------
(***************************************************************************)
(* Deposits into an organisation's encrypted treasury: the handler of      *)
(* POST /orgs/:id/treasury/deposit (services/api/src/routes/orgs.ts), the  *)
(* approve-then-deposit it sends (payroll/chain.ts) and the reconciler     *)
(* (treasury/reconciler.ts).                                               *)
(*                                                                         *)
(* A deposit is known by its idempotency key; each key is for one unit.    *)
(* Every request is one HTTP call, possibly a retry of an earlier one.  A  *)
(* request's step ends where the code awaits something others can          *)
(* interfere with.                                                         *)
(***************************************************************************)
EXTENDS TreasuryAccount

CONSTANTS
    IdempotencyKeys,
    Requests,
    Payroll,      \* stands for the payroll, signing for the same account
    Nobody, NoTx, NoCandidate,
    InitialFunds, \* ERC20 balance of the treasury account
    Faults,       \* which faults happen in this instance
    Prompt,       \* requests end within the 90 seconds of lease and grace
    MaxFaults, MaxTransfers  \* bounds

ASSUME DepositsAssumption ==
    /\ Payroll \notin Requests
    /\ InitialFunds \in Nat /\ MaxFaults \in Nat /\ MaxTransfers \in Nat
    /\ Faults \subseteq {"approve", "timeout", "lost", "crash"}
    /\ Prompt \in BOOLEAN

VARIABLES
    status, txHash, \* treasury_deposits, one row per key
    old,            \* the row was not updated for 90 seconds
    pc, key,        \* where a request is, and its idempotency key
    sent,           \* the transaction it signed last
    candidate,      \* the row the reconciler looks at, as it read it
    allowance, funds, \* of the treasury account in the token
    replyLost,      \* history: a reply to a send was lost
    faults, transfers

rowVars == <<status, txHash, old>>
requestVars == <<pc, key, sent>>
tokenVars == <<allowance, funds>>
boundVars == <<replyLost, faults, transfers>>
vars == <<rowVars, requestVars, candidate, tokenVars, boundVars, accountVars>>

Tx == [by : Requests \cup {Payroll}, kind : {"approve", "deposit", "transfer"}, nonce : Nat]

ASSUME NoTxAssumption == NoTx \notin Tx

Fault(kind) ==
    /\ kind \in Faults
    /\ faults < MaxFaults
    /\ faults' = faults + 1

-----------------------------------------------------------------------------
(* The chain.                                                              *)

CanDeposit == allowance >= 1 /\ funds >= 1

Executes(tx) == tx.kind = "deposit" => CanDeposit

(* approve sets the allowance, a deposit uses it up.                       *)
AllowanceAfter(tx) ==
    CASE tx.kind = "approve" -> 1
      [] tx.kind = "deposit" /\ CanDeposit -> allowance - 1
      [] OTHER -> allowance

Mine(tx) ==
    /\ MineAs(tx, Executes(tx))
    /\ allowance' = AllowanceAfter(tx)
    /\ funds' = IF tx.kind = "deposit" /\ CanDeposit THEN funds - 1 ELSE funds
    /\ UNCHANGED <<rowVars, requestVars, candidate, boundVars>>

(* The payroll sends a transfer from the same account.                     *)
Transfer ==
    /\ transfers < MaxTransfers
    /\ transfers' = transfers + 1
    /\ mempool' = mempool \cup {[by |-> Payroll, kind |-> "transfer", nonce |-> NextNonce]}
    /\ UNCHANGED <<rowVars, requestVars, candidate, tokenVars, replyLost, faults, mined>>

-----------------------------------------------------------------------------
(* A request.                                                              *)

Go(q, from, to) ==
    /\ pc[q] = from
    /\ pc' = [pc EXCEPT ![q] = to]

InProgress(q) == pc[q] \notin {"idle", "replied"}

SetRow(k, newStatus, hash) ==
    /\ status' = [status EXCEPT ![k] = newStatus]
    /\ txHash' = [txHash EXCEPT ![k] = hash]
    /\ old' = [old EXCEPT ![k] = FALSE]

\* Mutant: a row with a hash is taken over like one without.
ResumableWithHash(k) ==
    \/ status[k] = "failed"
    \/ status[k] = "submitted" /\ old[k]

Resumable(k) ==
    \/ status[k] = "failed"
    \/ status[k] = "submitted" /\ txHash[k] = NoTx /\ old[k]

(* The row as first read: none, one to resume, or one to report.           *)
Receive(q, k) ==
    /\ pc[q] = "idle"
    /\ pc' = [pc EXCEPT ![q] =
                 IF status[k] = "absent" THEN "inserting"
                 ELSE IF Resumable(k) THEN "claiming" ELSE "replied"]
    /\ key' = [key EXCEPT ![q] = k]
    /\ UNCHANGED <<rowVars, sent, candidate, tokenVars, boundVars, accountVars>>

(* The unique index lets one of two first requests insert.                 *)
Insert(q) ==
    \/ /\ Go(q, "inserting", "approving")
       /\ status[key[q]] = "absent"
       /\ SetRow(key[q], "submitted", NoTx)
       /\ UNCHANGED <<key, sent, candidate, tokenVars, boundVars, accountVars>>
    \/ /\ Go(q, "inserting", "replied")
       /\ status[key[q]] # "absent"
       /\ UNCHANGED <<rowVars, key, sent, candidate, tokenVars, boundVars, accountVars>>

\* Mutant: the row is not looked at again under its lock.
ClaimUnchecked(q) ==
    /\ Go(q, "claiming", "approving")
    /\ SetRow(key[q], "submitted", NoTx)
    /\ UNCHANGED <<key, sent, candidate, tokenVars, boundVars, accountVars>>

(* SELECT ... FOR UPDATE: still resumable, or somebody else claimed it.    *)
Claim(q) ==
    \/ /\ Go(q, "claiming", "approving")
       /\ Resumable(key[q])
       /\ SetRow(key[q], "submitted", NoTx)
       /\ UNCHANGED <<key, sent, candidate, tokenVars, boundVars, accountVars>>
    \/ /\ Go(q, "claiming", "replied")
       /\ ~Resumable(key[q])
       /\ UNCHANGED <<rowVars, key, sent, candidate, tokenVars, boundVars, accountVars>>

Signed(q, kind) == [by |-> q, kind |-> kind, nonce |-> NextNonce]

Approve(q) ==
    /\ Go(q, "approving", "approved")
    /\ sent' = [sent EXCEPT ![q] = Signed(q, "approve")]
    /\ mempool' = mempool \cup {Signed(q, "approve")}
    /\ UNCHANGED <<rowVars, key, candidate, tokenVars, boundVars, mined>>

ApproveFails(q) ==
    /\ Go(q, "approving", "replied")
    /\ Fault("approve")
    /\ UNCHANGED <<rowVars, key, sent, candidate, tokenVars, replyLost, transfers, accountVars>>

ApproveConfirmed(q) ==
    /\ Go(q, "approved", "signing")
    /\ Succeeded(sent[q])
    /\ UNCHANGED <<rowVars, key, sent, candidate, tokenVars, boundVars, accountVars>>

(* Signed first, after the node estimated the gas: nothing is sent.        *)
Sign(q) ==
    /\ Go(q, "signing", "storing")
    /\ CanDeposit
    /\ sent' = [sent EXCEPT ![q] = Signed(q, "deposit")]
    /\ UNCHANGED <<rowVars, key, candidate, tokenVars, boundVars, accountVars>>

SignFails(q) ==
    /\ Go(q, "signing", "replied")
    /\ ~CanDeposit
    /\ UNCHANGED <<rowVars, key, sent, candidate, tokenVars, boundVars, accountVars>>

(* onBeforeBroadcast                                                       *)
Store(q) ==
    /\ Go(q, "storing", "sending")
    /\ SetRow(key[q], status[key[q]], sent[q])
    /\ UNCHANGED <<key, sent, candidate, tokenVars, boundVars, accountVars>>

Send(q) ==
    /\ Go(q, "sending", IF SendSucceeds(sent[q]) THEN "confirming" ELSE "rejected")
    /\ mempool' = MempoolWith(sent[q])
    /\ UNCHANGED <<rowVars, key, sent, candidate, tokenVars, boundVars, mined>>

(* The node accepts the transaction and its reply is lost.                 *)
SendReplyLost(q) ==
    /\ Go(q, "sending", "rejected")
    /\ Fault("lost")
    /\ replyLost' = TRUE
    /\ mempool' = MempoolWith(sent[q])
    /\ UNCHANGED <<rowVars, key, sent, candidate, tokenVars, transfers, mined>>

(* treasury_deposit_send_rejected                                          *)
Reject(q) ==
    /\ Go(q, "rejected", "replied")
    /\ SetRow(key[q], "submitted", NoTx)
    /\ UNCHANGED <<key, sent, candidate, tokenVars, boundVars, accountVars>>

Confirm(q) ==
    /\ Go(q, "confirming", "replied")
    /\ Succeeded(sent[q])
    /\ SetRow(key[q], "confirmed", sent[q])
    /\ UNCHANGED <<key, sent, candidate, tokenVars, boundVars, accountVars>>

(* treasury_deposit_reverted                                               *)
ConfirmReverted(q) ==
    /\ Go(q, "confirming", "replied")
    /\ Reverted(sent[q])
    /\ SetRow(key[q], "failed", txHash[key[q]])
    /\ UNCHANGED <<key, sent, candidate, tokenVars, boundVars, accountVars>>

(* No receipt in time: the row stays as it is, with or without a hash.     *)
TimesOut(q) ==
    /\ pc[q] \in {"approved", "confirming"}
    /\ pc' = [pc EXCEPT ![q] = "replied"]
    /\ Fault("timeout")
    /\ UNCHANGED <<rowVars, key, sent, candidate, tokenVars, replyLost, transfers, accountVars>>

(* The process dies with every request it was serving.                     *)
Crash ==
    /\ Fault("crash")
    /\ pc' = [q \in Requests |-> IF InProgress(q) THEN "replied" ELSE pc[q]]
    /\ candidate' = NoCandidate
    /\ UNCHANGED <<rowVars, key, sent, tokenVars, replyLost, transfers, accountVars>>

-----------------------------------------------------------------------------
(* Time and the reconciler.                                                *)

(* Ninety seconds without an update: the deposit lease and the grace of    *)
(* the reconciler are both this long.                                      *)
Age(k) ==
    /\ status[k] = "submitted" /\ ~old[k]
    /\ Prompt => \A q \in Requests : InProgress(q) => key[q] # k
    /\ old' = [old EXCEPT ![k] = TRUE]
    /\ UNCHANGED <<status, txHash, requestVars, candidate, tokenVars, boundVars, accountVars>>

ReconcileRead(k) ==
    /\ candidate = NoCandidate
    /\ status[k] = "submitted" /\ txHash[k] # NoTx /\ old[k]
    /\ candidate' = [key |-> k, txHash |-> txHash[k]]
    /\ UNCHANGED <<rowVars, requestVars, tokenVars, boundVars, accountVars>>

ReceiptStatus(tx) ==
    IF Succeeded(tx) THEN "confirmed" ELSE IF Reverted(tx) THEN "failed" ELSE "none"

(* settleSubmittedTreasuryDeposit: only the row that was read, unchanged.  *)
StillCandidate ==
    status[candidate.key] = "submitted" /\ txHash[candidate.key] = candidate.txHash

ReconcileSettle ==
    /\ candidate # NoCandidate
    /\ candidate' = NoCandidate
    /\ IF ReceiptStatus(candidate.txHash) # "none" /\ StillCandidate
       THEN SetRow(candidate.key, ReceiptStatus(candidate.txHash), txHash[candidate.key])
       ELSE UNCHANGED rowVars
    /\ UNCHANGED <<requestVars, tokenVars, boundVars, accountVars>>
-----------------------------------------------------------------------------
Init ==
    /\ status = [k \in IdempotencyKeys |-> "absent"]
    /\ txHash = [k \in IdempotencyKeys |-> NoTx]
    /\ old = [k \in IdempotencyKeys |-> FALSE]
    /\ pc = [q \in Requests |-> "idle"]
    /\ key = [q \in Requests |-> Nobody]
    /\ sent = [q \in Requests |-> NoTx]
    /\ candidate = NoCandidate
    /\ allowance = 0 /\ funds = InitialFunds
    /\ replyLost = FALSE
    /\ faults = 0 /\ transfers = 0
    /\ AccountInit

Handle(q) ==
    \/ Insert(q) \/ Claim(q) \/ Approve(q) \/ ApproveConfirmed(q)
    \/ Sign(q) \/ SignFails(q) \/ Store(q) \/ Send(q) \/ Reject(q)
    \/ Confirm(q) \/ ConfirmReverted(q)

Disturb(q) == ApproveFails(q) \/ SendReplyLost(q) \/ TimesOut(q)

Reconcile == ReconcileSettle \/ \E k \in IdempotencyKeys : ReconcileRead(k)

Next ==
    \/ \E q \in Requests, k \in IdempotencyKeys : Receive(q, k)
    \/ \E q \in Requests : Handle(q) \/ Disturb(q)
    \/ Crash
    \/ \E k \in IdempotencyKeys : Age(k)
    \/ Reconcile
    \/ \E tx \in mempool : Mine(tx)
    \/ Transfer

Spec == Init /\ [][Next]_vars

-----------------------------------------------------------------------------
TypeOK ==
    /\ status \in [IdempotencyKeys -> {"absent", "submitted", "confirmed", "failed"}]
    /\ txHash \in [IdempotencyKeys -> Tx \cup {NoTx}]
    /\ old \in [IdempotencyKeys -> BOOLEAN]
    /\ pc \in [Requests -> {"idle", "inserting", "claiming", "approving", "approved", "signing",
                            "storing", "sending", "rejected", "confirming", "replied"}]
    /\ key \in [Requests -> IdempotencyKeys \cup {Nobody}]
    /\ sent \in [Requests -> Tx \cup {NoTx}]
    /\ candidate \in [key : IdempotencyKeys, txHash : Tx] \cup {NoCandidate}
    /\ allowance \in {0, 1} /\ funds \in Nat
    /\ replyLost \in BOOLEAN
    /\ faults \in Nat /\ transfers \in Nat
    /\ mempool \subseteq Tx
    /\ mined \in Seq([tx : Tx, ok : BOOLEAN])

DepositsOf(k) ==
    {j \in 1 .. Len(mined) :
        LET tx == mined[j].tx IN
        mined[j].ok /\ tx.kind = "deposit" /\ key[tx.by] = k}

(* However often a client retries, a key moves funds once, unless the node *)
(* accepted a deposit without saying so: "safely resumed later without     *)
(* ever double-funding the treasury".                                      *)
OneDepositPerKey ==
    ~replyLost => \A k \in IdempotencyKeys : Cardinality(DepositsOf(k)) <= 1

(* A confirmed row links to a deposit that was executed.                   *)
ConfirmedDepositPaid ==
    \A k \in IdempotencyKeys : status[k] = "confirmed" => Succeeded(txHash[k])

(* A failed row moved no funds and nothing pending will, with the same     *)
(* exception: it is safe to retry with the same key.                       *)
FailedDepositUnpaid ==
    ~replyLost =>
        \A k \in IdempotencyKeys : status[k] = "failed" =>
            /\ DepositsOf(k) = {}
            /\ \A tx \in mempool : tx.kind = "deposit" => key[tx.by] # k

(* Together, with the types: what a settled row says of its deposit is     *)
(* true, and no key deposits twice.                                        *)
DepositsTrue == TypeOK /\ OneDepositPerKey /\ ConfirmedDepositPaid /\ FailedDepositUnpaid

(* What a client was told of a settled deposit stays true.                 *)
ConfirmedIsFinal ==
    [][\A k \in IdempotencyKeys : status[k] = "confirmed" =>
           status'[k] = "confirmed" /\ txHash'[k] = txHash[k]]_vars
=============================================================================
