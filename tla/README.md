# Benzo in TLA+

Benzo is a private-payments product on an Avalanche chain: balances live in an
encrypted ERC20 token (eERC), organisations pay their people confidentially from
an encrypted treasury, money comes in from other chains by CCTP, an auditor can
decrypt what passes, and an API with a job queue signs, sends and follows the
transactions. This directory specifies the parts of it where orders of events,
failures and retries decide whether money is lost, paid twice or reported
wrongly. TLC checks small instances; TLAPS proves the safety properties of nearly
every component for instances of any size.

Paths below are relative to the repository; `api/` is `services/api/src/`.

## The system

| Component | State | Operations | Talks to |
|---|---|---|---|
| EncryptedERC token (`contracts/contracts/eerc`) | keys, encrypted balances with a history of valid snapshots, amount PCTs, tokens, auditor, used mint nullifiers | register, deposit, depositFor, transfer, withdraw, mint, burn, owner settings | ERC20 tokens, verifiers |
| eERC clients (`api/payroll/eerc.ts`, the circuits) | none | read a balance, build a proof | token, registrar |
| Gift escrows (`GiftEscrow.sol`, `PrivateGiftEscrow.sol`) | gifts, the tokens held for them | create, claim with a link's signature, refund | ERC20 tokens, `depositFor` of the token |
| Payroll (`api/payroll`, `routes/payroll.ts`) | runs, items, sealed raw transactions; a pg-boss queue; an advisory lock per organisation | start, pause, resume; one job per item: prove, sign, store, send, confirm, finalize | queue, Postgres, node |
| Treasury deposits (`routes/orgs.ts`, `treasury/reconciler.ts`) | one row per idempotency key: status, hash, age | request and retry, approve, sign, store, send, confirm; reconcile | Postgres, node |
| Onramp (`api/onramp`, `BenzoCCTPRouter.sol`) | intents, attestations, used CCTP nonces, rescued messages | create, poll, settle, credit; rescue | Circle API, router, token, treasury ledger |
| Identity (`HandleRegistry.sol`, `routes/identity.ts`, `routes/transfers.ts`, `routes/auth.ts`) | the registry and the API's mirror of it, invites, sign-in nonces, sessions | claim, release, transfer, resolve; invite, claim, expire; sign in | chain, Postgres |
| Onboarding (`api/onboarding`) | one row of steps per user, gas drips, a queue | a job per user that polls for the registration | chain's allow list, registrar |
| Organisations (`routes/orgs.ts`, `routes/admin.ts`, `api/admin/chain.ts`) | members, roles, allow-list rows, the treasury's sealed key | change a role, enable, revoke, drip, provision | onboarding's account, registrar |
| Indexer (`api/indexer`) | events, a cursor per contract with its block's hash | poll, rewind, backfill | node |
| Activity stream (`routes/activity.ts`) | a cursor per subscriber | tick, read, send | events |
| Auditor and disclosure (`api/auditor`, `api/disclosure`) | key periods, sealed keys, the audit log | rotate, report, export, packet, prove and verify a payment | token, events |
| Deployment (`contracts/scripts/deploy`, `contracts/scripts/ceremony`) | manifests, the auditor's key file, verifier sources and their marker | ten scripts on three networks, the ceremony | all contracts |

What makes them hard is the same everywhere: a statement is built from state that
may have changed when it is used (a proof from a balance, a transaction from a
nonce, a retry from a row, a window from a fork), and a step that cannot be undone
(a broadcast) sits between two that a crash can separate. `hazards` in
`PROJECT.json` lists these places at their lines with the properties that cover
them. The correctness of each component, in a sentence:

* token: a spend is covered by the money that is there, whatever was credited or
  spent since it was proved; credits are never lost; the owner can read and spend;
* gift escrows: a gift goes to whom its link's holder signed it, or back, never
  both, and is never stranded;
* payroll: an item is paid at most once and reported as what it is; a run ends;
* treasury deposits: an idempotency key moves funds at most once and a settled row
  is true and final;
* onramp: a burn is deposited once or rescued once, never both, and credited to
  whom its message names;
* identity: a name never stands for somebody it did not belong to; one nonce opens
  one session; an invite has one outcome;
* onboarding: who registered gets to the end, gas is not sent again for a retry;
* organisations: nobody transacts without KYC or an admin's word, and the
  treasury's registered key is the one that was kept;
* indexer and stream: what a cursor vouches for is there, once and in order;
* auditor: an amount is read with the key it was encrypted for, and every
  decryption is in the log;
* deployment: a manifest names contracts that work together, however often the
  scripts were interrupted.

## Modules

| Module | Stands for |
|---|---|
| `EncryptedUserBalances` | `EncryptedUserBalances.sol` and the balance arithmetic: one encrypted balance, as operators on a record |
| `PrivateLedger` | abstract: plaintext balances and three moves |
| `EncryptedERC` | the whole token with registrar, auditor, token tracker, ERC20s and clients |
| `UserHistoryDeletion` | the array and the swap-and-pop loop behind the set `amountPCTs` |
| `GiftEscrows` | both gift escrows, on `EncryptedERC` |
| `TreasuryAccount` | the account of an organisation at its node: nonces, mempool, mined transactions |
| `Payout` | abstract: each item is paid once, then confirmed, or failed and never paid |
| `Payroll` | workers, queue, lock, operator requests, on `TreasuryAccount` |
| `TreasuryDeposits` | requests, rows and the reconciler, on `TreasuryAccount` |
| `CrossChainDeposit` | abstract: a burn's message is deposited or received once, and its report is true for ever |
| `Onramp` | intents, pollers, relayer, router |
| `HandleRegistry` | the contract; `Directory` puts the API's mirror and its requests on top |
| `Access` | nonces, sessions and invites; `Identity` composes it with `Directory` |
| `Callers` | users and requests shared by the API's modules |
| `Onboarding` | rows, queue, handlers, the API's account; `Membership` lets admins' requests use the same account and allow list |
| `OrgTreasury` | provisioning the treasury; `Organisation` composes it with `Membership` |
| `EventChain` | blocks, logs, reorganisations, the auditor key in force at a log |
| `Indexer` | polls, windows, cursors, on `EventChain` |
| `ActivityStream` | a subscriber, on `Indexer` |
| `AuditorKeys` | rotations and key rows, on `Indexer`; `Disclosure` reads with them |
| `AuditTrail` | all of these together, each behaviour following one plan of what happens in it |
| `Deployment` | the scripts as lists of steps over manifests, files and chain |
| `MC...` | values for the constants of one specification |
| `..._proofs` | the theorems about one specification |

### The encrypted token

Cryptography is symbolic. A ciphertext is a record `[key, v, r]`: the public key,
the value and the randomness. `Add` and `Sub` work on `v` and `r` as the curve
operations of `BabyJubJub.sol` do, and adding ciphertexts of two keys gives one
under `MixedKey` which nobody can open. Two ciphertexts are equal exactly when
their records are, which is what `_isBalanceValid` compares by hash. A proof is a
record of its public inputs that a client may build only when the statement of
the circuit holds (`SenderStatement` and the shape of the ciphertexts); anybody
may submit it later, any number of times, with any token id, as no proof is bound
to one. Soundness and hiding of the real primitives are assumptions.

One action is one external call, and a revert is a disabled action. `amountPCTs`
is a set here and an array in the contract; `UserHistoryDeletion` runs the two
side by side through the deletion loop and `DeletionIsFaithful` shows that the set
is a faithful picture of the array. `DownScale` and `UpScale` are the powers of ten
between token decimals and encrypted decimals. `isConverter` is the immutable
the constructor sets. Withdrawing tests the reserve, which is the ERC20's own
balance check.

### Gift escrows

`gifts[e]` is the array of gifts of escrow `e`, numbered from 1 in both, so that
the two escrows have gifts of the same number; `held` is what they own. Whoever
has a link may sign with its key (`SignClaim`), and a signature is known to
everybody as soon as it exists (`signed`): any claim can be tried with any of
them. The digest is the tuple of what is hashed; the escrow's address is the first
part of a gift's name `g`. The chain id is left out, as there is one chain. A
private claim runs the token's own `ConvertFrom` with the escrow as payer, under
all conditions of `depositFor`, and hands the dust to the sender. `now` advances
second by second, and between any two steps the token's owner may change the
auditor, blacklist the token or withdraw the escrow's permission. `plan` chooses
between behaviours without gifts, where everything of the token happens, and
behaviours with gifts, where no proof is submitted: a spend of an encrypted
balance touches nothing a gift depends on.

### Payroll and treasury deposits

`pc[w]` is the place of one job handler in `handlePayrollItemJob` /
`processPayrollItem`: an action ends where the code awaits something another
actor can interfere with. `itemStatus`, `attempt`, `txHash` are columns of
`payroll_items`; the transaction itself stands for its hash and for the sealed
raw bytes, which are stored by one statement. `lock` is the advisory lock of the
organisation. The queue is a `job` per item: pg-boss's singleton key makes a
second `send` within thirty days a no-op whatever became of the first job
(`Enqueue`), a job that throws or outlives `expireInSeconds` is retried
`RetryLimit` times, and a job can expire while its worker is still running
(`ExpireSlow`), so two handlers can hold the same item. `Crash` ends the process:
workers, lock and requests are gone, the rows, the queue and the chain stay, and
the start-up code fills the queue for running runs. The token is seen through its
own properties: a transfer executes exactly when no other spend of the treasury
was executed since its snapshot (`SpendRevokes`, `ProofsOutliveCredits` of
`EncryptedERC`).

In `TreasuryDeposits` `pc[q]` is the place of one HTTP request. A row has a status
and a hash; `old` says that it has not been updated for ninety seconds, which is
both the lease after which a retry may take a row over and the grace of the
reconciler. `Prompt` says that requests end before their row is that old.
`candidate` is the row the reconciler has read and asks the chain about before it
writes. `approve` sets the allowance and is sent as soon as it is signed; the
deposit is signed, its hash stored, then sent.

The node keeps what it accepted and does not replace a pending transaction by one
of the same nonce; a mined transaction has the confirmations the callers wait for
and is not reorganized away. An approve does not revert. `old` rows from before
the hash was stored ahead of the broadcast are not modelled. Statements on rows
that only one actor writes share a step.

### Onramp

A message is known by its CCTP nonce; its recipient and whether its hook data is
right, names a wrong key, another router, or cannot be decoded are constants. A
poller works on the copies it read at the start of its batch (`batch`), and every
write says whether it is checked against the row as it is now (`Transition`) or
only patches it (`Touch`). `earlier` orders the intents by their last update, which
decides what the next batch holds. A poll that expires runs on beside the next one
(`PollAfterExpiry`); a settle transaction nobody waits for any more stays in
`late` and may still be mined. The owner may take a message by
`ReceiveForRescue`, or stop and allow the token again. `InsertIntent` serves users
and treasuries alike; a treasury's intent is mirrored into `treasury_deposits` by
the transaction that credits it. Only one message per burn transaction is
checked. The stored status is never `minted`, because both transitions of
`markCredited` are one statement sequence in one transaction, so the fast path for
`minted` rows (`poller.ts:128-140`) is not modelled; and since registrations are
never undone the router's `RecipientNotRegistered` cannot follow the poller's own
check.

### Identity

A request of `Directory` reads the chain, reads or writes the mirror and answers
in separate steps. The API claims handles with its own key, so only `Signer`'s
own handle can be claimed through it; everybody else calls the contract.
`Access` keeps nonce and session rows; a sign-in consumes its nonce by one
delete-returning statement, then checks the signature, then opens the session. An
invite is read, and then claimed or expired by conditional updates.

### Onboarding and organisations

`job[u]` and `behind` are pg-boss's job of a user's singleton key and the one
queued after it; a handler whose job expired runs on (`slow`), a throw with the
last retry writes `failed`, and `Restart` queues unfinished rows again. Updates
are by user id and unconditional, as in the code. Transactions of the API's
account are mined in the order of their nonces (`mempool`), onboarding's among
those of the admins' requests. `asked` holds a request's operation and place;
`Die` ends it between any two steps. In `OrgTreasury` a key is named by the
request that created it.

### Audit trail

A block is named by its number and by the fork that produced it. A poll reads the
boundary, the logs and the tip's hash in separate steps and commits rows and
cursor in one transaction; `ReorganiseUnder` replaces blocks within the last
window and never a rotation. `streamCursor` and `sent` are one subscriber's.
A rotation is sent, mined, and then recorded, in any order with another one, or
not at all (`LoseRotation`); the genesis key has no row. Decryption with a key
other than the one encrypted for fails. `Disclosure` takes rows first, keys
later, decrypts row by row, and logs in a `finally`.

### Deployment

A script is a list of steps; a step is one transaction, one verification or one
file write, and the script may die between any two of them. One console runs one
script at a time against benzonet, fuji or avalanche. An address is a position in
`code`; `Stale` is one carried over from another chain, where nothing is. A
stranger's deposit may number a token before the script does. Verifier sources
and the marker are files the ceremony and `zkit verifiers` rewrite. On avalanche
the model runs the scripts `package.json` gives for it (`deploy:mainnet`, 09, 10
and the ceremony).

## Runs

Bounds are constants of the specifications (`MaxProofs`, `MaxTransactionIndex`,
`MaxAttempts`, `RetryLimit`, `MaxFaults`, `MaxRequests`, `MaxDeposits`,
`MaxTransfers`, `MaxOwnerCalls`, `MaxWalletCalls`, `MaxBlocks`, `MaxLogs`,
`MaxScripts`, `MaxCrashes`, `MaxStrangers`).
Deadlock is not checked: a bounded instance that has used up its bounds, or whose
items are all settled, stops.

| Run | Instance | What it shows |
|---|---|---|
| `token_payments` | two users, one token, amounts 1 and 2, two proofs, six transaction indices, a converter or a standalone deployment | all interleavings of deposits, mints, stale proofs, transfers, withdrawals and burns: `BalancesCovered`, `HistoryAddsUp`, `SpendRevokes`, `ProofsOutliveCredits`, and `ImplementsLedger`. Two proofs are what it takes for two spends of one snapshot to race; six indices are three deposits, or two and a spend |
| `settings_and_gifts` | without gifts: two tokens, one with more and one with fewer decimals, amounts that leave dust, an authorized depositor, a user with two keys, rotation of the auditor. With gifts: two gifts of either escrow on one link's key, two signatures, three seconds, amounts that are all dust or partly | `Redeemable`, `KeysReadable`, `GiftsRedeemable`, `ClaimsAsSigned`. Two gifts on one key are what a replayed signature needs; three seconds put a claim before, at and after an expiry |
| `payroll` | two items of two runs of one treasury, two handlers, a deposit on the same account, any two faults of five kinds, two operator requests | `PaymentsReportedTruly`, `ImplementsPayout`, `PauseLiftedByOperator`; and as long as nothing failed `TransfersGoThrough`: what the lock is for |
| `payroll_recovers` | a payable item and one without address, two handlers, any two faults, fairness | `RunsAttended` (which holds `RunNotSettledEarly`), `RunSettles` |
| `deposit_retries` | two keys, three requests, one payroll transfer, two faults of four kinds | for prompt requests `ConfirmedIsFinal` and `DepositsTrue`, which holds `OneDepositPerKey`. Three requests let a retry race both another retry and another key |
| `slow_deposit` | one key, requests that outlive the lease | a counterexample to `OneDepositPerKey`, see below |
| `onramp` | two burns, one with a wrong key, two pollers, one fault, one call of the owner, fairness | `CreditsTrue`, `ImplementsPromise`, `DeliverableIsCredited`. Two intents in a batch let one hold up the other; one expiry is what lets two polls overlap |
| `identity` | two users, two handles, two requests, one nonce, one invite | `RegistryBijective`, `AnswersOwned`, `UndisturbedRepairs`, `OneSessionPerNonce`, `InviteOutcomeFinal` |
| `onboarding` | one user, two handlers, two faults, one retry, fairness | `OnboardingInv`, `StatusAdvances`, `RegisteredSettles`. Rows of two users share nothing but the queue's code |
| `organisation` | an owner, an admin, a viewer who is onboarded, two requests that may die anywhere | `AllowlistTrue`, `RegisteredKeyIsSealed`, `RoleChangedByHigher` |
| `audit_trail` | six plans: a reorganised chain of four blocks, overlapping polls, a stream, two rotations, reads beside a rotation, a packet; fairness | `IndexTrue`, `StreamFaithful`, `TransfersVerifiable`, `DecryptionsLogged`, `PacketSelfContained`, `CatchesUp`. Four blocks with a window of two make a reorganisation undo one window and leave another |
| `deployment` | three networks, three scripts, two crashes, a stranger's deposit, a ceremony; two of the five verifiers | `RecordsTrue` (the manifest is true and the routes work), `AuditorKeyKept`, `RerunsReuse`. Three scripts are a stack, its interrupted rerun, and what depends on it |

### A disagreement with a comment

`slow_deposit`: a submitted row without a hash "provably means not broadcast"
(`api/payroll/chain.ts:480`), but not that nobody is about to broadcast. A request
that waits for its approval longer than the lease, and the retry that took over
its row, both deposit.

### Behaviours no property claims

They are in the model or next to it, and are stated here rather than hidden by a
bound:

* `depositFor` takes any amount PCT, and `EncryptedERC.sol:521` calls a mismatch
  cosmetic; the client that reads balances stops when the PCTs do not add up
  (`payroll/eerc.ts:328`). `HistoryAddsUp` is therefore checked without
  authorized depositors.
* `PrivateGiftEscrow.sol:129-133` accepts only tokens the eERC knows, to keep claims
  always redeemable. A gift that is all dust, or whose token is blacklisted or
  whose escrow loses its permission afterwards, still cannot be claimed; what
  `GiftsRedeemable` says of it is that its sender gets it back after the expiry.
* Every error of a deposit's send that is not a known one counts as a rejection, a
  lost reply too, and the stored hash is cleared; and "nonce too low" counts as
  sent although another transaction of the account may have taken the nonce
  (`payroll/chain.ts:507-510`). The properties of `deposit_retries` say where they
  exclude this. A row whose process died between storing and sending stays
  submitted for ever.
* A job that runs while its run is paused returns normally and is complete;
  resuming cannot enqueue the item again because of its singleton key
  (`LoadIdleRun`, `Enqueue`). `payroll_recovers` has no pause.
* A start that read "running" (`routes/payroll.ts:300`) writes it back
  unconditionally (`routes/payroll.ts:346-349`), also when the last handler closed
  the run in between. All its items are settled then, nothing is enqueued, and no
  handler closes it again. `payroll_recovers` makes one request.
* An item whose worker dies between storing and sending may lose its nonce to the
  next one; it is then sent in vain by each retry and the run stays open. It is
  never paid twice, and never reported wrongly. An item whose receipt is late
  releases the lock, and the next one may then revert and be retried.
* A CCTP message that cannot be decoded throws before its row is touched, so it
  heads every later batch and stops it (`onramp/poller.ts:77`).
  `DeliverableIsCredited` assumes there is none. A late `markBurned` of an expired
  poll may clear the nonce of an attested row, which the next poll fills again.
  A treasury's pre-claim of somebody else's burn still mirrors a treasury row
  when the burn is credited to its recipient.
* `complete` becomes `failed` when a handler throws at its last retry after
  another one finished (`StatusAdvances` says so). A handler whose job expired can
  leave a row without a job until the process restarts (`slow`).
* A receipt's status is not looked at after an allow-list or drip transaction
  (`admin/chain.ts:222`). Two requests that change one user's level at once, or a
  change by onboarding or a network admin while the organisation has a row for the
  user or a request about them is under way, may leave the row behind the chain
  (`contended`).
* Two rotations recorded in the other order leave the wrong key active, and one
  whose process dies after the receipt loses the only copy of its key
  (`routes/admin.ts:243`). Properties about reading exclude the amounts this
  touches, by name. A reorganisation deeper than a window is not noticed.
* A stranger's deposit between the check of the token order and the script's own
  gives the token another id than intended: the recorded id is true, but later
  runs refuse. After script 11 the router and the escrow still point to the old
  converter, and 09 writes two manifests, so that a crash between them leaves the
  second behind. `07-invoice-registry.ts` writes a manifest no other script reads;
  06 to 10 deploy anew at each run. Scripts 00 and 05 have no network gate.
* The ceremony's path B draws fresh keys on the run that confirms the staged
  artifacts (`run-ceremony.ts:243`), so what was staged from the first run belongs
  to other keys. Only path A, which adopts given keys, is modelled.

### Fairness

Fairness is used in `payroll_recovers`, `onramp`, `onboarding` and `audit_trail`.
The event loop keeps running handlers, requests and polls (`WF` of a worker's
`Work`, of `Handle`, of `Process(p)`, of `Advance(w)`, of `PollStep(p)`); pg-boss
expires orphaned jobs and delivers dead letters (`WF` of `ExpireOrphan`,
`DeadLetter`) and starts scheduled polls (`WF` of `Poll`, of the beginning of an
index poll); the chain mines what was sent (`WF` of `Mine`, `SettleLate`). No fault
is fair, and none is assumed to happen; nothing a user, an admin or a contract's
owner does is fair.

## Proofs

The theorems hold for every value of the constants that the modules' `ASSUME`s
admit; bounds occur in them only as natural numbers. None of the properties below
is inductive. Each proof module states first what is: what every actor knows at
each place where it can be interrupted, and how that relates to rows, queue and
chain. Then it proves the invariant for the initial states and for each action.
The runs check what follows from it on their instances.

### The token and the gift escrows (`EncryptedERC_proofs`)

The proofs about one balance say what each operator of `EncryptedUserBalances`
writes and that it keeps `BalanceInv`: every valid snapshot has the nonce of the
balance, is not newer than it, and is covered by it. That snapshots are covered
speaks of those the contract would accept, and to show that it survives a spend one
must know that the spend's proof was built from a state that held its amount, that
a nonce is never used for two histories, and that token ids are counted:

    IInv == TokenTypes /\ AllBalancesInv(balances) /\ TokensCounted /\ ProofsInv /\ IsFiniteSet(proofs)

From it follow `TypeCorrect` (so that no ERC20 balance is negative),
`BalancesAreCovered`, and `TokenImplementsLedger`: every step maps to a step of
`PrivateLedger` or to none (`StepMaps`). What a transaction does to the snapshots
is proved operator by operator (a credit keeps the valid ones of the present
nonce, a spend removes all older ones); that no step does both for one balance
gives `SpendsRevoke` and `CreditsKeepProofs`, the two facts payroll relies on.

Four theorems are about sums: `BalancesRedeemable`, `HistoriesAddUp`,
`EscrowsHoldOpenGifts` and `OpenGiftsAreCovered`. `MapThenSumSet` adds in the order
`CHOOSE` gives; the first section of the module proves from its definition, for
any finite set, that a sum does not depend on the order, what an element more or a
changed element does to it, and that terms compare as sums do. The induction is
by a smallest counterexample, as the library's induction theorems are out of the
provers' reach. On these rest `KeysInv` (balances, spends and the auditor's
ciphertexts are under registered keys, hence `CiphertextsReadable`), `IdsInv` (ids
and addresses lead to one another, and nobody has money under an id not given
out), `BackingInv` (encrypted supply, scaled, is at most the reserve), `MintInv`
(each mint proof was used at most once) and, without authorized depositors,
`HistoryInv`: for each valid snapshot, `balancePCT` and the amount PCTs up to its
index are its plaintext. The sums need `IsFiniteSet(Users)`.

For the escrows, `GiftInv` gives the gifts' types and that a private gift is of a
token the eERC knows; `HeldInv` that what an escrow holds of a token is the sum of
its open gifts of it. `GiftsKeepTokenSound` shows that the token's own invariants
survive the escrows' conversions, `ClaimsGoWhereSigned` that a claim follows a
signature over its very recipient, `EscrowsHoldOpenGifts` that nothing is paid out
twice and no dust stays behind, and `OpenGiftsAreCovered` that each open gift's
tokens are there. `SignedInv` says that a signature is of a gift there is, with its
key and with one of the PCTs that travel in claims. `EveryGiftHasOneWayOut` adds
the way out (`GiftsRedeemable`): while a gift is open, exactly one of the two ways
is, by the clock; before the expiry every signed claim passes every guard of the
escrow that does not depend on the token's owner, and at the expiry the sender's
refund passes all of them; and once it left the escrow, it has no way out any
more. The guards are operators of their own (`Claimable`,
`Refundable`, `DepositAccepted`), and each of the three actions is its guard and an
assignment to every variable, so that the guard is the action's `ENABLED` and the
theorem needs none.

`DeletionIsFaithful`: for arrays of any length, `SwapAndPop` removes exactly one
element, the loop keeps the not-yet-visited part in front of `i` and a clean part
behind it, the array holds the set, nothing is lost on the way and the index stays
in bounds. Nothing is model-checked of `UserHistoryDeletion`; the theorem covers
every array.

### Payroll (`Payroll_proofs`)

That an item is paid once depends on a worker that is about to store a transaction
finding none stored, which depends on no other worker being past the lock, and on
the account's nonces:

    IInv == /\ TypeOK /\ (\A w \in Workers : WorkerInv(w)) /\ (\A i \in Items : ItemInv(i))
            /\ AccountInv /\ OneTransaction /\ RunNotSettledEarly

`WorkerInv` says who holds the lock and that before `Store` the item has no
transaction, after it exactly the prepared one; `ItemInv` what each status says of
the chain; `AccountInv` that the k-th mined transaction used nonce k - 1 and no two
pending ones share a nonce; `OneTransaction` that the only transaction ever sent
for an item is the one stored with it. Two mined transactions of one item are
therefore equal, have one nonce, and are one. It follows: `ReportsAreTrue` (paid
at most once, confirmed if paid, failed only if not), `RunsSettleLast`,
`PausesHold` (only the operator's own request lifts a pause) and
`PayrollImplementsPayout`.

`RunsAreAttended` is the part of `RunSettles` that needs no fairness: somebody is
always left to bring a run to its end. It needs a second invariant, `Attended`, for
instances without pauses. `QueueInv` says that a completed job's item is settled,
that a run not yet started has no jobs, and that an outstanding item of a running
run has one unless a request is about to enqueue it; a crash between the request's
two steps is made good by the new process, which reads the status the first one
wrote. `ClosingInv`, where one request is made, says that a handler which has
looked at its run leaves none to be closed, and that of a run whose items are all
settled some job has yet to look at it, its own handler having died or not. An
item whose job used up its retries counts as attended: the queue gives it up, and
`RunSettles` is checked with more retries than faults. What the two hypotheses
exclude is said above: a pause uses up jobs, and a second request reopens a run.

`TransfersDoGoThrough` says what the lock is for, and needs a second invariant,
`Undisturbed => Calm`: as long as no fault happened and nobody else deposited, the
holder of the lock is the only one who signs, what is pending is at most its own
transaction, with the next nonce and proved from the balance that is there, and it
lets go only when that is mined. One fault is enough to lose this, as the section
on behaviours above says.

### Treasury deposits (`TreasuryDeposits_proofs`)

`DepositsAreTrue` and `ConfirmedStaysConfirmed`, for requests that end within the
lease (`Prompt`). The invariant: one request at a time works on a key's row
(`OneWorks`), which is submitted and young; the row has no hash before `Store` and
after it the hash of what the request signed (`RequestInv`); a row the reconciler
has read is still what it read, and aged (`CandidateInv`), so that none of the two
writes over the other; an accepted deposit was sent by the one request that signed
it (`SentOnce`); and, unless a reply was lost, the only deposit of a key that moved
funds or may still move them is the one stored in its row (`LiveIsStored`).
`Prompt` cannot be left out: `slow_deposit` shows two deposits without it.

### Onramp (`Onramp_proofs`)

`CreditsAreTrue` and `OnrampImplementsPromise`, where each burn transaction
carries one message (`OneMessageEach`). With two, the code's intent stands for
both and the promise fails of the second, which TLC shows on an instance with two
messages; that only one is checked is said above. `PollerInv` is what a poller
knows at each of its awaits: a row that was final when it was read still is; from
`advancing` on the message is right and the row's owner is whom it names; after
the send the message is used. `IntentInv` and `MessageInv` relate a row's status
to the router: credited only if used, mirrored exactly when credited for a
treasury, deposited exactly when used and neither held nor rescued.

### Identity (`Identity_proofs`)

`Bijective` (the registry's two mappings are inverse to each other), `NonceOpensOnce`
(one nonce opens one session: a request which consumed a nonce, until it has
answered, holds one that is deleted, that no other request holds, and that has
opened nothing yet) and `InviteSettlesOnce`. `AnswersAreOwned`: what a request read
of the contract before it writes the table is in the invariant with when it was
read (`RequestInv`), so that the table never names who never owned the name, and a
resolve answers an owner of the time it ran. `UndisturbedRequestsRepair`: a
request nobody wrote beside leaves the table right about its handle.

### Onboarding and organisations (`Organisation_proofs`)

`GasIsDrippedOnce` and `SettledStays` are proved of onboarding by itself
(`OnboardingSpec`). A drip is bounded by counting chances: of a user without a drip
row, each handler that has not dripped may still do it, and one more if the job
can be fetched; each chance beyond the first was paid for by a fault (`DripInv`).
Of a user whose job was never outlived one handler at most works, on a row that is
not settled (`JobInv`).

For the composition with the admins' requests: `ListTellsTheChain` holds that
whoever may transact passed KYC or was enabled by a network admin, which must be
known of rows, handlers, requests and pending transactions alike (`KycInv`); and
that an organisation's row tells a user's level as long as it was not contended,
that is, no two requests about the user were under way at once, and nobody outside
the organisation changed the level of one who has a row (`RowInv`).
`RolesChangeByRank`: a request carries its caller's rank and found its target
below it (`RankInv`). `KeySealed`: however many requests race or die, the key
registered for the treasury is the sealed one; a key, once sealed, stays, and a
request that is about to register holds it (`TreasuryInv`).

### Indexer, stream, keys and disclosure (`AuditTrail_proofs`)

What makes a cursor right depends on the behaviour, and the index has two
invariants. While one poll runs at a time (`SoloInv`), what lies `WindowBlocks` below
a cursor is right whatever the chain does, since no reorganisation reaches it, and
all of it is right if the cursor's block is still on the chain; that is what the
check and the rewind rely on. While the chain is never reorganised (`FlatInv`), any
number of polls may run: rows are only ever added, and what a poll is about to
store is what the chain has. `IndexIsTrue` follows from both.

`StreamIsFaithful`: a subscriber got, in order and once, what lies between its start
and its cursor, and the page in hand leaves none out behind the cursor
(`StreamInv`). `TransfersAreVerifiable`: key ranges begin at their rotations' logs
and, recorded in order, do not overlap and leave no gap (`KeysInv`); which rotation
is the last before a log is found by well-founded induction on positions.
`PacketsAreSelfContained`: a key that decrypted an event for a packet is in force
from the packet's first block on until the packet is signed (`Kept`), whatever is
mined and recorded between the reads. `EveryDecryptionLogged` needs none of this:
its invariant says, for each place of a reading request, what it has decrypted and
what is in the log by then, so that a request which throws in between has the
entry its `finally` writes still to come.

### Deployment (`Deployment_proofs`)

A step of a script relies on the steps before it, so the invariant needs to know
where in a program the console is:

    IInv == /\ CodeInv /\ FilesInv
            /\ ManifestTrue /\ RoutesWork
            /\ Cardinality(Lost \ replaced) <= crashes
            /\ ConsoleInv

`ConsoleInv` says that what is left of the script is a `Path`, a list in which each
step may come after the one before and which ends where a script may end, and that
the `Fact` of its first step holds: what is so just before that step, besides what
always is. The first part of the module proves that every program of `Programs` is
a path and begins with a step whose fact holds whatever an earlier script left
behind; this is why a crash or a refusal, which drop the rest, do no harm. Then
every action shows the fact of whatever step may follow it. The list of
verifiers is open. `CodeInv` says of each contract that a key it knows is in the key file,
that its tokens are numbered once each and in the configured order unless a
stranger deposited, that a token was seeded once at most and that on mainnet a
verifier is of a ceremony. Contracts change in one direction only (`Later`), which
is why a record once true stays true.

`RecordsAreTrue` and `AuditorKeysKept` are conjuncts of this. `RerunsDoReuse` is the
count of lost contracts: a contract of the stack is on record or is the one the
console is about to record (`AddressRecorded`), so only a crash between the
deployment and the record loses it. A stranger's deposit changes the tokens of a
contract under the script; that no fact is lost by it is `FactKept`. Each `Fact` was
checked by TLC on the `deployment` instance first.

### Model-checked only

* Liveness (`RunSettles`, `DeliverableIsCredited`, `RegisteredSettles`, `CatchesUp`):
  out of the provers' reach.

## Not modelled

* Curve arithmetic, Poseidon, Groth16 verifiers and circuits below the statement
  they prove: the cryptographic assumption above.
* Event contents other than the auditor's PCT; gas; ERC20s with fees on transfer.
* Intake of a payroll CSV, address resolution, the progress stream, the proving
  worker pool, paginated lists, totals of reports: they write rows before a run is
  ready, or only read.
* Contacts, a user's global role, the treasury's own allow-list and gas
  transactions, quotes: single statements on rows of one owner.
* `InvoiceRegistry`: records without money, one guard on a status per call.
* The demo seed: it stores what it did only at its end, so a run that was
  interrupted repeats its transfers, gift and invoice; it resets payroll runs,
  invites and handles of a development database.
* Smoke tests, demos, health and configuration checks, infrastructure, end-to-end
  tests: they change no state of the product.

## Plan

Every property the runs check is proved but the four of liveness. What proofs can
still add: the type facts of the modules whose invariants state them only in part.

`PROJECT.json` maps each definition to the lines it models, names the mutants that
each property tells from the code, and lists runs, hazards, findings and theorems.
