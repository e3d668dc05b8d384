----------------------------- MODULE Onboarding -----------------------------
(***************************************************************************)
(* Onboarding (services/api/src/onboarding): a user's row goes from KYC    *)
(* through the chain's transaction allow list and a drip of native gas to  *)
(* the user's own registration with the token.  A queue job per user       *)
(* advances the row; a step of its handler ends where the code awaits.     *)
(*                                                                         *)
(* Rows are updated by user id whatever they have become, and a job that   *)
(* outlives its sixty seconds is given to another handler while the first  *)
(* still runs.  Transactions are sent and not waited for.                  *)
(***************************************************************************)
EXTENDS Callers, Integers, Sequences, FiniteSets

CONSTANTS
    Newcomers,    \* the users that are onboarded
    Handlers,     \* job handlers of the onboarding.advance queue
    RetryLimit,
    OnboardingFaults, \* which of throw, expire and crash happen
    MaxFaults

ASSUME OnboardingAssumption ==
    /\ Newcomers \subseteq Users /\ IsFiniteSet(Handlers)
    /\ RetryLimit \in Nat /\ MaxFaults \in Nat
    /\ OnboardingFaults \subseteq {"throw", "expire", "crash"}

VARIABLES
    onboarding,   \* status in the onboardings table
    kyc,          \* users with a kyc_records row
    dripRow,      \* users with a row of the last day in drips
    level,        \* users enabled on the transaction allow list
    funded,       \* users with enough native balance
    registered,   \* users in the token's registrar
    mempool,      \* transactions the API's account sent, in the order of their nonces
    job,          \* the job of each user's key: none, queued, active, retry or dead
    behind,       \* users with a second job queued behind it
    retries,
    at, user, tries, \* a handler's next step, its user, its job's retries when fetched
    faults,
    sent,         \* history: drips sent to each user by onboarding
    slow          \* history: users whose handler outlived its job

onbChainVars == <<level, funded, registered, mempool>>
onbRowVars == <<onboarding, kyc, dripRow>>
onbQueueVars == <<job, behind, retries>>
handlerVars == <<at, user, tries>>
onbHistoryVars == <<faults, sent, slow>>
onbVars == <<onbChainVars, onbRowVars, onbQueueVars, handlerVars, onbHistoryVars>>

inProgressStatuses ==
    {"pending_kyc", "kyc_approved", "allowlisted", "gas_dripped", "awaiting_registration"}
Settled == {"complete", "failed"}

Transaction == [do : {"enable", "revoke", "drip"}, to : Users, for : Requests \cup {Nobody}]

OnboardingTypeOK ==
    /\ onboarding \in [Newcomers -> {"none"} \cup inProgressStatuses \cup Settled]
    /\ kyc \subseteq Newcomers /\ dripRow \subseteq Newcomers /\ level \subseteq Users
    /\ funded \subseteq Users /\ registered \subseteq Newcomers
    /\ mempool \in Seq(Transaction)
    /\ job \in [Newcomers -> {"none", "queued", "active", "retry", "dead"}]
    /\ behind \subseteq {u \in Newcomers : job[u] # "none"}
    /\ retries \in [Newcomers -> 0 .. RetryLimit]
    /\ user \in [Handlers -> Newcomers \cup {Nobody}]
    /\ faults \in 0 .. MaxFaults

OnboardingInit ==
    /\ onboarding = [u \in Newcomers |-> "none"]
    /\ kyc = {} /\ dripRow = {}
    /\ level = {} /\ funded = {} /\ registered = {} /\ mempool = <<>>
    /\ job = [u \in Newcomers |-> "none"]
    /\ behind = {}
    /\ retries = [u \in Newcomers |-> 0]
    /\ at = [w \in Handlers |-> "idle"]
    /\ user = [w \in Handlers |-> Nobody]
    /\ tries = [w \in Handlers |-> 0]
    /\ faults = 0 /\ slow = {}
    /\ sent = [u \in Newcomers |-> 0]

Fault(kind) ==
    /\ kind \in OnboardingFaults
    /\ faults < MaxFaults
    /\ faults' = faults + 1

-----------------------------------------------------------------------------
(* The chain.  Only an enabled sender who can pay for it can register.     *)

RegisterUser(u) ==
    /\ u \in level /\ u \in funded /\ u \notin registered
    /\ registered' = registered \cup {u}
    /\ UNCHANGED <<level, funded, mempool, onbRowVars, onbQueueVars, handlerVars, onbHistoryVars>>

Send(kind, u, q) == mempool' = Append(mempool, [do |-> kind, to |-> u, for |-> q])

(* The oldest transaction is mined.                                        *)
Mine ==
    LET tx == Head(mempool) IN
    /\ mempool # <<>>
    /\ mempool' = Tail(mempool)
    /\ level' = CASE tx.do = "enable" -> level \cup {tx.to}
                  [] tx.do = "revoke" -> level \ {tx.to}
                  [] OTHER -> level
    /\ funded' = IF tx.do = "drip" THEN funded \cup {tx.to} ELSE funded
    /\ UNCHANGED <<registered, onbRowVars, onbQueueVars, handlerVars, onbHistoryVars>>

-----------------------------------------------------------------------------
(* The queue: per user one job at a time and at most one behind it.        *)

\* boss.upsert: a queued job of the key is replaced, one that runs is followed.
Upsert(users) ==
    /\ job' = [u \in Newcomers |-> IF u \in users /\ job[u] = "none" THEN "queued" ELSE job[u]]
    /\ behind' = behind \cup {u \in users : job[u] \notin {"none", "queued"}}
    /\ UNCHANGED retries

Complete(u) ==
    /\ job' = [job EXCEPT ![u] = IF @ # "active" THEN @ ELSE IF u \in behind THEN "queued"
                                                                             ELSE "none"]
    /\ behind' = IF job[u] = "active" THEN behind \ {u} ELSE behind
    /\ retries' = [retries EXCEPT ![u] = IF job[u] = "active" THEN 0 ELSE @]

(* Back to the queue, or given up: its copy then goes to the dead letters. *)
RetryJob(u) ==
    /\ IF retries[u] < RetryLimit
       THEN /\ job' = [job EXCEPT ![u] = "retry"]
            /\ retries' = [retries EXCEPT ![u] = @ + 1]
       ELSE job' = [job EXCEPT ![u] = "dead"] /\ UNCHANGED retries
    /\ UNCHANGED behind

FetchJob(w, u) ==
    /\ at[w] = "idle"
    /\ job[u] \in {"queued", "retry"}
    /\ job' = [job EXCEPT ![u] = "active"]
    /\ at' = [at EXCEPT ![w] = "load"]
    /\ user' = [user EXCEPT ![w] = u]
    /\ tries' = [tries EXCEPT ![w] = retries[u]]
    /\ UNCHANGED <<behind, retries, onbRowVars, onbChainVars, onbHistoryVars>>

IsOrphan(u) == job[u] = "active" /\ \A w \in Handlers : at[w] = "idle" \/ user[w] # u

ExpireOrphan(u) ==
    /\ IsOrphan(u)
    /\ RetryJob(u)
    /\ UNCHANGED <<onbRowVars, onbChainVars, handlerVars, onbHistoryVars>>

ExpireSlow(u) ==
    /\ job[u] = "active" /\ ~IsOrphan(u)
    /\ Fault("expire")
    /\ RetryJob(u)
    /\ slow' = slow \cup {u}
    /\ UNCHANGED <<onbRowVars, onbChainVars, handlerVars, sent>>

(* handleOnboardingFailedJob                                               *)
DeadLetter(u) ==
    /\ job[u] = "dead" /\ onboarding[u] # "failed"
    /\ onboarding' = [onboarding EXCEPT ![u] = "failed"]
    /\ UNCHANGED <<kyc, dripRow, onbChainVars, onbQueueVars, handlerVars, onbHistoryVars>>

(* The process dies; the new one puts unfinished rows in the queue.        *)
Restart ==
    /\ Fault("crash")
    /\ at' = [w \in Handlers |-> "idle"]
    /\ user' = [w \in Handlers |-> Nobody]
    /\ tries' = [w \in Handlers |-> 0]
    /\ Upsert({u \in Newcomers : onboarding[u] \in inProgressStatuses})
    /\ UNCHANGED <<onbRowVars, onbChainVars, sent, slow>>

-----------------------------------------------------------------------------
(* POST /onboarding/start                                                  *)

\* Mutant: starting again begins from the start.
StatusWhenRestarted(u) == IF onboarding[u] \in Settled THEN onboarding[u] ELSE "pending_kyc"

StatusWhenStarted(u) == IF onboarding[u] = "none" THEN "pending_kyc" ELSE onboarding[u]

StartOnboarding(u) ==
    /\ onboarding' = [onboarding EXCEPT ![u] = StatusWhenStarted(u)]
    /\ IF onboarding[u] \in Settled THEN UNCHANGED onbQueueVars ELSE Upsert({u})
    /\ UNCHANGED <<kyc, dripRow, onbChainVars, handlerVars, onbHistoryVars>>

-----------------------------------------------------------------------------
(* The handler: advanceOnboarding.                                         *)

Go(w, from, to) ==
    /\ at[w] = from
    /\ at' = [at EXCEPT ![w] = to]
    /\ UNCHANGED <<user, tries>>

\* A step that only reads, and one that only updates the status.
Reads == UNCHANGED <<onbRowVars, onbChainVars, onbQueueVars, onbHistoryVars>>

UpdateOnboarding(w, status) ==
    /\ onboarding' = [onboarding EXCEPT ![user[w]] = status]
    /\ UNCHANGED <<onbChainVars, onbQueueVars, onbHistoryVars>>

StepFor ==
    [pending_kyc |-> "kyc", kyc_approved |-> "level", allowlisted |-> "balance",
     gas_dripped |-> "await", awaiting_registration |-> "poll",
     complete |-> "return", failed |-> "return"]

Load(w) ==
    /\ at[w] = "load"
    /\ Go(w, "load", StepFor[onboarding[user[w]]])
    /\ Reads

ApproveMockKyc(w) ==
    /\ Go(w, "kyc", "load")
    /\ kyc' = kyc \cup {user[w]}
    /\ UpdateOnboarding(w, "kyc_approved")
    /\ UNCHANGED dripRow

ReadLevel(w) ==
    /\ at[w] = "level"
    /\ Go(w, "level", IF user[w] \in level THEN "listed" ELSE "enable")
    /\ Reads

EnsureAllowlisted(w) ==
    /\ Go(w, "enable", "listed")
    /\ Send("enable", user[w], Nobody)
    /\ UNCHANGED <<level, funded, registered, onbRowVars, onbQueueVars, onbHistoryVars>>

CompleteAllowlistStep(w) ==
    /\ Go(w, "listed", "load")
    /\ UpdateOnboarding(w, "allowlisted")
    /\ UNCHANGED <<kyc, dripRow>>

ReadBalance(w) ==
    /\ at[w] = "balance"
    /\ Go(w, "balance", IF user[w] \in funded THEN "gas" ELSE "recent")
    /\ Reads

FindRecentDrip(w) ==
    /\ at[w] = "recent"
    /\ Go(w, "recent", IF user[w] \in dripRow THEN "gas" ELSE "drip")
    /\ Reads

DripGas(w) ==
    /\ Go(w, "drip", "dripped")
    /\ Send("drip", user[w], Nobody)
    /\ sent' = [sent EXCEPT ![user[w]] = @ + 1]
    /\ UNCHANGED <<level, funded, registered, onbRowVars, onbQueueVars, faults, slow>>

\* Mutant: the drip is not recorded.
DripUnrecorded(w) == UNCHANGED dripRow

DripRecorded(w) == dripRow' = dripRow \cup {user[w]}

(* The row in drips and the status are written in one transaction.         *)
RecordDrip(w) ==
    /\ Go(w, "dripped", "load")
    /\ DripRecorded(w)
    /\ UpdateOnboarding(w, "gas_dripped")
    /\ UNCHANGED kyc

CompleteGasStep(w) ==
    /\ Go(w, "gas", "load")
    /\ UpdateOnboarding(w, "gas_dripped")
    /\ UNCHANGED <<kyc, dripRow>>

AwaitRegistration(w) ==
    /\ Go(w, "await", "load")
    /\ UpdateOnboarding(w, "awaiting_registration")
    /\ UNCHANGED <<kyc, dripRow>>

PollRegistration(w) ==
    /\ at[w] = "poll"
    /\ Go(w, "poll", IF user[w] \in registered THEN "complete" ELSE "touch")
    /\ Reads

CompleteOnboarding(w) ==
    /\ Go(w, "complete", "return")
    /\ UpdateOnboarding(w, "complete")
    /\ UNCHANGED <<kyc, dripRow>>

\* Mutant: the job ends without another behind it.
NoNextPoll == "return"

NextPoll == "requeue"

TouchRegistration(w) ==
    /\ Go(w, "touch", NextPoll)
    /\ UpdateOnboarding(w, "awaiting_registration")
    /\ UNCHANGED <<kyc, dripRow>>

EnqueueNextPoll(w) ==
    /\ Go(w, "requeue", "return")
    /\ Upsert({user[w]})
    /\ UNCHANGED <<onbRowVars, onbChainVars, onbHistoryVars>>

Leave(w) ==
    /\ at' = [at EXCEPT ![w] = "idle"]
    /\ user' = [user EXCEPT ![w] = Nobody]
    /\ tries' = [tries EXCEPT ![w] = 0]

Return(w) ==
    /\ at[w] = "return"
    /\ Leave(w)
    /\ Complete(user[w])
    /\ UNCHANGED <<onbRowVars, onbChainVars, onbHistoryVars>>

(* Any await may throw: the job is retried, or with the last retry the row *)
(* is failed and the job is done.                                          *)
Throw(w) ==
    LET u == user[w] IN
    /\ at[w] \notin {"idle", "return"}
    /\ Fault("throw")
    /\ IF tries[w] >= RetryLimit
       THEN /\ onboarding' = [onboarding EXCEPT ![u] = "failed"]
            /\ Go(w, at[w], "return")
            /\ UNCHANGED onbQueueVars
       ELSE /\ Leave(w)
            /\ IF job[u] = "active" THEN RetryJob(u) ELSE UNCHANGED onbQueueVars
            /\ UNCHANGED onboarding
    /\ UNCHANGED <<kyc, dripRow, onbChainVars, sent, slow>>

Advance(w) ==
    \/ \E u \in Newcomers : FetchJob(w, u)
    \/ Load(w) \/ ApproveMockKyc(w)
    \/ ReadLevel(w) \/ EnsureAllowlisted(w) \/ CompleteAllowlistStep(w)
    \/ ReadBalance(w) \/ FindRecentDrip(w) \/ DripGas(w) \/ RecordDrip(w) \/ CompleteGasStep(w)
    \/ AwaitRegistration(w) \/ PollRegistration(w) \/ CompleteOnboarding(w)
    \/ TouchRegistration(w) \/ EnqueueNextPoll(w) \/ Return(w)

OnboardingNext ==
    \/ \E w \in Handlers : Advance(w) \/ Throw(w)
    \/ \E u \in Newcomers :
        \/ StartOnboarding(u) \/ RegisterUser(u)
        \/ ExpireOrphan(u) \/ ExpireSlow(u) \/ DeadLetter(u)
    \/ Mine \/ Restart

(* Handlers run, the queue expires orphans and delivers dead letters, and  *)
(* the chain mines.  Nobody is obliged to start or to register.            *)
OnboardingFairness ==
    /\ \A w \in Handlers : WF_onbVars(Advance(w))
    /\ \A u \in Newcomers : WF_onbVars(ExpireOrphan(u)) /\ WF_onbVars(DeadLetter(u))
    /\ WF_onbVars(Mine)

OnboardingSpec == OnboardingInit /\ [][OnboardingNext]_onbVars /\ OnboardingFairness

-----------------------------------------------------------------------------
(* Gas is sent once, and once more at most for every handler that was      *)
(* interrupted between the transaction and its row.                        *)
DripsBounded == \A u \in Newcomers : sent[u] <= 1 + faults

(* Together with the types: only the states of the step machine occur.     *)
OnboardingInv == OnboardingTypeOK /\ DripsBounded

(* A settled row stays settled, unless the job throws once more than it is *)
(* retried, and nobody is sent back through KYC, as long as no handler     *)
(* outlives its job.                                                       *)
StatusAdvances ==
    [][\A u \in Newcomers : u \notin slow' =>
        /\ onboarding[u] \in Settled =>
               \/ onboarding'[u] = onboarding[u]
               \/ onboarding'[u] = "failed" /\ faults' > RetryLimit
        /\ onboarding'[u] = "pending_kyc" => onboarding[u] \in {"none", "pending_kyc"}]_onbVars

(* A user who started and registered is told so: the row gets to complete  *)
(* or failed, whatever the process does.                                   *)
RegisteredSettles ==
    \A u \in Newcomers :
        onboarding[u] # "none" /\ u \in registered ~> onboarding[u] \in Settled \/ u \in slow
=============================================================================
