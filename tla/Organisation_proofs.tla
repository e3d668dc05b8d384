-------------------------- MODULE Organisation_proofs --------------------------
(***************************************************************************)
(* Theorems about an organisation, its members' onboarding and its         *)
(* treasury, for any number of users, requests, handlers, retries and      *)
(* faults.                                                                 *)
(***************************************************************************)
EXTENDS Organisation, FiniteSetTheorems, TLAPS

-----------------------------------------------------------------------------
(* The treasury.  The row's key never changes once it is there, so that a  *)
(* request holds that key or none; one that registers holds it; and a row  *)
(* is stamped by a request that saw its registration.                      *)

Registers(q) == step[q] \in {"check", "send", "wait", "stamp"} \/ q \in sending

HeldIsSealed == \A q \in Requests : /\ key[q] \in {Nobody, sealedKey}
                                    /\ Registers(q) => key[q] = sealedKey /\ sealedKey # Nobody

StampsRegistered == \A q \in Requests : step[q] = "stamp" => registeredKey # Nobody

TreasuryInv == TreasuryTypeOK /\ HeldIsSealed /\ StampsRegistered /\ RegisteredKeyIsSealed

LEMMA InitTreasuryInv == TreasuryInit => TreasuryInv
BY CallersAssumption DEF TreasuryInit, TreasuryInv, TreasuryTypeOK, HeldIsSealed, Registers,
   StampsRegistered, RegisteredKeyIsSealed, Keys

(* A request's step preserves the type invariant.                          *)
LEMMA ProvisionType ==
    ASSUME TreasuryInv, NEW q \in Requests, Provision(q) \/ ProvisionStep(q)
    PROVE  TreasuryTypeOK'
<1> USE DEF TreasuryInv, TreasuryTypeOK, Goes, Keys
<1>1. CASE Provision(q)  BY <1>1 DEF Provision
<1>2. CASE FindTreasury(q)  BY <1>2 DEF FindTreasury
<1>3. CASE InsertTreasury(q)  BY <1>3 DEF InsertTreasury
<1>4. CASE loadOrCreateTreasuryEercAccount(q)
    BY <1>4 DEF loadOrCreateTreasuryEercAccount, SealIfNone
<1>5. CASE CheckRegistered(q)  BY <1>5 DEF CheckRegistered
<1>6. CASE SendRegistration(q)  BY <1>6 DEF SendRegistration
<1>7. CASE MineRegistration(q)  BY <1>7 DEF MineRegistration
<1>8. CASE StampRegistered(q)  BY <1>8 DEF StampRegistered
<1>9. CASE StopProvision(q)  BY <1>9 DEF StopProvision
<1>10. QED
    BY <1>1, <1>2, <1>3, <1>4, <1>5, <1>6, <1>7, <1>8, <1>9 DEF ProvisionStep

(* Once sealed, the key stays; a request that goes on to register holds it.*)
LEMMA ProvisionHolds ==
    ASSUME TreasuryInv, NEW q \in Requests, Provision(q) \/ ProvisionStep(q)
    PROVE  HeldIsSealed'
<1> USE CallersAssumption DEF TreasuryInv, TreasuryTypeOK, HeldIsSealed, Registers, Goes, Keys
<1>1. CASE Provision(q)  BY <1>1 DEF Provision
<1>2. CASE FindTreasury(q)  BY <1>2 DEF FindTreasury
<1>3. CASE InsertTreasury(q)  BY <1>3 DEF InsertTreasury
<1>4. CASE loadOrCreateTreasuryEercAccount(q)
    BY <1>4 DEF loadOrCreateTreasuryEercAccount, SealIfNone
<1>5. CASE CheckRegistered(q)  BY <1>5 DEF CheckRegistered
<1>6. CASE SendRegistration(q)  BY <1>6 DEF SendRegistration
<1>7. CASE MineRegistration(q)  BY <1>7 DEF MineRegistration
<1>8. CASE StampRegistered(q)  BY <1>8 DEF StampRegistered
<1>9. CASE StopProvision(q)  BY <1>9 DEF StopProvision
<1>10. QED
    BY <1>1, <1>2, <1>3, <1>4, <1>5, <1>6, <1>7, <1>8, <1>9 DEF ProvisionStep

LEMMA ProvisionRegisters ==
    ASSUME TreasuryInv, NEW q \in Requests, Provision(q) \/ ProvisionStep(q)
    PROVE  StampsRegistered' /\ RegisteredKeyIsSealed'
<1> USE DEF TreasuryInv, TreasuryTypeOK, HeldIsSealed, Registers, StampsRegistered,
    RegisteredKeyIsSealed, Goes, Keys
<1>1. CASE Provision(q)  BY <1>1 DEF Provision
<1>2. CASE FindTreasury(q)  BY <1>2 DEF FindTreasury
<1>3. CASE InsertTreasury(q)  BY <1>3 DEF InsertTreasury
<1>4. CASE loadOrCreateTreasuryEercAccount(q)
    BY <1>4 DEF loadOrCreateTreasuryEercAccount, SealIfNone
<1>5. CASE CheckRegistered(q)  BY <1>5 DEF CheckRegistered
<1>6. CASE SendRegistration(q)  BY <1>6 DEF SendRegistration
<1>7. CASE MineRegistration(q)  BY <1>7 DEF MineRegistration
<1>8. CASE StampRegistered(q)  BY <1>8 DEF StampRegistered
<1>9. CASE StopProvision(q)  BY <1>9 DEF StopProvision
<1>10. QED
    BY <1>1, <1>2, <1>3, <1>4, <1>5, <1>6, <1>7, <1>8, <1>9 DEF ProvisionStep

LEMMA TreasuryNextInv == TreasuryInv /\ [TreasuryNext]_treasuryVars => TreasuryInv'
<1> SUFFICES ASSUME TreasuryInv, [TreasuryNext]_treasuryVars PROVE TreasuryInv'
    OBVIOUS
<1>1. CASE UNCHANGED treasuryVars
    BY <1>1 DEF TreasuryInv, TreasuryTypeOK, HeldIsSealed, Registers, StampsRegistered,
       RegisteredKeyIsSealed, treasuryVars
<1>2. ASSUME NEW q \in Requests, Provision(q) \/ ProvisionStep(q)
      PROVE  TreasuryInv'
    BY <1>2, ProvisionType, ProvisionHolds, ProvisionRegisters DEF TreasuryInv
<1>3. QED
    BY <1>1, <1>2 DEF TreasuryNext

-----------------------------------------------------------------------------
(* Onboarding: where handlers and jobs are.                                *)

(* Where a handler is in the work it took, and where it is past KYC.       *)
Places == {"load", "kyc", "level", "enable", "listed", "balance", "recent", "drip", "dripped",
           "gas", "await", "poll", "complete", "touch", "requeue", "return"}
PastKyc == Places \ {"load", "kyc", "return"}

(* A job is there, or a handler at work, only for a user who has a row.    *)
OnbTypes ==
    /\ OnboardingTypeOK
    /\ at \in [Handlers -> Places \cup {"idle"}]
    /\ tries \in [Handlers -> 0 .. RetryLimit]
    /\ sent \in [Newcomers -> Nat]
    /\ \A u \in Newcomers : job[u] # "none" => onboarding[u] # "none"
    /\ \A w \in Handlers : at[w] # "idle" => user[w] \in Newcomers /\ onboarding[user[w]] # "none"

-----------------------------------------------------------------------------
(* Drips.  As long as no drip is recorded, every handler that has not sent *)
(* one may, and one more if the job can still be fetched; each of these    *)
(* chances beyond the first was paid for by a fault.                       *)

Undone(u) == {w \in Handlers : user[w] = u /\ at[w] \notin {"idle", "dripped"}}
AtDrip(u) == {w \in Handlers : user[w] = u /\ at[w] = "drip"}
Fetchable(u) == IF job[u] # "active" \/ IsOrphan(u) THEN 1 ELSE 0

DripInv(u) ==
    IF u \in dripRow
    THEN sent[u] + Cardinality(AtDrip(u)) <= 1 + faults
    ELSE sent[u] + Cardinality(Undone(u)) + Fetchable(u) <= 1 + faults

-----------------------------------------------------------------------------
(* Settled rows.  For a user whose job was never outlived, one handler at  *)
(* most works, on a row that is not settled, and every retry stands for a  *)
(* fault.                                                                  *)

JobInv(u) ==
    /\ \A w \in Handlers : at[w] # "idle" /\ user[w] = u =>
        /\ job[u] = "active" /\ tries[w] = retries[u]
        /\ at[w] \notin {"load", "return"} => onboarding[u] \notin Settled
        /\ \A v \in Handlers : at[v] # "idle" /\ user[v] = u => v = w
    /\ retries[u] + (IF IsOrphan(u) THEN 1 ELSE 0) <= faults
    /\ job[u] = "dead" => RetryLimit < faults

SettledInv == \A u \in Newcomers \ slow : JobInv(u)

-----------------------------------------------------------------------------
(* Who may transact.  Rows and handlers past KYC, transactions and requests *)
(* that enable are of users who passed it, or of a network admin's word.   *)

KycRows ==
    /\ \A u \in Newcomers : onboarding[u] \in approvedKycOnboardingStatuses => u \in kyc
    /\ \A w \in Handlers : at[w] \in PastKyc => user[w] \in kyc

KycSent == \A i \in 1 .. Len(mempool) :
                mempool[i].do = "enable" => mempool[i].to \in kyc \cup adminEnabled

KycAsked == \A q \in Requests : InFlight(q) =>
                /\ asked[q].op = "adminEnable" => asked[q].of \in adminEnabled
                /\ asked[q].op = "enable" /\ asked[q].step # "load" => asked[q].of \in kyc

KycInv == KycRows /\ KycSent /\ KycAsked /\ AllowlistedHasKyc

-----------------------------------------------------------------------------
(* Requests.                                                               *)

OpSteps ==
    [member |-> {"check", "write", "done"},
     enable |-> {"load", "intent", "read", "send", "wait", "record", "done"},
     revoke |-> {"load", "intent", "read", "send", "wait", "record", "done"},
     adminEnable |-> {"read", "send", "wait", "record", "done"},
     adminRevoke |-> {"read", "send", "wait", "record", "done"},
     drip |-> {"send", "wait", "record", "done"},
     none |-> {"unused"}]

AskedType ==
    [op : DOMAIN OpSteps, by : Users \cup {Nobody}, rank : -1 .. 3, of : Users \cup {Nobody},
     as : Settable \cup {"none"}, step : UNION {OpSteps[op] : op \in DOMAIN OpSteps}]

AskedTypes ==
    /\ asked \in [Requests -> AskedType]
    /\ \A q \in Requests :
        /\ asked[q].step \in OpSteps[asked[q].op]
        /\ asked[q].op # "none" => asked[q].of \in Users
        /\ asked[q].op = "drip" => asked[q].of \in Newcomers
        /\ asked[q].op = "member" => asked[q].by \in Users /\ asked[q].as \in Settable

(* The rank a request carries is its caller's, and is above its target's   *)
(* once it was compared, unless roles changed since.                       *)
RankInv ==
    \A q \in Requests :
        /\ asked[q].step \in {"check", "write"} /\ q \notin outdated =>
               asked[q].rank = ROLE_RANK[role[asked[q].by]]
        /\ asked[q].step = "write" =>
            /\ role[asked[q].of] # "owner"
            /\ q \notin outdated => ROLE_RANK[role[asked[q].of]] < asked[q].rank

-----------------------------------------------------------------------------
(* The organisation's list.                                                *)

(* A request's transaction is the one it asked for, sent once.             *)
SentAsAsked ==
    \A i \in 1 .. Len(mempool) : mempool[i].for # Nobody =>
        LET tx == mempool[i] IN
        /\ asked[tx.for].op \in DOMAIN SentFor
        /\ tx.do = SentFor[asked[tx.for].op] /\ tx.to = asked[tx.for].of
        /\ asked[tx.for].step \in {"wait", "done"}

SentOnce ==
    /\ SentAsAsked
    /\ \A i, j \in 1 .. Len(mempool) :
           mempool[i].for # Nobody /\ mempool[i].for = mempool[j].for => i = j

\* A request about u's level, and the organisation's transaction for it.
About(q, u) == OnAllowList(q) /\ asked[q].of = u
OrgTx(i, u) ==
    mempool[i].for # Nobody /\ asked[mempool[i].for].op \in OrgOps /\ mempool[i].to = u

(* For a user whose level nobody else changes meanwhile: one request at    *)
(* a time; while its transaction is on the way the row is pending and no   *)
(* other is; a request that goes on to write found the chain as it writes. *)
OneRequest(u) == \A q, r \in Requests : About(q, u) /\ About(r, u) => q = r

OrgSent(u) ==
    \A i \in 1 .. Len(mempool) : OrgTx(i, u) =>
        /\ row[u] = "pending"
        /\ \A q \in Requests : About(q, u) => q = mempool[i].for
        /\ \A j \in 1 .. Len(mempool) : OrgTx(j, u) => j = i

OrgAsked(u) ==
    \A q \in Requests : About(q, u) /\ asked[q].op \in OrgOps =>
        /\ asked[q].step \in {"read", "send", "wait", "record"} => row[u] = "pending"
        /\ asked[q].step = "record" => (u \in level <=> asked[q].op = "enable")

RowTrue(u) == (row[u] = "enabled" => u \in level) /\ (row[u] = "revoked" => u \notin level)

RowInv(u) == OneRequest(u) /\ OrgSent(u) /\ OrgAsked(u) /\ RowTrue(u)

-----------------------------------------------------------------------------
(* Types of onboarding.                                                    *)

LEMMA InitOnbTypes == OnboardingInit => OnbTypes
BY OnboardingAssumption
   DEF OnboardingInit, OnbTypes, OnboardingTypeOK, Places

LEMMA UpsertType ==
    ASSUME OnbTypes, NEW users \in SUBSET Newcomers, Upsert(users)
    PROVE  /\ job' \in [Newcomers -> {"none", "queued", "active", "retry", "dead"}]
           /\ behind' \subseteq {u \in Newcomers : job'[u] # "none"}
           /\ retries' = retries
           /\ \A u \in Newcomers : job'[u] # "none" => u \in users \/ job[u] # "none"
           /\ \A u \in Newcomers : job[u] # "none" => job'[u] = job[u]
           /\ \A u \in Newcomers : job'[u] # job[u] => job'[u] = "queued"
BY DEF Upsert, OnbTypes, OnboardingTypeOK

LEMMA CompleteType ==
    ASSUME OnbTypes, NEW u \in Newcomers, Complete(u)
    PROVE  /\ job' \in [Newcomers -> {"none", "queued", "active", "retry", "dead"}]
           /\ behind' \subseteq {v \in Newcomers : job'[v] # "none"}
           /\ retries' \in [Newcomers -> 0 .. RetryLimit]
           /\ \A v \in Newcomers : job'[v] # "none" => job[v] # "none"
           /\ \A v \in Newcomers \ {u} : job'[v] = job[v] /\ retries'[v] = retries[v]
           /\ job[u] = "active" => job'[u] # "active" /\ job'[u] # "dead" /\ retries'[u] = 0
           /\ job[u] # "active" => job'[u] = job[u] /\ retries'[u] = retries[u]
BY OnboardingAssumption DEF Complete, OnbTypes, OnboardingTypeOK

LEMMA RetryType ==
    ASSUME OnbTypes, NEW u \in Newcomers, RetryJob(u), job[u] = "active"
    PROVE  /\ job' \in [Newcomers -> {"none", "queued", "active", "retry", "dead"}]
           /\ behind' \subseteq {v \in Newcomers : job'[v] # "none"}
           /\ retries' \in [Newcomers -> 0 .. RetryLimit]
           /\ \A v \in Newcomers \ {u} : job'[v] = job[v] /\ retries'[v] = retries[v]
           /\ \/ job'[u] = "retry" /\ retries'[u] = retries[u] + 1
              \/ job'[u] = "dead" /\ retries'[u] = retries[u] /\ retries[u] = RetryLimit
<1> USE OnboardingAssumption DEF OnbTypes, OnboardingTypeOK
<1>1. CASE retries[u] < RetryLimit
    <2>1. retries[u] + 1 \in 0 .. RetryLimit
        BY <1>1
    <2>2. /\ job' = [job EXCEPT ![u] = "retry"] /\ behind' = behind
          /\ retries' = [retries EXCEPT ![u] = retries[u] + 1]
        BY <1>1 DEF RetryJob
    <2>3. QED
        BY <2>1, <2>2
<1>2. CASE ~(retries[u] < RetryLimit)
    <2>1. retries[u] = RetryLimit
        BY <1>2
    <2>2. QED
        BY <1>2, <2>1 DEF RetryJob
<1>3. QED
    BY <1>1, <1>2

LEMMA FaultType ==
    ASSUME faults \in 0 .. MaxFaults, NEW kind, Fault(kind)
    PROVE  faults' \in 0 .. MaxFaults /\ faults' = faults + 1
BY OnboardingAssumption DEF Fault

LEMMA SendType ==
    ASSUME mempool \in Seq(Transaction),
           NEW kind \in {"enable", "revoke", "drip"}, NEW u \in Users,
           NEW q \in Requests \cup {Nobody}, Send(kind, u, q)
    PROVE  mempool' \in Seq(Transaction)
<1>1. [do |-> kind, to |-> u, for |-> q] \in Transaction
    BY DEF Transaction
<1>2. QED
    BY <1>1 DEF Send

LEMMA HandlerTypes ==
    ASSUME OnbTypes, NEW w \in Handlers, Advance(w) \/ Throw(w)
    PROVE  OnbTypes'
<1> USE OnboardingAssumption
    DEF OnbTypes, OnboardingTypeOK, Go, Reads, UpdateOnboarding, onbChainVars, onbRowVars,
        onbQueueVars, handlerVars, onbHistoryVars, Places
<1>1. ASSUME NEW u \in Newcomers, FetchJob(w, u) PROVE OnbTypes'
    BY <1>1 DEF FetchJob
<1>2. CASE Load(w)
    <2>1. onboarding[user[w]] \in DOMAIN StepFor
        BY <1>2 DEF Load, StepFor, inProgressStatuses, Settled
    <2>2. StepFor[onboarding[user[w]]] \in Places
        BY <2>1 DEF StepFor
    <2>3. QED
        BY <1>2, <2>2 DEF Load
<1>3. CASE ApproveMockKyc(w)
    BY <1>3 DEF ApproveMockKyc, inProgressStatuses
<1>4. CASE ReadLevel(w)
    BY <1>4 DEF ReadLevel
<1>5. CASE EnsureAllowlisted(w)
    <2>1. mempool' \in Seq(Transaction)
        BY <1>5, SendType DEF EnsureAllowlisted
    <2>2. QED
        BY <1>5, <2>1 DEF EnsureAllowlisted
<1>6. CASE CompleteAllowlistStep(w)
    BY <1>6 DEF CompleteAllowlistStep, inProgressStatuses
<1>7. CASE ReadBalance(w)
    BY <1>7 DEF ReadBalance
<1>8. CASE FindRecentDrip(w)
    BY <1>8 DEF FindRecentDrip
<1>9. CASE DripGas(w)
    <2>1. mempool' \in Seq(Transaction)
        BY <1>9, SendType DEF DripGas
    <2>2. QED
        BY <1>9, <2>1 DEF DripGas
<1>10. CASE RecordDrip(w)
    BY <1>10 DEF RecordDrip, DripRecorded, inProgressStatuses
<1>11. CASE CompleteGasStep(w)
    BY <1>11 DEF CompleteGasStep, inProgressStatuses
<1>12. CASE AwaitRegistration(w)
    BY <1>12 DEF AwaitRegistration, inProgressStatuses
<1>13. CASE PollRegistration(w)
    BY <1>13 DEF PollRegistration
<1>14. CASE CompleteOnboarding(w)
    BY <1>14 DEF CompleteOnboarding, Settled
<1>15. CASE TouchRegistration(w)
    BY <1>15 DEF TouchRegistration, NextPoll, inProgressStatuses
<1>16. CASE EnqueueNextPoll(w)
    <2>1. user[w] \in Newcomers /\ {user[w]} \in SUBSET Newcomers
        BY <1>16 DEF EnqueueNextPoll
    <2>2. QED
        BY <1>16, <2>1, UpsertType DEF EnqueueNextPoll
<1>17. CASE Return(w)
    <2>1. user[w] \in Newcomers
        BY <1>17 DEF Return
    <2>2. QED
        BY <1>17, <2>1, CompleteType DEF Return, Leave
<1>18. CASE Throw(w)
    <2>1. user[w] \in Newcomers /\ onboarding[user[w]] # "none" /\ faults' \in 0 .. MaxFaults
        BY <1>18, FaultType DEF Throw
    <2>2. CASE tries[w] >= RetryLimit
        <3>1. /\ onboarding' = [onboarding EXCEPT ![user[w]] = "failed"]
              /\ at' = [at EXCEPT ![w] = "return"]
              /\ UNCHANGED <<user, tries, onbQueueVars>>
            BY <1>18, <2>2 DEF Throw
        <3>2. UNCHANGED <<kyc, dripRow, onbChainVars, sent, slow>>
            BY <1>18 DEF Throw
        <3>3. QED
            BY <1>18, <2>1, <3>1, <3>2 DEF Throw, Settled
    <2>3. CASE ~(tries[w] >= RetryLimit)
        <3>1. Leave(w) /\ UNCHANGED <<onboarding, kyc, dripRow, onbChainVars, sent, slow>>
            BY <1>18, <2>3 DEF Throw
        <3>2. CASE job[user[w]] = "active"
            <4>1. RetryJob(user[w])
                BY <1>18, <2>3, <3>2 DEF Throw
            <4>2. /\ job' \in [Newcomers -> {"none", "queued", "active", "retry", "dead"}]
                  /\ behind' \subseteq {v \in Newcomers : job'[v] # "none"}
                  /\ retries' \in [Newcomers -> 0 .. RetryLimit]
                  /\ \A v \in Newcomers \ {user[w]} : job'[v] = job[v]
                BY <2>1, <3>2, <4>1, RetryType
            <4>3. \A v \in Newcomers : job'[v] # "none" => onboarding'[v] # "none"
                BY <2>1, <3>1, <4>2
            <4>4. QED
                BY <2>1, <3>1, <4>2, <4>3 DEF Leave
        <3>3. CASE job[user[w]] # "active"
            <4>1. UNCHANGED onbQueueVars
                BY <1>18, <2>3, <3>3 DEF Throw
            <4>2. QED
                BY <2>1, <3>1, <4>1 DEF Leave
        <3>4. QED
            BY <3>2, <3>3
    <2>4. QED
        BY <2>2, <2>3
<1>19. QED
    BY <1>1, <1>2, <1>3, <1>4, <1>5, <1>6, <1>7, <1>8, <1>9, <1>10, <1>11, <1>12, <1>13, <1>14,
       <1>15, <1>16, <1>17, <1>18 DEF Advance

LEMMA OutsideTypes ==
    ASSUME OnbTypes,
           \/ \E u \in Newcomers :
               \/ StartOnboarding(u) \/ RegisterUser(u)
               \/ ExpireOrphan(u) \/ ExpireSlow(u) \/ DeadLetter(u)
           \/ Mine \/ Restart
    PROVE  OnbTypes'
<1> USE OnboardingAssumption
    DEF OnbTypes, OnboardingTypeOK, onbChainVars, onbRowVars, onbQueueVars, handlerVars,
        onbHistoryVars
<1>1. ASSUME NEW u \in Newcomers, StartOnboarding(u) PROVE OnbTypes'
    <2>1. /\ onboarding' \in [Newcomers -> {"none"} \cup inProgressStatuses \cup Settled]
          /\ onboarding'[u] # "none"
          /\ \A v \in Newcomers : onboarding[v] # "none" => onboarding'[v] # "none"
        BY <1>1 DEF StartOnboarding, StatusWhenStarted, inProgressStatuses
    <2>2. CASE onboarding[u] \in Settled
        BY <1>1, <2>1, <2>2 DEF StartOnboarding
    <2>3. CASE onboarding[u] \notin Settled
        <3>1. Upsert({u}) /\ {u} \in SUBSET Newcomers
            BY <1>1, <2>3 DEF StartOnboarding
        <3>2. QED
            BY <1>1, <2>1, <3>1, UpsertType DEF StartOnboarding
    <2>4. QED
        BY <2>2, <2>3
<1>2. ASSUME NEW u \in Newcomers, RegisterUser(u) PROVE OnbTypes'
    BY <1>2 DEF RegisterUser
<1>3. ASSUME NEW u \in Newcomers, ExpireOrphan(u) PROVE OnbTypes'
    BY <1>3, RetryType DEF ExpireOrphan, IsOrphan
<1>4. ASSUME NEW u \in Newcomers, ExpireSlow(u) PROVE OnbTypes'
    BY <1>4, RetryType, FaultType DEF ExpireSlow
<1>5. ASSUME NEW u \in Newcomers, DeadLetter(u) PROVE OnbTypes'
    BY <1>5 DEF DeadLetter, Settled
<1>6. CASE Mine
    <2>1. Head(mempool) \in Transaction /\ Tail(mempool) \in Seq(Transaction)
        BY <1>6 DEF Mine
    <2>2. QED
        BY <1>6, <2>1 DEF Mine, Transaction
<1>7. CASE Restart
    <2>1. {u \in Newcomers : onboarding[u] \in inProgressStatuses} \in SUBSET Newcomers
        OBVIOUS
    <2>2. faults' \in 0 .. MaxFaults /\ \A u \in Newcomers : onboarding[u] \in inProgressStatuses => onboarding[u] # "none"
        BY <1>7, FaultType DEF Restart, inProgressStatuses
    <2>3. QED
        BY <1>7, <2>1, <2>2, UpsertType DEF Restart
<1>8. QED
    BY <1>1, <1>2, <1>3, <1>4, <1>5, <1>6, <1>7

LEMMA UpsertJob ==
    ASSUME NEW users, Upsert(users), NEW u \in Newcomers
    PROVE  job'[u] = job[u] \/ (job[u] = "none" /\ job'[u] = "queued")
<1>1. job'[u] = IF u \in users /\ job[u] = "none" THEN "queued" ELSE job[u]
    BY DEF Upsert
<1>2. CASE u \in users /\ job[u] = "none"
    BY <1>1, <1>2
<1>3. CASE ~(u \in users /\ job[u] = "none")
    BY <1>1, <1>3
<1>4. QED
    BY <1>2, <1>3


-----------------------------------------------------------------------------
(* Drips.                                                                  *)

LEMMA HandlerCount ==
    ASSUME NEW S \in SUBSET Handlers
    PROVE  IsFiniteSet(S) /\ Cardinality(S) \in Nat /\ (S = {} => Cardinality(S) = 0)
BY OnboardingAssumption, FS_Subset, FS_CardinalityType, FS_EmptySet

LEMMA HandlerSets ==
    ASSUME NEW S \in SUBSET Handlers, NEW T \in SUBSET Handlers, NEW w
    PROVE  /\ S \subseteq T => Cardinality(S) <= Cardinality(T)
           /\ S \subseteq T \cup {w} => Cardinality(S) <= Cardinality(T) + 1
           /\ w \in T /\ S \subseteq T \ {w} => Cardinality(S) <= Cardinality(T) - 1
<1>1. IsFiniteSet(T) /\ Cardinality(S) \in Nat /\ Cardinality(T) \in Nat
    BY HandlerCount
<1>2. S \subseteq T => Cardinality(S) <= Cardinality(T)
    BY <1>1, FS_Subset
<1>3. ASSUME S \subseteq T \cup {w} PROVE Cardinality(S) <= Cardinality(T) + 1
    <2>1. /\ IsFiniteSet(T \cup {w})
          /\ Cardinality(T \cup {w}) = Cardinality(T) \/ Cardinality(T \cup {w}) = Cardinality(T) + 1
        BY <1>1, FS_AddElement
    <2>2. Cardinality(S) <= Cardinality(T \cup {w})
        BY <1>3, <2>1, FS_Subset
    <2>3. QED
        BY <1>1, <2>1, <2>2
<1>4. ASSUME w \in T, S \subseteq T \ {w} PROVE Cardinality(S) <= Cardinality(T) - 1
    <2>1. IsFiniteSet(T \ {w}) /\ Cardinality(T \ {w}) = Cardinality(T) - 1
        BY <1>1, <1>4, FS_RemoveElement
    <2>2. Cardinality(S) <= Cardinality(T \ {w})
        BY <1>4, <2>1, FS_Subset
    <2>3. QED
        BY <2>1, <2>2
<1>5. QED
    BY <1>2, <1>3, <1>4

LEMMA DripSets ==
    ASSUME NEW u
    PROVE  /\ Undone(u) \in SUBSET Handlers /\ AtDrip(u) \in SUBSET Undone(u)
           /\ Undone(u)' \in SUBSET Handlers /\ AtDrip(u)' \in SUBSET Undone(u)'
           /\ Fetchable(u) \in {0, 1} /\ Fetchable(u)' \in {0, 1}
BY DEF Undone, AtDrip, Fetchable

LEMMA DripNumbers ==
    ASSUME OnbTypes, OnbTypes', NEW u \in Newcomers
    PROVE  /\ sent[u] \in Nat /\ faults \in Nat /\ faults' \in Nat
           /\ Cardinality(Undone(u)) \in Nat /\ Cardinality(Undone(u)') \in Nat
           /\ Cardinality(AtDrip(u)) \in Nat /\ Cardinality(AtDrip(u)') \in Nat
           /\ Fetchable(u) \in {0, 1} /\ Fetchable(u)' \in {0, 1}
<1>1. sent[u] \in Nat /\ faults \in Nat /\ faults' \in Nat
    BY OnboardingAssumption DEF OnbTypes, OnboardingTypeOK
<1>2. Cardinality(Undone(u)) \in Nat /\ Cardinality(AtDrip(u)) \in Nat
    BY DripSets, HandlerCount
<1>3. Cardinality(Undone(u)') \in Nat /\ Cardinality(AtDrip(u)') \in Nat
    BY DripSets, HandlerCount
<1>4. QED
    BY <1>1, <1>2, <1>3, DripSets

(* Nobody new may send, and nothing was sent.                              *)
LEMMA DripsKept ==
    ASSUME OnbTypes, OnbTypes', NEW u \in Newcomers, DripInv(u),
           sent'[u] = sent[u], faults <= faults', dripRow \subseteq dripRow',
           u \in dripRow => AtDrip(u)' \subseteq AtDrip(u),
           Undone(u)' \subseteq Undone(u), Fetchable(u)' <= Fetchable(u)
    PROVE  DripInv(u)'
<1>1. /\ sent[u] \in Nat /\ faults \in Nat /\ faults' \in Nat
      /\ Cardinality(Undone(u)) \in Nat /\ Cardinality(Undone(u)') \in Nat
      /\ Cardinality(AtDrip(u)) \in Nat /\ Cardinality(AtDrip(u)') \in Nat
      /\ Fetchable(u) \in {0, 1} /\ Fetchable(u)' \in {0, 1}
    BY DripNumbers
<1>2. /\ Cardinality(Undone(u)') <= Cardinality(Undone(u))
      /\ Cardinality(AtDrip(u)') <= Cardinality(Undone(u)')
    BY DripSets, HandlerSets
<1>3. u \in dripRow => Cardinality(AtDrip(u)') <= Cardinality(AtDrip(u))
    BY DripSets, HandlerSets
<1>4. DripInv(u)' = IF u \in dripRow'
                    THEN sent'[u] + Cardinality(AtDrip(u)') <= 1 + faults'
                    ELSE sent'[u] + Cardinality(Undone(u)') + Fetchable(u)' <= 1 + faults'
    BY DEF DripInv
<1>5. CASE u \in dripRow
    BY <1>1, <1>3, <1>4, <1>5 DEF DripInv
<1>6. CASE u \notin dripRow
    BY <1>1, <1>2, <1>4, <1>6 DEF DripInv
<1>7. QED
    BY <1>5, <1>6

(* A fault pays for one more chance: a handler that goes on from another   *)
(* place, or a job that can be fetched again.                              *)
LEMMA DripsFaulted ==
    ASSUME OnbTypes, OnbTypes', NEW u \in Newcomers, DripInv(u),
           sent'[u] = sent[u], faults' = faults + 1, dripRow' = dripRow,
           AtDrip(u)' \subseteq AtDrip(u),
           \/ Undone(u)' \subseteq Undone(u)
           \/ Fetchable(u)' <= Fetchable(u) /\ \E w : Undone(u)' \subseteq Undone(u) \cup {w}
    PROVE  DripInv(u)'
<1>1. /\ sent[u] \in Nat /\ faults \in Nat
      /\ Cardinality(Undone(u)) \in Nat /\ Cardinality(Undone(u)') \in Nat
      /\ Cardinality(AtDrip(u)) \in Nat /\ Cardinality(AtDrip(u)') \in Nat
      /\ Fetchable(u) \in {0, 1} /\ Fetchable(u)' \in {0, 1}
    BY DripNumbers
<1>2. /\ Cardinality(AtDrip(u)') <= Cardinality(AtDrip(u))
      /\ Undone(u)' \subseteq Undone(u) => Cardinality(Undone(u)') <= Cardinality(Undone(u))
    BY DripSets, HandlerSets
<1>3. ASSUME NEW w, Undone(u)' \subseteq Undone(u) \cup {w}
      PROVE  Cardinality(Undone(u)') <= Cardinality(Undone(u)) + 1
    BY <1>3, DripSets, HandlerSets
<1>4. Cardinality(Undone(u)') + Fetchable(u)' <= Cardinality(Undone(u)) + Fetchable(u) + 1
    BY <1>1, <1>2, <1>3
<1>5. DripInv(u)' = IF u \in dripRow'
                    THEN sent'[u] + Cardinality(AtDrip(u)') <= 1 + faults'
                    ELSE sent'[u] + Cardinality(Undone(u)') + Fetchable(u)' <= 1 + faults'
    BY DEF DripInv
<1>6. QED
    BY <1>1, <1>2, <1>4, <1>5 DEF DripInv

(* A handler goes to another place: for other users nothing changes.       *)
LEMMA MoveSets ==
    ASSUME OnbTypes, NEW w \in Handlers, at[w] # "idle",
           NEW s \in Places, at' = [at EXCEPT ![w] = s], UNCHANGED user,
           NEW u \in Newcomers
    PROVE  /\ u # user[w] => /\ Undone(u)' = Undone(u) /\ AtDrip(u)' = AtDrip(u)
           /\ IsOrphan(u)' = IsOrphan(u) \/ job'[u] # job[u]
           /\ at[w] # "dripped" => Undone(u)' \subseteq Undone(u)
           /\ Undone(u)' \subseteq Undone(u) \cup {w}
           /\ s # "drip" => AtDrip(u)' \subseteq AtDrip(u)
           /\ s = "dripped" => w \notin Undone(u)' /\ w \notin AtDrip(u)'
<1>1. \A v \in Handlers : at'[v] = IF v = w THEN s ELSE at[v]
    BY DEF OnbTypes
<1>2. s # "idle"
    BY DEF Places
<1>3. job'[u] = job[u] => (IsOrphan(u)' <=> IsOrphan(u))
    BY <1>1, <1>2 DEF IsOrphan
<1>4. u # user[w] => Undone(u)' = Undone(u) /\ AtDrip(u)' = AtDrip(u)
    BY <1>1, <1>2 DEF Undone, AtDrip
<1>5. Undone(u)' \subseteq Undone(u) \cup {w} /\ (s # "drip" => AtDrip(u)' \subseteq AtDrip(u))
    BY <1>1, <1>2 DEF Undone, AtDrip
<1>6. at[w] # "dripped" => Undone(u)' \subseteq Undone(u)
    BY <1>1, <1>2 DEF Undone
<1>7. s = "dripped" => w \notin Undone(u)' /\ w \notin AtDrip(u)'
    BY <1>1 DEF Undone, AtDrip
<1>8. QED
    BY <1>3, <1>4, <1>5, <1>6, <1>7 DEF IsOrphan

(* The steps that send nothing, record nothing and end nothing.            *)
LEMMA QuietMoveDrips ==
    ASSUME OnbTypes, OnbTypes', NEW w \in Handlers, at[w] \notin {"idle", "dripped"},
           NEW s \in Places, at' = [at EXCEPT ![w] = s],
           s = "drip" => user[w] \notin dripRow,
           UNCHANGED <<user, job, dripRow, sent, faults>>,
           NEW u \in Newcomers, DripInv(u)
    PROVE  DripInv(u)'
<1>1. Undone(u)' \subseteq Undone(u) /\ Fetchable(u)' = Fetchable(u)
    BY MoveSets DEF Fetchable
<1>2. u \in dripRow => AtDrip(u)' \subseteq AtDrip(u)
    BY MoveSets
<1>3. faults <= faults' /\ Fetchable(u)' <= Fetchable(u)
    <2>1. faults' = faults
        OBVIOUS
    <2>2. QED
        BY <1>1, <2>1, DripNumbers
<1>4. QED
    BY <1>1, <1>2, <1>3, DripsKept

LEMMA FetchDrips ==
    ASSUME OnbTypes, OnbTypes', NEW w \in Handlers, NEW f \in Newcomers, FetchJob(w, f),
           NEW u \in Newcomers, DripInv(u)
    PROVE  DripInv(u)'
<1>1. /\ at[w] = "idle" /\ job[f] # "active"
      /\ \A v \in Handlers : /\ at'[v] = IF v = w THEN "load" ELSE at[v]
                             /\ user'[v] = IF v = w THEN f ELSE user[v]
      /\ \A x \in Newcomers : job'[x] = IF x = f THEN "active" ELSE job[x]
      /\ UNCHANGED <<dripRow, sent, faults>>
    BY DEF FetchJob, OnbTypes, OnboardingTypeOK, onbRowVars, onbHistoryVars
<1>2. AtDrip(u)' = AtDrip(u)
    BY <1>1 DEF AtDrip
<1>3. /\ sent[u] \in Nat /\ faults \in Nat
      /\ Cardinality(Undone(u)) \in Nat /\ Cardinality(Undone(u)') \in Nat
      /\ Fetchable(u) \in {0, 1} /\ Fetchable(u)' \in {0, 1}
    BY DripNumbers
<1>4. CASE u # f
    <2>1. Undone(u)' = Undone(u) /\ Fetchable(u)' = Fetchable(u)
        BY <1>1, <1>4 DEF Undone, Fetchable, IsOrphan
    <2>2. QED
        BY <1>1, <1>2, <1>3, <2>1, DripsKept
<1>5. CASE u = f
    <2>1. Undone(u)' \subseteq Undone(u) \cup {w} /\ Fetchable(u) = 1 /\ Fetchable(u)' = 0
        BY <1>1, <1>5 DEF Undone, Fetchable, IsOrphan
    <2>2. Cardinality(Undone(u)') <= Cardinality(Undone(u)) + 1
        BY <2>1, DripSets, HandlerSets
    <2>3. DripInv(u)' = IF u \in dripRow'
                        THEN sent'[u] + Cardinality(AtDrip(u)') <= 1 + faults'
                        ELSE sent'[u] + Cardinality(Undone(u)') + Fetchable(u)' <= 1 + faults'
        BY DEF DripInv
    <2>4. QED
        BY <1>1, <1>2, <1>3, <2>1, <2>2, <2>3 DEF DripInv
<1>6. QED
    BY <1>4, <1>5

LEMMA DripGasDrips ==
    ASSUME OnbTypes, OnbTypes', NEW w \in Handlers, DripGas(w), NEW u \in Newcomers, DripInv(u)
    PROVE  DripInv(u)'
<1>1. /\ at[w] = "drip" /\ at' = [at EXCEPT ![w] = "dripped"] /\ "dripped" \in Places
      /\ user[w] \in Newcomers
      /\ sent' = [sent EXCEPT ![user[w]] = @ + 1]
      /\ UNCHANGED <<user, job, dripRow, faults>>
    BY DEF DripGas, Go, Places, OnbTypes, onbRowVars, onbQueueVars
<1>2. /\ Fetchable(u)' = Fetchable(u) /\ Undone(u)' \subseteq Undone(u)
      /\ AtDrip(u)' \subseteq AtDrip(u)
      /\ w \notin Undone(u)' /\ w \notin AtDrip(u)'
    <2>1. at[w] \notin {"idle", "dripped"} /\ "dripped" # "drip"
        BY <1>1
    <2>2. QED
        BY <1>1, <2>1, MoveSets DEF Fetchable
<1>3. /\ sent[u] \in Nat /\ faults \in Nat
      /\ Cardinality(Undone(u)) \in Nat /\ Cardinality(Undone(u)') \in Nat
      /\ Cardinality(AtDrip(u)) \in Nat /\ Cardinality(AtDrip(u)') \in Nat
      /\ Fetchable(u) \in {0, 1} /\ Fetchable(u)' \in {0, 1}
    BY DripNumbers
<1>4. CASE u # user[w]
    <2>1. sent'[u] = sent[u]
        BY <1>1, <1>4 DEF OnbTypes
    <2>2. QED
        BY <1>1, <1>2, <1>3, <2>1, DripsKept
<1>5. CASE u = user[w]
    <2>1. sent'[u] = sent[u] + 1 /\ w \in Undone(u) /\ w \in AtDrip(u)
        BY <1>1, <1>5 DEF OnbTypes, Undone, AtDrip
    <2>2. /\ Cardinality(Undone(u)') <= Cardinality(Undone(u)) - 1
          /\ Cardinality(AtDrip(u)') <= Cardinality(AtDrip(u)) - 1
        BY <1>2, <2>1, DripSets, HandlerSets
    <2>3. DripInv(u)' = IF u \in dripRow'
                        THEN sent'[u] + Cardinality(AtDrip(u)') <= 1 + faults'
                        ELSE sent'[u] + Cardinality(Undone(u)') + Fetchable(u)' <= 1 + faults'
        BY DEF DripInv
    <2>4. QED
        BY <1>1, <1>2, <1>3, <2>1, <2>2, <2>3 DEF DripInv
<1>6. QED
    BY <1>4, <1>5

LEMMA RecordDripDrips ==
    ASSUME OnbTypes, OnbTypes', NEW w \in Handlers, RecordDrip(w), NEW u \in Newcomers, DripInv(u)
    PROVE  DripInv(u)'
<1>1. /\ at[w] = "dripped" /\ at' = [at EXCEPT ![w] = "load"] /\ "load" \in Places
      /\ dripRow' = dripRow \cup {user[w]}
      /\ UNCHANGED <<user, job, sent, faults>>
    BY DEF RecordDrip, DripRecorded, Go, Places, UpdateOnboarding, onbQueueVars, onbHistoryVars
<1>2. /\ Fetchable(u)' = Fetchable(u) /\ AtDrip(u)' \subseteq AtDrip(u)
      /\ u # user[w] => Undone(u)' = Undone(u)
    BY <1>1, MoveSets DEF Fetchable
<1>3. /\ sent[u] \in Nat /\ faults \in Nat
      /\ Cardinality(Undone(u)) \in Nat
      /\ Cardinality(AtDrip(u)) \in Nat /\ Cardinality(AtDrip(u)') \in Nat
      /\ Fetchable(u) \in {0, 1}
    BY DripNumbers
<1>4. CASE u # user[w]
    BY <1>1, <1>2, <1>3, <1>4, DripSets, DripsKept
<1>5. CASE u = user[w]
    <2>1. /\ Cardinality(AtDrip(u)') <= Cardinality(AtDrip(u))
          /\ Cardinality(AtDrip(u)) <= Cardinality(Undone(u))
        BY <1>2, DripSets, HandlerSets
    <2>2. DripInv(u)' = IF u \in dripRow'
                        THEN sent'[u] + Cardinality(AtDrip(u)') <= 1 + faults'
                        ELSE sent'[u] + Cardinality(Undone(u)') + Fetchable(u)' <= 1 + faults'
        BY DEF DripInv
    <2>3. QED
        BY <1>1, <1>3, <1>5, <2>1, <2>2 DEF DripInv
<1>6. QED
    BY <1>4, <1>5

(* A handler that leaves takes its chance with it.                         *)
LEMMA LeaveSets ==
    ASSUME OnbTypes, NEW w \in Handlers, at[w] # "idle", Leave(w), NEW u \in Newcomers
    PROVE  /\ Undone(u)' \subseteq Undone(u) \ {w}
           /\ AtDrip(u)' \subseteq AtDrip(u)
           /\ u # user[w] /\ job'[u] = job[u] => Fetchable(u)' = Fetchable(u)
<1>1. \A v \in Handlers : /\ at'[v] = IF v = w THEN "idle" ELSE at[v]
                          /\ user'[v] = IF v = w THEN Nobody ELSE user[v]
    BY DEF Leave, OnbTypes, OnboardingTypeOK
<1>2. u # Nobody
    BY OnboardingAssumption, CallersAssumption
<1>3. QED
    BY <1>1, <1>2 DEF Undone, AtDrip, Fetchable, IsOrphan

LEMMA ReturnDrips ==
    ASSUME OnbTypes, OnbTypes', NEW w \in Handlers, Return(w), NEW u \in Newcomers, DripInv(u)
    PROVE  DripInv(u)'
<1>1. /\ at[w] = "return" /\ Leave(w) /\ Complete(user[w]) /\ user[w] \in Newcomers
      /\ UNCHANGED <<dripRow, sent, faults>>
    BY DEF Return, OnbTypes, onbRowVars, onbHistoryVars
<1>2. Undone(u)' \subseteq Undone(u) \ {w} /\ AtDrip(u)' \subseteq AtDrip(u)
    BY <1>1, LeaveSets
<1>3. /\ sent[u] \in Nat /\ faults \in Nat
      /\ Cardinality(Undone(u)) \in Nat /\ Cardinality(Undone(u)') \in Nat
      /\ Cardinality(AtDrip(u)) \in Nat /\ Cardinality(AtDrip(u)') \in Nat
      /\ Fetchable(u) \in {0, 1} /\ Fetchable(u)' \in {0, 1}
    BY DripNumbers
<1>4. CASE u # user[w]
    <2>1. Fetchable(u)' = Fetchable(u)
        BY <1>1, <1>4, CompleteType, LeaveSets
    <2>2. QED
        BY <1>1, <1>2, <1>3, <2>1, DripsKept
<1>5. CASE u = user[w]
    <2>1. w \in Undone(u)
        BY <1>1, <1>5 DEF Undone
    <2>2. /\ Cardinality(Undone(u)') <= Cardinality(Undone(u)) - 1
          /\ Cardinality(AtDrip(u)') <= Cardinality(AtDrip(u))
        BY <1>2, <2>1, DripSets, HandlerSets
    <2>3. DripInv(u)' = IF u \in dripRow'
                        THEN sent'[u] + Cardinality(AtDrip(u)') <= 1 + faults'
                        ELSE sent'[u] + Cardinality(Undone(u)') + Fetchable(u)' <= 1 + faults'
        BY DEF DripInv
    <2>4. QED
        BY <1>1, <1>3, <2>2, <2>3 DEF DripInv
<1>6. QED
    BY <1>4, <1>5

LEMMA ThrowDrips ==
    ASSUME OnbTypes, OnbTypes', NEW w \in Handlers, Throw(w), NEW u \in Newcomers, DripInv(u)
    PROVE  DripInv(u)'
<1>1. /\ at[w] \notin {"idle", "return"} /\ faults' = faults + 1
      /\ UNCHANGED <<dripRow, sent>>
    BY FaultType DEF Throw, OnbTypes, OnboardingTypeOK
<1>2. CASE tries[w] >= RetryLimit
    <2>1. at' = [at EXCEPT ![w] = "return"] /\ "return" \in Places /\ UNCHANGED <<user, job>>
        BY <1>2 DEF Throw, Go, Places, onbQueueVars
    <2>2. /\ Fetchable(u)' = Fetchable(u) /\ AtDrip(u)' \subseteq AtDrip(u)
          /\ Undone(u)' \subseteq Undone(u) \cup {w}
        BY <1>1, <2>1, MoveSets DEF Fetchable
    <2>3. Fetchable(u)' <= Fetchable(u)
        BY <2>2, DripSets
    <2>4. QED
        BY <1>1, <2>2, <2>3, DripsFaulted
<1>3. CASE ~(tries[w] >= RetryLimit)
    <2>1. Leave(w)
        BY <1>3 DEF Throw
    <2>2. Undone(u)' \subseteq Undone(u) /\ AtDrip(u)' \subseteq AtDrip(u)
        BY <1>1, <2>1, LeaveSets
    <2>3. QED
        BY <1>1, <2>2, DripsFaulted
<1>4. QED
    BY <1>2, <1>3

LEMMA HandlerDrips ==
    ASSUME OnbTypes, OnbTypes', NEW w \in Handlers, Advance(w) \/ Throw(w),
           NEW u \in Newcomers, DripInv(u)
    PROVE  DripInv(u)'
<1>1. ASSUME NEW f \in Newcomers, FetchJob(w, f) PROVE DripInv(u)'
    BY <1>1, FetchDrips
<1>2. CASE DripGas(w) \/ RecordDrip(w) \/ Return(w) \/ Throw(w)
    BY <1>2, DripGasDrips, RecordDripDrips, ReturnDrips, ThrowDrips
<1>3. CASE EnqueueNextPoll(w)
    <2>1. /\ at[w] = "requeue" /\ at' = [at EXCEPT ![w] = "return"] /\ "return" \in Places
          /\ user[w] \in Newcomers /\ Upsert({user[w]})
          /\ UNCHANGED <<user, dripRow, sent, faults>>
        BY <1>3 DEF EnqueueNextPoll, Go, Places, OnbTypes, onbRowVars, onbHistoryVars
    <2>2. Undone(u)' \subseteq Undone(u) /\ AtDrip(u)' \subseteq AtDrip(u)
        <3>1. at[w] \notin {"idle", "dripped"} /\ "return" # "drip"
            BY <2>1
        <3>2. QED
            BY <2>1, <3>1, MoveSets
    <2>3. job'[u] = job[u] \/ (job[u] = "none" /\ job'[u] = "queued")
        BY <2>1, UpsertJob
    <2>4. Fetchable(u)' = Fetchable(u)
        BY <2>1, <2>3, MoveSets DEF Fetchable
    <2>5. faults <= faults' /\ Fetchable(u)' <= Fetchable(u)
        BY <2>1, <2>4, DripNumbers
    <2>6. QED
        BY <2>1, <2>2, <2>5, DripsKept
<1>4. CASE Load(w)
    <2>1. onboarding[user[w]] \in DOMAIN StepFor
        BY <1>4 DEF Load, StepFor, inProgressStatuses, Settled, OnbTypes, OnboardingTypeOK
    <2>2. StepFor[onboarding[user[w]]] \in Places \ {"drip"}
        BY <2>1 DEF StepFor, Places
    <2>3. QED
        BY <1>4, <2>2, QuietMoveDrips
           DEF Load, Go, Reads, onbRowVars, onbQueueVars, onbHistoryVars
<1>5. CASE \/ ReadLevel(w) \/ ReadBalance(w) \/ FindRecentDrip(w) \/ PollRegistration(w)
    <2>1. PICK s \in Places : /\ at' = [at EXCEPT ![w] = s]
                              /\ s = "drip" => user[w] \notin dripRow
        BY <1>5 DEF ReadLevel, ReadBalance, FindRecentDrip, PollRegistration, Go, Places
    <2>2. at[w] \notin {"idle", "dripped"} /\ UNCHANGED <<user, job, dripRow, sent, faults>>
        BY <1>5 DEF ReadLevel, ReadBalance, FindRecentDrip, PollRegistration, Go, Reads,
                    onbRowVars, onbQueueVars, onbHistoryVars
    <2>3. QED
        BY <2>1, <2>2, QuietMoveDrips
<1>6. CASE \/ ApproveMockKyc(w) \/ EnsureAllowlisted(w) \/ CompleteAllowlistStep(w)
           \/ CompleteGasStep(w) \/ AwaitRegistration(w) \/ CompleteOnboarding(w)
           \/ TouchRegistration(w)
    <2>1. PICK s \in Places \ {"drip"} : at' = [at EXCEPT ![w] = s]
        BY <1>6 DEF ApproveMockKyc, EnsureAllowlisted, CompleteAllowlistStep, CompleteGasStep,
                    AwaitRegistration, CompleteOnboarding, TouchRegistration, NextPoll, Go, Places
    <2>2. at[w] \notin {"idle", "dripped"} /\ UNCHANGED <<user, job, dripRow, sent, faults>>
        BY <1>6 DEF ApproveMockKyc, EnsureAllowlisted, CompleteAllowlistStep, CompleteGasStep,
                    AwaitRegistration, CompleteOnboarding, TouchRegistration, Go, UpdateOnboarding,
                    onbRowVars, onbQueueVars, onbHistoryVars
    <2>3. QED
        BY <2>1, <2>2, QuietMoveDrips
<1>7. QED
    BY <1>1, <1>2, <1>3, <1>4, <1>5, <1>6 DEF Advance

LEMMA OutsideDrips ==
    ASSUME OnbTypes, OnbTypes',
           \/ \E u \in Newcomers :
               \/ StartOnboarding(u) \/ RegisterUser(u)
               \/ ExpireOrphan(u) \/ ExpireSlow(u) \/ DeadLetter(u)
           \/ Mine \/ Restart,
           NEW u \in Newcomers, DripInv(u)
    PROVE  DripInv(u)'
<1>1. sent' = sent /\ dripRow' = dripRow /\ faults \in Nat /\ faults' \in Nat
    <2>1. sent' = sent /\ dripRow' = dripRow
        BY DEF StartOnboarding, RegisterUser, ExpireOrphan, ExpireSlow, DeadLetter, Mine, Restart,
               onbRowVars, onbHistoryVars
    <2>2. QED
        BY <2>1, DripNumbers
<1>2. CASE UNCHANGED handlerVars /\ faults' = faults /\ Fetchable(u)' = Fetchable(u)
    <2>1. Undone(u)' = Undone(u) /\ AtDrip(u)' = AtDrip(u)
        BY <1>2 DEF handlerVars, Undone, AtDrip
    <2>2. QED
        BY <1>1, <1>2, <2>1, DripSets, DripsKept
<1>3. ASSUME NEW v \in Newcomers, StartOnboarding(v) PROVE DripInv(u)'
    <2>1. job'[u] = job[u] \/ (job[u] = "none" /\ job'[u] = "queued")
        <3>1. CASE job' = job
            BY <3>1
        <3>2. CASE Upsert({v})
            BY <3>2, UpsertJob
        <3>3. QED
            BY <1>3, <3>1, <3>2 DEF StartOnboarding, onbQueueVars
    <2>2. UNCHANGED handlerVars /\ faults' = faults
        BY <1>3 DEF StartOnboarding, onbHistoryVars
    <2>3. Fetchable(u)' = Fetchable(u)
        BY <2>1, <2>2 DEF handlerVars, Fetchable, IsOrphan
    <2>4. QED
        BY <1>2, <2>2, <2>3
<1>4. CASE Mine \/ \E v \in Newcomers : RegisterUser(v) \/ DeadLetter(v)
    <2>1. UNCHANGED <<handlerVars, job>> /\ faults' = faults
        BY <1>4 DEF Mine, RegisterUser, DeadLetter, onbQueueVars, onbHistoryVars
    <2>2. Fetchable(u)' = Fetchable(u)
        BY <2>1 DEF handlerVars, Fetchable, IsOrphan
    <2>3. QED
        BY <1>2, <2>1, <2>2
<1>5. ASSUME NEW v \in Newcomers, ExpireOrphan(v) PROVE DripInv(u)'
    <2>1. /\ RetryJob(v) /\ job[v] = "active" /\ IsOrphan(v) /\ UNCHANGED handlerVars
          /\ faults' = faults
        BY <1>5 DEF ExpireOrphan, IsOrphan, onbHistoryVars
    <2>2. IF u = v THEN job'[u] # "active" ELSE job'[u] = job[u]
        BY <2>1, RetryType
    <2>3. Fetchable(u)' = Fetchable(u)
        BY <2>1, <2>2 DEF handlerVars, Fetchable, IsOrphan
    <2>4. QED
        BY <1>2, <2>1, <2>3
<1>6. ASSUME NEW v \in Newcomers, ExpireSlow(v) PROVE DripInv(u)'
    <2>1. UNCHANGED handlerVars /\ faults' = faults + 1
        BY <1>6, FaultType DEF ExpireSlow, OnbTypes, OnboardingTypeOK
    <2>2. Undone(u)' = Undone(u) /\ AtDrip(u)' = AtDrip(u)
        BY <2>1 DEF handlerVars, Undone, AtDrip
    <2>3. QED
        BY <1>1, <2>1, <2>2, DripsFaulted
<1>7. CASE Restart
    <2>1. faults' = faults + 1 /\ \A w \in Handlers : at'[w] = "idle"
        BY <1>7, FaultType DEF Restart, OnbTypes, OnboardingTypeOK
    <2>2. Undone(u)' = {} /\ AtDrip(u)' = {}
        BY <2>1 DEF Undone, AtDrip
    <2>3. QED
        BY <1>1, <2>1, <2>2, DripsFaulted
<1>8. QED
    BY <1>3, <1>4, <1>5, <1>6, <1>7

LEMMA InitDrips == OnboardingInit => \A u \in Newcomers : DripInv(u)
<1> SUFFICES ASSUME OnboardingInit, NEW u \in Newcomers PROVE DripInv(u)
    OBVIOUS
<1>1. sent[u] = 0 /\ faults = 0 /\ dripRow = {} /\ Undone(u) = {}
    BY DEF OnboardingInit, Undone
<1>2. Cardinality(Undone(u)) = 0 /\ Fetchable(u) \in {0, 1}
    BY <1>1, FS_EmptySet DEF Fetchable
<1>3. QED
    BY <1>1, <1>2 DEF DripInv

(* A drip is recorded by the handler that sent it before another is sent,  *)
(* except when a fault came between: the account's gas is not given away,  *)
(* however many handlers, restarts and outlived jobs there are.            *)
THEOREM GasIsDrippedOnce == OnboardingSpec => []OnboardingInv
<1> DEFINE Inv == OnbTypes /\ \A u \in Newcomers : DripInv(u)
<1>1. OnboardingInit => Inv
    BY InitOnbTypes, InitDrips
<1>2. Inv /\ [OnboardingNext]_onbVars => Inv'
    <2> SUFFICES ASSUME Inv, [OnboardingNext]_onbVars PROVE Inv'
        OBVIOUS
    <2>1. CASE UNCHANGED onbVars
        <3>1. OnbTypes'
            BY <2>1 DEF OnbTypes, OnboardingTypeOK, onbVars, onbChainVars, onbRowVars,
               onbQueueVars, handlerVars, onbHistoryVars
        <3>2. \A u \in Newcomers : DripInv(u)' = DripInv(u)
            BY <2>1 DEF DripInv, Undone, AtDrip, Fetchable, IsOrphan, onbVars, onbRowVars,
               onbQueueVars, handlerVars, onbHistoryVars
        <3>3. QED
            BY <3>1, <3>2
    <2>2. CASE OnboardingNext
        <3>1. ASSUME NEW w \in Handlers, Advance(w) \/ Throw(w) PROVE Inv'
            <4>1. OnbTypes'
                BY <3>1, HandlerTypes
            <4>2. QED
                BY <3>1, <4>1, HandlerDrips
        <3>2. ASSUME \/ \E u \in Newcomers :
                         \/ StartOnboarding(u) \/ RegisterUser(u)
                         \/ ExpireOrphan(u) \/ ExpireSlow(u) \/ DeadLetter(u)
                     \/ Mine \/ Restart
              PROVE  Inv'
            <4>1. OnbTypes'
                BY <3>2, OutsideTypes
            <4>2. QED
                BY <3>2, <4>1, OutsideDrips
        <3>3. QED
            BY <2>2, <3>1, <3>2 DEF OnboardingNext
    <2>3. QED
        BY <2>1, <2>2
<1>3. Inv => OnboardingInv
    <2> SUFFICES ASSUME Inv, NEW u \in Newcomers PROVE sent[u] <= 1 + faults
        BY DEF OnboardingInv, DripsBounded, OnbTypes
    <2>1. /\ sent[u] \in Nat /\ faults \in Nat
          /\ Cardinality(Undone(u)) \in Nat /\ Cardinality(AtDrip(u)) \in Nat
          /\ Fetchable(u) \in {0, 1}
        BY DripSets, HandlerCount, OnboardingAssumption DEF OnbTypes, OnboardingTypeOK
    <2>2. QED
        BY <2>1 DEF DripInv
<1>4. QED
    BY <1>1, <1>2, <1>3, PTL DEF OnboardingSpec

-----------------------------------------------------------------------------
(* Settled rows.                                                           *)

(* What a handler does between taking its job and leaving it.              *)
LEMMA HandlerMove ==
    ASSUME OnbTypes, NEW w \in Handlers, Advance(w),
           ~Return(w), \A f \in Newcomers : ~FetchJob(w, f)
    PROVE  /\ at[w] \notin {"idle", "return"} /\ user[w] \in Newcomers
           /\ UNCHANGED <<user, tries, retries, faults, slow>>
           /\ \A x \in Newcomers : job'[x] = job[x] \/ (job[x] = "none" /\ job'[x] = "queued")
           /\ \E s \in Places :
               /\ at' = [at EXCEPT ![w] = s]
               /\ \/ /\ onboarding' = onboarding
                     /\ at[w] = "load" /\ onboarding[user[w]] \in Settled => s = "return"
                  \/ /\ at[w] # "load"
                     /\ \E status \in (inProgressStatuses \cup Settled) \ {"pending_kyc"} :
                         /\ onboarding' = [onboarding EXCEPT ![user[w]] = status]
                         /\ status \in Settled => s = "return"
<1>1. user[w] \in Newcomers \/ at[w] = "idle"
    BY DEF OnbTypes
<1>2. CASE EnqueueNextPoll(w)
    <2>1. /\ at[w] = "requeue" /\ at' = [at EXCEPT ![w] = "return"] /\ "return" \in Places
          /\ onboarding' = onboarding /\ Upsert({user[w]})
          /\ UNCHANGED <<user, tries, faults, slow>>
        BY <1>2 DEF EnqueueNextPoll, Go, Places, onbRowVars, onbHistoryVars
    <2>2. \A x \in Newcomers : job'[x] = job[x] \/ (job[x] = "none" /\ job'[x] = "queued")
        BY <2>1, UpsertJob
    <2>3. retries' = retries
        BY <2>1 DEF Upsert
    <2>4. QED
        BY <1>1, <2>1, <2>2, <2>3
<1>3. CASE Load(w)
    <2>1. onboarding[user[w]] \in DOMAIN StepFor
        BY <1>3 DEF Load, StepFor, inProgressStatuses, Settled, OnbTypes, OnboardingTypeOK
    <2>2. /\ StepFor[onboarding[user[w]]] \in Places
          /\ onboarding[user[w]] \in Settled => StepFor[onboarding[user[w]]] = "return"
        BY <2>1 DEF StepFor, Places, Settled
    <2>3. /\ at[w] = "load" /\ at' = [at EXCEPT ![w] = StepFor[onboarding[user[w]]]]
          /\ UNCHANGED <<onboarding, user, tries, job, retries, faults, slow>>
        BY <1>3 DEF Load, Go, Reads, onbRowVars, onbQueueVars, onbHistoryVars
    <2>4. QED
        BY <1>1, <2>2, <2>3
<1>4. CASE ReadLevel(w) \/ ReadBalance(w) \/ FindRecentDrip(w) \/ PollRegistration(w)
          \/ EnsureAllowlisted(w) \/ DripGas(w)
    <2>1. PICK s \in Places : at' = [at EXCEPT ![w] = s]
        BY <1>4 DEF ReadLevel, ReadBalance, FindRecentDrip, PollRegistration, EnsureAllowlisted,
                    DripGas, Go, Places
    <2>2. /\ at[w] \notin {"idle", "return", "load"}
          /\ UNCHANGED <<onboarding, user, tries, job, retries, faults, slow>>
        BY <1>4 DEF ReadLevel, ReadBalance, FindRecentDrip, PollRegistration, EnsureAllowlisted,
                    DripGas, Go, Reads, onbRowVars, onbQueueVars, onbHistoryVars
    <2>3. QED
        BY <1>1, <2>1, <2>2
<1>5. CASE \/ ApproveMockKyc(w) \/ CompleteAllowlistStep(w) \/ RecordDrip(w)
           \/ CompleteGasStep(w) \/ AwaitRegistration(w) \/ TouchRegistration(w)
    <2>1. PICK s \in Places, status \in inProgressStatuses \ {"pending_kyc"} :
            /\ at' = [at EXCEPT ![w] = s]
            /\ onboarding' = [onboarding EXCEPT ![user[w]] = status]
        BY <1>5 DEF ApproveMockKyc, CompleteAllowlistStep, RecordDrip, CompleteGasStep,
                    AwaitRegistration, TouchRegistration, NextPoll, Go, UpdateOnboarding, Places,
                    inProgressStatuses
    <2>2. /\ at[w] \notin {"idle", "return", "load"}
          /\ UNCHANGED <<user, tries, job, retries, faults, slow>>
        BY <1>5 DEF ApproveMockKyc, CompleteAllowlistStep, RecordDrip, CompleteGasStep,
                    AwaitRegistration, TouchRegistration, Go, UpdateOnboarding, onbQueueVars,
                    onbHistoryVars
    <2>3. status \notin Settled
        BY DEF inProgressStatuses, Settled
    <2>4. QED
        BY <1>1, <2>1, <2>2, <2>3
<1>6. CASE CompleteOnboarding(w)
    <2>1. /\ at[w] = "complete" /\ at' = [at EXCEPT ![w] = "return"] /\ "return" \in Places
          /\ onboarding' = [onboarding EXCEPT ![user[w]] = "complete"]
          /\ "complete" \in (inProgressStatuses \cup Settled) \ {"pending_kyc"}
          /\ UNCHANGED <<user, tries, job, retries, faults, slow>>
        BY <1>6 DEF CompleteOnboarding, Go, UpdateOnboarding, onbQueueVars, onbHistoryVars,
                    Places, Settled
    <2>2. QED
        BY <1>1, <2>1
<1>7. QED
    BY <1>2, <1>3, <1>4, <1>5, <1>6 DEF Advance

Busy(u) == {w \in Handlers : at[w] # "idle" /\ user[w] = u}

(* For a user whose job, handlers and row a step leaves alone.             *)
LEMMA JobKept ==
    ASSUME OnbTypes, OnbTypes', NEW u \in Newcomers, JobInv(u), faults <= faults',
           job'[u] = job[u] \/ (job[u] = "none" /\ job'[u] = "queued"), retries'[u] = retries[u],
           Busy(u)' = Busy(u),
           \A w \in Busy(u) : at'[w] = at[w] /\ tries'[w] = tries[w],
           Busy(u) # {} => (onboarding'[u] \in Settled => onboarding[u] \in Settled)
    PROVE  JobInv(u)'
<1>1. faults \in Nat /\ faults' \in Nat /\ retries[u] \in Nat /\ RetryLimit \in Nat
    BY OnboardingAssumption DEF OnbTypes, OnboardingTypeOK
<1>2. IsOrphan(u)' <=> IsOrphan(u)
    <2>1. IsOrphan(u) <=> job[u] = "active" /\ Busy(u) = {}
        BY DEF IsOrphan, Busy
    <2>2. IsOrphan(u)' <=> job'[u] = "active" /\ Busy(u)' = {}
        BY DEF IsOrphan, Busy
    <2>3. QED
        BY <2>1, <2>2
<1>3. \A w \in Handlers : w \in Busy(u) <=> at[w] # "idle" /\ user[w] = u
    BY DEF Busy
<1>4. \A w \in Handlers : w \in Busy(u) <=> at'[w] # "idle" /\ user'[w] = u
    BY DEF Busy
<1>5. \A w \in Handlers : at'[w] # "idle" /\ user'[w] = u =>
        /\ job'[u] = "active" /\ tries'[w] = retries'[u]
        /\ at'[w] \notin {"load", "return"} => onboarding'[u] \notin Settled
        /\ \A v \in Handlers : at'[v] # "idle" /\ user'[v] = u => v = w
    <2> SUFFICES ASSUME NEW w \in Handlers, w \in Busy(u)
                 PROVE  /\ job'[u] = "active" /\ tries'[w] = retries'[u]
                        /\ at'[w] \notin {"load", "return"} => onboarding'[u] \notin Settled
                        /\ \A v \in Handlers : at'[v] # "idle" /\ user'[v] = u => v = w
        BY <1>4
    <2>1. /\ job[u] = "active" /\ tries[w] = retries[u]
          /\ at[w] \notin {"load", "return"} => onboarding[u] \notin Settled
          /\ \A v \in Busy(u) : v = w
        BY DEF JobInv, Busy
    <2>2. QED
        BY <1>4, <2>1
<1>6. retries'[u] + (IF IsOrphan(u)' THEN 1 ELSE 0) <= faults'
    <2>1. retries[u] + (IF IsOrphan(u) THEN 1 ELSE 0) <= faults
        BY DEF JobInv
    <2>2. QED
        BY <1>1, <1>2, <2>1
<1>7. job'[u] = "dead" => RetryLimit < faults'
    <2>1. job[u] = "dead" => RetryLimit < faults
        BY DEF JobInv
    <2>2. QED
        BY <1>1, <2>1
<1>8. QED
    BY <1>5, <1>6, <1>7 DEF JobInv

(* When nobody works for the user.                                         *)
LEMMA JobAtRest ==
    ASSUME NEW u \in Newcomers, Busy(u)' = {},
           retries'[u] + (IF job'[u] = "active" THEN 1 ELSE 0) <= faults',
           job'[u] = "dead" => RetryLimit < faults'
    PROVE  JobInv(u)'
<1>1. \A w \in Handlers : ~(at'[w] # "idle" /\ user'[w] = u)
    BY DEF Busy
<1>2. IsOrphan(u)' <=> job'[u] = "active"
    BY <1>1 DEF IsOrphan
<1>3. QED
    BY <1>1, <1>2 DEF JobInv

LEMMA JobFacts ==
    ASSUME OnbTypes, NEW u \in Newcomers, JobInv(u)
    PROVE  /\ faults \in Nat /\ retries[u] \in Nat /\ RetryLimit \in Nat
           /\ retries[u] <= faults
           /\ IsOrphan(u) => retries[u] + 1 <= faults
           /\ \A w \in Handlers : w \in Busy(u) => job[u] = "active" /\ Busy(u) = {w}
<1>1. faults \in Nat /\ retries[u] \in Nat /\ RetryLimit \in Nat
    BY OnboardingAssumption DEF OnbTypes, OnboardingTypeOK
<1>2. retries[u] <= faults /\ (IsOrphan(u) => retries[u] + 1 <= faults)
    BY <1>1 DEF JobInv
<1>3. \A w \in Handlers : w \in Busy(u) => job[u] = "active" /\ Busy(u) = {w}
    BY DEF JobInv, Busy
<1>4. QED
    BY <1>1, <1>2, <1>3

LEMMA MoveJob ==
    ASSUME OnbTypes, OnbTypes', NEW w \in Handlers, Advance(w),
           ~Return(w), \A f \in Newcomers : ~FetchJob(w, f),
           NEW u \in Newcomers, JobInv(u)
    PROVE  JobInv(u)'
<1>1. /\ at[w] \notin {"idle", "return"} /\ user[w] \in Newcomers
      /\ UNCHANGED <<user, tries, retries, faults, slow>>
      /\ job'[u] = job[u] \/ (job[u] = "none" /\ job'[u] = "queued")
    BY HandlerMove
<1>2. PICK s \in Places :
        /\ at' = [at EXCEPT ![w] = s]
        /\ \/ /\ onboarding' = onboarding
              /\ at[w] = "load" /\ onboarding[user[w]] \in Settled => s = "return"
           \/ /\ at[w] # "load"
              /\ \E status \in (inProgressStatuses \cup Settled) \ {"pending_kyc"} :
                  /\ onboarding' = [onboarding EXCEPT ![user[w]] = status]
                  /\ status \in Settled => s = "return"
    BY HandlerMove
<1>3. \A v \in Handlers : at'[v] = IF v = w THEN s ELSE at[v]
    BY <1>2 DEF OnbTypes
<1>4. s # "idle" /\ faults \in Nat /\ Busy(u)' = Busy(u)
    <2>1. s # "idle" /\ faults \in Nat
        BY OnboardingAssumption DEF Places, OnbTypes, OnboardingTypeOK
    <2>2. QED
        BY <1>1, <1>3, <2>1 DEF Busy
<1>5. CASE u # user[w]
    <2>1. onboarding'[u] = onboarding[u] /\ w \notin Busy(u)
        BY <1>2, <1>5 DEF Busy, OnbTypes, OnboardingTypeOK
    <2>2. \A v \in Busy(u) : at'[v] = at[v] /\ tries'[v] = tries[v]
        BY <1>1, <1>3, <2>1 DEF Busy
    <2>3. faults <= faults' /\ retries'[u] = retries[u]
        BY <1>1, <1>4
    <2>4. QED
        BY <1>1, <1>4, <2>1, <2>2, <2>3, JobKept
<1>6. CASE u = user[w]
    <2>1. w \in Busy(u) /\ Busy(u) = {w} /\ job[u] = "active" /\ job'[u] = "active"
        BY <1>1, <1>6, JobFacts DEF Busy
    <2>2. s \notin {"load", "return"} => onboarding'[u] \notin Settled
        <3>1. at[w] # "load" => onboarding[u] \notin Settled
            BY <1>1, <1>6 DEF JobInv
        <3>2. QED
            BY <1>1, <1>2, <1>6, <3>1 DEF OnbTypes, OnboardingTypeOK
    <2>3. \A v \in Handlers : at'[v] # "idle" /\ user'[v] = u => v = w
        BY <1>4, <2>1 DEF Busy
    <2>4. ~IsOrphan(u)'
        BY <1>1, <1>3, <1>4, <1>6 DEF IsOrphan
    <2>5. tries[w] = retries[u]
        BY <2>1 DEF JobInv, Busy
    <2>6. retries'[u] + 0 <= faults' /\ retries'[u] = retries[u]
        BY <1>1, JobFacts
    <2>7. QED
        BY <1>1, <1>3, <2>1, <2>2, <2>3, <2>4, <2>5, <2>6 DEF JobInv
<1>7. QED
    BY <1>5, <1>6

LEMMA FetchJobs ==
    ASSUME OnbTypes, OnbTypes', NEW w \in Handlers, NEW f \in Newcomers, FetchJob(w, f),
           NEW u \in Newcomers, JobInv(u)
    PROVE  JobInv(u)'
<1>1. /\ at[w] = "idle" /\ job[f] \in {"queued", "retry"}
      /\ \A v \in Handlers : /\ at'[v] = IF v = w THEN "load" ELSE at[v]
                             /\ user'[v] = IF v = w THEN f ELSE user[v]
                             /\ tries'[v] = IF v = w THEN retries[f] ELSE tries[v]
      /\ \A x \in Newcomers : job'[x] = IF x = f THEN "active" ELSE job[x]
      /\ UNCHANGED <<onboarding, retries, faults>>
    BY DEF FetchJob, OnbTypes, OnboardingTypeOK, onbRowVars, onbHistoryVars
<1>2. faults \in Nat /\ faults <= faults'
    BY <1>1, JobFacts
<1>3. CASE u # f
    <2>1. Busy(u)' = Busy(u) /\ w \notin Busy(u)
        BY <1>1, <1>3 DEF Busy
    <2>2. \A v \in Busy(u) : at'[v] = at[v] /\ tries'[v] = tries[v]
        BY <1>1, <2>1 DEF Busy
    <2>3. QED
        BY <1>1, <1>2, <1>3, <2>1, <2>2, JobKept
<1>4. CASE u = f
    <2>1. Busy(u) = {}
        BY <1>1, <1>4, JobFacts DEF Busy
    <2>2. \A v \in Handlers : at'[v] # "idle" /\ user'[v] = u => v = w
        BY <1>1, <1>4, <2>1 DEF Busy
    <2>3. ~IsOrphan(u)'
        BY <1>1, <1>4 DEF IsOrphan
    <2>4. retries'[u] = retries[u] /\ retries'[u] + 0 <= faults' /\ job'[u] = "active"
          /\ at'[w] = "load" /\ tries'[w] = retries[u]
        BY <1>1, <1>4, JobFacts
    <2>5. QED
        BY <2>2, <2>3, <2>4 DEF JobInv
<1>5. QED
    BY <1>3, <1>4

LEMMA LeaveBusy ==
    ASSUME OnbTypes, NEW w \in Handlers, at[w] # "idle", Leave(w), NEW u \in Newcomers, JobInv(u)
    PROVE  /\ u = user[w] => Busy(u)' = {} /\ Busy(u) = {w} /\ job[u] = "active"
           /\ u # user[w] => /\ Busy(u)' = Busy(u)
                             /\ \A v \in Busy(u) : at'[v] = at[v] /\ tries'[v] = tries[v]
           /\ u = user[w] => tries[w] = retries[u]
<1>1. \A v \in Handlers : /\ at'[v] = IF v = w THEN "idle" ELSE at[v]
                          /\ user'[v] = IF v = w THEN Nobody ELSE user[v]
                          /\ tries'[v] = IF v = w THEN 0 ELSE tries[v]
    BY DEF Leave, OnbTypes, OnboardingTypeOK
<1>2. CASE u = user[w]
    <2>1. w \in Busy(u)
        BY <1>2 DEF Busy
    <2>2. Busy(u) = {w} /\ job[u] = "active"
        BY <2>1, JobFacts
    <2>3. Busy(u)' = {}
        BY <1>1, <2>2 DEF Busy
    <2>4. QED
        BY <1>2, <2>2, <2>3 DEF JobInv
<1>3. CASE u # user[w]
    <2>1. u # Nobody
        BY OnboardingAssumption, CallersAssumption
    <2>2. w \notin Busy(u) /\ Busy(u)' = Busy(u)
        BY <1>1, <1>3, <2>1 DEF Busy
    <2>3. QED
        BY <1>1, <1>3, <2>2 DEF Busy
<1>4. QED
    BY <1>2, <1>3

LEMMA ReturnJob ==
    ASSUME OnbTypes, OnbTypes', NEW w \in Handlers, Return(w), NEW u \in Newcomers, JobInv(u)
    PROVE  JobInv(u)'
<1>1. /\ at[w] = "return" /\ Leave(w) /\ Complete(user[w]) /\ user[w] \in Newcomers
      /\ UNCHANGED <<onboarding, faults>>
    BY DEF Return, OnbTypes, onbRowVars, onbHistoryVars
<1>2. faults \in Nat /\ faults <= faults'
    BY <1>1, JobFacts
<1>3. CASE u # user[w]
    <2>1. job'[u] = job[u] /\ retries'[u] = retries[u]
        BY <1>1, <1>3, CompleteType
    <2>2. /\ Busy(u)' = Busy(u)
          /\ \A v \in Busy(u) : at'[v] = at[v] /\ tries'[v] = tries[v]
        BY <1>1, <1>3, LeaveBusy
    <2>3. QED
        BY <1>1, <1>2, <2>1, <2>2, JobKept
<1>4. CASE u = user[w]
    <2>1. Busy(u)' = {} /\ job[u] = "active"
        BY <1>1, <1>4, LeaveBusy
    <2>2. job'[u] # "active" /\ job'[u] # "dead" /\ retries'[u] = 0
        BY <1>1, <1>4, <2>1, CompleteType
    <2>3. retries'[u] + (IF job'[u] = "active" THEN 1 ELSE 0) <= faults'
        BY <1>1, <1>2, <2>2
    <2>4. QED
        BY <2>1, <2>2, <2>3, JobAtRest
<1>5. QED
    BY <1>3, <1>4

(* A retry is one more, or the last one was used.                          *)
LEMMA RetryAtRest ==
    ASSUME OnbTypes, NEW u \in Newcomers, RetryJob(u), job[u] = "active", Busy(u)' = {},
           faults' \in Nat, retries[u] + 1 <= faults'
    PROVE  JobInv(u)'
<1>1. retries[u] \in Nat /\ RetryLimit \in Nat
    BY OnboardingAssumption DEF OnbTypes, OnboardingTypeOK
<1>2. \/ job'[u] = "retry" /\ retries'[u] = retries[u] + 1
      \/ job'[u] = "dead" /\ retries'[u] = retries[u] /\ retries[u] = RetryLimit
    BY RetryType
<1>3. retries'[u] + (IF job'[u] = "active" THEN 1 ELSE 0) <= faults'
    BY <1>1, <1>2
<1>4. job'[u] = "dead" => RetryLimit < faults'
    BY <1>1, <1>2
<1>5. QED
    BY <1>3, <1>4, JobAtRest

LEMMA ThrowJob ==
    ASSUME OnbTypes, OnbTypes', NEW w \in Handlers, Throw(w), NEW u \in Newcomers, JobInv(u)
    PROVE  JobInv(u)'
<1>1. at[w] \notin {"idle", "return"} /\ faults' = faults + 1 /\ user[w] \in Newcomers
    BY FaultType DEF Throw, OnbTypes, OnboardingTypeOK
<1>2. faults \in Nat /\ faults' \in Nat /\ faults <= faults' /\ retries[u] \in Nat
      /\ retries[u] <= faults
    BY <1>1, JobFacts
<1>3. CASE tries[w] >= RetryLimit
    <2>1. /\ at' = [at EXCEPT ![w] = "return"] /\ UNCHANGED <<user, tries, job, retries>>
          /\ onboarding' = [onboarding EXCEPT ![user[w]] = "failed"]
        BY <1>3 DEF Throw, Go, onbQueueVars
    <2>2. \A v \in Handlers : at'[v] = IF v = w THEN "return" ELSE at[v]
        BY <2>1 DEF OnbTypes
    <2>3. Busy(u)' = Busy(u)
        BY <1>1, <2>1, <2>2 DEF Busy
    <2>4. CASE u # user[w]
        <3>1. onboarding'[u] = onboarding[u] /\ w \notin Busy(u)
            BY <2>1, <2>4 DEF Busy, OnbTypes, OnboardingTypeOK
        <3>2. \A v \in Busy(u) : at'[v] = at[v] /\ tries'[v] = tries[v]
            BY <2>1, <2>2, <3>1 DEF Busy
        <3>3. QED
            BY <1>2, <2>1, <2>3, <3>1, <3>2, JobKept
    <2>5. CASE u = user[w]
        <3>1. Busy(u) = {w} /\ job[u] = "active" /\ tries[w] = retries[u]
            BY <1>1, <2>5, JobFacts DEF Busy, JobInv
        <3>2. \A v \in Handlers : at'[v] # "idle" /\ user'[v] = u => v = w
            BY <2>3, <3>1 DEF Busy
        <3>3. ~IsOrphan(u)'
            BY <2>1, <2>2, <2>5 DEF IsOrphan
        <3>4. retries'[u] + 0 <= faults'
            BY <1>2, <2>1
        <3>5. job'[u] = "active" /\ tries'[w] = retries'[u] /\ at'[w] = "return"
            BY <2>1, <2>2, <3>1
        <3>6. QED
            BY <3>2, <3>3, <3>4, <3>5 DEF JobInv
    <2>6. QED
        BY <2>4, <2>5
<1>4. CASE ~(tries[w] >= RetryLimit)
    <2>1. /\ Leave(w) /\ onboarding' = onboarding
          /\ IF job[user[w]] = "active" THEN RetryJob(user[w]) ELSE UNCHANGED onbQueueVars
        BY <1>4 DEF Throw
    <2>2. CASE u # user[w]
        <3>1. job'[u] = job[u] /\ retries'[u] = retries[u]
            BY <1>1, <2>1, <2>2, RetryType DEF onbQueueVars
        <3>2. /\ Busy(u)' = Busy(u)
              /\ \A v \in Busy(u) : at'[v] = at[v] /\ tries'[v] = tries[v]
            BY <1>1, <2>1, <2>2, LeaveBusy
        <3>3. QED
            BY <1>2, <2>1, <3>1, <3>2, JobKept
    <2>3. CASE u = user[w]
        <3>1. Busy(u)' = {} /\ job[u] = "active"
            BY <1>1, <2>1, <2>3, LeaveBusy
        <3>2. RetryJob(u) /\ retries[u] + 1 <= faults'
            BY <1>1, <1>2, <2>1, <2>3, <3>1
        <3>3. QED
            BY <1>2, <3>1, <3>2, RetryAtRest
    <2>4. QED
        BY <2>2, <2>3
<1>5. QED
    BY <1>3, <1>4

LEMMA HandlerJobs ==
    ASSUME OnbTypes, OnbTypes', NEW w \in Handlers, Advance(w) \/ Throw(w),
           NEW u \in Newcomers, JobInv(u)
    PROVE  JobInv(u)'
<1>1. CASE \E f \in Newcomers : FetchJob(w, f)
    BY <1>1, FetchJobs
<1>2. CASE Return(w)
    BY <1>2, ReturnJob
<1>3. CASE Throw(w)
    BY <1>3, ThrowJob
<1>4. CASE Advance(w) /\ ~Return(w) /\ \A f \in Newcomers : ~FetchJob(w, f)
    BY <1>4, MoveJob
<1>5. QED
    BY <1>1, <1>2, <1>3, <1>4

LEMMA OutsideJobs ==
    ASSUME OnbTypes, OnbTypes',
           \/ \E u \in Newcomers :
               \/ StartOnboarding(u) \/ RegisterUser(u)
               \/ ExpireOrphan(u) \/ ExpireSlow(u) \/ DeadLetter(u)
           \/ Mine \/ Restart,
           NEW u \in Newcomers, u \notin slow', JobInv(u)
    PROVE  JobInv(u)'
<1>1. /\ faults \in Nat /\ retries[u] \in Nat /\ RetryLimit \in Nat /\ retries[u] <= faults
      /\ IsOrphan(u) => retries[u] + 1 <= faults
    BY JobFacts
<1>2. ASSUME UNCHANGED handlerVars, faults' = faults \/ faults' = faults + 1,
             job'[u] = job[u] \/ (job[u] = "none" /\ job'[u] = "queued"), retries'[u] = retries[u],
             Busy(u) # {} => (onboarding'[u] \in Settled => onboarding[u] \in Settled)
      PROVE  JobInv(u)'
    <2>1. Busy(u)' = Busy(u) /\ \A v \in Busy(u) : at'[v] = at[v] /\ tries'[v] = tries[v]
        BY <1>2 DEF handlerVars, Busy
    <2>2. faults <= faults'
        BY <1>1, <1>2
    <2>3. QED
        BY <1>2, <2>1, <2>2, JobKept
<1>3. ASSUME NEW v \in Newcomers, StartOnboarding(v) PROVE JobInv(u)'
    <2>1. job'[u] = job[u] \/ (job[u] = "none" /\ job'[u] = "queued")
        <3>1. CASE job' = job
            BY <3>1
        <3>2. CASE Upsert({v})
            BY <3>2, UpsertJob
        <3>3. QED
            BY <1>3, <3>1, <3>2 DEF StartOnboarding, onbQueueVars
    <2>2. UNCHANGED handlerVars /\ faults' = faults /\ retries' = retries
        BY <1>3 DEF StartOnboarding, onbHistoryVars, onbQueueVars, Upsert
    <2>3. onboarding'[u] \in Settled => onboarding[u] \in Settled
        BY <1>3 DEF StartOnboarding, StatusWhenStarted, Settled, OnbTypes, OnboardingTypeOK
    <2>4. QED
        BY <1>2, <2>1, <2>2, <2>3
<1>4. CASE Mine \/ \E v \in Newcomers : RegisterUser(v)
    <2>1. UNCHANGED <<handlerVars, job, onboarding, retries>> /\ faults' = faults
        BY <1>4 DEF Mine, RegisterUser, onbQueueVars, onbHistoryVars, onbRowVars
    <2>2. QED
        BY <1>2, <2>1
<1>5. ASSUME NEW v \in Newcomers, DeadLetter(v) PROVE JobInv(u)'
    <2>1. /\ UNCHANGED <<handlerVars, job, retries>> /\ faults' = faults
          /\ job[v] = "dead" /\ u # v => onboarding'[u] = onboarding[u]
        BY <1>5 DEF DeadLetter, onbQueueVars, onbHistoryVars, OnbTypes, OnboardingTypeOK
    <2>2. u = v => Busy(u) = {}
        BY <1>5, JobFacts DEF DeadLetter, Busy
    <2>3. Busy(u) # {} => (onboarding'[u] \in Settled => onboarding[u] \in Settled)
        BY <1>5, <2>2 DEF DeadLetter, OnbTypes, OnboardingTypeOK
    <2>4. QED
        BY <1>2, <2>1, <2>3
<1>6. ASSUME NEW v \in Newcomers, ExpireOrphan(v) PROVE JobInv(u)'
    <2>1. /\ RetryJob(v) /\ job[v] = "active" /\ IsOrphan(v) /\ UNCHANGED handlerVars
          /\ faults' = faults /\ onboarding' = onboarding
        BY <1>6 DEF ExpireOrphan, IsOrphan, onbHistoryVars, onbRowVars
    <2>2. CASE u # v
        BY <1>2, <2>1, <2>2, RetryType
    <2>3. CASE u = v
        <3>1. Busy(u)' = {} /\ retries[u] + 1 <= faults' /\ faults' \in Nat
            BY <1>1, <2>1, <2>3 DEF handlerVars, Busy, IsOrphan
        <3>2. QED
            BY <2>1, <2>3, <3>1, RetryAtRest
    <2>4. QED
        BY <2>2, <2>3
<1>7. ASSUME NEW v \in Newcomers, ExpireSlow(v) PROVE JobInv(u)'
    <2>1. /\ RetryJob(v) /\ job[v] = "active" /\ UNCHANGED handlerVars /\ slow' = slow \cup {v}
          /\ faults' = faults + 1 /\ onboarding' = onboarding
        BY <1>7, FaultType DEF ExpireSlow, onbRowVars, OnbTypes, OnboardingTypeOK
    <2>2. u # v
        BY <2>1
    <2>3. job'[u] = job[u] /\ retries'[u] = retries[u]
        BY <2>1, <2>2, RetryType
    <2>4. QED
        BY <1>2, <2>1, <2>3
<1>8. CASE Restart
    <2>1. /\ faults' = faults + 1 /\ \A w \in Handlers : at'[w] = "idle"
          /\ retries' = retries
        BY <1>8, FaultType DEF Restart, OnbTypes, OnboardingTypeOK, Upsert
    <2>2. job'[u] = job[u] \/ (job[u] = "none" /\ job'[u] = "queued")
        BY <1>8, UpsertJob DEF Restart
    <2>3. Busy(u)' = {}
        BY <2>1 DEF Busy
    <2>4. retries'[u] + (IF job'[u] = "active" THEN 1 ELSE 0) <= faults'
        BY <1>1, <2>1
    <2>5. job'[u] = "dead" => RetryLimit < faults'
        BY <1>1, <2>1, <2>2 DEF JobInv
    <2>6. QED
        BY <2>3, <2>4, <2>5, JobAtRest
<1>9. QED
    BY <1>3, <1>4, <1>5, <1>6, <1>7, <1>8

(* The settled row, on one step.                                           *)
LEMMA RowAdvances ==
    ASSUME OnbTypes, OnbTypes', OnboardingNext, NEW u \in Newcomers, u \notin slow', JobInv(u)
    PROVE  /\ onboarding[u] \in Settled =>
               \/ onboarding'[u] = onboarding[u]
               \/ onboarding'[u] = "failed" /\ faults' > RetryLimit
           /\ onboarding'[u] = "pending_kyc" => onboarding[u] \in {"none", "pending_kyc"}
<1>1. /\ faults \in Nat /\ retries[u] \in Nat /\ RetryLimit \in Nat /\ retries[u] <= faults
    BY JobFacts
<1>2. CASE onboarding'[u] = onboarding[u]
    BY <1>2
<1>3. ASSUME NEW w \in Handlers, Advance(w) \/ Throw(w), onboarding'[u] # onboarding[u]
      PROVE  /\ onboarding[u] \in Settled => onboarding'[u] = "failed" /\ faults' > RetryLimit
             /\ onboarding'[u] # "pending_kyc"
    <2>1. CASE Return(w) \/ \E f \in Newcomers : FetchJob(w, f)
        BY <1>3, <2>1 DEF Return, FetchJob, onbRowVars
    <2>2. CASE Throw(w)
        <3>1. /\ tries[w] >= RetryLimit /\ onboarding' = [onboarding EXCEPT ![user[w]] = "failed"]
              /\ at[w] # "idle" /\ faults' = faults + 1
            BY <1>3, <2>2, FaultType DEF Throw, OnbTypes, OnboardingTypeOK
        <3>2. u = user[w] /\ onboarding'[u] = "failed"
            BY <1>3, <3>1 DEF OnbTypes, OnboardingTypeOK
        <3>3. tries[w] = retries[u]
            BY <3>1, <3>2 DEF JobInv
        <3>4. QED
            BY <1>1, <3>1, <3>2, <3>3
    <2>3. CASE Advance(w) /\ ~Return(w) /\ \A f \in Newcomers : ~FetchJob(w, f)
        <3>1. at[w] \notin {"idle", "return"}
            BY <2>3, HandlerMove
        <3>2. PICK s \in Places :
                \/ onboarding' = onboarding
                \/ /\ at[w] # "load"
                   /\ \E status \in (inProgressStatuses \cup Settled) \ {"pending_kyc"} :
                          onboarding' = [onboarding EXCEPT ![user[w]] = status]
            BY <2>3, HandlerMove
        <3>3. at[w] # "load" /\ u = user[w] /\ onboarding'[u] # "pending_kyc"
            BY <1>3, <3>2 DEF OnbTypes, OnboardingTypeOK
        <3>4. onboarding[u] \notin Settled
            BY <3>1, <3>3 DEF JobInv
        <3>5. QED
            BY <3>3, <3>4
    <2>4. QED
        BY <1>3, <2>1, <2>2, <2>3
<1>4. ASSUME NEW v \in Newcomers, StartOnboarding(v), onboarding'[u] # onboarding[u]
      PROVE  onboarding[u] = "none"
    BY <1>4 DEF StartOnboarding, StatusWhenStarted, OnbTypes, OnboardingTypeOK
<1>5. ASSUME NEW v \in Newcomers, DeadLetter(v), onboarding'[u] # onboarding[u]
      PROVE  onboarding'[u] = "failed" /\ faults' > RetryLimit
    <2>1. u = v /\ job[u] = "dead" /\ faults' = faults /\ onboarding'[u] = "failed"
        BY <1>5 DEF DeadLetter, OnbTypes, OnboardingTypeOK, onbHistoryVars
    <2>2. QED
        BY <1>1, <2>1 DEF JobInv
<1>6. CASE \/ Mine \/ Restart
           \/ \E v \in Newcomers : RegisterUser(v) \/ ExpireOrphan(v) \/ ExpireSlow(v)
    BY <1>6 DEF Mine, Restart, RegisterUser, ExpireOrphan, ExpireSlow, onbRowVars
<1>7. "none" \notin Settled
    BY DEF Settled
<1>8. QED
    BY <1>2, <1>3, <1>4, <1>5, <1>6, <1>7 DEF OnboardingNext

LEMMA SlowGrows ==
    ASSUME OnbTypes, OnboardingNext
    PROVE  slow \subseteq slow'
<1>1. ASSUME NEW w \in Handlers, Advance(w) \/ Throw(w) PROVE slow' = slow
    <2>1. CASE Throw(w) \/ Return(w) \/ \E f \in Newcomers : FetchJob(w, f)
        BY <2>1 DEF Throw, Return, FetchJob, onbHistoryVars
    <2>2. CASE Advance(w) /\ ~Return(w) /\ \A f \in Newcomers : ~FetchJob(w, f)
        BY <2>2, HandlerMove
    <2>3. QED
        BY <1>1, <2>1, <2>2
<1>2. QED
    BY <1>1 DEF OnboardingNext, StartOnboarding, RegisterUser, ExpireOrphan, ExpireSlow,
       DeadLetter, Mine, Restart, onbHistoryVars

LEMMA SettledNext ==
    ASSUME OnbTypes, SettledInv, [OnboardingNext]_onbVars
    PROVE  OnbTypes' /\ SettledInv'
<1>1. CASE UNCHANGED onbVars
    <2>1. OnbTypes'
        BY <1>1 DEF OnbTypes, OnboardingTypeOK, onbVars, onbChainVars, onbRowVars,
           onbQueueVars, handlerVars, onbHistoryVars
    <2>2. slow' = slow /\ \A u \in Newcomers : JobInv(u)' = JobInv(u)
        BY <1>1 DEF JobInv, IsOrphan, onbVars, onbRowVars, onbQueueVars, handlerVars,
           onbHistoryVars
    <2>3. QED
        BY <2>1, <2>2 DEF SettledInv
<1>2. CASE OnboardingNext
    <2>1. OnbTypes'
        BY <1>2, HandlerTypes, OutsideTypes DEF OnboardingNext
    <2>2. slow \subseteq slow'
        BY <1>2, SlowGrows
    <2>3. ASSUME NEW u \in Newcomers, u \notin slow' PROVE JobInv(u)'
        <3>1. JobInv(u)
            BY <2>2, <2>3 DEF SettledInv
        <3>2. QED
            BY <1>2, <2>1, <2>3, <3>1, HandlerJobs, OutsideJobs DEF OnboardingNext
    <2>4. QED
        BY <2>1, <2>3 DEF SettledInv
<1>3. QED
    BY <1>1, <1>2

(* A user who finished, or was given up, is not moved back into onboarding *)
(* by jobs that run late, retries, restarts or another start: for every    *)
(* user whose handler never outlived its job.                              *)
THEOREM SettledStays == OnboardingSpec => StatusAdvances
<1> DEFINE Advances ==
        \A u \in Newcomers : u \notin slow' =>
            /\ onboarding[u] \in Settled =>
                   \/ onboarding'[u] = onboarding[u]
                   \/ onboarding'[u] = "failed" /\ faults' > RetryLimit
            /\ onboarding'[u] = "pending_kyc" => onboarding[u] \in {"none", "pending_kyc"}
<1>1. OnboardingInit => OnbTypes /\ SettledInv
    <2> SUFFICES ASSUME OnboardingInit PROVE OnbTypes /\ SettledInv
        OBVIOUS
    <2>1. OnbTypes
        BY InitOnbTypes
    <2>2. \A u \in Newcomers : ~IsOrphan(u) /\ job[u] # "dead" /\ retries[u] = 0
        BY DEF OnboardingInit, IsOrphan
    <2>3. faults = 0 /\ \A w \in Handlers : at[w] = "idle"
        BY DEF OnboardingInit
    <2>4. ASSUME NEW u \in Newcomers PROVE JobInv(u)
        BY <2>2, <2>3 DEF JobInv
    <2>5. QED
        BY <2>1, <2>4 DEF SettledInv
<1>2. OnbTypes /\ SettledInv /\ [OnboardingNext]_onbVars => (OnbTypes /\ SettledInv)'
    BY SettledNext
<1>3. OnbTypes /\ SettledInv /\ [OnboardingNext]_onbVars => [Advances]_onbVars
    <2> SUFFICES ASSUME OnbTypes, SettledInv, OnboardingNext PROVE Advances
        OBVIOUS
    <2>1. OnbTypes' /\ SettledInv'
        BY SettledNext
    <2>2. ASSUME NEW u \in Newcomers, u \notin slow' PROVE JobInv(u)
        BY <2>2, SlowGrows DEF SettledInv
    <2>3. QED
        BY <2>1, <2>2, RowAdvances
<1>4. QED
    BY <1>1, <1>2, <1>3, PTL DEF OnboardingSpec, StatusAdvances

-----------------------------------------------------------------------------
(* The organisation's requests.                                            *)

\* What a request about members does, and what it leaves alone.
MemberStep(q) == Member(q) \/ AllowList(q) \/ Die(q)

LEMMA AskedFields ==
    ASSUME AskedTypes, NEW q \in Requests
    PROVE  /\ asked[q] \in AskedType /\ asked[q].op \in DOMAIN OpSteps
           /\ asked[q].step \in OpSteps[asked[q].op]
           /\ asked[q].of \in Users \cup {Nobody} /\ asked[q].rank \in -1 .. 3
           /\ asked[q].op # "none" => asked[q].of \in Users
           /\ asked[q].op = "drip" => asked[q].of \in Newcomers
           /\ asked[q].op = "member" => asked[q].by \in Users /\ asked[q].as \in Settable
BY DEF AskedTypes, AskedType

(* Which operations a step belongs to.                                     *)
LEMMA StepsOfOps ==
    ASSUME AskedTypes, NEW q \in Requests
    PROVE  /\ asked[q].step = "unused" <=> asked[q].op = "none"
           /\ asked[q].step \in {"check", "write"} => asked[q].op = "member"
           /\ asked[q].step \in {"load", "intent"} => asked[q].op \in OrgOps
           /\ asked[q].step = "read" => asked[q].op \in OrgOps \cup AdminOps
           /\ asked[q].step \in {"send", "wait", "record"} => asked[q].op \in DOMAIN SentFor
           /\ asked[q].op \in DOMAIN SentFor <=> asked[q].op \in OrgOps \cup AdminOps \cup {"drip"}
<1>1. asked[q].op \in DOMAIN OpSteps /\ asked[q].step \in OpSteps[asked[q].op]
    BY AskedFields
<1>2. QED
    BY <1>1 DEF OpSteps, OrgOps, AdminOps, SentFor

(* One step forward of a request.                                          *)
LEMMA StepAsked ==
    ASSUME AskedTypes, NEW q \in Requests, NEW to,
           asked' = [asked EXCEPT ![q].step = to], to \in OpSteps[asked[q].op]
    PROVE  /\ AskedTypes'
           /\ \A p \in Requests : /\ asked'[p].op = asked[p].op /\ asked'[p].of = asked[p].of
                                  /\ asked'[p].by = asked[p].by /\ asked'[p].rank = asked[p].rank
                                  /\ asked'[p].as = asked[p].as
                                  /\ p # q => asked'[p] = asked[p]
           /\ asked'[q].step = to
<1>1. asked[q] \in AskedType /\ asked[q].op \in DOMAIN OpSteps
    BY AskedFields
<1>2. /\ asked' \in [Requests -> AskedType]
      /\ asked'[q] = [asked[q] EXCEPT !.step = to]
      /\ \A p \in Requests : p # q => asked'[p] = asked[p]
    BY <1>1 DEF AskedTypes, AskedType
<1>3. /\ asked'[q].op = asked[q].op /\ asked'[q].of = asked[q].of
      /\ asked'[q].by = asked[q].by /\ asked'[q].rank = asked[q].rank
      /\ asked'[q].as = asked[q].as /\ asked'[q].step = to
    BY <1>1, <1>2 DEF AskedType
<1>4. AskedTypes'
    BY <1>2, <1>3 DEF AskedTypes
<1>5. QED
    BY <1>2, <1>3, <1>4

(* A request that is made.                                                 *)
LEMMA NewAsked ==
    ASSUME AskedTypes, NEW q \in Requests, NEW r \in AskedType,
           asked' = [asked EXCEPT ![q] = r],
           r.step \in OpSteps[r.op], r.of \in Users,
           r.op = "drip" => r.of \in Newcomers,
           r.op = "member" => r.by \in Users /\ r.as \in Settable
    PROVE  /\ AskedTypes' /\ asked'[q] = r
           /\ \A p \in Requests : p # q => asked'[p] = asked[p]
<1>1. /\ asked' \in [Requests -> AskedType] /\ asked'[q] = r
      /\ \A p \in Requests : p # q => asked'[p] = asked[p]
    BY DEF AskedTypes
<1>2. QED
    BY <1>1 DEF AskedTypes

\* The requests that are made.
Made(q, r) ==
    /\ Unused(q) /\ asked' = [asked EXCEPT ![q] = r]
    /\ r \in AskedType /\ r.step \in OpSteps[r.op] /\ r.of \in Users
    /\ r.op = "drip" => r.of \in Newcomers
    /\ r.op = "member" => r.by \in Users /\ r.as \in Settable

LEMMA RankType == ASSUME MembershipTypeOK, NEW u \in Users
                  PROVE  ROLE_RANK[role[u]] \in -1 .. 3
                         /\ (role[u] = "owner" <=> ROLE_RANK[role[u]] = 3)
<1>1. role[u] \in DOMAIN ROLE_RANK
    BY DEF MembershipTypeOK
<1>2. QED
    BY <1>1 DEF ROLE_RANK

LEMMA MadeType ==
    ASSUME NEW op \in DOMAIN OpSteps, NEW by \in Users \cup {Nobody}, NEW rank \in -1 .. 3,
           NEW of \in Users, NEW as \in Settable \cup {"none"}, NEW s \in OpSteps[op]
    PROVE  [op |-> op, by |-> by, rank |-> rank, of |-> of, as |-> as, step |-> s] \in AskedType
BY DEF AskedType

Ask(op, of, s) == [Unasked EXCEPT !.op = op, !.of = of, !.step = s]

LEMMA AskType ==
    ASSUME NEW op \in DOMAIN OpSteps, NEW of \in Users, NEW s \in OpSteps[op]
    PROVE  /\ Ask(op, of, s) \in AskedType
           /\ Ask(op, of, s).op = op /\ Ask(op, of, s).of = of /\ Ask(op, of, s).step = s
<1>1. "none" \in DOMAIN OpSteps /\ "unused" \in OpSteps["none"]
    BY DEF OpSteps
<1>2. Unasked \in AskedType
    BY <1>1 DEF Unasked, AskedType
<1>3. QED
    BY <1>2 DEF Ask, AskedType

LEMMA MakeMember ==
    ASSUME MembershipTypeOK, NEW q \in Requests, NEW by \in Users, NEW of \in Users,
           NEW as \in Settable, AskMember(q, by, of, as)
    PROVE  Made(q, [op |-> "member", by |-> by, rank |-> ROLE_RANK[role[by]], of |-> of,
                    as |-> as, step |-> "check"])
<1>1. ROLE_RANK[role[by]] \in -1 .. 3
    BY RankType
<1>2. "member" \in DOMAIN OpSteps /\ "check" \in OpSteps["member"]
    BY DEF OpSteps
<1>3. [op |-> "member", by |-> by, rank |-> ROLE_RANK[role[by]], of |-> of,
       as |-> as, step |-> "check"] \in AskedType
    BY <1>1, <1>2, MadeType
<1>4. QED
    BY <1>2, <1>3 DEF AskMember, Made

LEMMA MakeAllowList ==
    ASSUME NEW q \in Requests, NEW op \in OrgOps \cup AdminOps, NEW by, NEW of \in Subjects,
           AskAllowList(q, op, by, of)
    PROVE  \E r : /\ Made(q, r) /\ r.op = op /\ r.of = of
                  /\ r.step = IF op \in OrgOps THEN "load" ELSE "read"
<1> DEFINE s == IF op \in OrgOps THEN "load" ELSE "read"
           r == Ask(op, of, s)
<1>1. op \in DOMAIN OpSteps /\ s \in OpSteps[op] /\ op \notin {"drip", "member"}
    BY DEF OpSteps, OrgOps, AdminOps
<1>2. of \in Users
    BY MembershipAssumption
<1>3. r \in AskedType /\ r.op = op /\ r.of = of /\ r.step = s
    BY <1>1, <1>2, AskType
<1>4. Unused(q) /\ asked' = [asked EXCEPT ![q] = r]
    BY DEF AskAllowList, Ask
<1>5. QED
    BY <1>1, <1>2, <1>3, <1>4 DEF Made

LEMMA MakeDrip ==
    ASSUME NEW q \in Requests, NEW of \in Subjects, AskDrip(q, of)
    PROVE  \E r : Made(q, r) /\ r.op = "drip" /\ r.of = of /\ r.step = "send"
<1> DEFINE r == Ask("drip", of, "send")
<1>1. "drip" \in DOMAIN OpSteps /\ "send" \in OpSteps["drip"]
    BY DEF OpSteps
<1>2. of \in Users /\ of \in Newcomers
    BY MembershipAssumption DEF AskDrip
<1>3. r \in AskedType /\ r.op = "drip" /\ r.of = of /\ r.step = "send"
    BY <1>1, <1>2, AskType
<1>4. Unused(q) /\ asked' = [asked EXCEPT ![q] = r]
    BY DEF AskDrip, Ask
<1>5. QED
    BY <1>1, <1>2, <1>3, <1>4 DEF Made

(* Every step of a request that was made goes to a step of its operation.  *)
LEMMA NextStep ==
    ASSUME AskedTypes, NEW q \in Requests,
           \/ CheckRank(q) \/ WriteRole(q) \/ LoadMember(q) \/ RecordIntent(q)
           \/ ReadAllowList(q) \/ SendChange(q) \/ RecordChange(q) \/ Die(q)
    PROVE  \E to \in OpSteps[asked[q].op] : asked' = [asked EXCEPT ![q].step = to]
<1>1. asked[q].op \in DOMAIN OpSteps /\ asked[q].step \in OpSteps[asked[q].op]
    BY AskedFields
<1>2. QED
    BY <1>1 DEF CheckRank, WriteRole, LoadMember, RecordIntent, ReadAllowList, SendChange,
       RecordChange, Die, Step, InFlight, OpSteps

LEMMA SendChangeType ==
    ASSUME mempool \in Seq(Transaction), AskedTypes, NEW q \in Requests, SendChange(q)
    PROVE  /\ asked[q].op \in DOMAIN SentFor /\ asked[q].of \in Users
           /\ mempool' = Append(mempool, [do |-> SentFor[asked[q].op], to |-> asked[q].of, for |-> q])
           /\ mempool' \in Seq(Transaction)
<1>1. asked[q].op \in DOMAIN SentFor /\ asked[q].op # "none"
    BY StepsOfOps DEF SendChange, Step
<1>2. SentFor[asked[q].op] \in {"enable", "revoke", "drip"} /\ asked[q].of \in Users
    BY <1>1, AskedFields DEF SentFor
<1>3. Send(SentFor[asked[q].op], asked[q].of, q)
    BY DEF SendChange
<1>4. mempool' \in Seq(Transaction)
    BY <1>2, <1>3, SendType
<1>5. QED
    BY <1>1, <1>2, <1>3, <1>4 DEF Send

LEMMA MemberStepTypes ==
    ASSUME OnbTypes, MembershipTypeOK, AskedTypes, NEW q \in Requests, MemberStep(q)
    PROVE  OnbTypes' /\ MembershipTypeOK' /\ AskedTypes'
<1>1. AskedTypes'
    <2>1. ASSUME NEW r, Made(q, r) PROVE AskedTypes'
        BY <2>1, NewAsked DEF Made
    <2>2. CASE \/ CheckRank(q) \/ WriteRole(q) \/ LoadMember(q) \/ RecordIntent(q)
               \/ ReadAllowList(q) \/ SendChange(q) \/ RecordChange(q) \/ Die(q)
        BY <2>2, NextStep, StepAsked
    <2>3. CASE \E by, of \in Users, as \in Settable : AskMember(q, by, of, as)
        BY <2>1, <2>3, MakeMember
    <2>4. CASE \E op \in OrgOps, by \in Users, of \in Subjects : AskAllowList(q, op, by, of)
        BY <2>1, <2>4, MakeAllowList
    <2>5. CASE \E op \in AdminOps, of \in Subjects : AskAllowList(q, op, Nobody, of)
        BY <2>1, <2>5, MakeAllowList
    <2>6. CASE \E of \in Subjects : AskDrip(q, of)
        BY <2>1, <2>6, MakeDrip
    <2>7. QED
        BY <2>2, <2>3, <2>4, <2>5, <2>6 DEF MemberStep, Member, AllowList, AdminRequest
<1>2. MembershipTypeOK'
    <2>1. WriteRole(q) => role' \in [Users -> DOMAIN ROLE_RANK] /\ outdated' \subseteq Requests
        <3> SUFFICES ASSUME WriteRole(q)
                     PROVE  role' \in [Users -> DOMAIN ROLE_RANK] /\ outdated' \subseteq Requests
            OBVIOUS
        <3>1. asked[q].op = "member" /\ asked[q].as \in Settable
            BY StepsOfOps, AskedFields DEF WriteRole, Step
        <3>2. asked[q].as \in DOMAIN ROLE_RANK
            BY <3>1 DEF Settable, ROLE_RANK
        <3>3. QED
            BY <3>2 DEF WriteRole, MembershipTypeOK
    <2>2. \A op, by, of : AskAllowList(q, op, by, of) /\ of \in Subjects =>
            contended' \subseteq Users /\ adminEnabled' \subseteq Users
        BY MembershipAssumption DEF AskAllowList, MembershipTypeOK
    <2>3. RecordIntent(q) => row' \in [Users -> {"none", "pending", "enabled", "revoked"}]
        BY DEF RecordIntent, PendingIntent, MembershipTypeOK
    <2>4. RecordChange(q) => row' \in [Users -> {"none", "pending", "enabled", "revoked"}]
        BY DEF RecordChange, StatusAfter, MembershipTypeOK
    <2>5. QED
        BY <2>1, <2>2, <2>3, <2>4
           DEF MemberStep, Member, AllowList, AdminRequest, AskMember, CheckRank, WriteRole,
               AskAllowList, AskDrip, LoadMember, RecordIntent, ReadAllowList, SendChange,
               RecordChange, Die, MembershipTypeOK, requestVars
<1>3. OnbTypes'
    <2>1. CASE SendChange(q)
        <3>1. mempool' \in Seq(Transaction)
            BY <2>1, SendChangeType DEF OnbTypes, OnboardingTypeOK
        <3>2. QED
            BY <2>1, <3>1 DEF SendChange, OnbTypes, OnboardingTypeOK, onbRowVars,
               onbQueueVars, handlerVars, onbHistoryVars
    <2>2. CASE RecordChange(q)
        <3>1. dripRow' \subseteq Newcomers
            BY <2>2, AskedFields DEF RecordChange, OnbTypes, OnboardingTypeOK
        <3>2. QED
            BY <2>2, <3>1 DEF RecordChange, OnbTypes, OnboardingTypeOK, onbChainVars,
               onbQueueVars, handlerVars, onbHistoryVars
    <2>3. CASE UNCHANGED onbVars
        BY <2>3 DEF OnbTypes, OnboardingTypeOK, onbVars, onbChainVars, onbRowVars,
           onbQueueVars, handlerVars, onbHistoryVars
    <2>4. QED
        BY <2>1, <2>2, <2>3
           DEF MemberStep, Member, AllowList, AdminRequest, AskMember, CheckRank, WriteRole,
               AskAllowList, AskDrip, LoadMember, RecordIntent, ReadAllowList, Die
<1>4. QED
    BY <1>1, <1>2, <1>3

LEMMA SeqSteps ==
    ASSUME NEW S, NEW s \in Seq(S), NEW e \in S
    PROVE  /\ Append(s, e) \in Seq(S) /\ Len(Append(s, e)) = Len(s) + 1 /\ Len(s) \in Nat
           /\ Append(s, e)[Len(s) + 1] = e
           /\ \A i \in 1 .. Len(s) : Append(s, e)[i] = s[i]
           /\ s # <<>> => /\ Head(s) = s[1] /\ Head(s) \in S /\ 1 \in 1 .. Len(s)
                          /\ Tail(s) \in Seq(S) /\ Len(Tail(s)) = Len(s) - 1
                          /\ \A i \in 1 .. Len(s) - 1 : Tail(s)[i] = s[i + 1]
OBVIOUS

(* What onboarding does to the chain: it mines, or sends of its own.       *)
LEMMA OnboardChain ==
    ASSUME OnbTypes, OnboardingNext
    PROVE  \/ Mine
           \/ /\ level' = level /\ ~(mempool # <<>> /\ mempool' = Tail(mempool))
              /\ \/ mempool' = mempool
                 \/ \E w \in Handlers, kind \in {"enable", "drip"} :
                        /\ user[w] \in Newcomers /\ (kind = "enable" => at[w] = "enable")
                        /\ mempool' = Append(mempool, [do |-> kind, to |-> user[w], for |-> Nobody])
<1>1. CASE Mine
    BY <1>1
<1>2. ASSUME level' = level, mempool' = mempool
      PROVE  ~(mempool # <<>> /\ mempool' = Tail(mempool))
    <2>1. mempool \in Seq(Transaction)
        BY DEF OnbTypes, OnboardingTypeOK
    <2>2. QED
        BY <1>2, <2>1
<1>3. ASSUME NEW w \in Handlers, EnsureAllowlisted(w) \/ DripGas(w)
      PROVE  /\ level' = level /\ ~(mempool # <<>> /\ mempool' = Tail(mempool))
             /\ \E kind \in {"enable", "drip"} :
                    /\ user[w] \in Newcomers /\ (kind = "enable" => at[w] = "enable")
                    /\ mempool' = Append(mempool, [do |-> kind, to |-> user[w], for |-> Nobody])
    <2>1. at[w] # "idle" /\ level' = level
        BY <1>3 DEF EnsureAllowlisted, DripGas, Go
    <2>2. user[w] \in Newcomers /\ user[w] \in Users /\ mempool \in Seq(Transaction)
        BY <2>1, OnboardingAssumption DEF OnbTypes, OnboardingTypeOK
    <2>3. PICK kind \in {"enable", "drip"} :
            /\ mempool' = Append(mempool, [do |-> kind, to |-> user[w], for |-> Nobody])
            /\ kind = "enable" => at[w] = "enable"
        BY <1>3 DEF EnsureAllowlisted, DripGas, Go, Send
    <2>4. [do |-> kind, to |-> user[w], for |-> Nobody] \in Transaction
        BY <2>2 DEF Transaction
    <2>5. mempool # <<>> => Len(mempool') # Len(Tail(mempool))
        BY <2>2, <2>3, <2>4, SeqSteps
    <2>6. QED
        BY <2>1, <2>2, <2>3, <2>5
<1>4. ASSUME NEW w \in Handlers, Advance(w) \/ Throw(w), ~EnsureAllowlisted(w), ~DripGas(w)
      PROVE  level' = level /\ mempool' = mempool
    BY <1>4 DEF Advance, Throw, FetchJob, Load, ApproveMockKyc, ReadLevel, CompleteAllowlistStep,
       ReadBalance, FindRecentDrip, RecordDrip, CompleteGasStep, AwaitRegistration,
       PollRegistration, CompleteOnboarding, TouchRegistration, EnqueueNextPoll, Return, Reads,
       UpdateOnboarding, onbChainVars
<1>5. ASSUME NEW u \in Newcomers,
             \/ StartOnboarding(u) \/ RegisterUser(u)
             \/ ExpireOrphan(u) \/ ExpireSlow(u) \/ DeadLetter(u)
      PROVE  level' = level /\ mempool' = mempool
    BY <1>5 DEF StartOnboarding, RegisterUser, ExpireOrphan, ExpireSlow, DeadLetter, onbChainVars
<1>6. Restart => level' = level /\ mempool' = mempool
    BY DEF Restart, onbChainVars
<1>7. QED
    BY <1>1, <1>2, <1>3, <1>4, <1>5, <1>6 DEF OnboardingNext

(* Rows and handlers get past KYC with it, and keep it.                    *)
LEMMA HandlerKyc ==
    ASSUME OnbTypes, KycRows, NEW w \in Handlers, Advance(w) \/ Throw(w)
    PROVE  KycRows' /\ kyc \subseteq kyc'
<1> USE DEF OnbTypes, OnboardingTypeOK, KycRows, Go, Reads, onbRowVars
<1>1. CASE \E f \in Newcomers : FetchJob(w, f)
    BY <1>1 DEF FetchJob, PastKyc
<1>2. CASE Load(w)
    <2>1. onboarding[user[w]] \in DOMAIN StepFor
        BY <1>2 DEF Load, StepFor, inProgressStatuses, Settled
    <2>2. StepFor[onboarding[user[w]]] \in PastKyc => onboarding[user[w]] \in approvedKycOnboardingStatuses
        BY <2>1 DEF StepFor, PastKyc, approvedKycOnboardingStatuses
    <2>3. QED
        BY <1>2, <2>2 DEF Load
<1>3. CASE ApproveMockKyc(w)
    BY <1>3 DEF ApproveMockKyc, UpdateOnboarding, PastKyc
<1>4. CASE ReadLevel(w) \/ ReadBalance(w) \/ FindRecentDrip(w) \/ PollRegistration(w)
          \/ EnsureAllowlisted(w) \/ DripGas(w)
    <2>1. at[w] \in PastKyc /\ UNCHANGED <<onboarding, kyc, user>>
        BY <1>4 DEF ReadLevel, ReadBalance, FindRecentDrip, PollRegistration, EnsureAllowlisted,
                    DripGas, PastKyc, Places
    <2>2. PICK s : at' = [at EXCEPT ![w] = s]
        BY <1>4 DEF ReadLevel, ReadBalance, FindRecentDrip, PollRegistration, EnsureAllowlisted,
                    DripGas
    <2>3. QED
        BY <2>1, <2>2
<1>5. CASE \/ CompleteAllowlistStep(w) \/ RecordDrip(w) \/ CompleteGasStep(w)
           \/ AwaitRegistration(w) \/ CompleteOnboarding(w) \/ TouchRegistration(w)
    <2>1. at[w] \in PastKyc /\ UNCHANGED <<kyc, user>>
        BY <1>5 DEF CompleteAllowlistStep, RecordDrip, CompleteGasStep, AwaitRegistration,
                    CompleteOnboarding, TouchRegistration, PastKyc, Places
    <2>2. PICK s, status : /\ at' = [at EXCEPT ![w] = s]
                           /\ onboarding' = [onboarding EXCEPT ![user[w]] = status]
        BY <1>5 DEF CompleteAllowlistStep, RecordDrip, CompleteGasStep, AwaitRegistration,
                    CompleteOnboarding, TouchRegistration, UpdateOnboarding
    <2>3. QED
        BY <2>1, <2>2
<1>6. CASE EnqueueNextPoll(w)
    BY <1>6 DEF EnqueueNextPoll, PastKyc, Places
<1>7. CASE Return(w)
    BY <1>7 DEF Return, Leave, PastKyc, Places
<1>8. CASE Throw(w)
    <2>1. kyc' = kyc /\ at[w] # "idle"
        BY <1>8 DEF Throw
    <2>2. CASE tries[w] >= RetryLimit
        <3>1. /\ at' = [at EXCEPT ![w] = "return"] /\ user' = user
              /\ onboarding' = [onboarding EXCEPT ![user[w]] = "failed"]
            BY <1>8, <2>2 DEF Throw
        <3>2. QED
            BY <2>1, <3>1 DEF PastKyc, Places, approvedKycOnboardingStatuses
    <2>3. CASE ~(tries[w] >= RetryLimit)
        <3>1. Leave(w) /\ onboarding' = onboarding
            BY <1>8, <2>3 DEF Throw
        <3>2. QED
            BY <2>1, <3>1 DEF Leave, PastKyc, Places
    <2>4. QED
        BY <2>2, <2>3
<1>9. QED
    BY <1>1, <1>2, <1>3, <1>4, <1>5, <1>6, <1>7, <1>8 DEF Advance

LEMMA OnboardKyc ==
    ASSUME OnbTypes, KycRows, OnboardingNext
    PROVE  KycRows' /\ kyc \subseteq kyc'
<1>1. ASSUME NEW u \in Newcomers, StartOnboarding(u) PROVE KycRows' /\ kyc \subseteq kyc'
    <2>1. /\ UNCHANGED <<kyc, at, user>>
          /\ \A v \in Newcomers : onboarding'[v] = onboarding[v] \/ onboarding'[v] = "pending_kyc"
        BY <1>1 DEF StartOnboarding, StatusWhenStarted, handlerVars, OnbTypes, OnboardingTypeOK
    <2>2. QED
        BY <2>1 DEF KycRows, approvedKycOnboardingStatuses
<1>2. ASSUME NEW u \in Newcomers, DeadLetter(u) PROVE KycRows' /\ kyc \subseteq kyc'
    <2>1. /\ UNCHANGED <<kyc, at, user>>
          /\ \A v \in Newcomers : onboarding'[v] = onboarding[v] \/ onboarding'[v] = "failed"
        BY <1>2 DEF DeadLetter, handlerVars, OnbTypes, OnboardingTypeOK
    <2>2. QED
        BY <2>1 DEF KycRows, approvedKycOnboardingStatuses
<1>3. CASE Mine \/ \E u \in Newcomers : RegisterUser(u) \/ ExpireOrphan(u) \/ ExpireSlow(u)
    BY <1>3 DEF Mine, RegisterUser, ExpireOrphan, ExpireSlow, KycRows, onbRowVars, handlerVars
<1>4. CASE Restart
    BY <1>4 DEF Restart, KycRows, onbRowVars, PastKyc, Places
<1>5. QED
    BY <1>1, <1>2, <1>3, <1>4, HandlerKyc DEF OnboardingNext

(* What the organisation sees of it.                                       *)
Answers(tx) == tx.for # Nobody /\ asked[tx.for].step = "wait"
ByOrg(tx) == tx.for # Nobody /\ asked[tx.for].op \in OrgOps
OnlyMined(u, tx) == \A q \in Requests \ {tx.for} : ~(OnAllowList(q) /\ asked[q].of = u)

LEMMA OnboardEffect ==
    ASSUME OnbTypes, AskedTypes, Onboard
    PROVE  /\ OnboardingNext /\ UNCHANGED <<role, row, adminEnabled, outdated>>
           /\ contended \subseteq contended'
           /\ \/ /\ Mine
                 /\ asked' = IF Answers(Head(mempool))
                             THEN [asked EXCEPT ![Head(mempool).for].step = "record"] ELSE asked
                 /\ \/ ByOrg(Head(mempool))
                    \/ \A u \in Users \ contended' :
                        \/ u \in level' <=> u \in level
                        \/ row[u] = "none" /\ OnlyMined(u, Head(mempool))
              \/ /\ asked' = asked /\ level' = level
                 /\ \/ mempool' = mempool
                    \/ \E w \in Handlers, kind \in {"enable", "drip"} :
                        /\ user[w] \in Newcomers /\ (kind = "enable" => at[w] = "enable")
                        /\ mempool' = Append(mempool, [do |-> kind, to |-> user[w], for |-> Nobody])
<1> DEFINE flipped == (level \ level') \cup (level' \ level)
           mined == mempool # <<>> /\ mempool' = Tail(mempool)
           for == IF mined THEN Head(mempool).for ELSE Nobody
           waits == for # Nobody /\ asked[for].step = "wait"
           byOrg == for # Nobody /\ asked[for].op \in OrgOps
           asksMore(u) == \E q \in Requests \ {for} : OnAllowList(q) /\ asked[q].of = u
<1>1. /\ OnboardingNext /\ UNCHANGED <<role, row, adminEnabled, outdated>>
      /\ asked' = IF waits THEN [asked EXCEPT ![for].step = "record"] ELSE asked
      /\ contended' = IF byOrg THEN contended
                      ELSE contended \cup {u \in flipped : row[u] # "none" \/ asksMore(u)}
    BY DEF Onboard
<1>2. CASE Mine
    <2>1. mined
        BY <1>2 DEF Mine
    <2>2. for = Head(mempool).for
        BY <2>1
    <2>3. asked' = IF Answers(Head(mempool))
                   THEN [asked EXCEPT ![Head(mempool).for].step = "record"] ELSE asked
        BY <1>1, <2>2 DEF Answers
    <2>4. ASSUME ~ByOrg(Head(mempool)), NEW u \in Users \ contended', ~(u \in level' <=> u \in level)
          PROVE  row[u] = "none" /\ OnlyMined(u, Head(mempool))
        <3>1. u \in flipped /\ ~byOrg
            BY <2>2, <2>4 DEF ByOrg
        <3>2. ~(row[u] # "none" \/ asksMore(u))
            BY <1>1, <2>4, <3>1
        <3>3. QED
            BY <2>2, <3>2 DEF OnlyMined
    <2>5. contended \subseteq contended'
        BY <1>1
    <2>6. QED
        BY <1>1, <1>2, <2>3, <2>4, <2>5
<1>3. CASE ~Mine
    <2>1. /\ level' = level /\ ~(mempool # <<>> /\ mempool' = Tail(mempool))
          /\ \/ mempool' = mempool
             \/ \E w \in Handlers, kind \in {"enable", "drip"} :
                    /\ user[w] \in Newcomers /\ (kind = "enable" => at[w] = "enable")
                    /\ mempool' = Append(mempool, [do |-> kind, to |-> user[w], for |-> Nobody])
        BY <1>1, <1>3, OnboardChain
    <2>2. flipped = {} /\ ~waits
        BY <2>1
    <2>3. asked' = asked /\ contended' = contended
        BY <1>1, <2>2
    <2>4. QED
        BY <1>1, <2>1, <2>3
<1>4. QED
    BY <1>2, <1>3

LEMMA MinedTx ==
    ASSUME OnbTypes, Mine
    PROVE  LET tx == Head(mempool) IN
           /\ tx = mempool[1] /\ 1 \in 1 .. Len(mempool) /\ tx \in Transaction
           /\ tx.for \in Requests \cup {Nobody} /\ tx.to \in Users
           /\ tx.do \in {"enable", "revoke", "drip"}
           /\ Len(mempool') = Len(mempool) - 1 /\ Len(mempool) \in Nat
           /\ \A i \in 1 .. Len(mempool') : /\ mempool'[i] = mempool[i + 1]
                                            /\ i + 1 \in 1 .. Len(mempool) /\ i + 1 # 1
           /\ \A u \in Users : u # tx.to => (u \in level' <=> u \in level)
           /\ tx.do = "enable" => level' = level \cup {tx.to}
           /\ tx.do = "revoke" => level' = level \ {tx.to}
           /\ tx.do = "drip" => level' = level
<1>1. mempool \in Seq(Transaction) /\ mempool # <<>> /\ mempool' = Tail(mempool)
    BY DEF OnbTypes, OnboardingTypeOK, Mine
<1>2. /\ Head(mempool) = mempool[1] /\ 1 \in 1 .. Len(mempool) /\ Head(mempool) \in Transaction
      /\ Len(mempool') = Len(mempool) - 1 /\ Len(mempool) \in Nat
      /\ \A i \in 1 .. Len(mempool) - 1 : mempool'[i] = mempool[i + 1]
    BY <1>1, SeqSteps
<1>3. /\ Head(mempool).for \in Requests \cup {Nobody} /\ Head(mempool).to \in Users
      /\ Head(mempool).do \in {"enable", "revoke", "drip"}
    BY <1>2 DEF Transaction
<1>4. /\ Head(mempool).do = "enable" => level' = level \cup {Head(mempool).to}
      /\ Head(mempool).do = "revoke" => level' = level \ {Head(mempool).to}
      /\ Head(mempool).do = "drip" => level' = level
    BY <1>3 DEF Mine
<1>5. QED
    BY <1>2, <1>3, <1>4

LEMMA MinedAsked ==
    ASSUME OnbTypes, AskedTypes, Mine,
           asked' = IF Answers(Head(mempool))
                    THEN [asked EXCEPT ![Head(mempool).for].step = "record"] ELSE asked
    PROVE  /\ AskedTypes'
           /\ \A p \in Requests :
               /\ asked'[p].op = asked[p].op /\ asked'[p].of = asked[p].of
               /\ asked'[p].by = asked[p].by /\ asked'[p].rank = asked[p].rank
               /\ \/ asked'[p].step = asked[p].step
                  \/ /\ p = Head(mempool).for /\ asked[p].step = "wait"
                     /\ asked'[p].step = "record" /\ asked[p].op \in DOMAIN SentFor
               /\ p = Head(mempool).for => asked'[p].step # "wait"
<1>1. CASE Answers(Head(mempool))
    <2>1. /\ Head(mempool).for \in Requests /\ asked[Head(mempool).for].step = "wait"
          /\ asked' = [asked EXCEPT ![Head(mempool).for].step = "record"]
        BY <1>1, MinedTx DEF Answers
    <2>2. /\ asked[Head(mempool).for].op \in DOMAIN SentFor
          /\ "record" \in OpSteps[asked[Head(mempool).for].op]
        BY <2>1, StepsOfOps DEF SentFor, OpSteps
    <2>3. /\ AskedTypes'
          /\ \A p \in Requests : /\ asked'[p].op = asked[p].op /\ asked'[p].of = asked[p].of
                                 /\ asked'[p].by = asked[p].by /\ asked'[p].rank = asked[p].rank
                                 /\ p # Head(mempool).for => asked'[p] = asked[p]
          /\ asked'[Head(mempool).for].step = "record"
        BY <2>1, <2>2, StepAsked
    <2>4. \A p \in Requests :
            /\ p # Head(mempool).for => asked'[p].step = asked[p].step
            /\ p = Head(mempool).for => /\ asked[p].step = "wait" /\ asked'[p].step = "record"
                                       /\ asked[p].op \in DOMAIN SentFor
        BY <2>1, <2>2, <2>3
    <2>5. QED
        BY <2>3, <2>4
<1>2. CASE ~Answers(Head(mempool))
    <2>1. \A p \in Requests : p = Head(mempool).for => asked[p].step # "wait"
        BY <1>2, CallersAssumption DEF Answers
    <2>2. QED
        BY <1>2, <2>1 DEF AskedTypes
<1>3. QED
    BY <1>1, <1>2

LEMMA OnboardTypes ==
    ASSUME OnbTypes, MembershipTypeOK, AskedTypes, Onboard
    PROVE  OnbTypes' /\ MembershipTypeOK' /\ AskedTypes'
<1>1. OnbTypes'
    BY OnboardEffect, HandlerTypes, OutsideTypes DEF OnboardingNext
<1>2. AskedTypes'
    <2>1. asked' = asked => AskedTypes'
        BY DEF AskedTypes
    <2>2. QED
        BY <2>1, OnboardEffect, MinedAsked
<1>3. MembershipTypeOK'
    <2>1. level \subseteq Users /\ level' \subseteq Users
        BY <1>1 DEF OnbTypes, OnboardingTypeOK
    <2>2. contended' \subseteq Users /\ UNCHANGED <<role, row, adminEnabled, outdated>>
        BY <2>1 DEF Onboard, MembershipTypeOK
    <2>3. QED
        BY <2>2 DEF MembershipTypeOK
<1>4. QED
    BY <1>1, <1>2, <1>3

-----------------------------------------------------------------------------
(* KYC.                                                                    *)

LEMMA OnboardKycInv ==
    ASSUME OnbTypes, AskedTypes, KycInv, Onboard
    PROVE  KycInv'
<1>1. /\ KycRows' /\ kyc \subseteq kyc' /\ adminEnabled' = adminEnabled
    BY OnboardEffect, OnboardKyc DEF KycInv
<1>2. CASE /\ Mine
           /\ asked' = IF Answers(Head(mempool))
                       THEN [asked EXCEPT ![Head(mempool).for].step = "record"] ELSE asked
    <2>1. KycSent' /\ AllowlistedHasKyc'
        BY <1>1, <1>2, MinedTx DEF KycInv, KycSent, AllowlistedHasKyc
    <2>2. KycAsked'
        BY <1>1, <1>2, MinedAsked DEF KycInv, KycAsked, InFlight
    <2>3. QED
        BY <1>1, <2>1, <2>2 DEF KycInv
<1>3. CASE asked' = asked /\ level' = level /\ mempool' = mempool
    BY <1>1, <1>3 DEF KycInv, KycSent, KycAsked, AllowlistedHasKyc, InFlight
<1>4. ASSUME asked' = asked, level' = level,
             NEW w \in Handlers, NEW kind \in {"enable", "drip"},
             user[w] \in Newcomers, kind = "enable" => at[w] = "enable",
             mempool' = Append(mempool, [do |-> kind, to |-> user[w], for |-> Nobody])
      PROVE  KycInv'
    <2>1. kind = "enable" => user[w] \in kyc
        BY <1>4 DEF KycInv, KycRows, PastKyc, Places
    <2>2. mempool \in Seq(Transaction) /\ [do |-> kind, to |-> user[w], for |-> Nobody] \in Transaction
        BY <1>4, OnboardingAssumption DEF OnbTypes, OnboardingTypeOK, Transaction
    <2>3. /\ Len(mempool') = Len(mempool) + 1 /\ Len(mempool) \in Nat
          /\ mempool'[Len(mempool) + 1] = [do |-> kind, to |-> user[w], for |-> Nobody]
          /\ \A i \in 1 .. Len(mempool) : mempool'[i] = mempool[i]
        BY <1>4, <2>2, SeqSteps
    <2>4. KycSent'
        BY <1>1, <2>1, <2>3 DEF KycInv, KycSent
    <2>5. QED
        BY <1>1, <1>4, <2>4 DEF KycInv, KycAsked, AllowlistedHasKyc, InFlight
<1>5. QED
    BY <1>2, <1>3, <1>4, OnboardEffect

(* What all steps of a request have in common.                             *)
LEMMA MemberFrame ==
    ASSUME NEW q \in Requests, MemberStep(q)
    PROVE  /\ UNCHANGED <<onboarding, kyc, level, handlerVars>>
           /\ adminEnabled \subseteq adminEnabled' /\ contended \subseteq contended'
           /\ SendChange(q) \/ mempool' = mempool
           /\ outdated \subseteq outdated' /\ (WriteRole(q) \/ (role' = role /\ outdated' = outdated))
           /\ RecordIntent(q) \/ RecordChange(q) \/ row' = row
<1>1. CASE \E by, of \in Users, as \in Settable : AskMember(q, by, of, as)
    BY <1>1 DEF AskMember, requestVars, onbVars, onbChainVars, onbRowVars
<1>2. CASE \E op, by, of : AskAllowList(q, op, by, of)
    BY <1>2 DEF AskAllowList, onbVars, onbChainVars, onbRowVars
<1>3. CASE \/ CheckRank(q) \/ LoadMember(q) \/ ReadAllowList(q) \/ Die(q)
           \/ \E of \in Subjects : AskDrip(q, of)
    BY <1>3 DEF CheckRank, LoadMember, ReadAllowList, Die, AskDrip, requestVars, onbVars,
       onbChainVars, onbRowVars
<1>4. CASE WriteRole(q)
    <2>1. /\ UNCHANGED <<row, adminEnabled, contended, onbVars>> /\ outdated \subseteq outdated'
        BY <1>4 DEF WriteRole
    <2>2. UNCHANGED <<onboarding, kyc, level, handlerVars, mempool>>
        BY <2>1 DEF onbVars, onbChainVars, onbRowVars
    <2>3. /\ adminEnabled \subseteq adminEnabled' /\ contended \subseteq contended'
          /\ mempool' = mempool /\ row' = row
        BY <2>1, <2>2
    <2>4. WriteRole(q) \/ (role' = role /\ outdated' = outdated)
        BY <1>4
    <2>5. QED
        BY <2>1, <2>2, <2>3, <2>4
<1>5. CASE RecordIntent(q) \/ RecordChange(q)
    BY <1>5 DEF RecordIntent, RecordChange, onbVars, onbChainVars, onbRowVars
<1>6. CASE SendChange(q)
    BY <1>6 DEF SendChange, requestVars, onbRowVars
<1>7. QED
    BY <1>1, <1>2, <1>3, <1>4, <1>5, <1>6 DEF MemberStep, Member, AllowList, AdminRequest

(* The asks and the steps of a request.                                    *)
Asks(q) ==
    \/ \E by, of \in Users, as \in Settable : AskMember(q, by, of, as)
    \/ \E op \in OrgOps \cup AdminOps, by \in Users \cup {Nobody}, of \in Subjects :
           AskAllowList(q, op, by, of)
    \/ \E of \in Subjects : AskDrip(q, of)

Proceeds(q) ==
    \/ CheckRank(q) \/ WriteRole(q) \/ LoadMember(q) \/ RecordIntent(q)
    \/ ReadAllowList(q) \/ SendChange(q) \/ RecordChange(q) \/ Die(q)

LEMMA MemberCases == ASSUME NEW q \in Requests, MemberStep(q) PROVE Asks(q) \/ Proceeds(q)
BY DEF MemberStep, Member, AllowList, AdminRequest, Asks, Proceeds

LEMMA ProceedsAsked ==
    ASSUME AskedTypes, NEW q \in Requests, Proceeds(q)
    PROVE  /\ asked'[q].step \in OpSteps[asked[q].op] /\ asked' = [asked EXCEPT ![q].step = asked'[q].step]
           /\ \A p \in Requests : /\ asked'[p].op = asked[p].op /\ asked'[p].of = asked[p].of
                                  /\ asked'[p].by = asked[p].by /\ asked'[p].rank = asked[p].rank
                                  /\ asked'[p].as = asked[p].as
                                  /\ p # q => asked'[p] = asked[p]
<1>1. PICK to \in OpSteps[asked[q].op] : asked' = [asked EXCEPT ![q].step = to]
    BY NextStep DEF Proceeds
<1>2. asked'[q].step = to
    BY <1>1, StepAsked
<1>3. QED
    BY <1>1, <1>2, StepAsked

LEMMA AsksAsked ==
    ASSUME MembershipTypeOK, AskedTypes, NEW q \in Requests, Asks(q)
    PROVE  /\ asked[q].step = "unused" /\ UNCHANGED <<role, row, outdated, onbVars>>
           /\ \A p \in Requests : p # q => asked'[p] = asked[p]
           /\ \/ /\ asked'[q].op = "member" /\ asked'[q].step = "check"
                 /\ asked'[q].by \in Users /\ asked'[q].rank = ROLE_RANK[role[asked'[q].by]]
                 /\ UNCHANGED <<adminEnabled, contended>>
              \/ /\ asked'[q].op \in OrgOps \cup AdminOps
                 /\ asked'[q].step = IF asked'[q].op \in OrgOps THEN "load" ELSE "read"
                 /\ UnderWay(asked'[q].of) => asked'[q].of \in contended'
                 /\ asked'[q].op = "adminEnable" => asked'[q].of \in adminEnabled'
              \/ /\ asked'[q].op = "drip" /\ asked'[q].step = "send"
                 /\ UNCHANGED <<adminEnabled, contended>>
<1>1. ASSUME NEW by \in Users, NEW of \in Users, NEW as \in Settable, AskMember(q, by, of, as)
      PROVE  /\ asked[q].step = "unused" /\ UNCHANGED <<role, row, outdated, onbVars>>
             /\ \A p \in Requests : p # q => asked'[p] = asked[p]
             /\ asked'[q].op = "member" /\ asked'[q].step = "check"
             /\ asked'[q].by \in Users /\ asked'[q].rank = ROLE_RANK[role[asked'[q].by]]
             /\ UNCHANGED <<adminEnabled, contended>>
    <2> DEFINE r == [op |-> "member", by |-> by, rank |-> ROLE_RANK[role[by]], of |-> of,
                     as |-> as, step |-> "check"]
    <2>1. Made(q, r)
        BY <1>1, MakeMember
    <2>2. asked'[q] = r /\ \A p \in Requests : p # q => asked'[p] = asked[p]
        BY <2>1, NewAsked DEF Made
    <2>3. asked[q].step = "unused" /\ UNCHANGED <<role, row, outdated, onbVars, adminEnabled, contended>>
        BY <1>1 DEF AskMember, Unused, requestVars
    <2>4. QED
        BY <2>2, <2>3
<1>2. ASSUME NEW op \in OrgOps \cup AdminOps, NEW by, NEW of \in Subjects,
             AskAllowList(q, op, by, of)
      PROVE  /\ asked[q].step = "unused" /\ UNCHANGED <<role, row, outdated, onbVars>>
             /\ \A p \in Requests : p # q => asked'[p] = asked[p]
             /\ asked'[q].op \in OrgOps \cup AdminOps
             /\ asked'[q].step = IF asked'[q].op \in OrgOps THEN "load" ELSE "read"
             /\ UnderWay(asked'[q].of) => asked'[q].of \in contended'
             /\ asked'[q].op = "adminEnable" => asked'[q].of \in adminEnabled'
    <2>1. PICK r : /\ Made(q, r) /\ r.op = op /\ r.of = of
                   /\ r.step = IF op \in OrgOps THEN "load" ELSE "read"
        BY <1>2, MakeAllowList
    <2>2. asked'[q] = r /\ \A p \in Requests : p # q => asked'[p] = asked[p]
        BY <2>1, NewAsked DEF Made
    <2>3. /\ asked[q].step = "unused" /\ UNCHANGED <<role, row, outdated, onbVars>>
          /\ UnderWay(of) => of \in contended'
          /\ op = "adminEnable" => of \in adminEnabled'
        BY <1>2 DEF AskAllowList, Unused
    <2>4. QED
        BY <2>1, <2>2, <2>3
<1>3. ASSUME NEW of \in Subjects, AskDrip(q, of)
      PROVE  /\ asked[q].step = "unused" /\ UNCHANGED <<role, row, outdated, onbVars>>
             /\ \A p \in Requests : p # q => asked'[p] = asked[p]
             /\ asked'[q].op = "drip" /\ asked'[q].step = "send"
             /\ UNCHANGED <<adminEnabled, contended>>
    <2>1. PICK r : Made(q, r) /\ r.op = "drip" /\ r.of = of /\ r.step = "send"
        BY <1>3, MakeDrip
    <2>2. asked'[q] = r /\ \A p \in Requests : p # q => asked'[p] = asked[p]
        BY <2>1, NewAsked DEF Made
    <2>3. asked[q].step = "unused" /\ UNCHANGED <<role, row, outdated, onbVars, adminEnabled, contended>>
        BY <1>3 DEF AskDrip, Unused, requestVars
    <2>4. QED
        BY <2>1, <2>2, <2>3
<1>4. QED
    BY <1>1, <1>2, <1>3 DEF Asks

(* A transaction that is sent is the last one.                             *)
LEMMA SentLast ==
    ASSUME OnbTypes, AskedTypes, NEW q \in Requests, SendChange(q)
    PROVE  /\ asked[q].op \in DOMAIN SentFor /\ asked[q].step = "send" /\ asked'[q].step = "wait"
           /\ Len(mempool') = Len(mempool) + 1 /\ Len(mempool) \in Nat
           /\ mempool'[Len(mempool) + 1]
                = [do |-> SentFor[asked[q].op], to |-> asked[q].of, for |-> q]
           /\ \A i \in 1 .. Len(mempool) : mempool'[i] = mempool[i]
           /\ asked[q].of \in Users
<1>1. /\ asked[q].op \in DOMAIN SentFor /\ asked[q].of \in Users
      /\ mempool' = Append(mempool, [do |-> SentFor[asked[q].op], to |-> asked[q].of, for |-> q])
      /\ mempool \in Seq(Transaction)
    BY SendChangeType DEF OnbTypes, OnboardingTypeOK
<1>2. SentFor[asked[q].op] \in {"enable", "revoke", "drip"}
    BY <1>1 DEF SentFor
<1>3. [do |-> SentFor[asked[q].op], to |-> asked[q].of, for |-> q] \in Transaction
    BY <1>1, <1>2 DEF Transaction
<1>4. /\ Len(mempool') = Len(mempool) + 1 /\ Len(mempool) \in Nat
      /\ mempool'[Len(mempool) + 1]
           = [do |-> SentFor[asked[q].op], to |-> asked[q].of, for |-> q]
      /\ \A i \in 1 .. Len(mempool) : mempool'[i] = mempool[i]
    BY <1>1, <1>3, SeqSteps
<1>5. asked[q].step = "send" /\ asked'[q].step = "wait"
    <2>1. asked[q].step = "send" /\ asked' = [asked EXCEPT ![q].step = "wait"]
        BY DEF SendChange, Step
    <2>2. "wait" \in OpSteps[asked[q].op]
        BY <1>1 DEF SentFor, OpSteps
    <2>3. QED
        BY <2>1, <2>2, StepAsked
<1>6. QED
    BY <1>1, <1>4, <1>5

LEMMA MemberKycInv ==
    ASSUME OnbTypes, MembershipTypeOK, AskedTypes, KycInv, NEW q \in Requests, MemberStep(q)
    PROVE  KycInv'
<1>1. /\ UNCHANGED <<onboarding, kyc, level, handlerVars>> /\ adminEnabled \subseteq adminEnabled'
      /\ SendChange(q) \/ mempool' = mempool
    BY MemberFrame
<1>2. KycRows' /\ AllowlistedHasKyc'
    BY <1>1 DEF KycInv, KycRows, AllowlistedHasKyc, handlerVars
<1>3. KycSent'
    <2>1. CASE mempool' = mempool
        BY <1>1, <2>1 DEF KycInv, KycSent
    <2>2. CASE SendChange(q)
        <3>1. SentFor[asked[q].op] = "enable" => asked[q].op \in {"enable", "adminEnable"}
            <4>1. asked[q].op \in DOMAIN SentFor
                BY <2>2, SentLast
            <4>2. QED
                BY <4>1 DEF SentFor
        <3>2. InFlight(q) /\ asked[q].step # "load"
            BY <2>2, SentLast DEF InFlight
        <3>3. SentFor[asked[q].op] = "enable" => asked[q].of \in kyc \cup adminEnabled
            BY <3>1, <3>2 DEF KycInv, KycAsked
        <3>4. /\ Len(mempool') = Len(mempool) + 1 /\ Len(mempool) \in Nat
              /\ mempool'[Len(mempool) + 1].do = SentFor[asked[q].op]
              /\ mempool'[Len(mempool) + 1].to = asked[q].of
              /\ \A i \in 1 .. Len(mempool) : mempool'[i] = mempool[i]
            <4>1. mempool'[Len(mempool) + 1]
                    = [do |-> SentFor[asked[q].op], to |-> asked[q].of, for |-> q]
                BY <2>2, SentLast
            <4>2. /\ mempool'[Len(mempool) + 1].do = SentFor[asked[q].op]
                  /\ mempool'[Len(mempool) + 1].to = asked[q].of
                BY <4>1
            <4>3. QED
                BY <2>2, <4>2, SentLast
        <3>5. \A i \in 1 .. Len(mempool') : i \in 1 .. Len(mempool) \/ i = Len(mempool) + 1
            BY <3>4
        <3>6. KycSent
            BY DEF KycInv
        <3>7. QED
            BY <1>1, <3>3, <3>4, <3>5, <3>6 DEF KycSent
    <2>3. QED
        BY <1>1, <2>1, <2>2
<1>4. KycAsked'
    <2>1. CASE Asks(q)
        <3>1. /\ \A p \in Requests : p # q => asked'[p] = asked[p]
              /\ asked'[q].op = "adminEnable" => asked'[q].of \in adminEnabled'
              /\ asked'[q].op = "enable" => asked'[q].step = "load"
            BY <2>1, AsksAsked DEF OrgOps, AdminOps
        <3>2. QED
            BY <1>1, <3>1 DEF KycInv, KycAsked, InFlight
    <2>2. CASE Proceeds(q)
        <3>1. \A p \in Requests : /\ asked'[p].op = asked[p].op /\ asked'[p].of = asked[p].of
                                  /\ p # q => asked'[p] = asked[p]
            BY <2>2, ProceedsAsked
        <3>2. InFlight(q)
            BY <2>2 DEF Proceeds, CheckRank, WriteRole, LoadMember, RecordIntent, ReadAllowList,
               SendChange, RecordChange, Die, Step, InFlight
        <3>3. asked[q].op = "enable" /\ asked[q].step = "load" /\ InFlight(q)' =>
                asked[q].of \in kyc
            <4> SUFFICES ASSUME asked[q].op = "enable", asked[q].step = "load", InFlight(q)'
                         PROVE  asked[q].of \in kyc
                OBVIOUS
            <4>1. LoadMember(q)
                <5>1. ~Die(q)
                    <6>1. Die(q) => asked'[q].step = "done"
                        BY StepAsked, AskedFields DEF Die, OpSteps, AskedTypes, AskedType
                    <6>2. QED
                        BY <6>1 DEF InFlight
                <5>2. QED
                    BY <2>2, <5>1 DEF Proceeds, CheckRank, WriteRole, RecordIntent, ReadAllowList,
                       SendChange, RecordChange, Step
            <4>2. KycApproved(asked[q].of)
                <5>1. ~KycApproved(asked[q].of) => asked' = [asked EXCEPT ![q].step = "done"]
                    BY <4>1 DEF LoadMember, Step
                <5>2. "done" \in OpSteps[asked[q].op]
                    BY DEF OpSteps
                <5>3. ~KycApproved(asked[q].of) => asked'[q].step = "done"
                    BY <5>1, <5>2, StepAsked
                <5>4. QED
                    BY <5>3 DEF InFlight
            <4>3. QED
                BY <4>2 DEF KycApproved, KycInv, KycRows
        <3>4. QED
            BY <1>1, <3>1, <3>2, <3>3 DEF KycInv, KycAsked, InFlight
    <2>3. QED
        BY <2>1, <2>2, MemberCases
<1>5. QED
    BY <1>2, <1>3, <1>4 DEF KycInv

-----------------------------------------------------------------------------
(* Ranks.                                                                  *)

LEMMA OnboardRank ==
    ASSUME OnbTypes, AskedTypes, RankInv, Onboard
    PROVE  RankInv'
<1>1. UNCHANGED <<role, outdated>>
    BY OnboardEffect
<1>2. CASE asked' = asked
    BY <1>1, <1>2 DEF RankInv
<1>3. CASE /\ Mine
           /\ asked' = IF Answers(Head(mempool))
                       THEN [asked EXCEPT ![Head(mempool).for].step = "record"] ELSE asked
    <2>1. \A p \in Requests :
            /\ asked'[p].of = asked[p].of /\ asked'[p].by = asked[p].by
            /\ asked'[p].rank = asked[p].rank
            /\ asked'[p].step = asked[p].step \/ asked'[p].step = "record"
        BY <1>3, MinedAsked
    <2>2. QED
        BY <1>1, <2>1 DEF RankInv
<1>4. QED
    BY <1>2, <1>3, OnboardEffect

LEMMA MemberRank ==
    ASSUME OnbTypes, MembershipTypeOK, AskedTypes, RankInv, NEW q \in Requests, MemberStep(q)
    PROVE  RankInv'
<1>1. CASE Asks(q)
    <2>1. /\ UNCHANGED <<role, outdated>>
          /\ \A p \in Requests : p # q => asked'[p] = asked[p]
          /\ asked'[q].step # "write"
          /\ asked'[q].step = "check" => asked'[q].rank = ROLE_RANK[role[asked'[q].by]]
        BY <1>1, AsksAsked DEF OrgOps, AdminOps
    <2>2. QED
        BY <2>1 DEF RankInv
<1>2. CASE WriteRole(q)
    <2>1. /\ \A p \in Requests : p # q => asked'[p] = asked[p]
          /\ asked[q].op = "member" /\ asked[q].step = "write"
        BY <1>2, ProceedsAsked, StepsOfOps DEF Proceeds, WriteRole, Step
    <2>2. asked[q].of \in Users /\ asked[q].as \in Settable /\ asked'[q].step = "done"
        <3>1. "done" \in OpSteps[asked[q].op] /\ asked' = [asked EXCEPT ![q].step = "done"]
            BY <1>2, <2>1 DEF WriteRole, Step, OpSteps
        <3>2. asked'[q].step = "done"
            BY <3>1, StepAsked
        <3>3. QED
            BY <2>1, <3>2, AskedFields
    <2>3. \A u \in Users : role'[u] = IF u = asked[q].of THEN asked[q].as ELSE role[u]
        BY <1>2 DEF WriteRole, MembershipTypeOK
    <2>4. asked[q].as # "owner"
        BY <2>2 DEF Settable
    <2>5. ASSUME NEW p \in Requests, p # q, asked[p].step \in {"check", "write"}
          PROVE  /\ asked[p].of \in Users /\ asked[p].by \in Users
                 /\ p \notin outdated' => /\ p \notin outdated
                                         /\ asked[q].of # asked[p].of /\ asked[q].of # asked[p].by
        <3>1. asked[p].op = "member"
            BY <2>5, StepsOfOps
        <3>2. asked[p].of \in Users /\ asked[p].by \in Users
            BY <3>1, AskedFields
        <3>3. InFlight(p)
            BY <2>5 DEF InFlight
        <3>4. QED
            BY <1>2, <2>5, <3>2, <3>3 DEF WriteRole
    <2>6. ASSUME NEW p \in Requests
          PROVE  /\ asked'[p].step \in {"check", "write"} /\ p \notin outdated' =>
                       asked'[p].rank = ROLE_RANK[role'[asked'[p].by]]
                 /\ asked'[p].step = "write" =>
                    /\ role'[asked'[p].of] # "owner"
                    /\ p \notin outdated' => ROLE_RANK[role'[asked'[p].of]] < asked'[p].rank
        <3>1. CASE p = q
            BY <2>2, <3>1
        <3>2. CASE p # q
            BY <2>1, <2>3, <2>4, <2>5, <3>2 DEF RankInv
        <3>3. QED
            BY <3>1, <3>2
    <2>7. QED
        BY <2>6 DEF RankInv
<1>3. CASE CheckRank(q)
    <2>1. /\ UNCHANGED <<role, outdated>> /\ asked[q].step = "check" /\ asked[q].op = "member"
        BY <1>3, StepsOfOps DEF CheckRank, Step, requestVars
    <2>2. /\ \A p \in Requests : /\ asked'[p].of = asked[p].of /\ asked'[p].by = asked[p].by
                                 /\ asked'[p].rank = asked[p].rank
                                 /\ p # q => asked'[p] = asked[p]
        BY <1>3, ProceedsAsked DEF Proceeds
    <2>3. asked'[q].step = IF Outranks(q) THEN "write" ELSE "done"
        <3>1. (IF Outranks(q) THEN "write" ELSE "done") \in OpSteps[asked[q].op]
            BY <2>1 DEF OpSteps
        <3>2. asked' = [asked EXCEPT ![q].step = IF Outranks(q) THEN "write" ELSE "done"]
            BY <1>3 DEF CheckRank, Step
        <3>3. CASE Outranks(q)
            <4>1. "write" \in OpSteps[asked[q].op] /\ asked' = [asked EXCEPT ![q].step = "write"]
                BY <3>1, <3>2, <3>3
            <4>2. asked'[q].step = "write"
                BY <4>1, StepAsked
            <4>3. QED
                BY <3>3, <4>2
        <3>4. CASE ~Outranks(q)
            <4>1. "done" \in OpSteps[asked[q].op] /\ asked' = [asked EXCEPT ![q].step = "done"]
                BY <3>1, <3>2, <3>4
            <4>2. asked'[q].step = "done"
                BY <4>1, StepAsked
            <4>3. QED
                BY <3>4, <4>2
        <3>5. QED
            BY <3>3, <3>4
    <2>4. Outranks(q) => role[asked[q].of] # "owner" /\ ROLE_RANK[role[asked[q].of]] < asked[q].rank
        <3>1. asked[q].rank \in -1 .. 3 /\ asked[q].of \in Users
            BY <2>1, AskedFields
        <3>2. QED
            BY <3>1, RankType DEF Outranks
    <2>5. QED
        BY <2>1, <2>2, <2>3, <2>4 DEF RankInv
<1>4. CASE Proceeds(q) /\ ~WriteRole(q) /\ ~CheckRank(q)
    <2>1. UNCHANGED <<role, outdated>>
        BY <1>4, MemberFrame
    <2>2. /\ \A p \in Requests : p # q => asked'[p] = asked[p]
          /\ asked'[q].step \in OpSteps[asked[q].op]
          /\ asked' = [asked EXCEPT ![q].step = asked'[q].step]
        BY <1>4, ProceedsAsked
    <2>3. asked'[q].step \notin {"check", "write"}
        <3>1. CASE Die(q)
            BY <3>1, <2>2 DEF Die, AskedTypes
        <3>2. CASE ~Die(q)
            <4>1. asked[q].step \in {"load", "intent", "read", "send", "record"}
                BY <1>4, <3>2 DEF Proceeds, LoadMember, RecordIntent, ReadAllowList, SendChange,
                   RecordChange, Step
            <4>2. asked[q].op # "member"
                BY <4>1, AskedFields DEF OpSteps
            <4>3. QED
                BY <2>2, <4>2, AskedFields DEF OpSteps
        <3>3. QED
            BY <3>1, <3>2
    <2>4. QED
        BY <2>1, <2>2, <2>3 DEF RankInv
<1>5. QED
    BY <1>1, <1>2, <1>3, <1>4, MemberCases

-----------------------------------------------------------------------------
(* The organisation's list.                                                *)

LEMMA StepTo ==
    ASSUME AskedTypes, NEW q \in Requests, NEW to, asked' = [asked EXCEPT ![q].step = to]
    PROVE  asked'[q].step = to
BY DEF AskedTypes, AskedType

LEMMA ProceedSteps ==
    ASSUME AskedTypes, NEW q \in Requests
    PROVE  /\ CheckRank(q) => asked[q].step = "check" /\ asked'[q].step \in {"write", "done"}
           /\ WriteRole(q) => asked[q].step = "write" /\ asked'[q].step = "done"
           /\ LoadMember(q) => asked[q].step = "load" /\ asked'[q].step \in {"intent", "done"}
           /\ RecordIntent(q) => asked[q].step = "intent" /\ asked'[q].step = "read"
           /\ ReadAllowList(q) => asked[q].step = "read" /\ asked'[q].step \in {"record", "send"}
           /\ SendChange(q) => asked[q].step = "send" /\ asked'[q].step = "wait"
           /\ RecordChange(q) => asked[q].step = "record" /\ asked'[q].step = "done"
           /\ Die(q) => InFlight(q) /\ asked'[q].step = "done"
<1>1. ASSUME NEW from, NEW to, Step(q, from, to) PROVE asked[q].step = from /\ asked'[q].step = to
    BY <1>1, StepTo DEF Step
<1>2. Die(q) => InFlight(q) /\ asked'[q].step = "done"
    BY StepTo DEF Die
<1>3. CheckRank(q) => asked[q].step = "check" /\ asked'[q].step \in {"write", "done"}
    <2>1. CASE Outranks(q)
        BY <1>1, <2>1 DEF CheckRank
    <2>2. CASE ~Outranks(q)
        BY <1>1, <2>2 DEF CheckRank
    <2>3. QED
        BY <2>1, <2>2
<1>4. LoadMember(q) => asked[q].step = "load" /\ asked'[q].step \in {"intent", "done"}
    <2> DEFINE allowed == /\ role[asked[q].of] # "none"
                          /\ asked[q].op = "enable" => KycApproved(asked[q].of)
    <2>1. LoadMember(q) => Step(q, "load", IF allowed THEN "intent" ELSE "done")
        BY DEF LoadMember
    <2>2. QED
        BY <1>1, <2>1
<1>5. ReadAllowList(q) => asked[q].step = "read" /\ asked'[q].step \in {"record", "send"}
    <2> DEFINE already == (asked[q].of \in level) = (SentFor[asked[q].op] = "enable")
    <2>1. ReadAllowList(q) => Step(q, "read", IF already THEN "record" ELSE "send")
        BY DEF ReadAllowList
    <2>2. QED
        BY <1>1, <2>1
<1>6. QED
    BY <1>1, <1>2, <1>3, <1>4, <1>5 DEF WriteRole, RecordIntent, SendChange, RecordChange

LEMMA OnboardSent ==
    ASSUME OnbTypes, AskedTypes, SentOnce, Onboard
    PROVE  SentOnce'
<1>1. CASE /\ Mine
           /\ asked' = IF Answers(Head(mempool))
                       THEN [asked EXCEPT ![Head(mempool).for].step = "record"] ELSE asked
    <2>1. \A i \in 1 .. Len(mempool') : /\ mempool'[i] = mempool[i + 1]
                                        /\ i + 1 \in 1 .. Len(mempool) /\ i + 1 # 1
        BY <1>1, MinedTx
    <2>2. ASSUME NEW i \in 1 .. Len(mempool'), mempool'[i].for # Nobody
          PROVE  /\ mempool[i + 1].for \in Requests
                 /\ asked'[mempool'[i].for].op = asked[mempool[i + 1].for].op
                 /\ asked'[mempool'[i].for].of = asked[mempool[i + 1].for].of
                 /\ asked'[mempool'[i].for].step = asked[mempool[i + 1].for].step
        <3>1. mempool[i + 1].for # Head(mempool).for
            BY <1>1, <2>1, <2>2, MinedTx DEF SentOnce
        <3>2. mempool \in Seq(Transaction) /\ i + 1 \in 1 .. Len(mempool)
            BY <2>1 DEF OnbTypes, OnboardingTypeOK
        <3>3. mempool[i + 1] \in Transaction
            BY <3>2
        <3>4. mempool[i + 1].for \in Requests
            BY <2>1, <2>2, <3>3 DEF Transaction
        <3>5. QED
            BY <1>1, <2>1, <3>1, <3>4, MinedAsked
    <2>3. SentAsAsked'
        BY <2>1, <2>2 DEF SentOnce, SentAsAsked
    <2>4. ASSUME NEW i \in 1 .. Len(mempool'), NEW j \in 1 .. Len(mempool'),
                 mempool'[i].for # Nobody, mempool'[i].for = mempool'[j].for
          PROVE  i = j
        <3>1. i + 1 = j + 1
            BY <2>1, <2>4 DEF SentOnce
        <3>2. QED
            BY <3>1
    <2>5. QED
        BY <2>3, <2>4 DEF SentOnce
<1>2. CASE asked' = asked /\ mempool' = mempool
    BY <1>2 DEF SentOnce, SentAsAsked
<1>3. ASSUME asked' = asked, NEW w \in Handlers, NEW kind \in {"enable", "drip"},
             user[w] \in Newcomers,
             mempool' = Append(mempool, [do |-> kind, to |-> user[w], for |-> Nobody])
      PROVE  SentOnce'
    <2>1. mempool \in Seq(Transaction) /\ [do |-> kind, to |-> user[w], for |-> Nobody] \in Transaction
        BY <1>3, OnboardingAssumption DEF OnbTypes, OnboardingTypeOK, Transaction
    <2>2. /\ Len(mempool') = Len(mempool) + 1 /\ Len(mempool) \in Nat
          /\ mempool'[Len(mempool) + 1] = [do |-> kind, to |-> user[w], for |-> Nobody]
          /\ \A i \in 1 .. Len(mempool) : mempool'[i] = mempool[i]
        BY <1>3, <2>1, SeqSteps
    <2>3. \A i \in 1 .. Len(mempool') :
            mempool'[i].for # Nobody => i \in 1 .. Len(mempool) /\ mempool'[i] = mempool[i]
        BY <2>2
    <2>4. SentAsAsked'
        BY <1>3, <2>3 DEF SentOnce, SentAsAsked
    <2>5. QED
        BY <2>3, <2>4 DEF SentOnce
<1>4. QED
    BY <1>1, <1>2, <1>3, OnboardEffect

(* The transactions on the way are of requests that wait or are over, so   *)
(* that a request's steps do not change what they say.                     *)
LEMMA SentElsewhere ==
    ASSUME OnbTypes, MembershipTypeOK, AskedTypes, SentOnce, NEW q \in Requests, MemberStep(q),
           NEW i \in 1 .. Len(mempool), mempool[i].for # Nobody
    PROVE  /\ mempool[i].for \in Requests
           /\ asked'[mempool[i].for].op = asked[mempool[i].for].op
           /\ asked'[mempool[i].for].of = asked[mempool[i].for].of
           /\ asked'[mempool[i].for].step \in {"wait", "done"}
           /\ ~Die(q) => mempool[i].for # q
<1>1. mempool[i].for \in Requests
    <2>1. mempool[i] \in Transaction
        BY DEF OnbTypes, OnboardingTypeOK
    <2>2. QED
        BY <2>1 DEF Transaction
<1>2. asked[mempool[i].for].step \in {"wait", "done"}
    BY DEF SentOnce, SentAsAsked
<1>3. CASE Asks(q)
    <2>1. asked[q].step = "unused" /\ \A p \in Requests : p # q => asked'[p] = asked[p]
        BY <1>3, AsksAsked
    <2>2. QED
        BY <1>1, <1>2, <2>1
<1>4. CASE Proceeds(q)
    <2>1. \A p \in Requests : /\ asked'[p].op = asked[p].op /\ asked'[p].of = asked[p].of
                              /\ p # q => asked'[p] = asked[p]
        BY <1>4, ProceedsAsked
    <2>2. CASE Die(q)
        BY <1>1, <1>2, <2>1, <2>2, ProceedSteps
    <2>3. CASE ~Die(q)
        <3>1. asked[q].step \notin {"wait", "done"}
            BY <1>4, <2>3, ProceedSteps DEF Proceeds
        <3>2. QED
            BY <1>1, <1>2, <2>1, <3>1
    <2>4. QED
        BY <2>2, <2>3
<1>5. QED
    BY <1>3, <1>4, MemberCases

LEMMA MemberSent ==
    ASSUME OnbTypes, MembershipTypeOK, AskedTypes, SentOnce, NEW q \in Requests, MemberStep(q)
    PROVE  SentOnce'
<1>1. CASE mempool' = mempool
    <2>1. SentAsAsked'
        BY <1>1, SentElsewhere DEF SentOnce, SentAsAsked
    <2>2. QED
        BY <1>1, <2>1 DEF SentOnce
<1>2. CASE SendChange(q)
    <2>1. /\ asked[q].op \in DOMAIN SentFor /\ asked'[q].step = "wait"
          /\ Len(mempool') = Len(mempool) + 1 /\ Len(mempool) \in Nat
          /\ mempool'[Len(mempool) + 1]
               = [do |-> SentFor[asked[q].op], to |-> asked[q].of, for |-> q]
          /\ \A i \in 1 .. Len(mempool) : mempool'[i] = mempool[i]
        BY <1>2, SentLast
    <2>2. asked'[q].op = asked[q].op /\ asked'[q].of = asked[q].of
        BY <1>2, ProceedsAsked DEF Proceeds
    <2>3. ~Die(q)
        BY <1>2, ProceedSteps
    <2>4. \A i \in 1 .. Len(mempool) : mempool[i].for # Nobody => mempool[i].for # q
        BY <2>3, SentElsewhere
    <2>5. ASSUME NEW i \in 1 .. Len(mempool'), mempool'[i].for # Nobody
          PROVE  LET tx == mempool'[i] IN
                 /\ asked'[tx.for].op \in DOMAIN SentFor
                 /\ tx.do = SentFor[asked'[tx.for].op] /\ tx.to = asked'[tx.for].of
                 /\ asked'[tx.for].step \in {"wait", "done"}
        <3>1. CASE i = Len(mempool) + 1
            BY <2>1, <2>2, <3>1
        <3>2. CASE i # Len(mempool) + 1
            <4>1. i \in 1 .. Len(mempool) /\ mempool'[i] = mempool[i] /\ mempool[i].for # Nobody
                BY <2>1, <2>5, <3>2
            <4>2. /\ asked[mempool[i].for].op \in DOMAIN SentFor
                  /\ mempool[i].do = SentFor[asked[mempool[i].for].op]
                  /\ mempool[i].to = asked[mempool[i].for].of
                BY <4>1 DEF SentOnce, SentAsAsked
            <4>3. QED
                BY <4>1, <4>2, SentElsewhere
        <3>3. QED
            BY <3>1, <3>2
    <2>6. ASSUME NEW i \in 1 .. Len(mempool'), NEW j \in 1 .. Len(mempool'),
                 mempool'[i].for # Nobody, mempool'[i].for = mempool'[j].for
          PROVE  i = j
        <3>1. i = Len(mempool) + 1 \/ (i \in 1 .. Len(mempool) /\ mempool'[i] = mempool[i])
            BY <2>1
        <3>2. j = Len(mempool) + 1 \/ (j \in 1 .. Len(mempool) /\ mempool'[j] = mempool[j])
            BY <2>1
        <3>3. mempool'[Len(mempool) + 1].for = q
            BY <2>1
        <3>4. QED
            BY <2>4, <2>6, <3>1, <3>2, <3>3 DEF SentOnce
    <2>7. QED
        BY <2>5, <2>6 DEF SentOnce, SentAsAsked
<1>3. QED
    BY <1>1, <1>2, MemberFrame

(* A step that leaves the chain and the user's row alone, and brings no    *)
(* request about the user to where it counts on them.                      *)
LEMMA RowKept ==
    ASSUME NEW u \in Users, RowInv(u), level' = level, mempool' = mempool, row'[u] = row[u],
           \A i \in 1 .. Len(mempool) : OrgTx(i, u)' => OrgTx(i, u),
           \A q \in Requests : About(q, u)' =>
               /\ About(q, u)
               /\ asked'[q].op \in OrgOps =>
                   /\ asked[q].op \in OrgOps
                   /\ asked'[q].step \in {"read", "send", "wait", "record"} =>
                          asked[q].step \in {"read", "send", "wait", "record"}
                   /\ asked'[q].step = "record" =>
                          asked[q].step = "record" /\ asked'[q].op = asked[q].op
    PROVE  RowInv(u)'
<1>1. OneRequest(u)'
    BY DEF RowInv, OneRequest
<1>2. OrgSent(u)'
    BY DEF RowInv, OrgSent
<1>3. OrgAsked(u)'
    BY DEF RowInv, OrgAsked
<1>4. RowTrue(u)'
    BY DEF RowInv, RowTrue
<1>5. QED
    BY <1>1, <1>2, <1>3, <1>4 DEF RowInv

LEMMA MemberOrgTx ==
    ASSUME OnbTypes, MembershipTypeOK, AskedTypes, SentOnce, NEW q \in Requests, MemberStep(q),
           NEW u \in Users, NEW i \in 1 .. Len(mempool), mempool'[i] = mempool[i]
    PROVE  OrgTx(i, u)' <=> OrgTx(i, u)
BY SentElsewhere DEF OrgTx

LEMMA AsksRow ==
    ASSUME OnbTypes, MembershipTypeOK, AskedTypes, SentOnce, NEW q \in Requests, MemberStep(q),
           Asks(q), NEW u \in Users, u \notin contended', RowInv(u)
    PROVE  RowInv(u)'
<1>1. /\ asked[q].step = "unused" /\ UNCHANGED <<row, level, mempool>>
      /\ \A p \in Requests : p # q => asked'[p] = asked[p]
    BY AsksAsked DEF onbVars, onbChainVars
<1>2. \A i \in 1 .. Len(mempool) : OrgTx(i, u)' <=> OrgTx(i, u)
    BY <1>1, MemberOrgTx
<1>3. \A p \in Requests : p # q => (About(p, u)' <=> About(p, u))
    BY <1>1 DEF About, OnAllowList, InFlight
<1>4. CASE ~About(q, u)'
    <2>1. \A p \in Requests : About(p, u)' => p # q /\ About(p, u) /\ asked'[p] = asked[p]
        BY <1>1, <1>3, <1>4
    <2>2. QED
        BY <1>1, <1>2, <2>1, RowKept
<1>5. CASE About(q, u)'
    <2>1. asked'[q].op \in OrgOps \cup AdminOps /\ asked'[q].of = u
        BY <1>5 DEF About, OnAllowList
    <2>2. /\ UnderWay(u) => u \in contended'
          /\ asked'[q].op \in OrgOps => asked'[q].step = "load"
        BY <2>1, AsksAsked DEF OrgOps, AdminOps
    <2>3. ~UnderWay(u)
        BY <2>2
    <2>4. \A p \in Requests : ~About(p, u)
        BY <2>3 DEF UnderWay, About
    <2>5. \A i \in 1 .. Len(mempool) : ~OrgTx(i, u)
        <3> SUFFICES ASSUME NEW i \in 1 .. Len(mempool), OrgTx(i, u) PROVE FALSE
            OBVIOUS
        <3>1. mempool[i].do = SentFor[asked[mempool[i].for].op]
              /\ asked[mempool[i].for].op \in {"enable", "revoke"}
            BY DEF OrgTx, OrgOps, SentOnce, SentAsAsked
        <3>2. mempool[i].do # "drip"
            BY <3>1 DEF SentFor
        <3>3. QED
            BY <2>3, <3>2 DEF UnderWay, OrgTx
    <2>6. \A p \in Requests : About(p, u)' => p = q
        BY <1>3, <2>4
    <2>7. OneRequest(u)'
        BY <2>6 DEF OneRequest
    <2>8. OrgSent(u)'
        BY <1>1, <1>2, <2>5 DEF OrgSent
    <2>9. OrgAsked(u)'
        BY <2>2, <2>6 DEF OrgAsked
    <2>10. RowTrue(u)'
        BY <1>1 DEF RowInv, RowTrue
    <2>11. QED
        BY <2>7, <2>8, <2>9, <2>10 DEF RowInv
<1>6. QED
    BY <1>4, <1>5

LEMMA ProceedsRow ==
    ASSUME OnbTypes, MembershipTypeOK, AskedTypes, SentOnce, NEW q \in Requests, MemberStep(q),
           Proceeds(q), NEW u \in Users, RowInv(u)
    PROVE  RowInv(u)'
<1>1. /\ level' = level
      /\ \A p \in Requests : /\ asked'[p].op = asked[p].op /\ asked'[p].of = asked[p].of
                             /\ p # q => asked'[p] = asked[p]
    BY ProceedsAsked, MemberFrame
<1>2. InFlight(q)
    BY ProceedSteps DEF Proceeds, InFlight
<1>3. \A p \in Requests : About(p, u)' => About(p, u)
    BY <1>1, <1>2 DEF About, OnAllowList, InFlight
<1>4. ASSUME NEW i \in 1 .. Len(mempool), mempool'[i] = mempool[i]
      PROVE  OrgTx(i, u)' <=> OrgTx(i, u)
    BY <1>4, MemberOrgTx
<1>5. CASE CheckRank(q) \/ WriteRole(q) \/ LoadMember(q) \/ Die(q)
    <2>1. mempool' = mempool /\ row' = row
        BY <1>5 DEF CheckRank, WriteRole, LoadMember, Die, requestVars, onbVars, onbChainVars
    <2>2. asked'[q].step \notin {"read", "send", "wait", "record"}
        BY <1>5, ProceedSteps
    <2>3. QED
        BY <1>1, <1>3, <1>4, <2>1, <2>2, RowKept
<1>6. CASE RecordIntent(q)
    <2>1. mempool' = mempool /\ row' = [row EXCEPT ![asked[q].of] = "pending"]
        BY <1>6, ProceedSteps, MemberFrame DEF RecordIntent, PendingIntent
    <2>2. asked[q].step = "intent" /\ asked'[q].step = "read"
        BY <1>6, ProceedSteps
    <2>3. CASE u = asked[q].of
        <3>1. row'[u] = "pending"
            BY <2>1, <2>3 DEF MembershipTypeOK
        <3>2. OneRequest(u)'
            BY <1>3 DEF RowInv, OneRequest
        <3>3. OrgSent(u)'
            BY <1>3, <1>4, <2>1, <3>1 DEF RowInv, OrgSent
        <3>4. OrgAsked(u)'
            BY <1>1, <1>3, <2>2, <3>1 DEF RowInv, OrgAsked
        <3>5. RowTrue(u)'
            BY <3>1 DEF RowTrue
        <3>6. QED
            BY <3>2, <3>3, <3>4, <3>5 DEF RowInv
    <2>4. CASE u # asked[q].of
        <3>1. row'[u] = row[u] /\ ~About(q, u)
            BY <2>1, <2>4 DEF MembershipTypeOK, About
        <3>2. QED
            BY <1>1, <1>3, <1>4, <2>1, <3>1, RowKept
    <2>5. QED
        BY <2>3, <2>4
<1>7. CASE ReadAllowList(q)
    <2>1. mempool' = mempool /\ row' = row
        BY <1>7, ProceedSteps, MemberFrame DEF ReadAllowList, requestVars, onbVars, onbChainVars
    <2>2. asked[q].step = "read"
        BY <1>7, ProceedSteps
    <2>3. ASSUME asked[q].op \in OrgOps, asked'[q].step = "record", asked[q].of = u
          PROVE  u \in level <=> asked[q].op = "enable"
        <3> DEFINE already == (asked[q].of \in level) = (SentFor[asked[q].op] = "enable")
        <3>1. Step(q, "read", IF already THEN "record" ELSE "send")
            BY <1>7 DEF ReadAllowList
        <3>2. already
            <4>1. ~already => asked' = [asked EXCEPT ![q].step = "send"]
                BY <3>1 DEF Step
            <4>2. ~already => asked'[q].step = "send"
                BY <4>1, StepTo
            <4>3. QED
                BY <2>3, <4>2
        <3>3. SentFor[asked[q].op] = asked[q].op
            BY <2>3 DEF OrgOps, SentFor
        <3>4. QED
            BY <2>3, <3>2, <3>3
    <2>4. OneRequest(u)'
        BY <1>3 DEF RowInv, OneRequest
    <2>5. OrgSent(u)'
        BY <1>3, <1>4, <2>1 DEF RowInv, OrgSent
    <2>6. OrgAsked(u)'
        BY <1>1, <1>3, <2>1, <2>2, <2>3 DEF RowInv, OrgAsked, About
    <2>7. RowTrue(u)'
        BY <1>1, <2>1 DEF RowInv, RowTrue
    <2>8. QED
        BY <2>4, <2>5, <2>6, <2>7 DEF RowInv
<1>8. CASE SendChange(q)
    <2>1. /\ asked[q].op \in DOMAIN SentFor /\ asked[q].step = "send" /\ asked'[q].step = "wait"
          /\ Len(mempool') = Len(mempool) + 1 /\ Len(mempool) \in Nat
          /\ \A i \in 1 .. Len(mempool) : mempool'[i] = mempool[i]
        BY <1>8, SentLast
    <2>2. mempool'[Len(mempool) + 1].for = q /\ mempool'[Len(mempool) + 1].to = asked[q].of
        <3>1. mempool'[Len(mempool) + 1]
                = [do |-> SentFor[asked[q].op], to |-> asked[q].of, for |-> q]
            BY <1>8, SentLast
        <3>2. QED
            BY <3>1
    <2>3. row' = row
        BY <1>8, ProceedSteps, MemberFrame DEF SendChange, requestVars
    <2>4. \A i \in 1 .. Len(mempool) : OrgTx(i, u) => mempool[i].for # q
        BY <1>8, ProceedSteps, SentElsewhere DEF OrgTx
    <2>5. OneRequest(u)'
        BY <1>3 DEF RowInv, OneRequest
    <2>6. OrgAsked(u)'
        BY <1>1, <1>3, <2>1, <2>3 DEF RowInv, OrgAsked
    <2>7. RowTrue(u)'
        BY <1>1, <2>3 DEF RowInv, RowTrue
    <2>8. OrgSent(u)'
        <3> PICK last : last = Len(mempool) + 1
            OBVIOUS
        <3>1. CASE OrgTx(last, u)'
            <4>1. asked[q].op \in OrgOps /\ asked[q].of = u
                BY <1>1, <2>2, <3>1 DEF OrgTx
            <4>2. About(q, u)
                BY <1>2, <4>1 DEF About, OnAllowList
            <4>3. row[u] = "pending"
                BY <2>1, <4>1, <4>2 DEF RowInv, OrgAsked
            <4>4. \A i \in 1 .. Len(mempool) : ~OrgTx(i, u)
                BY <2>4, <4>2 DEF RowInv, OrgSent
            <4>5. \A i \in 1 .. Len(mempool') : OrgTx(i, u)' => i = last
                BY <1>4, <2>1, <4>4
            <4>6. \A p \in Requests : About(p, u)' => p = q
                BY <1>3, <4>2 DEF RowInv, OneRequest
            <4>7. QED
                BY <2>2, <2>3, <4>3, <4>5, <4>6 DEF OrgSent
        <3>2. CASE ~OrgTx(last, u)'
            <4>1. \A i \in 1 .. Len(mempool') : OrgTx(i, u)' => i \in 1 .. Len(mempool) /\ OrgTx(i, u)
                BY <1>4, <2>1, <3>2
            <4>2. QED
                BY <1>3, <2>1, <2>3, <4>1 DEF RowInv, OrgSent
        <3>3. QED
            BY <3>1, <3>2
    <2>9. QED
        BY <2>5, <2>6, <2>7, <2>8 DEF RowInv
<1>9. CASE RecordChange(q)
    <2>1. asked[q].step = "record" /\ asked'[q].step = "done"
        BY <1>9, ProceedSteps
    <2>2. mempool' = mempool
        BY <1>9 DEF RecordChange, onbChainVars
    <2>3. CASE asked[q].op \in OrgOps /\ asked[q].of = u
        <3>1. About(q, u)
            BY <1>2, <2>3 DEF About, OnAllowList
        <3>2. row'[u] = StatusAfter(asked[q].op) /\ (u \in level <=> asked[q].op = "enable")
            BY <1>9, <2>1, <2>3, <3>1 DEF RecordChange, RowInv, OrgAsked, MembershipTypeOK
        <3>3. \A p \in Requests : ~About(p, u)'
            BY <1>3, <2>1, <3>1 DEF RowInv, OneRequest, About, OnAllowList, InFlight
        <3>4. \A i \in 1 .. Len(mempool) : ~OrgTx(i, u)
            <4> SUFFICES ASSUME NEW i \in 1 .. Len(mempool), OrgTx(i, u) PROVE FALSE
                OBVIOUS
            <4>1. mempool[i].for = q
                BY <3>1 DEF RowInv, OrgSent
            <4>2. asked[q].step \in {"wait", "done"}
                BY <4>1 DEF OrgTx, SentOnce, SentAsAsked
            <4>3. QED
                BY <2>1, <4>2
        <3>5. OrgSent(u)'
            BY <1>4, <2>2, <3>4 DEF OrgSent
        <3>6. OneRequest(u)' /\ OrgAsked(u)'
            BY <3>3 DEF OneRequest, OrgAsked
        <3>7. RowTrue(u)'
            BY <1>1, <2>3, <3>2 DEF RowTrue, StatusAfter, OrgOps
        <3>8. QED
            BY <3>5, <3>6, <3>7 DEF RowInv
    <2>4. CASE ~(asked[q].op \in OrgOps /\ asked[q].of = u)
        <3>1. row'[u] = row[u]
            BY <1>9, <2>4 DEF RecordChange, MembershipTypeOK
        <3>2. \A p \in Requests : About(p, u)' => About(p, u) /\ p # q
            BY <1>3, <2>1 DEF About, OnAllowList, InFlight
        <3>3. QED
            BY <1>1, <1>4, <2>2, <3>1, <3>2, RowKept
    <2>5. QED
        BY <2>3, <2>4
<1>10. QED
    BY <1>5, <1>6, <1>7, <1>8, <1>9 DEF Proceeds

LEMMA OnboardRow ==
    ASSUME OnbTypes, AskedTypes, SentOnce, Onboard, NEW u \in Users, u \notin contended', RowInv(u)
    PROVE  RowInv(u)'
<1>1. row' = row
    BY OnboardEffect
<1>2. CASE asked' = asked /\ level' = level /\ mempool' = mempool
    BY <1>1, <1>2, RowKept DEF OrgTx, About, OnAllowList, InFlight
<1>3. ASSUME asked' = asked, level' = level, NEW w \in Handlers, NEW kind \in {"enable", "drip"},
             user[w] \in Newcomers,
             mempool' = Append(mempool, [do |-> kind, to |-> user[w], for |-> Nobody])
      PROVE  RowInv(u)'
    <2>1. mempool \in Seq(Transaction) /\ [do |-> kind, to |-> user[w], for |-> Nobody] \in Transaction
        BY <1>3, OnboardingAssumption DEF OnbTypes, OnboardingTypeOK, Transaction
    <2>2. /\ Len(mempool') = Len(mempool) + 1 /\ Len(mempool) \in Nat
          /\ mempool'[Len(mempool) + 1].for = Nobody
          /\ \A i \in 1 .. Len(mempool) : mempool'[i] = mempool[i]
        <3>1. mempool'[Len(mempool) + 1] = [do |-> kind, to |-> user[w], for |-> Nobody]
            BY <1>3, <2>1, SeqSteps
        <3>2. mempool'[Len(mempool) + 1].for = Nobody
            BY <3>1
        <3>3. QED
            BY <1>3, <2>1, <3>2, SeqSteps
    <2>3. \A i \in 1 .. Len(mempool') : OrgTx(i, u)' =>
            i \in 1 .. Len(mempool) /\ OrgTx(i, u) /\ mempool'[i] = mempool[i]
        BY <1>3, <2>2 DEF OrgTx
    <2>4. \A p \in Requests : About(p, u)' <=> About(p, u)
        BY <1>3 DEF About, OnAllowList, InFlight
    <2>5. OrgSent(u)'
        BY <1>1, <2>3, <2>4 DEF RowInv, OrgSent
    <2>6. OneRequest(u)' /\ OrgAsked(u)' /\ RowTrue(u)'
        BY <1>1, <1>3, <2>4 DEF RowInv, OneRequest, OrgAsked, RowTrue
    <2>7. QED
        BY <2>5, <2>6 DEF RowInv
<1>4. CASE /\ Mine
           /\ asked' = IF Answers(Head(mempool))
                       THEN [asked EXCEPT ![Head(mempool).for].step = "record"] ELSE asked
           /\ \/ ByOrg(Head(mempool))
              \/ \A v \in Users \ contended' :
                  \/ v \in level' <=> v \in level
                  \/ row[v] = "none" /\ OnlyMined(v, Head(mempool))
    <2> DEFINE tx == Head(mempool)
    <2>1. /\ tx = mempool[1] /\ 1 \in 1 .. Len(mempool)
          /\ tx.for \in Requests \cup {Nobody}
          /\ \A i \in 1 .. Len(mempool') : /\ mempool'[i] = mempool[i + 1]
                                           /\ i + 1 \in 1 .. Len(mempool) /\ i + 1 # 1
          /\ \A v \in Users : v # tx.to => (v \in level' <=> v \in level)
          /\ tx.do = "enable" => level' = level \cup {tx.to}
          /\ tx.do = "revoke" => level' = level \ {tx.to}
        BY <1>4, MinedTx
    <2>2. \A p \in Requests :
               /\ asked'[p].op = asked[p].op /\ asked'[p].of = asked[p].of
               /\ \/ asked'[p].step = asked[p].step
                  \/ p = tx.for /\ asked[p].step = "wait" /\ asked'[p].step = "record"
               /\ p = tx.for => asked'[p].step # "wait"
        BY <1>4, MinedAsked
    <2>3. \A p \in Requests : About(p, u)' <=> About(p, u)
        BY <2>2 DEF About, OnAllowList, InFlight
    <2>4. \A i \in 1 .. Len(mempool') : mempool'[i].for # Nobody => mempool'[i].for \in Requests
        <3> SUFFICES ASSUME NEW i \in 1 .. Len(mempool') , mempool'[i].for # Nobody
                     PROVE  mempool'[i].for \in Requests
            OBVIOUS
        <3>1. mempool[i + 1] \in Transaction
            BY <2>1 DEF OnbTypes, OnboardingTypeOK
        <3>2. QED
            BY <2>1, <3>1 DEF Transaction
    <2>5. \A i \in 1 .. Len(mempool') : OrgTx(i, u)' => OrgTx(i + 1, u)
        BY <2>1, <2>2, <2>4 DEF OrgTx
    <2>6. OneRequest(u)'
        BY <2>3 DEF RowInv, OneRequest
    <2>7. OrgSent(u)'
        <3> SUFFICES ASSUME NEW i \in 1 .. Len(mempool'), OrgTx(i, u)'
                     PROVE  /\ row'[u] = "pending"
                            /\ \A p \in Requests : About(p, u)' => p = mempool'[i].for
                            /\ \A j \in 1 .. Len(mempool') : OrgTx(j, u)' => j = i
            BY DEF OrgSent
        <3>1. OrgTx(i + 1, u) /\ i + 1 \in 1 .. Len(mempool) /\ mempool'[i] = mempool[i + 1]
            BY <2>1, <2>5
        <3>2. /\ row[u] = "pending"
              /\ \A p \in Requests : About(p, u) => p = mempool[i + 1].for
            BY <3>1 DEF RowInv, OrgSent
        <3>3. ASSUME NEW j \in 1 .. Len(mempool'), OrgTx(j, u)' PROVE j = i
            <4>1. OrgTx(j + 1, u) /\ j + 1 \in 1 .. Len(mempool)
                BY <2>1, <2>5, <3>3
            <4>2. j + 1 = i + 1
                BY <3>1, <4>1 DEF RowInv, OrgSent
            <4>3. QED
                BY <4>2
        <3>4. QED
            BY <1>1, <2>3, <3>1, <3>2, <3>3
    <2>8. CASE OrgTx(1, u)
        <3>1. /\ row[u] = "pending"
              /\ \A p \in Requests : About(p, u) => p = tx.for
            BY <2>1, <2>8 DEF RowInv, OrgSent
        <3>2. /\ tx.for # Nobody /\ tx.for \in Requests /\ asked[tx.for].op \in OrgOps /\ tx.to = u
              /\ tx.do = SentFor[asked[tx.for].op] /\ asked[tx.for].step \in {"wait", "done"}
            BY <2>1, <2>8 DEF OrgTx, SentOnce, SentAsAsked
        <3>3. u \in level' <=> asked[tx.for].op = "enable"
            BY <2>1, <3>2 DEF OrgOps, SentFor
        <3>4. OrgAsked(u)'
            BY <1>1, <2>2, <2>3, <3>1, <3>3 DEF OrgAsked
        <3>5. RowTrue(u)'
            BY <1>1, <3>1 DEF RowTrue
        <3>6. QED
            BY <2>6, <2>7, <3>4, <3>5 DEF RowInv
    <2>9. CASE ~OrgTx(1, u)
        <3>1. \A p \in Requests : About(p, u) /\ asked[p].op \in OrgOps =>
                asked'[p].step = asked[p].step
            <4> SUFFICES ASSUME NEW p \in Requests, About(p, u), asked[p].op \in OrgOps,
                                p = tx.for
                         PROVE  FALSE
                BY <2>2
            <4>1. tx.for # Nobody
                BY CallersAssumption
            <4>2. tx.to = u
                BY <2>1, <4>1 DEF About, SentOnce, SentAsAsked
            <4>3. QED
                BY <2>1, <2>9, <4>1, <4>2 DEF OrgTx
        <3>2. CASE u \in level' <=> u \in level
            <4>1. OrgAsked(u)'
                BY <1>1, <2>2, <2>3, <3>1, <3>2 DEF RowInv, OrgAsked
            <4>2. RowTrue(u)'
                BY <1>1, <3>2 DEF RowInv, RowTrue
            <4>3. QED
                BY <2>6, <2>7, <4>1, <4>2 DEF RowInv
        <3>3. CASE ~(u \in level' <=> u \in level)
            <4>1. u = tx.to
                BY <2>1, <3>3
            <4>2. ~ByOrg(tx)
                BY <2>1, <2>9, <4>1 DEF ByOrg, OrgTx
            <4>3. row[u] = "none" /\ OnlyMined(u, tx)
                BY <1>4, <3>3, <4>2
            <4>4. \A p \in Requests : About(p, u) => asked[p].op \notin OrgOps
                <5> SUFFICES ASSUME NEW p \in Requests, About(p, u), asked[p].op \in OrgOps
                             PROVE  FALSE
                    OBVIOUS
                <5>1. p = tx.for
                    BY <4>3 DEF OnlyMined, About
                <5>2. QED
                    BY <4>2, <5>1, CallersAssumption DEF ByOrg
            <4>5. OrgAsked(u)'
                BY <2>2, <2>3, <4>4 DEF OrgAsked
            <4>6. RowTrue(u)'
                BY <1>1, <4>3 DEF RowTrue
            <4>7. QED
                BY <2>6, <2>7, <4>5, <4>6 DEF RowInv
        <3>4. QED
            BY <3>2, <3>3
    <2>10. QED
        BY <2>8, <2>9
<1>5. QED
    BY <1>2, <1>3, <1>4, OnboardEffect

-----------------------------------------------------------------------------
(* The organisation as a whole.                                            *)

MembersInv == OnbTypes /\ MembershipTypeOK /\ AskedTypes /\ RankInv /\ KycInv /\ SentOnce
OrgInv == MembersInv /\ (\A u \in Users \ contended : RowInv(u)) /\ TreasuryInv

LEMMA InitOrg == Init => OrgInv
<1> SUFFICES ASSUME Init PROVE OrgInv
    OBVIOUS
<1>1. OnbTypes /\ TreasuryInv
    BY InitOnbTypes, InitTreasuryInv DEF Init
<1>2. MembershipTypeOK
    BY MembershipAssumption DEF Init, MembershipInit, MembershipTypeOK, ROLE_RANK
<1>3. Unasked \in AskedType /\ Unasked.op = "none" /\ Unasked.step = "unused"
    <2>1. "none" \in DOMAIN OpSteps /\ "unused" \in OpSteps["none"]
        BY DEF OpSteps
    <2>2. QED
        BY <2>1 DEF Unasked, AskedType
<1>4. \A q \in Requests : asked[q] = Unasked
    BY DEF Init, MembershipInit
<1>5. AskedTypes
    <2>1. asked \in [Requests -> AskedType]
        BY <1>3 DEF Init, MembershipInit
    <2>2. "unused" \in OpSteps["none"]
        BY DEF OpSteps
    <2>3. QED
        BY <1>3, <1>4, <2>1, <2>2 DEF AskedTypes
<1>6. RankInv /\ KycAsked /\ \A q \in Requests : ~InFlight(q)
    BY <1>3, <1>4 DEF RankInv, KycAsked, InFlight
<1>7. /\ mempool = <<>> /\ level = {} /\ \A w \in Handlers : at[w] = "idle"
      /\ \A u \in Newcomers : onboarding[u] = "none"
    BY DEF Init, OnboardingInit
<1>8. KycRows /\ KycSent /\ AllowlistedHasKyc
    BY <1>7 DEF KycRows, KycSent, AllowlistedHasKyc, PastKyc, Places, approvedKycOnboardingStatuses
<1>9. SentOnce
    BY <1>7 DEF SentOnce, SentAsAsked
<1>10. \A u \in Users : row[u] = "none"
    BY DEF Init, MembershipInit
<1>11. ASSUME NEW u \in Users PROVE RowInv(u)
    BY <1>6, <1>7, <1>10 DEF RowInv, OneRequest, OrgSent, OrgAsked, RowTrue, About, OnAllowList
<1>12. QED
    BY <1>1, <1>2, <1>5, <1>6, <1>8, <1>9, <1>11 DEF OrgInv, MembersInv, KycInv

LEMMA MembersKept ==
    ASSUME OrgInv, UNCHANGED <<onbVars, membershipVars>>
    PROVE  MembersInv' /\ \A u \in Users \ contended' : RowInv(u)'
<1> USE DEF onbVars, onbChainVars, onbRowVars, onbQueueVars, handlerVars, onbHistoryVars,
    membershipVars
<1>1. OnbTypes'
    BY DEF OrgInv, MembersInv, OnbTypes, OnboardingTypeOK
<1>2. MembershipTypeOK' /\ AskedTypes' /\ RankInv'
    BY DEF OrgInv, MembersInv, MembershipTypeOK, AskedTypes, RankInv
<1>3. KycInv'
    BY DEF OrgInv, MembersInv, KycInv, KycRows, KycSent, KycAsked, AllowlistedHasKyc, InFlight
<1>4. SentOnce'
    BY DEF OrgInv, MembersInv, SentOnce, SentAsAsked
<1>5. ASSUME NEW u \in Users \ contended' PROVE RowInv(u)'
    <2>1. RowInv(u)
        BY <1>5 DEF OrgInv
    <2>2. QED
        BY <2>1, RowKept DEF OrgTx, About, OnAllowList, InFlight
<1>6. QED
    BY <1>1, <1>2, <1>3, <1>4, <1>5 DEF MembersInv

LEMMA MembersNext ==
    ASSUME OrgInv, Onboard \/ \E q \in Requests : MemberStep(q)
    PROVE  MembersInv' /\ \A u \in Users \ contended' : RowInv(u)'
<1> USE DEF OrgInv, MembersInv
<1>1. CASE Onboard
    <2>1. OnbTypes' /\ MembershipTypeOK' /\ AskedTypes'
        BY <1>1, OnboardTypes
    <2>2. RankInv' /\ KycInv' /\ SentOnce'
        BY <1>1, OnboardRank, OnboardKycInv, OnboardSent
    <2>3. ASSUME NEW u \in Users \ contended' PROVE RowInv(u)'
        <3>1. RowInv(u)
            BY <1>1, <2>3, OnboardEffect
        <3>2. QED
            BY <1>1, <2>3, <3>1, OnboardRow
    <2>4. QED
        BY <2>1, <2>2, <2>3
<1>2. ASSUME NEW q \in Requests, MemberStep(q)
      PROVE  MembersInv' /\ \A u \in Users \ contended' : RowInv(u)'
    <2>1. OnbTypes' /\ MembershipTypeOK' /\ AskedTypes'
        BY <1>2, MemberStepTypes
    <2>2. RankInv' /\ KycInv' /\ SentOnce'
        BY <1>2, MemberRank, MemberKycInv, MemberSent
    <2>3. ASSUME NEW u \in Users \ contended' PROVE RowInv(u)'
        <3>1. RowInv(u)
            BY <1>2, <2>3, MemberFrame
        <3>2. QED
            BY <1>2, <2>3, <3>1, MemberCases, AsksRow, ProceedsRow
    <2>4. QED
        BY <2>1, <2>2, <2>3
<1>3. QED
    BY <1>1, <1>2

LEMMA NextOrg == OrgInv /\ [Next]_vars => OrgInv'
<1> SUFFICES ASSUME OrgInv, [Next]_vars PROVE OrgInv'
    OBVIOUS
<1>1. CASE UNCHANGED vars
    <2>1. UNCHANGED <<onbVars, membershipVars>> /\ UNCHANGED treasuryVars
        BY <1>1 DEF vars
    <2>2. TreasuryInv'
        BY <2>1, TreasuryNextInv DEF OrgInv
    <2>3. QED
        BY <2>1, <2>2, MembersKept DEF OrgInv
<1>2. CASE /\ Onboard \/ \E q \in Requests : MemberStep(q)
           /\ UNCHANGED treasuryVars
    <2>1. TreasuryInv'
        BY <1>2, TreasuryNextInv DEF OrgInv
    <2>2. QED
        BY <1>2, <2>1, MembersNext DEF OrgInv
<1>3. CASE /\ \E q \in Requests : ProvisionByAdmin(q) \/ ProvisionStep(q)
           /\ UNCHANGED <<onbVars, membershipVars>>
    <2>1. TreasuryNext
        BY <1>3 DEF ProvisionByAdmin, TreasuryNext
    <2>2. TreasuryInv'
        BY <2>1, TreasuryNextInv DEF OrgInv
    <2>3. QED
        BY <1>3, <2>2, MembersKept DEF OrgInv
<1>4. QED
    BY <1>1, <1>2, <1>3 DEF Next, MemberStep

(* Nobody is on the chain's allow list without KYC or a network admin's    *)
(* word, and the organisation's list denies nothing the chain says, for    *)
(* users whose level one request changes at a time: whatever dies between  *)
(* the transaction and the row.                                            *)
THEOREM ListTellsTheChain == Spec => []AllowlistTrue
<1>1. OrgInv => AllowlistTrue
    <2> SUFFICES ASSUME OrgInv PROVE AllowlistTrue
        OBVIOUS
    <2>1. TypeOK /\ AllowlistedHasKyc
        BY DEF OrgInv, MembersInv, TypeOK, TreasuryInv, KycInv
    <2>2. AllowlistRowTrue
        BY DEF OrgInv, RowInv, RowTrue, AllowlistRowTrue
    <2>3. QED
        BY <2>1, <2>2 DEF AllowlistTrue
<1>2. QED
    BY <1>1, InitOrg, NextOrg, PTL DEF Spec

(* Within an organisation too, however many requests provision its         *)
(* treasury at once and wherever they die, the registrar's key is the one  *)
(* sealed in the row.                                                      *)
THEOREM KeySealed == Spec => []RegisteredKeyIsSealed
<1>1. OrgInv => RegisteredKeyIsSealed
    BY DEF OrgInv, TreasuryInv
<1>2. QED
    BY <1>1, InitOrg, NextOrg, PTL DEF Spec

(* A role is changed by a request only whose caller ranks above the        *)
(* member, as both were when it compared them, and the owner's never:      *)
(* however the requests of several admins interleave.                      *)
THEOREM RolesChangeByRank == Spec => RoleChangedByHigher
<1> DEFINE ByHigher ==
        \A u \in Users : role'[u] # role[u] =>
            /\ role[u] # "owner"
            /\ \E q \in Requests : /\ asked[q].step = "write" /\ asked'[q].step = "done"
                                   /\ asked[q].of = u
                                   /\ \/ q \in outdated
                                      \/ ROLE_RANK[role[asked[q].by]] > ROLE_RANK[role[u]]
<1>1. OrgInv /\ [Next]_vars => [ByHigher]_role
    <2> SUFFICES ASSUME OrgInv, [Next]_vars, role' # role PROVE ByHigher
        OBVIOUS
    <2>1. \E q \in Requests : WriteRole(q)
        <3>1. CASE UNCHANGED <<onbVars, membershipVars>>
            BY <3>1 DEF membershipVars
        <3>2. CASE Onboard
            BY <3>2, OnboardEffect DEF OrgInv, MembersInv
        <3>3. ASSUME NEW q \in Requests, MemberStep(q) PROVE WriteRole(q)
            BY <3>3, MemberFrame
        <3>4. QED
            BY <3>1, <3>2, <3>3 DEF Next, MemberStep, vars
    <2>2. PICK q \in Requests : WriteRole(q)
        BY <2>1
    <2>3. asked[q].step = "write" /\ asked'[q].step = "done" /\ asked[q].op = "member"
        BY <2>2, ProceedSteps, StepsOfOps DEF OrgInv, MembersInv
    <2>4. asked[q].by \in Users /\ asked[q].of \in Users /\ asked[q].rank \in -1 .. 3
        BY <2>3, AskedFields DEF OrgInv, MembersInv
    <2>5. /\ role[asked[q].of] # "owner"
          /\ q \notin outdated => ROLE_RANK[role[asked[q].by]] > ROLE_RANK[role[asked[q].of]]
        <3>1. /\ role[asked[q].of] # "owner"
              /\ q \notin outdated => /\ asked[q].rank = ROLE_RANK[role[asked[q].by]]
                                      /\ ROLE_RANK[role[asked[q].of]] < asked[q].rank
            BY <2>3 DEF OrgInv, MembersInv, RankInv
        <3>2. ROLE_RANK[role[asked[q].of]] \in -1 .. 3
            BY <2>4, RankType DEF OrgInv, MembersInv
        <3>3. QED
            BY <2>4, <3>1, <3>2
    <2>6. \A u \in Users : role'[u] # role[u] => u = asked[q].of
        BY <2>2 DEF WriteRole, OrgInv, MembersInv, MembershipTypeOK
    <2>7. QED
        BY <2>3, <2>4, <2>5, <2>6
<1>2. QED
    BY <1>1, InitOrg, NextOrg, PTL DEF Spec, RoleChangedByHigher
=============================================================================
