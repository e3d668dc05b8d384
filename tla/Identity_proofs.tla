--------------------------- MODULE Identity_proofs ---------------------------
(***************************************************************************)
(* Handles, sign-in and invitations for any users, handles, requests,      *)
(* nonces and invites.                                                     *)
(*                                                                         *)
(* The registry's two mappings are inverses of each other, and the table   *)
(* that mirrors it names only owners of the past or present: what a        *)
(* request read of the contract before it writes the table must be in the  *)
(* invariant, with when it read it.                                        *)
(*                                                                         *)
(* A nonce opens one session and an invite has one outcome.  That no       *)
(* session is opened twice is not inductive: a request that is about to    *)
(* open one must know that its nonce is deleted, that no other request     *)
(* took it, and that it has not opened a session yet.                      *)
(***************************************************************************)
EXTENDS Identity, TLAPS

-----------------------------------------------------------------------------
(* The registry.                                                           *)

RegistryInv == RegistryTypeOK /\ RegistryBijective

LEMMA InitBijective == RegistryInit => RegistryInv
BY CallersAssumption, RegistryAssumption
   DEF RegistryInit, RegistryInv, RegistryTypeOK, RegistryBijective

(* A handle is claimed by one who has none and when nobody has it.         *)
LEMMA ClaimBijective ==
    ASSUME RegistryInv, NEW u \in Users, NEW h \in Handles, Claim(u, h)
    PROVE  RegistryInv'
<1> USE CallersAssumption, RegistryAssumption DEF RegistryInv, RegistryTypeOK, Claim, CanClaim
<1>1. RegistryTypeOK'
    OBVIOUS
<1>2. ASSUME NEW v \in Users, NEW g \in Handles PROVE handleOf'[v] = g <=> ownerOf'[g] = v
    <2>1. CASE g = h  BY <2>1 DEF RegistryBijective
    <2>2. CASE g # h  BY <2>2 DEF RegistryBijective
    <2>3. QED  BY <2>1, <2>2
<1>3. QED
    BY <1>1, <1>2 DEF RegistryBijective

LEMMA ReleaseBijective ==
    ASSUME RegistryInv, NEW u \in Users, Release(u)
    PROVE  RegistryInv'
<1> USE CallersAssumption, RegistryAssumption DEF RegistryInv, RegistryTypeOK, Release
<1>1. RegistryTypeOK'
    OBVIOUS
<1>2. ASSUME NEW v \in Users, NEW g \in Handles PROVE handleOf'[v] = g <=> ownerOf'[g] = v
    <2>1. CASE v = u  BY <2>1 DEF RegistryBijective
    <2>2. CASE v # u  BY <2>2 DEF RegistryBijective
    <2>3. QED  BY <2>1, <2>2
<1>3. QED
    BY <1>1, <1>2 DEF RegistryBijective

LEMMA TransferBijective ==
    ASSUME RegistryInv, NEW u \in Users, NEW to \in Users, TransferHandle(u, to)
    PROVE  RegistryInv'
<1> USE CallersAssumption, RegistryAssumption DEF RegistryInv, RegistryTypeOK, TransferHandle
<1>1. RegistryTypeOK'
    OBVIOUS
<1>2. ASSUME NEW v \in Users, NEW g \in Handles PROVE handleOf'[v] = g <=> ownerOf'[g] = v
    <2>1. CASE v = to  BY <2>1 DEF RegistryBijective
    <2>2. CASE v = u  BY <2>2 DEF RegistryBijective
    <2>3. CASE v \notin {u, to}  BY <2>3 DEF RegistryBijective
    <2>4. QED  BY <2>1, <2>2, <2>3
<1>3. QED
    BY <1>1, <1>2 DEF RegistryBijective

LEMMA StepBijective == RegistryInv /\ [RegistryStep]_registryVars => RegistryInv'
<1> SUFFICES ASSUME RegistryInv, [RegistryStep]_registryVars PROVE RegistryInv'
    OBVIOUS
<1>1. CASE UNCHANGED registryVars
    BY <1>1 DEF RegistryInv, RegistryTypeOK, RegistryBijective, registryVars
<1>2. CASE RegistryStep
    BY <1>2, ClaimBijective, ReleaseBijective, TransferBijective DEF RegistryStep
<1>3. QED
    BY <1>1, <1>2

(* Whatever is claimed, released or moved, a user has the handle that is   *)
(* the user's, and no two users have the same one.                         *)
THEOREM Bijective == RegistrySpec => []RegistryBijective
<1>1. RegistryInv => RegistryBijective
    BY DEF RegistryInv
<1>2. QED
    BY <1>1, InitBijective, StepBijective, PTL DEF RegistrySpec

-----------------------------------------------------------------------------
(* Sign-in.                                                                *)

Took(q) == step[q] \in {"verify", "session"}

Types ==
    /\ nonce \in [Nonces -> {"none", "live", "lapsed", "deleted"}]
    /\ opened \in [Nonces -> {0, 1}]
    /\ step \in [Requests -> {"idle", "verify", "session", "take", "find", "available", "done"}]
    /\ about \in [Requests -> [of : Nonces \cup Invites \cup {Nobody}, user : Users \cup {Nobody}]]

(* Who took a nonce found it live, and has not opened a session with it.   *)
TookFresh ==
    \A q \in Requests : Took(q) =>
        /\ about[q].of \in Nonces
        /\ nonce[about[q].of] = "deleted"
        /\ opened[about[q].of] = 0

TookAlone ==
    \A q, r \in Requests : Took(q) /\ Took(r) /\ about[q].of = about[r].of => q = r

OpenedGone == \A n \in Nonces : opened[n] = 1 => nonce[n] = "deleted"

IInv == Types /\ TookFresh /\ TookAlone /\ OpenedGone

LEMMA InitInv == AccessInit => IInv
BY DEF AccessInit, IInv, Types, TookFresh, TookAlone, OpenedGone, Took

(* Steps that leave the nonces' part of the state alone, and give a        *)
(* request another place that is not before a session.                     *)
LEMMA OthersInv ==
    ASSUME IInv, UNCHANGED <<nonce, opened>>,
           NEW q \in Requests, ~Took(q),
           NEW s \in {"take", "find", "available", "done"}, step' = [step EXCEPT ![q] = s],
           NEW a \in [of : Nonces \cup Invites \cup {Nobody}, user : Users \cup {Nobody}],
           about' = [about EXCEPT ![q] = a]
    PROVE  IInv'
<1>1. Types'
    BY DEF IInv, Types
<1>2. \A r \in Requests : Took(r)' => Took(r) /\ about'[r] = about[r]
    BY DEF Took, IInv, Types
<1>3. QED
    BY <1>1, <1>2 DEF IInv, TookFresh, TookAlone, OpenedGone

LEMMA VerifyInv ==
    ASSUME IInv, NEW q \in Requests, NEW n \in Nonces, NEW u \in Users, Verify(q, n, u)
    PROVE  IInv'
<1> USE DEF Verify, ConsumeLiveNonce, IInv, Types, Took
<1>1. Types'
    OBVIOUS
<1>2. about'[q].of = n /\ opened[n] = 0 /\ nonce'[n] = "deleted"
    BY DEF OpenedGone
<1>3. \A r \in Requests \ {q} : Took(r)' => Took(r) /\ about'[r] = about[r] /\ about[r].of # n
    BY DEF TookFresh
<1>4. TookFresh'
    BY <1>2, <1>3 DEF TookFresh
<1>5. TookAlone'
    BY <1>2, <1>3 DEF TookAlone
<1>6. OpenedGone'
    BY DEF OpenedGone
<1>7. QED
    BY <1>1, <1>4, <1>5, <1>6

LEMMA CheckSignatureInv ==
    ASSUME IInv, NEW q \in Requests, CheckSignature(q)
    PROVE  IInv'
<1>1. /\ UNCHANGED <<nonce, opened, about>> /\ step[q] = "verify"
      /\ \E s \in {"session", "done"} : step' = [step EXCEPT ![q] = s]
    BY DEF CheckSignature, To, sessionVars
<1>2. Types'
    BY <1>1 DEF IInv, Types
<1>3. \A r \in Requests : Took(r)' => Took(r)
    BY <1>1 DEF Took, IInv, Types
<1>4. QED
    BY <1>1, <1>2, <1>3 DEF IInv, TookFresh, TookAlone, OpenedGone

LEMMA CreateSessionInv ==
    ASSUME IInv, NEW q \in Requests, CreateSession(q)
    PROVE  IInv'
<1> DEFINE n == about[q].of
<1>1. Took(q) /\ n \in Nonces /\ nonce[n] = "deleted" /\ opened[n] = 0
    BY DEF CreateSession, Took, IInv, TookFresh
<1>2. /\ UNCHANGED <<nonce, about>> /\ step' = [step EXCEPT ![q] = "done"]
      /\ opened' = [opened EXCEPT ![n] = 1]
    BY <1>1 DEF CreateSession, To
<1>3. Types'
    BY <1>1, <1>2 DEF IInv, Types
<1>4. \A r \in Requests : Took(r)' => Took(r) /\ about[r].of # n
    BY <1>1, <1>2 DEF Took, IInv, Types, TookAlone
<1>5. TookFresh' /\ TookAlone'
    BY <1>2, <1>4 DEF IInv, Types, TookFresh, TookAlone
<1>6. OpenedGone'
    BY <1>1, <1>2 DEF IInv, Types, OpenedGone
<1>7. QED
    BY <1>3, <1>5, <1>6 DEF IInv

LEMMA EventInv == IInv /\ AccessEvent => IInv'
<1> SUFFICES ASSUME IInv, AccessEvent PROVE IInv'
    OBVIOUS
<1>1. ASSUME NEW n \in Nonces, AskNonce(n) PROVE IInv'
    BY <1>1 DEF AskNonce, callVars, IInv, Types, TookFresh, TookAlone, OpenedGone, Took
<1>2. ASSUME NEW n \in Nonces, NonceLapses(n) PROVE IInv'
    BY <1>2 DEF NonceLapses, callVars, IInv, Types, TookFresh, TookAlone, OpenedGone, Took
<1>3. CASE UNCHANGED <<nonce, opened, callVars>>
    BY <1>3 DEF callVars, IInv, Types, TookFresh, TookAlone, OpenedGone, Took
<1>4. QED
    BY <1>1, <1>2, <1>3
       DEF AccessEvent, EndSession, CreateInvite, InviteLapses, ExpireCreatedInvites, sessionVars

LEMMA StepInv == ASSUME IInv, NEW q \in Requests, AccessStep(q) PROVE IInv'
<1>1. ASSUME NEW u \in Users, NEW n \in Nonces, Verify(q, n, u) PROVE IInv'
    BY <1>1, VerifyInv
<1>2. CASE CheckSignature(q)
    BY <1>2, CheckSignatureInv
<1>3. CASE CreateSession(q)
    BY <1>3, CreateSessionInv
<1>4. ASSUME NEW u \in Users, NEW v \in Invites, ClaimInvite(q, v, u) PROVE IInv'
    <2> DEFINE a == [of |-> v, user |-> u]
    <2>1. /\ UNCHANGED <<nonce, opened>> /\ ~Took(q)
          /\ step' = [step EXCEPT ![q] = "take"] /\ about' = [about EXCEPT ![q] = a]
        BY <1>4 DEF ClaimInvite, sessionVars, Took
    <2>2. QED
        BY <2>1, OthersInv
<1>5. ASSUME NEW v \in Invites, ReadInvite(q, v) PROVE IInv'
    <2> DEFINE a == [of |-> v, user |-> Nobody]
    <2>1. /\ UNCHANGED <<nonce, opened>> /\ ~Took(q)
          /\ step' = [step EXCEPT ![q] = "find"] /\ about' = [about EXCEPT ![q] = a]
        BY <1>5 DEF ReadInvite, sessionVars, Took
    <2>2. QED
        BY <2>1, OthersInv
<1>6. CASE TakeInvite(q) \/ FindInviteForToken(q) \/ EnsureInviteAvailable(q)
    <2>1. /\ UNCHANGED <<nonce, opened, about>> /\ ~Took(q)
          /\ \E s \in {"find", "available", "done"} : step' = [step EXCEPT ![q] = s]
        BY <1>6 DEF TakeInvite, FindInviteForToken, EnsureInviteAvailable, To, sessionVars, Took
    <2>2. about' = [about EXCEPT ![q] = about[q]] /\ about[q] \in [of : Nonces \cup Invites \cup {Nobody}, user : Users \cup {Nobody}]
        BY <2>1 DEF IInv, Types
    <2>3. QED
        BY <2>1, <2>2, OthersInv
<1>7. QED
    BY <1>1, <1>2, <1>3, <1>4, <1>5, <1>6 DEF AccessStep

LEMMA NextInv == IInv /\ [Next]_vars => IInv'
<1> SUFFICES ASSUME IInv, [Next]_vars PROVE IInv'
    OBVIOUS
<1>1. CASE UNCHANGED accessVars
    BY <1>1 DEF accessVars, IInv, Types, TookFresh, TookAlone, OpenedGone, Took
<1>2. CASE AccessEvent
    BY <1>2, EventInv
<1>3. ASSUME NEW q \in Requests, AccessStep(q) PROVE IInv'
    BY <1>3, StepInv
<1>4. QED
    BY <1>1, <1>2, <1>3 DEF Next, vars

(* However many requests bring a nonce at once, one of them opens a        *)
(* session: POST /auth/verify deletes the nonce by the statement that      *)
(* finds it.                                                               *)
THEOREM NonceOpensOnce == Spec => []OneSessionPerNonce
<1>1. Init => IInv
    BY InitInv DEF Init
<1>2. IInv => OneSessionPerNonce
    BY DEF IInv, Types, OneSessionPerNonce
<1>3. QED
    BY <1>1, <1>2, NextInv, PTL DEF Spec

-----------------------------------------------------------------------------
(* Invites.                                                                *)

InviteTypes ==
    /\ invite \in [Invites -> {"none", "created", "claimed", "expired"}]
    /\ claimedBy \in [Invites -> Users \cup {Nobody}]
    /\ about \in [Requests -> [of : Nonces \cup Invites \cup {Nobody}, user : Users \cup {Nobody}]]

(* A step that gives an open or absent invite another status leaves the    *)
(* others alone.                                                           *)
OutcomeKept ==
    \A v \in Invites : invite[v] \in {"claimed", "expired"}
        => invite'[v] = invite[v] /\ claimedBy'[v] = claimedBy[v]

LEMMA StepKeeps ==
    ASSUME InviteTypes, [Next]_vars
    PROVE  OutcomeKept
<1> USE DEF InviteTypes, OutcomeKept
<1>1. CASE UNCHANGED <<invite, claimedBy>>
    BY <1>1
<1>2. ASSUME NEW v \in Invites, NEW u \in Users, CreateInvite(v, u) PROVE OutcomeKept
    BY <1>2 DEF CreateInvite
<1>3. CASE ExpireCreatedInvites
    BY <1>3 DEF ExpireCreatedInvites
<1>4. ASSUME NEW q \in Requests, TakeInvite(q) PROVE OutcomeKept
    BY <1>4 DEF TakeInvite
<1>5. ASSUME NEW q \in Requests, EnsureInviteAvailable(q) PROVE OutcomeKept
    BY <1>5 DEF EnsureInviteAvailable, ExpireIfCreated, Expired
<1>6. QED
    BY <1>1, <1>2, <1>3, <1>4, <1>5
       DEF Next, vars, accessVars, AccessEvent, AccessStep, AskNonce, NonceLapses, EndSession,
           InviteLapses, Verify, CheckSignature, CreateSession, ClaimInvite, ReadInvite,
           FindInviteForToken, inviteVars

LEMMA InviteTypesKept == IInv /\ InviteTypes /\ [Next]_vars => InviteTypes'
<1> SUFFICES ASSUME IInv, InviteTypes, [Next]_vars PROVE InviteTypes'
    OBVIOUS
<1>1. about' \in [Requests -> [of : Nonces \cup Invites \cup {Nobody}, user : Users \cup {Nobody}]]
    BY NextInv DEF IInv, Types
<1> USE DEF InviteTypes
<1>2. CASE UNCHANGED <<invite, claimedBy>>
    BY <1>1, <1>2
<1>3. ASSUME NEW v \in Invites, NEW u \in Users, CreateInvite(v, u) PROVE InviteTypes'
    BY <1>1, <1>3 DEF CreateInvite
<1>4. CASE ExpireCreatedInvites
    BY <1>1, <1>4 DEF ExpireCreatedInvites
<1>5. ASSUME NEW q \in Requests, TakeInvite(q) PROVE InviteTypes'
    BY <1>1, <1>5 DEF TakeInvite
<1>6. ASSUME NEW q \in Requests, EnsureInviteAvailable(q) PROVE InviteTypes'
    BY <1>1, <1>6 DEF EnsureInviteAvailable, ExpireIfCreated, Expired
<1>7. QED
    BY <1>2, <1>3, <1>4, <1>5, <1>6
       DEF Next, vars, accessVars, AccessEvent, AccessStep, AskNonce, NonceLapses, EndSession,
           InviteLapses, Verify, CheckSignature, CreateSession, ClaimInvite, ReadInvite,
           FindInviteForToken, inviteVars

(* The first outcome of an invite is its last: a claim that comes after    *)
(* another one, a reader that found it open before its time was up and the *)
(* hourly job all leave it.                                                *)
THEOREM InviteSettlesOnce == Spec => InviteOutcomeFinal
<1>1. Init => IInv /\ InviteTypes
    BY InitInv DEF Init, AccessInit, InviteTypes
<1>2. InviteTypes /\ [Next]_vars => [OutcomeKept]_accessVars
    BY StepKeeps
<1>3. QED
    BY <1>1, <1>2, NextInv, InviteTypesKept, PTL DEF Spec, InviteOutcomeFinal, OutcomeKept

-----------------------------------------------------------------------------
(* Types of the sign-in part.                                              *)

(* A call that takes an invite names one and somebody who asks for it.     *)
AccessTypes ==
    /\ AccessTypeOK
    /\ InviteTypes
    /\ \A q \in Requests :
        /\ step[q] \in {"verify", "session", "take"} => about[q].user \in Users
        /\ step[q] \in {"take", "find", "available"} => about[q].of \in Invites

LEMMA InitAccessTypes == AccessInit => AccessTypes
BY AccessAssumption DEF AccessInit, AccessTypes, AccessTypeOK, InviteTypes

LEMMA EventAccessTypes == AccessTypes /\ AccessEvent => AccessTypes'
<1> SUFFICES ASSUME AccessTypes, AccessEvent PROVE AccessTypes'
    OBVIOUS
<1> USE DEF AccessTypes, AccessTypeOK, InviteTypes, sessionVars, inviteVars, callVars
<1>1. ASSUME NEW n \in Nonces, AskNonce(n) \/ NonceLapses(n) PROVE AccessTypes'
    BY <1>1 DEF AskNonce, NonceLapses
<1>2. ASSUME NEW u \in Users, EndSession(u) PROVE AccessTypes'
    BY <1>2 DEF EndSession
<1>3. ASSUME NEW u \in Users, NEW v \in Invites, CreateInvite(v, u) PROVE AccessTypes'
    BY <1>3 DEF CreateInvite
<1>4. ASSUME NEW v \in Invites, InviteLapses(v) PROVE AccessTypes'
    BY <1>4 DEF InviteLapses
<1>5. CASE ExpireCreatedInvites
    BY <1>5 DEF ExpireCreatedInvites
<1>6. QED
    BY <1>1, <1>2, <1>3, <1>4, <1>5 DEF AccessEvent

LEMMA StepAccessTypes ==
    ASSUME IInv, AccessTypes, NEW q \in Requests, AccessStep(q)
    PROVE  AccessTypes'
<1> USE CallersAssumption
    DEF AccessTypes, AccessTypeOK, InviteTypes, sessionVars, inviteVars, callVars, To
<1>1. ASSUME NEW u \in Users, NEW n \in Nonces, Verify(q, n, u) PROVE AccessTypes'
    BY <1>1 DEF Verify, ConsumeLiveNonce
<1>2. ASSUME NEW u \in Users, NEW v \in Invites, ClaimInvite(q, v, u) PROVE AccessTypes'
    BY <1>2 DEF ClaimInvite
<1>3. CASE CheckSignature(q)
    BY <1>3 DEF CheckSignature
<1>4. CASE CreateSession(q)
    <2>1. about[q].user \in Users /\ about[q].of \in Nonces
        BY <1>4 DEF CreateSession, IInv, TookFresh, Took
    <2>2. QED
        BY <1>4, <2>1 DEF CreateSession
<1>5. CASE TakeInvite(q)
    <2>1. about[q].of \in Invites /\ about[q].user \in Users
        BY <1>5 DEF TakeInvite
    <2>2. QED
        BY <1>5, <2>1 DEF TakeInvite
<1>6. ASSUME NEW v \in Invites, ReadInvite(q, v) PROVE AccessTypes'
    BY <1>6 DEF ReadInvite
<1>7. CASE FindInviteForToken(q)
    BY <1>7 DEF FindInviteForToken
<1>8. CASE EnsureInviteAvailable(q)
    BY <1>8 DEF EnsureInviteAvailable, ExpireIfCreated, Expired
<1>9. QED
    BY <1>1, <1>2, <1>3, <1>4, <1>5, <1>6, <1>7, <1>8 DEF AccessStep

-----------------------------------------------------------------------------
(* The directory.                                                          *)

(* Where a claim and a resolve are.                                        *)
Claiming == {"owner", "own", "simulate", "mine", "claimed"}

DirectoryTypes ==
    /\ DirectoryTypeOK
    /\ handle \in [Requests -> Handles \cup {NoHandle}]
    /\ DOMAIN seen = Requests
    /\ \A q \in Requests :
        /\ q \in InFlight => handle[q] \in Handles
        /\ at[q] \in Claiming => op[q] = "claim"

(* Every owner there was is in the history, and the table names no other.  *)
CacheOwned ==
    /\ \A h \in Handles : ownerOf[h] # Nobody => <<h, ownerOf[h]>> \in owned
    /\ \A h \in Handles : cache[h] # Nobody => <<h, cache[h]>> \in owned

(* What a request carries to the table was true while it ran, and is still *)
(* true unless somebody else wrote.                                        *)
RequestInv(q) ==
    /\ q \in InFlight => ownerOf[handle[q]] \in seen[q]
    /\ at[q] = "claimed" => <<handle[q], Signer>> \in owned
    /\ at[q] = "write" /\ found[q] # Nobody => <<handle[q], found[q]>> \in owned
    /\ op[q] = "resolve" /\ at[q] \in {"write", "answered"} => found[q] \in seen[q]
    /\ q \notin disturbed =>
        /\ at[q] = "claimed" => ownerOf[handle[q]] = Signer
        /\ at[q] = "chain" => cache[handle[q]] = cached[q]
        /\ at[q] = "write" => found[q] = ownerOf[handle[q]]

DirectoryInv ==
    /\ RegistryInv
    /\ DirectoryTypes
    /\ CacheOwned
    /\ \A q \in Requests : RequestInv(q)

LEMMA InitDirectory == DirectoryInit => DirectoryInv
<1> SUFFICES ASSUME DirectoryInit PROVE DirectoryInv
    OBVIOUS
<1>1. RegistryInv
    BY InitBijective DEF DirectoryInit
<1>2. QED
    BY <1>1, DirectoryAssumption
       DEF DirectoryInit, RegistryInit, DirectoryInv, RegistryInv, DirectoryTypes, DirectoryTypeOK,
           CacheOwned, RequestInv, InFlight, Claiming

(* A step that writes the contract: whoever is in flight saw the new       *)
(* owners, and is disturbed unless the step is its own.                    *)
LEMMA RegistryWriteInv ==
    ASSUME DirectoryInv, RegistryStep, NEW by, Witnessed(by)
    PROVE  /\ RegistryInv'
           /\ \A h \in Handles : ownerOf'[h] # Nobody => <<h, ownerOf'[h]>> \in owned'
           /\ owned \subseteq owned'
           /\ DOMAIN seen' = Requests
           /\ \A q \in InFlight : ownerOf'[handle[q]] \in seen'[q]
           /\ \A q \in InFlight : q \notin by => q \in disturbed'
           /\ disturbed \subseteq disturbed'
           /\ \A q \in Requests : seen[q] \subseteq seen'[q]
BY StepBijective DEF Witnessed, DirectoryInv, InFlight

LEMMA WalletCallInv ==
    ASSUME DirectoryInv, WalletCall
    PROVE  DirectoryInv'
<1>1. RegistryStep /\ Witnessed({}) /\ UNCHANGED <<cache, at, op, handle, cached, found>>
      /\ walletCalls' \in 0 .. MaxWalletCalls
    BY DirectoryAssumption
       DEF WalletCall, requestVars, DirectoryInv, DirectoryTypes, DirectoryTypeOK
<1>2. InFlight' = InFlight /\ InFlight \subseteq disturbed'
    BY <1>1, RegistryWriteInv DEF InFlight
<1>3. RegistryInv' /\ DOMAIN seen' = Requests
    BY <1>1, RegistryWriteInv
<1>4. DirectoryTypes'
    BY <1>1, <1>2, <1>3 DEF DirectoryInv, DirectoryTypes, DirectoryTypeOK, RegistryInv
<1>5. CacheOwned'
    BY <1>1, RegistryWriteInv DEF DirectoryInv, CacheOwned
<1>6. ASSUME NEW q \in Requests PROVE RequestInv(q)'
    BY <1>1, <1>2, <1>6, RegistryWriteInv DEF DirectoryInv, RequestInv, InFlight
<1>7. QED
    BY <1>3, <1>4, <1>5, <1>6 DEF DirectoryInv

LEMMA BeginInv ==
    ASSUME DirectoryInv, NEW q \in Requests, NEW h \in Handles,
           \/ ClaimHandle(q, h)
           \/ ReadCachedHandle(q, h)
    PROVE  DirectoryInv'
<1> USE DEF DirectoryInv
<1>1. /\ UNCHANGED <<ownerOf, handleOf, cache, walletCalls, owned, disturbed, found>>
      /\ at[q] = "idle"
      /\ handle' = [handle EXCEPT ![q] = h]
      /\ seen' = [seen EXCEPT ![q] = {ownerOf[h]}]
    BY DEF ClaimHandle, ReadCachedHandle, Begin, registryVars
<1>2. \/ /\ at' = [at EXCEPT ![q] = "owner"] /\ op' = [op EXCEPT ![q] = "claim"]
         /\ UNCHANGED cached
      \/ /\ at' = [at EXCEPT ![q] = "chain"] /\ op' = [op EXCEPT ![q] = "resolve"]
         /\ cached' = [cached EXCEPT ![q] = cache[h]]
    BY DEF ClaimHandle, ReadCachedHandle, Begin, Go
<1>3. RegistryInv'
    BY <1>1 DEF RegistryInv, RegistryTypeOK, RegistryBijective
<1>4. DirectoryTypes'
    BY <1>1, <1>2, <1>3 DEF DirectoryTypes, DirectoryTypeOK, RegistryInv, InFlight, Claiming
<1>5. CacheOwned'
    BY <1>1 DEF CacheOwned
<1>6. ASSUME NEW r \in Requests PROVE RequestInv(r)'
    <2>1. CASE r = q
        BY <1>1, <1>2, <2>1 DEF RequestInv, InFlight, DirectoryTypes, DirectoryTypeOK
    <2>2. CASE r # q
        BY <1>1, <1>2, <1>6, <2>2 DEF RequestInv, InFlight, DirectoryTypes, DirectoryTypeOK
    <2>3. QED
        BY <2>1, <2>2
<1>7. QED
    BY <1>3, <1>4, <1>5, <1>6

(* Steps of a request that only read: it moves on with what it found.      *)
LEMMA LocalInv ==
    ASSUME DirectoryInv, NEW q \in InFlight, Local(q), UNCHANGED <<op, handle, cached>>,
           NEW s \in {"own", "simulate", "mine", "claimed", "write", "answered", "failed"},
           at' = [at EXCEPT ![q] = s],
           found' \in [Requests -> Users \cup {Nobody}],
           \A r \in Requests \ {q} : found'[r] = found[r],
           s \in Claiming => op[q] = "claim",
           s = "claimed" => ownerOf[handle[q]] = Signer,
           s = "write" => \/ found'[q] = ownerOf[handle[q]]
                          \/ /\ op[q] = "claim" /\ at[q] = "claimed" /\ found'[q] = Signer,
           s = "answered" => found'[q] = ownerOf[handle[q]]
    PROVE  DirectoryInv'
<1> USE DirectoryAssumption DEF DirectoryInv
<1>1. UNCHANGED <<ownerOf, handleOf, cache, walletCalls, owned, seen, disturbed>>
    BY DEF Local, registryVars, historyVars
<1>2. q \in Requests /\ handle[q] \in Handles
    BY DEF InFlight, DirectoryTypes
<1>3. RegistryInv'
    BY <1>1 DEF RegistryInv, RegistryTypeOK, RegistryBijective
<1>4. DirectoryTypes'
    BY <1>1, <1>2, <1>3 DEF DirectoryTypes, DirectoryTypeOK, RegistryInv, InFlight, Claiming
<1>5. CacheOwned'
    BY <1>1 DEF CacheOwned
<1>6. ASSUME NEW r \in Requests PROVE RequestInv(r)'
    <2>1. CASE r = q
        <3>1. at'[q] = s
            BY <1>2 DEF DirectoryTypes, DirectoryTypeOK
        <3>2. ownerOf[handle[q]] \in seen[q]
              /\ (ownerOf[handle[q]] # Nobody => <<handle[q], ownerOf[handle[q]]>> \in owned)
            BY <1>2, <1>6 DEF RequestInv, CacheOwned
        <3>3. Signer # Nobody
            BY CallersAssumption
        <3>4. QED
            BY <1>1, <1>2, <2>1, <3>1, <3>2, <3>3 DEF RequestInv
    <2>2. CASE r # q
        <3>1. at'[r] = at[r] /\ found'[r] = found[r]
            BY <2>2 DEF DirectoryTypes, DirectoryTypeOK
        <3>2. QED
            BY <1>1, <1>6, <3>1 DEF RequestInv, InFlight
    <2>3. QED
        BY <2>1, <2>2
<1>7. QED
    BY <1>3, <1>4, <1>5, <1>6

LEMMA ReadInv ==
    ASSUME DirectoryInv, NEW q \in Requests,
           \/ ReadHandleOwner(q) \/ ReadOwnerHandle(q) \/ SimulateClaim(q)
           \/ ClaimedHandle(q) \/ ReadChain(q) \/ RequestFails(q)
    PROVE  DirectoryInv'
<1> USE DirectoryAssumption DEF DirectoryInv, Go
<1>0. /\ handle \in [Requests -> Handles \cup {NoHandle}]
      /\ found \in [Requests -> Users \cup {Nobody}]
      /\ q \in InFlight => handle[q] \in Handles /\ ownerOf[handle[q]] \in Users \cup {Nobody}
      /\ at[q] \in Claiming => op[q] = "claim"
    BY DEF DirectoryTypes, DirectoryTypeOK, RegistryTypeOK, InFlight
<1>1. CASE ReadHandleOwner(q)
    <2>1. q \in InFlight /\ op[q] = "claim"
        BY <1>0, <1>1 DEF ReadHandleOwner, InFlight, Claiming
    <2>2. PICK s \in {"own", "claimed", "failed"} :
              at' = [at EXCEPT ![q] = s] /\ (s = "claimed" => ownerOf[handle[q]] = Signer)
        BY <1>1, CallersAssumption DEF ReadHandleOwner
    <2>3. Local(q) /\ UNCHANGED <<op, handle, cached, found>>
        BY <1>1 DEF ReadHandleOwner
    <2>4. s \in {"own", "simulate", "claimed", "failed"} /\ op[q] = "claim"
        BY <1>0, <1>1, <2>1, <2>2 DEF ReadHandleOwner, Claiming
    <2>5. QED
        BY <1>0, <2>1, <2>2, <2>3, <2>4, LocalInv
<1>2. CASE ReadOwnerHandle(q)
    <2>1. q \in InFlight /\ (handleOf[Signer] = handle[q] => ownerOf[handle[q]] = Signer)
        BY <1>0, <1>2 DEF ReadOwnerHandle, InFlight, RegistryInv, RegistryBijective
    <2>2. PICK s \in {"simulate", "claimed", "failed"} :
              at' = [at EXCEPT ![q] = s] /\ (s = "claimed" => ownerOf[handle[q]] = Signer)
        BY <1>0, <1>2, <2>1, RegistryAssumption DEF ReadOwnerHandle
    <2>3. Local(q) /\ UNCHANGED <<op, handle, cached, found>>
        BY <1>2 DEF ReadOwnerHandle
    <2>4. s \in {"own", "simulate", "claimed", "failed"} /\ op[q] = "claim"
        BY <1>0, <1>2, <2>1, <2>2 DEF ReadOwnerHandle, Claiming
    <2>5. QED
        BY <1>0, <2>1, <2>2, <2>3, <2>4, LocalInv
<1>3. CASE SimulateClaim(q)
    BY <1>0, <1>3, LocalInv DEF SimulateClaim, InFlight, Claiming
<1>4. CASE ClaimedHandle(q)
    <2>1. /\ found' \in [Requests -> Users \cup {Nobody}] /\ found'[q] = Signer
          /\ \A r \in Requests \ {q} : found'[r] = found[r]
        BY <1>0, <1>4 DEF ClaimedHandle
    <2>2. QED
        BY <1>0, <1>4, <2>1, LocalInv DEF ClaimedHandle, InFlight, Claiming
<1>5. CASE ReadChain(q)
    <2>1. q \in InFlight
        BY <1>5 DEF ReadChain, InFlight
    <2>2. /\ found' \in [Requests -> Users \cup {Nobody}] /\ found'[q] = ownerOf[handle[q]]
          /\ \A r \in Requests \ {q} : found'[r] = found[r]
        BY <1>0, <1>5, <2>1 DEF ReadChain, ResolveHandle
    <2>3. QED
        BY <1>0, <1>5, <2>1, <2>2, LocalInv DEF ReadChain, Claiming
<1>6. CASE RequestFails(q)
    BY <1>0, <1>6, LocalInv DEF RequestFails, Claiming
<1>7. QED
    BY <1>1, <1>2, <1>3, <1>4, <1>5, <1>6

LEMMA ClaimMinedInv ==
    ASSUME DirectoryInv, NEW q \in Requests, ClaimMined(q)
    PROVE  DirectoryInv'
<1> USE DirectoryAssumption, CallersAssumption DEF DirectoryInv
<1> DEFINE h == handle[q]
<1>0. q \in InFlight /\ h \in Handles /\ op[q] = "claim"
    BY DEF ClaimMined, InFlight, DirectoryTypes, Claiming
<1>1. CASE CanClaim(Signer, h)
    <2>1. /\ Claim(Signer, h) /\ Witnessed({q}) /\ at' = [at EXCEPT ![q] = "claimed"]
          /\ UNCHANGED <<cache, walletCalls, op, handle, cached, found>>
        BY <1>1 DEF ClaimMined, Go
    <2>2. RegistryStep
        BY <1>0, <2>1 DEF RegistryStep
    <2>3. RegistryInv' /\ DOMAIN seen' = Requests
        BY <2>1, <2>2, RegistryWriteInv
    <2>4. ownerOf'[h] = Signer
        BY <1>0, <2>1 DEF Claim, RegistryInv, RegistryTypeOK
    <2>5. InFlight' = InFlight
        BY <1>0, <2>1 DEF InFlight, DirectoryTypes, DirectoryTypeOK
    <2>6. DirectoryTypes'
        BY <1>0, <2>1, <2>3, <2>5 DEF DirectoryTypes, DirectoryTypeOK, RegistryInv, Claiming
    <2>7. CacheOwned'
        BY <2>1, <2>2, RegistryWriteInv DEF CacheOwned
    <2>8. ASSUME NEW r \in Requests PROVE RequestInv(r)'
        <3>1. CASE r = q
            <4>1. <<h, Signer>> \in owned'
                BY <1>0, <2>1, <2>2, <2>4, RegistryWriteInv
            <4>2. ownerOf'[h] \in seen'[q] /\ at'[q] = "claimed"
                BY <1>0, <2>1, <2>2, RegistryWriteInv DEF DirectoryTypes, DirectoryTypeOK
            <4>3. QED
                BY <2>1, <2>4, <3>1, <4>1, <4>2 DEF RequestInv
        <3>2. CASE r # q
            <4>1. at'[r] = at[r]
                BY <2>1, <3>2 DEF DirectoryTypes, DirectoryTypeOK
            <4>2. owned \subseteq owned' /\ seen[r] \subseteq seen'[r]
                  /\ (r \in InFlight => ownerOf'[handle[r]] \in seen'[r] /\ r \in disturbed')
                BY <2>1, <2>2, <3>2, RegistryWriteInv
            <4>3. QED
                BY <2>1, <2>8, <4>1, <4>2 DEF RequestInv, InFlight
        <3>3. QED
            BY <3>1, <3>2
    <2>9. QED
        BY <2>3, <2>6, <2>7, <2>8
<1>2. CASE ~CanClaim(Signer, h)
    <2>1. Local(q) /\ at' = [at EXCEPT ![q] = "failed"] /\ UNCHANGED <<op, handle, cached, found>>
        BY <1>2 DEF ClaimMined, Go, AfterRevert, Local
    <2>2. found \in [Requests -> Users \cup {Nobody}]
        BY DEF DirectoryTypes, DirectoryTypeOK
    <2>3. QED
        BY <1>0, <2>1, <2>2, LocalInv DEF Claiming
<1>3. QED
    BY <1>1, <1>2

LEMMA WriteCacheInv ==
    ASSUME DirectoryInv, NEW q \in Requests, WriteCache(q)
    PROVE  /\ DirectoryInv'
           /\ cache'[handle[q]] = found[q]
<1> USE DirectoryAssumption, CallersAssumption DEF DirectoryInv
<1> DEFINE h == handle[q]
<1>1. /\ UNCHANGED <<ownerOf, handleOf, walletCalls, op, handle, cached, found, owned, seen>>
      /\ at[q] = "write" /\ at' = [at EXCEPT ![q] = "answered"]
      /\ disturbed' = disturbed \cup (InFlight \ {q})
    BY DEF WriteCache, Go, registryVars
<1>2. q \in InFlight /\ h \in Handles /\ found[q] \in Users \cup {Nobody}
      /\ cache \in [Handles -> Users \cup {Nobody}]
    BY <1>1 DEF InFlight, DirectoryTypes, DirectoryTypeOK
<1>3. /\ cache' \in [Handles -> Users \cup {Nobody}]
      /\ cache'[h] = found[q]
      /\ \A g \in Handles \ {h} : \/ cache'[g] = cache[g] /\ (found[q] = Nobody \/ cache[g] # found[q])
                                  \/ cache'[g] = Nobody
    BY <1>2 DEF WriteCache, Removed, Mirrored
<1>4. RegistryInv'
    BY <1>1 DEF RegistryInv, RegistryTypeOK, RegistryBijective
<1>5. \A f, g \in Handles : cache'[f] = cache'[g] /\ f # g => cache'[f] = Nobody
    BY <1>2, <1>3 DEF DirectoryTypes, DirectoryTypeOK
<1>6. DirectoryTypes'
    BY <1>1, <1>2, <1>3, <1>4, <1>5
       DEF DirectoryTypes, DirectoryTypeOK, RegistryInv, InFlight, Claiming
<1>7. CacheOwned'
    <2>1. found[q] # Nobody => <<h, found[q]>> \in owned
        BY <1>1 DEF RequestInv
    <2>2. QED
        BY <1>1, <1>2, <1>3, <2>1 DEF CacheOwned
<1>8. ASSUME NEW r \in Requests PROVE RequestInv(r)'
    <2>1. CASE r = q
        <3>1. at'[q] = "answered"
            BY <1>1 DEF DirectoryTypes, DirectoryTypeOK
        <3>2. QED
            BY <1>1, <1>8, <2>1, <3>1 DEF RequestInv, InFlight
    <2>2. CASE r # q
        <3>1. at'[r] = at[r]
            BY <1>1, <2>2 DEF DirectoryTypes, DirectoryTypeOK
        <3>2. QED
            BY <1>1, <1>8, <2>2, <3>1 DEF RequestInv, InFlight
    <2>3. QED
        BY <2>1, <2>2
<1>9. QED
    BY <1>3, <1>4, <1>6, <1>7, <1>8

(* What the directory does in a step of the service.                       *)
DirectoryStep ==
    \/ WalletCall
    \/ \E q \in Requests : RequestStep(q) \/ \E h \in Handles : ClaimHandle(q, h)

LEMMA NextIsDirectoryStep == [Next]_vars => [DirectoryStep]_dirVars
BY DEF Next, vars, DirectoryStep, PostHandles

LEMMA NextDirectory == DirectoryInv /\ [Next]_vars => DirectoryInv'
<1> SUFFICES ASSUME DirectoryInv, [DirectoryStep]_dirVars PROVE DirectoryInv'
    BY NextIsDirectoryStep
<1>1. CASE UNCHANGED dirVars
    <2>1. UNCHANGED <<ownerOf, handleOf, cache, at, op, handle, cached, found, walletCalls, owned,
                      seen, disturbed>>
        BY <1>1 DEF dirVars, registryVars, requestVars, historyVars
    <2>2. QED
        BY <2>1 DEF DirectoryInv, RegistryInv, RegistryTypeOK, RegistryBijective, DirectoryTypes,
                    DirectoryTypeOK, CacheOwned, RequestInv, InFlight
<1>2. CASE WalletCall
    BY <1>2, WalletCallInv
<1>3. ASSUME NEW q \in Requests, RequestStep(q) PROVE DirectoryInv'
    BY <1>3, ReadInv, ClaimMinedInv, WriteCacheInv, BeginInv DEF RequestStep
<1>4. ASSUME NEW q \in Requests, NEW h \in Handles, ClaimHandle(q, h) PROVE DirectoryInv'
    BY <1>4, BeginInv
<1>5. QED
    BY <1>1, <1>2, <1>3, <1>4 DEF DirectoryStep

LEMMA ServiceInvariance == Spec => [](IInv /\ AccessTypes /\ DirectoryInv)
<1>1. Init => IInv /\ AccessTypes /\ DirectoryInv
    BY InitInv, InitAccessTypes, InitDirectory DEF Init
<1>2. IInv /\ AccessTypes /\ [Next]_vars => AccessTypes'
    <2> SUFFICES ASSUME IInv, AccessTypes, [Next]_vars PROVE AccessTypes'
        OBVIOUS
    <2>1. CASE UNCHANGED accessVars
        BY <2>1 DEF accessVars, AccessTypes, AccessTypeOK, InviteTypes
    <2>2. QED
        BY <2>1, EventAccessTypes, StepAccessTypes DEF Next, vars
<1>3. QED
    BY <1>1, <1>2, NextInv, NextDirectory, PTL DEF Spec

(* Nobody but a past or present owner of a handle is paid through it, and  *)
(* a resolve the chain answered names an owner of that time: for any       *)
(* number of requests that read the contract and write the table in steps  *)
(* of their own, wallets that claim, release and transfer in between, and  *)
(* requests that fail anywhere.                                            *)
THEOREM AnswersAreOwned == Spec => []AnswersOwned
<1>1. AccessTypes /\ DirectoryInv => AnswersOwned
    BY DEF AccessTypes, DirectoryInv, DirectoryTypes, AnswersOwned, TypeOK, RecipientOwnedHandle,
           Recipient, ResolvedWhileAsked, CacheOwned, RequestInv
<1>2. QED
    BY <1>1, ServiceInvariance, PTL

(* A request that ran undisturbed leaves the table right about its handle. *)
Repairs ==
    \A q \in Requests :
        at'[q] = "answered" /\ at[q] # "answered" /\ q \notin disturbed
            => cache'[handle[q]] = ownerOf[handle[q]]

LEMMA StepRepairs == DirectoryInv /\ [DirectoryStep]_dirVars => [Repairs]_dirVars
<1> SUFFICES ASSUME DirectoryInv, DirectoryStep, NEW q \in Requests,
                    at'[q] = "answered", at[q] # "answered", q \notin disturbed
             PROVE  cache'[handle[q]] = ownerOf[handle[q]]
    BY DEF Repairs
<1> USE DEF DirectoryInv
<1>1. CASE WalletCall
    BY <1>1 DEF WalletCall, requestVars
<1>2. ASSUME NEW r \in Requests, RequestStep(r) \/ \E h \in Handles : ClaimHandle(r, h), r # q
      PROVE  FALSE
    <2>1. \E s : at' = [at EXCEPT ![r] = s]
        BY <1>2 DEF RequestStep, ClaimHandle, ReadCachedHandle, Begin, ReadHandleOwner,
                    ReadOwnerHandle, SimulateClaim, ClaimMined, ClaimedHandle, ReadChain,
                    RequestFails, WriteCache, Go
    <2>2. QED
        BY <1>2, <2>1 DEF DirectoryTypes, DirectoryTypeOK
<1>3. CASE WriteCache(q)
    BY <1>3, WriteCacheInv DEF WriteCache, RequestInv
<1>4. CASE ReadChain(q)
    <2>1. ~Mirrors(q) /\ UNCHANGED cache
        BY <1>4 DEF ReadChain, Go, Local, DirectoryTypes, DirectoryTypeOK
    <2>2. cached[q] = ownerOf[handle[q]] /\ at[q] = "chain"
        BY <1>4, <2>1 DEF ReadChain, ResolveHandle, Mirrors, DirectoryTypes, DirectoryTypeOK
    <2>3. QED
        BY <2>1, <2>2 DEF RequestInv
<1>5. ASSUME RequestStep(q) \/ \E h \in Handles : ClaimHandle(q, h), ~WriteCache(q), ~ReadChain(q)
      PROVE  FALSE
    <2>1. \E s \in {"owner", "own", "simulate", "mine", "claimed", "chain", "write", "failed"} :
              at' = [at EXCEPT ![q] = s]
        BY <1>5 DEF RequestStep, ClaimHandle, ReadCachedHandle, Begin, ReadHandleOwner,
                    ReadOwnerHandle, SimulateClaim, ClaimMined, ClaimedHandle,
                    RequestFails, Go, AfterRevert
    <2>2. QED
        BY <2>1 DEF DirectoryTypes, DirectoryTypeOK
<1>6. QED
    BY <1>1, <1>2, <1>3, <1>4, <1>5 DEF DirectoryStep

(* Whatever stale or missing row earlier requests left, a claim or a       *)
(* resolve during which nobody else wrote repairs it.                      *)
THEOREM UndisturbedRequestsRepair == Spec => UndisturbedRepairs
<1>1. DirectoryInv /\ [Next]_vars => [Repairs]_dirVars
    BY StepRepairs, NextIsDirectoryStep
<1>2. QED
    BY <1>1, ServiceInvariance, PTL DEF Spec, UndisturbedRepairs, Repairs
=============================================================================
