------------------------------ MODULE Directory ------------------------------
(***************************************************************************)
(* Handles as the API sees them: the contract, the `handles` table that    *)
(* mirrors it, and the requests that read the one and write the other.     *)
(* A request's step ends where the code awaits the chain or the database.  *)
(*                                                                         *)
(* The API claims with its own key, so only the signer's own handle can be *)
(* claimed through it; wallets call the contract directly.                 *)
(***************************************************************************)
EXTENDS HandleRegistry, Naturals

CONSTANTS
    Signer,       \* the address of the API's operations key
    MaxWalletCalls \* bound on the calls wallets make themselves

ASSUME DirectoryAssumption == Signer \in Users /\ MaxWalletCalls \in Nat

VARIABLES
    cache,        \* handles table: the user each handle is mirrored to
    at, op, handle, \* a request's next step, its route, its handle
    cached, found, \* what it read from the table, and from the contract
    walletCalls,
    owned,        \* history: pairs that were once in the contract
    seen,         \* history: owners of a request's handle since it began
    disturbed     \* history: requests during which somebody else wrote

requestVars == <<at, op, handle, cached, found>>
historyVars == <<owned, seen, disturbed>>
dirVars == <<registryVars, cache, requestVars, walletCalls, historyVars>>

InFlight == {q \in Requests : at[q] \notin {"idle", "answered", "failed"}}

DirectoryTypeOK ==
    /\ RegistryTypeOK
    /\ cache \in [Handles -> Users \cup {Nobody}]
    /\ \A g, h \in Handles : cache[g] = cache[h] /\ g # h => cache[g] = Nobody
    /\ at \in [Requests -> {"idle", "owner", "own", "simulate", "mine", "claimed", "chain",
                            "write", "answered", "failed"}]
    /\ op \in [Requests -> {"none", "claim", "resolve"}]
    /\ cached \in [Requests -> Users \cup {Nobody}]
    /\ found \in [Requests -> Users \cup {Nobody}]
    /\ walletCalls \in 0 .. MaxWalletCalls

DirectoryInit ==
    /\ RegistryInit
    /\ cache = [h \in Handles |-> Nobody]
    /\ at = [q \in Requests |-> "idle"]
    /\ op = [q \in Requests |-> "none"]
    /\ handle = [q \in Requests |-> NoHandle]
    /\ cached = [q \in Requests |-> Nobody]
    /\ found = [q \in Requests |-> Nobody]
    /\ walletCalls = 0
    /\ owned = {} /\ disturbed = {}
    /\ seen = [q \in Requests |-> {}]

\* What a step that changed the contract leaves in the histories; `by` made it.
Witnessed(by) ==
    /\ owned' = owned \cup {<<h, ownerOf'[h]>> : h \in {g \in Handles : ownerOf'[g] # Nobody}}
    /\ seen' = [q \in Requests |-> IF q \in InFlight THEN seen[q] \cup {ownerOf'[handle[q]]}
                                                     ELSE seen[q]]
    /\ disturbed' = disturbed \cup (InFlight \ by)

\* A step of q that changes nothing but q.
Local(q) == UNCHANGED <<registryVars, cache, walletCalls, historyVars>>

Go(q, step) == at' = [at EXCEPT ![q] = step]

-----------------------------------------------------------------------------
(* Wallets call the contract.                                              *)
WalletCall ==
    /\ walletCalls < MaxWalletCalls
    /\ walletCalls' = walletCalls + 1
    /\ RegistryStep
    /\ Witnessed({})
    /\ UNCHANGED <<cache, requestVars>>

-----------------------------------------------------------------------------
(* POST /handles, for a user who is the signer.                            *)

Begin(q, route, h, step) ==
    /\ at[q] = "idle"
    /\ Go(q, step)
    /\ op' = [op EXCEPT ![q] = route]
    /\ handle' = [handle EXCEPT ![q] = h]
    /\ seen' = [seen EXCEPT ![q] = {ownerOf[h]}]
    /\ UNCHANGED <<registryVars, cache, walletCalls, owned, disturbed, found>>

ClaimHandle(q, h) == Begin(q, "claim", h, "owner") /\ UNCHANGED cached

ReadHandleOwner(q) ==
    /\ at[q] = "owner"
    /\ Go(q, CASE ownerOf[handle[q]] = Nobody -> "own"
               [] ownerOf[handle[q]] = Signer -> "claimed"
               [] OTHER -> "failed")
    /\ Local(q) /\ UNCHANGED <<op, handle, cached, found>>

ReadOwnerHandle(q) ==
    /\ at[q] = "own"
    /\ Go(q, CASE handleOf[Signer] = NoHandle -> "simulate"
               [] handleOf[Signer] = handle[q] -> "claimed"
               [] OTHER -> "failed")
    /\ Local(q) /\ UNCHANGED <<op, handle, cached, found>>

SimulateClaim(q) ==
    /\ at[q] = "simulate"
    /\ Go(q, IF CanClaim(Signer, handle[q]) THEN "mine" ELSE "failed")
    /\ Local(q) /\ UNCHANGED <<op, handle, cached, found>>

\* Mutant: the receipt's status is not looked at.
AfterReverted == "claimed"

\* A reverted receipt is thrown.
AfterRevert == "failed"

(* The transaction is mined, after whatever else was.                      *)
ClaimMined(q) ==
    /\ at[q] = "mine"
    /\ IF CanClaim(Signer, handle[q])
       THEN Claim(Signer, handle[q]) /\ Witnessed({q}) /\ Go(q, "claimed")
       ELSE UNCHANGED <<registryVars, historyVars>> /\ Go(q, AfterRevert)
    /\ UNCHANGED <<cache, walletCalls, op, handle, cached, found>>

\* The registration of the owner was read: the claim can be mirrored.
ClaimedHandle(q) ==
    /\ at[q] = "claimed"
    /\ found' = [found EXCEPT ![q] = Signer]
    /\ Go(q, "write")
    /\ Local(q) /\ UNCHANGED <<op, handle, cached>>

-----------------------------------------------------------------------------
(* GET /resolve/:handle.                                                   *)

ReadCachedHandle(q, h) ==
    /\ Begin(q, "resolve", h, "chain")
    /\ cached' = [cached EXCEPT ![q] = cache[h]]

ResolveHandle(q) == found' = [found EXCEPT ![q] = ownerOf[handle[q]]]

\* Mutant: the table is only written when it had nothing.
MirrorsWhenEmpty(q) == found'[q] = Nobody \/ cached[q] = Nobody

\* No owner: the row goes.  Another owner than the row read: it is mirrored.
Mirrors(q) == found'[q] = Nobody \/ cached[q] # found'[q]

ReadChain(q) ==
    /\ at[q] = "chain"
    /\ ResolveHandle(q)
    /\ Go(q, IF Mirrors(q) THEN "write" ELSE "answered")
    /\ Local(q) /\ UNCHANGED <<op, handle, cached>>

(* The chain or the database does not answer.  A resolve then falls back on *)
(* the row it read, and says so; a claim fails, whether or not the contract *)
(* was called.  (A claim mined after its request gave up is a wallet's.)    *)
RequestFails(q) ==
    /\ q \in InFlight
    /\ Go(q, "failed")
    /\ Local(q) /\ UNCHANGED <<op, handle, cached, found>>

-----------------------------------------------------------------------------
(* mirrorHandle and removeCachedHandle.                                    *)

Mirrored(h, u) ==
    [g \in Handles |-> CASE g = h -> u
                         [] g # h /\ cache[g] = u -> Nobody
                         [] OTHER -> cache[g]]

Removed(h) == [cache EXCEPT ![h] = Nobody]

WriteCache(q) ==
    /\ at[q] = "write"
    /\ cache' = IF found[q] = Nobody THEN Removed(handle[q]) ELSE Mirrored(handle[q], found[q])
    /\ disturbed' = disturbed \cup (InFlight \ {q})
    /\ Go(q, "answered")
    /\ UNCHANGED <<registryVars, walletCalls, op, handle, cached, found, owned, seen>>

\* POST /transfers/resolve-recipient answers from the table alone.
Recipient(h) == cache[h]

RequestStep(q) ==
    \/ ReadHandleOwner(q) \/ ReadOwnerHandle(q) \/ SimulateClaim(q) \/ ClaimMined(q)
    \/ ClaimedHandle(q) \/ ReadChain(q) \/ RequestFails(q) \/ WriteCache(q)
    \/ \E h \in Handles : ReadCachedHandle(q, h)

-----------------------------------------------------------------------------
(* A payment to a handle goes to an address that at some time owned it:    *)
(* neither a claim that lost its race nor a request overtaken by others    *)
(* puts anybody else in the table.                                         *)
RecipientOwnedHandle ==
    \A h \in Handles : Recipient(h) # Nobody => <<h, Recipient(h)>> \in owned

(* A resolve that the chain answered names an owner the handle had while   *)
(* the request ran.                                                        *)
ResolvedWhileAsked ==
    \A q \in Requests : op[q] = "resolve" /\ at[q] = "answered" => found[q] \in seen[q]

(* A request that nobody disturbed leaves the table agreeing with the      *)
(* contract on its handle, whatever earlier requests left there.           *)
UndisturbedRepairs ==
    [][\A q \in Requests :
        at'[q] = "answered" /\ at[q] # "answered" /\ q \notin disturbed
            => cache'[handle[q]] = ownerOf[handle[q]]]_dirVars
=============================================================================
