--------------------------- MODULE HandleRegistry ---------------------------
(***************************************************************************)
(* The HandleRegistry contract (contracts/benzo/HandleRegistry.sol): a     *)
(* handle has at most one owner, an address at most one handle, and the    *)
(* two directions are kept in two mappings.                                *)
(***************************************************************************)
EXTENDS Callers

CONSTANTS Handles, NoHandle

ASSUME RegistryAssumption == NoHandle \notin Handles

VARIABLES ownerOf, handleOf

registryVars == <<ownerOf, handleOf>>

RegistryTypeOK ==
    /\ ownerOf \in [Handles -> Users \cup {Nobody}]
    /\ handleOf \in [Users -> Handles \cup {NoHandle}]

RegistryInit ==
    /\ ownerOf = [h \in Handles |-> Nobody]
    /\ handleOf = [u \in Users |-> NoHandle]

CanClaim(u, h) == ownerOf[h] = Nobody /\ handleOf[u] = NoHandle

Claim(u, h) ==
    /\ CanClaim(u, h)
    /\ ownerOf' = [ownerOf EXCEPT ![h] = u]
    /\ handleOf' = [handleOf EXCEPT ![u] = h]

Release(u) ==
    /\ handleOf[u] # NoHandle
    /\ ownerOf' = [ownerOf EXCEPT ![handleOf[u]] = Nobody]
    /\ handleOf' = [handleOf EXCEPT ![u] = NoHandle]

\* Mutant: the sender's own entry is not deleted.
TransferKeepingEntry(u, to) ==
    /\ to # u
    /\ handleOf[u] # NoHandle
    /\ handleOf[to] = NoHandle
    /\ handleOf' = [handleOf EXCEPT ![to] = handleOf[u]]
    /\ ownerOf' = [ownerOf EXCEPT ![handleOf[u]] = to]

TransferHandle(u, to) ==
    /\ to # u
    /\ handleOf[u] # NoHandle
    /\ handleOf[to] = NoHandle
    /\ handleOf' = [handleOf EXCEPT ![u] = NoHandle, ![to] = handleOf[u]]
    /\ ownerOf' = [ownerOf EXCEPT ![handleOf[u]] = to]

RegistryStep ==
    \E u \in Users : \/ \E h \in Handles : Claim(u, h)
                    \/ Release(u)
                    \/ \E to \in Users : TransferHandle(u, to)

RegistrySpec == RegistryInit /\ [][RegistryStep]_registryVars

-----------------------------------------------------------------------------
(* The two mappings are inverses of each other, whatever was claimed,      *)
(* released, claimed again by somebody else, or moved to another wallet.   *)
RegistryBijective ==
    \A u \in Users, h \in Handles : handleOf[u] = h <=> ownerOf[h] = u
=============================================================================
