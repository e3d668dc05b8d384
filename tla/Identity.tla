------------------------------ MODULE Identity ------------------------------
(***************************************************************************)
(* The identity service: the handle directory behind its sign-in.  A       *)
(* handle is claimed by a caller with a session; the session is looked at  *)
(* once, when the request arrives.                                         *)
(***************************************************************************)
EXTENDS Directory, Access

vars == <<dirVars, accessVars>>

Init == DirectoryInit /\ AccessInit

(* A request is of one of the two kinds.                                   *)
Idle(q) == at[q] = "idle" /\ step[q] = "idle"

PostHandles(q, h) ==
    /\ Idle(q) /\ RequireAuth(Signer)
    /\ ClaimHandle(q, h)

Next ==
    \/ /\ \/ WalletCall
          \/ \E q \in Requests : \/ step[q] = "idle" /\ RequestStep(q)
                                 \/ \E h \in Handles : PostHandles(q, h)
       /\ UNCHANGED accessVars
    \/ /\ AccessEvent \/ \E q \in Requests : at[q] = "idle" /\ AccessStep(q)
       /\ UNCHANGED dirVars

Spec == Init /\ [][Next]_vars

-----------------------------------------------------------------------------
TypeOK == DirectoryTypeOK /\ AccessTypeOK

(* Together: a name never stands for somebody it did not belong to, in the *)
(* table payments use and in the answers the chain gave.                   *)
AnswersOwned == TypeOK /\ RecipientOwnedHandle /\ ResolvedWhileAsked
=============================================================================
