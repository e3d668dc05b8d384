------------------------------- MODULE Access -------------------------------
(***************************************************************************)
(* Signing in and invitations: SIWE nonces and the sessions they open      *)
(* (routes/auth.ts, plugins/auth.ts), and invites that are created, read,  *)
(* claimed and expire (routes/identity.ts, identity/invites.ts).  A call's *)
(* step ends where the code awaits the database or the signature check.    *)
(***************************************************************************)
EXTENDS Callers, Naturals

CONSTANTS
    Nonces, AddressOf, \* SIWE nonces, and the address each is asked for
    Invites,
    InitialSessions  \* users with a session to begin with

ASSUME AccessAssumption == InitialSessions \subseteq Users /\ AddressOf \in [Nonces -> Users]

VARIABLES
    nonce,           \* siwe_nonces: none, live, lapsed or deleted
    sessions,        \* users with a session
    opened,          \* history: sessions a nonce opened
    invite, claimedBy, lapsed, \* invites: status, claimer; those whose time is up
    step, about, inTime \* a call's next step, its nonce or invite and caller; claimed in time

accessVars == <<nonce, sessions, opened, invite, claimedBy, lapsed, step, about, inTime>>

AccessTypeOK ==
    /\ nonce \in [Nonces -> {"none", "live", "lapsed", "deleted"}]
    /\ sessions \subseteq Users
    /\ opened \in [Nonces -> Nat]
    /\ invite \in [Invites -> {"none", "created", "claimed", "expired"}]
    /\ \A v \in Invites : claimedBy[v] # Nobody <=> invite[v] = "claimed"
    /\ step \in [Requests -> {"idle", "verify", "session", "take", "find", "available", "done"}]

AccessInit ==
    /\ nonce = [n \in Nonces |-> "none"]
    /\ sessions = InitialSessions
    /\ opened = [n \in Nonces |-> 0]
    /\ invite = [v \in Invites |-> "none"]
    /\ claimedBy = [v \in Invites |-> Nobody]
    /\ lapsed = {}
    /\ step = [q \in Requests |-> "idle"]
    /\ about = [q \in Requests |-> [of |-> Nobody, user |-> Nobody]]
    /\ inTime = [q \in Requests |-> FALSE]

sessionVars == <<nonce, sessions, opened>>
inviteVars == <<invite, claimedBy, lapsed>>
callVars == <<step, about, inTime>>

\* plugins/auth.ts: the caller has a session that has not expired.
RequireAuth(u) == u \in sessions

To(q, s) == step' = [step EXCEPT ![q] = s] /\ UNCHANGED <<about, inTime>>

-----------------------------------------------------------------------------
(* Sessions.                                                               *)

AskNonce(n) ==
    /\ nonce[n] = "none"
    /\ nonce' = [nonce EXCEPT ![n] = "live"]
    /\ UNCHANGED <<sessions, opened, inviteVars, callVars>>

NonceLapses(n) ==
    /\ nonce[n] = "live"
    /\ nonce' = [nonce EXCEPT ![n] = "lapsed"]
    /\ UNCHANGED <<sessions, opened, inviteVars, callVars>>

\* Mutant: the nonce is looked up, and deleted only with the session.
ConsumeByLookup(n, u) == nonce[n] = "live" /\ AddressOf[n] = u /\ UNCHANGED nonce

(* One statement deletes the nonce and tells whether it was there.         *)
ConsumeLiveNonce(n, u) ==
    /\ nonce[n] = "live" /\ AddressOf[n] = u
    /\ nonce' = [nonce EXCEPT ![n] = "deleted"]

Verify(q, n, u) ==
    /\ step[q] = "idle"
    /\ ConsumeLiveNonce(n, u)
    /\ step' = [step EXCEPT ![q] = "verify"]
    /\ about' = [about EXCEPT ![q] = [of |-> n, user |-> u]]
    /\ UNCHANGED <<sessions, opened, inviteVars, inTime>>

(* The signature is the address's own, or it is not.                       *)
CheckSignature(q) ==
    /\ step[q] = "verify"
    /\ \E verified \in BOOLEAN : To(q, IF verified THEN "session" ELSE "done")
    /\ UNCHANGED <<sessionVars, inviteVars>>

CreateSession(q) ==
    /\ step[q] = "session"
    /\ sessions' = sessions \cup {about[q].user}
    /\ opened' = [opened EXCEPT ![about[q].of] = @ + 1]
    /\ To(q, "done")
    /\ UNCHANGED <<nonce, inviteVars>>

(* POST /auth/logout, or the session expires.                              *)
EndSession(u) ==
    /\ u \in sessions
    /\ sessions' = sessions \ {u}
    /\ UNCHANGED <<nonce, opened, inviteVars, callVars>>

-----------------------------------------------------------------------------
(* Invites.                                                                *)

CreateInvite(v, u) ==
    /\ RequireAuth(u)
    /\ invite[v] = "none"
    /\ invite' = [invite EXCEPT ![v] = "created"]
    /\ UNCHANGED <<claimedBy, lapsed, sessionVars, callVars>>

InviteLapses(v) ==
    /\ invite[v] # "none" /\ v \notin lapsed
    /\ lapsed' = lapsed \cup {v}
    /\ UNCHANGED <<invite, claimedBy, sessionVars, callVars>>

(* The time is taken when the request arrives.                             *)
ClaimInvite(q, v, u) ==
    /\ step[q] = "idle"
    /\ RequireAuth(u)
    /\ invite[v] # "none"
    /\ step' = [step EXCEPT ![q] = "take"]
    /\ about' = [about EXCEPT ![q] = [of |-> v, user |-> u]]
    /\ inTime' = [inTime EXCEPT ![q] = v \notin lapsed]
    /\ UNCHANGED <<sessionVars, inviteVars>>

TakeInvite(q) ==
    LET v == about[q].of IN
    /\ step[q] = "take"
    /\ IF invite[v] = "created" /\ inTime[q]
       THEN /\ invite' = [invite EXCEPT ![v] = "claimed"]
            /\ claimedBy' = [claimedBy EXCEPT ![v] = about[q].user]
            /\ To(q, "done")
       ELSE To(q, "find") /\ UNCHANGED <<invite, claimedBy>>
    /\ UNCHANGED <<lapsed, sessionVars>>

(* GET /invites/:token, and what a claim that took nothing does next.      *)
ReadInvite(q, v) ==
    /\ step[q] = "idle"
    /\ invite[v] # "none"
    /\ step' = [step EXCEPT ![q] = "find"]
    /\ about' = [about EXCEPT ![q] = [of |-> v, user |-> Nobody]]
    /\ UNCHANGED <<inTime, sessionVars, inviteVars>>

FindInviteForToken(q) ==
    /\ step[q] = "find"
    /\ To(q, IF invite[about[q].of] = "created" THEN "available" ELSE "done")
    /\ UNCHANGED <<sessionVars, inviteVars>>

Expired(v) == invite' = [invite EXCEPT ![v] = "expired"]

\* Mutant: the update trusts the status read before.
ExpireIfStillRead(v) == Expired(v) /\ claimedBy' = [claimedBy EXCEPT ![v] = Nobody]

ExpireIfCreated(v) ==
    /\ IF invite[v] = "created" THEN Expired(v) ELSE UNCHANGED invite
    /\ UNCHANGED claimedBy

(* The row read was open: if its time is up by now it is expired.          *)
EnsureInviteAvailable(q) ==
    LET v == about[q].of IN
    /\ step[q] = "available"
    /\ IF v \in lapsed THEN ExpireIfCreated(v) ELSE UNCHANGED <<invite, claimedBy>>
    /\ To(q, "done")
    /\ UNCHANGED <<lapsed, sessionVars>>

(* The hourly job.                                                         *)
ExpireCreatedInvites ==
    /\ \E v \in Invites : invite[v] = "created" /\ v \in lapsed
    /\ invite' = [v \in Invites |-> IF invite[v] = "created" /\ v \in lapsed THEN "expired"
                                                                             ELSE invite[v]]
    /\ UNCHANGED <<claimedBy, lapsed, sessionVars, callVars>>

AccessStep(q) ==
    \/ \E u \in Users : \/ \E n \in Nonces : Verify(q, n, u)
                        \/ \E v \in Invites : ClaimInvite(q, v, u)
    \/ CheckSignature(q) \/ CreateSession(q) \/ TakeInvite(q)
    \/ \E v \in Invites : ReadInvite(q, v)
    \/ FindInviteForToken(q) \/ EnsureInviteAvailable(q)

AccessEvent ==
    \/ \E n \in Nonces : AskNonce(n) \/ NonceLapses(n)
    \/ \E u \in Users : EndSession(u) \/ \E v \in Invites : CreateInvite(v, u)
    \/ \E v \in Invites : InviteLapses(v)
    \/ ExpireCreatedInvites

-----------------------------------------------------------------------------
(* A nonce opens at most one session, however many requests bring it.      *)
OneSessionPerNonce == \A n \in Nonces : opened[n] <= 1

(* Claimed or expired is the last word on an invite, and the one who       *)
(* claimed it stays the one: late readers and the job change nothing.      *)
InviteOutcomeFinal ==
    [][\A v \in Invites : invite[v] \in {"claimed", "expired"}
            => invite'[v] = invite[v] /\ claimedBy'[v] = claimedBy[v]]_accessVars
=============================================================================
