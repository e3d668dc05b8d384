----------------------------- MODULE Membership -----------------------------
(***************************************************************************)
(* The members of an organisation and who may transact on the chain        *)
(* (routes/orgs.ts, routes/admin.ts, orgs/access.ts).  A member's role is  *)
(* changed by one who outranks it.  The organisation's admins put members  *)
(* on the chain's transaction allow list and take them off; the network's  *)
(* admins do so with any address, and send gas.                            *)
(*                                                                         *)
(* A request reads, waits for the chain and writes in steps of its own and *)
(* can die between any two.  The account that sends its transactions is    *)
(* also onboarding's.                                                      *)
(***************************************************************************)
EXTENDS Onboarding

CONSTANTS InitialRoles, Subjects  \* Subjects: whom allow list and gas requests are about

ASSUME MembershipAssumption ==
    /\ InitialRoles \in [Users -> {"none", "viewer", "operator", "admin", "owner"}]
    /\ Subjects \subseteq Users

VARIABLES
    role,         \* org_members
    row,          \* status in org_member_allowlist
    asked,        \* the requests
    adminEnabled, \* history: users a network admin enabled
    outdated,     \* history: requests whose caller or target got another role meanwhile
    contended     \* history: users whose level was changed by two at once, or by an
                  \* outsider while the organisation had a row for them

membershipVars == <<role, row, asked, adminEnabled, outdated, contended>>
requestVars == <<role, row, adminEnabled, outdated, contended>>

ROLE_RANK == [none |-> -1, viewer |-> 0, operator |-> 1, admin |-> 2, owner |-> 3]
Settable == {"viewer", "operator", "admin"}
Unasked == [op |-> "none", by |-> Nobody, rank |-> -1, of |-> Nobody, as |-> "none", step |-> "unused"]

OrgOps == {"enable", "revoke"}
AdminOps == {"adminEnable", "adminRevoke"}
SentFor == [enable |-> "enable", revoke |-> "revoke", adminEnable |-> "enable",
            adminRevoke |-> "revoke", drip |-> "drip"]

MembershipTypeOK ==
    /\ role \in [Users -> DOMAIN ROLE_RANK]
    /\ row \in [Users -> {"none", "pending", "enabled", "revoked"}]
    /\ adminEnabled \subseteq Users /\ contended \subseteq Users /\ outdated \subseteq Requests

MembershipInit ==
    /\ role = InitialRoles
    /\ row = [u \in Users |-> "none"]
    /\ asked = [q \in Requests |-> Unasked]
    /\ adminEnabled = {} /\ outdated = {} /\ contended = {}

Unused(q) == asked[q].step = "unused"
InFlight(q) == asked[q].step \notin {"unused", "done"}
OnAllowList(q) == InFlight(q) /\ asked[q].op \in OrgOps \cup AdminOps
Step(q, from, to) == /\ asked[q].step = from
                     /\ asked' = [asked EXCEPT ![q].step = to]

-----------------------------------------------------------------------------
(* POST /orgs/:id/members.                                                 *)

AskMember(q, by, of, as) ==
    /\ Unused(q)
    /\ ROLE_RANK[role[by]] >= ROLE_RANK["admin"]
    /\ asked' = [asked EXCEPT ![q] = [op |-> "member", by |-> by, rank |-> ROLE_RANK[role[by]],
                                      of |-> of, as |-> as, step |-> "check"]]
    /\ UNCHANGED <<requestVars, onbVars>>

\* Mutant: a caller may modify a member of the same rank.
OutranksOrEquals(q) == ROLE_RANK[role[asked[q].of]] <= asked[q].rank

Outranks(q) == ROLE_RANK[role[asked[q].of]] < asked[q].rank

CheckRank(q) ==
    /\ Step(q, "check", IF Outranks(q) THEN "write" ELSE "done")
    /\ UNCHANGED <<requestVars, onbVars>>

WriteRole(q) ==
    LET of == asked[q].of IN
    /\ Step(q, "write", "done")
    /\ role' = [role EXCEPT ![of] = asked[q].as]
    /\ outdated' = outdated \cup {p \in Requests \ {q} : InFlight(p) /\ of \in {asked[p].by, asked[p].of}}
    /\ UNCHANGED <<row, adminEnabled, contended, onbVars>>

-----------------------------------------------------------------------------
(* POST and DELETE /orgs/:id/members/:address/allowlist, POST              *)
(* /admin/allowlist and POST /admin/drip.                                  *)

\* Another change of u's level is under way.
UnderWay(u) ==
    \/ \E q \in Requests : OnAllowList(q) /\ asked[q].of = u
    \/ \E i \in 1 .. Len(mempool) : mempool[i].to = u /\ mempool[i].do # "drip"

AskAllowList(q, op, by, of) ==
    /\ Unused(q)
    /\ op \in OrgOps => ROLE_RANK[role[by]] >= ROLE_RANK["admin"]
    /\ asked' = [asked EXCEPT ![q] = [Unasked EXCEPT !.op = op, !.of = of,
                                          !.step = IF op \in OrgOps THEN "load" ELSE "read"]]
    /\ contended' = IF UnderWay(of) THEN contended \cup {of} ELSE contended
    /\ adminEnabled' = IF op = "adminEnable" THEN adminEnabled \cup {of} ELSE adminEnabled
    /\ UNCHANGED <<role, row, outdated, onbVars>>

approvedKycOnboardingStatuses ==
    {"kyc_approved", "allowlisted", "gas_dripped", "awaiting_registration", "complete"}

KycApproved(u) == \/ u \in kyc
                  \/ u \in Newcomers /\ onboarding[u] \in approvedKycOnboardingStatuses

LoadMember(q) ==
    LET u == asked[q].of
        allowed == role[u] # "none" /\ (asked[q].op = "enable" => KycApproved(u))
    IN
    /\ Step(q, "load", IF allowed THEN "intent" ELSE "done")
    /\ UNCHANGED <<requestVars, onbVars>>

\* Mutant: the row is left as it is until the transaction is mined.
NoIntent(u) == row

PendingIntent(u) == [row EXCEPT ![u] = "pending"]

RecordIntent(q) ==
    /\ Step(q, "intent", "read")
    /\ row' = PendingIntent(asked[q].of)
    /\ UNCHANGED <<role, adminEnabled, outdated, contended, onbVars>>

ReadAllowList(q) ==
    LET already == (asked[q].of \in level) = (SentFor[asked[q].op] = "enable") IN
    /\ Step(q, "read", IF already THEN "record" ELSE "send")
    /\ UNCHANGED <<requestVars, onbVars>>

SendChange(q) ==
    /\ Step(q, "send", "wait")
    /\ Send(SentFor[asked[q].op], asked[q].of, q)
    /\ UNCHANGED <<requestVars, level, funded, registered, onbRowVars, onbQueueVars, handlerVars,
                   onbHistoryVars>>

AskDrip(q, of) ==
    /\ Unused(q) /\ of \in Newcomers
    /\ asked' = [asked EXCEPT ![q] = [Unasked EXCEPT !.op = "drip", !.of = of, !.step = "send"]]
    /\ UNCHANGED <<requestVars, onbVars>>

StatusAfter(op) == IF op = "enable" THEN "enabled" ELSE "revoked"

RecordChange(q) ==
    LET u == asked[q].of IN
    /\ Step(q, "record", "done")
    /\ row' = IF asked[q].op \in OrgOps THEN [row EXCEPT ![u] = StatusAfter(asked[q].op)] ELSE row
    /\ dripRow' = IF asked[q].op = "drip" THEN dripRow \cup {u} ELSE dripRow
    /\ UNCHANGED <<role, adminEnabled, outdated, contended, onboarding, kyc, onbChainVars,
                   onbQueueVars, handlerVars, onbHistoryVars>>

(* Onboarding goes on.  A transaction that is mined is waited for by the   *)
(* request that sent it, if that still lives.                              *)
Onboard ==
    LET flipped == (level \ level') \cup (level' \ level)
        mined == mempool # <<>> /\ mempool' = Tail(mempool)
        for == IF mined THEN Head(mempool).for ELSE Nobody
        waits == for # Nobody /\ asked[for].step = "wait"
        byOrg == for # Nobody /\ asked[for].op \in OrgOps
        asksMore(u) == \E q \in Requests \ {for} : OnAllowList(q) /\ asked[q].of = u
    IN
    /\ OnboardingNext
    /\ asked' = IF waits THEN [asked EXCEPT ![for].step = "record"] ELSE asked
    /\ contended' = IF byOrg THEN contended
                    ELSE contended \cup {u \in flipped : row[u] # "none" \/ asksMore(u)}
    /\ UNCHANGED <<role, row, adminEnabled, outdated>>

Die(q) ==
    /\ InFlight(q)
    /\ asked' = [asked EXCEPT ![q].step = "done"]
    /\ UNCHANGED <<requestVars, onbVars>>

Member(q) == \/ \E by, of \in Users, as \in Settable : AskMember(q, by, of, as)
             \/ CheckRank(q) \/ WriteRole(q)

\* What a network admin may ask for.
AdminRequest(q) ==
    \/ \E op \in AdminOps, of \in Subjects : AskAllowList(q, op, Nobody, of)
    \/ \E of \in Subjects : AskDrip(q, of)

AllowList(q) ==
    \/ \E op \in OrgOps, by \in Users, of \in Subjects : AskAllowList(q, op, by, of)
    \/ AdminRequest(q)
    \/ LoadMember(q) \/ RecordIntent(q) \/ ReadAllowList(q) \/ SendChange(q) \/ RecordChange(q)

-----------------------------------------------------------------------------
(* Nobody transacts without having passed KYC, but on a network admin's    *)
(* word.                                                                   *)
AllowlistedHasKyc == level \subseteq kyc \cup adminEnabled

(* As long as the organisation changes a user's level one request at a     *)
(* time, and nobody else does, its row never says what the chain denies: a *)
(* request that died half-way left the row pending.                        *)
AllowlistRowTrue ==
    \A u \in Users \ contended : /\ row[u] = "enabled" => u \in level
                                 /\ row[u] = "revoked" => u \notin level

(* A role is taken only by one who outranks it, or by a request that found *)
(* it so before another one changed the caller's or the member's role.     *)
(* The owner's is never taken.                                             *)
RoleChangedByHigher ==
    [][\A u \in Users : role'[u] # role[u] =>
        /\ role[u] # "owner"
        /\ \E q \in Requests : /\ asked[q].step = "write" /\ asked'[q].step = "done"
                               /\ asked[q].of = u
                               /\ \/ q \in outdated
                                  \/ ROLE_RANK[role[asked[q].by]] > ROLE_RANK[role[u]]]_role
=============================================================================
