---------------------------- MODULE Organisation ----------------------------
(* An organisation: its members, whose onboarding goes on meanwhile, and   *)
(* the provisioning of its treasury by its admins.                         *)
EXTENDS Membership, OrgTreasury

vars == <<onbVars, membershipVars, treasuryVars>>

Init == OnboardingInit /\ MembershipInit /\ TreasuryInit

ProvisionByAdmin(q) ==
    /\ Unused(q)
    /\ \E by \in Users : ROLE_RANK[role[by]] >= ROLE_RANK["admin"]
    /\ Provision(q)

Next ==
    \/ /\ \/ Onboard
          \/ \E q \in Requests : step[q] = "unused" /\ (Member(q) \/ AllowList(q) \/ Die(q))
       /\ UNCHANGED treasuryVars
    \/ /\ \E q \in Requests : ProvisionByAdmin(q) \/ ProvisionStep(q)
       /\ UNCHANGED <<onbVars, membershipVars>>

Spec == Init /\ [][Next]_vars

-----------------------------------------------------------------------------
TypeOK == MembershipTypeOK /\ TreasuryTypeOK

(* Together: whoever transacts passed KYC or has an admin's word for it,   *)
(* and the organisation's own list says of the chain what is true.         *)
AllowlistTrue == TypeOK /\ AllowlistedHasKyc /\ AllowlistRowTrue
=============================================================================
