------------------------------- MODULE Payout -------------------------------
(***************************************************************************)
(* What a payroll promises about each of its items: it is paid at most     *)
(* once, reported confirmed only when it was paid, and reported failed     *)
(* only when it was not and never will be.                                 *)
(***************************************************************************)
EXTENDS Naturals

CONSTANT Items

VARIABLES
    paid,    \* times the recipient received the amount
    outcome  \* what the payroll reports

vars == <<paid, outcome>>

Init ==
    /\ paid = [i \in Items |-> 0]
    /\ outcome = [i \in Items |-> "open"]

Pay(i) ==
    /\ outcome[i] = "open"
    /\ paid[i] = 0
    /\ paid' = [paid EXCEPT ![i] = 1]
    /\ UNCHANGED outcome

Confirm(i) ==
    /\ outcome[i] = "open"
    /\ paid[i] = 1
    /\ outcome' = [outcome EXCEPT ![i] = "confirmed"]
    /\ UNCHANGED paid

Fail(i) ==
    /\ outcome[i] = "open"
    /\ paid[i] = 0
    /\ outcome' = [outcome EXCEPT ![i] = "failed"]
    /\ UNCHANGED paid

Next == \E i \in Items : Pay(i) \/ Confirm(i) \/ Fail(i)

Spec == Init /\ [][Next]_vars
=============================================================================
