------------------------- MODULE CrossChainDeposit -------------------------
(***************************************************************************)
(* What the onramp promises, without pollers, rows or relayers: the        *)
(* message of a burn is deposited once or received for rescue once, never  *)
(* both; and what is reported of the burn is true for ever.                *)
(***************************************************************************)
EXTENDS Naturals

CONSTANTS
    Messages,    \* CCTP messages
    Burns,       \* burn transactions on the source chain
    MessagesOf   \* [Burns -> SUBSET Messages]

VARIABLES
    deposits,    \* how often each message was deposited
    received,    \* messages minted without a deposit
    outcome      \* what is reported of each burn

Init ==
    /\ deposits = [m \in Messages |-> 0]
    /\ received = {}
    /\ outcome = [b \in Burns |-> "open"]

Deposit(m) ==
    /\ deposits[m] = 0 /\ m \notin received
    /\ \A b \in Burns : m \in MessagesOf[b] => outcome[b] # "failed"
    /\ deposits' = [deposits EXCEPT ![m] = 1]
    /\ UNCHANGED <<received, outcome>>

Receive(m) ==
    /\ deposits[m] = 0 /\ m \notin received
    /\ received' = received \cup {m}
    /\ UNCHANGED <<deposits, outcome>>

(* Credited: the burn's money is on this chain.                            *)
ReportCredited(b) ==
    /\ outcome[b] = "open"
    /\ \E m \in MessagesOf[b] : deposits[m] = 1 \/ m \in received
    /\ outcome' = [outcome EXCEPT ![b] = "credited"]
    /\ UNCHANGED <<deposits, received>>

(* Failed: it was not deposited and will not be.                           *)
ReportFailed(b) ==
    /\ outcome[b] = "open"
    /\ \A m \in MessagesOf[b] : deposits[m] = 0
    /\ outcome' = [outcome EXCEPT ![b] = "failed"]
    /\ UNCHANGED <<deposits, received>>

Next ==
    \/ \E m \in Messages : Deposit(m) \/ Receive(m)
    \/ \E b \in Burns : ReportCredited(b) \/ ReportFailed(b)

Spec == Init /\ [][Next]_<<deposits, received, outcome>>
=============================================================================
