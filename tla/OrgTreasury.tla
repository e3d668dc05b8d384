---------------------------- MODULE OrgTreasury ----------------------------
(***************************************************************************)
(* Provisioning an organisation's managed treasury (POST                   *)
(* /orgs/:id/treasury).  A request that finds no treasury creates its row; *)
(* one that finds it not registered yet goes on where another stopped.     *)
(* The eERC key is sealed in the row before the treasury's address is      *)
(* registered with it, for the registrar takes an address once: a key      *)
(* registered and not sealed loses the treasury's funds.                   *)
(*                                                                         *)
(* A key is named by the request that created it.  The allow list and the  *)
(* gas of the treasury's address are left out: a registration the chain    *)
(* does not accept ends its request like any other error.                  *)
(***************************************************************************)
EXTENDS Callers

VARIABLES
    treasury,      \* the row in org_treasuries: none, created or registered
    sealedKey,     \* its sealed_eerc_key
    registeredKey, \* the key the registrar has for its address
    sending,       \* requests whose registration is not mined
    step,          \* a request's next step
    key            \* the key a request read or created

treasuryVars == <<treasury, sealedKey, registeredKey, sending, step, key>>
Keys == Requests \cup {Nobody}

TreasuryTypeOK ==
    /\ treasury \in {"none", "created", "registered"}
    /\ sealedKey \in Keys /\ registeredKey \in Keys
    /\ sending \subseteq Requests
    /\ step \in [Requests -> {"unused", "find", "insert", "key", "check", "send", "wait", "stamp", "done"}]
    /\ key \in [Requests -> Keys]

TreasuryInit ==
    /\ treasury = "none" /\ sealedKey = Nobody /\ registeredKey = Nobody
    /\ sending = {}
    /\ step = [q \in Requests |-> "unused"]
    /\ key = [q \in Requests |-> Nobody]

Goes(q, from, to) == step[q] = from /\ step' = [step EXCEPT ![q] = to]

Provision(q) ==
    /\ Goes(q, "unused", "find")
    /\ UNCHANGED <<treasury, sealedKey, registeredKey, sending, key>>

(* The row is read, with the key it holds by now.                          *)
FindTreasury(q) ==
    /\ Goes(q, "find", CASE treasury = "none" -> "insert"
                         [] treasury = "created" -> "key"
                         [] OTHER -> "done")
    /\ key' = [key EXCEPT ![q] = sealedKey]
    /\ UNCHANGED <<treasury, sealedKey, registeredKey, sending>>

InsertTreasury(q) ==
    /\ Goes(q, "insert", IF treasury = "none" THEN "key" ELSE "done")
    /\ treasury' = IF treasury = "none" THEN "created" ELSE treasury
    /\ UNCHANGED <<sealedKey, registeredKey, sending, key>>

\* Mutant: the key a request created replaces the one of another.
SealOver(q) == q

SealIfNone(q) == IF sealedKey = Nobody THEN q ELSE sealedKey

loadOrCreateTreasuryEercAccount(q) ==
    /\ Goes(q, "key", "check")
    /\ sealedKey' = IF key[q] = Nobody THEN SealIfNone(q) ELSE sealedKey
    /\ key' = [key EXCEPT ![q] = IF @ = Nobody THEN sealedKey' ELSE @]
    /\ UNCHANGED <<treasury, registeredKey, sending>>

CheckRegistered(q) ==
    /\ Goes(q, "check", CASE registeredKey = Nobody -> "send"
                          [] registeredKey = key[q] -> "stamp"
                          [] OTHER -> "done")
    /\ UNCHANGED <<treasury, sealedKey, registeredKey, sending, key>>

SendRegistration(q) ==
    /\ Goes(q, "send", "wait")
    /\ sending' = sending \cup {q}
    /\ UNCHANGED <<treasury, sealedKey, registeredKey, key>>

(* The registrar takes the first registration of an address.  A request    *)
(* that waits for one that reverts ends.                                   *)
MineRegistration(q) ==
    /\ q \in sending
    /\ sending' = sending \ {q}
    /\ registeredKey' = IF registeredKey = Nobody THEN key[q] ELSE registeredKey
    /\ step' = IF step[q] # "wait" THEN step
               ELSE [step EXCEPT ![q] = IF registeredKey = Nobody THEN "stamp" ELSE "done"]
    /\ UNCHANGED <<treasury, sealedKey, key>>

StampRegistered(q) ==
    /\ Goes(q, "stamp", "done")
    /\ treasury' = "registered"
    /\ UNCHANGED <<sealedKey, registeredKey, sending, key>>

StopProvision(q) ==
    /\ step[q] \notin {"unused", "done"}
    /\ step' = [step EXCEPT ![q] = "done"]
    /\ UNCHANGED <<treasury, sealedKey, registeredKey, sending, key>>

ProvisionStep(q) ==
    \/ FindTreasury(q) \/ InsertTreasury(q) \/ loadOrCreateTreasuryEercAccount(q)
    \/ CheckRegistered(q) \/ SendRegistration(q) \/ MineRegistration(q)
    \/ StampRegistered(q) \/ StopProvision(q)

TreasuryNext == \E q \in Requests : Provision(q) \/ ProvisionStep(q)

-----------------------------------------------------------------------------
(* The treasury is registered with the key its row holds, whatever         *)
(* requests race or die, and a row that says registered is.                *)
RegisteredKeyIsSealed ==
    /\ registeredKey # Nobody => registeredKey = sealedKey
    /\ treasury = "registered" => registeredKey # Nobody
=============================================================================
