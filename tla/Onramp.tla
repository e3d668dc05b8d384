------------------------------- MODULE Onramp -------------------------------
(***************************************************************************)
(* The onramp: money burned on another chain is minted to the              *)
(* BenzoCCTPRouter and deposited into the recipient's encrypted balance.   *)
(* The API keeps one intent per burn transaction and a scheduled poller    *)
(* (services/api/src/onramp/poller.ts) takes the attested message of the   *)
(* burn to the router through its relayer account.                         *)
(*                                                                         *)
(* A message is known by its CCTP nonce.  A poller's step ends where the   *)
(* code awaits something others can interfere with; the intent it works on *)
(* is the copy it read at the start of its batch.                          *)
(***************************************************************************)
EXTENDS Integers, Sequences, FiniteSets, SequencesExt

CONSTANTS
    Users,
    Treasury,     \* the one of them that is an organisation's treasury
    Burns,        \* transactions on source chains
    Messages,     \* CCTP messages
    MessagesOf,   \* [Burns -> Seq(Messages)], in the order the API lists them
    To,           \* [Messages -> Users], the recipient named by the hook data
    Hook,         \* [Messages -> {"right", "wrong", "foreign", "malformed"}]
    NonceEarly,   \* messages whose nonce is known before they are attested
    Pollers,      \* job handlers of the poll queue
    BatchLimit,   \* intents one poll looks at
    NoMessage, Nobody,
    Faults,       \* which faults happen in this instance
    MaxFaults, MaxOwnerCalls  \* bounds

ASSUME OnrampAssumption ==
    /\ Treasury \in Users
    /\ MessagesOf \in [Burns -> Seq(Messages)]
    /\ To \in [Messages -> Users]
    /\ Hook \in [Messages -> {"right", "wrong", "foreign", "malformed"}]
    /\ NonceEarly \subseteq Messages
    /\ BatchLimit \in Nat \ {0}
    /\ Faults \subseteq {"expire", "timeout", "call"}
    /\ MaxFaults \in Nat /\ MaxOwnerCalls \in Nat
    /\ NoMessage \notin Messages

VARIABLES
    registered,   \* users in the token's registrar
    iris,         \* what the attestation service shows of each message
    used,         \* CCTP nonces the message transmitter has seen
    deposits,     \* how often each message was deposited by the router
    held, rescued, \* messages minted to the router, and from it to its owner
    allowed,      \* the router accepts the token
    status, owner, orgFunded, nonce, settleTx, \* onramp_intents
    earlier,      \* pairs of intents, the first one updated before the other
    mirror,       \* intents with a cctp row in treasury_deposits
    pc, batch, message, \* where a poller is, the rows left to do, the message taken
    late,         \* settle transactions nobody waits for any more
    faults, ownerCalls

chainVars == <<registered, used, deposits, held, rescued, allowed, late>>
intentVars == <<status, owner, orgFunded, nonce, settleTx, earlier>>
pollerVars == <<pc, batch, message>>
boundVars == <<faults, ownerCalls>>
vars == <<chainVars, iris, intentVars, mirror, pollerVars, boundVars>>

Fault(kind) ==
    /\ kind \in Faults
    /\ faults < MaxFaults
    /\ faults' = faults + 1
    /\ UNCHANGED ownerCalls

NonTerminal == {"initiated", "burned", "attested", "minted", "needs_onboarding"}

TRANSITIONS ==
    [initiated |-> {"burned", "needs_onboarding", "failed"},
     burned |-> {"attested", "needs_onboarding", "failed"},
     attested |-> {"minted", "needs_onboarding", "failed"},
     minted |-> {"needs_onboarding", "credited", "failed"},
     needs_onboarding |-> {"attested", "minted", "credited", "failed"},
     credited |-> {},
     failed |-> {}]

canTransition(from, to) == to \in TRANSITIONS[from]

-----------------------------------------------------------------------------
(* Chains and users.                                                       *)

Register(u) ==
    /\ u \notin registered
    /\ registered' = registered \cup {u}
    /\ UNCHANGED <<iris, used, deposits, held, rescued, allowed, late, intentVars, mirror,
                   pollerVars, boundVars>>

(* A burn is seen by the attestation service, and later attested.          *)
Attest(m) ==
    /\ iris[m] # "complete"
    /\ iris' = [iris EXCEPT ![m] = IF @ = "none" THEN "pending" ELSE "complete"]
    /\ UNCHANGED <<chainVars, intentVars, mirror, pollerVars, boundVars>>

\* Mutant: the nonce of the message is not looked at.
SettlesAgain(m) == Hook[m] = "right" /\ To[m] \in registered /\ allowed

(* settleDeposit executes: receiveMessage takes the nonce, the hook names  *)
(* this router and a registered user with its key, the token is allowed.   *)
Settles(m) == m \notin used /\ Hook[m] = "right" /\ To[m] \in registered /\ allowed

Settle(m) ==
    IF Settles(m)
    THEN /\ used' = used \cup {m}
         /\ deposits' = [deposits EXCEPT ![m] = @ + 1]
    ELSE UNCHANGED <<used, deposits>>

(* A settle transaction its poller gave up waiting for is mined.           *)
SettleLate(m) ==
    /\ m \in late
    /\ late' = late \ {m}
    /\ Settle(m)
    /\ UNCHANGED <<registered, held, rescued, allowed, iris, intentVars, mirror, pollerVars,
                   boundVars>>

OwnerCall ==
    /\ ownerCalls < MaxOwnerCalls
    /\ ownerCalls' = ownerCalls + 1
    /\ UNCHANGED <<registered, deposits, late, iris, intentVars, mirror, pollerVars, faults>>

ReceiveForRescue(m) ==
    /\ iris[m] = "complete" /\ Hook[m] # "foreign" /\ m \notin used
    /\ used' = used \cup {m}
    /\ held' = held \cup {m}
    /\ OwnerCall
    /\ UNCHANGED <<rescued, allowed>>

(* rescue takes the whole balance; with nothing held it changes nothing.   *)
Rescue ==
    /\ held # {}
    /\ rescued' = rescued \cup held
    /\ held' = {}
    /\ UNCHANGED <<registered, used, deposits, allowed, late, iris, intentVars, mirror,
                   pollerVars, boundVars>>

SetAllowedToken ==
    /\ allowed' = ~allowed
    /\ OwnerCall
    /\ UNCHANGED <<used, held, rescued>>

-----------------------------------------------------------------------------
(* Intents.                                                                *)

(* updatedAt is set to now.                                                *)
Touch(b) ==
    earlier' = {e \in earlier : b \notin {e[1], e[2]}}
                   \cup {<<c, b>> : c \in {c \in Burns \ {b} : status[c] # "none"}}

(* createIntent: one intent per burn transaction; a second one for it is   *)
(* answered with the first.                                                *)
InsertIntent(b, u, org) ==
    /\ status[b] = "none"
    /\ status' = [status EXCEPT ![b] = "initiated"]
    /\ owner' = [owner EXCEPT ![b] = u]
    /\ orgFunded' = [orgFunded EXCEPT ![b] = org]
    /\ Touch(b)
    /\ UNCHANGED <<chainVars, iris, nonce, settleTx, mirror, pollerVars, boundVars>>

(* POST /onramp/intents by a registered user, for any burn transaction; a  *)
(* treasury's key is the service's own, nobody is logged in with it.       *)
CreateIntent(u, b) == u \in registered \ {Treasury} /\ InsertIntent(b, u, FALSE)

(* POST /orgs/:id/treasury/fund-intent by an admin of the organisation.    *)
FundIntent(b) == Treasury \in registered /\ InsertIntent(b, Treasury, TRUE)

(* The row a poller works on, as it last read it.                          *)
row(p) == Head(batch[p])
burn(p) == row(p).burn

Go(p, from, to) ==
    /\ pc[p] = from
    /\ pc' = [pc EXCEPT ![p] = to]
    /\ UNCHANGED <<batch, message>>

(* On to the next row, or the job is done.                                 *)
NextRow(p) ==
    /\ pc' = [pc EXCEPT ![p] = IF Len(batch[p]) = 1 THEN "idle" ELSE "fetching"]
    /\ batch' = [batch EXCEPT ![p] = Tail(@)]
    /\ message' = [message EXCEPT ![p] = NoMessage]

(* An exception leaves the loop over the batch: the job fails.             *)
Throw(p) ==
    /\ pc' = [pc EXCEPT ![p] = "idle"]
    /\ batch' = [batch EXCEPT ![p] = <<>>]
    /\ message' = [message EXCEPT ![p] = NoMessage]

(* transitionIntent: checked against the row as it is now.                 *)
Transition(b, to) ==
    /\ canTransition(status[b], to)
    /\ status' = [status EXCEPT ![b] = to]
    /\ Touch(b)

SetNonce(b, m) == nonce' = [nonce EXCEPT ![b] = m]

-----------------------------------------------------------------------------
(* A poll.                                                                 *)

Snapshot(b) == [burn |-> b, status |-> status[b], nonce |-> nonce[b]]

(* On with the row as an update of it returned it.                         *)
Reread(p, r) == batch' = [batch EXCEPT ![p] = <<r>> \o Tail(@)]

Open == {b \in Burns : status[b] \in NonTerminal}

(* The n rows s are the open ones updated first, in that order, and all of *)
(* them if they are fewer than the limit.                                  *)
IsBatch(s, n) ==
    /\ \A j, k \in 1 .. n : j < k => <<s[j], s[k]>> \in earlier
    /\ \A b \in Open :
           \/ \E j \in 1 .. n : s[j] = b
           \/ n = BatchLimit /\ \A j \in 1 .. n : <<s[j], b>> \in earlier

ReadBatch(p) ==
    /\ pc[p] = "idle"
    /\ pc' = [pc EXCEPT ![p] = "fetching"]
    /\ \E n \in 1 .. BatchLimit : \E s \in [1 .. n -> Open] :
           /\ IsBatch(s, n)
           /\ batch' = [batch EXCEPT ![p] = [j \in 1 .. n |-> Snapshot(s[j])]]
    /\ UNCHANGED <<message, chainVars, iris, intentVars, mirror, ownerCalls>>

(* Handlers are alike: a job is taken by an idle one.                      *)
Idle == CHOOSE p \in Pollers : pc[p] = "idle"

Poll ==
    /\ \A other \in Pollers : pc[other] = "idle"
    /\ ReadBatch(Idle)
    /\ UNCHANGED faults

(* A job that ran for more than 300 seconds is expired, still runs, and    *)
(* the next one starts.                                                    *)
PollAfterExpiry ==
    /\ \E other \in Pollers : pc[other] # "idle"
    /\ \E other \in Pollers : pc[other] = "idle"
    /\ Fault("expire")
    /\ ReadBatch(Idle)

(* What the service lists for the transaction; nothing, before it has seen *)
(* the burn.                                                               *)
getMessages(b) == {m \in ToSet(MessagesOf[b]) : iris[m] # "none"}

IsComplete(m) == iris[m] = "complete"

(* The message is long enough and carries hook data of the right form.     *)
Decodes(m) == Hook[m] # "malformed"

First(b, listed) ==
    LET s == MessagesOf[b]
    IN  s[CHOOSE j \in DOMAIN s : s[j] \in listed /\ \A k \in 1 .. j - 1 : s[k] \notin listed]

(* The one of the stored nonce; without one the first complete message,    *)
(* else the first.                                                         *)
selectIrisMessage(intent) ==
    LET listed == getMessages(intent.burn)
        complete == {m \in listed : IsComplete(m)}
    IN  CASE intent.nonce \in listed -> intent.nonce
          [] intent.nonce = NoMessage /\ complete # {} -> First(intent.burn, complete)
          [] intent.nonce = NoMessage /\ complete = {} /\ listed # {} -> First(intent.burn, listed)
          [] OTHER -> NoMessage

(* processIntent up to its first write.                                    *)
Fetch(p) ==
    LET m == selectIrisMessage(row(p)) IN
    /\ pc[p] = "fetching"
    /\ CASE m = NoMessage -> NextRow(p)
         [] m # NoMessage /\ IsComplete(m) /\ ~Decodes(m) -> Throw(p)
         [] OTHER ->
             /\ pc' = [pc EXCEPT ![p] =
                    IF ~IsComplete(m) THEN "marking"
                    ELSE IF Hook[m] = "foreign" THEN "failing" ELSE "reassociating"]
             /\ message' = [message EXCEPT ![p] = m]
             /\ UNCHANGED batch
    /\ UNCHANGED <<chainVars, iris, intentVars, mirror, boundVars>>

(* markBurned                                                              *)
MarkBurned(p) ==
    /\ pc[p] = "marking"
    /\ \/ /\ \/ row(p).status = "initiated" /\ Transition(burn(p), "burned")
             \/ row(p).status # "initiated" /\ Touch(burn(p)) /\ UNCHANGED status
          /\ SetNonce(burn(p), IF message[p] \in NonceEarly THEN message[p] ELSE row(p).nonce)
          /\ NextRow(p)
          /\ UNCHANGED <<owner, orgFunded, settleTx>>
       \/ /\ row(p).status = "initiated" /\ ~canTransition(status[burn(p)], "burned")
          /\ Throw(p)
          /\ UNCHANGED intentVars
    /\ UNCHANGED <<chainVars, iris, mirror, boundVars>>

(* resolveUserKey against the key in the hook data.                        *)
AfterResolving(m) ==
    CASE To[m] \notin registered -> "parking"
      [] To[m] \in registered /\ Hook[m] = "wrong" -> "failing"
      [] OTHER -> "advancing"

\* Mutant: the row keeps the owner who created it.
ReassociateNonceOnly(p) ==
    /\ pc[p] = "reassociating"
    /\ SetNonce(burn(p), message[p])
    /\ Touch(burn(p))
    /\ pc' = [pc EXCEPT ![p] = AfterResolving(message[p])]
    /\ Reread(p, [Snapshot(burn(p)) EXCEPT !.nonce = message[p]])
    /\ UNCHANGED <<message, chainVars, iris, status, owner, orgFunded, settleTx, mirror, boundVars>>

(* reassociateIntent: the row now belongs to the recipient of the message. *)
Reassociate(p) ==
    /\ pc[p] = "reassociating"
    /\ owner' = [owner EXCEPT ![burn(p)] = To[message[p]]]
    /\ SetNonce(burn(p), message[p])
    /\ Touch(burn(p))
    /\ pc' = [pc EXCEPT ![p] = AfterResolving(message[p])]
    /\ Reread(p, [Snapshot(burn(p)) EXCEPT !.nonce = message[p]])
    /\ UNCHANGED <<message, chainVars, iris, status, orgFunded, settleTx, mirror, boundVars>>

(* The row read last allows the transition and the row as it is does not.  *)
Overtaken(p, to) ==
    canTransition(row(p).status, to) /\ ~canTransition(status[burn(p)], to)

(* parkNeedsOnboarding and failIntent: to that status if the row read last *)
(* allows it; else it is only patched.                                     *)
GiveUp(p, to) ==
    \/ /\ canTransition(row(p).status, to)
       /\ Transition(burn(p), to)
       /\ NextRow(p)
    \/ /\ Overtaken(p, to)
       /\ Throw(p)
       /\ UNCHANGED <<status, earlier>>
    \/ /\ ~canTransition(row(p).status, to)
       /\ Touch(burn(p))
       /\ NextRow(p)
       /\ UNCHANGED status

Park(p) ==
    /\ pc[p] = "parking"
    /\ GiveUp(p, "needs_onboarding")
    /\ IF Overtaken(p, "needs_onboarding") THEN UNCHANGED nonce ELSE SetNonce(burn(p), message[p])
    /\ UNCHANGED <<owner, orgFunded, settleTx, chainVars, iris, mirror, boundVars>>

Fail(p) ==
    /\ pc[p] = "failing"
    /\ GiveUp(p, "failed")
    /\ UNCHANGED <<owner, orgFunded, nonce, settleTx, chainVars, iris, mirror, boundVars>>

(* advanceToAttested, one transition at a time.                            *)
Successor == [initiated |-> "burned", burned |-> "attested", needs_onboarding |-> "attested"]

AdvanceToAttested(p) ==
    /\ pc[p] = "advancing"
    /\ \/ /\ row(p).status \in DOMAIN Successor
          /\ Transition(burn(p), Successor[row(p).status])
          /\ SetNonce(burn(p), message[p])
          /\ pc' = [pc EXCEPT ![p] = IF row(p).status = "initiated" THEN @ ELSE "settling"]
          /\ Reread(p, [row(p) EXCEPT !.status = Successor[@]])
          /\ UNCHANGED message
       \/ /\ row(p).status \in DOMAIN Successor
          /\ ~canTransition(status[burn(p)], Successor[row(p).status])
          /\ Throw(p)
          /\ UNCHANGED <<status, earlier, nonce>>
       \/ /\ row(p).status = "attested"
          /\ Go(p, "advancing", "settling")
          /\ SetNonce(burn(p), message[p])
          /\ Touch(burn(p))
          /\ UNCHANGED status
       \/ /\ row(p).status \notin DOMAIN Successor \cup {"attested"}
          /\ Go(p, "advancing", "settling")
          /\ UNCHANGED <<status, earlier, nonce>>
    /\ UNCHANGED <<owner, orgFunded, settleTx, chainVars, iris, mirror, boundVars>>

\* Mutant: a used nonce is an error like any other.
NeverReplay(m) == FALSE

(* handleSettleSendError: only the error of a used nonce counts as settled *)
(* already, without a hash.                                                *)
IsReplay(m) == m \in used

(* settleDeposit of the relayer: the estimate tells what would happen.     *)
SendSettle(p) ==
    /\ pc[p] = "settling"
    /\ IF ~IsReplay(message[p]) /\ ~Settles(message[p])
       THEN Throw(p)
       ELSE /\ pc' = [pc EXCEPT ![p] = IF IsReplay(message[p]) THEN "replayed" ELSE "awaiting"]
            /\ UNCHANGED <<batch, message>>
    /\ UNCHANGED <<chainVars, iris, intentVars, mirror, boundVars>>

(* The settle transaction is mined.                                        *)
SettleMined(p) ==
    /\ pc[p] = "awaiting"
    /\ Settle(message[p])
    /\ IF Settles(message[p])
       THEN /\ pc' = [pc EXCEPT ![p] = "settled"]
            /\ UNCHANGED <<batch, message>>
       ELSE Throw(p)
    /\ UNCHANGED <<registered, held, rescued, allowed, late, iris, intentVars, mirror, boundVars>>

(* markCredited, through minted to credited, from the row read last.       *)
Credit(p) ==
    \/ /\ row(p).status = "attested" /\ canTransition(status[burn(p)], "minted")
       /\ status' = [status EXCEPT ![burn(p)] = "credited"]
       /\ Touch(burn(p))
       /\ settleTx' = [settleTx EXCEPT ![burn(p)] =
                           IF pc[p] = "settled" THEN message[p] ELSE @]
       /\ NextRow(p)
    \/ /\ row(p).status = "attested" /\ ~canTransition(status[burn(p)], "minted")
       /\ Throw(p)
       /\ UNCHANGED <<status, earlier, settleTx>>
    \/ /\ row(p).status # "attested"
       /\ NextRow(p)
       /\ UNCHANGED <<status, earlier, settleTx>>

(* One database transaction: markCredited and finalizeTreasuryFunding.     *)
MarkCredited(p) ==
    /\ pc[p] \in {"settled", "replayed"}
    /\ Credit(p)
    /\ mirror' = IF orgFunded[burn(p)]
                     /\ (row(p).status = "attested" => status'[burn(p)] = "credited")
                  THEN mirror \cup {burn(p)} ELSE mirror
    /\ UNCHANGED <<owner, orgFunded, nonce, chainVars, iris, boundVars>>

-----------------------------------------------------------------------------
(* What goes wrong.                                                        *)

(* No receipt within 120 seconds; or any call fails, or the process dies:  *)
(* a settle transaction that was sent is still there.                      *)
Abandon(p) ==
    /\ pc[p] # "idle"
    /\ \/ pc[p] = "awaiting" /\ Fault("timeout")
       \/ Fault("call")
    /\ late' = IF pc[p] = "awaiting" THEN late \cup {message[p]} ELSE late
    /\ Throw(p)
    /\ UNCHANGED <<registered, used, deposits, held, rescued, allowed, iris, intentVars, mirror>>

-----------------------------------------------------------------------------
Init ==
    /\ registered = {Treasury}
    /\ iris = [m \in Messages |-> "none"]
    /\ used = {} /\ held = {} /\ rescued = {} /\ late = {}
    /\ deposits = [m \in Messages |-> 0]
    /\ allowed = TRUE
    /\ status = [b \in Burns |-> "none"]
    /\ owner = [b \in Burns |-> Nobody]
    /\ orgFunded = [b \in Burns |-> FALSE]
    /\ nonce = [b \in Burns |-> NoMessage]
    /\ settleTx = [b \in Burns |-> NoMessage]
    /\ earlier = {}
    /\ mirror = {}
    /\ pc = [p \in Pollers |-> "idle"]
    /\ batch = [p \in Pollers |-> <<>>]
    /\ message = [p \in Pollers |-> NoMessage]
    /\ faults = 0 /\ ownerCalls = 0

Process(p) ==
    \/ Fetch(p) \/ MarkBurned(p) \/ Reassociate(p)
    \/ Park(p) \/ Fail(p) \/ AdvanceToAttested(p)
    \/ SendSettle(p) \/ SettleMined(p) \/ MarkCredited(p)

Next ==
    \/ \E u \in Users : Register(u)
    \/ \E m \in Messages : Attest(m) \/ SettleLate(m) \/ ReceiveForRescue(m)
    \/ Rescue
    \/ SetAllowedToken
    \/ \E b \in Burns : FundIntent(b) \/ \E u \in Users : CreateIntent(u, b)
    \/ Poll
    \/ PollAfterExpiry
    \/ \E p \in Pollers : Process(p) \/ Abandon(p)

Spec == Init /\ [][Next]_vars

(* The schedule starts a poll every minute, a poll that runs goes on, and  *)
(* the chain mines.  Users and the router's owner do as they please.       *)
FairSpec ==
    /\ Spec
    /\ WF_vars(Poll)
    /\ \A p \in Pollers : WF_vars(Process(p))
    /\ WF_vars(\E m \in Messages : SettleLate(m))

-----------------------------------------------------------------------------
Rows == [burn : Burns, status : DOMAIN TRANSITIONS, nonce : Messages \cup {NoMessage}]

TypeOK ==
    /\ registered \subseteq Users
    /\ iris \in [Messages -> {"none", "pending", "complete"}]
    /\ used \subseteq Messages /\ held \subseteq Messages /\ rescued \subseteq Messages
    /\ late \subseteq Messages
    /\ deposits \in [Messages -> Nat]
    /\ allowed \in BOOLEAN
    /\ status \in [Burns -> DOMAIN TRANSITIONS \cup {"none"}]
    /\ owner \in [Burns -> Users \cup {Nobody}]
    /\ orgFunded \in [Burns -> BOOLEAN]
    /\ nonce \in [Burns -> Messages \cup {NoMessage}]
    /\ settleTx \in [Burns -> Messages \cup {NoMessage}]
    /\ earlier \subseteq Burns \X Burns
    /\ mirror \subseteq Burns
    /\ pc \in [Pollers -> {"idle", "fetching", "marking", "reassociating", "parking",
                           "failing", "advancing", "settling", "awaiting", "settled", "replayed"}]
    /\ batch \in [Pollers -> Seq(Rows)]
    /\ message \in [Pollers -> Messages \cup {NoMessage}]
    /\ faults \in 0 .. MaxFaults /\ ownerCalls \in 0 .. MaxOwnerCalls

(* Whoever registered a burn first, the intent reported credited belongs   *)
(* to the recipient of a message of that burn, and its hash is of that     *)
(* message: a preclaim "can neither block the real recipient nor misdirect *)
(* funds".                                                                 *)
CreditedToRecipient ==
    \A b \in Burns : status[b] = "credited" =>
        \E m \in ToSet(MessagesOf[b]) :
            m \in used /\ owner[b] = To[m] /\ settleTx[b] \in {NoMessage, m}

(* The treasury ledger shows a funding exactly when it was credited.       *)
MirrorIsCredited ==
    \A b \in Burns : b \in mirror <=> orgFunded[b] /\ status[b] = "credited"

(* Together: what the intents and the treasury ledger report credited went *)
(* to whom they say.                                                       *)
CreditsTrue == TypeOK /\ CreditedToRecipient /\ MirrorIsCredited

(* What the router and the API do with a burn is what CrossChainDeposit    *)
(* promises: no retry, expired job or late transaction deposits twice, and *)
(* what is reported failed is not deposited later.                         *)
Outcome(b) == IF status[b] \in {"credited", "failed"} THEN status[b] ELSE "open"

Promise == INSTANCE CrossChainDeposit WITH
    MessagesOf <- [b \in Burns |-> ToSet(MessagesOf[b])],
    received <- held \cup rescued,
    outcome <- [b \in Burns |-> Outcome(b)]

ImplementsPromise == Promise!Spec

(* A burn that can be deposited is credited, whatever faults happen, if    *)
(* the token ends up allowed and no message is one that cannot be decoded: *)
(* such a one would stop the batch at every poll.                          *)
Deliverable(b) ==
    /\ status[b] \in NonTerminal
    /\ \A m \in ToSet(MessagesOf[b]) :
           iris[m] = "complete" /\ Hook[m] = "right" /\ To[m] \in registered

DeliverableIsCredited ==
    (<>[]allowed /\ \A m \in Messages : Hook[m] # "malformed") =>
        \A b \in Burns : Deliverable(b) ~> status[b] = "credited"
=============================================================================
