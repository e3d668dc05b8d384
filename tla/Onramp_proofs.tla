---------------------------- MODULE Onramp_proofs ----------------------------
(***************************************************************************)
(* Theorems about Onramp, for any number of users, burns, messages,        *)
(* pollers, expired jobs, late receipts, failed calls and calls of the     *)
(* router's owner, where every burn transaction carries one message.  With *)
(* two messages in one transaction the intent stands for both, and what is *)
(* reported of it need not be true of each.                                *)
(***************************************************************************)
EXTENDS Onramp, TLAPS

OneMessageEach == \A b \in Burns : Len(MessagesOf[b]) = 1

Msg(b) == MessagesOf[b][1]

-----------------------------------------------------------------------------
(* The inductive invariant.                                                *)

(* A message the router never deposits.                                    *)
Bad == {"wrong", "foreign"}

(* Where a poller has the message of its row, where it found that it is to *)
(* be deposited, where the row is attested, and where it is settled.       *)
Taken == {"marking", "reassociating", "parking", "failing"}
Advancing == {"advancing", "settling", "awaiting", "settled", "replayed"}
Settling == Advancing \ {"advancing"}
Settled == {"settled", "replayed"}

(* A row as a poller read it: what was final when it was read still is.    *)
ReadInv(r) ==
    /\ r.status # "minted" /\ status[r.burn] # "none"
    /\ r.status \in {"credited", "failed"} => status[r.burn] = r.status

PollerInv(p) ==
    /\ pc[p] = "idle" <=> batch[p] = <<>>
    /\ \A j \in 1 .. Len(batch[p]) : ReadInv(batch[p][j])
    /\ pc[p] \in Taken \cup Advancing => message[p] = Msg(burn(p))
    /\ pc[p] = "reassociating" => Hook[message[p]] \in {"right", "wrong"}
    /\ pc[p] = "failing" => Hook[message[p]] \in Bad
    /\ pc[p] \in Advancing => Hook[message[p]] = "right" /\ owner[burn(p)] = To[message[p]]
    /\ pc[p] \in Settling => row(p).status \in {"attested", "credited"}
    /\ pc[p] \in Settled => message[p] \in used

IntentInv(b) ==
    /\ status[b] # "minted"
    /\ status[b] = "failed" => Hook[Msg(b)] \in Bad
    /\ status[b] = "credited" => Msg(b) \in used /\ owner[b] = To[Msg(b)]
    /\ settleTx[b] \in {NoMessage, Msg(b)}
    /\ b \in mirror <=> orgFunded[b] /\ status[b] = "credited"

MessageInv(m) ==
    /\ deposits[m] \in {0, 1}
    /\ deposits[m] = 1 <=> m \in used /\ m \notin held \cup rescued
    /\ m \in held \cup rescued => m \in used
    /\ deposits[m] = 1 => Hook[m] = "right"

IInv ==
    /\ TypeOK
    /\ \A p \in Pollers : PollerInv(p)
    /\ \A b \in Burns : IntentInv(b)
    /\ \A m \in Messages : MessageInv(m)
-----------------------------------------------------------------------------
(* Statuses, rows and messages.                                            *)

Statuses == {"initiated", "burned", "attested", "minted", "needs_onboarding", "credited", "failed"}

LEMMA StatusSet == DOMAIN TRANSITIONS = Statuses
BY DEF TRANSITIONS, Statuses

LEMMA CanTransition ==
    ASSUME NEW from \in Statuses, NEW to, canTransition(from, to)
    PROVE  from \in NonTerminal /\ to \in Statuses /\ from \notin {"credited", "failed"}
BY DEF canTransition, TRANSITIONS, Statuses, NonTerminal

LEMMA MessageOfBurn ==
    ASSUME OneMessageEach, NEW b \in Burns
    PROVE  Msg(b) \in Messages /\ ToSet(MessagesOf[b]) = {Msg(b)} /\ DOMAIN MessagesOf[b] = {1}
<1>1. MessagesOf[b] \in Seq(Messages) /\ Len(MessagesOf[b]) = 1
  BY OnrampAssumption DEF OneMessageEach
<1>2. DOMAIN MessagesOf[b] = {1} /\ MessagesOf[b][1] \in Messages
  BY <1>1
<1>3. QED
  BY <1>2 DEF Msg, ToSet

(* The row a poller works on is the first of its batch.                    *)
LEMMA RowType ==
    ASSUME IInv, NEW p \in Pollers, pc[p] # "idle"
    PROVE  /\ batch[p] \in Seq(Rows) /\ Len(batch[p]) \in Nat /\ Len(batch[p]) >= 1
           /\ row(p) = batch[p][1] /\ row(p) \in Rows /\ ReadInv(row(p))
           /\ burn(p) = row(p).burn /\ burn(p) \in Burns /\ status[burn(p)] \in Statuses
           /\ row(p).status \in Statuses
<1>1. batch[p] \in Seq(Rows) /\ batch[p] # <<>> /\ \A j \in 1 .. Len(batch[p]) : ReadInv(batch[p][j])
  BY DEF IInv, TypeOK, PollerInv
<1>2. Len(batch[p]) \in Nat /\ Len(batch[p]) >= 1 /\ Head(batch[p]) = batch[p][1] /\ batch[p][1] \in Rows
  <2> DEFINE S == Rows
  <2>1. batch[p] \in Seq(S)
    BY <1>1
  <2> HIDE DEF S
  <2>2. Len(batch[p]) \in Nat /\ Len(batch[p]) >= 1 /\ Head(batch[p]) = batch[p][1] /\ batch[p][1] \in S
    BY <1>1, <2>1
  <2>3. QED
    BY <2>2 DEF S
<1>3. batch[p][1].burn \in Burns /\ batch[p][1].status \in Statuses /\ ReadInv(batch[p][1])
  BY <1>1, <1>2, StatusSet DEF Rows
<1>4. status[batch[p][1].burn] \in Statuses
  BY <1>3, StatusSet DEF IInv, TypeOK, ReadInv
<1>5. QED
  BY <1>1, <1>2, <1>3, <1>4 DEF row, burn

LEMMA RowsAre ==
    ASSUME IInv, NEW p \in Pollers, NEW j \in 1 .. Len(batch[p])
    PROVE  /\ batch[p][j] \in Rows /\ batch[p][j].burn \in Burns
           /\ batch[p][j].status \in Statuses /\ ReadInv(batch[p][j])
<1>1. batch[p] \in Seq(Rows)
  BY DEF IInv, TypeOK
<1>2. batch[p][j] \in Rows
  <2> DEFINE S == Rows
  <2> HIDE DEF S
  <2>1. batch[p] \in Seq(S)
    BY <1>1 DEF S
  <2>2. batch[p][j] \in S
    BY <2>1
  <2>3. QED
    BY <2>2 DEF S
<1>3. QED
  BY <1>2, StatusSet DEF Rows, IInv, PollerInv

-----------------------------------------------------------------------------
(* Types of the pollers' variables.                                        *)

Places == {"idle", "fetching", "marking", "reassociating", "parking", "failing", "advancing",
           "settling", "awaiting", "settled", "replayed"}

PollerTypes ==
    /\ pc \in [Pollers -> Places]
    /\ batch \in [Pollers -> Seq(Rows)]
    /\ message \in [Pollers -> Messages \cup {NoMessage}]

LEMMA TailType ==
    ASSUME NEW S, NEW s \in Seq(S), s # <<>>
    PROVE  /\ Tail(s) \in Seq(S) /\ Len(s) \in Nat /\ Len(s) >= 1 /\ Len(Tail(s)) = Len(s) - 1
           /\ \A j \in 1 .. Len(s) - 1 : Tail(s)[j] = s[j + 1]
OBVIOUS

LEMMA EmptySequence ==
    ASSUME NEW S, NEW s \in Seq(S)
    PROVE  s = <<>> <=> Len(s) = 0
OBVIOUS

LEMMA EndTypes ==
    ASSUME IInv, NEW p \in Pollers, pc[p] # "idle", NextRow(p) \/ Throw(p)
    PROVE  PollerTypes'
<1>1. PollerTypes
  BY DEF IInv, TypeOK, PollerTypes, Places
<1>2. CASE NextRow(p)
  <2>1. Tail(batch[p]) \in Seq(Rows)
    BY RowType, TailType
  <2>2. batch' \in [Pollers -> Seq(Rows)]
    BY <1>1, <1>2, <2>1 DEF NextRow, PollerTypes
  <2>3. QED
    BY <1>1, <1>2, <2>2 DEF NextRow, PollerTypes, Places
<1>3. CASE Throw(p)
  <2>1. <<>> \in Seq(Rows)
    OBVIOUS
  <2>2. QED
    BY <1>1, <1>3, <2>1 DEF Throw, PollerTypes, Places
<1>4. QED
  BY <1>2, <1>3

(* The poller's row is r now, and the rest of its batch is what it was.    *)
RowIs(p, r) ==
    /\ batch' \in [Pollers -> Seq(Rows)]
    /\ Len(batch'[p]) = Len(batch[p]) /\ batch'[p] # <<>>
    /\ batch'[p][1] = r /\ Head(batch'[p]) = r
    /\ \A j \in 1 .. Len(batch[p]) : j # 1 => batch'[p][j] = batch[p][j]
    /\ \A q \in Pollers : q # p => batch'[q] = batch[q]

LEMMA RereadType ==
    ASSUME IInv, NEW p \in Pollers, pc[p] # "idle", NEW r \in Rows, Reread(p, r)
    PROVE  RowIs(p, r)
<1> DEFINE S == Rows
<1>1. batch \in [Pollers -> Seq(S)] /\ batch[p] \in Seq(S) /\ batch[p] # <<>>
  BY RowType DEF IInv, TypeOK, PollerInv
<1>2. r \in S
  OBVIOUS
<1> HIDE DEF S
<1>3. /\ Tail(batch[p]) \in Seq(S) /\ Len(batch[p]) \in Nat /\ Len(batch[p]) >= 1
      /\ Len(Tail(batch[p])) = Len(batch[p]) - 1
      /\ \A j \in 1 .. Len(batch[p]) - 1 : Tail(batch[p])[j] = batch[p][j + 1]
  BY <1>1, TailType
<1> DEFINE t == <<r>> \o Tail(batch[p])
<1>4. /\ t \in Seq(S) /\ Len(t) = Len(batch[p]) /\ t[1] = r /\ t # <<>> /\ Head(t) = r
      /\ \A j \in 1 .. Len(batch[p]) : j # 1 => t[j] = Tail(batch[p])[j - 1]
  BY <1>2, <1>3
<1>5. \A j \in 1 .. Len(batch[p]) : j # 1 => t[j] = batch[p][j]
  <2>1. \A j \in 1 .. Len(batch[p]) : j # 1 => j - 1 \in 1 .. Len(batch[p]) - 1 /\ (j - 1) + 1 = j
    BY <1>3
  <2>2. QED
    BY <1>3, <1>4, <2>1
<1>6. batch' = [batch EXCEPT ![p] = t]
  BY DEF Reread
<1> HIDE DEF t
<1>7. batch'[p] = t /\ \A q \in Pollers : q # p => batch'[q] = batch[q]
  BY <1>1, <1>6
<1>8. batch' \in [Pollers -> Seq(S)]
  BY <1>1, <1>4, <1>6
<1>9. QED
  BY <1>4, <1>5, <1>7, <1>8 DEF S, RowIs

LEMMA SameRow ==
    ASSUME IInv, NEW p \in Pollers, pc[p] # "idle", UNCHANGED batch
    PROVE  RowIs(p, row(p))
BY RowType DEF IInv, TypeOK, PollerInv, RowIs, row

-----------------------------------------------------------------------------
(* What every step leaves: an intent stays one, what is final stays so, a  *)
(* row belongs to who it belonged to or to the recipient of its message,   *)
(* and a used nonce stays used.                                            *)
Progress ==
    /\ \A b \in Burns : status[b] # "none" => status'[b] # "none"
    /\ \A b \in Burns : status[b] \in {"credited", "failed"} => status'[b] = status[b]
    /\ \A b \in Burns : status[b] # "none" => owner'[b] \in {owner[b], To[Msg(b)]}
    /\ used \subseteq used'

LEMMA RowStays ==
    ASSUME Progress, NEW r, r.burn \in Burns, ReadInv(r)
    PROVE  ReadInv(r)'
BY DEF Progress, ReadInv

LEMMA PollerStays ==
    ASSUME OneMessageEach, IInv, Progress, NEW q \in Pollers,
           pc'[q] = pc[q], batch'[q] = batch[q], message'[q] = message[q]
    PROVE  PollerInv(q)'
<1>1. PollerInv(q)
  BY DEF IInv
<1>2. \A j \in 1 .. Len(batch[q]) : ReadInv(batch[q][j])'
  BY RowsAre, RowStays
<1>3. (\A j \in 1 .. Len(batch[q]) : ReadInv(batch[q][j]))'
  BY <1>2
<1>4. CASE pc[q] = "idle"
  <2>1. pc'[q] \notin Taken \cup Advancing /\ pc'[q] \notin Settling \cup Settled
    BY <1>4 DEF Taken, Advancing, Settling, Settled
  <2>2. QED
    BY <1>1, <1>3, <1>4, <2>1 DEF PollerInv, Taken, Advancing, Settling, Settled
<1>5. CASE pc[q] # "idle"
  <2>1. burn(q) \in Burns /\ status[burn(q)] # "none"
    BY <1>5, RowType DEF Statuses
  <2>2. row(q)' = row(q) /\ burn(q)' = burn(q)
    BY DEF row, burn
  <2>3. PICK b \in Burns : b = burn(q)
    BY <2>1
  <2>4. owner'[b] \in {owner[b], To[Msg(b)]} /\ burn(q)' = b
    BY <2>1, <2>2, <2>3 DEF Progress
  <2>5. message[q] \in used => message[q] \in used'
    BY DEF Progress
  <2>6. pc[q] \in Advancing => message[q] = Msg(b) /\ owner'[b] = To[message[q]]
    BY <1>1, <2>3, <2>4 DEF PollerInv
  <2>7. row(q)'.status = row(q).status
    BY <2>2
  <2>8. QED
    BY <1>1, <1>3, <2>3, <2>4, <2>5, <2>6, <2>7 DEF PollerInv
<1>6. QED
  BY <1>4, <1>5

LEMMA PollersStay ==
    ASSUME OneMessageEach, IInv, Progress, UNCHANGED pollerVars
    PROVE  \A q \in Pollers : PollerInv(q)'
BY PollerStays DEF pollerVars

(* A poller goes on to its next row or gives up its batch.                 *)
LEMMA PollersEnd ==
    ASSUME OneMessageEach, IInv, Progress, NEW p \in Pollers, pc[p] # "idle", NextRow(p) \/ Throw(p)
    PROVE  \A q \in Pollers : PollerInv(q)'
<1>1. PollerTypes
  BY DEF IInv, TypeOK, PollerTypes, Places
<1>2. \A q \in Pollers : q # p => PollerInv(q)'
  <2>1. \A q \in Pollers : q # p => pc'[q] = pc[q] /\ batch'[q] = batch[q] /\ message'[q] = message[q]
    BY <1>1 DEF NextRow, Throw, PollerTypes
  <2>2. QED
    BY <2>1, PollerStays
<1>3. pc'[p] \in {"idle", "fetching"} => pc'[p] \notin Taken \cup Advancing \cup Settling \cup Settled
  BY DEF Taken, Advancing, Settling, Settled
<1>4. CASE NextRow(p)
  <2> DEFINE S == Rows
  <2>1. batch[p] \in Seq(S) /\ batch[p] # <<>>
    BY RowType DEF IInv, TypeOK, PollerInv
  <2> HIDE DEF S
  <2>2. /\ Tail(batch[p]) \in Seq(S) /\ Len(batch[p]) \in Nat /\ Len(batch[p]) >= 1
        /\ Len(Tail(batch[p])) = Len(batch[p]) - 1
        /\ \A j \in 1 .. Len(batch[p]) - 1 : Tail(batch[p])[j] = batch[p][j + 1]
    BY <2>1, TailType
  <2>3. Tail(batch[p]) = <<>> <=> Len(batch[p]) = 1
    <3>1. Tail(batch[p]) = <<>> <=> Len(Tail(batch[p])) = 0
      BY <2>2, EmptySequence
    <3>2. QED
      BY <2>2, <3>1
  <2>4. /\ batch'[p] = Tail(batch[p])
        /\ pc'[p] = IF Len(batch[p]) = 1 THEN "idle" ELSE "fetching"
    BY <1>1, <1>4 DEF NextRow, PollerTypes
  <2>5. ASSUME NEW j \in 1 .. Len(batch'[p])
        PROVE  ReadInv(batch[p][j])'
    <3>1. j \in 1 .. Len(batch[p]) - 1 /\ j + 1 \in 1 .. Len(batch[p])
      BY <2>2, <2>4
    <3>2. PICK r : r = batch[p][j + 1]
      OBVIOUS
    <3>3. r.burn \in Burns /\ ReadInv(r)
      BY <3>1, <3>2, RowsAre
    <3>4. ReadInv(r)'
      BY <3>3, RowStays
    <3>5. batch'[p][j] = r
      BY <2>2, <2>4, <3>1, <3>2
    <3>6. QED
      BY <3>4, <3>5 DEF ReadInv
  <2>6. QED
    BY <1>2, <1>3, <2>3, <2>4, <2>5 DEF PollerInv, Taken, Advancing, Settling, Settled
<1>5. CASE Throw(p)
  <2>1. batch'[p] = <<>> /\ pc'[p] = "idle"
    BY <1>1, <1>5 DEF Throw, PollerTypes
  <2>2. (\A j \in 1 .. Len(batch[p]) : ReadInv(batch[p][j]))'
    BY <2>1
  <2>3. QED
    BY <1>2, <1>3, <2>1, <2>2 DEF PollerInv
<1>6. QED
  BY <1>2, <1>4, <1>5

-----------------------------------------------------------------------------
(* Parts of the invariant a step leaves alone.                             *)

LEMMA IntentsStay ==
    ASSUME IInv, UNCHANGED <<intentVars, mirror>>, used \subseteq used'
    PROVE  (\A b \in Burns : IntentInv(b))' /\ Progress
<1>1. (\A b \in Burns : IntentInv(b))'
  BY DEF IInv, IntentInv, intentVars
<1>2. QED
  BY <1>1 DEF Progress, intentVars

LEMMA MessagesStay ==
    ASSUME IInv, UNCHANGED <<used, deposits, held, rescued>>
    PROVE  (\A m \in Messages : MessageInv(m))'
BY DEF IInv, MessageInv

(* settleDeposit deposits a message whose nonce is new, and no other.      *)
LEMMA Deposited ==
    ASSUME IInv, NEW m \in Messages, Settle(m), UNCHANGED <<held, rescued>>
    PROVE  /\ (\A n \in Messages : MessageInv(n))'
           /\ used \subseteq used' /\ used' \subseteq Messages
           /\ deposits' \in [Messages -> Nat]
           /\ Settles(m) => m \in used'
<1>1. /\ used \subseteq Messages /\ deposits \in [Messages -> Nat]
      /\ \A n \in Messages : MessageInv(n)
  BY DEF IInv, TypeOK
<1>2. CASE Settles(m)
  <2>1. used' = used \cup {m} /\ deposits' = [deposits EXCEPT ![m] = deposits[m] + 1]
    BY <1>2 DEF Settle
  <2>2. m \notin used /\ Hook[m] = "right" /\ deposits[m] = 0 /\ m \notin held \cup rescued
    BY <1>1, <1>2 DEF Settles, MessageInv
  <2>3. deposits'[m] = 1 /\ \A n \in Messages : n # m => deposits'[n] = deposits[n]
    BY <1>1, <2>1, <2>2
  <2>4. deposits' \in [Messages -> Nat]
    BY <1>1, <2>1
  <2>5. ASSUME NEW n \in Messages PROVE MessageInv(n)'
    <3>1. CASE n = m
      BY <2>1, <2>2, <2>3, <3>1 DEF MessageInv
    <3>2. CASE n # m
      <4>1. deposits'[n] = deposits[n] /\ (n \in used' <=> n \in used)
        BY <2>1, <2>3, <3>2
      <4>2. QED
        BY <1>1, <4>1 DEF MessageInv
    <3>3. QED
      BY <3>1, <3>2
  <2>6. QED
    BY <1>1, <2>1, <2>4, <2>5
<1>3. CASE ~Settles(m)
  BY <1>1, <1>3, MessagesStay DEF Settle
<1>4. QED
  BY <1>2, <1>3

LEMMA Touched ==
    ASSUME IInv, NEW b \in Burns, Touch(b)
    PROVE  earlier' \subseteq Burns \X Burns
BY DEF IInv, TypeOK, Touch

-----------------------------------------------------------------------------
(* The steps of chains, users and the router's owner.                      *)

ChainTypes ==
    /\ registered \subseteq Users
    /\ iris \in [Messages -> {"none", "pending", "complete"}]
    /\ used \subseteq Messages /\ held \subseteq Messages /\ rescued \subseteq Messages
    /\ late \subseteq Messages
    /\ deposits \in [Messages -> Nat]
    /\ allowed \in BOOLEAN

IntentTypes ==
    /\ status \in [Burns -> DOMAIN TRANSITIONS \cup {"none"}]
    /\ owner \in [Burns -> Users \cup {Nobody}]
    /\ orgFunded \in [Burns -> BOOLEAN]
    /\ nonce \in [Burns -> Messages \cup {NoMessage}]
    /\ settleTx \in [Burns -> Messages \cup {NoMessage}]
    /\ earlier \subseteq Burns \X Burns
    /\ mirror \subseteq Burns

BoundTypes == faults \in 0 .. MaxFaults /\ ownerCalls \in 0 .. MaxOwnerCalls

LEMMA Types == TypeOK <=> ChainTypes /\ IntentTypes /\ PollerTypes /\ BoundTypes
BY DEF TypeOK, ChainTypes, IntentTypes, PollerTypes, BoundTypes, Places

LEMMA TypesNext == ChainTypes' /\ IntentTypes' /\ PollerTypes' /\ BoundTypes' => TypeOK'
BY DEF TypeOK, ChainTypes, IntentTypes, PollerTypes, BoundTypes, Places

LEMMA TypesStay ==
    /\ ChainTypes /\ UNCHANGED chainVars /\ UNCHANGED iris => ChainTypes'
    /\ IntentTypes /\ UNCHANGED intentVars /\ UNCHANGED mirror => IntentTypes'
    /\ PollerTypes /\ UNCHANGED pollerVars => PollerTypes'
    /\ BoundTypes /\ UNCHANGED boundVars => BoundTypes'
BY DEF ChainTypes, IntentTypes, PollerTypes, BoundTypes, chainVars, intentVars, pollerVars, boundVars

LEMMA FaultTypes ==
    ASSUME BoundTypes, NEW kind, Fault(kind)
    PROVE  BoundTypes'
BY OnrampAssumption DEF BoundTypes, Fault

(* A step of the chain only, after which MessageInv holds.                 *)
LEMMA ChainStep ==
    ASSUME OneMessageEach, IInv, UNCHANGED <<intentVars, mirror, pollerVars>>,
           used \subseteq used', ChainTypes', BoundTypes', (\A m \in Messages : MessageInv(m))'
    PROVE  IInv'
<1>1. (\A b \in Burns : IntentInv(b))' /\ Progress
  BY IntentsStay
<1>2. (\A p \in Pollers : PollerInv(p))'
  BY <1>1, PollersStay
<1>3. IntentTypes /\ PollerTypes
  BY Types DEF IInv
<1>4. IntentTypes' /\ PollerTypes'
  BY <1>3, TypesStay
<1>5. TypeOK'
  BY <1>4, TypesNext
<1>6. QED
  BY <1>1, <1>2, <1>5 DEF IInv

LEMMA RegisterStep ==
    ASSUME OneMessageEach, IInv, NEW u \in Users, Register(u)
    PROVE  IInv'
<1>1. ChainTypes /\ BoundTypes
  BY Types DEF IInv
<1>2. ChainTypes' /\ BoundTypes'
  BY <1>1, TypesStay DEF ChainTypes, Register
<1>3. QED
  BY <1>2, ChainStep, MessagesStay DEF Register

LEMMA AttestStep ==
    ASSUME OneMessageEach, IInv, NEW m \in Messages, Attest(m)
    PROVE  IInv'
<1>1. ChainTypes /\ BoundTypes
  BY Types DEF IInv
<1>2. ChainTypes' /\ BoundTypes'
  BY <1>1, TypesStay DEF ChainTypes, Attest, chainVars
<1>3. QED
  BY <1>2, ChainStep, MessagesStay DEF Attest, chainVars

LEMMA SettleLateStep ==
    ASSUME OneMessageEach, IInv, NEW m \in Messages, SettleLate(m)
    PROVE  IInv'
<1>1. ChainTypes /\ BoundTypes
  BY Types DEF IInv
<1>2. /\ (\A n \in Messages : MessageInv(n))'
      /\ used \subseteq used' /\ used' \subseteq Messages /\ deposits' \in [Messages -> Nat]
  BY Deposited DEF SettleLate
<1>3. ChainTypes' /\ BoundTypes'
  BY <1>1, <1>2, TypesStay DEF ChainTypes, SettleLate
<1>4. QED
  BY <1>2, <1>3, ChainStep DEF SettleLate

LEMMA ReceiveForRescueStep ==
    ASSUME OneMessageEach, IInv, NEW m \in Messages, ReceiveForRescue(m)
    PROVE  IInv'
<1>1. ChainTypes /\ BoundTypes /\ \A n \in Messages : MessageInv(n)
  BY Types DEF IInv
<1>2. ChainTypes'
  BY <1>1 DEF ChainTypes, ReceiveForRescue, OwnerCall
<1>3. BoundTypes'
  BY <1>1, OnrampAssumption DEF BoundTypes, ReceiveForRescue, OwnerCall
<1>4. deposits[m] = 0
  BY <1>1 DEF ReceiveForRescue, MessageInv
<1>5. ASSUME NEW n \in Messages PROVE MessageInv(n)'
  BY <1>1, <1>4 DEF ReceiveForRescue, OwnerCall, MessageInv
<1>6. QED
  BY <1>2, <1>3, <1>5, ChainStep DEF ReceiveForRescue, OwnerCall

LEMMA RescueStep ==
    ASSUME OneMessageEach, IInv, Rescue
    PROVE  IInv'
<1>1. ChainTypes /\ BoundTypes /\ \A n \in Messages : MessageInv(n)
  BY Types DEF IInv
<1>2. ChainTypes' /\ BoundTypes'
  BY <1>1, TypesStay DEF ChainTypes, Rescue
<1>3. held' \cup rescued' = held \cup rescued
  BY DEF Rescue
<1>4. ASSUME NEW n \in Messages PROVE MessageInv(n)'
  BY <1>1, <1>3 DEF Rescue, MessageInv
<1>5. QED
  BY <1>2, <1>4, ChainStep DEF Rescue

LEMMA SetAllowedTokenStep ==
    ASSUME OneMessageEach, IInv, SetAllowedToken
    PROVE  IInv'
<1>1. ChainTypes /\ BoundTypes
  BY Types DEF IInv
<1>2. ChainTypes'
  BY <1>1 DEF ChainTypes, SetAllowedToken, OwnerCall
<1>3. BoundTypes'
  BY <1>1, OnrampAssumption DEF BoundTypes, SetAllowedToken, OwnerCall
<1>4. QED
  BY <1>2, <1>3, ChainStep, MessagesStay DEF SetAllowedToken, OwnerCall

-----------------------------------------------------------------------------
(* Requests.                                                               *)

LEMMA InsertIntentStep ==
    ASSUME OneMessageEach, IInv, NEW b \in Burns, NEW u \in Users, NEW org \in BOOLEAN,
           InsertIntent(b, u, org)
    PROVE  IInv'
<1>1. ChainTypes /\ BoundTypes /\ IntentTypes /\ PollerTypes
  BY Types DEF IInv
<1>2. ChainTypes' /\ BoundTypes' /\ PollerTypes'
  BY <1>1, TypesStay DEF InsertIntent
<1>3. IntentTypes'
  <2>1. earlier' \subseteq Burns \X Burns
    BY Touched DEF InsertIntent
  <2>2. status' \in [Burns -> DOMAIN TRANSITIONS \cup {"none"}]
    BY <1>1, StatusSet DEF IntentTypes, InsertIntent, Statuses
  <2>3. QED
    BY <1>1, <2>1, <2>2 DEF IntentTypes, InsertIntent
<1>4. /\ status'[b] = "initiated" /\ status[b] = "none"
      /\ \A c \in Burns : c # b => /\ status'[c] = status[c] /\ owner'[c] = owner[c]
                                   /\ orgFunded'[c] = orgFunded[c]
  BY <1>1 DEF IntentTypes, InsertIntent
<1>5. UNCHANGED <<used, mirror, settleTx, deposits, held, rescued, pollerVars>>
  BY DEF InsertIntent, chainVars
<1>6. Progress
  BY <1>4, <1>5 DEF Progress
<1>7. ASSUME NEW c \in Burns PROVE IntentInv(c)'
  BY <1>4, <1>5 DEF IInv, IntentInv
<1>8. QED
  BY <1>2, <1>3, <1>5, <1>6, <1>7, TypesNext, PollersStay, MessagesStay DEF IInv
-----------------------------------------------------------------------------
(* A poll reads its batch.                                                 *)

LEMMA SequenceOf ==
    ASSUME NEW S, NEW n \in Nat, n # 0, NEW f \in [1 .. n -> S]
    PROVE  f \in Seq(S) /\ Len(f) = n /\ f # <<>>
OBVIOUS

LEMMA ReadBatchStep ==
    ASSUME OneMessageEach, IInv, NEW p, ReadBatch(p), BoundTypes'
    PROVE  IInv'
<1>1. ChainTypes /\ BoundTypes /\ IntentTypes /\ PollerTypes
  BY Types DEF IInv
<1>2. PICK n \in 1 .. BatchLimit : \E s \in [1 .. n -> Open] :
          batch' = [batch EXCEPT ![p] = [j \in 1 .. n |-> Snapshot(s[j])]]
  BY DEF ReadBatch
<1>3. PICK s \in [1 .. n -> Open] :
          batch' = [batch EXCEPT ![p] = [j \in 1 .. n |-> Snapshot(s[j])]]
  BY <1>2
<1> DEFINE f == [j \in 1 .. n |-> Snapshot(s[j])]
<1>4. n \in Nat /\ n # 0
  BY OnrampAssumption
<1>5. ASSUME NEW j \in 1 .. n
      PROVE  f[j] \in Rows /\ ReadInv(f[j])
  <2>1. s[j] \in Burns /\ status[s[j]] \in NonTerminal /\ f[j] = Snapshot(s[j])
    BY DEF Open
  <2>2. status[s[j]] \in Statuses /\ nonce[s[j]] \in Messages \cup {NoMessage}
    BY <1>1, <2>1 DEF IntentTypes, NonTerminal, Statuses
  <2>3. f[j] = [burn |-> s[j], status |-> status[s[j]], nonce |-> nonce[s[j]]]
    BY <2>1 DEF Snapshot
  <2>4. f[j] \in Rows
    BY <2>1, <2>2, <2>3, StatusSet DEF Rows
  <2>5. IntentInv(s[j])
    BY <2>1 DEF IInv
  <2>6. QED
    BY <2>1, <2>3, <2>4, <2>5 DEF ReadInv, IntentInv, NonTerminal
<1>6. f \in [1 .. n -> Rows]
  BY <1>5
<1> HIDE DEF f
<1>7. f \in Seq(Rows) /\ Len(f) = n /\ f # <<>>
  BY <1>4, <1>6, SequenceOf
<1>8. batch' = [batch EXCEPT ![p] = f]
  BY <1>3 DEF f
<1>9. UNCHANGED <<intentVars, mirror, chainVars, iris, message>>
  BY DEF ReadBatch
<1>10. (\A b \in Burns : IntentInv(b))' /\ Progress /\ (\A m \in Messages : MessageInv(m))'
  BY <1>9, IntentsStay, MessagesStay DEF chainVars
<1>11. PollerTypes'
  <2>1. batch' \in [Pollers -> Seq(Rows)]
    BY <1>1, <1>7, <1>8 DEF PollerTypes
  <2>2. pc' \in [Pollers -> Places]
    BY <1>1 DEF PollerTypes, ReadBatch, Places
  <2>3. QED
    BY <1>1, <1>9, <2>1, <2>2 DEF PollerTypes
<1>12. ASSUME NEW q \in Pollers
       PROVE  PollerInv(q)'
  <2>1. CASE q # p
    <3>1. pc'[q] = pc[q] /\ batch'[q] = batch[q] /\ message'[q] = message[q]
      BY <1>1, <1>8, <1>9, <2>1 DEF ReadBatch, PollerTypes
    <3>2. QED
      BY <1>10, <3>1, PollerStays
  <2>2. CASE q = p
    <3>1. pc'[q] = "fetching" /\ batch'[q] = f
      BY <1>1, <1>8, <2>2 DEF ReadBatch, PollerTypes
    <3>2. ASSUME NEW j \in 1 .. Len(f)
          PROVE  ReadInv(f[j])'
      <4>1. ReadInv(f[j])
        BY <1>5, <1>7
      <4>2. f[j]' = f[j]
        <5>1. UNCHANGED <<status, nonce>>
          BY <1>9 DEF intentVars
        <5>2. QED
          BY <5>1 DEF f, Snapshot
      <4>3. QED
        BY <1>9, <4>1, <4>2 DEF ReadInv, intentVars
    <3>3. QED
      <4>1. f' = f
        BY <1>9 DEF f, Snapshot, intentVars
      <4>2. (\A j \in 1 .. Len(batch[q]) : ReadInv(batch[q][j]))'
        BY <3>1, <3>2, <4>1 DEF ReadInv
      <4>3. QED
        BY <1>7, <3>1, <4>2 DEF PollerInv, Taken, Advancing, Settling, Settled
  <2>3. QED
    BY <2>1, <2>2
<1>13. QED
  BY <1>1, <1>9, <1>10, <1>11, <1>12, TypesNext, TypesStay DEF IInv

LEMMA PollStep ==
    ASSUME OneMessageEach, IInv, Poll \/ PollAfterExpiry
    PROVE  IInv'
<1>1. BoundTypes
  BY Types DEF IInv
<1>2. CASE Poll
  <2>1. ReadBatch(Idle) /\ UNCHANGED <<faults, ownerCalls>>
    BY <1>2 DEF Poll, ReadBatch
  <2>2. BoundTypes'
    BY <1>1, <2>1 DEF BoundTypes
  <2>3. QED
    BY <2>1, <2>2, ReadBatchStep
<1>3. CASE PollAfterExpiry
  <2>1. ReadBatch(Idle) /\ BoundTypes'
    BY <1>1, <1>3, FaultTypes DEF PollAfterExpiry
  <2>2. QED
    BY <2>1, ReadBatchStep
<1>4. QED
  BY <1>2, <1>3
-----------------------------------------------------------------------------
(* The steps of a poller.                                                  *)

(* A poller goes on with its row.                                          *)
LEMMA PollerGoes ==
    ASSUME OneMessageEach, IInv, Progress, NEW p \in Pollers, pc[p] # "idle",
           NEW b \in Burns, b = burn(p), NEW r \in Rows, r.burn = b, ReadInv(r)', RowIs(p, r),
           NEW to \in Taken \cup Advancing, pc' = [pc EXCEPT ![p] = to],
           message' = [message EXCEPT ![p] = Msg(b)],
           to = "reassociating" => Hook[Msg(b)] \in {"right", "wrong"},
           to = "failing" => Hook[Msg(b)] \in Bad,
           to \in Advancing => Hook[Msg(b)] = "right" /\ owner'[b] = To[Msg(b)],
           to \in Settling => r.status \in {"attested", "credited"},
           to \in Settled => Msg(b) \in used'
    PROVE  PollerTypes' /\ (\A q \in Pollers : PollerInv(q))'
<1>1. PollerTypes
  BY Types DEF IInv
<1>2. PollerTypes'
  BY <1>1, MessageOfBurn DEF RowIs, PollerTypes, Places, Taken, Advancing
<1>3. ASSUME NEW q \in Pollers, q # p
      PROVE  PollerInv(q)'
  <2>1. pc'[q] = pc[q] /\ batch'[q] = batch[q] /\ message'[q] = message[q]
    BY <1>1, <1>3 DEF PollerTypes, RowIs
  <2>2. QED
    BY <2>1, PollerStays
<1>4. PollerInv(p)'
  <2>1. pc'[p] = to /\ message'[p] = Msg(b) /\ to # "idle"
    BY <1>1 DEF PollerTypes, Taken, Advancing
  <2>2. row(p)' = r /\ burn(p)' = b
    BY DEF RowIs, row, burn
  <2>3. ASSUME NEW j \in 1 .. Len(batch'[p])
        PROVE  ReadInv(batch[p][j])'
    <3>1. j \in 1 .. Len(batch[p])
      BY DEF RowIs
    <3>2. CASE j = 1
      <4>1. batch'[p][j] = r
        BY <3>2 DEF RowIs
      <4>2. QED
        BY <4>1 DEF ReadInv
    <3>3. CASE j # 1
      <4>1. PICK x : x = batch[p][j]
        OBVIOUS
      <4>2. x.burn \in Burns /\ ReadInv(x)
        BY <3>1, <4>1, RowsAre
      <4>3. ReadInv(x)'
        BY <4>2, RowStays
      <4>4. batch'[p][j] = x
        BY <3>1, <3>3, <4>1 DEF RowIs
      <4>5. QED
        BY <4>3, <4>4 DEF ReadInv
    <3>4. QED
      BY <3>2, <3>3
  <2>4. batch'[p] # <<>>
    BY DEF RowIs
  <2>5. owner[burn(p)]' = owner'[b]
    BY <2>2
  <2>6. row(p)'.status = r.status
    BY <2>2
  <2>7. QED
    BY <2>1, <2>2, <2>3, <2>4, <2>5, <2>6 DEF PollerInv
<1>5. QED
  BY <1>2, <1>3, <1>4

(* Which message the service lists first, if there is only one.            *)
LEMMA Selected ==
    ASSUME OneMessageEach, IInv, NEW p \in Pollers, pc[p] # "idle", NEW b \in Burns, b = burn(p)
    PROVE  selectIrisMessage(row(p)) \in {NoMessage, Msg(b)}
<1>1. row(p).burn = b
  BY DEF burn
<1>2. getMessages(b) \subseteq {Msg(b)}
  BY MessageOfBurn DEF getMessages
<1>3. ASSUME NEW listed, listed = {Msg(b)}
      PROVE  First(b, listed) = Msg(b)
  <2>1. DOMAIN MessagesOf[b] = {1} /\ MessagesOf[b][1] = Msg(b)
    BY MessageOfBurn DEF Msg
  <2> DEFINE s == MessagesOf[b]
             P(j) == s[j] \in listed /\ \A k \in 1 .. j - 1 : s[k] \notin listed
  <2>2. P(1)
    BY <1>3, <2>1
  <2>3. (CHOOSE j \in DOMAIN s : P(j)) = 1
    BY <2>1, <2>2
  <2>4. QED
    BY <2>1, <2>3 DEF First
<1>4. ASSUME NEW listed, listed \subseteq {Msg(b)}, listed # {}
      PROVE  First(b, listed) = Msg(b)
  BY <1>3, <1>4
<1> DEFINE l == getMessages(b)
           c == {m \in l : IsComplete(m)}
<1>5. c # {} => First(b, c) = Msg(b)
  BY <1>2, <1>4
<1>6. l # {} => First(b, l) = Msg(b)
  BY <1>2, <1>4
<1>7. row(p).nonce \in l => row(p).nonce = Msg(b)
  BY <1>2
<1>8. selectIrisMessage(row(p)) =
          CASE row(p).nonce \in l -> row(p).nonce
            [] row(p).nonce = NoMessage /\ c # {} -> First(b, c)
            [] row(p).nonce = NoMessage /\ c = {} /\ l # {} -> First(b, l)
            [] OTHER -> NoMessage
  BY <1>1 DEF selectIrisMessage
<1> HIDE DEF l, c
<1>9. QED
  BY <1>5, <1>6, <1>7, <1>8

(* A step of a poller that changes no intent.                              *)
LEMMA QuietStep ==
    ASSUME IInv, UNCHANGED <<intentVars, mirror, iris, registered, held, rescued, allowed>>,
           late' \subseteq Messages, BoundTypes', PollerTypes',
           used \subseteq used', used' \subseteq Messages, deposits' \in [Messages -> Nat],
           (\A m \in Messages : MessageInv(m))', \A q \in Pollers : PollerInv(q)'
    PROVE  IInv'
<1>1. ChainTypes /\ IntentTypes
  BY Types DEF IInv
<1>2. ChainTypes'
  BY <1>1 DEF ChainTypes
<1>3. IntentTypes'
  BY <1>1, TypesStay
<1>4. (\A b \in Burns : IntentInv(b))'
  BY IntentsStay
<1>5. QED
  BY <1>2, <1>3, <1>4, TypesNext DEF IInv

LEMMA FetchStep ==
    ASSUME OneMessageEach, IInv, NEW p \in Pollers, Fetch(p)
    PROVE  IInv'
<1>1. ChainTypes /\ BoundTypes /\ IntentTypes /\ PollerTypes /\ pc[p] # "idle"
  BY Types DEF IInv, Fetch
<1>2. UNCHANGED <<chainVars, iris, intentVars, mirror, boundVars>>
  BY DEF Fetch
<1>3. UNCHANGED <<registered, used, deposits, held, rescued, allowed, late>>
  BY <1>2 DEF chainVars
<1>4. Progress /\ BoundTypes' /\ (\A m \in Messages : MessageInv(m))'
  BY <1>1, <1>2, <1>3, IntentsStay, MessagesStay, TypesStay
<1>5. PICK b \in Burns : b = burn(p) /\ row(p) \in Rows /\ ReadInv(row(p)) /\ row(p).burn = b
  BY <1>1, RowType
<1>6. PICK m : m = selectIrisMessage(row(p))
  OBVIOUS
<1>7. m \in {NoMessage, Msg(b)} /\ Msg(b) \in Messages
  BY <1>1, <1>5, <1>6, Selected, MessageOfBurn
<1>8. PollerTypes' /\ \A q \in Pollers : PollerInv(q)'
  <2>1. CASE NextRow(p) \/ Throw(p)
    BY <1>1, <1>4, <2>1, EndTypes, PollersEnd
  <2>2. CASE /\ m # NoMessage /\ ~(IsComplete(m) /\ ~Decodes(m))
             /\ pc' = [pc EXCEPT ![p] =
                    IF ~IsComplete(m) THEN "marking"
                    ELSE IF Hook[m] = "foreign" THEN "failing" ELSE "reassociating"]
             /\ message' = [message EXCEPT ![p] = m]
             /\ UNCHANGED batch
    <3>1. PICK to : to = IF ~IsComplete(m) THEN "marking"
                         ELSE IF Hook[m] = "foreign" THEN "failing" ELSE "reassociating"
      OBVIOUS
    <3>2. m = Msg(b) /\ m \in Messages /\ Hook[m] \in {"right", "wrong", "foreign", "malformed"}
      BY <1>7, <2>2, OnrampAssumption
    <3>3. to \in Taken /\ to \notin Advancing \cup Settling \cup Settled
      BY <3>1 DEF Taken, Advancing, Settling, Settled
    <3>4. to = "failing" => Hook[m] \in Bad
      BY <3>1 DEF Bad
    <3>5. to = "reassociating" => Hook[m] \in {"right", "wrong"}
      BY <2>2, <3>1, <3>2 DEF Decodes
    <3>6. PICK r : r = row(p)
      OBVIOUS
    <3>7. RowIs(p, r)
      BY <1>1, <2>2, <3>6, SameRow
    <3>8. r \in Rows /\ r.burn = b /\ ReadInv(r)'
      BY <1>4, <1>5, <3>6, RowStays
    <3>9. pc' = [pc EXCEPT ![p] = to] /\ message' = [message EXCEPT ![p] = Msg(b)]
      BY <2>2, <3>1, <3>2
    <3>10. QED
      BY <1>1, <1>4, <1>5, <3>2, <3>3, <3>4, <3>5, <3>7, <3>8, <3>9, PollerGoes
  <2>3. QED
    BY <1>6, <2>1, <2>2 DEF Fetch
<1>9. QED
  BY <1>1, <1>2, <1>3, <1>4, <1>8, QuietStep DEF ChainTypes

(* Only the intent b was changed, and not its owner.                       *)
LEMMA OneIntent ==
    ASSUME IInv, NEW b \in Burns, status[b] \in Statuses,
           NEW to \in Statuses, status' = [status EXCEPT ![b] = to],
           status[b] \in {"credited", "failed"} => to = status[b],
           to # "minted",
           to = "failed" /\ status[b] # "failed" => Hook[Msg(b)] \in Bad,
           to = "credited" /\ status[b] # "credited" => Msg(b) \in used /\ owner[b] = To[Msg(b)],
           UNCHANGED <<owner, orgFunded, used>>,
           settleTx' \in {settleTx, [settleTx EXCEPT ![b] = Msg(b)]},
           \A c \in Burns \ {b} : c \in mirror' <=> c \in mirror,
           b \in mirror' <=> orgFunded[b] /\ to = "credited"
    PROVE  Progress /\ (\A c \in Burns : IntentInv(c))'
<1>1. IntentTypes /\ \A c \in Burns : IntentInv(c)
  BY Types DEF IInv
<1>2. status'[b] = to /\ \A c \in Burns : c # b => status'[c] = status[c]
  BY <1>1 DEF IntentTypes
<1>3. settleTx'[b] \in {settleTx[b], Msg(b)} /\ \A c \in Burns : c # b => settleTx'[c] = settleTx[c]
  BY <1>1 DEF IntentTypes
<1>4. Progress
  BY <1>2 DEF Progress, Statuses
<1>5. IntentInv(b)'
  BY <1>1, <1>2, <1>3 DEF IntentInv
<1>6. ASSUME NEW c \in Burns, c # b
      PROVE  IntentInv(c)'
  BY <1>1, <1>2, <1>3, <1>6 DEF IntentInv
<1>7. QED
  BY <1>4, <1>5, <1>6
(* An intent moves to a status that reports nothing credited, or stays.    *)
LEMMA Moved ==
    ASSUME IInv, NEW b \in Burns, status[b] \in Statuses, NEW to \in Statuses \ {"minted", "credited"},
           \/ Transition(b, to)
           \/ UNCHANGED status /\ (Touch(b) \/ UNCHANGED earlier),
           to = "failed" => Hook[Msg(b)] \in Bad,
           UNCHANGED <<owner, orgFunded, settleTx, mirror, used>>,
           nonce' \in [Burns -> Messages \cup {NoMessage}]
    PROVE  IntentTypes' /\ Progress /\ (\A c \in Burns : IntentInv(c))'
<1>1. IntentTypes /\ \A c \in Burns : IntentInv(c)
  BY Types DEF IInv
<1>2. CASE Transition(b, to)
  <2>1. status' = [status EXCEPT ![b] = to] /\ Touch(b) /\ status[b] \notin {"credited", "failed"}
    BY <1>2, CanTransition DEF Transition
  <2>2. b \notin mirror
    BY <1>1, <2>1 DEF IntentInv
  <2>3. Progress /\ (\A c \in Burns : IntentInv(c))'
    BY <2>1, <2>2, OneIntent
  <2>4. status' \in [Burns -> DOMAIN TRANSITIONS \cup {"none"}]
    BY <1>1, <2>1, StatusSet DEF IntentTypes
  <2>5. IntentTypes'
    BY <1>1, <2>1, <2>4, Touched DEF IntentTypes
  <2>6. QED
    BY <2>3, <2>5
<1>3. CASE UNCHANGED status /\ (Touch(b) \/ UNCHANGED earlier)
  <2>1. Progress
    BY <1>3 DEF Progress
  <2>2. ASSUME NEW c \in Burns PROVE IntentInv(c)'
    BY <1>1, <1>3 DEF IntentInv
  <2>3. earlier' \subseteq Burns \X Burns
    BY <1>1, <1>3, Touched DEF IntentTypes
  <2>4. IntentTypes'
    BY <1>1, <1>3, <2>3 DEF IntentTypes
  <2>5. QED
    BY <2>1, <2>2, <2>4
<1>4. QED
  BY <1>2, <1>3

(* A step of a poller that touches neither chain.                          *)
LEMMA DatabaseStep ==
    ASSUME IInv, UNCHANGED <<chainVars, iris, boundVars>>, IntentTypes', PollerTypes',
           (\A b \in Burns : IntentInv(b))', \A q \in Pollers : PollerInv(q)'
    PROVE  IInv'
<1>1. ChainTypes /\ BoundTypes
  BY Types DEF IInv
<1>2. ChainTypes' /\ BoundTypes'
  BY <1>1, TypesStay
<1>3. (\A m \in Messages : MessageInv(m))'
  BY MessagesStay DEF chainVars
<1>4. QED
  BY <1>2, <1>3, TypesNext DEF IInv

LEMMA MarkBurnedStep ==
    ASSUME OneMessageEach, IInv, NEW p \in Pollers, MarkBurned(p)
    PROVE  IInv'
<1>1. IntentTypes /\ PollerTypes /\ pc[p] = "marking"
  BY Types DEF IInv, MarkBurned
<1>2. PICK b \in Burns : /\ b = burn(p) /\ row(p) \in Rows /\ ReadInv(row(p)) /\ row(p).burn = b
                         /\ status[b] \in Statuses /\ row(p).nonce \in Messages \cup {NoMessage}
  BY <1>1, RowType DEF Rows
<1>3. UNCHANGED <<chainVars, iris, mirror, boundVars, owner, orgFunded, settleTx, used>>
  BY DEF MarkBurned, chainVars, intentVars
<1>4. nonce' \in [Burns -> Messages \cup {NoMessage}]
  BY <1>1, <1>2 DEF MarkBurned, SetNonce, IntentTypes, PollerTypes, intentVars
<1>5. Transition(b, "burned") \/ (UNCHANGED status /\ (Touch(b) \/ UNCHANGED earlier))
  BY <1>2 DEF MarkBurned, intentVars
<1>6. "burned" \in Statuses \ {"minted", "credited"}
  BY DEF Statuses
<1>7. IntentTypes' /\ Progress /\ (\A c \in Burns : IntentInv(c))'
  BY <1>2, <1>3, <1>4, <1>5, <1>6, Moved
<1>8. NextRow(p) \/ Throw(p)
  BY DEF MarkBurned
<1>9. PollerTypes' /\ \A q \in Pollers : PollerInv(q)'
  BY <1>1, <1>7, <1>8, EndTypes, PollersEnd
<1>10. QED
  BY <1>3, <1>7, <1>9, DatabaseStep

LEMMA ReassociateStep ==
    ASSUME OneMessageEach, IInv, NEW p \in Pollers, Reassociate(p)
    PROVE  IInv'
<1>1. IntentTypes /\ PollerTypes /\ pc[p] = "reassociating" /\ PollerInv(p)
  BY Types DEF IInv, Reassociate
<1>2. PICK b \in Burns : /\ b = burn(p) /\ row(p) \in Rows /\ ReadInv(row(p)) /\ row(p).burn = b
                         /\ status[b] \in Statuses
  BY <1>1, RowType
<1>3. UNCHANGED <<chainVars, iris, mirror, boundVars, status, orgFunded, settleTx, used, message>>
  BY DEF Reassociate, chainVars
<1>4. message[p] = Msg(b) /\ Msg(b) \in Messages /\ Hook[Msg(b)] \in {"right", "wrong"}
  BY <1>1, <1>2, MessageOfBurn DEF PollerInv, Taken, Advancing
<1>5. /\ owner' = [owner EXCEPT ![b] = To[Msg(b)]] /\ nonce' = [nonce EXCEPT ![b] = Msg(b)]
      /\ Touch(b)
  BY <1>2, <1>4 DEF Reassociate, SetNonce
<1>6. IntentTypes'
  BY <1>1, <1>3, <1>4, <1>5, Touched, OnrampAssumption DEF IntentTypes
<1>7. owner'[b] = To[Msg(b)] /\ \A c \in Burns : c # b => owner'[c] = owner[c]
  BY <1>1, <1>5 DEF IntentTypes
<1>8. Progress
  BY <1>3, <1>7 DEF Progress
<1>9. ASSUME NEW c \in Burns PROVE IntentInv(c)'
  <2>1. IntentInv(c)
    BY DEF IInv
  <2>2. QED
    BY <1>3, <1>7, <2>1 DEF IntentInv
<1>10. PICK r : r = [Snapshot(b) EXCEPT !.nonce = Msg(b)]
  OBVIOUS
<1>11. r \in Rows /\ r.burn = b /\ r.status = status[b] /\ ReadInv(r)'
  <2>1. r = [burn |-> b, status |-> status[b], nonce |-> Msg(b)]
    BY <1>10 DEF Snapshot
  <2>2. r \in Rows
    BY <1>2, <1>4, <2>1, StatusSet DEF Rows
  <2>3. status[b] # "minted" /\ status[b] # "none"
    BY <1>2 DEF IInv, IntentInv, Statuses
  <2>4. ReadInv(r)
    BY <2>1, <2>3 DEF ReadInv
  <2>5. r.burn = b /\ r.status = status[b]
    BY <2>1
  <2>6. QED
    BY <1>8, <2>2, <2>4, <2>5, RowStays
<1>12. RowIs(p, r)
  <2>1. Reread(p, r)
    BY <1>2, <1>4, <1>10 DEF Reassociate
  <2>2. QED
    BY <1>1, <1>11, <2>1, RereadType
<1>13. PICK to : to = AfterResolving(Msg(b))
  OBVIOUS
<1>14. /\ to \in {"parking", "failing", "advancing"}
       /\ to = "failing" => Hook[Msg(b)] \in Bad
       /\ to = "advancing" => Hook[Msg(b)] = "right"
  BY <1>4, <1>13 DEF AfterResolving, Bad
<1>15. /\ to \in Taken \cup Advancing /\ to # "reassociating"
       /\ to \in Advancing => to = "advancing"
       /\ to \notin Settling \cup Settled
  BY <1>14 DEF Taken, Advancing, Settling, Settled
<1>16. pc' = [pc EXCEPT ![p] = to] /\ message' = [message EXCEPT ![p] = Msg(b)]
  BY <1>1, <1>3, <1>4, <1>13 DEF Reassociate, PollerTypes
<1>17. PollerTypes' /\ \A q \in Pollers : PollerInv(q)'
  BY <1>1, <1>2, <1>7, <1>8, <1>11, <1>12, <1>14, <1>15, <1>16, PollerGoes
<1>18. QED
  BY <1>3, <1>6, <1>9, <1>17, DatabaseStep
(* What the invariant says of the row of a poller that took its message.   *)
LEMMA RowTaken ==
    ASSUME OneMessageEach, IInv, NEW p \in Pollers, pc[p] \in Taken \cup Advancing
    PROVE  /\ pc[p] # "idle" /\ PollerInv(p) /\ IntentTypes /\ PollerTypes
           /\ \E b \in Burns : /\ b = burn(p) /\ row(p) \in Rows /\ ReadInv(row(p))
                               /\ row(p).burn = b /\ status[b] \in Statuses
                               /\ row(p).status \in Statuses /\ IntentInv(b)
                               /\ message[p] = Msg(b) /\ Msg(b) \in Messages
<1>1. pc[p] # "idle" /\ PollerInv(p) /\ IntentTypes /\ PollerTypes
  BY Types DEF IInv, Taken, Advancing
<1>2. PICK b \in Burns : /\ b = burn(p) /\ row(p) \in Rows /\ ReadInv(row(p)) /\ row(p).burn = b
                         /\ status[b] \in Statuses /\ row(p).status \in Statuses
  BY <1>1, RowType
<1>3. IntentInv(b) /\ message[p] = Msg(b) /\ Msg(b) \in Messages
  BY <1>1, <1>2, MessageOfBurn DEF IInv, PollerInv
<1>4. QED
  BY <1>1, <1>2, <1>3

(* A poller parks or fails its intent.                                     *)
LEMMA GiveUpStep ==
    ASSUME OneMessageEach, IInv, NEW p \in Pollers, pc[p] \in {"parking", "failing"},
           NEW to \in {"needs_onboarding", "failed"}, to = "failed" => pc[p] = "failing",
           GiveUp(p, to), nonce' \in {nonce, [nonce EXCEPT ![burn(p)] = message[p]]},
           UNCHANGED <<owner, orgFunded, settleTx, chainVars, iris, mirror, boundVars>>
    PROVE  IInv'
<1>1. pc[p] \in Taken \cup Advancing
  BY DEF Taken
<1>2. pc[p] # "idle" /\ PollerInv(p) /\ IntentTypes /\ PollerTypes
  BY <1>1, RowTaken
<1>3. PICK b \in Burns : /\ b = burn(p) /\ status[b] \in Statuses
                         /\ message[p] = Msg(b) /\ Msg(b) \in Messages
  BY <1>1, RowTaken
<1>4. Transition(b, to) \/ (UNCHANGED status /\ (Touch(b) \/ UNCHANGED earlier))
  BY <1>3 DEF GiveUp
<1>5. to \in Statuses \ {"minted", "credited"} /\ (to = "failed" => Hook[Msg(b)] \in Bad)
  BY <1>2, <1>3 DEF Statuses, PollerInv
<1>6. nonce' \in [Burns -> Messages \cup {NoMessage}]
  BY <1>2, <1>3 DEF IntentTypes
<1>7. IntentTypes' /\ Progress /\ (\A c \in Burns : IntentInv(c))'
  BY <1>3, <1>4, <1>5, <1>6, Moved DEF chainVars
<1>8. NextRow(p) \/ Throw(p)
  BY DEF GiveUp
<1>9. PollerTypes' /\ \A q \in Pollers : PollerInv(q)'
  BY <1>2, <1>7, <1>8, EndTypes, PollersEnd
<1>10. QED
  BY <1>7, <1>9, DatabaseStep

LEMMA ParkStep ==
    ASSUME OneMessageEach, IInv, NEW p \in Pollers, Park(p)
    PROVE  IInv'
BY GiveUpStep DEF Park, SetNonce

LEMMA FailStep ==
    ASSUME OneMessageEach, IInv, NEW p \in Pollers, Fail(p)
    PROVE  IInv'
BY GiveUpStep DEF Fail

LEMMA AdvanceStep ==
    ASSUME OneMessageEach, IInv, NEW p \in Pollers, AdvanceToAttested(p)
    PROVE  IInv'
<1>1. pc[p] = "advancing" /\ pc[p] \in Taken \cup Advancing
  BY DEF AdvanceToAttested, Advancing
<1>2. pc[p] # "idle" /\ PollerInv(p) /\ IntentTypes /\ PollerTypes
  BY <1>1, RowTaken
<1>3. PICK b \in Burns : /\ b = burn(p) /\ row(p) \in Rows /\ ReadInv(row(p)) /\ row(p).burn = b
                         /\ status[b] \in Statuses /\ row(p).status \in Statuses /\ IntentInv(b)
                         /\ message[p] = Msg(b) /\ Msg(b) \in Messages
  BY <1>1, RowTaken
<1>4. UNCHANGED <<owner, orgFunded, settleTx, chainVars, iris, mirror, boundVars, used>>
  BY DEF AdvanceToAttested, chainVars
<1>5. Hook[Msg(b)] = "right" /\ owner'[b] = To[Msg(b)]
  BY <1>1, <1>2, <1>3, <1>4 DEF PollerInv, Advancing
<1>6. DOMAIN Successor = {"initiated", "burned", "needs_onboarding"}
  BY DEF Successor
<1>7. PICK s : s = row(p).status
  OBVIOUS
<1>8. nonce' \in {nonce, [nonce EXCEPT ![b] = Msg(b)]}
  BY <1>3 DEF AdvanceToAttested, SetNonce
<1>9. nonce' \in [Burns -> Messages \cup {NoMessage}]
  BY <1>2, <1>3, <1>8 DEF IntentTypes
<1>10. message' = [message EXCEPT ![p] = Msg(b)] \/ Throw(p)
  BY <1>2, <1>3 DEF AdvanceToAttested, Go, PollerTypes
<1>11. CASE /\ s \in DOMAIN Successor
            /\ Transition(b, Successor[s])
            /\ pc' = [pc EXCEPT ![p] = IF s = "initiated" THEN pc[p] ELSE "settling"]
            /\ Reread(p, [row(p) EXCEPT !.status = Successor[row(p).status]])
            /\ UNCHANGED message
  <2>1. PICK next : next = Successor[s]
    OBVIOUS
  <2>2. next \in {"burned", "attested"} /\ (s # "initiated" => next = "attested")
    BY <1>6, <1>11, <2>1 DEF Successor
  <2>3. next \in Statuses \ {"minted", "credited"} /\ next # "failed"
    BY <2>2 DEF Statuses
  <2>4. IntentTypes' /\ Progress /\ (\A c \in Burns : IntentInv(c))'
    BY <1>3, <1>4, <1>9, <1>11, <2>1, <2>3, Moved
  <2>5. PICK r : r = [row(p) EXCEPT !.status = Successor[row(p).status]]
    OBVIOUS
  <2>6. PICK n \in Messages \cup {NoMessage} : row(p) = [burn |-> b, status |-> s, nonce |-> n]
    BY <1>3, <1>7 DEF Rows
  <2>7. r = [burn |-> b, status |-> next, nonce |-> n]
    BY <1>7, <2>1, <2>5, <2>6
  <2>8. r \in Rows
    BY <2>3, <2>6, <2>7, StatusSet DEF Rows
  <2>9. status'[b] = next
    BY <1>2, <1>11, <2>1 DEF IntentTypes, Transition
  <2>10. r.burn = b /\ r.status = next
    BY <2>7
  <2>11. ReadInv(r)'
    BY <2>2, <2>9, <2>10 DEF ReadInv
  <2>12. RowIs(p, r)
    BY <1>2, <1>11, <2>5, <2>8, RereadType
  <2>13. PICK to : to = IF s = "initiated" THEN pc[p] ELSE "settling"
    OBVIOUS
  <2>14. /\ to \in {"advancing", "settling"}
         /\ to = "settling" => s # "initiated"
    BY <1>1, <2>13
  <2>15. /\ to \in Taken \cup Advancing /\ to # "reassociating" /\ to # "failing" /\ to \notin Settled
         /\ to \in Settling => r.status \in {"attested", "credited"}
    BY <2>2, <2>10, <2>14 DEF Taken, Advancing, Settling, Settled
  <2>16. pc' = [pc EXCEPT ![p] = to] /\ message' = [message EXCEPT ![p] = Msg(b)]
    BY <1>2, <1>3, <1>11, <2>13 DEF PollerTypes
  <2>17. PollerTypes' /\ \A q \in Pollers : PollerInv(q)'
    BY <1>2, <1>3, <1>5, <2>4, <2>8, <2>10, <2>11, <2>12, <2>15, <2>16, PollerGoes
  <2>18. QED
    BY <1>4, <2>4, <2>17, DatabaseStep
<1>12. CASE Throw(p) /\ UNCHANGED <<status, earlier, nonce>>
  <2>1. "burned" \in Statuses \ {"minted", "credited"} /\ "burned" # "failed"
    BY DEF Statuses
  <2>2. IntentTypes' /\ Progress /\ (\A c \in Burns : IntentInv(c))'
    BY <1>3, <1>4, <1>9, <1>12, <2>1, Moved
  <2>3. PollerTypes' /\ \A q \in Pollers : PollerInv(q)'
    BY <1>2, <1>12, <2>2, EndTypes, PollersEnd
  <2>4. QED
    BY <1>4, <2>2, <2>3, DatabaseStep
<1>13. CASE /\ Go(p, "advancing", "settling")
            /\ UNCHANGED status
            /\ \/ s = "attested" /\ Touch(b)
               \/ s \notin DOMAIN Successor \cup {"attested"} /\ UNCHANGED earlier
  <2>1. "burned" \in Statuses \ {"minted", "credited"} /\ "burned" # "failed"
    BY DEF Statuses
  <2>2. UNCHANGED status /\ (Touch(b) \/ UNCHANGED earlier)
    BY <1>13
  <2>3. IntentTypes' /\ Progress /\ (\A c \in Burns : IntentInv(c))'
    BY <1>3, <1>4, <1>9, <2>1, <2>2, Moved
  <2>4. PICK r : r = row(p)
    OBVIOUS
  <2>5. r.status \in {"attested", "credited"}
    BY <1>3, <1>5, <1>6, <1>7, <1>13, <2>4 DEF Statuses, ReadInv, IntentInv, Bad
  <2>6. r \in Rows /\ r.burn = b /\ ReadInv(r)'
    BY <1>3, <2>3, <2>4, RowStays
  <2>7. RowIs(p, r)
    BY <1>2, <1>13, <2>4, SameRow DEF Go
  <2>8. "settling" \in Taken \cup Advancing /\ "settling" \notin Settled
    BY DEF Taken, Advancing, Settled
  <2>9. pc' = [pc EXCEPT ![p] = "settling"] /\ message' = [message EXCEPT ![p] = Msg(b)]
    BY <1>2, <1>3, <1>13 DEF Go, PollerTypes
  <2>10. PollerTypes' /\ \A q \in Pollers : PollerInv(q)'
    BY <1>2, <1>3, <1>5, <2>3, <2>5, <2>6, <2>7, <2>8, <2>9, PollerGoes
  <2>11. QED
    BY <1>4, <2>3, <2>10, DatabaseStep
<1>14. QED
  BY <1>3, <1>7, <1>11, <1>12, <1>13 DEF AdvanceToAttested
(* A poller goes on with its row as it is.                                 *)
LEMMA SameRowGoes ==
    ASSUME OneMessageEach, IInv, Progress, NEW p \in Pollers, pc[p] \in Settling,
           UNCHANGED <<batch, message, owner>>,
           NEW to \in Settling, pc' = [pc EXCEPT ![p] = to],
           to \in Settled => message[p] \in used'
    PROVE  PollerTypes' /\ (\A q \in Pollers : PollerInv(q)')
<1>1. pc[p] \in Taken \cup Advancing /\ pc[p] \in Advancing
  BY DEF Settling
<1>2. pc[p] # "idle" /\ PollerInv(p) /\ PollerTypes
  BY <1>1, RowTaken
<1>3. PICK b \in Burns : /\ b = burn(p) /\ row(p) \in Rows /\ ReadInv(row(p)) /\ row(p).burn = b
                         /\ message[p] = Msg(b)
  BY <1>1, RowTaken
<1>4. PICK r : r = row(p)
  OBVIOUS
<1>5. /\ r.status \in {"attested", "credited"} /\ Hook[Msg(b)] = "right"
      /\ owner'[b] = To[Msg(b)]
  BY <1>1, <1>2, <1>3, <1>4 DEF PollerInv
<1>6. r \in Rows /\ r.burn = b /\ ReadInv(r)' /\ RowIs(p, r)
  BY <1>2, <1>3, <1>4, RowStays, SameRow
<1>7. to \in Taken \cup Advancing /\ to # "reassociating" /\ to # "failing"
  BY DEF Taken, Advancing, Settling
<1>8. message' = [message EXCEPT ![p] = Msg(b)]
  BY <1>2, <1>3 DEF PollerTypes
<1>9. QED
  BY <1>2, <1>3, <1>5, <1>6, <1>7, <1>8, PollerGoes

LEMMA SendSettleStep ==
    ASSUME OneMessageEach, IInv, NEW p \in Pollers, SendSettle(p)
    PROVE  IInv'
<1>1. pc[p] = "settling" /\ pc[p] \in Settling /\ pc[p] # "idle"
  BY DEF SendSettle, Settling, Advancing
<1>2. ChainTypes /\ BoundTypes /\ UNCHANGED <<chainVars, iris, intentVars, mirror, boundVars>>
  BY Types DEF SendSettle, IInv
<1>3. UNCHANGED <<registered, used, deposits, held, rescued, allowed, late, owner>>
  BY <1>2 DEF chainVars, intentVars
<1>4. Progress /\ BoundTypes' /\ (\A m \in Messages : MessageInv(m))'
  BY <1>2, <1>3, IntentsStay, MessagesStay, TypesStay
<1>5. PollerTypes' /\ \A q \in Pollers : PollerInv(q)'
  <2>1. CASE Throw(p)
    BY <1>1, <1>4, <2>1, EndTypes, PollersEnd
  <2>2. CASE /\ pc' = [pc EXCEPT ![p] = IF IsReplay(message[p]) THEN "replayed" ELSE "awaiting"]
             /\ UNCHANGED <<batch, message>>
    <3>1. PICK to : to = IF IsReplay(message[p]) THEN "replayed" ELSE "awaiting"
      OBVIOUS
    <3>2. to \in Settling /\ (to \in Settled => message[p] \in used')
      BY <1>3, <3>1 DEF Settling, Advancing, Settled, IsReplay
    <3>3. QED
      BY <1>1, <1>3, <1>4, <2>2, <3>1, <3>2, SameRowGoes
  <2>3. QED
    BY <2>1, <2>2 DEF SendSettle
<1>6. QED
  BY <1>2, <1>3, <1>4, <1>5, QuietStep DEF ChainTypes

LEMMA SettleMinedStep ==
    ASSUME OneMessageEach, IInv, NEW p \in Pollers, SettleMined(p)
    PROVE  IInv'
<1>1. /\ pc[p] = "awaiting" /\ pc[p] \in Settling /\ pc[p] \in Taken \cup Advancing
      /\ pc[p] # "idle"
  BY DEF SettleMined, Settling, Advancing
<1>2. /\ ChainTypes /\ BoundTypes
      /\ UNCHANGED <<registered, held, rescued, allowed, late, iris, intentVars, mirror, boundVars>>
  BY Types DEF SettleMined, IInv
<1>3. message[p] \in Messages
  BY <1>1, RowTaken
<1>4. /\ (\A n \in Messages : MessageInv(n))'
      /\ used \subseteq used' /\ used' \subseteq Messages /\ deposits' \in [Messages -> Nat]
      /\ Settles(message[p]) => message[p] \in used'
  BY <1>2, <1>3, Deposited DEF SettleMined
<1>5. Progress /\ BoundTypes'
  BY <1>2, <1>4, IntentsStay, TypesStay
<1>6. PollerTypes' /\ \A q \in Pollers : PollerInv(q)'
  <2>1. CASE Throw(p)
    BY <1>1, <1>5, <2>1, EndTypes, PollersEnd
  <2>2. CASE /\ Settles(message[p])
             /\ pc' = [pc EXCEPT ![p] = "settled"]
             /\ UNCHANGED <<batch, message>>
    <3>1. "settled" \in Settling
      BY DEF Settling, Advancing
    <3>2. UNCHANGED owner
      BY <1>2 DEF intentVars
    <3>3. QED
      BY <1>1, <1>4, <1>5, <2>2, <3>1, <3>2, SameRowGoes
  <2>3. QED
    BY <2>1, <2>2 DEF SettleMined
<1>7. QED
  BY <1>2, <1>4, <1>5, <1>6, QuietStep DEF ChainTypes

LEMMA MarkCreditedStep ==
    ASSUME OneMessageEach, IInv, NEW p \in Pollers, MarkCredited(p)
    PROVE  IInv'
<1>1. /\ pc[p] \in Settled /\ pc[p] \in Settling /\ pc[p] \in Taken \cup Advancing
      /\ pc[p] \in Advancing
  BY DEF MarkCredited, Settled, Settling, Advancing
<1>2. pc[p] # "idle" /\ PollerInv(p) /\ IntentTypes /\ PollerTypes
  BY <1>1, RowTaken
<1>3. PICK b \in Burns : /\ b = burn(p) /\ row(p) \in Rows /\ ReadInv(row(p)) /\ row(p).burn = b
                         /\ status[b] \in Statuses /\ row(p).status \in Statuses /\ IntentInv(b)
                         /\ message[p] = Msg(b) /\ Msg(b) \in Messages
  BY <1>1, RowTaken
<1>4. /\ UNCHANGED <<owner, orgFunded, nonce, chainVars, iris, boundVars>>
      /\ UNCHANGED used
  BY DEF MarkCredited, chainVars
<1>5. /\ row(p).status \in {"attested", "credited"} /\ owner[b] = To[Msg(b)] /\ Msg(b) \in used
  BY <1>1, <1>2, <1>3 DEF PollerInv
<1>6. mirror' = IF orgFunded[b] /\ (row(p).status = "attested" => status'[b] = "credited")
                THEN mirror \cup {b} ELSE mirror
  BY <1>3 DEF MarkCredited
<1>7. \A c \in Burns \ {b} : c \in mirror' <=> c \in mirror
  BY <1>6
<1>8. NextRow(p) \/ Throw(p)
  BY DEF MarkCredited, Credit
<1>9. mirror' \subseteq Burns
  BY <1>2, <1>6 DEF IntentTypes
<1>10. CASE /\ row(p).status = "attested" /\ canTransition(status[b], "minted")
            /\ status' = [status EXCEPT ![b] = "credited"]
            /\ Touch(b)
            /\ settleTx' = [settleTx EXCEPT ![b] =
                                IF pc[p] = "settled" THEN message[p] ELSE settleTx[b]]
  <2>1. settleTx' \in {settleTx, [settleTx EXCEPT ![b] = Msg(b)]}
    BY <1>2, <1>3, <1>10 DEF IntentTypes
  <2>2. status'[b] = "credited"
    BY <1>2, <1>10 DEF IntentTypes
  <2>3. status[b] \notin {"credited", "failed"}
    BY <1>3, <1>10, CanTransition
  <2>4. b \notin mirror
    BY <1>3, <2>3 DEF IntentInv
  <2>5. b \in mirror' <=> orgFunded[b]
    BY <1>6, <2>2, <2>4
  <2>6. "credited" \in Statuses
    BY DEF Statuses
  <2>7. Progress /\ (\A c \in Burns : IntentInv(c))'
    BY <1>3, <1>4, <1>5, <1>7, <1>10, <2>1, <2>3, <2>5, <2>6, OneIntent
  <2>8. settleTx' \in [Burns -> Messages \cup {NoMessage}]
    BY <1>2, <1>3, <2>1 DEF IntentTypes
  <2>9. status' \in [Burns -> DOMAIN TRANSITIONS \cup {"none"}]
    BY <1>2, <1>10, <2>6, StatusSet DEF IntentTypes
  <2>10. IntentTypes'
    BY <1>2, <1>4, <1>9, <1>10, <2>8, <2>9, Touched DEF IntentTypes
  <2>11. PollerTypes' /\ \A q \in Pollers : PollerInv(q)'
    BY <1>2, <1>8, <2>7, EndTypes, PollersEnd
  <2>12. QED
    BY <1>4, <2>7, <2>10, <2>11, DatabaseStep
<1>11. CASE UNCHANGED <<status, earlier, settleTx>>
  <2>1. row(p).status = "attested" => status'[b] = status[b]
    BY <1>11
  <2>2. row(p).status # "attested" => status[b] = "credited"
    BY <1>3, <1>5 DEF ReadInv
  <2>3. b \in mirror' <=> b \in mirror
    BY <1>3, <1>6, <2>1, <2>2 DEF IntentInv
  <2>4. \A c \in Burns : c \in mirror' <=> c \in mirror
    BY <1>7, <2>3
  <2>5. mirror' = mirror
    BY <1>2, <1>9, <2>4 DEF IntentTypes
  <2>6. UNCHANGED <<intentVars, mirror>>
    BY <1>4, <1>11, <2>5 DEF intentVars
  <2>7. Progress /\ (\A c \in Burns : IntentInv(c))' /\ IntentTypes'
    BY <1>2, <1>4, <2>6, IntentsStay, TypesStay
  <2>8. PollerTypes' /\ \A q \in Pollers : PollerInv(q)'
    BY <1>2, <1>8, <2>7, EndTypes, PollersEnd
  <2>9. QED
    BY <1>4, <2>7, <2>8, DatabaseStep
<1>12. QED
  BY <1>3, <1>10, <1>11 DEF MarkCredited, Credit

LEMMA AbandonStep ==
    ASSUME OneMessageEach, IInv, NEW p \in Pollers, Abandon(p)
    PROVE  IInv'
<1>1. /\ pc[p] # "idle" /\ Throw(p) /\ ChainTypes /\ BoundTypes
      /\ UNCHANGED <<registered, used, deposits, held, rescued, allowed, iris, intentVars, mirror>>
  BY Types DEF Abandon, IInv
<1>2. BoundTypes'
  BY <1>1, FaultTypes DEF Abandon
<1>3. late' \subseteq Messages
  <2>1. CASE pc[p] = "awaiting"
    <3>1. pc[p] \in Taken \cup Advancing
      BY <2>1 DEF Advancing
    <3>2. message[p] \in Messages
      BY <3>1, RowTaken
    <3>3. QED
      BY <1>1, <2>1, <3>2 DEF Abandon, ChainTypes
  <2>2. CASE pc[p] # "awaiting"
    BY <1>1, <2>2 DEF Abandon, ChainTypes
  <2>3. QED
    BY <2>1, <2>2
<1>4. Progress /\ (\A m \in Messages : MessageInv(m))'
  BY <1>1, IntentsStay, MessagesStay
<1>5. PollerTypes' /\ \A q \in Pollers : PollerInv(q)'
  BY <1>1, <1>4, EndTypes, PollersEnd
<1>6. QED
  BY <1>1, <1>2, <1>3, <1>4, <1>5, QuietStep DEF ChainTypes

-----------------------------------------------------------------------------
(* The invariant.                                                          *)

LEMMA InitInv ==
    ASSUME OneMessageEach, Init
    PROVE  IInv
<1>1. TypeOK
  <2>1. <<>> \in Seq(Rows)
    OBVIOUS
  <2>2. batch \in [Pollers -> Seq(Rows)]
    BY <2>1 DEF Init
  <2>3. faults \in 0 .. MaxFaults /\ ownerCalls \in 0 .. MaxOwnerCalls
    BY OnrampAssumption DEF Init
  <2>4. QED
    BY <2>2, <2>3, OnrampAssumption DEF Init, TypeOK
<1>2. ASSUME NEW p \in Pollers PROVE PollerInv(p)
  BY DEF Init, PollerInv, Taken, Advancing, Settling, Settled
<1>3. ASSUME NEW b \in Burns PROVE IntentInv(b)
  BY DEF Init, IntentInv
<1>4. ASSUME NEW m \in Messages PROVE MessageInv(m)
  BY DEF Init, MessageInv
<1>5. QED
  BY <1>1, <1>2, <1>3, <1>4 DEF IInv

LEMMA NextInv ==
    ASSUME OneMessageEach, IInv, [Next]_vars
    PROVE  IInv'
<1>1. CASE \E u \in Users : Register(u)
  BY <1>1, RegisterStep
<1>2. CASE \E m \in Messages : Attest(m) \/ SettleLate(m) \/ ReceiveForRescue(m)
  BY <1>2, AttestStep, SettleLateStep, ReceiveForRescueStep
<1>3. CASE Rescue \/ SetAllowedToken
  BY <1>3, RescueStep, SetAllowedTokenStep
<1>4. ASSUME NEW b \in Burns, FundIntent(b) \/ \E u \in Users : CreateIntent(u, b)
      PROVE  IInv'
  <2>1. CASE FundIntent(b)
    BY <2>1, InsertIntentStep, OnrampAssumption DEF FundIntent
  <2>2. CASE \E u \in Users : CreateIntent(u, b)
    BY <2>2, InsertIntentStep DEF CreateIntent
  <2>3. QED
    BY <1>4, <2>1, <2>2
<1>5. CASE Poll \/ PollAfterExpiry
  BY <1>5, PollStep
<1>6. ASSUME NEW p \in Pollers, Process(p) \/ Abandon(p)
      PROVE  IInv'
  BY <1>6, FetchStep, MarkBurnedStep, ReassociateStep, ParkStep, FailStep, AdvanceStep,
     SendSettleStep, SettleMinedStep, MarkCreditedStep, AbandonStep DEF Process
<1>7. CASE UNCHANGED vars
  <2>1. UNCHANGED <<intentVars, mirror, pollerVars, boundVars, chainVars, iris>>
    BY <1>7 DEF vars
  <2>2. UNCHANGED <<used, deposits, held, rescued>>
    BY <2>1 DEF chainVars
  <2>3. ChainTypes /\ BoundTypes
    BY Types DEF IInv
  <2>4. ChainTypes' /\ BoundTypes' /\ (\A m \in Messages : MessageInv(m))'
    BY <2>1, <2>2, <2>3, TypesStay, MessagesStay
  <2>5. QED
    BY <2>1, <2>2, <2>4, ChainStep
<1>8. QED
  BY <1>1, <1>2, <1>3, <1>4, <1>5, <1>6, <1>7 DEF Next

LEMMA Invariance == ASSUME OneMessageEach PROVE Spec => []IInv
<1>1. Init => IInv
  BY InitInv
<1>2. IInv /\ [Next]_vars => IInv'
  BY NextInv
<1>3. QED
  BY <1>1, <1>2, PTL DEF Spec

(* What intents and the treasury ledger report as credited went to whom    *)
(* they say (poller.ts, markCredited and reassociateIntent).               *)
THEOREM CreditsAreTrue == ASSUME OneMessageEach PROVE Spec => []CreditsTrue
<1>1. ASSUME IInv PROVE CreditsTrue
  <2>1. \A b \in Burns : IntentInv(b) /\ ToSet(MessagesOf[b]) = {Msg(b)}
    BY <1>1, MessageOfBurn DEF IInv
  <2>2. CreditedToRecipient
    BY <2>1 DEF CreditedToRecipient, IntentInv
  <2>3. MirrorIsCredited
    BY <2>1 DEF MirrorIsCredited, IntentInv
  <2>4. QED
    BY <1>1, <2>2, <2>3 DEF CreditsTrue, IInv
<1>2. IInv => CreditsTrue
  BY <1>1
<1>3. QED
  BY <1>2, Invariance, PTL

-----------------------------------------------------------------------------
(* The refinement of CrossChainDeposit.                                    *)

received == held \cup rescued
outcomeNow == [b \in Burns |-> Outcome(b)]
promiseVars == <<deposits, received, outcomeNow>>

Unreported == status' = status
ChainQuiet == deposits' = deposits /\ received' = received

(* A step that changes a status changes one, and none that is final.       *)
OneReported ==
    \E b \in Burns :
        /\ \A c \in Burns : c # b => status'[c] = status[c]
        /\ status[b] \notin {"credited", "failed"}

LEMMA PollerReports ==
    ASSUME IInv, NEW p \in Pollers, pc[p] # "idle",
           \/ \E to : Transition(burn(p), to)
           \/ Credit(p)
           \/ UNCHANGED status
    PROVE  Unreported \/ OneReported
<1>1. PICK b \in Burns : b = burn(p) /\ status[b] \in Statuses
  BY RowType
<1>2. status \in [Burns -> DOMAIN TRANSITIONS \cup {"none"}]
  BY DEF IInv, TypeOK
<1>3. ASSUME NEW to, canTransition(status[b], to), NEW s, status' = [status EXCEPT ![b] = s]
      PROVE  OneReported
  <2>1. status[b] \notin {"credited", "failed"}
    BY <1>1, <1>3, CanTransition
  <2>2. \A c \in Burns : c # b => status'[c] = status[c]
    BY <1>2, <1>3
  <2>3. QED
    BY <2>1, <2>2 DEF OneReported
<1>4. CASE \E to : Transition(burn(p), to)
  BY <1>1, <1>3, <1>4 DEF Transition
<1>5. CASE Credit(p)
  BY <1>1, <1>3, <1>5 DEF Credit, Unreported
<1>6. QED
  BY <1>4, <1>5 DEF Unreported

(* Every step settles or receives one message, or reports of one burn, or  *)
(* shows nothing.                                                          *)
LEMMA WhatShows ==
    ASSUME OneMessageEach, IInv, [Next]_vars
    PROVE  \/ ChainQuiet /\ (Unreported \/ OneReported)
           \/ \E m \in Messages : Settle(m) /\ received' = received /\ Unreported
           \/ \E m \in Messages : ReceiveForRescue(m)
<1>1. CASE Rescue
  BY <1>1 DEF Rescue, ChainQuiet, Unreported, received, intentVars
<1>2. CASE SetAllowedToken \/ \E u \in Users : Register(u)
  BY <1>2 DEF SetAllowedToken, OwnerCall, Register, ChainQuiet, Unreported, received, intentVars
<1>3. ASSUME NEW m \in Messages, Attest(m) \/ SettleLate(m) \/ ReceiveForRescue(m)
      PROVE  (ChainQuiet /\ Unreported)
             \/ (Settle(m) /\ received' = received /\ Unreported)
             \/ ReceiveForRescue(m)
  BY <1>3 DEF Attest, SettleLate, ChainQuiet, Unreported, received, intentVars, chainVars
<1>4. ASSUME NEW b \in Burns, FundIntent(b) \/ \E u \in Users : CreateIntent(u, b)
      PROVE  ChainQuiet /\ OneReported
  <2>1. PICK u \in Users, org \in BOOLEAN : InsertIntent(b, u, org)
    BY <1>4, OnrampAssumption DEF FundIntent, CreateIntent
  <2>2. status \in [Burns -> DOMAIN TRANSITIONS \cup {"none"}]
    BY DEF IInv, TypeOK
  <2>3. \A c \in Burns : c # b => status'[c] = status[c]
    BY <2>1, <2>2 DEF InsertIntent
  <2>4. QED
    BY <2>1, <2>3 DEF InsertIntent, OneReported, ChainQuiet, received, chainVars
<1>5. CASE Poll \/ PollAfterExpiry
  BY <1>5 DEF Poll, PollAfterExpiry, ReadBatch, ChainQuiet, Unreported, received, intentVars, chainVars
<1>6. ASSUME NEW p \in Pollers, Process(p) \/ Abandon(p)
      PROVE  \/ ChainQuiet /\ (Unreported \/ OneReported)
             \/ \E m \in Messages : Settle(m) /\ received' = received /\ Unreported
  <2>1. CASE Fetch(p) \/ SendSettle(p) \/ Abandon(p) \/ Reassociate(p)
    BY <2>1 DEF Fetch, SendSettle, Abandon, Reassociate, ChainQuiet, Unreported, received,
       intentVars, chainVars
  <2>2. CASE MarkBurned(p) \/ Park(p) \/ Fail(p) \/ AdvanceToAttested(p) \/ MarkCredited(p)
    <3>1. UNCHANGED <<deposits, held, rescued>> /\ pc[p] # "idle"
      BY <2>2 DEF MarkBurned, Park, Fail, AdvanceToAttested, MarkCredited, chainVars
    <3>2. \/ \E to : Transition(burn(p), to)
          \/ Credit(p)
          \/ UNCHANGED status
      BY <2>2 DEF MarkBurned, Park, Fail, GiveUp, AdvanceToAttested, MarkCredited, intentVars
    <3>3. QED
      BY <3>1, <3>2, PollerReports DEF ChainQuiet, received
  <2>3. CASE SettleMined(p)
    <3>1. pc[p] \in Taken \cup Advancing
      BY <2>3 DEF SettleMined, Advancing
    <3>2. message[p] \in Messages
      BY <3>1, RowTaken
    <3>3. QED
      BY <2>3, <3>2 DEF SettleMined, received, Unreported, intentVars
  <2>4. QED
    BY <1>6, <2>1, <2>2, <2>3 DEF Process
<1>7. CASE UNCHANGED vars
  BY <1>7 DEF vars, ChainQuiet, Unreported, received, intentVars, chainVars
<1>8. QED
  BY <1>1, <1>2, <1>3, <1>4, <1>5, <1>6, <1>7 DEF Next

LEMMA SettlePromise ==
    ASSUME OneMessageEach, IInv, NEW m \in Messages, Settle(m), received' = received, Unreported
    PROVE  [Promise!Next]_promiseVars
<1>1. outcomeNow' = outcomeNow
  BY DEF outcomeNow, Outcome, Unreported
<1>2. CASE Settles(m)
  <2>1. m \notin used /\ Hook[m] = "right" /\ MessageInv(m)
    BY <1>2 DEF Settles, IInv
  <2>2. deposits[m] = 0 /\ m \notin held \cup rescued
    BY <2>1 DEF MessageInv
  <2>3. deposits' = [deposits EXCEPT ![m] = 1]
    BY <1>2, <2>2 DEF Settle
  <2>4. ASSUME NEW b \in Burns, m \in ToSet(MessagesOf[b])
        PROVE  outcomeNow[b] # "failed"
    <3>1. m = Msg(b) /\ IntentInv(b)
      BY <2>4, MessageOfBurn DEF IInv
    <3>2. status[b] # "failed"
      BY <2>1, <3>1 DEF IntentInv, Bad
    <3>3. QED
      BY <3>2 DEF outcomeNow, Outcome
  <2>5. Promise!Deposit(m)
    BY <1>1, <2>2, <2>3, <2>4 DEF Promise!Deposit, received, outcomeNow
  <2>6. QED
    BY <2>5 DEF Promise!Next
<1>3. CASE ~Settles(m)
  BY <1>1, <1>3 DEF Settle, promiseVars
<1>4. QED
  BY <1>2, <1>3

LEMMA ReceivePromise ==
    ASSUME IInv, NEW m \in Messages, ReceiveForRescue(m)
    PROVE  [Promise!Next]_promiseVars
<1>1. outcomeNow' = outcomeNow
  BY DEF outcomeNow, Outcome, ReceiveForRescue, OwnerCall, intentVars
<1>2. m \notin used /\ MessageInv(m)
  BY DEF ReceiveForRescue, IInv
<1>3. deposits[m] = 0 /\ m \notin held \cup rescued
  BY <1>2 DEF MessageInv
<1>4. held' \cup rescued' = (held \cup rescued) \cup {m} /\ deposits' = deposits
  BY DEF ReceiveForRescue, OwnerCall
<1>5. Promise!Receive(m)
  BY <1>1, <1>3, <1>4 DEF Promise!Receive, outcomeNow
<1>6. QED
  BY <1>5 DEF Promise!Next

LEMMA ReportPromise ==
    ASSUME OneMessageEach, IInv, IInv', ChainQuiet, OneReported
    PROVE  [Promise!Next]_promiseVars
<1>1. PICK b \in Burns : /\ \A c \in Burns : c # b => status'[c] = status[c]
                         /\ status[b] \notin {"credited", "failed"}
  BY DEF OneReported
<1>2. \A c \in Burns : c # b => Outcome(c)' = Outcome(c)
  BY <1>1 DEF Outcome
<1>3. Outcome(b) = "open" /\ outcomeNow[b] = "open"
  BY <1>1 DEF Outcome, outcomeNow
<1>4. outcomeNow' = [outcomeNow EXCEPT ![b] = Outcome(b)']
  BY <1>2 DEF outcomeNow
<1>5. /\ IntentInv(b)' /\ MessageInv(Msg(b))'
      /\ ToSet(MessagesOf[b]) = {Msg(b)}
  BY MessageOfBurn DEF IInv
<1>6. deposits' = deposits /\ held' \cup rescued' = held \cup rescued
  BY DEF ChainQuiet, received
<1>7. CASE status'[b] = "credited"
  <2>1. Outcome(b)' = "credited" /\ Msg(b) \in used'
    BY <1>5, <1>7 DEF Outcome, IntentInv
  <2>2. deposits[Msg(b)] = 1 \/ Msg(b) \in held \cup rescued
    BY <1>5, <1>6, <2>1 DEF MessageInv
  <2>3. Promise!ReportCredited(b)
    BY <1>3, <1>4, <1>5, <1>6, <2>1, <2>2 DEF Promise!ReportCredited, outcomeNow
  <2>4. QED
    BY <2>3 DEF Promise!Next
<1>8. CASE status'[b] = "failed"
  <2>1. Outcome(b)' = "failed" /\ Hook[Msg(b)] \in Bad
    BY <1>5, <1>8 DEF Outcome, IntentInv
  <2>2. deposits[Msg(b)] = 0
    BY <1>5, <1>6, <2>1 DEF MessageInv, Bad
  <2>3. Promise!ReportFailed(b)
    BY <1>3, <1>4, <1>5, <1>6, <2>1, <2>2 DEF Promise!ReportFailed, outcomeNow
  <2>4. QED
    BY <2>3 DEF Promise!Next
<1>9. CASE status'[b] \notin {"credited", "failed"}
  <2>1. Outcome(b)' = Outcome(b)
    BY <1>3, <1>9 DEF Outcome
  <2>2. outcomeNow' = outcomeNow
    BY <1>2, <2>1 DEF outcomeNow
  <2>3. QED
    BY <1>6, <2>2 DEF promiseVars, received
<1>10. QED
  BY <1>7, <1>8, <1>9

LEMMA NextPromise ==
    ASSUME OneMessageEach, IInv, IInv', [Next]_vars
    PROVE  [Promise!Next]_promiseVars
<1>1. CASE ChainQuiet /\ Unreported
  BY <1>1 DEF ChainQuiet, Unreported, promiseVars, outcomeNow, Outcome
<1>2. CASE ChainQuiet /\ OneReported
  BY <1>2, ReportPromise
<1>3. CASE \E m \in Messages : Settle(m) /\ received' = received /\ Unreported
  BY <1>3, SettlePromise
<1>4. CASE \E m \in Messages : ReceiveForRescue(m)
  BY <1>4, ReceivePromise
<1>5. QED
  BY <1>1, <1>2, <1>3, <1>4, WhatShows

(* No retry, expired job or late transaction deposits a message twice or   *)
(* one that was rescued, and what is reported of a burn is true for ever   *)
(* (poller.ts with BenzoCCTPRouter.sol).                                   *)
THEOREM OnrampImplementsPromise == ASSUME OneMessageEach PROVE Spec => ImplementsPromise
<1>1. Init => Promise!Init
  BY DEF Init, Promise!Init, Outcome
<1>2. IInv /\ IInv' /\ [Next]_vars => [Promise!Next]_promiseVars
  BY NextPromise
<1>3. QED
  BY <1>1, <1>2, Invariance, PTL DEF Spec, ImplementsPromise, Promise!Spec, promiseVars, received,
     outcomeNow
=============================================================================
