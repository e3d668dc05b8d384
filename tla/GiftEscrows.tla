----------------------------- MODULE GiftEscrows -----------------------------
(***************************************************************************)
(* Gift links (contracts/benzo/GiftEscrow.sol and PrivateGiftEscrow.sol)   *)
(* over the encrypted token.  A sender locks tokens under the address of   *)
(* an ephemeral key that travels in the link; whoever holds the link signs *)
(* where the gift goes; anybody may submit what was signed.  The public    *)
(* escrow pays the token out, the private one deposits it into the         *)
(* recipient's encrypted balance.  Between creation and claim the token's  *)
(* owner changes the auditor, the blacklist and the escrow's permission.   *)
(***************************************************************************)
EXTENDS EncryptedERC, Sequences

CONSTANTS
    GiftToken,      \* the ERC20 of GiftEscrow
    PrivateEscrow,  \* address of PrivateGiftEscrow
    LinkKeys,       \* addresses of the ephemeral keys
    MaxSignatures,  \* bound on the claims signed
    MaxTime,        \* the last second
    Plans           \* bounds on what one behaviour contains

ASSUME GiftAssumption ==
    /\ GiftToken \in Tokens /\ PrivateEscrow \notin Payers
    /\ \A p \in Plans : p.gifts \in Nat

Escrows == {"public", "private"}

VARIABLES
    gifts,   \* per escrow the gifts it holds or held, numbered by their place
    held,    \* ERC20 balances of the escrows
    signed,  \* the claims signed with links' keys, known to everybody
    now,     \* block.timestamp
    plan     \* the bounds this behaviour keeps to

giftVars == <<gifts, held, signed, now>>
tokenOnlyVars == <<registrarVars, isConverter, auditor, blacklistedTokens, authorizedDepositors,
                   alreadyMinted, proofs, audited>>
allVars == <<vars, giftVars, plan>>

Gifts == {g \in Escrows \X (1 .. plan.gifts) : g[2] <= Len(gifts[g[1]])}
Gift(g) == gifts[g[1]][g[2]]

GiftInit ==
    /\ Init
    /\ gifts = [e \in Escrows |-> <<>>]
    /\ held = [e \in Escrows |-> [t \in Tokens |-> 0]]
    /\ signed = {}
    /\ now = 0
    /\ plan \in Plans

(* createGift: the private escrow takes the tokens the eERC knows.         *)
CreateGift(e, sender, claimAddress, t, amount, expiry) ==
    /\ Cardinality(Gifts) < plan.gifts
    /\ IF e = "public" THEN t = GiftToken ELSE tokenIds[t] # 0
    /\ amount # 0 /\ expiry > now
    /\ wallet[sender][t] >= amount
    /\ gifts' = [gifts EXCEPT ![e] = Append(@,
                    [sender |-> sender, claimAddress |-> claimAddress, token |-> t,
                     recipient |-> NoAddress, amount |-> amount, expiry |-> expiry,
                     status |-> "Created"])]
    /\ wallet' = [wallet EXCEPT ![sender][t] = @ - amount]
    /\ held' = [held EXCEPT ![e][t] = @ + amount]
    /\ UNCHANGED <<tokenOnlyVars, trackerVars, balances, reserve, signed, now>>

\* Mutant: the signature is bound to the recipient only.
DigestOfRecipient(g, recipient, amountPCT) == <<recipient, amountPCT>>

(* The digest binds the escrow's address, the gift and the recipient; the  *)
(* private one the PCT for the recipient's history too.                    *)
claimDigest(g, recipient, amountPCT) == <<g, recipient, amountPCT>>

\* What goes into the recipient's history, right or not; nothing in public.
ClaimPCTs(g) ==
    IF g[1] = "public" THEN {0} ELSE DepositorPCTs(Gift(g).token, Gift(g).amount)

(* The holder of a link signs where its gift goes.                         *)
SignClaim(g, recipient, amountPCT) ==
    /\ Cardinality(signed) < MaxSignatures
    /\ signed' = signed \cup {[key |-> Gift(g).claimAddress, of |-> g, recipient |-> recipient,
                               amountPCT |-> amountPCT]}
    /\ UNCHANGED <<vars, gifts, held, now>>

\* Mutant: a claim is possible in the expiry second too.
ClaimOpenTooLong(g) == now <= Gift(g).expiry

ClaimOpen(g) == now < Gift(g).expiry
RefundOpen(g) == now >= Gift(g).expiry

InEscrow(g) == held[g[1]][Gift(g).token] >= Gift(g).amount

ReturnDust(g) == Dust(Gift(g).token, Gift(g).amount)

(* What depositFor asks of a gift's deposit, and the escrow of its result: *)
(* a gift that is all dust credits nothing.                                *)
DepositAccepted(g, recipient) ==
    LET t == Gift(g).token IN
    /\ AuditorSet /\ isConverter
    /\ t \notin blacklistedTokens
    /\ IsUserRegistered(recipient)
    /\ PrivateEscrow \in authorizedDepositors
    /\ Gift(g).amount # ReturnDust(g)
    /\ HasRoom(recipient, tokenIds[t])

(* The checks of claim and refund, beside the status: expiry, recovered    *)
(* signer, and what the transfer needs.                                    *)
Claimable(g, recipient, amountPCT, s) ==
    /\ ClaimOpen(g)
    /\ s \in signed
    /\ s.key = Gift(g).claimAddress
    /\ claimDigest(g, recipient, amountPCT) = claimDigest(s.of, s.recipient, s.amountPCT)
    /\ InEscrow(g)
    /\ g[1] = "private" => DepositAccepted(g, recipient)

Refundable(g) == RefundOpen(g) /\ InEscrow(g)

Settle(g, status, recipient) ==
    /\ Gift(g).status = "Created"
    /\ gifts' = [gifts EXCEPT ![g[1]][g[2]].status = status,
                              ![g[1]][g[2]].recipient = recipient]

ClaimPublic(g, recipient, s) ==
    LET t == Gift(g).token IN
    /\ g[1] = "public"
    /\ Claimable(g, recipient, 0, s)
    /\ Settle(g, "Claimed", recipient)
    /\ held' = [held EXCEPT !["public"][t] = @ - Gift(g).amount]
    /\ wallet' = [wallet EXCEPT ![recipient][t] = @ + Gift(g).amount]
    /\ UNCHANGED <<tokenOnlyVars, trackerVars, balances, reserve, signed, now>>

(* depositFor with the escrow as the payer: the dust comes back and goes   *)
(* on to the sender.                                                       *)
ClaimPrivate(g, recipient, amountPCT, s) ==
    LET t == Gift(g).token
        amount == Gift(g).amount
        kept == amount - Dust(t, amount) IN
    /\ g[1] = "private"
    /\ Claimable(g, recipient, amountPCT, s)
    /\ Settle(g, "Claimed", recipient)
    /\ ConvertFrom(recipient, t, amount, amountPCT)
    /\ reserve' = [reserve EXCEPT ![t] = @ + kept]
    /\ held' = [held EXCEPT !["private"][t] = @ - kept - ReturnDust(g)]
    /\ wallet' = [wallet EXCEPT ![Gift(g).sender][t] = @ + ReturnDust(g)]
    /\ UNCHANGED <<tokenOnlyVars, signed, now>>

(* refund: the sender's own call, whatever the eERC thinks of the token.   *)
Refund(g) ==
    LET t == Gift(g).token IN
    /\ Refundable(g)
    /\ Settle(g, "Refunded", Gift(g).recipient)
    /\ held' = [held EXCEPT ![g[1]][t] = @ - Gift(g).amount]
    /\ wallet' = [wallet EXCEPT ![Gift(g).sender][t] = @ + Gift(g).amount]
    /\ UNCHANGED <<tokenOnlyVars, trackerVars, balances, reserve, signed, now>>

Tick ==
    /\ plan.gifts > 0 /\ now < MaxTime
    /\ now' = now + 1
    /\ UNCHANGED <<vars, gifts, held, signed>>

GiftStep ==
    \/ \E e \in Escrows, sender \in Users, key \in LinkKeys, t \in Tokens, amount \in Amounts :
           \E expiry \in 1 .. MaxTime : CreateGift(e, sender, key, t, amount, expiry)
    \/ \E g \in Gifts, recipient \in Users :
           \/ \E amountPCT \in ClaimPCTs(g) : SignClaim(g, recipient, amountPCT)
           \/ \E s \in signed : ClaimPublic(g, recipient, s)
           \/ \E s \in signed, amountPCT \in ClaimPCTs(g) : ClaimPrivate(g, recipient, amountPCT, s)
    \/ \E g \in Gifts : Refund(g)
    \/ Tick

(* The bounds on the token's part.                                         *)
WithinPlan ==
    /\ \A u \in Users : publicKey[u] \in plan.keys \cup {NoKey}
    /\ blacklistedTokens \subseteq plan.tokens
    /\ \A t \in Tokens \ plan.tokens : tokenIds[t] = 0
    /\ authorizedDepositors \subseteq plan.depositors
    /\ Cardinality(proofs) <= plan.proofs

(* The token's own transactions, and the owner's word on the escrow.       *)
TokenStep ==
    /\ \/ Next
       \/ \E authorized \in BOOLEAN : SetAuthorizedDepositor(PrivateEscrow, authorized)
    /\ WithinPlan'
    /\ UNCHANGED giftVars

GiftNext == UNCHANGED plan /\ (GiftStep \/ TokenStep)

GiftSpec == GiftInit /\ [][GiftNext]_allVars
-----------------------------------------------------------------------------
(* Properties                                                              *)

Open == {g \in Gifts : Gift(g).status = "Created"}

(* An escrow holds what its open gifts come to and nothing else: none is   *)
(* paid out twice, and no dust of a claim stays behind.                    *)
EscrowsHoldGifts ==
    \A e \in Escrows, t \in Tokens :
        held[e][t] = MapThenSumSet(LAMBDA g : Gift(g).amount,
                                   {g \in Open : g[1] = e /\ Gift(g).token = t})

(* At no second, that of the expiry included, can a gift go both ways, and *)
(* none is stranded: once it cannot be claimed the sender can have it      *)
(* back, whatever became of the auditor, the blacklist, the escrow's       *)
(* permission or the amount's dust; until then any claim that was signed   *)
(* goes through, a private one as soon as the eERC takes its deposit.      *)
OneWayOut ==
    \A g \in Open :
        /\ now >= Gift(g).expiry => Refundable(g)
        /\ \A s \in signed, recipient \in Users, amountPCT \in ClaimPCTs(g) :
               ~(Claimable(g, recipient, amountPCT, s) /\ Refundable(g))
        /\ now < Gift(g).expiry =>
               \A s \in signed :
                   s.of = g /\ (g[1] = "private" => DepositAccepted(g, s.recipient))
                       => s.amountPCT \in ClaimPCTs(g)
                          /\ Claimable(g, s.recipient, s.amountPCT, s)

GiftRecords ==
    [sender : Users, claimAddress : LinkKeys, token : Tokens, recipient : Users \cup {NoAddress},
     amount : Nat, expiry : Int, status : {"Created", "Claimed", "Refunded"}]

GiftTypes ==
    /\ plan \in Plans /\ now \in Nat
    /\ gifts \in [Escrows -> Seq(GiftRecords)]
    /\ held \in [Escrows -> [Tokens -> Nat]]
    /\ signed \subseteq [key : LinkKeys, of : Gifts, recipient : Users, amountPCT : Nat]

(* Together, with the types: every gift can be redeemed, in one way.       *)
GiftsRedeemable == GiftTypes /\ EscrowsHoldGifts /\ OneWayOut

(* A gift goes where the holder of its link signed it to, with the history *)
(* entry that was signed: whoever sees a signature in the mempool can only *)
(* submit it as it is, not for another gift of the same key or the other   *)
(* escrow's gift of the same number.                                       *)
ClaimsAsSigned ==
    [][\A g \in Open :
           LET claimed == gifts'[g[1]][g[2]] IN
           claimed.status = "Claimed" =>
               \E s \in signed :
                   /\ s.of = g /\ s.key = claimed.claimAddress
                   /\ s.recipient = claimed.recipient
                   /\ g[1] = "private" =>
                         LET id == tokenIds[claimed.token]
                             b == balances[claimed.recipient][id] IN
                         balances'[claimed.recipient][id].amountPCTs = b.amountPCTs \cup
                             {[pct |-> s.amountPCT, index |-> b.transactionIndex]}]_allVars
=============================================================================
