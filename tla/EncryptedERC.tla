---------------------------- MODULE EncryptedERC ----------------------------
(***************************************************************************)
(* The eERC token of contracts/eerc: EncryptedERC.sol with the state it    *)
(* inherits (TokenTracker, AuditorManager, EncryptedUserBalances), the     *)
(* Registrar it consults, the ERC20 tokens it holds, and the clients that  *)
(* read a balance, prove a statement about it and submit the proof later.  *)
(*                                                                         *)
(* A transaction is atomic: a revert is a disabled action.  What is not    *)
(* atomic is proving: between the read and the transaction other users     *)
(* deposit, pay, spend, and the owner rotates the auditor.                 *)
(***************************************************************************)
EXTENDS EncryptedUserBalances

CONSTANTS
    Users,                \* addresses of people and treasuries
    OwnKeys,              \* OwnKeys[u]: public keys whose private key u holds
    Depositors,           \* contracts that may be authorized for depositFor
    Tokens,               \* ERC20 contracts
    NoAddress,            \* address(0)
    DownScale, UpScale,   \* 10^(token decimals - decimals), and the converse
    Randomness,           \* encryption randomness clients draw
    Amounts,              \* ERC20 amounts and private amounts
    InitialTokens,        \* InitialTokens[p]: ERC20 balance of a user or depositor
    MaxProofs,            \* bound on the proofs ever built
    MaxTransactionIndex   \* bound on the transaction index of one balance

ASSUME UsersAssumption ==
    /\ IsFiniteSet(Users)
    /\ OwnKeys \in [Users -> SUBSET Keys]
    /\ Users \cap Depositors = {}

ASSUME TokensAssumption ==
    /\ NoAddress \notin Tokens \cup Users
    /\ IsFiniteSet(Tokens)
    /\ DownScale \in [Tokens -> Nat \ {0}]
    /\ UpScale \in [Tokens -> Nat \ {0}]
    /\ \A t \in Tokens : DownScale[t] = 1 \/ UpScale[t] = 1
    /\ InitialTokens \in [Users \cup Depositors -> Nat]

ASSUME NumbersAssumption ==
    /\ Randomness \subseteq Nat \ {0}
    /\ Amounts \subseteq Nat
    /\ MaxProofs \in Nat
    /\ MaxTransactionIndex \in Nat

(* Token 0 is the standalone token; ids from 1 on are given to ERC20s.     *)
TokenIds == 0 .. Cardinality(Tokens)

Payers == Users \cup Depositors

VARIABLES
    isConverter,      \* converter or standalone, set by the constructor
    publicKey,        \* Registrar.userPublicKeys
    isRegistered,     \* Registrar.isRegistered: used registration hashes
    auditor,          \* AuditorManager: address and public key
    tokenIds,         \* TokenTracker.tokenIds, 0 when unknown
    tokenAddresses,   \* TokenTracker.tokenAddresses
    nextTokenId,
    blacklistedTokens,
    authorizedDepositors,
    balances,         \* EncryptedUserBalances.balances
    alreadyMinted,    \* used mint nullifiers
    wallet,           \* external ERC20 balances of users and depositors
    reserve,          \* external ERC20 balances of the EncryptedERC contract
    proofs,           \* proofs built so far, with what was proved
    audited           \* auditor address and PCT key of each emitted event

vars == <<isConverter, publicKey, isRegistered, auditor, tokenIds, tokenAddresses, nextTokenId,
          blacklistedTokens, authorizedDepositors, balances, alreadyMinted,
          wallet, reserve, proofs, audited>>

registrarVars == <<publicKey, isRegistered>>
trackerVars == <<tokenIds, tokenAddresses, nextTokenId>>
adminVars == <<isConverter, auditor, blacklistedTokens, authorizedDepositors>>
moneyVars == <<wallet, reserve>>

NoAuditor == [user |-> NoAddress, key |-> NoKey]

(* The bound on transaction indices: no credit or spend beyond it.         *)
HasRoom(u, id) == balances[u][id].transactionIndex < MaxTransactionIndex

IsUserRegistered(u) == publicKey[u] # NoKey
AuditorSet == auditor # NoAuditor

(* Converting between token units and encrypted units: one of the two      *)
(* scales is 1.                                                            *)
ConvertIn(t, amount) == (amount \div DownScale[t]) * UpScale[t]

\* Mutant: tokens are paid out rounded up.
ConvertOutRoundedUp(t, value) ==
    (value * DownScale[t] + UpScale[t] - 1) \div UpScale[t]

Dust(t, amount) == amount % DownScale[t]
ConvertOut(t, value) == (value * DownScale[t]) \div UpScale[t]

Init ==
    /\ isConverter \in BOOLEAN
    /\ publicKey = [u \in Users |-> NoKey]
    /\ isRegistered = {}
    /\ auditor = NoAuditor
    /\ tokenIds = [t \in Tokens |-> 0]
    /\ tokenAddresses = [id \in TokenIds |-> NoAddress]
    /\ nextTokenId = 1
    /\ blacklistedTokens = {}
    /\ authorizedDepositors = {}
    /\ balances = [u \in Users |-> [id \in TokenIds |-> EmptyBalance]]
    /\ alreadyMinted = {}
    /\ wallet = [p \in Payers |-> [t \in Tokens |-> InitialTokens[p]]]
    /\ reserve = [t \in Tokens |-> 0]
    /\ proofs = {}
    /\ audited = {}
-----------------------------------------------------------------------------
(* The Registrar and the owner's settings                                  *)

\* Mutant: the upstream guard, which an account passes with a fresh hash.
RegisterAgain(u, key) ==
    /\ key \in OwnKeys[u]
    /\ ~(<<u, key>> \in isRegistered /\ IsUserRegistered(u))
    /\ publicKey' = [publicKey EXCEPT ![u] = key]
    /\ isRegistered' = isRegistered \cup {<<u, key>>}
    /\ UNCHANGED <<adminVars, trackerVars, balances, alreadyMinted, moneyVars,
                   proofs, audited>>

(* register: the proof shows knowledge of the private key and binds the    *)
(* hash to chain, key and account.                                         *)
Register(u, key) ==
    /\ key \in OwnKeys[u]
    /\ ~(<<u, key>> \in isRegistered \/ IsUserRegistered(u))
    /\ publicKey' = [publicKey EXCEPT ![u] = key]
    /\ isRegistered' = isRegistered \cup {<<u, key>>}
    /\ UNCHANGED <<adminVars, trackerVars, balances, alreadyMinted, moneyVars,
                   proofs, audited>>

SetAuditorPublicKey(u) ==
    /\ IsUserRegistered(u)
    /\ auditor' = [user |-> u, key |-> publicKey[u]]
    /\ UNCHANGED <<isConverter, registrarVars, trackerVars, blacklistedTokens, authorizedDepositors,
                   balances, alreadyMinted, moneyVars, proofs, audited>>

SetTokenBlacklist(t, blacklisted) ==
    /\ blacklistedTokens' = IF blacklisted THEN blacklistedTokens \cup {t}
                                           ELSE blacklistedTokens \ {t}
    /\ UNCHANGED <<isConverter, registrarVars, trackerVars, auditor, authorizedDepositors,
                   balances, alreadyMinted, moneyVars, proofs, audited>>

SetAuthorizedDepositor(d, authorized) ==
    /\ authorizedDepositors' = IF authorized THEN authorizedDepositors \cup {d}
                                             ELSE authorizedDepositors \ {d}
    /\ UNCHANGED <<isConverter, registrarVars, trackerVars, auditor, blacklistedTokens,
                   balances, alreadyMinted, moneyVars, proofs, audited>>
-----------------------------------------------------------------------------
(* Deposits                                                                *)

(* _addToken                                                               *)
AddTokenIfNew(t) ==
    IF tokenIds[t] = 0
    THEN /\ tokenIds' = [tokenIds EXCEPT ![t] = nextTokenId]
         /\ tokenAddresses' = [tokenAddresses EXCEPT ![nextTokenId] = t]
         /\ nextTokenId' = nextTokenId + 1
    ELSE UNCHANGED trackerVars

(* The crediting part of _convertFrom: the amount PCT takes one transaction *)
(* index and the committed balance the next one.                            *)
ConvertCredit(b, key, value, amountPCT) ==
    CommitUserBalance(AdvanceIndex(RecordAmount(
        AddToCiphertext(b, Encrypt(key, value)), amountPCT)))

(* _convertFrom: a value that scales to zero registers the token and       *)
(* credits nothing.                                                        *)
ConvertFrom(to, t, amount, amountPCT) ==
    LET value == ConvertIn(t, amount) IN
    /\ AddTokenIfNew(t)
    /\ balances' =
          IF value = 0
          THEN balances
          ELSE [balances EXCEPT ![to][tokenIds'[t]] =
                   ConvertCredit(@, publicKey[to], value, amountPCT)]

(* _executeDepositFrom: the amount is pulled, the dust goes back.          *)
ExecuteDepositFrom(payer, to, t, amount, amountPCT) ==
    /\ HasRoom(to, tokenIds[t])
    /\ wallet[payer][t] >= amount
    /\ ConvertFrom(to, t, amount, amountPCT)
    /\ LET kept == amount - Dust(t, amount) IN
          /\ wallet' = [wallet EXCEPT ![payer][t] = @ - kept]
          /\ reserve' = [reserve EXCEPT ![t] = @ + kept]
    /\ UNCHANGED <<registrarVars, adminVars, alreadyMinted, proofs, audited>>

(* deposit: users encrypt the PCT themselves, for their own history.       *)
Deposit(u, t, amount) ==
    /\ AuditorSet /\ isConverter
    /\ t \notin blacklistedTokens
    /\ IsUserRegistered(u)
    /\ ExecuteDepositFrom(u, u, t, amount, ConvertIn(t, amount))

(* depositFor: the contract does not check the PCT against the amount, it  *)
(* may be of the credited amount or of another one.                        *)
DepositorPCTs(t, amount) == {ConvertIn(t, amount), ConvertIn(t, amount) + 1}

DepositFor(d, to, t, amount, amountPCT) ==
    /\ AuditorSet /\ isConverter
    /\ t \notin blacklistedTokens
    /\ IsUserRegistered(to)
    /\ d \in authorizedDepositors
    /\ ExecuteDepositFrom(d, to, t, amount, amountPCT)
-----------------------------------------------------------------------------
(* Proving.  A proof records its public inputs; it exists only if the      *)
(* statement of its circuit holds.  A client starts from balanceOf, the    *)
(* registrar and the auditor key as they are when it reads them.           *)

Spend == [kind : {"transfer", "withdraw", "burn"},
          senderKey : Keys, providedBalance : Ciphertext,
          senderAmount : Ciphertext, amount : Nat, balancePCT : Int,
          receiverAmount : Ciphertext, auditorKey : Keys]

Mint == [kind : {"mint"}, receiverAmount : Ciphertext, amount : Nat,
         auditorKey : Keys, nullifier : Nat]

Proof == Spend \cup Mint

(* What the circuits check of the sender: the key is theirs, the provided  *)
(* ciphertext decrypts to the balance, the amount does not exceed it, and  *)
(* the sender ciphertext encrypts the amount.                              *)
SenderStatement(u, b, value) ==
    /\ publicKey[u] \in OwnKeys[u]
    /\ b.eGCT.key = publicKey[u]
    /\ value <= b.eGCT.v

(* buildTransferProofInput and its like: the balance comes from the PCTs   *)
(* and the client stops when it does not match the ciphertext.             *)
ProveSpend(kind, u, id, value, senderAmount, receiverAmount) ==
    LET b == balances[u][id] IN
    /\ Cardinality(proofs) < MaxProofs
    /\ AuditorSet /\ IsUserRegistered(u)
    /\ CanDecryptBalance(b)
    /\ value <= TotalBalance(b)
    /\ SenderStatement(u, b, value)
    /\ proofs' = proofs \cup
          {[kind |-> kind, senderKey |-> publicKey[u],
            providedBalance |-> b.eGCT, senderAmount |-> senderAmount,
            amount |-> value, balancePCT |-> TotalBalance(b) - value,
            receiverAmount |-> receiverAmount, auditorKey |-> auditor.key]}
    /\ UNCHANGED <<registrarVars, adminVars, trackerVars, balances, alreadyMinted,
                   moneyVars, audited>>

\* Mutant: the circuit leaves the receiver's ciphertext unconstrained.
ProveTransferUnconstrained(from, to, id, value, r) ==
    /\ IsUserRegistered(from) /\ IsUserRegistered(to)
    /\ ProveSpend("transfer", from, id, value,
                  [key |-> publicKey[from], v |-> value, r |-> r],
                  [key |-> publicKey[to], v |-> value + 1, r |-> r])

ProveTransfer(from, to, id, value, r) ==
    /\ IsUserRegistered(from) /\ IsUserRegistered(to)
    /\ ProveSpend("transfer", from, id, value,
                  [key |-> publicKey[from], v |-> value, r |-> r],
                  [key |-> publicKey[to], v |-> value, r |-> r])

(* A withdrawal names its amount in the clear; the contract encrypts it.   *)
ProveWithdraw(from, id, value) ==
    /\ isConverter
    /\ ProveSpend("withdraw", from, id, value, Encrypt(publicKey[from], value), NoCiphertext)

ProveBurn(from, value, r) ==
    /\ ~isConverter
    /\ ProveSpend("burn", from, 0, value,
                  [key |-> publicKey[from], v |-> value, r |-> r], NoCiphertext)

(* The mint nullifier is the hash of the chain id and the auditor PCT,     *)
(* whose encryption is random: a new number for every proof.               *)
ProveMint(to, value, r) ==
    /\ ~isConverter
    /\ Cardinality(proofs) < MaxProofs
    /\ AuditorSet /\ IsUserRegistered(to)
    /\ proofs' = proofs \cup
          {[kind |-> "mint", amount |-> value, auditorKey |-> auditor.key,
            receiverAmount |-> [key |-> publicKey[to], v |-> value, r |-> r],
            nullifier |-> Cardinality(proofs)]}
    /\ UNCHANGED <<registrarVars, adminVars, trackerVars, balances, alreadyMinted,
                   moneyVars, audited>>
-----------------------------------------------------------------------------
(* Private operations                                                      *)

(* _validatePublicKey, _validateAuditorPublicKey                           *)
ValidatePublicKey(u, key) == publicKey[u] = key

ValidateAuditorPublicKey(key) == auditor.key = key

(* The auditor PCT of an event is under the proof's auditor key; the event *)
(* names the auditor in office.                                            *)
EmitPrivate(p) == audited' = audited \cup {[auditor |-> auditor.user, key |-> p.auditorKey]}

(* The checks every spending handler makes, ending in _verifyUserBalance.  *)
(* The token id is an argument of the call that no proof is bound to.      *)
AcceptSpend(kind, from, id, p) ==
    /\ p \in proofs /\ p.kind = kind
    /\ AuditorSet
    /\ IsUserRegistered(from)
    /\ ValidatePublicKey(from, p.senderKey)
    /\ ValidateAuditorPublicKey(p.auditorKey)
    /\ IsBalanceValid(balances[from][id], p.providedBalance)

SpendBalance(from, id, p) ==
    PrivateBurnBalance(balances[from][id], p.providedBalance, p.senderAmount, p.balancePCT)

(* _executePrivateTransfer: burn, then add; the two may be one balance.    *)
Transfer(from, to, id, p) ==
    /\ AcceptSpend("transfer", from, id, p)
    /\ HasRoom(from, id) /\ HasRoom(to, id)
    /\ IsUserRegistered(to)
    /\ ValidatePublicKey(to, p.receiverAmount.key)
    /\ LET burned == [balances EXCEPT ![from][id] = SpendBalance(from, id, p)] IN
          balances' = [burned EXCEPT ![to][id] =
                          AddToUserBalance(@, p.receiverAmount, p.amount)]
    /\ EmitPrivate(p)
    /\ UNCHANGED <<registrarVars, adminVars, trackerVars, alreadyMinted, moneyVars, proofs>>

(* _executeWithdraw and _convertTo                                         *)
Withdraw(from, id, p) ==
    LET t == tokenAddresses[id] IN
    /\ isConverter
    /\ AcceptSpend("withdraw", from, id, p)
    /\ HasRoom(from, id)
    /\ t # NoAddress
    /\ reserve[t] >= ConvertOut(t, p.amount)
    /\ balances' = [balances EXCEPT ![from][id] = SpendBalance(from, id, p)]
    /\ wallet' = [wallet EXCEPT ![from][t] = @ + ConvertOut(t, p.amount)]
    /\ reserve' = [reserve EXCEPT ![t] = @ - ConvertOut(t, p.amount)]
    /\ EmitPrivate(p)
    /\ UNCHANGED <<registrarVars, adminVars, trackerVars, alreadyMinted, proofs>>

PrivateBurn(from, p) ==
    /\ ~isConverter
    /\ AcceptSpend("burn", from, 0, p)
    /\ HasRoom(from, 0)
    /\ balances' = [balances EXCEPT ![from][0] = SpendBalance(from, 0, p)]
    /\ EmitPrivate(p)
    /\ UNCHANGED <<registrarVars, adminVars, trackerVars, alreadyMinted, moneyVars, proofs>>

PrivateMint(to, p) ==
    /\ ~isConverter
    /\ p \in proofs /\ p.kind = "mint"
    /\ AuditorSet
    /\ IsUserRegistered(to)
    /\ ValidatePublicKey(to, p.receiverAmount.key)
    /\ ValidateAuditorPublicKey(p.auditorKey)
    /\ p.nullifier \notin alreadyMinted
    /\ HasRoom(to, 0)
    /\ balances' = [balances EXCEPT ![to][0] =
                       AddToUserBalance(@, p.receiverAmount, p.amount)]
    /\ alreadyMinted' = alreadyMinted \cup {p.nullifier}
    /\ EmitPrivate(p)
    /\ UNCHANGED <<registrarVars, adminVars, trackerVars, moneyVars, proofs>>
-----------------------------------------------------------------------------
Next ==
    \/ \E u \in Users, key \in Keys : Register(u, key)
    \/ \E u \in Users : SetAuditorPublicKey(u)
    \/ \E t \in Tokens, blacklisted \in BOOLEAN : SetTokenBlacklist(t, blacklisted)
    \/ \E d \in Depositors, authorized \in BOOLEAN : SetAuthorizedDepositor(d, authorized)
    \/ \E u \in Users, t \in Tokens, amount \in Amounts : Deposit(u, t, amount)
    \/ \E d \in Depositors, to \in Users, t \in Tokens, amount \in Amounts :
           \E amountPCT \in DepositorPCTs(t, amount) : DepositFor(d, to, t, amount, amountPCT)
    \/ \E from, to \in Users, id \in TokenIds, value \in Amounts, r \in Randomness :
           ProveTransfer(from, to, id, value, r)
    \/ \E from \in Users, id \in TokenIds, value \in Amounts : ProveWithdraw(from, id, value)
    \/ \E from \in Users, value \in Amounts, r \in Randomness : ProveBurn(from, value, r)
    \/ \E to \in Users, value \in Amounts, r \in Randomness : ProveMint(to, value, r)
    \/ \E from, to \in Users, id \in TokenIds, p \in proofs : Transfer(from, to, id, p)
    \/ \E from \in Users, id \in TokenIds, p \in proofs : Withdraw(from, id, p)
    \/ \E from \in Users, p \in proofs : PrivateBurn(from, p)
    \/ \E to \in Users, p \in proofs : PrivateMint(to, p)

Spec == Init /\ [][Next]_vars
-----------------------------------------------------------------------------
(* Properties                                                              *)

(* Every variable has its type; in particular no ERC20 balance is negative. *)
TokenTypes ==
    /\ isConverter \in BOOLEAN
    /\ publicKey \in [Users -> Keys \cup {NoKey}]
    /\ isRegistered \subseteq Users \X Keys
    /\ auditor \in [user : Users, key : Keys] \cup {NoAuditor}
    /\ tokenIds \in [Tokens -> TokenIds]
    /\ tokenAddresses \in [TokenIds -> Tokens \cup {NoAddress}]
    /\ nextTokenId \in 1 .. Cardinality(Tokens) + 1
    /\ blacklistedTokens \subseteq Tokens
    /\ balances \in [Users -> [TokenIds -> Balance]]
    /\ alreadyMinted \subseteq Nat
    /\ wallet \in [Payers -> [Tokens -> Nat]]
    /\ reserve \in [Tokens -> Nat]
    /\ proofs \subseteq Proof
    /\ audited \subseteq [auditor : Users, key : Keys]

TypeOK == TokenTypes /\ authorizedDepositors \subseteq Depositors

(* What a valid snapshot says the user had is still there: credits came on *)
(* top and every spend dropped the older snapshots.  So a spend proved     *)
(* against any snapshot the contract accepts (_verifyUserBalance), however *)
(* old, cannot overdraw.                                                   *)
SnapshotCovered ==
    \A u \in Users, id \in TokenIds :
        \A h \in ValidHistory(balances[u][id]) : h.ct.v <= balances[u][id].eGCT.v

(* The balance a ciphertext stands for is never negative: no sequence of   *)
(* credits, stale proofs and spends wraps it around the curve's order.     *)
NoOverdraft ==
    \A u \in Users, id \in TokenIds : balances[u][id].eGCT.v >= 0

(* Together: in every state, balances and the snapshots the contract would *)
(* accept are of their type and covered by the money there is.             *)
BalancesCovered == TypeOK /\ SnapshotCovered /\ NoOverdraft

(* Spending against a snapshot deletes the amount PCTs up to its index and *)
(* installs the PCT of what the snapshot leaves: this adds up only if each *)
(* snapshot decrypts to the balance PCT and the amount PCTs up to it.      *)
SnapshotsConsistent ==
    \A u \in Users, id \in TokenIds :
        LET b == balances[u][id] IN
        \A h \in ValidHistory(b) :
            h.ct.v = b.balancePCT + SumPCTs({p \in b.amountPCTs : p.index <= h.index})

(* An owner can always read the balance, and hence spend it: the PCTs a    *)
(* client decrypts (getDecryptedBalance) add up to the ciphertext's value. *)
ClientReadsBalance ==
    \A u \in Users, id \in TokenIds : CanDecryptBalance(balances[u][id])

(* Together: what is kept of an account's history adds up, at every        *)
(* snapshot that can still be spent against and for the client's reading.  *)
(* A depositor on behalf could break it with the PCT of another amount.    *)
HistoryAddsUp == Depositors = {} => SnapshotsConsistent /\ ClientReadsBalance

(* A balance stays under its owner's key: register refuses to re-key an    *)
(* account, whose ciphertexts nobody could open any more.                  *)
CiphertextKey ==
    \A u \in Users, id \in TokenIds :
        balances[u][id].eGCT # NoCiphertext => balances[u][id].eGCT.key = publicKey[u]

(* Every PrivateTransfer, PrivateMint, PrivateBurn and Withdraw event names *)
(* an auditor who can open its auditor PCT, also when the proof was built  *)
(* before a rotation.                                                      *)
AuditorReadable ==
    \A e \in audited : e.key = publicKey[e.auditor]

EncryptedSupply(id) == MapThenSumSet(LAMBDA u : balances[u][id].eGCT.v, Users)

(* The contract holds the tokens its encrypted balances can be converted   *)
(* into, whatever the decimals and the rounding.                           *)
Solvency ==
    \A t \in Tokens :
        tokenIds[t] # 0 => EncryptedSupply(tokenIds[t]) * DownScale[t] <= reserve[t] * UpScale[t]

(* Money in a balance can be withdrawn, and as the token it was deposited  *)
(* in: a token's id leads back to it, and no other id holds a balance.     *)
BalanceRedeemable ==
    /\ \A t \in Tokens : tokenIds[t] # 0 => tokenAddresses[tokenIds[t]] = t
    /\ isConverter =>
           \A u \in Users, id \in TokenIds :
               balances[u][id].eGCT # NoCiphertext =>
                   id # 0 /\ \E t \in Tokens : tokenIds[t] = id

(* A mint proof is paid out once: what circulates in the standalone token  *)
(* was minted by distinct proofs.                                          *)
MintedSupply ==
    ~isConverter =>
        EncryptedSupply(0) <= MapThenSumSet(LAMBDA p : p.amount, {p \in proofs : p.kind = "mint"})

(* Together: every balance is backed by tokens the contract holds, or by   *)
(* distinct mints, and can be taken out as what was put in.                *)
Redeemable == Solvency /\ BalanceRedeemable /\ MintedSupply

(* Together: who is to read a ciphertext can: the owner the balance, and   *)
(* the auditor in office the auditor PCT of each event.                    *)
KeysReadable == CiphertextKey /\ AuditorReadable

(* A spend revokes every snapshot taken before it, so that no other proof  *)
(* in flight can spend the same money.                                     *)
SpendRevokes ==
    [][\A u \in Users, id \in TokenIds :
           balances'[u][id].eGCT.v < balances[u][id].eGCT.v =>
               \A h \in ValidHistory(balances'[u][id]) :
                   h.index >= balances[u][id].transactionIndex]_vars

(* A proof in flight survives what others do: as long as its sender spends *)
(* nothing and the auditor key stays, the contract goes on accepting it,   *)
(* however many credits arrive.                                            *)
Spends(u) ==
    \E id \in TokenIds, p \in proofs :
        \/ \E to \in Users : Transfer(u, to, id, p)
        \/ Withdraw(u, id, p)
        \/ PrivateBurn(u, p)

ProofsOutliveCredits ==
    [][\A u \in Users, id \in TokenIds :
           ~Spends(u) /\ auditor'.key = auditor.key =>
               \A p \in {q \in proofs : q.kind # "mint"} :
                   AcceptSpend(p.kind, u, id, p) => AcceptSpend(p.kind, u, id, p)']_vars

(* The token implements the plaintext ledger of PrivateLedger: every       *)
(* transaction is a deposit or mint, a transfer or a withdrawal or burn    *)
(* that the payer's balance covers, or leaves all balances alone.          *)
Plain == [u \in Users |-> [id \in TokenIds |-> balances[u][id].eGCT.v]]

Ledger == INSTANCE PrivateLedger WITH plain <- Plain

ImplementsLedger == Ledger!Spec
=============================================================================
