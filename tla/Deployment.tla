----------------------------- MODULE Deployment -----------------------------
(***************************************************************************)
(* The deploy scripts (contracts/scripts/deploy): an operator's shell runs *)
(* one script at a time against one network and leaves addresses in the    *)
(* network's manifest.  A script is a list of steps; a step is one         *)
(* transaction, one verification or one write of a file, so that the       *)
(* script may die between any two of them and be run again.  Meanwhile     *)
(* anybody may deposit, and a converter numbers its tokens by deposit.     *)
(*                                                                         *)
(* An address is a position in `code`; 0 stands for no record and Stale    *)
(* for one carried over from another chain, where nothing is deployed.     *)
(***************************************************************************)
EXTENDS Integers, SequencesExt

CONSTANTS
    OtherVerifiers, \* mint, transfer, withdraw and burn, in their order
    NoKey,
    OperatorKey,    \* the auditor key whose private half production holds
    ForgottenKey,   \* an auditor key left in a key file by an earlier attempt
    BootstrapKey,   \* the key of the account that deposits the first dust
    GeneratedKeys,  \* keys getOrCreateAuditorAccount may draw
    Development,    \* the setup the dev verifiers come from
    Ceremonies,     \* the setups run-ceremony.ts may export
    Unindexed,      \* paths whose contract the explorer may not know yet
    Dust,           \* bootstrap deposits that one funding pays for
    MaxScripts, MaxCrashes, MaxStrangers

ASSUME DeploymentAssumption ==
    /\ OtherVerifiers \in Seq({"mint", "transfer", "withdraw", "burn"})
    /\ Dust \in Nat \ {0, 1}
    /\ {MaxScripts, MaxCrashes, MaxStrangers} \subseteq Nat
    /\ NoKey \notin {OperatorKey, ForgottenKey, BootstrapKey}
    /\ {NoKey, OperatorKey, ForgottenKey, BootstrapKey} \cap GeneratedKeys = {}
    /\ GeneratedKeys # {}
    /\ Development \notin Ceremonies

VARIABLES
    network,
    carriedOver, \* the manifest came with the records of another chain
    code,      \* the contracts deployed, in order
    explorer,  \* addresses whose source the explorer has
    manifest,  \* deployments/<network>.json
    config,    \* the addresses packages/config reads
    sources,   \* contracts/verifiers: the setup each verifier's source is of
    marker,    \* ceremony-marker.json: the build and the setups it attests
    keyFile,   \* the auditor's key in .auditor-key.local.json
    funds,     \* bootstrap deposits the deployer can pay for, by token
    console,   \* the script that runs
    scripts, crashes, strangers, \* how many there were
    replaced   \* history: converters that script 11 gave up

chainVars == <<code, explorer, funds>>
ceremonyVars == <<sources, marker>>
fileVars == <<manifest, config, keyFile, ceremonyVars>>
countVars == <<network, carriedOver, scripts, crashes, strangers, replaced>>
vars == <<chainVars, fileVars, countVars, console>>

Stale == -1
CircleTokens == {"USDC", "EURC"}
Symbols == CircleTokens \cup {"tUSDC", "other"}
Verifiers == <<"registration">> \o OtherVerifiers
StackPaths == Range(Verifiers) \cup {"registrar", "testUSDC", "babyJubJub", "encryptedERC"}
AppPaths == {"handleRegistry", "invoiceRegistry", "giftEscrow", "router", "privateGiftEscrow"}
Paths == StackPaths \cup AppPaths
Keys == {NoKey, OperatorKey, ForgottenKey, BootstrapKey} \cup GeneratedKeys

HasCode(a) == a \in DOMAIN code
IsRecord(p) == manifest.address[p] # 0
NoTokens == [t \in Symbols |-> 0]

wrappedTokens == IF network = "benzonet" THEN <<"tUSDC">> ELSE <<"USDC", "EURC">>
RoutescanVerifiable == network \in {"fuji", "avalanche"}
-----------------------------------------------------------------------------
(* The scripts.                                                            *)

StackContract(p) == << <<"deploy", p>>, <<"record", p>>, <<"verify", p>> >>

DeployVerifiers == FlattenSeq([i \in DOMAIN Verifiers |-> StackContract(Verifiers[i])])
DeployEncryptedERC == StackContract("babyJubJub") \o StackContract("encryptedERC")

\* Mutant: the key is stored when everything else is done.
ConfigureAuditorKeyLast ==
    << <<"look", "auditor">>, <<"key", "auditor">>, <<"register", "auditor">>,
       <<"set", "auditor">>, <<"store", "auditor">>, <<"write", "auditor">> >>

ConfigureAuditor ==
    << <<"look", "auditor">>, <<"key", "auditor">>, <<"store", "auditor">>,
       <<"register", "auditor">>, <<"set", "auditor">>, <<"write", "auditor">> >>

RegisterConverterTokens ==
    << <<"order", "tokens">>, <<"join", "tokens">> >>
        \o FlattenSeq([i \in DOMAIN wrappedTokens |->
                          << <<"approve", wrappedTokens[i]>>, <<"deposit", wrappedTokens[i]>> >>])
        \o << <<"write", "tokens">> >>

DeployEercConverterStack ==
    DeployVerifiers
        \o StackContract("registrar")
        \o (IF network = "benzonet" THEN StackContract("testUSDC") ELSE <<>>)
        \o DeployEncryptedERC \o ConfigureAuditor \o RegisterConverterTokens

HandleRegistry ==
    << <<"deploy", "handleRegistry">>, <<"record", "handleRegistry">>, <<"verify", "handleRegistry">> >>
InvoiceRegistry ==
    << <<"deploy", "invoiceRegistry">>, <<"verify", "invoiceRegistry">>, <<"record", "invoiceRegistry">> >>
GiftEscrow ==
    << <<"deploy", "giftEscrow">>, <<"verify", "giftEscrow">>, <<"record", "giftEscrow">> >>

\* Mutant: the router is published before the converter lets it deposit.
CctpRouterEarly ==
    << <<"deploy", "router">>, <<"allow", "router">>, <<"map", "router">>, <<"relayer", "router">>,
       <<"verify", "router">>, <<"record", "router">>, <<"config", "router">>, <<"authorize", "router">> >>

CctpRouter ==
    << <<"deploy", "router">>, <<"allow", "router">>, <<"map", "router">>, <<"relayer", "router">>,
       <<"authorize", "router">>, <<"verify", "router">>, <<"record", "router">>, <<"config", "router">> >>

PrivateGiftEscrow ==
    << <<"deploy", "privateGiftEscrow">>, <<"authorize", "privateGiftEscrow">>,
       <<"verify", "privateGiftEscrow">>, <<"record", "privateGiftEscrow">>,
       <<"config", "privateGiftEscrow">> >>

FreshConverter == << <<"clear", "manifest">> >> \o DeployEercConverterStack

Programs(script) ==
    CASE script = "00" -> DeployEercConverterStack
      [] script = "01" -> DeployVerifiers
      [] script = "02" -> StackContract("registrar")
      [] script = "03" -> StackContract("testUSDC")
      [] script = "04" -> DeployEncryptedERC
      [] script = "05" -> ConfigureAuditor
      [] script = "06" -> HandleRegistry
      [] script = "07" -> InvoiceRegistry
      [] script = "08" -> GiftEscrow
      [] script = "09" -> CctpRouter
      [] script = "10" -> PrivateGiftEscrow
      [] script = "11" -> FreshConverter
      [] script = "mainnet" -> DeployEercConverterStack

(* runCeremony replaces the verifiers one by one, and attests them only    *)
(* when told that the proving keys of the wallets were renewed.            *)
Ceremony(confirmed) ==
    [i \in DOMAIN Verifiers |-> <<"export", Verifiers[i]>>]
        \o (IF confirmed THEN << <<"attest", "marker">> >> ELSE <<>>)

(* Which script is run against which network.                              *)
ScriptsOf(net) ==
    CASE net = "benzonet" -> {"00", "01", "02", "03", "04", "05"}
      [] net = "fuji" -> {"00", "01", "02", "03", "04", "05", "06", "07", "08", "09", "10", "11"}
      [] net = "avalanche" -> {"09", "10"}
-----------------------------------------------------------------------------
Idle == [steps |-> <<>>, address |-> 0, key |-> NoKey, ids |-> NoTokens,
         generate |-> FALSE, expected |-> NoKey, setup |-> Development]

Doing(op, p) == console.steps # <<>> /\ Head(console.steps) = <<op, p>>
Drop(n) == SubSeq(console.steps, n + 1, Len(console.steps))
Onward(c, n) == IF Len(c.steps) <= n THEN Idle ELSE [c EXCEPT !.steps = Drop(n)]
Proceed == console' = Onward(console, 1)
Throw == console' = Idle

NewContract(p, uses) ==
    [kind |-> p, setup |-> IF p \in Range(Verifiers) THEN sources[p] ELSE Development, uses |-> uses, keys |-> [a \in {"auditor", "deployer"} |-> NoKey],
     auditor |-> NoKey, tokens |-> <<>>, depositors |-> {}, settings |-> {}, seeded |-> NoTokens]

Init ==
    /\ network \in {"benzonet", "fuji", "avalanche"}
    /\ code = <<>> /\ explorer = {}
    /\ carriedOver \in IF network = "benzonet" THEN BOOLEAN ELSE {FALSE}
    /\ manifest = [address |-> [p \in Paths |-> IF carriedOver /\ p \in StackPaths THEN Stale ELSE 0],
                   verified |-> {},
                   auditor |-> IF carriedOver THEN ForgottenKey ELSE NoKey,
                   tokens |-> IF carriedOver THEN [NoTokens EXCEPT !["tUSDC"] = 1] ELSE NoTokens]
    /\ config = [p \in {"router", "privateGiftEscrow"} |-> 0]
    /\ \E setup \in {Development} \cup (IF network = "avalanche" THEN Ceremonies ELSE {}) :
          /\ sources = [c \in Range(Verifiers) |-> setup]
          /\ marker = [build |-> IF setup = Development THEN "dev" ELSE "ceremony", setups |-> sources]
    /\ keyFile \in IF network = "avalanche" THEN {NoKey, OperatorKey, ForgottenKey} ELSE {NoKey}
    /\ \E units \in CASE network = "benzonet" -> {0} [] network = "fuji" -> {0, Dust}
                      [] network = "avalanche" -> {Dust} :
          funds = [t \in Symbols |-> IF t \in CircleTokens THEN units ELSE 0]
    /\ console = Idle
    /\ scripts = 0 /\ crashes = 0 /\ strangers = 0 /\ replaced = {}

Starts(run) ==
    /\ console = Idle
    /\ scripts < MaxScripts
    /\ scripts' = scripts + 1
    /\ console' = run
    /\ UNCHANGED <<chainVars, fileVars, network, carriedOver, crashes, strangers, replaced>>

StartScript(s) ==
    s \in ScriptsOf(network) /\ Starts([Idle EXCEPT !.steps = Programs(s), !.generate = TRUE])

(* The ceremony is for mainnet.  Given the final keys of a ceremony held   *)
(* elsewhere it exports their setup, otherwise a new one at every run.     *)
RunCeremony(setup, confirmed) ==
    /\ network = "avalanche"
    /\ Starts([Idle EXCEPT !.steps = Ceremony(confirmed), !.setup = setup])

ExportVerifier(c) ==
    /\ Doing("export", c)
    /\ sources' = [sources EXCEPT ![c] = console.setup]
    /\ Proceed
    /\ UNCHANGED <<chainVars, manifest, config, keyFile, marker, countVars>>

AttestCeremony ==
    /\ Doing("attest", "marker")
    /\ marker' = [build |-> "ceremony", setups |-> sources]
    /\ Proceed
    /\ UNCHANGED <<chainVars, manifest, config, keyFile, sources, countVars>>

(* hardhat zkit verifiers writes the verifiers of the dev setup back.      *)
RegenerateVerifiers ==
    /\ network = "avalanche" /\ console = Idle
    /\ scripts < MaxScripts
    /\ scripts' = scripts + 1
    /\ sources' = [c \in Range(Verifiers) |-> Development]
    /\ UNCHANGED <<chainVars, manifest, config, keyFile, marker, network, carriedOver, crashes,
                   strangers, replaced, console>>

(* What deploy-mainnet.ts knows before it sends anything.                  *)
GoodEnvironment ==
    [confirm |-> TRUE, network |-> "avalanche", chainId |-> 43114, tokens |-> CircleTokens,
     keys |-> <<"deployer", "auditor">>, funded |-> TRUE, auditorProvided |-> TRUE]
Environments ==
    {GoodEnvironment,
     [GoodEnvironment EXCEPT !.confirm = FALSE], [GoodEnvironment EXCEPT !.chainId = 43113],
     [GoodEnvironment EXCEPT !.tokens = {"tUSDC"}],
     [GoodEnvironment EXCEPT !.keys = <<"deployer", "deployer">>],
     [GoodEnvironment EXCEPT !.keys = <<"deployer", "unset">>],
     [GoodEnvironment EXCEPT !.funded = FALSE], [GoodEnvironment EXCEPT !.auditorProvided = FALSE]}

(* validateCeremonyMarker: a ceremony build whose verifiers are still the  *)
(* ones on disk.                                                           *)
CeremonyMarkerValid == marker.build = "ceremony" /\ marker.setups = sources

AssertMainnetGuardrails(env) ==
    /\ env.confirm
    /\ env.network = "avalanche" /\ env.chainId = 43114
    /\ "USDC" \in env.tokens /\ env.tokens \subseteq CircleTokens
    /\ CeremonyMarkerValid
    /\ env.keys[1] # "unset" /\ env.keys[2] # "unset" /\ env.keys[1] # env.keys[2]
    /\ env.funded
    /\ env.auditorProvided

RunMainnetDeploy(env) ==
    /\ network = "avalanche"
    /\ AssertMainnetGuardrails(env)
    /\ Starts([Idle EXCEPT !.steps = DeployEercConverterStack,
                           !.expected = IF env.auditorProvided THEN OperatorKey ELSE NoKey])

(* prefund-bootstrap.ts: dust for every token the deployer is short of.    *)
Prefund ==
    /\ network = "fuji" /\ console = Idle
    /\ scripts < MaxScripts
    /\ scripts' = scripts + 1
    /\ funds' = [t \in Symbols |-> IF t \in CircleTokens /\ funds[t] < 2 THEN funds[t] + Dust ELSE funds[t]]
    /\ UNCHANGED <<code, explorer, fileVars, network, carriedOver, crashes, strangers, replaced, console>>
-----------------------------------------------------------------------------
(* Contracts.                                                              *)

Uses(p) ==
    CASE p = "registrar" -> {"registration"}
      [] p = "encryptedERC" -> {"registrar", "babyJubJub"} \cup Range(OtherVerifiers)
      [] p = "router" -> {"encryptedERC", "registrar"}
      [] p = "privateGiftEscrow" -> {"encryptedERC"}
      [] OTHER -> {}

(* The router asks for a record of everything it will need, the gift       *)
(* escrow for a converter that answers, the stack for code.                *)
RouterMayDeploy ==
    /\ IsRecord("encryptedERC") /\ IsRecord("registrar")
    /\ \A t \in CircleTokens : manifest.tokens[t] # 0
EscrowMayDeploy == HasCode(manifest.address["encryptedERC"])

MayDeploy(p) ==
    CASE p = "registrar" -> HasCode(manifest.address["registration"])
      [] p \in {"babyJubJub", "encryptedERC"} ->
             \A q \in {"registrar"} \cup Range(OtherVerifiers) : HasCode(manifest.address[q])
      [] p = "router" -> RouterMayDeploy
      [] p = "privateGiftEscrow" -> EscrowMayDeploy
      [] OTHER -> TRUE

Reusable(p) == p \in StackPaths /\ HasCode(manifest.address[p])

(* A record with code is not deployed again, only verified.                *)
Reuse(p) ==
    /\ Doing("deploy", p) /\ MayDeploy(p) /\ Reusable(p)
    /\ console' = Onward(console, 2)
    /\ UNCHANGED <<chainVars, fileVars, countVars>>

Deploy(p) ==
    /\ Doing("deploy", p) /\ MayDeploy(p) /\ ~Reusable(p)
    /\ code' = Append(code, NewContract(p, [q \in Uses(p) |-> manifest.address[q]]))
    /\ console' = [Onward(console, 1) EXCEPT !.address = Len(code) + 1]
    /\ UNCHANGED <<explorer, funds, fileVars, countVars>>

RefuseDeploy(p) ==
    /\ Doing("deploy", p) /\ ~MayDeploy(p)
    /\ Throw
    /\ UNCHANGED <<chainVars, fileVars, countVars>>

(* The record replaces the earlier one and says whether the source was     *)
(* verified.  Script 07 writes a file that no other script reads.          *)
Record(p) ==
    /\ Doing("record", p)
    /\ IF p = "invoiceRegistry" THEN UNCHANGED manifest
       ELSE manifest' = [manifest EXCEPT
                !.address[p] = console.address,
                !.verified = IF console.address \in explorer THEN @ \cup {p} ELSE @ \ {p}]
    /\ Proceed
    /\ UNCHANGED <<chainVars, ceremonyVars, config, keyFile, countVars>>

(* Verification may fail, time out or be skipped: the script goes on with  *)
(* the flag unset, and a later run tries again.                            *)
VerificationOutcomes(p) ==
    IF ~RoutescanVerifiable \/ (p \in StackPaths /\ p \in manifest.verified) THEN {FALSE}
    ELSE IF p \in Unindexed THEN BOOLEAN ELSE {TRUE}

Verify(p) ==
    LET a == IF p \in StackPaths THEN manifest.address[p] ELSE console.address IN
    /\ Doing("verify", p)
    /\ \E done \in VerificationOutcomes(p) :
          /\ explorer' = IF done THEN explorer \cup {a} ELSE explorer
          /\ manifest' = IF done /\ p \in StackPaths
                         THEN [manifest EXCEPT !.verified = @ \cup {p}] ELSE manifest
    /\ Proceed
    /\ UNCHANGED <<code, funds, ceremonyVars, config, keyFile, countVars>>

(* Script 11 forgets the converter, and what was recorded about it.        *)
ClearStaleKeys ==
    [manifest EXCEPT !.address["encryptedERC"] = 0, !.auditor = NoKey, !.tokens = NoTokens]

Clear ==
    /\ Doing("clear", "manifest")
    /\ manifest' = [ClearStaleKeys EXCEPT !.verified = @ \ {"encryptedERC"}]
    /\ replaced' = replaced \cup ({manifest.address["encryptedERC"]} \cap DOMAIN code)
    /\ Proceed
    /\ UNCHANGED <<chainVars, ceremonyVars, config, keyFile, network, carriedOver, scripts, crashes, strangers>>
-----------------------------------------------------------------------------
(* The auditor (configureAuditor).                                         *)

Converter == manifest.address["encryptedERC"]
Accepted(key) == console.expected \in {NoKey, key}

AuditorIsSet ==
    /\ Doing("look", "auditor")
    /\ IsRecord("registrar") /\ HasCode(Converter)
    /\ code[Converter].auditor # NoKey
    /\ Accepted(code[Converter].auditor)
    /\ manifest' = [manifest EXCEPT !.auditor = code[Converter].auditor]
    /\ console' = Onward(console, Len(ConfigureAuditor))
    /\ UNCHANGED <<chainVars, ceremonyVars, config, keyFile, countVars>>

AuditorToBeSet ==
    /\ Doing("look", "auditor")
    /\ IsRecord("registrar") /\ HasCode(Converter)
    /\ code[Converter].auditor = NoKey
    /\ Proceed
    /\ UNCHANGED <<chainVars, fileVars, countVars>>

RefuseConverter ==
    /\ Doing("look", "auditor")
    /\ ~(/\ IsRecord("registrar") /\ HasCode(Converter)
         /\ (code[Converter].auditor = NoKey \/ Accepted(code[Converter].auditor)))
    /\ Throw
    /\ UNCHANGED <<chainVars, fileVars, countVars>>

RegisteredKeys(account) ==
    {code[a].keys[account] : a \in {b \in DOMAIN code : code[b].kind = "registrar"}}

GetStoredKey ==
    /\ Doing("key", "auditor")
    /\ keyFile # NoKey
    /\ console' = [Onward(console, 1) EXCEPT !.key = keyFile]
    /\ UNCHANGED <<chainVars, fileVars, countVars>>

GenerateKey ==
    /\ Doing("key", "auditor")
    /\ keyFile = NoKey /\ console.generate
    /\ console' = [Onward(console, 1) EXCEPT
           !.key = CHOOSE k \in GeneratedKeys : k \notin RegisteredKeys("auditor")]
    /\ UNCHANGED <<chainVars, fileVars, countVars>>

RefuseToGenerate ==
    /\ Doing("key", "auditor")
    /\ keyFile = NoKey /\ ~console.generate
    /\ Throw
    /\ UNCHANGED <<chainVars, fileVars, countVars>>

(* The file is written, when the key is new, before anything is sent.      *)
StoreKey ==
    /\ Doing("store", "auditor")
    /\ keyFile' = console.key
    /\ IF Accepted(console.key) THEN Proceed ELSE Throw
    /\ UNCHANGED <<chainVars, ceremonyVars, manifest, config, countVars>>

(* registerEercAccount, for the auditor's signer and for the deployer.     *)
Registers(account, key) ==
    LET r == manifest.address["registrar"] IN
    \/ /\ HasCode(r) /\ code[r].keys[account] = NoKey
       /\ code' = [code EXCEPT ![r].keys[account] = key]
       /\ Proceed
    \/ /\ HasCode(r) /\ code[r].keys[account] = key
       /\ UNCHANGED code /\ Proceed
    \/ /\ ~(HasCode(r) /\ code[r].keys[account] \in {NoKey, key})
       /\ UNCHANGED code /\ Throw

RegisterAuditor ==
    /\ Doing("register", "auditor")
    /\ Registers("auditor", console.key)
    /\ UNCHANGED <<explorer, funds, fileVars, countVars>>

(* setAuditorPublicKey takes the key the converter's registrar knows.      *)
SetAuditor ==
    /\ Doing("set", "auditor")
    /\ code' = [code EXCEPT ![Converter].auditor =
                   code[code[Converter].uses["registrar"]].keys["auditor"]]
    /\ Proceed
    /\ UNCHANGED <<explorer, funds, fileVars, countVars>>

WriteAuditor ==
    /\ Doing("write", "auditor")
    /\ manifest' = [manifest EXCEPT !.auditor = console.key]
    /\ Proceed
    /\ UNCHANGED <<chainVars, ceremonyVars, config, keyFile, countVars>>
-----------------------------------------------------------------------------
(* The bootstrap of the token numbers (registerConverterTokens).           *)

TokenIdOf(c, t) ==
    IF t \in Range(code[c].tokens) THEN CHOOSE i \in DOMAIN code[c].tokens : code[c].tokens[i] = t ELSE 0

InOrder == IsPrefix(code[Converter].tokens, wrappedTokens)

CheckOrder ==
    /\ Doing("order", "tokens")
    /\ IF /\ HasCode(Converter) /\ HasCode(manifest.address["registrar"])
          /\ code[Converter].auditor # NoKey
          /\ InOrder
       THEN Proceed ELSE Throw
    /\ UNCHANGED <<chainVars, fileVars, countVars>>

(* The deployer keeps the key it is registered with.                       *)
JoinRegistrar ==
    LET r == manifest.address["registrar"] IN
    /\ Doing("join", "tokens")
    /\ IF code[r].keys["deployer"] = NoKey THEN Registers("deployer", BootstrapKey)
       ELSE UNCHANGED code /\ Proceed
    /\ UNCHANGED <<explorer, funds, fileVars, countVars>>

\* Mutant: what is on record decides, not what the converter knows.
KnownTokenByRecord(t) == manifest.tokens[t]

KnownToken(t) == TokenIdOf(Converter, t)

SkipToken(t) ==
    /\ Doing("approve", t)
    /\ KnownToken(t) # 0
    /\ console' = [Onward(console, 2) EXCEPT !.ids[t] = KnownToken(t)]
    /\ UNCHANGED <<chainVars, fileVars, countVars>>

(* Only the test token has a faucet.                                       *)
ApproveToken(t) ==
    /\ Doing("approve", t)
    /\ KnownToken(t) = 0
    /\ funds[t] > 0 \/ t = "tUSDC"
    /\ funds' = IF funds[t] = 0 THEN [funds EXCEPT ![t] = Dust] ELSE funds
    /\ Proceed
    /\ UNCHANGED <<code, explorer, fileVars, countVars>>

RefuseUnfunded(t) ==
    /\ Doing("approve", t)
    /\ KnownToken(t) = 0 /\ funds[t] = 0 /\ t # "tUSDC"
    /\ Throw
    /\ UNCHANGED <<chainVars, fileVars, countVars>>

\* The converter numbers a token at its first deposit.
Deposited(c, t) == IF TokenIdOf(c, t) = 0 THEN Append(code[c].tokens, t) ELSE code[c].tokens
PositionIn(s, t) == CHOOSE i \in DOMAIN s : s[i] = t

DepositToken(t) ==
    LET tokens == Deposited(Converter, t) IN
    /\ Doing("deposit", t)
    /\ code' = [code EXCEPT ![Converter].tokens = tokens, ![Converter].seeded[t] = @ + 1]
    /\ funds' = [funds EXCEPT ![t] = @ - 1]
    /\ console' = [Onward(console, 1) EXCEPT !.ids[t] = PositionIn(tokens, t)]
    /\ UNCHANGED <<explorer, fileVars, countVars>>

WriteTokens ==
    /\ Doing("write", "tokens")
    /\ manifest' = [manifest EXCEPT !.tokens = console.ids]
    /\ Proceed
    /\ UNCHANGED <<chainVars, ceremonyVars, config, keyFile, countVars>>
-----------------------------------------------------------------------------
(* The router and the private gift escrow.  A step sends all transactions  *)
(* of its kind: a contract half configured is as unrecorded as one not     *)
(* configured.                                                             *)

Configure(op) ==
    /\ Doing(op, "router") /\ op \in {"allow", "map", "relayer"}
    /\ code' = [code EXCEPT ![console.address].settings = @ \cup {op}]
    /\ Proceed
    /\ UNCHANGED <<explorer, funds, fileVars, countVars>>

Authorize(p) ==
    /\ Doing("authorize", p)
    /\ code' = [code EXCEPT ![code[console.address].uses["encryptedERC"]].depositors = @ \cup {console.address}]
    /\ Proceed
    /\ UNCHANGED <<explorer, funds, fileVars, countVars>>

WriteConfig(p) ==
    /\ Doing("config", p)
    /\ config' = [config EXCEPT ![p] = console.address]
    /\ Proceed
    /\ UNCHANGED <<chainVars, ceremonyVars, manifest, keyFile, countVars>>
-----------------------------------------------------------------------------
(* Anybody registered deposits a token the converter has not seen.         *)
Stranger(c, t) ==
    /\ strangers < MaxStrangers
    /\ code[c].kind = "encryptedERC" /\ code[c].auditor # NoKey
    /\ TokenIdOf(c, t) = 0
    /\ code' = [code EXCEPT ![c].tokens = Append(@, t)]
    /\ strangers' = strangers + 1
    /\ UNCHANGED <<explorer, funds, fileVars, network, carriedOver, scripts, crashes, replaced, console>>

(* The script dies: killed, out of gas, or cut off from the RPC.           *)
Crash ==
    /\ console # Idle
    /\ crashes < MaxCrashes
    /\ crashes' = crashes + 1
    /\ Throw
    /\ UNCHANGED <<chainVars, fileVars, network, carriedOver, scripts, strangers, replaced>>

DeployStep ==
    \/ \E p \in Paths : Reuse(p) \/ Deploy(p) \/ RefuseDeploy(p) \/ Record(p) \/ Verify(p)
    \/ Clear

AuditorStep ==
    \/ AuditorIsSet \/ AuditorToBeSet \/ RefuseConverter
    \/ GetStoredKey \/ GenerateKey \/ RefuseToGenerate \/ StoreKey
    \/ RegisterAuditor \/ SetAuditor \/ WriteAuditor

TokenStep ==
    \/ CheckOrder \/ JoinRegistrar \/ WriteTokens
    \/ \E t \in Range(wrappedTokens) :
          SkipToken(t) \/ ApproveToken(t) \/ RefuseUnfunded(t) \/ DepositToken(t)

CeremonyStep == AttestCeremony \/ \E c \in Range(Verifiers) : ExportVerifier(c)

RouteStep ==
    \/ \E op \in {"allow", "map", "relayer"} : Configure(op)
    \/ \E p \in {"router", "privateGiftEscrow"} : Authorize(p) \/ WriteConfig(p)

Next ==
    \/ \E s \in ScriptsOf(network) : StartScript(s)
    \/ \E env \in Environments : RunMainnetDeploy(env)
    \/ Prefund
    \/ \E setup \in Ceremonies, confirmed \in BOOLEAN : RunCeremony(setup, confirmed)
    \/ RegenerateVerifiers
    \/ CeremonyStep \/ DeployStep \/ AuditorStep \/ TokenStep \/ RouteStep
    \/ \E c \in DOMAIN code, t \in Range(wrappedTokens) \cup {"other"} : Stranger(c, t)
    \/ Crash

Spec == Init /\ [][Next]_vars
-----------------------------------------------------------------------------
TypeOK ==
    /\ network \in {"benzonet", "fuji", "avalanche"}
    /\ \A a \in DOMAIN code : code[a].kind \in Paths /\ code[a].auditor \in Keys
    /\ explorer \subseteq DOMAIN code
    /\ manifest.address \in [Paths -> {Stale, 0} \cup DOMAIN code]
    /\ manifest.verified \subseteq Paths /\ manifest.auditor \in Keys
    /\ manifest.tokens \in [Symbols -> 0 .. Cardinality(Symbols)]
    /\ config \in [{"router", "privateGiftEscrow"} -> {0} \cup DOMAIN code]
    /\ keyFile \in Keys /\ funds \in [Symbols -> Nat]

(* The manifest is all that a later script, the API and the wallets know   *)
(* of a deployment.  Whatever script died where, a recorded address is of  *)
(* the contract it is recorded as; the recorded converter was built on     *)
(* the recorded registrar, library and verifiers; the recorded auditor key *)
(* and token numbers are those of the recorded converter, not of one that  *)
(* script 11 replaced; nothing is marked verified that is not; and unless  *)
(* a stranger deposited, the numbers are those of the configured order     *)
(* (writeDeployments, deployContract, registerConverterTokens).  The       *)
(* auditor and the tokens carried over from another chain are set aside.   *)
(* On mainnet every verifier on record is of a ceremony, though the dev    *)
(* verifiers may be back on disk between two runs (validateCeremonyMarker).*)
ManifestTrue ==
    /\ \A p \in Paths : HasCode(manifest.address[p]) =>
          /\ code[manifest.address[p]].kind = p
          /\ p \in StackPaths =>
                \A q \in Uses(p) : code[manifest.address[p]].uses[q] = manifest.address[q]
    /\ \A p \in manifest.verified : manifest.address[p] \in explorer
    /\ network = "avalanche" =>
          \A c \in Range(Verifiers) :
              HasCode(manifest.address[c]) => code[manifest.address[c]].setup \in Ceremonies
    /\ ~carriedOver /\ manifest.auditor # NoKey =>
          HasCode(Converter) /\ manifest.auditor = code[Converter].auditor
    /\ \A t \in Symbols : ~carriedOver /\ manifest.tokens[t] # 0 =>
          /\ HasCode(Converter) /\ manifest.tokens[t] = TokenIdOf(Converter, t)
          /\ strangers = 0 => wrappedTokens[manifest.tokens[t]] = t

(* No auditor key is lost: when a registrar or a converter knows a key,    *)
(* its private half is in the key file, however often the script died in   *)
(* between; a registrar takes no second key, so that a key lost after the  *)
(* registration would block every later configureAuditor.  On mainnet the  *)
(* key is the one production custodies, whatever lies in the key file.     *)
AuditorKeyKept ==
    \A a \in DOMAIN code : \A key \in {code[a].auditor, code[a].keys["auditor"]} \ {NoKey} :
        /\ keyFile = key
        /\ network = "avalanche" => key = OperatorKey

(* A run picks up where the last one stopped: no contract of the stack is  *)
(* deployed a second time, except that a crash may lose the address of the *)
(* one being deployed and that script 11 replaces a converter, and no      *)
(* converter receives a token's bootstrap deposit twice.                   *)
Lost == {a \in DOMAIN code : /\ code[a].kind \in StackPaths
                             /\ manifest.address[code[a].kind] # a
                             /\ a # console.address}
RerunsReuse ==
    /\ Cardinality(Lost \ replaced) <= crashes
    /\ \A a \in DOMAIN code : \A t \in Symbols : code[a].seeded[t] <= 1

(* Whatever address the applications read is of a contract that may        *)
(* deposit with the converter it was built for, and of a router with all   *)
(* its settings; the contracts manifest is never behind it.                *)
Routes(p) == {config[p], manifest.address[p]} \ {0}
RoutesWork ==
    \A p \in {"router", "privateGiftEscrow"} :
        /\ \A a \in Routes(p) :
              /\ code[a].kind = p
              /\ a \in code[code[a].uses["encryptedERC"]].depositors
              /\ p = "router" => code[a].settings = {"allow", "map", "relayer"}
        /\ config[p] <= manifest.address[p]

(* Together: what is on record can be used as it is.                       *)
RecordsTrue == TypeOK /\ ManifestTrue /\ RoutesWork
=============================================================================
