-------------------------- MODULE Deployment_proofs --------------------------
(***************************************************************************)
(* Theorems about the deploy scripts, for any sequence of scripts, crashes *)
(* and strangers' deposits on any of the networks.                         *)
(*                                                                         *)
(* A step relies on what the steps before it in its script did: the        *)
(* invariant therefore says how steps follow one another in a program      *)
(* (Path), and what holds before each of them besides what always does     *)
(* (Fact).  A rerun begins at the first step, so that nothing else is      *)
(* needed of what an interrupted script left behind.                       *)
(***************************************************************************)
EXTENDS Deployment, SequenceTheorems, FiniteSetTheorems, TLAPS

-----------------------------------------------------------------------------
(* The inductive invariant: the programs.  Which step comes after which,   *)
(* what may be the last one, and which belong together.                    *)

\* A part of the stack that does not depend on the part before it.
PartHeads == {<<"deploy", p>> : p \in StackPaths \ {"encryptedERC"}}
             \cup {<<"look", "auditor">>, <<"order", "tokens">>}

AfterAuditor ==
    [look |-> "key", key |-> "store", store |-> "register", register |-> "set", set |-> "write"]

FollowsStack(x, y) ==
    \/ x[1] = "deploy" /\ y = <<"record", x[2]>>
    \/ x[1] = "record" /\ y = <<"verify", x[2]>>
    \/ x[1] = "verify" /\ x[2] # "babyJubJub" /\ y \in PartHeads
    \/ x = <<"verify", "babyJubJub">> /\ y = <<"deploy", "encryptedERC">>

FollowsAuditor(x, y) ==
    \/ x[1] \in DOMAIN AfterAuditor /\ y = <<AfterAuditor[x[1]], "auditor">>
    \/ x[1] = "write" /\ y \in PartHeads

\* The configured order of the tokens.
FollowsToken(x, y) ==
    \/ x[1] = "order" /\ y = <<"join", "tokens">>
    \/ x[1] = "join" /\ y = <<"approve", wrappedTokens[1]>>
    \/ x[1] = "approve" /\ y = <<"deposit", x[2]>>
    \/ x = <<"deposit", "USDC">> /\ y = <<"approve", "EURC">>
    \/ x[1] = "deposit" /\ x[2] # "USDC" /\ y = <<"write", "tokens">>

FollowsApp(x, y) ==
    LET p == x[2] IN
    /\ y[2] = p
    /\ \/ x[1] = "deploy" /\ p = "handleRegistry" /\ y[1] = "record"
       \/ x[1] = "deploy" /\ p \in {"invoiceRegistry", "giftEscrow"} /\ y[1] = "verify"
       \/ x[1] = "deploy" /\ p = "router" /\ y[1] = "allow"
       \/ x[1] = "deploy" /\ p = "privateGiftEscrow" /\ y[1] = "authorize"
       \/ x[1] = "allow" /\ y[1] = "map"
       \/ x[1] = "map" /\ y[1] = "relayer"
       \/ x[1] = "relayer" /\ y[1] = "authorize"
       \/ x[1] = "authorize" /\ y[1] = "verify"
       \/ x[1] = "verify" /\ p # "handleRegistry" /\ y[1] = "record"
       \/ x[1] = "record" /\ p = "handleRegistry" /\ y[1] = "verify"
       \/ x[1] = "record" /\ p \in {"router", "privateGiftEscrow"} /\ y[1] = "config"

StackSteps == {"deploy", "record", "verify"} \X StackPaths
AuditorSteps == (DOMAIN AfterAuditor \cup {"write"}) \X {"auditor"}
TokenSteps == ({"order", "join", "write"} \X {"tokens"})
                  \cup ({"approve", "deposit"} \X {"tUSDC", "USDC", "EURC"})
ClearStep == <<"clear", "manifest">>
SetupSteps == StackSteps \cup AuditorSteps \cup TokenSteps \cup {ClearStep}
AppSteps ==
    ({"deploy", "verify", "record"} \X AppPaths)
        \cup ({"allow", "map", "relayer"} \X {"router"})
        \cup ({"authorize", "config"} \X {"router", "privateGiftEscrow"})
CeremonySteps == ({"export"} \X Range(Verifiers)) \cup {<<"attest", "marker">>}
Steps == SetupSteps \cup AppSteps \cup CeremonySteps

Follows(x, y) ==
    \/ x \in StackSteps /\ y \in SetupSteps /\ FollowsStack(x, y)
    \/ x \in AuditorSteps /\ y \in SetupSteps /\ FollowsAuditor(x, y)
    \/ x \in TokenSteps /\ y \in TokenSteps /\ FollowsToken(x, y)
    \/ x = ClearStep /\ y \in PartHeads
    \/ x \in AppSteps /\ y \in AppSteps /\ FollowsApp(x, y)
    \/ x \in {"export"} \X Range(Verifiers) /\ y \in CeremonySteps

\* A script never ends where something is not yet on record.
MayEnd(x) ==
    \/ x[1] \in {"verify", "write", "config", "export", "attest"} /\ x # <<"verify", "babyJubJub">>
           /\ ~(x[1] = "verify" /\ x[2] \in AppPaths \ {"handleRegistry"})
    \/ x \in {<<"record", "invoiceRegistry">>, <<"record", "giftEscrow">>}

Path(s) ==
    /\ s \in Seq(Steps)
    /\ \A i \in 1 .. Len(s) - 1 : Follows(s[i], s[i + 1])
    /\ s # <<>> => MayEnd(s[Len(s)])

-----------------------------------------------------------------------------
(* Contracts.                                                              *)

Setups == {Development} \cup Ceremonies
AllSettings == {"allow", "map", "relayer"}

Contracts ==
    [kind : Paths, setup : Setups, uses : UNION {[Uses(p) -> Int] : p \in Paths},
     keys : [{"auditor", "deployer"} -> Keys], auditor : Keys, tokens : Seq(Symbols),
     depositors : SUBSET Nat, settings : SUBSET AllSettings, seeded : [Symbols -> Nat]]

KnownKey(key) == key = NoKey \/ (key = keyFile /\ (network = "avalanche" => key = OperatorKey))

ContractInv(a) ==
    LET c == code[a] IN
    /\ c.uses \in [Uses(c.kind) -> DOMAIN code]
    /\ KnownKey(c.auditor) /\ KnownKey(c.keys["auditor"])
    /\ \A i, j \in DOMAIN c.tokens : c.tokens[i] = c.tokens[j] => i = j
    /\ Range(c.tokens) \subseteq Range(wrappedTokens) \cup {"other"}
    /\ strangers = 0 => IsPrefix(c.tokens, wrappedTokens)
    /\ \A t \in Symbols : c.seeded[t] <= 1 /\ (c.seeded[t] > 0 => t \in Range(c.tokens))
    /\ network = "avalanche" /\ c.kind \in Range(Verifiers) => c.setup \in Ceremonies

CodeInv ==
    /\ code \in Seq(Contracts)
    /\ \A a \in DOMAIN code : ContractInv(a)

-----------------------------------------------------------------------------
(* Files and counts.                                                       *)

FilesInv ==
    /\ network \in {"benzonet", "fuji", "avalanche"}
    /\ carriedOver \in BOOLEAN /\ (carriedOver => network = "benzonet")
    /\ explorer \subseteq DOMAIN code
    /\ sources \in [Range(Verifiers) -> Setups]
    /\ marker.build = "ceremony" => \A c \in Range(Verifiers) : marker.setups[c] \in Ceremonies
    /\ keyFile \in Keys /\ funds \in [Symbols -> Nat]
    /\ crashes \in Nat /\ strangers \in Nat
    /\ \A p \in Paths : manifest.address[p] = Stale => carriedOver /\ p \in StackPaths
    /\ manifest \in [address : [Paths -> {Stale, 0} \cup DOMAIN code], verified : SUBSET Paths,
                     auditor : Keys, tokens : [Symbols -> 0 .. Cardinality(Symbols)]]
    /\ config \in [{"router", "privateGiftEscrow"} -> {0} \cup DOMAIN code]

-----------------------------------------------------------------------------
(* The script.  What holds before a step, besides what always does.        *)

Recorded(a) == code[a].kind \in StackPaths => manifest.address[code[a].kind] = a

OnMainnet ==
    network = "avalanche" =>
        console.expected = OperatorKey /\ \A c \in Range(Verifiers) : sources[c] \in Ceremonies

StackFact(op, p) ==
    /\ op = "record" =>
        /\ console.address = Len(code) /\ code # <<>>
        /\ code[console.address].kind = p
        /\ code[console.address].uses = [q \in Uses(p) |-> manifest.address[q]]
        /\ ~HasCode(manifest.address[p])
    /\ op = "verify" => HasCode(manifest.address[p])
    /\ op = "deploy" /\ p = "encryptedERC" => HasCode(manifest.address["babyJubJub"])

AuditorFact(op) ==
    op # "look" =>
        /\ HasCode(Converter)
        /\ op # "write" => code[Converter].auditor = NoKey
        /\ op # "key" => console.key # NoKey
        /\ op = "store" => keyFile \in {NoKey, console.key}
        /\ op \in {"register", "set", "write"} =>
               console.key = keyFile /\ (network = "avalanche" => keyFile = OperatorKey)
        /\ op = "set" =>
               /\ HasCode(manifest.address["registrar"])
               /\ code[manifest.address["registrar"]].keys["auditor"] = console.key
        /\ op = "write" => code[Converter].auditor = console.key

Known(t) == t \in Range(code[Converter].tokens)

TokenFact(op, t) ==
    IF op = "order" THEN console.ids = NoTokens
    ELSE /\ HasCode(Converter)
         /\ \A s \in Symbols : console.ids[s] # 0 => Known(s) /\ console.ids[s] = TokenIdOf(Converter, s)
         /\ op \in {"approve", "deposit"} => t \in Range(wrappedTokens)
         /\ t = "EURC" => Known("USDC")
         /\ op = "deposit" => code[Converter].seeded[t] = 0 /\ funds[t] > 0

SettingsAt == [allow |-> {}, map |-> {"allow"}, relayer |-> {"allow", "map"}]

AppFact(op, p) ==
    op # "deploy" =>
        /\ console.address = Len(code) /\ code # <<>>
        /\ code[console.address].kind = p
        /\ p = "router" => IF op \in AllSettings THEN SettingsAt[op] \subseteq code[console.address].settings
                           ELSE code[console.address].settings = AllSettings
        /\ p \in {"router", "privateGiftEscrow"} /\ op \in {"verify", "record", "config"} =>
               console.address \in code[code[console.address].uses["encryptedERC"]].depositors
        /\ op = "config" => manifest.address[p] = console.address

\* What the ceremony has not exported yet is still to come.
CeremonyFact ==
    /\ network = "avalanche" /\ console.setup \in Ceremonies
    /\ \A c \in Range(Verifiers) :
           sources[c] = console.setup \/ <<"export", c>> \in Range(console.steps)

AddressRecorded == \A a \in DOMAIN code : a = console.address => Recorded(a)

Fact(x) ==
    /\ x \notin {"record"} \X StackPaths => AddressRecorded
    /\ x \in SetupSteps => OnMainnet
    /\ x \in SetupSteps \ TokenSteps => console.ids = NoTokens
    /\ x = ClearStep => console.address = 0
    /\ x \in StackSteps => StackFact(x[1], x[2])
    /\ x \in AuditorSteps => AuditorFact(x[1])
    /\ x \in TokenSteps => TokenFact(x[1], x[2])
    /\ x \in AppSteps => network # "benzonet" /\ AppFact(x[1], x[2])
    /\ x \in CeremonySteps => CeremonyFact

Consoles == [steps : Seq(Steps), address : Nat, key : Keys,
             ids : [Symbols -> 0 .. Cardinality(Symbols)],
             generate : BOOLEAN, expected : Keys, setup : Setups]

ConsoleInv ==
    /\ console \in Consoles
    /\ Path(console.steps)
    /\ IF console.steps = <<>> THEN console = Idle ELSE Fact(Head(console.steps))

-----------------------------------------------------------------------------
(* Together.                                                               *)

IInv ==
    /\ CodeInv /\ FilesInv
    /\ ManifestTrue /\ RoutesWork
    /\ Cardinality(Lost \ replaced) <= crashes
    /\ ConsoleInv

-----------------------------------------------------------------------------
(* Names.                                                                  *)

LEMMA Names ==
    /\ Range(Verifiers) = {"registration"} \cup Range(OtherVerifiers)
    /\ Range(OtherVerifiers) \subseteq {"mint", "transfer", "withdraw", "burn"}
    /\ Verifiers \in Seq(Range(Verifiers)) /\ Len(Verifiers) \in Nat \ {0}
    /\ Range(Verifiers) \subseteq StackPaths
    /\ {"registrar", "testUSDC", "babyJubJub", "encryptedERC"} \subseteq StackPaths
    /\ StackPaths \subseteq Range(Verifiers) \cup {"registrar", "testUSDC", "babyJubJub", "encryptedERC"}
    /\ StackPaths \cap AppPaths = {}
<1>1. OtherVerifiers \in Seq({"mint", "transfer", "withdraw", "burn"})
  BY DeploymentAssumption
<1>2. Range(OtherVerifiers) \subseteq {"mint", "transfer", "withdraw", "burn"}
  BY <1>1 DEF Range
<1>3. Verifiers \in Seq({"registration", "mint", "transfer", "withdraw", "burn"})
  BY <1>1 DEF Verifiers
<1>4. /\ Len(Verifiers) = Len(OtherVerifiers) + 1 /\ Verifiers[1] = "registration"
      /\ \A i \in 1 .. Len(OtherVerifiers) : Verifiers[i + 1] = OtherVerifiers[i]
  BY <1>1 DEF Verifiers
<1>5. Range(Verifiers) = {"registration"} \cup Range(OtherVerifiers)
  <2>1. DOMAIN Verifiers = 1 .. Len(OtherVerifiers) + 1 /\ DOMAIN OtherVerifiers = 1 .. Len(OtherVerifiers)
    BY <1>1, <1>3, <1>4
  <2>2. ASSUME NEW i \in DOMAIN Verifiers
        PROVE  Verifiers[i] \in {"registration"} \cup Range(OtherVerifiers)
    <3>1. CASE i = 1  BY <3>1, <1>4
    <3>2. CASE i # 1
      <4>1. i - 1 \in 1 .. Len(OtherVerifiers) /\ Verifiers[(i - 1) + 1] = OtherVerifiers[i - 1]
        BY <3>2, <2>1, <1>4, <1>1
      <4>2. (i - 1) + 1 = i
        BY <2>1, <1>1
      <4>3. QED
        BY <4>1, <4>2, <2>1 DEF Range
    <3>3. QED  BY <3>1, <3>2
  <2>3. ASSUME NEW i \in DOMAIN OtherVerifiers
        PROVE  OtherVerifiers[i] \in Range(Verifiers)
    <3>1. i + 1 \in DOMAIN Verifiers /\ Verifiers[i + 1] = OtherVerifiers[i]
      BY <2>1, <1>4, <1>1
    <3>2. QED
      BY <3>1 DEF Range
  <2>4. "registration" \in Range(Verifiers)
    <3>1. 1 \in DOMAIN Verifiers
      BY <2>1, <1>1
    <3>2. QED
      BY <3>1, <1>4 DEF Range
  <2>5. QED
    BY <2>2, <2>3, <2>4 DEF Range
<1>6. Verifiers \in Seq(Range(Verifiers)) /\ Len(Verifiers) \in Nat \ {0}
  <2>1. \A i \in DOMAIN Verifiers : Verifiers[i] \in Range(Verifiers)
    BY DEF Range
  <2>2. QED
    BY <2>1, <1>3, <1>4, <1>1
<1>7. QED
  BY <1>2, <1>5, <1>6 DEF StackPaths, AppPaths

LEMMA TokensAre ==
    /\ wrappedTokens \in Seq(Symbols)
    /\ network = "benzonet" => wrappedTokens = <<"tUSDC">> /\ Range(wrappedTokens) = {"tUSDC"}
    /\ network # "benzonet" => /\ wrappedTokens = <<"USDC", "EURC">>
                               /\ Range(wrappedTokens) = {"USDC", "EURC"}
    /\ Range(wrappedTokens) \subseteq {"tUSDC", "USDC", "EURC"}
    /\ Range(wrappedTokens) \subseteq Symbols
<1>1. Range(<<"tUSDC">>) = {"tUSDC"}
  BY DEF Range
<1>2. Range(<<"USDC", "EURC">>) = {"USDC", "EURC"}
  <2>1. DOMAIN <<"USDC", "EURC">> = {1, 2}
    OBVIOUS
  <2>2. <<"USDC", "EURC">>[1] = "USDC" /\ <<"USDC", "EURC">>[2] = "EURC"
    OBVIOUS
  <2>3. QED
    BY <2>1, <2>2 DEF Range
<1>3. {"tUSDC", "USDC", "EURC"} \subseteq Symbols
  BY DEF Symbols, CircleTokens
<1>4. CASE network = "benzonet"
  <2>1. wrappedTokens = <<"tUSDC">>
    BY <1>4 DEF wrappedTokens
  <2>2. wrappedTokens \in Seq(Symbols)
    BY <2>1, <1>3
  <2>3. QED
    BY <2>1, <2>2, <1>1, <1>3, <1>4
<1>5. CASE network # "benzonet"
  <2>1. wrappedTokens = <<"USDC", "EURC">>
    BY <1>5 DEF wrappedTokens
  <2>2. wrappedTokens \in Seq(Symbols)
    BY <2>1, <1>3
  <2>3. QED
    BY <2>1, <2>2, <1>2, <1>3, <1>5
<1>6. QED
  BY <1>4, <1>5

LEMMA SymbolCount == Cardinality(Symbols) = 4 /\ IsFiniteSet(Symbols)
<1>1. Symbols = {"USDC", "EURC"} \cup {"tUSDC", "other"}
  BY DEF Symbols, CircleTokens
<1>2. IsFiniteSet({}) /\ Cardinality({}) = 0
  BY FS_EmptySet
<1>3. IsFiniteSet({} \cup {"USDC"}) /\ Cardinality({} \cup {"USDC"}) = 1
  BY <1>2, FS_AddElement
<1>4. IsFiniteSet({"USDC", "EURC"}) /\ Cardinality({"USDC", "EURC"}) = 2
  <2>1. {"USDC", "EURC"} = ({} \cup {"USDC"}) \cup {"EURC"}
    OBVIOUS
  <2>2. QED
    BY <2>1, <1>3, FS_AddElement
<1>5. IsFiniteSet({"USDC", "EURC", "tUSDC"}) /\ Cardinality({"USDC", "EURC", "tUSDC"}) = 3
  <2>1. {"USDC", "EURC", "tUSDC"} = {"USDC", "EURC"} \cup {"tUSDC"}
    OBVIOUS
  <2>2. QED
    BY <2>1, <1>4, FS_AddElement
<1>6. Symbols = {"USDC", "EURC", "tUSDC"} \cup {"other"}
  BY <1>1
<1>7. QED
  BY <1>5, <1>6, FS_AddElement

-----------------------------------------------------------------------------
(* Programs.                                                               *)

LEMMA PathRest ==
    ASSUME NEW s, Path(s), NEW n \in 1 .. Len(s) - 1
    PROVE  LET t == SubSeq(s, n + 1, Len(s)) IN
           /\ Path(t) /\ t # <<>> /\ Head(t) = s[n + 1]
           /\ Range(t) \subseteq Range(s)
           /\ Follows(s[n], s[n + 1]) /\ s[n] \in Steps /\ s[n + 1] \in Steps
<1> DEFINE t == SubSeq(s, n + 1, Len(s))
<1>1. s \in Seq(Steps) /\ Len(s) \in Nat /\ n \in Nat /\ n + 1 \in 1 .. Len(s) /\ n \in 1 .. Len(s)
  BY DEF Path
<1>2. /\ t \in Seq(Steps) /\ Len(t) = Len(s) - n
      /\ \A i \in 1 .. Len(s) - n : t[i] = s[i + n]
  BY <1>1
<1>3. \A i \in 1 .. Len(t) - 1 : Follows(t[i], t[i + 1])
  <2> TAKE i \in 1 .. Len(t) - 1
  <2>1. i \in 1 .. Len(s) - n /\ i + 1 \in 1 .. Len(s) - n /\ i + n \in 1 .. Len(s) - 1
    BY <1>1, <1>2
  <2>2. t[i] = s[i + n] /\ t[i + 1] = s[(i + 1) + n] /\ (i + 1) + n = (i + n) + 1
    BY <2>1, <1>1, <1>2
  <2>3. QED
    BY <2>1, <2>2 DEF Path
<1>4. t # <<>> /\ t[Len(t)] = s[Len(s)] /\ s # <<>>
  <2> HIDE DEF t
  <2>1. Len(t) \in 1 .. Len(s) - n /\ Len(t) + n = Len(s) /\ Len(t) # 0 /\ Len(s) # 0
    BY <1>1, <1>2
  <2>2. t[Len(t)] = s[Len(t) + n]
    BY <2>1, <1>2
  <2>3. t # <<>> /\ s # <<>>
    BY <2>1
  <2>4. QED
    BY <2>1, <2>2, <2>3
<1>5. Path(t)
  BY <1>2, <1>3, <1>4 DEF Path
<1>6. Head(t) = s[n + 1]
  BY <1>1, <1>2, <1>4
<1>7. Range(t) \subseteq Range(s)
  <2>1. DOMAIN t = 1 .. Len(s) - n /\ DOMAIN s = 1 .. Len(s)
    BY <1>1, <1>2
  <2>2. ASSUME NEW i \in DOMAIN t PROVE t[i] \in Range(s)
    <3>1. t[i] = s[i + n] /\ i + n \in DOMAIN s
      BY <2>1, <1>1, <1>2
    <3>2. QED
      BY <3>1 DEF Range
  <2>3. QED
    BY <2>2 DEF Range
<1>8. Follows(s[n], s[n + 1]) /\ s[n] \in Steps /\ s[n + 1] \in Steps
  BY <1>1 DEF Path
<1>9. QED
  BY <1>4, <1>5, <1>6, <1>7, <1>8

LEMMA PathConcat ==
    ASSUME NEW s, NEW t, Path(s), Path(t), s # <<>>, t # <<>>, Follows(s[Len(s)], t[1])
    PROVE  /\ Path(s \o t) /\ s \o t # <<>> /\ (s \o t)[1] = s[1]
           /\ (s \o t)[Len(s \o t)] = t[Len(t)]
<1> DEFINE u == s \o t
<1>1. /\ s \in Seq(Steps) /\ t \in Seq(Steps)
      /\ Len(s) \in Nat \ {0} /\ Len(t) \in Nat \ {0}
  BY DEF Path
<1>2. /\ u \in Seq(Steps) /\ Len(u) = Len(s) + Len(t)
      /\ \A i \in 1 .. Len(s) : u[i] = s[i]
      /\ \A i \in 1 .. Len(t) : u[i + Len(s)] = t[i]
  BY <1>1
<1>3. \A i \in 1 .. Len(u) - 1 : Follows(u[i], u[i + 1])
  <2> TAKE i \in 1 .. Len(u) - 1
  <2>1. CASE i < Len(s)
    <3>1. i \in 1 .. Len(s) - 1 /\ i \in 1 .. Len(s) /\ i + 1 \in 1 .. Len(s)
      BY <2>1, <1>1, <1>2
    <3>2. QED
      BY <3>1, <1>2 DEF Path
  <2>2. CASE i = Len(s)
    <3>1. i \in 1 .. Len(s) /\ i + 1 = 1 + Len(s) /\ 1 \in 1 .. Len(t)
      BY <2>2, <1>1
    <3>2. u[i] = s[Len(s)] /\ u[i + 1] = t[1]
      BY <3>1, <2>2, <1>2
    <3>3. QED
      BY <3>2
  <2>3. CASE i > Len(s)
    <3> DEFINE j == i - Len(s)
    <3>1. /\ j \in 1 .. Len(t) - 1 /\ j \in 1 .. Len(t) /\ j + 1 \in 1 .. Len(t)
          /\ i = j + Len(s) /\ i + 1 = (j + 1) + Len(s)
      BY <2>3, <1>1, <1>2
    <3>2. u[i] = t[j] /\ u[i + 1] = t[j + 1]
      BY <3>1, <1>2
    <3>3. QED
      BY <3>1, <3>2 DEF Path
  <2>4. QED
    BY <2>1, <2>2, <2>3, <1>1, <1>2
<1>4. u # <<>> /\ u[1] = s[1] /\ u[Len(u)] = t[Len(t)]
  <2>1. 1 \in 1 .. Len(s) /\ Len(t) \in 1 .. Len(t) /\ Len(u) = Len(t) + Len(s) /\ Len(u) # 0
    BY <1>1, <1>2
  <2>2. QED
    BY <2>1, <1>2
<1>5. QED
  BY <1>2, <1>3, <1>4 DEF Path

(* Parts can be put one after the other.                                   *)
Part(s) ==
    /\ Path(s) /\ s # <<>> /\ s[1] \in PartHeads
    /\ \A y \in PartHeads : Follows(s[Len(s)], y)

LEMMA PartConcat ==
    ASSUME NEW s, NEW t, Part(s), Part(t)
    PROVE  Part(s \o t)
BY PathConcat DEF Part

(* What 0 has, and what n + 1 has whenever n has it, every number has.     *)
LEMMA Induction ==
    ASSUME NEW P, 0 \in P, \A n \in Nat : n \in P => n + 1 \in P
    PROVE  \A n \in Nat : n \in P
<1> SUFFICES ASSUME NEW n \in Nat, n \notin P PROVE FALSE
  OBVIOUS
<1> DEFINE Bad == {k \in Nat : k \notin P}
<1>1. PICK m \in Bad : \A k \in Bad : ~ (<<k, m>> \in OpToRel(<, Nat))
  <2>1. n \in Bad /\ Bad \in SUBSET Nat
    OBVIOUS
  <2> HIDE DEF Bad
  <2>2. QED
    BY <2>1, NatLessThanWellFounded, WFMin
<1>2. \A k \in Bad : ~ (k < m)
  BY <1>1 DEF OpToRel
<1>3. m # 0 /\ m - 1 \in Nat /\ m - 1 \notin Bad /\ (m - 1) + 1 = m
  BY <1>2
<1>4. QED
  BY <1>3

(* What FlattenSeq's recursive function gives.                             *)
LEMMA FlattenIs ==
    ASSUME NEW ss, NEW n \in Nat \ {0}, DOMAIN ss = 1 .. n, Len(ss) = n
    PROVE  \E f : /\ \A i \in 1 .. n : f[i] = IF i = 1 THEN ss[i] ELSE f[i - 1] \o ss[i]
                  /\ FlattenSeq(ss) = f[n]
<1> DEFINE Flat(g, k) == g = [i \in 1 .. k |-> IF i = 1 THEN ss[i] ELSE g[i - 1] \o ss[i]]
           f == CHOOSE g : Flat(g, n)
           P == {k \in Nat : \E g : Flat(g, k)}
<1>1. 0 \in P
  <2>1. Flat([i \in 1 .. 0 |-> ss[i]], 0)
    OBVIOUS
  <2>2. QED
    BY <2>1
<1>2. ASSUME NEW k \in Nat, k \in P PROVE k + 1 \in P
  <2>1. PICK g : Flat(g, k)
    BY <1>2
  <2> DEFINE h == [i \in 1 .. k + 1 |->
                      IF i = 1 THEN ss[i] ELSE g[i - 1] \o ss[i]]
  <2>2. ASSUME NEW i \in 1 .. k PROVE h[i] = g[i]
    <3>1. h[i] = IF i = 1 THEN ss[i] ELSE g[i - 1] \o ss[i]
      OBVIOUS
    <3> HIDE DEF h
    <3>2. g[i] = IF i = 1 THEN ss[i] ELSE g[i - 1] \o ss[i]
      BY <2>1
    <3>3. QED
      BY <3>1, <3>2
  <2>3. ASSUME NEW i \in 1 .. k + 1, i # 1 PROVE g[i - 1] = h[i - 1]
    <3>1. i - 1 \in 1 .. k
      BY <2>3
    <3>2. QED
      BY <3>1, <2>2
  <2>4. h = [i \in 1 .. k + 1 |-> IF i = 1 THEN ss[i] ELSE h[i - 1] \o ss[i]]
    <3>1. ASSUME NEW i \in 1 .. k + 1
          PROVE  h[i] = IF i = 1 THEN ss[i] ELSE h[i - 1] \o ss[i]
      <4>1. h[i] = IF i = 1 THEN ss[i] ELSE g[i - 1] \o ss[i]
        OBVIOUS
      <4> HIDE DEF h
      <4>2. QED
        BY <4>1, <2>3
    <3> HIDE DEF h
    <3>2. DOMAIN h = 1 .. k + 1 /\ h = [i \in 1 .. k + 1 |-> h[i]]
      BY DEF h
    <3>3. QED
      BY <3>1, <3>2
  <2> HIDE DEF h
  <2>5. Flat(h, k + 1)
    BY <2>4, Zenon
  <2>6. k + 1 \in Nat
    OBVIOUS
  <2> HIDE DEF Flat
  <2>7. QED
    BY <2>5, <2>6, Zenon
<1>3. n \in P
  <2> HIDE DEF P
  <2>1. QED
    BY <1>1, <1>2, Induction
<1>4. Flat(f, n)
  BY <1>3
<1>5. FlattenSeq(ss) = f[n]
  BY Zenon DEF FlattenSeq
<1> HIDE DEF f
<1>6. \A i \in 1 .. n : f[i] = IF i = 1 THEN ss[i] ELSE f[i - 1] \o ss[i]
  BY <1>4
<1>7. QED
  BY <1>5, <1>6

LEMMA PartFlatten ==
    ASSUME NEW ss, NEW n \in Nat \ {0}, DOMAIN ss = 1 .. n, Len(ss) = n,
           \A i \in 1 .. n : Part(ss[i])
    PROVE  Part(FlattenSeq(ss))
<1>1. PICK f : /\ \A i \in 1 .. n : f[i] = IF i = 1 THEN ss[i] ELSE f[i - 1] \o ss[i]
               /\ FlattenSeq(ss) = f[n]
  BY FlattenIs
<1> DEFINE Q == {k \in Nat : k \in 1 .. n => Part(f[k])}
<1>2. 0 \in Q
  OBVIOUS
<1>3. ASSUME NEW k \in Nat, k \in Q PROVE k + 1 \in Q
  <2> SUFFICES ASSUME k + 1 \in 1 .. n PROVE Part(f[k + 1])
    OBVIOUS
  <2>1. f[k + 1] = IF k + 1 = 1 THEN ss[k + 1] ELSE f[(k + 1) - 1] \o ss[k + 1]
    BY <1>1
  <2>2. CASE k = 0
    BY <2>1, <2>2
  <2>3. CASE k # 0
    <3>1. k \in 1 .. n /\ (k + 1) - 1 = k /\ k + 1 # 1
      BY <2>3
    <3>2. Part(f[k]) /\ Part(ss[k + 1]) /\ f[k + 1] = f[k] \o ss[k + 1]
      BY <3>1, <2>1, <1>3
    <3>3. QED
      BY <3>2, PartConcat
  <2>4. QED
    BY <2>2, <2>3
<1>4. n \in Q
  <2> HIDE DEF Q
  <2>1. QED
    BY <1>2, <1>3, Induction
<1>5. QED
  BY <1>1, <1>4

LEMMA HeadsAreSteps ==
    /\ PartHeads \subseteq SetupSteps /\ SetupSteps \subseteq Steps
    /\ AppSteps \subseteq Steps /\ CeremonySteps \subseteq Steps
BY DEF PartHeads, SetupSteps, StackSteps, AuditorSteps, AfterAuditor, TokenSteps, Steps

(* The contracts of the stack.                                             *)
LEMMA Part1 ==
    ASSUME NEW p \in StackPaths \ {"babyJubJub", "encryptedERC"}
    PROVE  Part(StackContract(p))
<1> DEFINE s == StackContract(p)
<1>1. /\ s = << <<"deploy", p>>, <<"record", p>>, <<"verify", p>> >>
      /\ {<<"deploy", p>>, <<"record", p>>, <<"verify", p>>} \subseteq StackSteps
  BY DEF StackContract, StackSteps
<1>2. StackSteps \subseteq SetupSteps /\ SetupSteps \subseteq Steps
  BY DEF SetupSteps, Steps
<1>3. s \in Seq(Steps) /\ Len(s) = 3
  BY <1>1, <1>2
<1>4. s[1] = <<"deploy", p>> /\ s[2] = <<"record", p>> /\ s[3] = <<"verify", p>>
  BY <1>1
<1>5. Follows(<<"deploy", p>>, <<"record", p>>) /\ Follows(<<"record", p>>, <<"verify", p>>)
  BY <1>1, <1>2 DEF Follows, FollowsStack
<1>6. MayEnd(<<"verify", p>>)
  BY Names DEF MayEnd
<1>7. \A y \in PartHeads : y \in SetupSteps /\ Follows(<<"verify", p>>, y)
  BY HeadsAreSteps, <1>1, <1>2 DEF Follows, FollowsStack
<1>8. s[1] \in PartHeads
  BY <1>4 DEF PartHeads
<1> HIDE DEF s
<1>9. \A i \in 1 .. Len(s) - 1 : Follows(s[i], s[i + 1])
  <2> TAKE i \in 1 .. Len(s) - 1
  <2>1. i = 1 \/ i = 2
    BY <1>3
  <2>2. QED
    BY <2>1, <1>4, <1>5
<1>10. Path(s) /\ s # <<>>
  BY <1>3, <1>4, <1>6, <1>9 DEF Path
<1>11. QED
  BY <1>10, <1>8, <1>7, <1>3, <1>4 DEF Part, s

LEMMA ThreeAndThree ==
    ASSUME NEW a, NEW b, NEW c, NEW d, NEW e, NEW f
    PROVE  <<a, b, c>> \o <<d, e, f>> = <<a, b, c, d, e, f>>
<1>1. /\ <<a, b, c>> \o <<d, e, f>> \in Seq({a, b, c, d, e, f})
      /\ <<a, b, c, d, e, f>> \in Seq({a, b, c, d, e, f})
  OBVIOUS
<1>2. Len(<<a, b, c>> \o <<d, e, f>>) = 6 /\ Len(<<a, b, c, d, e, f>>) = 6
  OBVIOUS
<1>3. \A i \in 1 .. 6 : (<<a, b, c>> \o <<d, e, f>>)[i] = <<a, b, c, d, e, f>>[i]
  OBVIOUS
<1>4. QED
  BY <1>1, <1>2, <1>3, SeqEqual

LEMMA PartConverter == Part(DeployEncryptedERC)
<1> DEFINE b(op) == <<op, "babyJubJub">>
           e(op) == <<op, "encryptedERC">>
           s == DeployEncryptedERC
<1>1. s = << b("deploy"), b("record"), b("verify"), e("deploy"), e("record"), e("verify") >>
  BY ThreeAndThree DEF DeployEncryptedERC, StackContract
<1>2. {b("deploy"), b("record"), b("verify"), e("deploy"), e("record"), e("verify")} \subseteq StackSteps
  BY Names DEF StackSteps
<1>3. StackSteps \subseteq SetupSteps /\ SetupSteps \subseteq Steps
  BY DEF SetupSteps, Steps
<1>4. s \in Seq(Steps) /\ Len(s) = 6
  BY <1>1, <1>2, <1>3
<1>5. /\ s[1] = b("deploy") /\ s[2] = b("record") /\ s[3] = b("verify")
      /\ s[4] = e("deploy") /\ s[5] = e("record") /\ s[6] = e("verify")
  BY <1>1
<1>6. /\ Follows(b("deploy"), b("record")) /\ Follows(b("record"), b("verify"))
      /\ Follows(b("verify"), e("deploy"))
      /\ Follows(e("deploy"), e("record")) /\ Follows(e("record"), e("verify"))
  BY <1>2, <1>3 DEF Follows, FollowsStack
<1>7. MayEnd(e("verify"))
  BY Names DEF MayEnd, AppPaths
<1>8. \A y \in PartHeads : Follows(e("verify"), y)
  BY HeadsAreSteps, <1>2, <1>3 DEF Follows, FollowsStack
<1>9. s[1] \in PartHeads
  BY <1>5, Names DEF PartHeads
<1> HIDE DEF s, b, e
<1>10. \A i \in 1 .. Len(s) - 1 : Follows(s[i], s[i + 1])
  <2> TAKE i \in 1 .. Len(s) - 1
  <2>1. i \in {1, 2, 3, 4, 5}
    BY <1>4
  <2>2. QED
    BY <2>1, <1>5, <1>6
<1>11. Path(s) /\ s # <<>>
  <2>1. s # <<>>
    BY <1>4
  <2>2. QED
    BY <2>1, <1>4, <1>5, <1>7, <1>10 DEF Path
<1>12. QED
  BY <1>11, <1>9, <1>8, <1>4, <1>5 DEF Part, s

LEMMA PartAuditor == Part(ConfigureAuditor)
<1> DEFINE a(op) == <<op, "auditor">>
           s == ConfigureAuditor
<1>1. s = << a("look"), a("key"), a("store"), a("register"), a("set"), a("write") >>
  BY DEF ConfigureAuditor
<1>2. {a("look"), a("key"), a("store"), a("register"), a("set"), a("write")} \subseteq AuditorSteps
  BY DEF AuditorSteps, AfterAuditor
<1>3. AuditorSteps \subseteq SetupSteps /\ SetupSteps \subseteq Steps
  BY DEF SetupSteps, Steps
<1>4. s \in Seq(Steps) /\ Len(s) = 6
  BY <1>1, <1>2, <1>3
<1>5. /\ s[1] = a("look") /\ s[2] = a("key") /\ s[3] = a("store")
      /\ s[4] = a("register") /\ s[5] = a("set") /\ s[6] = a("write")
  BY <1>1
<1>6. /\ Follows(a("look"), a("key")) /\ Follows(a("key"), a("store"))
      /\ Follows(a("store"), a("register"))
      /\ Follows(a("register"), a("set")) /\ Follows(a("set"), a("write"))
  BY <1>2, <1>3 DEF Follows, FollowsAuditor, AfterAuditor
<1>7. MayEnd(a("write"))
  BY DEF MayEnd
<1>8. \A y \in PartHeads : Follows(a("write"), y)
  BY HeadsAreSteps, <1>2, <1>3 DEF Follows, FollowsAuditor
<1>9. s[1] \in PartHeads
  BY <1>5 DEF PartHeads
<1> HIDE DEF s, a
<1>10. \A i \in 1 .. Len(s) - 1 : Follows(s[i], s[i + 1])
  <2> TAKE i \in 1 .. Len(s) - 1
  <2>1. i \in {1, 2, 3, 4, 5}
    BY <1>4
  <2>2. QED
    BY <2>1, <1>5, <1>6
<1>11. Path(s) /\ s # <<>>
  <2>1. s # <<>>
    BY <1>4
  <2>2. QED
    BY <2>1, <1>4, <1>5, <1>7, <1>10 DEF Path
<1>12. QED
  BY <1>11, <1>9, <1>8, <1>4, <1>5 DEF Part, s

LEMMA OneToken ==
    ASSUME NEW o, NEW j, NEW a, NEW d, NEW w
    PROVE  <<o, j>> \o <<a, d>> \o <<w>> = <<o, j, a, d, w>>
<1> DEFINE s == <<o, j>> \o <<a, d>> \o <<w>>
           t == <<o, j, a, d, w>>
<1>1. s \in Seq({o, j, a, d, w}) /\ t \in Seq({o, j, a, d, w})
  OBVIOUS
<1>2. Len(s) = 5 /\ Len(t) = 5
  OBVIOUS
<1>3. \A i \in 1 .. 5 : s[i] = t[i]
  OBVIOUS
<1> HIDE DEF s, t
<1>4. s = t
  BY <1>1, <1>2, <1>3, SeqEqual
<1>5. QED
  BY <1>4 DEF s, t

LEMMA TwoTokens ==
    ASSUME NEW o, NEW j, NEW a, NEW d, NEW b, NEW e, NEW w
    PROVE  <<o, j>> \o (<<a, d>> \o <<b, e>>) \o <<w>> = <<o, j, a, d, b, e, w>>
<1> DEFINE s == <<o, j>> \o (<<a, d>> \o <<b, e>>) \o <<w>>
           t == <<o, j, a, d, b, e, w>>
<1>1. s \in Seq({o, j, a, d, b, e, w}) /\ t \in Seq({o, j, a, d, b, e, w})
  OBVIOUS
<1>2. Len(s) = 7 /\ Len(t) = 7
  OBVIOUS
<1>3. \A i \in 1 .. 7 : s[i] = t[i]
  OBVIOUS
<1> HIDE DEF s, t
<1>4. s = t
  BY <1>1, <1>2, <1>3, SeqEqual
<1>5. QED
  BY <1>4 DEF s, t

(* The tokens come last.                                                   *)
LEMMA TokensOneByOne ==
    /\ network = "benzonet" => RegisterConverterTokens =
           << <<"order", "tokens">>, <<"join", "tokens">>,
              <<"approve", "tUSDC">>, <<"deposit", "tUSDC">>, <<"write", "tokens">> >>
    /\ network # "benzonet" => RegisterConverterTokens =
           << <<"order", "tokens">>, <<"join", "tokens">>,
              <<"approve", "USDC">>, <<"deposit", "USDC">>,
              <<"approve", "EURC">>, <<"deposit", "EURC">>, <<"write", "tokens">> >>
<1> DEFINE pair(t) == << <<"approve", t>>, <<"deposit", t>> >>
           ss == [i \in DOMAIN wrappedTokens |-> pair(wrappedTokens[i])]
<1>0. RegisterConverterTokens = << <<"order", "tokens">>, <<"join", "tokens">> >>
                                 \o FlattenSeq(ss) \o << <<"write", "tokens">> >>
  BY Zenon DEF RegisterConverterTokens
<1>1. CASE network = "benzonet"
  <2>1. DOMAIN ss = 1 .. 1 /\ Len(ss) = 1 /\ ss[1] = pair("tUSDC")
    BY <1>1, TokensAre
  <2>2. FlattenSeq(ss) = pair("tUSDC")
    <3> HIDE DEF ss, pair
    <3>1. QED
      BY <2>1, FlattenIs
  <2> HIDE DEF ss
  <2>3. QED
    BY <2>2, <1>0, <1>1, OneToken
<1>2. CASE network # "benzonet"
  <2>1. DOMAIN ss = 1 .. 2 /\ Len(ss) = 2 /\ ss[1] = pair("USDC") /\ ss[2] = pair("EURC")
    BY <1>2, TokensAre
  <2>2. FlattenSeq(ss) = pair("USDC") \o pair("EURC")
    <3> HIDE DEF ss, pair
    <3>1. PICK f : /\ \A i \in 1 .. 2 : f[i] = IF i = 1 THEN ss[i] ELSE f[i - 1] \o ss[i]
                   /\ FlattenSeq(ss) = f[2]
      <4>1. 2 \in Nat \ {0}
        OBVIOUS
      <4>2. QED
        BY <4>1, <2>1, FlattenIs
    <3>2. f[1] = ss[1]
      BY <3>1
    <3>3. ASSUME NEW i \in 1 .. 2, i = 2 PROVE f[i] = f[1] \o ss[i]
      <4>1. i # 1 /\ i - 1 = 1
        BY <3>3
      <4>2. QED
        BY <4>1, <3>1
    <3>4. f[2] = f[1] \o ss[2]
      <4>1. 2 \in 1 .. 2
        OBVIOUS
      <4>2. QED
        BY <4>1, <3>3, Zenon
    <3>5. QED
      BY <3>1, <3>2, <3>4, <2>1
  <2> HIDE DEF ss
  <2>3. QED
    <3>1. PICK o, j, w : o = <<"order", "tokens">> /\ j = <<"join", "tokens">> /\ w = <<"write", "tokens">>
      OBVIOUS
    <3>2. PICK a, d : a = <<"approve", "USDC">> /\ d = <<"deposit", "USDC">>
      OBVIOUS
    <3>3. PICK b, e : b = <<"approve", "EURC">> /\ e = <<"deposit", "EURC">>
      OBVIOUS
    <3>4. pair("USDC") = <<a, d>> /\ pair("EURC") = <<b, e>>
      BY <3>2, <3>3
    <3> HIDE DEF pair
    <3>5. RegisterConverterTokens = <<o, j>> \o (<<a, d>> \o <<b, e>>) \o <<w>>
      BY <3>1, <3>4, <2>2, <1>0
    <3>6. RegisterConverterTokens = <<o, j, a, d, b, e, w>>
      BY <3>5, TwoTokens
    <3>7. QED
      BY <3>1, <3>2, <3>3, <3>6, <1>2
<1>3. QED
  BY <1>1, <1>2

LEMMA PathTokens ==
    /\ Path(RegisterConverterTokens) /\ RegisterConverterTokens # <<>>
    /\ RegisterConverterTokens[1] \in PartHeads
<1> DEFINE s == RegisterConverterTokens
           o == <<"order", "tokens">>
           j == <<"join", "tokens">>
           a(t) == <<"approve", t>>
           d(t) == <<"deposit", t>>
           w == <<"write", "tokens">>
<1>1. {o, j, w} \subseteq TokenSteps /\ \A t \in Range(wrappedTokens) : {a(t), d(t)} \subseteq TokenSteps
  BY TokensAre DEF TokenSteps
<1>2. TokenSteps \subseteq Steps
  BY DEF SetupSteps, Steps
<1>3. MayEnd(w) /\ o \in PartHeads
  BY DEF MayEnd, PartHeads
<1>4. Follows(o, j) /\ Follows(j, a(wrappedTokens[1]))
  <2>1. wrappedTokens[1] \in Range(wrappedTokens)
    BY TokensAre
  <2>2. QED
    BY <2>1, <1>1 DEF Follows, FollowsToken
<1>5. \A t \in Range(wrappedTokens) : Follows(a(t), d(t)) /\ (t # "USDC" => Follows(d(t), w))
  BY <1>1 DEF Follows, FollowsToken
<1>6. CASE network = "benzonet"
  <2>1. s = << o, j, a("tUSDC"), d("tUSDC"), w >>
    BY <1>6, TokensOneByOne
  <2>2. wrappedTokens[1] = "tUSDC" /\ "tUSDC" \in Range(wrappedTokens)
    BY <1>6, TokensAre
  <2>3. {o, j, a("tUSDC"), d("tUSDC"), w} \subseteq Steps
    BY <1>1, <1>2, <2>2
  <2>4. s \in Seq(Steps) /\ Len(s) = 5
    BY <2>1, <2>3
  <2>5. s[1] = o /\ s[2] = j /\ s[3] = a("tUSDC") /\ s[4] = d("tUSDC") /\ s[5] = w
    BY <2>1
  <2>6. /\ Follows(o, j) /\ Follows(j, a("tUSDC")) /\ Follows(a("tUSDC"), d("tUSDC"))
        /\ Follows(d("tUSDC"), w)
    BY <2>2, <1>4, <1>5
  <2> HIDE DEF s, o, j, a, d, w
  <2>7. \A i \in 1 .. Len(s) - 1 : Follows(s[i], s[i + 1])
    <3> TAKE i \in 1 .. Len(s) - 1
    <3>1. i \in {1, 2, 3, 4}
      BY <2>4
    <3>2. QED
      BY <3>1, <2>5, <2>6
  <2>8. Path(s) /\ s # <<>> /\ s[1] \in PartHeads
    <3>1. s # <<>>
      BY <2>4
    <3>2. QED
      BY <3>1, <2>4, <2>5, <2>7, <1>3 DEF Path
  <2>9. QED
    BY <2>8 DEF s
<1>7. CASE network # "benzonet"
  <2>1. s = << o, j, a("USDC"), d("USDC"), a("EURC"), d("EURC"), w >>
    BY <1>7, TokensOneByOne
  <2>2. wrappedTokens[1] = "USDC" /\ {"USDC", "EURC"} \subseteq Range(wrappedTokens)
    BY <1>7, TokensAre
  <2>3. {o, j, a("USDC"), d("USDC"), a("EURC"), d("EURC"), w} \subseteq Steps
    BY <1>1, <1>2, <2>2
  <2>4. s \in Seq(Steps) /\ Len(s) = 7
    BY <2>1, <2>3
  <2>5. /\ s[1] = o /\ s[2] = j /\ s[3] = a("USDC") /\ s[4] = d("USDC") /\ s[5] = a("EURC")
        /\ s[6] = d("EURC") /\ s[7] = w
    BY <2>1
  <2>6. Follows(d("USDC"), a("EURC"))
    BY <2>2, <1>1 DEF Follows, FollowsToken
  <2>7. /\ Follows(o, j) /\ Follows(j, a("USDC")) /\ Follows(a("USDC"), d("USDC"))
        /\ Follows(a("EURC"), d("EURC")) /\ Follows(d("EURC"), w)
    BY <2>2, <1>4, <1>5
  <2> HIDE DEF s, o, j, a, d, w
  <2>8. \A i \in 1 .. Len(s) - 1 : Follows(s[i], s[i + 1])
    <3> TAKE i \in 1 .. Len(s) - 1
    <3>1. i \in {1, 2, 3, 4, 5, 6}
      BY <2>4
    <3>2. QED
      BY <3>1, <2>5, <2>6, <2>7
  <2>9. Path(s) /\ s # <<>> /\ s[1] \in PartHeads
    <3>1. s # <<>>
      BY <2>4
    <3>2. QED
      BY <3>1, <2>4, <2>5, <2>8, <1>3 DEF Path
  <2>10. QED
    BY <2>9 DEF s
<1>8. QED
  BY <1>6, <1>7

LEMMA PartVerifiers == Part(DeployVerifiers)
<1> DEFINE n == Len(Verifiers)
           ss == [i \in DOMAIN Verifiers |-> StackContract(Verifiers[i])]
<1>1. n \in Nat \ {0} /\ DOMAIN Verifiers = 1 .. n
  BY Names
<1>2. DOMAIN ss = 1 .. n /\ Len(ss) = n
  BY <1>1
<1>3. \A i \in 1 .. n : Part(ss[i])
  <2> TAKE i \in 1 .. n
  <2>1. Verifiers[i] \in Range(Verifiers)
    BY <1>1 DEF Range
  <2>2. Verifiers[i] \in StackPaths \ {"babyJubJub", "encryptedERC"}
    BY <2>1, Names
  <2>3. ss[i] = StackContract(Verifiers[i])
    BY <1>1
  <2>4. QED
    BY <2>2, <2>3, Part1
<1>4. Part(FlattenSeq(ss))
  <2> HIDE DEF n, ss
  <2>1. QED
    BY <1>1, <1>2, <1>3, PartFlatten
<1>5. QED
  BY <1>4 DEF DeployVerifiers

LEMMA PathAfterPart ==
    ASSUME NEW s, NEW t, Part(s), Path(t), t # <<>>, t[1] \in PartHeads
    PROVE  Path(s \o t) /\ s \o t # <<>> /\ (s \o t)[1] \in PartHeads
BY PathConcat DEF Part

LEMMA StackPath ==
    LET s == DeployEercConverterStack IN Path(s) /\ s # <<>> /\ s[1] \in PartHeads
<1> DEFINE r == StackContract("registrar")
           u == StackContract("testUSDC")
           v == DeployVerifiers
           e == DeployEncryptedERC
           a == ConfigureAuditor
           t == RegisterConverterTokens
           Runs(s) == Path(s) /\ s # <<>> /\ s[1] \in PartHeads
<1>1. Part(r) /\ Part(u) /\ Part(v) /\ Part(e) /\ Part(a)
  BY Part1, Names, PartVerifiers, PartConverter, PartAuditor
<1>2. Runs(t)
  BY PathTokens
<1>3. v \o r \o e \o a \o t = (((v \o r) \o e) \o a) \o t
      /\ v \o r \o u \o e \o a \o t = ((((v \o r) \o u) \o e) \o a) \o t
  OBVIOUS
<1> HIDE DEF r, u, v, e, a, t
<1>4. Part(v \o r) /\ Part((v \o r) \o u)
  BY <1>1, PartConcat
<1>5. Part(((v \o r) \o e) \o a)
  <2>1. Part((v \o r) \o e)
    BY <1>1, <1>4, PartConcat
  <2>2. QED
    BY <2>1, <1>1, PartConcat
<1>6. Part((((v \o r) \o u) \o e) \o a)
  <2>1. Part(((v \o r) \o u) \o e)
    BY <1>1, <1>4, PartConcat
  <2>2. QED
    BY <2>1, <1>1, PartConcat
<1>7. Runs((((v \o r) \o e) \o a) \o t) /\ Runs(((((v \o r) \o u) \o e) \o a) \o t)
  BY <1>5, <1>6, <1>2, PathAfterPart
<1>8. (v \o r) \o <<>> = v \o r
  <2>1. v \o r \in Seq(Steps)
    BY <1>4 DEF Part, Path
  <2>2. QED
    BY <2>1
<1>9. DeployEercConverterStack = IF network = "benzonet" THEN ((((v \o r) \o u) \o e) \o a) \o t
                                 ELSE (((v \o r) \o e) \o a) \o t
  BY <1>8 DEF DeployEercConverterStack, r, u, v, e, a, t
<1>10. QED
  BY <1>7, <1>9

(* The applications' contracts.                                             *)
LEMMA PathHandleRegistry ==
    Path(HandleRegistry) /\ HandleRegistry # <<>> /\ HandleRegistry[1] = <<"deploy", "handleRegistry">>
<1> DEFINE a(op) == <<op, "handleRegistry">>
           s == HandleRegistry
<1>1. s = << a("deploy"), a("record"), a("verify") >>
  BY DEF HandleRegistry
<1>2. {a("deploy"), a("record"), a("verify")} \subseteq AppSteps
  BY DEF AppSteps, AppPaths
<1>3. s \in Seq(Steps) /\ Len(s) = 3
  BY <1>1, <1>2, HeadsAreSteps
<1>4. s[1] = a("deploy") /\ s[2] = a("record") /\ s[3] = a("verify")
  BY <1>1
<1>5. /\ Follows(a("deploy"), a("record")) /\ Follows(a("record"), a("verify"))
  BY <1>2 DEF Follows, FollowsApp
<1>6. MayEnd(a("verify"))
  BY DEF MayEnd, AppPaths
<1>7. a("deploy") = <<"deploy", "handleRegistry">>
  OBVIOUS
<1> HIDE DEF s, a
<1>8. \A i \in 1 .. Len(s) - 1 : Follows(s[i], s[i + 1])
  <2> TAKE i \in 1 .. Len(s) - 1
  <2>1. i \in {1, 2}
    BY <1>3
  <2>2. QED
    BY <2>1, <1>4, <1>5
<1>9. s # <<>>
  BY <1>3
<1>10. Path(s) /\ s # <<>> /\ s[1] = <<"deploy", "handleRegistry">>
  BY <1>3, <1>4, <1>6, <1>7, <1>8, <1>9 DEF Path
<1>11. QED
  BY <1>10 DEF s

LEMMA PathInvoiceRegistry ==
    Path(InvoiceRegistry) /\ InvoiceRegistry # <<>> /\ InvoiceRegistry[1] = <<"deploy", "invoiceRegistry">>
<1> DEFINE a(op) == <<op, "invoiceRegistry">>
           s == InvoiceRegistry
<1>1. s = << a("deploy"), a("verify"), a("record") >>
  BY DEF InvoiceRegistry
<1>2. {a("deploy"), a("verify"), a("record")} \subseteq AppSteps
  BY DEF AppSteps, AppPaths
<1>3. s \in Seq(Steps) /\ Len(s) = 3
  BY <1>1, <1>2, HeadsAreSteps
<1>4. s[1] = a("deploy") /\ s[2] = a("verify") /\ s[3] = a("record")
  BY <1>1
<1>5. /\ Follows(a("deploy"), a("verify")) /\ Follows(a("verify"), a("record"))
  BY <1>2 DEF Follows, FollowsApp
<1>6. MayEnd(a("record"))
  BY DEF MayEnd, AppPaths
<1>7. a("deploy") = <<"deploy", "invoiceRegistry">>
  OBVIOUS
<1> HIDE DEF s, a
<1>8. \A i \in 1 .. Len(s) - 1 : Follows(s[i], s[i + 1])
  <2> TAKE i \in 1 .. Len(s) - 1
  <2>1. i \in {1, 2}
    BY <1>3
  <2>2. QED
    BY <2>1, <1>4, <1>5
<1>9. s # <<>>
  BY <1>3
<1>10. Path(s) /\ s # <<>> /\ s[1] = <<"deploy", "invoiceRegistry">>
  BY <1>3, <1>4, <1>6, <1>7, <1>8, <1>9 DEF Path
<1>11. QED
  BY <1>10 DEF s

LEMMA PathGiftEscrow ==
    Path(GiftEscrow) /\ GiftEscrow # <<>> /\ GiftEscrow[1] = <<"deploy", "giftEscrow">>
<1> DEFINE a(op) == <<op, "giftEscrow">>
           s == GiftEscrow
<1>1. s = << a("deploy"), a("verify"), a("record") >>
  BY DEF GiftEscrow
<1>2. {a("deploy"), a("verify"), a("record")} \subseteq AppSteps
  BY DEF AppSteps, AppPaths
<1>3. s \in Seq(Steps) /\ Len(s) = 3
  BY <1>1, <1>2, HeadsAreSteps
<1>4. s[1] = a("deploy") /\ s[2] = a("verify") /\ s[3] = a("record")
  BY <1>1
<1>5. /\ Follows(a("deploy"), a("verify")) /\ Follows(a("verify"), a("record"))
  BY <1>2 DEF Follows, FollowsApp
<1>6. MayEnd(a("record"))
  BY DEF MayEnd, AppPaths
<1>7. a("deploy") = <<"deploy", "giftEscrow">>
  OBVIOUS
<1> HIDE DEF s, a
<1>8. \A i \in 1 .. Len(s) - 1 : Follows(s[i], s[i + 1])
  <2> TAKE i \in 1 .. Len(s) - 1
  <2>1. i \in {1, 2}
    BY <1>3
  <2>2. QED
    BY <2>1, <1>4, <1>5
<1>9. s # <<>>
  BY <1>3
<1>10. Path(s) /\ s # <<>> /\ s[1] = <<"deploy", "giftEscrow">>
  BY <1>3, <1>4, <1>6, <1>7, <1>8, <1>9 DEF Path
<1>11. QED
  BY <1>10 DEF s

LEMMA PathRouter ==
    Path(CctpRouter) /\ CctpRouter # <<>> /\ CctpRouter[1] = <<"deploy", "router">>
<1> DEFINE a(op) == <<op, "router">>
           s == CctpRouter
<1>1. s = << a("deploy"), a("allow"), a("map"), a("relayer"),
             a("authorize"), a("verify"), a("record"), a("config") >>
  BY DEF CctpRouter
<1>2. {a("deploy"), a("allow"), a("map"), a("relayer"),
       a("authorize"), a("verify"), a("record"), a("config")} \subseteq AppSteps
  BY DEF AppSteps, AppPaths
<1>3. s \in Seq(Steps) /\ Len(s) = 8
  BY <1>1, <1>2, HeadsAreSteps
<1>4. /\ s[1] = a("deploy") /\ s[2] = a("allow") /\ s[3] = a("map") /\ s[4] = a("relayer")
      /\ s[5] = a("authorize") /\ s[6] = a("verify") /\ s[7] = a("record") /\ s[8] = a("config")
  BY <1>1
<1>5. /\ Follows(a("deploy"), a("allow")) /\ Follows(a("allow"), a("map")) /\ Follows(a("map"), a("relayer"))
      /\ Follows(a("relayer"), a("authorize")) /\ Follows(a("authorize"), a("verify"))
      /\ Follows(a("verify"), a("record"))
      /\ Follows(a("record"), a("config"))
  BY <1>2 DEF Follows, FollowsApp
<1>6. MayEnd(a("config"))
  BY DEF MayEnd, AppPaths
<1>7. a("deploy") = <<"deploy", "router">>
  OBVIOUS
<1> HIDE DEF s, a
<1>8. \A i \in 1 .. Len(s) - 1 : Follows(s[i], s[i + 1])
  <2> TAKE i \in 1 .. Len(s) - 1
  <2>1. i \in {1, 2, 3, 4, 5, 6, 7}
    BY <1>3
  <2>2. QED
    BY <2>1, <1>4, <1>5
<1>9. s # <<>>
  BY <1>3
<1>10. Path(s) /\ s # <<>> /\ s[1] = <<"deploy", "router">>
  BY <1>3, <1>4, <1>6, <1>7, <1>8, <1>9 DEF Path
<1>11. QED
  BY <1>10 DEF s

LEMMA PathEscrow ==
    /\ Path(PrivateGiftEscrow) /\ PrivateGiftEscrow # <<>>
    /\ PrivateGiftEscrow[1] = <<"deploy", "privateGiftEscrow">>
<1> DEFINE a(op) == <<op, "privateGiftEscrow">>
           s == PrivateGiftEscrow
<1>1. s = << a("deploy"), a("authorize"), a("verify"), a("record"), a("config") >>
  BY DEF PrivateGiftEscrow
<1>2. {a("deploy"), a("authorize"), a("verify"), a("record"), a("config")} \subseteq AppSteps
  BY DEF AppSteps, AppPaths
<1>3. s \in Seq(Steps) /\ Len(s) = 5
  BY <1>1, <1>2, HeadsAreSteps
<1>4. /\ s[1] = a("deploy") /\ s[2] = a("authorize") /\ s[3] = a("verify") /\ s[4] = a("record")
      /\ s[5] = a("config")
  BY <1>1
<1>5. /\ Follows(a("deploy"), a("authorize")) /\ Follows(a("authorize"), a("verify"))
      /\ Follows(a("verify"), a("record"))
      /\ Follows(a("record"), a("config"))
  BY <1>2 DEF Follows, FollowsApp
<1>6. MayEnd(a("config"))
  BY DEF MayEnd, AppPaths
<1>7. a("deploy") = <<"deploy", "privateGiftEscrow">>
  OBVIOUS
<1> HIDE DEF s, a
<1>8. \A i \in 1 .. Len(s) - 1 : Follows(s[i], s[i + 1])
  <2> TAKE i \in 1 .. Len(s) - 1
  <2>1. i \in {1, 2, 3, 4}
    BY <1>3
  <2>2. QED
    BY <2>1, <1>4, <1>5
<1>9. s # <<>>
  BY <1>3
<1>10. Path(s) /\ s # <<>> /\ s[1] = <<"deploy", "privateGiftEscrow">>
  BY <1>3, <1>4, <1>6, <1>7, <1>8, <1>9 DEF Path
<1>11. QED
  BY <1>10 DEF s

LEMMA PathFresh == Path(FreshConverter) /\ FreshConverter # <<>> /\ FreshConverter[1] = ClearStep
<1> DEFINE s == << ClearStep >>
           t == DeployEercConverterStack
<1>1. Path(t) /\ t # <<>> /\ t[1] \in PartHeads
  BY StackPath
<1>2. FreshConverter = s \o t
  BY DEF FreshConverter, ClearStep
<1>3. s \in Seq(Steps) /\ Len(s) = 1 /\ s[1] = ClearStep
  BY DEF Steps, SetupSteps
<1>4. t \in Seq(Steps) /\ Len(t) \in Nat \ {0}
  BY <1>1 DEF Path
<1>5. Follows(ClearStep, t[1])
  BY <1>1 DEF Follows
<1> DEFINE u == s \o t
<1>6. u \in Seq(Steps) /\ Len(u) = Len(t) + 1
  BY <1>3, <1>4
<1>7. u[1] = ClearStep /\ \A i \in 1 .. Len(t) : u[i + 1] = t[i]
  BY <1>3, <1>4
<1> HIDE DEF u, s, t
<1>8. \A i \in 1 .. Len(u) - 1 : Follows(u[i], u[i + 1])
  <2> TAKE i \in 1 .. Len(u) - 1
  <2>1. CASE i = 1
    <3>1. 1 \in 1 .. Len(t) /\ u[1 + 1] = t[1]
      BY <1>4, <1>7
    <3>2. QED
      BY <3>1, <2>1, <1>5, <1>7
  <2>2. CASE i # 1
    <3>1. i - 1 \in 1 .. Len(t) - 1 /\ i - 1 \in 1 .. Len(t) /\ i \in 1 .. Len(t) /\ (i - 1) + 1 = i
      BY <2>2, <1>4, <1>6
    <3>2. u[i] = t[i - 1] /\ u[i + 1] = t[(i - 1) + 1]
      <4>1. u[(i - 1) + 1] = t[i - 1] /\ u[i + 1] = t[i]
        BY <3>1, <1>7
      <4>2. QED
        BY <4>1, <3>1
    <3>3. QED
      BY <3>1, <3>2, <1>1 DEF Path
  <2>3. QED
    BY <2>1, <2>2
<1>9. u # <<>> /\ MayEnd(u[Len(u)])
  <2>1. Len(t) \in 1 .. Len(t) /\ u[Len(t) + 1] = t[Len(t)]
    BY <1>4, <1>7
  <2>2. u[Len(u)] = t[Len(t)]
    BY <2>1, <1>6
  <2>3. u # <<>>
    BY <1>4, <1>6
  <2>4. QED
    BY <2>2, <2>3, <1>1 DEF Path
<1>10. Path(u) /\ u # <<>> /\ u[1] = ClearStep
  BY <1>6, <1>7, <1>8, <1>9 DEF Path
<1>11. QED
  BY <1>10, <1>2 DEF u

(* What a script begins with, and where it may be run.                     *)
LEMMA ProgramPath ==
    ASSUME NEW script, network \in {"benzonet", "fuji", "avalanche"},
           script \in ScriptsOf(network)
    PROVE  LET s == Programs(script) IN
           /\ Path(s) /\ s # <<>>
           /\ \/ s[1] \in PartHeads \cup {ClearStep} /\ network # "avalanche"
              \/ s[1] \in {"deploy"} \X AppPaths /\ network # "benzonet"
<1> DEFINE Runs(s) == Path(s) /\ s # <<>> /\ s[1] \in PartHeads \cup {ClearStep}
           Deploys(s) == Path(s) /\ s # <<>> /\ s[1] \in {"deploy"} \X AppPaths
           stack == {"00", "01", "02", "03", "04", "05", "11"}
           apps == {"06", "07", "08", "09", "10"}
<1>1. (script \in stack /\ network # "avalanche") \/ (script \in apps /\ network # "benzonet")
  BY DEF ScriptsOf
<1>2. Runs(DeployEercConverterStack) /\ Runs(FreshConverter)
  BY StackPath, PathFresh
<1>3. \A s : Part(s) => Runs(s)
  BY DEF Part
<1>4. /\ Runs(DeployVerifiers) /\ Runs(StackContract("registrar")) /\ Runs(StackContract("testUSDC"))
      /\ Runs(DeployEncryptedERC) /\ Runs(ConfigureAuditor)
  BY <1>3, PartVerifiers, Part1, Names, PartConverter, PartAuditor
<1>5. /\ Deploys(HandleRegistry) /\ Deploys(InvoiceRegistry) /\ Deploys(GiftEscrow)
      /\ Deploys(CctpRouter) /\ Deploys(PrivateGiftEscrow)
  BY PathHandleRegistry, PathInvoiceRegistry, PathGiftEscrow, PathRouter, PathEscrow DEF AppPaths
<1> HIDE DEF Runs, Deploys
<1>6. CASE script \in stack /\ network # "avalanche"
  <2>1. Runs(Programs(script))
    BY <1>2, <1>4, <1>6 DEF Programs
  <2>2. QED
    BY <2>1, <1>6 DEF Runs
<1>7. CASE script \in apps /\ network # "benzonet"
  <2>1. Deploys(Programs(script))
    BY <1>5, <1>7 DEF Programs
  <2>2. QED
    BY <2>1, <1>7 DEF Deploys
<1>8. QED
  BY <1>1, <1>6, <1>7

(* The ceremony exports every verifier.                                    *)
LEMMA CeremonyPath ==
    ASSUME NEW confirmed \in BOOLEAN
    PROVE  LET s == Ceremony(confirmed) IN
           /\ Path(s) /\ s # <<>> /\ s[1] \in CeremonySteps
           /\ \A c \in Range(Verifiers) : <<"export", c>> \in Range(s)
<1> DEFINE n == Len(Verifiers)
           v == [i \in DOMAIN Verifiers |-> <<"export", Verifiers[i]>>]
           w == IF confirmed THEN << <<"attest", "marker">> >> ELSE <<>>
           s == Ceremony(confirmed)
           E == {"export"} \X Range(Verifiers)
<1>1. n \in Nat \ {0} /\ DOMAIN Verifiers = 1 .. n
  BY Names
<1>2. \A i \in 1 .. n : Verifiers[i] \in Range(Verifiers)
  BY <1>1 DEF Range
<1>3. /\ v \in Seq(E) /\ Len(v) = n
      /\ \A i \in 1 .. n : v[i] = <<"export", Verifiers[i]>> /\ v[i] \in E
  BY <1>1, <1>2
<1>4. E \subseteq CeremonySteps /\ CeremonySteps \subseteq Steps /\ <<"attest", "marker">> \in CeremonySteps
  BY DEF CeremonySteps, Steps
<1>5. w \in Seq(Steps) /\ Len(w) \in {0, 1} /\ (Len(w) = 1 => w[1] = <<"attest", "marker">>)
  BY <1>4
<1>6. s = v \o w
  BY DEF Ceremony
<1> HIDE DEF v, w
<1>7. v \in Seq(Steps)
  BY <1>3, <1>4
<1> HIDE DEF s, n
<1>8. /\ s \in Seq(Steps) /\ Len(s) = n + Len(w)
      /\ \A i \in 1 .. n : s[i] = v[i]
      /\ Len(w) = 1 => s[n + 1] = w[1]
  <2>1. /\ s \in Seq(Steps) /\ Len(s) = n + Len(w)
        /\ \A i \in 1 .. n + Len(w) : s[i] = IF i <= n THEN v[i] ELSE w[i - n]
    BY <1>3, <1>5, <1>6, <1>7, ConcatProperties
  <2>2. \A i \in 1 .. n : i \in 1 .. n + Len(w) /\ i <= n
    BY <1>1, <1>5
  <2>3. Len(w) = 1 => n + 1 \in 1 .. n + Len(w) /\ ~(n + 1 <= n) /\ (n + 1) - n = 1
    BY <1>1
  <2>4. QED
    BY <2>1, <2>2, <2>3
<1> HIDE DEF E
<1>8a. Len(s) = n \/ (Len(s) = n + 1 /\ Len(w) = 1)
  <2>1. CASE Len(w) = 0  BY <2>1, <1>1, <1>8
  <2>2. CASE Len(w) = 1  BY <2>2, <1>8
  <2>3. QED  BY <2>1, <2>2, <1>5
<1>9. \A i \in 1 .. Len(s) : s[i] \in CeremonySteps
  <2> TAKE i \in 1 .. Len(s)
  <2>1. CASE i \in 1 .. n
    BY <2>1, <1>3, <1>4, <1>8
  <2>2. CASE i \notin 1 .. n
    <3>1. Len(w) = 1 /\ i = n + 1
      BY <2>2, <1>1, <1>8a
    <3>2. QED
      BY <3>1, <1>4, <1>5, <1>8
  <2>3. QED
    BY <2>1, <2>2
<1>10. \A i \in 1 .. Len(s) - 1 : Follows(s[i], s[i + 1])
  <2> TAKE i \in 1 .. Len(s) - 1
  <2>1. i \in 1 .. n /\ i + 1 \in 1 .. Len(s)
    BY <1>1, <1>8a
  <2>2. s[i] \in E /\ s[i + 1] \in CeremonySteps
    BY <2>1, <1>3, <1>8, <1>9
  <2>3. QED
    BY <2>2 DEF Follows, E
<1>11. s # <<>> /\ MayEnd(s[Len(s)])
  <2>1. Len(s) \in 1 .. Len(s) /\ Len(s) # 0
    BY <1>1, <1>5, <1>8
  <2>2. s[Len(s)] \in CeremonySteps
    BY <2>1, <1>9
  <2>3. \A x \in CeremonySteps : MayEnd(x)
    BY DEF CeremonySteps, MayEnd
  <2>4. s # <<>>
    BY <2>1
  <2>5. QED
    BY <2>2, <2>3, <2>4
<1>12. ASSUME NEW c \in Range(Verifiers) PROVE <<"export", c>> \in Range(s)
  <2>1. PICK i \in 1 .. n : Verifiers[i] = c
    BY <1>1 DEF Range
  <2>2. s[i] = <<"export", c>> /\ i \in DOMAIN s
    BY <2>1, <1>1, <1>3, <1>5, <1>8
  <2>3. QED
    BY <2>2 DEF Range
<1>13. Path(s) /\ s[1] \in CeremonySteps
  <2>1. 1 \in 1 .. Len(s)
    BY <1>1, <1>5, <1>8
  <2>2. QED
    BY <2>1, <1>8, <1>9, <1>10, <1>11 DEF Path
<1>14. QED
  BY <1>11, <1>12, <1>13 DEF s
-----------------------------------------------------------------------------
(* The kinds of steps.                                                     *)

LEMMA StackKind ==
    ASSUME NEW x \in StackSteps
    PROVE  /\ x \in SetupSteps /\ x # ClearStep
           /\ x \notin AuditorSteps /\ x \notin TokenSteps /\ x \notin AppSteps /\ x \notin CeremonySteps
           /\ x = <<x[1], x[2]>> /\ x[1] \in {"deploy", "record", "verify"} /\ x[2] \in StackPaths
BY Names DEF SetupSteps, StackSteps, AuditorSteps, AfterAuditor, TokenSteps, AppSteps, CeremonySteps,
             ClearStep

LEMMA AuditorKind ==
    ASSUME NEW x \in AuditorSteps
    PROVE  /\ x \in SetupSteps /\ x # ClearStep
           /\ x \notin StackSteps /\ x \notin TokenSteps /\ x \notin AppSteps /\ x \notin CeremonySteps
           /\ x = <<x[1], "auditor">>
           /\ x[1] \in {"look", "key", "store", "register", "set", "write"}
BY DEF SetupSteps, StackSteps, AuditorSteps, AfterAuditor, TokenSteps, AppSteps, CeremonySteps, ClearStep

LEMMA TokenKind ==
    ASSUME NEW x \in TokenSteps
    PROVE  /\ x \in SetupSteps /\ x # ClearStep
           /\ x \notin StackSteps /\ x \notin AuditorSteps /\ x \notin AppSteps /\ x \notin CeremonySteps
           /\ x = <<x[1], x[2]>>
           /\ \/ x[1] \in {"order", "join", "write"} /\ x[2] = "tokens"
              \/ x[1] \in {"approve", "deposit"} /\ x[2] \in {"tUSDC", "USDC", "EURC"}
BY DEF SetupSteps, StackSteps, AuditorSteps, AfterAuditor, TokenSteps, AppSteps, CeremonySteps, ClearStep

LEMMA ClearKind ==
    /\ ClearStep \in SetupSteps /\ ClearStep[1] = "clear"
    /\ ClearStep \notin StackSteps /\ ClearStep \notin AuditorSteps /\ ClearStep \notin TokenSteps
    /\ ClearStep \notin AppSteps /\ ClearStep \notin CeremonySteps
BY DEF SetupSteps, StackSteps, AuditorSteps, AfterAuditor, TokenSteps, AppSteps, CeremonySteps, ClearStep

LEMMA AppKind ==
    ASSUME NEW x \in AppSteps
    PROVE  /\ x \notin SetupSteps /\ x # ClearStep
           /\ x \notin StackSteps /\ x \notin AuditorSteps /\ x \notin TokenSteps /\ x \notin CeremonySteps
           /\ x = <<x[1], x[2]>> /\ x[2] \in AppPaths /\ x[2] \notin StackPaths
           /\ x[1] \in {"deploy", "verify", "record", "allow", "map", "relayer", "authorize", "config"}
BY Names DEF SetupSteps, StackSteps, AuditorSteps, AfterAuditor, TokenSteps, AppSteps, CeremonySteps,
             ClearStep, AppPaths

LEMMA CeremonyKind ==
    ASSUME NEW x \in CeremonySteps
    PROVE  /\ x \notin SetupSteps /\ x # ClearStep
           /\ x \notin StackSteps /\ x \notin AuditorSteps /\ x \notin TokenSteps /\ x \notin AppSteps
           /\ x = <<x[1], x[2]>>
           /\ \/ x[1] = "export" /\ x[2] \in Range(Verifiers)
              \/ x = <<"attest", "marker">>
BY DEF SetupSteps, StackSteps, AuditorSteps, AfterAuditor, TokenSteps, AppSteps, CeremonySteps, ClearStep

-----------------------------------------------------------------------------
(* What holds before a step, by its kind.                                  *)

LEMMA AtStack ==
    ASSUME ConsoleInv, NEW op, NEW p, Doing(op, p), <<op, p>> \in StackSteps
    PROVE  /\ op # "record" => AddressRecorded
           /\ OnMainnet /\ console.ids = NoTokens /\ StackFact(op, p)
<1>1. Fact(<<op, p>>)
  BY DEF ConsoleInv, Doing
<1> DEFINE x == <<op, p>>
<1>2. x \in SetupSteps /\ x \notin TokenSteps /\ x[1] = op /\ x[2] = p
  BY StackKind
<1>3. op # "record" => x \notin {"record"} \X StackPaths
  OBVIOUS
<1>4. QED
  BY <1>1, <1>2, <1>3 DEF Fact

LEMMA AtAuditor ==
    ASSUME ConsoleInv, NEW op, Doing(op, "auditor"), <<op, "auditor">> \in AuditorSteps
    PROVE  AddressRecorded /\ OnMainnet /\ console.ids = NoTokens /\ AuditorFact(op)
<1>1. Fact(<<op, "auditor">>)
  BY DEF ConsoleInv, Doing
<1> DEFINE x == <<op, "auditor">>
<1>2. x \in SetupSteps /\ x \notin TokenSteps /\ x \notin StackSteps /\ x[1] = op
  BY AuditorKind
<1>3. x \notin {"record"} \X StackPaths
  BY <1>2 DEF StackSteps
<1>4. QED
  BY <1>1, <1>2, <1>3 DEF Fact

LEMMA AtToken ==
    ASSUME ConsoleInv, NEW op, NEW t, Doing(op, t), <<op, t>> \in TokenSteps
    PROVE  AddressRecorded /\ OnMainnet /\ TokenFact(op, t)
<1>1. Fact(<<op, t>>)
  BY DEF ConsoleInv, Doing
<1> DEFINE x == <<op, t>>
<1>2. x \in SetupSteps /\ x \notin StackSteps /\ x[1] = op /\ x[2] = t
  BY TokenKind
<1>3. x \notin {"record"} \X StackPaths
  BY <1>2 DEF StackSteps
<1>4. QED
  BY <1>1, <1>2, <1>3 DEF Fact

LEMMA AtClear ==
    ASSUME ConsoleInv, Doing("clear", "manifest")
    PROVE  AddressRecorded /\ OnMainnet /\ console.ids = NoTokens /\ console.address = 0
<1>1. Fact(ClearStep)
  BY DEF ConsoleInv, Doing, ClearStep
<1>2. ClearStep \notin {"record"} \X StackPaths
  BY ClearKind DEF StackSteps
<1>3. QED
  BY <1>1, <1>2, ClearKind DEF Fact

LEMMA AtApp ==
    ASSUME ConsoleInv, NEW op, NEW p, Doing(op, p), <<op, p>> \in AppSteps
    PROVE  AddressRecorded /\ network # "benzonet" /\ AppFact(op, p)
<1>1. Fact(<<op, p>>)
  BY DEF ConsoleInv, Doing
<1> DEFINE x == <<op, p>>
<1>2. x \notin StackSteps /\ x[1] = op /\ x[2] = p
  BY AppKind
<1>3. x \notin {"record"} \X StackPaths
  BY <1>2 DEF StackSteps
<1>4. QED
  BY <1>1, <1>2, <1>3 DEF Fact

LEMMA AtCeremony ==
    ASSUME ConsoleInv, NEW op, NEW p, Doing(op, p), <<op, p>> \in CeremonySteps
    PROVE  AddressRecorded /\ CeremonyFact
<1>1. Fact(<<op, p>>)
  BY DEF ConsoleInv, Doing
<1> DEFINE x == <<op, p>>
<1>2. x \notin StackSteps
  BY CeremonyKind
<1>3. x \notin {"record"} \X StackPaths
  BY <1>2 DEF StackSteps
<1>4. QED
  BY <1>1, <1>2, <1>3 DEF Fact

(* And what is to be shown of the step that comes next.                    *)
LEMMA ToHead ==
    ASSUME NEW y \in PartHeads, AddressRecorded', OnMainnet', console'.ids = NoTokens
    PROVE  Fact(y)'
<1>1. y # ClearStep /\ y \notin AppSteps /\ y \notin CeremonySteps
  <2>1. y \in StackSteps \/ y \in AuditorSteps \/ y \in TokenSteps
    BY DEF PartHeads, StackSteps, AuditorSteps, AfterAuditor, TokenSteps
  <2>2. QED
    BY <2>1, StackKind, AuditorKind, TokenKind
<1>2. y \in StackSteps => StackFact(y[1], y[2])'
  BY DEF PartHeads, StackSteps, StackFact
<1>3. y \in AuditorSteps => AuditorFact(y[1])'
  BY DEF PartHeads, AuditorSteps, AfterAuditor, AuditorFact
<1>4. y \in TokenSteps => TokenFact(y[1], y[2])'
  BY DEF PartHeads, TokenSteps, TokenFact
<1>5. QED
  BY <1>1, <1>2, <1>3, <1>4 DEF Fact

LEMMA ToStack ==
    ASSUME NEW y \in StackSteps, AddressRecorded' \/ y[1] = "record", OnMainnet',
           console'.ids = NoTokens, StackFact(y[1], y[2])'
    PROVE  Fact(y)'
<1>1. y[1] = "record" => y \in {"record"} \X StackPaths
  BY DEF StackSteps
<1>2. QED
  BY <1>1, StackKind DEF Fact

LEMMA ToAuditor ==
    ASSUME NEW y \in AuditorSteps, AddressRecorded', OnMainnet', console'.ids = NoTokens,
           AuditorFact(y[1])'
    PROVE  Fact(y)'
BY AuditorKind DEF Fact

LEMMA ToToken ==
    ASSUME NEW y \in TokenSteps, AddressRecorded', OnMainnet', TokenFact(y[1], y[2])'
    PROVE  Fact(y)'
BY TokenKind DEF Fact

LEMMA ToApp ==
    ASSUME NEW y \in AppSteps, AddressRecorded', network' # "benzonet", AppFact(y[1], y[2])'
    PROVE  Fact(y)'
BY AppKind DEF Fact

LEMMA ToCeremony ==
    ASSUME NEW y \in CeremonySteps, AddressRecorded', CeremonyFact'
    PROVE  Fact(y)'
BY CeremonyKind DEF Fact

-----------------------------------------------------------------------------
(* From a step to the next one.                                            *)

LEMMA StopsThere == console' = Idle => ConsoleInv'
<1> HAVE console' = Idle
<1>1. NoKey \in Keys /\ Development \in Setups /\ <<>> \in Seq(Steps)
  BY DEF Keys, Setups
<1>2. NoTokens \in [Symbols -> 0 .. Cardinality(Symbols)]
  BY SymbolCount DEF NoTokens
<1>3. Idle \in Consoles /\ Idle.steps = <<>>
  BY <1>1, <1>2 DEF Idle, Consoles
<1>4. console'.steps = <<>> /\ console' \in Consoles
  BY <1>3
<1>5. Path(console.steps)'
  <2>1. Len(<<>>) = 0
    OBVIOUS
  <2>2. \A i \in 1 .. Len(<<>>) - 1 : FALSE
    BY <2>1
  <2>3. QED
    BY <1>1, <1>4, <2>2 DEF Path
<1>6. QED
  BY <1>4, <1>5 DEF ConsoleInv

LEMMA PathLater ==
    ASSUME NEW s, Path(s), network' = network
    PROVE  Path(s)'
<1>1. wrappedTokens' = wrappedTokens
  BY DEF wrappedTokens
<1>2. \A i \in 1 .. Len(s) - 1 : Follows(s[i], s[i + 1])'
  BY <1>1 DEF Path, Follows, FollowsToken
<1>3. QED
  BY <1>2 DEF Path

LEMMA GoesOn ==
    ASSUME NEW s, Path(s), s # <<>>, network' = network,
           console' \in Consoles, console'.steps = s,
           Fact(Head(s))'
    PROVE  ConsoleInv'
<1>1. Path(s)'
  BY PathLater
<1>2. Path(console.steps)' /\ Fact(Head(console.steps))' /\ console'.steps # <<>>
  BY <1>1
<1>3. QED
  BY <1>2 DEF ConsoleInv

LEMMA DropIs ==
    ASSUME ConsoleInv, NEW n \in 1 .. Len(console.steps) - 1
    PROVE  /\ Path(Drop(n)) /\ Drop(n) # <<>> /\ Head(Drop(n)) = console.steps[n + 1]
           /\ Range(Drop(n)) \subseteq Range(console.steps)
           /\ Onward(console, n) = [console EXCEPT !.steps = Drop(n)]
           /\ Follows(console.steps[n], console.steps[n + 1])
<1>1. Path(console.steps)
  BY DEF ConsoleInv
<1>2. Len(console.steps) \in Nat
  BY <1>1 DEF Path
<1>3. ~(Len(console.steps) <= n)
  BY <1>2
<1>4. QED
  BY <1>1, <1>3, PathRest DEF Drop, Onward

LEMMA FirstStep ==
    ASSUME ConsoleInv, NEW op, NEW p, Doing(op, p)
    PROVE  /\ console.steps[1] = <<op, p>> /\ <<op, p>> \in Steps
           /\ Len(console.steps) \in Nat \ {0}
           /\ console.steps \in Seq(Steps)
<1>1. console.steps \in Seq(Steps) /\ console.steps # <<>>
  BY DEF ConsoleInv, Path, Doing
<1>2. QED
  BY <1>1 DEF Doing

LEMMA Advance ==
    ASSUME ConsoleInv, NEW op, NEW p, Doing(op, p)
    PROVE  \/ MayEnd(<<op, p>>) /\ Onward(console, 1) = Idle /\ console.steps = << <<op, p>> >>
           \/ /\ Follows(<<op, p>>, Head(Drop(1)))
              /\ Path(Drop(1)) /\ Drop(1) # <<>>
              /\ Onward(console, 1) = [console EXCEPT !.steps = Drop(1)]
<1>1. /\ console.steps[1] = <<op, p>> /\ Len(console.steps) \in Nat \ {0}
      /\ console.steps \in Seq(Steps)
  BY FirstStep
<1>2. CASE Len(console.steps) = 1
  <2>1. MayEnd(<<op, p>>)
    BY <1>1, <1>2 DEF ConsoleInv, Path
  <2>2. Onward(console, 1) = Idle
    BY <1>2 DEF Onward
  <2>3. console.steps = << <<op, p>> >>
    <3>1. PICK s : s = console.steps
      OBVIOUS
    <3>2. PICK x : x = <<op, p>>
      OBVIOUS
    <3>3. s \in Seq(Steps) /\ Len(s) = 1 /\ s[1] = x
      BY <3>1, <3>2, <1>1, <1>2
    <3>4. s = <<x>>
      BY <3>3
    <3>5. QED
      BY <3>1, <3>2, <3>4
  <2>4. QED
    BY <2>1, <2>2, <2>3
<1>3. CASE Len(console.steps) # 1
  <2>1. 1 \in 1 .. Len(console.steps) - 1
    <3>1. PICK n : n = Len(console.steps)
      OBVIOUS
    <3>2. n \in Nat /\ n # 0 /\ n # 1
      BY <3>1, <1>1, <1>3
    <3>3. 1 \in 1 .. n - 1
      BY <3>2
    <3>4. QED
      BY <3>1, <3>3
  <2>2. QED
    BY <2>1, <1>1, DropIs
<1>4. QED
  BY <1>2, <1>3

(* The script goes on with what it knows now.                              *)
LEMMA Typed ==
    ASSUME console \in Consoles, NEW s \in Seq(Steps)
    PROVE  /\ [console EXCEPT !.steps = s] \in Consoles /\ [console EXCEPT !.steps = s].steps = s
           /\ [console EXCEPT !.steps = s].address = console.address
           /\ [console EXCEPT !.steps = s].key = console.key
           /\ [console EXCEPT !.steps = s].ids = console.ids
           /\ [console EXCEPT !.steps = s].expected = console.expected
           /\ [console EXCEPT !.steps = s].setup = console.setup
BY DEF Consoles

LEMMA Proceeds ==
    ASSUME ConsoleInv, NEW op, NEW p, Doing(op, p), Proceed, network' = network,
           ASSUME NEW y \in Steps, Follows(<<op, p>>, y),
                  console'.address = console.address, console'.key = console.key,
                  console'.ids = console.ids, console'.expected = console.expected,
                  console'.setup = console.setup, y = Head(Drop(1)), console'.steps = Drop(1)
           PROVE  Fact(y)'
    PROVE  ConsoleInv'
<1>1. CASE Onward(console, 1) = Idle
  BY <1>1, StopsThere DEF Proceed
<1>2. CASE Onward(console, 1) # Idle
  <2>1. /\ Follows(<<op, p>>, Head(Drop(1))) /\ Path(Drop(1)) /\ Drop(1) # <<>>
        /\ console' = [console EXCEPT !.steps = Drop(1)]
    BY <1>2, Advance DEF Proceed
  <2>2. PICK s : s = Drop(1)
    OBVIOUS
  <2>3. PICK y : y = Head(s)
    OBVIOUS
  <2>4. s \in Seq(Steps) /\ y \in Steps
    BY <2>1, <2>2, <2>3 DEF Path
  <2>5. console \in Consoles
    BY DEF ConsoleInv
  <2>6. /\ console' \in Consoles /\ console'.steps = s
        /\ console'.address = console.address /\ console'.key = console.key
        /\ console'.ids = console.ids /\ console'.expected = console.expected
        /\ console'.setup = console.setup
    BY <2>1, <2>2, <2>4, <2>5, Typed
  <2>7. Follows(<<op, p>>, y) /\ y = Head(Drop(1)) /\ console'.steps = Drop(1) /\ s # <<>> /\ Path(s)
    BY <2>1, <2>2, <2>3, <2>6
  <2>8. Fact(y)'
    BY <2>4, <2>6, <2>7
  <2>9. QED
    BY <2>3, <2>6, <2>7, <2>8, GoesOn
<1>3. QED
  BY <1>1, <1>2

-----------------------------------------------------------------------------
(* Contracts that changed as contracts may.                                *)

Injective(tokens) == \A i, j \in DOMAIN tokens : tokens[i] = tokens[j] => i = j

LEMMA ContractIs ==
    ASSUME CodeInv, NEW a \in DOMAIN code
    PROVE  /\ code[a] \in Contracts /\ code[a].tokens \in Seq(Symbols) /\ Injective(code[a].tokens)
           /\ code[a].settings \subseteq AllSettings /\ code[a].kind \in Paths
           /\ a \in Nat \ {0} /\ Len(code) \in Nat /\ DOMAIN code = 1 .. Len(code)
           /\ code[a].auditor \in Keys /\ code[a].keys["auditor"] \in Keys
<1>1. PICK s : s = code
  OBVIOUS
<1>2. s \in Seq(Contracts) /\ a \in DOMAIN s
  BY <1>1 DEF CodeInv
<1>3. PICK c : c = s[a]
  OBVIOUS
<1>4. c \in Contracts /\ a \in Nat \ {0} /\ Len(s) \in Nat /\ DOMAIN s = 1 .. Len(s)
  BY <1>2, <1>3
<1>5. /\ c.tokens \in Seq(Symbols) /\ c.settings \subseteq AllSettings /\ c.kind \in Paths
      /\ c.auditor \in Keys /\ c.keys["auditor"] \in Keys
  BY <1>4 DEF Contracts
<1>6. Injective(c.tokens)
  BY <1>1, <1>3 DEF CodeInv, ContractInv, Injective
<1>7. QED
  BY <1>1, <1>3, <1>4, <1>5, <1>6

LEMMA ContractIsLater ==
    ASSUME CodeInv', NEW a \in DOMAIN code'
    PROVE  /\ code'[a] \in Contracts /\ code'[a].tokens \in Seq(Symbols) /\ Injective(code'[a].tokens)
           /\ code'[a].settings \subseteq AllSettings /\ a \in Nat \ {0}
<1>1. PICK s : s = code'
  OBVIOUS
<1>2. s \in Seq(Contracts) /\ a \in DOMAIN s
  BY <1>1 DEF CodeInv
<1>3. PICK c : c = s[a]
  OBVIOUS
<1>4. c \in Contracts /\ a \in Nat \ {0}
  BY <1>2, <1>3
<1>5. c.tokens \in Seq(Symbols) /\ c.settings \subseteq AllSettings
  BY <1>4 DEF Contracts
<1>6. Injective(c.tokens)
  BY <1>1, <1>3 DEF CodeInv, ContractInv, Injective
<1>7. QED
  BY <1>1, <1>3, <1>4, <1>5, <1>6

LEMMA UsesOf ==
    /\ Uses("registrar") = {"registration"}
    /\ Uses("encryptedERC") = {"registrar", "babyJubJub"} \cup Range(OtherVerifiers)
    /\ Uses("router") = {"encryptedERC", "registrar"}
    /\ Uses("privateGiftEscrow") = {"encryptedERC"}
    /\ \A p : p \notin {"registrar", "encryptedERC", "router", "privateGiftEscrow"} => Uses(p) = {}
BY DEF Uses

LEMMA TokenIdIs ==
    ASSUME NEW c \in DOMAIN code, NEW t, NEW i \in DOMAIN code[c].tokens,
           code[c].tokens[i] = t, Injective(code[c].tokens)
    PROVE  TokenIdOf(c, t) = i
<1>1. t \in Range(code[c].tokens)
  BY DEF Range
<1>2. \A j \in DOMAIN code[c].tokens : code[c].tokens[j] = t => j = i
  BY DEF Injective
<1>3. (CHOOSE j \in DOMAIN code[c].tokens : code[c].tokens[j] = t) = i
  BY <1>2
<1>4. QED
  BY <1>1, <1>3 DEF TokenIdOf

LEMMA TokenIdIsLater ==
    ASSUME NEW c \in DOMAIN code', NEW t, NEW i \in DOMAIN code'[c].tokens,
           code'[c].tokens[i] = t, Injective(code'[c].tokens)
    PROVE  TokenIdOf(c, t)' = i
<1>1. t \in Range(code'[c].tokens)
  BY DEF Range
<1>2. \A j \in DOMAIN code'[c].tokens : code'[c].tokens[j] = t => j = i
  BY DEF Injective
<1>3. (CHOOSE j \in DOMAIN code'[c].tokens : code'[c].tokens[j] = t) = i
  BY <1>2
<1>4. QED
  BY <1>1, <1>3 DEF TokenIdOf

LEMMA AtMostFour ==
    ASSUME NEW tokens \in Seq(Symbols), Injective(tokens)
    PROVE  Len(tokens) \in Nat /\ Len(tokens) <= 4
<1>1. PICK n \in Nat : DOMAIN tokens = 1 .. n /\ n = Len(tokens)
  OBVIOUS
<1>2. SUFFICES ASSUME ~(n <= 4) PROVE FALSE
  BY <1>1
<1>3. IsFiniteSet(1 .. n) /\ Cardinality(1 .. n) = n
  <2>1. 1 \in Int /\ n \in Int /\ ~(1 > n) /\ n - 1 + 1 = n
    BY <1>1, <1>2
  <2>2. QED
    BY <2>1, FS_Interval
<1>4. tokens \in [1 .. n -> Symbols]
  BY <1>1
<1>5. Cardinality(Symbols) < Cardinality(1 .. n)
  BY <1>1, <1>2, <1>3, SymbolCount
<1>6. \E i, j \in 1 .. n : i # j /\ tokens[i] = tokens[j]
  BY <1>3, <1>4, <1>5, SymbolCount, FS_PigeonHole
<1>7. QED
  BY <1>1, <1>6 DEF Injective

(* A number is the position of a token, and none is above four.            *)
LEMMA TokenIdBound ==
    ASSUME CodeInv, NEW c \in DOMAIN code, NEW t
    PROVE  /\ TokenIdOf(c, t) \in 0 .. Cardinality(Symbols)
           /\ TokenIdOf(c, t) # 0 <=> t \in Range(code[c].tokens)
           /\ TokenIdOf(c, t) # 0 =>
                  /\ TokenIdOf(c, t) \in DOMAIN code[c].tokens
                  /\ code[c].tokens[TokenIdOf(c, t)] = t
<1>1. PICK tokens : tokens = code[c].tokens
  OBVIOUS
<1>2. tokens \in Seq(Symbols) /\ Injective(tokens)
  <2>1. code[c].tokens \in Seq(Symbols) /\ Injective(code[c].tokens)
    BY ContractIs
  <2>2. QED
    BY <2>1, <1>1
<1>3. PICK n \in Nat : DOMAIN tokens = 1 .. n /\ n = Len(tokens)
  BY <1>2
<1>4. n <= 4
  BY <1>2, <1>3, AtMostFour
<1>5. CASE t \in Range(tokens)
  <2>1. PICK i \in 1 .. n : tokens[i] = t
    BY <1>5, <1>3 DEF Range
  <2>2. TokenIdOf(c, t) = i
    BY <2>1, <1>1, <1>2, <1>3, TokenIdIs
  <2>3. i \in 0 .. 4 /\ i # 0
    BY <1>3, <1>4
  <2>4. QED
    BY <2>1, <2>2, <2>3, <1>1, <1>3, <1>5, SymbolCount
<1>6. CASE t \notin Range(tokens)
  BY <1>1, <1>6, SymbolCount DEF TokenIdOf
<1>7. QED
  BY <1>5, <1>6

(* The same contract, later.                                               *)
Later(c, d) ==
    /\ d.kind = c.kind /\ d.setup = c.setup /\ d.uses = c.uses
    /\ c.depositors \subseteq d.depositors /\ c.settings \subseteq d.settings
    /\ \A i \in DOMAIN c.tokens : i \in DOMAIN d.tokens /\ d.tokens[i] = c.tokens[i]
    /\ c.auditor # NoKey => d.auditor = c.auditor

CodeLater ==
    /\ DOMAIN code \subseteq DOMAIN code'
    /\ \A a \in DOMAIN code : Later(code[a], code'[a])

LEMMA LaterIsSame == ASSUME NEW c PROVE Later(c, c)
BY DEF Later

LEMMA CodeUnchanged == code' = code => CodeLater
BY DEF CodeLater, Later

LEMMA TokenIdLater ==
    ASSUME CodeInv, CodeInv', CodeLater, NEW c \in DOMAIN code, NEW t \in Range(code[c].tokens)
    PROVE  /\ TokenIdOf(c, t)' = TokenIdOf(c, t) /\ t \in Range(code'[c].tokens)
           /\ TokenIdOf(c, t) # 0
<1>1. Injective(code[c].tokens) /\ code[c].tokens \in Seq(Symbols)
  BY ContractIs
<1>2. c \in DOMAIN code' /\ Injective(code'[c].tokens)
  BY ContractIsLater DEF CodeLater
<1>3. PICK i \in DOMAIN code[c].tokens : code[c].tokens[i] = t
  BY DEF Range
<1>4. i \in DOMAIN code'[c].tokens /\ code'[c].tokens[i] = t
  BY <1>3 DEF CodeLater, Later
<1>5. i # 0
  <2>1. PICK tokens : tokens = code[c].tokens
    OBVIOUS
  <2>2. tokens \in Seq(Symbols) /\ i \in DOMAIN tokens
    BY <2>1, <1>1, <1>3
  <2>3. QED
    BY <2>2
<1>6. TokenIdOf(c, t) = i /\ TokenIdOf(c, t)' = i
  BY <1>1, <1>2, <1>3, <1>4, TokenIdIs, TokenIdIsLater
<1>7. QED
  BY <1>4, <1>5, <1>6 DEF Range

(* What the manifest says of the contracts stays true of them.             *)
LEMMA ManifestOfLater ==
    ASSUME CodeInv, CodeInv', FilesInv, ManifestTrue, CodeLater,
           UNCHANGED <<manifest, explorer, network, carriedOver>>,
           strangers' = 0 => strangers = 0
    PROVE  ManifestTrue'
<1>1. ASSUME NEW p \in Paths, HasCode(manifest.address[p])'
      PROVE  /\ HasCode(manifest.address[p])
             /\ Later(code[manifest.address[p]], code'[manifest.address[p]])
  <2>1. manifest.address[p] \in {Stale, 0} \cup DOMAIN code
    BY DEF FilesInv
  <2>2. code' \in Seq(Contracts)
    BY DEF CodeInv
  <2>3. Stale \notin DOMAIN code' /\ 0 \notin DOMAIN code'
    BY <2>2 DEF Stale
  <2>4. manifest.address[p] \in DOMAIN code'
    BY <1>1 DEF HasCode
  <2>5. manifest.address[p] \in DOMAIN code
    BY <2>1, <2>3, <2>4
  <2>6. QED
    BY <2>5 DEF CodeLater, HasCode
<1>2. ASSUME NEW p \in Paths, HasCode(manifest.address[p])
      PROVE  HasCode(manifest.address[p])'
  BY <1>2 DEF HasCode, CodeLater
<1>3. \A p \in Paths : HasCode(manifest.address[p])' =>
          /\ code'[manifest.address[p]].kind = p
          /\ p \in StackPaths =>
                \A q \in Uses(p) : code'[manifest.address[p]].uses[q] = manifest.address[q]
  BY <1>1 DEF ManifestTrue, Later
<1>4. network = "avalanche" =>
          \A c \in Range(Verifiers) :
              HasCode(manifest.address[c])' => code'[manifest.address[c]].setup \in Ceremonies
  BY <1>1, Names DEF ManifestTrue, Later, Paths
<1>5. "encryptedERC" \in Paths
  BY Names DEF Paths
<1>6. ~carriedOver /\ manifest.auditor # NoKey =>
          HasCode(Converter)' /\ manifest.auditor = code'[Converter].auditor
  BY <1>2, <1>5 DEF ManifestTrue, Converter, CodeLater, Later, HasCode
<1>7. ASSUME NEW t \in Symbols, ~carriedOver, manifest.tokens[t] # 0
      PROVE  /\ HasCode(Converter)' /\ manifest.tokens[t] = TokenIdOf(Converter, t)'
             /\ strangers' = 0 => wrappedTokens[manifest.tokens[t]] = t
  <2>1. HasCode(Converter) /\ manifest.tokens[t] = TokenIdOf(Converter, t)
    BY <1>7 DEF ManifestTrue
  <2>2. PICK c : c = Converter
    OBVIOUS
  <2>3. c \in DOMAIN code /\ TokenIdOf(c, t) = manifest.tokens[t]
    BY <2>1, <2>2 DEF HasCode
  <2>4. t \in Range(code[c].tokens)
    BY <2>3, <1>7 DEF TokenIdOf
  <2>5. TokenIdOf(c, t)' = TokenIdOf(c, t)
    BY <2>3, <2>4, TokenIdLater
  <2>6. Converter' = Converter
    BY DEF Converter
  <2>7. TokenIdOf(Converter, t)' = TokenIdOf(c, t)'
    BY <2>2, <2>6 DEF TokenIdOf
  <2>8. strangers' = 0 => wrappedTokens[manifest.tokens[t]] = t
    BY <1>7 DEF ManifestTrue
  <2>9. HasCode(Converter)'
    BY <2>1, <1>2, <1>5 DEF Converter
  <2>10. QED
    BY <2>3, <2>5, <2>7, <2>8, <2>9
<1>8. \A p \in manifest.verified : manifest.address[p] \in explorer
  BY DEF ManifestTrue
<1>9. Converter' = Converter /\ wrappedTokens' = wrappedTokens
  BY DEF Converter, wrappedTokens
<1>10. QED
  BY <1>3, <1>4, <1>6, <1>7, <1>8, <1>9 DEF ManifestTrue

LEMMA RoutesOfLater ==
    ASSUME CodeInv, CodeInv', FilesInv, RoutesWork, CodeLater, UNCHANGED <<manifest, config>>
    PROVE  RoutesWork'
<1> SUFFICES ASSUME NEW p \in {"router", "privateGiftEscrow"}
             PROVE  /\ \A a \in Routes(p) :
                          /\ code'[a].kind = p
                          /\ a \in code'[code'[a].uses["encryptedERC"]].depositors
                          /\ p = "router" => code'[a].settings = {"allow", "map", "relayer"}
                    /\ config[p] <= manifest.address[p]
  BY DEF RoutesWork, Routes
<1>1. ASSUME NEW a \in Routes(p)
      PROVE  /\ code'[a].kind = p
             /\ a \in code'[code'[a].uses["encryptedERC"]].depositors
             /\ p = "router" => code'[a].settings = {"allow", "map", "relayer"}
  <2>1. p \in AppPaths /\ p \in Paths /\ p \notin StackPaths
    BY Names DEF AppPaths, Paths
  <2>2. a \in DOMAIN code
    BY <2>1 DEF Routes, FilesInv
  <2>3. /\ code[a].kind = p
        /\ a \in code[code[a].uses["encryptedERC"]].depositors
        /\ p = "router" => code[a].settings = {"allow", "map", "relayer"}
    BY DEF RoutesWork
  <2>4. code[a].uses["encryptedERC"] \in DOMAIN code
    <3>1. "encryptedERC" \in Uses(code[a].kind)
      BY <2>3, UsesOf
    <3>2. QED
      BY <2>2, <3>1 DEF CodeInv, ContractInv
  <2>5. PICK c \in DOMAIN code : c = code[a].uses["encryptedERC"]
    BY <2>4
  <2>6. Later(code[a], code'[a]) /\ Later(code[c], code'[c]) /\ a \in DOMAIN code'
    BY <2>2 DEF CodeLater
  <2>7. code'[a].settings \subseteq AllSettings
    BY <2>6, ContractIsLater
  <2>8. QED
    BY <2>3, <2>5, <2>6, <2>7 DEF Later, AllSettings
<1>2. config[p] <= manifest.address[p]
  BY DEF RoutesWork
<1>3. QED
  BY <1>1, <1>2

-----------------------------------------------------------------------------
(* What a step leaves alone.                                               *)

LEMMA CodeSame ==
    ASSUME CodeInv, UNCHANGED <<code, keyFile, network>>, strangers' = 0 => strangers = 0
    PROVE  CodeInv'
<1>1. wrappedTokens' = wrappedTokens
  BY DEF wrappedTokens
<1>2. \A a \in DOMAIN code : ContractInv(a)'
  BY <1>1 DEF CodeInv, ContractInv, KnownKey
<1>3. QED
  BY <1>2 DEF CodeInv

LEMMA FilesSame ==
    ASSUME FilesInv, DOMAIN code \subseteq DOMAIN code',
           UNCHANGED <<network, carriedOver, explorer, sources, marker, manifest, config>>,
           keyFile' \in Keys, funds' \in [Symbols -> Nat], crashes' \in Nat, strangers' \in Nat
    PROVE  FilesInv'
BY DEF FilesInv

LEMMA RecordsSame ==
    ASSUME CodeInv, CodeInv', FilesInv, ManifestTrue, RoutesWork, code' = code, strangers' = strangers,
           UNCHANGED <<manifest, config, explorer, network, carriedOver>>
    PROVE  ManifestTrue' /\ RoutesWork'
BY CodeUnchanged, ManifestOfLater, RoutesOfLater

(* A contract is lost only by a crash.                                     *)
LEMMA LostKept ==
    ASSUME CodeLater, DOMAIN code' \subseteq DOMAIN code \cup {console'.address},
           manifest'.address = manifest.address, replaced \subseteq replaced',
           AddressRecorded \/ console'.address = console.address
    PROVE  (Lost \ replaced)' \subseteq Lost \ replaced
<1> SUFFICES ASSUME NEW a \in Lost', a \notin replaced'
             PROVE  a \in Lost /\ a \notin replaced
  OBVIOUS
<1>1. /\ a \in DOMAIN code' /\ code'[a].kind \in StackPaths
      /\ manifest.address[code'[a].kind] # a /\ a # console'.address
  BY DEF Lost
<1>2. a \in DOMAIN code /\ code'[a].kind = code[a].kind
  BY <1>1 DEF CodeLater, Later
<1>3. a # console.address
  BY <1>1, <1>2 DEF AddressRecorded, Recorded
<1>4. QED
  BY <1>1, <1>2, <1>3 DEF Lost

LEMMA LostIsFinite ==
    ASSUME CodeInv
    PROVE  IsFiniteSet(Lost \ replaced) /\ Cardinality(Lost \ replaced) \in Nat
<1>1. PICK n \in Nat : DOMAIN code = 1 .. n
  <2>1. PICK s : s = code
    OBVIOUS
  <2>2. s \in Seq(Contracts)
    BY <2>1 DEF CodeInv
  <2>3. Len(s) \in Nat /\ DOMAIN s = 1 .. Len(s)
    BY <2>2
  <2>4. QED
    BY <2>1, <2>3
<1>2. IsFiniteSet(1 .. n)
  BY FS_Interval
<1>3. Lost \ replaced \subseteq 1 .. n
  BY <1>1 DEF Lost
<1>4. IsFiniteSet(Lost \ replaced)
  BY <1>2, <1>3, FS_Subset
<1>5. QED
  BY <1>4, FS_CardinalityType

LEMMA LostCount ==
    ASSUME CodeInv, CodeInv', FilesInv, Cardinality(Lost \ replaced) <= crashes, crashes' = crashes,
           (Lost \ replaced)' \subseteq Lost \ replaced
    PROVE  (Cardinality(Lost \ replaced) <= crashes)'
<1>1. PICK A, B : A = Lost \ replaced /\ B = (Lost \ replaced)'
  OBVIOUS
<1>2. IsFiniteSet(A) /\ Cardinality(A) \in Nat
  BY <1>1, LostIsFinite
<1>3. Cardinality(B) \in Nat /\ Cardinality(B) <= Cardinality(A)
  BY <1>1, <1>2, FS_Subset, FS_CardinalityType
<1>4. Cardinality(A) <= crashes /\ crashes \in Nat
  BY <1>1 DEF FilesInv
<1>5. Cardinality(B) <= crashes'
  BY <1>2, <1>3, <1>4
<1>6. QED
  BY <1>1, <1>5

LEMMA ConsoleOnly ==
    ASSUME IInv, UNCHANGED <<chainVars, fileVars, network, carriedOver, strangers, replaced, crashes>>,
           AddressRecorded \/ console'.address = console.address, ConsoleInv'
    PROVE  IInv'
<1>1. UNCHANGED <<code, explorer, funds, manifest, config, keyFile, sources, marker>>
  BY DEF chainVars, fileVars, ceremonyVars
<1>2. CodeInv'
  BY <1>1, CodeSame DEF IInv
<1>3. FilesInv'
  <2>1. funds' \in [Symbols -> Nat] /\ keyFile' \in Keys /\ crashes' \in Nat /\ strangers' \in Nat
    BY <1>1 DEF IInv, FilesInv
  <2>2. QED
    BY <1>1, <2>1, FilesSame DEF IInv
<1>4. ManifestTrue' /\ RoutesWork'
  BY <1>1, <1>2, RecordsSame DEF IInv
<1>5. (Lost \ replaced)' \subseteq Lost \ replaced
  BY <1>1, CodeUnchanged, LostKept
<1>6. (Cardinality(Lost \ replaced) <= crashes)'
  BY <1>2, <1>5, LostCount DEF IInv
<1>7. QED
  BY <1>2, <1>3, <1>4, <1>6 DEF IInv

LEMMA AddressSame ==
    ASSUME AddressRecorded, code' = code, manifest'.address = manifest.address,
           console'.address = console.address
    PROVE  AddressRecorded'
BY DEF AddressRecorded, Recorded

LEMMA MainnetSame ==
    ASSUME OnMainnet, network' = network, sources' = sources, console'.expected = console.expected
    PROVE  OnMainnet'
BY DEF OnMainnet

LEMMA ThrowLeaves ==
    ASSUME IInv, AddressRecorded, Throw, UNCHANGED <<chainVars, fileVars, countVars>>
    PROVE  IInv'
<1>1. ConsoleInv'
  BY StopsThere DEF Throw
<1>2. UNCHANGED <<network, carriedOver, strangers, replaced, crashes>>
  BY DEF countVars
<1>3. QED
  BY <1>1, <1>2, ConsoleOnly

-----------------------------------------------------------------------------
(* Starting a script.                                                      *)

LEMMA Started ==
    ASSUME IInv, console = Idle, ConsoleInv', 
           UNCHANGED <<chainVars, fileVars, network, carriedOver, crashes, strangers, replaced>>
    PROVE  IInv'
<1>1. AddressRecorded
  <2>1. console.address = 0
    BY DEF Idle
  <2>2. 0 \notin DOMAIN code
    BY ContractIs DEF IInv
  <2>3. QED
    BY <2>1, <2>2 DEF AddressRecorded
<1>2. QED
  BY <1>1, ConsoleOnly

LEMMA FromIdle ==
    ASSUME NEW s \in Seq(Steps), NEW g \in BOOLEAN, NEW e \in Keys, NEW u \in Setups
    PROVE  LET run == [steps |-> s, address |-> 0, key |-> NoKey, ids |-> NoTokens,
                       generate |-> g, expected |-> e, setup |-> u] IN
           /\ run \in Consoles /\ run.steps = s /\ run.address = 0 /\ run.ids = NoTokens
           /\ run.expected = e /\ run.setup = u
<1>1. NoKey \in Keys
  BY DEF Keys
<1>2. NoTokens \in [Symbols -> 0 .. Cardinality(Symbols)]
  BY SymbolCount DEF NoTokens
<1>3. QED
  BY <1>1, <1>2 DEF Idle, Consoles

LEMMA NothingDeployedThere ==
    ASSUME CodeInv', console'.address = 0
    PROVE  AddressRecorded'
BY ContractIsLater DEF AddressRecorded

LEMMA StartScriptKeeps ==
    ASSUME IInv, NEW script \in ScriptsOf(network), StartScript(script)
    PROVE  IInv'
<1>1. PICK s : s = Programs(script)
  OBVIOUS
<1>2. network \in {"benzonet", "fuji", "avalanche"}
  BY DEF IInv, FilesInv
<1>3. /\ Path(s) /\ s # <<>>
      /\ \/ s[1] \in PartHeads \cup {ClearStep} /\ network # "avalanche"
         \/ s[1] \in {"deploy"} \X AppPaths /\ network # "benzonet"
  BY <1>1, <1>2, ProgramPath
<1>4. /\ console = Idle /\ console' = [Idle EXCEPT !.steps = s, !.generate = TRUE]
      /\ UNCHANGED <<chainVars, fileVars, network, carriedOver, crashes, strangers, replaced>>
  BY <1>1 DEF StartScript, Starts
<1>5. UNCHANGED <<code, explorer, funds, manifest, config, keyFile, sources, marker>>
  BY <1>4 DEF chainVars, fileVars, ceremonyVars
<1>6. /\ console' \in Consoles /\ console'.steps = s /\ console'.address = 0 /\ console'.ids = NoTokens
  <2>1. NoKey \in Keys /\ Development \in Setups /\ s \in Seq(Steps)
    BY <1>3 DEF Keys, Setups, Path
  <2>2. console' = [steps |-> s, address |-> 0, key |-> NoKey, ids |-> NoTokens,
                  generate |-> TRUE, expected |-> NoKey, setup |-> Development]
    BY <1>4 DEF Idle
  <2>3. QED
    BY <2>1, <2>2, FromIdle
<1>7. AddressRecorded'
  BY <1>4, <1>5, <1>6, CodeSame, NothingDeployedThere DEF IInv
<1>8. PICK x : x = s[1] /\ Head(s) = x
  BY <1>3 DEF Path
<1>9. Fact(x)'
  <2>1. CASE x \in PartHeads
    <3>1. network' # "avalanche"
      <4>1. x \notin {"deploy"} \X AppPaths
        BY <2>1, Names DEF PartHeads
      <4>2. QED
        BY <1>3, <1>4, <1>8, <4>1
    <3>2. OnMainnet'
      BY <3>1 DEF OnMainnet
    <3>3. QED
      BY <2>1, <3>2, <1>6, <1>7, ToHead
  <2>2. CASE x = ClearStep
    <3>1. x \notin {"deploy"} \X AppPaths
      BY <2>2 DEF ClearStep
    <3>2. OnMainnet'
      BY <3>1, <1>3, <1>4, <1>8 DEF OnMainnet
    <3>3. QED
      BY <2>2, <3>2, <1>6, <1>7, ClearKind DEF Fact
  <2>3. CASE x \in {"deploy"} \X AppPaths
    <3>1. x \in AppSteps /\ x[1] = "deploy"
      BY <2>3 DEF AppSteps
    <3>2. x \notin PartHeads \cup {ClearStep}
      BY <3>1, AppKind, HeadsAreSteps
    <3>3. network' # "benzonet"
      BY <3>2, <1>3, <1>4, <1>8
    <3>4. AppFact(x[1], x[2])'
      BY <3>1 DEF AppFact
    <3>5. QED
      BY <3>1, <3>3, <3>4, <1>7, ToApp
  <2>4. QED
    BY <2>1, <2>2, <2>3, <1>3, <1>8
<1>10. ConsoleInv'
  BY <1>3, <1>4, <1>6, <1>8, <1>9, GoesOn
<1>11. QED
  BY <1>4, <1>10, Started

LEMMA RunMainnetDeployKeeps ==
    ASSUME IInv, NEW env \in Environments, RunMainnetDeploy(env)
    PROVE  IInv'
<1>1. PICK s : s = DeployEercConverterStack
  OBVIOUS
<1>2. Path(s) /\ s # <<>> /\ s[1] \in PartHeads
  BY <1>1, StackPath
<1>3. /\ env.auditorProvided /\ CeremonyMarkerValid
      /\ console = Idle /\ console' = [Idle EXCEPT !.steps = s, !.expected = OperatorKey]
      /\ UNCHANGED <<chainVars, fileVars, network, carriedOver, crashes, strangers, replaced>>
  <2>1. env.auditorProvided /\ CeremonyMarkerValid
    <3>1. AssertMainnetGuardrails(env)
      BY Zenon DEF RunMainnetDeploy
    <3>2. CeremonyMarkerValid
      BY <3>1, SMT DEF AssertMainnetGuardrails
    <3>3. env.auditorProvided
      BY <3>1, SMT DEF AssertMainnetGuardrails
    <3>4. QED
      BY <3>2, <3>3, Zenon
  <2>2. PICK key : key = IF env.auditorProvided THEN OperatorKey ELSE NoKey
    OBVIOUS
  <2>3. key = OperatorKey
    BY <2>1, <2>2
  <2>4. /\ console = Idle /\ console' = [Idle EXCEPT !.steps = s, !.expected = key]
        /\ UNCHANGED <<chainVars, fileVars, network, carriedOver, crashes, strangers, replaced>>
    BY <1>1, <2>2, Zenon DEF RunMainnetDeploy, Starts
  <2>5. QED
    BY <2>1, <2>3, <2>4, Zenon
<1>4. UNCHANGED <<code, explorer, funds, manifest, config, keyFile, sources, marker>>
  BY <1>3 DEF chainVars, fileVars, ceremonyVars
<1>5. /\ console' \in Consoles /\ console'.steps = s /\ console'.address = 0 /\ console'.ids = NoTokens
      /\ console'.expected = OperatorKey
  <2>1. OperatorKey \in Keys /\ Development \in Setups /\ s \in Seq(Steps)
    BY <1>2 DEF Keys, Setups, Path
  <2>2. console' = [steps |-> s, address |-> 0, key |-> NoKey, ids |-> NoTokens,
                  generate |-> FALSE, expected |-> OperatorKey, setup |-> Development]
    BY <1>3 DEF Idle
  <2>3. QED
    BY <2>1, <2>2, FromIdle
<1>6. AddressRecorded'
  BY <1>3, <1>4, <1>5, CodeSame, NothingDeployedThere DEF IInv
<1>7. OnMainnet'
  BY <1>3, <1>4, <1>5 DEF IInv, FilesInv, CeremonyMarkerValid, OnMainnet
<1>8. Fact(Head(s))'
  <2>1. PICK x : x = s[1] /\ Head(s) = x
    BY <1>2 DEF Path
  <2>2. Fact(x)'
    BY <2>1, <1>2, <1>5, <1>6, <1>7, ToHead
  <2>3. QED
    BY <2>1, <2>2
<1>9. ConsoleInv'
  BY <1>2, <1>3, <1>5, <1>8, GoesOn
<1>10. QED
  BY <1>3, <1>9, Started

LEMMA RunCeremonyKeeps ==
    ASSUME IInv, NEW setup \in Ceremonies, NEW confirmed \in BOOLEAN, RunCeremony(setup, confirmed)
    PROVE  IInv'
<1>1. PICK s : s = Ceremony(confirmed)
  OBVIOUS
<1>2. /\ Path(s) /\ s # <<>> /\ s[1] \in CeremonySteps
      /\ \A c \in Range(Verifiers) : <<"export", c>> \in Range(s)
  BY <1>1, CeremonyPath
<1>3. /\ network = "avalanche" /\ console = Idle
      /\ console' = [Idle EXCEPT !.steps = s, !.setup = setup]
      /\ UNCHANGED <<chainVars, fileVars, network, carriedOver, crashes, strangers, replaced>>
  BY <1>1 DEF RunCeremony, Starts
<1>4. UNCHANGED <<code, explorer, funds, manifest, config, keyFile, sources, marker>>
  BY <1>3 DEF chainVars, fileVars, ceremonyVars
<1>5. console' \in Consoles /\ console'.steps = s /\ console'.address = 0 /\ console'.setup = setup
  <2>1. NoKey \in Keys /\ setup \in Setups /\ s \in Seq(Steps)
    BY <1>2 DEF Keys, Setups, Path
  <2>2. console' = [steps |-> s, address |-> 0, key |-> NoKey, ids |-> NoTokens,
                  generate |-> FALSE, expected |-> NoKey, setup |-> setup]
    BY <1>3 DEF Idle
  <2>3. QED
    BY <2>1, <2>2, FromIdle
<1>6. AddressRecorded'
  BY <1>3, <1>4, <1>5, CodeSame, NothingDeployedThere DEF IInv
<1>7. CeremonyFact'
  BY <1>2, <1>3, <1>5 DEF CeremonyFact
<1>8. Fact(Head(s))'
  <2>1. PICK x : x = s[1] /\ Head(s) = x
    BY <1>2 DEF Path
  <2>2. Fact(x)'
    BY <2>1, <1>2, <1>6, <1>7, ToCeremony
  <2>3. QED
    BY <2>1, <2>2
<1>9. ConsoleInv'
  BY <1>2, <1>3, <1>5, <1>8, GoesOn
<1>10. QED
  BY <1>3, <1>9, Started

-----------------------------------------------------------------------------
(* What comes after a step.                                                *)

LEMMA NextOfStack ==
    ASSUME NEW op \in {"deploy", "record", "verify"}, NEW p \in StackPaths, NEW y,
           Follows(<<op, p>>, y)
    PROVE  /\ <<op, p>> \in StackSteps
           /\ op = "deploy" => y = <<"record", p>> /\ y \in StackSteps
           /\ op = "record" => y = <<"verify", p>> /\ y \in StackSteps
           /\ op = "verify" => y \in PartHeads \/ y = <<"deploy", "encryptedERC">>
<1>1. <<op, p>> \in StackSteps
  BY DEF StackSteps
<1>2. FollowsStack(<<op, p>>, y)
  <2>1. PICK x : x = <<op, p>>
    OBVIOUS
  <2>2. x \in StackSteps /\ Follows(x, y)
    BY <2>1, <1>1
  <2>3. FollowsStack(x, y)
    BY <2>2, StackKind DEF Follows, StackSteps, CeremonySteps
  <2>4. QED
    BY <2>1, <2>3
<1>3. QED
  BY <1>1, <1>2 DEF FollowsStack, StackSteps

LEMMA NextOfAuditor ==
    ASSUME NEW op \in {"look", "key", "store", "register", "set", "write"}, NEW y,
           Follows(<<op, "auditor">>, y)
    PROVE  /\ <<op, "auditor">> \in AuditorSteps
           /\ op = "look" => y = <<"key", "auditor">> /\ y \in AuditorSteps
           /\ op = "key" => y = <<"store", "auditor">> /\ y \in AuditorSteps
           /\ op = "store" => y = <<"register", "auditor">> /\ y \in AuditorSteps
           /\ op = "register" => y = <<"set", "auditor">> /\ y \in AuditorSteps
           /\ op = "set" => y = <<"write", "auditor">> /\ y \in AuditorSteps
           /\ op = "write" => y \in PartHeads
<1>1. <<op, "auditor">> \in AuditorSteps
  BY DEF AuditorSteps, AfterAuditor
<1>2. FollowsAuditor(<<op, "auditor">>, y)
  <2>1. PICK x : x = <<op, "auditor">>
    OBVIOUS
  <2>2. x \in AuditorSteps /\ Follows(x, y)
    BY <2>1, <1>1
  <2>3. FollowsAuditor(x, y)
    BY <2>2, AuditorKind DEF Follows, AuditorSteps, CeremonySteps
  <2>4. QED
    BY <2>1, <2>3
<1>3. QED
  BY <1>1, <1>2 DEF FollowsAuditor, AuditorSteps, AfterAuditor

LEMMA NextOfToken ==
    ASSUME NEW op, NEW t, NEW y, <<op, t>> \in TokenSteps, Follows(<<op, t>>, y)
    PROVE  /\ y \in TokenSteps
           /\ op = "order" => y = <<"join", "tokens">>
           /\ op = "join" => y = <<"approve", wrappedTokens[1]>>
           /\ op = "approve" => y = <<"deposit", t>>
           /\ op = "deposit" => \/ t = "USDC" /\ y = <<"approve", "EURC">>
                                \/ y = <<"write", "tokens">>
           /\ op # "write"
<1>1. y \in TokenSteps /\ FollowsToken(<<op, t>>, y)
  <2>1. PICK x : x = <<op, t>>
    OBVIOUS
  <2>2. x \in TokenSteps /\ Follows(x, y)
    BY <2>1
  <2>3. y \in TokenSteps /\ FollowsToken(x, y)
    BY <2>2, TokenKind DEF Follows, TokenSteps, CeremonySteps
  <2>4. QED
    BY <2>1, <2>3
<1>2. QED
  BY <1>1, Zenon DEF FollowsToken

LEMMA NextOfApp ==
    ASSUME NEW op, NEW p, NEW y, <<op, p>> \in AppSteps, Follows(<<op, p>>, y)
    PROVE  y \in AppSteps /\ FollowsApp(<<op, p>>, y)
<1>1. PICK x : x = <<op, p>>
  OBVIOUS
<1>2. x \in AppSteps /\ Follows(x, y)
  BY <1>1
<1>3. y \in AppSteps /\ FollowsApp(x, y)
  BY <1>2, AppKind DEF Follows, AppSteps, CeremonySteps
<1>4. QED
  BY <1>1, <1>3

LEMMA NextOfCeremony ==
    ASSUME NEW x \in CeremonySteps, NEW y, Follows(x, y)
    PROVE  y \in CeremonySteps /\ x[1] = "export"
BY CeremonyKind DEF Follows

LEMMA NextOfClear ==
    ASSUME NEW y, Follows(ClearStep, y)
    PROVE  y \in PartHeads
BY ClearKind DEF Follows

LEMMA NotLast ==
    ASSUME ConsoleInv, NEW n \in 1 .. Len(console.steps), ~MayEnd(console.steps[n])
    PROVE  n \in 1 .. Len(console.steps) - 1
<1>1. PICK s : s = console.steps
  OBVIOUS
<1>2. s \in Seq(Steps) /\ (s # <<>> => MayEnd(s[Len(s)])) /\ n \in 1 .. Len(s) /\ ~MayEnd(s[n])
  BY <1>1 DEF ConsoleInv, Path
<1>3. Len(s) \in Nat /\ s # <<>>
  <2>1. Len(s) \in Nat /\ Len(s) # 0
    BY <1>2
  <2>2. QED
    BY <2>1
<1>4. n # Len(s)
  BY <1>2, <1>3
<1>5. n \in 1 .. Len(s) - 1
  BY <1>2, <1>3, <1>4
<1>6. QED
  BY <1>1, <1>5

-----------------------------------------------------------------------------
(* The console alone changes.                                              *)

LEMMA CrashKeeps ==
    ASSUME IInv, Crash
    PROVE  IInv'
<1>1. /\ UNCHANGED <<code, explorer, funds, manifest, config, keyFile, sources, marker>>
      /\ UNCHANGED <<network, carriedOver, strangers, replaced>>
      /\ console' = Idle /\ crashes' = crashes + 1
  BY DEF Crash, Throw, chainVars, fileVars, ceremonyVars
<1>2. ConsoleInv'
  BY <1>1, StopsThere
<1>3. CodeInv'
  BY <1>1, CodeSame DEF IInv
<1>4. FilesInv'
  <2>1. funds' \in [Symbols -> Nat] /\ keyFile' \in Keys /\ crashes' \in Nat /\ strangers' \in Nat
    BY <1>1 DEF IInv, FilesInv
  <2>2. QED
    BY <1>1, <2>1, FilesSame DEF IInv
<1>5. ManifestTrue' /\ RoutesWork'
  BY <1>1, <1>3, RecordsSame DEF IInv
<1>6. (Cardinality(Lost \ replaced) <= crashes)'
  <2>1. PICK A, B, a : A = Lost \ replaced /\ B = (Lost \ replaced)' /\ a = console.address
    OBVIOUS
  <2>2. B \subseteq A \cup {a}
    BY <1>1, <2>1 DEF Lost
  <2>3. IsFiniteSet(A) /\ Cardinality(A) \in Nat
    BY <2>1, LostIsFinite DEF IInv
  <2>4. IsFiniteSet(A \cup {a}) /\ Cardinality(A \cup {a}) <= Cardinality(A) + 1
    <3>1. /\ IsFiniteSet(A \cup {a})
          /\ Cardinality(A \cup {a}) = IF a \in A THEN Cardinality(A) ELSE Cardinality(A) + 1
      BY <2>3, FS_AddElement
    <3>2. QED
      BY <3>1, <2>3
  <2>5. Cardinality(B) \in Nat /\ Cardinality(B) <= Cardinality(A \cup {a})
        /\ Cardinality(A \cup {a}) \in Nat
    BY <2>2, <2>4, FS_Subset, FS_CardinalityType
  <2>6. Cardinality(A) <= crashes /\ crashes \in Nat
    BY <2>1 DEF IInv, FilesInv
  <2>7. Cardinality(B) <= crashes'
    BY <2>3, <2>4, <2>5, <2>6, <1>1
  <2>8. QED
    BY <2>1, <2>7
<1>7. QED
  BY <1>2, <1>3, <1>4, <1>5, <1>6 DEF IInv

LEMMA IdleOnly ==
    ASSUME IInv, console = Idle, console' = Idle,
           UNCHANGED <<code, explorer, manifest, config, keyFile, marker>>,
           UNCHANGED <<network, carriedOver, crashes, strangers, replaced>>,
           sources' \in [Range(Verifiers) -> Setups], funds' \in [Symbols -> Nat]
    PROVE  IInv'
<1>1. ConsoleInv'
  BY StopsThere
<1>2. CodeInv'
  BY CodeSame DEF IInv
<1>3. FilesInv'
  BY DEF IInv, FilesInv
<1>4. ManifestTrue' /\ RoutesWork'
  BY <1>2, RecordsSame DEF IInv
<1>5. (Lost \ replaced)' \subseteq Lost \ replaced
  BY CodeUnchanged, LostKept
<1>6. (Cardinality(Lost \ replaced) <= crashes)'
  BY <1>2, <1>5, LostCount DEF IInv
<1>7. QED
  BY <1>1, <1>2, <1>3, <1>4, <1>6 DEF IInv

LEMMA RegenerateVerifiersKeeps ==
    ASSUME IInv, RegenerateVerifiers
    PROVE  IInv'
<1>1. /\ UNCHANGED <<code, explorer, funds, manifest, config, keyFile, marker>>
      /\ UNCHANGED <<network, carriedOver, crashes, strangers, replaced>>
      /\ console = Idle /\ console' = Idle
      /\ sources' = [c \in Range(Verifiers) |-> Development]
  BY DEF RegenerateVerifiers, chainVars
<1>2. sources' \in [Range(Verifiers) -> Setups]
  BY <1>1 DEF Setups
<1>3. funds' \in [Symbols -> Nat]
  BY <1>1 DEF IInv, FilesInv
<1>4. QED
  BY <1>1, <1>2, <1>3, IdleOnly

LEMMA PrefundKeeps ==
    ASSUME IInv, Prefund
    PROVE  IInv'
<1>1. /\ UNCHANGED <<code, explorer, manifest, config, keyFile, sources, marker>>
      /\ UNCHANGED <<network, carriedOver, crashes, strangers, replaced>>
      /\ console = Idle /\ console' = Idle
  BY DEF Prefund, fileVars, ceremonyVars
<1>2. funds' \in [Symbols -> Nat]
  BY DeploymentAssumption DEF Prefund, IInv, FilesInv
<1>3. sources' \in [Range(Verifiers) -> Setups]
  BY <1>1 DEF IInv, FilesInv
<1>4. QED
  BY <1>1, <1>2, <1>3, IdleOnly

LEMMA PathsAre == Paths = StackPaths \cup AppPaths
BY DEF Paths

LEMMA DeployIsStep ==
    ASSUME NEW op \in {"deploy", "record", "verify"}, NEW p \in Paths
    PROVE  /\ p \in StackPaths => <<op, p>> \in StackSteps
           /\ p \notin StackPaths => <<op, p>> \in AppSteps /\ p \in AppPaths
BY DEF Paths, StackSteps, AppSteps

LEMMA DeployIsRecorded ==
    ASSUME ConsoleInv, NEW op \in {"deploy", "verify"}, NEW p \in Paths, Doing(op, p)
    PROVE  AddressRecorded
<1>1. <<op, p>> \in StackSteps \/ <<op, p>> \in AppSteps
  BY DeployIsStep
<1>2. QED
  BY <1>1, AtStack, AtApp

LEMMA RefuseDeployKeeps ==
    ASSUME IInv, NEW p \in Paths, RefuseDeploy(p)
    PROVE  IInv'
<1>1. AddressRecorded
  BY DeployIsRecorded DEF IInv, RefuseDeploy
<1>2. QED
  BY <1>1, ThrowLeaves DEF RefuseDeploy

LEMMA ReuseKeeps ==
    ASSUME IInv, NEW p \in Paths, Reuse(p)
    PROVE  IInv'
<1>1. /\ ConsoleInv /\ Doing("deploy", p) /\ p \in StackPaths /\ HasCode(manifest.address[p])
      /\ console' = Onward(console, 2) /\ UNCHANGED <<chainVars, fileVars, countVars>>
  BY DEF IInv, Reuse, Reusable
<1>2. UNCHANGED <<code, explorer, funds, manifest, config, keyFile, sources, marker, network,
                  carriedOver, crashes, strangers, replaced>>
  BY <1>1 DEF chainVars, fileVars, ceremonyVars, countVars
<1>3. AddressRecorded /\ OnMainnet /\ console.ids = NoTokens
  <2>1. <<"deploy", p>> \in StackSteps
    BY <1>1, DeployIsStep
  <2>2. QED
    BY <1>1, <2>1, AtStack
<1>4. 1 \in 1 .. Len(console.steps) - 1 /\ console.steps[2] = <<"record", p>>
  <2>1. console.steps[1] = <<"deploy", p>> /\ 1 \in 1 .. Len(console.steps)
    <3>1. PICK n : n = Len(console.steps)
      OBVIOUS
    <3>2. console.steps[1] = <<"deploy", p>> /\ n \in Nat \ {0}
      BY <1>1, <3>1, FirstStep
    <3>3. QED
      BY <3>1, <3>2
  <2>2. ~MayEnd(<<"deploy", p>>)
    BY DEF MayEnd
  <2>3. 1 \in 1 .. Len(console.steps) - 1
    BY <1>1, <2>1, <2>2, NotLast
  <2>4. Follows(<<"deploy", p>>, console.steps[1 + 1])
    BY <1>1, <2>1, <2>3, DropIs
  <2>5. 1 + 1 = 2
    OBVIOUS
  <2>6. QED
    BY <1>1, <2>3, <2>4, <2>5, NextOfStack
<1>5. 2 \in 1 .. Len(console.steps) - 1 /\ console.steps[3] = <<"verify", p>>
  <2>1. 2 \in 1 .. Len(console.steps)
    <3>1. PICK n : n = Len(console.steps)
      OBVIOUS
    <3>2. n \in Nat /\ 1 \in 1 .. n - 1
      BY <1>1, <1>4, <3>1, FirstStep
    <3>3. QED
      BY <3>1, <3>2
  <2>2. ~MayEnd(<<"record", p>>)
    BY <1>1, Names DEF MayEnd, AppPaths
  <2>3. 2 \in 1 .. Len(console.steps) - 1
    BY <1>1, <1>4, <2>1, <2>2, NotLast
  <2>4. Follows(<<"record", p>>, console.steps[2 + 1])
    BY <1>1, <1>4, <2>3, DropIs
  <2>5. 2 + 1 = 3
    OBVIOUS
  <2>6. QED
    BY <1>1, <2>3, <2>4, <2>5, NextOfStack
<1>6. PICK s : s = Drop(2)
  OBVIOUS
<1>7. Path(s) /\ s # <<>> /\ Head(s) = <<"verify", p>> /\ console' = [console EXCEPT !.steps = s]
  BY <1>1, <1>5, <1>6, DropIs
<1>8. /\ console' \in Consoles /\ console'.steps = s
      /\ console'.address = console.address /\ console'.ids = console.ids
      /\ console'.expected = console.expected
  BY <1>1, <1>7, Typed DEF ConsoleInv, Path
<1>9. PICK y : y = <<"verify", p>>
  OBVIOUS
<1>10. Fact(y)'
  <2>1. y \in StackSteps /\ y[1] = "verify" /\ y[2] = p
    BY <1>1, <1>9 DEF StackSteps
  <2>2. StackFact(y[1], y[2])'
    BY <1>1, <1>2, <2>1 DEF StackFact, HasCode
  <2>3. AddressRecorded' /\ OnMainnet'
    BY <1>2, <1>3, <1>8, AddressSame, MainnetSame
  <2>4. QED
    BY <1>3, <1>8, <2>1, <2>2, <2>3, ToStack
<1>11. ConsoleInv'
  BY <1>2, <1>7, <1>8, <1>9, <1>10, GoesOn
<1>12. QED
  BY <1>1, <1>2, <1>3, <1>11, ConsoleOnly

-----------------------------------------------------------------------------
(* Deploying.                                                              *)

LEMMA PrefixIs ==
    ASSUME NEW s \in Seq(Symbols), NEW t \in Seq(Symbols)
    PROVE  IsPrefix(s, t) <=> Len(s) <= Len(t) /\ \A i \in 1 .. Len(s) : s[i] = t[i]
<1>1. Len(s) \in Nat /\ Len(t) \in Nat
  OBVIOUS
<1>2. ASSUME Len(s) <= Len(t)
      PROVE  /\ SubSeq(s, 1, Len(s)) \in Seq(Symbols) /\ Len(SubSeq(s, 1, Len(s))) = Len(s)
             /\ SubSeq(t, 1, Len(s)) \in Seq(Symbols) /\ Len(SubSeq(t, 1, Len(s))) = Len(s)
             /\ \A i \in 1 .. Len(s) : /\ SubSeq(s, 1, Len(s))[i] = s[i]
                                       /\ SubSeq(t, 1, Len(s))[i] = t[i]
  BY <1>1, <1>2
<1>3. CASE ~(Len(s) <= Len(t))
  BY <1>3 DEF IsPrefix
<1>4. CASE Len(s) <= Len(t)
  <2>1. PICK a, b : a = SubSeq(s, 1, Len(s)) /\ b = SubSeq(t, 1, Len(s))
    OBVIOUS
  <2>2. /\ a \in Seq(Symbols) /\ b \in Seq(Symbols) /\ Len(a) = Len(s) /\ Len(b) = Len(s)
        /\ \A i \in 1 .. Len(s) : a[i] = s[i] /\ b[i] = t[i]
    BY <1>2, <1>4, <2>1
  <2>3. a = b <=> \A i \in 1 .. Len(s) : a[i] = b[i]
    BY <2>2, <1>1, SeqEqual
  <2>4. IsPrefix(s, t) <=> a = b
    BY <1>4, <2>1 DEF IsPrefix
  <2>5. QED
    BY <2>2, <2>3, <2>4, <1>4
<1>5. QED
  BY <1>3, <1>4

LEMMA MayDeployOf ==
    /\ MayDeploy("registrar") = HasCode(manifest.address["registration"])
    /\ MayDeploy("encryptedERC") =
           \A q \in {"registrar"} \cup Range(OtherVerifiers) : HasCode(manifest.address[q])
    /\ MayDeploy("router") = RouterMayDeploy
    /\ MayDeploy("privateGiftEscrow") = EscrowMayDeploy
BY DEF MayDeploy

LEMMA UsesThere ==
    ASSUME IInv, NEW p \in Paths, Doing("deploy", p), MayDeploy(p)
    PROVE  \A q \in Uses(p) : manifest.address[q] \in DOMAIN code
<1>1. CASE p = "registrar"
  BY <1>1, UsesOf, MayDeployOf DEF HasCode
<1>2. CASE p = "encryptedERC"
  <2>1. <<"deploy", "encryptedERC">> \in StackSteps
    BY Names DEF StackSteps
  <2>2. HasCode(manifest.address["babyJubJub"])
    BY <1>2, <2>1, AtStack DEF IInv, StackFact
  <2>3. \A q \in {"registrar"} \cup Range(OtherVerifiers) : HasCode(manifest.address[q])
    BY <1>2, MayDeployOf
  <2>4. QED
    BY <1>2, <2>2, <2>3, UsesOf DEF HasCode
<1>3. CASE p = "router"
  <2>1. <<"deploy", "router">> \in AppSteps
    BY DEF AppSteps, AppPaths
  <2>2. network # "benzonet"
    BY <1>3, <2>1, AtApp DEF IInv
  <2>3. ~carriedOver
    BY <2>2 DEF IInv, FilesInv
  <2>4. {"encryptedERC", "registrar"} \subseteq Paths
    BY Names DEF Paths
  <2>5. IsRecord("encryptedERC") /\ IsRecord("registrar")
    BY <1>3, MayDeployOf DEF RouterMayDeploy
  <2>6. \A q \in {"encryptedERC", "registrar"} : manifest.address[q] \in DOMAIN code
    BY <2>3, <2>4, <2>5 DEF IInv, FilesInv, IsRecord
  <2>7. QED
    BY <1>3, <2>6, UsesOf
<1>4. CASE p = "privateGiftEscrow"
  BY <1>4, UsesOf, MayDeployOf DEF EscrowMayDeploy, HasCode
<1>5. CASE p \notin {"registrar", "encryptedERC", "router", "privateGiftEscrow"}
  BY <1>5, UsesOf
<1>6. QED
  BY <1>1, <1>2, <1>3, <1>4, <1>5

(* One more contract, and the others as they were.                         *)
LEMMA AppendCode ==
    ASSUME CodeInv, NEW c, code' = Append(code, c)
    PROVE  /\ Len(code) \in Nat /\ Len(code') = Len(code) + 1
           /\ DOMAIN code = 1 .. Len(code) /\ DOMAIN code' = 1 .. Len(code) + 1
           /\ \A a \in DOMAIN code : code'[a] = code[a]
           /\ code'[Len(code) + 1] = c
           /\ c \in Contracts => code' \in Seq(Contracts)
           /\ CodeLater
<1>1. PICK s, d : s = code /\ d = code'
  OBVIOUS
<1>2. s \in Seq(Contracts) /\ d = Append(s, c)
  BY <1>1 DEF CodeInv
<1>3. /\ Len(s) \in Nat /\ Len(d) = Len(s) + 1
      /\ DOMAIN s = 1 .. Len(s) /\ DOMAIN d = 1 .. Len(s) + 1
      /\ \A a \in 1 .. Len(s) : d[a] = s[a]
      /\ d[Len(s) + 1] = c
      /\ c \in Contracts => d \in Seq(Contracts)
  BY <1>2
<1>4. \A a \in DOMAIN s : a \in DOMAIN d /\ d[a] = s[a]
  BY <1>3
<1>5. CodeLater
  BY <1>1, <1>4, LaterIsSame DEF CodeLater
<1>6. QED
  BY <1>1, <1>3, <1>5

LEMMA NewContractIs ==
    ASSUME CodeInv, FilesInv, NEW p \in Paths, NEW uses \in [Uses(p) -> DOMAIN code]
    PROVE  LET c == NewContract(p, uses) IN
           /\ c \in Contracts /\ c.kind = p /\ c.uses = uses /\ c.auditor = NoKey
           /\ c.keys["auditor"] = NoKey /\ c.tokens = <<>> /\ c.depositors = {} /\ c.settings = {}
           /\ c.seeded = NoTokens /\ (p \in Range(Verifiers) => c.setup = sources[p])
<1>1. uses \in [Uses(p) -> Int]
  <2>1. DOMAIN code \subseteq Int
    BY ContractIs
  <2>2. QED
    BY <2>1
<1>2. uses \in UNION {[Uses(q) -> Int] : q \in Paths}
  BY <1>1
<1>3. (IF p \in Range(Verifiers) THEN sources[p] ELSE Development) \in Setups
  BY DEF FilesInv, Setups
<1>4. [a \in {"auditor", "deployer"} |-> NoKey] \in [{"auditor", "deployer"} -> Keys] /\ NoKey \in Keys
  BY DEF Keys
<1>5. NoTokens \in [Symbols -> Nat] /\ <<>> \in Seq(Symbols)
  BY DEF NoTokens
<1> DEFINE c == NewContract(p, uses)
<1>6. c \in Contracts
  BY <1>2, <1>3, <1>4, <1>5 DEF NewContract, Contracts
<1>7. QED
  BY <1>6 DEF NewContract

LEMMA DeployKeeps ==
    ASSUME IInv, NEW p \in Paths, Deploy(p)
    PROVE  IInv'
<1>1. PICK uses : uses = [q \in Uses(p) |-> manifest.address[q]]
  OBVIOUS
<1>2. PICK c : c = NewContract(p, uses)
  OBVIOUS
<1>3. PICK n : n = Len(code)
  OBVIOUS
<1>4. /\ Doing("deploy", p) /\ MayDeploy(p) /\ ~Reusable(p)
      /\ code' = Append(code, c) /\ console' = [Onward(console, 1) EXCEPT !.address = n + 1]
      /\ UNCHANGED <<explorer, funds, fileVars, countVars>>
  BY <1>1, <1>2, <1>3 DEF Deploy
<1>5. UNCHANGED <<explorer, funds, manifest, config, keyFile, sources, marker, network,
                  carriedOver, crashes, strangers, replaced>>
  BY <1>4 DEF fileVars, ceremonyVars, countVars
<1>6. CodeInv /\ FilesInv /\ ConsoleInv /\ ManifestTrue /\ RoutesWork
  BY DEF IInv
<1>7. uses \in [Uses(p) -> DOMAIN code]
  BY <1>1, <1>4, UsesThere
<1>8. /\ c \in Contracts /\ c.kind = p /\ c.uses = uses /\ c.auditor = NoKey
      /\ c.keys["auditor"] = NoKey /\ c.tokens = <<>> /\ c.depositors = {} /\ c.settings = {}
      /\ c.seeded = NoTokens /\ (p \in Range(Verifiers) => c.setup = sources[p])
  BY <1>2, <1>6, <1>7, NewContractIs
<1>9. /\ n \in Nat /\ Len(code') = n + 1 /\ DOMAIN code = 1 .. n /\ DOMAIN code' = 1 .. n + 1
      /\ (\A a \in DOMAIN code : code'[a] = code[a]) /\ code'[n + 1] = c
      /\ code' \in Seq(Contracts) /\ CodeLater
  BY <1>3, <1>4, <1>6, <1>8, AppendCode
<1>10. DOMAIN code' = DOMAIN code \cup {n + 1} /\ n + 1 \notin DOMAIN code /\ n + 1 # 0
  BY <1>9
<1>11. wrappedTokens' = wrappedTokens
  BY <1>5 DEF wrappedTokens
<1>12. AddressRecorded
  BY <1>4, <1>6, DeployIsRecorded
<1>13. CodeInv'
  <2>1. ASSUME NEW a \in DOMAIN code  PROVE ContractInv(a)'
    <3>1. ContractInv(a) /\ code'[a] = code[a] /\ DOMAIN code \subseteq DOMAIN code'
      BY <1>6, <1>9, <1>10 DEF CodeInv
    <3>2. \A key : KnownKey(key)' = KnownKey(key)
      BY <1>5 DEF KnownKey
    <3>3. QED
      BY <3>1, <3>2, <1>5, <1>11 DEF ContractInv
  <2>2. ContractInv(n + 1)'
    <3>1. PICK d : d = code'[n + 1]
      OBVIOUS
    <3>2. d = c
      BY <3>1, <1>9
    <3>3. d.uses \in [Uses(d.kind) -> DOMAIN code']
      BY <3>2, <1>7, <1>8, <1>10
    <3>4. KnownKey(d.auditor)' /\ KnownKey(d.keys["auditor"])'
      BY <3>2, <1>8 DEF KnownKey
    <3>5. DOMAIN d.tokens = {} /\ Range(d.tokens) = {}
      BY <3>2, <1>8 DEF Range
    <3>6. IsPrefix(d.tokens, wrappedTokens)
      <4>1. <<>> \in Seq(Symbols) /\ wrappedTokens \in Seq(Symbols) /\ Len(<<>>) = 0
        BY TokensAre
      <4>2. Len(<<>>) <= Len(wrappedTokens) /\ \A i \in 1 .. Len(<<>>) : FALSE
        BY <4>1
      <4>3. QED
        BY <4>1, <4>2, <3>2, <1>8, PrefixIs
    <3>7. \A t \in Symbols : d.seeded[t] = 0
      BY <3>2, <1>8 DEF NoTokens
    <3>8. network = "avalanche" /\ d.kind \in Range(Verifiers) => d.setup \in Ceremonies
      <4>1. p \in Range(Verifiers) => <<"deploy", p>> \in StackSteps
        BY Names DEF StackSteps
      <4>2. p \in Range(Verifiers) => OnMainnet
        BY <4>1, <1>4, <1>6, AtStack
      <4>3. QED
        BY <4>2, <3>2, <1>8 DEF OnMainnet
    <3>9. QED
      BY <3>1, <3>3, <3>4, <3>5, <3>6, <3>7, <3>8, <1>5, <1>11 DEF ContractInv
  <2>3. QED
    BY <2>1, <2>2, <1>9, <1>10 DEF CodeInv
<1>14. FilesInv'
  <2>1. funds' \in [Symbols -> Nat] /\ keyFile' \in Keys /\ crashes' \in Nat /\ strangers' \in Nat
    BY <1>5, <1>6 DEF FilesInv
  <2>2. QED
    BY <1>5, <1>6, <1>10, <2>1, FilesSame
<1>15. ManifestTrue' /\ RoutesWork'
  BY <1>5, <1>6, <1>9, <1>13, ManifestOfLater, RoutesOfLater
<1>16. ConsoleInv' /\ console'.address = n + 1
  <2>1. ~MayEnd(<<"deploy", p>>)
    BY DEF MayEnd
  <2>2. /\ Follows(<<"deploy", p>>, Head(Drop(1))) /\ Path(Drop(1)) /\ Drop(1) # <<>>
        /\ Onward(console, 1) = [console EXCEPT !.steps = Drop(1)]
    BY <2>1, <1>4, <1>6, Advance
  <2>3. PICK s : s = Drop(1)
    OBVIOUS
  <2>4. PICK y : y = Head(s)
    OBVIOUS
  <2>5. Path(s) /\ s # <<>> /\ s \in Seq(Steps) /\ Follows(<<"deploy", p>>, y)
    BY <2>2, <2>3, <2>4 DEF Path
  <2>6. /\ console' \in Consoles /\ console'.steps = s /\ console'.address = n + 1
        /\ console'.ids = console.ids /\ console'.expected = console.expected
    <3>1. console' = [[console EXCEPT !.steps = s] EXCEPT !.address = n + 1]
      BY <2>2, <2>3, <1>4
    <3>2. console \in Consoles /\ n + 1 \in Nat
      BY <1>6, <1>9 DEF ConsoleInv
    <3>3. QED
      BY <3>1, <3>2, <2>5 DEF Consoles
  <2>7. Fact(y)'
    <3>1. CASE p \in StackPaths
      <4>1. y = <<"record", p>> /\ y \in StackSteps
        BY <3>1, <2>5, NextOfStack
      <4>2. OnMainnet /\ console.ids = NoTokens
        <5>1. <<"deploy", p>> \in StackSteps
          BY <3>1, DeployIsStep
        <5>2. QED
          BY <5>1, <1>4, <1>6, AtStack
      <4>3. OnMainnet' /\ console'.ids = NoTokens
        BY <4>2, <2>6, <1>5, MainnetSame
      <4>4. ~HasCode(manifest.address[p])'
        <5>1. manifest.address[p] \notin DOMAIN code
          BY <3>1, <1>4 DEF Reusable, HasCode
        <5>2. manifest.address[p] \in {Stale, 0} \cup DOMAIN code
          BY <1>6 DEF FilesInv
        <5>3. n + 1 # Stale
          BY <1>9 DEF Stale
        <5>4. manifest.address[p] \notin DOMAIN code'
          BY <5>1, <5>2, <5>3, <1>10
        <5>5. QED
          BY <5>4, <1>5 DEF HasCode
      <4>5. code' # <<>> /\ console'.address = Len(code') /\ code'[console'.address].kind = p
            /\ code'[console'.address].uses = [q \in Uses(p) |-> manifest'.address[q]]
        BY <1>1, <1>5, <1>8, <1>9, <1>10, <2>6
      <4>6. StackFact("record", p)'
        BY <4>4, <4>5 DEF StackFact
      <4>7. QED
        BY <4>1, <4>3, <4>6, ToStack
    <3>2. CASE p \notin StackPaths
      <4>1. <<"deploy", p>> \in AppSteps /\ p \in AppPaths
        BY <3>2, DeployIsStep
      <4>2. PICK x : x = <<"deploy", p>>
        OBVIOUS
      <4>3. y \in AppSteps /\ FollowsApp(x, y) /\ x[1] = "deploy" /\ x[2] = p
        BY <4>1, <4>2, <2>5, NextOfApp
      <4>4. y[2] = p /\ y[1] \in {"record", "verify", "allow", "authorize"}
            /\ (p = "router" => y[1] = "allow") /\ (p = "privateGiftEscrow" => y[1] = "authorize")
        BY <4>3 DEF FollowsApp
      <4>5. network' # "benzonet"
        BY <4>1, <1>4, <1>5, <1>6, AtApp
      <4>6. AddressRecorded'
        BY <2>6, <1>8, <1>9, <3>2 DEF AddressRecorded, Recorded
      <4>7. code' # <<>> /\ console'.address = Len(code') /\ code'[console'.address].kind = p
        BY <1>8, <1>9, <1>10, <2>6
      <4>8. AppFact(y[1], p)'
        BY <4>4, <4>7 DEF AppFact, SettingsAt, AllSettings
      <4>9. QED
        BY <4>3, <4>4, <4>5, <4>6, <4>8, ToApp
    <3>3. QED
      BY <3>1, <3>2
  <2>8. QED
    BY <2>4, <2>5, <2>6, <2>7, <1>5, GoesOn
<1>17. (Lost \ replaced)' \subseteq Lost \ replaced
  BY <1>5, <1>9, <1>10, <1>12, <1>16, LostKept
<1>18. (Cardinality(Lost \ replaced) <= crashes)'
  BY <1>5, <1>6, <1>13, <1>17, LostCount DEF IInv
<1>19. QED
  BY <1>13, <1>14, <1>15, <1>16, <1>18 DEF IInv

-----------------------------------------------------------------------------
(* Recording, verifying, forgetting.                                       *)

LEMMA UsesOfStack ==
    ASSUME NEW p \in StackPaths
    PROVE  Uses(p) \subseteq StackPaths /\ p \notin Uses(p)
<1>1. CASE p = "registrar"  BY <1>1, UsesOf, Names
<1>2. CASE p = "encryptedERC"  BY <1>2, UsesOf, Names
<1>3. CASE p \notin {"registrar", "encryptedERC"}
  <2>1. p \notin {"router", "privateGiftEscrow"}
    BY Names DEF AppPaths
  <2>2. QED
    BY <1>3, <2>1, UsesOf
<1>4. QED  BY <1>1, <1>2, <1>3

(* Code, network and deposits are as they were: so are the numbers.        *)
LEMMA TokenIdSame ==
    ASSUME code' = code, NEW c, NEW t
    PROVE  TokenIdOf(c, t)' = TokenIdOf(c, t)
BY DEF TokenIdOf

LEMMA RoutesSame ==
    ASSUME RoutesWork, code' = code, config' = config, manifest'.address = manifest.address
    PROVE  RoutesWork'
BY DEF RoutesWork, Routes

LEMMA FilesWritten ==
    ASSUME FilesInv, code' = code,
           UNCHANGED <<network, carriedOver, sources, marker, config, keyFile, funds, crashes, strangers>>,
           explorer' \subseteq DOMAIN code,
           manifest' \in [address : [Paths -> {Stale, 0} \cup DOMAIN code], verified : SUBSET Paths,
                          auditor : Keys, tokens : [Symbols -> 0 .. Cardinality(Symbols)]],
           \A p \in Paths : manifest'.address[p] = Stale => carriedOver /\ p \in StackPaths
    PROVE  FilesInv'
BY DEF FilesInv

LEMMA RecordKeeps ==
    ASSUME IInv, NEW p \in Paths, Record(p)
    PROVE  IInv'
<1>1. PICK a : a = console.address
  OBVIOUS
<1>2. /\ Doing("record", p) /\ Proceed
      /\ UNCHANGED <<chainVars, ceremonyVars, config, keyFile, countVars>>
  BY DEF Record
<1>3. UNCHANGED <<code, explorer, funds, config, keyFile, sources, marker, network,
                  carriedOver, crashes, strangers, replaced>>
  BY <1>2 DEF chainVars, ceremonyVars, countVars
<1>4. CodeInv /\ FilesInv /\ ConsoleInv /\ ManifestTrue /\ RoutesWork
  BY DEF IInv
<1>5. /\ manifest \in [address : [Paths -> {Stale, 0} \cup DOMAIN code], verified : SUBSET Paths,
                       auditor : Keys, tokens : [Symbols -> 0 .. Cardinality(Symbols)]]
      /\ \A q \in Paths : manifest.address[q] = Stale => carriedOver /\ q \in StackPaths
  BY <1>4 DEF FilesInv
<1>6. p \in StackPaths => OnMainnet /\ console.ids = NoTokens /\ StackFact("record", p)
  BY <1>2, <1>4, DeployIsStep, AtStack
<1>7. p \notin StackPaths =>
          /\ <<"record", p>> \in AppSteps /\ p \in AppPaths
          /\ AddressRecorded /\ network # "benzonet" /\ AppFact("record", p)
  <2>1. p \notin StackPaths => <<"record", p>> \in AppSteps /\ p \in AppPaths
    BY DeployIsStep
  <2>2. QED
    BY <2>1, <1>2, <1>4, AtApp
<1>8. a = Len(code) /\ code # <<>> /\ code[a].kind = p
  BY <1>1, <1>6, <1>7 DEF StackFact, AppFact
<1>9. a \in DOMAIN code /\ a \in Nat \ {0} /\ DOMAIN code = 1 .. a
  <2>1. PICK s : s = code
    OBVIOUS
  <2>2. s \in Seq(Contracts) /\ s # <<>> /\ a = Len(s)
    BY <2>1, <1>4, <1>8 DEF CodeInv
  <2>3. Len(s) \in Nat \ {0} /\ DOMAIN s = 1 .. Len(s)
    BY <2>2
  <2>4. QED
    BY <2>1, <2>2, <2>3
<1>10. CodeInv' /\ CodeLater
  BY <1>3, <1>4, CodeSame, CodeUnchanged
<1>11. p \in StackPaths =>
          /\ code[a].uses = [q \in Uses(p) |-> manifest.address[q]]
          /\ manifest.address[p] \notin DOMAIN code
  BY <1>1, <1>6 DEF StackFact, HasCode
<1>12. p \in {"router", "privateGiftEscrow"} =>
          /\ p = "router" => code[a].settings = AllSettings
          /\ a \in code[code[a].uses["encryptedERC"]].depositors
  <2>1. p \in {"router", "privateGiftEscrow"} => p \notin StackPaths
    BY Names DEF AppPaths
  <2>2. QED
    BY <2>1, <1>1, <1>7 DEF AppFact, AllSettings
<1>13. CASE p = "invoiceRegistry"
  <2>1. manifest' = manifest
    BY <1>13 DEF Record
  <2>2. p \notin StackPaths
    BY <1>13, Names DEF AppPaths
  <2>3. ASSUME NEW y \in Steps, Follows(<<"record", p>>, y)  PROVE Fact(y)'
    <3>1. PICK x : x = <<"record", p>>
      OBVIOUS
    <3>2. FollowsApp(x, y) /\ x[1] = "record" /\ x[2] = "invoiceRegistry"
      BY <2>2, <2>3, <3>1, <1>7, <1>13, NextOfApp
    <3>3. QED
      BY <3>2 DEF FollowsApp
  <2>4. ConsoleInv'
    BY <2>3, <1>2, <1>3, <1>4, Proceeds
  <2>5. UNCHANGED <<chainVars, fileVars>>
    BY <2>1, <1>3 DEF chainVars, fileVars, ceremonyVars
  <2>6. QED
    BY <2>2, <2>4, <2>5, <1>3, <1>7, ConsoleOnly
<1>14. CASE p # "invoiceRegistry"
  <2> DEFINE A == [manifest.address EXCEPT ![p] = a]
  <2> DEFINE V == IF a \in explorer THEN manifest.verified \cup {p} ELSE manifest.verified \ {p}
  <2>1. manifest' = [manifest EXCEPT !.address[p] = a, !.verified = V]
    BY <1>1, <1>14 DEF Record
  <2>2. /\ manifest'.address = A /\ manifest'.verified = V
        /\ manifest'.auditor = manifest.auditor /\ manifest'.tokens = manifest.tokens
        /\ manifest' \in [address : [Paths -> {Stale, 0} \cup DOMAIN code], verified : SUBSET Paths,
                          auditor : Keys, tokens : [Symbols -> 0 .. Cardinality(Symbols)]]
    BY <2>1, <1>5, <1>9
  <2>3. A[p] = a /\ \A q \in Paths : q # p => A[q] = manifest.address[q]
    BY <1>5
  <2> HIDE DEF A
  <2>4. a # Stale
    BY <1>9 DEF Stale
  <2>5. FilesInv'
    <3>1. \A q \in Paths : manifest'.address[q] = Stale => carriedOver /\ q \in StackPaths
      BY <2>2, <2>3, <2>4, <1>5
    <3>2. explorer' \subseteq DOMAIN code
      BY <1>3, <1>4 DEF FilesInv
    <3>3. QED
      BY <2>2, <3>1, <3>2, <1>3, <1>4, FilesWritten
  <2>6. ASSUME NEW q \in Paths, A[q] \in DOMAIN code
        PROVE  /\ code[A[q]].kind = q
               /\ q \in StackPaths => \A r \in Uses(q) : code[A[q]].uses[r] = A[r]
    <3>1. CASE q = p
      <4>1. p \in StackPaths => \A r \in Uses(p) : r \in Paths /\ r # p
        BY UsesOfStack DEF Paths
      <4>2. QED
        BY <3>1, <4>1, <2>3, <1>8, <1>11
    <3>2. CASE q # p
      <4>1. A[q] = manifest.address[q] /\ code[A[q]].kind = q
        BY <3>2, <2>3, <2>6, <1>4 DEF ManifestTrue, HasCode
      <4>2. ASSUME q \in StackPaths, NEW r \in Uses(q)  PROVE code[A[q]].uses[r] = A[r]
        <5>1. code[A[q]].uses[r] = manifest.address[r]
          BY <4>1, <4>2, <2>6, <1>4 DEF ManifestTrue, HasCode
        <5>2. code[A[q]].uses \in [Uses(q) -> DOMAIN code]
          BY <4>1, <2>6, <1>4 DEF CodeInv, ContractInv
        <5>3. manifest.address[r] \in DOMAIN code
          BY <5>1, <5>2
        <5>4. r \in StackPaths /\ r \in Paths
          BY <4>2, UsesOfStack DEF Paths
        <5>5. r # p
          BY <5>3, <5>4, <1>11
        <5>6. QED
          BY <5>1, <5>4, <5>5, <2>3
      <4>3. QED
        BY <4>1, <4>2
    <3>3. QED
      BY <3>1, <3>2
  <2>7. ASSUME NEW q \in V  PROVE A[q] \in explorer
    <3>1. q \in Paths
      BY <1>5
    <3>2. CASE q = p
      BY <3>2, <2>3
    <3>3. CASE q # p
      BY <3>1, <3>3, <2>3, <1>4 DEF ManifestTrue
    <3>4. QED
      BY <3>2, <3>3
  <2>8. ASSUME network = "avalanche", NEW c \in Range(Verifiers), A[c] \in DOMAIN code
        PROVE  code[A[c]].setup \in Ceremonies
    <3>1. c \in Paths
      BY Names DEF Paths
    <3>2. code[A[c]].kind = c
      BY <3>1, <2>6, <2>8
    <3>3. QED
      BY <3>2, <2>8, <1>4 DEF CodeInv, ContractInv
  <2>9. "encryptedERC" \in Paths /\ "encryptedERC" \in StackPaths
    BY Names DEF Paths
  <2>10. A["encryptedERC"] = manifest.address["encryptedERC"]
         \/ (manifest.address["encryptedERC"] \notin DOMAIN code /\ p = "encryptedERC")
    BY <2>3, <2>9, <1>11
  <2>11. ManifestTrue'
    <3>1. ~carriedOver /\ manifest.auditor # NoKey =>
             A["encryptedERC"] \in DOMAIN code /\ manifest.auditor = code[A["encryptedERC"]].auditor
      BY <2>10, <1>4 DEF ManifestTrue, HasCode, Converter
    <3>2. ASSUME NEW t \in Symbols, ~carriedOver, manifest.tokens[t] # 0
          PROVE  /\ A["encryptedERC"] \in DOMAIN code
                 /\ manifest.tokens[t] = TokenIdOf(A["encryptedERC"], t)
                 /\ strangers = 0 => wrappedTokens[manifest.tokens[t]] = t
      <4>1. /\ manifest.address["encryptedERC"] \in DOMAIN code
            /\ manifest.tokens[t] = TokenIdOf(manifest.address["encryptedERC"], t)
            /\ strangers = 0 => wrappedTokens[manifest.tokens[t]] = t
        BY <3>2, <1>4 DEF ManifestTrue, HasCode, Converter
      <4>2. A["encryptedERC"] = manifest.address["encryptedERC"]
        BY <4>1, <2>10
      <4>3. QED
        BY <4>1, <4>2
    <3>3. Converter' = A["encryptedERC"] /\ wrappedTokens' = wrappedTokens
      BY <2>2, <1>3 DEF Converter, wrappedTokens
    <3>4. \A t : TokenIdOf(Converter, t)' = TokenIdOf(A["encryptedERC"], t)
      BY <3>3, <1>3 DEF TokenIdOf
    <3>5. \A x : HasCode(x)' <=> x \in DOMAIN code
      BY <1>3 DEF HasCode
    <3>6. QED
      BY <2>2, <2>6, <2>7, <2>8, <3>1, <3>2, <3>3, <3>4, <1>3 DEF ManifestTrue, HasCode
  <2>12. RoutesWork'
    <3> SUFFICES ASSUME NEW r \in {"router", "privateGiftEscrow"}
                 PROVE  /\ \A b \in {config[r], A[r]} \ {0} :
                              /\ code[b].kind = r
                              /\ b \in code[code[b].uses["encryptedERC"]].depositors
                              /\ r = "router" => code[b].settings = {"allow", "map", "relayer"}
                        /\ config[r] <= A[r]
      BY <2>2, <1>3 DEF RoutesWork, Routes
    <3>1. /\ \A b \in {config[r], manifest.address[r]} \ {0} :
                              /\ code[b].kind = r
                              /\ b \in code[code[b].uses["encryptedERC"]].depositors
                              /\ r = "router" => code[b].settings = {"allow", "map", "relayer"}
          /\ config[r] <= manifest.address[r]
      BY <1>4 DEF RoutesWork, Routes
    <3>2. CASE r # p
      <4>1. A[r] = manifest.address[r]
        BY <3>2, <2>3 DEF Paths, AppPaths
      <4>2. QED
        BY <3>1, <4>1
    <3>3. CASE r = p
      <4>1. A[r] = a
        BY <3>3, <2>3
      <4>2. config[r] <= a
        <5>1. config[r] \in {0} \cup DOMAIN code
          BY <1>4 DEF FilesInv
        <5>2. QED
          BY <5>1, <1>9
      <4>3. /\ code[a].kind = r
            /\ a \in code[code[a].uses["encryptedERC"]].depositors
            /\ r = "router" => code[a].settings = {"allow", "map", "relayer"}
        BY <3>3, <1>8, <1>12 DEF AllSettings
      <4>4. QED
        BY <3>1, <4>1, <4>2, <4>3
    <3>4. QED
      BY <3>2, <3>3
  <2>13. ASSUME NEW y \in Steps, Follows(<<"record", p>>, y),
                console'.address = console.address, console'.ids = console.ids,
                console'.expected = console.expected
         PROVE  Fact(y)'
    <3>1. AddressRecorded'
      BY <2>2, <2>3, <2>13, <1>1, <1>3, <1>8 DEF AddressRecorded, Recorded
    <3>2. CASE p \in StackPaths
      <4>1. y = <<"verify", p>> /\ y \in StackSteps
        BY <3>2, <2>13, NextOfStack
      <4>2. OnMainnet' /\ console'.ids = NoTokens
        BY <3>2, <2>13, <1>3, <1>6, MainnetSame
      <4>3. StackFact("verify", p)'
        BY <2>2, <2>3, <1>3, <1>9 DEF StackFact, HasCode
      <4>4. QED
        BY <4>1, <4>2, <4>3, <3>1, ToStack
    <3>3. CASE p \notin StackPaths
      <4>1. PICK x : x = <<"record", p>>
        OBVIOUS
      <4>2. y \in AppSteps /\ FollowsApp(x, y) /\ x[1] = "record" /\ x[2] = p
        BY <3>3, <4>1, <2>13, <1>7, NextOfApp
      <4>3. y[2] = p /\ y[1] \in {"verify", "config"}
            /\ (y[1] = "config" => p \in {"router", "privateGiftEscrow"})
            /\ (p \in {"router", "privateGiftEscrow"} => y[1] = "config")
        BY <4>2 DEF FollowsApp
      <4>4. network' # "benzonet"
        BY <3>3, <1>3, <1>7
      <4>5. AppFact(y[1], p)'
        BY <4>3, <2>2, <2>3, <2>13, <1>1, <1>3, <1>8, <1>12 DEF AppFact, AllSettings
      <4>6. QED
        BY <4>2, <4>3, <4>4, <4>5, <3>1, ToApp
    <3>4. QED
      BY <3>2, <3>3
  <2>14. ConsoleInv'
    BY <2>13, <1>2, <1>3, <1>4, Proceeds
  <2>15. (Lost \ replaced)' \subseteq Lost \ replaced
    <3> SUFFICES ASSUME NEW b \in Lost', b \notin replaced'
                 PROVE  b \in Lost /\ b \notin replaced
      OBVIOUS
    <3>1. /\ b \in DOMAIN code /\ code[b].kind \in StackPaths /\ code[b].kind \in Paths
          /\ A[code[b].kind] # b /\ b # console'.address
      BY <2>2, <1>3 DEF Lost, Paths
    <3>2. b # a
      BY <3>1, <2>3, <1>8
    <3>3. manifest.address[code[b].kind] # b
      BY <3>1, <2>3, <1>11
    <3>4. QED
      BY <3>1, <3>2, <3>3, <1>1, <1>3 DEF Lost
  <2>16. (Cardinality(Lost \ replaced) <= crashes)'
    BY <2>15, <1>3, <1>4, <1>10, LostCount DEF IInv
  <2>17. QED
    BY <2>5, <2>11, <2>12, <2>14, <2>16, <1>10 DEF IInv
<1>15. QED
  BY <1>13, <1>14

(* What a script writes of the contracts that stay where they are.         *)
LEMMA ManifestWritten ==
    ASSUME ManifestTrue, code' = code, UNCHANGED <<network, carriedOver, strangers>>,
           manifest'.address = manifest.address,
           \A p \in manifest'.verified : manifest.address[p] \in explorer',
           \/ manifest'.auditor = manifest.auditor
           \/ HasCode(Converter) /\ manifest'.auditor = code[Converter].auditor,
           \/ manifest'.tokens = manifest.tokens
           \/ \A t \in Symbols : manifest'.tokens[t] # 0 =>
                 /\ HasCode(Converter) /\ manifest'.tokens[t] = TokenIdOf(Converter, t)
                 /\ strangers = 0 => wrappedTokens[manifest'.tokens[t]] = t
    PROVE  ManifestTrue'
<1>1. Converter' = Converter /\ wrappedTokens' = wrappedTokens
  BY DEF Converter, wrappedTokens
<1>2. \A t : TokenIdOf(Converter, t)' = TokenIdOf(Converter, t)
  BY <1>1 DEF TokenIdOf
<1>3. \A x : HasCode(x)' = HasCode(x)
  BY DEF HasCode
<1>4. (\A p \in Paths : HasCode(manifest.address[p]) =>
          /\ code[manifest.address[p]].kind = p
          /\ p \in StackPaths =>
                \A q \in Uses(p) : code[manifest.address[p]].uses[q] = manifest.address[q])'
  BY <1>3 DEF ManifestTrue
<1>5. (network = "avalanche" =>
          \A c \in Range(Verifiers) :
              HasCode(manifest.address[c]) => code[manifest.address[c]].setup \in Ceremonies)'
  BY <1>3 DEF ManifestTrue
<1>6. (~carriedOver /\ manifest.auditor # NoKey =>
          HasCode(Converter) /\ manifest.auditor = code[Converter].auditor)'
  BY <1>1, <1>3 DEF ManifestTrue
<1>7. (\A t \in Symbols : ~carriedOver /\ manifest.tokens[t] # 0 =>
          /\ HasCode(Converter) /\ manifest.tokens[t] = TokenIdOf(Converter, t)
          /\ strangers = 0 => wrappedTokens[manifest.tokens[t]] = t)'
  BY <1>1, <1>2, <1>3 DEF ManifestTrue
<1>8. (\A p \in manifest.verified : manifest.address[p] \in explorer)'
  OBVIOUS
<1>9. QED
  BY <1>4, <1>5, <1>6, <1>7, <1>8 DEF ManifestTrue

LEMMA VerifyKeeps ==
    ASSUME IInv, NEW p \in Paths, Verify(p)
    PROVE  IInv'
<1>1. PICK a : a = IF p \in StackPaths THEN manifest.address[p] ELSE console.address
  OBVIOUS
<1>2. PICK done \in BOOLEAN :
          /\ explorer' = IF done THEN explorer \cup {a} ELSE explorer
          /\ manifest' = IF done /\ p \in StackPaths
                         THEN [manifest EXCEPT !.verified = @ \cup {p}] ELSE manifest
  <2>1. VerificationOutcomes(p) \subseteq BOOLEAN
    BY DEF VerificationOutcomes
  <2>2. QED
    BY <1>1, <2>1, Zenon DEF Verify
<1>3. Doing("verify", p) /\ Proceed /\ UNCHANGED <<code, funds, ceremonyVars, config, keyFile, countVars>>
  BY DEF Verify
<1>4. UNCHANGED <<code, funds, config, keyFile, sources, marker, network,
                  carriedOver, crashes, strangers, replaced>>
  BY <1>3 DEF ceremonyVars, countVars
<1>5. CodeInv /\ FilesInv /\ ConsoleInv /\ ManifestTrue /\ RoutesWork
  BY DEF IInv
<1>6. p \in StackPaths => /\ OnMainnet /\ console.ids = NoTokens /\ StackFact("verify", p)
                          /\ AddressRecorded
  <2>1. p \in StackPaths => <<"verify", p>> \in StackSteps
    BY DeployIsStep
  <2>2. AddressRecorded
    BY <1>3, <1>5, DeployIsRecorded
  <2>3. QED
    BY <2>1, <2>2, <1>3, <1>5, AtStack
<1>7. p \notin StackPaths =>
          /\ <<"verify", p>> \in AppSteps /\ p \in AppPaths
          /\ AddressRecorded /\ network # "benzonet" /\ AppFact("verify", p)
  <2>1. p \notin StackPaths => <<"verify", p>> \in AppSteps /\ p \in AppPaths
    BY DeployIsStep
  <2>2. QED
    BY <2>1, <1>3, <1>5, AtApp
<1>8. a \in DOMAIN code
  <2>1. CASE p \in StackPaths
    BY <2>1, <1>1, <1>6 DEF StackFact, HasCode
  <2>2. CASE p \notin StackPaths
    <3>1. PICK s : s = code
      OBVIOUS
    <3>2. s \in Seq(Contracts) /\ s # <<>> /\ a = Len(s)
      BY <2>2, <3>1, <1>1, <1>5, <1>7 DEF CodeInv, AppFact
    <3>3. a \in DOMAIN s
      BY <3>2
    <3>4. QED
      BY <3>1, <3>3
  <2>3. QED
    BY <2>1, <2>2
<1>9. /\ manifest \in [address : [Paths -> {Stale, 0} \cup DOMAIN code], verified : SUBSET Paths,
                       auditor : Keys, tokens : [Symbols -> 0 .. Cardinality(Symbols)]]
      /\ \A q \in Paths : manifest.address[q] = Stale => carriedOver /\ q \in StackPaths
      /\ explorer \subseteq DOMAIN code
  BY <1>5 DEF FilesInv
<1>10. /\ manifest'.address = manifest.address
       /\ manifest'.auditor = manifest.auditor /\ manifest'.tokens = manifest.tokens
       /\ manifest' \in [address : [Paths -> {Stale, 0} \cup DOMAIN code], verified : SUBSET Paths,
                         auditor : Keys, tokens : [Symbols -> 0 .. Cardinality(Symbols)]]
       /\ manifest'.verified \subseteq manifest.verified \cup {p}
       /\ manifest'.verified # manifest.verified => p \in StackPaths /\ a \in explorer'
  <2>1. CASE done /\ p \in StackPaths
    <3>1. manifest' = [manifest EXCEPT !.verified = manifest.verified \cup {p}]
      BY <2>1, <1>2
    <3>2. a \in explorer'
      BY <2>1, <1>2
    <3>3. QED
      BY <2>1, <3>1, <3>2, <1>9
  <2>2. CASE ~(done /\ p \in StackPaths)
    <3>1. manifest' = manifest
      BY <2>2, <1>2
    <3>2. QED
      BY <3>1, <1>9
  <2>3. QED
    BY <2>1, <2>2
<1>11. explorer \subseteq explorer' /\ explorer' \subseteq DOMAIN code
  BY <1>2, <1>8, <1>9
<1>12. CodeInv' /\ CodeLater
  BY <1>4, <1>5, CodeSame, CodeUnchanged
<1>13. FilesInv'
  <2>1. \A q \in Paths : manifest'.address[q] = Stale => carriedOver /\ q \in StackPaths
    BY <1>9, <1>10
  <2>2. QED
    BY <2>1, <1>4, <1>5, <1>10, <1>11, FilesWritten
<1>14. ManifestTrue'
  <2>1. \A q \in manifest'.verified : manifest.address[q] \in explorer'
    <3> TAKE q \in manifest'.verified
    <3>1. CASE q \in manifest.verified
      BY <3>1, <1>5, <1>11 DEF ManifestTrue
    <3>2. CASE q \notin manifest.verified
      BY <3>2, <1>1, <1>10
    <3>3. QED
      BY <3>1, <3>2
  <2>2. QED
    BY <2>1, <1>4, <1>5, <1>10, ManifestWritten
<1>15. RoutesWork'
  BY <1>4, <1>5, <1>10, RoutesSame
<1>16. ASSUME NEW y \in Steps, Follows(<<"verify", p>>, y),
              console'.address = console.address, console'.ids = console.ids,
              console'.expected = console.expected
       PROVE  Fact(y)'
  <2>1. AddressRecorded'
    BY <1>4, <1>6, <1>7, <1>10, <1>16, AddressSame
  <2>2. CASE p \in StackPaths
    <3>1. y \in PartHeads \/ y = <<"deploy", "encryptedERC">>
      BY <2>2, <1>16, NextOfStack
    <3>2. OnMainnet' /\ console'.ids = NoTokens
      BY <2>2, <1>4, <1>6, <1>16, MainnetSame
    <3>3. CASE y \in PartHeads
      BY <3>2, <3>3, <2>1, ToHead
    <3>4. CASE y \notin PartHeads
      <4>1. p = "babyJubJub"
        <5>1. PICK x : x = <<"verify", p>>
          OBVIOUS
        <5>2. x \in StackSteps /\ Follows(x, y) /\ x[1] = "verify" /\ x[2] = p
          BY <5>1, <2>2, <1>16 DEF StackSteps
        <5>3. FollowsStack(x, y)
          BY <5>2, StackKind DEF Follows, StackSteps, CeremonySteps
        <5>4. QED
          BY <3>4, <5>2, <5>3, <5>1 DEF FollowsStack
      <4>2. y \in StackSteps /\ y[1] = "deploy" /\ y[2] = "encryptedERC"
        BY <3>1, <3>4, Names DEF StackSteps
      <4>3. HasCode(manifest.address["babyJubJub"])'
        BY <2>2, <4>1, <1>4, <1>6, <1>10 DEF StackFact, HasCode
      <4>4. StackFact("deploy", "encryptedERC")'
        BY <4>3 DEF StackFact
      <4>5. QED
        BY <4>2, <4>4, <3>2, <2>1, ToStack
    <3>5. QED
      BY <3>3, <3>4
  <2>3. CASE p \notin StackPaths
    <3>1. PICK x : x = <<"verify", p>>
      OBVIOUS
    <3>2. y \in AppSteps /\ FollowsApp(x, y) /\ x[1] = "verify" /\ x[2] = p
      BY <2>3, <3>1, <1>7, <1>16, NextOfApp
    <3>3. y[2] = p /\ y[1] = "record"
      BY <3>2 DEF FollowsApp
    <3>4. network' # "benzonet"
      BY <2>3, <1>4, <1>7
    <3>5. AppFact("record", p)'
      BY <2>3, <1>4, <1>7, <1>16 DEF AppFact, AllSettings
    <3>6. QED
      BY <3>2, <3>3, <3>4, <3>5, <2>1, ToApp
  <2>4. QED
    BY <2>2, <2>3
<1>17. ConsoleInv'
  BY <1>16, <1>3, <1>4, <1>5, Proceeds
<1>18. (Lost \ replaced)' \subseteq Lost \ replaced
  BY <1>4, <1>6, <1>7, <1>10, <1>12, LostKept
<1>19. (Cardinality(Lost \ replaced) <= crashes)'
  BY <1>18, <1>4, <1>5, <1>12, LostCount DEF IInv
<1>20. QED
  BY <1>12, <1>13, <1>14, <1>15, <1>17, <1>19 DEF IInv

LEMMA ClearKeeps ==
    ASSUME IInv, Clear
    PROVE  IInv'
<1>1. /\ Doing("clear", "manifest") /\ Proceed
      /\ manifest' = [ClearStaleKeys EXCEPT !.verified = @ \ {"encryptedERC"}]
      /\ replaced' = replaced \cup ({manifest.address["encryptedERC"]} \cap DOMAIN code)
      /\ UNCHANGED <<chainVars, ceremonyVars, config, keyFile, network, carriedOver, crashes, strangers>>
  BY DEF Clear
<1>2. UNCHANGED <<code, explorer, funds, config, keyFile, sources, marker, network,
                  carriedOver, crashes, strangers>>
  BY <1>1 DEF chainVars, ceremonyVars
<1>3. CodeInv /\ FilesInv /\ ConsoleInv /\ ManifestTrue /\ RoutesWork
  BY DEF IInv
<1>4. /\ manifest \in [address : [Paths -> {Stale, 0} \cup DOMAIN code], verified : SUBSET Paths,
                       auditor : Keys, tokens : [Symbols -> 0 .. Cardinality(Symbols)]]
      /\ \A q \in Paths : manifest.address[q] = Stale => carriedOver /\ q \in StackPaths
  BY <1>3 DEF FilesInv
<1>5. AddressRecorded /\ OnMainnet /\ console.ids = NoTokens /\ console.address = 0
  BY <1>1, <1>3, AtClear
<1> DEFINE A == [manifest.address EXCEPT !["encryptedERC"] = 0]
<1>6. "encryptedERC" \in Paths /\ NoKey \in Keys /\ NoTokens \in [Symbols -> 0 .. Cardinality(Symbols)]
  BY Names, SymbolCount DEF Paths, Keys, NoTokens
<1>7. /\ manifest'.address = A /\ manifest'.verified = manifest.verified \ {"encryptedERC"}
      /\ manifest'.auditor = NoKey /\ manifest'.tokens = NoTokens
      /\ manifest' \in [address : [Paths -> {Stale, 0} \cup DOMAIN code], verified : SUBSET Paths,
                        auditor : Keys, tokens : [Symbols -> 0 .. Cardinality(Symbols)]]
  <2>1. manifest' = [[manifest EXCEPT !.address = A, !.auditor = NoKey, !.tokens = NoTokens]
                         EXCEPT !.verified = manifest.verified \ {"encryptedERC"}]
    BY <1>1, <1>4 DEF ClearStaleKeys
  <2>2. A \in [Paths -> {Stale, 0} \cup DOMAIN code]
    BY <1>4
  <2> HIDE DEF A
  <2>3. QED
    BY <2>1, <2>2, <1>4, <1>6
<1>8. A["encryptedERC"] = 0 /\ \A q \in Paths : q # "encryptedERC" => A[q] = manifest.address[q]
  BY <1>4, <1>6
<1> HIDE DEF A
<1>9. 0 # Stale /\ 0 \notin DOMAIN code
  BY <1>3, ContractIs DEF Stale
<1>10. CodeInv' /\ CodeLater
  BY <1>2, <1>3, CodeSame, CodeUnchanged
<1>11. FilesInv'
  <2>1. \A q \in Paths : manifest'.address[q] = Stale => carriedOver /\ q \in StackPaths
    BY <1>4, <1>7, <1>8, <1>9
  <2>2. explorer' \subseteq DOMAIN code
    BY <1>2, <1>3 DEF FilesInv
  <2>3. QED
    BY <2>1, <2>2, <1>2, <1>3, <1>7, FilesWritten
<1>12. ManifestTrue'
  <2>1. ASSUME NEW q \in Paths, A[q] \in DOMAIN code
        PROVE  /\ A[q] = manifest.address[q] /\ code[A[q]].kind = q
               /\ q \in StackPaths => \A r \in Uses(q) : code[A[q]].uses[r] = A[r]
    <3>1. q # "encryptedERC" /\ A[q] = manifest.address[q]
      BY <2>1, <1>8, <1>9
    <3>2. \A r \in Uses(q) : q \in StackPaths => r # "encryptedERC" /\ r \in Paths
      <4>1. CASE q = "registrar"
        BY <4>1, UsesOf, Names DEF Paths
      <4>2. CASE q \in {"router", "privateGiftEscrow"}
        BY <4>2, Names DEF AppPaths
      <4>3. CASE q \notin {"registrar", "router", "privateGiftEscrow"}
        BY <4>3, <3>1, UsesOf
      <4>4. QED
        BY <4>1, <4>2, <4>3
    <3>3. QED
      BY <3>1, <3>2, <2>1, <1>3, <1>8 DEF ManifestTrue, HasCode
  <2>2. \A q \in manifest'.verified : A[q] \in explorer
    BY <1>3, <1>4, <1>7, <1>8 DEF ManifestTrue
  <2>3. network = "avalanche" => \A c \in Range(Verifiers) :
            A[c] \in DOMAIN code => code[A[c]].setup \in Ceremonies
    BY <2>1, <1>3, Names DEF ManifestTrue, HasCode, Paths
  <2>4. \A t \in Symbols : NoTokens[t] = 0
    BY DEF NoTokens
  <2>5. \A x : HasCode(x)' <=> x \in DOMAIN code
    BY <1>2 DEF HasCode
  <2>6. QED
    BY <2>1, <2>2, <2>3, <2>4, <2>5, <1>2, <1>7 DEF ManifestTrue
<1>13. RoutesWork'
  <2>1. \A r \in {"router", "privateGiftEscrow"} : A[r] = manifest.address[r]
    BY <1>8 DEF Paths, AppPaths
  <2>2. QED
    BY <2>1, <1>2, <1>3, <1>7 DEF RoutesWork, Routes
<1>14. ASSUME NEW y \in Steps, Follows(<<"clear", "manifest">>, y),
              console'.address = console.address, console'.ids = console.ids,
              console'.expected = console.expected
       PROVE  Fact(y)'
  <2>1. y \in PartHeads
    BY <1>14, NextOfClear DEF ClearStep
  <2>2. AddressRecorded'
    BY <1>2, <1>5, <1>9, <1>14 DEF AddressRecorded
  <2>3. OnMainnet'
    BY <1>2, <1>5, <1>14, MainnetSame
  <2>4. QED
    BY <2>1, <2>2, <2>3, <1>5, <1>14, ToHead
<1>15. ConsoleInv'
  BY <1>14, <1>1, <1>2, <1>3, Proceeds
<1>16. (Lost \ replaced)' \subseteq Lost \ replaced
  <2> SUFFICES ASSUME NEW b \in Lost', b \notin replaced'
               PROVE  b \in Lost /\ b \notin replaced
    OBVIOUS
  <2>1. /\ b \in DOMAIN code /\ code[b].kind \in StackPaths /\ code[b].kind \in Paths
        /\ A[code[b].kind] # b
    BY <1>2, <1>7 DEF Lost, Paths
  <2>2. b # console.address /\ b \notin replaced /\ b # manifest.address["encryptedERC"]
    BY <2>1, <1>1, <1>5, <1>9
  <2>3. QED
    BY <2>1, <2>2, <1>8 DEF Lost
<1>17. (Cardinality(Lost \ replaced) <= crashes)'
  BY <1>16, <1>2, <1>3, <1>10, LostCount DEF IInv
<1>18. QED
  BY <1>10, <1>11, <1>12, <1>13, <1>15, <1>17 DEF IInv

-----------------------------------------------------------------------------
(* One contract changes, or the files do.                                  *)

LEMMA ChangeOne ==
    ASSUME CodeInv, NEW a \in DOMAIN code, NEW c, code' = [code EXCEPT ![a] = c]
    PROVE  /\ DOMAIN code' = DOMAIN code /\ Len(code') = Len(code) /\ code'[a] = c
           /\ \A b \in DOMAIN code : b # a => code'[b] = code[b]
           /\ c \in Contracts => code' \in Seq(Contracts)
           /\ Later(code[a], c) => CodeLater
<1>1. PICK s, d : s = code /\ d = code'
  OBVIOUS
<1>2. s \in Seq(Contracts) /\ d = [s EXCEPT ![a] = c] /\ a \in DOMAIN s
  BY <1>1 DEF CodeInv
<1>3. /\ DOMAIN d = DOMAIN s /\ Len(d) = Len(s) /\ d[a] = c
      /\ \A b \in DOMAIN s : b # a => d[b] = s[b]
      /\ c \in Contracts => d \in Seq(Contracts)
  BY <1>2
<1>4. Later(s[a], c) => \A b \in DOMAIN s : b \in DOMAIN d /\ Later(s[b], d[b])
  <2> SUFFICES ASSUME Later(s[a], c), NEW b \in DOMAIN s  PROVE b \in DOMAIN d /\ Later(s[b], d[b])
    OBVIOUS
  <2>1. CASE b = a  BY <2>1, <1>3
  <2>2. CASE b # a  BY <2>2, <1>3, LaterIsSame
  <2>3. QED  BY <2>1, <2>2
<1>5. QED
  BY <1>1, <1>3, <1>4 DEF CodeLater

LEMMA ChangeKeepsCode ==
    ASSUME CodeInv, NEW a \in DOMAIN code, NEW c \in Contracts, code' = [code EXCEPT ![a] = c],
           UNCHANGED <<keyFile, network>>, strangers' = 0 => strangers = 0, ContractInv(a)'
    PROVE  CodeInv'
<1>1. /\ DOMAIN code' = DOMAIN code /\ code' \in Seq(Contracts)
      /\ \A b \in DOMAIN code : b # a => code'[b] = code[b]
  BY ChangeOne
<1>2. wrappedTokens' = wrappedTokens
  BY DEF wrappedTokens
<1>3. \A key : KnownKey(key)' = KnownKey(key)
  BY DEF KnownKey
<1>4. ASSUME NEW b \in DOMAIN code, b # a  PROVE ContractInv(b)'
  <2>1. ContractInv(b) /\ code'[b] = code[b]
    BY <1>1, <1>4 DEF CodeInv
  <2>2. QED
    BY <2>1, <1>1, <1>2, <1>3 DEF ContractInv
<1>5. QED
  BY <1>1, <1>4 DEF CodeInv

LEMMA CodeStep ==
    ASSUME IInv, CodeInv', CodeLater, DOMAIN code' = DOMAIN code,
           UNCHANGED <<explorer, manifest, config, keyFile, sources, marker, network, carriedOver,
                       crashes, replaced>>,
           funds' \in [Symbols -> Nat], strangers' \in Nat, strangers' = 0 => strangers = 0,
           AddressRecorded \/ console'.address = console.address, ConsoleInv'
    PROVE  IInv'
<1>1. CodeInv /\ FilesInv /\ ManifestTrue /\ RoutesWork
  BY DEF IInv
<1>2. FilesInv'
  <2>1. keyFile' \in Keys /\ crashes' \in Nat
    BY <1>1 DEF FilesInv
  <2>2. QED
    BY <1>1, <2>1, FilesSame
<1>3. ManifestTrue' /\ RoutesWork'
  BY <1>1, ManifestOfLater, RoutesOfLater
<1>4. (Lost \ replaced)' \subseteq Lost \ replaced
  BY LostKept
<1>5. (Cardinality(Lost \ replaced) <= crashes)'
  BY <1>1, <1>4, LostCount DEF IInv
<1>6. QED
  BY <1>2, <1>3, <1>5 DEF IInv

LEMMA ManifestStep ==
    ASSUME IInv, ManifestTrue', manifest'.address = manifest.address,
           UNCHANGED <<code, explorer, funds, config, keyFile, sources, marker, network, carriedOver,
                       crashes, strangers, replaced>>,
           manifest' \in [address : [Paths -> {Stale, 0} \cup DOMAIN code], verified : SUBSET Paths,
                          auditor : Keys, tokens : [Symbols -> 0 .. Cardinality(Symbols)]],
           AddressRecorded \/ console'.address = console.address, ConsoleInv'
    PROVE  IInv'
<1>1. CodeInv /\ FilesInv /\ RoutesWork
  BY DEF IInv
<1>2. CodeInv' /\ CodeLater
  BY <1>1, CodeSame, CodeUnchanged
<1>3. FilesInv'
  <2>1. /\ explorer' \subseteq DOMAIN code
        /\ \A p \in Paths : manifest'.address[p] = Stale => carriedOver /\ p \in StackPaths
    BY <1>1 DEF FilesInv
  <2>2. QED
    BY <1>1, <2>1, FilesWritten
<1>4. RoutesWork'
  BY <1>1, RoutesSame
<1>5. (Lost \ replaced)' \subseteq Lost \ replaced
  BY <1>2, LostKept
<1>6. (Cardinality(Lost \ replaced) <= crashes)'
  BY <1>1, <1>2, <1>5, LostCount DEF IInv
<1>7. QED
  BY <1>2, <1>3, <1>4, <1>6 DEF IInv

-----------------------------------------------------------------------------
(* The auditor.                                                            *)

LEMMA AuditorStepIs ==
    ASSUME ConsoleInv, NEW op \in {"look", "key", "store", "register", "set", "write"},
           Doing(op, "auditor")
    PROVE  AddressRecorded /\ OnMainnet /\ console.ids = NoTokens /\ AuditorFact(op)
<1>1. <<op, "auditor">> \in AuditorSteps
  BY DEF AuditorSteps, AfterAuditor
<1>2. QED
  BY <1>1, AtAuditor

LEMMA AuditorNext ==
    ASSUME ConsoleInv, NEW n \in 1 .. Len(console.steps),
           NEW op \in {"look", "key", "store", "register", "set"}, console.steps[n] = <<op, "auditor">>
    PROVE  n + 1 \in 1 .. Len(console.steps) /\ console.steps[n + 1] = <<AfterAuditor[op], "auditor">>
<1>1. ~MayEnd(<<op, "auditor">>)
  BY DEF MayEnd
<1>2. n \in 1 .. Len(console.steps) - 1
  BY <1>1, NotLast
<1>3. PICK y : y = console.steps[n + 1]
  OBVIOUS
<1>4. Follows(<<op, "auditor">>, y)
  BY <1>2, <1>3, DropIs
<1>5. y = <<AfterAuditor[op], "auditor">>
  BY <1>4, NextOfAuditor DEF AfterAuditor
<1>6. PICK m : m = Len(console.steps)
  OBVIOUS
<1>7. m \in Nat
  BY <1>6 DEF ConsoleInv, Path
<1>8. n + 1 \in 1 .. m
  BY <1>2, <1>6, <1>7
<1>9. QED
  BY <1>3, <1>5, <1>6, <1>8

LEMMA AuditorPart ==
    ASSUME ConsoleInv, Doing("look", "auditor")
    PROVE  6 \in 1 .. Len(console.steps) /\ console.steps[6] = <<"write", "auditor">>
<1>1. 1 \in 1 .. Len(console.steps) /\ console.steps[1] = <<"look", "auditor">>
  <2>1. PICK m : m = Len(console.steps)
    OBVIOUS
  <2>2. m \in Nat \ {0} /\ console.steps[1] = <<"look", "auditor">>
    BY <2>1, FirstStep
  <2>3. QED
    BY <2>1, <2>2
<1>2. /\ AfterAuditor["look"] = "key" /\ AfterAuditor["key"] = "store"
      /\ AfterAuditor["store"] = "register" /\ AfterAuditor["register"] = "set"
      /\ AfterAuditor["set"] = "write"
  BY DEF AfterAuditor
<1>3. 1 + 1 = 2 /\ 2 + 1 = 3 /\ 3 + 1 = 4 /\ 4 + 1 = 5 /\ 5 + 1 = 6
  OBVIOUS
<1>4. 1 + 1 \in 1 .. Len(console.steps) /\ console.steps[1 + 1] = <<"key", "auditor">>
  BY <1>1, <1>2, AuditorNext
<1>5. 2 + 1 \in 1 .. Len(console.steps) /\ console.steps[2 + 1] = <<"store", "auditor">>
  BY <1>2, <1>3, <1>4, AuditorNext
<1>6. 3 + 1 \in 1 .. Len(console.steps) /\ console.steps[3 + 1] = <<"register", "auditor">>
  BY <1>2, <1>3, <1>5, AuditorNext
<1>7. 4 + 1 \in 1 .. Len(console.steps) /\ console.steps[4 + 1] = <<"set", "auditor">>
  BY <1>2, <1>3, <1>6, AuditorNext
<1>8. 5 + 1 \in 1 .. Len(console.steps) /\ console.steps[5 + 1] = <<"write", "auditor">>
  BY <1>2, <1>3, <1>7, AuditorNext
<1>9. QED
  BY <1>3, <1>8

LEMMA AuditorIsSetKeeps ==
    ASSUME IInv, AuditorIsSet
    PROVE  IInv'
<1>1. /\ Doing("look", "auditor") /\ HasCode(Converter)
      /\ manifest' = [manifest EXCEPT !.auditor = code[Converter].auditor]
      /\ console' = Onward(console, Len(ConfigureAuditor))
      /\ UNCHANGED <<chainVars, ceremonyVars, config, keyFile, countVars>>
  BY DEF AuditorIsSet
<1>2. UNCHANGED <<code, explorer, funds, config, keyFile, sources, marker, network,
                  carriedOver, crashes, strangers, replaced>>
  BY <1>1 DEF chainVars, ceremonyVars, countVars
<1>3. CodeInv /\ FilesInv /\ ConsoleInv /\ ManifestTrue
  BY DEF IInv
<1>4. AddressRecorded /\ OnMainnet /\ console.ids = NoTokens
  BY <1>1, <1>3, AuditorStepIs
<1>5. code[Converter].auditor \in Keys
  BY <1>1, <1>3, ContractIs DEF HasCode
<1>6. /\ manifest'.address = manifest.address /\ manifest'.verified = manifest.verified
      /\ manifest'.auditor = code[Converter].auditor /\ manifest'.tokens = manifest.tokens
      /\ manifest' \in [address : [Paths -> {Stale, 0} \cup DOMAIN code], verified : SUBSET Paths,
                        auditor : Keys, tokens : [Symbols -> 0 .. Cardinality(Symbols)]]
  BY <1>1, <1>3, <1>5 DEF FilesInv
<1>7. ManifestTrue'
  <2>1. \A p \in manifest'.verified : manifest.address[p] \in explorer'
    BY <1>2, <1>3, <1>6 DEF ManifestTrue
  <2>2. QED
    BY <2>1, <1>1, <1>2, <1>3, <1>6, ManifestWritten
<1>8. ConsoleInv'
  <2>1. Len(ConfigureAuditor) = 6
    BY DEF ConfigureAuditor
  <2>2. 6 \in 1 .. Len(console.steps) /\ console.steps[6] = <<"write", "auditor">>
    BY <1>1, <1>3, AuditorPart
  <2>3. CASE Len(console.steps) = 6
    <3>1. console' = Idle
      BY <2>1, <2>3, <1>1 DEF Onward
    <3>2. QED
      BY <3>1, StopsThere
  <2>4. CASE Len(console.steps) # 6
    <3>1. 6 \in 1 .. Len(console.steps) - 1
      <4>1. PICK m : m = Len(console.steps)
        OBVIOUS
      <4>2. m \in Nat
        BY <1>3, <4>1 DEF ConsoleInv, Path
      <4>3. 6 \in 1 .. m /\ m # 6
        BY <2>2, <2>4, <4>1
      <4>4. 6 \in 1 .. m - 1
        BY <4>2, <4>3
      <4>5. QED
        BY <4>1, <4>4
    <3>2. PICK s : s = Drop(6)
      OBVIOUS
    <3>3. PICK y : y = console.steps[6 + 1]
      OBVIOUS
    <3>4. /\ Path(s) /\ s # <<>> /\ Head(s) = y /\ console' = [console EXCEPT !.steps = s]
          /\ Follows(<<"write", "auditor">>, y)
      BY <3>1, <3>2, <3>3, <2>1, <2>2, <1>1, <1>3, DropIs
    <3>5. y \in PartHeads
      BY <3>4, NextOfAuditor
    <3>6. /\ console' \in Consoles /\ console'.steps = s
          /\ console'.address = console.address /\ console'.ids = console.ids
          /\ console'.expected = console.expected
      BY <1>3, <3>4, Typed DEF ConsoleInv, Path
    <3>7. AddressRecorded' /\ OnMainnet'
      BY <1>2, <1>4, <1>6, <3>6, AddressSame, MainnetSame
    <3>8. Fact(y)'
      BY <1>4, <3>5, <3>6, <3>7, ToHead
    <3>9. QED
      BY <1>2, <3>4, <3>6, <3>8, GoesOn
  <2>5. QED
    BY <2>3, <2>4
<1>9. QED
  BY <1>2, <1>4, <1>6, <1>7, <1>8, ManifestStep

LEMMA AuditorToBeSetKeeps ==
    ASSUME IInv, AuditorToBeSet
    PROVE  IInv'
<1>1. /\ Doing("look", "auditor") /\ HasCode(Converter) /\ code[Converter].auditor = NoKey
      /\ Proceed /\ UNCHANGED <<chainVars, fileVars, countVars>>
  BY DEF AuditorToBeSet
<1>2. UNCHANGED <<code, explorer, funds, manifest, config, keyFile, sources, marker, network,
                  carriedOver, crashes, strangers, replaced>>
  BY <1>1 DEF chainVars, fileVars, ceremonyVars, countVars
<1>3. ConsoleInv
  BY DEF IInv
<1>4. AddressRecorded /\ OnMainnet /\ console.ids = NoTokens
  BY <1>1, <1>3, AuditorStepIs
<1>5. ASSUME NEW y \in Steps, Follows(<<"look", "auditor">>, y),
             console'.address = console.address, console'.ids = console.ids,
             console'.expected = console.expected
      PROVE  Fact(y)'
  <2>1. y = <<"key", "auditor">> /\ y \in AuditorSteps
    BY <1>5, NextOfAuditor
  <2>2. AuditorFact("key")'
    BY <1>1, <1>2 DEF AuditorFact, Converter, HasCode
  <2>3. AddressRecorded' /\ OnMainnet'
    BY <1>2, <1>4, <1>5, AddressSame, MainnetSame
  <2>4. QED
    BY <1>4, <1>5, <2>1, <2>2, <2>3, ToAuditor
<1>6. ConsoleInv'
  BY <1>5, <1>1, <1>2, <1>3, Proceeds
<1>7. QED
  BY <1>1, <1>2, <1>4, <1>6, ConsoleOnly

LEMMA RefuseConverterKeeps ==
    ASSUME IInv, RefuseConverter
    PROVE  IInv'
<1>1. AddressRecorded
  BY AuditorStepIs DEF IInv, RefuseConverter
<1>2. QED
  BY <1>1, ThrowLeaves DEF RefuseConverter

LEMMA RefuseToGenerateKeeps ==
    ASSUME IInv, RefuseToGenerate
    PROVE  IInv'
<1>1. AddressRecorded
  BY AuditorStepIs DEF IInv, RefuseToGenerate
<1>2. QED
  BY <1>1, ThrowLeaves DEF RefuseToGenerate

(* The key is the one on file, or a new one when none is.                  *)
LEMMA KeyChosen ==
    ASSUME IInv, Doing("key", "auditor"), NEW key \in Keys, key # NoKey, keyFile \in {NoKey, key},
           console' = [Onward(console, 1) EXCEPT !.key = key],
           UNCHANGED <<chainVars, fileVars, countVars>>
    PROVE  IInv'
<1>1. UNCHANGED <<code, explorer, funds, manifest, config, keyFile, sources, marker, network,
                  carriedOver, crashes, strangers, replaced>>
  BY DEF chainVars, fileVars, ceremonyVars, countVars
<1>2. ConsoleInv
  BY DEF IInv
<1>3. AddressRecorded /\ OnMainnet /\ console.ids = NoTokens /\ AuditorFact("key")
  BY <1>2, AuditorStepIs
<1>4. ConsoleInv'
  <2>1. ~MayEnd(<<"key", "auditor">>)
    BY DEF MayEnd
  <2>2. /\ Follows(<<"key", "auditor">>, Head(Drop(1))) /\ Path(Drop(1)) /\ Drop(1) # <<>>
        /\ Onward(console, 1) = [console EXCEPT !.steps = Drop(1)]
    BY <2>1, <1>2, Advance
  <2>3. PICK s : s = Drop(1)
    OBVIOUS
  <2>4. PICK y : y = Head(s)
    OBVIOUS
  <2>5. Path(s) /\ s # <<>> /\ s \in Seq(Steps) /\ Follows(<<"key", "auditor">>, y)
    BY <2>2, <2>3, <2>4 DEF Path
  <2>6. /\ console' \in Consoles /\ console'.steps = s /\ console'.key = key
        /\ console'.address = console.address
        /\ console'.ids = console.ids /\ console'.expected = console.expected
    <3>1. console' = [[console EXCEPT !.steps = s] EXCEPT !.key = key]
      BY <2>2, <2>3
    <3>2. console \in Consoles
      BY <1>2 DEF ConsoleInv
    <3>3. QED
      BY <3>1, <3>2, <2>5 DEF Consoles
  <2>7. y = <<"store", "auditor">> /\ y \in AuditorSteps
    BY <2>5, NextOfAuditor
  <2>8. AuditorFact("store")'
    BY <1>1, <1>3, <2>6 DEF AuditorFact, Converter, HasCode
  <2>9. AddressRecorded' /\ OnMainnet'
    BY <1>1, <1>3, <2>6, AddressSame, MainnetSame
  <2>10. Fact(y)'
    BY <1>3, <2>6, <2>7, <2>8, <2>9, ToAuditor
  <2>11. QED
    BY <2>4, <2>5, <2>6, <2>10, <1>1, GoesOn
<1>5. QED
  BY <1>1, <1>3, <1>4, ConsoleOnly

LEMMA GetStoredKeyKeeps ==
    ASSUME IInv, GetStoredKey
    PROVE  IInv'
<1>1. keyFile \in Keys
  BY DEF IInv, FilesInv
<1>2. QED
  BY <1>1, KeyChosen DEF GetStoredKey

LEMMA GenerateKeyKeeps ==
    ASSUME IInv, GenerateKey
    PROVE  IInv'
<1>1. PICK key : key = CHOOSE k \in GeneratedKeys : k \notin RegisteredKeys("auditor")
  OBVIOUS
<1>2. Doing("key", "auditor") /\ keyFile = NoKey /\ UNCHANGED <<chainVars, fileVars, countVars>>
      /\ console' = [Onward(console, 1) EXCEPT !.key = key]
  BY <1>1 DEF GenerateKey
<1>3. RegisteredKeys("auditor") \subseteq {NoKey}
  <2>1. \A a \in DOMAIN code : code[a].keys["auditor"] = NoKey
    BY <1>2 DEF IInv, CodeInv, ContractInv, KnownKey
  <2>2. QED
    BY <2>1 DEF RegisteredKeys
<1>4. \A k \in GeneratedKeys : k # NoKey
  BY DeploymentAssumption
<1>5. \E k \in GeneratedKeys : k \notin RegisteredKeys("auditor")
  BY <1>3, <1>4, DeploymentAssumption
<1>6. key \in GeneratedKeys
  BY <1>1, <1>5
<1>7. key \in Keys /\ key # NoKey
  BY <1>4, <1>6 DEF Keys
<1>8. QED
  BY <1>2, <1>7, KeyChosen

LEMMA StoreKeyKeeps ==
    ASSUME IInv, StoreKey
    PROVE  IInv'
<1>1. /\ Doing("store", "auditor") /\ keyFile' = console.key
      /\ IF Accepted(console.key) THEN Proceed ELSE Throw
      /\ UNCHANGED <<chainVars, ceremonyVars, manifest, config, countVars>>
  BY DEF StoreKey
<1>2. UNCHANGED <<code, explorer, funds, manifest, config, sources, marker, network,
                  carriedOver, crashes, strangers, replaced>>
  BY <1>1 DEF chainVars, ceremonyVars, countVars
<1>3. CodeInv /\ FilesInv /\ ConsoleInv /\ ManifestTrue /\ RoutesWork
  BY DEF IInv
<1>4. AddressRecorded /\ OnMainnet /\ console.ids = NoTokens /\ AuditorFact("store")
  BY <1>1, <1>3, AuditorStepIs
<1>5. console.key # NoKey /\ console.key \in Keys /\ keyFile \in {NoKey, console.key}
  BY <1>3, <1>4 DEF AuditorFact, ConsoleInv, Consoles
<1>6. \A key : KnownKey(key) => KnownKey(key)'
  BY <1>1, <1>2, <1>5 DEF KnownKey
<1>7. CodeInv'
  <2>1. wrappedTokens' = wrappedTokens
    BY <1>2 DEF wrappedTokens
  <2>2. \A a \in DOMAIN code : ContractInv(a)'
    BY <2>1, <1>2, <1>3, <1>6 DEF CodeInv, ContractInv
  <2>3. QED
    BY <2>2, <1>2, <1>3 DEF CodeInv
<1>8. FilesInv'
  BY <1>1, <1>2, <1>3, <1>5 DEF FilesInv
<1>9. ManifestTrue' /\ RoutesWork'
  BY <1>2, <1>3, <1>7, RecordsSame
<1>10. CASE Accepted(console.key)
  <2>1. Proceed
    BY <1>1, <1>10
  <2>2. ASSUME NEW y \in Steps, Follows(<<"store", "auditor">>, y), console'.key = console.key,
               console'.address = console.address, console'.ids = console.ids,
               console'.expected = console.expected
        PROVE  Fact(y)'
    <3>1. y = <<"register", "auditor">> /\ y \in AuditorSteps
      BY <2>2, NextOfAuditor
    <3>2. network = "avalanche" => console.key = OperatorKey
      BY <1>4, <1>10, DeploymentAssumption DEF OnMainnet, Accepted
    <3>3. AuditorFact("register")'
      BY <1>1, <1>2, <1>4, <1>5, <2>2, <3>2 DEF AuditorFact, Converter, HasCode
    <3>4. AddressRecorded' /\ OnMainnet'
      BY <1>2, <1>4, <2>2, AddressSame, MainnetSame
    <3>5. QED
      BY <1>4, <2>2, <3>1, <3>3, <3>4, ToAuditor
  <2>3. ConsoleInv'
    BY <2>1, <2>2, <1>1, <1>2, <1>3, Proceeds
  <2>4. (Lost \ replaced)' \subseteq Lost \ replaced
    BY <1>2, <1>4, CodeUnchanged, LostKept
  <2>5. (Cardinality(Lost \ replaced) <= crashes)'
    BY <2>4, <1>2, <1>3, <1>7, LostCount DEF IInv
  <2>6. QED
    BY <2>3, <2>5, <1>7, <1>8, <1>9 DEF IInv
<1>11. CASE ~Accepted(console.key)
  <2>1. ConsoleInv'
    BY <1>1, <1>11, StopsThere DEF Throw
  <2>2. (Lost \ replaced)' \subseteq Lost \ replaced
    BY <1>2, <1>4, CodeUnchanged, LostKept
  <2>3. (Cardinality(Lost \ replaced) <= crashes)'
    BY <2>2, <1>2, <1>3, <1>7, LostCount DEF IInv
  <2>4. QED
    BY <2>1, <2>3, <1>7, <1>8, <1>9 DEF IInv
<1>12. QED
  BY <1>10, <1>11

(* A registrar takes the key of an account it has none of.                 *)
LEMMA RegisteredCode ==
    ASSUME CodeInv, NEW account \in {"auditor", "deployer"}, NEW key \in Keys,
           account = "auditor" => KnownKey(key),
           NEW r \in DOMAIN code, code' = [code EXCEPT ![r].keys[account] = key],
           UNCHANGED <<keyFile, network, strangers>>
    PROVE  /\ CodeInv' /\ CodeLater /\ DOMAIN code' = DOMAIN code
           /\ code'[r].keys[account] = key
           /\ \A a \in DOMAIN code : /\ code'[a].tokens = code[a].tokens
                                     /\ code'[a].auditor = code[a].auditor
                                     /\ code'[a].seeded = code[a].seeded
                                     /\ code'[a].kind = code[a].kind
<1>1. PICK b : b = code[r]
  OBVIOUS
<1>2. PICK c : c = [b EXCEPT !.keys = [b.keys EXCEPT ![account] = key]]
  OBVIOUS
<1>3. code' = [code EXCEPT ![r] = c]
  BY <1>1, <1>2
<1>4. b \in Contracts
  BY <1>1, ContractIs
<1>5. /\ c \in Contracts /\ c.kind = b.kind /\ c.setup = b.setup /\ c.uses = b.uses
      /\ c.auditor = b.auditor /\ c.tokens = b.tokens /\ c.depositors = b.depositors
      /\ c.settings = b.settings /\ c.seeded = b.seeded
      /\ c.keys[account] = key /\ (account = "deployer" => c.keys["auditor"] = b.keys["auditor"])
  BY <1>2, <1>4 DEF Contracts
<1>6. Later(code[r], c)
  BY <1>1, <1>5 DEF Later
<1>7. /\ DOMAIN code' = DOMAIN code /\ code'[r] = c /\ CodeLater
      /\ \A a \in DOMAIN code : a # r => code'[a] = code[a]
  BY <1>3, <1>5, <1>6, ChangeOne
<1>8. ContractInv(r)'
  <2>1. ContractInv(r)
    BY DEF CodeInv
  <2>2. \A k : KnownKey(k)' = KnownKey(k)
    BY DEF KnownKey
  <2>3. wrappedTokens' = wrappedTokens
    BY DEF wrappedTokens
  <2>4. KnownKey(c.keys["auditor"])
    BY <2>1, <1>1, <1>5 DEF ContractInv
  <2>5. QED
    BY <2>1, <2>2, <2>3, <2>4, <1>1, <1>5, <1>7 DEF ContractInv
<1>9. CodeInv'
  BY <1>3, <1>5, <1>8, ChangeKeepsCode
<1>10. QED
  BY <1>1, <1>5, <1>7, <1>9

LEMMA RegisterAuditorKeeps ==
    ASSUME IInv, RegisterAuditor
    PROVE  IInv'
<1>1. PICK r, key : r = manifest.address["registrar"] /\ key = console.key
  OBVIOUS
<1>2. Doing("register", "auditor") /\ UNCHANGED <<explorer, funds, fileVars, countVars>>
  BY DEF RegisterAuditor
<1>3. \/ /\ r \in DOMAIN code /\ code[r].keys["auditor"] = NoKey
         /\ code' = [code EXCEPT ![r].keys["auditor"] = key]
         /\ Proceed
      \/ r \in DOMAIN code /\ code[r].keys["auditor"] = key /\ UNCHANGED code /\ Proceed
      \/ UNCHANGED code /\ Throw
  BY <1>1 DEF RegisterAuditor, Registers, HasCode
<1>4. UNCHANGED <<explorer, funds, manifest, config, keyFile, sources, marker, network,
                  carriedOver, crashes, strangers, replaced>>
  BY <1>2 DEF fileVars, ceremonyVars, countVars
<1>5. CodeInv /\ FilesInv /\ ConsoleInv
  BY DEF IInv
<1>6. AddressRecorded /\ OnMainnet /\ console.ids = NoTokens /\ AuditorFact("register")
  BY <1>2, <1>5, AuditorStepIs
<1>7. CASE UNCHANGED code /\ Throw
  BY <1>2, <1>6, <1>7, ThrowLeaves DEF chainVars
<1>8. CASE r \in DOMAIN code /\ Proceed /\ ~(UNCHANGED code /\ Throw)
  <2>1. /\ CodeInv' /\ CodeLater /\ DOMAIN code' = DOMAIN code
        /\ code'[r].keys["auditor"] = key
        /\ \A a \in DOMAIN code : /\ code'[a].auditor = code[a].auditor /\ code'[a].kind = code[a].kind
    <3>1. CASE UNCHANGED code /\ code[r].keys["auditor"] = key
      BY <3>1, <1>4, <1>5, CodeSame, CodeUnchanged
    <3>2. CASE code' = [code EXCEPT ![r].keys["auditor"] = key]
      <4>1. key \in Keys /\ KnownKey(key)
        BY <1>1, <1>5, <1>6 DEF AuditorFact, KnownKey, ConsoleInv, Consoles
      <4>2. "auditor" \in {"auditor", "deployer"}
        OBVIOUS
      <4>3. QED
        BY <4>1, <4>2, <3>2, <1>4, <1>5, <1>8, RegisteredCode
    <3>3. QED
      BY <3>1, <3>2, <1>3, <1>8
  <2>2. ASSUME NEW y \in Steps, Follows(<<"register", "auditor">>, y), console'.key = console.key,
               console'.address = console.address, console'.ids = console.ids,
               console'.expected = console.expected
        PROVE  Fact(y)'
    <3>1. y = <<"set", "auditor">> /\ y \in AuditorSteps
      BY <2>2, NextOfAuditor
    <3>2. Converter' = Converter /\ Converter \in DOMAIN code
      BY <1>4, <1>6 DEF Converter, AuditorFact, HasCode
    <3>3. AuditorFact("set")'
      BY <1>1, <1>4, <1>6, <1>8, <2>1, <2>2, <3>2 DEF AuditorFact, HasCode
    <3>4. OnMainnet'
      BY <1>4, <1>6, <2>2, MainnetSame
    <3>5. AddressRecorded'
      BY <1>4, <1>6, <2>1, <2>2 DEF AddressRecorded, Recorded
    <3>6. QED
      BY <1>6, <2>2, <3>1, <3>3, <3>4, <3>5, ToAuditor
  <2>3. ConsoleInv'
    BY <2>2, <1>2, <1>4, <1>5, <1>8, Proceeds
  <2>4. funds' \in [Symbols -> Nat] /\ strangers' \in Nat
    BY <1>4, <1>5 DEF FilesInv
  <2>5. QED
    BY <2>1, <2>3, <2>4, <1>4, <1>6, CodeStep
<1>9. QED
  BY <1>3, <1>7, <1>8

LEMMA SetAuditorKeeps ==
    ASSUME IInv, SetAuditor
    PROVE  IInv'
<1>1. PICK a, key : a = Converter /\ key = console.key
  OBVIOUS
<1>2. /\ Doing("set", "auditor") /\ Proceed /\ UNCHANGED <<explorer, funds, fileVars, countVars>>
      /\ code' = [code EXCEPT ![a].auditor = code[code[a].uses["registrar"]].keys["auditor"]]
  BY <1>1 DEF SetAuditor
<1>3. UNCHANGED <<explorer, funds, manifest, config, keyFile, sources, marker, network,
                  carriedOver, crashes, strangers, replaced>>
  BY <1>2 DEF fileVars, ceremonyVars, countVars
<1>4. CodeInv /\ FilesInv /\ ConsoleInv /\ ManifestTrue
  BY DEF IInv
<1>5. AddressRecorded /\ OnMainnet /\ console.ids = NoTokens /\ AuditorFact("set")
  BY <1>2, <1>4, AuditorStepIs
<1>6. /\ a \in DOMAIN code /\ code[a].auditor = NoKey /\ KnownKey(key)
      /\ code[manifest.address["registrar"]].keys["auditor"] = key
      /\ key = keyFile /\ key # NoKey /\ (network = "avalanche" => keyFile = OperatorKey)
  BY <1>1, <1>5 DEF AuditorFact, HasCode, KnownKey
<1>7. code[a].uses["registrar"] = manifest.address["registrar"]
  <2>1. "encryptedERC" \in Paths /\ "encryptedERC" \in StackPaths /\ "registrar" \in Uses("encryptedERC")
    BY Names, UsesOf DEF Paths
  <2>2. QED
    BY <2>1, <1>1, <1>4, <1>6 DEF ManifestTrue, Converter, HasCode
<1>8. code' = [code EXCEPT ![a].auditor = key]
  BY <1>2, <1>6, <1>7
<1>9. PICK b : b = code[a]
  OBVIOUS
<1>10. PICK c : c = [b EXCEPT !.auditor = key]
  OBVIOUS
<1>11. code' = [code EXCEPT ![a] = c]
  BY <1>8, <1>9, <1>10
<1>12. key \in Keys
  BY <1>4, <1>6 DEF FilesInv
<1>13. /\ b \in Contracts /\ c \in Contracts /\ c.kind = b.kind /\ c.setup = b.setup /\ c.uses = b.uses
       /\ c.auditor = key /\ c.tokens = b.tokens /\ c.depositors = b.depositors
       /\ c.settings = b.settings /\ c.seeded = b.seeded /\ c.keys = b.keys
  <2>1. b \in Contracts
    BY <1>4, <1>6, <1>9, ContractIs
  <2>2. QED
    BY <2>1, <1>10, <1>12 DEF Contracts
<1>14. Later(code[a], c)
  BY <1>6, <1>9, <1>13 DEF Later
<1>15. /\ DOMAIN code' = DOMAIN code /\ code'[a] = c /\ CodeLater
       /\ \A d \in DOMAIN code : d # a => code'[d] = code[d]
  BY <1>4, <1>6, <1>11, <1>13, <1>14, ChangeOne
<1>16. CodeInv'
  <2>1. ContractInv(a)
    BY <1>4, <1>6 DEF CodeInv
  <2>2. \A k : KnownKey(k)' = KnownKey(k)
    BY <1>3 DEF KnownKey
  <2>3. wrappedTokens' = wrappedTokens
    BY <1>3 DEF wrappedTokens
  <2>4. ContractInv(a)'
    BY <2>1, <2>2, <2>3, <1>3, <1>6, <1>9, <1>13, <1>15 DEF ContractInv
  <2>5. QED
    BY <2>4, <1>3, <1>4, <1>6, <1>11, <1>13, ChangeKeepsCode
<1>17. ASSUME NEW y \in Steps, Follows(<<"set", "auditor">>, y), console'.key = console.key,
              console'.address = console.address, console'.ids = console.ids,
              console'.expected = console.expected
       PROVE  Fact(y)'
  <2>1. y = <<"write", "auditor">> /\ y \in AuditorSteps
    BY <1>17, NextOfAuditor
  <2>2. Converter' = a
    BY <1>1, <1>3 DEF Converter
  <2>3. AuditorFact("write")'
    BY <1>1, <1>3, <1>6, <1>13, <1>15, <1>17, <2>2 DEF AuditorFact, HasCode
  <2>4. OnMainnet'
    BY <1>3, <1>5, <1>17, MainnetSame
  <2>5. \A d \in DOMAIN code : code'[d].kind = code[d].kind
    BY <1>9, <1>13, <1>15
  <2>6. AddressRecorded'
    BY <1>3, <1>5, <1>15, <1>17, <2>5 DEF AddressRecorded, Recorded
  <2>7. QED
    BY <1>5, <1>17, <2>1, <2>3, <2>4, <2>6, ToAuditor
<1>18. ConsoleInv'
  BY <1>17, <1>2, <1>3, <1>4, Proceeds
<1>19. funds' \in [Symbols -> Nat] /\ strangers' \in Nat
  BY <1>3, <1>4 DEF FilesInv
<1>20. QED
  BY <1>3, <1>5, <1>15, <1>16, <1>18, <1>19, CodeStep

LEMMA WriteAuditorKeeps ==
    ASSUME IInv, WriteAuditor
    PROVE  IInv'
<1>1. /\ Doing("write", "auditor") /\ Proceed
      /\ manifest' = [manifest EXCEPT !.auditor = console.key]
      /\ UNCHANGED <<chainVars, ceremonyVars, config, keyFile, countVars>>
  BY DEF WriteAuditor
<1>2. UNCHANGED <<code, explorer, funds, config, keyFile, sources, marker, network,
                  carriedOver, crashes, strangers, replaced>>
  BY <1>1 DEF chainVars, ceremonyVars, countVars
<1>3. CodeInv /\ FilesInv /\ ConsoleInv /\ ManifestTrue
  BY DEF IInv
<1>4. AddressRecorded /\ OnMainnet /\ console.ids = NoTokens /\ AuditorFact("write")
  BY <1>1, <1>3, AuditorStepIs
<1>5. HasCode(Converter) /\ code[Converter].auditor = console.key /\ console.key \in Keys
  BY <1>3, <1>4 DEF AuditorFact, ConsoleInv, Consoles
<1>6. /\ manifest'.address = manifest.address /\ manifest'.verified = manifest.verified
      /\ manifest'.auditor = console.key /\ manifest'.tokens = manifest.tokens
      /\ manifest' \in [address : [Paths -> {Stale, 0} \cup DOMAIN code], verified : SUBSET Paths,
                        auditor : Keys, tokens : [Symbols -> 0 .. Cardinality(Symbols)]]
  BY <1>1, <1>3, <1>5 DEF FilesInv
<1>7. ManifestTrue'
  <2>1. \A p \in manifest'.verified : manifest.address[p] \in explorer'
    BY <1>2, <1>3, <1>6 DEF ManifestTrue
  <2>2. QED
    BY <2>1, <1>2, <1>3, <1>5, <1>6, ManifestWritten
<1>8. ASSUME NEW y \in Steps, Follows(<<"write", "auditor">>, y),
             console'.address = console.address, console'.ids = console.ids,
             console'.expected = console.expected
      PROVE  Fact(y)'
  <2>1. y \in PartHeads
    BY <1>8, NextOfAuditor
  <2>2. AddressRecorded' /\ OnMainnet'
    BY <1>2, <1>4, <1>6, <1>8, AddressSame, MainnetSame
  <2>3. QED
    BY <1>4, <1>8, <2>1, <2>2, ToHead
<1>9. ConsoleInv'
  BY <1>8, <1>1, <1>2, <1>3, Proceeds
<1>10. QED
  BY <1>2, <1>4, <1>6, <1>7, <1>9, ManifestStep

-----------------------------------------------------------------------------
(* The bootstrap of the tokens.                                            *)

IdsKnown == \A s \in Symbols : console.ids[s] # 0 =>
                Known(s) /\ console.ids[s] = TokenIdOf(Converter, s)

LEMMA TokenFactIs ==
    ASSUME NEW op, NEW t
    PROVE  /\ op = "order" => (TokenFact(op, t) <=> console.ids = NoTokens)
           /\ op # "order" =>
                (TokenFact(op, t) <=>
                    /\ HasCode(Converter) /\ IdsKnown
                    /\ op \in {"approve", "deposit"} => t \in Range(wrappedTokens)
                    /\ t = "EURC" => Known("USDC")
                    /\ op = "deposit" => code[Converter].seeded[t] = 0 /\ funds[t] > 0)
BY Zenon DEF TokenFact, IdsKnown

LEMMA ToTokenFact ==
    ASSUME NEW y \in TokenSteps, y[1] # "order", AddressRecorded', OnMainnet',
           HasCode(Converter)', IdsKnown',
           y[1] \in {"approve", "deposit"} => y[2] \in Range(wrappedTokens)',
           y[2] = "EURC" => Known("USDC")',
           y[1] = "deposit" => code'[Converter'].seeded[y[2]] = 0 /\ funds'[y[2]] > 0
    PROVE  Fact(y)'
<1>1. TokenFact(y[1], y[2])'
  BY DEF TokenFact, IdsKnown
<1>2. QED
  BY <1>1, ToToken

LEMMA KnownLater ==
    ASSUME CodeInv, CodeInv', CodeLater, HasCode(Converter), manifest'.address = manifest.address,
           NEW t, Known(t)
    PROVE  /\ Known(t)' /\ TokenIdOf(Converter, t)' = TokenIdOf(Converter, t)
           /\ TokenIdOf(Converter, t) # 0 /\ HasCode(Converter)'
<1>1. PICK c : c = Converter
  OBVIOUS
<1>2. c \in DOMAIN code /\ t \in Range(code[c].tokens) /\ Converter' = c
  BY <1>1 DEF HasCode, Known, Converter
<1>3. TokenIdOf(c, t)' = TokenIdOf(c, t) /\ t \in Range(code'[c].tokens) /\ TokenIdOf(c, t) # 0
  BY <1>2, TokenIdLater
<1>4. TokenIdOf(Converter, t)' = TokenIdOf(c, t)'
  BY <1>2 DEF TokenIdOf
<1>5. QED
  BY <1>1, <1>2, <1>3, <1>4 DEF Known, HasCode, CodeLater

LEMMA IdsLater ==
    ASSUME CodeInv, CodeInv', CodeLater, HasCode(Converter), manifest'.address = manifest.address,
           IdsKnown, console'.ids = console.ids
    PROVE  IdsKnown' /\ HasCode(Converter)'
<1>1. ASSUME NEW s \in Symbols, console.ids[s] # 0
      PROVE  Known(s)' /\ console.ids[s] = TokenIdOf(Converter, s)'
  BY <1>1, KnownLater DEF IdsKnown
<1>2. HasCode(Converter)'
  BY DEF HasCode, Converter, CodeLater
<1>3. QED
  BY <1>1, <1>2 DEF IdsKnown

LEMMA TokenStepIs ==
    ASSUME ConsoleInv, NEW op \in {"order", "join", "write"}, Doing(op, "tokens")
    PROVE  /\ <<op, "tokens">> \in TokenSteps
           /\ AddressRecorded /\ OnMainnet /\ TokenFact(op, "tokens")
<1>1. <<op, "tokens">> \in TokenSteps
  BY DEF TokenSteps
<1>2. QED
  BY <1>1, AtToken

LEMMA DepositStepIs ==
    ASSUME ConsoleInv, NEW op \in {"approve", "deposit"}, NEW t \in Range(wrappedTokens), Doing(op, t)
    PROVE  /\ <<op, t>> \in TokenSteps
           /\ AddressRecorded /\ OnMainnet
           /\ HasCode(Converter) /\ IdsKnown
           /\ t = "EURC" => Known("USDC")
           /\ op = "deposit" => code[Converter].seeded[t] = 0 /\ funds[t] > 0
<1>1. t \in {"tUSDC", "USDC", "EURC"}
  BY TokensAre
<1>2. <<op, t>> \in TokenSteps
  BY <1>1 DEF TokenSteps
<1>3. QED
  BY <1>2, AtToken, TokenFactIs

LEMMA CheckOrderKeeps ==
    ASSUME IInv, CheckOrder
    PROVE  IInv'
<1>1. PICK ok \in BOOLEAN :
          /\ ok => HasCode(Converter)
          /\ IF ok THEN Proceed ELSE Throw
  <2>1. CASE /\ HasCode(Converter) /\ HasCode(manifest.address["registrar"])
             /\ code[Converter].auditor # NoKey
             /\ InOrder
    BY <2>1, Zenon DEF CheckOrder
  <2>2. CASE ~(/\ HasCode(Converter) /\ HasCode(manifest.address["registrar"])
               /\ code[Converter].auditor # NoKey
               /\ InOrder)
    BY <2>2, Zenon DEF CheckOrder
  <2>3. QED
    BY <2>1, <2>2
<1>2. Doing("order", "tokens") /\ UNCHANGED <<chainVars, fileVars, countVars>>
  BY DEF CheckOrder
<1>3. UNCHANGED <<code, explorer, funds, manifest, config, keyFile, sources, marker, network,
                  carriedOver, crashes, strangers, replaced>>
  BY <1>2 DEF chainVars, fileVars, ceremonyVars, countVars
<1>4. ConsoleInv
  BY DEF IInv
<1>5. AddressRecorded /\ OnMainnet /\ console.ids = NoTokens
  BY <1>2, <1>4, TokenStepIs, TokenFactIs
<1>6. CASE ~ok
  BY <1>1, <1>2, <1>5, <1>6, ThrowLeaves
<1>7. CASE ok
  <2>1. ASSUME NEW y \in Steps, Follows(<<"order", "tokens">>, y),
               console'.address = console.address, console'.ids = console.ids,
               console'.expected = console.expected
        PROVE  Fact(y)'
    <3>1. y \in TokenSteps /\ y[1] = "join" /\ y[2] = "tokens"
      BY <2>1, <1>2, <1>4, TokenStepIs, NextOfToken
    <3>2. AddressRecorded' /\ OnMainnet'
      BY <1>3, <1>5, <2>1, AddressSame, MainnetSame
    <3>3. IdsKnown'
      BY <1>5, <2>1 DEF IdsKnown, NoTokens
    <3>4. HasCode(Converter)'
      BY <1>1, <1>3, <1>7 DEF HasCode, Converter
    <3>5. QED
      BY <3>1, <3>2, <3>3, <3>4, ToTokenFact
  <2>2. ConsoleInv'
    BY <2>1, <1>1, <1>2, <1>3, <1>4, <1>7, Proceeds
  <2>3. QED
    BY <2>2, <1>2, <1>3, <1>5, ConsoleOnly
<1>8. QED
  BY <1>6, <1>7

LEMMA JoinRegistrarKeeps ==
    ASSUME IInv, JoinRegistrar
    PROVE  IInv'
<1>1. PICK r : r = manifest.address["registrar"]
  OBVIOUS
<1>2. Doing("join", "tokens") /\ UNCHANGED <<explorer, funds, fileVars, countVars>>
  BY DEF JoinRegistrar
<1>3. \/ r \in DOMAIN code /\ code' = [code EXCEPT ![r].keys["deployer"] = BootstrapKey] /\ Proceed
      \/ UNCHANGED code /\ Proceed
      \/ UNCHANGED code /\ Throw
  BY <1>1 DEF JoinRegistrar, Registers, HasCode
<1>4. UNCHANGED <<explorer, funds, manifest, config, keyFile, sources, marker, network,
                  carriedOver, crashes, strangers, replaced>>
  BY <1>2 DEF fileVars, ceremonyVars, countVars
<1>5. CodeInv /\ FilesInv /\ ConsoleInv
  BY DEF IInv
<1>6. AddressRecorded /\ OnMainnet /\ HasCode(Converter) /\ IdsKnown
  BY <1>2, <1>5, TokenStepIs, TokenFactIs
<1>7. CASE UNCHANGED code /\ Throw
  BY <1>2, <1>6, <1>7, ThrowLeaves DEF chainVars
<1>8. CASE Proceed /\ ~(UNCHANGED code /\ Throw)
  <2>1. /\ CodeInv' /\ CodeLater /\ DOMAIN code' = DOMAIN code
        /\ \A a \in DOMAIN code : code'[a].kind = code[a].kind
    <3>1. CASE UNCHANGED code
      BY <3>1, <1>4, <1>5, CodeSame, CodeUnchanged
    <3>2. CASE r \in DOMAIN code /\ code' = [code EXCEPT ![r].keys["deployer"] = BootstrapKey]
      <4>1. BootstrapKey \in Keys /\ "deployer" \in {"auditor", "deployer"} /\ "deployer" # "auditor"
        BY DEF Keys
      <4>2. QED
        BY <4>1, <3>2, <1>4, <1>5, RegisteredCode
    <3>3. QED
      BY <3>1, <3>2, <1>3, <1>8
  <2>2. ASSUME NEW y \in Steps, Follows(<<"join", "tokens">>, y),
               console'.address = console.address, console'.ids = console.ids,
               console'.expected = console.expected
        PROVE  Fact(y)'
    <3>1. y \in TokenSteps /\ y = <<"approve", wrappedTokens[1]>>
      BY <2>2, <1>2, <1>5, TokenStepIs, NextOfToken
    <3>2. wrappedTokens[1] \in Range(wrappedTokens) /\ wrappedTokens[1] # "EURC"
      <4>1. PICK w : w = wrappedTokens
        OBVIOUS
      <4>2. (w = <<"tUSDC">> /\ Range(w) = {"tUSDC"})
            \/ (w = <<"USDC", "EURC">> /\ Range(w) = {"USDC", "EURC"})
        BY <4>1, TokensAre
      <4>3. w[1] \in Range(w) /\ w[1] # "EURC"
        BY <4>2
      <4>4. QED
        BY <4>1, <4>3
    <3>3. wrappedTokens' = wrappedTokens
      BY <1>4 DEF wrappedTokens
    <3>4. OnMainnet'
      BY <1>4, <1>6, <2>2, MainnetSame
    <3>5. AddressRecorded'
      BY <1>4, <1>6, <2>1, <2>2 DEF AddressRecorded, Recorded
    <3>6. IdsKnown' /\ HasCode(Converter)'
      BY <1>4, <1>5, <1>6, <2>1, <2>2, IdsLater
    <3>7. y[1] = "approve" /\ y[2] = wrappedTokens[1]
      BY <3>1
    <3>8. y[2] \in Range(wrappedTokens)' /\ y[2] # "EURC"
      BY <3>2, <3>3, <3>7
    <3>9. QED
      BY <3>1, <3>4, <3>5, <3>6, <3>7, <3>8, ToTokenFact
  <2>3. ConsoleInv'
    BY <2>2, <1>2, <1>4, <1>5, <1>8, Proceeds
  <2>4. funds' \in [Symbols -> Nat] /\ strangers' \in Nat
    BY <1>4, <1>5 DEF FilesInv
  <2>5. QED
    BY <2>1, <2>3, <2>4, <1>4, <1>6, CodeStep
<1>9. QED
  BY <1>3, <1>7, <1>8

(* After a token is known: the other one, or the end of it.                *)
LEMMA AfterToken ==
    ASSUME NEW t \in Range(wrappedTokens), NEW y, <<"deposit", t>> \in TokenSteps,
           Follows(<<"deposit", t>>, y)
    PROVE  /\ y \in TokenSteps /\ y[1] \in {"approve", "write"}
           /\ y[1] = "approve" => y[2] \in Range(wrappedTokens)
           /\ y[2] = "EURC" => t = "USDC"
<1>1. y \in TokenSteps /\ ((t = "USDC" /\ y = <<"approve", "EURC">>) \/ y = <<"write", "tokens">>)
  BY NextOfToken
<1>2. t = "USDC" => "EURC" \in Range(wrappedTokens)
  BY TokensAre
<1>3. CASE y = <<"write", "tokens">>
  BY <1>1, <1>3
<1>4. CASE t = "USDC" /\ y = <<"approve", "EURC">>
  BY <1>1, <1>2, <1>4
<1>5. QED
  BY <1>1, <1>3, <1>4

LEMMA SkipTokenKeeps ==
    ASSUME IInv, NEW t \in Range(wrappedTokens), SkipToken(t)
    PROVE  IInv'
<1>1. PICK id : id = KnownToken(t)
  OBVIOUS
<1>2. /\ Doing("approve", t) /\ id # 0 /\ UNCHANGED <<chainVars, fileVars, countVars>>
      /\ console' = [Onward(console, 2) EXCEPT !.ids[t] = id]
  BY <1>1 DEF SkipToken
<1>3. UNCHANGED <<code, explorer, funds, manifest, config, keyFile, sources, marker, network,
                  carriedOver, crashes, strangers, replaced>>
  BY <1>2 DEF chainVars, fileVars, ceremonyVars, countVars
<1>4. CodeInv /\ ConsoleInv
  BY DEF IInv
<1>5. /\ <<"approve", t>> \in TokenSteps /\ AddressRecorded /\ OnMainnet
      /\ HasCode(Converter) /\ IdsKnown
  BY <1>2, <1>4, DepositStepIs
<1>6. id = TokenIdOf(Converter, t) /\ Known(t) /\ id \in 0 .. Cardinality(Symbols)
  <2>1. PICK c : c = Converter
    OBVIOUS
  <2>2. c \in DOMAIN code /\ id = TokenIdOf(c, t)
    BY <2>1, <1>1, <1>5 DEF HasCode, KnownToken
  <2>3. t \in Range(code[c].tokens) /\ id \in 0 .. Cardinality(Symbols)
    BY <2>2, <1>2, <1>4, TokenIdBound
  <2>4. QED
    BY <2>1, <2>2, <2>3 DEF Known
<1>7. 1 \in 1 .. Len(console.steps) - 1 /\ console.steps[2] = <<"deposit", t>>
  <2>1. console.steps[1] = <<"approve", t>> /\ 1 \in 1 .. Len(console.steps)
    <3>1. PICK n : n = Len(console.steps)
      OBVIOUS
    <3>2. console.steps[1] = <<"approve", t>> /\ n \in Nat \ {0}
      BY <1>2, <1>4, <3>1, FirstStep
    <3>3. QED
      BY <3>1, <3>2
  <2>2. ~MayEnd(<<"approve", t>>)
    BY DEF MayEnd
  <2>3. 1 \in 1 .. Len(console.steps) - 1
    BY <1>4, <2>1, <2>2, NotLast
  <2>4. PICK y : y = console.steps[1 + 1]
    OBVIOUS
  <2>5. Follows(<<"approve", t>>, y)
    BY <1>4, <2>1, <2>3, <2>4, DropIs
  <2>6. y = <<"deposit", t>> /\ 1 + 1 = 2
    BY <2>5, <1>5, NextOfToken
  <2>7. QED
    BY <2>3, <2>4, <2>6
<1>8. 2 \in 1 .. Len(console.steps) - 1
  <2>1. 2 \in 1 .. Len(console.steps)
    <3>1. PICK n : n = Len(console.steps)
      OBVIOUS
    <3>2. n \in Nat /\ 1 \in 1 .. n - 1
      BY <1>2, <1>4, <1>7, <3>1, FirstStep
    <3>3. QED
      BY <3>1, <3>2
  <2>2. ~MayEnd(<<"deposit", t>>)
    BY DEF MayEnd
  <2>3. QED
    BY <1>4, <1>7, <2>1, <2>2, NotLast
<1>9. PICK s : s = Drop(2)
  OBVIOUS
<1>10. PICK y : y = console.steps[2 + 1]
  OBVIOUS
<1>11. /\ Path(s) /\ s # <<>> /\ Head(s) = y /\ Follows(<<"deposit", t>>, y)
       /\ Onward(console, 2) = [console EXCEPT !.steps = s]
  BY <1>4, <1>7, <1>8, <1>9, <1>10, DropIs
<1>12. /\ y \in TokenSteps /\ y[1] \in {"approve", "write"}
       /\ y[1] = "approve" => y[2] \in Range(wrappedTokens)
       /\ y[2] = "EURC" => t = "USDC"
  <2>1. t \in {"tUSDC", "USDC", "EURC"}
    BY TokensAre
  <2>2. <<"deposit", t>> \in TokenSteps
    BY <2>1 DEF TokenSteps
  <2>3. QED
    BY <2>2, <1>11, AfterToken
<1>13. /\ console' \in Consoles /\ console'.steps = s /\ console'.address = console.address
       /\ console'.ids = [console.ids EXCEPT ![t] = id] /\ console'.expected = console.expected
  <2>1. PICK ids : ids = [console.ids EXCEPT ![t] = id]
    OBVIOUS
  <2>2. console \in Consoles /\ s \in Seq(Steps)
    BY <1>4, <1>11 DEF ConsoleInv, Path
  <2>3. ids \in [Symbols -> 0 .. Cardinality(Symbols)]
    BY <2>1, <2>2, <1>6 DEF Consoles
  <2>4. console' = [[console EXCEPT !.steps = s] EXCEPT !.ids = ids]
    BY <2>1, <2>2, <1>2, <1>11 DEF Consoles
  <2>5. QED
    BY <2>1, <2>2, <2>3, <2>4 DEF Consoles
<1>14. Fact(y)'
  <2>1. AddressRecorded' /\ OnMainnet'
    BY <1>3, <1>5, <1>13, AddressSame, MainnetSame
  <2>2. Converter' = Converter /\ wrappedTokens' = wrappedTokens
    BY <1>3 DEF Converter, wrappedTokens
  <2>3. \A u : (Known(u)' <=> Known(u)) /\ TokenIdOf(Converter, u)' = TokenIdOf(Converter, u)
    BY <1>3, <2>2 DEF Known, TokenIdOf
  <2>4. IdsKnown'
    <3>1. console.ids \in [Symbols -> 0 .. Cardinality(Symbols)]
      BY <1>4 DEF ConsoleInv, Consoles
    <3>2. ASSUME NEW u \in Symbols, console'.ids[u] # 0
          PROVE  Known(u)' /\ console'.ids[u] = TokenIdOf(Converter, u)'
      <4>1. CASE u = t
        BY <4>1, <3>1, <3>2, <2>3, <1>6, <1>13
      <4>2. CASE u # t
        BY <4>2, <3>1, <3>2, <2>3, <1>5, <1>13 DEF IdsKnown
      <4>3. QED
        BY <4>1, <4>2
    <3>3. QED
      BY <3>2 DEF IdsKnown
  <2>5. HasCode(Converter)'
    BY <1>3, <1>5, <2>2 DEF HasCode
  <2>6. y[2] = "EURC" => Known("USDC")'
    BY <1>6, <1>12, <2>3
  <2>7. QED
    BY <1>12, <2>1, <2>2, <2>4, <2>5, <2>6, ToTokenFact
<1>15. ConsoleInv'
  BY <1>3, <1>11, <1>13, <1>14, GoesOn
<1>16. QED
  BY <1>2, <1>3, <1>5, <1>15, ConsoleOnly

LEMMA RefuseUnfundedKeeps ==
    ASSUME IInv, NEW t \in Range(wrappedTokens), RefuseUnfunded(t)
    PROVE  IInv'
<1>1. AddressRecorded
  BY DepositStepIs DEF IInv, RefuseUnfunded
<1>2. QED
  BY <1>1, ThrowLeaves DEF RefuseUnfunded

LEMMA ApproveTokenKeeps ==
    ASSUME IInv, NEW t \in Range(wrappedTokens), ApproveToken(t)
    PROVE  IInv'
<1>1. /\ Doing("approve", t) /\ KnownToken(t) = 0 /\ Proceed
      /\ funds' = IF funds[t] = 0 THEN [funds EXCEPT ![t] = Dust] ELSE funds
      /\ UNCHANGED <<code, explorer, fileVars, countVars>>
  BY DEF ApproveToken
<1>2. UNCHANGED <<code, explorer, manifest, config, keyFile, sources, marker, network,
                  carriedOver, crashes, strangers, replaced>>
  BY <1>1 DEF fileVars, ceremonyVars, countVars
<1>3. CodeInv /\ FilesInv /\ ConsoleInv
  BY DEF IInv
<1>4. /\ <<"approve", t>> \in TokenSteps /\ AddressRecorded /\ OnMainnet
      /\ HasCode(Converter) /\ IdsKnown /\ (t = "EURC" => Known("USDC"))
  BY <1>1, <1>3, DepositStepIs
<1>5. t \in Symbols
  BY TokensAre
<1>6. funds' \in [Symbols -> Nat] /\ funds'[t] > 0
  <2>1. funds \in [Symbols -> Nat] /\ Dust \in Nat /\ Dust > 0
    BY <1>3, DeploymentAssumption DEF FilesInv
  <2>2. QED
    BY <2>1, <1>1, <1>5
<1>7. code[Converter].seeded[t] = 0
  <2>1. PICK c : c = Converter
    OBVIOUS
  <2>2. c \in DOMAIN code /\ TokenIdOf(c, t) = 0
    BY <2>1, <1>1, <1>4 DEF HasCode, KnownToken
  <2>3. t \notin Range(code[c].tokens)
    BY <2>2, <1>3, TokenIdBound
  <2>4. ~(code[c].seeded[t] > 0)
    BY <2>2, <2>3, <1>3, <1>5 DEF CodeInv, ContractInv
  <2>5. PICK b : b = code[c]
    OBVIOUS
  <2>6. b \in Contracts
    BY <2>2, <2>5, <1>3, ContractIs
  <2>7. b.seeded[t] \in Nat
    BY <2>6, <1>5 DEF Contracts
  <2>8. QED
    BY <2>1, <2>4, <2>5, <2>7
<1>8. CodeInv' /\ CodeLater
  BY <1>2, <1>3, CodeSame, CodeUnchanged
<1>9. ASSUME NEW y \in Steps, Follows(<<"approve", t>>, y),
             console'.address = console.address, console'.ids = console.ids,
             console'.expected = console.expected
      PROVE  Fact(y)'
  <2>1. y \in TokenSteps /\ y[1] = "deposit" /\ y[2] = t
    BY <1>4, <1>9, NextOfToken
  <2>2. AddressRecorded' /\ OnMainnet'
    BY <1>2, <1>4, <1>9, AddressSame, MainnetSame
  <2>3. Converter' = Converter /\ wrappedTokens' = wrappedTokens
    BY <1>2 DEF Converter, wrappedTokens
  <2>4. IdsKnown' /\ HasCode(Converter)'
    BY <1>2, <1>3, <1>4, <1>8, <1>9, IdsLater
  <2>5. t = "EURC" => Known("USDC")'
    BY <1>2, <1>4, <2>3 DEF Known
  <2>6. code'[Converter'].seeded[t] = 0
    BY <1>2, <1>7, <2>3
  <2>7. QED
    BY <1>6, <2>1, <2>2, <2>3, <2>4, <2>5, <2>6, ToTokenFact
<1>10. ConsoleInv'
  BY <1>9, <1>1, <1>2, <1>3, Proceeds
<1>11. strangers' \in Nat
  BY <1>2, <1>3 DEF FilesInv
<1>12. QED
  BY <1>2, <1>4, <1>6, <1>8, <1>10, <1>11, CodeStep

(* The order of the tokens when nobody else deposits.                      *)
LEMMA NextInOrder ==
    ASSUME NEW tokens \in Seq(Symbols), NEW t \in Range(wrappedTokens),
           IsPrefix(tokens, wrappedTokens), t \notin Range(tokens),
           t = "EURC" => "USDC" \in Range(tokens)
    PROVE  IsPrefix(Append(tokens, t), wrappedTokens)
<1>1. PICK w, n : w = wrappedTokens /\ n = Len(tokens)
  OBVIOUS
<1>2. w \in Seq(Symbols) /\ t \in Symbols
  BY <1>1, TokensAre
<1>3. /\ n \in Nat /\ n <= Len(w) /\ Len(w) \in Nat /\ DOMAIN tokens = 1 .. n
      /\ \A i \in 1 .. n : tokens[i] = w[i] /\ tokens[i] # t
  BY <1>1, <1>2, PrefixIs DEF Range
<1>4. n < Len(w) /\ w[n + 1] = t
  <2>1. (w = <<"tUSDC">> /\ t = "tUSDC") \/ (w = <<"USDC", "EURC">> /\ t \in {"USDC", "EURC"})
    BY <1>1, TokensAre
  <2>2. CASE w = <<"tUSDC">> /\ t = "tUSDC"
    <3>1. Len(w) = 1 /\ w[1] = t
      BY <2>2
    <3>2. n = 0
      <4>1. n # 1
        BY <1>3, <3>1
      <4>2. QED
        BY <4>1, <1>3, <3>1
    <3>3. QED
      BY <3>1, <3>2
  <2>3. CASE w = <<"USDC", "EURC">> /\ t = "USDC"
    <3>1. Len(w) = 2 /\ w[1] = t
      BY <2>3
    <3>2. n = 0
      <4>1. ~(1 \in 1 .. n)
        BY <1>3, <3>1
      <4>2. QED
        BY <4>1, <1>3
    <3>3. QED
      BY <3>1, <3>2
  <2>4. CASE w = <<"USDC", "EURC">> /\ t = "EURC"
    <3>1. Len(w) = 2 /\ w[2] = t
      BY <2>4
    <3>2. ~(2 \in 1 .. n)
      BY <1>3, <3>1
    <3>3. n # 0
      <4>1. PICK i \in DOMAIN tokens : tokens[i] = "USDC"
        BY <2>4 DEF Range
      <4>2. QED
        BY <4>1, <1>3
    <3>4. n = 1
      BY <1>3, <3>2, <3>3
    <3>5. QED
      BY <3>1, <3>4
  <2>5. QED
    BY <2>1, <2>2, <2>3, <2>4
<1>5. PICK s : s = Append(tokens, t)
  OBVIOUS
<1>6. /\ s \in Seq(Symbols) /\ Len(s) = n + 1 /\ s[n + 1] = t
      /\ \A i \in 1 .. n : s[i] = tokens[i]
  BY <1>1, <1>2, <1>5
<1>7. Len(s) <= Len(w) /\ \A i \in 1 .. Len(s) : s[i] = w[i]
  <2>1. Len(s) <= Len(w)
    BY <1>3, <1>4, <1>6
  <2>2. ASSUME NEW i \in 1 .. Len(s)  PROVE s[i] = w[i]
    <3>1. CASE i = n + 1
      BY <3>1, <1>4, <1>6
    <3>2. CASE i # n + 1
      <4>1. i \in 1 .. n
        BY <3>2, <1>3, <1>6
      <4>2. QED
        BY <4>1, <1>3, <1>6
    <3>3. QED
      BY <3>1, <3>2
  <2>3. QED
    BY <2>1, <2>2
<1>8. IsPrefix(s, w)
  BY <1>2, <1>6, <1>7, PrefixIs
<1>9. QED
  BY <1>1, <1>5, <1>8

LEMMA Numbered ==
    ASSUME NEW tokens \in Seq(Symbols), Injective(tokens), NEW t \in Symbols, t \notin Range(tokens)
    PROVE  LET s == Append(tokens, t) IN
           /\ s \in Seq(Symbols) /\ Injective(s) /\ Range(s) = Range(tokens) \cup {t}
           /\ \A i \in DOMAIN tokens : i \in DOMAIN s /\ s[i] = tokens[i]
<1>1. PICK s, n : s = Append(tokens, t) /\ n = Len(tokens)
  OBVIOUS
<1>2. /\ n \in Nat /\ DOMAIN tokens = 1 .. n /\ DOMAIN s = 1 .. n + 1
      /\ s \in Seq(Symbols) /\ s[n + 1] = t /\ \A i \in 1 .. n : s[i] = tokens[i]
  BY <1>1
<1>3. \A i \in 1 .. n : tokens[i] # t
  BY <1>2 DEF Range
<1>4. Injective(s)
  <2> SUFFICES ASSUME NEW i \in 1 .. n + 1, NEW j \in 1 .. n + 1, s[i] = s[j]  PROVE i = j
    BY <1>2 DEF Injective
  <2>1. CASE i = n + 1
    <3>1. ~(j \in 1 .. n)
      BY <2>1, <1>2, <1>3
    <3>2. QED
      BY <2>1, <3>1, <1>2
  <2>2. CASE i # n + 1
    <3>1. i \in 1 .. n
      BY <2>2, <1>2
    <3>2. j # n + 1
      BY <3>1, <1>2, <1>3
    <3>3. j \in 1 .. n
      BY <3>2, <1>2
    <3>4. QED
      BY <3>1, <3>3, <1>2 DEF Injective
  <2>3. QED
    BY <2>1, <2>2
<1>5. Range(s) = Range(tokens) \cup {t}
  <2>1. \A x : x \in Range(s) <=> \E i \in 1 .. n + 1 : s[i] = x
    BY <1>2 DEF Range
  <2>2. \A x : x \in Range(tokens) <=> \E i \in 1 .. n : tokens[i] = x
    BY <1>2 DEF Range
  <2>3. n + 1 \in 1 .. n + 1 /\ (\A i \in 1 .. n : i \in 1 .. n + 1)
        /\ \A i \in 1 .. n + 1 : i = n + 1 \/ i \in 1 .. n
    BY <1>2
  <2>4. \A x : x \in Range(s) => x \in Range(tokens) \cup {t}
    BY <2>1, <2>2, <2>3, <1>2
  <2>5. \A x : x \in Range(tokens) \cup {t} => x \in Range(s)
    BY <2>1, <2>2, <2>3, <1>2
  <2>6. QED
    BY <2>4, <2>5
<1>6. \A i \in DOMAIN tokens : i \in DOMAIN s /\ s[i] = tokens[i]
  BY <1>2
<1>7. QED
  BY <1>1, <1>2, <1>4, <1>5, <1>6

LEMMA DepositTokenKeeps ==
    ASSUME IInv, NEW t \in Range(wrappedTokens), DepositToken(t)
    PROVE  IInv'
<1>1. PICK a, tokens, id : a = Converter /\ tokens = Deposited(a, t) /\ id = PositionIn(tokens, t)
  OBVIOUS
<1>2. /\ Doing("deposit", t) /\ UNCHANGED <<explorer, fileVars, countVars>>
      /\ code' = [code EXCEPT ![a].tokens = tokens, ![a].seeded[t] = @ + 1]
      /\ funds' = [funds EXCEPT ![t] = @ - 1]
      /\ console' = [Onward(console, 1) EXCEPT !.ids[t] = id]
  BY <1>1 DEF DepositToken
<1>3. UNCHANGED <<explorer, manifest, config, keyFile, sources, marker, network,
                  carriedOver, crashes, strangers, replaced>>
  BY <1>2 DEF fileVars, ceremonyVars, countVars
<1>4. CodeInv /\ FilesInv /\ ConsoleInv
  BY DEF IInv
<1>5. /\ <<"deposit", t>> \in TokenSteps /\ AddressRecorded /\ OnMainnet
      /\ a \in DOMAIN code /\ HasCode(Converter) /\ IdsKnown /\ (t = "EURC" => Known("USDC"))
      /\ code[a].seeded[t] = 0 /\ funds[t] > 0
  BY <1>1, <1>2, <1>4, DepositStepIs DEF HasCode
<1>6. t \in Symbols
  BY TokensAre
<1>7. PICK b : b = code[a]
  OBVIOUS
<1>8. /\ b \in Contracts /\ b.tokens \in Seq(Symbols) /\ Injective(b.tokens)
      /\ b.seeded \in [Symbols -> Nat] /\ b.seeded[t] = 0
  <2>1. b \in Contracts /\ b.tokens \in Seq(Symbols) /\ Injective(b.tokens)
    BY <1>4, <1>5, <1>7, ContractIs
  <2>2. QED
    BY <2>1, <1>5, <1>7 DEF Contracts
<1>9. /\ t \in Range(b.tokens) => tokens = b.tokens
      /\ t \notin Range(b.tokens) => tokens = Append(b.tokens, t)
  BY <1>1, <1>4, <1>5, <1>7, TokenIdBound DEF Deposited
<1>10. /\ tokens \in Seq(Symbols) /\ Injective(tokens) /\ Range(tokens) = Range(b.tokens) \cup {t}
       /\ \A i \in DOMAIN b.tokens : i \in DOMAIN tokens /\ tokens[i] = b.tokens[i]
  <2>1. CASE t \in Range(b.tokens)
    BY <2>1, <1>8, <1>9
  <2>2. CASE t \notin Range(b.tokens)
    <3>1. PICK old : old = b.tokens
      OBVIOUS
    <3>2. old \in Seq(Symbols) /\ Injective(old) /\ t \notin Range(old) /\ tokens = Append(old, t)
      BY <2>2, <3>1, <1>8, <1>9
    <3>3. PICK new : new = Append(old, t)
      OBVIOUS
    <3>4. /\ new \in Seq(Symbols) /\ Injective(new) /\ Range(new) = Range(old) \cup {t}
          /\ \A i \in DOMAIN old : i \in DOMAIN new /\ new[i] = old[i]
      BY <3>2, <3>3, <1>6, Numbered
    <3>5. QED
      BY <3>1, <3>2, <3>3, <3>4
  <2>3. QED
    BY <2>1, <2>2
<1>11. PICK seeded : seeded = [b.seeded EXCEPT ![t] = b.seeded[t] + 1]
  OBVIOUS
<1>12. seeded \in [Symbols -> Nat] /\ seeded[t] = 1 /\ \A u \in Symbols : u # t => seeded[u] = b.seeded[u]
  BY <1>6, <1>8, <1>11
<1>13. PICK c : c = [b EXCEPT !.tokens = tokens, !.seeded = seeded]
  OBVIOUS
<1>14. /\ c \in Contracts /\ c.kind = b.kind /\ c.setup = b.setup /\ c.uses = b.uses /\ c.keys = b.keys
       /\ c.auditor = b.auditor /\ c.depositors = b.depositors /\ c.settings = b.settings
       /\ c.tokens = tokens /\ c.seeded = seeded
  BY <1>8, <1>10, <1>12, <1>13 DEF Contracts
<1>15. code' = [code EXCEPT ![a] = c]
  <2>1. PICK s : s = code
    OBVIOUS
  <2>2. s \in Seq(Contracts) /\ a \in DOMAIN s /\ b = s[a]
    BY <2>1, <1>4, <1>5, <1>7 DEF CodeInv
  <2>3. code' = [s EXCEPT ![a].tokens = tokens, ![a].seeded[t] = @ + 1]
    BY <2>1, <1>2
  <2>4. code' = [s EXCEPT ![a] = c]
    BY <2>2, <2>3, <1>8, <1>11, <1>13 DEF Contracts
  <2>5. QED
    BY <2>1, <2>4
<1>16. Later(code[a], c)
  BY <1>7, <1>10, <1>14 DEF Later
<1>17. /\ DOMAIN code' = DOMAIN code /\ code'[a] = c /\ CodeLater
       /\ \A d \in DOMAIN code : d # a => code'[d] = code[d]
  BY <1>4, <1>5, <1>14, <1>15, <1>16, ChangeOne
<1>18. wrappedTokens' = wrappedTokens /\ Converter' = a
  BY <1>1, <1>3 DEF wrappedTokens, Converter
<1>19. CodeInv'
  <2>1. ContractInv(a)
    BY <1>4, <1>5 DEF CodeInv
  <2>2. \A k : KnownKey(k)' = KnownKey(k)
    BY <1>3 DEF KnownKey
  <2>3. Range(tokens) \subseteq Range(wrappedTokens) \cup {"other"}
    BY <2>1, <1>7, <1>10 DEF ContractInv
  <2>4. strangers = 0 => IsPrefix(tokens, wrappedTokens)
    <3>1. strangers = 0 => IsPrefix(b.tokens, wrappedTokens)
      BY <2>1, <1>7 DEF ContractInv
    <3>2. t = "EURC" => "USDC" \in Range(b.tokens)
      BY <1>1, <1>5, <1>7 DEF Known
    <3>3. QED
      BY <3>1, <3>2, <1>8, <1>9, NextInOrder
  <2>5. \A u \in Symbols : seeded[u] <= 1 /\ (seeded[u] > 0 => u \in Range(tokens))
    <3> TAKE u \in Symbols
    <3>1. CASE u = t
      BY <3>1, <1>10, <1>12
    <3>2. CASE u # t
      BY <3>2, <2>1, <1>7, <1>10, <1>12 DEF ContractInv
    <3>3. QED
      BY <3>1, <3>2
  <2>6. ContractInv(a)'
    BY <2>1, <2>2, <2>3, <2>4, <2>5, <1>3, <1>7, <1>10, <1>14, <1>17, <1>18 DEF ContractInv, Injective
  <2>7. QED
    BY <2>6, <1>3, <1>4, <1>5, <1>14, <1>15, ChangeKeepsCode
<1>20. funds' \in [Symbols -> Nat]
  <2>1. funds \in [Symbols -> Nat] /\ funds[t] - 1 \in Nat
    BY <1>4, <1>5, <1>6 DEF FilesInv
  <2>2. QED
    BY <2>1, <1>2, <1>6
<1>21. id = TokenIdOf(a, t)' /\ id \in 0 .. Cardinality(Symbols) /\ t \in Range(code'[a].tokens)
  <2>1. PICK i \in DOMAIN tokens : tokens[i] = t
    BY <1>10 DEF Range
  <2>2. id = i
    <3>1. \A j \in DOMAIN tokens : tokens[j] = t => j = i
      BY <2>1, <1>10 DEF Injective
    <3>2. (CHOOSE j \in DOMAIN tokens : tokens[j] = t) = i
      BY <2>1, <3>1
    <3>3. QED
      BY <3>2, <1>1 DEF PositionIn
  <2>3. code'[a].tokens = tokens
    BY <1>14, <1>17
  <2>4. TokenIdOf(a, t)' = i
    BY <2>1, <2>3, <1>5, <1>10, <1>17, TokenIdIsLater
  <2>5. i \in 0 .. 4
    <3>1. Len(tokens) \in Nat /\ Len(tokens) <= 4
      BY <1>10, AtMostFour
    <3>2. i \in 1 .. Len(tokens)
      BY <2>1, <1>10
    <3>3. QED
      BY <3>1, <3>2
  <2>6. QED
    BY <2>2, <2>3, <2>4, <2>5, <1>10, SymbolCount
<1>22. ConsoleInv' /\ console'.address = console.address
  <2>1. ~MayEnd(<<"deposit", t>>)
    BY DEF MayEnd
  <2>2. /\ Follows(<<"deposit", t>>, Head(Drop(1))) /\ Path(Drop(1)) /\ Drop(1) # <<>>
        /\ Onward(console, 1) = [console EXCEPT !.steps = Drop(1)]
    BY <2>1, <1>2, <1>4, Advance
  <2>3. PICK s : s = Drop(1)
    OBVIOUS
  <2>4. PICK y : y = Head(s)
    OBVIOUS
  <2>5. Path(s) /\ s # <<>> /\ s \in Seq(Steps) /\ Follows(<<"deposit", t>>, y)
    BY <2>2, <2>3, <2>4 DEF Path
  <2>6. /\ console' \in Consoles /\ console'.steps = s /\ console'.address = console.address
        /\ console'.ids = [console.ids EXCEPT ![t] = id] /\ console'.expected = console.expected
    <3>1. PICK ids : ids = [console.ids EXCEPT ![t] = id]
      OBVIOUS
    <3>2. console \in Consoles
      BY <1>4 DEF ConsoleInv
    <3>3. ids \in [Symbols -> 0 .. Cardinality(Symbols)]
      BY <3>1, <3>2, <1>21 DEF Consoles
    <3>4. console' = [[console EXCEPT !.steps = s] EXCEPT !.ids = ids]
      BY <3>1, <3>2, <2>2, <2>3, <1>2 DEF Consoles
    <3>5. QED
      BY <3>1, <3>2, <3>3, <3>4, <2>5 DEF Consoles
  <2>7. /\ y \in TokenSteps /\ y[1] \in {"approve", "write"}
        /\ y[1] = "approve" => y[2] \in Range(wrappedTokens)
        /\ y[2] = "EURC" => t = "USDC"
    BY <2>5, <1>5, AfterToken
  <2>8. Fact(y)'
    <3>1. OnMainnet'
      BY <1>3, <1>5, <2>6, MainnetSame
    <3>2. AddressRecorded'
      <4>1. \A d \in DOMAIN code : code'[d].kind = code[d].kind
        BY <1>7, <1>14, <1>17
      <4>2. QED
        BY <4>1, <1>3, <1>5, <1>17, <2>6 DEF AddressRecorded, Recorded
    <3>3. Known(t)' /\ TokenIdOf(Converter, t)' = id
      BY <1>18, <1>21 DEF Known, TokenIdOf
    <3>4. IdsKnown'
      <4>1. console.ids \in [Symbols -> 0 .. Cardinality(Symbols)]
        BY <1>4 DEF ConsoleInv, Consoles
      <4>2. ASSUME NEW u \in Symbols, console'.ids[u] # 0
            PROVE  Known(u)' /\ console'.ids[u] = TokenIdOf(Converter, u)'
        <5>1. CASE u = t
          BY <5>1, <4>1, <3>3, <2>6
        <5>2. CASE u # t
          <6>1. console'.ids[u] = console.ids[u] /\ console.ids[u] # 0
            BY <5>2, <4>1, <4>2, <2>6
          <6>2. Known(u) /\ console.ids[u] = TokenIdOf(Converter, u)
            BY <6>1, <1>5 DEF IdsKnown
          <6>3. QED
            BY <6>1, <6>2, <1>3, <1>4, <1>5, <1>17, <1>19, KnownLater
        <5>3. QED
          BY <5>1, <5>2
      <4>3. QED
        BY <4>2 DEF IdsKnown
    <3>5. HasCode(Converter)'
      BY <1>5, <1>17, <1>18 DEF HasCode
    <3>6. y[2] = "EURC" => Known("USDC")'
      BY <3>3, <2>7
    <3>7. QED
      BY <2>7, <3>1, <3>2, <3>4, <3>5, <3>6, <1>18, ToTokenFact
  <2>9. QED
    BY <2>4, <2>5, <2>6, <2>8, <1>3, GoesOn
<1>23. strangers' \in Nat
  BY <1>3, <1>4 DEF FilesInv
<1>24. QED
  BY <1>3, <1>5, <1>17, <1>19, <1>20, <1>22, <1>23, CodeStep

LEMMA WriteTokensKeeps ==
    ASSUME IInv, WriteTokens
    PROVE  IInv'
<1>1. /\ Doing("write", "tokens") /\ Proceed
      /\ manifest' = [manifest EXCEPT !.tokens = console.ids]
      /\ UNCHANGED <<chainVars, ceremonyVars, config, keyFile, countVars>>
  BY DEF WriteTokens
<1>2. UNCHANGED <<code, explorer, funds, config, keyFile, sources, marker, network,
                  carriedOver, crashes, strangers, replaced>>
  BY <1>1 DEF chainVars, ceremonyVars, countVars
<1>3. CodeInv /\ FilesInv /\ ConsoleInv /\ ManifestTrue
  BY DEF IInv
<1>4. AddressRecorded /\ HasCode(Converter) /\ IdsKnown /\ <<"write", "tokens">> \in TokenSteps
  BY <1>1, <1>3, TokenStepIs, TokenFactIs
<1>5. console.ids \in [Symbols -> 0 .. Cardinality(Symbols)]
  BY <1>3 DEF ConsoleInv, Consoles
<1>6. /\ manifest'.address = manifest.address /\ manifest'.verified = manifest.verified
      /\ manifest'.auditor = manifest.auditor /\ manifest'.tokens = console.ids
      /\ manifest' \in [address : [Paths -> {Stale, 0} \cup DOMAIN code], verified : SUBSET Paths,
                        auditor : Keys, tokens : [Symbols -> 0 .. Cardinality(Symbols)]]
  BY <1>1, <1>3, <1>5 DEF FilesInv
<1>7. ASSUME NEW t \in Symbols, console.ids[t] # 0
      PROVE  /\ HasCode(Converter) /\ console.ids[t] = TokenIdOf(Converter, t)
             /\ strangers = 0 => wrappedTokens[console.ids[t]] = t
  <2>1. PICK c, id : c = Converter /\ id = console.ids[t]
    OBVIOUS
  <2>2. c \in DOMAIN code /\ id = TokenIdOf(c, t) /\ id # 0
    BY <2>1, <1>4, <1>7 DEF HasCode, IdsKnown
  <2>3. PICK tokens : tokens = code[c].tokens
    OBVIOUS
  <2>4. tokens \in Seq(Symbols) /\ id \in DOMAIN tokens /\ tokens[id] = t
    BY <2>2, <2>3, <1>3, TokenIdBound, ContractIs
  <2>5. strangers = 0 => IsPrefix(tokens, wrappedTokens)
    BY <2>2, <2>3, <1>3 DEF CodeInv, ContractInv
  <2>6. wrappedTokens \in Seq(Symbols) /\ id \in 1 .. Len(tokens)
    BY <2>4, TokensAre
  <2>7. strangers = 0 => wrappedTokens[id] = t
    BY <2>4, <2>5, <2>6, PrefixIs
  <2>8. QED
    BY <2>1, <2>2, <2>7, <1>4
<1>8. ManifestTrue'
  <2>1. \A p \in manifest'.verified : manifest.address[p] \in explorer'
    BY <1>2, <1>3, <1>6 DEF ManifestTrue
  <2>2. QED
    BY <2>1, <1>2, <1>3, <1>6, <1>7, ManifestWritten
<1>9. ASSUME NEW y \in Steps, Follows(<<"write", "tokens">>, y)
      PROVE  Fact(y)'
  BY <1>4, <1>9, NextOfToken
<1>10. ConsoleInv'
  BY <1>9, <1>1, <1>2, <1>3, Proceeds
<1>11. QED
  BY <1>2, <1>4, <1>6, <1>8, <1>10, ManifestStep

-----------------------------------------------------------------------------
(* The router and the private gift escrow.                                 *)

LEMMA AppStepIs ==
    ASSUME IInv, NEW op, NEW p, Doing(op, p), <<op, p>> \in AppSteps, op # "deploy"
    PROVE  /\ AddressRecorded /\ network # "benzonet" /\ AppFact(op, p)
           /\ console.address \in DOMAIN code /\ console.address = Len(code) /\ code # <<>>
           /\ code[console.address].kind = p
           /\ \A q \in Uses(p) : code[console.address].uses[q] \in DOMAIN code
<1>1. AddressRecorded /\ network # "benzonet" /\ AppFact(op, p)
  BY AtApp DEF IInv
<1>2. console.address = Len(code) /\ code # <<>> /\ code[console.address].kind = p
  BY <1>1 DEF AppFact
<1>3. console.address \in DOMAIN code
  <2>1. PICK s : s = code
    OBVIOUS
  <2>2. s \in Seq(Contracts) /\ s # <<>>
    BY <2>1, <1>2 DEF IInv, CodeInv
  <2>3. Len(s) \in DOMAIN s
    BY <2>2
  <2>4. QED
    BY <2>1, <2>3, <1>2
<1>4. \A q \in Uses(p) : code[console.address].uses[q] \in DOMAIN code
  BY <1>2, <1>3 DEF IInv, CodeInv, ContractInv
<1>5. QED
  BY <1>1, <1>2, <1>3, <1>4

LEMMA NotEmpty ==
    ASSUME NEW s, NEW a \in DOMAIN s
    PROVE  s # <<>>
<1>1. DOMAIN <<>> = {}
  OBVIOUS
<1>2. QED
  BY <1>1

LEMMA ConfigureKeeps ==
    ASSUME IInv, NEW op \in {"allow", "map", "relayer"}, Configure(op)
    PROVE  IInv'
<1>1. PICK a : a = console.address
  OBVIOUS
<1>2. PICK b : b = code[a]
  OBVIOUS
<1>3. PICK settings : settings = b.settings \cup {op}
  OBVIOUS
<1>4. PICK c : c = [b EXCEPT !.settings = settings]
  OBVIOUS
<1>5. /\ Doing(op, "router") /\ Proceed /\ UNCHANGED <<explorer, funds, fileVars, countVars>>
      /\ code' = [code EXCEPT ![a] = c]
  BY <1>1, <1>2, <1>3, <1>4 DEF Configure
<1>6. UNCHANGED <<explorer, funds, manifest, config, keyFile, sources, marker, network,
                  carriedOver, crashes, strangers, replaced>>
  BY <1>5 DEF fileVars, ceremonyVars, countVars
<1>7. CodeInv /\ FilesInv /\ ConsoleInv
  BY DEF IInv
<1>8. <<op, "router">> \in AppSteps /\ op # "deploy"
  BY DEF AppSteps
<1>9. /\ AddressRecorded /\ network # "benzonet" /\ AppFact(op, "router")
      /\ a \in DOMAIN code /\ a = Len(code) /\ code # <<>> /\ b.kind = "router"
  BY <1>1, <1>2, <1>5, <1>8, AppStepIs
<1>10. b \in Contracts /\ b.settings \subseteq AllSettings
  BY <1>2, <1>7, <1>9, ContractIs
<1>11. /\ c \in Contracts /\ c.kind = b.kind /\ c.setup = b.setup /\ c.uses = b.uses
       /\ c.auditor = b.auditor /\ c.tokens = b.tokens /\ c.depositors = b.depositors
       /\ c.settings = settings /\ c.seeded = b.seeded /\ c.keys = b.keys
  <2>1. settings \in SUBSET AllSettings
    BY <1>3, <1>10 DEF AllSettings
  <2>2. QED
    BY <2>1, <1>4, <1>10 DEF Contracts
<1>12. Later(code[a], c)
  BY <1>2, <1>3, <1>11 DEF Later
<1>13. /\ DOMAIN code' = DOMAIN code /\ Len(code') = Len(code) /\ code'[a] = c /\ CodeLater
       /\ \A d \in DOMAIN code : d # a => code'[d] = code[d]
  BY <1>5, <1>7, <1>9, <1>11, <1>12, ChangeOne
<1>14. CodeInv'
  <2>1. ContractInv(a)
    BY <1>7, <1>9 DEF CodeInv
  <2>2. \A k : KnownKey(k)' = KnownKey(k)
    BY <1>6 DEF KnownKey
  <2>3. wrappedTokens' = wrappedTokens
    BY <1>6 DEF wrappedTokens
  <2>4. ContractInv(a)'
    BY <2>1, <2>2, <2>3, <1>2, <1>6, <1>11, <1>13 DEF ContractInv
  <2>5. QED
    BY <2>4, <1>5, <1>6, <1>7, <1>9, <1>11, ChangeKeepsCode
<1>15. ASSUME NEW y \in Steps, Follows(<<op, "router">>, y), console'.address = console.address
       PROVE  Fact(y)'
  <2>1. PICK x : x = <<op, "router">>
    OBVIOUS
  <2>2. y \in AppSteps /\ FollowsApp(x, y) /\ x[1] = op /\ x[2] = "router"
    BY <2>1, <1>8, <1>15, NextOfApp
  <2>3. /\ y[2] = "router"
        /\ op = "allow" => y[1] = "map"
        /\ op = "map" => y[1] = "relayer"
        /\ op = "relayer" => y[1] = "authorize"
    BY <2>2 DEF FollowsApp
  <2>4. SettingsAt[op] \subseteq b.settings
    BY <1>1, <1>2, <1>9 DEF AppFact, AllSettings
  <2>5. /\ y[1] \in {"map", "relayer", "authorize"}
        /\ y[1] \in AllSettings => SettingsAt[y[1]] \subseteq settings
        /\ y[1] \notin AllSettings => settings = AllSettings
    BY <2>3, <2>4, <1>3, <1>10 DEF SettingsAt, AllSettings
  <2>6. console'.address = a /\ a = Len(code') /\ code' # <<>> /\ code'[a] = c
    BY <1>1, <1>9, <1>13, <1>15, NotEmpty
  <2>7. AppFact(y[1], "router")'
    BY <2>5, <2>6, <1>9, <1>11 DEF AppFact
  <2>8. AddressRecorded'
    <3>1. \A d \in DOMAIN code : code'[d].kind = code[d].kind
      BY <1>2, <1>11, <1>13
    <3>2. QED
      BY <3>1, <1>6, <1>9, <1>13, <1>15 DEF AddressRecorded, Recorded
  <2>9. QED
    BY <2>2, <2>3, <2>7, <2>8, <1>6, <1>9, ToApp
<1>16. ConsoleInv'
  BY <1>15, <1>5, <1>6, <1>7, Proceeds
<1>17. funds' \in [Symbols -> Nat] /\ strangers' \in Nat
  BY <1>6, <1>7 DEF FilesInv
<1>18. QED
  BY <1>6, <1>9, <1>13, <1>14, <1>16, <1>17, CodeStep

LEMMA AuthorizeKeeps ==
    ASSUME IInv, NEW p \in {"router", "privateGiftEscrow"}, Authorize(p)
    PROVE  IInv'
<1>1. PICK a : a = console.address
  OBVIOUS
<1>2. PICK e : e = code[a].uses["encryptedERC"]
  OBVIOUS
<1>3. PICK b : b = code[e]
  OBVIOUS
<1>4. PICK depositors : depositors = b.depositors \cup {a}
  OBVIOUS
<1>5. PICK c : c = [b EXCEPT !.depositors = depositors]
  OBVIOUS
<1>6. /\ Doing("authorize", p) /\ Proceed /\ UNCHANGED <<explorer, funds, fileVars, countVars>>
      /\ code' = [code EXCEPT ![e] = c]
  BY <1>1, <1>2, <1>3, <1>4, <1>5 DEF Authorize
<1>7. UNCHANGED <<explorer, funds, manifest, config, keyFile, sources, marker, network,
                  carriedOver, crashes, strangers, replaced>>
  BY <1>6 DEF fileVars, ceremonyVars, countVars
<1>8. CodeInv /\ FilesInv /\ ConsoleInv
  BY DEF IInv
<1>9. <<"authorize", p>> \in AppSteps
  BY DEF AppSteps
<1>10. /\ AddressRecorded /\ network # "benzonet" /\ AppFact("authorize", p)
       /\ a \in DOMAIN code /\ a = Len(code) /\ code # <<>> /\ code[a].kind = p
       /\ e \in DOMAIN code /\ a \in Nat
  <2>1. "encryptedERC" \in Uses(p)
    BY UsesOf
  <2>2. /\ AddressRecorded /\ network # "benzonet" /\ AppFact("authorize", p)
        /\ a \in DOMAIN code /\ a = Len(code) /\ code # <<>> /\ code[a].kind = p
        /\ e \in DOMAIN code
    BY <2>1, <1>1, <1>2, <1>6, <1>9, AppStepIs
  <2>3. a \in Nat
    BY <2>2, <1>8, ContractIs
  <2>4. QED
    BY <2>2, <2>3
<1>11. b \in Contracts
  BY <1>3, <1>8, <1>10, ContractIs
<1>12. /\ c \in Contracts /\ c.kind = b.kind /\ c.setup = b.setup /\ c.uses = b.uses
       /\ c.auditor = b.auditor /\ c.tokens = b.tokens /\ c.depositors = depositors
       /\ c.settings = b.settings /\ c.seeded = b.seeded /\ c.keys = b.keys
  <2>1. depositors \in SUBSET Nat
    BY <1>4, <1>10, <1>11 DEF Contracts
  <2>2. QED
    BY <2>1, <1>5, <1>11 DEF Contracts
<1>13. Later(code[e], c)
  BY <1>3, <1>4, <1>12 DEF Later
<1>14. /\ DOMAIN code' = DOMAIN code /\ Len(code') = Len(code) /\ code'[e] = c /\ CodeLater
       /\ \A d \in DOMAIN code : d # e => code'[d] = code[d]
  BY <1>6, <1>8, <1>10, <1>12, <1>13, ChangeOne
<1>15. CodeInv'
  <2>1. ContractInv(e)
    BY <1>8, <1>10 DEF CodeInv
  <2>2. \A k : KnownKey(k)' = KnownKey(k)
    BY <1>7 DEF KnownKey
  <2>3. wrappedTokens' = wrappedTokens
    BY <1>7 DEF wrappedTokens
  <2>4. ContractInv(e)'
    BY <2>1, <2>2, <2>3, <1>3, <1>7, <1>12, <1>14 DEF ContractInv
  <2>5. QED
    BY <2>4, <1>6, <1>7, <1>8, <1>10, <1>12, ChangeKeepsCode
<1>16. ASSUME NEW y \in Steps, Follows(<<"authorize", p>>, y), console'.address = console.address
       PROVE  Fact(y)'
  <2>1. PICK x : x = <<"authorize", p>>
    OBVIOUS
  <2>2. y \in AppSteps /\ FollowsApp(x, y) /\ x[1] = "authorize" /\ x[2] = p
    BY <2>1, <1>9, <1>16, NextOfApp
  <2>3. y[2] = p /\ y[1] = "verify"
    BY <2>2 DEF FollowsApp
  <2>4. p = "router" => code[a].settings = AllSettings
    BY <1>1, <1>10 DEF AppFact, AllSettings
  <2>5. /\ code'[a].settings = code[a].settings /\ code'[a].kind = p
        /\ code'[a].uses = code[a].uses
    BY <1>3, <1>10, <1>12, <1>14
  <2>6. a \in code'[code'[a].uses["encryptedERC"]].depositors
    BY <2>5, <1>2, <1>4, <1>12, <1>14
  <2>7. console'.address = a /\ a = Len(code') /\ code' # <<>>
    BY <1>1, <1>10, <1>14, <1>16, NotEmpty
  <2>8. AppFact("verify", p)'
    BY <2>4, <2>5, <2>6, <2>7 DEF AppFact, AllSettings
  <2>9. AddressRecorded'
    <3>1. \A d \in DOMAIN code : code'[d].kind = code[d].kind
      BY <1>3, <1>12, <1>14
    <3>2. QED
      BY <3>1, <1>7, <1>10, <1>14, <1>16 DEF AddressRecorded, Recorded
  <2>10. QED
    BY <2>2, <2>3, <2>8, <2>9, <1>7, <1>10, ToApp
<1>17. ConsoleInv'
  BY <1>16, <1>6, <1>7, <1>8, Proceeds
<1>18. funds' \in [Symbols -> Nat] /\ strangers' \in Nat
  BY <1>7, <1>8 DEF FilesInv
<1>19. QED
  BY <1>7, <1>10, <1>14, <1>15, <1>17, <1>18, CodeStep

LEMMA WriteConfigKeeps ==
    ASSUME IInv, NEW p \in {"router", "privateGiftEscrow"}, WriteConfig(p)
    PROVE  IInv'
<1>1. PICK a : a = console.address
  OBVIOUS
<1>2. /\ Doing("config", p) /\ Proceed
      /\ config' = [config EXCEPT ![p] = a]
      /\ UNCHANGED <<chainVars, ceremonyVars, manifest, keyFile, countVars>>
  BY <1>1 DEF WriteConfig
<1>3. UNCHANGED <<code, explorer, funds, manifest, keyFile, sources, marker, network,
                  carriedOver, crashes, strangers, replaced>>
  BY <1>2 DEF chainVars, ceremonyVars, countVars
<1>4. CodeInv /\ FilesInv /\ ConsoleInv /\ ManifestTrue /\ RoutesWork
  BY DEF IInv
<1>5. <<"config", p>> \in AppSteps
  BY DEF AppSteps
<1>6. AddressRecorded /\ AppFact("config", p) /\ a \in DOMAIN code
  BY <1>1, <1>2, <1>5, AppStepIs
<1>7. manifest.address[p] = a /\ a \in Nat \ {0}
  BY <1>1, <1>4, <1>6, ContractIs DEF AppFact
<1>8. CodeInv' /\ CodeLater
  BY <1>3, <1>4, CodeSame, CodeUnchanged
<1>9. FilesInv'
  BY <1>2, <1>3, <1>4, <1>6 DEF FilesInv
<1>10. ManifestTrue'
  BY <1>3, <1>4, <1>8, ManifestOfLater
<1>11. RoutesWork'
  <2> SUFFICES ASSUME NEW r \in {"router", "privateGiftEscrow"}
               PROVE  /\ \A b \in {config'[r], manifest.address[r]} \ {0} :
                            /\ code[b].kind = r
                            /\ b \in code[code[b].uses["encryptedERC"]].depositors
                            /\ r = "router" => code[b].settings = {"allow", "map", "relayer"}
                      /\ config'[r] <= manifest.address[r]
    BY <1>3 DEF RoutesWork, Routes
  <2>1. /\ \A b \in {config[r], manifest.address[r]} \ {0} :
              /\ code[b].kind = r
              /\ b \in code[code[b].uses["encryptedERC"]].depositors
              /\ r = "router" => code[b].settings = {"allow", "map", "relayer"}
        /\ config[r] <= manifest.address[r]
    BY <1>4 DEF RoutesWork, Routes
  <2>2. config \in [{"router", "privateGiftEscrow"} -> {0} \cup DOMAIN code]
    BY <1>4 DEF FilesInv
  <2>3. CASE r = p
    <3>1. config'[r] = manifest.address[r] /\ config'[r] \in Nat
      BY <2>2, <2>3, <1>2, <1>7
    <3>2. config'[r] <= manifest.address[r]
      BY <3>1
    <3>3. QED
      BY <2>1, <3>1, <3>2
  <2>4. CASE r # p
    <3>1. config'[r] = config[r]
      BY <2>2, <2>4, <1>2
    <3>2. QED
      BY <2>1, <3>1
  <2>5. QED
    BY <2>3, <2>4
<1>12. ConsoleInv'
  <2>1. ASSUME NEW y \in Steps, Follows(<<"config", p>>, y)  PROVE FALSE
    <3>1. PICK x : x = <<"config", p>>
      OBVIOUS
    <3>2. FollowsApp(x, y) /\ x[1] = "config"
      BY <2>1, <3>1, <1>5, NextOfApp
    <3>3. QED
      BY <3>2 DEF FollowsApp
  <2>2. QED
    BY <2>1, <1>2, <1>3, <1>4, Proceeds
<1>13. (Lost \ replaced)' \subseteq Lost \ replaced
  BY <1>3, <1>6, <1>8, LostKept
<1>14. (Cardinality(Lost \ replaced) <= crashes)'
  BY <1>3, <1>4, <1>8, <1>13, LostCount DEF IInv
<1>15. QED
  BY <1>8, <1>9, <1>10, <1>11, <1>12, <1>14 DEF IInv

-----------------------------------------------------------------------------
(* The ceremony.                                                           *)

LEMMA RestHas ==
    ASSUME NEW S, NEW s \in Seq(S), NEW x \in Range(s), x # s[1]
    PROVE  x \in Range(SubSeq(s, 1 + 1, Len(s)))
<1>1. PICK n \in Nat : n = Len(s) /\ DOMAIN s = 1 .. n
  OBVIOUS
<1>2. PICK i \in 1 .. n : s[i] = x
  BY <1>1 DEF Range
<1>3. i # 1
  BY <1>2
<1>4. i \in 2 .. n /\ i - 1 \in 1 .. n - 1
  BY <1>1, <1>2, <1>3
<1>5. PICK t : t = SubSeq(s, 2, n)
  OBVIOUS
<1>6. Len(t) = n - 1 /\ DOMAIN t = 1 .. n - 1 /\ \A j \in 1 .. n - 1 : t[j] = s[j + 1]
  BY <1>1, <1>4, <1>5
<1>7. t[i - 1] = x
  <2>1. (i - 1) + 1 = i
    BY <1>1, <1>2
  <2>2. QED
    BY <2>1, <1>2, <1>4, <1>6
<1>8. x \in Range(t)
  BY <1>4, <1>6, <1>7 DEF Range
<1>9. SubSeq(s, 1 + 1, Len(s)) = t
  BY <1>1, <1>5
<1>10. QED
  BY <1>8, <1>9

LEMMA ExportVerifierKeeps ==
    ASSUME IInv, NEW c \in Range(Verifiers), ExportVerifier(c)
    PROVE  IInv'
<1>1. PICK u : u = console.setup
  OBVIOUS
<1>2. /\ Doing("export", c) /\ Proceed /\ sources' = [sources EXCEPT ![c] = u]
      /\ UNCHANGED <<chainVars, manifest, config, keyFile, marker, countVars>>
  BY <1>1 DEF ExportVerifier
<1>3. UNCHANGED <<code, explorer, funds, manifest, config, keyFile, marker, network,
                  carriedOver, crashes, strangers, replaced>>
  BY <1>2 DEF chainVars, countVars
<1>4. CodeInv /\ FilesInv /\ ConsoleInv /\ ManifestTrue /\ RoutesWork
  BY DEF IInv
<1>5. PICK x : x = <<"export", c>>
  OBVIOUS
<1>6. x \in CeremonySteps
  BY <1>5 DEF CeremonySteps
<1>7. AddressRecorded /\ CeremonyFact
  BY <1>2, <1>4, <1>5, <1>6, AtCeremony
<1>8. network = "avalanche" /\ u \in Ceremonies
  BY <1>1, <1>7 DEF CeremonyFact
<1>9. /\ sources' \in [Range(Verifiers) -> Setups] /\ sources'[c] = u
      /\ \A d \in Range(Verifiers) : d # c => sources'[d] = sources[d]
  BY <1>2, <1>4, <1>8 DEF FilesInv, Setups
<1>10. CodeInv' /\ CodeLater
  BY <1>3, <1>4, CodeSame, CodeUnchanged
<1>11. FilesInv'
  BY <1>3, <1>4, <1>9 DEF FilesInv
<1>12. ManifestTrue' /\ RoutesWork'
  BY <1>3, <1>4, <1>10, RecordsSame
<1>13. ASSUME NEW y \in Steps, Follows(<<"export", c>>, y), console'.address = console.address,
              console'.setup = console.setup, console'.steps = Drop(1)
       PROVE  Fact(y)'
  <2>1. y \in CeremonySteps
    BY <1>5, <1>6, <1>13, NextOfCeremony
  <2>2. ASSUME NEW d \in Range(Verifiers)
        PROVE  sources'[d] = u \/ <<"export", d>> \in Range(console'.steps)
    <3>1. CASE d = c
      BY <3>1, <1>9
    <3>2. CASE d # c
      <4>1. sources'[d] = sources[d]
        BY <3>2, <1>9
      <4>2. CASE sources[d] = u
        BY <4>1, <4>2
      <4>3. CASE sources[d] # u
        <5>1. PICK s, e : s = console.steps /\ e = <<"export", d>>
          OBVIOUS
        <5>2. s \in Seq(Steps) /\ s[1] = <<"export", c>>
          BY <5>1, <1>2, <1>4, FirstStep
        <5>3. e \in Range(s)
          BY <5>1, <4>3, <1>1, <1>7 DEF CeremonyFact
        <5>4. e # s[1]
          BY <5>1, <5>2, <3>2
        <5>5. e \in Range(SubSeq(s, 1 + 1, Len(s)))
          BY <5>2, <5>3, <5>4, RestHas
        <5>6. Drop(1) = SubSeq(s, 1 + 1, Len(s))
          BY <5>1 DEF Drop
        <5>7. QED
          BY <5>1, <5>5, <5>6, <1>13
      <4>4. QED
        BY <4>2, <4>3
    <3>3. QED
      BY <3>1, <3>2
  <2>3. CeremonyFact'
    BY <2>2, <1>1, <1>3, <1>8, <1>13 DEF CeremonyFact
  <2>4. AddressRecorded'
    BY <1>3, <1>7, <1>13, AddressSame
  <2>5. QED
    BY <2>1, <2>3, <2>4, ToCeremony
<1>14. ConsoleInv'
  BY <1>13, <1>2, <1>3, <1>4, Proceeds
<1>15. (Lost \ replaced)' \subseteq Lost \ replaced
  BY <1>3, <1>7, <1>10, LostKept
<1>16. (Cardinality(Lost \ replaced) <= crashes)'
  BY <1>3, <1>4, <1>10, <1>15, LostCount DEF IInv
<1>17. QED
  BY <1>10, <1>11, <1>12, <1>14, <1>16 DEF IInv

(* All verifiers were exported when they are attested.                     *)
LEMMA AttestCeremonyKeeps ==
    ASSUME IInv, AttestCeremony
    PROVE  IInv'
<1>1. /\ Doing("attest", "marker") /\ Proceed
      /\ marker' = [build |-> "ceremony", setups |-> sources]
      /\ UNCHANGED <<chainVars, manifest, config, keyFile, sources, countVars>>
  BY DEF AttestCeremony
<1>2. UNCHANGED <<code, explorer, funds, manifest, config, keyFile, sources, network,
                  carriedOver, crashes, strangers, replaced>>
  BY <1>1 DEF chainVars, countVars
<1>3. CodeInv /\ FilesInv /\ ConsoleInv /\ ManifestTrue /\ RoutesWork
  BY DEF IInv
<1>4. PICK x : x = <<"attest", "marker">>
  OBVIOUS
<1>5. x \in CeremonySteps
  BY <1>4 DEF CeremonySteps
<1>6. AddressRecorded /\ CeremonyFact
  BY <1>1, <1>3, <1>4, <1>5, AtCeremony
<1>7. Onward(console, 1) = Idle /\ console.steps = <<x>>
  <2>1. PICK y : y = Head(Drop(1))
    OBVIOUS
  <2>2. ~Follows(x, y)
    <3>1. x[1] # "export"
      BY <1>4
    <3>2. QED
      BY <3>1, <1>5, NextOfCeremony
  <2>3. QED
    BY <2>1, <2>2, <1>1, <1>3, <1>4, Advance
<1>8. \A c \in Range(Verifiers) : sources[c] \in Ceremonies
  <2> SUFFICES ASSUME NEW c \in Range(Verifiers)  PROVE sources[c] \in Ceremonies
    OBVIOUS
  <2>1. PICK e : e = <<"export", c>>
    OBVIOUS
  <2>2. Range(<<x>>) = {x}
    <3>1. DOMAIN <<x>> = {1} /\ <<x>>[1] = x
      OBVIOUS
    <3>2. QED
      BY <3>1 DEF Range
  <2>3. e # x
    BY <2>1, <1>4
  <2>4. <<"export", c>> \notin Range(console.steps)
    BY <2>1, <2>2, <2>3, <1>7
  <2>5. QED
    BY <2>4, <1>6 DEF CeremonyFact
<1>9. CodeInv' /\ CodeLater
  BY <1>2, <1>3, CodeSame, CodeUnchanged
<1>10. FilesInv'
  BY <1>1, <1>2, <1>3, <1>8 DEF FilesInv
<1>11. ManifestTrue' /\ RoutesWork'
  BY <1>2, <1>3, <1>9, RecordsSame
<1>12. ConsoleInv'
  BY <1>1, <1>7, StopsThere DEF Proceed
<1>13. (Lost \ replaced)' \subseteq Lost \ replaced
  BY <1>2, <1>6, <1>9, LostKept
<1>14. (Cardinality(Lost \ replaced) <= crashes)'
  BY <1>2, <1>3, <1>9, <1>13, LostCount DEF IInv
<1>15. QED
  BY <1>9, <1>10, <1>11, <1>12, <1>14 DEF IInv

-----------------------------------------------------------------------------
(* A stranger's deposit: a converter numbers one more token, and whatever  *)
(* the script that runs relies on stays so.                                *)

TokensOnly ==
    /\ CodeInv /\ CodeInv' /\ CodeLater
    /\ DOMAIN code' = DOMAIN code /\ Len(code') = Len(code) /\ (code' = <<>> => code = <<>>)
    /\ \A a \in DOMAIN code :
          /\ code'[a].kind = code[a].kind /\ code'[a].uses = code[a].uses
          /\ code'[a].keys = code[a].keys /\ code'[a].auditor = code[a].auditor
          /\ code'[a].depositors = code[a].depositors /\ code'[a].settings = code[a].settings
          /\ code'[a].seeded = code[a].seeded
    /\ UNCHANGED <<explorer, manifest, config, keyFile, sources, network, funds, console>>

LEMMA StackFactKept ==
    ASSUME TokensOnly, NEW op, NEW p, StackFact(op, p), op = "record" => console.address \in DOMAIN code
    PROVE  StackFact(op, p)'
BY DEF TokensOnly, StackFact, HasCode

LEMMA AuditorFactKept ==
    ASSUME TokensOnly, NEW op, AuditorFact(op)
    PROVE  AuditorFact(op)'
BY DEF TokensOnly, AuditorFact, HasCode, Converter

LEMMA TokenFactKept ==
    ASSUME TokensOnly, NEW y \in TokenSteps, AddressRecorded', OnMainnet', TokenFact(y[1], y[2])
    PROVE  Fact(y)'
<1>1. CASE y[1] = "order"
  <2>1. TokenFact(y[1], y[2])'
    BY <1>1 DEF TokensOnly, TokenFact
  <2>2. QED
    BY <2>1, ToToken
<1>2. CASE y[1] # "order"
  <2>1. PICK op, t : op = y[1] /\ t = y[2]
    OBVIOUS
  <2>2. /\ HasCode(Converter) /\ IdsKnown
        /\ op \in {"approve", "deposit"} => t \in Range(wrappedTokens)
        /\ t = "EURC" => Known("USDC")
        /\ op = "deposit" => code[Converter].seeded[t] = 0 /\ funds[t] > 0
    BY <2>1, <1>2, TokenFactIs
  <2>3. IdsKnown' /\ HasCode(Converter)'
    BY <2>2, IdsLater DEF TokensOnly
  <2>4. t = "EURC" => Known("USDC")'
    BY <2>2, KnownLater DEF TokensOnly
  <2>5. op \in {"approve", "deposit"} => t \in Range(wrappedTokens)'
    BY <2>2 DEF TokensOnly, wrappedTokens
  <2>6. op = "deposit" => code'[Converter'].seeded[t] = 0 /\ funds'[t] > 0
    BY <2>2 DEF TokensOnly, Converter, HasCode
  <2>7. QED
    BY <2>1, <2>3, <2>4, <2>5, <2>6, <1>2, ToTokenFact
<1>3. QED
  BY <1>1, <1>2

LEMMA AppFactKept ==
    ASSUME TokensOnly, NEW op, NEW p, AppFact(op, p), op # "deploy" => console.address \in DOMAIN code
    PROVE  AppFact(op, p)'
<1>1. CASE op = "deploy"
  BY <1>1 DEF AppFact
<1>2. CASE op # "deploy"
  <2>1. PICK a : a = console.address
    OBVIOUS
  <2>2. /\ a \in DOMAIN code /\ a = Len(code) /\ code # <<>> /\ code[a].kind = p
        /\ p = "router" => IF op \in AllSettings THEN SettingsAt[op] \subseteq code[a].settings
                           ELSE code[a].settings = AllSettings
        /\ p \in {"router", "privateGiftEscrow"} /\ op \in {"verify", "record", "config"} =>
               a \in code[code[a].uses["encryptedERC"]].depositors
        /\ op = "config" => manifest.address[p] = a
    BY <2>1, <1>2 DEF AppFact
  <2>3. /\ code'[a].kind = code[a].kind /\ code'[a].uses = code[a].uses
        /\ code'[a].settings = code[a].settings /\ manifest' = manifest /\ console' = console
        /\ Len(code') = Len(code) /\ code' # <<>>
    BY <2>2 DEF TokensOnly
  <2>4. p \in {"router", "privateGiftEscrow"} /\ op \in {"verify", "record", "config"} =>
            a \in code'[code'[a].uses["encryptedERC"]].depositors
    <3> SUFFICES ASSUME p \in {"router", "privateGiftEscrow"}, op \in {"verify", "record", "config"}
                 PROVE  a \in code'[code'[a].uses["encryptedERC"]].depositors
      OBVIOUS
    <3>1. "encryptedERC" \in Uses(p)
      BY UsesOf
    <3>2. code[a].uses["encryptedERC"] \in DOMAIN code
      BY <3>1, <2>2 DEF TokensOnly, CodeInv, ContractInv
    <3>3. PICK e : e = code[a].uses["encryptedERC"]
      OBVIOUS
    <3>4. code'[e].depositors = code[e].depositors
      BY <3>2, <3>3 DEF TokensOnly
    <3>5. QED
      BY <3>3, <3>4, <2>2, <2>3
  <2>5. QED
    BY <2>1, <2>2, <2>3, <2>4, <1>2 DEF AppFact
<1>3. QED
  BY <1>1, <1>2

LEMMA LastIs ==
    ASSUME CodeInv, code # <<>>
    PROVE  Len(code) \in DOMAIN code
<1>1. PICK s : s = code
  OBVIOUS
<1>2. s \in Seq(Contracts) /\ s # <<>>
  BY <1>1 DEF CodeInv
<1>3. Len(s) \in DOMAIN s
  BY <1>2
<1>4. QED
  BY <1>1, <1>3

LEMMA FactKept ==
    ASSUME TokensOnly, NEW x \in Steps, Fact(x)
    PROVE  Fact(x)'
<1>1. /\ CodeInv /\ DOMAIN code' = DOMAIN code
      /\ UNCHANGED <<explorer, manifest, config, keyFile, sources, network, funds, console>>
      /\ \A a \in DOMAIN code : code'[a].kind = code[a].kind
  BY DEF TokensOnly
<1>2. AddressRecorded => AddressRecorded'
  BY <1>1 DEF AddressRecorded, Recorded
<1>3. OnMainnet => OnMainnet'
  BY <1>1 DEF OnMainnet
<1>4. CASE x \in StackSteps
  <2>1. OnMainnet /\ console.ids = NoTokens /\ StackFact(x[1], x[2])
        /\ (x[1] = "record" \/ AddressRecorded)
    <3>1. x \notin {"record"} \X StackPaths \/ x[1] = "record"
      OBVIOUS
    <3>2. QED
      BY <3>1, <1>4, StackKind DEF Fact
  <2>2. x[1] = "record" => console.address \in DOMAIN code
    BY <2>1, <1>1, LastIs DEF StackFact
  <2>3. StackFact(x[1], x[2])'
    BY <2>1, <2>2, StackFactKept
  <2>4. QED
    BY <2>1, <2>3, <1>1, <1>2, <1>3, <1>4, ToStack
<1>5. ASSUME x \notin StackSteps  PROVE AddressRecorded
  BY <1>5 DEF Fact, StackSteps
<1>6. CASE x \in AuditorSteps
  <2>1. OnMainnet /\ console.ids = NoTokens /\ AuditorFact(x[1]) /\ AddressRecorded
    BY <1>5, <1>6, AuditorKind DEF Fact
  <2>2. AuditorFact(x[1])'
    BY <2>1, AuditorFactKept
  <2>3. QED
    BY <2>1, <2>2, <1>1, <1>2, <1>3, <1>6, ToAuditor
<1>7. CASE x \in TokenSteps
  <2>1. OnMainnet /\ TokenFact(x[1], x[2]) /\ AddressRecorded
    BY <1>5, <1>7, TokenKind DEF Fact
  <2>2. QED
    BY <2>1, <1>2, <1>3, <1>7, TokenFactKept
<1>8. CASE x = ClearStep
  <2>1. OnMainnet /\ console.ids = NoTokens /\ AddressRecorded /\ console.address = 0
    BY <1>5, <1>8, ClearKind DEF Fact
  <2>2. QED
    BY <2>1, <1>1, <1>2, <1>3, <1>8, ClearKind DEF Fact
<1>9. CASE x \in AppSteps
  <2>1. network # "benzonet" /\ AppFact(x[1], x[2]) /\ AddressRecorded
    BY <1>5, <1>9, AppKind DEF Fact
  <2>2. x[1] # "deploy" => console.address \in DOMAIN code
    BY <2>1, <1>1, LastIs DEF AppFact
  <2>3. AppFact(x[1], x[2])'
    BY <2>1, <2>2, AppFactKept
  <2>4. QED
    BY <2>1, <2>3, <1>1, <1>2, <1>9, ToApp
<1>10. CASE x \in CeremonySteps
  <2>1. CeremonyFact /\ AddressRecorded
    BY <1>5, <1>10, CeremonyKind DEF Fact
  <2>2. CeremonyFact'
    BY <2>1, <1>1 DEF CeremonyFact
  <2>3. QED
    BY <2>1, <2>2, <1>2, <1>10, ToCeremony
<1>11. QED
  BY <1>4, <1>6, <1>7, <1>8, <1>9, <1>10 DEF Steps, SetupSteps

LEMMA StrangerKeeps ==
    ASSUME IInv, NEW c \in DOMAIN code, NEW t \in Range(wrappedTokens) \cup {"other"}, Stranger(c, t)
    PROVE  IInv'
<1>1. PICK b : b = code[c]
  OBVIOUS
<1>2. PICK old : old = b.tokens
  OBVIOUS
<1>3. PICK tokens : tokens = Append(old, t)
  OBVIOUS
<1>4. PICK d : d = [b EXCEPT !.tokens = tokens]
  OBVIOUS
<1>5. /\ TokenIdOf(c, t) = 0 /\ code' = [code EXCEPT ![c] = d] /\ strangers' = strangers + 1
      /\ UNCHANGED <<explorer, funds, fileVars, network, carriedOver, scripts, crashes, replaced, console>>
  BY <1>1, <1>2, <1>3, <1>4 DEF Stranger
<1>6. UNCHANGED <<explorer, funds, manifest, config, keyFile, sources, marker, network,
                  carriedOver, crashes, replaced, console>>
  BY <1>5 DEF fileVars, ceremonyVars
<1>7. CodeInv /\ FilesInv /\ ConsoleInv
  BY DEF IInv
<1>8. b \in Contracts /\ old \in Seq(Symbols) /\ Injective(old) /\ t \notin Range(old) /\ t \in Symbols
  <2>1. b \in Contracts /\ old \in Seq(Symbols) /\ Injective(old)
    BY <1>1, <1>2, <1>7, ContractIs
  <2>2. t \notin Range(old)
    BY <1>1, <1>2, <1>5, <1>7, TokenIdBound
  <2>3. t \in Symbols
    BY TokensAre DEF Symbols
  <2>4. QED
    BY <2>1, <2>2, <2>3
<1>9. /\ tokens \in Seq(Symbols) /\ Injective(tokens) /\ Range(tokens) = Range(old) \cup {t}
      /\ \A i \in DOMAIN old : i \in DOMAIN tokens /\ tokens[i] = old[i]
  BY <1>3, <1>8, Numbered
<1>10. /\ d \in Contracts /\ d.kind = b.kind /\ d.setup = b.setup /\ d.uses = b.uses
       /\ d.auditor = b.auditor /\ d.tokens = tokens /\ d.depositors = b.depositors
       /\ d.settings = b.settings /\ d.seeded = b.seeded /\ d.keys = b.keys
  BY <1>4, <1>8, <1>9 DEF Contracts
<1>11. Later(code[c], d)
  BY <1>1, <1>2, <1>9, <1>10 DEF Later
<1>12. /\ DOMAIN code' = DOMAIN code /\ Len(code') = Len(code) /\ code'[c] = d /\ CodeLater
       /\ \A a \in DOMAIN code : a # c => code'[a] = code[a]
  BY <1>5, <1>7, <1>10, <1>11, ChangeOne
<1>13. strangers \in Nat /\ strangers' \in Nat /\ strangers' # 0
  <2>1. strangers \in Nat
    BY <1>7 DEF FilesInv
  <2>2. QED
    BY <2>1, <1>5
<1>14. CodeInv'
  <2>1. ContractInv(c)
    BY <1>7 DEF CodeInv
  <2>2. \A k : KnownKey(k)' = KnownKey(k)
    BY <1>6 DEF KnownKey
  <2>3. wrappedTokens' = wrappedTokens
    BY <1>6 DEF wrappedTokens
  <2>4. Range(tokens) \subseteq Range(wrappedTokens) \cup {"other"}
    BY <2>1, <1>1, <1>2, <1>9 DEF ContractInv
  <2>5. \A u \in Symbols : b.seeded[u] <= 1 /\ (b.seeded[u] > 0 => u \in Range(tokens))
    BY <2>1, <1>1, <1>2, <1>9 DEF ContractInv
  <2>6. ContractInv(c)'
    BY <2>1, <2>2, <2>3, <2>4, <2>5, <1>1, <1>6, <1>9, <1>10, <1>12, <1>13
       DEF ContractInv, Injective
  <2>7. QED
    BY <2>6, <1>5, <1>6, <1>7, <1>10, <1>13, ChangeKeepsCode
<1>15. TokensOnly
  <2>1. code' # <<>>
    BY <1>12, NotEmpty
  <2>2. \A a \in DOMAIN code :
          /\ code'[a].kind = code[a].kind /\ code'[a].uses = code[a].uses
          /\ code'[a].keys = code[a].keys /\ code'[a].auditor = code[a].auditor
          /\ code'[a].depositors = code[a].depositors /\ code'[a].settings = code[a].settings
          /\ code'[a].seeded = code[a].seeded
    BY <1>1, <1>10, <1>12
  <2>3. QED
    BY <2>1, <2>2, <1>6, <1>7, <1>12, <1>14 DEF TokensOnly
<1>16. ConsoleInv'
  <2>1. CASE console.steps = <<>>
    <3>1. console' = Idle
      BY <2>1, <1>6, <1>7 DEF ConsoleInv
    <3>2. QED
      BY <3>1, StopsThere
  <2>2. CASE console.steps # <<>>
    <3>1. PICK s : s = console.steps
      OBVIOUS
    <3>2. PICK x : x = Head(s)
      OBVIOUS
    <3>3. Path(s) /\ s # <<>> /\ Fact(x) /\ console \in Consoles
      BY <2>2, <3>1, <3>2, <1>7 DEF ConsoleInv
    <3>4. x \in Steps
      BY <3>2, <3>3 DEF Path
    <3>5. Fact(x)'
      BY <3>3, <3>4, <1>15, FactKept
    <3>6. console' \in Consoles /\ console'.steps = s
      BY <3>1, <3>3, <1>6
    <3>7. QED
      BY <3>2, <3>3, <3>5, <3>6, <1>6, GoesOn
  <2>3. QED
    BY <2>1, <2>2
<1>17. funds' \in [Symbols -> Nat] /\ console'.address = console.address
  BY <1>6, <1>7 DEF FilesInv
<1>18. QED
  BY <1>6, <1>12, <1>13, <1>14, <1>16, <1>17, CodeStep

-----------------------------------------------------------------------------
(* The invariant holds at first, and every step keeps it.                  *)

LEMMA InitInv == Init => IInv
<1> SUFFICES ASSUME Init  PROVE IInv
  OBVIOUS
<1>1. /\ network \in {"benzonet", "fuji", "avalanche"} /\ code = <<>> /\ explorer = {}
      /\ carriedOver \in BOOLEAN /\ (carriedOver => network = "benzonet")
      /\ config = [p \in {"router", "privateGiftEscrow"} |-> 0]
      /\ console = Idle /\ crashes = 0 /\ strangers = 0 /\ replaced = {}
      /\ DOMAIN code = {}
  <2>1. carriedOver \in IF network = "benzonet" THEN BOOLEAN ELSE {FALSE}
    BY DEF Init
  <2>2. carriedOver \in BOOLEAN /\ (carriedOver => network = "benzonet")
    BY <2>1
  <2>3. DOMAIN <<>> = {}
    OBVIOUS
  <2>4. QED
    BY <2>2, <2>3 DEF Init
<1>2. /\ \A p \in Paths : manifest.address[p] = IF carriedOver /\ p \in StackPaths THEN Stale ELSE 0
      /\ manifest.verified = {} /\ (~carriedOver => manifest.auditor = NoKey)
      /\ \A t \in Symbols : ~carriedOver => manifest.tokens[t] = 0
      /\ manifest \in [address : [Paths -> {Stale, 0} \cup DOMAIN code], verified : SUBSET Paths,
                       auditor : Keys, tokens : [Symbols -> 0 .. Cardinality(Symbols)]]
  <2>1. PICK A, key, ids :
            /\ A = [p \in Paths |-> IF carriedOver /\ p \in StackPaths THEN Stale ELSE 0]
            /\ key = IF carriedOver THEN ForgottenKey ELSE NoKey
            /\ ids = IF carriedOver THEN [NoTokens EXCEPT !["tUSDC"] = 1] ELSE NoTokens
    OBVIOUS
  <2>2. manifest = [address |-> A, verified |-> {}, auditor |-> key, tokens |-> ids]
    BY <2>1 DEF Init
  <2>3. A \in [Paths -> {Stale, 0} \cup DOMAIN code]
    BY <2>1
  <2>4. key \in Keys
    BY <2>1 DEF Keys
  <2>5. ids \in [Symbols -> 0 .. 4] /\ \A t \in Symbols : ~carriedOver => ids[t] = 0
    <3>1. NoTokens \in [Symbols -> 0 .. 4] /\ \A t \in Symbols : NoTokens[t] = 0
      BY DEF NoTokens
    <3>2. [NoTokens EXCEPT !["tUSDC"] = 1] \in [Symbols -> 0 .. 4]
      <4>1. PICK none : none = NoTokens
        OBVIOUS
      <4>2. [none EXCEPT !["tUSDC"] = 1] \in [Symbols -> 0 .. 4]
        <5>1. PICK S, id : S = 0 .. 4 /\ id = 1
          OBVIOUS
        <5>2. id \in S /\ none \in [Symbols -> S]
          BY <3>1, <4>1, <5>1
        <5>3. [none EXCEPT !["tUSDC"] = id] \in [Symbols -> S]
          BY <5>2
        <5>4. QED
          BY <5>1, <5>3
      <4>3. QED
        BY <4>1, <4>2
    <3>3. QED
      BY <2>1, <3>1, <3>2
  <2>6. QED
    BY <2>1, <2>2, <2>3, <2>4, <2>5, SymbolCount
<1>3. CodeInv
  BY <1>1 DEF CodeInv
<1>4. FilesInv
  <2>1. PICK setup \in {Development} \cup (IF network = "avalanche" THEN Ceremonies ELSE {}) :
            /\ sources = [c \in Range(Verifiers) |-> setup]
            /\ marker = [build |-> IF setup = Development THEN "dev" ELSE "ceremony", setups |-> sources]
    BY DEF Init
  <2>2. setup \in Setups /\ (setup # Development => setup \in Ceremonies)
    BY <2>1 DEF Setups
  <2>3. sources \in [Range(Verifiers) -> Setups]
    BY <2>1, <2>2
  <2>4. marker.build = "ceremony" => \A c \in Range(Verifiers) : marker.setups[c] \in Ceremonies
    BY <2>1, <2>2
  <2>5. keyFile \in Keys
    BY DEF Init, Keys
  <2>6. funds \in [Symbols -> Nat]
    <3>1. Dust \in Nat
      BY DeploymentAssumption
    <3>2. PICK units \in {0, Dust} :
              funds = [t \in Symbols |-> IF t \in CircleTokens THEN units ELSE 0]
      BY <1>1 DEF Init
    <3>3. QED
      BY <3>1, <3>2
  <2>7. \A p \in Paths : manifest.address[p] = Stale => carriedOver /\ p \in StackPaths
    BY <1>2 DEF Stale
  <2>8. QED
    BY <1>1, <1>2, <2>3, <2>4, <2>5, <2>6, <2>7 DEF FilesInv
<1>5. \A p \in Paths : ~HasCode(manifest.address[p])
  BY <1>1 DEF HasCode
<1>6. ManifestTrue
  <2>1. Range(Verifiers) \subseteq Paths
    BY Names DEF Paths
  <2>2. QED
    BY <2>1, <1>2, <1>5 DEF ManifestTrue
<1>7. RoutesWork
  <2>1. \A p \in {"router", "privateGiftEscrow"} : manifest.address[p] = 0 /\ config[p] = 0
    BY <1>1, <1>2, Names DEF Paths, AppPaths
  <2>2. \A p \in {"router", "privateGiftEscrow"} : Routes(p) = {}
    BY <2>1 DEF Routes
  <2>3. QED
    BY <2>1, <2>2 DEF RoutesWork
<1>8. Cardinality(Lost \ replaced) <= crashes
  <2>1. Lost \ replaced = {}
    BY <1>1 DEF Lost
  <2>2. Cardinality({}) = 0
    BY FS_EmptySet
  <2>3. Cardinality(Lost \ replaced) = 0
    BY <2>1, <2>2
  <2>4. QED
    BY <2>3, <1>1
<1>9. ConsoleInv
  <2>1. Idle \in Consoles /\ Idle.steps = <<>>
    <3>1. NoKey \in Keys /\ Development \in Setups /\ <<>> \in Seq(Steps)
      BY DEF Keys, Setups
    <3>2. NoTokens \in [Symbols -> 0 .. Cardinality(Symbols)]
      BY SymbolCount DEF NoTokens
    <3>3. QED
      BY <3>1, <3>2 DEF Idle, Consoles
  <2>2. Path(<<>>)
    <3>1. Len(<<>>) = 0 /\ <<>> \in Seq(Steps)
      OBVIOUS
    <3>2. \A i \in 1 .. Len(<<>>) - 1 : FALSE
      BY <3>1
    <3>3. QED
      BY <3>1, <3>2 DEF Path
  <2>3. QED
    BY <2>1, <2>2, <1>1 DEF ConsoleInv
<1>10. QED
  BY <1>3, <1>4, <1>6, <1>7, <1>8, <1>9 DEF IInv

LEMMA NothingKeeps ==
    ASSUME IInv, UNCHANGED vars
    PROVE  IInv'
<1>1. /\ UNCHANGED <<chainVars, fileVars, network, carriedOver, strangers, replaced, crashes>>
      /\ console' = console
  BY DEF vars, countVars
<1>2. UNCHANGED <<code, explorer, funds, manifest, config, keyFile, sources, marker>>
  BY <1>1 DEF chainVars, fileVars, ceremonyVars
<1>3. CodeInv /\ ConsoleInv
  BY DEF IInv
<1>4. ConsoleInv'
  <2>1. CASE console.steps = <<>>
    BY <2>1, <1>1, <1>3, StopsThere DEF ConsoleInv
  <2>2. CASE console.steps # <<>>
    <3>1. PICK s : s = console.steps
      OBVIOUS
    <3>2. PICK x : x = Head(s)
      OBVIOUS
    <3>3. Path(s) /\ s # <<>> /\ Fact(x) /\ console \in Consoles
      BY <2>2, <3>1, <3>2, <1>3 DEF ConsoleInv
    <3>4. x \in Steps
      BY <3>2, <3>3 DEF Path
    <3>5. TokensOnly
      <4>1. CodeInv' /\ CodeLater
        BY <1>1, <1>2, <1>3, CodeSame, CodeUnchanged
      <4>2. QED
        BY <4>1, <1>1, <1>2, <1>3 DEF TokensOnly
    <3>6. Fact(x)'
      BY <3>3, <3>4, <3>5, FactKept
    <3>7. console' \in Consoles /\ console'.steps = s
      BY <3>1, <3>3, <1>1
    <3>8. QED
      BY <3>2, <3>3, <3>6, <3>7, <1>1, GoesOn
  <2>3. QED
    BY <2>1, <2>2
<1>5. QED
  BY <1>1, <1>4, ConsoleOnly

LEMMA NextInv == IInv /\ [Next]_vars => IInv'
<1> SUFFICES ASSUME IInv, [Next]_vars  PROVE IInv'
  OBVIOUS
<1>1. ASSUME NEW s \in ScriptsOf(network), StartScript(s)  PROVE IInv'
  BY <1>1, StartScriptKeeps
<1>2. ASSUME NEW env \in Environments, RunMainnetDeploy(env)  PROVE IInv'
  BY <1>2, RunMainnetDeployKeeps
<1>3. CASE Prefund
  BY <1>3, PrefundKeeps
<1>4. ASSUME NEW setup \in Ceremonies, NEW confirmed \in BOOLEAN, RunCeremony(setup, confirmed)
      PROVE  IInv'
  BY <1>4, RunCeremonyKeeps
<1>5. CASE RegenerateVerifiers
  BY <1>5, RegenerateVerifiersKeeps
<1>6. CASE CeremonyStep
  BY <1>6, AttestCeremonyKeeps, ExportVerifierKeeps DEF CeremonyStep
<1>7. CASE DeployStep
  BY <1>7, ReuseKeeps, DeployKeeps, RefuseDeployKeeps, RecordKeeps, VerifyKeeps, ClearKeeps
     DEF DeployStep
<1>8. CASE AuditorStep
  <2>1. CASE AuditorIsSet \/ AuditorToBeSet \/ RefuseConverter
    BY <2>1, AuditorIsSetKeeps, AuditorToBeSetKeeps, RefuseConverterKeeps
  <2>2. CASE GetStoredKey \/ GenerateKey \/ RefuseToGenerate \/ StoreKey
    BY <2>2, GetStoredKeyKeeps, GenerateKeyKeeps, RefuseToGenerateKeeps, StoreKeyKeeps
  <2>3. CASE RegisterAuditor \/ SetAuditor \/ WriteAuditor
    BY <2>3, RegisterAuditorKeeps, SetAuditorKeeps, WriteAuditorKeeps
  <2>4. QED
    BY <1>8, <2>1, <2>2, <2>3 DEF AuditorStep
<1>9. CASE TokenStep
  <2>1. CASE CheckOrder \/ JoinRegistrar \/ WriteTokens
    BY <2>1, CheckOrderKeeps, JoinRegistrarKeeps, WriteTokensKeeps
  <2>2. ASSUME NEW t \in Range(wrappedTokens),
               SkipToken(t) \/ ApproveToken(t) \/ RefuseUnfunded(t) \/ DepositToken(t)
        PROVE  IInv'
    BY <2>2, SkipTokenKeeps, ApproveTokenKeeps, RefuseUnfundedKeeps, DepositTokenKeeps
  <2>3. QED
    BY <1>9, <2>1, <2>2 DEF TokenStep
<1>10. CASE RouteStep
  BY <1>10, ConfigureKeeps, AuthorizeKeeps, WriteConfigKeeps DEF RouteStep
<1>11. ASSUME NEW c \in DOMAIN code, NEW t \in Range(wrappedTokens) \cup {"other"}, Stranger(c, t)
       PROVE  IInv'
  BY <1>11, StrangerKeeps
<1>12. CASE Crash
  BY <1>12, CrashKeeps
<1>13. CASE UNCHANGED vars
  BY <1>13, NothingKeeps
<1>14. QED
  BY <1>1, <1>2, <1>3, <1>4, <1>5, <1>6, <1>7, <1>8, <1>9, <1>10, <1>11, <1>12, <1>13 DEF Next

LEMMA Invariant == Spec => []IInv
<1>1. QED
  BY InitInv, NextInv, PTL DEF Spec

-----------------------------------------------------------------------------
(* What is on record can be used as it is, wherever the scripts died: an   *)
(* address is of the contract it is recorded as and built on what is       *)
(* recorded beside it; the auditor key and the token numbers are those of  *)
(* the recorded converter; what the applications are told to use can       *)
(* deposit (deployContract, writeDeployments, 09_cctp_router.ts).          *)
THEOREM RecordsAreTrue == Spec => []RecordsTrue
<1>1. IInv => RecordsTrue
  <2> SUFFICES ASSUME IInv  PROVE TypeOK /\ ManifestTrue /\ RoutesWork
    BY DEF RecordsTrue
  <2>1. CodeInv /\ FilesInv /\ ManifestTrue /\ RoutesWork
    BY DEF IInv
  <2>2. \A a \in DOMAIN code : code[a].kind \in Paths /\ code[a].auditor \in Keys
    BY <2>1, ContractIs
  <2>3. TypeOK
    BY <2>1, <2>2 DEF FilesInv, TypeOK
  <2>4. QED
    BY <2>1, <2>3
<1>2. QED
  BY <1>1, Invariant, PTL

(* No auditor key is lost: the private half of every key a registrar or a  *)
(* converter knows is in the key file, and on mainnet it is the key that   *)
(* production custodies (getOrCreateAuditorAccount, configureAuditor).     *)
THEOREM AuditorKeysKept == Spec => []AuditorKeyKept
<1>1. IInv => AuditorKeyKept
  BY DEF IInv, CodeInv, ContractInv, KnownKey, AuditorKeyKept
<1>2. QED
  BY <1>1, Invariant, PTL

(* A rerun deploys no contract of the stack a second time and repeats no   *)
(* bootstrap deposit; at most one contract is lost to each crash           *)
(* (deployContract's reuse, registerConverterTokens).                      *)
THEOREM RerunsDoReuse == Spec => []RerunsReuse
<1>1. IInv => RerunsReuse
  BY DEF IInv, CodeInv, ContractInv, RerunsReuse
<1>2. QED
  BY <1>1, Invariant, PTL
=============================================================================
