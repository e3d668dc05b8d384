---------------------------- MODULE EventChain ----------------------------
(***************************************************************************)
(* The chain as the API's event index sees it: blocks with the logs of the *)
(* token and of the registrar, whose hash changes when the chain is        *)
(* reorganised.  A block is named by its number and by the fork that       *)
(* produced it.  A rotation of the auditor's key takes effect with its     *)
(* log: what follows is encrypted for the new key.                         *)
(***************************************************************************)
EXTENDS Integers, Sequences, FiniteSets, SequencesExt

CONSTANTS
    Transfers, Registrations, Rotations, \* transactions of one log each
    GenesisKey,     \* the key in force before the first rotation
    MaxBlocks, MaxLogs,
    Confirmations,  \* indexerConfirmations
    WindowBlocks    \* indexerMaxWindowBlocks

ASSUME EventChainAssumption ==
    /\ {MaxBlocks, MaxLogs, WindowBlocks} \subseteq Nat \ {0}
    /\ Confirmations \in Nat
    /\ GenesisKey \notin Rotations
    /\ Transfers \cap Registrations = {}
    /\ Rotations \cap (Transfers \cup Registrations) = {}

VARIABLES
    chain,  \* the blocks from number 1 on
    forks   \* reorganisations so far

chainVars == <<chain, forks>>

Txs == Transfers \cup Registrations \cup Rotations
ContractOf(t) == IF t \in Registrations THEN "Registrar" ELSE "EncryptedERC"

ChainInit == chain = <<>> /\ forks = 0

ForkAt(b) == IF b = 0 THEN 0 ELSE chain[b].fork
ConfirmedBlock == IF Len(chain) > Confirmations THEN Len(chain) - Confirmations ELSE 0

\* Positions in the order of the logs: a block and an index in it.
Before(p, q) == p[1] < q[1] \/ (p[1] = q[1] /\ p[2] < q[2])

LogsIn(blocks) ==
    UNION {{[tx |-> chain[b].logs[i], pos |-> <<b, i>>, fork |-> chain[b].fork] :
               i \in DOMAIN chain[b].logs} : b \in blocks}
Logs == LogsIn(DOMAIN chain)
InChain(t) == \E l \in Logs : l.tx = t
PositionOf(t) == (CHOOSE l \in Logs : l.tx = t).pos

(* The key the token asked for at a position.                              *)
RotationsBefore(p) == {r \in Rotations : InChain(r) /\ Before(PositionOf(r), p)}
KeyAt(p) ==
    IF RotationsBefore(p) = {} THEN GenesisKey
    ELSE CHOOSE r \in RotationsBefore(p) :
             \A s \in RotationsBefore(p) \ {r} : Before(PositionOf(s), PositionOf(r))

(* A block takes some of the transactions sent.  Rotations come from one   *)
(* account and are mined in the order of their nonces.                     *)
Mineable(txs, rotations) ==
    LET waiting == {i \in DOMAIN rotations : ~InChain(rotations[i])} IN
    {t \in txs : ~InChain(t)} \cup {rotations[i] : i \in {j \in waiting : \A h \in waiting : j <= h}}

MineBlock(txs, rotations) ==
    /\ Len(chain) < MaxBlocks
    /\ \E n \in 0 .. MaxLogs : \E logs \in [1 .. n -> Mineable(txs, rotations)] :
           /\ IsInjective(logs)
           /\ chain' = Append(chain, [fork |-> forks, logs |-> logs])
    /\ UNCHANGED forks

(* Blocks above k are replaced; some of their transactions are lost.  Only *)
(* the last WindowBlocks confirmed blocks are ever replaced, and never a   *)
(* rotation.                                                               *)
Reorganise(k) ==
    /\ k < Len(chain) /\ k >= ConfirmedBlock - WindowBlocks
    /\ \A l \in LogsIn(k + 1 .. Len(chain)) : l.tx \notin Rotations
    /\ forks' = forks + 1
    /\ \E emptied \in SUBSET (k + 1 .. Len(chain)) :
           chain' = [b \in DOMAIN chain |->
                        IF b <= k THEN chain[b]
                        ELSE [fork |-> forks', logs |-> IF b \in emptied THEN <<>>
                                                        ELSE chain[b].logs]]
=============================================================================
