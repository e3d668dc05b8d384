-------------------------- MODULE AuditTrail_proofs --------------------------
(***************************************************************************)
(* What holds of the event index and of those who live on it, for any      *)
(* readers, plans, chains and keys.                                        *)
(*                                                                         *)
(* That every decryption is logged needs neither the index nor the keys:   *)
(* the first invariant, IInv, says for each place of a request what it has *)
(* decrypted and what of that is in the log.  The rest is one invariant,   *)
(* AllInv: what the first part says of the index; that the ranges of the   *)
(* auditor's keys begin at their rotations' logs and, while these are      *)
(* recorded in order, do not overlap and leave no gap; that a subscriber   *)
(* has got what lies between its start and its cursor; and that a key that *)
(* read an event for a packet is in force from the packet's first block on *)
(* until the packet is signed.                                             *)
(***************************************************************************)
EXTENDS AuditTrail, WellFoundedInduction, TLAPS

-----------------------------------------------------------------------------
(***************************************************************************)
(* The event index: its invariant, which every step of the chain and of a  *)
(* poller keeps, for any number of pollers, blocks and reorganisations.    *)
(*                                                                         *)
(* What makes a cursor right depends on the behaviour.  While one poll     *)
(* runs at a time, what lies WindowBlocks below a cursor is right whatever *)
(* the chain does, since no reorganisation reaches it; that is what a      *)
(* rewind goes back to.  While the chain is never reorganised, any number  *)
(* of polls may run: rows are only ever added.                             *)
(***************************************************************************)
-----------------------------------------------------------------------------
(* The chain.                                                              *)

Blocks == [fork : Nat, logs : Seq(Txs)]

ChainInv ==
    /\ forks \in Nat
    /\ chain \in Seq(Blocks) /\ Len(chain) <= MaxBlocks
    /\ \A b \in DOMAIN chain : chain[b].fork <= forks /\ Len(chain[b].logs) <= MaxLogs
    /\ \A l, m \in Logs : l.tx = m.tx => l = m

(* A row or a log read, of this chain or of an abandoned fork of it.  A    *)
(* block that was replaced has the logs it had or none.                    *)
Fits(e) ==
    /\ e \in [tx : Txs, pos : (1 .. MaxBlocks) \X (1 .. MaxLogs), fork : 0 .. forks]
    /\ e.pos[1] \in DOMAIN chain
    /\ e.pos[2] \in DOMAIN chain[e.pos[1]].logs => chain[e.pos[1]].logs[e.pos[2]] = e.tx

RowsInv ==
    /\ \A e \in events : Fits(e)
    /\ \A e, f \in events : e.tx = f.tx /\ e.pos[2] = f.pos[2] => e = f

-----------------------------------------------------------------------------
(* The pollers.                                                            *)

Places == {"idle", "load", "check", "logs", "tip", "commit", "rewind", "rewound"}
Cursors == [block : Nat, fork : 0 .. forks]

PollType(p) ==
    /\ DOMAIN poll[p] = {"at", "contract", "cursor", "start", "target", "replaces", "logs", "fork"}
    /\ poll[p].at \in Places /\ poll[p].contract \in Contracts /\ poll[p].cursor \in Cursors
    /\ poll[p].start \in Nat \ {0} /\ poll[p].target \in Nat /\ poll[p].replaces \in BOOLEAN
    /\ poll[p].fork \in 0 .. forks

\* Where the window of a poller ends, and the window.
To(p) == WindowEnd(poll[p].cursor, poll[p].target)
Window(p) == poll[p].cursor.block + 1 .. To(p)

PollInv(p) ==
    /\ PollType(p)
    /\ poll[p].at # "idle" =>
           /\ poll[p].start <= poll[p].target /\ poll[p].target <= ConfirmedBlock
           /\ poll[p].cursor.block <= ConfirmedBlock
           /\ ~poll[p].replaces => poll[p].start = 1
    /\ poll[p].at \notin {"idle", "load"} => poll[p].cursor.block >= poll[p].start - 1
    /\ poll[p].at \in {"logs", "tip", "commit", "rewind", "rewound"} =>
           poll[p].cursor.block < poll[p].target
    /\ poll[p].at \in {"tip", "commit"} =>
           /\ \A l \in poll[p].logs :
                  Fits(l) /\ ContractOf(l.tx) = poll[p].contract /\ l.pos[1] \in Window(p)
           /\ \A l, m \in poll[p].logs : l.tx = m.tx => l = m

CursorInv ==
    /\ cursor \in [Contracts -> Cursors]
    /\ \A c \in Contracts : cursor[c].block <= ConfirmedBlock
    /\ torn \subseteq Contracts /\ lapped \in BOOLEAN

-----------------------------------------------------------------------------
(* One poll at a time.                                                     *)

LogsOf(c, blocks) == {l \in LogsIn(blocks) : ContractOf(l.tx) = c}
Right(c, n) == RowsOf(c, 1 .. n) = LogsOf(c, 1 .. n)

CursorGood(c, cur) ==
    /\ ForkAt(cur.block) = cur.fork => Right(c, cur.block)
    /\ Right(c, cur.block - WindowBlocks)

\* A backfill writes the contract's rows anew.
Reworked(c) ==
    \E p \in Active : poll[p].replaces /\ poll[p].contract = c /\ poll[p].at # "load"

SoloPoll(p) ==
    LET c == poll[p].contract
        b == poll[p].cursor.block
    IN
    /\ CursorGood(c, poll[p].cursor)
    /\ poll[p].at \in {"logs", "tip"} => Right(c, b)
    /\ poll[p].at = "tip" => poll[p].logs = LogsOf(c, Window(p))
    /\ poll[p].at = "commit" =>
           /\ Right(c, To(p) - WindowBlocks)
           /\ \A l \in poll[p].logs, m \in LogsIn(1 .. To(p) - WindowBlocks) : m.tx # l.tx
           /\ ForkAt(To(p)) = poll[p].fork => Right(c, b) /\ poll[p].logs = LogsOf(c, Window(p))

\* It goes on from the stored cursor, or from the first block.
InStep(p) ==
    \/ poll[p].cursor = cursor[poll[p].contract]
    \/ poll[p].replaces /\ poll[p].cursor.block = 0

\* No row is beyond a contract's cursor.
NoneBeyond(c) == \A e \in events : ContractOf(e.tx) = c => e.pos[1] <= cursor[c].block

SoloInv ==
    /\ \A p, q \in Active : p = q
    /\ \A p \in Active : poll[p].start = 1 /\ \A e \in events : e.pos[1] <= poll[p].target
    /\ \A c \in Contracts : ~Reworked(c) => NoneBeyond(c)
    /\ \A c \in Contracts \ torn : CursorGood(c, cursor[c])
    /\ \A p \in Active : poll[p].at # "load" => InStep(p) /\ (poll[p].contract \notin torn => SoloPoll(p))

-----------------------------------------------------------------------------
(* One chain for ever.                                                     *)

Covers(c, n) == LogsOf(c, 1 .. n) \subseteq events

FlatPoll(p) ==
    /\ \A c \in Contracts : Covers(c, poll[p].start - 1)
    /\ poll[p].at # "load" => Covers(poll[p].contract, poll[p].cursor.block)
    /\ poll[p].contract = "Registrar" => Covers("EncryptedERC", poll[p].target)
    /\ poll[p].at \notin {"rewind", "rewound"}
    /\ poll[p].at \in {"tip", "commit"} => poll[p].logs = LogsOf(poll[p].contract, Window(p))

FlatInv ==
    /\ events \subseteq Logs
    /\ \A c \in Contracts : Covers(c, cursor[c].block)
    /\ \A p \in Active : FlatPoll(p)
    /\ \A e \in events, l \in Logs :
           ContractOf(l.tx) = "EncryptedERC" /\ Before(l.pos, e.pos) => l \in events

IndexInv ==
    /\ ChainInv /\ RowsInv /\ CursorInv
    /\ \A p \in Pollers : PollInv(p)
    /\ DOMAIN poll = Pollers
    /\ ~lapped => SoloInv
    /\ forks = 0 => FlatInv

-----------------------------------------------------------------------------
(* Logs and blocks.                                                        *)

Log(b, i) == [tx |-> chain[b].logs[i], pos |-> <<b, i>>, fork |-> chain[b].fork]

LEMMA LogsAre ==
    ASSUME NEW B
    PROVE  \A l : l \in LogsIn(B) <=> \E b \in B : \E i \in DOMAIN chain[b].logs : l = Log(b, i)
BY DEF LogsIn, Log

LEMMA BlockFacts ==
    ASSUME ChainInv, NEW b \in DOMAIN chain
    PROVE  /\ b \in 1 .. Len(chain) /\ b \in 1 .. MaxBlocks
           /\ chain[b].fork \in 0 .. forks
           /\ chain[b].logs \in Seq(Txs) /\ Len(chain[b].logs) \in Nat
           /\ DOMAIN chain[b].logs = 1 .. Len(chain[b].logs)
           /\ \A i \in DOMAIN chain[b].logs : i \in 1 .. MaxLogs /\ chain[b].logs[i] \in Txs
<1> DEFINE S == Blocks
<1>1. chain \in Seq(S) /\ Len(chain) <= MaxBlocks
  BY DEF ChainInv
<1>2. chain[b].fork <= forks /\ Len(chain[b].logs) <= MaxLogs /\ forks \in Nat
  BY DEF ChainInv
<1> HIDE DEF S
<1>3. chain[b] \in S /\ b \in 1 .. Len(chain) /\ Len(chain) \in Nat
  BY <1>1
<1>4. chain[b].fork \in Nat /\ chain[b].logs \in Seq(Txs)
  BY <1>3 DEF S, Blocks
<1> DEFINE T == Txs
           s == chain[b].logs
<1>5. s \in Seq(T) /\ Len(s) <= MaxLogs
  BY <1>2, <1>4
<1> HIDE DEF T, s
<1>6. Len(s) \in Nat /\ DOMAIN s = 1 .. Len(s) /\ \A i \in DOMAIN s : s[i] \in T
  BY <1>5
<1>7. MaxLogs \in Nat /\ MaxBlocks \in Nat
  BY EventChainAssumption
<1>8. QED
  BY <1>1, <1>2, <1>3, <1>4, <1>5, <1>6, <1>7 DEF T, s

LEMMA ChainLen ==
    ASSUME ChainInv
    PROVE  Len(chain) \in Nat /\ DOMAIN chain = 1 .. Len(chain) /\ Len(chain) <= MaxBlocks
<1> DEFINE S == Blocks
<1>1. chain \in Seq(S)
  BY DEF ChainInv
<1> HIDE DEF S
<1>2. Len(chain) \in Nat /\ DOMAIN chain = 1 .. Len(chain)
  BY <1>1
<1>3. QED
  BY <1>2 DEF ChainInv

LEMMA LogFacts ==
    ASSUME ChainInv, NEW l \in Logs
    PROVE  /\ Fits(l) /\ l = Log(l.pos[1], l.pos[2]) /\ l.pos = <<l.pos[1], l.pos[2]>>
           /\ l.pos[1] \in DOMAIN chain /\ l.pos[2] \in DOMAIN chain[l.pos[1]].logs
<1>0. PICK b \in DOMAIN chain : \E i \in DOMAIN chain[b].logs : l = Log(b, i)
  BY LogsAre DEF Logs
<1>1. PICK i \in DOMAIN chain[b].logs : l = Log(b, i)
  BY <1>0
<1>2. l.pos = <<b, i>> /\ l.tx = chain[b].logs[i] /\ l.fork = chain[b].fork
  BY <1>1 DEF Log
<1>3. b \in 1 .. MaxBlocks /\ i \in 1 .. MaxLogs /\ chain[b].fork \in 0 .. forks /\ chain[b].logs[i] \in Txs
  BY BlockFacts
<1>4. l \in [tx : Txs, pos : (1 .. MaxBlocks) \X (1 .. MaxLogs), fork : 0 .. forks]
  BY <1>1, <1>3 DEF Log
<1>5. l.pos[1] = b /\ l.pos[2] = i
  BY <1>2
<1>6. QED
  BY <1>1, <1>2, <1>4, <1>5 DEF Fits

(* The logs of some blocks are the logs of the chain at those positions.   *)
LEMMA LogsWithin ==
    ASSUME ChainInv, NEW m \in Nat \ {0}, NEW n \in Int, n <= Len(chain)
    PROVE  \A l : l \in LogsIn(m .. n) <=> l \in Logs /\ l.pos[1] \in m .. n
<1>1. DOMAIN chain = 1 .. Len(chain) /\ Len(chain) \in Nat
  BY ChainLen
<1>2. ASSUME NEW l, l \in LogsIn(m .. n)
      PROVE  l \in Logs /\ l.pos[1] \in m .. n
  <2>0. PICK b \in m .. n : \E i \in DOMAIN chain[b].logs : l = Log(b, i)
    BY <1>2, LogsAre
  <2>1. PICK i \in DOMAIN chain[b].logs : l = Log(b, i)
    BY <2>0
  <2>2. b \in DOMAIN chain /\ l.pos[1] = b
    BY <1>1, <2>1 DEF Log
  <2>3. QED
    BY <2>1, <2>2, LogsAre DEF Logs
<1>3. ASSUME NEW l, l \in Logs, l.pos[1] \in m .. n
      PROVE  l \in LogsIn(m .. n)
  BY <1>3, LogFacts, LogsAre
<1>4. QED
  BY <1>2, <1>3

(* Two logs at one position are the same.                                  *)
LEMMA OneLogEach ==
    ASSUME ChainInv, NEW l \in Logs, NEW m \in Logs, l.pos = m.pos
    PROVE  l = m
BY LogFacts

LEMMA RowsWithin ==
    ASSUME NEW c, NEW B
    PROVE  \A e : e \in RowsOf(c, B) <=> e \in events /\ ContractOf(e.tx) = c /\ e.pos[1] \in B
BY DEF RowsOf

LEMMA ContractsAre == \A t : ContractOf(t) \in Contracts
BY DEF ContractOf, Contracts

-----------------------------------------------------------------------------
(* What is right stays right where neither the chain nor the rows change.  *)

(* The chain and the rows of a contract, in its first n blocks.            *)
SameBlocks(n) ==
    /\ n <= Len(chain) /\ n <= Len(chain')
    /\ \A b \in 1 .. n : chain'[b] = chain[b]
SameRows(c, n) ==
    \A e : ContractOf(e.tx) = c /\ e.pos[1] \in 1 .. n => (e \in events' <=> e \in events)

LEMMA SameLogs ==
    ASSUME NEW n \in Int, SameBlocks(n), NEW m \in Nat \ {0}, NEW k \in Int, k <= n
    PROVE  LogsIn(m .. k)' = LogsIn(m .. k)
<1>1. \A b \in m .. k : chain'[b] = chain[b]
  BY DEF SameBlocks
<1>2. QED
  BY <1>1 DEF LogsIn

LEMMA SameFork ==
    ASSUME NEW n \in Nat, SameBlocks(n)
    PROVE  ForkAt(n)' = ForkAt(n)
BY DEF SameBlocks, ForkAt

LEMMA RightStays ==
    ASSUME NEW n \in Int, SameBlocks(n), NEW c, SameRows(c, n), Right(c, n)
    PROVE  Right(c, n)'
<1>1. LogsIn(1 .. n)' = LogsIn(1 .. n)
  BY SameLogs
<1>2. (1 .. n)' = 1 .. n
  OBVIOUS
<1>3. RowsOf(c, 1 .. n)' = RowsOf(c, 1 .. n)
  BY DEF SameRows, RowsOf
<1>4. LogsOf(c, 1 .. n)' = LogsOf(c, 1 .. n)
  BY <1>1 DEF LogsOf
<1>5. QED
  BY <1>3, <1>4 DEF Right

(* What is right up to a block is right up to an earlier one.              *)
LEMMA RightBelow ==
    ASSUME ChainInv, NEW n \in Int, n <= Len(chain), NEW m \in Int, m <= n, NEW c, Right(c, n)
    PROVE  Right(c, m)
<1>1. m <= Len(chain)
  BY ChainLen
<1>2. \A l : l \in LogsIn(1 .. m) <=> l \in LogsIn(1 .. n) /\ l.pos[1] \in 1 .. m
  BY <1>1, LogsWithin
<1>3. \A e : e \in RowsOf(c, 1 .. m) <=> e \in RowsOf(c, 1 .. n) /\ e.pos[1] \in 1 .. m
  BY DEF RowsOf
<1>4. QED
  BY <1>2, <1>3 DEF Right, LogsOf

LEMMA RightOfNone ==
    ASSUME NEW n \in Int, n <= 0, NEW c
    PROVE  Right(c, n)
BY DEF Right, RowsOf, LogsOf, LogsIn
-----------------------------------------------------------------------------
(* Numbers of blocks.                                                      *)

LEMMA ConfirmedFacts ==
    ASSUME ChainInv
    PROVE  ConfirmedBlock \in Nat /\ ConfirmedBlock <= Len(chain)
BY ChainLen, EventChainAssumption DEF ConfirmedBlock

\* The window ends after the cursor, and at most WindowBlocks after it.
LEMMA WindowFacts ==
    ASSUME NEW b \in Nat, NEW f, NEW t \in Nat, b < t
    PROVE  LET e == WindowEnd([block |-> b, fork |-> f], t) IN
           e \in Nat /\ b < e /\ e <= t /\ e - WindowBlocks <= b
BY EventChainAssumption DEF WindowEnd

LEMMA ToFacts ==
    ASSUME NEW p, PollInv(p), ChainInv, poll[p].at # "idle", poll[p].cursor.block < poll[p].target
    PROVE  /\ To(p) \in Nat /\ poll[p].cursor.block \in Nat /\ poll[p].cursor.block < To(p)
           /\ To(p) <= poll[p].target /\ To(p) <= ConfirmedBlock /\ To(p) <= Len(chain)
           /\ To(p) - WindowBlocks <= poll[p].cursor.block
<1>1. poll[p].cursor \in [block : Nat, fork : 0 .. forks] /\ poll[p].target \in Nat
  BY DEF PollInv, PollType, Cursors
<1>2. PICK b \in Nat, f \in 0 .. forks : poll[p].cursor = [block |-> b, fork |-> f]
  BY <1>1
<1>3. poll[p].cursor.block = b
  BY <1>2
<1>4. To(p) \in Nat /\ b < To(p) /\ To(p) <= poll[p].target /\ To(p) - WindowBlocks <= b
  BY <1>1, <1>2, <1>3, WindowFacts DEF To
<1>5. poll[p].target <= ConfirmedBlock
  BY DEF PollInv
<1>6. QED
  BY <1>1, <1>3, <1>4, <1>5, ConfirmedFacts, ChainLen

-----------------------------------------------------------------------------
(* At the start.                                                           *)

LEMMA IndexInit == ChainInit /\ IndexerInit => IndexInv
<1> SUFFICES ASSUME ChainInit, IndexerInit PROVE IndexInv
  OBVIOUS
<1>1. chain = <<>> /\ forks = 0 /\ Logs = {}
  BY DEF ChainInit, Logs, LogsIn
<1>2. ChainInv
  BY <1>1, EventChainAssumption DEF ChainInv
<1>3. Active = {}
  BY DEF IndexerInit, Active, Idle
<1>4. RowsInv
  BY DEF IndexerInit, RowsInv
<1>5. ConfirmedBlock = 0
  BY <1>1, EventChainAssumption DEF ConfirmedBlock
<1>6. \A c \in Contracts : cursor[c] = [block |-> 0, fork |-> 0]
  BY DEF IndexerInit
<1>7. CursorInv
  <2>1. [block |-> 0, fork |-> 0] \in Cursors
    BY <1>1 DEF Cursors
  <2>2. cursor \in [Contracts -> Cursors]
    BY <2>1 DEF IndexerInit
  <2>3. torn \subseteq Contracts /\ lapped \in BOOLEAN
    BY Zenon DEF IndexerInit
  <2>4. \A c \in Contracts : cursor[c].block <= ConfirmedBlock
    BY <1>5, <1>6
  <2>5. QED
    BY <2>2, <2>3, <2>4 DEF CursorInv
<1>8. \A p \in Pollers : PollInv(p)
  <2> TAKE p \in Pollers
  <2>1. poll[p] = Idle
    BY DEF IndexerInit
  <2>2. PollType(p)
    BY <1>1, <2>1 DEF PollType, Places, Contracts, Cursors, Idle
  <2>3. QED
    BY <2>1, <2>2 DEF PollInv, Idle
<1>9. \A c : Right(c, 0) /\ Right(c, 0 - WindowBlocks)
  BY RightOfNone, EventChainAssumption
<1>10. SoloInv
  BY <1>3, <1>6, <1>9 DEF IndexerInit, SoloInv, CursorGood, NoneBeyond
<1>11. \A c \in Contracts : Covers(c, 0)
  BY DEF Covers, LogsOf, LogsIn
<1>12. FlatInv
  BY <1>1, <1>3, <1>6, <1>11 DEF IndexerInit, FlatInv
<1>13. QED
  BY <1>2, <1>4, <1>7, <1>8, <1>10, <1>12 DEF IndexInv, IndexerInit
-----------------------------------------------------------------------------
(* Steps of the pollers.                                                   *)

LEMMA PollerFacts ==
    ASSUME IndexInv, NEW p \in Pollers, NEW new, poll' = [poll EXCEPT ![p] = new]
    PROVE  /\ poll'[p] = new /\ DOMAIN poll' = Pollers
           /\ \A q \in Pollers \ {p} : poll'[q] = poll[q]
           /\ Active' = IF new.at = "idle" THEN Active \ {p} ELSE Active \cup {p}
BY DEF IndexInv, Active

LEMMA PollersMove ==
    ASSUME IndexInv, UNCHANGED chainVars, NEW p \in Pollers, NEW new,
           poll' = [poll EXCEPT ![p] = new],
           PollInv(p)', RowsInv', CursorInv', ~lapped' => SoloInv', forks = 0 => FlatInv'
    PROVE  IndexInv'
<1>1. DOMAIN poll' = Pollers /\ \A q \in Pollers \ {p} : poll'[q] = poll[q]
  BY PollerFacts
<1>2. chain' = chain /\ forks' = forks
  BY DEF chainVars
<1>3. ChainInv'
  BY <1>2 DEF IndexInv, ChainInv, Logs, LogsIn
<1>4. ASSUME NEW q \in Pollers \ {p}
      PROVE  PollInv(q)'
  BY <1>1, <1>2 DEF IndexInv, PollInv, PollType, Cursors, ConfirmedBlock, Window, To, Fits
<1>5. QED
  BY <1>1, <1>2, <1>3, <1>4 DEF IndexInv

(* A poller that goes on without writing.                                  *)
LEMMA PollerReads ==
    ASSUME IndexInv, UNCHANGED <<chainVars, indexVars, torn, lapped>>, NEW p \in Active, NEW new,
           poll' = [poll EXCEPT ![p] = new], PollInv(p)',
           new.at # "idle" => new.start = poll[p].start /\ new.target = poll[p].target,
           ~lapped => /\ \A c \in Contracts : Reworked(c)' \/ ~Reworked(c) \/ NoneBeyond(c)
                      /\ new.at \notin {"idle", "load"} =>
                             InStep(p)' /\ (new.contract \notin torn => SoloPoll(p)'),
           forks = 0 => (new.at # "idle" => FlatPoll(p)')
    PROVE  IndexInv'
<1>1. p \in Pollers /\ p \in Active
  BY DEF Active
<1>2. /\ poll'[p] = new /\ \A q \in Pollers \ {p} : poll'[q] = poll[q]
      /\ Active' = IF new.at = "idle" THEN Active \ {p} ELSE Active \cup {p}
  BY <1>1, PollerFacts
<1>3. /\ chain' = chain /\ forks' = forks /\ events' = events /\ cursor' = cursor
      /\ torn' = torn /\ lapped' = lapped /\ chainVars' = chainVars
  BY DEF chainVars, indexVars
<1>4. RowsInv'
  BY <1>3 DEF IndexInv, RowsInv, Fits
<1>5. CursorInv'
  BY <1>3 DEF IndexInv, CursorInv, Cursors, ConfirmedBlock
<1>6. ASSUME ~lapped PROVE SoloInv'
  <2>1. SoloInv /\ \A q \in Active : q = p
    BY <1>1, <1>6 DEF IndexInv, SoloInv
  <2>2. \A q \in Active' : q = p /\ new.at # "idle"
    BY <1>2, <2>1
  <2>3. \A q \in Active' : poll'[q].start = 1 /\ \A e \in events : e.pos[1] <= poll'[q].target
    BY <1>1, <1>2, <2>1, <2>2 DEF SoloInv
  <2>4. \A c \in Contracts : ~Reworked(c)' => NoneBeyond(c)'
    BY <1>3, <1>6, <2>1 DEF SoloInv, NoneBeyond
  <2>5. \A c \in Contracts \ torn : CursorGood(c, cursor[c])'
    BY <1>3, <2>1 DEF SoloInv, CursorGood, Right, RowsOf, LogsOf, LogsIn, ForkAt
  <2>6. \A q \in Active' : poll'[q].at # "load" =>
            InStep(q)' /\ (poll'[q].contract \notin torn => SoloPoll(q)')
    BY <1>2, <1>6, <2>2
  <2>7. QED
    BY <1>3, <2>2, <2>3, <2>4, <2>5, <2>6 DEF SoloInv
<1>7. ASSUME forks = 0 PROVE FlatInv'
  <2>1. FlatInv
    BY <1>7 DEF IndexInv
  <2>2. \A n, c : Covers(c, n)' <=> Covers(c, n)
    BY <1>3 DEF Covers, LogsOf, LogsIn
  <2>3. ASSUME NEW q \in Active', q # p PROVE FlatPoll(q)'
    <3>1. q \in Active /\ poll'[q] = poll[q]
      BY <1>2, <2>3 DEF Active
    <3>2. FlatPoll(q)
      BY <2>1, <3>1 DEF FlatInv
    <3>3. QED
      BY <1>3, <3>1, <3>2 DEF FlatPoll, Covers, LogsOf, LogsIn, Window, To
  <2>4. ASSUME p \in Active' PROVE FlatPoll(p)'
    BY <1>2, <1>7, <2>4 DEF Active
  <2>5. Logs' = Logs
    BY <1>3 DEF Logs, LogsIn
  <2>6. QED
    BY <1>3, <2>1, <2>2, <2>3, <2>4, <2>5 DEF FlatInv
<1>8. ASSUME ~lapped' PROVE SoloInv'
  <2>1. lapped' = lapped
    BY <1>3
  <2>2. ~lapped
    BY <1>8, <2>1
  <2>3. QED
    BY <1>6, <2>2
<1>9. QED
  BY <1>1, <1>3, <1>4, <1>5, <1>7, <1>8, PollersMove
Fields == {"at", "contract", "cursor", "start", "target", "replaces", "logs", "fork"}

LEMMA ForkRange ==
    ASSUME ChainInv, NEW n \in Nat, n <= Len(chain)
    PROVE  ForkAt(n) \in 0 .. forks
<1>1. forks \in Nat
  BY DEF ChainInv
<1>2. CASE n = 0
  BY <1>1, <1>2 DEF ForkAt
<1>3. CASE n # 0
  <2>1. n \in DOMAIN chain
    BY <1>3, ChainLen
  <2>2. QED
    BY <1>3, <2>1, BlockFacts DEF ForkAt
<1>4. QED
  BY <1>2, <1>3

(* What the invariant says of a poller, in one place.                      *)
LEMMA ActiveFacts ==
    ASSUME IndexInv, NEW p \in Active
    PROVE  /\ p \in Pollers /\ PollInv(p) /\ poll[p].at # "idle" /\ DOMAIN poll[p] = Fields
           /\ poll[p].contract \in Contracts /\ poll[p].cursor \in Cursors
           /\ poll[p].cursor.block \in Nat /\ poll[p].cursor.fork \in 0 .. forks
           /\ poll[p].start \in Nat \ {0} /\ poll[p].target \in Nat /\ poll[p].fork \in 0 .. forks
           /\ poll[p].start <= poll[p].target /\ poll[p].target <= ConfirmedBlock
           /\ poll[p].cursor.block <= ConfirmedBlock
           /\ ConfirmedBlock \in Nat /\ ConfirmedBlock <= Len(chain) /\ Len(chain) \in Nat
           /\ ~lapped => /\ SoloInv /\ poll[p].start = 1 /\ \A q \in Active : q = p
                         /\ poll[p].at # "load" =>
                                InStep(p) /\ (poll[p].contract \notin torn => SoloPoll(p))
           /\ forks = 0 => FlatInv /\ FlatPoll(p)
<1>1. p \in Pollers /\ PollInv(p) /\ poll[p].at # "idle" /\ ChainInv
  BY DEF IndexInv, Active
<1>2. PollType(p)
  BY <1>1 DEF PollInv
<1>3. ConfirmedBlock \in Nat /\ ConfirmedBlock <= Len(chain) /\ Len(chain) \in Nat
  BY <1>1, ConfirmedFacts, ChainLen
<1>4. /\ poll[p].start <= poll[p].target /\ poll[p].target <= ConfirmedBlock
      /\ poll[p].cursor.block <= ConfirmedBlock
  BY <1>1 DEF PollInv
<1>5. /\ DOMAIN poll[p] = Fields
      /\ poll[p].contract \in Contracts /\ poll[p].cursor \in Cursors
      /\ poll[p].start \in Nat \ {0} /\ poll[p].target \in Nat /\ poll[p].fork \in 0 .. forks
  BY <1>2 DEF PollType, Fields
<1>6. poll[p].cursor.block \in Nat /\ poll[p].cursor.fork \in 0 .. forks
  BY <1>5 DEF Cursors
<1>7. ~lapped => /\ SoloInv /\ poll[p].start = 1 /\ \A q \in Active : q = p
                 /\ poll[p].at # "load" =>
                        InStep(p) /\ (poll[p].contract \notin torn => SoloPoll(p))
  BY DEF IndexInv, SoloInv
<1>8. forks = 0 => FlatInv /\ FlatPoll(p)
  BY DEF IndexInv, FlatInv
<1>9. QED
  BY <1>1, <1>3, <1>4, <1>5, <1>6, <1>7, <1>8

LEMMA LoadCursorInv ==
    ASSUME IndexInv, UNCHANGED chainVars, NEW p \in Active, LoadCursor(p)
    PROVE  IndexInv'
<1> DEFINE start == poll[p].start
           c == poll[p].contract
           loaded == IF poll[p].replaces THEN [block |-> start - 1, fork |-> ForkAt(start - 1)]
                     ELSE cursor[c]
           new == [poll[p] EXCEPT !.at = "check", !.cursor = loaded]
<1>1. /\ poll[p].at = "load" /\ poll' = [poll EXCEPT ![p] = new]
      /\ UNCHANGED <<chainVars, indexVars, torn, lapped>>
  BY DEF LoadCursor, Polls
<1>2. /\ DOMAIN new = Fields /\ new.at = "check" /\ new.cursor = loaded /\ new.contract = c
      /\ new.start = start /\ new.target = poll[p].target /\ new.replaces = poll[p].replaces
      /\ new.fork = poll[p].fork /\ new.logs = poll[p].logs
  BY ActiveFacts DEF Fields
<1>3. poll'[p] = new
  BY <1>1, PollerFacts, ActiveFacts
<1>4. /\ chain' = chain /\ forks' = forks /\ events' = events /\ cursor' = cursor /\ torn' = torn
  BY <1>1 DEF chainVars, indexVars
<1>5. start \in Nat \ {0} /\ start - 1 <= ConfirmedBlock /\ start - 1 \in Nat /\ start - 1 <= Len(chain)
  BY ActiveFacts
<1>6. c \in Contracts /\ cursor[c] \in Cursors /\ cursor[c].block <= ConfirmedBlock /\ cursor[c].block \in Nat
  BY ActiveFacts DEF IndexInv, CursorInv, Cursors
<1>7. loaded \in Cursors /\ loaded.block <= ConfirmedBlock /\ loaded.block >= start - 1 /\ loaded.block \in Nat
  <2>1. CASE poll[p].replaces
    <3>1. ForkAt(start - 1) \in 0 .. forks
      BY <1>5, ForkRange DEF IndexInv
    <3>2. loaded \in Cursors /\ loaded.block = start - 1
      BY <1>5, <2>1, <3>1 DEF Cursors
    <3>3. QED
      BY <1>5, <3>2
  <2>2. CASE ~poll[p].replaces
    <3>1. start = 1 /\ loaded = cursor[c]
      BY <2>2, ActiveFacts DEF PollInv
    <3>2. QED
      BY <1>6, <3>1
  <2>3. QED
    BY <2>1, <2>2
<1> HIDE DEF new
<1>8. PollInv(p)'
  <2>1. PollType(p)
    BY ActiveFacts DEF PollInv
  <2>2. PollType(p)'
    BY <1>2, <1>3, <1>4, <1>7, <2>1 DEF PollType, Fields, Places, Cursors
  <2>3. ConfirmedBlock' = ConfirmedBlock
    BY <1>4 DEF ConfirmedBlock
  <2>4. ~poll[p].replaces => start = 1
    BY ActiveFacts DEF PollInv
  <2>5. start <= poll[p].target /\ poll[p].target <= ConfirmedBlock
    BY ActiveFacts
  <2>6. QED
    BY <1>2, <1>3, <1>7, <2>2, <2>3, <2>4, <2>5 DEF PollInv
<1>9. ASSUME ~lapped
      PROVE  /\ \A d \in Contracts : Reworked(d)' \/ ~Reworked(d) \/ NoneBeyond(d)
             /\ InStep(p)' /\ (new.contract \notin torn => SoloPoll(p)')
  <2>1. \A d \in Contracts : ~Reworked(d)
    BY <1>1, <1>9, ActiveFacts DEF Reworked
  <2>2. start = 1 /\ SoloInv
    BY <1>9, ActiveFacts
  <2>3. loaded = cursor[c] \/ (poll[p].replaces /\ loaded.block = 0)
    BY <2>2
  <2>4. InStep(p)'
    BY <1>2, <1>3, <1>4, <2>3 DEF InStep
  <2>5. c \notin torn => CursorGood(c, loaded)
    <3>1. CASE loaded = cursor[c]
      BY <1>6, <2>2, <3>1 DEF SoloInv
    <3>2. CASE loaded.block = 0
      BY <3>2, RightOfNone, EventChainAssumption DEF CursorGood
    <3>3. QED
      BY <2>3, <3>1, <3>2
  <2>6. PICK cur : cur = loaded
    OBVIOUS
  <2>7. c \notin torn => SoloPoll(p)'
    BY <1>2, <1>3, <1>4, <2>5, <2>6 DEF SoloPoll, CursorGood, Right, RowsOf, LogsOf, LogsIn, ForkAt
  <2>8. QED
    BY <1>2, <2>1, <2>4, <2>7
<1>10. ASSUME forks = 0 PROVE FlatPoll(p)'
  <2>1. FlatInv /\ FlatPoll(p)
    BY <1>10, ActiveFacts
  <2>2. Covers(c, loaded.block)
    <3>1. CASE poll[p].replaces
      BY <1>6, <2>1, <3>1 DEF FlatPoll
    <3>2. CASE ~poll[p].replaces
      BY <1>6, <2>1, <3>2 DEF FlatInv
    <3>3. QED
      BY <3>1, <3>2
  <2>3. \A d, n : Covers(d, n)' <=> Covers(d, n)
    BY <1>4 DEF Covers, LogsOf, LogsIn
  <2>4. QED
    BY <1>2, <1>3, <2>1, <2>2, <2>3 DEF FlatPoll
<1>11. QED
  BY <1>1, <1>2, <1>8, <1>9, <1>10, PollerReads
LEMMA CoversBelow ==
    ASSUME NEW c, NEW n \in Int, NEW m \in Int, m <= n, Covers(c, n)
    PROVE  Covers(c, m)
BY DEF Covers, LogsOf, LogsIn

LEMMA NextContractInv ==
    ASSUME IndexInv, UNCHANGED chainVars, NEW p \in Active, NextContract(p)
    PROVE  IndexInv'
<1> DEFINE c == poll[p].contract
           again == [poll[p] EXCEPT !.at = "load", !.contract = "Registrar"]
           new == IF c = "Registrar" THEN Idle ELSE again
<1>1. /\ poll[p].at = "check" /\ poll' = [poll EXCEPT ![p] = new]
      /\ UNCHANGED <<chainVars, indexVars, torn, lapped>>
      /\ poll[p].cursor.block >= poll[p].target
  BY DEF NextContract, Polls
<1>2. /\ DOMAIN again = Fields /\ again.at = "load" /\ again.contract = "Registrar"
      /\ again.cursor = poll[p].cursor
      /\ again.start = poll[p].start /\ again.target = poll[p].target /\ again.replaces = poll[p].replaces
      /\ again.fork = poll[p].fork /\ again.logs = poll[p].logs
  BY ActiveFacts DEF Fields
<1>3. poll'[p] = new
  BY <1>1, PollerFacts, ActiveFacts
<1>4. /\ chain' = chain /\ forks' = forks /\ events' = events /\ cursor' = cursor /\ torn' = torn
  BY <1>1 DEF chainVars, indexVars
<1>5. Idle.at = "idle"
  BY DEF Idle
<1> HIDE DEF again
<1>6. PollInv(p)'
  <2>1. PollType(p)
    BY ActiveFacts DEF PollInv
  <2>2. ConfirmedBlock' = ConfirmedBlock
    BY <1>4 DEF ConfirmedBlock
  <2>3. CASE c = "Registrar"
    <3>1. poll'[p] = Idle
      BY <1>3, <2>3
    <3>2. forks \in Nat
      BY DEF IndexInv, ChainInv
    <3>3. PollType(p)'
      BY <1>4, <3>1, <3>2 DEF PollType, Places, Contracts, Cursors, Idle
    <3>4. QED
      BY <3>1, <3>3 DEF PollInv, Idle
  <2>4. CASE c # "Registrar"
    <3>1. poll'[p] = again
      BY <1>3, <2>4
    <3>2. PollType(p)'
      BY <1>2, <1>4, <2>1, <3>1 DEF PollType, Fields, Places, Cursors, Contracts
    <3>3. QED
      BY <1>2, <2>2, <3>1, <3>2, ActiveFacts DEF PollInv
  <2>5. QED
    BY <2>3, <2>4
<1>7. ASSUME ~lapped, NEW d \in Contracts
      PROVE  Reworked(d)' \/ ~Reworked(d) \/ NoneBeyond(d)
  <2>1. SUFFICES ASSUME Reworked(d) PROVE NoneBeyond(d)
    OBVIOUS
  <2>2. poll[p].start = 1 /\ SoloInv /\ InStep(p) /\ c = d
    BY <1>1, <1>7, <2>1, ActiveFacts DEF Reworked
  <2>3. poll[p].cursor = cursor[c] /\ poll[p].target \in Nat /\ cursor[c].block \in Nat
    BY <1>1, <2>2, ActiveFacts DEF InStep
  <2>4. \A e \in events : e.pos[1] <= poll[p].target /\ e.pos[1] \in Nat
    BY <2>2, EventChainAssumption DEF SoloInv, IndexInv, RowsInv, Fits
  <2>5. QED
    BY <1>1, <2>2, <2>3, <2>4 DEF NoneBeyond
<1>8. ASSUME forks = 0, c # "Registrar" PROVE FlatPoll(p)'
  <2>1. FlatInv /\ FlatPoll(p) /\ c = "EncryptedERC"
    BY <1>8, ActiveFacts DEF Contracts
  <2>2. Covers("EncryptedERC", poll[p].target)
    BY <1>1, <2>1, CoversBelow, ActiveFacts DEF FlatPoll
  <2>3. \A d, n : Covers(d, n)' <=> Covers(d, n)
    BY <1>4 DEF Covers, LogsOf, LogsIn
  <2>4. QED
    BY <1>2, <1>3, <1>8, <2>1, <2>2, <2>3 DEF FlatPoll
<1>9. /\ new.at \in {"idle", "load"}
      /\ new.at # "idle" => c # "Registrar" /\ new.start = poll[p].start /\ new.target = poll[p].target
  BY <1>2, <1>5
<1> HIDE DEF new
<1>10. QED
  BY <1>1, <1>6, <1>7, <1>8, <1>9, PollerReads

(* A poller in the middle of a contract reads the chain.                   *)
LEMMA StepInv ==
    ASSUME IndexInv, UNCHANGED <<chainVars, indexVars, torn, lapped>>, NEW p \in Active, NEW new,
           poll[p].at # "load", poll' = [poll EXCEPT ![p] = new],
           new = [poll[p] EXCEPT !.at = new.at, !.logs = new.logs, !.fork = new.fork],
           new.at \in Places \ {"idle", "load"}, new.fork \in 0 .. forks,
           new.at # "check" => poll[p].cursor.block < poll[p].target,
           new.at \in {"tip", "commit"} =>
               new.logs = poll[p].logs \/ new.logs = LogsOf(poll[p].contract, Window(p)),
           new.at = "tip" => new.logs = LogsOf(poll[p].contract, Window(p)),
           new.at = "commit" =>
               poll[p].at = "tip" /\ new.logs = poll[p].logs /\ new.fork = ForkAt(To(p)),
           new.at \in {"logs", "tip"} =>
               poll[p].at = "logs" \/ ForkAt(poll[p].cursor.block) = poll[p].cursor.fork,
           forks = 0 => new.at \notin {"rewind", "rewound"}
    PROVE  IndexInv'
<1> DEFINE c == poll[p].contract
           b == poll[p].cursor.block
           at == new.at
           logs == new.logs
           fork == new.fork
<1>1. ChainInv /\ forks \in Nat
  BY DEF IndexInv, ChainInv
<1>2. /\ DOMAIN new = Fields /\ new.at = at /\ new.cursor = poll[p].cursor /\ new.contract = c
      /\ new.start = poll[p].start /\ new.target = poll[p].target /\ new.replaces = poll[p].replaces
      /\ new.fork = fork /\ new.logs = logs
  BY ActiveFacts DEF Fields
<1>3. poll'[p] = new
  BY PollerFacts, ActiveFacts
<1>4. /\ chain' = chain /\ forks' = forks /\ events' = events /\ cursor' = cursor /\ torn' = torn
  BY DEF chainVars, indexVars
<1>5. To(p)' = To(p) /\ Window(p)' = Window(p)
  BY <1>2, <1>3 DEF To, Window
<1>6. at # "check" => /\ To(p) \in Nat /\ b \in Nat /\ b < To(p) /\ To(p) <= Len(chain)
                      /\ To(p) - WindowBlocks <= b
  BY <1>1, ToFacts, ActiveFacts
<1>7. at \in {"tip", "commit"} =>
        /\ \A l \in LogsOf(c, Window(p)) : l \in Logs /\ Fits(l) /\ ContractOf(l.tx) = c /\ l.pos[1] \in Window(p)
        /\ \A l, m \in LogsOf(c, Window(p)) : l.tx = m.tx => l = m
  <2>1. SUFFICES ASSUME at \in {"tip", "commit"}
                 PROVE  /\ \A l \in LogsOf(c, Window(p)) : l \in Logs /\ Fits(l) /\ ContractOf(l.tx) = c /\ l.pos[1] \in Window(p)
                        /\ \A l, m \in LogsOf(c, Window(p)) : l.tx = m.tx => l = m
    OBVIOUS
  <2>2. \A l : l \in LogsIn(b + 1 .. To(p)) <=> l \in Logs /\ l.pos[1] \in b + 1 .. To(p)
    <3>1. b + 1 \in Nat \ {0} /\ To(p) \in Int /\ To(p) <= Len(chain)
      BY <1>6, <2>1
    <3>2. QED
      BY <1>1, <3>1, LogsWithin
  <2>3. \A l \in LogsOf(c, Window(p)) : l \in Logs /\ l.pos[1] \in Window(p) /\ ContractOf(l.tx) = c
    BY <2>2 DEF Window, LogsOf
  <2>4. QED
    BY <1>1, <2>3, LogFacts DEF ChainInv
<1>8. at = "commit" =>
        /\ \A l \in poll[p].logs : Fits(l) /\ ContractOf(l.tx) = c /\ l.pos[1] \in Window(p)
        /\ \A l, m \in poll[p].logs : l.tx = m.tx => l = m
  BY ActiveFacts DEF PollInv
<1>9. PollInv(p)'
  <2>1. PollType(p)
    BY ActiveFacts DEF PollInv
  <2>2. PollType(p)'
    BY <1>2, <1>3, <1>4, <2>1 DEF PollType, Fields, Cursors
  <2>3. ConfirmedBlock' = ConfirmedBlock
    BY <1>4 DEF ConfirmedBlock
  <2>4. \A l : Fits(l)' <=> Fits(l)
    BY <1>4 DEF Fits
  <2>5. at \in {"tip", "commit"} =>
          /\ \A l \in logs : Fits(l) /\ ContractOf(l.tx) = c /\ l.pos[1] \in Window(p)
          /\ \A l, m \in logs : l.tx = m.tx => l = m
    BY <1>7, <1>8
  <2>7. b >= poll[p].start - 1 /\ (~poll[p].replaces => poll[p].start = 1)
    BY ActiveFacts DEF PollInv
  <2>8. QED
    BY <1>2, <1>3, <1>5, <2>2, <2>3, <2>4, <2>5, <2>7, ActiveFacts DEF PollInv
<1>10. ASSUME ~lapped
       PROVE  /\ \A d \in Contracts : Reworked(d)' \/ ~Reworked(d) \/ NoneBeyond(d)
              /\ InStep(p)' /\ (new.contract \notin torn => SoloPoll(p)')
  <2>1. SoloInv /\ InStep(p) /\ (c \notin torn => SoloPoll(p)) /\ \A q \in Active : q = p
    BY <1>10, ActiveFacts
  <2>2. p \in Active'
    <3>1. p \in Pollers /\ at # "idle"
      BY ActiveFacts
    <3>2. QED
      BY <1>2, <1>3, <3>1 DEF Active
  <2>3. \A d \in Contracts : Reworked(d)' \/ ~Reworked(d)
    BY <1>2, <1>3, <2>1, <2>2 DEF Reworked
  <2>4. InStep(p)'
    BY <1>2, <1>3, <1>4, <2>1 DEF InStep
  <2>5. ASSUME c \notin torn PROVE SoloPoll(p)'
    <3>1. SoloPoll(p)
      BY <2>1, <2>5
    <3>2. CursorGood(c, poll[p].cursor)
      BY <3>1 DEF SoloPoll
    <3>3. at \in {"logs", "tip"} => Right(c, b)
      BY <3>1, <3>2 DEF SoloPoll, CursorGood
    <3>4. ASSUME at = "commit"
          PROVE  /\ Right(c, To(p) - WindowBlocks)
                 /\ \A l \in logs, m \in LogsIn(1 .. To(p) - WindowBlocks) : m.tx # l.tx
                 /\ Right(c, b) /\ logs = LogsOf(c, Window(p))
      <4>1. Right(c, b) /\ logs = LogsOf(c, Window(p))
        BY <3>1, <3>4 DEF SoloPoll
      <4>2. To(p) - WindowBlocks \in Int /\ To(p) - WindowBlocks <= b /\ b <= Len(chain)
        BY <1>6, <3>4, ActiveFacts, EventChainAssumption
      <4>3. Right(c, To(p) - WindowBlocks)
        BY <1>1, <1>6, <3>4, <4>1, <4>2, ActiveFacts, RightBelow
      <4>4. \A m \in LogsIn(1 .. To(p) - WindowBlocks) : m \in Logs /\ m.pos[1] <= To(p) - WindowBlocks
        <5>1. 1 \in Nat \ {0} /\ To(p) - WindowBlocks <= Len(chain)
          BY <4>2, ActiveFacts
        <5>2. \A l : l \in LogsIn(1 .. To(p) - WindowBlocks) <=>
                        l \in Logs /\ l.pos[1] \in 1 .. To(p) - WindowBlocks
          BY <1>1, <4>2, <5>1, LogsWithin
        <5>3. QED
          BY <4>2, <5>2
      <4>5. \A l \in logs : l \in Logs /\ l.pos[1] \in b + 1 .. To(p)
        BY <1>7, <3>4, <4>1 DEF Window
      <4>6. \A l \in logs, m \in LogsIn(1 .. To(p) - WindowBlocks) : m.tx # l.tx
        <5>1. TAKE l \in logs, m \in LogsIn(1 .. To(p) - WindowBlocks)
        <5>2. ~(l.pos[1] <= To(p) - WindowBlocks)
          BY <1>6, <3>4, <4>2, <4>5
        <5>3. QED
          BY <1>1, <4>4, <4>5, <5>2 DEF ChainInv
      <4>7. QED
        BY <4>1, <4>3, <4>6
    <3>5. QED
      BY <1>2, <1>3, <1>4, <1>5, <3>2, <3>3, <3>4
      DEF SoloPoll, CursorGood, Right, RowsOf, LogsOf, LogsIn, ForkAt
  <2>6. QED
    BY <1>2, <2>3, <2>4, <2>5
<1>11. ASSUME forks = 0 PROVE FlatPoll(p)'
  <2>1. FlatPoll(p) /\ at \notin {"rewind", "rewound"}
    BY <1>11, ActiveFacts
  <2>2. at \in {"tip", "commit"} => logs = LogsOf(c, Window(p))
    BY <2>1 DEF FlatPoll
  <2>3. \A d, n : Covers(d, n)' <=> Covers(d, n)
    BY <1>4 DEF Covers, LogsOf, LogsIn
  <2>4. QED
    BY <1>2, <1>3, <1>4, <1>5, <2>1, <2>2, <2>3 DEF FlatPoll, LogsOf, LogsIn
<1>12. QED
  BY <1>2, <1>9, <1>10, <1>11, PollerReads

LEMMA CheckBoundaryInv ==
    ASSUME IndexInv, UNCHANGED chainVars, NEW p \in Active, CheckBoundary(p)
    PROVE  IndexInv'
<1>1. PICK at : /\ at = IF boundaryNeedsRescan(poll[p].cursor) THEN "rewind" ELSE "logs"
                /\ poll' = [poll EXCEPT ![p] = [poll[p] EXCEPT !.at = at]]
  BY DEF CheckBoundary, Polls
<1>2. PICK new : new = [poll[p] EXCEPT !.at = at]
  OBVIOUS
<1>3. /\ poll[p].at = "check" /\ UNCHANGED <<chainVars, indexVars, torn, lapped>>
      /\ poll[p].cursor.block < poll[p].target
  BY DEF CheckBoundary, Polls
<1>4. /\ new.at = at /\ new.logs = poll[p].logs /\ new.fork = poll[p].fork
      /\ new = [poll[p] EXCEPT !.at = new.at, !.logs = new.logs, !.fork = new.fork]
  BY <1>2, ActiveFacts DEF Fields
<1>5. at = "logs" => ForkAt(poll[p].cursor.block) = poll[p].cursor.fork
  BY <1>1 DEF boundaryNeedsRescan
<1>6. ASSUME forks = 0 PROVE at = "logs"
  <2>1. ForkAt(poll[p].cursor.block) \in 0 .. forks
    BY ForkRange, ActiveFacts DEF IndexInv
  <2>2. poll[p].cursor.fork \in 0 .. forks
    BY ActiveFacts
  <2>3. QED
    BY <1>1, <1>6, <2>1, <2>2 DEF boundaryNeedsRescan
<1>7. at \in {"rewind", "logs"} /\ at \in Places \ {"idle", "load"} /\ new.fork \in 0 .. forks
  BY <1>1, <1>4, ActiveFacts DEF Places
<1>8. poll' = [poll EXCEPT ![p] = new] /\ poll[p].at # "load"
  BY <1>1, <1>2, <1>3
<1>9. QED
  BY <1>3, <1>4, <1>5, <1>6, <1>7, <1>8, StepInv

LEMMA ReadLogsInv ==
    ASSUME IndexInv, UNCHANGED chainVars, NEW p \in Active, ReadLogs(p)
    PROVE  IndexInv'
<1>1. PICK new : new = [poll[p] EXCEPT !.at = "tip", !.logs = LogsOf(poll[p].contract, Window(p))]
  OBVIOUS
<1>2. /\ poll[p].at = "logs" /\ poll' = [poll EXCEPT ![p] = new]
      /\ UNCHANGED <<chainVars, indexVars, torn, lapped>>
  BY <1>1 DEF ReadLogs, Polls, LogsOf, Window, To
<1>3. poll[p].cursor.block < poll[p].target
  BY <1>2, ActiveFacts DEF PollInv
<1>4. /\ new.at = "tip" /\ new.logs = LogsOf(poll[p].contract, Window(p)) /\ new.fork = poll[p].fork
      /\ new = [poll[p] EXCEPT !.at = new.at, !.logs = new.logs, !.fork = new.fork]
  BY <1>1, ActiveFacts DEF Fields
<1>5. new.at \in Places \ {"idle", "load"} /\ new.fork \in 0 .. forks /\ poll[p].at # "load"
  BY <1>2, <1>4, ActiveFacts DEF Places
<1>6. QED
  BY <1>2, <1>3, <1>4, <1>5, StepInv

LEMMA ReadTipInv ==
    ASSUME IndexInv, UNCHANGED chainVars, NEW p \in Active, ReadTip(p)
    PROVE  IndexInv'
<1>1. PICK new : new = [poll[p] EXCEPT !.at = "commit", !.fork = ForkAt(To(p))]
  OBVIOUS
<1>2. /\ poll[p].at = "tip" /\ poll' = [poll EXCEPT ![p] = new]
      /\ UNCHANGED <<chainVars, indexVars, torn, lapped>>
  BY <1>1 DEF ReadTip, Polls, To
<1>3. poll[p].cursor.block < poll[p].target
  BY <1>2, ActiveFacts DEF PollInv
<1>4. /\ new.at = "commit" /\ new.logs = poll[p].logs /\ new.fork = ForkAt(To(p))
      /\ new = [poll[p] EXCEPT !.at = new.at, !.logs = new.logs, !.fork = new.fork]
  BY <1>1, ActiveFacts DEF Fields
<1>5. new.at \in Places \ {"idle", "load"} /\ poll[p].at # "load"
  BY <1>2, <1>4 DEF Places
<1>6. new.fork \in 0 .. forks
  BY <1>3, <1>4, ToFacts, ForkRange, ActiveFacts DEF IndexInv
<1>7. QED
  BY <1>2, <1>3, <1>4, <1>5, <1>6, StepInv

LEMMA RewoundFacts ==
    ASSUME IndexInv, NEW p \in Active, poll[p].at \in {"rewind", "rewound"}
    PROVE  /\ Rewound(p) \in Nat /\ Rewound(p) <= poll[p].cursor.block
           /\ poll[p].start - 1 <= Rewound(p)
           /\ Rewound(p) = poll[p].start - 1 \/ Rewound(p) = poll[p].cursor.block - WindowBlocks
<1>1. poll[p].cursor.block >= poll[p].start - 1
  BY ActiveFacts DEF PollInv
<1> DEFINE first == poll[p].cursor.block - WindowBlocks + 1
<1>2. poll[p].cursor.block \in Nat /\ poll[p].start \in Nat \ {0} /\ WindowBlocks \in Nat \ {0}
  BY ActiveFacts, EventChainAssumption
<1>3. Rewound(p) = IF first < poll[p].start THEN poll[p].start - 1 ELSE first - 1
  BY DEF Rewound
<1>4. QED
  BY <1>1, <1>2, <1>3

LEMMA ReadPreviousInv ==
    ASSUME IndexInv, UNCHANGED chainVars, NEW p \in Active, ReadPrevious(p)
    PROVE  IndexInv'
<1>1. PICK new : new = [poll[p] EXCEPT !.at = "rewound", !.fork = ForkAt(Rewound(p))]
  OBVIOUS
<1>2. /\ poll[p].at = "rewind" /\ poll' = [poll EXCEPT ![p] = new]
      /\ UNCHANGED <<chainVars, indexVars, torn, lapped>>
  BY <1>1 DEF ReadPrevious, Polls
<1>3. poll[p].cursor.block < poll[p].target
  BY <1>2, ActiveFacts DEF PollInv
<1>4. /\ new.at = "rewound" /\ new.logs = poll[p].logs /\ new.fork = ForkAt(Rewound(p))
      /\ new = [poll[p] EXCEPT !.at = new.at, !.logs = new.logs, !.fork = new.fork]
  BY <1>1, ActiveFacts DEF Fields
<1>5. new.at \in Places \ {"idle", "load"} /\ poll[p].at # "load"
  BY <1>2, <1>4 DEF Places
<1>6. Rewound(p) \in Nat /\ Rewound(p) <= Len(chain)
  BY <1>2, RewoundFacts, ActiveFacts
<1>7. new.fork \in 0 .. forks
  BY <1>4, <1>6, ForkRange DEF IndexInv
<1>8. forks # 0
  BY <1>2, ActiveFacts DEF FlatPoll
<1>9. QED
  BY <1>2, <1>3, <1>4, <1>5, <1>7, <1>8, StepInv

-----------------------------------------------------------------------------
(* A window is committed.                                                  *)

LEMMA RowFacts ==
    ASSUME IndexInv, NEW e \in events
    PROVE  /\ Fits(e) /\ e.pos[1] \in 1 .. MaxBlocks /\ e.pos[1] \in Nat \ {0}
           /\ e.pos[2] \in 1 .. MaxLogs /\ e.tx \in Txs /\ e.pos = <<e.pos[1], e.pos[2]>>
BY EventChainAssumption DEF IndexInv, RowsInv, Fits

LEMMA UpsertRows ==
    ASSUME NEW rows, NEW logs
    PROVE  \A e : e \in Upsert(rows, logs) <=>
               \/ e \in logs
               \/ e \in rows /\ \A l \in logs : ~(l.tx = e.tx /\ l.pos[2] = e.pos[2])
BY DEF Upsert

LEMMA CommitFacts ==
    ASSUME IndexInv, UNCHANGED chainVars, NEW p \in Active, CommitWindow(p)
    PROVE  LET c == poll[p].contract
               b == poll[p].cursor.block
               to == To(p)
               new == poll'[p]
           IN
           /\ poll[p].at = "commit" /\ new.at = "check" /\ new.contract = c
           /\ new.cursor = [block |-> to, fork |-> poll[p].fork]
           /\ new.start = poll[p].start /\ new.target = poll[p].target
           /\ new.replaces = poll[p].replaces /\ new.fork = 0 /\ DOMAIN new = Fields
           /\ poll' = [poll EXCEPT ![p] = new]
           /\ \A q \in Pollers \ {p} : poll'[q] = poll[q]
           /\ Active' = Active
           /\ \A e : e \in events' <=>
                  \/ e \in poll[p].logs
                  \/ /\ e \in events
                     /\ ~(poll[p].replaces /\ ContractOf(e.tx) = c /\ e.pos[1] \in b + 1 .. to)
                     /\ \A l \in poll[p].logs : ~(l.tx = e.tx /\ l.pos[2] = e.pos[2])
           /\ cursor' = [cursor EXCEPT ![c] = [block |-> to, fork |-> poll[p].fork]]
           /\ cursor'[c] = [block |-> to, fork |-> poll[p].fork]
           /\ \A d \in Contracts \ {c} : cursor'[d] = cursor[d]
           /\ chain' = chain /\ forks' = forks /\ torn' = torn /\ lapped' = lapped
           /\ to \in Nat /\ b \in Nat /\ b < to /\ to <= poll[p].target /\ to <= ConfirmedBlock
           /\ to <= Len(chain) /\ to - WindowBlocks <= b /\ Window(p) = b + 1 .. to
           /\ \A l \in poll[p].logs : Fits(l) /\ ContractOf(l.tx) = c /\ l.pos[1] \in b + 1 .. to
           /\ \A l, m \in poll[p].logs : l.tx = m.tx => l = m
<1> DEFINE c == poll[p].contract
           b == poll[p].cursor.block
           to == To(p)
           reached == [block |-> to, fork |-> poll[p].fork]
           new == [poll[p] EXCEPT !.at = "check", !.cursor = reached, !.logs = {}, !.fork = 0]
           replaced == IF poll[p].replaces THEN RowsOf(c, b + 1 .. to) ELSE {}
<1>1. /\ poll[p].at = "commit" /\ poll' = [poll EXCEPT ![p] = new]
      /\ events' = Upsert(events \ replaced, poll[p].logs)
      /\ cursor' = [cursor EXCEPT ![c] = reached]
      /\ torn' = torn /\ lapped' = lapped
  BY DEF CommitWindow, Polls, To
<1>2. /\ new.at = "check" /\ new.cursor = reached /\ new.contract = c
      /\ new.start = poll[p].start /\ new.target = poll[p].target
      /\ new.replaces = poll[p].replaces /\ new.fork = 0 /\ DOMAIN new = Fields
  BY ActiveFacts DEF Fields
<1>3. p \in Pollers /\ PollInv(p) /\ ChainInv /\ c \in Contracts /\ poll[p].at # "idle"
  BY ActiveFacts DEF IndexInv
<1>4. poll[p].cursor.block < poll[p].target
  BY <1>1, <1>3 DEF PollInv
<1>5. /\ to \in Nat /\ b \in Nat /\ b < to /\ to <= poll[p].target /\ to <= ConfirmedBlock
      /\ to <= Len(chain) /\ to - WindowBlocks <= b
  BY <1>3, <1>4, ToFacts
<1>6. Window(p) = b + 1 .. to
  BY DEF Window
<1>7. /\ \A l \in poll[p].logs : Fits(l) /\ ContractOf(l.tx) = c /\ l.pos[1] \in b + 1 .. to
      /\ \A l, m \in poll[p].logs : l.tx = m.tx => l = m
  BY <1>1, <1>3, <1>6 DEF PollInv
<1>8. \A e : e \in events \ replaced <=>
          /\ e \in events
          /\ ~(poll[p].replaces /\ ContractOf(e.tx) = c /\ e.pos[1] \in b + 1 .. to)
  <2>1. TAKE e
  <2>2. CASE poll[p].replaces
    <3>1. replaced = RowsOf(c, b + 1 .. to)
      BY <2>2
    <3> HIDE DEF replaced
    <3>2. e \in replaced <=> e \in events /\ ContractOf(e.tx) = c /\ e.pos[1] \in b + 1 .. to
      BY <3>1, RowsWithin
    <3>3. QED
      BY <2>2, <3>2
  <2>3. CASE ~poll[p].replaces
    BY <2>3
  <2>4. QED
    BY <2>2, <2>3
<1> HIDE DEF replaced
<1>9. \A e : e \in events' <=>
          \/ e \in poll[p].logs
          \/ e \in events \ replaced /\ \A l \in poll[p].logs : ~(l.tx = e.tx /\ l.pos[2] = e.pos[2])
  BY <1>1, UpsertRows
<1> HIDE DEF new
<1>10. poll'[p] = new /\ \A q \in Pollers \ {p} : poll'[q] = poll[q]
  BY <1>1, <1>3, PollerFacts
<1>11. Active' = Active
  BY <1>1, <1>2, <1>3, <1>10 DEF Active
<1>12. cursor'[c] = reached /\ \A d \in Contracts \ {c} : cursor'[d] = cursor[d]
  BY <1>1, <1>3 DEF IndexInv, CursorInv
<1>13. chain' = chain /\ forks' = forks
  BY DEF chainVars
<1>14. \A e : e \in events' <=>
                  \/ e \in poll[p].logs
                  \/ /\ e \in events
                     /\ ~(poll[p].replaces /\ ContractOf(e.tx) = c /\ e.pos[1] \in b + 1 .. to)
                     /\ \A l \in poll[p].logs : ~(l.tx = e.tx /\ l.pos[2] = e.pos[2])
  BY <1>8, <1>9
<1>15. /\ poll'[p].at = "check" /\ poll'[p].contract = c /\ poll'[p].cursor = reached
       /\ poll'[p].start = poll[p].start /\ poll'[p].target = poll[p].target
       /\ poll'[p].replaces = poll[p].replaces /\ poll'[p].fork = 0 /\ DOMAIN poll'[p] = Fields
       /\ poll' = [poll EXCEPT ![p] = poll'[p]]
  BY <1>1, <1>2, <1>10
<1>16. QED
  BY <1>1, <1>5, <1>6, <1>7, <1>10, <1>11, <1>12, <1>13, <1>14, <1>15

(* Rows and cursors after a commit or a rewind.                            *)
LEMMA CommitSolo ==
    ASSUME IndexInv, UNCHANGED chainVars, NEW p \in Active, CommitWindow(p), ~lapped
    PROVE  SoloInv'
<1>0. PICK c, b, to, L : c = poll[p].contract /\ b = poll[p].cursor.block /\ to = To(p) /\ L = poll[p].logs
  OBVIOUS
<1>1. SoloInv /\ InStep(p) /\ (c \notin torn => SoloPoll(p)) /\ poll[p].start = 1 /\ \A q \in Active : q = p
  BY <1>0, CommitFacts, ActiveFacts
<1>2. Active' = Active /\ p \in Active' /\ c \in Contracts /\ poll[p].target \in Nat /\ ChainInv
  BY <1>0, CommitFacts, ActiveFacts DEF IndexInv
<1>3. /\ \A e \in events : e.pos[1] \in Nat /\ e.pos[1] <= poll[p].target /\ Fits(e)
      /\ \A l \in L : l.pos[1] \in b + 1 .. to /\ l.pos[1] \in Nat /\ ContractOf(l.tx) = c
  <2>1. \A e \in events : e.pos[1] \in Nat /\ e.pos[1] <= poll[p].target /\ Fits(e)
    BY <1>1, <1>2, RowFacts DEF SoloInv
  <2>2. \A l \in L : l.pos[1] \in b + 1 .. to /\ ContractOf(l.tx) = c
    BY <1>0, CommitFacts
  <2>3. b \in Nat
    BY <1>0, CommitFacts
  <2>4. QED
    BY <2>1, <2>2, <2>3
<1>4. to \in Nat /\ b \in Nat /\ b < to /\ to <= poll[p].target /\ to <= Len(chain) /\ to - WindowBlocks <= b
  BY <1>0, CommitFacts
<1>5. /\ chain' = chain /\ forks' = forks /\ torn' = torn
      /\ cursor'[c] = [block |-> to, fork |-> poll[p].fork] /\ cursor'[c].block = to
      /\ \A d \in Contracts \ {c} : cursor'[d] = cursor[d]
  BY <1>0, CommitFacts
<1>6. \A e : e \in events' <=>
                  \/ e \in L
                  \/ /\ e \in events
                     /\ ~(poll[p].replaces /\ ContractOf(e.tx) = c /\ e.pos[1] \in b + 1 .. to)
                     /\ \A l \in L : ~(l.tx = e.tx /\ l.pos[2] = e.pos[2])
  BY <1>0, CommitFacts
<1>7. /\ poll'[p].at = "check" /\ poll'[p].contract = c /\ poll'[p].start = poll[p].start
      /\ poll'[p].target = poll[p].target /\ poll'[p].replaces = poll[p].replaces
      /\ poll'[p].cursor = [block |-> to, fork |-> poll[p].fork] /\ poll[p].at = "commit"
  BY <1>0, CommitFacts
<1>8. \A q \in Active' : poll'[q].start = 1 /\ \A e \in events' : e.pos[1] <= poll'[q].target
  BY <1>1, <1>2, <1>3, <1>4, <1>6, <1>7
<1>9. ASSUME ~poll[p].replaces PROVE \A e \in events : ContractOf(e.tx) = c => e.pos[1] <= b
  BY <1>0, <1>1, <1>2, <1>9 DEF SoloInv, Reworked, NoneBeyond, InStep
<1>10. ASSUME NEW d \in Contracts, ~Reworked(d)' PROVE NoneBeyond(d)'
  <2>1. ~Reworked(d) /\ (d = c => ~poll[p].replaces)
    BY <1>0, <1>1, <1>2, <1>7, <1>10 DEF Reworked
  <2>2. NoneBeyond(d)
    BY <1>1, <2>1 DEF SoloInv
  <2>3. CASE d = c
    BY <1>3, <1>4, <1>5, <1>6, <1>9, <2>1, <2>3 DEF NoneBeyond
  <2>4. CASE d # c
    BY <1>3, <1>5, <1>6, <2>2, <2>4 DEF NoneBeyond
  <2>5. QED
    BY <2>3, <2>4
<1>11. ASSUME NEW d \in Contracts \ torn, d # c PROVE CursorGood(d, cursor[d])'
  <2>1. CursorGood(d, cursor[d])
    BY <1>1 DEF SoloInv
  <2>2. \A e : ContractOf(e.tx) = d => (e \in events' <=> e \in events)
    BY <1>3, <1>6, <1>11
  <2>3. QED
    BY <1>5, <1>11, <2>1, <2>2 DEF CursorGood, Right, RowsOf, LogsOf, LogsIn, ForkAt
<1>12. ASSUME c \notin torn
       PROVE  /\ Right(c, to - WindowBlocks)'
              /\ (ForkAt(to) = poll[p].fork => Right(c, to)')
  <2>1. SoloPoll(p)
    BY <1>0, <1>1, <1>12
  <2>2. /\ Right(c, to - WindowBlocks)
        /\ \A l \in L, m \in LogsIn(1 .. to - WindowBlocks) : m.tx # l.tx
        /\ ForkAt(to) = poll[p].fork => Right(c, b) /\ L = LogsOf(c, Window(p))
    BY <1>0, <1>7, <2>1 DEF SoloPoll
  <2>3. PICK n : n = to - WindowBlocks
    OBVIOUS
  <2>4. n \in Int /\ n <= b
    BY <1>4, <2>3, EventChainAssumption
  <2>5. Right(c, to - WindowBlocks)'
    <3>1. ASSUME NEW e, ContractOf(e.tx) = c, e.pos[1] \in 1 .. n
          PROVE  e \in events' <=> e \in events
      <4>1. e \notin L /\ e.pos[1] \notin b + 1 .. to
        BY <1>3, <1>4, <2>4, <3>1
      <4>2. e \in events => e \in LogsIn(1 .. n)
        BY <2>2, <2>3, <3>1 DEF Right, RowsOf, LogsOf
      <4>3. e \in events => \A l \in L : l.tx # e.tx
        BY <2>2, <2>3, <4>2
      <4>4. QED
        BY <1>6, <4>1, <4>3
    <3>2. SameRows(c, n)
      BY <3>1 DEF SameRows
    <3>3. SameBlocks(n)
      BY <1>4, <1>5, <2>4, ActiveFacts DEF SameBlocks
    <3>4. Right(c, n)'
      BY <2>2, <2>3, <2>4, <3>2, <3>3, RightStays
    <3>5. QED
      BY <2>3, <3>4
  <2>6. ASSUME ForkAt(to) = poll[p].fork PROVE Right(c, to)'
    <3>1. Right(c, b) /\ L = LogsOf(c, b + 1 .. to) /\ Window(p) = b + 1 .. to
      BY <1>0, <2>2, <2>6, CommitFacts
    <3>2. \A l : /\ l \in LogsIn(1 .. to) <=> l \in Logs /\ l.pos[1] \in 1 .. to
                 /\ l \in LogsIn(1 .. b) <=> l \in Logs /\ l.pos[1] \in 1 .. b
                 /\ l \in LogsIn(b + 1 .. to) <=> l \in Logs /\ l.pos[1] \in b + 1 .. to
      <4>1. 1 \in Nat \ {0} /\ b + 1 \in Nat \ {0} /\ b \in Int /\ to \in Int /\ b <= Len(chain)
        BY <1>4, ActiveFacts
      <4>2. QED
        BY <1>2, <1>4, <4>1, LogsWithin
    <3>3. \A e : e \in events /\ ContractOf(e.tx) = c /\ e.pos[1] \in 1 .. b <=>
                     e \in Logs /\ ContractOf(e.tx) = c /\ e.pos[1] \in 1 .. b
      BY <3>1, <3>2 DEF Right, RowsOf, LogsOf
    <3>4. \A e : e \in L <=> e \in Logs /\ ContractOf(e.tx) = c /\ e.pos[1] \in b + 1 .. to
      BY <3>1, <3>2 DEF LogsOf
    <3>5. ASSUME NEW e, ContractOf(e.tx) = c, e.pos[1] \in 1 .. to
          PROVE  e \in events' <=> e \in Logs
      <4>1. CASE e.pos[1] \in 1 .. b
        <5>1. e \notin L /\ e.pos[1] \notin b + 1 .. to
          BY <1>4, <3>4, <4>1
        <5>2. e \in events <=> e \in Logs
          BY <3>3, <3>5, <4>1
        <5>3. ASSUME e \in Logs, NEW l \in L PROVE l.tx # e.tx
          BY <1>2, <3>4, <5>1, <5>3 DEF ChainInv
        <5>4. QED
          BY <1>6, <5>1, <5>2, <5>3
      <4>2. CASE e.pos[1] \in b + 1 .. to
        <5>1. e \in L <=> e \in Logs
          BY <3>4, <3>5, <4>2
        <5>2. poll[p].replaces \/ e \notin events
          BY <1>4, <1>9, <3>5, <4>2
        <5>3. QED
          BY <1>6, <3>5, <4>2, <5>1, <5>2
      <4>3. QED
        BY <1>4, <3>5, <4>1, <4>2
    <3>6. \A l : l \in LogsIn(1 .. to)' <=> l \in LogsIn(1 .. to)
      BY <1>5 DEF LogsIn
    <3>7. QED
      BY <3>2, <3>5, <3>6 DEF Right, RowsOf, LogsOf
  <2>7. QED
    BY <2>5, <2>6
<1>13. ASSUME c \notin torn
       PROVE  CursorGood(c, cursor[c])' /\ SoloPoll(p)'
  <2>1. Right(c, to - WindowBlocks)' /\ (ForkAt(to) = poll[p].fork => Right(c, to)')
    BY <1>12, <1>13
  <2>2. ForkAt(to)' = ForkAt(to)
    BY <1>5 DEF ForkAt
  <2>3. CursorGood(c, cursor[c])'
    BY <1>5, <2>1, <2>2 DEF CursorGood, Right, RowsOf, LogsOf, LogsIn, ForkAt
  <2>4. SoloPoll(p)'
    BY <1>5, <1>7, <2>1, <2>2 DEF SoloPoll, CursorGood, Right, RowsOf, LogsOf, LogsIn, ForkAt
  <2>5. QED
    BY <2>3, <2>4
<1>14. InStep(p)'
  BY <1>5, <1>7 DEF InStep
<1>15. \A d \in Contracts \ torn : CursorGood(d, cursor[d])'
  BY <1>11, <1>13
<1>16. QED
  BY <1>1, <1>2, <1>5, <1>7, <1>8, <1>10, <1>13, <1>14, <1>15 DEF SoloInv

(* The logs of a window of the chain, and of what is below it.             *)
LEMMA LogsOfBelow ==
    ASSUME ChainInv, NEW n \in Nat, n <= Len(chain), NEW c
    PROVE  \A l : l \in LogsOf(c, 1 .. n) <=>
                  l \in Logs /\ ContractOf(l.tx) = c /\ l.pos[1] \in 1 .. n
<1>1. 1 \in Nat \ {0} /\ n \in Int
  OBVIOUS
<1>2. \A l : l \in LogsIn(1 .. n) <=> l \in Logs /\ l.pos[1] \in 1 .. n
  BY <1>1, LogsWithin
<1>3. QED
  BY <1>2 DEF LogsOf

(* While the chain is never reorganised, a commit only adds rows: it writes *)
(* the window's logs, and the rows it overwrites are the same ones.        *)
LEMMA CommitRows ==
    ASSUME IndexInv, UNCHANGED chainVars, NEW p \in Active, CommitWindow(p), forks = 0,
           NEW c, c = poll[p].contract, NEW b, b = poll[p].cursor.block, NEW to, to = To(p),
           NEW L, L = poll[p].logs
    PROVE  /\ \A l : l \in L <=> l \in Logs /\ ContractOf(l.tx) = c /\ l.pos[1] \in b + 1 .. to
           /\ \A e : e \in events' <=> e \in L \/ e \in events
<1>1. FlatInv /\ FlatPoll(p) /\ ChainInv /\ c \in Contracts /\ p \in Pollers
  BY ActiveFacts DEF IndexInv
<1>2. to \in Nat /\ b \in Nat /\ b < to /\ to <= poll[p].target /\ to <= Len(chain)
  BY CommitFacts
<1>4. \A e : e \in events' <=>
                  \/ e \in L
                  \/ /\ e \in events
                     /\ ~(poll[p].replaces /\ ContractOf(e.tx) = c /\ e.pos[1] \in b + 1 .. to)
                     /\ \A l \in L : ~(l.tx = e.tx /\ l.pos[2] = e.pos[2])
  BY CommitFacts
<1>5. \A l : l \in L <=> l \in Logs /\ ContractOf(l.tx) = c /\ l.pos[1] \in b + 1 .. to
  <2>1. L = LogsOf(c, b + 1 .. to)
    BY <1>1, CommitFacts DEF FlatPoll
  <2>2. b + 1 \in Nat \ {0} /\ to \in Int
    BY <1>2
  <2>3. \A l : l \in LogsIn(b + 1 .. to) <=> l \in Logs /\ l.pos[1] \in b + 1 .. to
    BY <1>1, <1>2, <2>2, LogsWithin
  <2>4. QED
    BY <2>1, <2>3 DEF LogsOf
<1>6. \A e : e \in events' <=> e \in L \/ e \in events
  <2>1. SUFFICES ASSUME NEW e \in events, e \notin L PROVE e \in events'
    BY <1>4
  <2>2. e \in Logs
    BY <1>1 DEF FlatInv
  <2>3. ~(ContractOf(e.tx) = c /\ e.pos[1] \in b + 1 .. to)
    BY <1>5, <2>1, <2>2
  <2>4. \A l \in L : l.tx # e.tx
    BY <1>1, <1>5, <2>1, <2>2 DEF ChainInv
  <2>5. QED
    BY <1>4, <2>1, <2>3, <2>4
<1>7. QED
  BY <1>5, <1>6

LEMMA CommitFlat ==
    ASSUME IndexInv, UNCHANGED chainVars, NEW p \in Active, CommitWindow(p), forks = 0
    PROVE  FlatInv'
<1>0. PICK c, b, to, L : c = poll[p].contract /\ b = poll[p].cursor.block /\ to = To(p) /\ L = poll[p].logs
  OBVIOUS
<1>1. FlatInv /\ FlatPoll(p) /\ ChainInv /\ c \in Contracts /\ p \in Pollers
  BY <1>0, ActiveFacts DEF IndexInv
<1>2. to \in Nat /\ b \in Nat /\ b < to /\ to <= poll[p].target /\ to <= Len(chain)
  BY <1>0, CommitFacts
<1>3. /\ chain' = chain /\ forks' = forks /\ cursor'[c].block = to
      /\ \A d \in Contracts \ {c} : cursor'[d] = cursor[d]
  <2>1. /\ chain' = chain /\ forks' = forks /\ cursor'[c] = [block |-> to, fork |-> poll[p].fork]
        /\ \A d \in Contracts \ {c} : cursor'[d] = cursor[d]
    BY <1>0, CommitFacts
  <2>2. QED
    BY <2>1
<1>5. \A l : l \in L <=> l \in Logs /\ ContractOf(l.tx) = c /\ l.pos[1] \in b + 1 .. to
  BY <1>0, CommitRows
<1>6. \A e : e \in events' <=> e \in L \/ e \in events
  BY <1>0, CommitRows
<1>7. Logs' = Logs
  BY <1>3 DEF Logs, LogsIn
<1>8. \A d, n : Covers(d, n) => Covers(d, n)'
  BY <1>3, <1>6 DEF Covers, LogsOf, LogsIn
<1>9. \A l \in Logs : ContractOf(l.tx) = c /\ l.pos[1] \in 1 .. to => l \in events'
  <2>1. TAKE l \in Logs
  <2>2. HAVE ContractOf(l.tx) = c /\ l.pos[1] \in 1 .. to
  <2>3. CASE l.pos[1] \in b + 1 .. to
    BY <1>5, <1>6, <2>2, <2>3
  <2>4. CASE l.pos[1] \in 1 .. b
    <3>1. Covers(c, b)
      BY <1>0, <1>1, CommitFacts DEF FlatPoll
    <3>2. b <= Len(chain)
      BY <1>2, ActiveFacts
    <3>3. l \in LogsOf(c, 1 .. b)
      BY <1>1, <1>2, <2>2, <2>4, <3>2, LogsOfBelow
    <3>4. QED
      BY <1>6, <3>1, <3>3 DEF Covers
  <2>5. QED
    BY <1>2, <2>2, <2>3, <2>4
<1>10. Covers(c, to)'
  <2>1. \A l : l \in LogsOf(c, 1 .. to) <=> l \in Logs /\ ContractOf(l.tx) = c /\ l.pos[1] \in 1 .. to
    BY <1>1, <1>2, LogsOfBelow
  <2>2. LogsOf(c, 1 .. to) \subseteq events'
    BY <1>9, <2>1
  <2>3. QED
    BY <1>3, <2>2 DEF Covers, LogsOf, LogsIn
<1>11. \A d \in Contracts : Covers(d, cursor[d].block)'
  <2>1. TAKE d \in Contracts
  <2>2. CASE d = c
    BY <1>3, <1>10, <2>2 DEF Covers, LogsOf, LogsIn
  <2>3. CASE d # c
    <3>1. PICK n : n = cursor[d].block /\ n = cursor'[d].block
      BY <1>3, <2>3
    <3>2. Covers(d, n)'
      BY <1>1, <1>8, <3>1 DEF FlatInv
    <3>3. QED
      BY <3>1, <3>2 DEF Covers, LogsOf, LogsIn
  <2>4. QED
    BY <2>2, <2>3
<1>12. ASSUME NEW q \in Active' PROVE FlatPoll(q)'
  <2>1. q \in Active /\ FlatPoll(q)
    BY <1>1, CommitFacts DEF FlatInv
  <2>2. PICK s, t, d, n, w : /\ s = poll[q].start /\ t = poll[q].target /\ d = poll[q].contract
                             /\ n = poll[q].cursor.block /\ w = Window(q)
    OBVIOUS
  <2>3. (\A x \in Contracts : Covers(x, s - 1)') /\ (d = "Registrar" => Covers("EncryptedERC", t)')
    BY <1>8, <2>1, <2>2 DEF FlatPoll
  <2>4. CASE q = p
    <3>1. /\ poll'[p].start = s /\ poll'[p].contract = d /\ poll'[p].target = t /\ d = c
          /\ poll'[p].at = "check" /\ poll'[p].cursor.block = to
      <4>1. /\ poll'[p].at = "check" /\ poll'[p].contract = c
            /\ poll'[p].cursor = [block |-> to, fork |-> poll[p].fork]
            /\ poll'[p].start = poll[p].start /\ poll'[p].target = poll[p].target
        BY <1>0, CommitFacts
      <4>2. QED
        BY <1>0, <2>2, <2>4, <4>1
    <3>2. QED
      BY <1>3, <1>10, <2>3, <2>4, <3>1 DEF FlatPoll, Covers, LogsOf, LogsIn
  <2>5. CASE q # p
    <3>1. poll'[q] = poll[q]
      <4>1. \A r \in Pollers \ {p} : poll'[r] = poll[r]
        BY CommitFacts
      <4>2. QED
        BY <2>1, <2>5, <4>1 DEF Active
    <3>2. poll[q].at # "load" => Covers(d, n)'
      BY <1>8, <2>1, <2>2 DEF FlatPoll
    <3>3. Window(q)' = w
      BY <2>2, <3>1 DEF Window, To
    <3>4. poll[q].at \in {"tip", "commit"} => poll[q].logs = LogsOf(d, w)
      BY <2>1, <2>2 DEF FlatPoll
    <3>5. poll[q].at \notin {"rewind", "rewound"}
      BY <2>1 DEF FlatPoll
    <3>6. QED
      BY <1>3, <2>2, <2>3, <3>1, <3>2, <3>3, <3>4, <3>5 DEF FlatPoll, Covers, LogsOf, LogsIn
  <2>6. QED
    BY <2>4, <2>5
<1>13. ASSUME NEW e \in events', NEW l \in Logs, ContractOf(l.tx) = "EncryptedERC", Before(l.pos, e.pos)
       PROVE  l \in events'
  <2>1. CASE e \in events
    BY <1>1, <1>6, <1>13, <2>1 DEF FlatInv
  <2>2. CASE e \in L
    <3>1. e \in Logs /\ e.pos[1] \in b + 1 .. to
      BY <1>5, <2>2
    <3>2. l.pos[1] \in Nat \ {0} /\ l.pos[1] <= e.pos[1]
      BY <1>1, <1>13, <3>1, LogFacts, EventChainAssumption DEF Before, Fits
    <3>3. l.pos[1] \in 1 .. to
      BY <1>2, <3>1, <3>2
    <3>4. CASE c = "EncryptedERC"
      BY <1>9, <1>13, <3>3, <3>4
    <3>5. CASE c = "Registrar"
      <4>1. Covers("EncryptedERC", poll[p].target)
        BY <1>0, <1>1, <3>5 DEF FlatPoll
      <4>2. poll[p].target \in Nat /\ poll[p].target <= Len(chain)
        BY ActiveFacts
      <4>3. l.pos[1] \in 1 .. poll[p].target
        BY <1>2, <3>3, <4>2
      <4>4. l \in LogsOf("EncryptedERC", 1 .. poll[p].target)
        BY <1>1, <1>13, <4>2, <4>3, LogsOfBelow
      <4>5. QED
        BY <1>6, <4>1, <4>4 DEF Covers
    <3>6. QED
      BY <1>1, <3>4, <3>5 DEF Contracts
  <2>3. QED
    BY <1>6, <2>1, <2>2
<1>14. events' \subseteq Logs
  BY <1>1, <1>5, <1>6 DEF FlatInv
<1>15. QED
  BY <1>3, <1>7, <1>11, <1>12, <1>13, <1>14 DEF FlatInv

(* A poller that starts over: what the invariant asks where it is checked. *)
LEMMA CheckType ==
    ASSUME IndexInv, UNCHANGED chainVars, NEW p \in Active, poll'[p].at = "check",
           DOMAIN poll'[p] = Fields, poll'[p].contract = poll[p].contract,
           poll'[p].start = poll[p].start, poll'[p].target = poll[p].target,
           poll'[p].replaces = poll[p].replaces, poll'[p].fork = 0,
           NEW n \in Nat, NEW f \in 0 .. forks, poll'[p].cursor = [block |-> n, fork |-> f],
           n <= ConfirmedBlock, n >= poll[p].start - 1
    PROVE  PollInv(p)'
<1>1. PollType(p) /\ (~poll[p].replaces => poll[p].start = 1)
  BY ActiveFacts DEF PollInv
<1>2. chain' = chain /\ forks' = forks /\ forks \in Nat
  BY DEF chainVars, IndexInv, ChainInv
<1>3. [block |-> n, fork |-> f] \in [block : Nat, fork : 0 .. forks]
  OBVIOUS
<1>4. poll'[p].cursor \in Cursors' /\ poll'[p].cursor.block = n
  BY <1>2, <1>3 DEF Cursors
<1>5. PollType(p)'
  BY <1>1, <1>2, <1>4 DEF PollType, Fields, Places
<1>6. ConfirmedBlock' = ConfirmedBlock
  BY <1>2 DEF ConfirmedBlock
<1>7. QED
  BY <1>1, <1>4, <1>5, <1>6, ActiveFacts DEF PollInv

LEMMA CursorSet ==
    ASSUME IndexInv, UNCHANGED <<chainVars, torn, lapped>>, NEW c \in Contracts,
           NEW n \in Nat, NEW f \in 0 .. forks, n <= ConfirmedBlock,
           cursor' = [cursor EXCEPT ![c] = [block |-> n, fork |-> f]]
    PROVE  CursorInv'
<1>1. /\ CursorInv /\ chain' = chain /\ forks' = forks /\ torn' = torn
      /\ cursor \in [Contracts -> Cursors]
  BY DEF IndexInv, CursorInv, chainVars
<1>2. [block |-> n, fork |-> f] \in Cursors
  BY DEF Cursors
<1>3. cursor' \in [Contracts -> Cursors]
  BY <1>1, <1>2
<1>4. Cursors' = Cursors /\ ConfirmedBlock' = ConfirmedBlock
  BY <1>1 DEF Cursors, ConfirmedBlock
<1>5. \A d \in Contracts : cursor'[d].block <= ConfirmedBlock
  <2>1. TAKE d \in Contracts
  <2>2. CASE d = c
    BY <1>1, <2>2
  <2>3. CASE d # c
    BY <1>1, <2>3 DEF CursorInv
  <2>4. QED
    BY <2>2, <2>3
<1>6. lapped' \in BOOLEAN
  <2>1. lapped' = lapped
    OBVIOUS
  <2>2. QED
    BY <1>1, <2>1 DEF CursorInv
<1>7. QED
  BY <1>1, <1>3, <1>4, <1>5, <1>6 DEF CursorInv

LEMMA CommitWindowInv ==
    ASSUME IndexInv, UNCHANGED chainVars, NEW p \in Active, CommitWindow(p)
    PROVE  IndexInv'
<1>0. PICK c, to, L, f : c = poll[p].contract /\ to = To(p) /\ L = poll[p].logs /\ f = poll[p].fork
  OBVIOUS
<1>1. /\ to \in Nat /\ to <= ConfirmedBlock /\ f \in 0 .. forks /\ c \in Contracts /\ p \in Pollers
      /\ cursor' = [cursor EXCEPT ![c] = [block |-> to, fork |-> f]]
      /\ torn' = torn /\ lapped' = lapped /\ chain' = chain /\ forks' = forks
      /\ poll' = [poll EXCEPT ![p] = poll'[p]]
  <2>1. f \in 0 .. forks /\ c \in Contracts /\ p \in Pollers
    BY <1>0, ActiveFacts
  <2>2. QED
    BY <1>0, <2>1, CommitFacts
<1>2. CursorInv'
  BY <1>1, CursorSet
<1>3. PollInv(p)'
  <2>1. poll[p].cursor.block < to /\ poll[p].cursor.block \in Nat /\ poll[p].at = "commit"
    BY <1>0, CommitFacts
  <2>2. to >= poll[p].start - 1
    BY <1>1, <2>1, ActiveFacts DEF PollInv
  <2>3. /\ poll'[p].at = "check" /\ poll'[p].contract = poll[p].contract
        /\ poll'[p].cursor = [block |-> to, fork |-> f]
        /\ poll'[p].start = poll[p].start /\ poll'[p].target = poll[p].target
        /\ poll'[p].replaces = poll[p].replaces /\ poll'[p].fork = 0 /\ DOMAIN poll'[p] = Fields
    BY <1>0, CommitFacts
  <2>4. QED
    BY <1>1, <2>2, <2>3, CheckType
<1>4. RowsInv'
  <2>1. \A e \in events' : e \in L \/ (e \in events /\ \A l \in L : ~(l.tx = e.tx /\ l.pos[2] = e.pos[2]))
    BY <1>0, CommitFacts
  <2>2. \A l \in L : Fits(l) /\ \A m \in L : l.tx = m.tx => l = m
    BY <1>0, CommitFacts
  <2>3. \A e : Fits(e)' <=> Fits(e)
    BY <1>1 DEF Fits
  <2>4. \A e \in events' : Fits(e)
    BY <2>1, <2>2, RowFacts
  <2>5. ASSUME NEW e \in events', NEW g \in events', e.tx = g.tx, e.pos[2] = g.pos[2]
        PROVE  e = g
    <3>1. CASE e \in L /\ g \in L
      BY <2>2, <2>5, <3>1
    <3>2. CASE e \in events /\ g \in events
      BY <2>5, <3>2 DEF IndexInv, RowsInv
    <3>3. e \in L <=> g \in L
      BY <2>1, <2>2, <2>5, <3>2
    <3>4. QED
      BY <2>1, <3>1, <3>2, <3>3
  <2>6. QED
    BY <2>3, <2>4, <2>5 DEF RowsInv
<1>5. ASSUME ~lapped' PROVE SoloInv'
  <2>1. lapped' = lapped
    BY <1>1
  <2>2. ~lapped
    BY <1>5, <2>1
  <2>3. QED
    BY <2>2, CommitSolo
<1>6. QED
  BY <1>1, <1>2, <1>3, <1>4, <1>5, CommitFlat, PollersMove

-----------------------------------------------------------------------------
(* A window is thrown away.                                                *)

LEMMA RewindFacts ==
    ASSUME IndexInv, UNCHANGED chainVars, NEW p \in Active, CommitRewind(p)
    PROVE  LET c == poll[p].contract
               b == poll[p].cursor.block
               n == Rewound(p)
               new == poll'[p]
           IN
           /\ poll[p].at = "rewound" /\ new.at = "check" /\ new.contract = c
           /\ new.cursor = [block |-> n, fork |-> poll[p].fork]
           /\ new.start = poll[p].start /\ new.target = poll[p].target
           /\ new.replaces = poll[p].replaces /\ new.fork = 0 /\ DOMAIN new = Fields
           /\ poll' = [poll EXCEPT ![p] = new]
           /\ Active' = Active
           /\ \A e : e \in events' <=> e \in events /\ ~(ContractOf(e.tx) = c /\ e.pos[1] \in n + 1 .. b)
           /\ cursor' = [cursor EXCEPT ![c] = [block |-> n, fork |-> poll[p].fork]]
           /\ cursor'[c] = [block |-> n, fork |-> poll[p].fork]
           /\ \A d \in Contracts \ {c} : cursor'[d] = cursor[d]
           /\ chain' = chain /\ forks' = forks /\ torn' = torn /\ lapped' = lapped
           /\ n \in Nat /\ b \in Nat /\ n <= b /\ b <= ConfirmedBlock /\ b <= Len(chain)
           /\ poll[p].start - 1 <= n /\ (n = poll[p].start - 1 \/ n = b - WindowBlocks)
<1> DEFINE c == poll[p].contract
           b == poll[p].cursor.block
           n == Rewound(p)
           reached == [block |-> n, fork |-> poll[p].fork]
           new == [poll[p] EXCEPT !.at = "check", !.cursor = reached, !.fork = 0]
<1>1. /\ poll[p].at = "rewound" /\ poll' = [poll EXCEPT ![p] = new]
      /\ events' = events \ RowsOf(c, n + 1 .. b)
      /\ cursor' = [cursor EXCEPT ![c] = reached]
      /\ torn' = torn /\ lapped' = lapped
  BY DEF CommitRewind, Polls
<1>2. /\ new.at = "check" /\ new.cursor = reached /\ new.contract = c
      /\ new.start = poll[p].start /\ new.target = poll[p].target
      /\ new.replaces = poll[p].replaces /\ new.fork = 0 /\ DOMAIN new = Fields
  BY ActiveFacts DEF Fields
<1>3. p \in Pollers /\ c \in Contracts /\ poll[p].at # "idle" /\ b \in Nat /\ b <= ConfirmedBlock /\ b <= Len(chain)
  BY ActiveFacts
<1>4. n \in Nat /\ n <= b /\ poll[p].start - 1 <= n /\ (n = poll[p].start - 1 \/ n = b - WindowBlocks)
  BY <1>1, RewoundFacts
<1>5. \A e : e \in events' <=> e \in events /\ ~(ContractOf(e.tx) = c /\ e.pos[1] \in n + 1 .. b)
  <2>1. PICK rows : rows = RowsOf(c, n + 1 .. b)
    OBVIOUS
  <2>2. \A e : e \in rows <=> e \in events /\ ContractOf(e.tx) = c /\ e.pos[1] \in n + 1 .. b
    BY <2>1, RowsWithin
  <2>3. events' = events \ rows
    BY <1>1, <2>1
  <2>4. QED
    BY <2>2, <2>3
<1> HIDE DEF new
<1>6. poll'[p] = new /\ \A q \in Pollers \ {p} : poll'[q] = poll[q]
  BY <1>1, <1>3, PollerFacts
<1>7. Active' = Active
  BY <1>1, <1>2, <1>3, <1>6 DEF Active
<1>8. cursor'[c] = reached /\ \A d \in Contracts \ {c} : cursor'[d] = cursor[d]
  BY <1>1, <1>3 DEF IndexInv, CursorInv
<1>9. chain' = chain /\ forks' = forks
  BY DEF chainVars
<1>10. /\ poll'[p].at = "check" /\ poll'[p].contract = c /\ poll'[p].cursor = reached
       /\ poll'[p].start = poll[p].start /\ poll'[p].target = poll[p].target
       /\ poll'[p].replaces = poll[p].replaces /\ poll'[p].fork = 0 /\ DOMAIN poll'[p] = Fields
       /\ poll' = [poll EXCEPT ![p] = poll'[p]]
  BY <1>1, <1>2, <1>6
<1>11. QED
  BY <1>1, <1>3, <1>4, <1>5, <1>7, <1>8, <1>9, <1>10

LEMMA RewindSolo ==
    ASSUME IndexInv, UNCHANGED chainVars, NEW p \in Active, CommitRewind(p), ~lapped
    PROVE  SoloInv'
<1>0. PICK c, b, n : c = poll[p].contract /\ b = poll[p].cursor.block /\ n = Rewound(p)
  OBVIOUS
<1>1. SoloInv /\ InStep(p) /\ (c \notin torn => SoloPoll(p)) /\ poll[p].start = 1 /\ \A q \in Active : q = p
  BY <1>0, RewindFacts, ActiveFacts
<1>2. Active' = Active /\ p \in Active' /\ c \in Contracts /\ poll[p].target \in Nat /\ ChainInv
  BY <1>0, RewindFacts, ActiveFacts DEF IndexInv
<1>3. n \in Nat /\ b \in Nat /\ n <= b /\ b <= Len(chain) /\ (n = 0 \/ n = b - WindowBlocks)
  <2>1. /\ n \in Nat /\ b \in Nat /\ n <= b /\ b <= Len(chain)
        /\ (n = poll[p].start - 1 \/ n = b - WindowBlocks)
    BY <1>0, RewindFacts
  <2>2. QED
    BY <1>1, <2>1
<1>4. /\ chain' = chain /\ forks' = forks /\ torn' = torn
      /\ cursor'[c] = [block |-> n, fork |-> poll[p].fork]
      /\ \A d \in Contracts \ {c} : cursor'[d] = cursor[d]
  BY <1>0, RewindFacts
<1>5. \A e : e \in events' <=> e \in events /\ ~(ContractOf(e.tx) = c /\ e.pos[1] \in n + 1 .. b)
  BY <1>0, RewindFacts
<1>6. /\ poll'[p].at = "check" /\ poll'[p].contract = c /\ poll'[p].start = poll[p].start
      /\ poll'[p].target = poll[p].target /\ poll'[p].replaces = poll[p].replaces
      /\ poll'[p].cursor = [block |-> n, fork |-> poll[p].fork] /\ poll[p].at = "rewound"
  BY <1>0, RewindFacts
<1>7. \A q \in Active' : poll'[q].start = 1 /\ \A e \in events' : e.pos[1] <= poll'[q].target
  BY <1>1, <1>2, <1>5, <1>6 DEF SoloInv
<1>8. ASSUME NEW d \in Contracts, ~Reworked(d)' PROVE NoneBeyond(d)'
  <2>1. ~Reworked(d) /\ (d = c => ~poll[p].replaces)
    BY <1>0, <1>1, <1>2, <1>6, <1>8 DEF Reworked
  <2>2. NoneBeyond(d)
    BY <1>1, <2>1 DEF SoloInv
  <2>3. CASE d = c
    <3>1. cursor[c].block = b
      BY <1>0, <1>1, <2>1, <2>3 DEF InStep
    <3>2. ASSUME NEW e \in events', ContractOf(e.tx) = c PROVE e.pos[1] <= n
      <4>1. e \in events /\ e.pos[1] \notin n + 1 .. b
        BY <1>5, <3>2
      <4>2. e.pos[1] <= b
        BY <2>2, <2>3, <3>1, <3>2, <4>1 DEF NoneBeyond
      <4>3. e.pos[1] \in Nat
        BY <4>1, RowFacts
      <4>4. QED
        BY <1>3, <4>1, <4>2, <4>3
    <3>3. cursor'[c].block = n
      BY <1>4
    <3>4. QED
      BY <2>3, <3>2, <3>3 DEF NoneBeyond
  <2>4. CASE d # c
    BY <1>4, <1>5, <2>2, <2>4 DEF NoneBeyond
  <2>5. QED
    BY <2>3, <2>4
<1>9. ASSUME NEW d \in Contracts \ torn, d # c PROVE CursorGood(d, cursor[d])'
  <2>1. CursorGood(d, cursor[d])
    BY <1>1 DEF SoloInv
  <2>2. \A e : ContractOf(e.tx) = d => (e \in events' <=> e \in events)
    BY <1>5, <1>9
  <2>3. QED
    BY <1>4, <1>9, <2>1, <2>2 DEF CursorGood, Right, RowsOf, LogsOf, LogsIn, ForkAt
<1>10. ASSUME c \notin torn
       PROVE  CursorGood(c, cursor[c])' /\ SoloPoll(p)'
  <2>1. CursorGood(c, poll[p].cursor)
    BY <1>0, <1>1, <1>10 DEF SoloPoll
  <2>2. Right(c, n)
    <3>1. CASE n = 0
      BY <3>1, RightOfNone
    <3>2. CASE n = b - WindowBlocks
      BY <1>0, <2>1, <3>2 DEF CursorGood
    <3>3. QED
      BY <1>3, <3>1, <3>2
  <2>3. PICK m : m = n - WindowBlocks
    OBVIOUS
  <2>4. n \in Int /\ n <= Len(chain) /\ m \in Int /\ m <= n
    BY <1>3, <2>3, EventChainAssumption, ActiveFacts
  <2>5. Right(c, m)
    BY <1>2, <2>2, <2>4, RightBelow
  <2>6. SameBlocks(n) /\ SameRows(c, n) /\ SameBlocks(m) /\ SameRows(c, m)
    BY <1>3, <1>4, <1>5, <2>4, ActiveFacts DEF SameBlocks, SameRows
  <2>7. Right(c, n)' /\ Right(c, m)'
    BY <2>2, <2>4, <2>5, <2>6, RightStays
  <2>8. CursorGood(c, cursor[c])'
    BY <1>4, <2>3, <2>7 DEF CursorGood, Right, RowsOf, LogsOf, LogsIn, ForkAt
  <2>9. SoloPoll(p)'
    BY <1>6, <2>3, <2>7 DEF SoloPoll, CursorGood, Right, RowsOf, LogsOf, LogsIn, ForkAt
  <2>10. QED
    BY <2>8, <2>9
<1>11. InStep(p)'
  BY <1>4, <1>6 DEF InStep
<1>12. \A d \in Contracts \ torn : CursorGood(d, cursor[d])'
  BY <1>9, <1>10
<1>13. QED
  BY <1>1, <1>2, <1>4, <1>6, <1>7, <1>8, <1>10, <1>11, <1>12 DEF SoloInv

LEMMA CommitRewindInv ==
    ASSUME IndexInv, UNCHANGED chainVars, NEW p \in Active, CommitRewind(p)
    PROVE  IndexInv'
<1>0. PICK c, n, f : c = poll[p].contract /\ n = Rewound(p) /\ f = poll[p].fork
  OBVIOUS
<1>1. /\ n \in Nat /\ n <= ConfirmedBlock /\ f \in 0 .. forks /\ c \in Contracts /\ p \in Pollers
      /\ cursor' = [cursor EXCEPT ![c] = [block |-> n, fork |-> f]]
      /\ torn' = torn /\ lapped' = lapped /\ chain' = chain /\ forks' = forks
      /\ poll' = [poll EXCEPT ![p] = poll'[p]]
  <2>1. f \in 0 .. forks /\ c \in Contracts /\ p \in Pollers /\ ConfirmedBlock \in Nat
    BY <1>0, ActiveFacts
  <2>2. /\ n \in Nat /\ poll[p].cursor.block \in Nat
        /\ n <= poll[p].cursor.block /\ poll[p].cursor.block <= ConfirmedBlock
    BY <1>0, RewindFacts
  <2>3. n <= ConfirmedBlock
    BY <2>1, <2>2
  <2>4. QED
    BY <1>0, <2>1, <2>2, <2>3, RewindFacts
<1>2. CursorInv'
  BY <1>1, CursorSet
<1>3. PollInv(p)'
  <2>1. /\ poll'[p].at = "check" /\ poll'[p].contract = poll[p].contract
        /\ poll'[p].cursor = [block |-> n, fork |-> f] /\ poll[p].start - 1 <= n
        /\ poll'[p].start = poll[p].start /\ poll'[p].target = poll[p].target
        /\ poll'[p].replaces = poll[p].replaces /\ poll'[p].fork = 0 /\ DOMAIN poll'[p] = Fields
    BY <1>0, RewindFacts
  <2>2. n >= poll[p].start - 1
    BY <1>1, <2>1, ActiveFacts
  <2>3. QED
    BY <1>1, <2>1, <2>2, CheckType
<1>4. RowsInv'
  <2>1. events' \subseteq events
    BY RewindFacts
  <2>2. \A e : Fits(e)' <=> Fits(e)
    BY <1>1 DEF Fits
  <2>3. QED
    BY <2>1, <2>2 DEF IndexInv, RowsInv
<1>5. ASSUME ~lapped' PROVE SoloInv'
  <2>1. lapped' = lapped
    BY <1>1
  <2>2. ~lapped
    BY <1>5, <2>1
  <2>3. QED
    BY <2>2, RewindSolo
<1>6. forks # 0
  BY RewindFacts, ActiveFacts DEF FlatPoll
<1>7. QED
  BY <1>1, <1>2, <1>3, <1>4, <1>5, <1>6, PollersMove

-----------------------------------------------------------------------------
(* A poll begins or fails.                                                 *)

LEMMA NothingWritten ==
    ASSUME IndexInv, UNCHANGED <<chainVars, indexVars, torn>>, lapped' \in BOOLEAN
    PROVE  /\ RowsInv' /\ CursorInv'
           /\ \A c \in Contracts : CursorGood(c, cursor[c])' <=> CursorGood(c, cursor[c])
           /\ \A c \in Contracts : NoneBeyond(c)' <=> NoneBeyond(c)
           /\ \A c, n : Covers(c, n)' <=> Covers(c, n)
           /\ Logs' = Logs
<1>1. /\ chain' = chain /\ forks' = forks /\ events' = events /\ cursor' = cursor /\ torn' = torn
  BY DEF chainVars, indexVars
<1>2. RowsInv'
  BY <1>1 DEF IndexInv, RowsInv, Fits
<1>3. CursorInv'
  BY <1>1 DEF IndexInv, CursorInv, Cursors, ConfirmedBlock
<1>4. \A c \in Contracts : CursorGood(c, cursor[c])' <=> CursorGood(c, cursor[c])
  BY <1>1 DEF CursorGood, Right, RowsOf, LogsOf, LogsIn, ForkAt
<1>5. \A c \in Contracts : NoneBeyond(c)' <=> NoneBeyond(c)
  BY <1>1 DEF NoneBeyond
<1>6. \A c, n : Covers(c, n)' <=> Covers(c, n)
  BY <1>1 DEF Covers, LogsOf, LogsIn
<1>7. Logs' = Logs
  BY <1>1 DEF Logs, LogsIn
<1>8. QED
  BY <1>2, <1>3, <1>4, <1>5, <1>6, <1>7

(* A poller that did not move.                                             *)
LEMMA FlatPollStays ==
    ASSUME UNCHANGED <<chainVars, events>>, NEW q, poll'[q] = poll[q], FlatPoll(q)
    PROVE  FlatPoll(q)'
BY DEF chainVars, FlatPoll, Covers, LogsOf, LogsIn, Window, To

LEMMA BeginPollInv ==
    ASSUME IndexInv, UNCHANGED chainVars, NEW p \in Pollers, NEW start \in Nat \ {0},
           NEW backfill \in BOOLEAN, ~backfill => start = 1,
           \A c \in Contracts : start <= cursor[c].block + 1, BeginPoll(p, start, backfill)
    PROVE  IndexInv'
<1>1. PICK new : new = [Idle EXCEPT !.at = "load", !.start = start, !.replaces = backfill,
                                    !.target = ConfirmedBlock]
  OBVIOUS
<1>2. /\ ConfirmedBlock >= start /\ poll[p].at = "idle" /\ poll' = [poll EXCEPT ![p] = new]
      /\ UNCHANGED <<indexVars, torn>>
  BY <1>1 DEF BeginPoll, Polls
<1>3. lapped' \in BOOLEAN /\ (~lapped' => ~lapped /\ Active = {} /\ ~(start > 1))
  BY DEF BeginPoll
<1>4. /\ new.at = "load" /\ new.contract = "EncryptedERC" /\ new.cursor = [block |-> 0, fork |-> 0]
      /\ new.start = start /\ new.target = ConfirmedBlock /\ new.replaces = backfill
      /\ new.fork = 0 /\ DOMAIN new = Fields
  BY <1>1 DEF Idle, Fields
<1>5. /\ poll'[p] = new /\ \A q \in Pollers \ {p} : poll'[q] = poll[q]
      /\ Active' = Active \cup {p} /\ p \notin Active
  BY <1>2, <1>4, PollerFacts DEF Active
<1>6. /\ chain' = chain /\ forks' = forks /\ events' = events /\ cursor' = cursor /\ torn' = torn
      /\ ConfirmedBlock' = ConfirmedBlock
  BY <1>2 DEF chainVars, indexVars, ConfirmedBlock
<1>7. ConfirmedBlock \in Nat /\ forks \in Nat /\ CursorInv
  BY ConfirmedFacts DEF IndexInv, ChainInv
<1>8. PollInv(p)'
  <2>1. PollType(p)'
    BY <1>4, <1>5, <1>6, <1>7 DEF PollType, Fields, Places, Contracts, Cursors
  <2>2. QED
    BY <1>2, <1>4, <1>5, <1>6, <1>7, <2>1 DEF PollInv
<1>9. RowsInv' /\ CursorInv'
  BY <1>2, <1>3, NothingWritten
<1>10. ASSUME ~lapped' PROVE SoloInv'
  <2>1. SoloInv /\ Active = {} /\ start = 1
    BY <1>3, <1>10 DEF IndexInv
  <2>2. \A q \in Active' : q = p
    BY <1>5, <2>1
  <2>3. \A d \in Contracts : ~Reworked(d) /\ ~Reworked(d)'
    BY <1>4, <1>5, <2>1, <2>2 DEF Reworked
  <2>4. \A e \in events : e.pos[1] <= ConfirmedBlock
    <3>1. TAKE e \in events
    <3>2. PICK c \in Contracts : c = ContractOf(e.tx)
      BY ContractsAre
    <3>3. e.pos[1] <= cursor[c].block
      BY <2>1, <2>3, <3>2 DEF SoloInv, NoneBeyond
    <3>4. cursor[c].block \in Nat /\ cursor[c].block <= ConfirmedBlock
      BY <1>7 DEF CursorInv, Cursors
    <3>5. e.pos[1] \in Nat
      BY RowFacts
    <3>6. QED
      BY <1>7, <3>3, <3>4, <3>5
  <2>5. \A q \in Active' : poll'[q].start = 1 /\ \A e \in events' : e.pos[1] <= poll'[q].target
    BY <1>4, <1>5, <1>6, <2>1, <2>2, <2>4
  <2>6. /\ \A d \in Contracts : NoneBeyond(d)'
        /\ \A d \in Contracts \ torn : CursorGood(d, cursor[d])'
    BY <1>2, <1>3, <2>1, <2>3, NothingWritten DEF SoloInv
  <2>7. \A q \in Active' : poll'[q].at = "load"
    BY <1>4, <1>5, <2>2
  <2>8. QED
    BY <1>6, <2>2, <2>5, <2>6, <2>7 DEF SoloInv
<1>11. ASSUME forks = 0 PROVE FlatInv'
  <2>1. FlatInv /\ \A d, n : Covers(d, n)' <=> Covers(d, n)
    BY <1>2, <1>3, <1>11, NothingWritten DEF IndexInv
  <2>2. ASSUME NEW d \in Contracts PROVE Covers(d, start - 1)
    <3>1. cursor[d].block \in Nat /\ start - 1 <= cursor[d].block
      BY <1>7 DEF CursorInv, Cursors
    <3>2. QED
      BY <2>1, <3>1, CoversBelow DEF FlatInv
  <2>3. FlatPoll(p)'
    BY <1>4, <1>5, <2>1, <2>2 DEF FlatPoll
  <2>4. ASSUME NEW q \in Active', q # p PROVE FlatPoll(q)'
    <3>1. q \in Active /\ poll'[q] = poll[q]
      BY <1>5, <2>4 DEF Active
    <3>2. FlatPoll(q)
      BY <2>1, <3>1 DEF FlatInv
    <3>3. QED
      BY <1>6, <3>1, <3>2, FlatPollStays
  <2>5. Logs' = Logs
    BY <1>6 DEF Logs, LogsIn
  <2>6. QED
    BY <1>6, <2>1, <2>3, <2>4, <2>5 DEF FlatInv
<1>12. QED
  BY <1>2, <1>8, <1>9, <1>10, <1>11, PollersMove

LEMMA AbortPollInv ==
    ASSUME IndexInv, UNCHANGED chainVars, NEW p \in Active, AbortPoll(p)
    PROVE  IndexInv'
<1>1. p \in Pollers /\ poll' = [poll EXCEPT ![p] = Idle] /\ UNCHANGED <<indexVars, torn>>
  BY DEF AbortPoll, Active
<1>2. lapped' \in BOOLEAN /\ (~lapped' => ~lapped /\ ~poll[p].replaces)
  BY ActiveFacts DEF AbortPoll
<1>3. /\ poll'[p] = Idle /\ \A q \in Pollers \ {p} : poll'[q] = poll[q]
      /\ Active' = Active \ {p}
  <2>1. Idle.at = "idle"
    BY DEF Idle
  <2>2. PICK new : new = Idle
    OBVIOUS
  <2>3. QED
    BY <1>1, <2>1, <2>2, PollerFacts
<1>4. /\ chain' = chain /\ forks' = forks /\ events' = events /\ cursor' = cursor /\ torn' = torn
  BY <1>1 DEF chainVars, indexVars
<1>5. PollInv(p)'
  <2>1. forks \in Nat
    BY DEF IndexInv, ChainInv
  <2>2. PollType(p)'
    BY <1>3, <1>4, <2>1 DEF PollType, Places, Contracts, Cursors, Idle
  <2>3. QED
    BY <1>3, <2>2 DEF PollInv, Idle
<1>6. RowsInv' /\ CursorInv'
  BY <1>1, <1>2, NothingWritten
<1>7. ASSUME ~lapped' PROVE SoloInv'
  <2>1. SoloInv /\ \A q \in Active : q = p
    BY <1>2, <1>7, ActiveFacts
  <2>2. Active' = {}
    BY <1>3, <2>1
  <2>3. \A d \in Contracts : ~Reworked(d)
    BY <1>2, <1>7, <2>1 DEF Reworked
  <2>4. /\ \A d \in Contracts : NoneBeyond(d)'
        /\ \A d \in Contracts \ torn : CursorGood(d, cursor[d])'
    BY <1>1, <1>2, <2>1, <2>3, NothingWritten DEF SoloInv
  <2>5. QED
    BY <1>4, <2>2, <2>4 DEF SoloInv
<1>8. ASSUME forks = 0 PROVE FlatInv'
  <2>1. FlatInv /\ \A d, n : Covers(d, n)' <=> Covers(d, n)
    BY <1>1, <1>2, <1>8, NothingWritten DEF IndexInv
  <2>2. ASSUME NEW q \in Active' PROVE FlatPoll(q)'
    <3>1. q \in Active /\ poll'[q] = poll[q]
      BY <1>3 DEF Active
    <3>2. FlatPoll(q)
      BY <2>1, <3>1 DEF FlatInv
    <3>3. QED
      BY <1>4, <3>1, <3>2, FlatPollStays
  <2>3. Logs' = Logs
    BY <1>4 DEF Logs, LogsIn
  <2>4. QED
    BY <1>4, <2>1, <2>2, <2>3 DEF FlatInv
<1>9. QED
  BY <1>1, <1>5, <1>6, <1>7, <1>8, PollersMove

-----------------------------------------------------------------------------
(* A block is mined.                                                       *)

(* What a longer chain leaves as it was.                                   *)
LEMMA GoodStays ==
    ASSUME NEW n \in Nat, SameBlocks(n), events' = events, NEW c, NEW b \in Nat, NEW f, b <= n,
           CursorGood(c, [block |-> b, fork |-> f])
    PROVE  CursorGood(c, [block |-> b, fork |-> f])'
<1>1. \A m \in Int : m <= n => SameBlocks(m) /\ SameRows(c, m)
  BY DEF SameBlocks, SameRows
<1>2. PICK m : m = b - WindowBlocks
  OBVIOUS
<1>3. m \in Int /\ m <= n /\ b \in Int
  BY <1>2, EventChainAssumption
<1>4. Right(c, m) /\ (ForkAt(b) = f => Right(c, b))
  BY <1>2 DEF CursorGood
<1>5. ForkAt(b)' = ForkAt(b)
  BY <1>1, SameFork
<1>6. Right(c, m)' /\ (ForkAt(b)' = f => Right(c, b)')
  BY <1>1, <1>3, <1>4, <1>5, RightStays
<1>7. QED
  BY <1>2, <1>6 DEF CursorGood

LEMMA MineBlockFacts ==
    ASSUME ChainInv, NEW txs \in SUBSET Txs, NEW rotated, \A i \in DOMAIN rotated : rotated[i] \in Txs,
           MineBlock(txs, rotated)
    PROVE  /\ ChainInv' /\ forks' = forks /\ Len(chain') = Len(chain) + 1
           /\ SameBlocks(Len(chain))
           /\ \A l \in Logs' : l \in Logs \/ l.pos[1] = Len(chain) + 1
           /\ Logs \subseteq Logs'
           /\ \A e : Fits(e) => Fits(e)'
           /\ ConfirmedBlock <= ConfirmedBlock' /\ ConfirmedBlock' \in Nat
           /\ \A l \in Logs' \ Logs : l.tx \in txs \/ \E i \in DOMAIN rotated : l.tx = rotated[i]
<1> DEFINE S == Blocks
           n == Len(chain)
<1>0. PICK k \in 0 .. MaxLogs : \E logs \in [1 .. k -> Mineable(txs, rotated)] :
          IsInjective(logs) /\ chain' = Append(chain, [fork |-> forks, logs |-> logs])
  BY DEF MineBlock
<1>1. PICK logs \in [1 .. k -> Mineable(txs, rotated)] :
          IsInjective(logs) /\ chain' = Append(chain, [fork |-> forks, logs |-> logs])
  BY <1>0
<1>2. n < MaxBlocks /\ forks' = forks /\ forks \in Nat /\ n \in Nat /\ DOMAIN chain = 1 .. n /\ MaxBlocks \in Nat
  BY ChainLen, EventChainAssumption DEF MineBlock, ChainInv
<1>3. k \in Nat /\ k <= MaxLogs
  BY EventChainAssumption
<1>4. \A t \in Mineable(txs, rotated) :
          /\ t \in Txs /\ ~InChain(t)
          /\ t \in txs \/ \E i \in DOMAIN rotated : t = rotated[i]
  BY DEF Mineable
<1>5. PICK block : block = [fork |-> forks, logs |-> logs]
  OBVIOUS
<1>6. \A i \in 1 .. k : /\ logs[i] \in Txs /\ ~InChain(logs[i])
                        /\ logs[i] \in txs \/ \E j \in DOMAIN rotated : logs[i] = rotated[j]
  BY <1>4
<1>7. logs \in Seq(Txs) /\ Len(logs) = k /\ DOMAIN logs = 1 .. k
  <2>1. logs \in [1 .. k -> Txs]
    BY <1>6
  <2>2. QED
    BY <1>3, <2>1
<1>8. block \in S /\ block.fork = forks /\ block.logs = logs
  BY <1>2, <1>5, <1>7 DEF Blocks
<1>9. chain \in Seq(S)
  BY DEF ChainInv
<1> HIDE DEF S
<1>10. /\ chain' = Append(chain, block) /\ chain' \in Seq(S) /\ Len(chain') = n + 1 /\ DOMAIN chain' = 1 .. n + 1
       /\ chain'[n + 1] = block /\ \A b \in 1 .. n : chain'[b] = chain[b]
  BY <1>1, <1>2, <1>5, <1>8, <1>9
<1>11. SameBlocks(n)
  BY <1>2, <1>10 DEF SameBlocks
<1>12. \A l : l \in Logs' <=> \E b \in DOMAIN chain' : \E i \in DOMAIN chain'[b].logs :
                                l = [tx |-> chain'[b].logs[i], pos |-> <<b, i>>, fork |-> chain'[b].fork]
  BY DEF Logs, LogsIn
<1>13. \A l : l \in Logs <=> \E b \in DOMAIN chain : \E i \in DOMAIN chain[b].logs :
                                l = [tx |-> chain[b].logs[i], pos |-> <<b, i>>, fork |-> chain[b].fork]
  BY DEF Logs, LogsIn
<1>14. \A l : l \in Logs' <=> l \in Logs \/ \E i \in 1 .. k : l = [tx |-> logs[i], pos |-> <<n + 1, i>>, fork |-> forks]
  <2>1. TAKE l
  <2>2. ASSUME l \in Logs'
        PROVE  l \in Logs \/ \E i \in 1 .. k : l = [tx |-> logs[i], pos |-> <<n + 1, i>>, fork |-> forks]
    <3>1. PICK b \in 1 .. n + 1 : \E i \in DOMAIN chain'[b].logs :
                                l = [tx |-> chain'[b].logs[i], pos |-> <<b, i>>, fork |-> chain'[b].fork]
      BY <1>10, <1>12, <2>2
    <3>2. CASE b = n + 1
      <4>1. chain'[b].logs = logs /\ chain'[b].fork = forks
        BY <1>8, <1>10, <3>2
      <4>2. \E i \in 1 .. k : l = [tx |-> logs[i], pos |-> <<b, i>>, fork |-> forks]
        BY <1>7, <3>1, <4>1
      <4>3. QED
        BY <3>2, <4>2
    <3>3. CASE b \in 1 .. n
      <4>1. b \in DOMAIN chain /\ chain'[b] = chain[b]
        BY <1>2, <1>10, <3>3
      <4>2. l \in Logs
        BY <1>13, <3>1, <4>1
      <4>3. QED
        BY <4>2
    <3>4. b = n + 1 \/ b \in 1 .. n
      BY <1>2
    <3>5. QED
      BY <3>2, <3>3, <3>4
  <2>3. ASSUME l \in Logs PROVE l \in Logs'
    <3>1. PICK b \in 1 .. n : \E i \in DOMAIN chain[b].logs :
                                l = [tx |-> chain[b].logs[i], pos |-> <<b, i>>, fork |-> chain[b].fork]
      BY <1>2, <1>13, <2>3
    <3>2. b \in DOMAIN chain' /\ chain'[b] = chain[b]
      BY <1>2, <1>10, <3>1
    <3>3. QED
      BY <1>12, <3>1, <3>2
  <2>4. ASSUME NEW i \in 1 .. k, l = [tx |-> logs[i], pos |-> <<n + 1, i>>, fork |-> forks] PROVE l \in Logs'
    <3>1. n + 1 \in DOMAIN chain' /\ chain'[n + 1] = block
      BY <1>2, <1>10
    <3>2. QED
      BY <1>7, <1>8, <1>12, <2>4, <3>1
  <2>5. QED
    BY <2>2, <2>3, <2>4
<1>15. ASSUME NEW l \in Logs', NEW m \in Logs', l.tx = m.tx PROVE l = m
  <2>1. CASE l \in Logs /\ m \in Logs
    BY <1>15, <2>1 DEF ChainInv
  <2>2. CASE l \in Logs /\ m \notin Logs
    BY <1>6, <1>14, <1>15, <2>2 DEF InChain
  <2>3. CASE l \notin Logs /\ m \in Logs
    BY <1>6, <1>14, <1>15, <2>3 DEF InChain
  <2>4. CASE l \notin Logs /\ m \notin Logs
    <3>1. PICK i \in 1 .. k : l = [tx |-> logs[i], pos |-> <<n + 1, i>>, fork |-> forks]
      BY <1>14, <2>4
    <3>2. PICK j \in 1 .. k : m = [tx |-> logs[j], pos |-> <<n + 1, j>>, fork |-> forks]
      BY <1>14, <2>4
    <3>3. i = j
      BY <1>1, <1>7, <1>15, <3>1, <3>2 DEF IsInjective
    <3>4. QED
      BY <3>1, <3>2, <3>3
  <2>5. QED
    BY <2>1, <2>2, <2>3, <2>4
<1>16. ChainInv'
  <2>1. chain' \in Seq(Blocks) /\ Len(chain') <= MaxBlocks
    BY <1>2, <1>10 DEF S
  <2>2. ASSUME NEW b \in 1 .. n + 1 PROVE chain'[b].fork <= forks /\ Len(chain'[b].logs) <= MaxLogs
    <3>1. CASE b = n + 1
      BY <1>2, <1>3, <1>7, <1>8, <1>10, <3>1
    <3>2. CASE b \in 1 .. n
      BY <1>2, <1>10, <3>2 DEF ChainInv
    <3>3. QED
      BY <1>2, <2>2, <3>1, <3>2
  <2>3. QED
    BY <1>2, <1>10, <1>15, <2>1, <2>2 DEF ChainInv, Blocks
<1>17. ASSUME NEW e, Fits(e) PROVE Fits(e)'
  <2>1. e.pos[1] \in 1 .. n
    BY <1>2, <1>17 DEF Fits
  <2>2. e.pos[1] \in DOMAIN chain' /\ chain'[e.pos[1]] = chain[e.pos[1]]
    BY <1>2, <1>10, <2>1
  <2>3. QED
    BY <1>2, <1>17, <2>2 DEF Fits
<1>18. ConfirmedBlock <= ConfirmedBlock' /\ ConfirmedBlock' \in Nat
  BY <1>2, <1>10, EventChainAssumption DEF ConfirmedBlock
<1>19. \A l \in Logs' \ Logs :
           l.pos[1] = n + 1 /\ (l.tx \in txs \/ \E i \in DOMAIN rotated : l.tx = rotated[i])
  BY <1>6, <1>14
<1>20. QED
  BY <1>2, <1>10, <1>11, <1>14, <1>16, <1>17, <1>18, <1>19

LEMMA MineBlockInv ==
    ASSUME IndexInv, UNCHANGED indexerVars, NEW txs \in SUBSET Txs, NEW rotated,
           \A i \in DOMAIN rotated : rotated[i] \in Txs, MineBlock(txs, rotated)
    PROVE  IndexInv'
<1> DEFINE n == Len(chain)
<1>1. /\ ChainInv /\ ChainInv' /\ forks' = forks /\ SameBlocks(n)
      /\ \A l \in Logs' : l \in Logs \/ l.pos[1] = n + 1
      /\ Logs \subseteq Logs'
      /\ \A e : Fits(e) => Fits(e)'
      /\ ConfirmedBlock <= ConfirmedBlock' /\ ConfirmedBlock' \in Nat
  BY MineBlockFacts DEF IndexInv
<1>2. n \in Nat /\ ConfirmedBlock \in Nat /\ ConfirmedBlock <= n
  BY <1>1, ChainLen, ConfirmedFacts
<1>3. events' = events /\ cursor' = cursor /\ poll' = poll /\ torn' = torn /\ lapped' = lapped
  BY DEF indexerVars, indexVars, pollVars
<1>4. RowsInv' /\ DOMAIN poll' = Pollers
  BY <1>1, <1>3 DEF IndexInv, RowsInv
<1>5. CursorInv'
  <2>1. CursorInv /\ Cursors' = Cursors
    BY <1>1 DEF IndexInv, Cursors
  <2>2. \A c \in Contracts : cursor[c].block \in Nat
    BY <2>1 DEF CursorInv, Cursors
  <2>3. lapped' \in BOOLEAN
    BY <1>3, <2>1 DEF CursorInv
  <2>4. QED
    BY <1>1, <1>2, <1>3, <2>1, <2>2, <2>3 DEF CursorInv
<1>6. ASSUME NEW p \in Pollers PROVE PollInv(p)'
  <2>1. PollInv(p)
    BY DEF IndexInv
  <2>2. PollType(p)'
    BY <1>1, <1>3, <2>1 DEF PollInv, PollType, Cursors
  <2>3. Window(p)' = Window(p) /\ poll'[p] = poll[p]
    BY <1>3 DEF Window, To
  <2>4. poll[p].cursor.block \in Nat /\ poll[p].target \in Nat
    BY <2>1 DEF PollInv, PollType, Cursors
  <2>5. poll[p].at # "idle" =>
           /\ poll[p].start <= poll[p].target /\ poll[p].target <= ConfirmedBlock'
           /\ poll[p].cursor.block <= ConfirmedBlock'
           /\ ~poll[p].replaces => poll[p].start = 1
    BY <1>1, <1>2, <2>1, <2>4 DEF PollInv
  <2>6. poll[p].at \in {"tip", "commit"} =>
           /\ \A l \in poll[p].logs :
                  Fits(l)' /\ ContractOf(l.tx) = poll[p].contract /\ l.pos[1] \in Window(p)
           /\ \A l, m \in poll[p].logs : l.tx = m.tx => l = m
    BY <1>1, <2>1 DEF PollInv
  <2>7. /\ poll[p].at \notin {"idle", "load"} => poll[p].cursor.block >= poll[p].start - 1
        /\ poll[p].at \in {"logs", "tip", "commit", "rewind", "rewound"} =>
               poll[p].cursor.block < poll[p].target
    BY <2>1 DEF PollInv
  <2>8. QED
    BY <2>2, <2>3, <2>5, <2>6, <2>7 DEF PollInv
<1>7. Active' = Active
  BY <1>3 DEF Active
<1>8. ASSUME NEW m \in Int, m <= n
      PROVE  LogsIn(1 .. m)' = LogsIn(1 .. m) /\ \A c : (Right(c, m) => Right(c, m)') /\ (Covers(c, m)' <=> Covers(c, m))
  <2>1. LogsIn(1 .. m)' = LogsIn(1 .. m)
    BY <1>1, <1>2, <1>8, SameLogs
  <2>2. QED
    BY <1>3, <2>1 DEF Covers, LogsOf, Right, RowsOf
<1>9. ASSUME ~lapped PROVE SoloInv'
  <2>1. SoloInv /\ CursorInv
    BY <1>9 DEF IndexInv
  <2>2. \A c \in Contracts : /\ Reworked(c)' <=> Reworked(c)
                             /\ NoneBeyond(c)' <=> NoneBeyond(c)
    BY <1>3, <1>7 DEF Reworked, NoneBeyond
  <2>3. ASSUME NEW c \in Contracts \ torn PROVE CursorGood(c, cursor[c])'
    <3>1. cursor[c] \in Cursors /\ cursor[c].block <= ConfirmedBlock
      BY <2>1 DEF CursorInv
    <3>2. PICK b \in Nat, f \in 0 .. forks : cursor[c] = [block |-> b, fork |-> f]
      BY <3>1 DEF Cursors
    <3>3. CursorGood(c, [block |-> b, fork |-> f]) /\ b <= n
      BY <1>2, <2>1, <3>1, <3>2 DEF SoloInv
    <3>4. CursorGood(c, [block |-> b, fork |-> f])'
      BY <1>1, <1>2, <1>3, <3>3, GoodStays
    <3>5. cursor'[c] = [block |-> b, fork |-> f]
      BY <1>3, <3>2
    <3>6. QED
      BY <3>4, <3>5 DEF CursorGood, Right, RowsOf, LogsOf, LogsIn, ForkAt
  <2>4. ASSUME NEW p \in Active, poll[p].at # "load"
        PROVE  InStep(p)' /\ (poll[p].contract \notin torn => SoloPoll(p)')
    <3>1. InStep(p) /\ (poll[p].contract \notin torn => SoloPoll(p))
      BY <1>9, <2>4, ActiveFacts
    <3>2. InStep(p)'
      BY <1>3, <3>1 DEF InStep
    <3>3. ASSUME SoloPoll(p) PROVE SoloPoll(p)'
      <4>1. PICK b \in Nat, f \in 0 .. forks : poll[p].cursor = [block |-> b, fork |-> f]
        BY ActiveFacts DEF Cursors
      <4>2. PICK c, to, w : c = poll[p].contract /\ to = To(p) /\ w = Window(p)
        OBVIOUS
      <4>3. b <= n /\ b \in Int
        BY <1>2, <4>1, ActiveFacts
      <4>4. CursorGood(c, [block |-> b, fork |-> f])'
        BY <1>1, <1>2, <1>3, <3>3, <4>1, <4>2, <4>3, GoodStays DEF SoloPoll
      <4>5. poll[p].at \in {"logs", "tip"} => Right(c, b)'
        BY <1>8, <3>3, <4>1, <4>2, <4>3 DEF SoloPoll
      <4>6. To(p)' = to /\ Window(p)' = w
        BY <1>3, <4>2 DEF To, Window
      <4>7. poll[p].at \in {"tip", "commit"} =>
              /\ to \in Nat /\ to <= n /\ w = b + 1 .. to /\ ForkAt(to)' = ForkAt(to)
              /\ to - WindowBlocks \in Int /\ to - WindowBlocks <= n
        <5>1. SUFFICES ASSUME poll[p].at \in {"tip", "commit"}
                       PROVE  /\ to \in Nat /\ to <= n /\ w = b + 1 .. to /\ ForkAt(to)' = ForkAt(to)
                              /\ to - WindowBlocks \in Int /\ to - WindowBlocks <= n
          OBVIOUS
        <5>2. poll[p].cursor.block < poll[p].target /\ PollInv(p) /\ poll[p].at # "idle"
          BY <5>1, ActiveFacts DEF PollInv
        <5>3. to \in Nat /\ to <= n /\ to - WindowBlocks <= b
          BY <1>1, <4>1, <4>2, <5>2, ToFacts
        <5>4. SameBlocks(to)
          BY <1>1, <1>2, <5>3 DEF SameBlocks
        <5>5. ForkAt(to)' = ForkAt(to)
          BY <5>3, <5>4, SameFork
        <5>6. QED
          BY <4>1, <4>2, <4>3, <5>3, <5>5, EventChainAssumption DEF Window
      <4>8. poll[p].at \in {"tip", "commit"} => LogsOf(c, w)' = LogsOf(c, w)
        <5>1. SUFFICES ASSUME poll[p].at \in {"tip", "commit"} PROVE LogsOf(c, w)' = LogsOf(c, w)
          OBVIOUS
        <5>2. b + 1 \in Nat \ {0} /\ to \in Int
          BY <4>7, <5>1
        <5>3. LogsIn(b + 1 .. to)' = LogsIn(b + 1 .. to)
          BY <1>1, <1>2, <4>7, <5>1, <5>2, SameLogs
        <5>4. QED
          BY <4>7, <5>1, <5>3 DEF LogsOf
      <4>9. poll[p].at = "tip" => poll[p].logs = LogsOf(c, w)'
        BY <3>3, <4>2, <4>8 DEF SoloPoll
      <4>10. poll[p].at = "commit" =>
           /\ Right(c, to - WindowBlocks)'
           /\ \A l \in poll[p].logs, m \in LogsIn(1 .. to - WindowBlocks)' : m.tx # l.tx
           /\ ForkAt(to)' = poll[p].fork => Right(c, b)' /\ poll[p].logs = LogsOf(c, w)'
        <5>1. SUFFICES ASSUME poll[p].at = "commit"
                       PROVE  /\ Right(c, to - WindowBlocks)'
                              /\ \A l \in poll[p].logs, m \in LogsIn(1 .. to - WindowBlocks)' : m.tx # l.tx
                              /\ ForkAt(to)' = poll[p].fork => Right(c, b)' /\ poll[p].logs = LogsOf(c, w)'
          OBVIOUS
        <5>2. /\ Right(c, to - WindowBlocks)
              /\ \A l \in poll[p].logs, m \in LogsIn(1 .. to - WindowBlocks) : m.tx # l.tx
              /\ ForkAt(to) = poll[p].fork => Right(c, b) /\ poll[p].logs = LogsOf(c, w)
          BY <3>3, <4>1, <4>2, <5>1 DEF SoloPoll
        <5>3. PICK m : m = to - WindowBlocks
          OBVIOUS
        <5>4. Right(c, m)' /\ LogsIn(1 .. m)' = LogsIn(1 .. m)
          BY <1>8, <4>7, <5>1, <5>2, <5>3
        <5>5. ForkAt(to)' = poll[p].fork => Right(c, b)' /\ poll[p].logs = LogsOf(c, w)'
          BY <1>8, <4>3, <4>7, <4>8, <5>1, <5>2
        <5>6. QED
          BY <5>2, <5>3, <5>4, <5>5
      <4>11. QED
        BY <1>3, <4>1, <4>2, <4>4, <4>5, <4>6, <4>9, <4>10
        DEF SoloPoll, CursorGood, Right, RowsOf, LogsOf, LogsIn, ForkAt
    <3>4. QED
      BY <3>1, <3>2, <3>3
  <2>5. QED
    BY <1>3, <1>7, <2>1, <2>2, <2>3, <2>4 DEF SoloInv
<1>10. ASSUME ~lapped' PROVE SoloInv'
  <2>1. lapped' = lapped
    BY <1>3
  <2>2. ~lapped
    BY <1>10, <2>1
  <2>3. QED
    BY <1>9, <2>2
<1>11. ASSUME forks = 0 PROVE FlatInv'
  <2>1. FlatInv /\ CursorInv
    BY <1>11 DEF IndexInv
  <2>2. \A c \in Contracts : cursor[c].block \in Int /\ cursor[c].block <= n
    BY <1>2, <2>1 DEF CursorInv, Cursors
  <2>3. \A c \in Contracts : Covers(c, cursor[c].block)'
    <3>1. TAKE c \in Contracts
    <3>2. PICK b : b = cursor[c].block /\ b = cursor'[c].block
      BY <1>3
    <3>3. Covers(c, b)'
      BY <1>8, <2>1, <2>2, <3>2 DEF FlatInv
    <3>4. QED
      BY <3>2, <3>3 DEF Covers, LogsOf, LogsIn
  <2>4. ASSUME NEW p \in Active PROVE FlatPoll(p)'
    <3>1. FlatPoll(p)
      BY <2>1 DEF FlatInv
    <3>2. PICK c, b, s, t, w : /\ c = poll[p].contract /\ b = poll[p].cursor.block /\ s = poll[p].start
                               /\ t = poll[p].target /\ w = Window(p)
      OBVIOUS
    <3>3. b \in Int /\ b <= n /\ s - 1 \in Int /\ s - 1 <= n /\ t \in Int /\ t <= n
      BY <1>2, <3>2, ActiveFacts
    <3>4. /\ \A d \in Contracts : Covers(d, s - 1)'
          /\ poll[p].at # "load" => Covers(c, b)'
          /\ c = "Registrar" => Covers("EncryptedERC", t)'
      <4>1. PICK m : m = s - 1
        OBVIOUS
      <4>2. \A d \in Contracts : Covers(d, m)'
        BY <1>8, <3>1, <3>2, <3>3, <4>1 DEF FlatPoll
      <4>3. /\ poll[p].at # "load" => Covers(c, b)'
            /\ c = "Registrar" => Covers("EncryptedERC", t)'
        BY <1>8, <3>1, <3>2, <3>3 DEF FlatPoll
      <4>4. QED
        BY <4>1, <4>2, <4>3
    <3>5. poll[p].at \in {"tip", "commit"} => poll[p].logs = LogsOf(c, w)'
      <4>1. SUFFICES ASSUME poll[p].at \in {"tip", "commit"} PROVE poll[p].logs = LogsOf(c, w)'
        OBVIOUS
      <4>2. poll[p].cursor.block < poll[p].target /\ PollInv(p) /\ poll[p].at # "idle"
        BY <4>1, ActiveFacts DEF PollInv
      <4>3. PICK to : to = To(p)
        OBVIOUS
      <4>4. b + 1 \in Nat \ {0} /\ to \in Int /\ to <= n /\ w = b + 1 .. to
        BY <1>1, <3>2, <4>2, <4>3, ToFacts DEF Window
      <4>5. LogsIn(b + 1 .. to)' = LogsIn(b + 1 .. to)
        BY <1>1, <1>2, <4>4, SameLogs
      <4>6. poll[p].logs = LogsOf(c, w)
        BY <3>1, <3>2, <4>1 DEF FlatPoll
      <4>7. QED
        BY <4>4, <4>5, <4>6 DEF LogsOf
    <3>6. Window(p)' = w /\ poll'[p] = poll[p]
      BY <1>3, <3>2 DEF Window, To
    <3>7. poll[p].at \notin {"rewind", "rewound"}
      BY <3>1 DEF FlatPoll
    <3>8. QED
      BY <3>2, <3>4, <3>5, <3>6, <3>7 DEF FlatPoll, Covers, LogsOf, LogsIn
  <2>5. ASSUME NEW e \in events, NEW l \in Logs', ContractOf(l.tx) = "EncryptedERC", Before(l.pos, e.pos)
        PROVE  l \in events
    <3>1. e \in Logs /\ e.pos[1] \in Nat /\ e.pos[1] <= n
      BY <1>1, <2>1, ChainLen, LogFacts DEF FlatInv
    <3>2. l.pos[1] # n + 1
      BY <1>2, <2>5, <3>1 DEF Before
    <3>3. l \in Logs
      BY <1>1, <3>2
    <3>4. QED
      BY <2>1, <2>5, <3>3 DEF FlatInv
  <2>6. QED
    BY <1>1, <1>3, <1>7, <2>1, <2>3, <2>4, <2>5 DEF FlatInv
<1>12. QED
  BY <1>1, <1>4, <1>5, <1>6, <1>10, <1>11 DEF IndexInv

-----------------------------------------------------------------------------
(* The chain is reorganised.                                               *)

LEMMA ReorganiseFacts ==
    ASSUME ChainInv, NEW k \in Nat, Reorganise(k)
    PROVE  /\ k < Len(chain) /\ ConfirmedBlock - WindowBlocks <= k /\ forks' = forks + 1
           /\ Len(chain') = Len(chain) /\ DOMAIN chain' = DOMAIN chain /\ chain' \in Seq(Blocks)
           /\ \A b \in 1 .. k : chain'[b] = chain[b]
           /\ \A b \in k + 1 .. Len(chain) :
                  chain'[b].fork = forks + 1 /\ (chain'[b].logs = <<>> \/ chain'[b].logs = chain[b].logs)
           /\ \A l \in LogsIn(k + 1 .. Len(chain)) : l.tx \notin Rotations
<1>1. PICK emptied \in SUBSET (k + 1 .. Len(chain)) :
           chain' = [b \in DOMAIN chain |->
                        IF b <= k THEN chain[b]
                        ELSE [fork |-> forks', logs |-> IF b \in emptied THEN <<>>
                                                        ELSE chain[b].logs]]
  BY DEF Reorganise
<1>2. /\ k < Len(chain) /\ k >= ConfirmedBlock - WindowBlocks /\ forks' = forks + 1
      /\ \A l \in LogsIn(k + 1 .. Len(chain)) : l.tx \notin Rotations
  BY DEF Reorganise
<1>3. Len(chain) \in Nat /\ DOMAIN chain = 1 .. Len(chain) /\ forks \in Nat /\ ConfirmedBlock \in Nat
  BY ChainLen, ConfirmedFacts DEF ChainInv
<1>4. DOMAIN chain' = 1 .. Len(chain)
  BY <1>1, <1>3
<1>5. \A b \in 1 .. k : chain'[b] = chain[b]
  BY <1>1, <1>2, <1>3
<1>6. ASSUME NEW b \in k + 1 .. Len(chain)
      PROVE  /\ chain'[b].fork = forks + 1
             /\ chain'[b].logs = <<>> \/ chain'[b].logs = chain[b].logs
             /\ chain'[b] \in [fork : Nat, logs : Seq(Txs)]
  <2>1. b \in DOMAIN chain /\ ~(b <= k)
    BY <1>3
  <2>2. PICK logs : logs = IF b \in emptied THEN <<>> ELSE chain[b].logs
    OBVIOUS
  <2>3. chain'[b] = [fork |-> forks + 1, logs |-> logs]
    BY <1>1, <1>2, <2>1, <2>2
  <2>4. (logs = <<>> \/ logs = chain[b].logs) /\ chain[b].logs \in Seq(Txs)
    BY <2>1, <2>2, BlockFacts
  <2>5. logs \in Seq(Txs)
    <3> DEFINE T == Txs
    <3> HIDE DEF T
    <3>1. <<>> \in Seq(T)
      OBVIOUS
    <3>2. QED
      BY <2>4, <3>1 DEF T
  <2>6. forks + 1 \in Nat
    BY <1>3
  <2>7. QED
    BY <2>3, <2>4, <2>5, <2>6
<1>7. ASSUME NEW b \in 1 .. Len(chain) PROVE chain'[b] \in Blocks
  <2>1. CASE b \in 1 .. k
    <3>1. b \in DOMAIN chain /\ chain'[b] = chain[b]
      BY <1>3, <1>5, <2>1
    <3> DEFINE S == Blocks
    <3>2. chain \in Seq(S)
      BY DEF ChainInv
    <3> HIDE DEF S
    <3>3. chain[b] \in S
      BY <1>3, <3>1, <3>2
    <3>4. QED
      BY <3>1, <3>3 DEF S
  <2>2. CASE b \in k + 1 .. Len(chain)
    BY <1>6, <2>2 DEF Blocks
  <2>3. QED
    BY <1>3, <2>1, <2>2
<1>8. chain' \in Seq(Blocks) /\ Len(chain') = Len(chain)
  <2> DEFINE S == Blocks
  <2> HIDE DEF S
  <2>1. chain' \in [1 .. Len(chain) -> S]
    BY <1>1, <1>3, <1>4, <1>7 DEF S
  <2>2. QED
    BY <1>3, <2>1 DEF S
<1>9. QED
  BY <1>2, <1>3, <1>4, <1>5, <1>6, <1>8

LEMMA ReorganisedLogs ==
    ASSUME ChainInv, NEW k \in Nat, Reorganise(k)
    PROVE  /\ ChainInv'
           /\ \A e : Fits(e) => Fits(e)'
           /\ SameBlocks(k) /\ ConfirmedBlock' = ConfirmedBlock
           /\ \A l \in Logs' : \E m \in Logs : m.tx = l.tx /\ m.pos = l.pos
           /\ \A l \in Logs : l.tx \in Rotations => l \in Logs'
<1> DEFINE n == Len(chain)
<1>1. /\ k < n /\ ConfirmedBlock - WindowBlocks <= k /\ forks' = forks + 1
      /\ Len(chain') = n /\ DOMAIN chain' = DOMAIN chain /\ chain' \in Seq(Blocks)
      /\ \A b \in 1 .. k : chain'[b] = chain[b]
      /\ \A b \in k + 1 .. n :
             chain'[b].fork = forks + 1 /\ (chain'[b].logs = <<>> \/ chain'[b].logs = chain[b].logs)
      /\ \A l \in LogsIn(k + 1 .. n) : l.tx \notin Rotations
  BY ReorganiseFacts
<1>2. n \in Nat /\ DOMAIN chain = 1 .. n /\ forks \in Nat /\ n <= MaxBlocks
  BY ChainLen DEF ChainInv
<1>3. ASSUME NEW b \in DOMAIN chain
      PROVE  /\ chain'[b].fork <= forks'
             /\ chain'[b].logs = <<>> \/ chain'[b].logs = chain[b].logs
             /\ Len(chain'[b].logs) <= MaxLogs
  <2>1. chain[b].fork \in 0 .. forks /\ Len(chain[b].logs) <= MaxLogs
    BY BlockFacts DEF ChainInv
  <2>2. CASE b \in 1 .. k
    BY <1>1, <1>2, <2>1, <2>2
  <2>3. CASE b \in k + 1 .. n
    <3>1. Len(<<>>) <= MaxLogs
      BY EventChainAssumption
    <3>2. QED
      BY <1>1, <1>2, <2>1, <2>3, <3>1
  <2>4. QED
    BY <1>2, <2>2, <2>3
<1>4. ASSUME NEW l \in Logs'
      PROVE  \E m \in Logs : m.tx = l.tx /\ m.pos = l.pos /\ l.fork = chain'[l.pos[1]].fork
  <2>1. PICK b \in DOMAIN chain' : \E i \in DOMAIN chain'[b].logs :
            l = [tx |-> chain'[b].logs[i], pos |-> <<b, i>>, fork |-> chain'[b].fork]
    BY DEF Logs, LogsIn
  <2>2. PICK i \in DOMAIN chain'[b].logs :
            l = [tx |-> chain'[b].logs[i], pos |-> <<b, i>>, fork |-> chain'[b].fork]
    BY <2>1
  <2>3. b \in DOMAIN chain /\ chain'[b].logs # <<>>
    BY <1>1, <2>2
  <2>4. chain'[b].logs = chain[b].logs
    BY <1>3, <2>3
  <2>5. Log(b, i) \in Logs
    BY <2>2, <2>3, <2>4, LogsAre DEF Logs
  <2>6. Log(b, i).tx = l.tx /\ Log(b, i).pos = l.pos /\ l.pos[1] = b /\ l.fork = chain'[b].fork
    BY <2>2, <2>4 DEF Log
  <2>7. QED
    BY <2>5, <2>6
<1>5. ASSUME NEW l \in Logs', NEW m \in Logs', l.tx = m.tx PROVE l = m
  <2>1. PICK g \in Logs : g.tx = l.tx /\ g.pos = l.pos /\ l.fork = chain'[l.pos[1]].fork
    BY <1>4
  <2>2. PICK h \in Logs : h.tx = m.tx /\ h.pos = m.pos /\ m.fork = chain'[m.pos[1]].fork
    BY <1>4
  <2>3. g = h
    BY <1>5, <2>1, <2>2 DEF ChainInv
  <2>4. l.pos = m.pos /\ l.fork = m.fork
    BY <2>1, <2>2, <2>3
  <2>5. /\ l = [tx |-> l.tx, pos |-> l.pos, fork |-> l.fork]
        /\ m = [tx |-> m.tx, pos |-> m.pos, fork |-> m.fork]
    BY DEF Logs, LogsIn
  <2>6. QED
    BY <1>5, <2>4, <2>5
<1>6. ChainInv'
  BY <1>1, <1>2, <1>3, <1>5 DEF ChainInv, Blocks
<1>7. ASSUME NEW e, Fits(e) PROVE Fits(e)'
  <2>1. /\ e \in [tx : Txs, pos : (1 .. MaxBlocks) \X (1 .. MaxLogs), fork : 0 .. forks]
        /\ e.pos[1] \in DOMAIN chain
        /\ e.pos[2] \in DOMAIN chain[e.pos[1]].logs => chain[e.pos[1]].logs[e.pos[2]] = e.tx
    BY <1>7 DEF Fits
  <2>2. e \in [tx : Txs, pos : (1 .. MaxBlocks) \X (1 .. MaxLogs), fork : 0 .. forks']
    BY <1>1, <1>2, <2>1
  <2>3. chain'[e.pos[1]].logs = <<>> \/ chain'[e.pos[1]].logs = chain[e.pos[1]].logs
    BY <1>3, <2>1
  <2>4. QED
    BY <1>1, <2>1, <2>2, <2>3 DEF Fits
<1>8. SameBlocks(k)
  BY <1>1, <1>2 DEF SameBlocks
<1>9. ConfirmedBlock' = ConfirmedBlock
  BY <1>1 DEF ConfirmedBlock
<1>10. ASSUME NEW l \in Logs, l.tx \in Rotations PROVE l \in Logs'
  <2>1. l = Log(l.pos[1], l.pos[2]) /\ l.pos[1] \in DOMAIN chain /\ l.pos[2] \in DOMAIN chain[l.pos[1]].logs
    BY LogFacts
  <2>2. PICK b, i : b = l.pos[1] /\ i = l.pos[2]
    OBVIOUS
  <2>3. l = Log(b, i) /\ b \in 1 .. n /\ i \in DOMAIN chain[b].logs
    BY <1>2, <2>1, <2>2
  <2>4. b \notin k + 1 .. n
    BY <1>1, <1>10, <2>3, LogsAre
  <2>5. chain'[b] = chain[b] /\ b \in DOMAIN chain'
    BY <1>1, <1>2, <2>3, <2>4
  <2>6. l = [tx |-> chain'[b].logs[i], pos |-> <<b, i>>, fork |-> chain'[b].fork] /\ i \in DOMAIN chain'[b].logs
    BY <2>3, <2>5 DEF Log
  <2>7. QED
    BY <2>5, <2>6 DEF Logs, LogsIn
<1>11. \A l \in Logs' : \E m \in Logs : m.tx = l.tx /\ m.pos = l.pos
  BY <1>4
<1>12. QED
  BY <1>6, <1>7, <1>8, <1>9, <1>10, <1>11

(* A cursor's fork is gone if its block was replaced.                      *)
LEMMA ForkReplaced ==
    ASSUME ChainInv, NEW k \in Nat, Reorganise(k), NEW b \in Nat, b <= Len(chain), NEW f \in 0 .. forks,
           ForkAt(b)' = f
    PROVE  b <= k /\ ForkAt(b) = f
<1>1. /\ forks' = forks + 1 /\ forks \in Nat /\ Len(chain) \in Nat
      /\ \A a \in k + 1 .. Len(chain) : chain'[a].fork = forks + 1
  BY ReorganiseFacts, ChainLen DEF ChainInv
<1>2. b <= k
  <2>1. SUFFICES ASSUME b > k PROVE FALSE
    OBVIOUS
  <2>2. b \in k + 1 .. Len(chain) /\ b # 0
    BY <1>1, <2>1
  <2>3. ForkAt(b)' = forks + 1
    BY <1>1, <2>2 DEF ForkAt
  <2>4. QED
    BY <1>1, <2>3
<1>3. SameBlocks(b)
  BY <1>2, ReorganisedLogs DEF SameBlocks
<1>4. QED
  BY <1>2, <1>3, SameFork

LEMMA GoodAfter ==
    ASSUME ChainInv, NEW k \in Nat, Reorganise(k), events' = events, NEW c,
           NEW b \in Nat, NEW f \in 0 .. forks, b <= ConfirmedBlock, CursorGood(c, [block |-> b, fork |-> f])
    PROVE  CursorGood(c, [block |-> b, fork |-> f])'
<1>1. PICK m : m = b - WindowBlocks
  OBVIOUS
<1>2. ConfirmedBlock \in Nat /\ ConfirmedBlock <= Len(chain) /\ Len(chain) \in Nat
  BY ConfirmedFacts, ChainLen
<1>3. m \in Int /\ m <= k /\ b \in Int /\ b <= Len(chain)
  BY <1>1, <1>2, ReorganiseFacts, EventChainAssumption
<1>4. \A i \in Int : i <= k => SameBlocks(i) /\ SameRows(c, i)
  BY ReorganisedLogs DEF SameBlocks, SameRows
<1>5. Right(c, m) /\ (ForkAt(b) = f => Right(c, b))
  BY <1>1 DEF CursorGood
<1>6. Right(c, m)'
  BY <1>3, <1>4, <1>5, RightStays
<1>7. ASSUME ForkAt(b)' = f PROVE Right(c, b)'
  <2>1. b <= k /\ ForkAt(b) = f
    BY <1>3, <1>7, ForkReplaced
  <2>2. QED
    BY <1>3, <1>4, <1>5, <2>1, RightStays
<1>8. QED
  BY <1>1, <1>6, <1>7 DEF CursorGood

LEMMA ReorganiseInv ==
    ASSUME IndexInv, NEW k \in Nat, ReorganiseUnder(k)
    PROVE  IndexInv'
<1> DEFINE n == Len(chain)
<1>1. /\ Reorganise(k) /\ events' = events /\ cursor' = cursor /\ poll' = poll /\ lapped' = lapped
      /\ torn' = torn \cup {poll[p].contract : p \in {q \in Active : poll[q].at \in {"logs", "tip"}}}
  BY DEF ReorganiseUnder, indexVars
<1>2. /\ ChainInv /\ ChainInv' /\ (\A e : Fits(e) => Fits(e)') /\ SameBlocks(k)
      /\ ConfirmedBlock' = ConfirmedBlock /\ forks' = forks + 1
      /\ ConfirmedBlock - WindowBlocks <= k /\ k < n
  BY <1>1, ReorganisedLogs, ReorganiseFacts DEF IndexInv
<1>3. n \in Nat /\ ConfirmedBlock \in Nat /\ ConfirmedBlock <= n /\ forks \in Nat
  BY <1>2, ChainLen, ConfirmedFacts DEF ChainInv
<1>4. RowsInv' /\ DOMAIN poll' = Pollers
  BY <1>1, <1>2 DEF IndexInv, RowsInv
<1>5. Cursors \subseteq Cursors'
  BY <1>2, <1>3 DEF Cursors
<1>6. CursorInv'
  <2>1. CursorInv
    BY DEF IndexInv
  <2>2. cursor' \in [Contracts -> Cursors']
    BY <1>1, <1>5, <2>1 DEF CursorInv
  <2>3. torn' \subseteq Contracts
    BY <1>1, <2>1, ActiveFacts DEF CursorInv
  <2>4. lapped' \in BOOLEAN
    BY <1>1, <2>1 DEF CursorInv
  <2>5. QED
    BY <1>1, <1>2, <2>1, <2>2, <2>3, <2>4 DEF CursorInv
<1>7. ASSUME NEW p \in Pollers PROVE PollInv(p)'
  <2>1. PollInv(p)
    BY DEF IndexInv
  <2>2. PollType(p)'
    <3>1. PollType(p)
      BY <2>1 DEF PollInv
    <3>2. poll[p].cursor \in Cursors' /\ poll[p].fork \in 0 .. forks'
      BY <1>2, <1>3, <1>5, <3>1 DEF PollType
    <3>3. QED
      BY <1>1, <3>1, <3>2 DEF PollType
  <2>3. Window(p)' = Window(p) /\ poll'[p] = poll[p]
    BY <1>1 DEF Window, To
  <2>4. poll[p].at # "idle" =>
           /\ poll[p].start <= poll[p].target /\ poll[p].target <= ConfirmedBlock
           /\ poll[p].cursor.block <= ConfirmedBlock
           /\ ~poll[p].replaces => poll[p].start = 1
    BY <2>1 DEF PollInv
  <2>5. poll[p].at \in {"tip", "commit"} =>
           /\ \A l \in poll[p].logs :
                  Fits(l)' /\ ContractOf(l.tx) = poll[p].contract /\ l.pos[1] \in Window(p)
           /\ \A l, m \in poll[p].logs : l.tx = m.tx => l = m
    BY <1>2, <2>1 DEF PollInv
  <2>6. /\ poll[p].at \notin {"idle", "load"} => poll[p].cursor.block >= poll[p].start - 1
        /\ poll[p].at \in {"logs", "tip", "commit", "rewind", "rewound"} =>
               poll[p].cursor.block < poll[p].target
    BY <2>1 DEF PollInv
  <2>7. QED
    BY <1>2, <2>2, <2>3, <2>4, <2>5, <2>6 DEF PollInv
<1>8. Active' = Active /\ torn \subseteq torn'
  BY <1>1 DEF Active
<1>9. ASSUME ~lapped PROVE SoloInv'
  <2>1. SoloInv /\ CursorInv
    BY <1>9 DEF IndexInv
  <2>2. \A c \in Contracts : (Reworked(c)' <=> Reworked(c)) /\ (NoneBeyond(c)' <=> NoneBeyond(c))
    BY <1>1, <1>8 DEF Reworked, NoneBeyond
  <2>3. ASSUME NEW c \in Contracts \ torn PROVE CursorGood(c, cursor[c])'
    <3>1. cursor[c] \in Cursors /\ cursor[c].block <= ConfirmedBlock
      BY <2>1 DEF CursorInv
    <3>2. PICK b \in Nat, f \in 0 .. forks : cursor[c] = [block |-> b, fork |-> f]
      BY <3>1 DEF Cursors
    <3>3. CursorGood(c, [block |-> b, fork |-> f]) /\ b <= ConfirmedBlock
      BY <2>1, <3>1, <3>2 DEF SoloInv
    <3>4. CursorGood(c, [block |-> b, fork |-> f])'
      BY <1>1, <1>2, <3>3, GoodAfter
    <3>5. cursor'[c] = [block |-> b, fork |-> f]
      BY <1>1, <3>2
    <3>6. QED
      BY <3>4, <3>5 DEF CursorGood, Right, RowsOf, LogsOf, LogsIn, ForkAt
  <2>4. ASSUME NEW p \in Active, poll[p].at # "load"
        PROVE  InStep(p)' /\ (poll[p].contract \notin torn' => SoloPoll(p)')
    <3>1. InStep(p) /\ (poll[p].contract \notin torn => SoloPoll(p))
      BY <1>9, <2>4, ActiveFacts
    <3>2. InStep(p)'
      BY <1>1, <3>1 DEF InStep
    <3>3. ASSUME poll[p].contract \notin torn' PROVE SoloPoll(p)'
      <4>1. PICK b \in Nat, f \in 0 .. forks : poll[p].cursor = [block |-> b, fork |-> f]
        BY ActiveFacts DEF Cursors
      <4>2. PICK c, to, w, g : c = poll[p].contract /\ to = To(p) /\ w = Window(p) /\ g = poll[p].fork
        OBVIOUS
      <4>3. SoloPoll(p) /\ poll[p].at \notin {"logs", "tip"}
        BY <1>1, <1>8, <3>1, <3>3
      <4>4. b <= ConfirmedBlock /\ g \in 0 .. forks
        BY <4>1, <4>2, ActiveFacts
      <4>5. CursorGood(c, [block |-> b, fork |-> f])'
        BY <1>1, <1>2, <4>1, <4>2, <4>3, <4>4, GoodAfter DEF SoloPoll
      <4>6. To(p)' = to /\ Window(p)' = w
        BY <1>1, <4>2 DEF To, Window
      <4>7. ASSUME poll[p].at = "commit"
            PROVE  /\ Right(c, to - WindowBlocks)'
                   /\ \A l \in poll[p].logs, m \in LogsIn(1 .. to - WindowBlocks)' : m.tx # l.tx
                   /\ ForkAt(to)' = g => Right(c, b)' /\ poll[p].logs = LogsOf(c, w)'
        <5>1. poll[p].cursor.block < poll[p].target /\ PollInv(p) /\ poll[p].at # "idle"
          BY <4>7, ActiveFacts DEF PollInv
        <5>2. to \in Nat /\ to <= ConfirmedBlock /\ b < to /\ to <= n
          BY <1>2, <4>1, <4>2, <5>1, ToFacts
        <5>3. w = b + 1 .. to
          BY <4>1, <4>2 DEF Window
        <5>4. /\ Right(c, to - WindowBlocks)
              /\ \A l \in poll[p].logs, m \in LogsIn(1 .. to - WindowBlocks) : m.tx # l.tx
              /\ ForkAt(to) = g => Right(c, b) /\ poll[p].logs = LogsOf(c, w)
          BY <4>1, <4>2, <4>3, <4>7 DEF SoloPoll
        <5>5. PICK m : m = to - WindowBlocks
          OBVIOUS
        <5>6. m \in Int /\ m <= k
          BY <1>2, <1>3, <5>2, <5>5, EventChainAssumption
        <5>7. \A i \in Int : i <= k => SameBlocks(i) /\ SameRows(c, i)
          BY <1>1, <1>2 DEF SameBlocks, SameRows
        <5>8. Right(c, m)' /\ LogsIn(1 .. m)' = LogsIn(1 .. m)
          BY <5>4, <5>5, <5>6, <5>7, RightStays, SameLogs
        <5>9. ASSUME ForkAt(to)' = g PROVE Right(c, b)' /\ poll[p].logs = LogsOf(c, w)'
          <6>1. to <= k /\ ForkAt(to) = g
            BY <1>1, <1>2, <4>4, <5>2, <5>9, ForkReplaced
          <6>2. Right(c, b) /\ poll[p].logs = LogsOf(c, w) /\ b <= k /\ b \in Int
            BY <5>2, <5>4, <6>1
          <6>3. Right(c, b)'
            BY <5>7, <6>2, RightStays
          <6>4. SameBlocks(to) /\ to \in Int /\ b + 1 \in Nat \ {0}
            BY <5>2, <5>7, <6>1
          <6>5. LogsIn(b + 1 .. to)' = LogsIn(b + 1 .. to)
            BY <6>4, SameLogs
          <6>6. QED
            BY <5>3, <6>2, <6>3, <6>5 DEF LogsOf
        <5>10. QED
          BY <5>4, <5>5, <5>8, <5>9
      <4>8. QED
        BY <1>1, <4>1, <4>2, <4>3, <4>5, <4>6, <4>7
        DEF SoloPoll, CursorGood, Right, RowsOf, LogsOf, LogsIn, ForkAt
    <3>4. QED
      BY <3>2, <3>3
  <2>5. QED
    BY <1>1, <1>8, <2>1, <2>2, <2>3, <2>4 DEF SoloInv
<1>10. ASSUME ~lapped' PROVE SoloInv'
  <2>1. lapped' = lapped
    BY <1>1
  <2>2. ~lapped
    BY <1>10, <2>1
  <2>3. QED
    BY <1>9, <2>2
<1>11. forks' # 0
  BY <1>2, <1>3
<1>12. QED
  BY <1>2, <1>4, <1>6, <1>7, <1>10, <1>11 DEF IndexInv

-----------------------------------------------------------------------------
(* Every step of a poller, and what the invariant is for.                  *)

LEMMA PollStepInv ==
    ASSUME IndexInv, UNCHANGED chainVars, NEW p \in Active, PollStep(p)
    PROVE  IndexInv'
<1>1. CASE LoadCursor(p)
  BY <1>1, LoadCursorInv
<1>2. CASE NextContract(p)
  BY <1>2, NextContractInv
<1>3. CASE CheckBoundary(p)
  BY <1>3, CheckBoundaryInv
<1>4. CASE ReadLogs(p)
  BY <1>4, ReadLogsInv
<1>5. CASE ReadTip(p)
  BY <1>5, ReadTipInv
<1>6. CASE CommitWindow(p)
  BY <1>6, CommitWindowInv
<1>7. CASE ReadPrevious(p)
  BY <1>7, ReadPreviousInv
<1>8. CASE CommitRewind(p)
  BY <1>8, CommitRewindInv
<1>9. QED
  BY <1>1, <1>2, <1>3, <1>4, <1>5, <1>6, <1>7, <1>8 DEF PollStep

(* Then no step of a poller takes a row away.                              *)
LEMMA RowsKept ==
    ASSUME IndexInv, UNCHANGED chainVars, NEW p \in Active, PollStep(p), forks = 0
    PROVE  events \subseteq events'
<1>1. CASE CommitWindow(p)
  <2>1. PICK c, b, to, L : c = poll[p].contract /\ b = poll[p].cursor.block /\ to = To(p) /\ L = poll[p].logs
    OBVIOUS
  <2>2. \A e : e \in events' <=> e \in L \/ e \in events
    BY <1>1, <2>1, CommitRows
  <2>3. QED
    BY <2>2
<1>2. CASE CommitRewind(p)
  <2>1. poll[p].at = "rewound" /\ FlatPoll(p)
    BY <1>2, ActiveFacts DEF CommitRewind, Polls
  <2>2. QED
    BY <2>1 DEF FlatPoll
<1>3. CASE UNCHANGED indexVars
  BY <1>3 DEF indexVars
<1>4. QED
  BY <1>1, <1>2, <1>3 DEF PollStep, LoadCursor, NextContract, CheckBoundary, ReadLogs, ReadTip, ReadPrevious

LEMMA IndexStays == IndexInv /\ UNCHANGED <<chainVars, indexerVars>> => IndexInv'
<1> SUFFICES ASSUME IndexInv, UNCHANGED <<chainVars, indexerVars>> PROVE IndexInv'
  OBVIOUS
<1>1. /\ chain' = chain /\ forks' = forks /\ events' = events /\ cursor' = cursor
      /\ poll' = poll /\ torn' = torn /\ lapped' = lapped
  BY DEF chainVars, indexerVars, indexVars, pollVars
<1>2. ChainInv' /\ RowsInv'
  BY <1>1 DEF IndexInv, ChainInv, Logs, LogsIn, RowsInv, Fits
<1>3. CursorInv'
  BY <1>1, NothingWritten DEF IndexInv, CursorInv, chainVars, indexVars
<1>4. \A p \in Pollers : PollInv(p)'
  BY <1>1 DEF IndexInv, PollInv, PollType, Cursors, ConfirmedBlock, Fits, Window, To
<1>5. Active' = Active /\ Logs' = Logs
  BY <1>1 DEF Active, Logs, LogsIn
<1>6. ASSUME ~lapped' PROVE SoloInv'
  <2>1. ~lapped
    BY <1>1, <1>6
  <2>2. SoloInv
    BY <2>1 DEF IndexInv
  <2>3. \A c \in Contracts : (Reworked(c)' <=> Reworked(c)) /\ (NoneBeyond(c)' <=> NoneBeyond(c))
    BY <1>1, <1>5 DEF Reworked, NoneBeyond
  <2>4. \A c \in Contracts : CursorGood(c, cursor[c])' <=> CursorGood(c, cursor[c])
    BY <1>1 DEF CursorGood, Right, RowsOf, LogsOf, LogsIn, ForkAt
  <2>5. \A p : (InStep(p)' <=> InStep(p)) /\ (SoloPoll(p)' <=> SoloPoll(p))
    BY <1>1 DEF InStep, SoloPoll, CursorGood, Right, RowsOf, LogsOf, LogsIn, ForkAt, Window, To
  <2>6. QED
    BY <1>1, <1>5, <2>2, <2>3, <2>4, <2>5 DEF SoloInv
<1>7. ASSUME forks = 0 PROVE FlatInv'
  <2>1. FlatInv
    BY <1>7 DEF IndexInv
  <2>2. \A c, n : Covers(c, n)' <=> Covers(c, n)
    BY <1>1 DEF Covers, LogsOf, LogsIn
  <2>3. \A p : FlatPoll(p)' <=> FlatPoll(p)
    BY <1>1 DEF FlatPoll, Covers, LogsOf, LogsIn, Window, To
  <2>4. QED
    BY <1>1, <1>5, <2>1, <2>2, <2>3 DEF FlatInv
<1>8. QED
  BY <1>1, <1>2, <1>3, <1>4, <1>6, <1>7 DEF IndexInv

LEMMA IndexVouches == IndexInv => CursorVouches
<1> SUFFICES ASSUME IndexInv, NEW c \in Contracts \ torn, lapped => forks = 0,
                    ForkAt(cursor[c].block) = cursor[c].fork
             PROVE  RowsOf(c, 1 .. cursor[c].block) = LogsOf(c, 1 .. cursor[c].block)
  BY DEF CursorVouches, LogsOf
<1>1. CASE ~lapped
  BY <1>1 DEF IndexInv, SoloInv, CursorGood, Right
<1>2. CASE forks = 0
  <2>1. FlatInv /\ ChainInv /\ CursorInv
    BY <1>2 DEF IndexInv
  <2>2. PICK b : b = cursor[c].block
    OBVIOUS
  <2>3. b \in Nat /\ b <= Len(chain)
    BY <2>1, <2>2, ConfirmedFacts, ChainLen DEF CursorInv, Cursors
  <2>4. \A l : l \in LogsOf(c, 1 .. b) <=> l \in Logs /\ ContractOf(l.tx) = c /\ l.pos[1] \in 1 .. b
    BY <2>1, <2>3, LogsOfBelow
  <2>5. LogsOf(c, 1 .. b) \subseteq events /\ events \subseteq Logs
    BY <2>1, <2>2 DEF FlatInv, Covers
  <2>6. \A e : e \in RowsOf(c, 1 .. b) <=> e \in events /\ ContractOf(e.tx) = c /\ e.pos[1] \in 1 .. b
    BY RowsWithin
  <2>7. QED
    BY <2>2, <2>4, <2>5, <2>6
<1>3. QED
  BY <1>1, <1>2

LEMMA IndexTyped == IndexInv => IndexerTypeOK
<1> SUFFICES ASSUME IndexInv PROVE IndexerTypeOK
  OBVIOUS
<1>1. \A e \in events : e.tx \in Txs /\ e.pos \in (1 .. MaxBlocks) \X (1 .. MaxLogs) /\ e.fork \in 0 .. forks
  BY RowFacts DEF Fits
<1>2. cursor \in [Contracts -> [block : 0 .. MaxBlocks, fork : 0 .. forks]]
  <2>1. cursor \in [Contracts -> Cursors] /\ \A c \in Contracts : cursor[c].block <= ConfirmedBlock
    BY DEF IndexInv, CursorInv
  <2>2. ConfirmedBlock \in Nat /\ ConfirmedBlock <= MaxBlocks /\ MaxBlocks \in Nat
    BY ConfirmedFacts, ChainLen, EventChainAssumption DEF IndexInv
  <2>3. \A c \in Contracts : cursor[c] \in [block : 0 .. MaxBlocks, fork : 0 .. forks]
    BY <2>1, <2>2 DEF Cursors
  <2>4. QED
    BY <2>1, <2>3
<1>3. QED
  BY <1>1, <1>2 DEF IndexerTypeOK, IndexInv, RowsInv, CursorInv

-----------------------------------------------------------------------------
(* The readers.                                                            *)


ReadFields == {"at", "kind", "from", "rows", "found", "keys"}

(* Where a request may be, with what it decrypted.                         *)
ReadInv(q) ==
    /\ DOMAIN read[q] = ReadFields
    /\ read[q].at \in {"new", "keys"} => \A d \in decrypted : d[1] # q
    /\ read[q].at = "flush" =>
           \A d \in decrypted : d[1] = q => \E e \in read[q].found : d = <<q, e.tx>>
    /\ read[q].at \in {"logged", "listed", "exported"} =>
           \A e \in read[q].found : <<q, e.tx>> \in logged
    /\ read[q].at = "exported" => <<q, "export">> \in logged

IInv ==
    /\ plan \in Plans
    /\ DOMAIN read = Reads
    /\ \A d \in decrypted : d[1] \in Reads
    /\ \A q \in Reads : ReadInv(q)
    /\ DecryptionsLogged

LEMMA InitInv == Init => IInv
BY DEF Init, DisclosureInit, IInv, ReadInv, DecryptionsLogged, Unread, ReadFields

(* A step of one request, seen from the others: the log and the history    *)
(* only grow, and with entries of that request.                            *)
LEMMA OthersInv ==
    ASSUME IInv, NEW q \in Reads, NEW new, read' = [read EXCEPT ![q] = new],
           logged \subseteq logged', decrypted \subseteq decrypted',
           \A d \in decrypted' \ decrypted : d[1] = q
    PROVE  \A r \in Reads \ {q} : read'[r] = read[r] /\ ReadInv(r)'
<1> TAKE r \in Reads \ {q}
<1>1. read'[r] = read[r] /\ ReadInv(r) /\ DOMAIN read = Reads
    BY DEF IInv
<1>2. \A d \in decrypted' : d[1] = r => d \in decrypted
    OBVIOUS
<1>3. QED
    BY <1>1, <1>2 DEF ReadInv

(* A request that does not decrypt in this step, and that is not about to  *)
(* be logged for what it decrypted.                                        *)
LEMMA MovedInv ==
    ASSUME IInv, NEW q \in Reads, NEW new, read' = [read EXCEPT ![q] = new],
           UNCHANGED <<plan, decrypted, answers>>, logged \subseteq logged', dead \subseteq dead',
           ReadInv(q)',
           read[q].at = "flush" => \A d \in decrypted : d[1] = q => d \in logged' \/ q \in dead'
    PROVE  IInv'
<1>1. \A r \in Reads \ {q} : read'[r] = read[r] /\ ReadInv(r)'
    BY OthersInv
<1>2. \A d \in decrypted \ logged' : d[1] \in dead' \/ read'[d[1]].at = "flush"
    BY <1>1 DEF IInv, DecryptionsLogged
<1>3. DecryptionsLogged'
    BY <1>2 DEF IInv, DecryptionsLogged
<1>4. QED
    BY <1>1, <1>3 DEF IInv

LEMMA SelectRowsInv ==
    ASSUME IInv, NEW q \in Reads, NEW kinds, NEW starts, SelectRows(q, kinds, starts),
           UNCHANGED plan
    PROVE  IInv'
<1>1. PICK kind, from, rows, at :
          /\ at \in {"keys", "logged"}
          /\ Reading(q, "new", [Unread EXCEPT !.at = at, !.kind = kind, !.from = from, !.rows = rows])
    <2>1. PICK kind, from, rows :
              Reading(q, "new", [Unread EXCEPT !.at = IF rows = {} THEN "logged" ELSE "keys",
                                               !.kind = kind, !.from = from, !.rows = rows])
        BY DEF SelectRows
    <2>2. QED
        BY <2>1
<1> DEFINE new == [Unread EXCEPT !.at = at, !.kind = kind, !.from = from, !.rows = rows]
<1>2. /\ read' = [read EXCEPT ![q] = new] /\ read'[q] = new
      /\ UNCHANGED <<plan, logged, decrypted, dead, answers>> /\ read[q].at = "new"
    BY <1>1 DEF Reading, SelectRows, IInv
<1>3. DOMAIN new = ReadFields /\ new.at = at /\ new.found = {}
    BY DEF Unread, ReadFields
<1> HIDE DEF new
<1>4. ReadInv(q)'
    BY <1>1, <1>2, <1>3 DEF IInv, ReadInv
<1>5. QED
    BY <1>2, <1>4, MovedInv

LEMMA DecryptInv ==
    ASSUME IInv, NEW q \in Reads, Decrypt(q), UNCHANGED plan
    PROVE  IInv'
<1>1. PICK found :
         /\ Reading(q, "keys", [read[q] EXCEPT !.at = "flush", !.found = found])
         /\ decrypted' = decrypted \cup {<<q, e.tx>> : e \in found}
    BY DEF Decrypt
<1> DEFINE new == [read[q] EXCEPT !.at = "flush", !.found = found]
<1>2. /\ read[q].at = "keys" /\ read' = [read EXCEPT ![q] = new] /\ read'[q] = new
      /\ UNCHANGED <<plan, logged, dead, answers>>
    BY <1>1 DEF Reading, Decrypt, IInv
<1>3. DOMAIN new = ReadFields /\ new.at = "flush" /\ new.found = found
    BY DEF IInv, ReadInv, ReadFields
<1> HIDE DEF new
<1>4. \A d \in decrypted : d[1] # q
    BY <1>2 DEF IInv, ReadInv
<1>5. ReadInv(q)'
    BY <1>1, <1>2, <1>3, <1>4 DEF ReadInv
<1>6. \A d \in decrypted' \ decrypted : d[1] = q
    BY <1>1
<1>7. \A r \in Reads \ {q} : read'[r] = read[r] /\ ReadInv(r)'
    BY <1>1, <1>2, <1>6, OthersInv
<1>8. DecryptionsLogged'
    BY <1>2, <1>3, <1>6, <1>7 DEF IInv, DecryptionsLogged
<1>9. QED
    BY <1>2, <1>5, <1>6, <1>7, <1>8 DEF IInv

LEMMA FlushInv ==
    ASSUME IInv, NEW q \in Reads, FlushAuditRows(q), UNCHANGED plan
    PROVE  IInv'
<1>1. PICK at \in {"logged", "failed"} : Reading(q, "flush", [read[q] EXCEPT !.at = at])
    BY DEF FlushAuditRows
<1> DEFINE new == [read[q] EXCEPT !.at = at]
<1>2. /\ read[q].at = "flush" /\ read' = [read EXCEPT ![q] = new] /\ read'[q] = new
      /\ UNCHANGED <<plan, decrypted, dead, answers>>
      /\ logged' = logged \cup {<<q, e.tx>> : e \in read[q].found}
    BY <1>1 DEF Reading, FlushAuditRows, AuditRows, IInv
<1>3. DOMAIN new = ReadFields /\ new.at = at /\ new.found = read[q].found
    BY DEF IInv, ReadInv, ReadFields
<1> HIDE DEF new
<1>4. \A d \in decrypted : d[1] = q => d \in logged'
    BY <1>2 DEF IInv, ReadInv
<1>5. ReadInv(q)'
    BY <1>2, <1>3 DEF ReadInv
<1>6. QED
    BY <1>2, <1>4, <1>5, MovedInv

LEMMA ListKeysInv ==
    ASSUME IInv, NEW q \in Reads, ListKeys(q), UNCHANGED plan
    PROVE  IInv'
<1> DEFINE listed == [read[q] EXCEPT !.at = "listed", !.keys = PacketKeys(keyRows, read[q].from)]
           failed == [read[q] EXCEPT !.at = "failed"]
<1>1. PICK new \in {listed, failed} : Reading(q, "logged", new)
    BY DEF ListKeys
<1>2. /\ read[q].at = "logged" /\ read' = [read EXCEPT ![q] = new] /\ read'[q] = new
      /\ UNCHANGED <<plan, logged, decrypted, dead, answers>>
    BY <1>1 DEF Reading, ListKeys, IInv
<1>3. /\ DOMAIN listed = ReadFields /\ listed.at = "listed" /\ listed.found = read[q].found
      /\ DOMAIN failed = ReadFields /\ failed.at = "failed" /\ failed.found = read[q].found
    BY DEF IInv, ReadInv, ReadFields
<1> HIDE DEF listed, failed
<1>4. ReadInv(q)'
    BY <1>1, <1>2, <1>3 DEF IInv, ReadInv
<1>5. QED
    BY <1>2, <1>4, MovedInv

LEMMA LogExportInv ==
    ASSUME IInv, NEW q \in Reads, LogExport(q), UNCHANGED plan
    PROVE  IInv'
<1> DEFINE new == [read[q] EXCEPT !.at = "exported"]
<1>1. /\ read[q].at \in {"logged", "listed"} /\ read' = [read EXCEPT ![q] = new] /\ read'[q] = new
      /\ UNCHANGED <<plan, decrypted, dead, answers>>
      /\ logged' = logged \cup {<<q, "export">>}
    BY DEF Reading, LogExport, IInv
<1>2. DOMAIN new = ReadFields /\ new.at = "exported" /\ new.found = read[q].found
    BY DEF IInv, ReadInv, ReadFields
<1> HIDE DEF new
<1>3. ReadInv(q)'
    BY <1>1, <1>2 DEF IInv, ReadInv
<1>4. QED
    BY <1>1, <1>3, MovedInv

LEMMA AnswerInv ==
    ASSUME IInv, NEW q \in Reads, Answer(q), UNCHANGED plan
    PROVE  IInv'
<1> DEFINE new == [read[q] EXCEPT !.at = "answered"]
           a == [read |-> q, kind |-> read[q].kind, events |-> read[q].found, keys |-> read[q].keys]
<1>1. /\ read[q].at \in {"logged", "exported"} /\ read' = [read EXCEPT ![q] = new] /\ read'[q] = new
      /\ read[q].at = "logged" => read[q].kind \in {"report", "proof"}
      /\ UNCHANGED <<plan, logged, decrypted, dead>>
      /\ answers' = answers \cup {a}
    BY DEF Reading, Answer, IInv
<1>2. DOMAIN new = ReadFields /\ new.at = "answered"
    BY DEF IInv, ReadInv, ReadFields
<1>3. /\ \A e \in a.events : <<a.read, e.tx>> \in logged
      /\ a.kind \in {"export", "packet"} => <<a.read, "export">> \in logged
    BY <1>1 DEF IInv, ReadInv
<1> HIDE DEF new, a
<1>4. ReadInv(q)'
    BY <1>1, <1>2 DEF ReadInv
<1>5. \A r \in Reads \ {q} : read'[r] = read[r] /\ ReadInv(r)'
    BY <1>1, OthersInv
<1>6. \A d \in decrypted \ logged : d[1] \in dead \/ read'[d[1]].at = "flush"
    BY <1>1, <1>5 DEF IInv, DecryptionsLogged
<1>7. DecryptionsLogged'
    BY <1>1, <1>3, <1>6 DEF IInv, DecryptionsLogged
<1>8. QED
    BY <1>1, <1>4, <1>5, <1>7 DEF IInv

LEMMA FailReadInv ==
    ASSUME IInv, NEW q \in Reads, FailRead(q), UNCHANGED plan
    PROVE  IInv'
<1> DEFINE new == [read[q] EXCEPT !.at = "failed"]
<1>1. /\ read' = [read EXCEPT ![q] = new] /\ read'[q] = new
      /\ UNCHANGED <<plan, logged, decrypted, answers>>
      /\ dead' = dead \cup {q}
    BY DEF FailRead, IInv
<1>2. DOMAIN new = ReadFields /\ new.at = "failed"
    BY DEF IInv, ReadInv, ReadFields
<1> HIDE DEF new
<1>3. ReadInv(q)'
    BY <1>1, <1>2 DEF ReadInv
<1>4. QED
    BY <1>1, <1>3, MovedInv

LEMMA NextInv == IInv /\ [Next]_vars => IInv'
<1> SUFFICES ASSUME IInv, [Next]_vars PROVE IInv'
    OBVIOUS
<1>1. CASE UNCHANGED <<plan, disclosureVars>>
    BY <1>1 DEF disclosureVars, IInv, ReadInv, DecryptionsLogged
<1>2. ASSUME UNCHANGED plan, NEW q \in plan.reads,
             SelectRows(q, plan.kinds, plan.starts) \/ ReadStep(q)
      PROVE  IInv'
    <2>1. q \in Reads
        BY <1>2, PlansAssumption DEF IInv
    <2>2. QED
        BY <1>2, <2>1, SelectRowsInv, DecryptInv, FlushInv, ListKeysInv, LogExportInv, AnswerInv,
           FailReadInv DEF ReadStep
<1>3. QED
    BY <1>1, <1>2 DEF Next, IndexStep, vars

(* However many reports, exports, packets and proofs of payment are read   *)
(* at once, fail at any row or die at any statement: decryptRows leaves no *)
(* amount it decrypted out of the audit log unless the log cannot be       *)
(* written, and hands none out that is not in it.                          *)
THEOREM EveryDecryptionLogged == Spec => []DecryptionsLogged
<1>1. Init => IInv
    BY InitInv
<1>2. IInv => DecryptionsLogged
    BY DEF IInv
<1>3. QED
    BY <1>1, <1>2, NextInv, PTL DEF Spec

-----------------------------------------------------------------------------
(* The auditor's keys.                                                     *)

Points == Nat \X Nat

\* A row begins at the log of its rotation.
KeyRow(k) ==
    /\ k = [key |-> k.key, from |-> k.from, until |-> k.until]
    /\ k.key \in Rotations /\ Sent(k.key) /\ k.until \in Points
    /\ \E l \in Logs : l.tx = k.key /\ l.pos = k.from

\* Ranges do not overlap, and each ends where a later one begins.
InOrder ==
    /\ \A k, j \in keyRows : Before(k.from, j.from) => k.until # Never /\ ~Before(j.from, k.until)
    /\ \A k \in keyRows : k.until # Never => \E j \in keyRows : k.until = j.from /\ Before(k.from, j.from)

KeysInv ==
    /\ rotations \in Seq(Rotations) /\ rotating \subseteq Rotations /\ disordered \in BOOLEAN
    /\ \A r \in rotating : Sent(r) /\ \A k \in keyRows : k.key # r
    /\ \A k \in keyRows : KeyRow(k)
    /\ \A k, j \in keyRows : k.key = j.key \/ (k.until = Never /\ j.until = Never) => k = j
    /\ ~disordered => InOrder


(* The order of positions.                                                 *)
LEMMA Order ==
    ASSUME NEW p \in Points, NEW q \in Points
    PROVE  /\ ~Before(p, p)
           /\ Before(p, q) => ~Before(q, p) /\ p # q
           /\ Before(p, q) \/ Before(q, p) \/ p = q
BY DEF Before, Points

LEMMA Transitive ==
    ASSUME NEW p \in Points, NEW q \in Points, NEW r \in Points
    PROVE  /\ Before(p, q) /\ Before(q, r) => Before(p, r)
           /\ ~Before(q, p) /\ Before(q, r) => Before(p, r)
           /\ Before(p, q) /\ ~Before(r, q) => Before(p, r)
BY DEF Before, Points

LEMMA LogPoint ==
    ASSUME ChainInv, NEW l \in Logs
    PROVE  /\ l.pos \in Points /\ l.pos[1] \in 1 .. MaxBlocks /\ l.pos # Never /\ Never \in Points
           /\ InChain(l.tx) /\ PositionOf(l.tx) = l.pos
<1>1. l.pos \in (1 .. MaxBlocks) \X (1 .. MaxLogs) /\ MaxBlocks \in Nat /\ MaxLogs \in Nat
  BY LogFacts, EventChainAssumption DEF Fits
<1>2. l.pos[1] \in 1 .. MaxBlocks /\ l.pos[2] \in 1 .. MaxLogs /\ l.pos = <<l.pos[1], l.pos[2]>>
  BY <1>1
<1>3. l.pos \in Points
  BY <1>1, <1>2 DEF Points
<1>4. Never \in Points /\ Never[1] = MaxBlocks + 1
  BY <1>1 DEF Points, Never
<1>5. l.pos # Never
  BY <1>1, <1>2, <1>4
<1>6. InChain(l.tx)
  BY DEF InChain
<1>7. PICK m : m = CHOOSE h \in Logs : h.tx = l.tx
  OBVIOUS
<1>8. m \in Logs /\ m.tx = l.tx
  BY <1>7
<1>9. m = l
  BY <1>8 DEF ChainInv
<1>10. QED
  BY <1>2, <1>3, <1>4, <1>5, <1>6, <1>7, <1>9 DEF PositionOf

LEMMA RowLog ==
    ASSUME ChainInv, NEW k \in keyRows, KeyRow(k)
    PROVE  /\ k.from \in Points /\ k.until \in Points /\ k.from # Never
           /\ InChain(k.key) /\ PositionOf(k.key) = k.from /\ k.key \in Rotations
<1>1. PICK l \in Logs : l.tx = k.key /\ l.pos = k.from
  BY DEF KeyRow
<1>2. QED
  BY <1>1, LogPoint DEF KeyRow

(* Two rotations are not at one position.                                  *)
LEMMA RowsApart ==
    ASSUME ChainInv, KeysInv, NEW k \in keyRows, NEW j \in keyRows, k.from = j.from
    PROVE  k = j
<1>1. PICK l \in Logs : l.tx = k.key /\ l.pos = k.from
  BY DEF KeysInv, KeyRow
<1>2. PICK m \in Logs : m.tx = j.key /\ m.pos = j.from
  BY DEF KeysInv, KeyRow
<1>3. l = m
  BY <1>1, <1>2, OneLogEach
<1>4. QED
  BY <1>1, <1>2, <1>3 DEF KeysInv

-----------------------------------------------------------------------------
(* The steps that touch the keys, and those of the chain under them.       *)

LEMMA NoKeys == KeysInit => KeysInv
<1> SUFFICES ASSUME KeysInit PROVE KeysInv
  OBVIOUS
<1>1. rotations = <<>> /\ rotating = {} /\ keyRows = {} /\ disordered = FALSE
  BY DEF KeysInit
<1> DEFINE R == Rotations
<1> HIDE DEF R
<1>2. rotations \in Seq(R)
  BY <1>1
<1>3. QED
  BY <1>1, <1>2 DEF KeysInv, InOrder, R

(* The log of a rotation is never lost.                                    *)
RotationsStay == \A l \in Logs : l.tx \in Rotations => l \in Logs'

LEMMA KeysStay ==
    ASSUME KeysInv, RotationsStay, UNCHANGED keyVars
    PROVE  KeysInv'
<1>1. rotations' = rotations /\ rotating' = rotating /\ keyRows' = keyRows /\ disordered' = disordered
  BY DEF keyVars
<1>2. \A k \in keyRows : KeyRow(k)'
  BY <1>1 DEF KeysInv, KeyRow, RotationsStay, Sent
<1>3. InOrder' <=> InOrder
  BY <1>1 DEF InOrder, Never
<1>4. QED
  BY <1>1, <1>2, <1>3 DEF KeysInv, Sent, Never

LEMMA SendRotationInv ==
    ASSUME KeysInv, UNCHANGED chainVars, NEW r \in Rotations, SendRotation(r)
    PROVE  KeysInv'
<1> DEFINE R == Rotations
<1> HIDE DEF R
<1>1. /\ ~Sent(r) /\ rotations' = Append(rotations, r) /\ rotating' = rotating \cup {r}
      /\ keyRows' = keyRows /\ disordered' = disordered /\ chain' = chain
  BY DEF SendRotation, chainVars
<1>2. rotations \in Seq(R) /\ r \in R
  BY DEF KeysInv, R
<1>3. rotations' \in Seq(R) /\ (\A i \in DOMAIN rotations : i \in DOMAIN rotations' /\ rotations'[i] = rotations[i])
      /\ (\E i \in DOMAIN rotations' : rotations'[i] = r)
  <2>1. /\ Len(rotations') = Len(rotations) + 1 /\ rotations'[Len(rotations) + 1] = r
        /\ rotations' \in Seq(R) /\ DOMAIN rotations' = 1 .. Len(rotations) + 1
        /\ DOMAIN rotations = 1 .. Len(rotations) /\ Len(rotations) \in Nat
        /\ \A i \in 1 .. Len(rotations) : rotations'[i] = rotations[i]
    BY <1>1, <1>2
  <2>2. QED
    BY <2>1
<1>4. \A s : Sent(s) => Sent(s)'
  BY <1>3 DEF Sent
<1>5. Sent(r)'
  BY <1>3 DEF Sent
<1>6. Logs' = Logs
  BY <1>1 DEF Logs, LogsIn
<1>7. \A k \in keyRows' : KeyRow(k)'
  BY <1>1, <1>4, <1>6 DEF KeysInv, KeyRow
<1>8. \A k \in keyRows : k.key # r
  BY <1>1 DEF KeysInv, KeyRow
<1>9. InOrder' <=> InOrder
  BY <1>1 DEF InOrder, Never
<1>10. rotations' \in Seq(Rotations)
  BY <1>3 DEF R
<1>11. QED
  BY <1>1, <1>4, <1>5, <1>7, <1>8, <1>9, <1>10 DEF KeysInv, Never

LEMMA LoseRotationInv ==
    ASSUME KeysInv, UNCHANGED chainVars, NEW r, LoseRotation(r)
    PROVE  KeysInv'
<1>1. /\ rotating' \subseteq rotating /\ rotations' = rotations /\ keyRows' = keyRows
      /\ disordered' = disordered /\ chain' = chain
  BY DEF LoseRotation, chainVars
<1>2. Logs' = Logs
  BY <1>1 DEF Logs, LogsIn
<1>3. \A k \in keyRows : KeyRow(k)'
  BY <1>1, <1>2 DEF KeysInv, KeyRow, Sent
<1>4. InOrder' <=> InOrder
  BY <1>1 DEF InOrder, Never
<1>5. QED
  BY <1>1, <1>3, <1>4 DEF KeysInv, Sent, Never

(* The rows after a rotation was recorded: the active one is retired.      *)
Retired(k, at) == IF k.until = Never THEN [k EXCEPT !.until = at] ELSE k

LEMMA RecordFacts ==
    ASSUME ChainInv, KeysInv, NEW r, RecordRotation(r)
    PROVE  LET at == PositionOf(r)
               new == [key |-> r, from |-> at, until |-> Never]
           IN
           /\ r \in rotating /\ r \in Rotations /\ Sent(r)
           /\ \E l \in Logs : l.tx = r /\ l.pos = at
           /\ at \in Points /\ at # Never
           /\ \A k \in keyRows : k.key # r /\ k.from # at
           /\ keyRows' = {Retired(k, at) : k \in keyRows} \cup {new}
           /\ \A k \in keyRows :
                  /\ Retired(k, at).key = k.key /\ Retired(k, at).from = k.from
                  /\ Retired(k, at).until = IF k.until = Never THEN at ELSE k.until
                  /\ Retired(k, at).until # Never
           /\ disordered' = (disordered \/ \E k \in keyRows : Before(at, k.from))
           /\ rotating' = rotating \ {r} /\ rotations' = rotations
<1> DEFINE at == PositionOf(r)
<1>1. /\ r \in rotating /\ InChain(r) /\ rotating' = rotating \ {r} /\ rotations' = rotations
      /\ keyRows' = {IF k.until = Never THEN [k EXCEPT !.until = at] ELSE k : k \in keyRows}
                      \cup {[key |-> r, from |-> at, until |-> Never]}
      /\ disordered' = (disordered \/ \E k \in keyRows : Before(at, k.from))
  BY DEF RecordRotation
<1>2. r \in Rotations /\ Sent(r) /\ \A k \in keyRows : k.key # r
  BY <1>1 DEF KeysInv
<1>3. PICK l \in Logs : l.tx = r
  BY <1>1 DEF InChain
<1>4. l.pos = at /\ at \in Points /\ at # Never
  BY <1>3, LogPoint
<1>5. ASSUME NEW k \in keyRows PROVE k.from # at
  <2>1. PICK m \in Logs : m.tx = k.key /\ m.pos = k.from
    BY DEF KeysInv, KeyRow
  <2>2. m # l
    BY <1>2, <1>3, <2>1
  <2>3. QED
    BY <1>4, <2>1, <2>2, OneLogEach
<1> HIDE DEF at
<1>6. ASSUME NEW k \in keyRows
      PROVE  /\ Retired(k, at).key = k.key /\ Retired(k, at).from = k.from
             /\ Retired(k, at).until = IF k.until = Never THEN at ELSE k.until
  <2>1. PICK a, b, c : k = [key |-> a, from |-> b, until |-> c]
    BY DEF KeysInv, KeyRow
  <2>2. CASE c = Never
    <3>1. k.until = Never /\ Retired(k, at) = [k EXCEPT !.until = at]
      BY <2>1, <2>2 DEF Retired
    <3>2. [k EXCEPT !.until = at] = [key |-> a, from |-> b, until |-> at]
      BY <2>1
    <3>3. QED
      BY <2>1, <3>1, <3>2
  <2>3. CASE c # Never
    BY <2>1, <2>3 DEF Retired
  <2>4. QED
    BY <2>2, <2>3
<1>7. keyRows' = {Retired(k, at) : k \in keyRows} \cup {[key |-> r, from |-> at, until |-> Never]}
  BY <1>1 DEF Retired, at
<1>8. QED
  BY <1>1, <1>2, <1>3, <1>4, <1>5, <1>6, <1>7 DEF at

LEMMA RecordRotationInv ==
    ASSUME ChainInv, KeysInv, UNCHANGED chainVars, NEW r, RecordRotation(r)
    PROVE  KeysInv'
<1>0. PICK at, new : at = PositionOf(r) /\ new = [key |-> r, from |-> at, until |-> Never]
  OBVIOUS
<1>1. /\ r \in rotating /\ r \in Rotations /\ Sent(r)
      /\ \E l \in Logs : l.tx = r /\ l.pos = at
      /\ at \in Points /\ at # Never
      /\ \A k \in keyRows : k.key # r /\ k.from # at
      /\ keyRows' = {Retired(k, at) : k \in keyRows} \cup {new}
      /\ \A k \in keyRows :
             /\ Retired(k, at).key = k.key /\ Retired(k, at).from = k.from
             /\ Retired(k, at).until = IF k.until = Never THEN at ELSE k.until
             /\ Retired(k, at).until # Never
      /\ disordered' = (disordered \/ \E k \in keyRows : Before(at, k.from))
      /\ rotating' = rotating \ {r} /\ rotations' = rotations
  BY <1>0, RecordFacts
<1>2. new.key = r /\ new.from = at /\ new.until = Never /\ Never' = Never
  BY <1>0 DEF Never
<1>3. Logs' = Logs /\ \A s : Sent(s)' <=> Sent(s)
  BY <1>1 DEF chainVars, Logs, LogsIn, Sent
<1>4. \A j \in keyRows' : j = new \/ \E k \in keyRows : j = Retired(k, at)
  BY <1>1
<1>5. ASSUME NEW j \in keyRows' PROVE KeyRow(j)'
  <2>1. CASE j = new
    <3>1. j = [key |-> j.key, from |-> j.from, until |-> j.until]
      BY <1>0, <2>1
    <3>2. Never \in Points
      BY EventChainAssumption DEF Never, Points
    <3>3. QED
      BY <1>1, <1>2, <1>3, <2>1, <3>1, <3>2 DEF KeyRow
  <2>2. ASSUME NEW k \in keyRows, j = Retired(k, at) PROVE KeyRow(j)'
    <3>1. KeyRow(k) /\ k = [key |-> k.key, from |-> k.from, until |-> k.until]
      BY DEF KeysInv, KeyRow
    <3>2. j.key = k.key /\ j.from = k.from /\ j.until \in Points
      BY <1>1, <2>2, <3>1 DEF KeyRow
    <3>3. j = [key |-> j.key, from |-> j.from, until |-> j.until]
      <4>1. PICK a, b, c : k = [key |-> a, from |-> b, until |-> c]
        BY <3>1
      <4>2. j = [key |-> a, from |-> b, until |-> c] \/ j = [key |-> a, from |-> b, until |-> at]
        BY <2>2, <4>1 DEF Retired
      <4>3. QED
        BY <4>2
    <3>4. QED
      BY <1>3, <3>1, <3>2, <3>3 DEF KeyRow
  <2>3. QED
    BY <1>4, <2>1, <2>2
<1>6. ASSUME NEW j \in keyRows', NEW k \in keyRows',
             j.key = k.key \/ (j.until = Never /\ k.until = Never)
      PROVE  j = k
  <2>1. CASE j = new
    <3>1. ~\E h \in keyRows : k = Retired(h, at)
      BY <1>1, <1>2, <1>6, <2>1
    <3>2. QED
      BY <1>4, <2>1, <3>1
  <2>2. CASE k = new
    <3>1. ~\E h \in keyRows : j = Retired(h, at)
      BY <1>1, <1>2, <1>6, <2>2
    <3>2. QED
      BY <1>4, <2>2, <3>1
  <2>3. ASSUME NEW g \in keyRows, j = Retired(g, at), NEW h \in keyRows, k = Retired(h, at)
        PROVE  j = k
    <3>1. g.key = h.key
      BY <1>1, <1>6, <2>3
    <3>2. g = h
      BY <3>1 DEF KeysInv
    <3>3. QED
      BY <2>3, <3>2
  <2>4. QED
    BY <1>4, <2>1, <2>2, <2>3
<1>7. ASSUME ~disordered' PROVE InOrder'
  <2>1. InOrder /\ \A k \in keyRows : ~Before(at, k.from)
    BY <1>1, <1>7 DEF KeysInv
  <2>2. \A k \in keyRows : k.from \in Points /\ k.until \in Points
    BY RowLog DEF KeysInv
  <2>3. \A k \in keyRows : Before(k.from, at)
    BY <1>1, <2>1, <2>2, Order
  <2>4. ASSUME NEW j \in keyRows', NEW k \in keyRows', Before(j.from, k.from)
        PROVE  j.until # Never /\ ~Before(k.from, j.until)
    <3>1. j # new
      <4>1. SUFFICES ASSUME j = new PROVE FALSE
        OBVIOUS
      <4>2. k.from = at \/ \E h \in keyRows : k.from = h.from
        BY <1>1, <1>2, <1>4
      <4>3. QED
        BY <1>1, <1>2, <2>1, <2>4, <4>1, <4>2, Order
    <3>2. PICK g \in keyRows : j = Retired(g, at)
      BY <1>4, <3>1
    <3>3. j.until # Never /\ j.from = g.from
      BY <1>1, <3>2
    <3>4. CASE k = new
      <4>1. CASE g.until = Never
        BY <1>1, <1>2, <3>2, <3>4, <4>1, Order
      <4>2. CASE g.until # Never
        <5>1. PICK h \in keyRows : g.until = h.from
          BY <2>1, <4>2 DEF InOrder
        <5>2. j.until = h.from
          BY <1>1, <3>2, <4>2, <5>1
        <5>3. QED
          BY <1>2, <2>1, <3>3, <3>4, <5>2
      <4>3. QED
        BY <4>1, <4>2
    <3>5. ASSUME NEW h \in keyRows, k = Retired(h, at)
          PROVE  ~Before(k.from, j.until)
      <4>1. Before(g.from, h.from)
        BY <1>1, <2>4, <3>3, <3>5
      <4>2. g.until # Never /\ ~Before(h.from, g.until)
        BY <2>1, <4>1 DEF InOrder
      <4>3. QED
        BY <1>1, <3>2, <3>5, <4>2
    <3>6. QED
      BY <1>4, <3>3, <3>4, <3>5
  <2>5. ASSUME NEW j \in keyRows', j.until # Never
        PROVE  \E k \in keyRows' : j.until = k.from /\ Before(j.from, k.from)
    <3>1. PICK g \in keyRows : j = Retired(g, at)
      BY <1>2, <1>4, <2>5
    <3>2. CASE g.until = Never
      BY <1>1, <1>2, <2>3, <3>1, <3>2
    <3>3. CASE g.until # Never
      <4>1. PICK h \in keyRows : g.until = h.from /\ Before(g.from, h.from)
        BY <2>1, <3>3 DEF InOrder
      <4>2. Retired(h, at) \in keyRows'
        BY <1>1
      <4>3. QED
        BY <1>1, <3>1, <3>3, <4>1, <4>2
    <3>4. QED
      BY <3>2, <3>3
  <2>6. QED
    BY <1>2, <2>4, <2>5 DEF InOrder
<1>8. rotations' \in Seq(Rotations) /\ rotating' \subseteq Rotations /\ disordered' \in BOOLEAN
  BY <1>1 DEF KeysInv
<1>9. \A s \in rotating' : Sent(s)' /\ \A k \in keyRows' : k.key # s
  BY <1>1, <1>2, <1>3, <1>4 DEF KeysInv
<1>10. QED
  BY <1>2, <1>5, <1>6, <1>7, <1>8, <1>9 DEF KeysInv

-----------------------------------------------------------------------------
(* The last rotation before a position.                                    *)

Cells == (1 .. MaxBlocks) \X (1 .. MaxLogs)

LEMMA Largest ==
    ASSUME NEW b \in Nat, NEW S, S \subseteq 0 .. b, S # {}
    PROVE  \E x \in S : \A y \in S : y <= x
<1> DEFINE T == {b - x : x \in S}
<1>1. T \subseteq Nat /\ T # {}
  <2>1. \A x \in S : x \in 0 .. b
    OBVIOUS
  <2>2. \A x \in S : b - x \in Nat
    BY <2>1
  <2>3. QED
    BY <2>2
<1>2. PICK m \in T : \A n \in T : ~ (<<n, m>> \in OpToRel(<, Nat))
  <2> HIDE DEF T
  <2>1. IsWellFoundedOn(OpToRel(<, Nat), Nat)
    BY NatLessThanWellFounded
  <2>2. QED
    BY <1>1, <2>1, WFMin
<1>3. \A n \in T : ~(n < m)
  BY <1>1, <1>2 DEF OpToRel
<1>4. PICK x \in S : m = b - x
  OBVIOUS
<1>5. ASSUME NEW y \in S PROVE y <= x
  <2>1. b - y \in T /\ x \in 0 .. b /\ y \in 0 .. b
    OBVIOUS
  <2>2. ~(b - y < b - x)
    BY <1>3, <1>4, <2>1
  <2>3. QED
    BY <2>1, <2>2
<1>6. QED
  BY <1>5

LEMMA LastOf ==
    ASSUME NEW P, P \subseteq Cells, P # {}
    PROVE  \E x \in P : \A y \in P : x = y \/ Before(y, x)
<1>1. MaxBlocks \in Nat /\ MaxLogs \in Nat
  BY EventChainAssumption
<1>2. \A p \in P : p[1] \in 1 .. MaxBlocks /\ p[2] \in 1 .. MaxLogs /\ p = <<p[1], p[2]>>
  BY DEF Cells
<1> DEFINE B == {p[1] : p \in P}
<1>3. B \subseteq 0 .. MaxBlocks /\ B # {}
  BY <1>1, <1>2
<1>4. PICK b \in B : \A c \in B : c <= b
  <2> HIDE DEF B
  <2>1. QED
    BY <1>1, <1>3, Largest
<1> DEFINE I == {p[2] : p \in {q \in P : q[1] = b}}
<1>5. I \subseteq 0 .. MaxLogs /\ I # {}
  BY <1>1, <1>2
<1>6. PICK i \in I : \A j \in I : j <= i
  <2> HIDE DEF I
  <2>1. QED
    BY <1>1, <1>5, Largest
<1>7. PICK x \in P : x[1] = b /\ x[2] = i
  OBVIOUS
<1>8. ASSUME NEW y \in P PROVE x = y \/ Before(y, x)
  <2>1. y[1] \in B /\ y[1] <= b /\ y[1] \in Nat /\ b \in Nat /\ y[2] \in Nat /\ i \in Nat
    BY <1>1, <1>2, <1>3, <1>4, <1>5
  <2>2. CASE y[1] = b
    <3>1. y[2] <= i
      BY <1>6, <2>2
    <3>2. QED
      BY <1>2, <1>7, <2>1, <2>2, <3>1 DEF Before
  <2>3. CASE y[1] < b
    BY <1>7, <2>3 DEF Before
  <2>4. QED
    BY <2>1, <2>2, <2>3
<1>9. QED
  BY <1>8

(* The key at a position is the one of the last rotation before it.        *)
LEMMA KeyAtFacts ==
    ASSUME ChainInv, NEW p \in Points, RotationsBefore(p) # {}
    PROVE  /\ KeyAt(p) \in RotationsBefore(p)
           /\ \A s \in RotationsBefore(p) \ {KeyAt(p)} : Before(PositionOf(s), PositionOf(KeyAt(p)))
<1> DEFINE P == {PositionOf(r) : r \in RotationsBefore(p)}
<1>1. \A r \in RotationsBefore(p) : \E l \in Logs : l.tx = r /\ l.pos = PositionOf(r)
  <2>1. TAKE r \in RotationsBefore(p)
  <2>2. PICK l \in Logs : l.tx = r
    BY DEF RotationsBefore, InChain
  <2>3. QED
    BY <2>2, LogPoint
<1>2. P \subseteq Cells /\ P # {}
  <2>1. \A r \in RotationsBefore(p) : PositionOf(r) \in Cells
    BY <1>1, LogFacts DEF Fits, Cells
  <2>2. QED
    BY <2>1
<1>3. PICK x \in P : \A y \in P : x = y \/ Before(y, x)
  <2> HIDE DEF P
  <2>1. QED
    BY <1>2, LastOf
<1>4. PICK r \in RotationsBefore(p) : x = PositionOf(r)
  OBVIOUS
<1>5. \A s \in RotationsBefore(p) \ {r} : Before(PositionOf(s), PositionOf(r))
  <2>1. TAKE s \in RotationsBefore(p) \ {r}
  <2>2. PositionOf(s) # PositionOf(r)
    BY <1>1, OneLogEach
  <2>3. QED
    BY <1>3, <1>4, <2>2
<1>6. KeyAt(p) = CHOOSE h \in RotationsBefore(p) :
                     \A s \in RotationsBefore(p) \ {h} : Before(PositionOf(s), PositionOf(h))
  BY DEF KeyAt
<1>7. QED
  BY <1>4, <1>5, <1>6

(* At most one row covers a position.                                      *)
LEMMA CoveredOnce ==
    ASSUME ChainInv, KeysInv, ~disordered, NEW p \in Points,
           NEW k \in Covering(keyRows, p), NEW j \in Covering(keyRows, p)
    PROVE  k = j
<1>1. ASSUME NEW g \in Covering(keyRows, p), NEW h \in Covering(keyRows, p), Before(g.from, h.from)
      PROVE  FALSE
  <2>1. /\ g \in keyRows /\ h \in keyRows /\ ~Before(p, h.from)
        /\ g.until = Never \/ Before(p, g.until)
    BY DEF Covering, keyCoversEvent
  <2>2. g.until # Never /\ ~Before(h.from, g.until) /\ g.until \in Points /\ h.from \in Points
    BY <1>1, <2>1, RowLog DEF KeysInv, InOrder
  <2>3. Before(p, g.until)
    BY <2>1, <2>2
  <2>4. Before(p, h.from)
    BY <2>2, <2>3, Transitive
  <2>5. QED
    BY <2>1, <2>4
<1>2. k \in keyRows /\ j \in keyRows /\ k.from \in Points /\ j.from \in Points
  BY RowLog DEF Covering, KeysInv
<1>3. k.from = j.from
  BY <1>1, <1>2, Order
<1>4. QED
  BY <1>2, <1>3, RowsApart

LEMMA FoundKey ==
    ASSUME ChainInv, KeysInv, ~disordered, NEW p \in Points, NEW k \in Covering(keyRows, p)
    PROVE  findKeyForEvent(keyRows, p) = k.key
<1>1. Covering(keyRows, p) = {k}
  BY CoveredOnce
<1>2. (CHOOSE h \in Covering(keyRows, p) : \A j \in Covering(keyRows, p) \ {h} : Before(h.from, j.from)) = k
  BY <1>1
<1>3. QED
  BY <1>2 DEF findKeyForEvent

(* No rotation is at the position of a transfer's row.                     *)
LEMMA NotRotated ==
    ASSUME ChainInv, NEW e, Fits(e), e.tx \in Transfers, NEW l \in Logs, l.tx \in Rotations
    PROVE  e.pos # l.pos /\ e.pos \in Points
<1>1. l = Log(l.pos[1], l.pos[2]) /\ l.pos[2] \in DOMAIN chain[l.pos[1]].logs
  BY LogFacts
<1>2. l.tx = chain[l.pos[1]].logs[l.pos[2]]
  BY <1>1 DEF Log
<1>3. l.tx # e.tx
  BY EventChainAssumption
<1>4. e.pos # l.pos
  BY <1>1, <1>2, <1>3 DEF Fits
<1>5. e.pos \in Points
  BY EventChainAssumption DEF Fits, Points
<1>6. QED
  BY <1>4, <1>5

(* The row of the last rotation before a transfer covers it.               *)
LEMMA LastCovers ==
    ASSUME ChainInv, KeysInv, NEW e, Fits(e), e.tx \in Transfers, AllRecorded(e.pos), e.pos \in Points
    PROVE  \E k \in Covering(keyRows, e.pos) : k.key = KeyAt(e.pos)
<1>0. PICK p, r : p = e.pos /\ r = KeyAt(e.pos)
  OBVIOUS
<1>1. /\ r \in RotationsBefore(p) /\ InOrder /\ ~disordered
      /\ \A s \in RotationsBefore(p) \ {r} : Before(PositionOf(s), PositionOf(r))
  BY <1>0, KeyAtFacts DEF AllRecorded, KeysInv
<1>2. PICK k \in keyRows : k.key = r
  BY <1>0, <1>1 DEF AllRecorded
<1>3. KeyRow(k) /\ k.from \in Points /\ k.until \in Points /\ PositionOf(r) = k.from
  BY <1>2, RowLog DEF KeysInv
<1>4. Before(k.from, p)
  BY <1>1, <1>3 DEF RotationsBefore
<1>5. ~Before(p, k.from)
  BY <1>0, <1>3, <1>4, Order
<1>6. ASSUME k.until # Never PROVE Before(p, k.until)
  <2>1. PICK j \in keyRows : k.until = j.from /\ Before(k.from, j.from)
    BY <1>1, <1>6 DEF InOrder
  <2>2. KeyRow(j) /\ j.key \in Rotations /\ InChain(j.key) /\ PositionOf(j.key) = j.from /\ j.from \in Points
    BY RowLog DEF KeysInv
  <2>3. ~Before(j.from, p)
    <3>1. SUFFICES ASSUME Before(j.from, p) PROVE FALSE
      OBVIOUS
    <3>2. j.key \in RotationsBefore(p)
      BY <2>2, <3>1 DEF RotationsBefore
    <3>3. j.key = r \/ Before(j.from, k.from)
      BY <1>1, <1>3, <2>2, <3>2
    <3>4. QED
      BY <1>2, <1>3, <2>1, <2>2, <3>3, Order
  <2>4. p # j.from
    <3>1. PICK l \in Logs : l.tx = j.key /\ l.pos = j.from
      BY <2>2 DEF KeyRow
    <3>2. QED
      BY <1>0, <2>2, <3>1, NotRotated
  <2>5. QED
    BY <1>0, <2>1, <2>2, <2>3, <2>4, Order
<1>7. k \in Covering(keyRows, p)
  BY <1>5, <1>6 DEF Covering, keyCoversEvent
<1>8. QED
  BY <1>0, <1>2, <1>7

LEMMA RecordedDecrypts ==
    ASSUME ChainInv, KeysInv, NEW e, Fits(e), e.tx \in Transfers, AllRecorded(e.pos)
    PROVE  Decrypts(keyRows, e.pos)
<1>1. e.pos \in Points
  BY EventChainAssumption DEF Fits, Points
<1>2. PICK k \in Covering(keyRows, e.pos) : k.key = KeyAt(e.pos)
  BY <1>1, LastCovers
<1>3. findKeyForEvent(keyRows, e.pos) = k.key
  BY <1>1, FoundKey DEF AllRecorded
<1>4. QED
  BY <1>2, <1>3 DEF Decrypts, HasKey

LEMMA VerifiableInv ==
    ASSUME IndexInv, KeysInv
    PROVE  TransfersVerifiable
<1>1. AmountReadable
  BY RowFacts, RecordedDecrypts DEF AmountReadable, IndexInv
<1>2. ASSUME NEW e \in events, e.tx \in Transfers, AllRecorded(e.pos)
      PROVE  verifyDisclosure(e.tx, e.pos[2], e.tx, e.tx) = "verified"
  <2> DEFINE rows == {f \in events : f.tx = e.tx /\ f.pos[2] = e.pos[2]}
             row == CHOOSE f \in rows : TRUE
             amount == recoverDisclosedAmount(row, e.tx, findKeyForEvent(keyRows, row.pos))
  <2>1. rows = {e}
    BY DEF IndexInv, RowsInv
  <2>2. row = e
    BY <2>1
  <2>3. HasKey(keyRows, e.pos) /\ findKeyForEvent(keyRows, e.pos) = KeyAt(e.pos)
    BY <1>1, <1>2 DEF AmountReadable, Decrypts
  <2>4. amount = e.tx
    BY <2>2, <2>3 DEF recoverDisclosedAmount
  <2>5. amount \notin {"auth_key_mismatch", "decrypt_failed"}
    BY <1>2, <2>4, DisclosureAssumption
  <2> HIDE DEF amount, row
  <2>6. verifyDisclosure(e.tx, e.pos[2], e.tx, e.tx) =
            CASE rows = {} -> "event_not_found"
              [] rows # {} /\ e.tx \notin Transfers -> "event_not_encrypted"
              [] rows # {} /\ e.tx \in Transfers /\ ~HasKey(keyRows, row.pos) -> "auditor_key_missing"
              [] OTHER -> IF amount \in {"auth_key_mismatch", "decrypt_failed"} THEN amount
                          ELSE IF amount # e.tx THEN "amount_mismatch" ELSE "verified"
    BY DEF verifyDisclosure, amount, row
  <2>7. QED
    BY <1>2, <2>1, <2>2, <2>3, <2>4, <2>5, <2>6
<1>3. ASSUME NEW tx \in Transfers, NEW secret \in Transfers, NEW claim \in Transfers, NEW index,
             verifyDisclosure(tx, index, secret, claim) = "verified"
      PROVE  secret = tx /\ claim = tx
  <2> DEFINE rows == {f \in events : f.tx = tx /\ f.pos[2] = index}
             row == CHOOSE f \in rows : TRUE
             amount == recoverDisclosedAmount(row, secret, findKeyForEvent(keyRows, row.pos))
  <2>1. rows # {} => row.tx = tx
    OBVIOUS
  <2>2. amount \in {"auth_key_mismatch", "decrypt_failed"} \/ (secret = row.tx /\ amount = row.tx)
    BY DEF recoverDisclosedAmount
  <2> HIDE DEF amount, row, rows
  <2>3. verifyDisclosure(tx, index, secret, claim) =
            CASE rows = {} -> "event_not_found"
              [] rows # {} /\ tx \notin Transfers -> "event_not_encrypted"
              [] rows # {} /\ tx \in Transfers /\ ~HasKey(keyRows, row.pos) -> "auditor_key_missing"
              [] OTHER -> IF amount \in {"auth_key_mismatch", "decrypt_failed"} THEN amount
                          ELSE IF amount # claim THEN "amount_mismatch" ELSE "verified"
    BY DEF verifyDisclosure, amount, row, rows
  <2>4. rows # {}
    BY <1>3, <2>3
  <2>5. ~(rows # {} /\ tx \in Transfers /\ ~HasKey(keyRows, row.pos))
    BY <1>3, <2>3, <2>4
  <2>6. (IF amount \in {"auth_key_mismatch", "decrypt_failed"} THEN amount
         ELSE IF amount # claim THEN "amount_mismatch" ELSE "verified") = "verified"
    BY <1>3, <2>3, <2>4, <2>5
  <2>7. amount \notin {"auth_key_mismatch", "decrypt_failed"} /\ amount = claim
    BY <2>6
  <2>8. QED
    BY <2>1, <2>2, <2>4, <2>7
<1>4. QED
  BY <1>1, <1>2, <1>3 DEF TransfersVerifiable

-----------------------------------------------------------------------------
(* The reads.                                                              *)

\* A key that read an event of a block from here on, and what keeps the
\* range of its row from ending before.
Kept(key, from) ==
    /\ from <= Len(chain)
    /\ \E k \in keyRows :
           /\ k.key = key /\ RangeIntersects(k, from)
           /\ \A l \in Logs : l.tx \in Rotations /\ Before(k.from, l.pos) => l.pos[1] >= from

RowsRead(q) ==
    /\ read[q].kind \in Kinds /\ read[q].from \in Nat
    /\ \A e \in read[q].rows :
           /\ Fits(e) /\ e.tx \in Transfers
           /\ read[q].kind = "packet" => e.pos[1] >= read[q].from

PacketInv(q) ==
    /\ read[q].at \in {"flush", "logged"} => \A e \in read[q].found : Kept(e.key, read[q].from)
    /\ read[q].at \in {"listed", "exported"} => \A e \in read[q].found : e.key \in read[q].keys

ReadsInv ==
    /\ \A q \in Reads : RowsRead(q)
    /\ ~disordered => \A q \in Reads : read[q].kind = "packet" => PacketInv(q)
    /\ PacketSelfContained

-----------------------------------------------------------------------------
(* A key that read an event is in force there.                             *)

(* No rotation comes between the start of the row that reads a transfer    *)
(* and the transfer.                                                       *)
LEMMA DecryptedKept ==
    ASSUME ChainInv, KeysInv, ~disordered, NEW from \in Nat, NEW e, Fits(e), e.tx \in Transfers,
           e.pos[1] >= from, Decrypts(keyRows, e.pos)
    PROVE  Kept(findKeyForEvent(keyRows, e.pos), from)
<1>0. PICK p : p = e.pos
  OBVIOUS
<1>1. p \in Points /\ p[1] \in Nat /\ p[1] <= Len(chain) /\ Len(chain) \in Nat
  <2>1. e.pos \in Points /\ e.pos[1] \in DOMAIN chain
    BY EventChainAssumption DEF Fits, Points
  <2>2. QED
    BY <1>0, <2>1, ChainLen DEF Points
<1>2. PICK k \in Covering(keyRows, p) : TRUE
  BY <1>0 DEF Decrypts, HasKey
<1>3. findKeyForEvent(keyRows, p) = k.key /\ k.key = KeyAt(p)
  BY <1>0, <1>1, FoundKey DEF Decrypts
<1>4. k \in keyRows /\ ~Before(p, k.from) /\ (k.until = Never \/ Before(p, k.until))
  BY DEF Covering, keyCoversEvent
<1>5. KeyRow(k) /\ k.from \in Points /\ k.until \in Points /\ PositionOf(k.key) = k.from
  BY <1>4, RowLog DEF KeysInv
<1>6. RangeIntersects(k, from)
  BY <1>0, <1>1, <1>4, <1>5 DEF RangeIntersects, Before, Points
<1>7. ASSUME NEW l \in Logs, l.tx \in Rotations, Before(k.from, l.pos) PROVE l.pos[1] >= from
  <2>1. l.pos \in Points /\ InChain(l.tx) /\ PositionOf(l.tx) = l.pos
    BY LogPoint
  <2>2. CASE Before(l.pos, p)
    <3>1. l.tx \in RotationsBefore(p)
      BY <1>7, <2>1, <2>2 DEF RotationsBefore
    <3>2. l.tx = KeyAt(p) \/ Before(l.pos, PositionOf(KeyAt(p)))
      BY <1>1, <2>1, <3>1, KeyAtFacts
    <3>3. l.pos = k.from \/ Before(l.pos, k.from)
      BY <1>3, <1>5, <2>1, <3>2
    <3>4. QED
      BY <1>5, <1>7, <2>1, <3>3, Order
  <2>3. CASE ~Before(l.pos, p)
    BY <1>0, <1>1, <2>1, <2>3 DEF Before, Points
  <2>4. QED
    BY <2>2, <2>3
<1>8. from <= Len(chain)
  BY <1>0, <1>1
<1>9. QED
  BY <1>0, <1>3, <1>4, <1>6, <1>7, <1>8 DEF Kept

(* What is mined or reorganised does not end a kept range before.          *)
LEMMA KeptOnChain ==
    ASSUME NEW from \in Nat, NEW key, Kept(key, from), keyRows' = keyRows,
           Len(chain) \in Nat, Len(chain') \in Nat, Len(chain) <= Len(chain'),
           \A l \in Logs' : l.tx \in Rotations =>
               l.pos[1] = Len(chain) + 1 \/ \E m \in Logs : m.tx = l.tx /\ m.pos = l.pos
    PROVE  Kept(key, from)'
<1>1. PICK k \in keyRows :
          /\ k.key = key /\ RangeIntersects(k, from)
          /\ \A l \in Logs : l.tx \in Rotations /\ Before(k.from, l.pos) => l.pos[1] >= from
  BY DEF Kept
<1>2. from <= Len(chain)
  BY DEF Kept
<1>3. ASSUME NEW l \in Logs', l.tx \in Rotations, Before(k.from, l.pos) PROVE l.pos[1] >= from
  <2>1. CASE l.pos[1] = Len(chain) + 1
    BY <1>2, <2>1
  <2>2. CASE \E m \in Logs : m.tx = l.tx /\ m.pos = l.pos
    BY <1>1, <1>3, <2>2
  <2>3. QED
    BY <1>3, <2>1, <2>2
<1>4. RangeIntersects(k, from)'
  BY <1>1 DEF RangeIntersects, Never
<1>5. QED
  BY <1>1, <1>2, <1>3, <1>4 DEF Kept

(* Nor does a rotation that is recorded in order.                          *)
LEMMA KeptOnRecord ==
    ASSUME ChainInv, KeysInv, NEW from \in Nat, NEW key, Kept(key, from), UNCHANGED chainVars,
           NEW r, RecordRotation(r), ~disordered'
    PROVE  Kept(key, from)'
<1>0. PICK at : at = PositionOf(r)
  OBVIOUS
<1>1. /\ r \in Rotations
      /\ \E l \in Logs : l.tx = r /\ l.pos = at
      /\ at \in Points /\ at # Never
      /\ \A k \in keyRows : k.from # at
      /\ \A k \in keyRows : Retired(k, at) \in keyRows'
      /\ \A k \in keyRows :
             /\ Retired(k, at).key = k.key /\ Retired(k, at).from = k.from
             /\ Retired(k, at).until = IF k.until = Never THEN at ELSE k.until
      /\ \A k \in keyRows : ~Before(at, k.from)
  <2>1. /\ r \in Rotations
        /\ \E l \in Logs : l.tx = r /\ l.pos = at
        /\ at \in Points /\ at # Never
        /\ \A k \in keyRows : k.key # r /\ k.from # at
        /\ keyRows' = {Retired(k, at) : k \in keyRows} \cup {[key |-> r, from |-> at, until |-> Never]}
        /\ \A k \in keyRows :
               /\ Retired(k, at).key = k.key /\ Retired(k, at).from = k.from
               /\ Retired(k, at).until = IF k.until = Never THEN at ELSE k.until
               /\ Retired(k, at).until # Never
        /\ disordered' = (disordered \/ \E k \in keyRows : Before(at, k.from))
    BY <1>0, RecordFacts
  <2>2. QED
    BY <2>1
<1>2. PICK k \in keyRows :
          /\ k.key = key /\ RangeIntersects(k, from)
          /\ \A l \in Logs : l.tx \in Rotations /\ Before(k.from, l.pos) => l.pos[1] >= from
  BY DEF Kept
<1>3. chain' = chain /\ Logs' = Logs /\ Never' = Never
  BY DEF chainVars, Logs, LogsIn, Never
<1>4. k.from \in Points
  BY RowLog DEF KeysInv
<1>5. Before(k.from, at)
  BY <1>1, <1>4, Order
<1>6. at[1] >= from
  BY <1>1, <1>2, <1>5
<1>7. RangeIntersects(Retired(k, at), from)'
  BY <1>1, <1>2, <1>3, <1>6 DEF RangeIntersects
<1>8. Retired(k, at).key = key /\ Retired(k, at).from = k.from /\ Retired(k, at) \in keyRows'
  BY <1>1, <1>2
<1>9. QED
  <2>1. PICK j \in keyRows' : j = Retired(k, at)
    BY <1>8
  <2>2. RangeIntersects(j, from)'
    BY <1>7, <2>1
  <2>3. QED
    BY <1>2, <1>3, <1>8, <2>1, <2>2 DEF Kept

-----------------------------------------------------------------------------
(* The steps of the chain, of the keys and of the reads.                   *)

LEMMA ReadsStay ==
    ASSUME ReadsInv, UNCHANGED disclosureVars, \A e : Fits(e) => Fits(e)', ~disordered' => ~disordered,
           ~disordered' => \A from \in Nat : \A key : Kept(key, from) => Kept(key, from)'
    PROVE  ReadsInv'
<1>1. read' = read /\ answers' = answers
  BY DEF disclosureVars
<1>2. \A q \in Reads : RowsRead(q)'
  BY <1>1 DEF ReadsInv, RowsRead
<1>3. ASSUME ~disordered', NEW q \in Reads, read[q].kind = "packet" PROVE PacketInv(q)'
  <2>1. PacketInv(q) /\ read[q].from \in Nat
    BY <1>3 DEF ReadsInv, RowsRead
  <2>2. PICK from : from = read[q].from
    OBVIOUS
  <2>3. \A key : Kept(key, from) => Kept(key, from)'
    BY <1>3, <2>1, <2>2
  <2>4. QED
    BY <1>1, <2>1, <2>2, <2>3 DEF PacketInv
<1>4. PacketSelfContained'
  BY <1>1 DEF ReadsInv, PacketSelfContained
<1>5. QED
  BY <1>1, <1>2, <1>3, <1>4 DEF ReadsInv

\* What a step of one read leaves alone.
OtherReads(q) ==
    /\ UNCHANGED <<chainVars, keyVars>>
    /\ \A o \in Reads \ {q} : read'[o] = read[o]

LEMMA ReadMoves ==
    ASSUME ReadsInv, NEW q \in Reads, OtherReads(q), RowsRead(q)',
           ~disordered /\ read'[q].kind = "packet" => PacketInv(q)',
           PacketSelfContained'
    PROVE  ReadsInv'
<1>1. chain' = chain /\ forks' = forks /\ keyRows' = keyRows /\ disordered' = disordered
  BY DEF OtherReads, chainVars, keyVars
<1>2. \A e : Fits(e)' <=> Fits(e)
  BY <1>1 DEF Fits
<1>3. \A key, from : Kept(key, from)' <=> Kept(key, from)
  BY <1>1 DEF Kept, RangeIntersects, Never, Logs, LogsIn
<1>4. \A o \in Reads \ {q} : RowsRead(o)' /\ (PacketInv(o)' <=> PacketInv(o))
  BY <1>2, <1>3 DEF OtherReads, ReadsInv, RowsRead, PacketInv
<1>5. \A o \in Reads : RowsRead(o)'
  BY <1>4
<1>6. ASSUME ~disordered', NEW o \in Reads, read'[o].kind = "packet" PROVE PacketInv(o)'
  <2>1. ~disordered
    BY <1>1, <1>6
  <2>2. CASE o = q
    BY <1>6, <2>1, <2>2
  <2>3. CASE o # q
    <3>1. read[o].kind = "packet"
      BY <1>6, <2>3 DEF OtherReads
    <3>2. PacketInv(o)
      BY <2>1, <3>1 DEF ReadsInv
    <3>3. QED
      BY <1>4, <2>3, <3>2
  <2>4. QED
    BY <2>2, <2>3
<1>7. QED
  BY <1>5, <1>6 DEF ReadsInv

(* A read goes to another place with its rows; nothing is answered.        *)
LEMMA ReadGoesOn ==
    ASSUME ReadsInv, NEW q \in Reads, NEW new, DOMAIN read = Reads, read' = [read EXCEPT ![q] = new],
           UNCHANGED <<chainVars, keyVars, answers>>,
           new.kind = read[q].kind, new.from = read[q].from, new.rows = read[q].rows,
           ~disordered /\ read[q].kind = "packet" => PacketInv(q)'
    PROVE  ReadsInv' /\ read'[q] = new
<1>1. OtherReads(q) /\ read'[q] = new
  BY DEF OtherReads
<1>2. \A e : Fits(e)' <=> Fits(e)
  BY DEF chainVars, Fits
<1>3. RowsRead(q)'
  BY <1>1, <1>2 DEF ReadsInv, RowsRead
<1>4. PacketSelfContained'
  BY DEF keyVars, PacketSelfContained, ReadsInv
<1>5. QED
  BY <1>1, <1>3, <1>4, ReadMoves

LEMMA SelectRowsReads ==
    ASSUME IInv, IndexInv, ReadsInv, NEW q \in Reads, NEW kinds, kinds \subseteq Kinds,
           NEW starts, starts \subseteq Nat, SelectRows(q, kinds, starts), UNCHANGED <<chainVars, keyVars>>
    PROVE  ReadsInv'
<1>1. PICK kind \in kinds, from \in starts :
       \E rows \in IF kind = "proof" THEN {{e} : e \in {f \in events : f.tx \in Transfers}}
                   ELSE {{e \in {f \in events : f.tx \in Transfers} : e.pos[1] >= from}} :
           Reading(q, "new", [Unread EXCEPT !.at = IF rows = {} THEN "logged" ELSE "keys",
                                            !.kind = kind, !.from = from, !.rows = rows])
  BY DEF SelectRows
<1>2. PICK rows, at :
          /\ at \in {"logged", "keys"}
          /\ \A e \in rows : e \in events /\ e.tx \in Transfers
          /\ kind # "proof" => \A e \in rows : e.pos[1] >= from
          /\ Reading(q, "new", [Unread EXCEPT !.at = at, !.kind = kind, !.from = from, !.rows = rows])
  <2>1. PICK rows \in IF kind = "proof" THEN {{e} : e \in {f \in events : f.tx \in Transfers}}
                   ELSE {{e \in {f \in events : f.tx \in Transfers} : e.pos[1] >= from}} :
           Reading(q, "new", [Unread EXCEPT !.at = IF rows = {} THEN "logged" ELSE "keys",
                                            !.kind = kind, !.from = from, !.rows = rows])
    BY <1>1
  <2>2. \A e \in rows : e \in events /\ e.tx \in Transfers
    <3>1. CASE kind = "proof"
      BY <2>1, <3>1
    <3>2. CASE kind # "proof"
      BY <2>1, <3>2
    <3>3. QED
      BY <3>1, <3>2
  <2>3. kind # "proof" => \A e \in rows : e.pos[1] >= from
    BY <2>1
  <2>4. QED
    BY <2>1, <2>2, <2>3
<1> DEFINE new == [Unread EXCEPT !.at = at, !.kind = kind, !.from = from, !.rows = rows]
<1>3. /\ new.at = at /\ new.kind = kind /\ new.from = from /\ new.rows = rows /\ new.found = {}
  BY DEF Unread
<1>4. read' = [read EXCEPT ![q] = new] /\ answers' = answers /\ DOMAIN read = Reads
  BY <1>2 DEF Reading, SelectRows, IInv
<1> HIDE DEF new
<1>5. OtherReads(q) /\ read'[q] = new
  BY <1>4 DEF OtherReads
<1>6. \A e \in rows : Fits(e)'
  <2>1. \A e : Fits(e) => Fits(e)'
    BY DEF chainVars, Fits
  <2>2. \A e \in rows : Fits(e)
    BY <1>2, RowFacts
  <2>3. QED
    BY <2>1, <2>2
<1>7. RowsRead(q)'
  BY <1>1, <1>2, <1>3, <1>5, <1>6 DEF RowsRead
<1>8. PacketInv(q)'
  BY <1>2, <1>3, <1>5 DEF PacketInv
<1>9. PacketSelfContained'
  BY <1>4 DEF keyVars, PacketSelfContained, ReadsInv
<1>10. QED
  BY <1>5, <1>7, <1>8, <1>9, ReadMoves

LEMMA DecryptReads ==
    ASSUME IInv, ChainInv, KeysInv, ReadsInv, NEW q \in Reads, Decrypt(q), UNCHANGED <<chainVars, keyVars>>
    PROVE  ReadsInv'
<1>1. PICK newestFirst \in BOOLEAN :
          Reading(q, "keys", [read[q] EXCEPT !.at = "flush",
              !.found = {ReadWith(keyRows, e) : e \in Decryptable(read[q].rows, newestFirst)}])
  BY DEF Decrypt
<1>2. PICK found : found = {ReadWith(keyRows, e) : e \in Decryptable(read[q].rows, newestFirst)}
  OBVIOUS
<1> DEFINE new == [read[q] EXCEPT !.at = "flush", !.found = found]
<1>3. read' = [read EXCEPT ![q] = new] /\ answers' = answers /\ DOMAIN read = Reads
  BY <1>1, <1>2 DEF Reading, Decrypt, IInv
<1>4. /\ new.at = "flush" /\ new.found = found
      /\ new.kind = read[q].kind /\ new.from = read[q].from /\ new.rows = read[q].rows
  BY DEF IInv, ReadInv, ReadFields
<1> HIDE DEF new
<1>5. read'[q] = new
  BY <1>3
<1>6. ASSUME ~disordered, read[q].kind = "packet" PROVE PacketInv(q)'
  <2>1. PICK from : from = read[q].from
    OBVIOUS
  <2>2. from \in Nat /\ \A e \in read[q].rows : Fits(e) /\ e.tx \in Transfers /\ e.pos[1] >= from
    BY <1>6, <2>1 DEF ReadsInv, RowsRead
  <2>3. ASSUME NEW d \in found PROVE Kept(d.key, from)
    <3>1. PICK e \in Decryptable(read[q].rows, newestFirst) : d = ReadWith(keyRows, e)
      BY <1>2, <2>3
    <3>2. e \in read[q].rows /\ Decrypts(keyRows, e.pos)
      BY <3>1 DEF Decryptable
    <3>3. Kept(findKeyForEvent(keyRows, e.pos), from)
      BY <1>6, <2>2, <3>2, DecryptedKept
    <3>4. QED
      BY <3>1, <3>3 DEF ReadWith
  <2>4. \A key : Kept(key, from)' <=> Kept(key, from)
    BY DEF chainVars, keyVars, Kept, RangeIntersects, Never, Logs, LogsIn
  <2>5. \A d \in found : Kept(d.key, from)'
    <3>1. TAKE d \in found
    <3>2. PICK key : key = d.key
      OBVIOUS
    <3>3. Kept(key, from)'
      BY <2>3, <2>4, <3>2
    <3>4. QED
      BY <3>2, <3>3
  <2>6. QED
    BY <1>4, <1>5, <2>1, <2>5 DEF PacketInv
<1>7. QED
  BY <1>3, <1>4, <1>6, ReadGoesOn

\* Where the events decrypted stay as they were.
LEMMA PlaceReads ==
    ASSUME IInv, ReadsInv, NEW q \in Reads, NEW at,
           \/ at \in {"failed", "answered"} \/ read[q].kind # "packet"
           \/ (read[q].at = "flush" /\ at = "logged") \/ (read[q].at = "listed" /\ at = "exported"),
           read' = [read EXCEPT ![q] = [read[q] EXCEPT !.at = at]], UNCHANGED <<chainVars, keyVars, answers>>
    PROVE  ReadsInv'
<1> DEFINE new == [read[q] EXCEPT !.at = at]
<1>1. read' = [read EXCEPT ![q] = new] /\ DOMAIN read = Reads /\ read'[q] = new
  BY DEF IInv
<1>2. /\ new.at = at /\ new.found = read[q].found /\ new.keys = read[q].keys
      /\ new.kind = read[q].kind /\ new.from = read[q].from /\ new.rows = read[q].rows
  BY DEF IInv, ReadInv, ReadFields
<1> HIDE DEF new
<1>3. ASSUME ~disordered, read[q].kind = "packet" PROVE PacketInv(q)'
  <2>1. PICK from : from = read[q].from
    OBVIOUS
  <2>2. \A key : Kept(key, from)' <=> Kept(key, from)
    BY DEF chainVars, keyVars, Kept, RangeIntersects, Never, Logs, LogsIn
  <2>3. PacketInv(q)
    BY <1>3 DEF ReadsInv
  <2>4. CASE at \in {"failed", "answered"}
    BY <1>1, <1>2, <2>4 DEF PacketInv
  <2>5. CASE read[q].at = "flush" /\ at = "logged"
    <3>1. \A e \in read[q].found : Kept(e.key, from)
      BY <2>1, <2>3, <2>5 DEF PacketInv
    <3>2. \A e \in read[q].found : Kept(e.key, from)'
      <4>1. TAKE e \in read[q].found
      <4>2. PICK key : key = e.key
        OBVIOUS
      <4>3. Kept(key, from)'
        BY <2>2, <3>1, <4>2
      <4>4. QED
        BY <4>2, <4>3
    <3>3. QED
      BY <1>1, <1>2, <2>1, <2>5, <3>2 DEF PacketInv
  <2>6. CASE read[q].at = "listed" /\ at = "exported"
    BY <1>1, <1>2, <2>3, <2>6 DEF PacketInv
  <2>7. QED
    BY <1>3, <2>4, <2>5, <2>6
<1>4. QED
  BY <1>1, <1>2, <1>3, ReadGoesOn

LEMMA ListKeysReads ==
    ASSUME IInv, ReadsInv, NEW q \in Reads, ListKeys(q), UNCHANGED <<chainVars, keyVars>>
    PROVE  ReadsInv'
<1> DEFINE failed == [read[q] EXCEPT !.at = "failed"]
<1>0. PICK keys : keys = PacketKeys(keyRows, read[q].from)
  OBVIOUS
<1> DEFINE listed == [read[q] EXCEPT !.at = "listed", !.keys = keys]
<1>1. PICK new \in {listed, failed} : Reading(q, "logged", new)
  BY <1>0 DEF ListKeys
<1>2. /\ read[q].at = "logged" /\ read[q].kind = "packet" /\ read' = [read EXCEPT ![q] = new]
      /\ answers' = answers /\ DOMAIN read = Reads
  BY <1>1 DEF Reading, ListKeys, IInv
<1>3. CASE new = failed
  BY <1>2, <1>3, PlaceReads
<1>4. CASE new = listed
  <2>1. /\ new.at = "listed" /\ new.found = read[q].found /\ new.keys = keys
        /\ new.kind = read[q].kind /\ new.from = read[q].from /\ new.rows = read[q].rows
    BY <1>4 DEF IInv, ReadInv, ReadFields
  <2>2. read'[q] = new
    BY <1>2
  <2>3. ASSUME ~disordered PROVE PacketInv(q)'
    <3>1. PacketInv(q)
      BY <1>2, <2>3 DEF ReadsInv
    <3>2. ASSUME NEW e \in read[q].found PROVE e.key \in keys
      <4>1. Kept(e.key, read[q].from)
        BY <1>2, <3>1 DEF PacketInv
      <4>2. PICK k \in keyRows : k.key = e.key /\ RangeIntersects(k, read[q].from)
        BY <4>1 DEF Kept
      <4>3. QED
        BY <1>0, <4>2 DEF PacketKeys
    <3>3. QED
      BY <2>1, <2>2, <3>2 DEF PacketInv
  <2> HIDE DEF listed
  <2>4. QED
    BY <1>2, <2>1, <2>3, ReadGoesOn
<1>5. QED
  BY <1>3, <1>4

LEMMA AnswerReads ==
    ASSUME IInv, ReadsInv, NEW q \in Reads, Answer(q), UNCHANGED <<chainVars, keyVars>>
    PROVE  ReadsInv'
<1> DEFINE new == [read[q] EXCEPT !.at = "answered"]
           a == [read |-> q, kind |-> read[q].kind, events |-> read[q].found, keys |-> read[q].keys]
<1>1. /\ read' = [read EXCEPT ![q] = new] /\ DOMAIN read = Reads /\ answers' = answers \cup {a}
      /\ (read[q].at = "exported" \/ read[q].kind \in {"report", "proof"})
  BY DEF Reading, Answer, IInv
<1>2. /\ new.at = "answered"
      /\ new.kind = read[q].kind /\ new.from = read[q].from /\ new.rows = read[q].rows
  BY DEF IInv, ReadInv, ReadFields
<1>3. a.kind = read[q].kind /\ a.events = read[q].found /\ a.keys = read[q].keys
  OBVIOUS
<1> HIDE DEF new, a
<1>4. OtherReads(q) /\ read'[q] = new
  BY <1>1 DEF OtherReads
<1>5. RowsRead(q)'
  <2>1. \A e : Fits(e)' <=> Fits(e)
    BY DEF chainVars, Fits
  <2>2. QED
    BY <1>2, <1>4, <2>1 DEF ReadsInv, RowsRead
<1>6. PacketInv(q)'
  BY <1>2, <1>4 DEF PacketInv
<1>7. PacketSelfContained'
  <2>1. disordered' = disordered
    BY DEF keyVars
  <2>2. ASSUME ~disordered, a.kind = "packet" PROVE \A e \in a.events : e.key \in a.keys
    <3>1. read[q].at = "exported" /\ PacketInv(q)
      BY <1>1, <1>3, <2>2 DEF ReadsInv
    <3>2. QED
      BY <1>3, <3>1 DEF PacketInv
  <2>3. QED
    BY <1>1, <2>1, <2>2 DEF ReadsInv, PacketSelfContained
<1>8. QED
  BY <1>4, <1>5, <1>6, <1>7, ReadMoves

LEMMA ReadStepReads ==
    ASSUME IInv, ChainInv, KeysInv, ReadsInv, NEW q \in Reads, ReadStep(q), UNCHANGED <<chainVars, keyVars>>
    PROVE  ReadsInv'
<1>1. CASE Decrypt(q)
  BY <1>1, DecryptReads
<1>2. CASE FlushAuditRows(q)
  <2>1. PICK at \in {"logged", "failed"} : Reading(q, "flush", [read[q] EXCEPT !.at = at])
    BY <1>2 DEF FlushAuditRows
  <2>2. read[q].at = "flush" /\ read' = [read EXCEPT ![q] = [read[q] EXCEPT !.at = at]] /\ answers' = answers
    BY <1>2, <2>1 DEF Reading, FlushAuditRows
  <2>3. at = "failed" \/ (read[q].at = "flush" /\ at = "logged")
    BY <2>1, <2>2
  <2>4. QED
    BY <2>2, <2>3, PlaceReads
<1>3. CASE ListKeys(q)
  BY <1>3, ListKeysReads
<1>4. CASE LogExport(q)
  <2>1. /\ read' = [read EXCEPT ![q] = [read[q] EXCEPT !.at = "exported"]] /\ answers' = answers
        /\ read[q].kind # "packet" \/ read[q].at = "listed"
    BY <1>4 DEF Reading, LogExport
  <2>2. QED
    BY <2>1, PlaceReads
<1>5. CASE Answer(q)
  BY <1>5, AnswerReads
<1>6. CASE FailRead(q)
  <2>1. read' = [read EXCEPT ![q] = [read[q] EXCEPT !.at = "failed"]] /\ answers' = answers
    BY <1>6 DEF FailRead
  <2>2. QED
    BY <2>1, PlaceReads
<1>7. QED
  BY <1>1, <1>2, <1>3, <1>4, <1>5, <1>6 DEF ReadStep

LEMMA RotationReads ==
    ASSUME ChainInv, KeysInv, ReadsInv, NEW r, RotationStep(r), UNCHANGED <<chainVars, disclosureVars>>
    PROVE  ReadsInv'
<1>1. \A e : Fits(e) => Fits(e)'
  BY DEF chainVars, Fits
<1>2. CASE RecordRotation(r)
  <2>1. disordered' = (disordered \/ \E k \in keyRows : Before(PositionOf(r), k.from))
    BY <1>2 DEF RecordRotation
  <2>2. ~disordered' => ~disordered
    BY <2>1
  <2>3. ~disordered' => \A from \in Nat : \A key : Kept(key, from) => Kept(key, from)'
    BY <1>2, KeptOnRecord
  <2>4. QED
    BY <1>1, <2>2, <2>3, ReadsStay
<1>3. CASE UNCHANGED <<keyRows, disordered>>
  <2>1. \A key, from : Kept(key, from)' <=> Kept(key, from)
    BY <1>3 DEF chainVars, Kept, RangeIntersects, Never, Logs, LogsIn
  <2>2. ~disordered' => ~disordered
    BY <1>3
  <2>3. QED
    BY <1>1, <2>1, <2>2, ReadsStay
<1>4. QED
  BY <1>2, <1>3 DEF RotationStep, SendRotation, LoseRotation

-----------------------------------------------------------------------------
(* The subscriber.                                                         *)

Increasing(s) == \A i, j \in DOMAIN s : i < j => Before(s[i], s[j])
FromToken(e) == ContractOf(e.tx) = "EncryptedERC"

\* The rows a poll has read follow the cursor and leave none out.
PageInv(s) ==
    /\ Increasing(s)
    /\ \A i \in DOMAIN s : Before(streamCursor, s[i]) /\ s[i] \in RowPositions
    /\ \A e \in events, i \in DOMAIN s :
           FromToken(e) /\ Before(streamCursor, e.pos) /\ ~Before(s[i], e.pos) =>
               \E j \in DOMAIN s : s[j] = e.pos

SentInv ==
    /\ streamCursor = None \/ streamCursor \in RowPositions
    /\ Increasing(sent) /\ \A i \in DOMAIN sent : ~Before(streamCursor, sent[i])
    /\ \A e \in events :
           FromToken(e) /\ Before(streamFrom, e.pos) /\ ~Before(streamCursor, e.pos) =>
               \E i \in DOMAIN sent : sent[i] = e.pos
    /\ \A t \in Ticks : ticks[t] # NotRunning => PageInv(ticks[t])

StreamInv ==
    /\ streamFrom \in Cells \cup {None} /\ streamCursor \in Cells \cup {None}
    /\ sent \in Seq(Cells) /\ streaming \in BOOLEAN
    /\ DOMAIN ticks = Ticks /\ \A t \in Ticks : ticks[t] = NotRunning \/ ticks[t] \in Seq(Cells)
    /\ \A t, u \in Ticks : ticks[t] # NotRunning /\ ticks[u] # NotRunning => t = u
    /\ ~streaming => Serialised /\ sent = <<>>
    /\ forks = 0 => SentInv


-----------------------------------------------------------------------------
(* What the subscriber has got while rows are added.                       *)

LEMMA NoStream == StreamInit => StreamInv
<1> SUFFICES ASSUME StreamInit PROVE StreamInv
  OBVIOUS
<1> DEFINE C == Cells
<1> HIDE DEF C
<1>1. /\ streaming = FALSE /\ streamFrom = None /\ streamCursor = None
      /\ ticks = [t \in Ticks |-> NotRunning] /\ sent = <<>>
  BY DEF StreamInit
<1>2. sent \in Seq(C) /\ DOMAIN sent = {}
  BY <1>1
<1>3. DOMAIN ticks = Ticks /\ \A t \in Ticks : ticks[t] = NotRunning
  BY <1>1
<1>4. SentInv
  BY <1>1, <1>2, <1>3 DEF SentInv, Increasing
<1>5. sent \in Seq(Cells)
  BY <1>2 DEF C
<1>6. QED
  BY <1>1, <1>3, <1>4, <1>5 DEF StreamInv, Serialised

LEMMA CellFacts ==
    ASSUME NEW p \in Cells \cup {None}
    PROVE  /\ p \in Points /\ None \in Points /\ ~Before(p, None)
           /\ p \in Cells => p # None /\ Before(None, p)
BY EventChainAssumption DEF Cells, Points, None, Before

\* A page is not the mark of a poll that does not run.
LEMMA PageRuns == \A s \in Seq(Cells) : s # NotRunning
<1> SUFFICES ASSUME NEW s \in Seq(Cells), s = NotRunning PROVE FALSE
  OBVIOUS
<1> DEFINE C == Cells
<1> HIDE DEF C
<1>1. s \in Seq(C) /\ Len(s) = 1 /\ s[1] = None
  BY DEF NotRunning, C
<1>2. s[1] \in C
  BY <1>1
<1>3. QED
  BY <1>1, <1>2, CellFacts DEF C

LEMMA RowCells ==
    ASSUME IndexInv
    PROVE  RowPositions \subseteq Cells /\ \A e \in events : e.pos \in Cells /\ e.pos \in Points
BY RowFacts, EventChainAssumption DEF RowPositions, Cells, Fits, Points

(* Rows were added, none before a row that was there.                      *)
RowsAdded ==
    /\ events \subseteq events'
    /\ \A e \in events' \ events, f \in events : FromToken(e) => Before(f.pos, e.pos)

LEMMA SentStays ==
    ASSUME IndexInv, IndexInv', SentInv, RowsAdded, UNCHANGED streamVars,
           streamCursor \in Cells \cup {None}
    PROVE  SentInv'
<1>1. /\ streamCursor' = streamCursor /\ streamFrom' = streamFrom /\ sent' = sent /\ ticks' = ticks
  BY DEF streamVars
<1>2. RowPositions \subseteq RowPositions'
  BY DEF RowsAdded, RowPositions
<1>3. ASSUME NEW e \in events' \ events, FromToken(e)
      PROVE  Before(streamCursor, e.pos) /\ \A p \in RowPositions : Before(p, e.pos)
  <2>1. \A p \in RowPositions : Before(p, e.pos)
    BY <1>3 DEF RowsAdded, RowPositions
  <2>2. e.pos \in Cells
    BY DEF IndexInv, RowsInv, Fits, Cells
  <2>3. QED
    BY <2>1, <2>2, CellFacts DEF SentInv
<1>4. ASSUME NEW t \in Ticks, ticks[t] # NotRunning PROVE PageInv(ticks[t])'
  <2>1. PageInv(ticks[t])
    BY <1>4 DEF SentInv
  <2>2. PICK s : s = ticks[t]
    OBVIOUS
  <2>3. /\ Increasing(s) /\ \A i \in DOMAIN s : Before(streamCursor, s[i]) /\ s[i] \in RowPositions
        /\ \A e \in events, i \in DOMAIN s :
               FromToken(e) /\ Before(streamCursor, e.pos) /\ ~Before(s[i], e.pos) =>
                   \E j \in DOMAIN s : s[j] = e.pos
    BY <2>1, <2>2 DEF PageInv
  <2>4. \A e \in events', i \in DOMAIN s :
               FromToken(e) /\ Before(streamCursor, e.pos) /\ ~Before(s[i], e.pos) =>
                   \E j \in DOMAIN s : s[j] = e.pos
    BY <1>3, <2>3
  <2>5. PageInv(s)'
    BY <1>1, <1>2, <2>3, <2>4 DEF PageInv, Increasing, FromToken
  <2>6. QED
    BY <1>1, <2>2, <2>5
<1>5. \A e \in events' :
           FromToken(e) /\ Before(streamFrom, e.pos) /\ ~Before(streamCursor, e.pos) =>
               \E i \in DOMAIN sent : sent[i] = e.pos
  BY <1>3 DEF SentInv
<1>6. QED
  BY <1>1, <1>2, <1>4, <1>5 DEF SentInv, Increasing, FromToken

(* A step of the index only adds rows, and what is before a row is there   *)
(* with it.                                                                *)
LEMMA IndexAdds ==
    ASSUME IndexInv, IndexInv', forks = 0, UNCHANGED chainVars, events \subseteq events'
    PROVE  RowsAdded
<1>1. FlatInv /\ FlatInv' /\ ChainInv /\ Logs' = Logs
  BY DEF IndexInv, chainVars, Logs, LogsIn
<1>2. ASSUME NEW e \in events' \ events, NEW f \in events, FromToken(e) PROVE Before(f.pos, e.pos)
  <2>1. e \in Logs /\ f \in Logs
    BY <1>1 DEF FlatInv
  <2>2. ~Before(e.pos, f.pos)
    BY <1>1, <1>2, <2>1 DEF FlatInv, FromToken
  <2>3. e.pos # f.pos
    BY <1>1, <2>1, OneLogEach
  <2>4. QED
    BY <1>1, <2>1, <2>2, <2>3, LogPoint, Order
<1>3. QED
  BY <1>2 DEF RowsAdded

LEMMA StreamStays ==
    ASSUME IndexInv, IndexInv', StreamInv, UNCHANGED streamVars, forks' = 0 => forks = 0 /\ RowsAdded
    PROVE  StreamInv'
<1>1. forks' = 0 => SentInv'
  BY SentStays DEF StreamInv
<1>2. /\ streamCursor' = streamCursor /\ streamFrom' = streamFrom /\ sent' = sent /\ ticks' = ticks
      /\ streaming' = streaming
  BY DEF streamVars
<1>3. QED
  BY <1>1, <1>2 DEF StreamInv, Serialised, Cells

-----------------------------------------------------------------------------
(* What the subscriber does.                                               *)

LEMMA OpenStreamInv ==
    ASSUME IndexInv, StreamInv, OpenStream, UNCHANGED <<chainVars, indexerVars>>
    PROVE  StreamInv'
<1>1. PICK from \in {None} \cup Latest : streamFrom' = from /\ streamCursor' = from
  BY DEF OpenStream
<1>2. from = None \/ from \in RowPositions
  BY <1>1 DEF Latest
<1>3. from \in Cells \cup {None}
  BY <1>2, RowCells
<1>4. /\ ~streaming /\ streaming' = TRUE /\ ticks' = ticks /\ sent' = sent
      /\ events' = events /\ forks' = forks
  BY DEF OpenStream, chainVars, indexerVars, indexVars
<1>5. Serialised /\ sent = <<>>
  BY <1>4 DEF StreamInv
<1>6. DOMAIN sent' = {}
  BY <1>4, <1>5
<1>7. SentInv'
  <2>1. Increasing(sent)' /\ \A i \in DOMAIN sent' : ~Before(streamCursor', sent'[i])
    BY <1>6 DEF Increasing
  <2>2. RowPositions' = RowPositions
    BY <1>4 DEF RowPositions
  <2>3. \A t \in Ticks : ticks'[t] = NotRunning
    BY <1>4, <1>5 DEF Serialised
  <2>4. QED
    BY <1>1, <1>2, <2>1, <2>2, <2>3 DEF SentInv
<1>8. QED
  BY <1>1, <1>3, <1>4, <1>5, <1>7 DEF StreamInv, Serialised, Cells

LEMMA ReadNewRowsInv ==
    ASSUME IndexInv, StreamInv, NEW t \in Ticks, ReadNewRows(t), UNCHANGED <<chainVars, indexerVars>>
    PROVE  StreamInv'
<1>1. PICK n \in 0 .. PageSize :
       \E s \in [1 .. n -> {p \in RowPositions : Before(streamCursor, p)}] :
           IsPage(s, n) /\ ticks' = [ticks EXCEPT ![t] = s]
  BY DEF ReadNewRows
<1>2. PICK s \in [1 .. n -> {p \in RowPositions : Before(streamCursor, p)}] :
           IsPage(s, n) /\ ticks' = [ticks EXCEPT ![t] = s]
  BY <1>1
<1>3. n \in Nat
  BY StreamAssumption
<1>4. /\ streaming /\ Serialised /\ streaming' = streaming /\ streamFrom' = streamFrom
      /\ streamCursor' = streamCursor /\ sent' = sent /\ events' = events /\ forks' = forks
  BY DEF ReadNewRows, chainVars, indexerVars, indexVars
<1>5. DOMAIN s = 1 .. n /\ \A i \in 1 .. n : s[i] \in RowPositions /\ Before(streamCursor, s[i])
  BY <1>2
<1>6. s \in Seq(Cells)
  <2>1. s \in [1 .. n -> Cells]
    BY <1>2, <1>5, RowCells
  <2>2. QED
    BY <1>3, <2>1
<1>7. DOMAIN ticks' = Ticks /\ ticks'[t] = s /\ \A u \in Ticks \ {t} : ticks'[u] = NotRunning
  BY <1>2, <1>4 DEF StreamInv, Serialised
<1>8. ASSUME forks = 0 PROVE SentInv'
  <2>1. SentInv
    BY <1>8 DEF StreamInv
  <2>2. PageInv(s)
    <3>1. Increasing(s)
      BY <1>2, <1>5 DEF IsPage, Increasing
    <3>2. ASSUME NEW e \in events, NEW i \in DOMAIN s, Before(streamCursor, e.pos), ~Before(s[i], e.pos)
          PROVE  \E j \in DOMAIN s : s[j] = e.pos
      <4>1. e.pos \in RowPositions
        BY DEF RowPositions
      <4>2. QED
        BY <1>2, <1>5, <3>2, <4>1 DEF IsPage
    <3>3. QED
      BY <1>5, <3>1, <3>2 DEF PageInv
  <2>3. PageInv(s)'
    BY <1>4, <2>2 DEF PageInv, Increasing, RowPositions, FromToken
  <2>4. \A u \in Ticks : ticks'[u] # NotRunning => PageInv(ticks[u])'
    <3>1. TAKE u \in Ticks
    <3>2. HAVE ticks'[u] # NotRunning
    <3>3. u = t /\ ticks'[u] = s
      BY <1>7, <3>2
    <3>4. QED
      BY <2>3, <3>3
  <2>5. RowPositions' = RowPositions
    BY <1>4 DEF RowPositions
  <2>6. QED
    BY <1>4, <2>1, <2>4, <2>5 DEF SentInv, Increasing, FromToken
<1>9. QED
  BY <1>4, <1>6, <1>7, <1>8 DEF StreamInv, Cells

LEMMA Concat ==
    ASSUME NEW C, NEW s \in Seq(C), NEW u \in Seq(C)
    PROVE  /\ s \o u \in Seq(C) /\ Len(s) \in Nat /\ Len(u) \in Nat
           /\ DOMAIN s = 1 .. Len(s) /\ DOMAIN u = 1 .. Len(u) /\ DOMAIN (s \o u) = 1 .. Len(s) + Len(u)
           /\ \A i \in DOMAIN s : (s \o u)[i] = s[i] /\ i \in DOMAIN (s \o u)
           /\ \A j \in DOMAIN u : (s \o u)[Len(s) + j] = u[j] /\ Len(s) + j \in DOMAIN (s \o u)
           /\ \A i \in DOMAIN (s \o u) : i \in DOMAIN s \/ \E j \in DOMAIN u : i = Len(s) + j
<1>1. /\ s \o u \in Seq(C) /\ Len(s) \in Nat /\ Len(u) \in Nat
      /\ DOMAIN s = 1 .. Len(s) /\ DOMAIN u = 1 .. Len(u) /\ DOMAIN (s \o u) = 1 .. Len(s) + Len(u)
      /\ \A i \in 1 .. Len(s) : (s \o u)[i] = s[i]
      /\ \A j \in 1 .. Len(u) : (s \o u)[Len(s) + j] = u[j]
  OBVIOUS
<1>2. ASSUME NEW i \in 1 .. Len(s) + Len(u), i \notin 1 .. Len(s)
      PROVE  \E j \in 1 .. Len(u) : i = Len(s) + j
  <2>1. i - Len(s) \in 1 .. Len(u) /\ i = Len(s) + (i - Len(s))
    BY <1>1, <1>2
  <2>2. QED
    BY <2>1
<1>3. \A i \in 1 .. Len(s) : i \in 1 .. Len(s) + Len(u)
  BY <1>1
<1>4. \A j \in 1 .. Len(u) : Len(s) + j \in 1 .. Len(s) + Len(u)
  BY <1>1
<1>5. PICK all, n, m : all = s \o u /\ n = Len(s) /\ m = Len(u)
  OBVIOUS
<1>6. /\ DOMAIN s = 1 .. n /\ DOMAIN u = 1 .. m /\ DOMAIN all = 1 .. n + m
      /\ \A i \in DOMAIN s : all[i] = s[i] /\ i \in DOMAIN all
      /\ \A j \in DOMAIN u : all[n + j] = u[j] /\ n + j \in DOMAIN all
      /\ \A i \in DOMAIN all : i \in DOMAIN s \/ \E j \in DOMAIN u : i = n + j
  BY <1>1, <1>2, <1>3, <1>4, <1>5
<1>7. QED
  BY <1>1, <1>5, <1>6

(* What is sent follows what was sent.                                     *)
LEMMA SentFollows ==
    ASSUME IndexInv, NEW s \in Seq(Cells), sent \in Seq(Cells), SentInv, PageInv(s),
           streamCursor \in Cells \cup {None}
    PROVE  LET all == sent \o s
               to == IF s = <<>> THEN streamCursor ELSE Last(s)
           IN
           /\ all \in Seq(Cells) /\ to \in Cells \cup {None}
           /\ to = None \/ to \in RowPositions
           /\ Increasing(all) /\ \A i \in DOMAIN all : ~Before(to, all[i])
           /\ \A e \in events :
                  FromToken(e) /\ Before(streamFrom, e.pos) /\ ~Before(to, e.pos) =>
                      \E i \in DOMAIN all : all[i] = e.pos
<1> DEFINE C == Cells
<1>0. \A p \in C \cup {None} : p \in Points
  BY CellFacts
<1> HIDE DEF C
<1>1. PICK all : all = sent \o s
  OBVIOUS
<1>2. /\ all \in Seq(C) /\ Len(sent) \in Nat /\ Len(s) \in Nat
      /\ DOMAIN sent = 1 .. Len(sent) /\ DOMAIN s = 1 .. Len(s)
      /\ \A i \in DOMAIN sent : all[i] = sent[i] /\ i \in DOMAIN all
      /\ \A j \in DOMAIN s : all[Len(sent) + j] = s[j] /\ Len(sent) + j \in DOMAIN all
      /\ \A i \in DOMAIN all : i \in DOMAIN sent \/ \E j \in DOMAIN s : i = Len(sent) + j
  <2>1. sent \in Seq(C) /\ s \in Seq(C)
    BY DEF C
  <2>2. QED
    BY <1>1, <2>1, Concat
<1>3. (\A i \in DOMAIN sent : sent[i] \in C) /\ (\A i \in DOMAIN s : s[i] \in C)
  <2>1. sent \in Seq(C) /\ s \in Seq(C)
    BY DEF C
  <2>2. QED
    BY <2>1
<1>4. ASSUME NEW i \in DOMAIN sent, NEW j \in DOMAIN s PROVE Before(sent[i], s[j])
  <2>1. ~Before(streamCursor, sent[i]) /\ Before(streamCursor, s[j])
    BY DEF SentInv, PageInv
  <2>2. sent[i] \in Points /\ s[j] \in Points /\ streamCursor \in Points
    BY <1>0, <1>3 DEF C
  <2>3. QED
    BY <2>1, <2>2, Transitive
<1>5. ASSUME NEW i \in DOMAIN all, NEW j \in DOMAIN all, i < j PROVE Before(all[i], all[j])
  <2>1. CASE i \in DOMAIN sent /\ j \in DOMAIN sent
    BY <1>2, <1>5, <2>1 DEF SentInv, Increasing
  <2>2. ASSUME i \in DOMAIN sent, NEW k \in DOMAIN s, j = Len(sent) + k PROVE Before(all[i], all[j])
    BY <1>2, <1>4, <2>2
  <2>3. ASSUME NEW h \in DOMAIN s, i = Len(sent) + h, j \in DOMAIN sent PROVE FALSE
    BY <1>2, <1>5, <2>3
  <2>4. ASSUME NEW h \in DOMAIN s, i = Len(sent) + h, NEW k \in DOMAIN s, j = Len(sent) + k
        PROVE  Before(all[i], all[j])
    <3>1. h < k
      BY <1>2, <1>5, <2>4
    <3>2. Before(s[h], s[k])
      BY <3>1 DEF PageInv, Increasing
    <3>3. QED
      BY <1>2, <2>4, <3>2
  <2>5. QED
    BY <1>2, <2>1, <2>2, <2>3, <2>4
<1>6. CASE s = <<>>
  <2>1. DOMAIN s = {}
    BY <1>6
  <2>2. \A i \in DOMAIN all : ~Before(streamCursor, all[i])
    BY <1>2, <2>1 DEF SentInv
  <2>3. \A e \in events :
            FromToken(e) /\ Before(streamFrom, e.pos) /\ ~Before(streamCursor, e.pos) =>
                \E i \in DOMAIN all : all[i] = e.pos
    BY <1>2 DEF SentInv
  <2>4. QED
    BY <1>1, <1>2, <1>5, <1>6, <2>2, <2>3 DEF C, Increasing, SentInv
<1>7. CASE s # <<>>
  <2>1. PICK n, to : n = Len(s) /\ to = s[n]
    OBVIOUS
  <2>2. n \in DOMAIN s /\ \A j \in DOMAIN s : j \in Nat /\ j <= n
    <3>1. s \in Seq(C)
      BY DEF C
    <3>2. Len(s) # 0
      BY <1>7, <3>1
    <3>3. QED
      BY <1>2, <2>1, <3>2
  <2>3. to \in C /\ to \in RowPositions /\ Before(streamCursor, to) /\ to \in Points /\ streamCursor \in Points
    BY <1>0, <1>3, <2>1, <2>2 DEF PageInv, C
  <2>4. \A j \in DOMAIN s : ~Before(to, s[j])
    <3>1. TAKE j \in DOMAIN s
    <3>2. j = n \/ Before(s[j], to)
      BY <2>1, <2>2 DEF PageInv, Increasing
    <3>3. s[j] \in Points
      BY <1>0, <1>3
    <3>4. QED
      BY <2>1, <2>3, <3>2, <3>3, Order
  <2>5. \A i \in DOMAIN sent : ~Before(to, sent[i])
    <3>1. TAKE i \in DOMAIN sent
    <3>2. Before(sent[i], to) /\ sent[i] \in Points
      BY <1>0, <1>3, <1>4, <2>1, <2>2
    <3>3. QED
      BY <2>3, <3>2, Order
  <2>6. \A i \in DOMAIN all : ~Before(to, all[i])
    BY <1>2, <2>4, <2>5
  <2>7. ASSUME NEW e \in events, FromToken(e), Before(streamFrom, e.pos), ~Before(to, e.pos)
        PROVE  \E i \in DOMAIN all : all[i] = e.pos
    <3>1. CASE Before(streamCursor, e.pos)
      <4>1. \E j \in DOMAIN s : s[j] = e.pos
        BY <2>1, <2>2, <2>7, <3>1 DEF PageInv
      <4>2. QED
        BY <1>2, <4>1
    <3>2. CASE ~Before(streamCursor, e.pos)
      <4>1. \E i \in DOMAIN sent : sent[i] = e.pos
        BY <2>7, <3>2 DEF SentInv
      <4>2. QED
        BY <1>2, <4>1
    <3>3. QED
      BY <3>1, <3>2
  <2>8. Last(s) = to
    BY <2>1 DEF Last
  <2>9. QED
    BY <1>1, <1>2, <1>5, <1>7, <2>3, <2>6, <2>7, <2>8 DEF C, Increasing
<1>8. QED
  BY <1>6, <1>7

LEMMA SendNewRowsInv ==
    ASSUME IndexInv, StreamInv, NEW t \in Ticks, SendNewRows(t), UNCHANGED <<chainVars, indexerVars>>
    PROVE  StreamInv'
<1>1. PICK s : s = ticks[t]
  OBVIOUS
<1>2. /\ s # NotRunning /\ sent' = sent \o s /\ streaming' = streaming /\ streamFrom' = streamFrom
      /\ streamCursor' = IF s = <<>> THEN streamCursor ELSE Last(s)
      /\ ticks' = [ticks EXCEPT ![t] = NotRunning] /\ events' = events /\ forks' = forks
  BY <1>1 DEF SendNewRows, chainVars, indexerVars, indexVars
<1>3. s \in Seq(Cells) /\ streaming
  BY <1>1, <1>2 DEF StreamInv, Serialised
<1>4. \A u \in Ticks : ticks'[u] = NotRunning
  BY <1>1, <1>2 DEF StreamInv
<1>5. DOMAIN ticks' = Ticks
  BY <1>2 DEF StreamInv
<1>6. sent' \in Seq(Cells) /\ streamCursor' \in Cells \cup {None}
  <2>1. sent \in Seq(Cells)
    BY DEF StreamInv
  <2> DEFINE C == Cells
  <2> HIDE DEF C
  <2>2. sent \in Seq(C) /\ s \in Seq(C)
    BY <1>3, <2>1 DEF C
  <2>3. sent' \in Seq(C)
    BY <1>2, <2>2
  <2>4. s # <<>> => Last(s) \in C
    BY <2>2 DEF Last
  <2>5. streamCursor' \in C \cup {None}
    BY <1>2, <2>4 DEF StreamInv, C
  <2>6. QED
    BY <2>3, <2>5 DEF C
<1>7. ASSUME forks = 0 PROVE SentInv'
  <2>1. /\ SentInv /\ sent \in Seq(Cells) /\ streamCursor \in Cells \cup {None}
    BY <1>7 DEF StreamInv
  <2>2. PageInv(s)
    BY <1>1, <1>2, <2>1 DEF SentInv
  <2>3. PICK all, to : all = sent \o s /\ to = IF s = <<>> THEN streamCursor ELSE Last(s)
    OBVIOUS
  <2>4. /\ to = None \/ to \in RowPositions
        /\ Increasing(all) /\ \A i \in DOMAIN all : ~Before(to, all[i])
        /\ \A e \in events :
               FromToken(e) /\ Before(streamFrom, e.pos) /\ ~Before(to, e.pos) =>
                   \E i \in DOMAIN all : all[i] = e.pos
    BY <1>3, <2>1, <2>2, <2>3, SentFollows
  <2>5. sent' = all /\ streamCursor' = to /\ RowPositions' = RowPositions
    BY <1>2, <2>3 DEF RowPositions
  <2>6. QED
    BY <1>2, <1>4, <2>4, <2>5 DEF SentInv, Increasing, FromToken
<1>8. QED
  BY <1>2, <1>3, <1>4, <1>5, <1>6, <1>7 DEF StreamInv, Cells

LEMMA FailTickInv ==
    ASSUME IndexInv, StreamInv, NEW t \in Ticks, FailTick(t), UNCHANGED <<chainVars, indexerVars>>
    PROVE  StreamInv'
<1>1. /\ ticks' = [ticks EXCEPT ![t] = NotRunning] /\ streaming' = streaming /\ streamFrom' = streamFrom
      /\ streamCursor' = streamCursor /\ sent' = sent /\ events' = events /\ forks' = forks
  BY DEF FailTick, chainVars, indexerVars, indexVars
<1>2. ticks[t] # NotRunning
  BY DEF FailTick
<1>3. DOMAIN ticks' = Ticks /\ \A u \in Ticks : ticks'[u] = NotRunning
  BY <1>1, <1>2 DEF StreamInv
<1>4. RowPositions' = RowPositions
  BY <1>1 DEF RowPositions
<1>5. forks = 0 => SentInv'
  BY <1>1, <1>3, <1>4 DEF StreamInv, SentInv, Increasing, FromToken
<1>6. QED
  BY <1>1, <1>3, <1>5 DEF StreamInv, Serialised, Cells

LEMMA StreamSaid == IndexInv /\ StreamInv => StreamFaithful
BY DEF StreamInv, SentInv, StreamFaithful, Increasing, FromToken

-----------------------------------------------------------------------------
(* All together.                                                           *)

AllInv == IInv /\ IndexInv /\ KeysInv /\ StreamInv /\ ReadsInv

LEMMA NoReads == Init => ReadsInv
<1> SUFFICES ASSUME Init PROVE ReadsInv
  OBVIOUS
<1>1. read = [q \in Reads |-> Unread] /\ answers = {}
  BY DEF Init, DisclosureInit
<1>2. \A q \in Reads : read[q] = Unread
  BY <1>1
<1>3. /\ Unread.at = "new" /\ Unread.kind = "report" /\ Unread.from = 1 /\ Unread.rows = {}
  BY DEF Unread
<1>4. \A q \in Reads : RowsRead(q) /\ PacketInv(q)
  BY <1>2, <1>3 DEF RowsRead, PacketInv, Kinds
<1>5. QED
  BY <1>1, <1>4 DEF ReadsInv, PacketSelfContained

LEMMA AllInit == Init => AllInv
BY InitInv, IndexInit, NoKeys, NoStream, NoReads DEF Init, AllInv

(* A step of the chain or of a poller.                                     *)
LEMMA MineInv ==
    ASSUME AllInv, MineBlock(plan.txs, rotations), IInv',
           UNCHANGED <<indexerVars, streamVars, keyVars, disclosureVars>>
    PROVE  AllInv'
<1>1. plan.txs \in SUBSET Txs /\ \A i \in DOMAIN rotations : rotations[i] \in Rotations
  <2>1. plan.txs \subseteq Txs
    BY PlansAssumption DEF AllInv, IInv
  <2> DEFINE R == Rotations
  <2> HIDE DEF R
  <2>2. rotations \in Seq(R)
    BY DEF AllInv, KeysInv, R
  <2>3. \A i \in DOMAIN rotations : rotations[i] \in R
    BY <2>2
  <2>4. QED
    BY <2>1, <2>3 DEF R
<1>2. \A i \in DOMAIN rotations : rotations[i] \in Txs
  BY <1>1 DEF Txs
<1>3. ChainInv
  BY DEF AllInv, IndexInv
<1>4. /\ ChainInv' /\ forks' = forks /\ Len(chain') = Len(chain) + 1
      /\ \A l \in Logs' : l \in Logs \/ l.pos[1] = Len(chain) + 1
      /\ Logs \subseteq Logs'
      /\ \A e : Fits(e) => Fits(e)'
  BY <1>1, <1>2, <1>3, MineBlockFacts
<1>5. IndexInv'
  BY <1>1, <1>2, MineBlockInv DEF AllInv
<1>6. KeysInv'
  BY <1>4, KeysStay DEF AllInv, RotationsStay
<1>7. StreamInv'
  <2>1. RowsAdded
    BY DEF RowsAdded, indexerVars, indexVars
  <2>2. QED
    BY <1>4, <1>5, <2>1, StreamStays DEF AllInv
<1>8. ReadsInv'
  <2>1. keyRows' = keyRows /\ disordered' = disordered
    BY DEF keyVars
  <2>2. Len(chain) \in Nat /\ Len(chain') \in Nat /\ Len(chain) <= Len(chain')
    BY <1>3, <1>4, ChainLen
  <2>3. \A from \in Nat : \A key : Kept(key, from) => Kept(key, from)'
    BY <1>4, <2>1, <2>2, KeptOnChain
  <2>4. QED
    BY <1>4, <2>1, <2>3, ReadsStay DEF AllInv
<1>9. QED
  BY <1>5, <1>6, <1>7, <1>8 DEF AllInv

LEMMA ForkInv ==
    ASSUME AllInv, NEW k \in 0 .. MaxBlocks, ReorganiseUnder(k), IInv',
           UNCHANGED <<streamVars, keyVars, disclosureVars>>
    PROVE  AllInv'
<1>1. k \in Nat /\ Reorganise(k) /\ ChainInv
  BY EventChainAssumption DEF ReorganiseUnder, AllInv, IndexInv
<1>2. /\ \A e : Fits(e) => Fits(e)'
      /\ \A l \in Logs' : \E m \in Logs : m.tx = l.tx /\ m.pos = l.pos
      /\ \A l \in Logs : l.tx \in Rotations => l \in Logs'
      /\ Len(chain') = Len(chain) /\ forks' = forks + 1
  BY <1>1, ReorganisedLogs, ReorganiseFacts
<1>3. IndexInv'
  BY <1>1, ReorganiseInv DEF AllInv
<1>4. KeysInv'
  BY <1>2, KeysStay DEF AllInv, RotationsStay
<1>5. StreamInv'
  <2>1. forks' # 0
    BY <1>1, <1>2 DEF ChainInv
  <2>2. QED
    BY <1>3, <2>1, StreamStays DEF AllInv
<1>6. ReadsInv'
  <2>1. keyRows' = keyRows /\ disordered' = disordered
    BY DEF keyVars
  <2>2. Len(chain) \in Nat /\ Len(chain') \in Nat /\ Len(chain) <= Len(chain')
    BY <1>1, <1>2, ChainLen
  <2>3. \A from \in Nat : \A key : Kept(key, from) => Kept(key, from)'
    BY <1>2, <2>1, <2>2, KeptOnChain
  <2>4. QED
    BY <1>2, <2>1, <2>3, ReadsStay DEF AllInv
<1>7. QED
  BY <1>3, <1>4, <1>5, <1>6 DEF AllInv

LEMMA PollsInv ==
    ASSUME AllInv, IndexStep, IInv'
    PROVE  AllInv'
<1>1. UNCHANGED <<chainVars, streamVars, keyVars, disclosureVars>>
  BY DEF IndexStep
<1>2. IndexInv' /\ (forks = 0 => events \subseteq events')
  <2>1. ASSUME NEW p \in Active, PollStep(p) PROVE IndexInv' /\ (forks = 0 => events \subseteq events')
    BY <1>1, <2>1, PollStepInv, RowsKept DEF AllInv
  <2>2. ASSUME NEW p \in Active, AbortPoll(p) PROVE IndexInv' /\ (forks = 0 => events \subseteq events')
    <3>1. events' = events
      BY <2>2 DEF AbortPoll, indexVars
    <3>2. IndexInv'
      BY <1>1, <2>2, AbortPollInv DEF AllInv
    <3>3. QED
      BY <3>1, <3>2
  <2>3. ASSUME NEW p \in NextPoller, NEW b \in Nat \ {0}, NEW backfill \in BOOLEAN,
               ~backfill => b = 1, \A c \in Contracts : b <= cursor[c].block + 1, BeginPoll(p, b, backfill)
        PROVE  IndexInv' /\ (forks = 0 => events \subseteq events')
    <3>1. events' = events
      BY <2>3 DEF BeginPoll, indexVars
    <3>2. p \in Pollers
      BY DEF NextPoller
    <3>3. IndexInv'
      BY <1>1, <2>3, <3>2, BeginPollInv DEF AllInv
    <3>4. QED
      BY <3>1, <3>3
  <2>4. ASSUME NEW p \in NextPoller, BeginPoll(p, 1, FALSE)
        PROVE  IndexInv' /\ (forks = 0 => events \subseteq events')
    <3>1. \A c \in Contracts : cursor[c].block \in Nat
      BY DEF AllInv, IndexInv, CursorInv, Cursors
    <3>2. 1 \in Nat \ {0} /\ FALSE \in BOOLEAN /\ \A c \in Contracts : 1 <= cursor[c].block + 1
      BY <3>1
    <3>3. QED
      BY <2>3, <2>4, <3>2
  <2>5. ASSUME NEW p \in NextPoller, NEW b \in 1 .. MaxBlocks, \A c \in Contracts : b <= cursor[c].block + 1,
               BeginPoll(p, b, TRUE)
        PROVE  IndexInv' /\ (forks = 0 => events \subseteq events')
    <3>1. b \in Nat \ {0} /\ TRUE \in BOOLEAN
      BY EventChainAssumption
    <3>2. QED
      BY <2>3, <2>5, <3>1
  <2>6. QED
    BY <2>1, <2>2, <2>4, <2>5 DEF IndexStep
<1>3. KeysInv'
  <2>1. RotationsStay
    BY <1>1 DEF RotationsStay, chainVars, Logs, LogsIn
  <2>2. QED
    BY <1>1, <2>1, KeysStay DEF AllInv
<1>4. StreamInv'
  <2>1. forks' = forks
    BY <1>1 DEF chainVars
  <2>2. forks = 0 => RowsAdded
    BY <1>1, <1>2, <2>1, IndexAdds DEF AllInv
  <2>3. QED
    BY <1>1, <1>2, <2>1, <2>2, StreamStays DEF AllInv
<1>5. ReadsInv'
  <2>1. \A e : Fits(e) => Fits(e)'
    BY <1>1 DEF chainVars, Fits
  <2>2. \A key, from : Kept(key, from)' <=> Kept(key, from)
    BY <1>1 DEF chainVars, keyVars, Kept, RangeIntersects, Never, Logs, LogsIn
  <2>3. ~disordered' => ~disordered
    BY <1>1 DEF keyVars
  <2>4. QED
    BY <1>1, <2>1, <2>2, <2>3, ReadsStay DEF AllInv
<1>6. QED
  BY <1>2, <1>3, <1>4, <1>5 DEF AllInv

\* Where the chain and the index stay as they are.
LEMMA StillInv ==
    ASSUME AllInv, UNCHANGED <<chainVars, indexerVars>>
    PROVE  /\ IndexInv'
           /\ UNCHANGED keyVars => KeysInv'
           /\ UNCHANGED streamVars => StreamInv'
           /\ UNCHANGED <<keyVars, disclosureVars>> => ReadsInv'
<1>1. IndexInv'
  BY IndexStays DEF AllInv
<1>2. ASSUME UNCHANGED keyVars PROVE KeysInv'
  <2>1. RotationsStay
    BY DEF RotationsStay, chainVars, Logs, LogsIn
  <2>2. QED
    BY <1>2, <2>1, KeysStay DEF AllInv
<1>3. ASSUME UNCHANGED streamVars PROVE StreamInv'
  <2>1. forks' = forks /\ RowsAdded
    BY DEF chainVars, indexerVars, indexVars, RowsAdded
  <2>2. QED
    BY <1>1, <1>3, <2>1, StreamStays DEF AllInv
<1>4. ASSUME UNCHANGED <<keyVars, disclosureVars>> PROVE ReadsInv'
  <2>1. \A e : Fits(e) => Fits(e)'
    BY DEF chainVars, Fits
  <2>2. \A key, from : Kept(key, from)' <=> Kept(key, from)
    BY <1>4 DEF chainVars, keyVars, Kept, RangeIntersects, Never, Logs, LogsIn
  <2>3. ~disordered' => ~disordered
    BY <1>4 DEF keyVars
  <2>4. QED
    BY <1>4, <2>1, <2>2, <2>3, ReadsStay DEF AllInv
<1>5. QED
  BY <1>1, <1>2, <1>3, <1>4

LEMMA SubscriberInv ==
    ASSUME AllInv, StreamStep, IInv', UNCHANGED <<chainVars, indexerVars, keyVars, disclosureVars>>
    PROVE  AllInv'
<1>1. StreamInv'
  BY OpenStreamInv, ReadNewRowsInv, SendNewRowsInv, FailTickInv DEF AllInv, StreamStep
<1>2. QED
  BY <1>1, StillInv DEF AllInv

LEMMA OperatorInv ==
    ASSUME AllInv, NEW r \in plan.rotations, RotationStep(r), IInv',
           UNCHANGED <<chainVars, indexerVars, streamVars, disclosureVars>>
    PROVE  AllInv'
<1>1. r \in Rotations /\ ChainInv
  BY PlansAssumption DEF AllInv, IInv, IndexInv
<1>2. KeysInv'
  BY <1>1, SendRotationInv, RecordRotationInv, LoseRotationInv DEF AllInv, RotationStep
<1>3. ReadsInv'
  BY <1>1, RotationReads DEF AllInv
<1>4. QED
  BY <1>2, <1>3, StillInv DEF AllInv

LEMMA ReaderInv ==
    ASSUME AllInv, NEW q \in plan.reads, SelectRows(q, plan.kinds, plan.starts) \/ ReadStep(q), IInv',
           UNCHANGED <<chainVars, indexerVars, streamVars, keyVars>>
    PROVE  AllInv'
<1>1. q \in Reads /\ plan.kinds \subseteq Kinds /\ plan.starts \subseteq Nat /\ ChainInv
  BY PlansAssumption DEF AllInv, IInv, IndexInv
<1>2. ReadsInv'
  BY <1>1, SelectRowsReads, ReadStepReads DEF AllInv
<1>3. QED
  BY <1>2, StillInv DEF AllInv

LEMMA AllNext == AllInv /\ [Next]_vars => AllInv'
<1> SUFFICES ASSUME AllInv, [Next]_vars PROVE AllInv'
  OBVIOUS
<1>1. IInv'
  BY NextInv DEF AllInv
<1>2. CASE UNCHANGED vars
  BY <1>1, <1>2, StillInv DEF AllInv, vars
<1>3. CASE MineBlock(plan.txs, rotations) /\ UNCHANGED <<indexerVars, streamVars, keyVars, disclosureVars>>
  BY <1>1, <1>3, MineInv
<1>4. ASSUME NEW k \in 0 .. MaxBlocks, ReorganiseUnder(k), UNCHANGED <<streamVars, keyVars, disclosureVars>>
      PROVE  AllInv'
  BY <1>1, <1>4, ForkInv
<1>5. CASE IndexStep
  BY <1>1, <1>5, PollsInv
<1>6. CASE StreamStep /\ UNCHANGED <<chainVars, indexerVars, keyVars, disclosureVars>>
  BY <1>1, <1>6, SubscriberInv
<1>7. ASSUME NEW r \in plan.rotations, RotationStep(r),
             UNCHANGED <<chainVars, indexerVars, streamVars, disclosureVars>>
      PROVE  AllInv'
  BY <1>1, <1>7, OperatorInv
<1>8. ASSUME NEW q \in plan.reads, SelectRows(q, plan.kinds, plan.starts) \/ ReadStep(q),
             UNCHANGED <<chainVars, indexerVars, streamVars, keyVars>>
      PROVE  AllInv'
  BY <1>1, <1>8, ReaderInv
<1>9. QED
  BY <1>2, <1>3, <1>4, <1>5, <1>6, <1>7, <1>8 DEF Next

LEMMA AllTyped == AllInv => TypeOK
<1> SUFFICES ASSUME AllInv PROVE TypeOK
  OBVIOUS
<1>1. IndexerTypeOK
  BY IndexTyped DEF AllInv
<1>2. streamCursor \in (0 .. MaxBlocks) \X (0 .. MaxLogs)
  <2>1. streamCursor \in Cells \cup {None} /\ MaxBlocks \in Nat /\ MaxLogs \in Nat
    BY EventChainAssumption DEF AllInv, StreamInv
  <2>2. QED
    BY <2>1 DEF Cells, None
<1>3. Range(sent) \subseteq (1 .. MaxBlocks) \X (1 .. MaxLogs)
  <2> DEFINE C == Cells
  <2> HIDE DEF C
  <2>1. sent \in Seq(C)
    BY DEF AllInv, StreamInv, C
  <2>2. Range(sent) \subseteq C
    BY <2>1 DEF Range
  <2>3. QED
    BY <2>2 DEF C, Cells
<1>4. {k.key : k \in keyRows} \subseteq Rotations /\ \A k, j \in keyRows : k.until = Never /\ j.until = Never => k = j
  BY DEF AllInv, KeysInv, KeyRow
<1>5. \A q \in Reads : /\ read[q].kind \in Kinds
                       /\ read[q].rows \subseteq
                              [tx : Transfers, pos : (1 .. MaxBlocks) \X (1 .. MaxLogs), fork : 0 .. forks]
  BY DEF AllInv, ReadsInv, RowsRead, Fits
<1>6. QED
  BY <1>1, <1>2, <1>3, <1>4, <1>5 DEF TypeOK

-----------------------------------------------------------------------------
(* However many windows the pollers scan, however long the chain, wherever *)
(* it is reorganised and whatever fails: a contract's rows up to a cursor  *)
(* whose hash is the chain's are exactly the chain's logs up to there, if  *)
(* no window was read off two chains, and polls ran side by side or        *)
(* backfills were cut short only where the chain stayed as it was.         *)
THEOREM IndexIsTrue == Spec => []IndexTrue
<1>1. Init => AllInv
  BY AllInit
<1>2. AllInv => IndexTrue
  BY AllTyped, IndexVouches DEF AllInv, IndexTrue
<1>3. QED
  BY <1>1, <1>2, AllNext, PTL DEF Spec

(* A subscriber of /activity/stream gets each of its events once, in the   *)
(* order of the chain and without a gap, for any page size, whatever the   *)
(* pollers and backfills write between its reads, unless the chain is      *)
(* reorganised.                                                            *)
THEOREM StreamIsFaithful == Spec => []StreamFaithful
<1>1. Init => AllInv
  BY AllInit
<1>2. AllInv => StreamFaithful
  BY StreamSaid DEF AllInv
<1>3. QED
  BY <1>1, <1>2, AllNext, PTL DEF Spec

(* Every indexed transfer is decrypted with findKeyForEvent's key and      *)
(* proved with its own reveal once the rotations before it are recorded in *)
(* their order, whatever number of rotations wait, are lost or follow; and *)
(* verifyDisclosure never says verified of another transfer's secret or    *)
(* another amount.                                                         *)
THEOREM TransfersAreVerifiable == Spec => []TransfersVerifiable
<1>1. Init => AllInv
  BY AllInit
<1>2. AllInv => TransfersVerifiable
  BY VerifiableInv DEF AllInv
<1>3. QED
  BY <1>1, <1>2, AllNext, PTL DEF Spec

(* A signed packet lists the key of each of its events, though rotations   *)
(* are mined and recorded between the two times it reads the keys: the     *)
(* range of a key that read an event cannot end before the block the       *)
(* packet starts from.                                                     *)
THEOREM PacketsAreSelfContained == Spec => []PacketSelfContained
<1>1. Init => AllInv
  BY AllInit
<1>2. AllInv => PacketSelfContained
  BY DEF AllInv, ReadsInv
<1>3. QED
  BY <1>1, <1>2, AllNext, PTL DEF Spec
=============================================================================
