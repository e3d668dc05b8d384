------------------------------ MODULE Indexer ------------------------------
(***************************************************************************)
(* The index of the token's and the registrar's events                     *)
(* (services/api/src/indexer).  Every poll scans each contract in windows  *)
(* of blocks from its cursor up to the last confirmed block and keeps the  *)
(* window's events and the cursor in one transaction.  The cursor holds    *)
(* the hash of its block: if the next block's parent is another one, a     *)
(* window is thrown away and scanned again.                                *)
(*                                                                         *)
(* A poll that outlives its minute goes on beside its retry, and an        *)
(* operator's backfill beside both.  A step ends where the code awaits.    *)
(***************************************************************************)
EXTENDS EventChain

CONSTANTS Pollers

Contracts == {"EncryptedERC", "Registrar"}

VARIABLES
    events,  \* the events table: its key is a transaction and a log index
    cursor,  \* chain_cursor
    poll,    \* what each poller does
    torn,    \* history: contracts of which a poll read two chains
    lapped   \* history: two polls ran at once, or a backfill did not run from
             \* the first block to the end

indexVars == <<events, cursor>>
pollVars == <<poll, torn, lapped>>
indexerVars == <<indexVars, pollVars>>

Idle == [at |-> "idle", contract |-> "EncryptedERC", cursor |-> [block |-> 0, fork |-> 0],
         start |-> 1, target |-> 0, replaces |-> FALSE, logs |-> {}, fork |-> 0]

IndexerTypeOK ==
    /\ \A e \in events : e.tx \in Txs /\ e.pos \in (1 .. MaxBlocks) \X (1 .. MaxLogs) /\ e.fork \in 0 .. forks
    /\ \A e, f \in events : e.tx = f.tx /\ e.pos[2] = f.pos[2] => e = f
    /\ cursor \in [Contracts -> [block : 0 .. MaxBlocks, fork : 0 .. forks]]
    /\ torn \subseteq Contracts

IndexerInit ==
    /\ events = {}
    /\ cursor = [c \in Contracts |-> [block |-> 0, fork |-> 0]]
    /\ poll = [p \in Pollers |-> Idle]
    /\ torn = {} /\ lapped = FALSE

Active == {p \in Pollers : poll[p].at # "idle"}
RowsOf(c, blocks) == {e \in events : ContractOf(e.tx) = c /\ e.pos[1] \in blocks}
WindowEnd(cur, target) == IF cur.block + WindowBlocks < target THEN cur.block + WindowBlocks ELSE target

\* Poller p, whose next step is at, goes on with some of its record changed.
Polls(p, at, new) == poll[p].at = at /\ poll' = [poll EXCEPT ![p] = new]

(* A poll of the schedule, or a backfill from a block.  It knows the last  *)
(* confirmed block; if that is before its start there is nothing to do.    *)
BeginPoll(p, start, backfill) ==
    /\ ConfirmedBlock >= start
    /\ Polls(p, "idle", [Idle EXCEPT !.at = "load", !.start = start, !.replaces = backfill,
                                     !.target = ConfirmedBlock])
    /\ lapped' = (lapped \/ Active # {} \/ start > 1)
    /\ UNCHANGED <<indexVars, torn>>

LoadCursor(p) ==
    LET start == poll[p].start
        loaded == IF poll[p].replaces THEN [block |-> start - 1, fork |-> ForkAt(start - 1)]
                  ELSE cursor[poll[p].contract]
    IN
    /\ Polls(p, "load", [poll[p] EXCEPT !.at = "check", !.cursor = loaded])
    /\ UNCHANGED <<indexVars, torn, lapped>>

\* Mutant: a poll ends with its first contract.
EndsEarly(p) ==
    /\ poll[p].cursor.block >= poll[p].target
    /\ Polls(p, "check", Idle)
    /\ UNCHANGED <<indexVars, torn, lapped>>

(* The next contract, if the target is reached.                            *)
NextContract(p) ==
    /\ poll[p].cursor.block >= poll[p].target
    /\ Polls(p, "check", IF poll[p].contract = "Registrar" THEN Idle
                         ELSE [poll[p] EXCEPT !.at = "load", !.contract = "Registrar"])
    /\ UNCHANGED <<indexVars, torn, lapped>>

boundaryNeedsRescan(cur) == ForkAt(cur.block) # cur.fork

CheckBoundary(p) ==
    /\ poll[p].cursor.block < poll[p].target
    /\ Polls(p, "check", [poll[p] EXCEPT !.at = IF boundaryNeedsRescan(poll[p].cursor) THEN "rewind"
                                                   ELSE "logs"])
    /\ UNCHANGED <<indexVars, torn, lapped>>

(* A window's logs and its last block are asked for at once: they may come *)
(* of two chains.                                                          *)
ReadLogs(p) ==
    LET cur == poll[p].cursor
        window == cur.block + 1 .. WindowEnd(cur, poll[p].target)
    IN
    /\ Polls(p, "logs", [poll[p] EXCEPT !.at = "tip",
                             !.logs = {l \in LogsIn(window) : ContractOf(l.tx) = poll[p].contract}])
    /\ UNCHANGED <<indexVars, torn, lapped>>

ReadTip(p) ==
    /\ Polls(p, "tip", [poll[p] EXCEPT !.at = "commit",
                            !.fork = ForkAt(WindowEnd(poll[p].cursor, poll[p].target))])
    /\ UNCHANGED <<indexVars, torn, lapped>>

\* A row of the same transaction and log index is overwritten.
Upsert(rows, logs) ==
    {e \in rows : \A l \in logs : <<l.tx, l.pos[2]>> # <<e.tx, e.pos[2]>>} \cup logs

CommitWindow(p) ==
    LET c == poll[p].contract
        to == WindowEnd(poll[p].cursor, poll[p].target)
        reached == [block |-> to, fork |-> poll[p].fork]
        replaced == IF poll[p].replaces THEN RowsOf(c, poll[p].cursor.block + 1 .. to) ELSE {}
    IN
    /\ Polls(p, "commit", [poll[p] EXCEPT !.at = "check", !.cursor = reached, !.logs = {}, !.fork = 0])
    /\ events' = Upsert(events \ replaced, poll[p].logs)
    /\ cursor' = [cursor EXCEPT ![c] = reached]
    /\ UNCHANGED <<torn, lapped>>

\* Mutant: only the cursor's own block is scanned again.
LastBlockOnly(p) == poll[p].cursor.block - 1

Rewound(p) ==
    LET first == poll[p].cursor.block - WindowBlocks + 1 IN
    IF first < poll[p].start THEN poll[p].start - 1 ELSE first - 1

ReadPrevious(p) ==
    /\ Polls(p, "rewind", [poll[p] EXCEPT !.at = "rewound", !.fork = ForkAt(Rewound(p))])
    /\ UNCHANGED <<indexVars, torn, lapped>>

CommitRewind(p) ==
    LET c == poll[p].contract
        reached == [block |-> Rewound(p), fork |-> poll[p].fork]
    IN
    /\ Polls(p, "rewound", [poll[p] EXCEPT !.at = "check", !.cursor = reached, !.fork = 0])
    /\ events' = events \ RowsOf(c, Rewound(p) + 1 .. poll[p].cursor.block)
    /\ cursor' = [cursor EXCEPT ![c] = reached]
    /\ UNCHANGED <<torn, lapped>>

(* An RPC or database error, or a crash.                                   *)
AbortPoll(p) ==
    /\ poll[p].at # "idle"
    /\ poll' = [poll EXCEPT ![p] = Idle]
    /\ lapped' = (lapped \/ poll[p].replaces)
    /\ UNCHANGED <<indexVars, torn>>

PollStep(p) ==
    \/ LoadCursor(p) \/ NextContract(p) \/ CheckBoundary(p)
    \/ ReadLogs(p) \/ ReadTip(p) \/ CommitWindow(p)
    \/ ReadPrevious(p) \/ CommitRewind(p)

(* The chain is reorganised while a window is read.                        *)
ReorganiseUnder(k) ==
    /\ Reorganise(k)
    /\ torn' = torn \cup {poll[p].contract : p \in {q \in Active : poll[q].at \in {"logs", "tip"}}}
    /\ UNCHANGED <<indexVars, poll, lapped>>

-----------------------------------------------------------------------------
(* A cursor whose hash is the chain's vouches for what was indexed up to   *)
(* it: no event of the chain is missing, none of an abandoned fork stayed. *)
(* This takes that no window was read off two chains, and that where the   *)
(* chain was reorganised no two polls ran at once and every backfill ran   *)
(* from the first block to the end.                                        *)
CursorVouches ==
    \A c \in Contracts \ torn :
        (lapped => forks = 0) /\ ForkAt(cursor[c].block) = cursor[c].fork =>
            RowsOf(c, 1 .. cursor[c].block) =
            {l \in LogsIn(1 .. cursor[c].block) : ContractOf(l.tx) = c}

(* Once the chain stands still, every contract is indexed up to the last   *)
(* confirmed block and stays so: no rewind repeats for ever, and no        *)
(* contract is left behind.                                                *)
CatchesUp == <>[](\A c \in Contracts : cursor[c].block = ConfirmedBlock)
=============================================================================
