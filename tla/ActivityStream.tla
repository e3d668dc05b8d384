--------------------------- MODULE ActivityStream ---------------------------
(***************************************************************************)
(* One subscriber of GET /activity/stream (services/api/src/routes/        *)
(* activity.ts): every five seconds the rows after the stream's cursor are *)
(* read, and sent in a later turn; a poll that is still running makes the  *)
(* timer skip its tick.  Every event of the model is the subscriber's.     *)
(***************************************************************************)
EXTENDS Indexer

CONSTANTS Ticks,  \* the polls that may run at once, were they not serialised
          PageSize  \* the query's limit

ASSUME StreamAssumption == PageSize \in Nat \ {0}

VARIABLES
    streaming,     \* whether the stream is open
    streamFrom,    \* where it started
    streamCursor,  \* the position it is at
    ticks,         \* the rows each running poll has read
    sent           \* the positions sent, in order

streamVars == <<streaming, streamFrom, streamCursor, ticks, sent>>

None == <<0, 0>>
NotRunning == <<None>>

StreamInit ==
    /\ streaming = FALSE /\ streamFrom = None /\ streamCursor = None
    /\ ticks = [t \in Ticks |-> NotRunning] /\ sent = <<>>

RowPositions == {e.pos : e \in events}
Latest == {p \in RowPositions : \A q \in RowPositions \ {p} : Before(q, p)}

(* Without a cursor of its own a subscriber starts after the latest row.   *)
OpenStream ==
    /\ ~streaming
    /\ streaming' = TRUE
    /\ \E from \in {None} \cup Latest : streamFrom' = from /\ streamCursor' = from
    /\ UNCHANGED <<ticks, sent>>

\* Mutant: the timer does not skip its tick.
EveryTick == TRUE

Serialised == \A t \in Ticks : ticks[t] = NotRunning

(* The first n of the rows after the cursor, in order, and all of them if  *)
(* they are fewer than the limit.                                          *)
IsPage(s, n) ==
    /\ \A i, j \in 1 .. n : i < j => Before(s[i], s[j])
    /\ \A p \in RowPositions : Before(streamCursor, p) =>
           \/ \E i \in 1 .. n : s[i] = p
           \/ n = PageSize /\ \A i \in 1 .. n : Before(s[i], p)

(* loadNewActivityRows                                                     *)
ReadNewRows(t) ==
    /\ streaming /\ ticks[t] = NotRunning /\ Serialised
    /\ \E n \in 0 .. PageSize :
       \E s \in [1 .. n -> {p \in RowPositions : Before(streamCursor, p)}] :
           IsPage(s, n) /\ ticks' = [ticks EXCEPT ![t] = s]
    /\ UNCHANGED <<streaming, streamFrom, streamCursor, sent>>

(* With their links read, the rows are sent and the cursor moves along.    *)
SendNewRows(t) ==
    /\ ticks[t] # NotRunning
    /\ sent' = sent \o ticks[t]
    /\ streamCursor' = IF ticks[t] = <<>> THEN streamCursor ELSE Last(ticks[t])
    /\ ticks' = [ticks EXCEPT ![t] = NotRunning]
    /\ UNCHANGED <<streaming, streamFrom>>

(* The links' query fails: nothing was sent, the next tick starts again.   *)
FailTick(t) ==
    /\ ticks[t] # NotRunning
    /\ ticks' = [ticks EXCEPT ![t] = NotRunning]
    /\ UNCHANGED <<streaming, streamFrom, streamCursor, sent>>

StreamStep ==
    \/ OpenStream
    \/ \E t \in Ticks : ReadNewRows(t) \/ SendNewRows(t) \/ FailTick(t)

-----------------------------------------------------------------------------
(* While the chain is not reorganised, a subscriber is sent every token    *)
(* event once and in the order of the chain: none between its start and    *)
(* its cursor is left out, whatever polls and backfills wrote meanwhile.   *)
StreamFaithful ==
    forks = 0 =>
        /\ \A i, j \in DOMAIN sent : i < j => Before(sent[i], sent[j])
        /\ \A e \in events :
               ContractOf(e.tx) = "EncryptedERC" /\ Before(streamFrom, e.pos)
                       /\ ~Before(streamCursor, e.pos) =>
                   \E i \in DOMAIN sent : sent[i] = e.pos
=============================================================================
