---------------------------- MODULE AuditorKeys ----------------------------
(***************************************************************************)
(* The auditor's keys (services/api/src/routes/admin.ts, admin/chain.ts,   *)
(* auditor/service.ts).  A rotation makes a key pair in memory, sends it   *)
(* to the token, waits for the receipt and only then writes the sealed     *)
(* key: the row in force is retired at the rotation's position in the      *)
(* chain, the new one starts there.  An event is read with the first key   *)
(* whose range covers it.                                                  *)
(***************************************************************************)
EXTENDS Indexer

VARIABLES
    rotations,  \* rotations sent, in the order of the operator's nonces
    rotating,   \* those whose request still waits
    keyRows,    \* auditor_keys: until is Never while the row is active
    disordered  \* history: a rotation was recorded after a later one

keyVars == <<rotations, rotating, keyRows, disordered>>

Never == <<MaxBlocks + 1, 0>>
RotationConfirmations == 2

KeysInit == rotations = <<>> /\ rotating = {} /\ keyRows = {} /\ disordered = FALSE

Sent(r) == \E i \in DOMAIN rotations : rotations[i] = r

SendRotation(r) ==
    /\ ~Sent(r)
    /\ rotations' = Append(rotations, r)
    /\ rotating' = rotating \cup {r}
    /\ UNCHANGED <<keyRows, disordered>>

(* The transaction of rotateAuditor's caller.                              *)
RecordRotation(r) ==
    LET at == PositionOf(r) IN
    /\ r \in rotating /\ InChain(r)
    /\ at[1] + RotationConfirmations - 1 <= Len(chain)
    /\ keyRows' = {IF k.until = Never THEN [k EXCEPT !.until = at] ELSE k : k \in keyRows}
                      \cup {[key |-> r, from |-> at, until |-> Never]}
    /\ disordered' = (disordered \/ \E k \in keyRows : Before(at, k.from))
    /\ rotating' = rotating \ {r}
    /\ UNCHANGED rotations

(* The wait times out, the database fails or the process dies: the private *)
(* key is gone.                                                            *)
LoseRotation(r) ==
    /\ r \in rotating
    /\ rotating' = rotating \ {r}
    /\ UNCHANGED <<rotations, keyRows, disordered>>

RotationStep(r) == SendRotation(r) \/ RecordRotation(r) \/ LoseRotation(r)

\* Mutant: a key covers the whole block it is retired in.
CoversBlocks(k, p) == ~Before(p, k.from) /\ (k.until = Never \/ p[1] <= k.until[1])

keyCoversEvent(k, p) == ~Before(p, k.from) /\ (k.until = Never \/ Before(p, k.until))

Covering(rows, p) == {k \in rows : keyCoversEvent(k, p)}
HasKey(rows, p) == Covering(rows, p) # {}
findKeyForEvent(rows, p) ==
    (CHOOSE k \in Covering(rows, p) : \A j \in Covering(rows, p) \ {k} : Before(k.from, j.from)).key

(* Decryption gives the amount under the key it was encrypted for, and     *)
(* fails under another.                                                    *)
Decrypts(rows, p) == HasKey(rows, p) /\ findKeyForEvent(rows, p) = KeyAt(p)

-----------------------------------------------------------------------------
(* A transfer that was indexed can be read by the auditor for as long as   *)
(* every rotation before it was recorded, in the order of the chain.       *)
AllRecorded(p) ==
    /\ RotationsBefore(p) # {} /\ ~disordered
    /\ \A r \in RotationsBefore(p) : \E k \in keyRows : k.key = r

AmountReadable ==
    \A e \in events : e.tx \in Transfers /\ AllRecorded(e.pos) => Decrypts(keyRows, e.pos)
=============================================================================
