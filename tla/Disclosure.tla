----------------------------- MODULE Disclosure -----------------------------
(***************************************************************************)
(* Whoever reads amounts (services/api/src/auditor/service.ts, disclosure/ *)
(* attest.ts): the auditor's reports, CSV exports and signed packets, and  *)
(* a party's proof of payment.  A read takes its rows, then the keys,      *)
(* decrypts row by row until one fails, logs what was decrypted in either  *)
(* case, and answers if all were.  An export also logs itself first; a     *)
(* packet reads the keys once more to list and to sign with them.          *)
(***************************************************************************)
EXTENDS AuditorKeys

CONSTANTS Reads

ASSUME DisclosureAssumption == Transfers \cap {"auth_key_mismatch", "decrypt_failed"} = {}

VARIABLES
    read,      \* where each request is
    logged,    \* audit_log: a request and an event, or a request's export
    decrypted, \* history: what each request decrypted
    dead,      \* history: requests that died or lost the database
    answers    \* what was answered: events with their keys, the keys listed

disclosureVars == <<read, logged, decrypted, dead, answers>>

Kinds == {"report", "export", "packet", "proof"}
Unread == [at |-> "new", kind |-> "report", from |-> 1, rows |-> {}, found |-> {}, keys |-> {}]

DisclosureInit ==
    /\ read = [q \in Reads |-> Unread]
    /\ logged = {} /\ decrypted = {} /\ dead = {} /\ answers = {}

Reading(q, at, new) == read[q].at = at /\ read' = [read EXCEPT ![q] = new]

(* The rows with an amount from a block on, or one of them.                *)
SelectRows(q, kinds, starts) ==
    LET amounts == {e \in events : e.tx \in Transfers} IN
    /\ \E kind \in kinds, from \in starts :
       \E rows \in IF kind = "proof" THEN {{e} : e \in amounts}
                   ELSE {{e \in amounts : e.pos[1] >= from}} :
           Reading(q, "new", [Unread EXCEPT !.at = IF rows = {} THEN "logged" ELSE "keys",
                                            !.kind = kind, !.from = from, !.rows = rows])
    /\ UNCHANGED <<logged, decrypted, dead, answers>>

\* An event with the key that read it.
ReadWith(rows, e) == [tx |-> e.tx, key |-> findKeyForEvent(rows, e.pos)]

(* The rows before the first that has no key, or the wrong one.  The event *)
(* list is read from the newest row, a report from the oldest.             *)
Decryptable(rows, newestFirst) ==
    {e \in rows : \A f \in rows :
        (f = e \/ (IF newestFirst THEN Before(e.pos, f.pos) ELSE Before(f.pos, e.pos)))
            => Decrypts(keyRows, f.pos)}

Decrypt(q) ==
    \E newestFirst \in IF read[q].kind = "report" THEN BOOLEAN ELSE {FALSE} :
        LET found == {ReadWith(keyRows, e) : e \in Decryptable(read[q].rows, newestFirst)} IN
        /\ Reading(q, "keys", [read[q] EXCEPT !.at = "flush", !.found = found])
        /\ decrypted' = decrypted \cup {<<q, e.tx>> : e \in found}
        /\ UNCHANGED <<logged, dead, answers>>

Complete(q) == Cardinality(read[q].found) = Cardinality(read[q].rows)

\* Mutant: what was decrypted before a failure is not logged.
LogIfComplete(q) == IF Complete(q) THEN {<<q, e.tx>> : e \in read[q].found} ELSE {}

(* The finally block of decryptRows.                                       *)
AuditRows(q) == {<<q, e.tx>> : e \in read[q].found}

FlushAuditRows(q) ==
    /\ Reading(q, "flush", [read[q] EXCEPT !.at = IF Complete(q) THEN "logged" ELSE "failed"])
    /\ logged' = logged \cup AuditRows(q)
    /\ UNCHANGED <<decrypted, dead, answers>>

(* auditorKeyRangeIntersects, for a range that is open to the right.       *)
RangeIntersects(k, from) == k.until = Never \/ k.until[1] >= from

\* Mutant: only the active key is listed.
ActiveOnly(rows, from) == {k.key : k \in {j \in rows : j.until = Never}}

PacketKeys(rows, from) == {k.key : k \in {j \in rows : RangeIntersects(j, from)}}

(* Without an active key no packet is signed.                              *)
ListKeys(q) ==
    /\ read[q].kind = "packet"
    /\ Reading(q, "logged", IF \E k \in keyRows : k.until = Never
                            THEN [read[q] EXCEPT !.at = "listed", !.keys = PacketKeys(keyRows, read[q].from)]
                            ELSE [read[q] EXCEPT !.at = "failed"])
    /\ UNCHANGED <<logged, decrypted, dead, answers>>

(* An export's own row.                                                    *)
LogExport(q) ==
    /\ \/ read[q].kind = "export" /\ Reading(q, "logged", [read[q] EXCEPT !.at = "exported"])
       \/ read[q].kind = "packet" /\ Reading(q, "listed", [read[q] EXCEPT !.at = "exported"])
    /\ logged' = logged \cup {<<q, "export">>}
    /\ UNCHANGED <<decrypted, dead, answers>>

Answer(q) ==
    /\ \/ read[q].kind \in {"report", "proof"} /\ Reading(q, "logged", [read[q] EXCEPT !.at = "answered"])
       \/ Reading(q, "exported", [read[q] EXCEPT !.at = "answered"])
    /\ answers' = answers \cup {[read |-> q, kind |-> read[q].kind, events |-> read[q].found,
                                 keys |-> read[q].keys]}
    /\ UNCHANGED <<logged, decrypted, dead>>

(* The database fails, or the process dies.                                *)
FailRead(q) ==
    /\ read[q].at \notin {"new", "failed", "answered"}
    /\ read' = [read EXCEPT ![q].at = "failed"]
    /\ dead' = dead \cup {q}
    /\ UNCHANGED <<logged, decrypted, answers>>

ReadStep(q) ==
    \/ Decrypt(q) \/ FlushAuditRows(q)
    \/ ListKeys(q) \/ LogExport(q) \/ Answer(q) \/ FailRead(q)

(* Self-disclosure (disclosure/verify.ts): whoever kept a transfer's        *)
(* randomness shows it with an amount, and the public half of the row's    *)
(* key recovers the amount.  The secret and the claim stand for the        *)
(* transfers they belong to.  Nothing is stored.                           *)
recoverDisclosedAmount(e, secret, key) ==
    IF secret # e.tx THEN "auth_key_mismatch"
    ELSE IF key # KeyAt(e.pos) THEN "decrypt_failed"
    ELSE e.tx

verifyDisclosure(tx, index, secret, claim) ==
    LET rows == {e \in events : e.tx = tx /\ e.pos[2] = index}
        e == CHOOSE e \in rows : TRUE
        amount == recoverDisclosedAmount(e, secret, findKeyForEvent(keyRows, e.pos)) IN
    CASE rows = {} -> "event_not_found"
      [] rows # {} /\ tx \notin Transfers -> "event_not_encrypted"
      [] rows # {} /\ tx \in Transfers /\ ~HasKey(keyRows, e.pos) -> "auditor_key_missing"
      [] OTHER -> IF amount \in {"auth_key_mismatch", "decrypt_failed"} THEN amount
                  ELSE IF amount # claim THEN "amount_mismatch" ELSE "verified"

-----------------------------------------------------------------------------
(* An indexed transfer can be read and proved by its payer's own reveal    *)
(* while every rotation before it was recorded in order; and whatever was  *)
(* recorded, nobody proves a transfer by another one's secret, or another  *)
(* amount by its own.                                                      *)
TransfersVerifiable ==
    /\ AmountReadable
    /\ \A e \in events : e.tx \in Transfers /\ AllRecorded(e.pos) =>
          verifyDisclosure(e.tx, e.pos[2], e.tx, e.tx) = "verified"
    /\ \A tx, secret, claim \in Transfers, index \in 1 .. MaxLogs :
          verifyDisclosure(tx, index, secret, claim) = "verified" => secret = tx /\ claim = tx

(* Every decryption is logged: no answer holds an amount that the log does *)
(* not name, and what a failed read decrypted is logged too, unless the    *)
(* process or the database failed.  An export that was handed out is       *)
(* logged as one.                                                          *)
DecryptionsLogged ==
    /\ \A a \in answers :
           /\ \A e \in a.events : <<a.read, e.tx>> \in logged
           /\ a.kind \in {"export", "packet"} => <<a.read, "export">> \in logged
    /\ \A d \in decrypted \ logged : d[1] \in dead \/ read[d[1]].at = "flush"

(* A signed packet can be checked on its own: it lists the key of each of  *)
(* its events, though the keys are read twice and rotated meanwhile.  Two  *)
(* rotations recorded in the other order break this: the later key's row   *)
(* then ends before it begins.                                             *)
PacketSelfContained ==
    ~disordered => \A a \in answers : a.kind = "packet" => \A e \in a.events : e.key \in a.keys
=============================================================================
