---------------------------- MODULE MCAuditTrail ----------------------------
(* The plans of the bounded instance.                                      *)
EXTENDS AuditTrail

CONSTANTS t1, t2, g1, r1, r2, q1

Quiet == [txs |-> {}, blocks |-> 3, reorgs |-> 0, incidents |-> 0, overlap |-> FALSE,
          stream |-> FALSE, rotations |-> {}, reads |-> {}, kinds |-> {}, starts |-> {1}]

Reorganised == [Quiet EXCEPT !.txs = {t1, g1}, !.blocks = 4, !.reorgs = 1, !.incidents = 1]
Overlapping == [Quiet EXCEPT !.txs = {t1, t2}, !.overlap = TRUE, !.incidents = 1]
Streamed == [Quiet EXCEPT !.txs = {t1, t2, g1}, !.stream = TRUE, !.incidents = 1]
Rotated == [Quiet EXCEPT !.txs = {t1, t2}, !.rotations = {r1, r2}]
Read == [Quiet EXCEPT !.txs = {t1, t2}, !.rotations = {r1}, !.reads = {q1},
                      !.kinds = {"report", "export", "proof"}]
Packet == [Quiet EXCEPT !.txs = {t1}, !.rotations = {r1, r2}, !.reads = {q1},
                        !.kinds = {"packet"}, !.starts = {2}]

MCPlans == {Reorganised, Overlapping, Streamed, Rotated, Read, Packet}
=============================================================================
