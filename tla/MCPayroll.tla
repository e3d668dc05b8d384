----------------------------- MODULE MCPayroll -----------------------------
(* Small instances of Payroll for TLC.                                     *)
EXTENDS Payroll

CONSTANTS i1, i2, i3, r1, r2, w1, w2

\* All items in one run, or i2 in another one that shares the treasury.
OneRun == [i \in Items |-> r1]
TwoRuns == [i \in Items |-> IF i = i2 THEN r2 ELSE r1]
=============================================================================
