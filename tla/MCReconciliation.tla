-------------------------- MODULE MCReconciliation --------------------------
(* Instances of Reconciliation for TLC: dates 1, 2 and 3, today is 2. *)
EXTENDS Reconciliation

CONSTANTS w1, d1

GapOnly     == [min |-> 1, max |-> 2, all |-> FALSE]
LongGapOnly == [min |-> 1, max |-> 3, all |-> FALSE]
FromThree   == [min |-> 3, max |-> AutoDate, all |-> TRUE]
MCNoRequest == {}
MCAuto      == {FromThree}
=============================================================================
