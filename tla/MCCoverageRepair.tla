-------------------------- MODULE MCCoverageRepair --------------------------
(* Instances of CoverageRepair for TLC: a range over both dates and a range   *)
(* over the second date only, so that two runs repair the same date.          *)
EXTENDS CoverageRepair

CONSTANTS w1, w2, l1, l2

MCRanges == {<<1, 2>>, <<2, 2>>}

=============================================================================
