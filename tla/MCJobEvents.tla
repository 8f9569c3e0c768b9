---------------------------- MODULE MCJobEvents ----------------------------
(* One tab, whose older connections stand for the user's other sessions too. *)
EXTENDS JobEvents

CONSTANTS t1
MCTabs == {t1}
=============================================================================
