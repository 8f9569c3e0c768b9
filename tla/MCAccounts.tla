------------------------------ MODULE MCAccounts ------------------------------
(* Two admins, two registrants, and an artist that was imported or is created. *)
EXTENDS Accounts, TLC

CONSTANTS root, second, u1, u2, a1

MCSymmetry == Permutations({root, second}) \cup Permutations({u1, u2})
=============================================================================
