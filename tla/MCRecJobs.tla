----------------------------- MODULE MCRecJobs -----------------------------
(* Instances of RecJobs for TLC: user 1 owns the artist, user 2 is an admin. *)
EXTENDS RecJobs

CONSTANTS w1, w2, c1, c2, a1

MCUser == {1}
MCUsers == {1, 2}
MCNobody == {}
MCAdmins == {2}
OneOwner == [u \in Users |-> IF u = 1 THEN a1 ELSE None]
=============================================================================
