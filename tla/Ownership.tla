----------------------------- MODULE Ownership -----------------------------
(***************************************************************************)
(* What the accounts promise about artists, one committed step at a time:  *)
(* an artist is taken by one user, who has no other; it is owned once the   *)
(* claim is confirmed; it passes on only after it was given back in a step  *)
(* of its own; and a profile disappears only together with an unconfirmed  *)
(* claim to it, and only if nothing refers to it.  Roles, administrators,   *)
(* statuses of accounts and authorisations do not appear: Accounts is the   *)
(* implementation.                                                         *)
(***************************************************************************)

CONSTANTS Users, Artists

VARIABLES
    holders,   \* holders[a]: the users that have or claim the artist
    owned,     \* the artists that an account is linked to
    referred,  \* the artists that something refers to
    gone       \* the artists whose profile was deleted

vars == <<holders, owned, referred, gone>>

Init ==
    /\ holders = [a \in Artists |-> {}]
    /\ owned = {} /\ referred = {} /\ gone = {}

\* A free artist is taken by a user who has none, and perhaps confirmed at once.
Take(u, a) ==
    /\ holders[a] = {} /\ a \notin gone
    /\ \A b \in Artists : u \notin holders[b]
    /\ holders' = [holders EXCEPT ![a] = {u}]
    /\ owned' \in {owned, owned \cup {a}}
    /\ UNCHANGED <<referred, gone>>

Confirm(a) ==
    /\ holders[a] # {}
    /\ owned' = owned \cup {a}
    /\ UNCHANGED <<holders, referred, gone>>

\* An unconfirmed claim ends, and the profile with it if nothing else needs it.
Withdraw(a) ==
    /\ holders[a] # {} /\ a \notin owned
    /\ holders' = [holders EXCEPT ![a] = {}]
    /\ gone' \in {gone} \cup {gone \cup {b} : b \in {a} \ referred}
    /\ UNCHANGED <<owned, referred>>

GiveBack(a) ==
    /\ a \in owned
    /\ holders' = [holders EXCEPT ![a] = {}]
    /\ owned' = owned \ {a}
    /\ UNCHANGED <<referred, gone>>

Refer(a) ==
    /\ a \notin gone
    /\ referred' = referred \cup {a}
    /\ UNCHANGED <<holders, owned, gone>>

Next ==
    \E a \in Artists :
        (\E u \in Users : Take(u, a)) \/ Confirm(a) \/ Withdraw(a) \/ GiveBack(a) \/ Refer(a)

Spec == Init /\ [][Next]_vars
=============================================================================
