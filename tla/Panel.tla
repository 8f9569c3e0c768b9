------------------------------- MODULE Panel -------------------------------
(***************************************************************************)
(* What the user of a tab sees of a recommendation job, whatever happens   *)
(* between the database and the browser: the tab waits for the job it      *)
(* asked for last, and shows a verdict only of that job, in answer to that *)
(* request and once the job is decided.  Notifications, sockets, reads and *)
(* their loss do not appear: JobEvents is the implementation.              *)
(***************************************************************************)
EXTENDS Naturals

CONSTANTS Tabs, Jobs

VARIABLES
    decided,  \* the jobs that have a verdict
    asked,    \* asked[t]: how often the tab has asked
    waiting,  \* waiting[t]: the job it waits for, 0 if none
    shown     \* shown[t]: job, request and outcome on the screen

vars == <<decided, asked, waiting, shown>>

Init ==
    /\ decided = {}
    /\ asked = [t \in Tabs |-> 0] /\ waiting = [t \in Tabs |-> 0]
    /\ shown = [t \in Tabs |-> [job |-> 0, request |-> 0, outcome |-> "loading"]]

Decide(j) ==
    /\ decided' = decided \cup {j}
    /\ UNCHANGED <<asked, waiting, shown>>

Ask(t, j) ==
    /\ asked' = [asked EXCEPT ![t] = @ + 1]
    /\ waiting' = [waiting EXCEPT ![t] = j]
    /\ shown' = [shown EXCEPT ![t] =
                    [job |-> j, request |-> asked[t] + 1, outcome |-> "loading"]]
    /\ UNCHANGED decided

\* The waiting ends, with the verdict or because the job cannot be read.
Settle(t) ==
    /\ waiting[t] # 0
    /\ \E outcome \in {"error"} \cup (IF waiting[t] \in decided THEN {"decided"} ELSE {}) :
          shown' = [shown EXCEPT ![t] =
                       [job |-> waiting[t], request |-> asked[t], outcome |-> outcome]]
    /\ waiting' = [waiting EXCEPT ![t] = 0]
    /\ UNCHANGED <<decided, asked>>

Next ==
    \/ \E j \in Jobs : Decide(j)
    \/ \E t \in Tabs : Settle(t) \/ \E j \in Jobs : Ask(t, j)

Spec == Init /\ [][Next]_vars
=============================================================================
