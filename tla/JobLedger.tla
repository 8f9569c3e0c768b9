----------------------------- MODULE JobLedger -----------------------------
(***************************************************************************)
(* What the queue of recommendation jobs promises to those who read the    *)
(* recommendation_jobs table, one committed step at a time: rows are        *)
(* published, claimed, given back and decided; at most one row per         *)
(* exclusive key is active; a decided row never changes; and the results   *)
(* of an exclusive key appear in the order of the inputs they reflect.     *)
(* Locks, sessions, workers and notifications do not appear: RecJobs is    *)
(* the implementation.                                                     *)
(***************************************************************************)
EXTENDS Naturals

CONSTANTS Jobs, Keys, Exclusive, None

VARIABLES
    status,     \* "none", "queued", "running", "completed" or "failed"
    key,        \* the request a published row answers, None before
    result      \* revision of the inputs behind a completed row, else None

vars == <<status, key, result>>

Active == {"queued", "running"}

Init ==
    /\ status = [j \in Jobs |-> "none"]
    /\ key = [j \in Jobs |-> None]
    /\ result = [j \in Jobs |-> None]

OneActive ==
    \A i, j \in Jobs :
        /\ status[i] \in Active /\ status[j] \in Active
        /\ key[i] = key[j] /\ key[i] \in Exclusive
        => i = j

\* One transaction publishes new rows and withdraws active ones, both or
\* neither, and leaves at most one active row per exclusive key.
Publish ==
    \E new \in SUBSET {j \in Jobs : status[j] = "none"},
       withdrawn \in SUBSET {j \in Jobs : status[j] \in Active} :
        /\ status' = [j \in Jobs |-> IF j \in new THEN "queued"
                                     ELSE IF j \in withdrawn THEN "failed"
                                     ELSE status[j]]
        /\ key' = [j \in Jobs |-> IF j \in new THEN key'[j] ELSE key[j]]
        /\ \A j \in new : key'[j] \in Keys
        /\ OneActive'
        /\ UNCHANGED result

Claim ==
    \E j \in Jobs :
        /\ status[j] = "queued"
        /\ status' = [status EXCEPT ![j] = "running"]
        /\ UNCHANGED <<key, result>>

\* Running rows whose claim lapsed go back to the queue.
GiveBack ==
    \E back \in SUBSET {j \in Jobs : status[j] = "running"} :
        /\ status' = [j \in Jobs |-> IF j \in back THEN "queued" ELSE status[j]]
        /\ UNCHANGED <<key, result>>

\* A result never reflects older inputs than a result its key already has.
InOrder(j, r) ==
    \A i \in Jobs :
        /\ status[i] = "completed"
        /\ key[i] = key[j] /\ key[j] \in Exclusive
        => result[i] <= r

Complete ==
    \E j \in Jobs :
        /\ status[j] = "running"
        /\ status' = [status EXCEPT ![j] = "completed"]
        /\ result' = [result EXCEPT ![j] = result'[j]]
        /\ result'[j] \in Nat /\ InOrder(j, result'[j])
        /\ UNCHANGED key

Fail ==
    \E j \in Jobs :
        /\ status[j] = "running"
        /\ status' = [status EXCEPT ![j] = "failed"]
        /\ UNCHANGED <<key, result>>

Next == Publish \/ Claim \/ GiveBack \/ Complete \/ Fail

Spec == Init /\ [][Next]_vars
=============================================================================
