------------------------------ MODULE RecJobs ------------------------------
(***************************************************************************)
(* The durable queue of recommendation jobs: the recommendation_jobs table *)
(* of PostgreSQL, the HTTP handlers and the scheduler that insert into it, *)
(* the worker processes that claim, compute and finish rows, and the       *)
(* LISTEN/NOTIFY channel that wakes the workers.                           *)
(*                                                                         *)
(* The database runs READ COMMITTED: status, started, result, born and key *)
(* are the committed rows, lock[j] is the session whose open transaction   *)
(* holds row j.  What that transaction did to the row follows from the     *)
(* row and the holder: a locked row with status "none" is an uncommitted   *)
(* INSERT, a locked active row held by a worker that is claiming will      *)
(* become running, one held by a worker that refreshes a biography will    *)
(* become failed.                                                          *)
(***************************************************************************)
EXTENDS Naturals

CONSTANTS
    Workers,        \* replicas of the recommendation-worker service
    Clients,        \* sessions of API requests and of the one-shot scheduler
    Users,          \* users.id, compared by the scheduler's ORDER BY
    Admins,         \* the users with role admin
    Artists,
    Owns,           \* users.artist_id of the artist accounts, None otherwise
    Params,         \* request parameters, identified by their params_hash
    DefaultParams,
    None,
    MaxJobs,        \* bound: rows the table can hold
    MaxRequests,    \* bound: requests that arrive
    Operations,     \* bound: kinds of requests that arrive
    MaxFaults       \* bound: crashes, lost connections and failed writes

Sessions == Workers \cup Clients
Jobs     == 1..MaxJobs

PromoterKey(u, a, p) ==
    [kind |-> "artist_promoters", user |-> u, artist |-> a, params |-> p]
DefaultKey(u, a) == PromoterKey(u, a, DefaultParams)
BioKey(u, a) ==
    [kind |-> "artist_bio_refresh", user |-> u, artist |-> a,
     params |-> DefaultParams]

Keys == [kind : {"artist_promoters", "artist_bio_refresh"},
         user : Users, artist : Artists, params : Params]

ASSUME RecJobsAssumption ==
    /\ MaxJobs \in Nat /\ MaxRequests \in Nat /\ MaxFaults \in Nat
    /\ Operations \subseteq {"post", "change", "feedback", "biography", "schedule"}
    /\ Users \subseteq Nat
    /\ Admins \subseteq Users
    /\ Owns \in [Users -> Artists \cup {None}]
    /\ DefaultParams \in Params
    /\ Workers \cap Clients = {}
    /\ None \notin Workers \cup Clients \cup Artists \cup Nat \cup Keys

IsPromoter(k) == k.kind = "artist_promoters"

\* require_artist_access: an admin may act on any artist, an artist on its own.
MayAccess(u, a) == u \in Admins \/ Owns[u] = a

\* enqueue_user_artist_promoter_recommendation_job: only an artist account's own
\* artist gets a job.
OwnDefaultKey(u, a) == IF Owns[u] = a THEN {DefaultKey(u, a)} ELSE {}

Active   == {"queued", "running"}
Terminal == {"completed", "failed"}

VARIABLES
    status,     \* recommendation_jobs.status, "none" before the row exists
    key,        \* job_type, user_id, artist_id and params_hash of the row
    born,       \* created_at: the start of the inserting transaction
    started,    \* started_at: None, within or beyond the reclaim window
    result,     \* result_json: the revision of the inputs it was computed from,
                \* 0 for a biography refresh
    lock,       \* the session whose open transaction holds the row
    rev,        \* revision of the committed inputs of an artist's promoters
    pc,         \* where a worker stands in run_worker / _run_job
    job,        \* the row a worker has claimed
    seen,       \* the revision a worker's computation read
    lapsed,     \* history: the worker's claim was requeued under it
    listening,  \* the worker's LISTEN connection is alive
    inbox,      \* job-created notifications it has not consumed
    txpc,       \* where a session stands in create_recommendation_job
    todo,       \* keys the open transaction has still to enqueue
    change,     \* artist whose inputs the open transaction modifies
    stamp,      \* CURRENT_TIMESTAMP of the open transaction
    tries,      \* failed INSERT attempts for the current key
    sent,       \* requests so far
    faults      \* faults so far

rows   == <<status, key, born, started, result, lock>>
work   == <<pc, job, seen, lapsed>>
notify == <<listening, inbox>>
txn    == <<txpc, todo, change, tries, stamp>>
budget == <<sent, faults>>
vars   == <<rows, rev, work, notify, txn, budget>>

WorkerPCs == {"down", "requeue", "select", "claim", "compute",
              "fetch", "tags", "embed", "enqueue", "complete", "fail", "wait"}
TxPCs     == {"idle", "find", "insert", "refind", "commit", "error"}

TypeOK ==
    /\ status \in [Jobs -> {"none"} \cup Active \cup Terminal]
    /\ key \in [Jobs -> Keys \cup {None}]
    /\ born \in [Jobs -> Nat]
    /\ started \in [Jobs -> {None, "recent", "old"}]
    /\ result \in [Jobs -> Nat \cup {None}]
    /\ lock \in [Jobs -> Sessions \cup {None}]
    /\ rev \in [Artists -> Nat]
    /\ pc \in [Workers -> WorkerPCs]
    /\ job \in [Workers -> Jobs \cup {None}]
    /\ seen \in [Workers -> Nat \cup {None}]
    /\ lapsed \in [Workers -> BOOLEAN]
    /\ listening \in [Workers -> BOOLEAN]
    /\ inbox \in [Workers -> SUBSET Jobs]
    /\ txpc \in [Sessions -> TxPCs]
    /\ todo \in [Sessions -> SUBSET Keys]
    /\ change \in [Sessions -> Artists \cup {None}]
    /\ tries \in [Sessions -> 0..1]
    /\ stamp \in [Sessions -> Nat]
    /\ sent \in 0..MaxRequests
    /\ faults \in 0..MaxFaults

Init ==
    /\ status = [j \in Jobs |-> "none"]
    /\ key = [j \in Jobs |-> None]
    /\ born = [j \in Jobs |-> 0]
    /\ started = [j \in Jobs |-> None]
    /\ result = [j \in Jobs |-> None]
    /\ lock = [j \in Jobs |-> None]
    /\ rev = [a \in Artists |-> 1]
    /\ pc = [w \in Workers |-> "down"]
    /\ job = [w \in Workers |-> None]
    /\ seen = [w \in Workers |-> None]
    /\ lapsed = [w \in Workers |-> FALSE]
    /\ listening = [w \in Workers |-> FALSE]
    /\ inbox = [w \in Workers |-> {}]
    /\ txpc = [s \in Sessions |-> "idle"]
    /\ todo = [s \in Sessions |-> {}]
    /\ change = [s \in Sessions |-> None]
    /\ tries = [s \in Sessions |-> 0]
    /\ stamp = [s \in Sessions |-> 0]
    /\ sent = 0
    /\ faults = 0

----------------------------------------------------------------------------
(* Transactions *)

\* The row as session s sees it: a row the session itself invalidated in its
\* open transaction no longer counts as active.
SeesActive(s, k) ==
    \E j \in Jobs : key[j] = k /\ status[j] \in Active /\ lock[j] # s

\* Mutant: only committed rows are waited for.
InDoubtCommitted(s, k) ==
    \E j \in Jobs : /\ key[j] = k /\ status[j] \in Active
                    /\ lock[j] \notin {None, s}

\* The unique index waits for another transaction whose uncommitted INSERT or
\* UPDATE decides whether key k is taken.
InDoubt(s, k) ==
    \E j \in Jobs : /\ key[j] = k
                    /\ status[j] \in Active \cup {"none"}
                    /\ lock[j] \notin {None, s}

Free(j) == key[j] = None

\* The transaction of session s starts now, later than any that is remembered.
StartTransaction(s) ==
    LET past == {0} \cup {born[j] : j \in Jobs}
                    \cup {stamp[x] : x \in Sessions \ {s}} IN
    \E now \in {t + 1 : t \in past} :
        /\ \A t \in past : t < now
        /\ stamp' = [stamp EXCEPT ![s] = now]

\* The inputs of artist a change.  Revisions nobody has read are not told apart.
WasRead(a) ==
    \/ \E w \in Workers : seen[w] = rev[a]
    \/ \E j \in Jobs : result[j] = rev[a]

Revise(a) ==
    rev' = [b \in Artists |-> IF b = a /\ WasRead(a) THEN rev[b] + 1 ELSE rev[b]]

\* COMMIT of session s: its inserts become queued rows and are announced to
\* every listening worker, the rows it invalidated become failed.
Inserted(s) == {j \in Jobs : lock[j] = s /\ status[j] = "none"}

\* Mutant: no NOTIFY.
CommitRowsSilently(s) ==
    /\ status' = [j \in Jobs |->
                    IF lock[j] # s THEN status[j]
                    ELSE IF status[j] = "none" THEN "queued" ELSE "failed"]
    /\ lock' = [j \in Jobs |-> IF lock[j] = s THEN None ELSE lock[j]]
    /\ UNCHANGED inbox

CommitRows(s) ==
    /\ status' = [j \in Jobs |->
                    IF lock[j] # s THEN status[j]
                    ELSE IF status[j] = "none" THEN "queued" ELSE "failed"]
    /\ lock' = [j \in Jobs |-> IF lock[j] = s THEN None ELSE lock[j]]
    /\ inbox' = [w \in Workers |->
                    IF listening[w] THEN inbox[w] \cup Inserted(s) ELSE inbox[w]]

\* ROLLBACK of session s: its inserts vanish, its locks are released.
RollbackRows(s) ==
    /\ key' = [j \in Jobs |-> IF j \in Inserted(s) THEN None ELSE key[j]]
    /\ lock' = [j \in Jobs |-> IF lock[j] = s THEN None ELSE lock[j]]

CloseTransaction(s) ==
    /\ txpc' = [txpc EXCEPT ![s] = "idle"]
    /\ todo' = [todo EXCEPT ![s] = {}]
    /\ change' = [change EXCEPT ![s] = None]
    /\ tries' = [tries EXCEPT ![s] = 0]
    /\ stamp' = [stamp EXCEPT ![s] = 0]

\* The next key to enqueue; the scheduler walks its targets by user id.
IsNext(s, k) ==
    /\ k \in todo[s]
    /\ \A other \in todo[s] : k.user <= other.user

NextPc(K) == IF K = {} THEN "commit" ELSE "find"

Enqueued(s, k) ==
    /\ todo' = [todo EXCEPT ![s] = @ \ {k}]
    /\ tries' = [tries EXCEPT ![s] = 0]
    /\ txpc' = [txpc EXCEPT ![s] = NextPc(todo[s] \ {k})]

\* _find_active_recommendation_job at the head of create_recommendation_job;
\* _create_job, which stores biography jobs, looks for nothing.
FindActive(s) ==
    /\ txpc[s] = "find"
    /\ \/ \E k \in Keys :
            /\ IsNext(s, k) /\ IsPromoter(k) /\ SeesActive(s, k)
            /\ Enqueued(s, k)
       \/ \E k \in Keys :
            /\ IsNext(s, k) /\ ~(IsPromoter(k) /\ SeesActive(s, k))
            /\ txpc' = [txpc EXCEPT ![s] = "insert"]
            /\ UNCHANGED <<todo, tries>>
    /\ UNCHANGED <<rows, rev, work, notify, change, stamp, budget>>

\* Mutant: the partial unique index is missing.
InsertUnchecked(s) ==
    /\ txpc[s] = "insert"
    /\ \E k \in Keys, j \in Jobs :
         /\ IsNext(s, k)
         /\ Free(j) /\ \A i \in Jobs : Free(i) => j <= i
         /\ key' = [key EXCEPT ![j] = k]
         /\ lock' = [lock EXCEPT ![j] = s]
         /\ born' = [born EXCEPT ![j] = stamp[s]]
         /\ Enqueued(s, k)
    /\ UNCHANGED <<status, started, result, rev, work, notify, change, stamp,
                   budget>>

\* The savepointed INSERT succeeds: no other row holds the key.
InsertJob(s) ==
    /\ txpc[s] = "insert"
    /\ \E k \in Keys, j \in Jobs :
         /\ IsNext(s, k)
         /\ IsPromoter(k) => ~InDoubt(s, k) /\ ~SeesActive(s, k)
         /\ Free(j) /\ \A i \in Jobs : Free(i) => j <= i
         /\ key' = [key EXCEPT ![j] = k]
         /\ lock' = [lock EXCEPT ![j] = s]
         /\ born' = [born EXCEPT ![j] = stamp[s]]
         /\ Enqueued(s, k)
    /\ UNCHANGED <<status, started, result, rev, work, notify, change, stamp,
                   budget>>

\* UniqueViolation: a committed active row holds the key.
InsertViolates(s) ==
    /\ txpc[s] = "insert"
    /\ \E k \in Keys :
         /\ IsNext(s, k) /\ IsPromoter(k)
         /\ ~InDoubt(s, k) /\ SeesActive(s, k)
    /\ txpc' = [txpc EXCEPT ![s] = "refind"]
    /\ UNCHANGED <<rows, rev, work, notify, todo, change, tries, stamp,
                   budget>>

\* The lookup after a UniqueViolation: reuse the row, or try the INSERT once
\* more, or give up with RuntimeError after the second violation.
RefindActive(s) ==
    /\ txpc[s] = "refind"
    /\ \E k \in Keys :
         /\ IsNext(s, k)
         /\ \/ SeesActive(s, k) /\ Enqueued(s, k)
            \/ /\ ~SeesActive(s, k) /\ tries[s] = 0
               /\ tries' = [tries EXCEPT ![s] = 1]
               /\ txpc' = [txpc EXCEPT ![s] = "insert"]
               /\ UNCHANGED todo
            \/ /\ ~SeesActive(s, k) /\ tries[s] = 1
               /\ txpc' = [txpc EXCEPT ![s] = "error"]
               /\ UNCHANGED <<todo, tries>>
    /\ UNCHANGED <<rows, rev, work, notify, change, stamp, budget>>

\* Bound: with all MaxJobs rows in use the INSERT raises a database error.
InsertFails(s) ==
    /\ txpc[s] = "insert"
    /\ \A j \in Jobs : ~Free(j)
    /\ txpc' = [txpc EXCEPT ![s] = "error"]
    /\ UNCHANGED <<rows, rev, work, notify, todo, change, tries, stamp,
                   budget>>

Enqueue(s) == FindActive(s) \/ InsertJob(s) \/ InsertViolates(s)
                \/ RefindActive(s) \/ InsertFails(s)

----------------------------------------------------------------------------
(* Requests and the scheduler: one transaction each *)

Begin(c, operation, K, a) ==
    /\ operation \in Operations
    /\ sent < MaxRequests
    /\ sent' = sent + 1
    /\ txpc[c] = "idle"
    /\ StartTransaction(c)
    /\ txpc' = [txpc EXCEPT ![c] = NextPc(K)]
    /\ todo' = [todo EXCEPT ![c] = K]
    /\ change' = [change EXCEPT ![c] = a]
    /\ UNCHANGED <<rows, rev, work, notify, tries, faults>>

\* POST .../promoters/jobs
PostJob(c) ==
    \E u \in Users, a \in Artists, p \in Params :
        MayAccess(u, a) /\ Begin(c, "post", {PromoterKey(u, a, p)}, None)

\* A known artist is added or deleted; only the artist's own account enqueues.
ChangeConnections(c) ==
    \E u \in Users, a \in Artists :
        /\ MayAccess(u, a)
        /\ Begin(c, "change", OwnDefaultKey(u, a), a)

\* Any account gives or withdraws feedback on a promoter proposed for an artist.
GiveFeedback(c) ==
    \E u \in Users, a \in Artists :
        Begin(c, "feedback", OwnDefaultKey(u, a), a)

\* PATCH /artists/{id}/biography
EditBiography(c) ==
    \E u \in Users, a \in Artists :
        MayAccess(u, a) /\ Begin(c, "biography", {BioKey(u, a)}, None)

\* Which artist accounts are eligible depends on data that is not modelled.
RunScheduler(c) ==
    \E eligible \in SUBSET {u \in Users : Owns[u] # None} :
        Begin(c, "schedule", {DefaultKey(u, Owns[u]) : u \in eligible}, None)

CommitRequest(c) ==
    /\ txpc[c] = "commit"
    /\ CommitRows(c)
    /\ Revise(change[c])
    /\ CloseTransaction(c)
    /\ UNCHANGED <<key, born, started, result, work, listening, budget>>

\* The handler raised: RuntimeError of create_recommendation_job or a failed
\* INSERT.  The change of the inputs is rolled back with the job.
AbortRequest(c) ==
    /\ txpc[c] = "error"
    /\ RollbackRows(c)
    /\ CloseTransaction(c)
    /\ UNCHANGED <<status, born, started, result, rev, work, notify, budget>>

\* The backend process dies inside a request.
LoseRequest(c) ==
    /\ txpc[c] # "idle"
    /\ faults < MaxFaults
    /\ faults' = faults + 1 /\ UNCHANGED sent
    /\ RollbackRows(c)
    /\ CloseTransaction(c)
    /\ UNCHANGED <<status, born, started, result, rev, work, notify>>

----------------------------------------------------------------------------
(* The worker loop *)

Goto(w, l) == pc' = [pc EXCEPT ![w] = l]

\* Nothing of the claimed job outlives its execution.
Drop(w) == /\ job' = [job EXCEPT ![w] = None]
           /\ seen' = [seen EXCEPT ![w] = None]
           /\ lapsed' = [lapsed EXCEPT ![w] = FALSE]

\* A fresh LISTEN connection hears what is committed from now on.
Connect(w) ==
    /\ pc[w] = "down"
    /\ listening' = [listening EXCEPT ![w] = TRUE]
    /\ Goto(w, "requeue")
    /\ UNCHANGED <<rows, rev, job, seen, lapsed, inbox, txn, budget>>

Executing(w) == pc[w] \in {"compute", "fetch", "tags", "embed", "enqueue",
                           "complete", "fail"}

\* requeue_stale_running_jobs: one UPDATE, which waits for rows that other
\* transactions hold.  The multi-row UPDATE is one step.
Stale == {j \in Jobs : status[j] = "running" /\ started[j] = "old"}

RequeueStale ==
    /\ \A j \in Stale : lock[j] = None
    /\ status' = [j \in Jobs |-> IF j \in Stale THEN "queued" ELSE status[j]]
    /\ started' = [j \in Jobs |-> IF j \in Stale THEN None ELSE started[j]]
    /\ result' = [j \in Jobs |-> IF j \in Stale THEN None ELSE result[j]]
    /\ lapsed' = [x \in Workers |->
                    lapsed[x] \/ (Executing(x) /\ job[x] \in Stale)]
    /\ UNCHANGED <<key, born, lock, rev, job, seen, listening, txn, budget>>

\* Mutant: the worker goes to sleep after LISTEN without draining the queue.
RecoverAsleep(w) ==
    /\ pc[w] = "requeue"
    /\ RequeueStale
    /\ Goto(w, "wait")
    /\ UNCHANGED inbox

\* After LISTEN the worker recovers the rows a crashed worker left behind.
Recover(w) ==
    /\ pc[w] = "requeue"
    /\ RequeueStale
    /\ Goto(w, "select")
    /\ UNCHANGED inbox

\* A job-created notification ends the wait; the loop re-queues and drains.
Wake(w) ==
    /\ pc[w] = "wait"
    /\ \E j \in inbox[w] : inbox' = [inbox EXCEPT ![w] = @ \ {j}]
    /\ RequeueStale
    /\ Goto(w, "select")

\* SELECT ... WHERE status = 'queued' ORDER BY created_at FOR UPDATE SKIP
\* LOCKED LIMIT 1: rows held by other transactions are passed over.
\* Mutant: without FOR UPDATE SKIP LOCKED.
ClaimableUnlocked == {j \in Jobs : status[j] = "queued"}

Claimable == {j \in Jobs : status[j] = "queued" /\ lock[j] = None}

SelectJob(w) ==
    /\ pc[w] = "select"
    /\ \E j \in Claimable :
         /\ \A i \in Claimable : born[j] <= born[i]
         /\ lock' = [lock EXCEPT ![j] = w]
         /\ job' = [job EXCEPT ![w] = j]
    /\ Goto(w, "claim")
    /\ UNCHANGED <<status, key, born, started, result, rev, seen, lapsed,
                   notify, txn, budget>>

SelectNothing(w) ==
    /\ pc[w] = "select"
    /\ Claimable = {}
    /\ Goto(w, "wait")
    /\ UNCHANGED <<rows, rev, job, seen, lapsed, notify, txn, budget>>

\* The UPDATE of claim_next_recommendation_job and its COMMIT.
ClaimJob(w) ==
    /\ pc[w] = "claim"
    /\ LET j == job[w] IN
         /\ status' = [status EXCEPT ![j] = "running"]
         /\ started' = [started EXCEPT ![j] = IF @ = None THEN "recent" ELSE @]
         /\ lock' = [lock EXCEPT ![j] = None]
         /\ Goto(w, IF IsPromoter(key[j]) THEN "compute" ELSE "fetch")
    /\ lapsed' = [lapsed EXCEPT ![w] = FALSE]
    /\ UNCHANGED <<key, born, result, rev, job, seen, notify, txn, budget>>

\* The loop notices that its LISTEN connection is gone and starts again.
Reconnect(w) ==
    /\ pc[w] = "wait" /\ ~listening[w]
    /\ Goto(w, "down")
    /\ UNCHANGED <<rows, rev, job, seen, lapsed, notify, txn, budget>>

----------------------------------------------------------------------------
(* Executing a claimed job *)

\* build_artist_promoter_recommendation_response.  Its queries are one read,
\* stamped with the oldest revision any of them saw.
Compute(w) ==
    /\ pc[w] = "compute"
    /\ seen' = [seen EXCEPT ![w] = rev[key[job[w]].artist]]
    /\ Goto(w, "complete")
    /\ UNCHANGED <<rows, rev, job, lapsed, notify, txn, budget>>

ComputeFails(w) ==
    /\ pc[w] = "compute"
    /\ Goto(w, "fail")
    /\ UNCHANGED <<rows, rev, job, seen, lapsed, notify, txn, budget>>

\* refresh_artist_derived_data opens its transaction by reading the biography
\* and invalidates the artist's active promoter jobs under a savepoint: the
\* rows stay locked, and unchanged for everybody else, until a COMMIT.
Invalidated(a) ==
    {j \in Jobs : /\ status[j] \in Active
                  /\ IsPromoter(key[j]) /\ key[j].artist = a}

FetchAndInvalidate(w) ==
    /\ pc[w] = "fetch"
    /\ LET stale == Invalidated(key[job[w]].artist) IN
         /\ \A j \in stale : lock[j] = None
         /\ lock' = [j \in Jobs |-> IF j \in stale THEN w ELSE lock[j]]
    /\ seen' = [seen EXCEPT ![w] = 0]
    /\ StartTransaction(w)
    /\ Goto(w, "tags")
    /\ UNCHANGED <<status, key, born, started, result, rev, job, lapsed, notify,
                   txpc, todo, change, tries, budget>>

\* The artist's tags, then its embedding, are either current already or are
\* rebuilt and committed; the commit also publishes the invalidation, and the
\* next statement starts a new transaction.
DerivedDataCurrent(w) ==
    UNCHANGED <<rows, rev, job, seen, lapsed, notify, change, tries, stamp,
                budget>>

DerivedDataRebuilt(w) ==
    /\ CommitRows(w)
    /\ Revise(key[job[w]].artist)
    /\ StartTransaction(w)
    /\ UNCHANGED <<key, born, started, result, job, seen, lapsed, listening,
                   change, tries, budget>>

RefreshTags(w) ==
    /\ pc[w] = "tags"
    /\ DerivedDataCurrent(w) \/ DerivedDataRebuilt(w)
    /\ Goto(w, "embed")
    /\ UNCHANGED <<txpc, todo>>

\* After the embedding _run_job calls
\* enqueue_user_artist_promoter_recommendation_job on the same connection.
RefreshEmbedding(w) ==
    /\ pc[w] = "embed"
    /\ DerivedDataCurrent(w) \/ DerivedDataRebuilt(w)
    /\ Goto(w, "enqueue")
    /\ LET K == OwnDefaultKey(key[job[w]].user, key[job[w]].artist) IN
         /\ todo' = [todo EXCEPT ![w] = K]
         /\ txpc' = [txpc EXCEPT ![w] = NextPc(K)]

\* Mutant: the connection is never returned and its transaction stays open.
CommitRefreshLeaks(w) ==
    /\ txpc[w] = "commit"
    /\ CloseTransaction(w)
    /\ Goto(w, "complete")
    /\ UNCHANGED <<rows, rev, job, seen, lapsed, notify, budget>>

CommitRefresh(w) ==
    /\ txpc[w] = "commit"
    /\ CommitRows(w)
    /\ CloseTransaction(w)
    /\ Goto(w, "complete")
    /\ UNCHANGED <<key, born, started, result, rev, job, seen, lapsed, listening,
                   budget>>

\* The language model, the embedding service or the enqueueing raised: the
\* connection context rolls back what was not committed.
RefreshFails(w) ==
    /\ pc[w] \in {"fetch", "tags", "embed"} \/ txpc[w] = "error"
    /\ RollbackRows(w)
    /\ CloseTransaction(w)
    /\ Goto(w, "fail")
    /\ UNCHANGED <<status, born, started, result, rev, job, seen, lapsed, notify,
                   budget>>

\* Mutant: without AND status = 'running'.
FinishAnyStatus(w, final, payload) ==
    LET j == job[w] IN
    /\ lock[j] = None
    /\ status' = [status EXCEPT ![j] = final]
    /\ result' = [result EXCEPT ![j] = payload]
    /\ Drop(w)
    /\ Goto(w, "select")
    /\ UNCHANGED <<key, born, started, lock, rev, notify, txn, budget>>

\* UPDATE ... WHERE id = job AND status = 'running', once no other transaction
\* holds the row.
Finish(w, final, payload) ==
    LET j == job[w] IN
    /\ lock[j] = None /\ status[j] = "running"
    /\ status' = [status EXCEPT ![j] = final]
    /\ result' = [result EXCEPT ![j] = payload]
    /\ Drop(w)
    /\ Goto(w, "select")
    /\ UNCHANGED <<key, born, started, lock, rev, notify, txn, budget>>

\* The row is no longer running: the UPDATE matches nothing and raises.
NotRunning(w) == lock[job[w]] = None /\ status[job[w]] # "running"

CompleteJob(w) == pc[w] = "complete" /\ Finish(w, "completed", seen[w])

CompleteRejected(w) ==
    /\ pc[w] = "complete" /\ NotRunning(w)
    /\ Goto(w, "fail")
    /\ UNCHANGED <<rows, rev, job, seen, lapsed, notify, txn, budget>>

FailJob(w) == pc[w] = "fail" /\ Finish(w, "failed", None)

\* "Could not persist failure": logged, and the drain goes on.
GiveUp(w) ==
    /\ Drop(w)
    /\ Goto(w, "select")
    /\ UNCHANGED <<rows, rev, notify, txn>>

FailRejected(w) ==
    /\ pc[w] = "fail" /\ NotRunning(w)
    /\ GiveUp(w)
    /\ UNCHANGED budget

----------------------------------------------------------------------------
(* Faults, each counted against MaxFaults *)

\* The worker process dies, or an exception leaves the loop of run_worker: the
\* server rolls back its transaction, and Compose or the loop starts it again.
Crash(w) ==
    /\ pc[w] # "down"
    /\ faults < MaxFaults
    /\ faults' = faults + 1 /\ UNCHANGED sent
    /\ RollbackRows(w)
    /\ CloseTransaction(w)
    /\ Goto(w, "down")
    /\ Drop(w)
    /\ listening' = [listening EXCEPT ![w] = FALSE]
    /\ inbox' = [inbox EXCEPT ![w] = {}]
    /\ UNCHANGED <<status, born, started, result, rev>>

\* The LISTEN connection drops while the worker is busy; it notices at wait.
LoseListener(w) ==
    /\ listening[w]
    /\ faults < MaxFaults
    /\ faults' = faults + 1 /\ UNCHANGED sent
    /\ listening' = [listening EXCEPT ![w] = FALSE]
    /\ inbox' = [inbox EXCEPT ![w] = {}]
    /\ UNCHANGED <<rows, rev, work, txn>>

\* The connection fails while the worker stores an outcome: a lost completion
\* is turned into a failure, a lost failure is only logged.
LoseOutcome(w) ==
    /\ faults < MaxFaults
    /\ faults' = faults + 1 /\ UNCHANGED sent
    /\ \/ /\ pc[w] = "complete"
          /\ Goto(w, "fail")
          /\ UNCHANGED <<rows, rev, job, seen, lapsed, notify, txn>>
       \/ pc[w] = "fail" /\ GiveUp(w)

\* RECOMMENDATION_JOB_RUNNING_RECLAIM_AFTER_SECONDS pass since started_at.
Age(j) ==
    /\ status[j] = "running" /\ started[j] = "recent"
    /\ started' = [started EXCEPT ![j] = "old"]
    /\ UNCHANGED <<status, key, born, result, lock, rev, work, notify, txn,
                   budget>>

----------------------------------------------------------------------------

Request(c) ==
    PostJob(c) \/ ChangeConnections(c) \/ GiveFeedback(c) \/ EditBiography(c)
        \/ RunScheduler(c)

ClientStep(c) == Enqueue(c) \/ CommitRequest(c) \/ AbortRequest(c)

WorkerStep(w) ==
    \/ Connect(w) \/ Recover(w) \/ SelectJob(w) \/ SelectNothing(w)
    \/ ClaimJob(w) \/ Wake(w) \/ Reconnect(w)
    \/ Compute(w) \/ ComputeFails(w)
    \/ FetchAndInvalidate(w) \/ RefreshTags(w) \/ RefreshEmbedding(w)
    \/ Enqueue(w) \/ CommitRefresh(w) \/ RefreshFails(w)
    \/ CompleteJob(w) \/ CompleteRejected(w) \/ FailJob(w) \/ FailRejected(w)

Fault == \/ \E c \in Clients : LoseRequest(c)
         \/ \E w \in Workers : Crash(w) \/ LoseListener(w) \/ LoseOutcome(w)

Next == \/ \E c \in Clients : Request(c) \/ ClientStep(c)
        \/ \E w \in Workers : WorkerStep(w)
        \/ \E j \in Jobs : Age(j)
        \/ Fault

Spec == Init /\ [][Next]_vars

\* Requests that arrived are carried through, workers run and are restarted
\* (restart: unless-stopped, reconnect loop), time passes.  Nothing obliges a
\* client to send a request or a fault to happen.
Fairness == /\ \A c \in Clients : WF_vars(ClientStep(c))
            /\ \A w \in Workers : WF_vars(WorkerStep(w))
            /\ WF_vars(\E j \in Jobs : Age(j))

FairSpec == Spec /\ Fairness

----------------------------------------------------------------------------
(* Properties *)

\* At any instant at most one committed row per promoter key is queued or
\* running, whatever inserts, invalidations and re-queues are in flight: what
\* the lookup, the retry after a UniqueViolation and the partial unique index
\* guarantee together.
OneActivePerKey ==
    \A i, j \in Jobs :
        /\ status[i] \in Active /\ status[j] \in Active
        /\ key[i] = key[j] /\ IsPromoter(key[i])
        => i = j

\* Two workers that execute the same row do not both hold a claim in force:
\* one of them was overtaken by requeue_stale_running_jobs.
ClaimIsExclusive ==
    \A v, w \in Workers :
        /\ v # w /\ Executing(v) /\ Executing(w) /\ job[v] = job[w]
        => lapsed[v] \/ lapsed[w]

\* A completed or failed row keeps its status and its result for ever; in
\* particular a job invalidated while it was computed is never completed.
TerminalIsFinal ==
    [][\A j \in Jobs : status[j] \in Terminal =>
            status'[j] = status[j] /\ result'[j] = result[j]]_vars

\* latestCompletedJob of the state endpoint: the completed row of the key with
\* the latest created_at.
IsShown(j) ==
    /\ status[j] = "completed"
    /\ \A i \in Jobs : key[i] = key[j] /\ status[i] = "completed" =>
            born[i] <= born[j]

\* What the state endpoint shows for a key never goes back to a result that was
\* computed from older inputs, although superseded workers finish late.
ShownNeverRegresses ==
    [][\A i, j \in Jobs :
            /\ IsShown(i) /\ IsShown(j)'
            /\ key[i] = key'[j] /\ IsPromoter(key[i])
            => result[i] <= result'[j]]_vars

\* The abstract ledger: committed rows only.
Ledger == INSTANCE JobLedger WITH
    Exclusive <- {k \in Keys : IsPromoter(k)},
    key <- [j \in Jobs |-> IF status[j] = "none" THEN None ELSE key[j]]

\* Every commit is a step of the ledger: a transaction publishes and withdraws
\* rows together, and results of a key appear in the order of their inputs.
ImplementsLedger == Ledger!Spec

\* Every queued row is claimed or decided, whatever faults occur.
QueuedIsClaimed ==
    \A j \in Jobs : status[j] = "queued" ~> status[j] # "queued"

\* As long as no fault strikes, every row reaches a terminal status.
JobIsDecided ==
    \A j \in Jobs : status[j] \in Active ~> status[j] \in Terminal \/ faults > 0

\* Every request transaction ends: no cycle of unique-index and row-lock waits
\* blocks it, and its insert loop gives up.
RequestEnds ==
    \A c \in Clients : txpc[c] # "idle" ~> txpc[c] = "idle"

----------------------------------------------------------------------------
(* A statement of the repository that the code does not keep *)

\* "Recover stale in-flight jobs left behind by a previously crashed worker".
RunningIsRecovered ==
    \A j \in Jobs : status[j] = "running" ~> status[j] # "running"
=============================================================================
