--------------------------- MODULE RecJobs_proofs ---------------------------
(***************************************************************************)
(* The queue for any number of workers, clients, users, artists and rows:  *)
(* its types, one active row per promoter key, one claim in force per row, *)
(* final outcomes, the implementation of the ledger, and results that are  *)
(* shown in the order of their inputs.                                     *)
(*                                                                         *)
(* The argument is in four layers, each inductive relative to those before *)
(* it.  Inv1 has the types.  Inv2 says who may hold which rows.  Inv3      *)
(* relates what a worker has read to the results of its key and to the     *)
(* inputs.  BirthInv relates the rows to the starts of the transactions    *)
(* that inserted them.                                                     *)
(***************************************************************************)
EXTENDS RecJobs, TLAPS

Busy == {"claim", "compute", "fetch", "tags", "embed", "enqueue", "complete",
         "fail"}

\* A busy worker has a job, and the job's row exists.
JobInv ==
    \A w \in Workers : pc[w] \in Busy =>
        job[w] \in Jobs /\ status[job[w]] # "none"

\* A worker has a transaction of create_recommendation_job open only while it
\* enqueues after a refresh.
EnqueueInv == \A w \in Workers : txpc[w] # "idle" => pc[w] = "enqueue"

\* A row that is committed or being inserted has its key.
KeyInv ==
    \A j \in Jobs : status[j] # "none" \/ lock[j] # None => key[j] \in Keys

Inv1 == TypeOK /\ JobInv /\ EnqueueInv /\ KeyInv

\* The empty table of the first deployment.
LEMMA InitInv1 == Init => Inv1
  BY RecJobsAssumption
     DEF Init, Inv1, TypeOK, JobInv, EnqueueInv, KeyInv, Busy, WorkerPCs, TxPCs,
         Sessions, Jobs, Active, Terminal

\* The three enqueueing callers build keys.
LEMMA KeyTypes ==
  ASSUME NEW u \in Users, NEW a \in Artists, NEW p \in Params
  PROVE  /\ PromoterKey(u, a, p) \in Keys
         /\ DefaultKey(u, a) \in Keys
         /\ BioKey(u, a) \in Keys
         /\ OwnDefaultKey(u, a) \subseteq Keys
  BY RecJobsAssumption
     DEF PromoterKey, DefaultKey, BioKey, OwnDefaultKey, Keys

\* Once its row is there, a session has a key less to enqueue.
LEMMA EnqueuedTypes ==
  ASSUME TypeOK, NEW s \in Sessions, NEW k, Enqueued(s, k)
  PROVE  /\ txpc' \in [Sessions -> TxPCs]
         /\ todo' \in [Sessions -> SUBSET Keys]
         /\ tries' \in [Sessions -> 0..1]
         /\ \A x \in Sessions : x # s => txpc'[x] = txpc[x]
  BY DEF TypeOK, Enqueued, NextPc, TxPCs

\* create_recommendation_job: the first lookup.
LEMMA FindStep ==
  ASSUME Inv1, NEW s \in Sessions, FindActive(s)
  PROVE  Inv1'
<1>1. /\ txpc' \in [Sessions -> TxPCs]
      /\ todo' \in [Sessions -> SUBSET Keys]
      /\ tries' \in [Sessions -> 0..1]
      /\ \A x \in Sessions : x # s => txpc'[x] = txpc[x]
  <2>1. CASE \E k \in Keys : Enqueued(s, k)
    BY <2>1, EnqueuedTypes DEF Inv1
  <2>2. CASE /\ txpc' = [txpc EXCEPT ![s] = "insert"]
             /\ UNCHANGED <<todo, tries>>
    BY <2>2 DEF Inv1, TypeOK, TxPCs
  <2>. QED  BY <2>1, <2>2 DEF FindActive
<1>2. UNCHANGED <<rows, rev, work, notify, change, stamp, budget>>
  BY DEF FindActive
<1>3. TypeOK'
  BY <1>1, <1>2 DEF Inv1, TypeOK, rows, work, notify, budget
<1>4. JobInv' /\ KeyInv'
  BY <1>2 DEF Inv1, JobInv, KeyInv, rows, work
<1>5. EnqueueInv'
  BY <1>1, <1>2 DEF Inv1, EnqueueInv, FindActive, work, Sessions
<1>. QED  BY <1>3, <1>4, <1>5 DEF Inv1

\* create_recommendation_job: the INSERT succeeds.
LEMMA InsertStep ==
  ASSUME Inv1, NEW s \in Sessions, InsertJob(s)
  PROVE  Inv1'
<1>1. PICK k \in Keys, j \in Jobs :
        /\ key' = [key EXCEPT ![j] = k]
        /\ lock' = [lock EXCEPT ![j] = s]
        /\ born' = [born EXCEPT ![j] = stamp[s]]
        /\ Enqueued(s, k)
  BY DEF InsertJob
<1>2. UNCHANGED <<status, started, result, rev, work, notify, change, stamp,
                  budget>>
  BY DEF InsertJob
<1>3. TypeOK'
  BY <1>1, <1>2, EnqueuedTypes DEF Inv1, TypeOK, work, notify, budget
<1>4. JobInv' /\ KeyInv'
  BY <1>1, <1>2 DEF Inv1, TypeOK, JobInv, KeyInv, work
<1>5. EnqueueInv'
  BY <1>1, <1>2, EnqueuedTypes DEF Inv1, EnqueueInv, InsertJob, work, Sessions
<1>. QED  BY <1>3, <1>4, <1>5 DEF Inv1

\* create_recommendation_job: the INSERT violates the index; at most twice.
LEMMA ViolationStep ==
  ASSUME Inv1, NEW s \in Sessions, InsertViolates(s) \/ InsertFails(s)
  PROVE  Inv1'
<1>1. /\ txpc[s] = "insert"
      /\ \/ txpc' = [txpc EXCEPT ![s] = "refind"]
         \/ txpc' = [txpc EXCEPT ![s] = "error"]
      /\ UNCHANGED <<rows, rev, work, notify, todo, change, tries, stamp, budget>>
  BY DEF InsertViolates, InsertFails
<1>2. TypeOK'
  BY <1>1 DEF Inv1, TypeOK, TxPCs, rows, work, notify, budget
<1>3. JobInv' /\ KeyInv' /\ EnqueueInv'
  BY <1>1 DEF Inv1, TypeOK, JobInv, KeyInv, EnqueueInv, rows, work, Sessions
<1>. QED  BY <1>2, <1>3 DEF Inv1

\* create_recommendation_job: the lookup after a violation.
LEMMA RefindStep ==
  ASSUME Inv1, NEW s \in Sessions, RefindActive(s)
  PROVE  Inv1'
<1>1. /\ txpc' \in [Sessions -> TxPCs]
      /\ todo' \in [Sessions -> SUBSET Keys]
      /\ tries' \in [Sessions -> 0..1]
      /\ \A x \in Sessions : x # s => txpc'[x] = txpc[x]
  <2>1. CASE \E k \in Keys : Enqueued(s, k)
    BY <2>1, EnqueuedTypes DEF Inv1
  <2>2. CASE /\ tries' = [tries EXCEPT ![s] = 1]
             /\ txpc' = [txpc EXCEPT ![s] = "insert"]
             /\ UNCHANGED todo
    BY <2>2 DEF Inv1, TypeOK, TxPCs
  <2>3. CASE /\ txpc' = [txpc EXCEPT ![s] = "error"]
             /\ UNCHANGED <<todo, tries>>
    BY <2>3 DEF Inv1, TypeOK, TxPCs
  <2>. QED  BY <2>1, <2>2, <2>3 DEF RefindActive
<1>2. UNCHANGED <<rows, rev, work, notify, change, stamp, budget>>
  BY DEF RefindActive
<1>3. TypeOK'
  BY <1>1, <1>2 DEF Inv1, TypeOK, rows, work, notify, budget
<1>4. JobInv' /\ KeyInv'
  BY <1>2 DEF Inv1, JobInv, KeyInv, rows, work
<1>5. EnqueueInv'
  BY <1>1, <1>2 DEF Inv1, EnqueueInv, RefindActive, work, Sessions
<1>. QED  BY <1>3, <1>4, <1>5 DEF Inv1

\* Any statement of create_recommendation_job.
LEMMA EnqueueStep ==
  ASSUME Inv1, NEW s \in Sessions, Enqueue(s)
  PROVE  Inv1'
  BY FindStep, InsertStep, ViolationStep, RefindStep DEF Enqueue

(* What the parts of a transaction do, whoever runs it *)

\* A transaction starts.
LEMMA StampTypes ==
  ASSUME TypeOK, NEW s \in Sessions, StartTransaction(s)
  PROVE  stamp' \in [Sessions -> Nat]
<1>. DEFINE past == {0} \cup {born[j] : j \in Jobs}
                        \cup {stamp[x] : x \in Sessions \ {s}}
<1>1. past \subseteq Nat
  BY DEF TypeOK
<1>2. PICK now \in {t + 1 : t \in past} : stamp' = [stamp EXCEPT ![s] = now]
  BY DEF StartTransaction
<1>. QED  BY <1>1, <1>2 DEF TypeOK

\* The inputs of an artist get a new revision.
LEMMA ReviseTypes ==
  ASSUME TypeOK, NEW a, Revise(a)
  PROVE  rev' \in [Artists -> Nat]
  BY DEF TypeOK, Revise

\* COMMIT leaves statuses and locks in their types.
LEMMA CommitTypes ==
  ASSUME TypeOK, KeyInv, NEW s \in Sessions, CommitRows(s)
  PROVE  /\ status' \in [Jobs -> {"none"} \cup Active \cup Terminal]
         /\ lock' \in [Jobs -> Sessions \cup {None}]
         /\ inbox' \in [Workers -> SUBSET Jobs]
         /\ \A j \in Jobs : status[j] # "none" => status'[j] # "none"
         /\ key' = key => KeyInv'
  BY RecJobsAssumption
     DEF TypeOK, KeyInv, CommitRows, Inserted, Active, Terminal, Sessions

\* ROLLBACK leaves rows and locks in their types.
LEMMA RollbackTypes ==
  ASSUME TypeOK, KeyInv, NEW s \in Sessions, RollbackRows(s)
  PROVE  /\ key' \in [Jobs -> Keys \cup {None}]
         /\ lock' \in [Jobs -> Sessions \cup {None}]
         /\ status' = status => KeyInv'
  BY RecJobsAssumption DEF TypeOK, KeyInv, RollbackRows, Inserted, Sessions

\* A session without a transaction remembers nothing of it.
LEMMA CloseTypes ==
  ASSUME TypeOK, NEW s \in Sessions, CloseTransaction(s)
  PROVE  /\ txpc' \in [Sessions -> TxPCs]
         /\ todo' \in [Sessions -> SUBSET Keys]
         /\ change' \in [Sessions -> Artists \cup {None}]
         /\ tries' \in [Sessions -> 0..1]
         /\ stamp' \in [Sessions -> Nat]
         /\ txpc'[s] = "idle"
         /\ \A x \in Sessions : x # s => txpc'[x] = txpc[x]
  BY DEF TypeOK, CloseTransaction, TxPCs

\* Moving a program counter.
LEMMA GotoTypes ==
  ASSUME TypeOK, NEW w \in Workers, NEW l \in WorkerPCs, Goto(w, l)
  PROVE  /\ pc' \in [Workers -> WorkerPCs]
         /\ pc'[w] = l
         /\ \A x \in Workers : x # w => pc'[x] = pc[x]
  BY DEF TypeOK, Goto

\* A worker lets go of its job.
LEMMA DropTypes ==
  ASSUME TypeOK, NEW w \in Workers, Drop(w)
  PROVE  /\ job' \in [Workers -> Jobs \cup {None}]
         /\ seen' \in [Workers -> Nat \cup {None}]
         /\ lapsed' \in [Workers -> BOOLEAN]
         /\ \A x \in Workers : x # w => /\ job'[x] = job[x]
                                        /\ seen'[x] = seen[x]
                                        /\ lapsed'[x] = lapsed[x]
  BY DEF TypeOK, Drop

(* Requests and the scheduler *)

\* A request opens its transaction.
LEMMA BeginStep ==
  ASSUME Inv1, NEW c \in Clients, NEW operation, NEW K \in SUBSET Keys,
         NEW a \in Artists \cup {None}, Begin(c, operation, K, a)
  PROVE  Inv1'
<1>1. c \in Sessions /\ c \notin Workers
  BY RecJobsAssumption DEF Sessions
<1>2. stamp' \in [Sessions -> Nat]
  BY <1>1, StampTypes DEF Inv1, Begin
<1>3. sent' \in 0..MaxRequests
  BY RecJobsAssumption DEF Inv1, TypeOK, Begin
<1>4. TypeOK'
  BY <1>1, <1>2, <1>3
     DEF Inv1, TypeOK, Begin, NextPc, TxPCs, rows, work, notify
<1>5. JobInv' /\ KeyInv' /\ EnqueueInv'
  BY <1>1 DEF Inv1, TypeOK, JobInv, KeyInv, EnqueueInv, Begin, rows, work, Sessions
<1>. QED  BY <1>4, <1>5 DEF Inv1

\* Every kind of request.
LEMMA RequestStep ==
  ASSUME Inv1, NEW c \in Clients, Request(c)
  PROVE  Inv1'
<1>1. CASE PostJob(c)
  BY <1>1, KeyTypes, BeginStep DEF PostJob
<1>2. CASE ChangeConnections(c) \/ GiveFeedback(c)
  BY <1>2, KeyTypes, BeginStep, RecJobsAssumption
     DEF ChangeConnections, GiveFeedback
<1>3. CASE EditBiography(c)
  BY <1>3, KeyTypes, BeginStep, RecJobsAssumption DEF EditBiography
<1>4. CASE RunScheduler(c)
  <2>1. PICK eligible \in SUBSET {u \in Users : Owns[u] # None} :
          Begin(c, "schedule", {DefaultKey(u, Owns[u]) : u \in eligible}, None)
    BY <1>4 DEF RunScheduler
  <2>2. \A u \in eligible : u \in Users /\ Owns[u] \in Artists
    BY RecJobsAssumption
  <2>3. {DefaultKey(u, Owns[u]) : u \in eligible} \in SUBSET Keys
    BY <2>2, RecJobsAssumption DEF DefaultKey, PromoterKey, Keys
  <2>. QED  BY <2>1, <2>3, BeginStep
<1>. QED  BY <1>1, <1>2, <1>3, <1>4 DEF Request

\* A request commits.
LEMMA CommitRequestStep ==
  ASSUME Inv1, NEW c \in Clients, CommitRequest(c)
  PROVE  Inv1'
<1>1. c \in Sessions /\ CommitRows(c) /\ CloseTransaction(c) /\ Revise(change[c])
  BY DEF CommitRequest, Sessions
<1>2. UNCHANGED <<key, born, started, result, work, listening, budget>>
  BY DEF CommitRequest
<1>3. TypeOK'
  BY <1>1, <1>2, CommitTypes, CloseTypes, ReviseTypes
     DEF Inv1, TypeOK, work, budget
<1>4. JobInv' /\ KeyInv'
  BY <1>1, <1>2, CommitTypes DEF Inv1, TypeOK, JobInv, work
<1>5. EnqueueInv'
  BY <1>1, <1>2, CloseTypes DEF Inv1, EnqueueInv, work, Sessions
<1>. QED  BY <1>3, <1>4, <1>5 DEF Inv1

\* A request or the connection of a client is given up.
LEMMA AbortStep ==
  ASSUME Inv1, NEW c \in Clients, AbortRequest(c) \/ LoseRequest(c)
  PROVE  Inv1'
<1>1. c \in Sessions /\ RollbackRows(c) /\ CloseTransaction(c)
  BY DEF AbortRequest, LoseRequest, Sessions
<1>2. /\ UNCHANGED <<status, born, started, result, rev, work, notify>>
      /\ sent' \in 0..MaxRequests /\ faults' \in 0..MaxFaults
  BY RecJobsAssumption DEF Inv1, TypeOK, AbortRequest, LoseRequest, budget
<1>3. TypeOK'
  BY <1>1, <1>2, RollbackTypes, CloseTypes DEF Inv1, TypeOK, work, notify
<1>4. JobInv' /\ KeyInv'
  BY <1>1, <1>2, RollbackTypes DEF Inv1, TypeOK, JobInv, work
<1>5. EnqueueInv'
  BY <1>1, <1>2, CloseTypes DEF Inv1, EnqueueInv, work, Sessions
<1>. QED  BY <1>3, <1>4, <1>5 DEF Inv1

(* The worker loop *)

\* A worker connects and listens.
LEMMA ConnectStep ==
  ASSUME Inv1, NEW w \in Workers, Connect(w)
  PROVE  Inv1'
<1>1. Goto(w, "requeue") /\ txpc' = txpc
      /\ UNCHANGED <<rows, rev, job, seen, lapsed, inbox, txn, budget>>
  BY DEF Connect, txn
<1>2. TypeOK'
  BY <1>1, GotoTypes DEF Inv1, TypeOK, Connect, WorkerPCs, rows, txn, budget
<1>3. JobInv' /\ KeyInv'
  BY <1>1, GotoTypes DEF Inv1, JobInv, KeyInv, WorkerPCs, Busy, rows
<1>4. EnqueueInv'
  BY <1>1, GotoTypes DEF Inv1, EnqueueInv, Connect, WorkerPCs
<1>. QED  BY <1>2, <1>3, <1>4 DEF Inv1

\* requeue_stale_running_jobs returns rows to the queue.
LEMMA RequeueTypes ==
  ASSUME Inv1, RequeueStale
  PROVE  /\ status' \in [Jobs -> {"none"} \cup Active \cup Terminal]
         /\ started' \in [Jobs -> {None, "recent", "old"}]
         /\ result' \in [Jobs -> Nat \cup {None}]
         /\ lapsed' \in [Workers -> BOOLEAN]
         /\ \A j \in Jobs : status'[j] = "none" <=> status[j] = "none"
         /\ UNCHANGED <<key, born, lock, rev, job, seen, listening, txn, budget>>
  BY DEF Inv1, TypeOK, RequeueStale, Stale, Active, Terminal, Executing

\* The two places that call requeue_stale_running_jobs.
LEMMA RequeueStep ==
  ASSUME Inv1, NEW w \in Workers, Recover(w) \/ Wake(w)
  PROVE  Inv1'
<1>1. /\ RequeueStale /\ Goto(w, "select")
      /\ pc[w] \in {"requeue", "wait"}
      /\ inbox' \in [Workers -> SUBSET Jobs]
  BY DEF Recover, Wake, Inv1, TypeOK
<1>2. TypeOK'
  BY <1>1, RequeueTypes, GotoTypes DEF Inv1, TypeOK, WorkerPCs, txn, budget
<1>3. JobInv' /\ KeyInv'
  BY <1>1, RequeueTypes, GotoTypes
     DEF Inv1, JobInv, KeyInv, WorkerPCs, Busy
<1>4. EnqueueInv'
  BY <1>1, RequeueTypes, GotoTypes DEF Inv1, EnqueueInv, WorkerPCs, txn
<1>. QED  BY <1>2, <1>3, <1>4 DEF Inv1

\* claim_next_recommendation_job: SELECT ... FOR UPDATE SKIP LOCKED.
LEMMA SelectStep ==
  ASSUME Inv1, NEW w \in Workers, SelectJob(w)
  PROVE  Inv1'
<1>1. PICK j \in Jobs : /\ status[j] = "queued"
                        /\ lock' = [lock EXCEPT ![j] = w]
                        /\ job' = [job EXCEPT ![w] = j]
  BY DEF SelectJob, Claimable
<1>2. /\ Goto(w, "claim") /\ pc[w] = "select"
      /\ UNCHANGED <<status, key, born, started, result, rev, seen, lapsed,
                     notify, txn, budget>>
  BY DEF SelectJob
<1>3. TypeOK'
  BY <1>1, <1>2, GotoTypes
     DEF Inv1, TypeOK, WorkerPCs, Sessions, notify, txn, budget
<1>4. JobInv'
  BY <1>1, <1>2, GotoTypes DEF Inv1, TypeOK, JobInv, WorkerPCs
<1>5. KeyInv'
  BY <1>1, <1>2 DEF Inv1, TypeOK, KeyInv
<1>6. EnqueueInv'
  BY <1>2, GotoTypes DEF Inv1, EnqueueInv, WorkerPCs, txn
<1>. QED  BY <1>3, <1>4, <1>5, <1>6 DEF Inv1

\* The worker moves on without touching a row, a transaction or its job.
LEMMA MoveStep ==
  ASSUME Inv1, NEW w \in Workers, NEW l \in WorkerPCs, Goto(w, l),
         l \in Busy => pc[w] \in Busy,
         txpc[w] = "idle",
         seen' \in [Workers -> Nat \cup {None}],
         faults' \in 0..MaxFaults,
         UNCHANGED <<rows, rev, job, lapsed, notify, txn, sent>>
  PROVE  Inv1'
<1>1. TypeOK'
  BY GotoTypes DEF Inv1, TypeOK, rows, notify, txn
<1>2. JobInv' /\ KeyInv'
  BY GotoTypes DEF Inv1, JobInv, KeyInv, rows
<1>3. EnqueueInv'
  BY GotoTypes DEF Inv1, EnqueueInv, txn
<1>. QED  BY <1>1, <1>2, <1>3 DEF Inv1

\* The worker steps that only move the worker.
LEMMA IdleMoves ==
  ASSUME Inv1, NEW w \in Workers,
         \/ SelectNothing(w) \/ Reconnect(w) \/ Compute(w) \/ ComputeFails(w)
         \/ CompleteRejected(w)
  PROVE  Inv1'
<1>1. pc[w] \in {"select", "wait", "compute", "complete"}
  BY DEF SelectNothing, Reconnect, Compute, ComputeFails, CompleteRejected
<1>2. txpc[w] = "idle"
  BY <1>1 DEF Inv1, EnqueueInv
<1>3. faults' \in 0..MaxFaults /\ UNCHANGED <<rows, rev, job, lapsed, notify,
                                              txn, sent>>
  BY DEF SelectNothing, Reconnect, Compute, ComputeFails, CompleteRejected,
         Inv1, TypeOK, budget
<1>4. seen' \in [Workers -> Nat \cup {None}]
  <2>1. CASE Compute(w)
    <3>1. key[job[w]] \in Keys
      BY <2>1 DEF Compute, Inv1, JobInv, KeyInv, Busy
    <3>2. rev[key[job[w]].artist] \in Nat
      BY <3>1 DEF Keys, Inv1, TypeOK
    <3>. QED  BY <2>1, <3>2 DEF Compute, Inv1, TypeOK
  <2>2. CASE ~Compute(w)
    BY <2>2 DEF SelectNothing, Reconnect, ComputeFails, CompleteRejected,
                Inv1, TypeOK
  <2>. QED  BY <2>1, <2>2
<1>5. PICK l \in WorkerPCs : Goto(w, l) /\ (l \in Busy => pc[w] \in Busy)
  BY DEF SelectNothing, Reconnect, Compute, ComputeFails, CompleteRejected,
         WorkerPCs, Busy
<1>. QED  BY <1>2, <1>3, <1>4, <1>5, MoveStep

\* claim_next_recommendation_job: UPDATE and COMMIT.
LEMMA ClaimStep ==
  ASSUME Inv1, NEW w \in Workers, ClaimJob(w)
  PROVE  Inv1'
<1>. DEFINE j == job[w]
<1>1. j \in Jobs /\ pc[w] = "claim" /\ status[j] # "none"
  BY DEF ClaimJob, Inv1, JobInv, Busy
<1>2. PICK l \in {"compute", "fetch"} : Goto(w, l)
  BY DEF ClaimJob
<1>3. /\ status' = [status EXCEPT ![j] = "running"]
      /\ started' = [started EXCEPT ![j] = IF @ = None THEN "recent" ELSE @]
      /\ lock' = [lock EXCEPT ![j] = None]
      /\ lapsed' = [lapsed EXCEPT ![w] = FALSE]
      /\ UNCHANGED <<key, born, result, rev, job, seen, notify, txn, budget>>
  BY DEF ClaimJob
<1>4. TypeOK'
  BY <1>1, <1>2, <1>3, GotoTypes
     DEF Inv1, TypeOK, WorkerPCs, Active, notify, txn, budget
<1>5. JobInv'
  BY <1>1, <1>2, <1>3, GotoTypes DEF Inv1, TypeOK, JobInv, WorkerPCs, Busy
<1>6. KeyInv'
  BY <1>1, <1>3 DEF Inv1, TypeOK, KeyInv
<1>7. EnqueueInv'
  BY <1>1, <1>2, <1>3, GotoTypes DEF Inv1, EnqueueInv, WorkerPCs, txn
<1>. QED  BY <1>4, <1>5, <1>6, <1>7 DEF Inv1

(* Executing a claimed job *)

\* refresh_artist_derived_data: the invalidation.
LEMMA FetchStep ==
  ASSUME Inv1, NEW w \in Workers, FetchAndInvalidate(w)
  PROVE  Inv1'
<1>1. /\ pc[w] = "fetch" /\ w \in Sessions
      /\ Goto(w, "tags") /\ StartTransaction(w)
      /\ seen' = [seen EXCEPT ![w] = 0]
      /\ UNCHANGED <<status, key, born, started, result, rev, job, lapsed,
                     notify, txpc, todo, change, tries, budget>>
  BY DEF FetchAndInvalidate, Sessions
<1>2. PICK S \in SUBSET {j \in Jobs : status[j] # "none"} :
        lock' = [j \in Jobs |-> IF j \in S THEN w ELSE lock[j]]
  BY DEF FetchAndInvalidate, Invalidated, Active
<1>3. TypeOK'
  BY <1>1, <1>2, StampTypes, GotoTypes
     DEF Inv1, TypeOK, WorkerPCs, notify, budget
<1>4. JobInv'
  BY <1>1, GotoTypes DEF Inv1, JobInv, WorkerPCs, Busy
<1>5. KeyInv'
  BY <1>1, <1>2 DEF Inv1, KeyInv
<1>6. EnqueueInv'
  BY <1>1, GotoTypes DEF Inv1, EnqueueInv, WorkerPCs
<1>. QED  BY <1>3, <1>4, <1>5, <1>6 DEF Inv1

\* Derived data is current or rebuilt: no row disappears.
LEMMA DerivedTypes ==
  ASSUME Inv1, NEW w \in Workers, DerivedDataCurrent(w) \/ DerivedDataRebuilt(w)
  PROVE  /\ status' \in [Jobs -> {"none"} \cup Active \cup Terminal]
         /\ lock' \in [Jobs -> Sessions \cup {None}]
         /\ inbox' \in [Workers -> SUBSET Jobs]
         /\ rev' \in [Artists -> Nat]
         /\ stamp' \in [Sessions -> Nat]
         /\ \A j \in Jobs : status[j] # "none" => status'[j] # "none"
         /\ KeyInv'
         /\ UNCHANGED <<key, born, started, result, job, seen, lapsed,
                        listening, change, tries, budget>>
<1>1. CASE DerivedDataCurrent(w)
  BY <1>1 DEF DerivedDataCurrent, Inv1, TypeOK, KeyInv, rows, notify
<1>2. CASE DerivedDataRebuilt(w)
  <2>1. w \in Sessions /\ CommitRows(w) /\ StartTransaction(w)
        /\ Revise(key[job[w]].artist)
        /\ UNCHANGED <<key, born, started, result, job, seen, lapsed, listening,
                       change, tries, budget>>
    BY <1>2 DEF DerivedDataRebuilt, Sessions
  <2>. QED  BY <2>1, CommitTypes, StampTypes, ReviseTypes DEF Inv1
<1>. QED  BY <1>1, <1>2

\* refresh_artist_derived_data: tags and embedding.
LEMMA DerivedStep ==
  ASSUME Inv1, NEW w \in Workers, RefreshTags(w) \/ RefreshEmbedding(w)
  PROVE  Inv1'
<1>1. DerivedDataCurrent(w) \/ DerivedDataRebuilt(w)
  BY DEF RefreshTags, RefreshEmbedding
<1>2. PICK l \in {"embed", "enqueue"} :
        /\ Goto(w, l) /\ pc[w] \in Busy
        /\ l = "embed" => UNCHANGED <<txpc, todo>> /\ pc[w] = "tags"
  BY DEF RefreshTags, RefreshEmbedding, Busy
<1>3. /\ txpc' \in [Sessions -> TxPCs] /\ todo' \in [Sessions -> SUBSET Keys]
      /\ \A x \in Sessions : x # w => txpc'[x] = txpc[x]
  <2>1. CASE RefreshTags(w)
    BY <2>1 DEF RefreshTags, Inv1, TypeOK
  <2>2. CASE RefreshEmbedding(w)
    <3>. DEFINE K == OwnDefaultKey(key[job[w]].user, key[job[w]].artist)
    <3>1. key[job[w]] \in Keys
      BY <2>2 DEF RefreshEmbedding, Inv1, JobInv, KeyInv, Busy
    <3>2. K \in SUBSET Keys
      BY <3>1, RecJobsAssumption, KeyTypes DEF Keys
    <3>3. /\ todo' = [todo EXCEPT ![w] = K]
          /\ txpc' = [txpc EXCEPT ![w] = NextPc(K)]
      BY <2>2 DEF RefreshEmbedding
    <3>. HIDE DEF K
    <3>. QED  BY <3>2, <3>3 DEF Inv1, TypeOK, NextPc, TxPCs
  <2>. QED  BY <2>1, <2>2
<1>4. TypeOK'
  BY <1>1, <1>2, <1>3, DerivedTypes, GotoTypes DEF Inv1, TypeOK, WorkerPCs, budget
<1>5. JobInv' /\ KeyInv'
  BY <1>1, <1>2, DerivedTypes, GotoTypes DEF Inv1, JobInv, WorkerPCs, Busy
<1>6. EnqueueInv'
  <2>1. CASE RefreshTags(w)
    BY <2>1, GotoTypes DEF RefreshTags, Inv1, EnqueueInv, WorkerPCs
  <2>2. CASE RefreshEmbedding(w)
    BY <2>2, <1>3, GotoTypes
       DEF RefreshEmbedding, Inv1, EnqueueInv, WorkerPCs, Sessions
  <2>. QED  BY <2>1, <2>2
<1>. QED  BY <1>4, <1>5, <1>6 DEF Inv1

\* _run_job commits a biography refresh.
LEMMA CommitRefreshStep ==
  ASSUME Inv1, NEW w \in Workers, CommitRefresh(w)
  PROVE  Inv1'
<1>1. /\ w \in Sessions /\ CommitRows(w) /\ CloseTransaction(w)
      /\ Goto(w, "complete")
      /\ UNCHANGED <<key, born, started, result, rev, job, seen, lapsed,
                     listening, budget>>
  BY DEF CommitRefresh, Sessions
<1>2. pc[w] = "enqueue"
  BY DEF CommitRefresh, Inv1, EnqueueInv
<1>3. TypeOK'
  BY <1>1, CommitTypes, CloseTypes, GotoTypes DEF Inv1, TypeOK, WorkerPCs, budget
<1>4. JobInv' /\ KeyInv'
  BY <1>1, <1>2, CommitTypes, GotoTypes DEF Inv1, JobInv, WorkerPCs, Busy
<1>5. EnqueueInv'
  BY <1>1, CloseTypes, GotoTypes DEF Inv1, EnqueueInv, WorkerPCs, Sessions
<1>. QED  BY <1>3, <1>4, <1>5 DEF Inv1

\* A biography refresh fails and is rolled back.
LEMMA RefreshFailsStep ==
  ASSUME Inv1, NEW w \in Workers, RefreshFails(w)
  PROVE  Inv1'
<1>1. /\ w \in Sessions /\ RollbackRows(w) /\ CloseTransaction(w)
      /\ Goto(w, "fail")
      /\ UNCHANGED <<status, born, started, result, rev, job, seen, lapsed,
                     notify, budget>>
  BY DEF RefreshFails, Sessions
<1>2. pc[w] \in Busy
  BY DEF RefreshFails, Inv1, EnqueueInv, Busy
<1>3. TypeOK'
  BY <1>1, RollbackTypes, CloseTypes, GotoTypes
     DEF Inv1, TypeOK, WorkerPCs, notify, budget
<1>4. JobInv' /\ KeyInv'
  BY <1>1, <1>2, RollbackTypes, GotoTypes DEF Inv1, JobInv, WorkerPCs, Busy
<1>5. EnqueueInv'
  BY <1>1, CloseTypes, GotoTypes DEF Inv1, EnqueueInv, WorkerPCs, Sessions
<1>. QED  BY <1>3, <1>4, <1>5 DEF Inv1

\* The outcome of a job is stored.
LEMMA FinishStep ==
  ASSUME Inv1, NEW w \in Workers, CompleteJob(w) \/ FailJob(w)
  PROVE  Inv1'
<1>. DEFINE j == job[w]
<1>1. j \in Jobs /\ status[j] # "none" /\ pc[w] \in {"complete", "fail"}
  BY DEF CompleteJob, FailJob, Inv1, JobInv, Busy
<1>2. PICK final \in Terminal, payload \in Nat \cup {None} :
        Finish(w, final, payload)
  BY DEF CompleteJob, FailJob, Inv1, TypeOK, Terminal
<1>3. TypeOK'
  BY <1>1, <1>2, GotoTypes, DropTypes
     DEF Inv1, TypeOK, Finish, WorkerPCs, notify, txn, budget
<1>4. JobInv' /\ KeyInv'
  BY <1>1, <1>2, GotoTypes, DropTypes
     DEF Inv1, TypeOK, JobInv, KeyInv, Finish, WorkerPCs, Busy, Terminal
<1>5. EnqueueInv'
  BY <1>1, <1>2, GotoTypes DEF Inv1, EnqueueInv, Finish, WorkerPCs, txn
<1>. QED  BY <1>3, <1>4, <1>5 DEF Inv1

\* A failure that could not be stored.
LEMMA GiveUpStep ==
  ASSUME Inv1, NEW w \in Workers, pc[w] = "fail", GiveUp(w),
         faults' \in 0..MaxFaults, UNCHANGED sent
  PROVE  Inv1'
<1>1. Drop(w) /\ Goto(w, "select") /\ UNCHANGED <<rows, rev, notify, txn>>
  BY DEF GiveUp
<1>2. TypeOK'
  BY <1>1, GotoTypes, DropTypes DEF Inv1, TypeOK, WorkerPCs, rows, notify, txn
<1>3. JobInv' /\ KeyInv'
  BY <1>1, GotoTypes, DropTypes DEF Inv1, JobInv, KeyInv, WorkerPCs, Busy, rows
<1>4. EnqueueInv'
  BY <1>1, GotoTypes DEF Inv1, EnqueueInv, WorkerPCs, txn
<1>. QED  BY <1>2, <1>3, <1>4 DEF Inv1

(* Faults *)

\* A worker dies.
LEMMA CrashStep ==
  ASSUME Inv1, NEW w \in Workers, Crash(w)
  PROVE  Inv1'
<1>1. /\ w \in Sessions /\ RollbackRows(w) /\ CloseTransaction(w)
      /\ Goto(w, "down") /\ Drop(w)
      /\ listening' = [listening EXCEPT ![w] = FALSE]
      /\ inbox' = [inbox EXCEPT ![w] = {}]
      /\ UNCHANGED <<status, born, started, result, rev, sent>>
  BY DEF Crash, Sessions
<1>2. faults' \in 0..MaxFaults
  BY RecJobsAssumption DEF Crash, Inv1, TypeOK
<1>3. TypeOK'
  BY <1>1, <1>2, RollbackTypes, CloseTypes, GotoTypes, DropTypes
     DEF Inv1, TypeOK, WorkerPCs
<1>4. JobInv' /\ KeyInv'
  BY <1>1, RollbackTypes, GotoTypes, DropTypes DEF Inv1, JobInv, WorkerPCs, Busy
<1>5. EnqueueInv'
  BY <1>1, CloseTypes, GotoTypes DEF Inv1, EnqueueInv, WorkerPCs, Sessions
<1>. QED  BY <1>3, <1>4, <1>5 DEF Inv1

\* A worker loses its LISTEN connection.
LEMMA LoseListenerStep ==
  ASSUME Inv1, NEW w \in Workers, LoseListener(w)
  PROVE  Inv1'
<1>1. faults' \in 0..MaxFaults
  BY RecJobsAssumption DEF LoseListener, Inv1, TypeOK
<1>2. TypeOK'
  BY <1>1 DEF LoseListener, Inv1, TypeOK, rows, work, txn
<1>3. JobInv' /\ KeyInv' /\ EnqueueInv'
  BY DEF LoseListener, Inv1, JobInv, KeyInv, EnqueueInv, rows, work, txn
<1>. QED  BY <1>2, <1>3 DEF Inv1

\* The connection that would store an outcome is lost.
LEMMA LoseOutcomeStep ==
  ASSUME Inv1, NEW w \in Workers, LoseOutcome(w)
  PROVE  Inv1'
<1>1. faults' \in 0..MaxFaults /\ UNCHANGED sent
  BY RecJobsAssumption DEF LoseOutcome, Inv1, TypeOK
<1>2. CASE pc[w] = "fail" /\ GiveUp(w)
  BY <1>1, <1>2, GiveUpStep
<1>3. CASE /\ pc[w] = "complete"
           /\ Goto(w, "fail")
           /\ UNCHANGED <<rows, rev, job, seen, lapsed, notify, txn>>
  <2>1. txpc[w] = "idle" /\ seen' \in [Workers -> Nat \cup {None}]
    BY <1>3 DEF Inv1, EnqueueInv, TypeOK
  <2>. QED  BY <1>1, <1>3, <2>1, MoveStep DEF WorkerPCs, Busy
<1>. QED  BY <1>2, <1>3 DEF LoseOutcome

\* The reclaim window of a row passes.
LEMMA AgeStep ==
  ASSUME Inv1, NEW j \in Jobs, Age(j)
  PROVE  Inv1'
<1>1. TypeOK'
  BY DEF Age, Inv1, TypeOK, work, notify, txn, budget
<1>2. JobInv' /\ KeyInv' /\ EnqueueInv'
  BY DEF Age, Inv1, JobInv, KeyInv, EnqueueInv, work, txn
<1>. QED  BY <1>1, <1>2 DEF Inv1

\* Nothing happens.
LEMMA StutterStep ==
  ASSUME Inv1, UNCHANGED vars
  PROVE  Inv1'
  BY DEF Inv1, TypeOK, JobInv, KeyInv, EnqueueInv, vars, rows, work, notify, txn,
         budget

\* Inv1 is inductive: one lemma for each action of Next.
LEMMA Step1 ==
  ASSUME Inv1, [Next]_vars
  PROVE  Inv1'
<1>1. CASE \E c \in Clients : Request(c) \/ ClientStep(c)
  BY <1>1, RequestStep, EnqueueStep, CommitRequestStep, AbortStep
     DEF ClientStep, Sessions
<1>2. CASE \E w \in Workers : WorkerStep(w)
  <2>1. PICK w \in Workers : WorkerStep(w)
    BY <1>2
  <2>2. CASE FailRejected(w)
    BY <2>2, GiveUpStep DEF FailRejected, Inv1, TypeOK, budget
  <2>. QED
    BY <2>1, <2>2, ConnectStep, RequeueStep, SelectStep, IdleMoves, ClaimStep,
       FetchStep, DerivedStep, EnqueueStep, CommitRefreshStep, RefreshFailsStep,
       FinishStep
       DEF WorkerStep, Sessions
<1>3. CASE \E j \in Jobs : Age(j)
  BY <1>3, AgeStep
<1>4. CASE Fault
  BY <1>4, AbortStep, CrashStep, LoseListenerStep, LoseOutcomeStep DEF Fault
<1>5. CASE UNCHANGED vars
  BY <1>5, StutterStep
<1>. QED  BY <1>1, <1>2, <1>3, <1>4, <1>5 DEF Next

\* Inv1 is inductive: it holds in every reachable state.
THEOREM Invariance1 == Spec => []Inv1
<1>1. Init => Inv1
  BY InitInv1
<1>2. Inv1 /\ [Next]_vars => Inv1'
  BY Step1
<1>. QED  BY <1>1, <1>2, PTL DEF Spec

\* The variables of the queue keep their types: in particular a row number is
\* only ever given to a worker by SELECT ... FOR UPDATE, and the retry counter
\* of create_recommendation_job never passes its two attempts.
THEOREM TypeCorrect == Spec => []TypeOK
<1>1. Inv1 => TypeOK
  BY DEF Inv1
<1>. QED  BY <1>1, Invariance1, PTL

-----------------------------------------------------------------------------
(* Safety: who holds which rows *)

\* A transaction holds rows that it inserts, claims or invalidates.
LockInv == \A j \in Jobs : lock[j] # None => status[j] \notin Terminal

\* Between SELECT ... FOR UPDATE and COMMIT the claimed row stays queued.
ClaimInv ==
    \A w \in Workers : pc[w] = "claim" =>
        status[job[w]] = "queued" /\ lock[job[w]] = w

\* Only an open transaction has inserted rows, and it has no key twice.
InsertInv ==
    \A s \in Sessions : \A j \in Inserted(s) :
        txpc[s] # "idle" /\ key[j] \notin todo[s]

\* Two rows may hold one promoter key only while one transaction has
\* invalidated the first and inserted the second, and has not committed.
Occupies(j) == status[j] \in Active \/ (status[j] = "none" /\ lock[j] # None)

UniqueInv ==
    \A i, j \in Jobs :
        /\ i # j /\ Occupies(i) /\ Occupies(j)
        /\ key[i] = key[j] /\ IsPromoter(key[i])
        => /\ lock[i] # None /\ lock[i] = lock[j]
           /\ (status[i] = "none") # (status[j] = "none")

\* A claim in force keeps the row out of the queue.
ForceInv ==
    \A w \in Workers : Executing(w) /\ ~lapsed[w] => status[job[w]] # "queued"

Inv2 == /\ LockInv /\ ClaimInv /\ InsertInv /\ UniqueInv /\ ForceInv
        /\ ClaimIsExclusive

\* There are no rows and no transactions in the beginning.
LEMMA InitInv2 == Init => Inv2
  BY RecJobsAssumption
     DEF Init, Inv2, LockInv, ClaimInv, InsertInv, UniqueInv, ForceInv,
         ClaimIsExclusive, Inserted, Executing, Occupies, Sessions, Active

(* Claims: what session s may do without disturbing the claims of others *)

\* Rows locked by other sessions stay as they are, no row returns to the queue,
\* and s neither claims nor starts to execute a row.
RespectsClaims(s) ==
    /\ \A j \in Jobs : lock[j] \notin {None, s} =>
         status'[j] = status[j] /\ lock'[j] = lock[j]
    /\ \A j \in Jobs : status'[j] = "queued" => status[j] \in {"queued", "none"}
    /\ \A w \in Workers \ {s} :
         pc'[w] = pc[w] /\ job'[w] = job[w] /\ lapsed'[w] = lapsed[w]
    /\ s \in Workers =>
         /\ pc'[s] # "claim"
         /\ Executing(s)' =>
              Executing(s) /\ job'[s] = job[s] /\ lapsed'[s] = lapsed[s]

\* A step that respects claims preserves the claim part of the invariant.
LEMMA ClaimsKept ==
  ASSUME Inv1, Inv2, NEW s \in Sessions, RespectsClaims(s)
  PROVE  ClaimInv' /\ ForceInv' /\ ClaimIsExclusive'
<1>1. ClaimInv'
  <2>. SUFFICES ASSUME NEW w \in Workers, pc'[w] = "claim"
       PROVE  status'[job'[w]] = "queued" /\ lock'[job'[w]] = w
    BY DEF ClaimInv
  <2>1. w # s /\ pc[w] = "claim" /\ job'[w] = job[w]
    BY DEF RespectsClaims
  <2>2. /\ job[w] \in Jobs /\ status[job[w]] = "queued"
        /\ lock[job[w]] = w /\ w # None
    BY <2>1, RecJobsAssumption DEF Inv1, JobInv, Busy, Inv2, ClaimInv
  <2>. QED  BY <2>1, <2>2 DEF RespectsClaims
<1>2. \A w \in Workers : Executing(w)' =>
        Executing(w) /\ job'[w] = job[w] /\ lapsed'[w] = lapsed[w]
  BY DEF RespectsClaims, Executing
<1>3. \A w \in Workers : Executing(w) =>
        job[w] \in Jobs /\ status[job[w]] # "none"
  BY DEF Executing, Inv1, JobInv, Busy
<1>4. ForceInv'
  BY <1>2, <1>3 DEF ForceInv, Inv2, RespectsClaims
<1>5. ClaimIsExclusive'
  BY <1>2 DEF ClaimIsExclusive, Inv2
<1>. QED  BY <1>1, <1>4, <1>5

\* Rows and transactions are left alone.
LEMMA RowsKept ==
  ASSUME Inv2, UNCHANGED <<status, key, lock>>
  PROVE  /\ LockInv' /\ UniqueInv'
         /\ UNCHANGED <<txpc, todo>> => InsertInv'
  BY DEF Inv2, LockInv, UniqueInv, InsertInv, Occupies, Inserted

\* COMMIT publishes the inserts of s and ends its invalidations: of two rows
\* with one key that s holds, one stays active.
LEMMA CommitEffect ==
  ASSUME Inv1, Inv2, NEW s \in Sessions, CommitRows(s), key' = key
  PROVE  /\ LockInv' /\ UniqueInv'
         /\ \A j \in Jobs : lock[j] # s =>
              status'[j] = status[j] /\ lock'[j] = lock[j]
         /\ \A j \in Jobs : status'[j] = "queued" => status[j] \in {"queued", "none"}
         /\ \A j \in Jobs : status[j] \in Terminal => status'[j] = status[j]
         /\ \A x \in Sessions : Inserted(x)' = IF x = s THEN {} ELSE Inserted(x)
<1>1. s # None
  BY RecJobsAssumption DEF Sessions
<1>2. \A j \in Jobs :
        IF lock[j] # s THEN status'[j] = status[j] /\ lock'[j] = lock[j]
        ELSE /\ lock'[j] = None
             /\ status'[j] = IF status[j] = "none" THEN "queued" ELSE "failed"
  BY DEF CommitRows
<1>3. LockInv'
  BY <1>2 DEF Inv2, LockInv
<1>4. UniqueInv'
  <2>. SUFFICES ASSUME NEW i \in Jobs, NEW j \in Jobs, i # j,
                       Occupies(i)', Occupies(j)',
                       key[i] = key[j], IsPromoter(key[i])
       PROVE  /\ lock'[i] # None /\ lock'[i] = lock'[j]
              /\ (status'[i] = "none") # (status'[j] = "none")
    BY DEF UniqueInv, IsPromoter
  <2>1. Occupies(i) /\ Occupies(j)
    BY <1>1, <1>2 DEF Occupies, Active
  <2>2. /\ lock[i] # None /\ lock[i] = lock[j]
        /\ (status[i] = "none") # (status[j] = "none")
    BY <2>1 DEF Inv2, UniqueInv
  <2>3. lock[i] # s
    BY <1>1, <1>2, <2>2 DEF Occupies, Active
  <2>. QED  BY <1>2, <2>2, <2>3
<1>5. \A x \in Sessions : Inserted(x)' = IF x = s THEN {} ELSE Inserted(x)
  BY <1>1, <1>2 DEF Inserted
<1>6. \A j \in Jobs : status[j] \in Terminal => lock[j] # s
  BY <1>1 DEF Inv2, LockInv
<1>. QED  BY <1>2, <1>3, <1>4, <1>5, <1>6

\* ROLLBACK removes the inserts of s and leaves the rows of others alone.
LEMMA RollbackEffect ==
  ASSUME Inv1, Inv2, NEW s \in Sessions, RollbackRows(s), status' = status
  PROVE  /\ LockInv' /\ UniqueInv'
         /\ \A j \in Jobs : lock[j] # s => lock'[j] = lock[j] /\ key'[j] = key[j]
         /\ \A x \in Sessions : Inserted(x)' = IF x = s THEN {} ELSE Inserted(x)
<1>1. s # None
  BY RecJobsAssumption DEF Sessions
<1>2. \A j \in Jobs :
        IF lock[j] # s THEN lock'[j] = lock[j] /\ key'[j] = key[j]
        ELSE /\ lock'[j] = None
             /\ status[j] # "none" => key'[j] = key[j]
  BY DEF RollbackRows, Inserted
<1>3. LockInv'
  BY <1>2 DEF Inv2, LockInv
<1>4. UniqueInv'
  <2>. SUFFICES ASSUME NEW i \in Jobs, NEW j \in Jobs, i # j,
                       Occupies(i)', Occupies(j)',
                       key'[i] = key'[j], IsPromoter(key'[i])
       PROVE  /\ lock'[i] # None /\ lock'[i] = lock'[j]
              /\ (status[i] = "none") # (status[j] = "none")
    BY DEF UniqueInv, IsPromoter
  <2>1. /\ Occupies(i) /\ Occupies(j)
        /\ key'[i] = key[i] /\ key'[j] = key[j]
    BY <1>1, <1>2 DEF Occupies, Active
  <2>2. /\ lock[i] # None /\ lock[i] = lock[j]
        /\ (status[i] = "none") # (status[j] = "none")
    BY <2>1 DEF Inv2, UniqueInv
  <2>3. lock[i] # s
    BY <1>1, <1>2, <2>2 DEF Occupies, Active
  <2>. QED  BY <1>2, <2>2, <2>3
<1>5. \A x \in Sessions : Inserted(x)' = IF x = s THEN {} ELSE Inserted(x)
  <2>1. \A j \in Jobs : j \notin Inserted(s)'
    BY <1>1, <1>2 DEF Inserted
  <2>2. \A x \in Sessions \ {s}, j \in Jobs :
          j \in Inserted(x)' <=> j \in Inserted(x)
    BY <1>1, <1>2, RecJobsAssumption DEF Inserted, Sessions
  <2>. QED  BY <2>1, <2>2 DEF Inserted
<1>. QED  BY <1>2, <1>3, <1>4, <1>5

(* The steps of create_recommendation_job *)

\* The lookups of create_recommendation_job change no row.
LEMMA LookupStep2 ==
  ASSUME Inv1, Inv2, NEW s \in Sessions,
         FindActive(s) \/ InsertViolates(s) \/ RefindActive(s) \/ InsertFails(s)
  PROVE  Inv2'
<1>1. /\ txpc[s] # "idle" /\ txpc'[s] # "idle" /\ todo'[s] \subseteq todo[s]
      /\ \A x \in Sessions \ {s} : txpc'[x] = txpc[x] /\ todo'[x] = todo[x]
      /\ UNCHANGED <<rows, work>>
  BY DEF FindActive, InsertViolates, RefindActive, InsertFails, Enqueued, NextPc,
         Inv1, TypeOK
<1>2. RespectsClaims(s)
  BY <1>1 DEF RespectsClaims, Inv1, EnqueueInv, Executing, rows, work
<1>3. LockInv' /\ UniqueInv'
  BY <1>1, RowsKept DEF rows
<1>4. InsertInv'
  BY <1>1 DEF Inv2, InsertInv, Inserted, rows
<1>. QED  BY <1>2, <1>3, <1>4, ClaimsKept DEF Inv2

\* The INSERT: a row of the key that is active or in doubt makes it wait or
\* fail, so the new row is the only one beside an invalidation of its own.
LEMMA InsertStep2 ==
  ASSUME Inv1, Inv2, NEW s \in Sessions, InsertJob(s)
  PROVE  Inv2'
<1>1. PICK k \in Keys, j \in Jobs :
        /\ IsPromoter(k) => ~InDoubt(s, k) /\ ~SeesActive(s, k)
        /\ Free(j) /\ k \in todo[s]
        /\ key' = [key EXCEPT ![j] = k]
        /\ lock' = [lock EXCEPT ![j] = s]
        /\ Enqueued(s, k)
  BY DEF InsertJob, IsNext
<1>2. /\ txpc[s] = "insert" /\ txpc'[s] # "idle" /\ todo'[s] = todo[s] \ {k}
      /\ \A x \in Sessions \ {s} : txpc'[x] = txpc[x] /\ todo'[x] = todo[x]
      /\ UNCHANGED <<status, work>>
  BY <1>1 DEF InsertJob, Enqueued, NextPc, Inv1, TypeOK
<1>3. status[j] = "none" /\ lock[j] = None /\ s # None
  BY <1>1, RecJobsAssumption DEF Inv1, KeyInv, Free, Sessions
<1>4. /\ key'[j] = k /\ lock'[j] = s
      /\ \A i \in Jobs \ {j} : key'[i] = key[i] /\ lock'[i] = lock[i]
  BY <1>1 DEF Inv1, TypeOK
<1>5. RespectsClaims(s)
  BY <1>2, <1>3, <1>4 DEF RespectsClaims, Inv1, EnqueueInv, Executing, work
<1>6. LockInv'
  BY <1>2, <1>3, <1>4 DEF Inv2, LockInv, Terminal
<1>7. InsertInv'
  <2>. SUFFICES ASSUME NEW x \in Sessions, NEW i \in Jobs,
                       lock'[i] = x, status'[i] = "none"
       PROVE  txpc'[x] # "idle" /\ key'[i] \notin todo'[x]
    BY DEF InsertInv, Inserted
  <2>1. CASE i = j
    BY <1>2, <1>4, <2>1
  <2>2. CASE i # j
    BY <1>2, <1>4, <2>2 DEF Inv2, InsertInv, Inserted
  <2>. QED  BY <2>1, <2>2
<1>8. UniqueInv'
  <2>1. ASSUME NEW i \in Jobs, i # j, Occupies(i)', key'[i] = k, IsPromoter(k)
        PROVE  lock'[i] = s /\ status'[i] \in Active
    <3>1. key[i] = k /\ lock'[i] = lock[i] /\ Occupies(i)
      BY <1>2, <1>4, <2>1 DEF Occupies
    <3>2. ~InDoubt(s, k) /\ ~SeesActive(s, k)
      BY <1>1, <2>1
    <3>3. lock[i] = s
      BY <3>1, <3>2 DEF Occupies, InDoubt, SeesActive
    <3>4. status[i] # "none"
      BY <1>1, <3>1, <3>3 DEF Inv2, InsertInv, Inserted
    <3>. QED  BY <1>2, <3>1, <3>3, <3>4 DEF Occupies
  <2>. SUFFICES ASSUME NEW g \in Jobs, NEW h \in Jobs, g # h,
                       Occupies(g)', Occupies(h)',
                       key'[g] = key'[h], IsPromoter(key'[g])
       PROVE  /\ lock'[g] # None /\ lock'[g] = lock'[h]
              /\ (status'[g] = "none") # (status'[h] = "none")
    BY DEF UniqueInv, IsPromoter
  <2>2. CASE g = j
    BY <1>2, <1>3, <1>4, <2>1, <2>2 DEF Active
  <2>3. CASE h = j
    BY <1>2, <1>3, <1>4, <2>1, <2>3 DEF Active
  <2>4. CASE g # j /\ h # j
    BY <1>2, <1>4, <2>4 DEF Inv2, UniqueInv, Occupies
  <2>. QED  BY <2>2, <2>3, <2>4
<1>. QED  BY <1>5, <1>6, <1>7, <1>8, ClaimsKept DEF Inv2

\* Any statement of create_recommendation_job.
LEMMA EnqueueStep2 ==
  ASSUME Inv1, Inv2, NEW s \in Sessions, Enqueue(s)
  PROVE  Inv2'
  BY LookupStep2, InsertStep2 DEF Enqueue

(* Requests and the scheduler *)

\* Every kind of request.
LEMMA RequestStep2 ==
  ASSUME Inv1, Inv2, NEW c \in Clients, Request(c)
  PROVE  Inv2'
<1>1. PICK operation, K, a : Begin(c, operation, K, a)
  BY DEF Request, PostJob, ChangeConnections, GiveFeedback, EditBiography,
         RunScheduler
<1>2. c \in Sessions /\ c \notin Workers
  BY RecJobsAssumption DEF Sessions
<1>3. /\ txpc[c] = "idle" /\ UNCHANGED <<rows, work>>
      /\ \A x \in Sessions \ {c} : txpc'[x] = txpc[x] /\ todo'[x] = todo[x]
  BY <1>1 DEF Begin, Inv1, TypeOK
<1>4. RespectsClaims(c)
  BY <1>2, <1>3 DEF RespectsClaims, rows, work
<1>5. LockInv' /\ UniqueInv'
  BY <1>3, RowsKept DEF rows
<1>6. InsertInv'
  BY <1>2, <1>3 DEF Inv2, InsertInv, Inserted, rows
<1>. QED  BY <1>2, <1>4, <1>5, <1>6, ClaimsKept DEF Inv2

\* A transaction that closes leaves no inserted row behind.
LEMMA InsertsClosed ==
  ASSUME Inv2, NEW s \in Sessions,
         \A x \in Sessions : Inserted(x)' = IF x = s THEN {} ELSE Inserted(x),
         \A j \in Jobs : lock[j] # s => key'[j] = key[j],
         \A x \in Sessions \ {s} : txpc'[x] = txpc[x] /\ todo'[x] = todo[x]
  PROVE  InsertInv'
<1>. SUFFICES ASSUME NEW x \in Sessions, NEW j \in Inserted(x)'
     PROVE  txpc'[x] # "idle" /\ key'[j] \notin todo'[x]
  BY DEF InsertInv
<1>1. x # s /\ j \in Inserted(x) /\ j \in Jobs /\ lock[j] # s
  BY DEF Inserted
<1>. QED  BY <1>1 DEF Inv2, InsertInv

\* A request commits.
LEMMA CommitRequestStep2 ==
  ASSUME Inv1, Inv2, NEW c \in Clients, CommitRequest(c)
  PROVE  Inv2'
<1>1. /\ c \in Sessions /\ c \notin Workers
      /\ CommitRows(c) /\ key' = key /\ UNCHANGED work
      /\ \A x \in Sessions \ {c} : txpc'[x] = txpc[x] /\ todo'[x] = todo[x]
  BY RecJobsAssumption DEF CommitRequest, CloseTransaction, Sessions, Inv1, TypeOK
<1>2. RespectsClaims(c)
  BY <1>1, CommitEffect DEF RespectsClaims, work
<1>3. InsertInv'
  BY <1>1, CommitEffect, InsertsClosed
<1>. QED  BY <1>1, <1>2, <1>3, CommitEffect, ClaimsKept DEF Inv2

\* A request or the connection of a client is given up.
LEMMA AbortStep2 ==
  ASSUME Inv1, Inv2, NEW c \in Clients, AbortRequest(c) \/ LoseRequest(c)
  PROVE  Inv2'
<1>1. /\ c \in Sessions /\ c \notin Workers
      /\ RollbackRows(c) /\ status' = status /\ UNCHANGED work
      /\ \A x \in Sessions \ {c} : txpc'[x] = txpc[x] /\ todo'[x] = todo[x]
  BY RecJobsAssumption
     DEF AbortRequest, LoseRequest, CloseTransaction, Sessions, Inv1, TypeOK
<1>2. RespectsClaims(c)
  BY <1>1, RollbackEffect DEF RespectsClaims, work
<1>3. InsertInv'
  BY <1>1, RollbackEffect, InsertsClosed
<1>. QED  BY <1>1, <1>2, <1>3, RollbackEffect, ClaimsKept DEF Inv2

(* The worker loop *)

\* Steps of a worker that change no row.
LEMMA WorkerMoves2 ==
  ASSUME Inv1, Inv2, NEW w \in Workers,
         \/ Connect(w) \/ SelectNothing(w) \/ Reconnect(w) \/ Compute(w)
         \/ ComputeFails(w) \/ CompleteRejected(w) \/ FailRejected(w)
         \/ LoseOutcome(w) \/ LoseListener(w)
  PROVE  Inv2'
<1>1. /\ UNCHANGED <<status, key, lock, txpc, todo>>
      /\ \A x \in Workers \ {w} :
           pc'[x] = pc[x] /\ job'[x] = job[x] /\ lapsed'[x] = lapsed[x]
  BY DEF Connect, SelectNothing, Reconnect, Compute, ComputeFails,
         CompleteRejected, FailRejected, LoseOutcome, LoseListener, GiveUp, Drop,
         Goto, rows, txn, work, Inv1, TypeOK
<1>2. CASE LoseListener(w)
  BY <1>2, RowsKept
     DEF LoseListener, Inv2, ClaimInv, ForceInv, ClaimIsExclusive, Executing,
         rows, work, txn
<1>3. CASE ~LoseListener(w)
  <2>1. /\ pc'[w] # "claim"
        /\ Executing(w)' =>
             Executing(w) /\ job'[w] = job[w] /\ lapsed'[w] = lapsed[w]
    BY <1>3
       DEF Connect, SelectNothing, Reconnect, Compute, ComputeFails,
           CompleteRejected, FailRejected, LoseOutcome, GiveUp, Goto, Executing,
           Inv1, TypeOK
  <2>2. RespectsClaims(w) /\ w \in Sessions
    BY <1>1, <2>1 DEF RespectsClaims, Sessions
  <2>. QED  BY <1>1, <2>2, RowsKept, ClaimsKept DEF Inv2
<1>. QED  BY <1>2, <1>3

\* requeue_stale_running_jobs: the claims on a row it returns are lapsed.
LEMMA RequeueStep2 ==
  ASSUME Inv1, Inv2, NEW w \in Workers, Recover(w) \/ Wake(w)
  PROVE  Inv2'
<1>1. /\ RequeueStale /\ Goto(w, "select")
      /\ pc[w] \in {"requeue", "wait"}
  BY DEF Recover, Wake
<1>2. /\ \A j \in Jobs :
           status'[j] = IF j \in Stale THEN "queued" ELSE status[j]
      /\ \A j \in Stale : status[j] = "running"
      /\ \A x \in Workers :
           /\ lapsed[x] => lapsed'[x]
           /\ Executing(x) /\ job[x] \in Stale => lapsed'[x]
      /\ UNCHANGED <<key, lock, job, txpc, todo>>
  BY <1>1 DEF RequeueStale, Stale, txn
<1>3. \A x \in Workers :
        /\ Executing(x)' => Executing(x)
        /\ pc'[x] = "claim" => pc[x] = "claim"
  BY <1>1 DEF Goto, Executing, Inv1, TypeOK
<1>4. \A x \in Workers : Executing(x) \/ pc[x] = "claim" => job[x] \in Jobs
  BY DEF Executing, Inv1, JobInv, Busy
<1>5. LockInv' /\ UniqueInv'
  BY <1>2 DEF Inv2, LockInv, UniqueInv, Occupies, Active, Terminal
<1>6. InsertInv'
  BY <1>2 DEF Inv2, InsertInv, Inserted
<1>7. ClaimInv'
  <2>. SUFFICES ASSUME NEW x \in Workers, pc'[x] = "claim"
       PROVE  status'[job'[x]] = "queued" /\ lock'[job'[x]] = x
    BY DEF ClaimInv
  <2>1. /\ job[x] \in Jobs /\ status[job[x]] = "queued" /\ lock[job[x]] = x
    BY <1>3, <1>4 DEF Inv2, ClaimInv
  <2>. QED  BY <1>2, <2>1
<1>8. ForceInv' /\ ClaimIsExclusive'
  BY <1>2, <1>3, <1>4 DEF Inv2, ForceInv, ClaimIsExclusive
<1>. QED  BY <1>5, <1>6, <1>7, <1>8 DEF Inv2

\* SELECT ... FOR UPDATE SKIP LOCKED takes a queued row nobody holds.
LEMMA SelectStep2 ==
  ASSUME Inv1, Inv2, NEW w \in Workers, SelectJob(w)
  PROVE  Inv2'
<1>1. PICK j \in Jobs : /\ status[j] = "queued" /\ lock[j] = None
                        /\ lock' = [lock EXCEPT ![j] = w]
                        /\ job' = [job EXCEPT ![w] = j]
  BY DEF SelectJob, Claimable
<1>2. /\ pc[w] = "select" /\ pc' = [pc EXCEPT ![w] = "claim"]
      /\ UNCHANGED <<status, key, lapsed, txpc, todo>>
      /\ w \in Sessions /\ w # None
  BY RecJobsAssumption DEF SelectJob, Goto, txn, Sessions
<1>3. /\ lock'[j] = w /\ \A i \in Jobs \ {j} : lock'[i] = lock[i]
      /\ job'[w] = j /\ \A x \in Workers \ {w} : job'[x] = job[x]
      /\ pc'[w] = "claim" /\ \A x \in Workers \ {w} : pc'[x] = pc[x]
  BY <1>1, <1>2 DEF Inv1, TypeOK
<1>4. LockInv'
  BY <1>1, <1>2, <1>3 DEF Inv2, LockInv, Terminal
<1>5. UniqueInv'
  BY <1>1, <1>2, <1>3 DEF Inv2, UniqueInv, Occupies, Active
<1>6. InsertInv'
  BY <1>1, <1>2, <1>3 DEF Inv2, InsertInv, Inserted
<1>7. ClaimInv'
  <2>. SUFFICES ASSUME NEW x \in Workers, x # w, pc[x] = "claim"
       PROVE  job[x] \in Jobs \ {j}
    BY <1>1, <1>2, <1>3 DEF Inv2, ClaimInv
  <2>. QED  BY <1>1, RecJobsAssumption
            DEF Inv2, ClaimInv, Inv1, JobInv, Busy
<1>8. ForceInv' /\ ClaimIsExclusive'
  BY <1>2, <1>3 DEF Inv2, ForceInv, ClaimIsExclusive, Executing
<1>. QED  BY <1>4, <1>5, <1>6, <1>7, <1>8 DEF Inv2

\* The claim of a queued row: by ForceInv no claim on it is in force.
LEMMA ClaimStep2 ==
  ASSUME Inv1, Inv2, NEW w \in Workers, ClaimJob(w)
  PROVE  Inv2'
<1>. DEFINE j == job[w]
<1>1. /\ j \in Jobs /\ pc[w] = "claim"
      /\ status[j] = "queued" /\ lock[j] = w /\ w # None
  BY RecJobsAssumption DEF ClaimJob, Inv1, JobInv, Busy, Inv2, ClaimInv
<1>2. /\ status' = [status EXCEPT ![j] = "running"]
      /\ lock' = [lock EXCEPT ![j] = None]
      /\ UNCHANGED <<key, job, txpc, todo>>
  BY DEF ClaimJob, txn
<1>3. /\ status'[j] = "running" /\ lock'[j] = None
      /\ \A i \in Jobs \ {j} : status'[i] = status[i] /\ lock'[i] = lock[i]
      /\ pc'[w] \in {"compute", "fetch"}
      /\ \A x \in Workers \ {w} : pc'[x] = pc[x] /\ lapsed'[x] = lapsed[x]
  BY <1>1, <1>2 DEF ClaimJob, Goto, Inv1, TypeOK
<1>4. LockInv'
  BY <1>3 DEF Inv2, LockInv
<1>5. UniqueInv'
  <2>. SUFFICES ASSUME NEW g \in Jobs, NEW h \in Jobs, g # h,
                       Occupies(g)', Occupies(h)',
                       key[g] = key[h], IsPromoter(key[g])
       PROVE  /\ lock'[g] # None /\ lock'[g] = lock'[h]
              /\ (status'[g] = "none") # (status'[h] = "none")
    BY <1>2 DEF UniqueInv, IsPromoter
  <2>1. Occupies(g) /\ Occupies(h)
    BY <1>1, <1>3 DEF Occupies, Active
  <2>2. /\ lock[g] # None /\ lock[g] = lock[h]
        /\ (status[g] = "none") # (status[h] = "none")
    BY <2>1 DEF Inv2, UniqueInv
  \* A worker that claims has no transaction with an inserted row.
  <2>3. \A i \in Jobs : lock[i] = w => status[i] # "none"
    BY <1>1 DEF Inv2, InsertInv, Inserted, Inv1, EnqueueInv, Sessions
  <2>4. g # j /\ h # j
    BY <1>1, <2>2, <2>3
  <2>. QED  BY <1>3, <2>2, <2>4
<1>6. InsertInv'
  BY <1>1, <1>2, <1>3 DEF Inv2, InsertInv, Inserted
<1>7. ClaimInv'
  <2>. SUFFICES ASSUME NEW x \in Workers, pc'[x] = "claim"
       PROVE  status'[job[x]] = "queued" /\ lock'[job[x]] = x
    BY <1>2 DEF ClaimInv
  <2>1. /\ x # w /\ pc[x] = "claim"
        /\ status[job[x]] = "queued" /\ lock[job[x]] = x /\ job[x] \in Jobs
    BY <1>3 DEF Inv2, ClaimInv, Inv1, JobInv, Busy
  <2>. QED  BY <1>1, <1>3, <2>1
<1>8. \A x \in Workers \ {w} : Executing(x)' /\ ~lapsed'[x] =>
        /\ Executing(x) /\ ~lapsed[x]
        /\ job[x] \in Jobs \ {j}
  BY <1>1, <1>3 DEF Inv2, ForceInv, Executing, Inv1, JobInv, Busy
<1>9. ForceInv'
  BY <1>2, <1>3, <1>8 DEF Inv2, ForceInv
<1>10. ClaimIsExclusive'
  BY <1>2, <1>3, <1>8 DEF Inv2, ClaimIsExclusive, Executing
<1>. QED  BY <1>4, <1>5, <1>6, <1>7, <1>9, <1>10 DEF Inv2

(* Executing a claimed job *)

\* A worker that executes has no transaction with an inserted row.
LEMMA NoInserts ==
  ASSUME Inv1, Inv2, NEW w \in Workers, txpc[w] = "idle"
  PROVE  Inserted(w) = {}
  BY DEF Inv2, InsertInv, Inserted, Sessions

\* The invalidation locks active rows that no session holds.
LEMMA FetchStep2 ==
  ASSUME Inv1, Inv2, NEW w \in Workers, FetchAndInvalidate(w)
  PROVE  Inv2'
<1>1. PICK S \in SUBSET Jobs :
        /\ \A j \in S : status[j] \in Active /\ lock[j] = None
        /\ lock' = [j \in Jobs |-> IF j \in S THEN w ELSE lock[j]]
  BY DEF FetchAndInvalidate, Invalidated
<1>2. /\ pc[w] = "fetch" /\ pc' = [pc EXCEPT ![w] = "tags"]
      /\ UNCHANGED <<status, key, job, lapsed, txpc, todo>>
      /\ w \in Sessions /\ w # None
  BY RecJobsAssumption DEF FetchAndInvalidate, Goto, Sessions
<1>3. \A j \in Jobs : lock'[j] = IF j \in S THEN w ELSE lock[j]
  BY <1>1
<1>4. LockInv'
  BY <1>1, <1>2, <1>3 DEF Inv2, LockInv, Active, Terminal
<1>5. UniqueInv'
  BY <1>1, <1>2, <1>3 DEF Inv2, UniqueInv, Occupies, Active
<1>6. InsertInv'
  BY <1>1, <1>2, <1>3 DEF Inv2, InsertInv, Inserted, Active
<1>7. RespectsClaims(w)
  BY <1>1, <1>2, <1>3 DEF RespectsClaims, Executing, Inv1, TypeOK
<1>. QED  BY <1>2, <1>4, <1>5, <1>6, <1>7, ClaimsKept DEF Inv2

\* The partial commits of a biography refresh.
LEMMA DerivedStep2 ==
  ASSUME Inv1, Inv2, NEW w \in Workers, RefreshTags(w) \/ RefreshEmbedding(w)
  PROVE  Inv2'
<1>1. /\ pc[w] \in {"tags", "embed"} /\ w \in Sessions
      /\ \E l \in {"embed", "enqueue"} : pc' = [pc EXCEPT ![w] = l]
      /\ \A x \in Sessions \ {w} : txpc'[x] = txpc[x] /\ todo'[x] = todo[x]
      /\ UNCHANGED <<key, job, lapsed>>
  BY DEF RefreshTags, RefreshEmbedding, DerivedDataCurrent, DerivedDataRebuilt,
         Goto, Sessions, rows, Inv1, TypeOK
<1>2. Inserted(w) = {}
  BY <1>1, NoInserts DEF Inv1, EnqueueInv
<1>3. /\ pc'[w] # "claim" /\ Executing(w)
      /\ \A x \in Workers \ {w} : pc'[x] = pc[x]
  BY <1>1 DEF Executing, Inv1, TypeOK
<1>4. CASE DerivedDataCurrent(w)
  <2>1. UNCHANGED <<status, key, lock>>
    BY <1>4 DEF DerivedDataCurrent, rows
  <2>2. RespectsClaims(w)
    BY <1>1, <1>3, <2>1 DEF RespectsClaims
  <2>3. InsertInv'
    BY <1>1, <1>2, <2>1 DEF Inv2, InsertInv, Inserted
  <2>. QED  BY <1>1, <2>1, <2>2, <2>3, RowsKept, ClaimsKept DEF Inv2
<1>5. CASE DerivedDataRebuilt(w)
  <2>1. CommitRows(w)
    BY <1>5 DEF DerivedDataRebuilt
  <2>2. RespectsClaims(w)
    BY <1>1, <1>3, <2>1, CommitEffect DEF RespectsClaims
  <2>3. InsertInv'
    BY <1>1, <2>1, CommitEffect, InsertsClosed
  <2>. QED  BY <1>1, <2>1, <2>2, <2>3, CommitEffect, ClaimsKept DEF Inv2
<1>. QED  BY <1>4, <1>5 DEF RefreshTags, RefreshEmbedding

\* _run_job commits a biography refresh.
LEMMA CommitRefreshStep2 ==
  ASSUME Inv1, Inv2, NEW w \in Workers, CommitRefresh(w)
  PROVE  Inv2'
<1>1. /\ w \in Sessions /\ CommitRows(w)
      /\ pc[w] = "enqueue" /\ pc' = [pc EXCEPT ![w] = "complete"]
      /\ \A x \in Sessions \ {w} : txpc'[x] = txpc[x] /\ todo'[x] = todo[x]
      /\ UNCHANGED <<key, job, lapsed>>
  BY DEF CommitRefresh, CloseTransaction, Goto, Sessions, Inv1, TypeOK, EnqueueInv
<1>2. RespectsClaims(w)
  BY <1>1, CommitEffect DEF RespectsClaims, Executing, Inv1, TypeOK
<1>3. InsertInv'
  BY <1>1, CommitEffect, InsertsClosed
<1>. QED  BY <1>1, <1>2, <1>3, CommitEffect, ClaimsKept DEF Inv2

\* The transaction of a failed refresh or of a dead worker is rolled back.
LEMMA WorkerAborts2 ==
  ASSUME Inv1, Inv2, NEW w \in Workers, RefreshFails(w) \/ Crash(w)
  PROVE  Inv2'
<1>1. /\ w \in Sessions /\ RollbackRows(w) /\ status' = status
      /\ \A x \in Sessions \ {w} : txpc'[x] = txpc[x] /\ todo'[x] = todo[x]
      /\ \A x \in Workers \ {w} :
           pc'[x] = pc[x] /\ job'[x] = job[x] /\ lapsed'[x] = lapsed[x]
  BY DEF RefreshFails, Crash, CloseTransaction, Goto, Drop, Sessions, Inv1, TypeOK
<1>2. /\ pc'[w] # "claim"
      /\ Executing(w)' =>
           Executing(w) /\ job'[w] = job[w] /\ lapsed'[w] = lapsed[w]
  BY DEF RefreshFails, Crash, Goto, Executing, Inv1, TypeOK, EnqueueInv
<1>3. RespectsClaims(w)
  BY <1>1, <1>2, RollbackEffect DEF RespectsClaims
<1>4. InsertInv'
  BY <1>1, RollbackEffect, InsertsClosed
<1>. QED  BY <1>1, <1>3, <1>4, RollbackEffect, ClaimsKept DEF Inv2

\* The outcome of a job is stored.
LEMMA FinishStep2 ==
  ASSUME Inv1, Inv2, NEW w \in Workers, CompleteJob(w) \/ FailJob(w)
  PROVE  Inv2'
<1>. DEFINE j == job[w]
<1>1. PICK final, payload : final \in Terminal /\ Finish(w, final, payload)
  BY DEF CompleteJob, FailJob, Terminal
<1>2. /\ j \in Jobs /\ lock[j] = None /\ status[j] = "running"
      /\ status'[j] \in Terminal
      /\ \A i \in Jobs \ {j} : status'[i] = status[i]
      /\ UNCHANGED <<key, lock, txpc, todo>>
      /\ w \in Sessions /\ w # None
  BY <1>1, RecJobsAssumption
     DEF CompleteJob, FailJob, Finish, Inv1, JobInv, Busy, TypeOK, txn, Sessions
<1>3. /\ pc'[w] = "select"
      /\ \A x \in Workers \ {w} :
           pc'[x] = pc[x] /\ job'[x] = job[x] /\ lapsed'[x] = lapsed[x]
  BY <1>1 DEF Finish, Goto, Drop, Inv1, TypeOK
<1>4. RespectsClaims(w)
  BY <1>2, <1>3 DEF RespectsClaims, Executing, Terminal
<1>5. LockInv'
  BY <1>2 DEF Inv2, LockInv
<1>6. UniqueInv'
  BY <1>2 DEF Inv2, UniqueInv, Occupies, Active, Terminal
<1>7. InsertInv'
  BY <1>2 DEF Inv2, InsertInv, Inserted, Terminal
<1>. QED  BY <1>2, <1>4, <1>5, <1>6, <1>7, ClaimsKept DEF Inv2

\* Time passes, or nothing happens.
LEMMA QuietStep2 ==
  ASSUME Inv1, Inv2, (\E j \in Jobs : Age(j)) \/ UNCHANGED vars
  PROVE  Inv2'
<1>1. UNCHANGED <<status, key, lock, pc, job, lapsed, txpc, todo>>
  BY DEF Age, vars, rows, work, txn
<1>. QED  BY <1>1, RowsKept
             DEF Inv2, ClaimInv, ForceInv, ClaimIsExclusive, Executing

\* Inv2 is inductive relative to Inv1.
LEMMA Step2 ==
  ASSUME Inv1, Inv2, [Next]_vars
  PROVE  Inv2'
<1>1. CASE \E c \in Clients : Request(c) \/ ClientStep(c)
  BY <1>1, RequestStep2, EnqueueStep2, CommitRequestStep2, AbortStep2
     DEF ClientStep, Sessions
<1>2. CASE \E w \in Workers : WorkerStep(w)
  BY <1>2, WorkerMoves2, RequeueStep2, SelectStep2, ClaimStep2, FetchStep2,
     DerivedStep2, EnqueueStep2, CommitRefreshStep2, WorkerAborts2, FinishStep2
     DEF WorkerStep, Sessions
<1>3. CASE (\E j \in Jobs : Age(j)) \/ UNCHANGED vars
  BY <1>3, QuietStep2
<1>4. CASE Fault
  BY <1>4, AbortStep2, WorkerAborts2, WorkerMoves2 DEF Fault
<1>. QED  BY <1>1, <1>2, <1>3, <1>4 DEF Next

\* Inv1 /\ Inv2 is inductive.
THEOREM Invariance2 == Spec => [](Inv1 /\ Inv2)
<1>1. Init => Inv1 /\ Inv2
  BY InitInv1, InitInv2
<1>2. Inv1 /\ Inv2 /\ [Next]_vars => Inv1' /\ Inv2'
  BY Step1, Step2
<1>. QED  BY <1>1, <1>2, PTL DEF Spec

\* At most one committed row of a promoter key is queued or running, for any
\* number of concurrent requests, refreshes and re-queues: the partial unique
\* index together with the two lookups of create_recommendation_job.
THEOREM Uniqueness == Spec => []OneActivePerKey
<1>1. Inv2 => OneActivePerKey
  BY DEF Inv2, UniqueInv, OneActivePerKey, Occupies, Active
<1>. QED  BY <1>1, Invariance2, PTL

\* SKIP LOCKED, the started_at window and the re-queue never leave two workers
\* with a claim in force on one row.
THEOREM ExclusiveClaims == Spec => []ClaimIsExclusive
<1>1. Inv2 => ClaimIsExclusive
  BY DEF Inv2
<1>. QED  BY <1>1, Invariance2, PTL

(* Final outcomes *)

\* A step that may change a row at all leaves decided rows alone.
LEMMA TerminalStep ==
  ASSUME Inv1, Inv2, [Next]_vars, NEW j \in Jobs, status[j] \in Terminal
  PROVE  status'[j] = status[j] /\ result'[j] = result[j]
<1>. DEFINE Kept == status'[j] = status[j] /\ result'[j] = result[j]
<1>1. lock[j] = None
  BY DEF Inv2, LockInv
<1>2. ASSUME NEW s \in Sessions, Enqueue(s)
      PROVE  Kept
  BY <1>2 DEF Enqueue, FindActive, InsertJob, InsertViolates, RefindActive,
              InsertFails, rows
<1>3. ASSUME NEW s \in Sessions, CommitRows(s), result' = result
      PROVE  Kept
  BY <1>1, <1>3, RecJobsAssumption DEF CommitRows, Sessions
<1>4. CASE \E c \in Clients : Request(c) \/ ClientStep(c)
  <2>1. PICK c \in Clients : Request(c) \/ ClientStep(c)
    BY <1>4
  <2>2. c \in Sessions
    BY DEF Sessions
  <2>3. CASE Request(c)
    BY <2>3 DEF Request, PostJob, ChangeConnections, GiveFeedback, EditBiography,
                RunScheduler, Begin, rows
  <2>4. CASE CommitRequest(c)
    BY <1>3, <2>2, <2>4 DEF CommitRequest
  <2>5. CASE Enqueue(c) \/ AbortRequest(c)
    BY <1>2, <2>2, <2>5 DEF AbortRequest
  <2>. QED  BY <2>1, <2>3, <2>4, <2>5 DEF ClientStep
<1>5. CASE \E w \in Workers : WorkerStep(w)
  <2>1. PICK w \in Workers : WorkerStep(w)
    BY <1>5
  <2>2. w \in Sessions
    BY DEF Sessions
  <2>3. CASE Recover(w) \/ Wake(w)
    BY <2>3 DEF Recover, Wake, RequeueStale, Stale, Terminal, Inv1, TypeOK
  <2>4. CASE ClaimJob(w)
    BY <2>4 DEF ClaimJob, Terminal, Inv1, TypeOK, Inv2, ClaimInv
  <2>5. CASE CompleteJob(w) \/ FailJob(w)
    BY <2>5 DEF CompleteJob, FailJob, Finish, Terminal, Inv1, TypeOK
  <2>6. CASE RefreshTags(w) \/ RefreshEmbedding(w) \/ CommitRefresh(w)
    BY <1>3, <2>2, <2>6
       DEF RefreshTags, RefreshEmbedding, CommitRefresh, DerivedDataCurrent,
           DerivedDataRebuilt, rows
  <2>7. CASE Enqueue(w)
    BY <1>2, <2>2, <2>7
  <2>8. CASE \/ Connect(w) \/ SelectJob(w) \/ SelectNothing(w) \/ Reconnect(w)
             \/ Compute(w) \/ ComputeFails(w) \/ FetchAndInvalidate(w)
             \/ RefreshFails(w) \/ CompleteRejected(w) \/ FailRejected(w)
    BY <2>8
       DEF Connect, SelectJob, SelectNothing, Reconnect, Compute, ComputeFails,
           FetchAndInvalidate, RefreshFails, CompleteRejected, FailRejected,
           GiveUp, rows
  <2>. QED  BY <2>1, <2>3, <2>4, <2>5, <2>6, <2>7, <2>8 DEF WorkerStep
<1>6. CASE (\E i \in Jobs : Age(i)) \/ UNCHANGED vars
  BY <1>6 DEF Age, vars, rows
<1>7. CASE Fault
  BY <1>7 DEF Fault, LoseRequest, Crash, LoseListener, LoseOutcome, GiveUp, rows
<1>. QED  BY <1>4, <1>5, <1>6, <1>7 DEF Next

\* A completed or failed row keeps its status and its result: the guard
\* status = 'running' of the two final UPDATEs, and row locks elsewhere.
THEOREM Finality == Spec => TerminalIsFinal
<1>1. Inv1 /\ Inv2 /\ [Next]_vars =>
        [\A j \in Jobs : status[j] \in Terminal =>
            status'[j] = status[j] /\ result'[j] = result[j]]_vars
  BY TerminalStep
<1>. QED  BY <1>1, Invariance2, PTL DEF Spec, TerminalIsFinal

-----------------------------------------------------------------------------
(* The ledger: what a step does to the committed rows *)

\* Nothing is committed: inserts and their rollback concern rows without a status.
Silent ==
    /\ UNCHANGED <<status, result>>
    /\ \A j \in Jobs : status[j] # "none" => key'[j] = key[j]
Commits(s) == CommitRows(s) /\ UNCHANGED <<key, result>>
Claims(w) ==
    /\ pc[w] = "claim"
    /\ status' = [status EXCEPT ![job[w]] = "running"]
    /\ UNCHANGED <<key, result>>
Returns ==
    /\ status' = [j \in Jobs |-> IF j \in Stale THEN "queued" ELSE status[j]]
    /\ result' = [j \in Jobs |-> IF j \in Stale THEN None ELSE result[j]]
    /\ UNCHANGED key
Decides(w, final, payload) ==
    /\ status[job[w]] = "running"
    /\ status' = [status EXCEPT ![job[w]] = final]
    /\ result' = [result EXCEPT ![job[w]] = payload]
    /\ UNCHANGED key
Completes(w) == pc[w] = "complete" /\ Decides(w, "completed", seen[w])
Fails(w) == pc[w] = "fail" /\ Decides(w, "failed", None)

\* The statements of create_recommendation_job commit nothing.
LEMMA EnqueueIsSilent ==
  ASSUME Inv1, Inv2, NEW s \in Sessions, Enqueue(s)
  PROVE  Silent /\ UNCHANGED <<work, rev>>
<1>1. CASE InsertJob(s)
  <2>1. PICK k \in Keys, j \in Jobs : Free(j) /\ key' = [key EXCEPT ![j] = k]
    BY <1>1 DEF InsertJob
  <2>2. status[j] = "none"
    BY <2>1, RecJobsAssumption DEF Inv1, KeyInv, Free
  <2>. QED  BY <1>1, <2>1, <2>2 DEF InsertJob, Silent, Inv1, TypeOK
<1>2. CASE FindActive(s) \/ InsertViolates(s) \/ RefindActive(s) \/ InsertFails(s)
  BY <1>2 DEF FindActive, InsertViolates, RefindActive, InsertFails, Silent, rows
<1>. QED  BY <1>1, <1>2 DEF Enqueue

\* A rollback takes back what was not committed.
LEMMA RollbackIsSilent ==
  ASSUME Inv1, Inv2, NEW s \in Sessions, RollbackRows(s), UNCHANGED <<status, result>>
  PROVE  Silent
  BY DEF RollbackRows, Silent, Inserted

\* Every step is one of these.
LEMMA RowSteps ==
  ASSUME Inv1, Inv2, [Next]_vars
  PROVE  \/ Silent \/ Returns
         \/ \E s \in Sessions : Commits(s)
         \/ \E w \in Workers : Claims(w) \/ Completes(w) \/ Fails(w)
<1>1. CASE \E c \in Clients : Request(c) \/ ClientStep(c)
  <2>1. PICK c \in Clients : Request(c) \/ ClientStep(c)
    BY <1>1
  <2>2. c \in Sessions
    BY DEF Sessions
  <2>3. CASE Request(c)
    BY <2>3 DEF Request, PostJob, ChangeConnections, GiveFeedback, EditBiography,
                RunScheduler, Begin, rows, Silent
  <2>4. CASE CommitRequest(c)
    BY <2>2, <2>4 DEF CommitRequest, Commits
  <2>5. CASE Enqueue(c)
    BY <2>2, <2>5, EnqueueIsSilent
  <2>6. CASE AbortRequest(c)
    BY <2>2, <2>6, RollbackIsSilent DEF AbortRequest
  <2>. QED  BY <2>1, <2>3, <2>4, <2>5, <2>6 DEF ClientStep
<1>2. CASE \E w \in Workers : WorkerStep(w)
  <2>1. PICK w \in Workers : WorkerStep(w)
    BY <1>2
  <2>2. w \in Sessions
    BY DEF Sessions
  <2>3. CASE Recover(w) \/ Wake(w)
    BY <2>3 DEF Recover, Wake, RequeueStale, Returns
  <2>4. CASE ClaimJob(w)
    BY <2>4 DEF ClaimJob, Claims
  <2>5. CASE CompleteJob(w)
    BY <2>5 DEF CompleteJob, Finish, Completes, Decides
  <2>6. CASE FailJob(w)
    BY <2>6 DEF FailJob, Finish, Fails, Decides
  <2>7. CASE RefreshTags(w) \/ RefreshEmbedding(w) \/ CommitRefresh(w)
    BY <2>2, <2>7
       DEF RefreshTags, RefreshEmbedding, CommitRefresh, DerivedDataCurrent,
           DerivedDataRebuilt, rows, Commits, Silent
  <2>8. CASE Enqueue(w)
    BY <2>2, <2>8, EnqueueIsSilent
  <2>9. CASE RefreshFails(w)
    BY <2>2, <2>9, RollbackIsSilent DEF RefreshFails
  <2>10. CASE \/ Connect(w) \/ SelectJob(w) \/ SelectNothing(w) \/ Reconnect(w)
              \/ Compute(w) \/ ComputeFails(w) \/ FetchAndInvalidate(w)
              \/ CompleteRejected(w) \/ FailRejected(w)
    BY <2>10
       DEF Connect, SelectJob, SelectNothing, Reconnect, Compute, ComputeFails,
           FetchAndInvalidate, CompleteRejected, FailRejected, GiveUp, rows, Silent
  <2>. QED  BY <2>1, <2>3, <2>4, <2>5, <2>6, <2>7, <2>8, <2>9, <2>10 DEF WorkerStep
<1>3. CASE (\E i \in Jobs : Age(i)) \/ UNCHANGED vars
  BY <1>3 DEF Age, vars, rows, Silent
<1>4. CASE Fault
  <2>1. CASE \E c \in Clients : LoseRequest(c)
    BY <2>1, RollbackIsSilent DEF LoseRequest, Sessions
  <2>2. CASE \E w \in Workers : Crash(w)
    BY <2>2, RollbackIsSilent DEF Crash, Sessions
  <2>3. CASE \E w \in Workers : LoseListener(w) \/ LoseOutcome(w)
    BY <2>3 DEF LoseListener, LoseOutcome, GiveUp, rows, Silent
  <2>. QED  BY <1>4, <2>1, <2>2, <2>3 DEF Fault
<1>. QED  BY <1>1, <1>2, <1>3, <1>4 DEF Next

(* The ledger: in which order results appear *)

\* Completed rows have a result, rows that are not decided have none.
ResultInv ==
    \A j \in Jobs :
        /\ status[j] \in Active \cup {"none"} => result[j] = None
        /\ status[j] = "completed" => result[j] \in Nat

\* Only other rows than those of promoters are refreshed, and who is about to
\* store a result has read something.
Refreshing == {"fetch", "tags", "embed", "enqueue"}
SeenInv ==
    \A w \in Workers :
        /\ pc[w] \in Refreshing => ~IsPromoter(key[job[w]])
        /\ pc[w] \in {"tags", "embed", "enqueue", "complete"} => seen[w] \in Nat

\* The results of j's key are not newer than revision r.
Behind(j, r) ==
    \A i \in Jobs : status[i] = "completed" /\ key[i] = key[j] => result[i] <= r

\* Neither a result nor what a worker has read is ahead of the inputs; and while
\* the row of that worker may still be completed, no result of its key is ahead
\* of what it has read: to overtake it, another row of the key would have to be
\* active beside it.
FreshInv ==
    /\ \A j \in Jobs : status[j] = "completed" /\ IsPromoter(key[j]) =>
           result[j] <= rev[key[j].artist]
    /\ \A w \in Workers : pc[w] = "complete" /\ IsPromoter(key[job[w]]) =>
           /\ seen[w] <= rev[key[job[w]].artist]
           /\ status[job[w]] \in Active => Behind(job[w], seen[w])

Inv3 == ResultInv /\ SeenInv /\ FreshInv

\* There is nothing to be in order.
LEMMA InitInv3 == Init => Inv3
  BY DEF Init, Inv3, ResultInv, SeenInv, FreshInv, Active, Refreshing

\* A published row keeps its key.
LEMMA KeysKept ==
  ASSUME Inv1, Inv2, [Next]_vars, NEW j \in Jobs, status[j] # "none"
  PROVE  key'[j] = key[j]
  BY RowSteps DEF Silent, Returns, Commits, Claims, Completes, Fails, Decides

\* The inputs get newer only.
LEMMA RevisionsGrow ==
  ASSUME Inv1, [Next]_vars, NEW a \in Artists
  PROVE  rev'[a] \in Nat /\ rev[a] <= rev'[a]
<1>1. rev[a] \in Nat
  BY DEF Inv1, TypeOK
<1>2. ASSUME NEW b, Revise(b)
      PROVE  rev'[a] \in Nat /\ rev[a] <= rev'[a]
  BY <1>1, <1>2 DEF Revise
<1>3. ASSUME NEW s, Enqueue(s)
      PROVE  rev' = rev
  BY <1>3 DEF Enqueue, FindActive, InsertJob, InsertViolates, RefindActive, InsertFails
<1>4. CASE \E c \in Clients : Request(c) \/ ClientStep(c)
  <2>1. PICK c \in Clients : Request(c) \/ ClientStep(c)
    BY <1>4
  <2>2. CASE CommitRequest(c)
    BY <1>2, <2>2 DEF CommitRequest
  <2>3. CASE ~CommitRequest(c)
    <3>1. rev' = rev
      BY <1>3, <2>1, <2>3
         DEF Request, PostJob, ChangeConnections, GiveFeedback, EditBiography,
             RunScheduler, Begin, ClientStep, AbortRequest
    <3>. QED  BY <1>1, <3>1
  <2>. QED  BY <2>2, <2>3
<1>5. CASE \E w \in Workers : WorkerStep(w)
  <2>1. PICK w \in Workers : WorkerStep(w)
    BY <1>5
  <2>2. CASE RefreshTags(w) \/ RefreshEmbedding(w)
    BY <1>1, <1>2, <2>2
       DEF RefreshTags, RefreshEmbedding, DerivedDataCurrent, DerivedDataRebuilt
  <2>3. CASE ~(RefreshTags(w) \/ RefreshEmbedding(w))
    BY <1>1, <1>3, <2>1, <2>3
       DEF WorkerStep, Connect, Recover, Wake, RequeueStale, SelectJob, SelectNothing,
           ClaimJob, Reconnect, Compute, ComputeFails, FetchAndInvalidate,
           CommitRefresh, RefreshFails, CompleteJob, FailJob, Finish,
           CompleteRejected, FailRejected, GiveUp
  <2>. QED  BY <2>2, <2>3
<1>6. CASE (\E j \in Jobs : Age(j)) \/ Fault \/ UNCHANGED vars
  BY <1>1, <1>6
     DEF Age, Fault, LoseRequest, Crash, LoseListener, LoseOutcome, GiveUp, vars
<1>. QED  BY <1>4, <1>5, <1>6 DEF Next

\* Compute: the inputs of the row's artist are read.
Reads(w) ==
    /\ pc[w] = "compute" /\ pc'[w] = "complete"
    /\ seen'[w] = rev[key[job[w]].artist]
    /\ UNCHANGED <<status, key, result, rev>>

\* How a worker gets to a place where it knows something of its row.
Gets(w) ==
    /\ job'[w] = job[w] /\ pc[w] \in Busy
    /\ \/ pc'[w] = pc[w] /\ seen'[w] = seen[w]
       \/ pc[w] = "claim" /\ pc'[w] = "fetch" /\ ~IsPromoter(key[job[w]])
       \/ pc[w] = "fetch" /\ pc'[w] = "tags" /\ seen'[w] = 0
       \/ pc[w] \in {"tags", "embed", "enqueue"} /\ seen'[w] = seen[w]
       \/ Reads(w)

\* Every step of every process brings a worker there in one of these ways.
LEMMA WorkSteps ==
  ASSUME Inv1, Inv2, [Next]_vars, NEW w \in Workers,
         pc'[w] \in Refreshing \cup {"complete"}
  PROVE  Gets(w)
<1>1. ASSUME UNCHANGED <<pc, job, seen>>
      PROVE  Gets(w)
  BY <1>1 DEF Gets, Refreshing, Busy
<1>2. CASE \E c \in Clients : Request(c) \/ ClientStep(c)
  <2>1. PICK c \in Clients : Request(c) \/ ClientStep(c)
    BY <1>2
  <2>2. CASE Enqueue(c)
    BY <1>1, <2>2, EnqueueIsSilent DEF work, Sessions
  <2>3. CASE ~Enqueue(c)
    BY <1>1, <2>1, <2>3
       DEF Request, PostJob, ChangeConnections, GiveFeedback, EditBiography,
           RunScheduler, Begin, ClientStep, CommitRequest, AbortRequest, work
  <2>. QED  BY <2>2, <2>3
<1>3. CASE \E v \in Workers : WorkerStep(v)
  <2>1. PICK v \in Workers : WorkerStep(v)
    BY <1>3
  <2>2. CASE Enqueue(v)
    BY <1>1, <2>2, EnqueueIsSilent DEF work, Sessions
  <2>3. CASE v # w /\ ~Enqueue(v)
    <3>1. pc'[w] = pc[w] /\ job'[w] = job[w] /\ seen'[w] = seen[w]
      BY <2>1, <2>3
         DEF WorkerStep, Connect, Recover, Wake, RequeueStale, SelectJob,
             SelectNothing, ClaimJob, Reconnect, Compute, ComputeFails,
             FetchAndInvalidate, RefreshTags, RefreshEmbedding, DerivedDataCurrent,
             DerivedDataRebuilt, CommitRefresh, RefreshFails, CompleteJob, FailJob,
             Finish, CompleteRejected, FailRejected, GiveUp, Drop, Goto, Inv1, TypeOK
    <3>. QED  BY <3>1 DEF Gets, Refreshing, Busy
  <2>4. CASE v = w /\ ~Enqueue(v)
    <3>1. CASE ClaimJob(w)
      BY <3>1 DEF ClaimJob, Goto, Inv1, TypeOK, Gets, Refreshing, Busy
    <3>2. CASE Compute(w)
      BY <3>2 DEF Compute, Goto, Inv1, TypeOK, Gets, Reads, Busy, rows
    <3>3. CASE FetchAndInvalidate(w)
      BY <3>3 DEF FetchAndInvalidate, Goto, Inv1, TypeOK, Gets, Busy
    <3>4. CASE RefreshTags(w) \/ RefreshEmbedding(w) \/ CommitRefresh(w)
      BY <3>4
         DEF RefreshTags, RefreshEmbedding, DerivedDataCurrent, DerivedDataRebuilt,
             CommitRefresh, Inv1, EnqueueInv, Gets, Busy
    <3>5. CASE \/ Connect(w) \/ Recover(w) \/ Wake(w) \/ SelectJob(w)
               \/ SelectNothing(w) \/ Reconnect(w) \/ ComputeFails(w) \/ RefreshFails(w)
               \/ CompleteJob(w) \/ FailJob(w) \/ CompleteRejected(w) \/ FailRejected(w)
      <4>1. pc'[w] \in {"requeue", "select", "claim", "wait", "down", "fail"}
        BY <3>5
           DEF Connect, Recover, Wake, SelectJob, SelectNothing, Reconnect,
               ComputeFails, RefreshFails, CompleteJob, FailJob, Finish,
               CompleteRejected, FailRejected, GiveUp, Goto, Inv1, TypeOK
      <4>. QED  BY <4>1 DEF Refreshing
    <3>. QED  BY <2>1, <2>4, <3>1, <3>2, <3>3, <3>4, <3>5 DEF WorkerStep
  <2>. QED  BY <2>2, <2>3, <2>4
<1>4. CASE (\E j \in Jobs : Age(j)) \/ UNCHANGED vars
  BY <1>1, <1>4 DEF Age, vars, work
<1>5. CASE Fault
  <2>1. CASE \E c \in Clients : LoseRequest(c)
    BY <1>1, <2>1 DEF LoseRequest, work
  <2>2. CASE \E v \in Workers : LoseListener(v)
    BY <1>1, <2>2 DEF LoseListener, work
  <2>3. ASSUME NEW v \in Workers, Crash(v) \/ LoseOutcome(v)
        PROVE  Gets(w)
    <3>1. CASE v = w
      <4>1. pc'[w] \in {"down", "fail", "select"}
        BY <2>3, <3>1 DEF Crash, LoseOutcome, GiveUp, Goto, Inv1, TypeOK
      <4>. QED  BY <4>1 DEF Refreshing
    <3>2. CASE v # w
      <4>1. pc'[w] = pc[w] /\ job'[w] = job[w] /\ seen'[w] = seen[w]
        BY <2>3, <3>2 DEF Crash, LoseOutcome, GiveUp, Drop, Goto, Inv1, TypeOK
      <4>. QED  BY <4>1 DEF Gets, Refreshing, Busy
    <3>. QED  BY <3>1, <3>2
  <2>. QED  BY <1>5, <2>1, <2>2, <2>3 DEF Fault
<1>. QED  BY <1>2, <1>3, <1>4, <1>5 DEF Next

\* Results are stored with a decision only.
LEMMA ResultStep ==
  ASSUME Inv1, Inv2, Inv3, [Next]_vars
  PROVE  ResultInv'
<1>. SUFFICES ASSUME NEW j \in Jobs
     PROVE  /\ status'[j] \in Active \cup {"none"} => result'[j] = None
            /\ status'[j] = "completed" => result'[j] \in Nat
  BY DEF ResultInv
<1>1. /\ status[j] \in Active \cup {"none"} => result[j] = None
      /\ status[j] = "completed" => result[j] \in Nat
  BY DEF Inv3, ResultInv
<1>2. CASE Silent
  BY <1>1, <1>2 DEF Silent
<1>3. CASE Returns
  BY <1>1, <1>3 DEF Returns, Active
<1>4. ASSUME NEW s \in Sessions, Commits(s)
      PROVE  /\ status'[j] \in Active \cup {"none"} => result'[j] = None
             /\ status'[j] = "completed" => result'[j] \in Nat
  BY <1>1, <1>4 DEF Commits, CommitRows, Active
<1>5. ASSUME NEW w \in Workers, Claims(w)
      PROVE  /\ status'[j] \in Active \cup {"none"} => result'[j] = None
             /\ status'[j] = "completed" => result'[j] \in Nat
  <2>1. status[job[w]] = "queued"
    BY <1>5 DEF Claims, Inv2, ClaimInv
  <2>. QED  BY <1>1, <1>5, <2>1 DEF Claims, Inv1, TypeOK, Active
<1>6. ASSUME NEW w \in Workers, Completes(w)
      PROVE  /\ status'[j] \in Active \cup {"none"} => result'[j] = None
             /\ status'[j] = "completed" => result'[j] \in Nat
  <2>1. seen[w] \in Nat
    BY <1>6 DEF Completes, Inv3, SeenInv
  <2>. QED  BY <1>1, <1>6, <2>1 DEF Completes, Decides, Inv1, TypeOK, Active
<1>7. ASSUME NEW w \in Workers, Fails(w)
      PROVE  /\ status'[j] \in Active \cup {"none"} => result'[j] = None
             /\ status'[j] = "completed" => result'[j] \in Nat
  BY <1>1, <1>7 DEF Fails, Decides, Inv1, TypeOK, Active
<1>. QED  BY <1>2, <1>3, <1>4, <1>5, <1>6, <1>7, RowSteps

\* The row of a busy worker has a key, which it keeps.
LEMMA HeldKey ==
  ASSUME Inv1, Inv2, [Next]_vars, NEW w \in Workers, pc[w] \in Busy
  PROVE  /\ job[w] \in Jobs /\ status[job[w]] # "none"
         /\ key[job[w]] \in Keys /\ key'[job[w]] = key[job[w]]
<1>1. job[w] \in Jobs /\ status[job[w]] # "none"
  BY DEF Inv1, JobInv
<1>. QED  BY <1>1, KeysKept DEF Inv1, KeyInv

\* A worker keeps what it read until it has stored it.
LEMMA SeenStep ==
  ASSUME Inv1, Inv2, Inv3, [Next]_vars
  PROVE  SeenInv'
<1>. SUFFICES ASSUME NEW w \in Workers, pc'[w] \in Refreshing \cup {"complete"}
     PROVE  /\ pc'[w] \in Refreshing => ~IsPromoter(key'[job'[w]])
            /\ pc'[w] \in {"tags", "embed", "enqueue", "complete"} => seen'[w] \in Nat
  BY DEF SeenInv, Refreshing, IsPromoter
<1>1. Gets(w)
  BY WorkSteps
<1>2. /\ job'[w] = job[w] /\ key'[job[w]] = key[job[w]] /\ key[job[w]] \in Keys
  BY <1>1, HeldKey DEF Gets
<1>3. /\ pc[w] \in Refreshing => ~IsPromoter(key[job[w]])
      /\ pc[w] \in {"tags", "embed", "enqueue", "complete"} => seen[w] \in Nat
  BY DEF Inv3, SeenInv
<1>4. CASE Reads(w)
  <2>1. key[job[w]].artist \in Artists
    BY <1>2 DEF Keys
  <2>. QED  BY <1>4, <2>1 DEF Reads, Refreshing, Inv1, TypeOK
<1>5. CASE ~Reads(w)
  BY <1>1, <1>2, <1>3, <1>5 DEF Gets, Refreshing
<1>. QED  BY <1>4, <1>5

\* A row is completed before a step, or by it.
LEMMA CompletedBy ==
  ASSUME Inv1, Inv2, [Next]_vars, NEW j \in Jobs, status'[j] = "completed"
  PROVE  \/ status[j] = "completed" /\ result'[j] = result[j]
         \/ \E w \in Workers : Completes(w) /\ job[w] = j
<1>1. CASE Silent
  BY <1>1 DEF Silent
<1>2. CASE Returns
  BY <1>2 DEF Returns, Stale
<1>3. ASSUME NEW s \in Sessions, Commits(s)
      PROVE  status[j] = "completed" /\ result'[j] = result[j]
  BY <1>3 DEF Commits, CommitRows
<1>4. ASSUME NEW w \in Workers, Claims(w) \/ Fails(w)
      PROVE  status[j] = "completed" /\ result'[j] = result[j]
  BY <1>4 DEF Claims, Fails, Decides, Inv1, TypeOK
<1>5. ASSUME NEW w \in Workers, Completes(w), job[w] # j
      PROVE  status[j] = "completed" /\ result'[j] = result[j]
  BY <1>5 DEF Completes, Decides, Inv1, TypeOK
<1>. QED  BY <1>1, <1>2, <1>3, <1>4, <1>5, RowSteps

\* An outcome that is stored as completed is not ahead of the inputs.
LEMMA ResultsBehind ==
  ASSUME Inv1, Inv2, Inv3, [Next]_vars,
         NEW j \in Jobs, status'[j] = "completed", IsPromoter(key'[j])
  PROVE  /\ status[j] # "none" /\ key'[j] = key[j]
         /\ result'[j] \in Nat /\ result'[j] <= rev'[key[j].artist]
<1>1. \/ status[j] = "completed" /\ result'[j] = result[j]
      \/ \E w \in Workers : Completes(w) /\ job[w] = j
  BY CompletedBy
<1>2. status[j] # "none"
  BY <1>1 DEF Completes, Decides
<1>3. key'[j] = key[j] /\ key[j].artist \in Artists
  BY <1>2, KeysKept DEF Inv1, KeyInv, Keys
<1>4. rev'[key[j].artist] \in Nat /\ rev[key[j].artist] <= rev'[key[j].artist]
      /\ rev[key[j].artist] \in Nat
  BY <1>3, RevisionsGrow DEF Inv1, TypeOK
<1>5. CASE status[j] = "completed" /\ result'[j] = result[j]
  <2>1. result[j] \in Nat /\ result[j] <= rev[key[j].artist]
    BY <1>3, <1>5 DEF Inv3, ResultInv, FreshInv
  <2>. QED  BY <1>2, <1>3, <1>4, <1>5, <2>1
<1>6. ASSUME NEW w \in Workers, Completes(w), job[w] = j
      PROVE  result'[j] \in Nat /\ result'[j] <= rev'[key[j].artist]
  <2>1. seen[w] \in Nat /\ seen[w] <= rev[key[j].artist]
    BY <1>3, <1>6 DEF Completes, Inv3, SeenInv, FreshInv
  <2>2. result'[j] = seen[w]
    BY <1>6 DEF Completes, Decides, Inv1, TypeOK
  <2>. QED  BY <1>4, <2>1, <2>2
<1>. QED  BY <1>1, <1>2, <1>3, <1>5, <1>6

\* While the row of a worker can be completed, no other row of its key is.
LEMMA BehindStep ==
  ASSUME Inv1, Inv2, Inv3, [Next]_vars,
         NEW j \in Jobs, NEW r \in Nat, IsPromoter(key[j]), status[j] # "none",
         status[j] \in Active => Behind(j, r),
         status'[j] \in Active
  PROVE  \A i \in Jobs : status'[i] = "completed" /\ key'[i] = key'[j] => result'[i] <= r
<1>. SUFFICES ASSUME NEW i \in Jobs, status'[i] = "completed", key'[i] = key'[j]
     PROVE  result'[i] <= r
  OBVIOUS
<1>1. key'[j] = key[j] /\ status[j] \notin Terminal
  BY KeysKept, TerminalStep DEF Active, Terminal
<1>2. status[j] \in Active /\ Behind(j, r)
  BY <1>1 DEF Inv1, TypeOK
<1>3. CASE status[i] = "completed"
  <2>1. result'[i] = result[i] /\ key'[i] = key[i]
    BY <1>3, TerminalStep, KeysKept DEF Terminal
  <2>. QED  BY <1>1, <1>2, <1>3, <2>1 DEF Behind
<1>4. CASE status[i] # "completed"
  <2>1. status[i] = "running" /\ i # j
    <3>1. CASE Silent \/ Returns \/ \E s \in Sessions : Commits(s)
      BY <1>4, <3>1 DEF Silent, Returns, Commits, CommitRows
    <3>2. ASSUME NEW w \in Workers, Claims(w) \/ Fails(w) \/ Completes(w)
          PROVE  status[i] = "running"
      BY <1>4, <3>2 DEF Claims, Fails, Completes, Decides, Inv1, TypeOK
    <3>. QED  BY <3>1, <3>2, RowSteps DEF Active
  <2>2. key[i] = key[j]
    BY <1>1, <2>1, KeysKept
  <2>3. FALSE
    BY <1>2, <2>1, <2>2 DEF Inv2, UniqueInv, Occupies, Active
  <2>. QED  BY <2>3
<1>. QED  BY <1>3, <1>4

\* What a computation reads is as new as every result there is.
LEMMA FreshStep ==
  ASSUME Inv1, Inv2, Inv3, [Next]_vars
  PROVE  FreshInv'
<1>1. \A j \in Jobs : status'[j] = "completed" /\ IsPromoter(key'[j]) =>
         result'[j] <= rev'[key'[j].artist]
  BY ResultsBehind
<1>2. ASSUME NEW w \in Workers, pc'[w] = "complete", IsPromoter(key'[job'[w]])
      PROVE  /\ seen'[w] <= rev'[key'[job'[w]].artist]
             /\ status'[job'[w]] \in Active =>
                  \A i \in Jobs : status'[i] = "completed" /\ key'[i] = key'[job'[w]] =>
                     result'[i] <= seen'[w]
  <2>1. Gets(w)
    BY <1>2, WorkSteps
  <2>2. /\ job'[w] = job[w] /\ key'[job[w]] = key[job[w]] /\ key[job[w]] \in Keys
        /\ job[w] \in Jobs /\ status[job[w]] # "none"
    BY <2>1, HeldKey DEF Gets
  <2>3. key[job[w]].artist \in Artists /\ IsPromoter(key[job[w]])
    BY <1>2, <2>2 DEF Keys
  <2>4. /\ rev[key[job[w]].artist] \in Nat /\ rev'[key[job[w]].artist] \in Nat
        /\ rev[key[job[w]].artist] <= rev'[key[job[w]].artist]
    BY <2>3, RevisionsGrow DEF Inv1, TypeOK
  <2>5. CASE Reads(w)
    <3>1. seen'[w] = rev[key[job[w]].artist]
      BY <2>5 DEF Reads
    <3>2. \A i \in Jobs : status[i] = "completed" /\ key[i] = key[job[w]] =>
             result[i] <= seen'[w]
      BY <2>3, <3>1 DEF Inv3, FreshInv
    <3>. QED  BY <2>2, <2>4, <2>5, <3>1, <3>2 DEF Reads
  <2>6. CASE ~Reads(w)
    <3>1. pc[w] = "complete" /\ seen'[w] = seen[w]
      BY <1>2, <2>1, <2>3, <2>6 DEF Gets, Inv3, SeenInv, Refreshing
    <3>2. /\ seen[w] \in Nat /\ seen[w] <= rev[key[job[w]].artist]
          /\ status[job[w]] \in Active => Behind(job[w], seen[w])
      BY <2>3, <3>1 DEF Inv3, SeenInv, FreshInv
    <3>3. status'[job[w]] \in Active =>
            \A i \in Jobs : status'[i] = "completed" /\ key'[i] = key'[job[w]] =>
               result'[i] <= seen[w]
      BY <2>2, <2>3, <3>2, BehindStep
    <3>. QED  BY <2>2, <2>4, <3>1, <3>2, <3>3
  <2>. QED  BY <2>5, <2>6
<1>. QED  BY <1>1, <1>2 DEF FreshInv, Behind, IsPromoter

\* Inv3 is inductive relative to Inv1 /\ Inv2.
THEOREM Invariance3 == Spec => [](Inv1 /\ Inv2 /\ Inv3)
<1>1. Init => Inv3
  BY InitInv3
<1>2. Inv1 /\ Inv2 /\ Inv3 /\ [Next]_vars => Inv3'
  BY ResultStep, SeenStep, FreshStep DEF Inv3
<1>. QED  BY <1>1, <1>2, Invariance2, PTL DEF Spec

(* The ledger: every step is one of its steps *)

Published == [j \in Jobs |-> IF status[j] = "none" THEN None ELSE key[j]]
LedgerStep == [Ledger!Next]_<<status, Published, result>>

\* An empty table is an empty ledger.
LEMMA LedgerInit == Init => Ledger!Init
  BY DEF Init, Ledger!Init

\* A commit publishes what was inserted and withdraws what was invalidated.
LEMMA CommitPublishes ==
  ASSUME Inv1, Inv2, Inv2', NEW s \in Sessions, Commits(s)
  PROVE  Ledger!Publish
<1>. DEFINE new == Inserted(s)
            withdrawn == {j \in Jobs : lock[j] = s /\ status[j] # "none"}
<1>1. new \in SUBSET {j \in Jobs : status[j] = "none"}
  BY DEF Inserted
<1>2. withdrawn \in SUBSET {j \in Jobs : status[j] \in Ledger!Active}
  BY RecJobsAssumption DEF Inv1, TypeOK, Inv2, LockInv, Sessions, Active, Ledger!Active
<1>3. status' = [j \in Jobs |-> IF j \in new THEN "queued"
                                ELSE IF j \in withdrawn THEN "failed" ELSE status[j]]
  BY DEF Commits, CommitRows, Inserted
<1>4. /\ \A j \in new : Published'[j] = key[j] /\ key[j] \in Keys
      /\ \A j \in Jobs \ new : Published'[j] = Published[j]
  <2>1. ASSUME NEW j \in new
        PROVE  Published'[j] = key[j] /\ key[j] \in Keys
    BY <1>3, RecJobsAssumption
       DEF Inserted, Published, Commits, Inv1, KeyInv, Sessions
  <2>2. ASSUME NEW j \in Jobs \ new
        PROVE  Published'[j] = Published[j]
    BY <1>3 DEF Inserted, Published, Commits
  <2>. QED  BY <2>1, <2>2
<1>5. Published' = [j \in Jobs |-> IF j \in new THEN Published'[j] ELSE Published[j]]
  BY <1>4 DEF Published
<1>6. \A i, j \in Jobs :
         /\ status'[i] \in Active /\ status'[j] \in Active
         /\ Published'[i] = Published'[j]
         /\ Published'[i] \in {k \in Keys : IsPromoter(k)}
         => i = j
  BY DEF Inv2, UniqueInv, Occupies, Published, Active, IsPromoter
<1>. HIDE DEF new, withdrawn
<1>7. UNCHANGED result
  BY DEF Commits
<1>. QED  BY <1>1, <1>2, <1>3, <1>4, <1>5, <1>6, <1>7
          DEF Ledger!Publish, Ledger!OneActive, Ledger!Active, Active, Published

\* A result is stored after those of its key that reflect older inputs.
LEMMA DecisionIsInOrder ==
  ASSUME Inv1, Inv2, Inv3, NEW w \in Workers, Completes(w)
  PROVE  Ledger!Complete
<1>. DEFINE j == job[w]
<1>1. /\ j \in Jobs /\ status[j] = "running" /\ seen[w] \in Nat
      /\ status' = [status EXCEPT ![j] = "completed"]
      /\ result' = [result EXCEPT ![j] = seen[w]]
  BY DEF Completes, Decides, Inv1, JobInv, Busy, Inv3, SeenInv
<1>2. result'[j] = seen[w] /\ result' = [result EXCEPT ![j] = result'[j]]
  BY <1>1 DEF Inv1, TypeOK
<1>3. ASSUME NEW i \in Jobs, status[i] = "completed", Published[i] = Published[j],
             Published[j] \in {k \in Keys : IsPromoter(k)}
      PROVE  result[i] <= result'[j]
  <2>1. key[i] = key[j] /\ IsPromoter(key[j])
    BY <1>1, <1>3 DEF Published
  <2>. QED  BY <1>1, <1>2, <1>3, <2>1 DEF Completes, Inv3, FreshInv, Behind, Active
<1>4. UNCHANGED Published
  BY <1>1 DEF Completes, Decides, Published
<1>. HIDE DEF j
<1>. QED  BY <1>1, <1>2, <1>3, <1>4 DEF Ledger!Complete, Ledger!InOrder, Published

\* A step of the queue is a step of the ledger, or changes nothing of it.
LEMMA LedgerSteps ==
  ASSUME Inv1, Inv2, Inv2', Inv3, [Next]_vars
  PROVE  LedgerStep
<1>1. CASE Silent
  <2>1. UNCHANGED Published
    BY <1>1 DEF Silent, Published
  <2>. QED  BY <1>1, <2>1 DEF Silent, LedgerStep
<1>2. CASE Returns
  <2>1. result' = result
    BY <1>2 DEF Returns, Stale, Inv3, ResultInv, Active, Inv1, TypeOK
  <2>2. UNCHANGED Published
    BY <1>2 DEF Returns, Stale, Published
  <2>3. Stale \in SUBSET {j \in Jobs : status[j] = "running"}
    BY DEF Stale
  <2>4. status' = [j \in Jobs |-> IF j \in Stale THEN "queued" ELSE status[j]]
    BY <1>2 DEF Returns
  <2>5. Ledger!GiveBack
    BY <2>1, <2>2, <2>3, <2>4 DEF Ledger!GiveBack, Published
  <2>. QED  BY <2>5 DEF Ledger!Next, LedgerStep
<1>3. ASSUME NEW s \in Sessions, Commits(s)
      PROVE  LedgerStep
  BY <1>3, CommitPublishes DEF Ledger!Next, LedgerStep
<1>4. ASSUME NEW w \in Workers, Claims(w)
      PROVE  LedgerStep
  <2>1. job[w] \in Jobs /\ status[job[w]] = "queued"
    BY <1>4 DEF Claims, Inv1, JobInv, Busy, Inv2, ClaimInv
  <2>2. UNCHANGED Published
    BY <1>4, <2>1 DEF Claims, Published, Inv1, TypeOK
  <2>3. Ledger!Claim
    BY <1>4, <2>1, <2>2 DEF Claims, Ledger!Claim, Published
  <2>. QED  BY <2>3 DEF Ledger!Next, LedgerStep
<1>5. ASSUME NEW w \in Workers, Completes(w)
      PROVE  LedgerStep
  BY <1>5, DecisionIsInOrder DEF Ledger!Next, LedgerStep
<1>6. ASSUME NEW w \in Workers, Fails(w)
      PROVE  LedgerStep
  <2>1. job[w] \in Jobs /\ status[job[w]] = "running"
    BY <1>6 DEF Fails, Decides, Inv1, JobInv, Busy
  <2>2. UNCHANGED Published
    BY <1>6, <2>1 DEF Fails, Decides, Published, Inv1, TypeOK
  <2>3. result' = result
    BY <1>6, <2>1 DEF Fails, Decides, Inv3, ResultInv, Active, Inv1, TypeOK
  <2>4. Ledger!Fail
    BY <1>6, <2>1, <2>2, <2>3 DEF Fails, Decides, Ledger!Fail, Published
  <2>. QED  BY <2>4 DEF Ledger!Next, LedgerStep
<1>. QED  BY <1>1, <1>2, <1>3, <1>4, <1>5, <1>6, RowSteps

\* The queue implements the ledger: what is committed together is published
\* together, and the results of a promoter key appear in the order of the inputs
\* they reflect, however many workers compute, lose their claims and finish late.
THEOREM Refinement == Spec => ImplementsLedger
<1>1. Inv1 /\ Inv2 /\ Inv2' /\ Inv3 /\ [Next]_vars => [Ledger!Next]_Ledger!vars
  BY LedgerSteps DEF LedgerStep, Ledger!vars, Published
<1>. QED  BY <1>1, LedgerInit, Invariance3, PTL DEF Spec, ImplementsLedger, Ledger!Spec

-----------------------------------------------------------------------------
(* Which row is the newest *)

\* An open transaction has a start of its own, later than every row there was,
\* and the rows it inserts have distinct keys: so two rows of one key have
\* different times of creation.
BirthInv ==
    /\ \A s \in Sessions : txpc[s] # "idle" => stamp[s] # 0
    /\ \A w \in Workers : pc[w] \in {"tags", "embed"} => stamp[w] # 0
    /\ \A s, x \in Sessions : s # x /\ stamp[s] # 0 => stamp[s] # stamp[x]
    /\ \A s \in Sessions, j \in Jobs :
         key[j] # None /\ stamp[s] # 0 /\ born[j] = stamp[s] => j \in Inserted(s)
    /\ \A i, j \in Jobs : i # j /\ key[i] # None /\ key[i] = key[j] => born[i] # born[j]

\* There are no transactions and no rows.
LEMMA InitBirth == Init => BirthInv
  BY DEF Init, BirthInv

\* How a step of s that inserts nothing changes what BirthInv speaks of: it ends
\* the transaction of s, starts one, or leaves it open.
Ends(s) ==
    /\ stamp'[s] = 0 /\ txpc'[s] = "idle"
    /\ s \in Workers => pc'[s] \notin {"tags", "embed"}
Continues(s) ==
    /\ stamp'[s] = stamp[s] /\ Inserted(s) \subseteq Inserted(s)'
    /\ txpc'[s] # "idle" => txpc[s] # "idle" \/ (s \in Workers /\ pc[s] \in {"tags", "embed"})
    /\ s \in Workers /\ pc'[s] \in {"tags", "embed"} => pc[s] \in {"tags", "embed"}
Moves(s) ==
    /\ born' = born /\ \A j \in Jobs : key'[j] \in {key[j], None}
    /\ \A x \in Sessions \ {s} :
         stamp'[x] = stamp[x] /\ txpc'[x] = txpc[x] /\ Inserted(x) \subseteq Inserted(x)'
    /\ \A x \in Workers \ {s} : pc'[x] = pc[x]
    /\ Ends(s) \/ StartTransaction(s) \/ Continues(s)

\* A transaction that starts is later than every row and every other one.
LEMMA Started ==
  ASSUME Inv1, NEW s \in Sessions, StartTransaction(s)
  PROVE  /\ stamp'[s] \in Nat \ {0}
         /\ \A j \in Jobs : born[j] # stamp'[s]
         /\ \A x \in Sessions \ {s} : stamp[x] # stamp'[s] /\ stamp'[x] = stamp[x]
<1>. DEFINE past == {0} \cup {born[j] : j \in Jobs}
                        \cup {stamp[x] : x \in Sessions \ {s}}
<1>1. past \subseteq Nat
  BY DEF Inv1, TypeOK
<1>2. PICK now \in {t + 1 : t \in past} :
        (\A t \in past : t < now) /\ stamp' = [stamp EXCEPT ![s] = now]
  BY DEF StartTransaction
<1>3. now \in Nat /\ stamp'[s] = now
  BY <1>1, <1>2 DEF Inv1, TypeOK
<1>4. \A t \in past : t < now
  BY <1>2
<1>5. 0 < now /\ (\A j \in Jobs : born[j] < now)
      /\ \A x \in Sessions \ {s} : stamp[x] < now
  BY <1>4
<1>6. \A x \in Sessions \ {s} : stamp'[x] = stamp[x]
  BY <1>2 DEF Inv1, TypeOK
<1>7. \A j \in Jobs : born[j] \in Nat
  BY DEF Inv1, TypeOK
<1>8. \A x \in Sessions : stamp[x] \in Nat
  BY DEF Inv1, TypeOK
<1>. HIDE DEF past
<1>. QED  BY <1>3, <1>5, <1>6, <1>7, <1>8

\* Such a step keeps transactions and rows apart.
LEMMA BirthMoves ==
  ASSUME Inv1, BirthInv, NEW s \in Sessions, Moves(s)
  PROVE  BirthInv'
<1>. USE DEF Moves
<1>1. \A i, j \in Jobs :
         i # j /\ key'[i] # None /\ key'[i] = key'[j] => born'[i] # born'[j]
  BY DEF BirthInv
<1>2. \A x \in Sessions \ {s} :
         /\ txpc'[x] # "idle" => stamp'[x] # 0
         /\ x \in Workers /\ pc'[x] \in {"tags", "embed"} => stamp'[x] # 0
         /\ \A j \in Jobs :
              key'[j] # None /\ stamp'[x] # 0 /\ born'[j] = stamp'[x] => j \in Inserted(x)'
         /\ \A y \in Sessions \ {s} : x # y /\ stamp'[x] # 0 => stamp'[x] # stamp'[y]
  BY DEF BirthInv
<1>3. /\ txpc'[s] # "idle" => stamp'[s] # 0
      /\ s \in Workers /\ pc'[s] \in {"tags", "embed"} => stamp'[s] # 0
      /\ \A j \in Jobs :
           key'[j] # None /\ stamp'[s] # 0 /\ born'[j] = stamp'[s] => j \in Inserted(s)'
      /\ \A y \in Sessions \ {s} :
           stamp'[s] # 0 \/ stamp'[y] # 0 => stamp'[s] # stamp'[y]
  <2>1. CASE Ends(s)
    BY <2>1 DEF Ends
  <2>2. CASE StartTransaction(s)
    BY <2>2, Started
  <2>3. CASE Continues(s)
    BY <2>3 DEF Continues, BirthInv
  <2>. QED  BY <2>1, <2>2, <2>3
<1>. QED  BY <1>1, <1>2, <1>3 DEF BirthInv, Sessions

\* An INSERT uses the start of its transaction, for a key that no row of the
\* transaction has.
LEMMA BirthInsert ==
  ASSUME Inv1, Inv2, BirthInv, NEW s \in Sessions, InsertJob(s)
  PROVE  BirthInv'
<1>1. PICK k \in Keys, j \in Jobs :
        /\ Free(j) /\ k \in todo[s]
        /\ key' = [key EXCEPT ![j] = k]
        /\ lock' = [lock EXCEPT ![j] = s]
        /\ born' = [born EXCEPT ![j] = stamp[s]]
        /\ Enqueued(s, k)
  BY DEF InsertJob, IsNext
<1>2. /\ txpc[s] = "insert" /\ UNCHANGED <<status, stamp, pc>>
      /\ \A x \in Sessions \ {s} : txpc'[x] = txpc[x]
  BY <1>1 DEF InsertJob, Enqueued, Inv1, TypeOK, work
<1>3. stamp[s] # 0 /\ k # None /\ s # None
  BY <1>2, RecJobsAssumption DEF BirthInv, Sessions
<1>4. /\ key'[j] = k /\ lock'[j] = s /\ born'[j] = stamp[s]
      /\ \A i \in Jobs \ {j} : key'[i] = key[i] /\ lock'[i] = lock[i] /\ born'[i] = born[i]
  BY <1>1 DEF Inv1, TypeOK
<1>5. key[j] = None /\ status[j] = "none" /\ lock[j] = None
  BY <1>1, RecJobsAssumption DEF Free, Inv1, KeyInv
<1>6. \A x \in Sessions, i \in Jobs \ {j} : i \in Inserted(x)' <=> i \in Inserted(x)
  BY <1>2, <1>4 DEF Inserted
<1>7. \A x \in Sessions, i \in Jobs :
         key'[i] # None /\ stamp[x] # 0 /\ born'[i] = stamp[x] => i \in Inserted(x)'
  <2>. SUFFICES ASSUME NEW x \in Sessions, NEW i \in Jobs,
                       key'[i] # None, stamp[x] # 0, born'[i] = stamp[x]
       PROVE  i \in Inserted(x)'
    OBVIOUS
  <2>1. CASE i = j
    BY <1>2, <1>3, <1>4, <1>5, <2>1 DEF BirthInv, Inserted
  <2>2. CASE i # j
    BY <1>4, <1>6, <2>2 DEF BirthInv
  <2>. QED  BY <2>1, <2>2
<1>8. \A i \in Jobs \ {j} : key[i] = k => born[i] # stamp[s]
  BY <1>1, <1>3 DEF BirthInv, Inv2, InsertInv
<1>9. \A g, h \in Jobs :
         g # h /\ key'[g] # None /\ key'[g] = key'[h] => born'[g] # born'[h]
  BY <1>4, <1>8 DEF BirthInv
<1>10. /\ \A x \in Sessions : txpc'[x] # "idle" => stamp[x] # 0
       /\ \A w \in Workers : pc[w] \in {"tags", "embed"} => stamp[w] # 0
       /\ \A x, y \in Sessions : x # y /\ stamp[x] # 0 => stamp[x] # stamp[y]
  BY <1>2, <1>3 DEF BirthInv
<1>. QED  BY <1>2, <1>7, <1>9, <1>10 DEF BirthInv

\* Claims and decisions do not concern the time of creation.
LEMMA BirthStill ==
  ASSUME BirthInv, UNCHANGED <<born, key, stamp, txpc, pc>>,
         \A x \in Sessions : Inserted(x) \subseteq Inserted(x)'
  PROVE  BirthInv'
  BY DEF BirthInv

\* The lookups of create_recommendation_job leave the transaction open.
LEMMA LookupMoves ==
  ASSUME Inv1, NEW s \in Sessions,
         FindActive(s) \/ InsertViolates(s) \/ RefindActive(s) \/ InsertFails(s)
  PROVE  Moves(s)
<1>1. /\ txpc[s] # "idle" /\ UNCHANGED <<rows, work, stamp>>
      /\ \A x \in Sessions \ {s} : txpc'[x] = txpc[x]
  BY DEF FindActive, InsertViolates, RefindActive, InsertFails, Enqueued, Inv1, TypeOK
<1>. QED  BY <1>1 DEF Moves, Continues, Inserted, rows, work

\* COMMIT and ROLLBACK leave what other transactions inserted alone.
LEMMA ClosingMoves ==
  ASSUME Inv1, Inv2, NEW s \in Sessions, CloseTransaction(s), born' = born,
         \A x \in Workers \ {s} : pc'[x] = pc[x],
         s \in Workers => pc'[s] \notin {"tags", "embed"},
         \/ CommitRows(s) /\ key' = key
         \/ RollbackRows(s) /\ status' = status
  PROVE  Moves(s)
<1>1. /\ \A j \in Jobs : key'[j] \in {key[j], None}
      /\ \A x \in Sessions : Inserted(x)' = IF x = s THEN {} ELSE Inserted(x)
  BY CommitEffect, RollbackEffect DEF RollbackRows
<1>2. /\ stamp'[s] = 0 /\ txpc'[s] = "idle"
      /\ \A x \in Sessions \ {s} : stamp'[x] = stamp[x] /\ txpc'[x] = txpc[x]
  BY DEF CloseTransaction, Inv1, TypeOK
<1>. QED  BY <1>1, <1>2 DEF Moves, Ends

\* A step that is neither leaves all of it alone.
Rests ==
    /\ UNCHANGED <<born, key, stamp, txpc, pc>>
    /\ \A x \in Sessions : Inserted(x) \subseteq Inserted(x)'

\* Every step of a request is such a step, or the INSERT.
LEMMA ClientMoves ==
  ASSUME Inv1, Inv2, NEW c \in Clients,
         Request(c) \/ ClientStep(c) \/ LoseRequest(c)
  PROVE  Moves(c) \/ InsertJob(c)
<1>1. c \in Sessions /\ c \notin Workers
  BY RecJobsAssumption DEF Sessions
<1>2. CASE Request(c)
  <2>1. /\ StartTransaction(c) /\ UNCHANGED <<rows, work>>
        /\ \A x \in Sessions \ {c} : txpc'[x] = txpc[x]
    BY <1>2
       DEF Request, PostJob, ChangeConnections, GiveFeedback, EditBiography,
           RunScheduler, Begin, Inv1, TypeOK
  <2>2. \A x \in Sessions \ {c} : stamp'[x] = stamp[x]
    BY <1>1, <2>1, Started
  <2>. QED  BY <2>1, <2>2 DEF Moves, Inserted, rows, work
<1>3. CASE Enqueue(c)
  BY <1>1, <1>3, LookupMoves DEF Enqueue
<1>4. CASE CommitRequest(c) \/ AbortRequest(c) \/ LoseRequest(c)
  BY <1>1, <1>4, ClosingMoves DEF CommitRequest, AbortRequest, LoseRequest, work
<1>. QED  BY <1>2, <1>3, <1>4 DEF ClientStep

\* The refresh of a biography starts a transaction, and a new one after a commit.
LEMMA RefreshMoves ==
  ASSUME Inv1, Inv2, NEW w \in Workers,
         FetchAndInvalidate(w) \/ RefreshTags(w) \/ RefreshEmbedding(w)
  PROVE  Moves(w)
<1>1. w \in Sessions /\ w # None /\ w \in Workers
  BY RecJobsAssumption DEF Sessions
<1>2. /\ UNCHANGED <<born, key>>
      /\ \A x \in Sessions \ {w} : txpc'[x] = txpc[x]
      /\ \A x \in Workers \ {w} : pc'[x] = pc[x]
  BY DEF FetchAndInvalidate, RefreshTags, RefreshEmbedding, DerivedDataCurrent,
         DerivedDataRebuilt, Goto, rows, Inv1, TypeOK
<1>3. CASE FetchAndInvalidate(w)
  <2>1. StartTransaction(w)
    BY <1>3 DEF FetchAndInvalidate
  <2>2. \A x \in Sessions : Inserted(x) \subseteq Inserted(x)'
    BY <1>3 DEF FetchAndInvalidate, Invalidated, Inserted, Active
  <2>. QED  BY <1>1, <1>2, <2>1, <2>2, Started DEF Moves
<1>4. CASE pc[w] \in {"tags", "embed"} /\ DerivedDataRebuilt(w)
  <2>1. StartTransaction(w) /\ CommitRows(w)
    BY <1>4 DEF DerivedDataRebuilt
  <2>2. \A x \in Sessions \ {w} : Inserted(x) \subseteq Inserted(x)'
    BY <1>1, <1>2, <2>1, CommitEffect
  <2>. QED  BY <1>1, <1>2, <2>1, <2>2, Started DEF Moves
<1>5. CASE pc[w] \in {"tags", "embed"} /\ DerivedDataCurrent(w)
  BY <1>1, <1>2, <1>5 DEF DerivedDataCurrent, Moves, Continues, Inserted, rows
<1>. QED  BY <1>3, <1>4, <1>5 DEF RefreshTags, RefreshEmbedding

\* Every step of a worker is such a step, the INSERT, or leaves it all alone.
LEMMA WorkerMoves ==
  ASSUME Inv1, Inv2, NEW w \in Workers,
         WorkerStep(w) \/ Crash(w) \/ LoseListener(w) \/ LoseOutcome(w)
  PROVE  Moves(w) \/ InsertJob(w) \/ Rests
<1>1. w \in Sessions /\ w # None
  BY RecJobsAssumption DEF Sessions
<1>2. CASE Enqueue(w)
  BY <1>1, <1>2, LookupMoves DEF Enqueue
<1>3. CASE CommitRefresh(w) \/ RefreshFails(w) \/ Crash(w)
  <2>1. /\ CloseTransaction(w) /\ born' = born
        /\ \/ CommitRows(w) /\ key' = key
           \/ RollbackRows(w) /\ status' = status
        /\ \A x \in Workers \ {w} : pc'[x] = pc[x]
        /\ pc'[w] \in {"complete", "fail", "down"}
    BY <1>3 DEF CommitRefresh, RefreshFails, Crash, Goto, Inv1, TypeOK
  <2>. QED  BY <1>1, <2>1, ClosingMoves
<1>4. CASE FetchAndInvalidate(w) \/ RefreshTags(w) \/ RefreshEmbedding(w)
  BY <1>4, RefreshMoves
<1>5. CASE LoseListener(w)
  BY <1>5 DEF LoseListener, Rests, Inserted, rows, work, txn
<1>6. CASE \/ Connect(w) \/ SelectNothing(w) \/ Reconnect(w) \/ Compute(w)
           \/ ComputeFails(w) \/ CompleteRejected(w) \/ FailRejected(w)
           \/ LoseOutcome(w) \/ Recover(w) \/ Wake(w) \/ SelectJob(w) \/ ClaimJob(w)
           \/ CompleteJob(w) \/ FailJob(w)
  <2>1. /\ UNCHANGED <<born, key, stamp, txpc>>
        /\ \A x \in Workers \ {w} : pc'[x] = pc[x]
        /\ pc'[w] \notin {"tags", "embed"}
    BY <1>6
       DEF Connect, SelectNothing, Reconnect, Compute, ComputeFails,
           CompleteRejected, FailRejected, LoseOutcome, GiveUp, Recover, Wake,
           RequeueStale, SelectJob, ClaimJob, CompleteJob, FailJob, Finish, Goto,
           rows, txn, Inv1, TypeOK
  <2>2. \A x \in Sessions : Inserted(x) \subseteq Inserted(x)'
    <3>1. CASE SelectJob(w)
      BY <3>1 DEF SelectJob, Claimable, Inserted, Inv1, TypeOK
    <3>2. CASE ClaimJob(w)
      BY <3>2 DEF ClaimJob, Inserted, Inv1, TypeOK, Inv2, ClaimInv
    <3>3. CASE Recover(w) \/ Wake(w)
      BY <3>3 DEF Recover, Wake, RequeueStale, Stale, Inserted
    <3>4. CASE CompleteJob(w) \/ FailJob(w)
      BY <3>4 DEF CompleteJob, FailJob, Finish, Inserted, Inv1, TypeOK
    <3>5. CASE UNCHANGED <<status, lock>>
      BY <3>5 DEF Inserted
    <3>. QED  BY <1>6, <3>1, <3>2, <3>3, <3>4, <3>5
              DEF Connect, SelectNothing, Reconnect, Compute, ComputeFails,
                  CompleteRejected, FailRejected, LoseOutcome, GiveUp, rows
  <2>. QED  BY <1>1, <2>1, <2>2 DEF Moves, Continues
<1>. QED  BY <1>2, <1>3, <1>4, <1>5, <1>6 DEF WorkerStep

\* So is every step.
LEMMA BirthSteps ==
  ASSUME Inv1, Inv2, [Next]_vars
  PROVE  Rests \/ \E s \in Sessions : Moves(s) \/ InsertJob(s)
<1>1. CASE (\E c \in Clients : Request(c) \/ ClientStep(c)) \/ Fault
           \/ \E w \in Workers : WorkerStep(w)
  BY <1>1, ClientMoves, WorkerMoves DEF Fault, Sessions
<1>2. CASE (\E j \in Jobs : Age(j)) \/ UNCHANGED vars
  BY <1>2 DEF Age, vars, rows, work, txn, Rests, Inserted
<1>. QED  BY <1>1, <1>2 DEF Next

\* BirthInv is inductive relative to Inv1 /\ Inv2.
THEOREM Invariance4 == Spec => [](Inv1 /\ Inv2 /\ Inv3 /\ BirthInv)
<1>1. Inv1 /\ Inv2 /\ BirthInv /\ [Next]_vars => BirthInv'
  BY BirthSteps, BirthMoves, BirthInsert, BirthStill DEF Rests
<1>. QED  BY <1>1, InitBirth, Invariance3, PTL DEF Spec

\* The newest of two completed rows stays the newest, and one that was completed
\* later was computed from inputs that are not older.
LEMMA ShownStep ==
  ASSUME Inv1, Inv2, Inv3, BirthInv, [Next]_vars, NEW i \in Jobs, NEW j \in Jobs,
         IsShown(i), IsShown(j)', key[i] = key'[j], IsPromoter(key[i])
  PROVE  result[i] <= result'[j]
<1>1. status[i] = "completed" /\ status'[j] = "completed"
  BY DEF IsShown
<1>2. key[i] # None /\ key'[i] = key[i] /\ status'[i] = "completed"
  BY <1>1, KeysKept, TerminalStep, RecJobsAssumption DEF Inv1, KeyInv, Terminal
<1>3. CASE status[j] = "completed" /\ result'[j] = result[j]
  <2>1. key'[j] = key[j]
    BY <1>3, KeysKept
  <2>2. born[j] <= born[i] /\ born'[i] <= born'[j]
    BY <1>2, <1>3, <2>1 DEF IsShown
  <2>3. born'[i] = born[i] /\ born'[j] = born[j]
    <3>1. ASSUME NEW s \in Sessions, InsertJob(s)
          PROVE  born'[i] = born[i] /\ born'[j] = born[j]
      <4>1. PICK g \in Jobs : Free(g) /\ born' = [born EXCEPT ![g] = stamp[s]]
        BY <3>1 DEF InsertJob
      <4>2. status[g] = "none"
        BY <4>1, RecJobsAssumption DEF Free, Inv1, KeyInv
      <4>. QED  BY <1>1, <1>3, <4>1, <4>2 DEF Inv1, TypeOK
    <3>. QED  BY <3>1, BirthSteps DEF Moves, Rests
  <2>4. born[i] \in Nat /\ born[j] \in Nat
    BY DEF Inv1, TypeOK
  <2>5. i = j
    BY <1>2, <2>1, <2>2, <2>3, <2>4 DEF BirthInv
  <2>6. result[i] \in Nat
    BY <1>1 DEF Inv3, ResultInv
  <2>. QED  BY <1>3, <2>5, <2>6
<1>4. ASSUME NEW w \in Workers, Completes(w), job[w] = j
      PROVE  result[i] <= result'[j]
  <2>1. status[j] = "running" /\ key'[j] = key[j] /\ result'[j] = seen[w]
    BY <1>4 DEF Completes, Decides, Inv1, TypeOK
  <2>. QED  BY <1>1, <1>4, <2>1 DEF Completes, Inv3, FreshInv, Behind, Active
<1>. QED  BY <1>1, <1>3, <1>4, CompletedBy

\* What is shown for a key never goes back to a result of older inputs, although
\* superseded workers finish late (jobs.py, latest_completed_row).
THEOREM Monotonicity == Spec => ShownNeverRegresses
<1>1. Inv1 /\ Inv2 /\ Inv3 /\ BirthInv /\ [Next]_vars =>
        [\A i, j \in Jobs :
            /\ IsShown(i) /\ IsShown(j)'
            /\ key[i] = key'[j] /\ IsPromoter(key[i])
            => result[i] <= result'[j]]_vars
  BY ShownStep
<1>. QED  BY <1>1, Invariance4, PTL DEF Spec, ShownNeverRegresses

=============================================================================
