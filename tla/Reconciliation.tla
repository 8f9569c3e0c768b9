--------------------------- MODULE Reconciliation ---------------------------
(***************************************************************************)
(* Coverage reconciliation: the tables coverage_reconciliations and        *)
(* coverage_reconciliation_dates, the workers and the daily ingestion that *)
(* execute runs under one session advisory lock, and the pipelines they    *)
(* start.                                                                  *)
(*                                                                         *)
(* Every update_run and update_date of the code is a transaction of its    *)
(* own, hence a step of its own here: a process may die, or lose its lock  *)
(* to another one, between any two of them.                                *)
(***************************************************************************)
EXTENDS Integers, FiniteSets, FiniteSetsExt

CONSTANTS
    Workers,        \* replicas of coverage-reconcile-worker
    Dailies,        \* executions of app.daily_ingestion that may overlap
    LastDate,       \* bound: dates 1..LastDate exist
    Today,          \* the calendar date; earlier dates are historical
    Requests,       \* requests the operator submits
    DailyRequest,   \* the request of app.daily_ingestion
    AuditChunk,     \* audit_chunk_days
    PipelineChunk,  \* pipeline_chunk_days
    MaxAttempts,    \* max_attempts
    Gaps,           \* dates with missing events in the beginning
    Unreliable,     \* what may fail without a fault: "source", "pipeline"
    AutoDate,       \* the maximum date "auto"
    None,
    MaxRuns,        \* bound: rows of coverage_reconciliations
    MaxSubmits,     \* bound: requests of the operator and daily executions
    MaxChanges,     \* bound: spontaneous changes of the coverage of a date
    MaxFaults,      \* bound: crashes and failing statements
    MaxLosses       \* bound: lost lock sessions

Dates == 1..LastDate
Runs  == 1..MaxRuns
Procs == Workers \cup Dailies

\* requested_min_date, requested_max_date and refresh_all_future of a request.
Request == [min : Dates, max : Dates \cup {AutoDate}, all : BOOLEAN]

\* The rows of coverage_reconciliation_dates: status, pipeline_status,
\* pipeline_attempt_count.
DateRows ==
    [status : {"pending", "audited", "processing", "complete", "failed"},
     pipeline : {"pending", "running", "succeeded", "failed", "skipped"},
     attempts : Nat]

ASSUME ReconciliationAssumption ==
    /\ LastDate \in Nat \ {0} /\ Today \in Dates
    /\ AuditChunk \in Nat \ {0} /\ PipelineChunk \in Nat \ {0}
    /\ MaxAttempts \in Nat \ {0}
    /\ DailyRequest \in Request /\ DailyRequest.max # AutoDate /\ ~DailyRequest.all
    /\ \A q \in Requests : q \in Request /\ q.all
    /\ \A q \in Requests \cup {DailyRequest} : q.max # AutoDate => q.min <= q.max
    /\ Gaps \subseteq Dates /\ Unreliable \subseteq {"source", "pipeline"}
    /\ MaxRuns \in Nat /\ MaxSubmits \in Nat /\ MaxChanges \in Nat
    /\ MaxFaults \in Nat /\ MaxLosses \in Nat
    /\ Workers \cap Dailies = {} /\ None \notin Procs
    /\ None \notin Dates \cup Runs \cup Request /\ None \notin DateRows
    /\ AutoDate \notin Dates
    \* bound: two executions never discover a horizon at the same time
    /\ MaxLosses > 0 => \A q \in Requests \cup {DailyRequest} : q.max # AutoDate

Active == {"queued", "running"}

VARIABLES
    status,     \* status of a run, "none" before the row exists
    request,
    resolved,   \* resolved_max_date
    row,        \* row[r][d]: the date's row, None before initialize_dates
    cover,      \* what an audit of the date would find now
    marker,     \* import_runs records today's successful daily ingestion
    holder,     \* the session that holds the worker lock
    me,         \* the processes
    healthy,    \* history: dates found complete at some time of the execution
    submits, changes, faults, losses

table  == <<status, request, resolved, row>>
budget == <<submits, changes, faults, losses>>
vars   == <<table, cover, marker, holder, me, healthy, budget>>

\* An audit finds nothing missing, missing events, or a database that has events
\* where the source lists none (ra_empty_conflict).
Audits == {"complete", "missing", "conflict"}

\* The row that initialize_dates inserts.
NewRow == [status |-> "pending", pipeline |-> "pending", attempts |-> 0]

\* A process that executes nothing.
Idle == [pc |-> "idle", run |-> None, stage |-> "planning",
         audits |-> [d \in Dates |-> "unknown"], left |-> {}, sub |-> {},
         chunk |-> {}, todo |-> {}, base |-> 0, try |-> 0, ok |-> TRUE]

RunPCs == {"start", "discover", "init", "audit", "record", "mark", "next",
           "confirm", "child", "attempt", "success", "transient", "fatal",
           "verify", "finish"}
PCs == RunPCs \cup {"idle", "claim", "lock", "enqueue", "take", "check",
                    "refresh", "schedule", "release"}

\* The variables of a process.
Locals ==
    [pc : PCs, run : Runs \cup {None},
     stage : {"planning", "historical", "future", "final"},
     audits : [Dates -> Audits \cup {"unknown"}],
     left : SUBSET Dates, sub : SUBSET Dates, chunk : SUBSET Dates,
     todo : SUBSET Dates, base : Nat, try : 0..MaxAttempts, ok : BOOLEAN]

TypeOK ==
    /\ status \in [Runs -> Active \cup {"none", "succeeded", "failed",
                                        "future_horizon_exhausted"}]
    /\ request \in [Runs -> Request \cup {None}]
    /\ resolved \in [Runs -> Dates \cup {None}]
    /\ row \in [Runs -> [Dates -> DateRows \cup {None}]]
    /\ cover \in [Dates -> Audits]
    /\ marker \in BOOLEAN
    /\ holder \in Procs \cup {None}
    /\ me \in [Procs -> Locals]
    /\ healthy \in [Procs -> SUBSET Dates]
    /\ submits \in 0..MaxSubmits /\ changes \in 0..MaxChanges
    /\ faults \in 0..MaxFaults /\ losses \in 0..MaxLosses

Init ==
    /\ status = [r \in Runs |-> "none"]
    /\ request = [r \in Runs |-> None]
    /\ resolved = [r \in Runs |-> None]
    /\ row = [r \in Runs |-> [d \in Dates |-> None]]
    /\ cover = [d \in Dates |-> IF d \in Gaps THEN "missing" ELSE "complete"]
    /\ marker = FALSE
    /\ holder = None
    /\ me = [p \in Procs |-> Idle]
    /\ healthy = [p \in Procs |-> {}]
    /\ submits = 0 /\ changes = 0 /\ faults = 0 /\ losses = 0

----------------------------------------------------------------------------
(* Dates *)

Historical(d) == d < Today

\* The dates of run r, once its last date is known.
Span(r) == request[r].min..resolved[r]

\* date_chunks and contiguous_date_chunks yield S in pieces like this one: a
\* longest stretch without holes, at most n days long, from the first date on.
FirstChunk(S, n) ==
    {d \in S : d < Min(S) + n /\ Min(S)..d \subseteq S}

Complete(c) == {d \in Dates : c[d] = "complete"}

\* The coverage changes to c.
CoverBecomes(c) ==
    /\ cover' = c
    /\ healthy' = [p \in Procs |-> IF me[p].run = None THEN {}
                                   ELSE healthy[p] \cup Complete(c)]

----------------------------------------------------------------------------
(* The store *)

\* Mutant: a run that has succeeded is found as well.
ReusableEnded(q) == {r \in Runs : request[r] = q}

\* The run of the same request and mode that enqueue finds.
Reusable(q) ==
    {r \in Runs : request[r] = q /\ status[r] \in Active \cup {"failed"}}

\* The partial unique index knows the dates of a request but not its mode.
Taken(q) ==
    \E r \in Runs : /\ status[r] \in Active
                    /\ request[r].min = q.min /\ request[r].max = q.max

Unused == {r \in Runs : status[r] = "none"}

\* enqueue returns an active run, queues a failed one again, or inserts.
Enqueue(q, r) ==
    \/ /\ r \in Reusable(q) /\ r = Max(Reusable(q))
       /\ status[r] = "failed" => ~Taken(q)
       /\ status' = [status EXCEPT ![r] = IF @ = "failed" THEN "queued" ELSE @]
       /\ UNCHANGED <<request, resolved, row>>
    \/ /\ Reusable(q) = {} /\ ~Taken(q)
       /\ r \in Unused /\ r = Min(Unused)
       /\ status' = [status EXCEPT ![r] = "queued"]
       /\ request' = [request EXCEPT ![r] = q]
       /\ UNCHANGED <<resolved, row>>

\* enqueue raises: UniqueViolation, or (bound) the table is full.
EnqueueRaises(q) ==
    \/ /\ Taken(q)
       /\ \A r \in Reusable(q) : status[r] = "failed"
    \/ Reusable(q) = {} /\ Unused = {}

\* claim_next prefers interrupted runs to queued ones, older ones to newer ones.
Claimable ==
    LET running == {r \in Runs : status[r] = "running"} IN
    IF running # {} THEN running ELSE {r \in Runs : status[r] = "queued"}

----------------------------------------------------------------------------
(* The operator, the worker and the lock *)

\* python -m app.coverage_reconcile --background
Submit(q) ==
    /\ submits < MaxSubmits /\ submits' = submits + 1
    /\ \E r \in Runs : Enqueue(q, r)
    /\ UNCHANGED <<cover, marker, holder, me, healthy, changes, faults, losses>>

Acquire(w) ==
    /\ me[w].pc = "idle" /\ holder = None
    /\ holder' = w
    /\ me' = [me EXCEPT ![w].pc = "claim"]
    /\ UNCHANGED <<table, cover, marker, healthy, budget>>

\* p starts to execute run r.
Execute(p, r, pc) ==
    /\ me' = [me EXCEPT ![p].pc = pc, ![p].run = r]
    /\ healthy' = [healthy EXCEPT ![p] = Complete(cover)]

Claim(w) ==
    /\ me[w].pc = "claim" /\ Claimable # {}
    /\ LET r == Min(Claimable) IN
         /\ status' = [status EXCEPT ![r] = "running"]
         /\ Execute(w, r, "start")
    /\ UNCHANGED <<request, resolved, row, cover, marker, holder, budget>>

ClaimNothing(w) ==
    /\ me[w].pc = "claim" /\ Claimable = {}
    /\ me' = [me EXCEPT ![w].pc = "release"]
    /\ UNCHANGED <<table, cover, marker, holder, healthy, budget>>

\* Stop p and forget what it knew; the lock goes with its session.
Leave(p) ==
    /\ me' = [me EXCEPT ![p] = Idle]
    /\ healthy' = [healthy EXCEPT ![p] = {}]
    /\ holder' = IF holder = p THEN None ELSE holder

Release(p) ==
    /\ me[p].pc = "release"
    /\ Leave(p)
    /\ UNCHANGED <<table, cover, marker, budget>>

----------------------------------------------------------------------------
(* CoverageReconciliationOrchestrator.run *)

\* p goes on at pc with the local variables in x changed.
Local(p, x) == me' = [me EXCEPT ![p] = x]
Goto(p, pc) == Local(p, [me[p] EXCEPT !.pc = pc])

Stay    == UNCHANGED <<cover, marker, holder, healthy>>
Unmoved == Stay /\ UNCHANGED budget

SetStatus(p, s) ==
    /\ status' = [status EXCEPT ![me[p].run] = s]
    /\ UNCHANGED <<request, resolved, row>>

\* The process that executed the run looks at its status, or the worker is done.
Decided(p) == IF p \in Dailies THEN "check" ELSE "release"

\* Mutant: the failure is not stored.
RaiseSilently(p) ==
    /\ Goto(p, "release")
    /\ UNCHANGED table
    /\ Stay

\* An exception leaves run(): the run is failed, and the worker swallows the
\* exception while the daily ingestion ends with it.
Raise(p) ==
    /\ SetStatus(p, "failed")
    /\ Goto(p, "release")
    /\ Stay

Start(p) ==
    /\ me[p].pc = "start"
    /\ \/ /\ resolved[me[p].run] = None
          /\ SetStatus(p, "running")
          /\ Goto(p, "discover")
       \/ /\ resolved[me[p].run] # None
          /\ Local(p, [me[p] EXCEPT !.pc = "audit", !.left = Span(me[p].run)])
          /\ UNCHANGED table
    /\ Unmoved

\* The last date of the source within the horizon, and its storage.
Targets(q) == IF q.max = AutoDate THEN Today..LastDate ELSE {q.max}

Discover(p) ==
    /\ me[p].pc = "discover"
    /\ LET q == request[me[p].run] IN
         \E target \in Targets(q) :
            /\ q.min <= target
            /\ resolved' = [resolved EXCEPT ![me[p].run] = target]
    /\ Goto(p, "init")
    /\ UNCHANGED <<status, request, row>>
    /\ Unmoved

\* FutureHorizonExhausted: the source has events up to the horizon.
DiscoverExhausted(p) ==
    /\ me[p].pc = "discover"
    /\ request[me[p].run].max = AutoDate
    /\ SetStatus(p, "future_horizon_exhausted")
    /\ Goto(p, Decided(p))
    /\ Unmoved

\* requested min_date cannot be later than resolved max_date
DiscoverRaises(p) ==
    /\ me[p].pc = "discover"
    /\ \E target \in Targets(request[me[p].run]) : request[me[p].run].min > target
    /\ Raise(p)
    /\ UNCHANGED budget

\* initialize_dates: one transaction, ON CONFLICT DO NOTHING.
Initialize(p) ==
    /\ me[p].pc = "init"
    /\ LET r == me[p].run IN
         /\ row' = [row EXCEPT ![r] = [d \in Dates |->
                      IF d \in Span(r) /\ row[r][d] = None
                      THEN NewRow ELSE row[r][d]]]
         /\ Local(p, [me[p] EXCEPT !.pc = "audit", !.left = Span(r)])
    /\ UNCHANGED <<status, request, resolved>>
    /\ Unmoved

\* The source fails during an audit although each fetch is retried.
AuditFails(p) ==
    /\ "source" \in Unreliable
    /\ \/ me[p].pc = "discover" /\ request[me[p].run].max = AutoDate
       \/ me[p].pc = "audit"
       \/ me[p].pc = "next" /\ me[p].stage = "historical" /\ me[p].left # {}
       \/ me[p].pc = "success" /\ me[p].todo = {}
    /\ Raise(p)
    /\ UNCHANGED budget

\* _audit_window over the dates S: what p knows about them afterwards.
Audited(p, S) == [d \in Dates |-> IF d \in S THEN cover[d] ELSE me[p].audits[d]]

\* Mutant: each window of the final audit overwrites the verdict.
AuditWindowLast(p) ==
    /\ me[p].pc = "audit" /\ me[p].left # {}
    /\ LET window == FirstChunk(me[p].left, AuditChunk)
           found  == Audited(p, window)
       IN Local(p, [me[p] EXCEPT
            !.pc = IF me[p].stage = "planning" THEN "record" ELSE "verify",
            !.audits = found, !.todo = window, !.left = @ \ window,
            !.ok = me[p].stage = "final" =>
                           \A d \in window : found[d] = "complete"])
    /\ UNCHANGED table
    /\ Unmoved

\* One window of _current_audit or of _final_audit.
AuditWindow(p) ==
    /\ me[p].pc = "audit" /\ me[p].left # {}
    /\ LET window == FirstChunk(me[p].left, AuditChunk)
           found  == Audited(p, window)
       IN Local(p, [me[p] EXCEPT
            !.pc = IF me[p].stage = "planning" THEN "record" ELSE "verify",
            !.audits = found, !.todo = window, !.left = @ \ window,
            !.ok = @ /\ (me[p].stage = "final" =>
                           \A d \in window : found[d] = "complete")])
    /\ UNCHANGED table
    /\ Unmoved

(* Writing the rows of the dates in todo, one transaction each *)

Healthy(a, x) ==
    [x EXCEPT !.status = IF a = "complete" THEN "complete" ELSE "failed"]

Written(p, d) ==
    LET x == row[me[p].run][d]
        a == me[p].audits[d]
    IN CASE me[p].pc = "record" ->
              [x EXCEPT !.status = IF a = "conflict" THEN "failed" ELSE "audited"]
         [] me[p].pc = "mark" ->
              [x EXCEPT !.status = "complete", !.pipeline = "skipped"]
         [] me[p].pc = "confirm" ->
              [x EXCEPT !.status = "complete",
                        !.pipeline = IF @ = "pending" THEN "skipped" ELSE @]
         [] me[p].pc = "attempt" ->
              [status |-> "processing", pipeline |-> "running",
               attempts |-> me[p].base + me[p].try]
         [] me[p].pc = "success" -> [x EXCEPT !.pipeline = "succeeded"]
         [] me[p].pc \in {"transient", "fatal"} ->
              [x EXCEPT !.status = "failed", !.pipeline = "failed"]
         [] me[p].pc = "verify" -> Healthy(a, x)

WriteDate(p) ==
    /\ me[p].pc \in RunPCs /\ me[p].todo # {}
    /\ LET r == me[p].run
           d == Min(me[p].todo)
       IN /\ row[r][d] # None
          /\ row' = [row EXCEPT ![r][d] = Written(p, d)]
          /\ Local(p, [me[p] EXCEPT !.todo = @ \ {d}])
    /\ UNCHANGED <<status, request, resolved>>
    /\ Unmoved

\* latest[audit["date"]] raises KeyError when the date has no row.
DateUnknown(p) ==
    /\ me[p].pc = "record" /\ me[p].todo # {}
    /\ row[me[p].run][Min(me[p].todo)] = None
    /\ Raise(p)
    /\ UNCHANGED budget

\* p has written all rows and stands at pc.
Wrote(p, pc) == me[p].pc = pc /\ me[p].todo = {}

----------------------------------------------------------------------------
(* Historical repair, future refresh *)

Pipeline(p, d) == row[me[p].run][d].pipeline

\* _repair_historical: dates without gaps are complete, the others are left.
PlanHistorical(p) ==
    /\ Wrote(p, "record") /\ me[p].left = {}
    /\ LET past == {d \in Span(me[p].run) : Historical(d)}
           a    == me[p].audits
       IN Local(p, [me[p] EXCEPT
            !.pc = "mark", !.stage = "historical",
            !.ok = \A d \in past : a[d] # "conflict",
            !.todo = {d \in past : a[d] = "complete" /\ Pipeline(p, d) = "pending"},
            !.left = {d \in past : a[d] = "missing"}])
    /\ UNCHANGED table
    /\ Unmoved

\* _refresh_future: in a gap-only run, dates without gaps are skipped, unless a
\* pipeline is on record for them.
PlanFuture(p) ==
    /\ me[p].pc = "next" /\ me[p].stage = "historical" /\ me[p].left = {}
    /\ LET future == {d \in Span(me[p].run) : ~Historical(d)}
           a      == me[p].audits
           all    == request[me[p].run].all
       IN Local(p, [me[p] EXCEPT
            !.pc = "mark", !.stage = "future",
            !.todo = {d \in future : /\ ~all /\ a[d] # "missing"
                                     /\ Pipeline(p, d) \in {"pending", "failed"}},
            !.left = {d \in future : \/ a[d] = "missing"
                                     \/ all /\ Pipeline(p, d) # "succeeded"}])
    /\ UNCHANGED table
    /\ Unmoved

\* A chunk of historical gaps is audited again: if nothing is missing any more
\* its dates are confirmed, otherwise the gaps are handed to child pipelines.
Recheck(p) ==
    /\ me[p].pc = "next" /\ me[p].stage = "historical" /\ me[p].left # {}
    /\ LET outer == FirstChunk(me[p].left, PipelineChunk)
           found == Audited(p, outer)
           gaps  == {d \in outer : found[d] = "missing"}
       IN Local(p, [me[p] EXCEPT
            !.audits = found, !.left = @ \ outer, !.sub = gaps,
            !.pc = IF gaps = {} THEN "confirm" ELSE "child",
            !.todo = IF gaps = {} THEN outer ELSE {}])
    /\ UNCHANGED table
    /\ Unmoved

\* A chunk of future dates goes to one pipeline.
NextFuture(p) ==
    /\ me[p].pc = "next" /\ me[p].stage = "future" /\ me[p].left # {}
    /\ LET outer == FirstChunk(me[p].left, PipelineChunk) IN
         Local(p, [me[p] EXCEPT !.left = @ \ outer, !.sub = outer, !.pc = "child"])
    /\ UNCHANGED table
    /\ Unmoved

\* _run_pipeline_chunk starts from the highest attempt on record in the chunk.
Attempts(p, S) == {row[me[p].run][d].attempts : d \in S}

StartChild(p) ==
    /\ me[p].pc = "child" /\ me[p].sub # {}
    /\ LET chunk == FirstChunk(me[p].sub, PipelineChunk) IN
         Local(p, [me[p] EXCEPT
            !.pc = "attempt", !.chunk = chunk, !.sub = @ \ chunk, !.todo = chunk,
            !.base = Max(Attempts(p, chunk)), !.try = 1])
    /\ UNCHANGED table
    /\ Unmoved

\* A pipeline over the dates S imports missing events.  A reliable one imports
\* all of them; one that fails may have imported some before it failed.
Import(S) ==
    LET gaps == {d \in S : cover[d] = "missing"} IN
    \E fixed \in (IF "pipeline" \in Unreliable THEN SUBSET gaps ELSE {gaps}) :
        CoverBecomes([d \in Dates |-> IF d \in fixed THEN "complete" ELSE cover[d]])

RunPipeline(p) ==
    /\ Wrote(p, "attempt")
    /\ Import(me[p].chunk)
    /\ \E outcome \in {"success", "transient", "fatal"} :
         /\ outcome # "success" => "pipeline" \in Unreliable
         /\ Local(p, [me[p] EXCEPT !.pc = outcome, !.todo = me[p].chunk])
    /\ UNCHANGED <<table, marker, holder, budget>>

Retry(p) ==
    /\ Wrote(p, "transient")
    /\ Local(p, IF me[p].try < MaxAttempts
                THEN [me[p] EXCEPT !.pc = "attempt", !.try = @ + 1,
                                   !.todo = me[p].chunk]
                ELSE [me[p] EXCEPT !.pc = "child", !.ok = FALSE])
    /\ UNCHANGED table
    /\ Unmoved

PipelineRaises(p) ==
    /\ Wrote(p, "fatal")
    /\ Raise(p)
    /\ UNCHANGED budget

\* Mutant: the verification repeats the audit of the plan.
VerifyFromPlan(p) ==
    /\ Wrote(p, "success")
    /\ LET found == me[p].audits IN
         Local(p, [me[p] EXCEPT
            !.pc = "verify", !.audits = found, !.todo = me[p].chunk,
            !.ok = @ /\ \A d \in me[p].chunk : found[d] = "complete"])
    /\ UNCHANGED table
    /\ Unmoved

\* _verify_chunk
Verify(p) ==
    /\ Wrote(p, "success")
    /\ LET found == Audited(p, me[p].chunk) IN
         Local(p, [me[p] EXCEPT
            !.pc = "verify", !.audits = found, !.todo = me[p].chunk,
            !.ok = @ /\ \A d \in me[p].chunk : found[d] = "complete"])
    /\ UNCHANGED table
    /\ Unmoved

\* The loops of run() go on when a set of rows is written or used up.
Continue(p) ==
    /\ \/ Wrote(p, "record") /\ me[p].left # {} /\ Goto(p, "audit")
       \/ (Wrote(p, "mark") \/ Wrote(p, "confirm")) /\ Goto(p, "next")
       \/ Wrote(p, "verify") /\ me[p].stage # "final" /\ Goto(p, "child")
       \/ Wrote(p, "verify") /\ me[p].stage = "final"
            /\ Goto(p, IF me[p].left = {} THEN "finish" ELSE "audit")
       \/ me[p].pc = "child" /\ me[p].sub = {} /\ Goto(p, "next")
       \/ me[p].pc = "next" /\ me[p].stage = "future" /\ me[p].left = {}
            /\ Local(p, [me[p] EXCEPT !.pc = "audit", !.stage = "final",
                                      !.left = Span(me[p].run)])
    /\ UNCHANGED table
    /\ Unmoved

\* The future dates must have gone through a pipeline, or in a gap-only run have
\* been skipped.
FutureComplete(p) ==
    \A d \in Span(me[p].run) : ~Historical(d) =>
        \/ Pipeline(p, d) = "succeeded"
        \/ ~request[me[p].run].all /\ Pipeline(p, d) = "skipped"

\* Mutant: without future_complete.
FinishAudited(p) ==
    /\ me[p].pc = "finish"
    /\ SetStatus(p, IF me[p].ok THEN "succeeded" ELSE "failed")
    /\ Goto(p, Decided(p))
    /\ Unmoved

Finish(p) ==
    /\ me[p].pc = "finish"
    /\ SetStatus(p, IF me[p].ok /\ FutureComplete(p) THEN "succeeded" ELSE "failed")
    /\ Goto(p, Decided(p))
    /\ Unmoved

RunStep(p) ==
    \/ Start(p) \/ Discover(p) \/ DiscoverExhausted(p) \/ DiscoverRaises(p)
    \/ Initialize(p) \/ AuditWindow(p) \/ AuditFails(p) \/ WriteDate(p)
    \/ DateUnknown(p) \/ PlanHistorical(p) \/ PlanFuture(p) \/ Recheck(p)
    \/ NextFuture(p) \/ StartChild(p) \/ RunPipeline(p) \/ Retry(p)
    \/ PipelineRaises(p) \/ Verify(p) \/ Continue(p) \/ Finish(p)

----------------------------------------------------------------------------
(* app.daily_ingestion *)

\* has_successful_single_day_run, before the lock is taken.
CheckMarker(p) ==
    /\ me[p].pc = "idle"
    /\ submits < MaxSubmits /\ submits' = submits + 1
    /\ Goto(p, IF marker THEN "idle" ELSE "lock")
    /\ UNCHANGED <<table, changes, faults, losses>>
    /\ Stay

LockOrBusy(p) ==
    /\ me[p].pc = "lock"
    /\ \/ holder = None /\ holder' = p /\ Goto(p, "enqueue")
       \/ holder # None /\ UNCHANGED holder /\ Goto(p, "idle")
    /\ UNCHANGED <<table, cover, marker, healthy, budget>>

DailyEnqueue(p) ==
    /\ me[p].pc = "enqueue"
    /\ \/ \E r \in Runs :
            /\ Enqueue(DailyRequest, r)
            /\ Local(p, [me[p] EXCEPT !.pc = "take", !.run = r])
       \/ EnqueueRaises(DailyRequest) /\ Goto(p, "release") /\ UNCHANGED table
    /\ Unmoved

Take(p) ==
    /\ me[p].pc = "take"
    /\ SetStatus(p, "running")
    /\ Execute(p, me[p].run, "start")
    /\ UNCHANGED <<cover, marker, holder, budget>>

CheckResult(p) ==
    /\ me[p].pc = "check"
    /\ Goto(p, IF status[me[p].run] = "succeeded" THEN "refresh" ELSE "release")
    /\ UNCHANGED table
    /\ Unmoved

\* The forced refresh is a full pipeline; its import run is the success marker.
Refresh(p) ==
    /\ me[p].pc = "refresh"
    /\ Import({d \in Dates : ~Historical(d)})
    /\ \/ marker' = TRUE /\ Goto(p, "schedule")
       \/ "pipeline" \in Unreliable /\ UNCHANGED marker /\ Goto(p, "release")
    /\ UNCHANGED <<table, holder, budget>>

\* The recommendation scheduler, in a process of its own.
Schedule(p) ==
    /\ me[p].pc = "schedule"
    /\ Goto(p, "release")
    /\ UNCHANGED table
    /\ Unmoved

----------------------------------------------------------------------------
(* The world and faults *)

Change(d) ==
    /\ changes < MaxChanges /\ changes' = changes + 1
    /\ \E a \in Audits \ {cover[d]} : CoverBecomes([cover EXCEPT ![d] = a])
    /\ UNCHANGED <<table, marker, holder, me, submits, faults, losses>>

\* The process dies, or a statement fails and storing the failure fails too.
Crash(p) ==
    /\ me[p].pc # "idle"
    /\ faults < MaxFaults /\ faults' = faults + 1
    /\ Leave(p)
    /\ UNCHANGED <<table, cover, marker, submits, changes, losses>>

\* A statement inside run() fails, and the failure is stored.
StatementFails(p) ==
    /\ me[p].pc \in RunPCs
    /\ faults < MaxFaults /\ faults' = faults + 1
    /\ Raise(p)
    /\ UNCHANGED <<submits, changes, losses>>

\* The session of the lock ends while its process goes on.
LoseLock(p) ==
    /\ holder = p
    /\ losses < MaxLosses /\ losses' = losses + 1
    /\ holder' = None
    /\ UNCHANGED <<table, cover, marker, me, healthy, submits, changes, faults>>

----------------------------------------------------------------------------

WorkerStep(w) == Acquire(w) \/ Claim(w) \/ ClaimNothing(w)

DailyStep(p) ==
    LockOrBusy(p) \/ DailyEnqueue(p) \/ Take(p) \/ CheckResult(p) \/ Refresh(p)
        \/ Schedule(p)

Next ==
    \/ \E q \in Requests : Submit(q)
    \/ \E w \in Workers : WorkerStep(w)
    \/ \E p \in Dailies : CheckMarker(p) \/ DailyStep(p)
    \/ \E p \in Procs : RunStep(p) \/ Release(p)
    \/ \E d \in Dates : Change(d)
    \/ \E p \in Procs : Crash(p) \/ StatementFails(p) \/ LoseLock(p)

Spec == Init /\ [][Next]_vars

\* The services are restarted (restart: unless-stopped) and poll for ever; an
\* execution that has begun goes on.
Fairness ==
    /\ \A w \in Workers : WF_vars(WorkerStep(w) \/ RunStep(w) \/ Release(w))
    /\ \A p \in Dailies : WF_vars(DailyStep(p) \/ RunStep(p) \/ Release(p))

FairSpec == Spec /\ Fairness

----------------------------------------------------------------------------
(* Properties *)

\* A run that is reported as succeeded has a complete row for each of its dates,
\* and its future dates went through a pipeline or were skipped as its mode
\* allows: what the status command reports agrees with the run's verdict.
SucceededIsComplete ==
    \A r \in Runs : status[r] = "succeeded" =>
        \A d \in Span(r) :
            /\ row[r][d] # None
            /\ row[r][d].status = "complete"
            /\ ~Historical(d) => row[r][d].pipeline \in
                 {"succeeded"} \cup (IF request[r].all THEN {} ELSE {"skipped"})

\* A verdict other than failed is final, and a failed run only returns to the
\* queue: enqueue never revives a run that has succeeded.
VerdictIsFinal ==
    [][\A r \in Runs :
         /\ status[r] \in {"succeeded", "future_horizon_exhausted"} =>
              status'[r] = status[r]
         /\ status[r] = "failed" => status'[r] \in {"failed", "queued"}]_vars

\* A run is marked succeeded only by an execution during which each of its dates
\* was complete at some time, even if two executions overlap because a lock
\* session was lost.
SuccessWasTrue ==
    [][\A p \in Procs :
         LET r == me[p].run IN
         /\ me[p].pc = "finish" /\ me'[p].pc # "finish"
         /\ r # None /\ status'[r] = "succeeded"
         => Span(r) \subseteq healthy[p] \/ status[r] = "succeeded"]_vars

\* Every run that is queued or running is decided in the end, whatever fails.
RunIsDecided ==
    \A r \in Runs : status[r] \in Active ~> status[r] \notin Active

\* A pipeline that failed a date of the run is on record, or one that reported
\* success and left the date incomplete.
PipelineFailed(r) ==
    \E d \in Dates :
        /\ row[r][d] # None
        /\ \/ row[r][d].pipeline = "failed"
           \/ row[r][d].pipeline = "succeeded" /\ cover[d] # "complete"

\* A run succeeds unless a pipeline failed it or a fault struck, even if a lock
\* session was lost and two processes execute it.
RunSucceeds ==
    \A r \in Runs :
        status[r] \in Active
            ~> status[r] = "succeeded" \/ PipelineFailed(r) \/ faults > 0
=============================================================================
