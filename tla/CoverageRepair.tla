--------------------------- MODULE CoverageRepair ---------------------------
(***************************************************************************)
(* Coverage repair: the tables coverage_runs and coverage_run_dates, the   *)
(* coverage workers and the launchers (python -m app.coverage_agent        *)
(* --apply) that execute runs under one session advisory lock, the         *)
(* pipelines they start, and the source whose listings they compare with.  *)
(*                                                                         *)
(* Every update_run and update_date is a transaction, hence a step, of its *)
(* own: a process may die, or lose its lock, between any two of them.      *)
(***************************************************************************)
EXTENDS Integers, FiniteSets, FiniteSetsExt, Functions

CONSTANTS
    Workers,        \* replicas of coverage-worker
    Launchers,      \* operators' commands that may overlap
    LastDate,       \* bound: dates 1..LastDate exist
    Ranges,         \* ranges the operators ask for, pairs <<min, max>>
    MaxAttempts,    \* max_attempts of a run
    MaxBackfills,   \* COVERAGE_AGENT_MAX_BACKFILLS_PER_RUN
    Gaps,           \* dates with missing events in the beginning
    None,
    MaxRuns,        \* bound: rows of coverage_runs
    MaxCommands,    \* bound: commands of the operators
    MaxNews,        \* bound: spontaneous changes of what an audit finds
    MaxCrashes,     \* bound: processes that die
    MaxErrors,      \* bound: statements and lookups that raise
    MaxFailures,    \* bound: audits and pipelines that fail
    MaxLosses,      \* bound: lost lock sessions
    MaxEvents       \* bound: all of these together, a lost session counting twice

Dates == 1..LastDate
Runs  == 1..MaxRuns
Procs == Workers \cup Launchers
DateRows ==
    [status : {"pending", "audited", "repairing", "complete", "failed"},
     backfill : {"pending", "running", "succeeded", "failed", "skipped"},
     attempts : 0..MaxAttempts,
     verify : {"pending", "running", "succeeded", "failed", "skipped"},
     checks : 0..MaxAttempts]

ASSUME RepairAssumption ==
    /\ LastDate \in Nat \ {0} /\ Gaps \subseteq Dates
    /\ \A g \in Ranges : g \in Dates \X Dates /\ g[1] <= g[2]
    /\ MaxAttempts \in 1..5 /\ MaxBackfills \in Nat \ {0}
    /\ Workers \cap Launchers = {}
    /\ None \notin Procs \cup Dates \cup Runs
    /\ None \notin Ranges /\ None \notin DateRows
    /\ MaxRuns \in Nat /\ MaxCommands \in Nat /\ MaxNews \in Nat
    /\ MaxCrashes \in Nat /\ MaxErrors \in Nat /\ MaxLosses \in Nat
    /\ MaxFailures \in Nat /\ MaxEvents \in Nat

VARIABLES
    status,    \* coverage_runs.status, "none" before the row exists
    range,     \* min_date and max_date of a run
    row,       \* row[r][d]: the row of coverage_run_dates
    found,     \* what a successful audit of the date finds at the moment
    holder,    \* the session that holds COVERAGE_WORKER_ADVISORY_LOCK_KEY
    inserting, \* the session that holds COVERAGE_ENQUEUE_ADVISORY_LOCK_KEY
    me,        \* the processes
    started,   \* history: pipelines started for a date of a run
    confirmed, \* history: the last audit of the date in the run saw no gap
    budget     \* how often each bounded kind of event has happened

table == <<status, range, row>>
ghost == <<started, confirmed>>
vars  == <<table, found, holder, inserting, me, ghost, budget>>

Active == {"queued", "running"}

DatesOf(r) == range[r][1]..range[r][2]

(***************************************************************************)
(* An audit compares the listings with the database. What is missing but   *)
(* quarantined as not resolvable at the source is not counted as missing;  *)
(* a failed audit has no counts at all.                                    *)
(***************************************************************************)
Findings == {"complete", "empty_on_ra", "missing_events",
             "complete_with_source_unresolvable"}
Failures == {"audit_failed", "audit_failed_retryable"}
Missing(a) == a = "missing_events"      \* missing_count > 0
Failed(a)  == a \in Failures
Covered(a) == a \in {"complete", "empty_on_ra"}

Outcomes(d) == {found[d]} \cup Failures

Limit == [commands |-> MaxCommands, news |-> MaxNews, crashes |-> MaxCrashes,
          errors |-> MaxErrors, failures |-> MaxFailures, losses |-> MaxLosses]
Events == DOMAIN Limit

NewRow == [status |-> "pending", backfill |-> "pending", attempts |-> 0,
           verify |-> "pending", checks |-> 0]

\* A process that executes nothing; audit and seen are the local variables
\* initial_by_date and existing_rows, left the dates a loop has still to visit.
Idle == [pc |-> "idle", run |-> None, audit |-> None, seen |-> None,
         left |-> {}, date |-> None, try |-> 0]

\* The steps of CoverageRepairOrchestrator.run inside its try block.
Guarded == {"audit", "record", "next", "attempt", "probe", "backfill", "child", "store",
            "verify", "reread", "recount", "recheck", "giveup", "final",
            "refinal", "verdict"}
Executing == Guarded \cup {"start", "abort"}
PCs == Executing \cup {"idle", "claim", "insert", "enqueued", "lock"}

TypeOK ==
    /\ status \in [Runs -> Active \cup {"none", "succeeded", "failed"}]
    /\ \A r \in Runs :
          /\ range[r] \in Ranges \cup {None} /\ (range[r] = None <=> status[r] = "none")
          /\ \A d \in Dates : row[r][d] \in DateRows \cup {None}
    /\ found \in [Dates -> Findings]
    /\ holder \in Procs \cup {None} /\ inserting \in Launchers \cup {None}
    /\ \A p \in Procs :
          /\ me[p].pc \in PCs /\ me[p].run \in Runs \cup {None}
          /\ me[p].left \subseteq Dates /\ me[p].date \in Dates \cup {None}
          /\ me[p].try \in 0..MaxAttempts + 1
    /\ started \in [Runs -> [Dates -> Nat]]
    /\ confirmed \in [Runs -> SUBSET Dates]
    /\ \A e \in Events : budget[e] \in 0..Limit[e]

Init ==
    /\ status = [r \in Runs |-> "none"]
    /\ range = [r \in Runs |-> None]
    /\ row = [r \in Runs |-> [d \in Dates |-> None]]
    /\ found = [d \in Dates |-> IF d \in Gaps THEN "missing_events" ELSE "complete"]
    /\ holder = None /\ inserting = None
    /\ me = [p \in Procs |-> Idle]
    /\ started = [r \in Runs |-> [d \in Dates |-> 0]]
    /\ confirmed = [r \in Runs |-> {}]
    /\ budget = [e \in Events |-> 0]

(***************************************************************************)
(* Requests                                                                *)
(***************************************************************************)
ActiveOf(g) == {r \in Runs : status[r] \in Active /\ range[r] = g}

\* coverage_runs_active_range_unique_idx
IndexAllows(r) == ActiveOf(range[r]) \subseteq {r}

Goto(p, pc) == me' = [me EXCEPT ![p].pc = pc]
Enter(p, pc, r) == me' = [me EXCEPT ![p] = [Idle EXCEPT !.pc = pc, !.run = r]]
Together(spent) == FoldFunction(+, spent.losses, spent)
Spend(what) ==
    /\ budget[what] < Limit[what]
    /\ budget' = [budget EXCEPT ![what] = @ + 1]
    /\ Together(budget') <= MaxEvents

\* enqueue up to its lookup, which the advisory transaction lock serialises.
Enqueue(p, g) ==
    /\ me[p].pc = "idle" /\ inserting = None
    /\ Spend("commands")
    /\ IF ActiveOf(g) # {}
       THEN Enter(p, "enqueued", Max(ActiveOf(g))) /\ UNCHANGED <<table, inserting>>
       ELSE \E r \in Runs :
              /\ status[r] = "none" /\ \A q \in 1..r-1 : status[q] # "none"
              /\ inserting' = p
              /\ me' = [me EXCEPT ![p] = [Idle EXCEPT !.pc = "insert", !.run = r,
                                                      !.audit = g]]
              /\ UNCHANGED table
    /\ UNCHANGED <<found, holder, ghost>>

\* The INSERT of the run and of its dates, in one transaction; the row of a run
\* that was reopened since the lookup makes the unique index refuse it.
InsertRun(p) ==
    /\ me[p].pc = "insert"
    /\ LET r == me[p].run  g == me[p].audit IN
       IF ActiveOf(g) # {}
       THEN me' = [me EXCEPT ![p] = Idle] /\ UNCHANGED table
       ELSE /\ status' = [status EXCEPT ![r] = "queued"]
            /\ range' = [range EXCEPT ![r] = g]
            /\ row' = [row EXCEPT ![r] = [d \in Dates |->
                         IF d \in g[1]..g[2] THEN NewRow ELSE None]]
            /\ Enter(p, "enqueued", r)
    /\ inserting' = None
    /\ UNCHANGED <<found, holder, ghost, budget>>

\* --background: the launcher reports the run and is done.
Background(p) ==
    /\ me[p].pc = "enqueued"
    /\ me' = [me EXCEPT ![p] = Idle]
    /\ UNCHANGED <<table, found, holder, inserting, ghost, budget>>

\* Otherwise it takes the worker lock, or fails because a worker is active.
Foreground(p) ==
    /\ me[p].pc = "enqueued"
    /\ IF holder = None THEN holder' = p /\ Enter(p, "start", me[p].run)
                        ELSE me' = [me EXCEPT ![p] = Idle] /\ UNCHANGED holder
    /\ UNCHANGED <<table, found, inserting, ghost, budget>>

(***************************************************************************)
(* The worker's loop                                                       *)
(***************************************************************************)
AcquireLock(w) ==
    /\ me[w].pc = "idle" /\ holder = None
    /\ holder' = w /\ Goto(w, "claim")
    /\ UNCHANGED <<table, found, inserting, ghost, budget>>

NextQueued(r) ==            \* mutant: a run that was left behind is not claimed
    status[r] = "queued" /\ \A q \in 1..r-1 : status[q] # "queued"
\* claim_next: a running run first, whoever left it behind, then the oldest.
NextRun(r) ==
    IF \E q \in Runs : status[q] = "running"
    THEN r = Min({q \in Runs : status[q] = "running"})
    ELSE status[r] = "queued" /\ \A q \in 1..r-1 : status[q] # "queued"

Claim(w) ==
    /\ me[w].pc = "claim"
    /\ \E r \in Runs :
          /\ NextRun(r)
          /\ status' = [status EXCEPT ![r] = "running"]
          /\ Enter(w, "start", r)
    /\ UNCHANGED <<range, row, found, holder, inserting, ghost, budget>>

(***************************************************************************)
(* CoverageRepairOrchestrator.run                                          *)
(***************************************************************************)
\* A worker looks for the next run; a launcher releases the lock and exits.
Leave(p) ==
    IF p \in Workers THEN Enter(p, "claim", None) /\ UNCHANGED holder
    ELSE /\ me' = [me EXCEPT ![p] = Idle]
         /\ holder' = IF holder = p THEN None ELSE holder

\* The process ends, and its session with it.
Exit(p) ==
    /\ me' = [me EXCEPT ![p] = Idle]
    /\ holder' = IF holder = p THEN None ELSE holder

\* update_run(status = "running") is not guarded by the status: a launcher
\* reopens a run that was decided while it waited. The unique index may object.
Start(p) ==
    /\ me[p].pc = "start"
    /\ LET r == me[p].run IN
       IF IndexAllows(r)
       THEN /\ status' = [status EXCEPT ![r] = "running"]
            /\ me' = [me EXCEPT ![p].pc = "audit", ![p].seen = row[r]]
            /\ UNCHANGED holder
       ELSE Exit(p) /\ UNCHANGED status
    /\ UNCHANGED <<range, row, found, inserting, ghost, budget>>

\* What a step of p records about its run, or about a date of it.
Decide(p, verdict) == status' = [status EXCEPT ![me[p].run] = verdict]
Store(p, d, values) ==
    row' = [row EXCEPT ![me[p].run][d] =
              [c \in DOMAIN @ |-> IF c \in DOMAIN values THEN values[c] ELSE @[c]]]
Saw(p, audit) ==
    confirmed' = [confirmed EXCEPT ![me[p].run] =
        {d \in DOMAIN audit : ~Missing(audit[d]) /\ ~Failed(audit[d])}
            \cup (@ \ DOMAIN audit)]
Audited(p, audit) ==
    /\ Saw(p, audit)
    /\ IF \E d \in DOMAIN audit : Failed(audit[d]) THEN Spend("failures")
                                               ELSE UNCHANGED budget
AuditedDate(p, d, a) == Audited(p, [x \in {d} |-> a])

RangeAudits(r) == {a \in [DatesOf(r) -> Findings \cup Failures] :
                     \A d \in DatesOf(r) : a[d] \in {found[d], "audit_failed"}}

\* audit_range over the run's dates, one after the other.
InitialAudit(p) ==
    /\ me[p].pc = "audit"
    /\ \E a \in RangeAudits(me[p].run) :
          /\ Audited(p, a)
          /\ me' = [me EXCEPT ![p].pc = "record", ![p].audit = a,
                              ![p].left = DOMAIN a]
    /\ UNCHANGED <<table, found, holder, inserting, started>>

\* A covered date is complete; a backfill that was interrupted has succeeded.
InitialValues(a, old) ==
    IF ~Covered(a) THEN [status |-> "audited"]
    ELSE LET backfill == CASE old.backfill = "pending" -> "skipped"
                           [] old.backfill \in {"running", "failed"} -> "succeeded"
                           [] OTHER -> old.backfill
         IN [status |-> "complete", backfill |-> backfill,
             verify |-> IF backfill = "skipped" THEN "skipped"
                        ELSE IF old.verify = "skipped" THEN old.verify
                        ELSE "succeeded"]

\* After the last date: a failed audit, or more gaps than MaxBackfills, fails
\* the run; otherwise the dates with missing events are repaired in order.
AfterAudit(p) ==
    LET a == me[p].audit
        gaps == {d \in DOMAIN a : Missing(a[d])}
    IN IF (\E d \in DOMAIN a : Failed(a[d])) \/ Cardinality(gaps) > MaxBackfills
       THEN Enter(p, "abort", me[p].run)
       ELSE me' = [me EXCEPT ![p] = [Idle EXCEPT !.pc = "next", !.run = me[p].run,
                                                 !.left = gaps]]

RecordInitial(p) ==
    /\ me[p].pc = "record"
    /\ LET d == Min(me[p].left) IN
       /\ Store(p, d, InitialValues(me[p].audit[d], me[p].seen[d]))
       /\ IF me[p].left = {d} THEN AfterAudit(p)
          ELSE me' = [me EXCEPT ![p].left = @ \ {d}]
    /\ UNCHANGED <<status, range, found, holder, inserting, ghost, budget>>

(***************************************************************************)
(* _repair_date                                                            *)
(***************************************************************************)
MayTry(count) == count < MaxAttempts
\* The attempt after the stored ones, and a date whose attempts are used up.
TryFrom(p, d, pc, count) ==
    me' = [me EXCEPT ![p].date = d, ![p].try = count + 1,
                     ![p].pc = IF MayTry(count) THEN pc ELSE "giveup"]
Again(p, pc) == TryFrom(p, me[p].date, pc, me[p].try)
Repaired(p) == me' = [me EXCEPT ![p].pc = "next", ![p].left = @ \ {me[p].date},
                                ![p].date = None, ![p].try = 0]

Afresh(stored) == stored.attempts - stored.attempts       \* mutant
ResumeFrom(stored) == stored.attempts
IsBackfilled(stored) == stored.backfill = "succeeded"

\* A backfill that succeeded, in this or an earlier execution, is only verified.
NextDate(p) ==
    /\ me[p].pc = "next"
    /\ IF me[p].left = {} THEN Goto(p, "final")
       ELSE LET d == Min(me[p].left)  stored == row[me[p].run][d] IN
            IF IsBackfilled(stored)
            THEN me' = [me EXCEPT ![p].pc = "reread", ![p].date = d]
            ELSE TryFrom(p, d, "attempt", ResumeFrom(stored))
    /\ UNCHANGED <<table, found, holder, inserting, ghost, budget>>

Attempt(p) ==
    /\ me[p].pc = "attempt"
    /\ Store(p, me[p].date, [status |-> "repairing", backfill |-> "running",
                             attempts |-> me[p].try])
    /\ Goto(p, "probe")
    /\ UNCHANGED <<status, range, found, holder, inserting, ghost, budget>>

\* The audit of the attempt: only a date with missing events is backfilled.
Probe(p) ==
    /\ me[p].pc = "probe"
    /\ LET d == me[p].date IN \E a \in Outcomes(d) :
       /\ AuditedDate(p, d, a)
       /\ CASE Failed(a) ->
                 /\ Store(p, d, [backfill |-> "failed"])
                 /\ IF a = "audit_failed" THEN Goto(p, "giveup") ELSE Again(p, "attempt")
            [] Missing(a) -> Goto(p, "backfill") /\ UNCHANGED row
            [] OTHER ->
                 /\ Store(p, d, [status |-> "complete", backfill |-> "skipped",
                                 verify |-> "skipped"])
                 /\ Repaired(p)
    /\ UNCHANGED <<status, range, found, holder, inserting, started>>

\* run_backfill starts full_pipeline.py for the date and waits for it.
RunBackfill(p) ==
    /\ me[p].pc = "backfill"
    /\ started' = [started EXCEPT ![me[p].run][me[p].date] = @ + 1]
    /\ Goto(p, "child")
    /\ UNCHANGED <<table, found, holder, inserting, confirmed, budget>>

\* The pipeline ran to its end; what it could not fetch may be quarantined.
BackfillDone(p) ==
    /\ me[p].pc = "child"
    /\ \E f \in {found[me[p].date], "complete", "complete_with_source_unresolvable"} :
          found' = [found EXCEPT ![me[p].date] = f]
    /\ Goto(p, "store")
    /\ UNCHANGED <<table, holder, inserting, ghost, budget>>

\* A timeout, a broken connection, or exit code 75: another pipeline runs.
BackfillTransient(p) ==
    /\ me[p].pc = "child"
    /\ Spend("failures")
    /\ Store(p, me[p].date, [backfill |-> "failed"])
    /\ Again(p, "attempt")
    /\ UNCHANGED <<status, range, found, holder, inserting, ghost>>

\* Any other exit code, or an unknown error, ends the run.
BackfillFatal(p) ==
    /\ me[p].pc = "child"
    /\ Spend("failures")
    /\ Store(p, me[p].date, [status |-> "failed", backfill |-> "failed"])
    /\ Enter(p, "abort", me[p].run)
    /\ UNCHANGED <<status, range, found, holder, inserting, ghost>>

StoreBackfill(p) ==
    /\ me[p].pc = "store"
    /\ Store(p, me[p].date, [backfill |-> "succeeded"])
    /\ Goto(p, "verify")
    /\ UNCHANGED <<status, range, found, holder, inserting, ghost, budget>>

\* verify_date: a failed audit has a missing_count of 0, so the date is stored
\* complete until the retry of the verification overwrites it.
Verify(p) ==
    /\ me[p].pc = "verify"
    /\ LET d == me[p].date IN \E a \in Outcomes(d) :
       /\ AuditedDate(p, d, a)
       /\ Store(p, d, [checks |-> 1,
                       verify |-> IF Missing(a) THEN "failed" ELSE "succeeded",
                       status |-> IF Missing(a) THEN "failed" ELSE "complete"])
       /\ CASE Failed(a)  -> Goto(p, "reread")
            [] Missing(a)    -> Goto(p, "giveup")
            [] OTHER         -> Repaired(p)
    /\ UNCHANGED <<status, range, found, holder, inserting, started>>

\* _verify_with_retry: the stored count, a counted attempt, its audit.
Reread(p) ==
    /\ me[p].pc = "reread"
    /\ TryFrom(p, me[p].date, "recount", row[me[p].run][me[p].date].checks)
    /\ UNCHANGED <<table, found, holder, inserting, ghost, budget>>

Recount(p) ==
    /\ me[p].pc = "recount"
    /\ Store(p, me[p].date, [status |-> "repairing", verify |-> "running",
                             checks |-> me[p].try])
    /\ Goto(p, "recheck")
    /\ UNCHANGED <<status, range, found, holder, inserting, ghost, budget>>

Recheck(p) ==
    /\ me[p].pc = "recheck"
    /\ LET d == me[p].date IN \E a \in Outcomes(d) :
       /\ AuditedDate(p, d, a)
       /\ CASE Failed(a) ->
                 /\ Store(p, d, [verify |-> "failed"])
                 /\ IF a = "audit_failed" THEN Goto(p, "giveup") ELSE Again(p, "recount")
            [] Missing(a) ->
                 /\ Store(p, d, [status |-> "failed", verify |-> "failed"])
                 /\ Goto(p, "giveup")
            [] OTHER ->
                 /\ Store(p, d, [status |-> "complete", verify |-> "succeeded"])
                 /\ Repaired(p)
    /\ UNCHANGED <<status, range, found, holder, inserting, started>>

\* RecoverableRepairAttemptsExhausted
GiveUp(p) ==
    /\ me[p].pc = "giveup"
    /\ Store(p, me[p].date, [status |-> "failed"])
    /\ Repaired(p)
    /\ UNCHANGED <<status, range, found, holder, inserting, ghost, budget>>

(***************************************************************************)
(* The final audit and the verdict                                         *)
(***************************************************************************)
FinalAudit(p) ==
    /\ me[p].pc = "final"
    /\ \E a \in RangeAudits(me[p].run) :
          /\ Audited(p, a)
          /\ me' = [me EXCEPT ![p].pc = "refinal", ![p].audit = a,
                              ![p].left = DOMAIN a]
    /\ UNCHANGED <<table, found, holder, inserting, started>>

FinalStatusByCount(a) == IF Missing(a) THEN "failed" ELSE "complete"   \* mutant
FinalStatus(a) == IF Covered(a) THEN "complete" ELSE "failed"

RecordFinal(p) ==
    /\ me[p].pc = "refinal"
    /\ LET d == Min(me[p].left) IN
       /\ Store(p, d, [status |-> FinalStatus(me[p].audit[d])])
       /\ me' = [me EXCEPT ![p].left = @ \ {d},
                           ![p].pc = IF me[p].left = {d} THEN "verdict" ELSE @]
    /\ UNCHANGED <<status, range, found, holder, inserting, ghost, budget>>

NothingMissing(a) == \A d \in DOMAIN a : ~Missing(a[d])  \* mutant: total_missing = 0
\* The status of the range: complete, and nothing is not resolvable at the source.
Converged(a) == \A d \in DOMAIN a : Covered(a[d])

Verdict(p) ==
    /\ me[p].pc = "verdict"
    /\ Decide(p, IF Converged(me[p].audit) THEN "succeeded" ELSE "failed")
    /\ Leave(p)
    /\ UNCHANGED <<range, row, found, inserting, ghost, budget>>

\* _mark_run_failed
Abort(p) ==
    /\ me[p].pc = "abort"
    /\ Decide(p, "failed")
    /\ Leave(p)
    /\ UNCHANGED <<range, row, found, inserting, ghost, budget>>

(***************************************************************************)
(* The environment                                                         *)
(***************************************************************************)
\* A statement or a lookup raises: inside the try block the run is marked
\* failed, outside of it the process ends.
Raise(p) ==
    /\ Spend("errors")
    /\ \/ me[p].pc \in Guarded /\ Enter(p, "abort", me[p].run) /\ UNCHANGED holder
       \/ me[p].pc \in {"claim", "start", "abort"} /\ Exit(p)
    /\ UNCHANGED <<table, found, inserting, ghost>>

\* The process dies; PostgreSQL ends its session and releases its locks.
Crash(p) ==
    /\ me[p].pc # "idle"
    /\ Spend("crashes")
    /\ Exit(p)
    /\ inserting' = IF inserting = p THEN None ELSE inserting
    /\ UNCHANGED <<table, found, ghost>>

\* The session of the lock breaks; the process that held it does not notice.
LoseSession ==
    /\ holder # None
    /\ Spend("losses")
    /\ holder' = None
    /\ UNCHANGED <<table, found, inserting, me, ghost>>

\* The source lists or withdraws events, somebody imports some, or a quarantine
\* entry expires.
News ==
    /\ Spend("news")
    /\ \E d \in Dates, f \in Findings :
          f # found[d] /\ found' = [found EXCEPT ![d] = f]
    /\ UNCHANGED <<table, holder, inserting, me, ghost>>

Advance(p) ==
    \/ Start(p) \/ InitialAudit(p) \/ RecordInitial(p) \/ NextDate(p)
    \/ Attempt(p) \/ Probe(p) \/ RunBackfill(p) \/ BackfillDone(p)
    \/ BackfillTransient(p) \/ BackfillFatal(p) \/ StoreBackfill(p)
    \/ Verify(p) \/ Reread(p) \/ Recount(p) \/ Recheck(p) \/ GiveUp(p)
    \/ FinalAudit(p) \/ RecordFinal(p) \/ Verdict(p) \/ Abort(p)

Operator(p) == InsertRun(p) \/ Background(p) \/ Foreground(p)
Loop(w) == AcquireLock(w) \/ Claim(w)

Next ==
    \/ \E p \in Launchers : Operator(p) \/ \E g \in Ranges : Enqueue(p, g)
    \/ \E w \in Workers : Loop(w)
    \/ \E p \in Procs : Advance(p) \/ Raise(p) \/ Crash(p)
    \/ LoseSession \/ News

Fairness ==
    /\ \A p \in Launchers : WF_vars(Operator(p))
    /\ \A w \in Workers : WF_vars(Loop(w))
    /\ \A p \in Procs : WF_vars(Advance(p))

Spec == Init /\ [][Next]_vars
FairSpec == Spec /\ Fairness

(***************************************************************************)
(* Properties                                                              *)
(***************************************************************************)
Decided(r) == status[r] \in {"succeeded", "failed"}
LockLost == budget.losses > 0

\* A run that is reported succeeded has no date that its last audit found
\* uncovered, could not audit, or left without a verdict.
SucceededIsCovered ==
    ~LockLost => \A r \in Runs : status[r] = "succeeded" =>
        \A d \in DatesOf(r) : row[r][d].status = "complete" /\ d \in confirmed[r]

\* When no statement raises, a date that a decided run reports complete was
\* confirmed by the last audit of that date, although a verification that could
\* not be carried out stores the date as complete for a while.
CompleteIsConfirmed ==
    budget.errors = 0 /\ ~LockLost => \A r \in Runs : Decided(r) =>
        \A d \in DatesOf(r) : row[r][d].status = "complete" => d \in confirmed[r]

\* The attempts of a date bound the pipelines that are started for it, over all
\* executions of the run: also when a worker dies in the middle of each.
BackfillsAreBounded ==
    ~LockLost => \A r \in Runs, d \in Dates : started[r][d] <= MaxAttempts

\* Every run is decided, whoever executes it, dies with it or leaves it behind.
RunIsDecided ==
    \A r \in Runs : status[r] \in Active ~> Decided(r)
=============================================================================
