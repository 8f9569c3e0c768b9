# A verification of scenegraph

scenegraph is a FastAPI backend over PostgreSQL (psycopg, no ORM), a React
frontend, a set of scrapers and a family of background processes. It collects
events from an external listing site, connects artists, promoters and venues,
and recommends promoters to artists. This directory holds TLA+ modules that
model the stateful parts of the program, TLC configurations that check them on
small instances, and proofs checked by TLAPS. Paths are relative to the
repository; `app/` stands for `src/backend/app/`.

## 1. Inventory

| Component | State it keeps | Operations | What is hard |
| --- | --- | --- | --- |
| Recommendation job queue (`app/recommendations/jobs.py`) | table `recommendation_jobs` with a partial unique index on active promoter rows | create, claim, re-queue, complete, fail, invalidate | READ COMMITTED transactions that wait for each other on index entries and row locks; late outcomes |
| Worker (`app/recommendations/worker.py`) | a LISTEN connection, the job in hand | `run_worker`, `_drain_queued_jobs`, `_run_job` | wake-ups, crashes, lost connections, failing to store a failure |
| Biography refresh (`app/artist_refresh.py`) | tags and embedding of an artist | `refresh_artist_derived_data` | it commits in the middle of its caller's transaction |
| Scheduler (`app/recommendations/scheduler.py`) | none | one transaction that enqueues a job per eligible account | a long transaction whose rows are older than they look |
| Request handlers (`app/routers/{recommendation_jobs,artist_connections,feedback,artists}.py`) | none | change data and enqueue a job in one transaction | several of them at once for one artist |
| Job updates to browsers (`app/recommendations/job_events.py`, the WebSocket of `app/routers/recommendation_jobs.py`, two frontend files) | sockets per user, a LISTEN connection, what a tab waits for | register, send, resync, read again | updates while the listener or a socket is gone, answers that overtake each other |
| Coverage repair (`app/coverage_{runs,repair,worker}.py`) | `coverage_runs`, `coverage_run_dates`, a session advisory lock | enqueue, claim, audit, backfill, verify | crashes between persisted steps, bounded attempts, a lock that can be lost |
| Coverage reconciliation (`app/coverage_reconciliation*.py`, `app/coverage_reconcile*.py`) | `coverage_reconciliations` and their dates, a session advisory lock | enqueue (revives failed runs), discover horizon, audit, repair history, refresh future, final audit | resuming after a crash at any point |
| Daily ingestion (`app/daily_ingestion.py`) | none of its own | reconciliation of the recent past and near future, a forced refresh, the scheduler | check before lock; runs at most once per date |
| Full pipeline (`scripts/full_pipeline.py`, `app/pipeline_lock.py`, `app/import_run_logger.py`) | `import_runs` and their stages, a session advisory lock, a browser | a sequence of stages | what remains of a killed run, log writes that swallow their errors |
| Stages of the pipeline (`scripts/import_events.py`, `backfill_*.py`, `extract_*_tags.py`, `generate_embeddings.py`, `validate_import.py`) with tags and embeddings (`app/*_tag_extraction.py`, `app/embeddings.py`, `app/text_profiles.py`) | texts, normalised texts, tags under a hash, embeddings with a vector column | import, normalise, tag, embed, validate | calls of language models between reading a text and storing what was made of it |
| Quarantine (`app/ingestion_quarantine.py`) | rows of items that could not be processed | quarantine, resolve, retry | upsert against resolve |
| Parsers (`src/parsers/`) | JSON archives per year, the list of artists, the file of biographies | list, fetch, save in checkpoints, extract, scrape, chain all of it | interruptions between two files, three processes that watch each other's files |
| Accounts (`app/admin/users.py`, `app/routers/{session,admin_users}.py`, `app/auth.py`, `app/bootstrap.py`) | `users`, `artist_claims`, `artists` | register, approve, reject, change role, deactivate, activate, unbind, delete | a request is authorised before its handler runs |
| Supervisor (`app/supervisor/`) | a JSON state file, the message offset of a chat | observe, notify, poll, approve an action | the order of effect and record |
| Dashboard refresh (`app/routers/dashboard_ws.py`) | sockets, a LISTEN connection, a debounce timer | listen, collect, send | a timer restarted by every change |
| Scoring, reading endpoints, the rest of the frontend | none that outlives a call | - | pure computation and SQL reads |

How they interact. The request handlers, the scheduler and the worker meet only
in PostgreSQL: in `recommendation_jobs` and in the channel
`recommendation_job_created`. A trigger publishes each status change on a second
channel that the API processes forward to browsers. Coverage repair,
reconciliation and daily ingestion start the full pipeline as a child process;
the pipeline's own advisory lock excludes a second pipeline, and exit code 75
reports it. Its first stage runs the parsers, its later stages write what the
parsers left in files to the database. Daily ingestion runs the recommendation
scheduler as its last step, and reconciliation and daily ingestion share one
worker lock. The supervisor reads `import_runs`.

What makes each component correct is listed with its hazards in PROJECT.json; in
one sentence each:

- job queue: one active row per key, one claim in force per row, decided rows
  never change, nothing queued is forgotten, results do not go back in time;
- job updates: a tab that waits for a decided job comes to show its verdict;
- coverage repair and reconciliation: a date is reported complete only if an audit
  found it complete, pipelines are bounded, every run is decided;
- pipeline: at most one works at a time, and its log and exit code claim no more than
  was done;
- stages: the tags under a hash are those of its text, no entity of a run is forgotten,
  and later runs repair what races left behind (but for two overlapping extractions,
  section 6);
- parsers: what ends well is complete, and nothing saved is lost;
- accounts: an artist has at most one holder, there is always an administrator;
- supervisor: no command is passed over, an approved action is carried out again only
  after the record of it was lost, and an outcome is told unless its notification is cut
  short by a failure or the command line tool has stored it first.

## 2. Modules

`RecJobs` models the job queue with everything that touches it.

| TLA+ | Code |
| --- | --- |
| `status`, `key`, `born`, `started`, `result` | committed columns status; job_type, user_id, artist_id, params_hash; created_at; started_at; result_json |
| `lock[j]` | the session whose open transaction holds row j |
| `rev[a]` | a counter of the committed inputs that recommendations for artist a are computed from |
| `pc`, `job`, `seen` | where a worker stands, its claimed row, the inputs it has read |
| `listening`, `inbox` | the worker's LISTEN connection and the notifications it has not consumed |
| `txpc`, `todo`, `change`, `stamp`, `tries` | an open transaction: where `create_recommendation_job` stands, the keys still to enqueue, the artist whose inputs it changes, its CURRENT_TIMESTAMP, its failed INSERTs |
| `lapsed` | history: the worker's claim was re-queued while it worked |
| `sent`, `faults` | what the bounds count |

Transactions are modelled at the level the code relies on. PostgreSQL runs at READ
COMMITTED: every statement sees what is committed when it starts, and its own
transaction's changes. A row with status `none` and a lock is an INSERT that is not
yet committed: other sessions do not see it, but the unique index makes them wait
(`InDoubt`). A row locked by a worker that refreshes a biography is being
invalidated; others still see it active, its UPDATEs and its index entry wait. A COMMIT
(`CommitRows`) publishes all changes of the session at once and then delivers the
notifications; a ROLLBACK, or the end of the session, removes its inserts and its
locks (`RollbackRows`). `created_at` is the start of the transaction
(`StartTransaction`). The computation reads the inputs in one step: the revision
recorded is the oldest that any of its queries saw.

Operations and actions: `create_recommendation_job` is `FindActive`, `InsertJob`,
`InsertViolates`, `RefindActive`, one SQL statement each, so that every
interleaving of two requests is explored. `claim_next_recommendation_job` is
`SelectJob` (FOR UPDATE SKIP LOCKED) and `ClaimJob` (UPDATE and COMMIT).
`requeue_stale_running_jobs` is `RequeueStale`, executed inside `Recover` and
`Wake`. `complete_recommendation_job` and `fail_recommendation_job` are `Finish` with
the guard `status = 'running'`. `refresh_artist_derived_data` is
`FetchAndInvalidate`, `RefreshTags`, `RefreshEmbedding`: the second and third
commit if they rebuilt something and keep the transaction open otherwise, as
the code does; then `_run_job` enqueues on the same connection and
`CommitRefresh` ends the transaction. Requests are `PostJob`, `ChangeConnections`, `GiveFeedback`
(known artists and feedback), `EditBiography`, `RunScheduler`; they end in
`CommitRequest` or `AbortRequest`. Faults are `Crash`, `LoseListener`,
`LoseOutcome`, `LoseRequest`. `Age` lets the reclaim window of a running row pass.
Next to some definitions stands a mutant of the same operation, which a plausible
mistake would produce; no specification uses it.

`JobLedger` is the abstract specification: committed rows are published, claimed,
given back and decided. `RecJobs` implements it (`ImplementsLedger`) under the
mapping that hides the key of an uncommitted row. It states what a client of the
table may rely on: a transaction publishes and withdraws rows as a whole, at most
one active row per promoter key, terminal rows are final, and results of a key appear
in the order of the inputs they reflect. The last is not obvious: a superseded
worker may finish late. It holds because a row that lapsed keeps its key active, so
no younger row of the key exists until one of the workers on it has decided it, and
all others are then rejected.

`Reconciliation` models the reconciliation worker, the daily ingestion and the
table they share.

| TLA+ | Code |
| --- | --- |
| `status`, `request`, `resolved` | status; requested_min_date, requested_max_date and refresh_all_future; resolved_max_date of a run |
| `row[r][d]` | a row of `coverage_reconciliation_dates`: status, pipeline_status, pipeline_attempt_count |
| `holder` | the session with the advisory lock of `acquire_worker_lock` |
| `marker` | `import_runs` has a successful run for today's `dailyIngestDate` |
| `me[p]` | the local variables of a process: `stage` is the phase, `audits` the dictionary of `_current_audit`, `left` the chunks still to come, `sub` and `chunk` the child chunks, `todo` the rows of the loop it is in, `base` and `try` the attempts, `ok` the conjunction of historical_ok, future_ok, audit_ok |
| `cover[d]` | what an audit of date d finds: nothing missing, something missing, or events in the database only |
| `healthy[p]` | history: dates that were complete at some time of p's execution |

Every `update_run` and `update_date` opens a connection and commits, so each is a
step (`WriteDate` for the loops over dates, `Written` for what each loop writes)
and a process can die or be overtaken between any two. An audit of a window, and
the re-read of the run at the start of a phase together with the decisions made from
it, are one step each. Actions follow the code in its order: `Start`, `Discover`,
`Initialize`, `AuditWindow`, `PlanHistorical`, `Recheck`, `StartChild`, `RunPipeline`,
`Retry`, `Verify`, `PlanFuture`, `NextFuture`, the windows of the final audit,
`Finish`; `Continue` collects the loop ends without an effect. The daily ingestion
is `CheckMarker`, `LockOrBusy`, `DailyEnqueue`, `Take`, the run itself, `CheckResult`,
`Refresh`, `Schedule`. `Enqueue` and `EnqueueRaises` are the two outcomes of the
store's `enqueue`; the latter includes the unique index, which ignores the mode of a
request. `AuditFails`, `RunPipeline` and `Import` fail only where `Unreliable` allows
it; an unreliable pipeline may import part of the events before it fails.
`Crash`, `StatementFails` and `LoseLock` are bounded faults.

Abstracted: a date is "historical" or "future" by a constant (`Today`), as the column
period keeps it for the life of a run; events that cannot be resolved at the source
count as present, as in the code; the columns initial_*, final_*, phase and error are
not modelled because no decision reads them. A bound: an instance with lost locks has
no request with an automatic horizon, because two executions could then resolve it
differently.

`CoverageRepair` models the repair runs: `coverage_runs` and `coverage_run_dates`
(`status`, `range`, `row[r][d]`), the advisory lock as the session that holds it
(`holder`), a second lock around the INSERT (`inserting`), and per process the local
variables of `CoverageRepairOrchestrator.run` (`me[p]`). Workers take the lock and claim
the oldest active run; a launcher (`python -m app.coverage_agent --apply`) either inserts
a run and exits (`Background`) or waits for the lock and executes its own (`Foreground`).
Every `update_run` and `update_date` is a step, in the order of the code: `InitialAudit`,
`RecordInitial`, `NextDate`, `Attempt`, `Probe`, `RunBackfill` with its three outcomes,
`StoreBackfill`, `Verify`, `Reread`, `Recount`, `Recheck`, `GiveUp`, `FinalAudit`,
`RecordFinal`, `Verdict`; `Abort` and `Raise` are the exception path. An audit has the
outcomes of `coverage.py` per date. Crashes, raising statements, failing audits and
pipelines, lost sessions and changes at the source are bounded one by one and together.

`Accounts` has the rows of `users` and `artist_claims`, the artists, what refers to them
(`used`), and `ready`: requests whose authorisation ran in the thread pool while their
handler has not. Handlers are coroutines that never await, so each is one step, but any
of them may come between the two halves of another request. `RegisterExisting` and
`RegisterNew` are `POST /register`; `Approve`, `Reject`, `Deactivate`, `Activate`, `Unbind`,
`ChangeRole`, `ChangeSetting` are `app/admin/users.py`; `UseArtist` stands for every
request that stores a reference to an artist; `RestartApi` is `create_bootstrap_admin`.

`Ownership` is the abstract specification of `Accounts`: an artist is taken, confirmed,
withdrawn or given back, by one step at a time, and a profile goes only together with an
unconfirmed claim to it. `Accounts` implements it (`ImplementsOwnership`) with the claims as
`holders`, the links of accounts as `owned`, and `used` and the deleted artists as
they are. Roles, statuses and stale authorisations do not occur in it: changing
them alone moves no artist, in `activate_user` and `deactivate_user` for example.

`Ingestion` models executions of `full_pipeline.py` (`pc`, `launch`, `todo`), the log they
write (`runs[l]`: status of the run and of its stages, beside what was really done and
the exit code), the session-level lock and the browser, and the scheduled command that
launches one of them and then runs the recommendation scheduler. A log write may fail
without the pipeline noticing, a session with the lock may be lost, processes are killed.

`Enrichment` models what the stages do to the data: rows with text and normal form, tags
with the texts they are really from beside the stored hash (and whether another
extraction overlapped when they were stored, `alone`), embeddings with the profile
they are of and the vector column, quarantine attempts. The pipeline, a retry from
quarantine and refresh jobs execute the same tagging steps (`CheckExtraction`,
`Extract`, `InsertTags`, `Collide`, `Resolve`), while users edit biographies, an admin
uploads events and the source changes. Of an extraction that overlaps another one the
DELETE sees only what is committed: what it missed (`missed`) stays beside its tags. A text
is a version number; a call of a model lies between two steps.

`ScrapeEvents` models `parse_past_events.py`: archive files per year, the memory of the
parser, the quarantine, checkpoints of one file after the other. `Scrape` extends it with
`run_ra_pipeline.py`, `extract_artists.py` and the watch of `artists_bio.py`: three
processes that know of each other through files, signatures of files and exit codes.
Signatures are reduced to "the archive as it is now" or "an older one". A pipeline that is
killed leaves its children running (`Interrupted`); that the next one starts only when
they have ended (`StartPipeline`) is assumed, since the code does not see to it: two parsers,
or two scrapers, would overwrite each other's files.

`Supervisor` has the log of runs, an inbox of commands, the state file (notification
keys, proposals, offset) and the worker's turn: `Monitor`, `Observe`, `Notify`, `Poll`,
`Inquire`, `Propose`, `Decline`, `Execute`, `Executed`, `Acknowledge`. Telegram, the session and
the process may fail between any two of them. The command line tool uses the same file
without a lock: it reads a run, loads the file and saves what it loaded, each a step of
its own (`CliReads`, `CliLoads`, `CliSaves`), so a save may put back an older file.
The worker holds a loaded file across another step only while it carries out an action
(`Execute`, `Executed`); elsewhere its load and save are one step, and a save of the tool
between the two would be overwritten whole, as if it had never been made. Of the history,
`proposals` counts how often each action was carried out and how often the record of that
was lost, by a death before the save or by the tool; `missed` has the outcomes whose
notification was cut short.

`JobEvents` has notifications on their way (`channel`), the listener, the hub with its
sockets, and the tab: its socket, the signals that reach it, its reads of the job and
what it shows. The rows themselves move as `RecJobs` allows (`Claimed`, `Decided`,
`Invalidated`, `Requeued`). Lost sessions, sockets, processes and reads are the faults.

`Panel` is its abstract specification, what the user sees: a tab asks, a job is decided, the
waiting ends with the verdict of the job asked for last or with an error. `JobEvents`
implements it (`ImplementsPanel`) under a mapping that keeps which jobs are decided
and `request`, `watched` and `shown`; notifications, sockets and reads are hidden. The
abstract step looks at the job itself, the code at an answer that may be old, of another
request or of another job; a verdict shown for an earlier request, or after the waiting
has ended, would be no step.

The modules `MC...` give the instances for TLC; the theorems about a module `M` are in
`M_proofs`, those about `Accounts` and `JobEvents` (both parts of the API process) in
`Api_proofs`, those about `ScrapeEvents` and `Scrape` in `Scrape_proofs`.

## 3. Runs

In RecJobs users are 1 (owns the artist) and 2 (an administrator); a transaction that
needs a row beyond MaxJobs fails like any database error (`InsertFails`).

| Run | Instance | Question |
| --- | --- | --- |
| RecJobs_claims | 2 workers, 1 client, 2 rows, 2 requests, 1 fault, fairness | Is a row executed under two claims in force, never claimed, or changed after it was decided? Do results shown go back in time? |
| RecJobs_mixed | 1 worker, 2 clients and 2 users, 3 rows, 2 requests of every kind and the scheduler, 1 fault, fairness | Do concurrent inserts keep one active row per key; is each commit a step of JobLedger; does every request end? |
| RecJobs_stranded | 1 worker, 1 row, 1 fault, fairness | Finding, section 6 |
| JobEvents | 1 tab, 1 job, 2 requests, 2 faults, fairness | Does a tab that waits for a decided job have a reason to read it again under way, and show the verdict of its last request in the end? Is what it shows that of a tab that looks at the job itself? |
| Recon_repair | daily ingestion, worker, 3 dates, 2 runs, failing source and pipeline, 1 change, 1 fault | Is a succeeded run complete, is a verdict final? |
| Recon_lost | daily ingestion, worker, 2 dates, a lost lock and a fault, fairness | Is a success true although two processes execute the run, is every run decided, does an undisturbed one succeed? |
| CovRepair | 1 worker, 2 launchers, 2 dates, 2 overlapping ranges, 3 incidents, fairness | Are verdicts and complete dates backed by audits, pipelines bounded over all executions, and runs decided? |
| Accounts | 2 admins, 2 registrants, 1 artist, 1 waiting request | Can two accounts hold an artist, claim and link disagree, the last admin vanish? Is every request at most one step of an artist's ownership? |
| Ingestion | 2 processes, 2 launches, 2 scheduled starts, 1 fault, fairness | Do two pipelines work at once, do log and exit code tell the truth, is the lock given back? |
| Enrich | 1 artist, 1 event, 1 refresh worker, pipeline, retry, 2 incidents, fairness | Are the tags under a hash those of its text unless two extractions overlapped, is anything forgotten, do later runs repair what races left? |
| Scrape | 2 events, 1 artist, 2 months, 2 years, 2 runs, 1 fault, fairness | Is a run that ends well complete, does anything saved vanish from the archive or from the biographies, does the list follow the archive, does the pipeline end? |
| Supervisor | 2 chats, 1 run, 3 messages, 1 fault or 1 use of the command line, fairness | Is an action carried out again although the record of it is there, is an update passed over? Are commands handled and outcomes told? |

Why the bounds are enough. In RecJobs all guards relate one row, its holder and at most
one other session. Two workers suffice for every race about a claim, two clients (or a
client and a worker that enqueues) for every race about a key, and a third row is
needed only where a row is created while another one of the key is finished and a
third is active or in doubt. One fault can strike at every step; a second one at a
worker that has just restarted finds it in a state that Init already covers.
Deadlock is not checked in RecJobs: idle workers sleep in LISTEN.

In Reconciliation three dates give one historical date and a chunk of two future
ones, the least with which chunks and windows are cut, a chunk holds dates with
different numbers of attempts, and a loop over rows can be interrupted in the
middle. Two runs let a gap-only request meet another one. Submits are bounded by two:
a request and its repetition. Its workers poll, so deadlock is checked.

In CoverageRepair two dates, of which one is in both ranges, are the least with which two
runs touch the same date and one date of a run can be decided while another is open; two
attempts distinguish the first, the last and the interrupted one. The system stops when
all runs are decided and no command is left, as it does in Ingestion, Enrichment, Scrape,
Supervisor and JobEvents when their bounds are used up: deadlock is not checked there.

In Accounts every guard looks at one account, the holders of one artist and the number of
admins. Two admins can deactivate each other, two registrants can claim the same artist,
and one waiting request is what a race of two requests needs. The accounts of one kind are exchangeable and no liveness is checked, so
symmetry is used.

In Ingestion two processes contend for the lock, one of them possibly the scheduled one,
and the second launch meets what the first left behind. In Enrichment two incidents make
two versions beyond the first: an edit that is overtaken by another. A profile is made of
the entity's own text and tags, so artists and events meet only in the line-up: the
scope of a run, and the locks of an import. One artist who plays the one event has both.
In Scrape two
events in the files of two years, one of them in the single file of earlier versions,
and listed in different months, let an event move between files that are written one
after the other; a second run loads what the first
left. The artist plays at one of them only, so the list depends on when a shard is read.
In Supervisor one fault lets an update be delivered again, and three messages are a
proposal, a decision and its repetition (`MCConversations` lists the conversations). A use
of the command line spans any part of them. It takes the place of the fault: `MaxFaults`
bounds the two together, and either alone can lose the record
of an action or a notification, or bring an update back. In JobEvents the second request is
asked while the answers of the first are under way, and a second fault strikes while the
first is repaired; with one tab the hub has up to five connections, old and new.

Not run, but proved in section 5: the type invariants of the modules (that of `RecJobs` says that
an INSERT is tried twice at most), and two invariants that what is run implies,
`ShownIsLatest` (by `ImplementsPanel`: a step of Panel keeps it) and `ReferencesAreKept` (by
`ImplementsOwnership`: a deleted profile is not referred to, and nothing is taken or referred
to afterwards).

The theorems of section 5 lift the bounds for every invariant, every property of steps and
the three refinements that the passing runs check. The liveness properties are checked on these
instances alone, and so is that every action can happen.

## 4. Fairness

`RecJobs.FairSpec` assumes weak fairness of every step of a worker (the process runs;
Compose restarts it, `src/docker-compose.yml` restart: unless-stopped; `run_worker`
reconnects in a loop), of a request that has arrived, and of time: one formula for each
client, one for each worker and one for time, each about all of its steps. Requests
and faults are never obliged to happen. Weak fairness of a whole worker is enough:
a session that waits for a lock is enabled again as soon as the holder ends, and
every holder's own steps are fair. Nothing is assumed about which alternative a
step takes: the computation and the refresh may fail each time.

In Reconciliation the worker polls for ever and is restarted
(`docker-compose.prod.yml` 168-172), and a daily execution that has begun goes on:
weak fairness of each process as a whole. Operators, daily executions, changes and
faults are never obliged to happen, and an unreliable pipeline may fail every time.
CoverageRepair assumes the same of launchers that were started, of the loop of each worker,
and of the execution of a run. Ingestion: a process that runs is scheduled and its child
ends, which nothing in the code bounds (`subprocess.run` at `full_pipeline.py` 295 has no
time-out): `LockIsReturned` holds if the stages end. Launches owe nothing. Enrichment: a
run, a retry or a refresh job that has begun goes on; `RunsRepair` itself says "if runs cover the entity again and
again". Scrape: parser, scraper and pipeline go on as long as they can, and the listing of
a month ends: the loop over its pages (`parse_past_events.py` 911) has no limit, so
`ScrapeEnds` needs a source whose pages end. Supervisor: the
worker's loop runs and a request to Telegram is answered in the end; the monitor has
strong fairness, because its interval passes whether or not messages keep coming.
JobEvents: the listener reconnects for ever (`job_events.py` 97-120), a browser notices a
lost socket, connects again and gets answers to its reads; that a job is ever decided is
not assumed there, it is `JobIsDecided` of RecJobs. Accounts has no fairness.

## 5. Proofs

`RecJobs_proofs` proves for all values of the constants:

- `TypeCorrect`: `Spec => []TypeOK`. TypeOK is not inductive alone: `tries` stays
  in 0..1 only because a third attempt is never made, the row a worker handles is a
  row only while its program counter says so, and the key of that row must be a key.
  `Inv1` adds these facts: a worker past `select` has a row, that row has a key, a
  session that enqueues has something to enqueue. `Invariance1` proves `Inv1`
  with one lemma per action, `TypeCorrect` drops the additions.
- `Uniqueness`: `Spec => []OneActivePerKey`. The property speaks of committed rows,
  so it says nothing of an insert in doubt. `UniqueInv` counts those as well: two rows
  of a promoter key may coexist only while one transaction has invalidated the
  first and inserted the second (a biography refresh does), and its COMMIT turns
  the first to failed in the same step. `LockInv` and `InsertInv` are what COMMIT and
  ROLLBACK need: a held row is not decided, and a session has inserted only keys that
  it no longer has to do.
- `ExclusiveClaims`: `Spec => []ClaimIsExclusive`. By `ForceInv` a claim in force
  keeps its row out of the queue, by `ClaimInv` a row between SELECT and COMMIT is
  queued; so the row a worker claims is under no other claim in force.
- `Finality`: `Spec => TerminalIsFinal`. By `LockInv` no transaction holds a decided
  row, and the two final UPDATEs look for a running one.
- `Refinement`: `Spec => ImplementsLedger`. A row counts for the ledger from its commit on:
  `RowSteps` sorts all steps into those that commit nothing and five that are steps of
  JobLedger. That a result is never older than one of its key needs `FreshInv`: what a worker
  read is not ahead of the inputs, and while its row is active no result of the key is ahead
  of what it read, since to overtake it another row of the key would have to be active.
- `Monotonicity`: `Spec => ShownNeverRegresses`. The newest row is that with the latest start of
  a transaction. `BirthInv` says that two rows of a key never have the same: an open
  transaction is later than every row but its own inserts, and these have distinct keys.

`Invariance2` proves `Inv1 /\ Inv2` inductive, `Invariance3` adds `Inv3` (`FreshInv` and the
types of results), `Invariance4` adds `BirthInv`. `Inv2` collects the five parts of the first
three and their two state properties. Most steps of one session leave the claims of others alone, which is
stated once (`RespectsClaims`, `ClaimsKept`) and cited by each action.

`Api_proofs` proves of `Accounts` (whose specification is `SpecAccounts`) for any number of
users, artists and waiting requests:

- `OneHolder`: `SpecAccounts => []OneHolderPerArtist`. By itself the property is not inductive: an
  account that is activated again must find its artist free, and `activate_user` does not
  look. The strengthening is that the link of an account is that of its approved claim
  (`Matched`), whatever the status of the account is, and that no two claims name the same
  artist (`ClaimsAreExclusive`): a deactivated account keeps its claim, and with it the artist.
- `ClaimsMatch`: `SpecAccounts => []AccountMatchesClaim`, from `Matched`.
- `References`: `SpecAccounts => []ReferencesAreKept`, from `ClaimsAreBacked` and `UsedExists`: the
  profiles that are claimed or referred to exist, and a rejection deletes only others.
- `AdminRemains`: `SpecAccounts => []SomeAdminRemains`. The check of the number of admins and the
  update are one step (`AnotherRemains`), so a stale authorisation does not matter.
- `AccountTypes`: `SpecAccounts => []TypeOKAccounts`.
- `AccountsAreOwnership`: `SpecAccounts => ImplementsOwnership`. `OwnersStep` says of each
  request what it does to claims and artists alone, and `OwnersSteps` that every step is one of
  these. Links come in by `LinkedIsApproved`: by `Matched` an artist is linked exactly if a
  claim to it is approved, before a step and after it. `ClaimsAreExclusive` makes a
  withdrawal empty the holders of an artist, not one of two.

`AccountInv` is their conjunction with the finiteness of `ready`; `AccountsStep` proves it
inductive with one lemma per action.

`Api_proofs` proves of `JobEvents` for any number of tabs, jobs, requests and faults:

- `AlwaysTold`: `Spec => []SignalIsUnderWay`. The signal for a tab can be in five places: the
  channel, the broadcast that is going on, the socket, a read that was begun, or the tab's
  own resynchronisation. `Told` names them, and `Connected` says that an open socket is one
  the hub knows, unless it is about to be noticed as lost; so a broadcast misses nobody
  who does not read again when the connection comes back.
- `LatestShown`: `Spec => []ShownIsLatest`, from the same invariant.
- `EventsArePanel`: `Spec => ImplementsPanel`. What is missing is that a verdict on its way to a
  tab is true: `ReadsAreTrue`, inductive because no commit takes a verdict back
  (`VerdictsStep`). An answer that is current (`IsCurrent`) is then a step of Panel; a read
  that fails is one by `ShownIsLatest`; all other steps leave the tab alone (`ScreenKept`).
- `EventTypes`: `Spec => []TypeOK`.

`Ingestion_proofs` proves for any number of processes, launches and failures:

- `OnePipeline`: `Spec => []OneWorks`. `Holding` says of the lock what the property leaves
  open: it is held by a process at work only, and a process at work whose session lives
  is the one that holds it. So the lock is free only when nobody works under it.
- `TrueLog`: `Spec => []LogIsTrue`. The property speaks of the verdict alone. `OnTrack` says
  for every place of the script what is done and what is still to do: once the scope is
  known, the stages done and those left make up the ones the run needs, and nothing is
  left where the verdict is written. `OwnLaunch` keeps the row of one process from
  being changed by another, `AllHonest` is the property row by row.
- `ExitAgrees`: `Spec => []ExitMatchesLog`. The exit code is set in a different step from the
  verdict, and on three paths. `InStep` ties the two together place by place: where the
  process is after a verdict says which status and which code its row has, or that a write
  to the log was lost; `Agrees` is what is left of it when the process has ended.
- `PipelineTypes`: `Spec => []TypeOK`.

`RunStep` states once what a step of one process must respect, and each action is shown to be
such a step; `PipelineNext` puts them together.

`Enrichment_proofs` proves for any number of artists, events, workers and incidents:

- `TrueHash`: `Spec => []TagsAreOfTheHash`. Between the reading of a text and the storing of
  its tags anything may be edited, deleted or stored. `Beside` says that an extraction that
  missed rows is still between its DELETE and its commit, and that the tags it will stay
  beside are marked as not alone; so tags stored with nothing missed and nobody else in
  between are of one text, the one whose hash is stored with them.
- `NothingForgotten`: `Spec => []NothingIsForgotten`. The property speaks of the end of the
  stages. `Followed` says in their middle that the texts read are the stored ones, except
  of entities that others touched, and that every text is still to do, in work, tagged
  or in quarantine. `Findable` says that an entity that left the list of the embeddings
  has one, which the validation counts on.
- `EnrichmentTypes`: `Spec => []TypeOK`.

`Aside` states what a step of another process leaves alone; each such action is proved to be
aside, and the invariant needs to be looked at for the pipeline's own steps only.

`CoverageRepair_proofs` proves for any number of workers, launchers, dates and ranges:

- `VerdictsAreCovered`: `Spec => []SucceededIsCovered`, `CompletesAreConfirmed`:
  `Spec => []CompleteIsConfirmed` and `PipelinesAreBounded`: `Spec => []BackfillsAreBounded`.
  All three say nothing after a session of the worker lock was lost unnoticed, as
  the properties do. Until then the process that executes a run holds the lock (`Solo`)
  and its run is running (`Running`), so what it read stays true between its steps:
  `Attempting` relates the attempt it is at to the stored count and to the pipelines
  started, `Solid` says at each place which dates their last audit backs, and `Settled`
  what remains of it in a decided run. A process that takes a run over finds the counts
  of `Counted`.
- `RepairTypes`: `Spec => []TypeOK`.

`Supervisor_proofs` proves for any number of chats, messages, runs and faults:

- `OnceOnly`: `Spec => []ActionRunsOnce`. An update may be handled twice, and the file may be
  put back, so what protects the action is the record of it in the file that is there. The
  property speaks of that file alone. `Deciding` adds the copy the worker will save after
  an action (`Saving`): it accounts for every proposal but the one in progress, whatever the
  tool saves meanwhile. `Kept` says of every copy that may be saved, the tool's included,
  that no two of its entries belong to one proposal (`Safe`), although a place in the file
  may be used again.
- `NothingSkipped`: `Spec => []NoUpdateSkipped`. The offset moves to an update when it is
  handled, so the batch must be in order (`Sorted`) and must hold every unhandled update
  up to each of its members (`Complete`), also after a failure and in a second
  worker's life; and the offset of every copy that may be put back passes over nothing
  either (`Safe`). `InOrderLists` is the lemma about the sorted batch.
- `SupervisorTypes`: `Spec => []TypeOK`.

`Reconciliation_proofs` proves for any number of workers, daily executions, dates, runs and
faults:

- `SuccessesAreComplete`: `Spec => [](losses = 0 => SucceededIsComplete)`, and `VerdictsAreFinal`:
  `Spec /\ [](losses = 0) => VerdictIsFinal`. Both need the lock; Recon_repair checks them
  with `MaxLosses = 0`, where the condition always holds. While it is intact, the
  process that executes a run is the only one and the run is running (`Alone`), so rows
  are as its final audit stored them (`Stored`) and a decided run is nobody's.
- `SuccessesAreTrue`: `Spec => SuccessWasTrue`, with lost locks too. `Seen` says that what the
  final audit found complete was complete at some time of the execution. Others who
  execute the same run may overwrite its rows, but leave its request and its last date
  alone (`TablesInv`), so all of them audit the same dates.
- `ReconTypes`: `Spec => []TypeOK`.

`Placed` is what each step takes for granted: that the run exists, that chunks and loops lie
within its dates, which stage the step belongs to, and that the planning has recorded the
rows (`Recorded`). `StatusMoves` lists how a status can change; the two action properties
follow from it. `Bounded` and `MaxOf` show that a highest attempt over the dates exists.

`Scrape_proofs` proves for any number of events, years, months, artists, runs and faults:

- `ExitsAreComplete`: `Spec => []ExitIsComplete`, and `EventsAreKept`: `Spec => NothingVanishes`.
  Both follow from `ParserInv`, which says at each place of the parser where things are.
  `FilesAreCurrent`: the file of a year lacks an event that the memory holds only while the
  year is marked as dirty or, during a save, still to be written; so the end of a save
  leaves nothing behind, although an event that moves marks only the year it moves to.
  `MemoryIsWhole`: what was loaded, and what is in a file, is in the memory, except in a run
  that could not read the archive. `IdsHavePlaces` and `ListIsFollowed` follow an id of the
  listing from its page to the memory, the quarantine or `dropped`, chunk by chunk; a
  save needs the newest year still to be written (`MaxOf`: the years are finite).
- `ListsAreCurrent`: `Spec => ListMatchesArchive`. By `PipelineInv` a signature that is current
  says that the list is the one the archive calls for now, or, between reading and writing,
  that what was read is; each write of the parser makes it an old one. After the parser
  has ended the last comparison leaves a current signature, or a failed extraction.
- `BiographiesStay`: `Spec => SettledStays`. `BioInv` says that the results in memory include
  those that settle an artist in the file, unless the file could not be read (`lost`, which
  counts for one life of the scraper only), whatever the list of artists says.
- `ScrapeTypes`: `Spec => []TypeOK`.

The three invariants are inductive side by side (`ScrapeInvariant`): the scraper and the
pipeline leave the parser's state alone, and of the parser's steps only `WriteShard` ages a
signature (`PipelineAndWrite`).

The theorems assume what the modules assume of their constants (`RecJobsAssumption`,
`AccountAssumption`, `IngestionAssumption`, `JobEventsAssumption`, `EnrichmentAssumption`,
`RepairAssumption`, `SupervisorAssumption`, `ReconciliationAssumption`,
`ScrapeEventsAssumption`, `ScrapeAssumption`) and nothing else. Only model-checked: the
liveness properties, since fairness is defined with ENABLED, which TLAPS does not handle.

## 6. Disagreements between code and text

One run expects a violation.

- RecJobs_stranded, `RunningIsRecovered`: a row left running by a crash is recovered only if
  the worker comes back after the reclaim window or another job is created later;
  `worker.py` 99 says that stale jobs of a crashed worker are recovered.

Also met, without a run of their own:

- Two extractions of an artist overlap (a refresh job and the pipeline or a retry), the
  second DELETE (`app/artist_tag_extraction.py` 804) does not see the rows the first has not
  committed, and the tags of both texts stay under the hash that was stored last. If it is
  that of the current biography, `has_current_artist_tag_extraction` finds it and every later
  run skips the artist. `docs/custom_module_ingestion.md` 86 promises to "keep the derived
  enrichment fresh when biographies change". `TagsAreOfTheHash` and `RunsRepair` excuse this
  case and no other (`alone`): without that premise TLC finds the mixture under the hash of
  the current text in the instance of Enrich.
- The command line tool loads the state file (`app/supervisor/state.py` 246) while an action
  is pending, the worker executes it and saves it as completed (`telegram.py` 262), the tool
  saves its copy (254), and a second approval executes the action again, with no failure at
  all. `tests/test_supervisor_telegram.py` 94 calls actions idempotent and expects one
  execution at 189. `ActionRunsOnce` counts the record as lost (`undone`): if it demanded
  `executed <= 1` of runs without a failure, TLC would find that in the instance of Supervisor.
- An outcome is stored for the row, not for the claim (`jobs.py` 482): a worker whose
  claim was re-queued may decide the row while another one executes it.
- "Newest" means the newest start of a transaction (`jobs.py` 149): a row that was
  inserted by a long transaction and completed later is not shown.
- A gap-only reconciliation that dies after a future chunk was imported and before that is
  recorded can never succeed again (`app/coverage_reconciliation.py` 399). One that dies
  between storing the resolved maximum date and creating the date rows (458, 459) fails
  at 244 each time it is executed.
- The success marker of a day is read before the lock is taken (`app/daily_ingestion.py`
  161): two overlapping executions both do the forced refresh.
- A request is refused while a run of the other mode is active for the same dates
  (`EnqueueRaises`). `tests/test_coverage_reconciliation_runs_db.py` says so at 427;
  its test at 309-345 expects the opposite of a fake database without the index.
- A biography that is edited between the import's look at its status
  (`scripts/import_events.py` 606) and its UPDATE (628) is overwritten and loses the mark
  that it was edited, which `tests/test_artist_biography_refresh.py` 63 expects to protect it.
- The docstring at `app/supervisor/telegram.py` 220 says that each update is processed once;
  an update whose reply fails, or whose worker dies, is handled again. An action that was
  executed just before a crash is therefore executed again (`undone` counts it).
- The key of a notification is stored before the notification is sent
  (`app/supervisor/state.py` 254, 256). If the send fails or the worker dies in between, the
  outcome counts as reported, and the chats that were still to be told never hear of it; nor
  do they if `status` or `details` on the command line store the outcome first, as they send
  nothing. `OutcomeIsTold` excuses exactly these two.
- A month of the listing that is left early, because a page failed, a checkpoint could not
  be written, or a detail request raised something `fetch_single_event` does not catch
  (`parse_past_events.py` 1012), leaves exit code 0: nobody is told that the rest of its ids
  is missing (`dropped`).
- An event that moves to another year is written to the file of one year after the other,
  newest year first (`parse_past_events.py` 701-717), and only the year it moves to is marked.
  If the year it leaves is marked for another event, and is the newer one, a death between
  the two files leaves the event in neither. It is lost until its new month is listed again:
  for good if it never is, or if the run passes over it because the database has it.
  `NothingVanishes` demands only that the process held it at that moment.
- The supervisor has one database session (`app/supervisor/__main__.py` 74). Once it is
  lost every turn fails, which the comment at 106 describes as a failure that passes.
- An inquiry for a run that does not exist raises out of the turn before its update is
  acknowledged (`telegram.py` 202), so it and every later command wait for ever.
- The life cycle in `docs/recommendation-jobs.md` 66-71 has neither the return of a
  stale running row to the queue nor the failure of an invalidated queued row.
- `docs/production-delivery.md` 48 says that daily ingestion imports the previous
  day; `app/daily_ingestion.py` 52-82 uses today, three months back and ahead.

## 7. Not modelled

Inside the modelled part: the deadlock of two multi-row UPDATEs (each is one step),
the content of results and tags, deletion of users (which deletes their
jobs), the retention of finished rows (there is none), statement time-outs, the
single-day smoke mode of the daily ingestion, date arithmetic, password hashes and
tokens, the content of pages and of Telegram messages, a socket that accepts no data
and so holds up the listener, updates without a text that come back with every poll.

Components without a module: scoring (`app/recommendations/services.py` and the modules
around it) computes floating-point numbers from SQL read models and keeps nothing;
search, graph, metrics and the other reading endpoints likewise; the dashboard socket
passes on a debounced hint on which nothing is decided; the frontend apart from the
waiting for a job; start-up wiring and deployment. What a language model or a page
says is an input everywhere.

## 8. What is left

The debounce of the dashboard socket has no module, and the computation of the
recommendations is a function of its inputs here. Of liveness only the instances are
checked.
