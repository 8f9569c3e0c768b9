------------------------------ MODULE Ingestion ------------------------------
(***************************************************************************)
(* The full pipeline (backend/scripts/full_pipeline.py), the log it keeps   *)
(* in import_runs and import_run_stages (import_run_logger.py), the lock    *)
(* that admits one pipeline at a time (pipeline_lock.py), and the command   *)
(* Coolify schedules every day (daily_ingestion.py), which repairs          *)
(* coverage, runs a pipeline of its own and then the recommendation         *)
(* scheduler.                                                              *)
(*                                                                         *)
(* A launch is one execution of the pipeline.  What the stages do to the    *)
(* data is left out: here a stage ends well or it does not.                 *)
(***************************************************************************)
EXTENDS Naturals, Sequences, SequencesExt, FiniteSets

CONSTANTS
    Procs,        \* processes that execute full_pipeline.py
    OptionSets,   \* what an operator may ask for: sets of parts
    NoProc,       \* nobody
    MaxLaunches,  \* bound: executions of the pipeline
    MaxStarts,    \* bound: times the scheduled command is started
    MaxFaults     \* bound: failures of any kind

ASSUME IngestionAssumption ==
    /\ NoProc \notin Procs
    /\ OptionSets \subseteq SUBSET {"bio", "tags", "embeddings"}
    /\ {MaxLaunches, MaxStarts, MaxFaults} \subseteq Nat

VARIABLES
    pc,       \* pc[p]: where the process stands
    launch,   \* launch[p]: the number of its execution, 0 if it has none
    todo,     \* todo[p]: the stages still to run
    logged,   \* logged[p]: the current stage has a row in import_run_stages
    lock,     \* the process whose session holds the pipeline lock
    chrome,   \* the process that started the browser, or NoProc
    runs,     \* runs[l]: launch l, its row in import_runs and what it did
    launches, \* the executions so far
    daily,    \* where the scheduled command stands
    child,    \* the launch it waits for, 0 if there is none
    told,     \* the exit code of its last execution
    scheduled,\* the recommendation scheduler ran to its end for the day
    worker,   \* "daily" while it holds the reconciliation worker lock
    starts,   \* how often the command was started
    faults    \* failures so far

vars == <<pc, launch, todo, logged, lock, chrome, runs, launches,
          daily, child, told, scheduled, worker, starts, faults>>
pipelineVars == <<pc, launch, todo, logged, lock, chrome, runs, launches>>
dailyVars == <<daily, child, told, scheduled, worker, starts>>

-----------------------------------------------------------------------------
Stages == {"scrape", "import", "normalize", "event tags", "artist tags",
           "embed", "vectors", "validate"}
Statuses == {"none", "running", "succeeded", "failed"}
Codes == {"none", "ok", "busy", "error", "startup", "killed"}

(* The stages after scrape-and-parse, in the order of the script. *)
StagesFor(want, importing) ==
    (IF importing THEN <<"import">> ELSE <<>>)
    \o <<"normalize">>
    \o (IF "tags" \in want THEN <<"event tags", "artist tags">> ELSE <<>>)
    \o (IF "embeddings" \in want THEN <<"embed", "vectors">> ELSE <<>>)
    \o <<"validate">>

RunRows ==
    [want : SUBSET {"bio", "tags", "embeddings"}, daily : BOOLEAN,
     scope : {"unknown", "new", "existing", "empty"}, status : Statuses,
     stages : [Stages -> Statuses], did : SUBSET Stages, code : Codes,
     lossy : BOOLEAN, unlocked : BOOLEAN]

NewRun(want, forDay) ==
    [want |-> want, daily |-> forDay, scope |-> "unknown",
     status |-> "none", stages |-> [s \in Stages |-> "none"],
     did |-> {}, code |-> "none", lossy |-> FALSE, unlocked |-> FALSE]

Init ==
    /\ pc = [p \in Procs |-> "off"]
    /\ launch = [p \in Procs |-> 0]
    /\ todo = [p \in Procs |-> <<>>]
    /\ logged = [p \in Procs |-> FALSE]
    /\ lock = NoProc
    /\ chrome = NoProc
    /\ runs = [l \in 1..MaxLaunches |-> NewRun({}, FALSE)]
    /\ launches = 0
    /\ daily = "idle" /\ child = 0 /\ told = "none"
    /\ scheduled = FALSE /\ worker = "free" /\ starts = 0
    /\ faults = 0

Fault == faults < MaxFaults /\ faults' = faults + 1
NoFault == UNCHANGED faults
Run(p) == runs[launch[p]]
Owned(l) == \E p \in Procs : launch[p] = l /\ pc[p] # "off"
Set(p, field, value) == runs' = [runs EXCEPT ![launch[p]][field] = value]
Goto(p, where) == pc' = [pc EXCEPT ![p] = where]

(* A write to import_runs: made, or swallowed by the logger when the        *)
(* database refuses it.  A disabled logger writes nothing.                  *)
Record(p, status, run) ==
    IF run.status = "none" THEN [run EXCEPT !.lossy = TRUE]
    ELSE [run EXCEPT !.status = status]
WriteStatus(p, status, run) ==
    \/ NoFault /\ runs' = [runs EXCEPT ![launch[p]] = Record(p, status, run)]
    \/ Fault /\ runs' = [runs EXCEPT ![launch[p]] = [run EXCEPT !.lossy = TRUE]]

-----------------------------------------------------------------------------
(* Starting a pipeline.  A process whose browser is still there is not used  *)
(* for another launch, so that chrome names the launch that started it.      *)

Start(p, want, forDay) ==
    /\ pc[p] = "off" /\ launches < MaxLaunches
    /\ chrome # p
    /\ launches' = launches + 1
    /\ launch' = [launch EXCEPT ![p] = launches + 1]
    /\ runs' = [runs EXCEPT ![launches + 1] = NewRun(want, forDay)]
    /\ Goto(p, "prepare")
    /\ UNCHANGED <<todo, logged, lock, chrome>>

(* The bound on launches leaves one to a command that has begun. *)
Launch(p) ==
    /\ daily = "coverage" => launches + 1 < MaxLaunches
    /\ \E want \in OptionSets : Start(p, want, FALSE)
    /\ NoFault /\ UNCHANGED dailyVars

Exit(p, code) == pc' = [pc EXCEPT ![p] = "off"] /\ Set(p, "code", code)

(* The prerequisites: a browser is used if one answers and started if none  *)
(* does.                                                                    *)
Prepare(p) ==
    /\ pc[p] = "prepare"
    /\ Goto(p, "provider")
    /\ chrome' = IF "bio" \in Run(p).want /\ chrome = NoProc
                 THEN p ELSE chrome
    /\ NoFault
    /\ UNCHANGED <<launch, todo, logged, lock, runs, launches, dailyVars>>

(* A missing setting, database or browser ends the program before the lock; *)
(* a browser it started is not closed.                                      *)
Unprepared(p) ==
    /\ pc[p] \in {"prepare", "provider"}
    /\ Fault /\ Exit(p, "startup")
    /\ UNCHANGED <<launch, todo, logged, lock, chrome, launches, dailyVars>>

Prepared(p) ==
    /\ pc[p] = "provider" /\ Goto(p, "lock")
    /\ NoFault
    /\ UNCHANGED <<launch, todo, logged, lock, chrome, runs, launches, dailyVars>>

CloseChrome(p) == IF chrome = p THEN NoProc ELSE chrome
LockIsIgnored(p) == TRUE
LockIsFree(p) == lock = NoProc

AcquireLock(p) ==
    /\ pc[p] = "lock" /\ LockIsFree(p)
    /\ lock' = p /\ Goto(p, "begin")
    /\ NoFault
    /\ UNCHANGED <<launch, todo, logged, chrome, runs, launches, dailyVars>>

(* What the handler of a failed attempt to take the lock closes. *)
AfterContention(p) == CloseChrome(p)

Contend(p) ==
    /\ pc[p] = "lock"
    /\ \/ ~LockIsFree(p) /\ NoFault /\ Exit(p, "busy")
       \/ Fault /\ Exit(p, "error")
    /\ chrome' = AfterContention(p)
    /\ UNCHANGED <<launch, todo, logged, lock, launches, dailyVars>>

-----------------------------------------------------------------------------
(* The stages *)

(* ImportRunLogger.start: without its row the run goes on unlogged. *)
Begin(p) ==
    /\ pc[p] = "begin"
    /\ \/ NoFault /\ Set(p, "status", "running")
       \/ Fault /\ Set(p, "lossy", TRUE)
    /\ todo' = [todo EXCEPT ![p] = <<"scrape">>]
    /\ Goto(p, "next")
    /\ UNCHANGED <<launch, logged, lock, chrome, launches, dailyVars>>

StartStage(p) ==
    /\ pc[p] = "next" /\ todo[p] # <<>>
    /\ LET s == Head(todo[p]) IN
       \/ /\ Run(p).status # "none" /\ NoFault
          /\ runs' = [runs EXCEPT ![launch[p]].stages[s] = "running"]
          /\ logged' = [logged EXCEPT ![p] = TRUE]
       \/ /\ IF Run(p).status # "none" THEN Fault ELSE NoFault
          /\ logged' = [logged EXCEPT ![p] = FALSE]
          /\ UNCHANGED runs
    /\ Goto(p, "stage")
    /\ UNCHANGED <<launch, todo, lock, chrome, launches, dailyVars>>

(* finish_stage stores how the stage ended, if it has a row and the write   *)
(* is made.                                                                 *)
Logged(p, run, s, status) ==
    IF logged[p] THEN [run EXCEPT !.stages[s] = status] ELSE run

(* The biography scraper needs the browser that answered earlier. *)
CanSucceed(p, s) == s = "scrape" /\ "bio" \in Run(p).want => chrome # NoProc

StageSucceeds(p) ==
    /\ pc[p] = "stage"
    /\ LET s == Head(todo[p])
           run == [Run(p) EXCEPT !.did = @ \cup {s}]
       IN  /\ CanSucceed(p, s)
           /\ \/ /\ NoFault
                 /\ runs' = [runs EXCEPT ![launch[p]] =
                                Logged(p, run, s, "succeeded")]
              \/ logged[p] /\ Fault /\ runs' = [runs EXCEPT ![launch[p]] = run]
           /\ Goto(p, IF s = "scrape" THEN "scope" ELSE "next")
    /\ todo' = [todo EXCEPT ![p] = Tail(@)]
    /\ UNCHANGED <<launch, logged, lock, chrome, launches, dailyVars>>

(* Where a child's exit code takes the pipeline. *)
OnFailureContinue(p) == "next"
OnFailure(p) == "failing"

(* A child that fails ends the run; its exit code 75 is passed on. *)
StageFails(p) ==
    /\ pc[p] = "stage"
    /\ LET s == Head(todo[p]) IN
       /\ IF CanSucceed(p, s) THEN Fault ELSE NoFault
       /\ \E code \in {"busy", "error"} :
              runs' = [runs EXCEPT ![launch[p]] =
                         [Logged(p, Run(p), s, "failed") EXCEPT !.code = code]]
    /\ Goto(p, OnFailure(p))
    /\ todo' = [todo EXCEPT ![p] = Tail(@)]
    /\ UNCHANGED <<launch, logged, lock, chrome, launches, dailyVars>>

(* The scraped events of the range, or the stored ones if there are none    *)
(* and something is left to enrich, or nothing.                             *)
Scopes(want) ==
    {"new", "empty"} \cup (IF want # {} THEN {"existing"} ELSE {})

(* Biographies are imported even without events. *)
Scope(p) ==
    /\ pc[p] = "scope"
    /\ \E scope \in Scopes(Run(p).want) :
           /\ Set(p, "scope", scope)
           /\ IF scope = "empty"
              THEN Goto(p, "finish") /\ UNCHANGED todo
              ELSE /\ Goto(p, "next")
                   /\ todo' = [todo EXCEPT ![p] =
                        StagesFor(Run(p).want,
                                  scope = "new" \/ "bio" \in Run(p).want)]
    /\ NoFault
    /\ UNCHANGED <<launch, logged, lock, chrome, launches, dailyVars>>

(* The scope could not be read (an artifact that is no list, the database), *)
(* or the quarantine summary or the final metrics could not be computed.    *)
Break(p) ==
    /\ \/ pc[p] = "scope"
       \/ pc[p] = "next" /\ todo[p] = <<>>
    /\ Fault /\ Goto(p, "failing")
    /\ Set(p, "code", "error")
    /\ UNCHANGED <<launch, todo, logged, lock, chrome, launches, dailyVars>>

Finish(p) ==
    /\ \/ pc[p] = "finish"
       \/ pc[p] = "next" /\ todo[p] = <<>>
    /\ WriteStatus(p, "succeeded", Run(p))
    /\ Goto(p, "cleanup")
    /\ UNCHANGED <<launch, todo, logged, lock, chrome, launches, dailyVars>>

(* Old artifact directories are removed after the run is recorded.          *)
Cleanup(p) ==
    /\ pc[p] = "cleanup"
    /\ \/ NoFault /\ Goto(p, "closing") /\ Set(p, "code", "ok")
       \/ Fault /\ Goto(p, "failing") /\ Set(p, "code", "error")
    /\ UNCHANGED <<launch, todo, logged, lock, chrome, launches, dailyVars>>

VerdictUnlessDecided(p) ==
    IF Run(p).status = "succeeded" THEN "succeeded" ELSE "failed"
Verdict(p) == "failed"

Fail(p) ==
    /\ pc[p] = "failing"
    /\ WriteStatus(p, Verdict(p), Run(p))
    /\ Goto(p, "closing")
    /\ UNCHANGED <<launch, todo, logged, lock, chrome, launches, dailyVars>>

(* The session that took the lock gives it back; a session that was lost    *)
(* makes the release raise, whatever the run was.                           *)
StillHeld(p) == lock
Released(p) == IF lock = p THEN NoProc ELSE lock

Close(p) ==
    /\ pc[p] = "closing"
    /\ chrome' = CloseChrome(p)
    /\ lock' = Released(p)
    /\ Exit(p, IF lock = p THEN Run(p).code ELSE "error")
    /\ NoFault
    /\ UNCHANGED <<launch, todo, logged, launches, dailyVars>>

(* The connection that holds the lock breaks; the pipeline does not look.   *)
LoseSession(p) ==
    /\ lock = p /\ Fault
    /\ lock' = NoProc
    /\ Set(p, "unlocked", TRUE)
    /\ UNCHANGED <<pc, launch, todo, logged, chrome, launches, dailyVars>>

Die(victims) ==
    /\ pc' = [q \in Procs |-> IF q \in victims THEN "off" ELSE pc[q]]
    /\ runs' = [l \in DOMAIN runs |->
                  IF \E q \in victims : launch[q] = l /\ pc[q] # "off"
                  THEN [runs[l] EXCEPT !.code = "killed"] ELSE runs[l]]
    /\ lock' = IF lock \in victims THEN NoProc ELSE lock

Kill(p) ==
    /\ pc[p] # "off" /\ Fault /\ Die({p})
    /\ UNCHANGED <<launch, todo, logged, chrome, launches, dailyVars>>

(* A browser left without its program ends some day, or is closed by hand.  *)
OrphanEnds ==
    /\ chrome # NoProc /\ pc[chrome] = "off"
    /\ chrome' = NoProc
    /\ NoFault
    /\ UNCHANGED <<pc, launch, todo, logged, lock, runs, launches, dailyVars>>

-----------------------------------------------------------------------------
(* The scheduled command *)

SucceededForDay ==
    \E l \in 1..launches : runs[l].daily /\ runs[l].status = "succeeded"

(* The first thing it does: a day that is marked succeeded is left alone.   *)
(* Then it takes the worker lock, unless the reconciliation service has it. *)
Cron ==
    /\ daily = "idle" /\ starts < MaxStarts
    /\ starts' = starts + 1
    /\ \/ /\ SucceededForDay /\ told' = "ok" /\ UNCHANGED <<daily, worker>>
       \/ ~SucceededForDay /\ told' = "busy" /\ UNCHANGED <<daily, worker>>
       \/ /\ ~SucceededForDay /\ launches < MaxLaunches
          /\ worker' = "daily" /\ daily' = "coverage" /\ told' = "none"
    /\ NoFault
    /\ UNCHANGED <<child, scheduled, pipelineVars>>

Return(code) ==
    daily' = "idle" /\ child' = 0 /\ told' = code /\ worker' = "free"

(* The coverage reconciliation has its own module; here it succeeds or not. *)
CoverageFails ==
    /\ daily = "coverage" /\ Fault /\ Return("error")
    /\ UNCHANGED <<scheduled, starts, pipelineVars>>

Refresh(p) ==
    /\ daily = "coverage" /\ Start(p, {"tags", "embeddings"}, TRUE)
    /\ daily' = "refresh" /\ child' = launches + 1
    /\ NoFault
    /\ UNCHANGED <<told, scheduled, worker, starts>>

(* check=True: only a pipeline that exits with 0 is followed by the         *)
(* scheduler.                                                               *)
RefreshOk(l) == runs[l].code = "ok"

Refreshed ==
    /\ daily = "refresh" /\ ~Owned(child)
    /\ IF RefreshOk(child)
       THEN daily' = "schedule" /\ UNCHANGED <<child, told, worker>>
       ELSE Return(runs[child].code)
    /\ NoFault
    /\ UNCHANGED <<scheduled, starts, pipelineVars>>

Schedule ==
    /\ daily = "schedule"
    /\ \/ NoFault /\ scheduled' = TRUE /\ Return("ok")
       \/ Fault /\ scheduled' = scheduled /\ Return("error")
    /\ UNCHANGED <<starts, pipelineVars>>

(* The task runner's timeout kills the command alone, and the pipeline it   *)
(* started runs on; a restart of the container ends both.                   *)
KillDaily ==
    /\ daily # "idle" /\ Fault /\ Return("killed")
    /\ \/ UNCHANGED pipelineVars
       \/ /\ daily = "refresh"
          /\ Die({p \in Procs : launch[p] = child})
          /\ UNCHANGED <<launch, todo, logged, chrome, launches>>
    /\ UNCHANGED <<scheduled, starts>>

-----------------------------------------------------------------------------
Step(p) ==
    \/ Prepare(p) \/ Prepared(p) \/ AcquireLock(p) \/ Contend(p)
    \/ Begin(p) \/ StartStage(p) \/ StageSucceeds(p) \/ StageFails(p)
    \/ Scope(p) \/ Finish(p) \/ Cleanup(p) \/ Fail(p) \/ Close(p)

DailyStep ==
    \/ CoverageFails \/ Refreshed \/ Schedule
    \/ \E p \in Procs : Refresh(p)

Next ==
    \/ \E p \in Procs : Launch(p) \/ Step(p) \/ Unprepared(p) \/ Break(p)
                        \/ LoseSession(p) \/ Kill(p)
    \/ OrphanEnds
    \/ DailyStep \/ Cron \/ KillDaily

(* A process that runs is scheduled and its children end.  Launches and   *)
(* faults owe nothing.                                                      *)
Spec ==
    /\ Init /\ [][Next]_vars
    /\ \A p \in Procs : WF_vars(Step(p))
    /\ WF_vars(DailyStep)

-----------------------------------------------------------------------------
Working(p) == pc[p] \in {"begin", "next", "stage", "scope", "finish",
                         "cleanup", "failing", "closing"}
Required(l) ==
    IF runs[l].scope = "empty" THEN {"scrape"}
    ELSE {"scrape"} \cup ToSet(StagesFor(runs[l].want, runs[l].scope = "new"))

(* Every variable has its type. *)
TypeOK ==
    /\ pc \in [Procs -> {"off", "prepare", "provider", "lock", "begin", "next",
                         "stage", "scope", "finish", "cleanup", "failing",
                         "closing"}]
    /\ launch \in [Procs -> 0..MaxLaunches]
    /\ todo \in [Procs -> Seq(Stages)]
    /\ logged \in [Procs -> BOOLEAN]
    /\ {lock, chrome} \subseteq Procs \cup {NoProc}
    /\ runs \in [1..MaxLaunches -> RunRows]
    /\ daily \in {"idle", "coverage", "refresh", "schedule"}
    /\ worker \in {"free", "daily"} /\ told \in Codes
    /\ scheduled \in BOOLEAN
    /\ launches \in 0..MaxLaunches /\ child \in 0..launches
    /\ starts \in 0..MaxStarts /\ faults \in 0..MaxFaults

(* Two pipelines never work at the same time, as long as the one that works *)
(* has not lost the session its lock belongs to (pipeline_lock.py).         *)
OneWorks ==
    \A p, q \in Procs :
        Working(p) /\ Working(q) /\ p # q
            => Run(p).unlocked \/ Run(q).unlocked

(* A run the log shows as succeeded ran every stage its options and its     *)
(* scope call for to a good end, and a stage the log shows as succeeded     *)
(* did: losing log writes only ever makes the log say less.                 *)
LogIsTrue ==
    \A l \in 1..launches :
        /\ runs[l].status = "succeeded" => Required(l) \subseteq runs[l].did
        /\ \A s \in Stages :
               runs[l].stages[s] = "succeeded" => s \in runs[l].did

(* A pipeline that ended by itself and whose log writes and lock session    *)
(* survived is recorded succeeded exactly if it exited with 0: the command  *)
(* that waits for the exit code and the readers of the log agree, also when *)
(* the clean-up after the verdict fails.                                    *)
ExitMatchesLog ==
    \A l \in 1..launches :
        ~Owned(l) /\ runs[l].status # "none" /\ ~runs[l].lossy
        /\ ~runs[l].unlocked /\ runs[l].code # "killed"
            => /\ runs[l].status # "running"
               /\ (runs[l].code = "ok") = (runs[l].status = "succeeded")

(* The pipeline lock does not stay with a process: it is free again, or     *)
(* passes to another launch, whatever fails.                                *)
LockIsReturned == \A p \in Procs : lock = p ~> lock # p

=============================================================================
