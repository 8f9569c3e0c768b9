----------------------------- MODULE Supervisor -----------------------------
(***************************************************************************)
(* The ingestion supervisor (backend/app/supervisor): a worker that watches *)
(* the log of the pipeline runs, tells the operators' chats how a run went, *)
(* and carries out the commands they send through Telegram.  Everything it  *)
(* remembers is one JSON file, which the command line tool of the same      *)
(* package reads and writes as well.  Nothing locks it: who saves the file  *)
(* puts back whatever he loaded before.                                    *)
(*                                                                         *)
(* Of a run only the outcome reported for it matters, of a message what it  *)
(* asks for.  An update is named by its place in the inbox, an action by    *)
(* its place in the file; a proposal is the action as the operators saw it  *)
(* made, whether or not the file still has it.                             *)
(***************************************************************************)
EXTENDS Naturals, Sequences, FiniteSets

CONSTANTS
    Chats,         \* the chats that are notified, in this order
    Conversations, \* bound: what the operators may ask for, message by message
    MaxRuns,       \* bound: pipeline runs
    MaxMessages,   \* bound: messages sent to the bot
    MaxFaults,     \* bound: failures of Telegram, of the database, of processes,
                   \* and uses of the command line tool, together
    MaxClis        \* bound: uses of the command line tool

Requests == {"status", "details", "details of none", "propose", "review",
             "approve", "reject", "chat", "stranger", "sticker"}

ASSUME SupervisorAssumption ==
    /\ Chats \in Seq(STRING) /\ Chats # <<>>
    /\ \A c \in Conversations : c \in Seq(Requests) /\ Len(c) <= MaxMessages
    /\ {MaxRuns, MaxMessages, MaxFaults, MaxClis} \subseteq Nat

VARIABLES
    runs,      \* import_runs: the outcome each run would be reported with
    inbox,     \* what was asked, in the order of the update ids
    gone,      \* updates up to here were confirmed to Telegram
    file,      \* the state file
    db,        \* the worker's only database session is usable
    pc,        \* where the worker stands
    batch,     \* the updates it received and has not acknowledged
    job,       \* what it is doing for the first of them, or for the monitor
    told,      \* history: notifications, as <<run, outcome, chat>>
    missed,    \* history: <<run, outcome>> whose notification was cut short
    proposals, \* history: the proposals made, what became of each of them
    handled,   \* history: updates handled to their end
    cli,       \* the uses of the command line tool
    faults     \* failures and uses of the command line tool so far

vars == <<runs, inbox, gone, file, db, pc, batch, job, told, missed, proposals,
          handled, cli, faults>>

(* A run that has ended was a success or a failure: either is reported. *)
Outcomes == {"running", "quota", "ended"}
EmptyFile == [key |-> [r \in 1..MaxRuns |-> "none"], actions |-> <<>>, offset |-> 1]
NoJob == [run |-> 0, outcome |-> "none", chats |-> <<>>, next |-> "loop",
          action |-> 0, file |-> EmptyFile]
Unused == [pc |-> "unused", run |-> 0, outcome |-> "none", file |-> EmptyFile]

(* Carried out how often, and how often the record of that was lost. *)
NewProposal == [executed |-> 0, undone |-> 0, aged |-> FALSE]

Init ==
    /\ runs = <<>> /\ inbox = <<>> /\ gone = 0
    /\ file = EmptyFile /\ db = TRUE
    /\ pc = "loop" /\ batch = <<>> /\ job = NoJob
    /\ told = {} /\ missed = {} /\ proposals = <<>> /\ handled = {}
    /\ cli = [p \in 1..MaxClis |-> Unused]
    /\ faults = 0

Fault == faults < MaxFaults /\ faults' = faults + 1
NoFault == UNCHANGED faults
Unobserved == UNCHANGED <<runs, inbox, db, cli>>
History == UNCHANGED <<told, missed, proposals, handled>>

-----------------------------------------------------------------------------
(* Around the worker: pipelines, operators, time.                            *)

WorkerVars == <<gone, file, db, pc, batch, job, told, missed, handled>>

RunStarts ==
    /\ Len(runs) < MaxRuns /\ runs' = Append(runs, "running")
    /\ UNCHANGED <<WorkerVars, inbox, proposals, cli, faults>>

(* A run that still goes on may have a stage that failed for want of quota. *)
RunMoves ==
    /\ runs # <<>> /\ runs[Len(runs)] # "ended"
    /\ \E o \in Outcomes \ {"running", runs[Len(runs)]} :
          runs' = [runs EXCEPT ![Len(runs)] = o]
    /\ UNCHANGED <<WorkerVars, inbox, proposals, cli, faults>>

Ask ==
    /\ \E c \in Conversations :
          /\ Len(c) > Len(inbox) /\ SubSeq(c, 1, Len(inbox)) = inbox
          /\ inbox' = Append(inbox, c[Len(inbox) + 1])
    /\ UNCHANGED <<WorkerVars, runs, proposals, cli, faults>>

HourPasses ==
    /\ \E p \in DOMAIN proposals :
          ~proposals[p].aged /\ proposals' = [proposals EXCEPT ![p].aged = TRUE]
    /\ UNCHANGED <<WorkerVars, runs, inbox, cli, faults>>

-----------------------------------------------------------------------------
(* The worker's loop: observe the latest run when the monitor is due, then   *)
(* wait for updates.  Any exception ends the turn; an observation of the     *)
(* monitor that failed is due again.  What the worker loads and saves at     *)
(* once is one step: a save of the command line tool between the two would   *)
(* be overwritten whole, as if it had never been made.                       *)

Monitoring == job.next = "poll"
Asked == inbox[Head(batch)]
Questioned == ~Monitoring /\ Asked = "chat"

Raise ==
    /\ pc' = "loop" /\ batch' = <<>>
    /\ job' = [NoJob EXCEPT !.next = IF Monitoring THEN "observe" ELSE "loop"]

(* The run is read before the file is loaded. *)
OutcomeOf(r) == IF r = 0 THEN "none" ELSE runs[r]
Read(r, next) ==
    job' = [NoJob EXCEPT !.run = r, !.outcome = OutcomeOf(r), !.next = next]

Monitor ==
    /\ pc = "loop" /\ pc' = "observe" /\ Read(Len(runs), "poll")
    /\ NoFault /\ Unobserved /\ History /\ UNCHANGED <<gone, file, batch>>

Listen ==
    /\ pc = "loop" /\ job.next # "observe" /\ pc' = "poll" /\ job' = NoJob
    /\ NoFault /\ Unobserved /\ History /\ UNCHANGED <<gone, file, batch>>

\* Mutant: only the want of quota is reported.
OnlyQuota(outcome) == outcome = "quota"
Reportable(outcome) == outcome # "running"

(* observe: the outcome is saved first, then the chats are told if it was    *)
(* not the one saved before.                                                 *)
Observe ==
    LET r == job.run
        old == file.key[r]
    IN  /\ pc = "observe" /\ r # 0 /\ db
        /\ file' = [file EXCEPT !.key[r] = job.outcome]
        /\ IF Reportable(job.outcome) /\ job.outcome # old
           THEN pc' = "notify" /\ job' = [job EXCEPT !.chats = Chats]
           ELSE pc' = job.next /\ job' = NoJob
        /\ NoFault /\ Unobserved /\ History /\ UNCHANGED <<gone, batch>>

(* No such run, or a session that is no longer usable: it is never replaced. *)
(* A question about a run that is not there is answered.                     *)
CannotObserve ==
    /\ pc = "observe"
    /\ \/ /\ ~db \/ (job.run = 0 /\ ~Questioned)
          /\ Raise
       \/ /\ db /\ job.run = 0 /\ Questioned
          /\ pc' = "reply" /\ job' = NoJob /\ UNCHANGED batch
    /\ NoFault /\ Unobserved /\ History /\ UNCHANGED <<gone, file>>

(* One chat after the other; a chat that cannot be told ends the turn.       *)
Notify ==
    /\ pc = "notify"
    /\ told' = told \cup {<<job.run, job.outcome, Head(job.chats)>>}
    /\ IF Len(job.chats) = 1
       THEN pc' = job.next /\ job' = NoJob
       ELSE pc' = pc /\ job' = [job EXCEPT !.chats = Tail(@)]
    /\ NoFault /\ Unobserved
    /\ UNCHANGED <<gone, file, batch, missed, proposals, handled>>

(* The outcome was saved: it counts as reported, and no turn reports it again. *)
CutShort ==
    missed' = IF pc = "notify" THEN missed \cup {<<job.run, job.outcome>>} ELSE missed

TelegramFails ==
    /\ pc \in {"notify", "poll", "reply"} /\ Fault /\ Raise /\ CutShort
    /\ Unobserved /\ UNCHANGED <<gone, file, told, proposals, handled>>

-----------------------------------------------------------------------------
(* Updates.  Asking for those from the offset on confirms the earlier ones;  *)
(* an update without a text is not seen.                                     *)

Readable(from) == {u \in from..Len(inbox) : u > gone /\ inbox[u] # "sticker"}
InOrder(updates) ==
    [i \in 1..Cardinality(updates) |->
        CHOOSE u \in updates : Cardinality({v \in updates : v < u}) = i - 1]

\* Mutant: what was received counts as confirmed.
PollConfirms ==
    /\ pc = "poll"
    /\ gone' = Len(inbox)
    /\ batch' = InOrder(Readable(file.offset))
    /\ pc' = IF batch' = <<>> THEN "loop" ELSE "handle"
    /\ job' = NoJob
    /\ NoFault /\ Unobserved /\ History /\ UNCHANGED file

Poll ==
    /\ pc = "poll"
    /\ gone' = IF file.offset - 1 > gone THEN file.offset - 1 ELSE gone
    /\ batch' = InOrder(Readable(file.offset))
    /\ pc' = IF batch' = <<>> THEN "loop" ELSE "handle"
    /\ job' = NoJob
    /\ NoFault /\ Unobserved /\ History /\ UNCHANGED file

(* Commands about a run observe it first, as do questions and the proposal   *)
(* to review a run.                                                          *)
Inquire ==
    /\ pc = "handle"
    /\ Asked \in {"status", "details", "details of none", "chat", "review"}
    /\ pc' = "observe"
    /\ Read(IF Asked = "details of none" THEN 0 ELSE Len(runs),
            IF Asked = "review" THEN "propose" ELSE "reply")
    /\ NoFault /\ Unobserved /\ History /\ UNCHANGED <<gone, file, batch>>

Unauthorized ==
    /\ pc = "handle" /\ Asked = "stranger" /\ pc' = "done"
    /\ NoFault /\ Unobserved /\ History /\ UNCHANGED <<gone, file, batch, job>>

(* A proposal made again, after a reply that failed, is another proposal; so *)
(* is one whose predecessor at the same place was lost with the file.        *)
Propose ==
    /\ pc = "propose" \/ (pc = "handle" /\ Asked = "propose")
    /\ pc' = "reply"
    /\ proposals' = Append(proposals, NewProposal)
    /\ file' = [file EXCEPT !.actions =
                   Append(@, [id |-> Len(proposals) + 1, status |-> "pending"])]
    /\ NoFault /\ Unobserved
    /\ UNCHANGED <<gone, batch, job, told, missed, handled>>

\* Mutant: an action that was carried out can be approved again.
OnlyRejectedIsClosed(action) == action.status \in {"failed", "rejected"}

(* A proposal that was decided stays decided; one that expired is looked at  *)
(* again and expires again.                                                  *)
Closed(action) == action.status \in {"completed", "failed", "rejected"}

Expired(action) == proposals[action.id].aged

Resolve(k, verdict) == file' = [file EXCEPT !.actions[k].status = verdict]

(* The operators name any action, or one that is not in the file. *)
Decline ==
    /\ pc = "handle" /\ Asked \in {"approve", "reject"}
    /\ pc' = "reply"
    /\ \/ UNCHANGED file
       \/ \E k \in DOMAIN file.actions :
             /\ ~Closed(file.actions[k])
             /\ IF Expired(file.actions[k])
                THEN Resolve(k, "expired")
                ELSE Asked = "reject" /\ Resolve(k, "rejected")
    /\ NoFault /\ Unobserved /\ History /\ UNCHANGED <<gone, batch, job>>

(* An approved action is carried out before the file says so. *)
Execute ==
    /\ pc = "handle" /\ Asked = "approve"
    /\ \E k \in DOMAIN file.actions :
          /\ ~Closed(file.actions[k]) /\ ~Expired(file.actions[k])
          /\ proposals' = [proposals EXCEPT ![file.actions[k].id].executed = @ + 1]
          /\ job' = [NoJob EXCEPT !.action = k, !.file = file]
    /\ pc' = "executed"
    /\ NoFault /\ Unobserved
    /\ UNCHANGED <<gone, file, batch, told, missed, handled>>

(* The file loaded before the action is what is saved after it. *)
Executed ==
    /\ pc = "executed" /\ pc' = "reply"
    /\ \E verdict \in {"completed", "failed"} :
          file' = [job.file EXCEPT !.actions[job.action].status = verdict]
    /\ job' = NoJob
    /\ NoFault /\ Unobserved /\ History /\ UNCHANGED <<gone, batch>>

\* Mutant: the offset passes over everything that was received.
AcknowledgeAll ==
    /\ pc \in {"reply", "done"}
    /\ file' = [file EXCEPT !.offset = batch[Len(batch)] + 1]
    /\ handled' = handled \cup {Head(batch)}
    /\ batch' = Tail(batch) /\ job' = NoJob
    /\ pc' = IF batch' = <<>> THEN "loop" ELSE "handle"
    /\ NoFault /\ Unobserved
    /\ UNCHANGED <<gone, told, missed, proposals>>

(* The reply was sent; the offset of the next update is stored. *)
Acknowledge ==
    /\ pc \in {"reply", "done"}
    /\ file' = [file EXCEPT !.offset = Head(batch) + 1]
    /\ handled' = handled \cup {Head(batch)}
    /\ batch' = Tail(batch) /\ job' = NoJob
    /\ pc' = IF batch' = <<>> THEN "loop" ELSE "handle"
    /\ NoFault /\ Unobserved
    /\ UNCHANGED <<gone, told, missed, proposals>>

-----------------------------------------------------------------------------
(* Failures, and the command line tool.                                      *)

(* The proposal whose action was carried out and is not saved yet. *)
Acting == job.file.actions[job.action].id

(* That an action was carried out is recorded with its verdict. *)
Recorded(f, p) ==
    \E k \in DOMAIN f.actions :
        f.actions[k].id = p /\ f.actions[k].status \in {"completed", "failed"}

Lost(ps) ==
    proposals' = [p \in DOMAIN proposals |->
                    IF p \in ps THEN [proposals[p] EXCEPT !.undone = @ + 1]
                                ELSE proposals[p]]

(* The worker is restarted by its container, with a new session. *)
Dies ==
    /\ Fault /\ pc' = "loop" /\ batch' = <<>> /\ job' = NoJob /\ db' = TRUE
    /\ CutShort /\ Lost(IF pc = "executed" THEN {Acting} ELSE {})
    /\ UNCHANGED <<runs, inbox, gone, file, told, handled, cli>>

(* A statement fails, or the connection is lost. *)
SessionLost ==
    /\ Fault /\ db /\ db' = FALSE
    /\ UNCHANGED <<runs, inbox, gone, file, pc, batch, job, cli>>
    /\ History

(* "status" and "details" on the command line observe a run as the worker    *)
(* does, and tell nobody: the run is read, the file is loaded, and what was  *)
(* loaded is saved again with the outcome of the run.                        *)
Outside ==
    UNCHANGED <<runs, inbox, gone, db, pc, batch, job, told, missed, handled>>

CliReads(p) ==
    /\ cli[p].pc = "unused"
    /\ \E r \in DOMAIN runs :
          cli' = [cli EXCEPT ![p].pc = "read", ![p].run = r, ![p].outcome = runs[r]]
    /\ Fault /\ Outside /\ UNCHANGED <<file, proposals>>

CliLoads(p) ==
    /\ cli[p].pc = "read"
    /\ cli' = [cli EXCEPT ![p].pc = "loaded", ![p].file = file]
    /\ NoFault /\ Outside /\ UNCHANGED <<file, proposals>>

CliSaves(p) ==
    /\ cli[p].pc = "loaded"
    /\ file' = [cli[p].file EXCEPT !.key[cli[p].run] = cli[p].outcome]
    /\ Lost({q \in DOMAIN proposals : Recorded(file, q) /\ ~Recorded(cli[p].file, q)})
    /\ cli' = [cli EXCEPT ![p].pc = "done", ![p].file = EmptyFile]
    /\ NoFault /\ Outside

CommandLine(p) == CliReads(p) \/ CliLoads(p) \/ CliSaves(p)

-----------------------------------------------------------------------------
Worker ==
    \/ Monitor \/ Listen \/ Observe \/ CannotObserve \/ Notify \/ Poll
    \/ Inquire \/ Unauthorized \/ Propose \/ Decline \/ Execute \/ Executed
    \/ Acknowledge

Next ==
    \/ RunStarts \/ RunMoves \/ Ask \/ HourPasses
    \/ Worker \/ TelegramFails \/ Dies \/ SessionLost
    \/ \E p \in 1..MaxClis : CommandLine(p)

(* The worker's process runs, and Telegram answers in the end; the monitor's *)
(* interval passes, whether or not messages keep coming.                     *)
Fairness == WF_vars(Worker) /\ SF_vars(Monitor)

Spec == Init /\ [][Next]_vars /\ Fairness

-----------------------------------------------------------------------------
Status == {"pending", "expired", "rejected", "completed", "failed"}
Files ==
    [key: [1..MaxRuns -> Outcomes \cup {"none"}],
     actions: Seq([id: Nat, status: Status]),
     offset: 1..MaxMessages + 1]
Clis ==
    [pc: {"unused", "read", "loaded", "done"}, run: 0..MaxRuns,
     outcome: Outcomes \cup {"none"}, file: Files]

(* Every variable has its type; a batch is never empty while it is handled. *)
TypeOK ==
    /\ runs \in Seq(Outcomes) /\ inbox \in Seq(Requests) /\ gone \in 0..MaxMessages
    /\ file \in Files /\ db \in BOOLEAN
    /\ pc \in {"loop", "observe", "notify", "poll", "handle", "propose",
               "executed", "reply", "done"}
    /\ batch \in Seq(1..MaxMessages)
    /\ pc \in {"handle", "propose", "executed", "reply", "done"} => batch # <<>>
    /\ job.file \in Files /\ job.run \in 0..MaxRuns
    /\ proposals \in Seq([executed: Nat, undone: Nat, aged: BOOLEAN])
    /\ handled \subseteq DOMAIN inbox /\ cli \in [1..MaxClis -> Clis]
    /\ faults \in 0..MaxFaults

(* Every time an approved action is carried out, but for one, its record was *)
(* lost: the worker died before it saved the verdict, or the command line    *)
(* tool put back a file loaded before that.  The one is recorded, or still   *)
(* to be saved: an action the file has as open, rejected or expired was      *)
(* carried out no more often than its record was lost.  A second approval,   *)
(* a command handled again after a reply that failed, a file put back that   *)
(* has the action, a place in the file used again do not carry it out once   *)
(* more (telegram.py, _resolve_action).                                      *)
InProgress(p) == pc = "executed" /\ p = Acting
ActionRunsOnce ==
    \A p \in DOMAIN proposals :
        proposals[p].executed <=
            proposals[p].undone
                + (IF Recorded(file, p) \/ InProgress(p) THEN 1 ELSE 0)

(* An update is confirmed to Telegram, and passed over by the stored offset, *)
(* only after it was handled to its end: a turn that is cut short by a       *)
(* failure takes the rest of its batch up again, and a file put back takes   *)
(* updates up again, but never passes one over (telegram.py, poll_once).     *)
NoUpdateSkipped ==
    \A u \in 1..Len(inbox) :
        u <= gone \/ u < file.offset => u \in handled \/ inbox[u] = "sticker"

(* Every command is handled in the end, if the worker's session holds, there *)
(* is a run to observe, and no command before it names a run that is not     *)
(* there: each of these stops every later command (__main__.py, telegram.py).*)
Stuck == ~db \/ runs = <<>> \/ \E u \in DOMAIN inbox : inbox[u] = "details of none"
UpdatesAreHandled ==
    \A u \in 1..MaxMessages :
        (u \in DOMAIN inbox /\ inbox[u] # "sticker")
            ~> (u \in handled \/ Stuck)

(* Every chat is told the outcome of a run, through failures of Telegram and *)
(* of the worker at any other point, unless a later run began, the session   *)
(* of the worker was lost, or the outcome counts as reported and was not:    *)
(* it is saved before it is sent, so a notification that was cut short is    *)
(* not made again, and the command line tool saves it and sends nothing      *)
(* (state.py, observe; __main__.py).                                         *)
OnCommandLine(r) ==
    \E p \in DOMAIN cli : cli[p].pc = "done" /\ cli[p].run = r /\ cli[p].outcome = runs[r]
OutcomeIsTold ==
    \A r \in 1..MaxRuns :
        (r \in DOMAIN runs /\ runs[r] = "ended")
            ~> \/ \A i \in DOMAIN Chats : <<r, "ended", Chats[i]>> \in told
               \/ Len(runs) > r \/ ~db
               \/ <<r, "ended">> \in missed \/ OnCommandLine(r)
=============================================================================
