---------------------------- MODULE ScrapeEvents ----------------------------
(***************************************************************************)
(* The event parser (parsers/graphql_parser/parse_past_events.py): it lists *)
(* the events of every month of a range, fetches the details of those it    *)
(* does not hold, and keeps them in an archive of one JSON file per year.   *)
(* An event the source cannot resolve is put into the quarantine of the     *)
(* database instead.                                                        *)
(*                                                                         *)
(* Of an event only its year matters, which the source may change.  The     *)
(* ids of a page are taken in any order.  Every way a request can fail uses *)
(* up one of MaxFaults faults.                                              *)
(***************************************************************************)
EXTENDS Naturals, Sequences, FiniteSets, FiniteSetsExt

CONSTANTS
    Events,          \* events of the source
    Years,           \* years of their dates
    Dates,           \* the dates the source may begin with
    Chunks,          \* the months of the range: the ids each one lists
    Legacy,          \* the events in the single file of earlier versions
    Options,         \* sets of switches a run may be started with
    Attempts,        \* attempts at the details of an event
    CheckpointEvery, \* --checkpoint-every
    MaxRuns,         \* bound: runs of the parser
    MaxFaults        \* bound: failures of any kind

ASSUME ScrapeEventsAssumption ==
    /\ Years \subseteq Nat /\ IsFiniteSet(Years) /\ Dates \subseteq [Events -> Years]
    /\ Chunks \in Seq(SUBSET Events)
    /\ Legacy \subseteq Events
    /\ Options \subseteq SUBSET {"refresh", "dedup", "bio"}
    /\ Attempts \in Nat \ {0} /\ CheckpointEvery \in Nat \ {0} /\ {MaxRuns, MaxFaults} \subseteq Nat

VARIABLES
    date,    \* date[e]: the year the source gives for e
    shard,   \* shard[y]: the events in the file of year y
    quar,    \* the events in quarantine
    db,      \* the events imported into the database
    pp,      \* where the parser stands
    opts,    \* the switches of its run
    mem,     \* the memory of its process
    code,    \* its exit code
    dropped, \* history: ids of this run that a failure made it pass over
    blind,   \* history: this run began with nothing after a failed load
    runs,    \* runs so far
    faults   \* failures so far

sourceVars == <<date, db>>
parserVars == <<shard, quar, pp, opts, mem, code, dropped, blind, runs>>
eventVars == <<date, shard, quar, db, pp, opts, mem, code, dropped,
               blind, runs, faults>>

Nothing == [y \in Years |-> {}]
Held(years) == UNION {years[y] : y \in Years}
Stored == Held(shard)
Ids(i) == IF i \in DOMAIN Chunks THEN Chunks[i] ELSE {}
Listed == UNION {Ids(i) : i \in DOMAIN Chunks}

(* events_by_year, scraped_ids, source_quarantined_ids, seen_range_ids, the  *)
(* chunk, what is left of its page and of its further pages, dirty_years,    *)
(* the events handled since a checkpoint, the years still to write, the id   *)
(* whose details were fetched, and (for the properties) what was loaded.     *)
EmptyMemory ==
    [years |-> Nothing, known |-> {}, quar |-> {}, seen |-> {},
     chunk |-> 1, page |-> {}, ahead |-> {}, dirty |-> {}, count |-> 0,
     writing |-> {}, id |-> {}, loaded |-> {}]

InitEvents ==
    /\ date \in Dates
    /\ shard = Nothing
    /\ quar = {} /\ db = {}
    /\ pp = "off" /\ opts = {} /\ mem = EmptyMemory /\ code = "none"
    /\ dropped = {} /\ blind = FALSE
    /\ runs = 0 /\ faults = 0

Fault == faults < MaxFaults /\ faults' = faults + 1
NoFault == UNCHANGED faults

-----------------------------------------------------------------------------
StartParse(o) ==
    /\ pp = "off" /\ runs < MaxRuns
    /\ pp' = "load" /\ opts' = o /\ mem' = EmptyMemory /\ code' = "none"
    /\ dropped' = {} /\ blind' = FALSE /\ runs' = runs + 1
    /\ UNCHANGED <<shard, quar>>

(* The end of the process and of what its memory held. *)
End(c) ==
    /\ pp' = "off" /\ code' = c
    /\ mem' = [EmptyMemory EXCEPT !.loaded = mem.loaded]
    /\ UNCHANGED <<shard, quar, opts, dropped, blind, runs>>

(* On with the chunks, as long as there is one. *)
ToList(m) ==
    /\ mem' = m
    /\ pp' = IF m.chunk > Len(Chunks) THEN "final" ELSE "list"

\* Mutant: only the file of the newest year is loaded.
LoadedNewest == [y \in Years |-> IF y = Max(Years) THEN shard[y] ELSE {}]

(* The files of the years; the single file if there are none, in which case  *)
(* every year has to be written.                                             *)
Loaded == IF Stored # {} THEN shard
          ELSE [y \in Years |-> {e \in Legacy : date[e] = y}]

(* The ids to pass over: those loaded and, on request, those of the database. *)
Begin(years, lost) ==
    /\ ToList([EmptyMemory EXCEPT
                 !.years = years, !.loaded = Held(years),
                 !.known = Held(years) \cup (IF "dedup" \in opts THEN db ELSE {}),
                 !.quar = quar,
                 !.ahead = Ids(1),
                 !.dirty = IF Stored = {} THEN {y \in Years : years[y] # {}} ELSE {}])
    /\ blind' = lost

(* An archive that cannot be read counts as an empty one; a database that    *)
(* cannot be read ends the run.                                              *)
Load ==
    /\ pp = "load"
    /\ \/ /\ NoFault /\ Begin(Loaded, FALSE)
          /\ UNCHANGED <<shard, quar, opts, code, dropped, runs>>
       \/ /\ Fault /\ Begin(Nothing, TRUE)
          /\ UNCHANGED <<shard, quar, opts, code, dropped, runs>>
       \/ Fault /\ End("error")

-----------------------------------------------------------------------------
(* The listing of a chunk, page by page. *)

NextChunk(m) ==
    [m EXCEPT !.chunk = @ + 1, !.page = {}, !.ahead = Ids(m.chunk + 1)]

Page ==
    /\ pp = "list" /\ mem.page = {} /\ mem.ahead # {}
    /\ \E page \in SUBSET mem.ahead \ {{}} :
          mem' = [mem EXCEPT !.page = page, !.ahead = @ \ page]
    /\ NoFault /\ UNCHANGED <<shard, quar, pp, opts, code, dropped, blind, runs>>

EmptyPage ==
    /\ pp = "list" /\ mem.page = {} /\ mem.ahead = {}
    /\ ToList(NextChunk(mem))
    /\ NoFault /\ UNCHANGED <<shard, quar, opts, code, dropped, blind, runs>>

(* Any failure but an EventDetailError leaves the rest of the chunk. *)
LeaveChunk ==
    /\ Fault
    /\ dropped' = dropped \cup mem.page \cup mem.ahead
    /\ ToList(NextChunk([mem EXCEPT !.writing = {}]))
    /\ UNCHANGED <<shard, quar, opts, code, blind, runs>>

(* It may be the request of a page that fails, or one for the details of an  *)
(* event in a way fetch_single_event does not know: a garbled status line,   *)
(* say. Either is taken for a failed listing.                                *)
ListingFails == pp = "list" /\ LeaveChunk

Skipped(e) == e \in mem.seen \/ (e \in mem.known /\ "refresh" \notin opts)

Skip(e) ==
    /\ pp = "list" /\ e \in mem.page /\ Skipped(e)
    /\ mem' = [mem EXCEPT !.page = @ \ {e}, !.seen = @ \cup {e}]
    /\ NoFault /\ UNCHANGED <<shard, quar, pp, opts, code, dropped, blind, runs>>

-----------------------------------------------------------------------------
(* The details of an event.  A reply is an event, a word that there is none, *)
(* a failure that may pass or one that will not.  An event and a failure for *)
(* good end the attempts; otherwise the last reply decides.                  *)

Replies == {"event", "not found", "null", "busy", "garbled", "refused"}
Answer(reply) ==
    CASE reply = "event" -> "event"
      [] reply \in {"not found", "null"} -> "unresolvable"
      [] reply \in {"busy", "garbled"} -> "transient"
      [] reply = "refused" -> "system"
Outcome(replies) ==
    LET decisive == {i \in DOMAIN replies : Answer(replies[i]) \in {"event", "system"}}
    IN  Answer(replies[IF decisive = {} THEN Max(DOMAIN replies) ELSE Min(decisive)])
Outcomes == {Outcome(replies) : replies \in [1..Attempts -> Replies]}

Asks(e) == pp = "list" /\ e \in mem.page /\ ~Skipped(e)
Asked(e) == [mem EXCEPT !.page = @ \ {e}, !.seen = @ \cup {e}]

(* An event found leaves the quarantine before it is kept. *)
Found(e) ==
    /\ Asks(e) /\ "event" \in Outcomes
    /\ mem' = [Asked(e) EXCEPT !.quar = @ \ {e}, !.id = {e}]
    /\ quar' = IF e \in mem.quar THEN quar \ {e} ELSE quar
    /\ pp' = "upsert"
    /\ NoFault /\ UNCHANGED <<shard, opts, code, dropped, blind, runs>>

\* Mutant: an unresolvable event is passed over without a record.
PassOver(e) ==
    /\ Asks(e) /\ Fault
    /\ mem' = Asked(e)
    /\ UNCHANGED <<shard, quar, pp, opts, code, dropped, blind, runs>>

Unresolvable(e) ==
    /\ Asks(e) /\ Fault /\ "unresolvable" \in Outcomes
    /\ mem' = [Asked(e) EXCEPT !.quar = @ \cup {e}]
    /\ quar' = quar \cup {e}
    /\ UNCHANGED <<shard, pp, opts, code, dropped, blind, runs>>

(* Exit code 75 when the source may answer later, 1 otherwise; also when the *)
(* quarantine cannot be written.  What is not in a file yet is given up.     *)
GivesUp(e) ==
    /\ Asks(e) /\ Fault
    /\ \E outcome \in Outcomes \ {"event"} :
          End(IF outcome = "transient" THEN "retry" ELSE "error")

(* The copy in the year `first', if there is one, makes place for the new    *)
(* one; a year that only loses an event is not marked.                       *)
Kept(e, first) ==
    [mem EXCEPT
        !.years = [y \in Years |-> (IF y \in first THEN @[y] \ {e} ELSE @[y])
                                   \cup (IF y = date[e] THEN {e} ELSE {})],
        !.dirty = @ \cup {date[e]},
        !.known = @ \cup {e}, !.id = {},
        !.count = (@ + 1) % CheckpointEvery]

(* An event dated outside the years it had moves.  The years are searched in *)
(* the order in which the dictionary came to hold them, which is left out    *)
(* here: any copy may be the first.                                          *)
Upsert ==
    /\ pp = "upsert"
    /\ \E e \in mem.id :
          LET old == {y \in Years : e \in mem.years[y]}
          IN  \E first \in IF old = {} THEN {{}} ELSE {{y} : y \in old} :
                 LET kept == Kept(e, first)
                 IN  IF kept.count = 0
                     THEN mem' = [kept EXCEPT !.writing = kept.dirty] /\ pp' = "checkpoint"
                     ELSE ToList(kept)
    /\ NoFault /\ UNCHANGED <<shard, quar, opts, code, dropped, blind, runs>>

-----------------------------------------------------------------------------
(* Saving: one file after another, newest year first, each one replaced by a *)
(* rename.  A year without events is not written.                            *)

PrepareFinal ==
    /\ pp = "final" /\ pp' = "save"
    /\ mem' = [mem EXCEPT !.writing = mem.dirty]
    /\ NoFault /\ UNCHANGED <<shard, quar, opts, code, dropped, blind, runs>>

WriteShard ==
    LET y == Max(mem.writing)
    IN  /\ pp \in {"checkpoint", "save"} /\ mem.writing # {}
        /\ shard' = IF mem.years[y] = {} THEN shard
                    ELSE [shard EXCEPT ![y] = mem.years[y]]
        /\ mem' = [mem EXCEPT !.writing = @ \ {y}]
        /\ NoFault /\ UNCHANGED <<quar, pp, opts, code, dropped, blind, runs>>

EndCheckpoint ==
    /\ pp = "checkpoint" /\ mem.writing = {}
    /\ ToList([mem EXCEPT !.dirty = {}])
    /\ NoFault /\ UNCHANGED <<shard, quar, opts, code, dropped, blind, runs>>

(* A checkpoint that cannot be written is taken for a failed listing: the    *)
(* years stay marked for the final save.                                     *)
CheckpointFails == pp = "checkpoint" /\ mem.writing # {} /\ LeaveChunk

Finish == pp = "save" /\ mem.writing = {} /\ NoFault /\ End("ok")

(* A final save that fails ends the run; the process can end at any point.   *)
Dies == pp # "off" /\ Fault /\ End("error")

-----------------------------------------------------------------------------
(* Around the parser: between two runs the source may move an event to       *)
(* another year, and the import stage may take over the archive.             *)

Reschedule(e) ==
    /\ pp = "off" /\ runs > 0 /\ runs < MaxRuns
    /\ NoFault
    /\ \E y \in Years \ {date[e]} : date' = [date EXCEPT ![e] = y]
    /\ UNCHANGED <<db, parserVars>>

Import ==
    /\ pp = "off" /\ runs < MaxRuns /\ ~(Stored \subseteq db)
    /\ db' = db \cup Stored
    /\ NoFault /\ UNCHANGED <<date, parserVars>>

ParserStep ==
    \/ Load \/ Page \/ EmptyPage \/ ListingFails
    \/ \E e \in Events : Skip(e) \/ Found(e) \/ Unresolvable(e) \/ GivesUp(e)
    \/ Upsert \/ PrepareFinal
    \/ EndCheckpoint \/ CheckpointFails \/ Finish \/ Dies

-----------------------------------------------------------------------------
TypeOKEvents ==
    /\ date \in [Events -> Years] /\ shard \in [Years -> SUBSET Events]
    /\ {quar, db, dropped} \subseteq SUBSET Events
    /\ pp \in {"off", "load", "list", "upsert", "checkpoint", "final", "save"}
    /\ code \in {"none", "ok", "retry", "error"}
    /\ opts \in Options \cup {{}} /\ blind \in BOOLEAN
    /\ mem.years \in [Years -> SUBSET Events]
    /\ mem.dirty \cup mem.writing \subseteq Years
    /\ runs \in 0..MaxRuns /\ faults \in 0..MaxFaults

(* A run that ends well has accounted for every id of its range: it is in    *)
(* the archive, in the database (where the run was told to pass over those), *)
(* in quarantine, or the run lost sight of it when a listing, a checkpoint   *)
(* or a detail request failed in the middle of its month (exit code 0 does   *)
(* not tell the last case from the others). And it                           *)
(* keeps what it loaded, the single file of earlier versions included,       *)
(* whatever moved between the years.                                         *)
ExitIsComplete ==
    pp = "off" /\ code = "ok" =>
        /\ mem.loaded \subseteq Stored
        /\ Listed \subseteq Stored \cup quar \cup dropped
                           \cup (IF "dedup" \in opts THEN db ELSE {})

(* An event disappears from the files only while the process that rewrites   *)
(* them holds it, or in a run that could not read the archive.               *)
NothingVanishes ==
    [][\A e \in Stored : e \in Stored' \/ blind
                            \/ (pp # "off" /\ e \in Held(mem.years))]_eventVars
=============================================================================
