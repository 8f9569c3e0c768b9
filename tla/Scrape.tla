------------------------------- MODULE Scrape -------------------------------
(***************************************************************************)
(* The scraping pipeline (parsers/run_ra_pipeline.py): it runs the event    *)
(* parser of ScrapeEvents and the biography scraper                         *)
(* (playwright_parser/artists_bio.py) side by side, and turns the archive   *)
(* into the list of artists the scraper works from (extract_artists.py)     *)
(* whenever the archive has changed.                                        *)
(*                                                                         *)
(* A pipeline is started when nothing of an earlier one runs any more.      *)
(* Durations are left out: an interval may have passed or not, and a        *)
(* deferred artist may become due at any time.                              *)
(***************************************************************************)
EXTENDS ScrapeEvents

CONSTANTS
    Artists,   \* artists of the events
    LineUp,    \* LineUp[e]: the artists of event e
    Complete,  \* artists whose biography the database holds at first
    NoList,    \* artists.json does not exist
    BioCheckpointEvery

ASSUME ScrapeAssumption ==
    /\ LineUp \in [Events -> SUBSET Artists] /\ Complete \subseteq Artists
    /\ BioCheckpointEvery \in Nat \ {0}

VARIABLES
    orch,     \* where the pipeline stands
    exit,     \* its exit code
    ended,    \* parse_returncode is known: the parser had ended when polled
    last,     \* last_extracted_signature, against the archive as it is now
    pending,  \* pending_extract_signature, likewise
    failures, \* an extraction failed
    reading,  \* the artists an extraction found in the archive
    list,     \* artists.json
    complete, \* artists whose biography the database holds
    chrome,   \* a browser answers
    bp,       \* where the scraper stands
    mode,     \* "watch" or "once"
    res,      \* its results, per artist
    due,      \* artists whose retry is not deferred
    handled,  \* results since a checkpoint
    saw,      \* the list it last looked at
    bcode,    \* its exit code
    bios,     \* the file of biographies
    backup,   \* its rolling backup
    lost      \* history: the scraper could not read the file of biographies

pipelineVars == <<orch, exit, ended, last, pending, failures, reading, list>>
bioVars == <<bp, mode, res, due, handled, saw, bcode, bios, backup, lost>>
vars == <<eventVars, pipelineVars, complete, chrome, bioVars>>

NoResults == [a \in Artists |-> "none"]

Init ==
    /\ InitEvents
    /\ orch = "off" /\ exit = "none" /\ ended = FALSE
    /\ last = "none" /\ pending = "none"
    /\ failures = FALSE /\ reading = {} /\ list = NoList
    /\ complete = Complete /\ chrome = FALSE
    /\ bp = "off" /\ mode = "watch" /\ res = NoResults /\ due = {}
    /\ handled = 0 /\ saw = {} /\ bcode = "none"
    /\ bios = NoResults /\ backup = NoResults /\ lost = FALSE

-----------------------------------------------------------------------------
(* The parser within the pipeline: a file it writes changes the signature of *)
(* the archive, so that one taken before is an old one.                      *)

Aged(signature) == IF signature = "current" THEN "old" ELSE signature

ParserRuns ==
    \/ /\ ParserStep
       /\ UNCHANGED <<date, db, pipelineVars, complete, chrome, bioVars>>
    \/ /\ WriteShard
       /\ last' = Aged(last) /\ pending' = Aged(pending)
       /\ UNCHANGED <<date, db, orch, exit, ended, failures, reading, list,
                      complete, chrome, bioVars>>

World ==
    /\ orch = "off"
    /\ \/ (\E e \in Events : Reschedule(e)) /\ UNCHANGED complete
       \/ /\ Import
          /\ complete' = complete \cup {a \in Artists : bios[a] = "settled"}
    /\ UNCHANGED <<pipelineVars, chrome, bioVars>>

-----------------------------------------------------------------------------
(* The biography scraper.                                                    *)

StartBio(m) ==
    /\ bp' = "load" /\ mode' = m /\ bcode' = "none" /\ saw' = {}
    /\ lost' = FALSE
    /\ UNCHANGED <<res, due, handled, bios, backup>>
NoBio ==
    /\ bp' = "off" /\ mode' = "watch" /\ bcode' = "none" /\ saw' = {}
    /\ UNCHANGED <<res, due, handled, bios, backup, lost>>

BioOnly == UNCHANGED <<date, shard, quar, db, pp, opts, mem, code,
                       dropped, blind, runs, pipelineVars, complete>>
BioQuiet == BioOnly /\ NoFault /\ UNCHANGED chrome
BioEnd(c) ==
    /\ bp' = "off" /\ bcode' = c
    /\ res' = NoResults /\ due' = {} /\ handled' = 0
    /\ UNCHANGED <<mode, saw, bios, backup, lost>>

(* A file that cannot be read is replaced by its backup, and a backup that   *)
(* cannot be read either by nothing.                                         *)
BioLoad ==
    /\ bp = "load" /\ bp' = "look"
    /\ \/ NoFault /\ res' = bios /\ UNCHANGED lost
       \/ /\ Fault /\ lost' = TRUE
          /\ \/ res' = backup
             \/ res' = NoResults
    /\ due' = Artists /\ handled' = 0
    /\ BioOnly /\ UNCHANGED <<mode, saw, bcode, bios, backup, chrome>>

(* should_skip_existing: a biography, or a status that settles the matter.   *)
Settled(a) == res[a] = "settled"
Pending(artists) == {a \in artists : ~Settled(a) /\ a \in due}

(* No list yet: a watch ends when it has been idle long enough.              *)
AwaitList ==
    /\ bp = "look" /\ list = NoList /\ mode = "watch"
    /\ bp' = "save"
    /\ BioQuiet
    /\ UNCHANGED <<mode, res, due, handled, saw, bcode, bios, backup, lost>>

\* Mutant: only the results of artists on the list are written.
ListedResults == [a \in Artists |-> IF list # NoList /\ a \in list THEN res[a] ELSE "none"]

\* Mutant: a watch that is idle goes on waiting for the list to change.
IdleForever ==
    /\ bp = "look" /\ list # NoList /\ Pending(list) = {}
    /\ saw' = list /\ bp' = IF mode = "watch" THEN "look" ELSE "save"
    /\ BioQuiet
    /\ UNCHANGED <<mode, res, due, handled, bcode, bios, backup, lost>>

(* Nothing to do: a single pass ends, a watch ends when it has been idle     *)
(* long enough; those whose retry is deferred do not keep it.                *)
Idle ==
    /\ bp = "look" /\ list # NoList /\ Pending(list) = {}
    /\ saw' = list /\ bp' = "save"
    /\ BioQuiet
    /\ UNCHANGED <<mode, res, due, handled, bcode, bios, backup, lost>>

(* A watch waits for the browser as long as it takes; a single pass fails,   *)
(* as it does without a list, and loses the results since a checkpoint.      *)
Connect ==
    /\ bp = "look" /\ list # NoList /\ Pending(list) # {} /\ chrome
    /\ bp' = "parse" /\ saw' = list
    /\ BioQuiet
    /\ UNCHANGED <<mode, res, due, handled, bcode, bios, backup, lost>>

SinglePassFails ==
    /\ bp = "look" /\ mode = "once"
    /\ list = NoList \/ (Pending(list) # {} /\ ~chrome)
    /\ BioEnd("error") /\ BioQuiet

(* What is written: every result, of this run and of earlier ones.           *)
ResultsList == res

(* What a page may show, in the order the scraper asks, and what it makes of *)
(* it: a biography, the word that there is no page or no text settle the     *)
(* matter, everything else is tried again.                                   *)
BlockedPages == {"challenge", "unreadable"}
MissingPages == {"404"}
FullPages == {"biography"}
BlankPages == {"blank"}
FailingPages == {"timeout", "error"}
Pages == BlockedPages \cup MissingPages \cup FullPages \cup BlankPages \cup FailingPages
Verdict(page) ==
    IF page \in BlockedPages \cup FailingPages THEN "failed" ELSE "settled"

(* One page: its result is recorded, a failure deferred, and every so many   *)
(* results the file is replaced, without a backup.                           *)
Parse(a, page) ==
    /\ bp = "parse" /\ a \in Pending(saw) /\ chrome
    /\ IF Verdict(page) = "failed" THEN Fault /\ due' = due \ {a}
       ELSE NoFault /\ due' = due \cup {a}
    /\ res' = [res EXCEPT ![a] = Verdict(page)]
    /\ handled' = (handled + 1) % BioCheckpointEvery
    /\ bp' = IF handled' = 0 THEN "checkpoint" ELSE "look"
    /\ BioOnly /\ UNCHANGED <<chrome, mode, saw, bcode, bios, backup, lost>>

BioCheckpoint ==
    /\ bp = "checkpoint" /\ bp' = "look"
    /\ bios' = ResultsList
    /\ BioQuiet
    /\ UNCHANGED <<mode, res, due, handled, saw, bcode, backup, lost>>

(* The browser has gone: nothing is recorded of the artist. *)
SessionCloses ==
    /\ bp = "parse" /\ ~chrome
    /\ bp' = "look"
    /\ BioQuiet
    /\ UNCHANGED <<mode, res, due, handled, saw, bcode, bios, backup, lost>>

(* The final save copies the file it replaces. *)
Rotate ==
    /\ bp = "save" /\ bp' = "replace"
    /\ backup' = IF bios = NoResults THEN backup ELSE bios
    /\ BioQuiet
    /\ UNCHANGED <<mode, res, due, handled, saw, bcode, bios, lost>>

Replace ==
    /\ bp = "replace"
    /\ bios' = ResultsList /\ bp' = "off" /\ bcode' = "ok"
    /\ res' = NoResults /\ due' = {} /\ handled' = 0
    /\ BioQuiet
    /\ UNCHANGED <<mode, saw, backup, lost>>

(* A save that fails, an exception, the end of the process.                  *)
BioDies == bp # "off" /\ Fault /\ BioEnd("error") /\ BioOnly /\ UNCHANGED chrome

RetryFallsDue ==
    /\ bp # "off" /\ \E a \in Artists \ due : due' = due \cup {a}
    /\ BioQuiet
    /\ UNCHANGED <<bp, mode, res, handled, saw, bcode, bios, backup, lost>>

ChromeDies ==
    /\ chrome /\ chrome' = FALSE
    /\ Fault /\ BioOnly /\ UNCHANGED bioVars

BioRuns ==
    \/ BioLoad \/ AwaitList \/ Idle \/ Connect \/ SinglePassFails
    \/ \E a \in Artists, page \in Pages : Parse(a, page)
    \/ BioCheckpoint \/ SessionCloses \/ Rotate \/ Replace

-----------------------------------------------------------------------------
(* The pipeline.  ensure_chrome_cdp starts a browser when none answers, and  *)
(* goes on without one when that fails.                                      *)

WithBio == "bio" \in opts
EnsureChrome == IF WithBio /\ ~chrome THEN chrome' \in BOOLEAN ELSE UNCHANGED chrome

(* Assumed: no child of a pipeline that was killed still runs. *)
StartPipeline(o) ==
    /\ orch = "off" /\ bp = "off" /\ StartParse(o)
    /\ orch' = "poll" /\ exit' = "none" /\ ended' = FALSE
    /\ last' = "none" /\ pending' = "none" /\ failures' = FALSE
    /\ IF "bio" \in o /\ ~chrome THEN chrome' \in BOOLEAN ELSE UNCHANGED chrome
    /\ IF "bio" \in o THEN StartBio("watch") ELSE NoBio
    /\ NoFault /\ UNCHANGED <<date, db, reading, list, complete>>

OrchOnly == UNCHANGED <<eventVars, complete>>

(* The archive has files, and they are not those of the last extraction.     *)
Changed(signature) == Stored # {} /\ signature # "current"

(* One turn of the loop: first whether the parser has ended, then the        *)
(* signature of its files.                                                   *)
Poll ==
    /\ orch = "poll" /\ orch' = "polled"
    /\ ended' = (pp = "off")
    /\ pending' = IF Changed(last) THEN "current" ELSE pending
    /\ EnsureChrome
    /\ OrchOnly /\ UNCHANGED <<exit, last, failures, reading, list, bioVars>>

(* extract_artists.py, unless its interval has not passed while the parser   *)
(* runs: it reads the archive and writes the list of those artists whose     *)
(* biography the database does not hold yet.                                 *)
Extracted == (UNION {LineUp[e] : e \in Stored})
             \ (IF "dedup" \in opts THEN complete ELSE {})
Extract ==
    /\ orch \in {"polled", "final"} /\ pending # "none"
    /\ reading' = Extracted
    /\ orch' = IF orch = "polled" THEN "extract" ELSE "extract last"
    /\ OrchOnly
    /\ UNCHANGED <<exit, ended, last, pending, failures, list, chrome, bioVars>>

PassOn ==
    /\ \/ orch = "polled" /\ (pending = "none" \/ ~ended) /\ orch' = "tend"
       \/ orch = "final" /\ pending = "none" /\ orch' = "wait"
    /\ OrchOnly
    /\ UNCHANGED <<exit, ended, last, pending, failures, reading, list, chrome, bioVars>>

AfterExtract == orch' = IF orch = "extract" THEN "tend" ELSE "wait"

\* Mutant: a change during the extraction is taken as extracted.
ExtractEndsBlindly ==
    /\ orch \in {"extract", "extract last"} /\ AfterExtract
    /\ list' = reading /\ last' = "current" /\ pending' = "none"
    /\ reading' = {} /\ NoFault
    /\ UNCHANGED <<date, shard, quar, db, pp, opts, mem, code, dropped,
                   blind, runs, complete, exit, ended, failures,
                   chrome, bioVars>>

(* The signature kept is the one taken before the archive was read. *)
ExtractEnds ==
    /\ orch \in {"extract", "extract last"} /\ AfterExtract
    /\ \/ /\ NoFault
          /\ list' = reading /\ last' = pending /\ UNCHANGED failures
       \/ /\ Fault
          /\ failures' = TRUE /\ UNCHANGED <<list, last>>
    /\ pending' = "none" /\ reading' = {}
    /\ UNCHANGED <<date, shard, quar, db, pp, opts, mem, code, dropped,
                   blind, runs, complete, exit, ended, chrome, bioVars>>

(* While the parser runs, a scraper that has ended is started again. *)
Tend ==
    /\ orch = "tend" /\ ~ended /\ orch' = "poll"
    /\ IF WithBio /\ bp = "off" THEN EnsureChrome /\ StartBio("watch")
       ELSE UNCHANGED <<chrome, bioVars>>
    /\ OrchOnly
    /\ UNCHANGED <<exit, ended, last, pending, failures, reading, list>>

(* Once it has ended, the archive is compared a last time. *)
ParserEnded ==
    /\ orch = "tend" /\ ended /\ orch' = "final"
    /\ pending' = IF Changed(last) THEN "current" ELSE pending
    /\ OrchOnly
    /\ UNCHANGED <<exit, ended, last, failures, reading, list, chrome, bioVars>>

(* The end: the code of the parser, else of the scraper, else 1 if an        *)
(* extraction failed, even one that was made up for.                         *)
ExitCode(b) == IF code # "ok" THEN code
               ELSE IF b # "ok" THEN b
               ELSE IF failures THEN "error" ELSE "ok"

AwaitBio ==
    /\ orch = "wait" /\ (WithBio => bp = "off")
    /\ IF WithBio /\ bcode # "ok"
       THEN /\ EnsureChrome /\ StartBio("once")
            /\ orch' = "once" /\ UNCHANGED exit
       ELSE /\ orch' = "off" /\ exit' = ExitCode("ok")
            /\ UNCHANGED <<chrome, bioVars>>
    /\ OrchOnly /\ UNCHANGED <<ended, last, pending, failures, reading, list>>

AwaitOnce ==
    /\ orch = "once" /\ bp = "off"
    /\ orch' = "off" /\ exit' = ExitCode(bcode)
    /\ OrchOnly
    /\ UNCHANGED <<ended, last, pending, failures, reading, list, chrome, bioVars>>

(* The pipeline is interrupted, and ends its children; or it is killed, and  *)
(* they run on.                                                              *)
Interrupted ==
    /\ orch # "off" /\ orch' = "off" /\ exit' = "error" /\ Fault
    /\ \/ /\ IF pp = "off" THEN UNCHANGED parserVars ELSE End("error")
          /\ IF bp = "off" THEN UNCHANGED bioVars ELSE BioEnd("error")
       \/ UNCHANGED <<parserVars, bioVars>>
    /\ UNCHANGED <<sourceVars, complete, chrome, ended, last, pending,
                   failures, reading, list>>

PipelineRuns ==
    \/ Poll \/ Extract \/ PassOn \/ ExtractEnds \/ Tend \/ ParserEnded
    \/ AwaitBio \/ AwaitOnce

Next ==
    \/ ParserRuns \/ BioRuns \/ PipelineRuns
    \/ \E o \in Options : StartPipeline(o)
    \/ World \/ BioDies \/ RetryFallsDue \/ ChromeDies \/ Interrupted

(* The three processes go on as long as they can; nothing obliges anybody to *)
(* start a pipeline.                                                         *)
Spec == Init /\ [][Next]_vars
        /\ WF_vars(ParserRuns) /\ WF_vars(BioRuns) /\ WF_vars(PipelineRuns)

-----------------------------------------------------------------------------
TypeOK ==
    /\ TypeOKEvents
    /\ orch \in {"off", "poll", "polled", "extract", "tend", "final",
                 "extract last", "wait", "once"}
    /\ exit \in {"none", "ok", "retry", "error"} /\ ended \in BOOLEAN
    /\ {last, pending} \subseteq {"none", "current", "old"}
    /\ failures \in BOOLEAN /\ reading \subseteq Artists
    /\ list = NoList \/ list \subseteq Artists
    /\ complete \subseteq Artists /\ chrome \in BOOLEAN
    /\ bp \in {"off", "load", "look", "parse", "checkpoint", "save", "replace"}
    /\ mode \in {"watch", "once"} /\ bcode \in {"none", "ok", "error"}
    /\ {res, bios, backup} \subseteq [Artists -> {"none", "settled", "failed"}]
    /\ due \subseteq Artists /\ handled \in 0..(BioCheckpointEvery - 1)
    /\ saw \subseteq Artists

(* A pipeline that ends well leaves the list of artists its archive calls    *)
(* for, however the writes of the parser and the extractions overlapped.     *)
ListMatchesArchive ==
    [][exit # "ok" /\ exit' = "ok" /\ Stored # {} => list = Extracted]_vars

(* What settled an artist stays in the file of biographies through crashes,  *)
(* restarts and lists that no longer name the artist, unless the scraper     *)
(* could not read the file it replaces.                                      *)
SettledStays ==
    [][\A a \in Artists : bios[a] = "settled" => bios'[a] = "settled" \/ lost]_vars

(* A pipeline ends, provided its browser does not stay away: a watch with    *)
(* artists to do waits for one without a limit.                              *)
ScrapeEnds == orch # "off" ~> (orch = "off" \/ (~chrome /\ WithBio))
=============================================================================
