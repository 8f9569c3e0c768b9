---------------------------- MODULE Scrape_proofs ----------------------------
(***************************************************************************)
(* What the parser, the extraction of artists and the biography scraper     *)
(* promise for any number of events, years, months, artists, runs and       *)
(* faults.                                                                  *)
(*                                                                         *)
(* Each of the three has an invariant of its own, and the others' steps     *)
(* leave alone what it speaks of: ParserInv says where the events of the    *)
(* files and the ids of the listing are at each place of the parser,        *)
(* PipelineInv what the signatures tell about the list of artists, BioInv   *)
(* that the scraper's results include those of the file.                    *)
(***************************************************************************)
EXTENDS Scrape, FiniteSetTheorems, TLAPS

Memories ==
    [years : [Years -> SUBSET Events], known : SUBSET Events, quar : SUBSET Events,
     seen : SUBSET Events, chunk : Nat \ {0}, page : SUBSET Events, ahead : SUBSET Events,
     dirty : SUBSET Years, count : Nat, writing : SUBSET Years, id : SUBSET Events,
     loaded : SUBSET Events]

Listing == {"list", "upsert", "checkpoint"}
Saving  == {"final", "save"}
Working == Listing \cup Saving
Writing == {"checkpoint", "save"}

FromDb == IF "dedup" \in opts THEN db ELSE {}

\* The file of a year is behind the memory only if it is still to be written.
Unsaved == IF pp \in Writing THEN mem.writing ELSE mem.dirty
FilesAreCurrent ==
    /\ \A y \in Years \ Unsaved : mem.years[y] \subseteq shard[y]
    /\ mem.writing \subseteq mem.dirty
    /\ pp \notin Writing => mem.writing = {}

\* Nothing that was loaded leaves the memory, nor anything that is in a file.
MemoryIsWhole ==
    /\ mem.loaded \subseteq Held(mem.years)
    /\ ~blind => Stored \subseteq Held(mem.years)

\* Where an id is that the run passes over or has dealt with.
IdsHavePlaces ==
    /\ mem.known \subseteq Held(mem.years) \cup FromDb
    /\ mem.seen \subseteq Held(mem.years) \cup FromDb \cup quar \cup mem.id
    /\ IF pp = "upsert" THEN \E e \in Events : mem.id = {e} ELSE mem.id = {}

\* What has become of the ids of the chunks so far.
ListIsFollowed ==
    /\ \A i \in DOMAIN Chunks : i < mem.chunk => Chunks[i] \subseteq mem.seen \cup dropped
    /\ mem.chunk \in DOMAIN Chunks =>
           Chunks[mem.chunk] \subseteq mem.seen \cup dropped \cup mem.page \cup mem.ahead
    /\ pp \in Listing <=> mem.chunk <= Len(Chunks)

ParserInv ==
    /\ mem \in Memories
    /\ pp \in Working =>
           FilesAreCurrent /\ MemoryIsWhole /\ IdsHavePlaces /\ ListIsFollowed
    /\ ExitIsComplete

Last == {"final", "extract last"}
Ending == {"wait", "once"}

\* A signature that is the archive's own is that of the list, or of the list an
\* extraction is about to write; when the parser has ended the last extraction
\* either makes it so or is remembered to have failed.
PipelineInv ==
    /\ orch # "off" /\ ended = TRUE => pp = "off"
    /\ orch \in Last \cup Ending => ended = TRUE
    /\ orch # "off" /\ last = "current" => list = Extracted
    /\ orch \in {"extract", "extract last"} =>
           pending # "none" /\ (pending = "current" => reading = Extracted)
    /\ orch = "tend" /\ ended = TRUE => pending = "none"
    /\ orch \in Last =>
           /\ pending # "old"
           /\ Stored # {} /\ last # "current" => pending = "current"
    /\ orch \in Ending => Stored = {} \/ last = "current" \/ failures = TRUE

BioInv ==
    bp \notin {"off", "load"} /\ ~lost =>
        \A a \in Artists : bios[a] = "settled" => res[a] = "settled"

ScrapeInv == TypeOK /\ ParserInv /\ PipelineInv /\ BioInv

----------------------------------------------------------------------------
(* Numbers, sets and the memory of the parser *)

LEMMA MaxOf ==
    ASSUME NEW S, S \subseteq Nat, S # {}, IsFiniteSet(S)
    PROVE  Max(S) \in S
<1> DEFINE HasMax(T) == \E x \in T : \A y \in T : x >= y
           bad == {T \in FiniteSubsetsOf(S) : T # {} /\ ~HasMax(T)}
<1>1. SUFFICES HasMax(S)
  BY DEF Max
<1>2. S \in FiniteSubsetsOf(S)
  BY DEF FiniteSubsetsOf
<1>3. SUFFICES ASSUME bad # {} PROVE FALSE
  BY <1>2
<1>4. PICK T \in bad : \A U \in bad : <<U, T>> \notin StrictSubsetOrdering(S)
  <2>1. IsWellFoundedOn(StrictSubsetOrdering(S), FiniteSubsetsOf(S))
    BY FS_StrictSubsetOrderingWellFounded
  <2>2. bad \subseteq FiniteSubsetsOf(S)
    OBVIOUS
  <2> HIDE DEF bad
  <2> QED BY <1>3, <2>1, <2>2, WFMin
<1>5. T \subseteq S /\ IsFiniteSet(T) /\ T # {} /\ ~HasMax(T)
  BY DEF FiniteSubsetsOf
<1>6. PICK x \in T : TRUE
  BY <1>5
<1> DEFINE U == T \ {x}
<1>7. U \in FiniteSubsetsOf(S) /\ <<U, T>> \in StrictSubsetOrdering(S)
  BY <1>5, <1>6, FS_RemoveElement DEF FiniteSubsetsOf, StrictSubsetOrdering
<1>8. U \notin bad
  BY <1>4, <1>7
<1>9. CASE U = {}
  <2>1. T = {x} /\ x \in Nat
    BY <1>5, <1>9
  <2>2. HasMax(T)
    BY <2>1
  <2> QED BY <1>5, <2>2
<1>10. CASE HasMax(U)
  <2>1. PICK m \in U : \A y \in U : m >= y
    BY <1>10
  <2>2. m \in Nat /\ x \in Nat /\ \A y \in T : y \in Nat
    BY <1>5, <1>6
  <2>3. HasMax(T)
    <3>1. CASE m >= x
      BY <2>1, <2>2, <3>1
    <3>2. CASE x >= m
      <4>1. \A y \in T : x >= y
        BY <2>1, <2>2, <3>2
      <4> QED BY <4>1
    <3> QED BY <2>2, <3>1, <3>2
  <2> QED BY <1>5, <2>3
<1> QED BY <1>7, <1>8, <1>9, <1>10

LEMMA Constants ==
    /\ Years \subseteq Nat /\ IsFiniteSet(Years) /\ Legacy \subseteq Events
    /\ Len(Chunks) \in Nat /\ DOMAIN Chunks = 1..Len(Chunks)
    /\ \A i : Ids(i) \subseteq Events
    /\ \A i \in DOMAIN Chunks : Ids(i) = Chunks[i]
    /\ CheckpointEvery \in Nat \ {0} /\ BioCheckpointEvery \in Nat \ {0}
    /\ MaxRuns \in Nat /\ MaxFaults \in Nat
<1>1. Chunks \in Seq(SUBSET Events)
  BY ScrapeEventsAssumption
<1>2. Len(Chunks) \in Nat /\ DOMAIN Chunks = 1..Len(Chunks)
  BY <1>1
<1>3. \A i \in DOMAIN Chunks : Chunks[i] \subseteq Events
  BY <1>1
<1> QED BY <1>2, <1>3, ScrapeEventsAssumption, ScrapeAssumption DEF Ids

LEMMA InHeld ==
    ASSUME NEW years, NEW e
    PROVE  e \in Held(years) <=> \E y \in Years : e \in years[y]
  BY DEF Held

LEMMA HeldType ==
    ASSUME NEW years \in [Years -> SUBSET Events]
    PROVE  Held(years) \subseteq Events
  BY InHeld

LEMMA EmptyType == EmptyMemory \in Memories
  BY DEF EmptyMemory, Memories, Nothing

----------------------------------------------------------------------------
(* The parser *)

LEMMA ParserUntouched == ParserInv /\ UNCHANGED <<parserVars, db>> => ParserInv'
  BY DEF ParserInv, parserVars, FilesAreCurrent, Unsaved, MemoryIsWhole, IdsHavePlaces,
         FromDb, ListIsFollowed, ExitIsComplete, Stored

LEMMA ParserStarts ==
    ASSUME NEW o, StartParse(o)
    PROVE  ParserInv'
<1>1. mem' \in Memories /\ pp' = "load"
  BY EmptyType DEF StartParse
<1> QED BY <1>1 DEF ParserInv, Working, Listing, Saving, ExitIsComplete

\* A process that ends without success leaves nothing to account for.
LEMMA ParserEnds ==
    ASSUME ParserInv, NEW c, End(c), c # "ok"
    PROVE  ParserInv'
<1>1. mem' \in Memories
  BY EmptyType DEF End, ParserInv, Memories
<1>2. pp' = "off" /\ code' # "ok"
  BY DEF End
<1> QED BY <1>1, <1>2 DEF ParserInv, Working, Listing, Saving, ExitIsComplete

LEMMA BeginStep ==
    ASSUME TypeOKEvents, NEW years \in [Years -> SUBSET Events], NEW failed,
           Begin(years, failed), UNCHANGED <<shard, quar, db, opts>>,
           Stored # {} => \A y \in Years : years[y] \subseteq shard[y],
           ~failed => Stored \subseteq Held(years)
    PROVE  ParserInv'
<1> DEFINE known == Held(years) \cup (IF "dedup" \in opts THEN db ELSE {})
           dirty == IF Stored = {} THEN {y \in Years : years[y] # {}} ELSE {}
<1>1. /\ mem' \in Memories
      /\ mem'.years = years /\ mem'.loaded = Held(years) /\ mem'.known = known
      /\ mem'.seen = {} /\ mem'.chunk = 1 /\ mem'.ahead = Ids(1) /\ mem'.dirty = dirty
      /\ mem'.writing = {} /\ mem'.id = {}
  <2>1. known \subseteq Events /\ dirty \subseteq Years /\ Ids(1) \subseteq Events
    BY HeldType, Constants DEF TypeOKEvents
  <2>2. quar \subseteq Events /\ Held(years) \subseteq Events
    BY HeldType DEF TypeOKEvents
  <2>3. mem' = [EmptyMemory EXCEPT !.years = years, !.loaded = Held(years), !.known = known,
                                   !.quar = quar, !.ahead = Ids(1), !.dirty = dirty]
    BY DEF Begin, ToList
  <2> HIDE DEF known, dirty
  <2> QED BY <2>1, <2>2, <2>3, EmptyType DEF EmptyMemory, Memories
<1>2. pp' = IF 1 > Len(Chunks) THEN "final" ELSE "list"
  BY DEF Begin, ToList, EmptyMemory
<1>3. blind' = failed
  BY DEF Begin
<1>4. FilesAreCurrent'
  <2>1. \A y \in Years \ dirty : years[y] \subseteq shard[y]
    OBVIOUS
  <2>2. Unsaved' = dirty
    BY <1>1, <1>2 DEF Unsaved, Writing
  <2> QED BY <1>1, <2>1, <2>2 DEF FilesAreCurrent
<1>5. MemoryIsWhole'
  BY <1>1, <1>3 DEF MemoryIsWhole, Stored
<1>6. IdsHavePlaces'
  BY <1>1, <1>2 DEF IdsHavePlaces, FromDb
<1>7. ListIsFollowed'
  <2>1. \A i \in DOMAIN Chunks : ~(i < 1)
    BY Constants
  <2>2. 1 \in DOMAIN Chunks => Chunks[1] = Ids(1)
    BY Constants
  <2>3. pp' \in Listing <=> 1 <= Len(Chunks)
    BY <1>2, Constants DEF Listing
  <2> QED BY <1>1, <2>1, <2>2, <2>3 DEF ListIsFollowed
<1>8. ExitIsComplete'
  BY <1>2 DEF ExitIsComplete
<1> QED BY <1>1, <1>4, <1>5, <1>6, <1>7, <1>8 DEF ParserInv

LEMMA LoadStep ==
    ASSUME TypeOKEvents, ParserInv, Load, UNCHANGED <<date, db>>
    PROVE  ParserInv'
<1>1. CASE Begin(Loaded, FALSE) /\ UNCHANGED <<shard, quar, opts>>
  <2>1. Loaded \in [Years -> SUBSET Events]
    BY Constants DEF Loaded, TypeOKEvents
  <2>2. Stored # {} => Loaded = shard
    BY DEF Loaded
  <2>3. Stored \subseteq Held(Loaded)
    BY <2>2 DEF Stored
  <2> QED BY <1>1, <2>1, <2>2, <2>3, BeginStep
<1>2. CASE Begin(Nothing, TRUE) /\ UNCHANGED <<shard, quar, opts>>
  <2>1. Nothing \in [Years -> SUBSET Events] /\ \A y \in Years : Nothing[y] = {}
    BY DEF Nothing
  <2> QED BY <1>2, <2>1, BeginStep
<1>3. CASE End("error")
  BY <1>3, ParserEnds
<1> QED BY <1>1, <1>2, <1>3 DEF Load

\* A step of the listing that only moves ids from the page to those dealt with.
LEMMA ListingStep ==
    ASSUME ParserInv, pp = "list", NEW m \in Memories, mem' = m,
           UNCHANGED <<shard, db, opts, pp, blind, dropped>>,
           m.years = mem.years, m.loaded = mem.loaded, m.known = mem.known,
           m.chunk = mem.chunk, m.dirty = mem.dirty, m.writing = mem.writing, m.id = mem.id,
           m.seen \subseteq Held(mem.years) \cup FromDb \cup quar',
           mem.seen \subseteq m.seen,
           mem.page \cup mem.ahead \subseteq m.seen \cup m.page \cup m.ahead
    PROVE  ParserInv'
<1>1. FilesAreCurrent /\ MemoryIsWhole /\ IdsHavePlaces /\ ListIsFollowed
  BY DEF ParserInv, Working, Listing
<1>2. FilesAreCurrent' /\ MemoryIsWhole'
  BY <1>1 DEF FilesAreCurrent, Unsaved, MemoryIsWhole, Stored
<1>3. IdsHavePlaces'
  BY <1>1 DEF IdsHavePlaces, FromDb
<1>4. ListIsFollowed'
  BY <1>1 DEF ListIsFollowed
<1> QED BY <1>2, <1>3, <1>4 DEF ParserInv, ExitIsComplete

LEMMA PageStep ==
    ASSUME ParserInv, Page, UNCHANGED <<date, db>>
    PROVE  ParserInv'
<1>1. PICK page \in SUBSET mem.ahead \ {{}} :
          mem' = [mem EXCEPT !.page = page, !.ahead = @ \ page]
  BY DEF Page
<1>2. mem \in Memories /\ pp = "list" /\ mem.page = {} /\ IdsHavePlaces
  BY DEF ParserInv, Page, Working, Listing
<1>3. /\ mem' \in Memories
      /\ mem'.page = page /\ mem'.ahead = mem.ahead \ page
      /\ mem'.years = mem.years /\ mem'.loaded = mem.loaded /\ mem'.known = mem.known
      /\ mem'.chunk = mem.chunk /\ mem'.dirty = mem.dirty /\ mem'.writing = mem.writing
      /\ mem'.id = mem.id /\ mem'.seen = mem.seen
  BY <1>1, <1>2 DEF Memories
<1>4. UNCHANGED <<shard, db, opts, pp, blind, dropped, quar>>
  BY DEF Page
<1>5. mem.seen \subseteq Held(mem.years) \cup FromDb \cup quar'
  BY <1>2, <1>4 DEF IdsHavePlaces
<1>6. mem.page \cup mem.ahead \subseteq mem'.page \cup mem'.ahead
  BY <1>2, <1>3
<1> QED BY <1>2, <1>3, <1>4, <1>5, <1>6, ListingStep

LEMMA SkipStep ==
    ASSUME ParserInv, NEW e \in Events, Skip(e), UNCHANGED <<date, db>>
    PROVE  ParserInv'
<1>1. mem \in Memories /\ pp = "list" /\ e \in mem.page /\ Skipped(e) /\ IdsHavePlaces
  BY DEF ParserInv, Skip, Working, Listing
<1>2. mem' = [mem EXCEPT !.page = @ \ {e}, !.seen = @ \cup {e}]
  BY DEF Skip
<1>3. /\ mem' \in Memories
      /\ mem'.page = mem.page \ {e} /\ mem'.ahead = mem.ahead
      /\ mem'.years = mem.years /\ mem'.loaded = mem.loaded /\ mem'.known = mem.known
      /\ mem'.chunk = mem.chunk /\ mem'.dirty = mem.dirty /\ mem'.writing = mem.writing
      /\ mem'.id = mem.id /\ mem'.seen = mem.seen \cup {e}
  BY <1>1, <1>2 DEF Memories
<1>4. UNCHANGED <<shard, db, opts, pp, blind, dropped, quar>>
  BY DEF Skip
<1>5. mem'.seen \subseteq Held(mem.years) \cup FromDb \cup quar'
  BY <1>1, <1>3, <1>4 DEF IdsHavePlaces, Skipped
<1>6. mem.page \cup mem.ahead \subseteq mem'.seen \cup mem'.page \cup mem'.ahead
  BY <1>3
<1> QED BY <1>1, <1>3, <1>4, <1>5, <1>6, ListingStep

LEMMA UnresolvableStep ==
    ASSUME TypeOKEvents, ParserInv, NEW e \in Events, Unresolvable(e), UNCHANGED <<date, db>>
    PROVE  ParserInv'
<1>1. mem \in Memories /\ pp = "list" /\ IdsHavePlaces
  BY DEF ParserInv, Unresolvable, Asks, Working, Listing
<1>2. mem' = [[mem EXCEPT !.page = @ \ {e}, !.seen = @ \cup {e}] EXCEPT !.quar = @ \cup {e}]
  BY DEF Unresolvable, Asked
<1>3. /\ mem' \in Memories
      /\ mem'.page = mem.page \ {e} /\ mem'.ahead = mem.ahead
      /\ mem'.years = mem.years /\ mem'.loaded = mem.loaded /\ mem'.known = mem.known
      /\ mem'.chunk = mem.chunk /\ mem'.dirty = mem.dirty /\ mem'.writing = mem.writing
      /\ mem'.id = mem.id /\ mem'.seen = mem.seen \cup {e}
  BY <1>1, <1>2 DEF Memories
<1>4. UNCHANGED <<shard, db, opts, pp, blind, dropped>> /\ quar' = quar \cup {e}
  BY DEF Unresolvable
<1>5. mem'.seen \subseteq Held(mem.years) \cup FromDb \cup quar'
  BY <1>1, <1>3, <1>4 DEF IdsHavePlaces
<1>6. mem.page \cup mem.ahead \subseteq mem'.seen \cup mem'.page \cup mem'.ahead
  BY <1>3
<1> QED BY <1>1, <1>3, <1>4, <1>5, <1>6, ListingStep

LEMMA FoundStep ==
    ASSUME ParserInv, NEW e \in Events, Found(e), UNCHANGED <<date, db>>
    PROVE  ParserInv'
<1>1. /\ mem \in Memories /\ pp = "list" /\ e \notin mem.seen
      /\ FilesAreCurrent /\ MemoryIsWhole /\ IdsHavePlaces /\ ListIsFollowed
  BY DEF ParserInv, Found, Asks, Skipped, Working, Listing
<1>2. mem' = [[mem EXCEPT !.page = @ \ {e}, !.seen = @ \cup {e}]
                  EXCEPT !.quar = @ \ {e}, !.id = {e}]
  BY DEF Found, Asked
<1>3. /\ mem' \in Memories
      /\ mem'.page = mem.page \ {e} /\ mem'.ahead = mem.ahead
      /\ mem'.years = mem.years /\ mem'.loaded = mem.loaded /\ mem'.known = mem.known
      /\ mem'.chunk = mem.chunk /\ mem'.dirty = mem.dirty /\ mem'.writing = mem.writing
      /\ mem'.id = {e} /\ mem'.seen = mem.seen \cup {e}
  BY <1>1, <1>2 DEF Memories
<1>4. UNCHANGED <<shard, db, opts, blind, dropped>> /\ pp' = "upsert" /\ quar \ {e} \subseteq quar'
  BY DEF Found
<1>5. FilesAreCurrent' /\ MemoryIsWhole'
  BY <1>1, <1>3, <1>4 DEF FilesAreCurrent, Unsaved, Writing, MemoryIsWhole, Stored
<1>6. IdsHavePlaces'
  BY <1>1, <1>3, <1>4 DEF IdsHavePlaces, FromDb
<1>7. ListIsFollowed'
  BY <1>1, <1>3, <1>4 DEF ListIsFollowed, Listing
<1> QED BY <1>3, <1>4, <1>5, <1>6, <1>7 DEF ParserInv, ExitIsComplete

LEMMA GivesUpStep == ASSUME ParserInv, NEW e, GivesUp(e) PROVE ParserInv'
<1>1. PICK c : End(c) /\ c # "ok"
  BY DEF GivesUp
<1> QED BY <1>1, ParserEnds

\* On to the next chunk: what is left of this one has been passed over.
LEMMA ChunkStep ==
    ASSUME ParserInv, pp \in {"list", "checkpoint"},
           ToList(NextChunk([mem EXCEPT !.writing = {}])),
           UNCHANGED <<shard, quar, db, opts, blind>>,
           dropped' = dropped \cup mem.page \cup mem.ahead,
           pp = "checkpoint" => \A y \in Years \ mem.dirty : mem.years[y] \subseteq shard[y]
    PROVE  ParserInv'
<1>1. /\ mem \in Memories /\ mem.chunk \in Nat \ {0} /\ mem.chunk <= Len(Chunks)
      /\ FilesAreCurrent /\ MemoryIsWhole /\ IdsHavePlaces /\ ListIsFollowed
  BY DEF ParserInv, Working, Listing, ListIsFollowed, Memories
<1> DEFINE next == mem.chunk + 1
<1>2. mem' = [[mem EXCEPT !.writing = {}] EXCEPT !.chunk = @ + 1, !.page = {}, !.ahead = Ids(next)]
  <2>1. [mem EXCEPT !.writing = {}].chunk = mem.chunk
    BY <1>1 DEF Memories
  <2> QED BY <2>1 DEF ToList, NextChunk
<1>3. /\ mem' \in Memories
      /\ mem'.page = {} /\ mem'.ahead = Ids(next) /\ mem'.chunk = next
      /\ mem'.years = mem.years /\ mem'.loaded = mem.loaded /\ mem'.known = mem.known
      /\ mem'.dirty = mem.dirty /\ mem'.writing = {}
      /\ mem'.id = mem.id /\ mem'.seen = mem.seen
  <2>1. Ids(next) \subseteq Events /\ next \in Nat \ {0}
    BY <1>1, Constants
  <2> DEFINE quiet == [mem EXCEPT !.writing = {}]
  <2>2. /\ quiet \in Memories /\ quiet.chunk = mem.chunk /\ quiet.writing = {}
        /\ quiet.years = mem.years /\ quiet.loaded = mem.loaded /\ quiet.known = mem.known
        /\ quiet.dirty = mem.dirty /\ quiet.id = mem.id /\ quiet.seen = mem.seen
    BY <1>1 DEF Memories
  <2>3. mem' = [quiet EXCEPT !.chunk = next, !.page = {}, !.ahead = Ids(next)]
    BY <1>2, <2>2
  <2> HIDE DEF quiet, next
  <2> QED BY <2>1, <2>2, <2>3 DEF Memories
<1>4. pp' = IF next > Len(Chunks) THEN "final" ELSE "list"
  BY <1>3 DEF ToList
<1>5. FilesAreCurrent'
  <2>1. \A y \in Years \ mem.dirty : mem.years[y] \subseteq shard[y]
    BY <1>1 DEF FilesAreCurrent, Unsaved, Writing
  <2>2. Unsaved' = mem.dirty
    BY <1>3, <1>4 DEF Unsaved, Writing
  <2> QED BY <1>3, <2>1, <2>2 DEF FilesAreCurrent
<1>6. MemoryIsWhole'
  BY <1>1, <1>3 DEF MemoryIsWhole, Stored
<1>7. IdsHavePlaces'
  BY <1>1, <1>3, <1>4 DEF IdsHavePlaces, FromDb
<1>8. ListIsFollowed'
  <2>1. mem.chunk \in DOMAIN Chunks
    BY <1>1, Constants
  <2>2. ASSUME NEW i \in DOMAIN Chunks, i < next
        PROVE  Chunks[i] \subseteq mem.seen \cup dropped'
    <3>1. i \in Nat /\ (i < mem.chunk \/ i = mem.chunk)
      BY <1>1, <2>2, Constants
    <3> QED BY <1>1, <2>1, <3>1 DEF ListIsFollowed
  <2>3. next \in DOMAIN Chunks => Chunks[next] = Ids(next)
    BY Constants
  <2>4. pp' \in Listing <=> next <= Len(Chunks)
    BY <1>1, <1>4, Constants DEF Listing
  <2> QED BY <1>3, <2>2, <2>3, <2>4 DEF ListIsFollowed
<1> QED BY <1>3, <1>4, <1>5, <1>6, <1>7, <1>8 DEF ParserInv, ExitIsComplete

LEMMA EmptyPageStep ==
    ASSUME ParserInv, EmptyPage, UNCHANGED <<date, db>>
    PROVE  ParserInv'
<1>1. mem \in Memories /\ mem.writing = {} /\ pp = "list" /\ mem.page = {} /\ mem.ahead = {}
  BY DEF ParserInv, EmptyPage, Working, Listing, FilesAreCurrent, Writing
<1>2. [mem EXCEPT !.writing = {}] = mem
  BY <1>1 DEF Memories
<1>3. ToList(NextChunk([mem EXCEPT !.writing = {}]))
  BY <1>2, Zenon DEF EmptyPage
<1>4. UNCHANGED <<shard, quar, db, opts, blind>> /\ dropped' = dropped \cup mem.page \cup mem.ahead
  BY <1>1 DEF EmptyPage
<1> QED BY <1>1, <1>3, <1>4, ChunkStep

LEMMA LeaveChunkStep ==
    ASSUME ParserInv, ListingFails \/ CheckpointFails, UNCHANGED <<date, db>>
    PROVE  ParserInv'
<1>1. pp \in {"list", "checkpoint"} /\ LeaveChunk
  BY DEF ListingFails, CheckpointFails
<1>2. pp = "checkpoint" => \A y \in Years \ mem.dirty : mem.years[y] \subseteq shard[y]
  BY DEF ParserInv, Working, Listing, FilesAreCurrent, Unsaved, Writing
<1>3. ToList(NextChunk([mem EXCEPT !.writing = {}]))
  BY <1>1, Zenon DEF LeaveChunk
<1> QED BY <1>1, <1>2, <1>3, ChunkStep DEF LeaveChunk

LEMMA UpsertStep ==
    ASSUME TypeOKEvents, ParserInv, Upsert, UNCHANGED <<date, db>>
    PROVE  ParserInv'
<1>1. /\ mem \in Memories /\ pp = "upsert" /\ mem.chunk \in Nat /\ mem.chunk <= Len(Chunks)
      /\ FilesAreCurrent /\ MemoryIsWhole /\ IdsHavePlaces /\ ListIsFollowed
  BY DEF ParserInv, Upsert, Working, Listing, ListIsFollowed, Memories
<1>2. PICK e \in Events : mem.id = {e}
  BY <1>1 DEF IdsHavePlaces
<1>0. PICK first :
         /\ UNCHANGED <<shard, quar, db, opts, blind, dropped>>
         /\ \/ pp' = "checkpoint" /\ mem' = [Kept(e, first) EXCEPT !.writing = Kept(e, first).dirty]
            \/ ToList(Kept(e, first))
  BY <1>2 DEF Upsert
<1> DEFINE years == [y \in Years |->
                        (IF y \in first THEN mem.years[y] \ {e} ELSE mem.years[y])
                        \cup (IF y = date[e] THEN {e} ELSE {})]
           count == (mem.count + 1) % CheckpointEvery
           kept == [mem EXCEPT !.years = years, !.dirty = mem.dirty \cup {date[e]},
                               !.known = mem.known \cup {e}, !.id = {}, !.count = count]
<1>3. /\ years \in [Years -> SUBSET Events] /\ date[e] \in Years
      /\ \A y \in Years : mem.years[y] \subseteq years[y] \cup {e}
      /\ \A y \in Years \ {date[e]} : years[y] \subseteq mem.years[y]
      /\ e \in years[date[e]]
  <2>1. date[e] \in Years /\ mem.years \in [Years -> SUBSET Events]
    BY <1>1 DEF TypeOKEvents, Memories
  <2> QED BY <2>1
<1>4. count \in Nat
  BY <1>1, Constants DEF Memories
<1>5. /\ UNCHANGED <<shard, quar, db, opts, blind, dropped>>
      /\ \/ pp' = "checkpoint" /\ mem' = [kept EXCEPT !.writing = kept.dirty]
         \/ ToList(kept)
  <2>1. Kept(e, first) = kept
    BY <1>1 DEF Kept, Memories
  <2> QED BY <1>0, <2>1
<1> HIDE DEF years, count
<1>6. /\ kept \in Memories
      /\ kept.page = mem.page /\ kept.ahead = mem.ahead /\ kept.chunk = mem.chunk
      /\ kept.years = years /\ kept.loaded = mem.loaded /\ kept.known = mem.known \cup {e}
      /\ kept.dirty = mem.dirty \cup {date[e]} /\ kept.id = {} /\ kept.seen = mem.seen
      /\ kept.writing = mem.writing
  BY <1>1, <1>3, <1>4 DEF Memories
<1> HIDE DEF kept
<1>7. /\ mem' \in Memories
      /\ mem'.page = mem.page /\ mem'.ahead = mem.ahead /\ mem'.chunk = mem.chunk
      /\ mem'.years = years /\ mem'.loaded = mem.loaded /\ mem'.known = mem.known \cup {e}
      /\ mem'.dirty = mem.dirty \cup {date[e]} /\ mem'.id = {} /\ mem'.seen = mem.seen
      /\ pp' = "checkpoint" => mem'.writing = mem'.dirty
      /\ pp' # "checkpoint" => mem'.writing = mem.writing
  BY <1>5, <1>6 DEF Memories, ToList
<1>8. pp' \in {"list", "checkpoint"}
  BY <1>1, <1>5, <1>6, Constants DEF ToList
<1>9. /\ e \in Held(years)
      /\ \A x : x \in Held(mem.years) => x \in Held(years)
  BY <1>3 DEF Held
<1>10. FilesAreCurrent'
  <2>1. mem.writing = {} /\ Unsaved = mem.dirty
    BY <1>1 DEF FilesAreCurrent, Unsaved, Writing
  <2>2. Unsaved' = mem.dirty \cup {date[e]}
    BY <1>7, <1>8 DEF Unsaved, Writing
  <2>3. \A y \in Years \ (mem.dirty \cup {date[e]}) : years[y] \subseteq shard[y]
    BY <1>1, <1>3, <2>1 DEF FilesAreCurrent
  <2> QED BY <1>5, <1>7, <1>8, <2>1, <2>2, <2>3 DEF FilesAreCurrent, Writing
<1>11. MemoryIsWhole'
  BY <1>1, <1>5, <1>7, <1>9 DEF MemoryIsWhole, Stored
<1>12. IdsHavePlaces'
  BY <1>1, <1>2, <1>5, <1>7, <1>8, <1>9 DEF IdsHavePlaces, FromDb
<1>13. ListIsFollowed'
  BY <1>1, <1>5, <1>7, <1>8 DEF ListIsFollowed, Listing
<1> QED BY <1>7, <1>8, <1>10, <1>11, <1>12, <1>13 DEF ParserInv, ExitIsComplete

LEMMA PrepareStep ==
    ASSUME ParserInv, PrepareFinal, UNCHANGED <<date, db>>
    PROVE  ParserInv'
<1>1. /\ mem \in Memories /\ pp = "final"
      /\ FilesAreCurrent /\ MemoryIsWhole /\ IdsHavePlaces /\ ListIsFollowed
  BY DEF ParserInv, PrepareFinal, Working, Saving
<1>2. mem' \in Memories /\ mem' = [mem EXCEPT !.writing = mem.dirty] /\ pp' = "save"
  BY <1>1 DEF PrepareFinal, Memories
<1>3. UNCHANGED <<shard, quar, db, opts, blind, dropped>>
  BY DEF PrepareFinal
<1>4. FilesAreCurrent' /\ MemoryIsWhole'
  BY <1>1, <1>2, <1>3 DEF FilesAreCurrent, Unsaved, Writing, MemoryIsWhole, Stored, Memories
<1>5. IdsHavePlaces'
  BY <1>1, <1>2, <1>3 DEF IdsHavePlaces, FromDb, Memories
<1>6. ListIsFollowed'
  BY <1>1, <1>2, <1>3 DEF ListIsFollowed, Listing, Memories
<1> QED BY <1>2, <1>4, <1>5, <1>6 DEF ParserInv, ExitIsComplete

\* What is written is what the memory holds of that year.
LEMMA Written ==
    ASSUME TypeOKEvents, ParserInv, WriteShard
    PROVE  \E y \in mem.writing :
              /\ y \in Years /\ mem' = [mem EXCEPT !.writing = @ \ {y}]
              /\ shard' = IF mem.years[y] = {} THEN shard
                          ELSE [shard EXCEPT ![y] = mem.years[y]]
              /\ UNCHANGED <<quar, pp, opts, code, dropped, blind, runs, faults>>
<1>1. mem.writing \subseteq Years /\ mem.writing # {}
  BY DEF ParserInv, Memories, WriteShard
<1>2. mem.writing \subseteq Nat /\ IsFiniteSet(mem.writing)
  BY <1>1, Constants, FS_Subset
<1>3. Max(mem.writing) \in mem.writing
  BY <1>1, <1>2, MaxOf
<1> QED BY <1>1, <1>3 DEF WriteShard, NoFault

LEMMA WriteStep ==
    ASSUME TypeOKEvents, ParserInv, WriteShard, UNCHANGED <<date, db>>
    PROVE  ParserInv'
<1>1. /\ mem \in Memories /\ pp \in Writing /\ Stored \subseteq Events
      /\ FilesAreCurrent /\ MemoryIsWhole /\ IdsHavePlaces /\ ListIsFollowed
  BY HeldType DEF ParserInv, WriteShard, Working, Listing, Saving, Writing, TypeOKEvents, Stored
<1>2. PICK y \in mem.writing :
          /\ y \in Years /\ mem' = [mem EXCEPT !.writing = @ \ {y}]
          /\ shard' = IF mem.years[y] = {} THEN shard ELSE [shard EXCEPT ![y] = mem.years[y]]
          /\ UNCHANGED <<quar, pp, opts, code, dropped, blind, runs, faults>>
  BY Written
<1>3. /\ mem' \in Memories /\ mem'.writing = mem.writing \ {y}
      /\ mem'.page = mem.page /\ mem'.ahead = mem.ahead /\ mem'.chunk = mem.chunk
      /\ mem'.years = mem.years /\ mem'.loaded = mem.loaded /\ mem'.known = mem.known
      /\ mem'.dirty = mem.dirty /\ mem'.id = mem.id /\ mem'.seen = mem.seen
  BY <1>1, <1>2 DEF Memories
<1>4. /\ \A z \in Years \ {y} : shard'[z] = shard[z]
      /\ mem.years[y] \subseteq shard'[y] /\ (shard'[y] = shard[y] \/ shard'[y] = mem.years[y])
  BY <1>2 DEF TypeOKEvents
<1>5. FilesAreCurrent'
  <2>1. Unsaved' = mem.writing \ {y} /\ Unsaved = mem.writing
    BY <1>1, <1>2, <1>3 DEF Unsaved
  <2>2. \A z \in Years \ (mem.writing \ {y}) : mem.years[z] \subseteq shard'[z]
    BY <1>1, <1>4, <2>1 DEF FilesAreCurrent
  <2> QED BY <1>1, <1>2, <1>3, <2>1, <2>2 DEF FilesAreCurrent
<1>6. MemoryIsWhole'
  <2>1. Stored' \subseteq Stored \cup Held(mem.years)
    BY <1>2, <1>4 DEF Stored, Held
  <2> QED BY <1>1, <1>2, <1>3, <2>1 DEF MemoryIsWhole
<1>7. IdsHavePlaces'
  BY <1>1, <1>2, <1>3 DEF IdsHavePlaces, FromDb
<1>8. ListIsFollowed'
  BY <1>1, <1>2, <1>3 DEF ListIsFollowed
<1> QED BY <1>1, <1>2, <1>3, <1>5, <1>6, <1>7, <1>8 DEF ParserInv, ExitIsComplete, Writing

LEMMA EndCheckpointStep ==
    ASSUME ParserInv, EndCheckpoint, UNCHANGED <<date, db>>
    PROVE  ParserInv'
<1>1. /\ mem \in Memories /\ pp = "checkpoint" /\ mem.writing = {}
      /\ mem.chunk \in Nat /\ mem.chunk <= Len(Chunks)
      /\ FilesAreCurrent /\ MemoryIsWhole /\ IdsHavePlaces /\ ListIsFollowed
  BY DEF ParserInv, EndCheckpoint, Working, Listing, ListIsFollowed, Memories
<1> DEFINE saved == [mem EXCEPT !.dirty = {}]
<1>2. /\ saved \in Memories /\ saved.writing = {} /\ saved.dirty = {}
      /\ saved.page = mem.page /\ saved.ahead = mem.ahead /\ saved.chunk = mem.chunk
      /\ saved.years = mem.years /\ saved.loaded = mem.loaded /\ saved.known = mem.known
      /\ saved.id = mem.id /\ saved.seen = mem.seen
  BY <1>1 DEF Memories
<1>3. ToList(saved) /\ UNCHANGED <<shard, quar, db, opts, blind, dropped>>
  BY DEF EndCheckpoint
<1> HIDE DEF saved
<1>4. mem' = saved /\ pp' = "list"
  BY <1>1, <1>2, <1>3, Constants DEF ToList
<1>5. FilesAreCurrent'
  BY <1>1, <1>2, <1>3, <1>4 DEF FilesAreCurrent, Unsaved, Writing
<1>6. MemoryIsWhole' /\ IdsHavePlaces'
  BY <1>1, <1>2, <1>3, <1>4 DEF MemoryIsWhole, Stored, IdsHavePlaces, FromDb
<1>7. ListIsFollowed'
  BY <1>1, <1>2, <1>3, <1>4 DEF ListIsFollowed, Listing
<1> QED BY <1>2, <1>4, <1>5, <1>6, <1>7 DEF ParserInv, ExitIsComplete

\* At the end of the final save every year is in its file and every chunk done.
LEMMA FinishStep ==
    ASSUME ParserInv, Finish, UNCHANGED <<date, db>>
    PROVE  ParserInv'
<1>1. /\ mem \in Memories /\ pp = "save" /\ mem.writing = {}
      /\ FilesAreCurrent /\ MemoryIsWhole /\ IdsHavePlaces /\ ListIsFollowed
  BY DEF ParserInv, Finish, Working, Saving
<1>2. /\ mem' \in Memories /\ mem'.loaded = mem.loaded /\ pp' = "off"
      /\ UNCHANGED <<shard, quar, db, opts, dropped>>
  BY <1>1, EmptyType DEF Finish, End, Memories
<1>3. Held(mem.years) \subseteq Stored
  <2>1. \A y \in Years : mem.years[y] \subseteq shard[y]
    BY <1>1 DEF FilesAreCurrent, Unsaved, Writing
  <2> QED BY <2>1 DEF Held, Stored
<1>4. Listed \subseteq mem.seen \cup dropped
  <2>1. \A i \in DOMAIN Chunks : i < mem.chunk
    BY <1>1, Constants DEF ListIsFollowed, Listing, Memories
  <2>2. \A i \in DOMAIN Chunks : Ids(i) \subseteq mem.seen \cup dropped
    BY <1>1, <2>1, Constants DEF ListIsFollowed
  <2> QED BY <2>2 DEF Listed
<1>5. mem.seen \subseteq Stored \cup FromDb \cup quar
  BY <1>1, <1>3 DEF IdsHavePlaces
<1>6. ExitIsComplete'
  BY <1>1, <1>2, <1>3, <1>4, <1>5 DEF ExitIsComplete, MemoryIsWhole, FromDb, Stored
<1> QED BY <1>2, <1>6 DEF ParserInv, Working, Listing, Saving

LEMMA ParserMoves ==
    ASSUME TypeOKEvents, ParserInv, ParserStep \/ WriteShard, UNCHANGED <<date, db>>
    PROVE  ParserInv'
<1>1. ASSUME NEW e \in Events, Skip(e) \/ Found(e) \/ Unresolvable(e) \/ GivesUp(e)
      PROVE  ParserInv'
  BY <1>1, SkipStep, FoundStep, UnresolvableStep, GivesUpStep
<1>2. CASE Load \/ Page \/ EmptyPage \/ ListingFails \/ CheckpointFails
  BY <1>2, LoadStep, PageStep, EmptyPageStep, LeaveChunkStep
<1>3. CASE Upsert \/ PrepareFinal \/ EndCheckpoint \/ WriteShard
  BY <1>3, UpsertStep, PrepareStep, EndCheckpointStep, WriteStep
<1>4. CASE Finish
  BY <1>4, FinishStep
<1>5. CASE Dies
  BY <1>5, ParserEnds DEF Dies
<1> QED BY <1>1, <1>2, <1>3, <1>4, <1>5 DEF ParserStep

LEMMA ImportStep ==
    ASSUME TypeOKEvents, ParserInv, Import
    PROVE  ParserInv'
<1>1. UNCHANGED parserVars /\ pp = "off" /\ db \subseteq db'
  BY DEF Import
<1>2. ExitIsComplete'
  BY <1>1 DEF ParserInv, parserVars, ExitIsComplete, Stored
<1> QED BY <1>1, <1>2 DEF ParserInv, parserVars, Working, Listing, Saving

LEMMA ParserTypes ==
    ASSUME TypeOKEvents, ParserInv, ParserInv', ParserStep \/ WriteShard, UNCHANGED <<date, db>>
    PROVE  TypeOKEvents'
<1> DEFINE Same == UNCHANGED <<shard, quar, opts, blind, runs, dropped, code>>
<1>1. /\ mem'.years \in [Years -> SUBSET Events] /\ mem'.dirty \cup mem'.writing \subseteq Years
      /\ mem \in Memories
  BY DEF ParserInv, Memories
<1>2. ASSUME Fault \/ NoFault PROVE faults' \in 0..MaxFaults
  BY <1>2, Constants DEF Fault, NoFault, TypeOKEvents
<1>3. ASSUME NEW c \in {"ok", "retry", "error"}, Fault \/ NoFault, End(c) PROVE TypeOKEvents'
  BY <1>1, <1>2, <1>3 DEF End, TypeOKEvents
<1>4. ASSUME NEW m, ToList(m), Fault \/ NoFault,
             UNCHANGED <<shard, quar, opts, code, runs>>,
             blind' \in BOOLEAN, dropped' \subseteq Events
      PROVE  TypeOKEvents'
  BY <1>1, <1>2, <1>4 DEF ToList, TypeOKEvents
<1>5. CASE Load
  BY <1>3, <1>4, <1>5 DEF Load, Begin, TypeOKEvents
<1>6. CASE ListingFails \/ CheckpointFails
  <2>1. dropped \cup mem.page \cup mem.ahead \subseteq Events
    BY <1>1 DEF Memories, TypeOKEvents
  <2> QED BY <1>4, <1>6, <2>1 DEF ListingFails, CheckpointFails, LeaveChunk, TypeOKEvents
<1>7. CASE EmptyPage \/ EndCheckpoint
  BY <1>4, <1>7 DEF EmptyPage, EndCheckpoint, TypeOKEvents
<1>8. CASE Page \/ PrepareFinal
  BY <1>1, <1>2, <1>8 DEF Page, PrepareFinal, TypeOKEvents
<1>9. CASE Upsert
  BY <1>1, <1>2, <1>9 DEF Upsert, ToList, TypeOKEvents
<1>10. ASSUME NEW e \in Events, Skip(e) \/ Found(e) \/ Unresolvable(e) PROVE TypeOKEvents'
  BY <1>1, <1>2, <1>10 DEF Skip, Found, Unresolvable, TypeOKEvents
<1>11. ASSUME NEW e \in Events, GivesUp(e) PROVE TypeOKEvents'
  BY <1>3, <1>11 DEF GivesUp
<1>12. CASE Finish \/ Dies
  BY <1>3, <1>12 DEF Finish, Dies
<1>13. CASE WriteShard
  <2>1. PICK y \in mem.writing :
            /\ y \in Years /\ mem' = [mem EXCEPT !.writing = @ \ {y}]
            /\ shard' = IF mem.years[y] = {} THEN shard ELSE [shard EXCEPT ![y] = mem.years[y]]
            /\ UNCHANGED <<quar, pp, opts, code, dropped, blind, runs, faults>>
    BY <1>13, Written
  <2>2. shard' \in [Years -> SUBSET Events]
    BY <1>1, <2>1 DEF TypeOKEvents, Memories
  <2> QED BY <1>1, <2>1, <2>2 DEF TypeOKEvents
<1> QED BY <1>5, <1>6, <1>7, <1>8, <1>9, <1>10, <1>11, <1>12, <1>13 DEF ParserStep

----------------------------------------------------------------------------
(* The pipeline *)

LEMMA PipelineUntouched ==
    PipelineInv /\ UNCHANGED <<shard, pp, opts, pipelineVars, complete>> => PipelineInv'
  BY DEF PipelineInv, pipelineVars, Last, Ending, Extracted, Stored

\* A parser at work has not been seen to have ended.
LEMMA PipelineAndParser ==
    ASSUME PipelineInv, ParserStep, UNCHANGED <<pipelineVars, complete>>
    PROVE  PipelineInv'
<1>1. pp # "off" /\ UNCHANGED <<shard, opts>>
  BY DEF ParserStep, Load, Begin, ToList, End, Page, EmptyPage, ListingFails, LeaveChunk, Skip,
         Found, Unresolvable, GivesUp, Asks, Upsert, PrepareFinal, EndCheckpoint,
         CheckpointFails, Finish, Dies
<1> QED BY <1>1 DEF PipelineInv, pipelineVars, Last, Ending, Extracted, Stored

\* A file that is written makes every signature taken before an old one.
LEMMA PipelineAndWrite ==
    ASSUME PipelineInv, WriteShard, last' = Aged(last), pending' = Aged(pending),
           UNCHANGED <<orch, exit, ended, failures, reading, list, complete>>
    PROVE  PipelineInv'
<1>1. pp # "off" /\ pp' = pp
  BY DEF WriteShard
<1>2. last' # "current" /\ pending' # "current" /\ (pending # "none" => pending' # "none")
  BY DEF Aged
<1> QED BY <1>1, <1>2 DEF PipelineInv, Last, Ending, Aged

LEMMA PipelineStarts ==
    ASSUME NEW o, StartPipeline(o)
    PROVE  PipelineInv'
  BY DEF StartPipeline, PipelineInv, Last, Ending

LEMMA PipelineOff == orch' = "off" => PipelineInv'
  BY DEF PipelineInv, Last, Ending

LEMMA PipelineStep ==
    ASSUME TypeOK, PipelineInv, PipelineRuns
    PROVE  PipelineInv'
<1> DEFINE Here == UNCHANGED <<shard, pp, opts, complete>>
<1> USE DEF PipelineInv, Last, Ending
<1>1. CASE Poll
  <2>1. Here /\ UNCHANGED <<last, failures, list>> /\ orch' = "polled"
    BY <1>1 DEF Poll, OrchOnly, eventVars
  <2>2. ended' => pp = "off"
    BY <1>1 DEF Poll
  <2> QED BY <1>1, <2>1, <2>2 DEF Poll, Extracted, Stored
<1>2. CASE Extract
  <2>1. Here /\ UNCHANGED <<ended, last, pending, failures, list>>
    BY <1>2 DEF Extract, OrchOnly, eventVars
  <2>2. Extracted' = Extracted /\ Stored' = Stored
    BY <2>1 DEF Extracted, Stored
  <2> QED BY <1>2, <2>1, <2>2 DEF Extract, TypeOK
<1>3. CASE PassOn
  <2>1. Here /\ UNCHANGED <<ended, last, pending, failures, reading, list>>
    BY <1>3 DEF PassOn, OrchOnly, eventVars
  <2>2. Extracted' = Extracted /\ Stored' = Stored
    BY <2>1 DEF Extracted, Stored
  <2>3. \/ orch = "polled" /\ orch' = "tend" /\ (pending = "none" \/ ended # TRUE)
        \/ orch = "final" /\ pending = "none" /\ orch' = "wait"
    BY <1>3 DEF PassOn
  <2> QED BY <2>1, <2>2, <2>3
<1>4. CASE ExtractEnds
  <2>1. Here /\ UNCHANGED ended
    BY <1>4 DEF ExtractEnds
  <2>2. Extracted' = Extracted /\ Stored' = Stored
    BY <2>1 DEF Extracted, Stored
  <2>3. /\ orch \in {"extract", "extract last"} /\ orch' \in {"tend", "wait"} /\ pending' = "none"
        /\ orch' = "wait" => orch = "extract last"
    BY <1>4 DEF ExtractEnds, AfterExtract
  <2>4. \/ list' = reading /\ last' = pending /\ failures' = failures
        \/ failures' = TRUE /\ list' = list /\ last' = last
    BY <1>4 DEF ExtractEnds
  <2>5. orch' # "off" /\ last' = "current" => list' = Extracted
    BY <2>3, <2>4
  <2>6. orch' = "wait" => Stored = {} \/ last' = "current" \/ failures' = TRUE
    BY <2>3, <2>4 DEF TypeOK
  <2> QED BY <2>1, <2>2, <2>3, <2>5, <2>6
<1>5. CASE Tend
  <2>1. Here /\ UNCHANGED <<ended, last, pending, failures, reading, list>>
    BY <1>5 DEF Tend, OrchOnly, eventVars
  <2>2. Extracted' = Extracted /\ Stored' = Stored
    BY <2>1 DEF Extracted, Stored
  <2> QED BY <1>5, <2>1, <2>2 DEF Tend, TypeOK
<1>6. CASE ParserEnded
  <2>1. Here /\ UNCHANGED <<ended, last, failures, reading, list>>
    BY <1>6 DEF ParserEnded, OrchOnly, eventVars
  <2>2. Extracted' = Extracted /\ Stored' = Stored
    BY <2>1 DEF Extracted, Stored
  <2> QED BY <1>6, <2>1, <2>2 DEF ParserEnded, Changed, TypeOK
<1>7. CASE AwaitBio \/ AwaitOnce
  <2>1. Here /\ UNCHANGED <<ended, last, pending, failures, reading, list>>
    BY <1>7 DEF AwaitBio, AwaitOnce, OrchOnly, eventVars
  <2>2. Extracted' = Extracted /\ Stored' = Stored
    BY <2>1 DEF Extracted, Stored
  <2> QED BY <1>7, <2>1, <2>2 DEF AwaitBio, AwaitOnce, TypeOK
<1> QED BY <1>1, <1>2, <1>3, <1>4, <1>5, <1>6, <1>7 DEF PipelineRuns

----------------------------------------------------------------------------
(* The biography scraper *)

LEMMA BioUntouched == BioInv /\ UNCHANGED bioVars => BioInv'
  BY DEF BioInv, bioVars

LEMMA BioStarts ==
    ASSUME BioInv, NEW m, StartBio(m) \/ NoBio
    PROVE  BioInv'
  BY DEF BioInv, StartBio, NoBio

LEMMA BioStops ==
    ASSUME NEW c, BioEnd(c)
    PROVE  BioInv'
  BY DEF BioInv, BioEnd

\* Only what is not settled is tried, and what is written is all there is.
LEMMA BioStep ==
    ASSUME TypeOK, BioInv, BioRuns
    PROVE  BioInv'
<1> USE DEF BioInv
<1>1. CASE BioLoad
  BY <1>1 DEF BioLoad
<1>2. CASE AwaitList \/ Idle \/ Connect \/ SessionCloses \/ Rotate
  BY <1>2 DEF AwaitList, Idle, Connect, SessionCloses, Rotate
<1>3. CASE SinglePassFails
  BY <1>3 DEF SinglePassFails, BioEnd
<1>4. CASE BioCheckpoint \/ Replace
  BY <1>4 DEF BioCheckpoint, Replace, ResultsList
<1>5. ASSUME NEW a \in Artists, NEW page \in Pages, Parse(a, page) PROVE BioInv'
  <2>1. res[a] # "settled" /\ bp = "parse" /\ UNCHANGED <<bios, lost>>
    BY <1>5 DEF Parse, Pending, Settled
  <2>2. \A b \in Artists : b # a => res'[b] = res[b]
    BY <1>5 DEF Parse, TypeOK
  <2> QED BY <2>1, <2>2
<1> QED BY <1>1, <1>2, <1>3, <1>4, <1>5 DEF BioRuns

----------------------------------------------------------------------------
(* Types of the pipeline and of the scraper *)

PipelineTypes ==
    /\ orch \in {"off", "poll", "polled", "extract", "tend", "final",
                 "extract last", "wait", "once"}
    /\ exit \in {"none", "ok", "retry", "error"} /\ ended \in BOOLEAN
    /\ {last, pending} \subseteq {"none", "current", "old"}
    /\ failures \in BOOLEAN /\ reading \subseteq Artists
    /\ list = NoList \/ list \subseteq Artists
    /\ complete \subseteq Artists /\ chrome \in BOOLEAN
BioTypes ==
    /\ bp \in {"off", "load", "look", "parse", "checkpoint", "save", "replace"}
    /\ mode \in {"watch", "once"} /\ bcode \in {"none", "ok", "error"}
    /\ {res, bios, backup} \subseteq [Artists -> {"none", "settled", "failed"}]
    /\ due \subseteq Artists /\ handled \in 0..(BioCheckpointEvery - 1)
    /\ saw \subseteq Artists

LEMMA Types == TypeOK <=> TypeOKEvents /\ PipelineTypes /\ BioTypes
  BY DEF TypeOK, PipelineTypes, BioTypes

LEMMA TypesAfter == TypeOKEvents' /\ PipelineTypes' /\ BioTypes' => TypeOK'
  BY DEF TypeOK, PipelineTypes, BioTypes

LEMMA FaultType ==
    ASSUME TypeOKEvents, Fault \/ NoFault
    PROVE  faults' \in 0..MaxFaults
  BY Constants DEF Fault, NoFault, TypeOKEvents

LEMMA EventsUntouched ==
    ASSUME TypeOKEvents, Fault \/ NoFault, UNCHANGED <<sourceVars, parserVars>>
    PROVE  TypeOKEvents'
  BY FaultType DEF TypeOKEvents, sourceVars, parserVars

LEMMA EndType ==
    ASSUME TypeOKEvents, ParserInv, NEW c \in {"ok", "retry", "error"}, End(c),
           UNCHANGED sourceVars, Fault \/ NoFault
    PROVE  TypeOKEvents'
<1>1. mem'.years \in [Years -> SUBSET Events] /\ mem'.dirty \cup mem'.writing = {}
  BY EmptyType DEF End, EmptyMemory, Memories
<1> QED BY <1>1, FaultType DEF End, TypeOKEvents, sourceVars

LEMMA ExtractedType == TypeOKEvents => Extracted \subseteq Artists
<1>1. TypeOKEvents => Stored \subseteq Events
  BY HeldType DEF TypeOKEvents, Stored
<1> QED BY <1>1, ScrapeAssumption DEF Extracted

LEMMA NoResultsType == NoResults \in [Artists -> {"none", "settled", "failed"}]
  BY DEF NoResults

LEMMA BioStartTypes ==
    ASSUME BioTypes, NEW m \in {"watch", "once"}, StartBio(m) \/ NoBio
    PROVE  BioTypes'
  BY DEF StartBio, NoBio, BioTypes

LEMMA BioEndTypes ==
    ASSUME BioTypes, NEW c \in {"ok", "error"}, BioEnd(c)
    PROVE  BioTypes'
<1>1. 0 \in 0..(BioCheckpointEvery - 1)
  BY Constants
<1> QED BY <1>1, NoResultsType DEF BioEnd, BioTypes

LEMMA BioStepTypes ==
    ASSUME BioTypes, PipelineTypes, BioRuns
    PROVE  BioTypes'
<1>1. 0 \in 0..(BioCheckpointEvery - 1)
  BY Constants
<1>2. CASE BioLoad
  BY <1>1, <1>2, NoResultsType DEF BioLoad, BioTypes
<1>3. CASE AwaitList \/ SessionCloses \/ Rotate \/ BioCheckpoint
  BY <1>3 DEF AwaitList, SessionCloses, Rotate, BioCheckpoint, ResultsList, BioTypes
<1>4. CASE Idle \/ Connect
  BY <1>4 DEF Idle, Connect, BioTypes, PipelineTypes
<1>5. CASE SinglePassFails
  BY <1>5, BioEndTypes DEF SinglePassFails
<1>6. CASE Replace
  BY <1>1, <1>6, NoResultsType DEF Replace, ResultsList, BioTypes
<1>7. ASSUME NEW a \in Artists, NEW page \in Pages, Parse(a, page) PROVE BioTypes'
  <2>1. (handled + 1) % BioCheckpointEvery \in 0..(BioCheckpointEvery - 1)
    BY Constants DEF BioTypes
  <2>2. Verdict(page) \in {"settled", "failed"}
    BY DEF Verdict
  <2>3. res' \in [Artists -> {"none", "settled", "failed"}]
    BY <1>7, <2>2 DEF Parse, BioTypes
  <2>4. due' \subseteq Artists
    BY <1>7 DEF Parse, BioTypes
  <2>5. handled' \in 0..(BioCheckpointEvery - 1) /\ bp' \in {"checkpoint", "look"}
    BY <1>7, <2>1 DEF Parse
  <2> QED BY <1>7, <2>3, <2>4, <2>5 DEF Parse, BioTypes
<1> QED BY <1>2, <1>3, <1>4, <1>5, <1>6, <1>7 DEF BioRuns

LEMMA PipelineStepTypes ==
    ASSUME TypeOK, PipelineRuns
    PROVE  PipelineTypes' /\ BioTypes' /\ TypeOKEvents'
<1>1. TypeOKEvents /\ PipelineTypes /\ BioTypes
  BY Types
<1>2. TypeOKEvents'
  BY <1>1, EventsUntouched
     DEF PipelineRuns, Poll, Extract, PassOn, ExtractEnds, Tend, ParserEnded, AwaitBio, AwaitOnce,
         OrchOnly, eventVars, sourceVars, parserVars, NoFault
<1>3. BioTypes'
  <2>1. CASE Tend \/ AwaitBio
    <3>1. UNCHANGED bioVars \/ \E m \in {"watch", "once"} : StartBio(m)
      BY <2>1 DEF Tend, AwaitBio
    <3> QED BY <1>1, <3>1, BioStartTypes DEF BioTypes, bioVars
  <2>2. CASE ~(Tend \/ AwaitBio)
    BY <1>1, <2>2
       DEF PipelineRuns, Poll, Extract, PassOn, ExtractEnds, ParserEnded, AwaitOnce,
           BioTypes, bioVars
  <2> QED BY <2>1, <2>2
<1>4. PipelineTypes'
  <2> USE <1>1 DEF PipelineTypes
  <2>1. CASE Poll
    BY <2>1 DEF Poll, OrchOnly, EnsureChrome
  <2>2. CASE Extract
    BY <2>2, ExtractedType DEF Extract, OrchOnly
  <2>3. CASE PassOn \/ ParserEnded
    BY <2>3 DEF PassOn, ParserEnded, OrchOnly
  <2>4. CASE ExtractEnds
    BY <2>4 DEF ExtractEnds, AfterExtract
  <2>5. CASE Tend
    BY <2>5 DEF Tend, OrchOnly, EnsureChrome
  <2>6. CASE AwaitBio \/ AwaitOnce
    <3>1. \A b \in {"none", "ok", "error"} : ExitCode(b) \in {"none", "ok", "retry", "error"}
      BY DEF ExitCode, TypeOKEvents
    <3>2. exit' \in {"none", "ok", "retry", "error"} /\ orch' \in {"once", "off"}
      BY <2>6, <3>1 DEF AwaitBio, AwaitOnce, BioTypes
    <3>3. chrome' \in BOOLEAN
      BY <2>6 DEF AwaitBio, AwaitOnce, EnsureChrome
    <3> QED BY <2>6, <3>2, <3>3 DEF AwaitBio, AwaitOnce, OrchOnly
  <2> QED BY <2>1, <2>2, <2>3, <2>4, <2>5, <2>6 DEF PipelineRuns
<1> QED BY <1>2, <1>3, <1>4

----------------------------------------------------------------------------
(* The three together *)

LEMMA InvInit == Init => ScrapeInv
<1> SUFFICES ASSUME Init PROVE ScrapeInv
  OBVIOUS
<1>1. TypeOKEvents
  <2>1. date \in [Events -> Years]
    BY ScrapeEventsAssumption DEF Init, InitEvents
  <2>2. shard \in [Years -> SUBSET Events]
    BY DEF Init, InitEvents, Nothing
  <2>3. mem.years \in [Years -> SUBSET Events] /\ mem.dirty \cup mem.writing \subseteq Years
    BY EmptyType DEF Init, InitEvents, Memories
  <2>4. runs \in 0..MaxRuns /\ faults \in 0..MaxFaults
    BY Constants DEF Init, InitEvents
  <2>5. {quar, db, dropped} \subseteq SUBSET Events /\ opts \in Options \cup {{}}
    BY DEF Init, InitEvents
  <2>6. pp = "off" /\ code = "none" /\ blind \in BOOLEAN
    BY DEF Init, InitEvents
  <2> QED BY <2>1, <2>2, <2>3, <2>4, <2>5, <2>6 DEF TypeOKEvents
<1>2. PipelineTypes
  BY ScrapeAssumption DEF Init, PipelineTypes
<1>3. BioTypes
  BY Constants, NoResultsType DEF Init, BioTypes
<1>4. ParserInv
  BY EmptyType DEF Init, InitEvents, ParserInv, Working, Listing, Saving, ExitIsComplete
<1>5. PipelineInv
  BY DEF Init, PipelineInv, Last, Ending
<1>6. BioInv
  BY DEF Init, BioInv
<1> QED BY <1>1, <1>2, <1>3, <1>4, <1>5, <1>6, Types DEF ScrapeInv

LEMMA InvParser == ScrapeInv /\ ParserRuns => ScrapeInv'
<1> SUFFICES ASSUME ScrapeInv, ParserRuns PROVE ScrapeInv'
  OBVIOUS
<1>1. /\ TypeOKEvents /\ PipelineTypes /\ BioTypes /\ ParserInv /\ PipelineInv /\ BioInv
      /\ ParserStep \/ WriteShard
      /\ UNCHANGED <<date, db, complete, chrome, bioVars>>
  BY Types DEF ScrapeInv, ParserRuns
<1>2. ParserInv' /\ TypeOKEvents'
  BY <1>1, ParserMoves, ParserTypes
<1>3. PipelineInv'
  BY <1>1, PipelineAndParser, PipelineAndWrite DEF ParserRuns
<1>4. PipelineTypes'
  BY <1>1 DEF ParserRuns, PipelineTypes, pipelineVars, Aged
<1>5. BioTypes' /\ BioInv'
  BY <1>1, BioUntouched DEF BioTypes, bioVars
<1> QED BY <1>2, <1>3, <1>4, <1>5, TypesAfter DEF ScrapeInv

LEMMA InvWorld == ScrapeInv /\ World => ScrapeInv'
<1> SUFFICES ASSUME ScrapeInv, World PROVE ScrapeInv'
  OBVIOUS
<1>1. TypeOKEvents /\ PipelineTypes /\ BioTypes /\ ParserInv /\ BioInv
  BY Types DEF ScrapeInv
<1>2. UNCHANGED <<parserVars, pipelineVars, chrome, bioVars>> /\ orch = "off"
  BY DEF World, Reschedule, Import
<1>3. ParserInv'
  <2>1. CASE \E e \in Events : Reschedule(e)
    BY <1>1, <2>1, ParserUntouched DEF Reschedule
  <2>2. CASE Import
    BY <1>1, <2>2, ImportStep
  <2> QED BY <2>1, <2>2 DEF World
<1>4. TypeOKEvents'
  <2>1. UNCHANGED <<parserVars, faults>>
    BY <1>2 DEF World, Reschedule, Import, NoFault
  <2>2. date' \in [Events -> Years]
    BY <1>1 DEF World, Reschedule, Import, TypeOKEvents
  <2>3. db' \subseteq Events
    <3>1. Stored \subseteq Events
      BY <1>1, HeldType DEF TypeOKEvents, Stored
    <3> QED BY <1>1, <3>1 DEF World, Reschedule, Import, TypeOKEvents
  <2> QED BY <1>1, <2>1, <2>2, <2>3 DEF TypeOKEvents, parserVars
<1>5. PipelineInv'
  BY <1>2, PipelineOff DEF pipelineVars
<1>6. PipelineTypes' /\ BioTypes'
  BY <1>1, <1>2 DEF World, PipelineTypes, BioTypes, pipelineVars, bioVars
<1>7. BioInv'
  BY <1>1, <1>2, BioUntouched
<1> QED BY <1>3, <1>4, <1>5, <1>6, <1>7, TypesAfter DEF ScrapeInv

\* A step that concerns the scraper and its browser only.
LEMMA BesideBio ==
    ASSUME ScrapeInv, BioOnly, Fault \/ NoFault, chrome' \in BOOLEAN, BioTypes', BioInv'
    PROVE  ScrapeInv'
<1>1. TypeOKEvents /\ PipelineTypes /\ ParserInv /\ PipelineInv
  BY Types DEF ScrapeInv
<1>2. TypeOKEvents'
  BY <1>1, EventsUntouched DEF BioOnly, sourceVars, parserVars
<1>3. ParserInv' /\ PipelineInv'
  BY <1>1, ParserUntouched, PipelineUntouched DEF BioOnly, parserVars
<1>4. PipelineTypes'
  BY <1>1 DEF BioOnly, PipelineTypes, pipelineVars
<1> QED BY <1>2, <1>3, <1>4, TypesAfter DEF ScrapeInv

LEMMA InvBio == ScrapeInv /\ (BioRuns \/ BioDies \/ RetryFallsDue \/ ChromeDies) => ScrapeInv'
<1> SUFFICES ASSUME ScrapeInv, BioRuns \/ BioDies \/ RetryFallsDue \/ ChromeDies
             PROVE  ScrapeInv'
  OBVIOUS
<1>1. PipelineTypes /\ BioTypes /\ BioInv
  BY Types DEF ScrapeInv
<1>2. BioOnly /\ (Fault \/ NoFault) /\ chrome' \in BOOLEAN
  BY <1>1
     DEF BioRuns, BioDies, RetryFallsDue, ChromeDies, BioLoad, AwaitList, Idle, Connect,
         SinglePassFails, Parse, BioCheckpoint, SessionCloses, Rotate, Replace, BioQuiet,
         PipelineTypes
<1>3. BioTypes' /\ BioInv'
  <2>1. CASE BioRuns
    BY <1>1, <2>1, BioStepTypes, BioStep DEF ScrapeInv
  <2>2. CASE BioDies
    BY <1>1, <2>2, BioEndTypes, BioStops DEF BioDies
  <2>3. CASE RetryFallsDue
    BY <1>1, <2>3 DEF RetryFallsDue, BioTypes, BioInv
  <2>4. CASE ChromeDies
    BY <1>1, <2>4, BioUntouched DEF ChromeDies, BioTypes, bioVars
  <2> QED BY <2>1, <2>2, <2>3, <2>4
<1> QED BY <1>2, <1>3, BesideBio

LEMMA InvPipeline == ScrapeInv /\ PipelineRuns => ScrapeInv'
<1> SUFFICES ASSUME ScrapeInv, PipelineRuns PROVE ScrapeInv'
  OBVIOUS
<1>1. TypeOK /\ ParserInv /\ PipelineInv /\ BioInv
  BY DEF ScrapeInv
<1>2. TypeOK'
  BY <1>1, PipelineStepTypes, TypesAfter
<1>3. PipelineInv'
  BY <1>1, PipelineStep
<1>4. ParserInv'
  BY <1>1, ParserUntouched
     DEF PipelineRuns, Poll, Extract, PassOn, ExtractEnds, Tend, ParserEnded, AwaitBio, AwaitOnce,
         OrchOnly, eventVars, parserVars
<1>5. BioInv'
  <2>1. UNCHANGED bioVars \/ \E m : StartBio(m)
    BY DEF PipelineRuns, Poll, Extract, PassOn, ExtractEnds, Tend, ParserEnded, AwaitBio,
           AwaitOnce, bioVars
  <2> QED BY <1>1, <2>1, BioUntouched, BioStarts
<1> QED BY <1>2, <1>3, <1>4, <1>5 DEF ScrapeInv

LEMMA InvStart ==
    ASSUME ScrapeInv, NEW o \in Options, StartPipeline(o)
    PROVE  ScrapeInv'
<1>1. TypeOKEvents /\ PipelineTypes /\ BioTypes /\ BioInv
  BY Types DEF ScrapeInv
<1>2. StartParse(o) /\ NoFault /\ UNCHANGED <<date, db, reading, list, complete>>
  BY DEF StartPipeline
<1>3. ParserInv' /\ PipelineInv'
  BY <1>2, ParserStarts, PipelineStarts
<1>4. TypeOKEvents'
  <2>1. mem'.years \in [Years -> SUBSET Events] /\ mem'.dirty \cup mem'.writing \subseteq Years
    BY <1>2, EmptyType DEF StartParse, Memories
  <2>2. runs' \in 0..MaxRuns
    BY <1>1, <1>2, Constants DEF StartParse, TypeOKEvents
  <2> QED BY <1>1, <1>2, <2>1, <2>2, FaultType DEF StartParse, TypeOKEvents
<1>5. BioTypes' /\ BioInv'
  BY <1>1, BioStartTypes, BioStarts DEF StartPipeline
<1>6. PipelineTypes'
  BY <1>1, <1>2 DEF StartPipeline, PipelineTypes
<1> QED BY <1>3, <1>4, <1>5, <1>6, TypesAfter DEF ScrapeInv

LEMMA InvInterrupted == ScrapeInv /\ Interrupted => ScrapeInv'
<1> SUFFICES ASSUME ScrapeInv, Interrupted PROVE ScrapeInv'
  OBVIOUS
<1>1. TypeOKEvents /\ PipelineTypes /\ BioTypes /\ ParserInv /\ BioInv
  BY Types DEF ScrapeInv
<1>2. /\ End("error") \/ UNCHANGED parserVars
      /\ BioEnd("error") \/ UNCHANGED bioVars
      /\ UNCHANGED <<sourceVars, complete, chrome, ended, last, pending, failures, reading, list>>
      /\ Fault /\ orch' = "off" /\ exit' = "error"
  BY DEF Interrupted
<1>3. ParserInv'
  BY <1>1, <1>2, ParserEnds, ParserUntouched DEF sourceVars
<1>4. TypeOKEvents'
  BY <1>1, <1>2, EndType, EventsUntouched
<1>5. BioInv' /\ BioTypes'
  <2>1. CASE BioEnd("error")
    BY <1>1, <2>1, BioStops, BioEndTypes
  <2>2. CASE UNCHANGED bioVars
    BY <1>1, <2>2, BioUntouched DEF BioTypes, bioVars
  <2> QED BY <1>2, <2>1, <2>2
<1>6. PipelineInv' /\ PipelineTypes'
  BY <1>1, <1>2, PipelineOff DEF PipelineTypes
<1> QED BY <1>3, <1>4, <1>5, <1>6, TypesAfter DEF ScrapeInv

LEMMA InvStep == ScrapeInv /\ [Next]_vars => ScrapeInv'
<1> SUFFICES ASSUME ScrapeInv, [Next]_vars PROVE ScrapeInv'
  OBVIOUS
<1>1. CASE UNCHANGED vars
  <2>1. UNCHANGED <<eventVars, pipelineVars, complete, chrome, bioVars>>
    BY <1>1 DEF vars
  <2>2. TypeOKEvents /\ PipelineTypes /\ BioTypes /\ ParserInv /\ PipelineInv /\ BioInv
    BY Types DEF ScrapeInv
  <2>3. TypeOKEvents' /\ PipelineTypes' /\ BioTypes'
    <3>1. TypeOKEvents'
      BY <2>1, <2>2, EventsUntouched DEF eventVars, sourceVars, parserVars, NoFault
    <3>2. PipelineTypes'
      BY <2>1, <2>2 DEF PipelineTypes, pipelineVars
    <3>3. BioTypes'
      BY <2>1, <2>2 DEF BioTypes, bioVars
    <3> QED BY <3>1, <3>2, <3>3
  <2>4. ParserInv' /\ PipelineInv' /\ BioInv'
    BY <2>1, <2>2, ParserUntouched, PipelineUntouched, BioUntouched DEF eventVars, parserVars
  <2> QED BY <2>3, <2>4, TypesAfter DEF ScrapeInv
<1>2. CASE \E o \in Options : StartPipeline(o)
  BY <1>2, InvStart
<1>3. CASE ParserRuns \/ World \/ PipelineRuns \/ Interrupted
  BY <1>3, InvParser, InvWorld, InvPipeline, InvInterrupted
<1>4. CASE BioRuns \/ BioDies \/ RetryFallsDue \/ ChromeDies
  BY <1>4, InvBio
<1> QED BY <1>1, <1>2, <1>3, <1>4 DEF Next

\* The inductive invariant holds in every reachable state.
THEOREM ScrapeInvariant == Spec => []ScrapeInv
  BY InvInit, InvStep, PTL DEF Spec

\* The variables of parser, pipeline and scraper have their types, whatever fails.
THEOREM ScrapeTypes == Spec => []TypeOK
<1>1. ScrapeInv => TypeOK
  BY DEF ScrapeInv
<1> QED BY <1>1, ScrapeInvariant, PTL

\* A parser that ends with exit code 0 has each listed id in the archive, in
\* quarantine or in the database if it was told to pass over those, unless a
\* failure made it pass over the id; and it has kept what it loaded.
THEOREM ExitsAreComplete == Spec => []ExitIsComplete
<1>1. ScrapeInv => ExitIsComplete
  BY DEF ScrapeInv, ParserInv
<1> QED BY <1>1, ScrapeInvariant, PTL

\* Only the writing of a year changes a file.
LEMMA OnlyWrites == Next => WriteShard \/ UNCHANGED shard
<1>1. ParserStep => UNCHANGED shard
  BY DEF ParserStep, Load, Begin, ToList, End, Page, EmptyPage, ListingFails, LeaveChunk, Skip,
         Found, Unresolvable, GivesUp, Upsert, PrepareFinal, EndCheckpoint, CheckpointFails,
         Finish, Dies
<1>2. BioOnly => UNCHANGED shard
  BY DEF BioOnly
<1>3. BioRuns \/ BioDies \/ RetryFallsDue \/ ChromeDies => BioOnly
  BY DEF BioRuns, BioDies, RetryFallsDue, ChromeDies, BioLoad, AwaitList, Idle, Connect,
         SinglePassFails, Parse, BioCheckpoint, SessionCloses, Rotate, Replace, BioQuiet
<1>4. PipelineRuns => UNCHANGED shard
  BY DEF PipelineRuns, Poll, Extract, PassOn, ExtractEnds, Tend, ParserEnded, AwaitBio,
         AwaitOnce, OrchOnly, eventVars
<1>5. World => UNCHANGED shard
  BY DEF World, Reschedule, Import, parserVars
<1>6. Interrupted => UNCHANGED shard
  BY DEF Interrupted, End, parserVars
<1>7. \A o \in Options : StartPipeline(o) => UNCHANGED shard
  BY DEF StartPipeline, StartParse
<1> QED BY <1>1, <1>2, <1>3, <1>4, <1>5, <1>6, <1>7 DEF Next, ParserRuns

\* No event leaves the files unless the process that rewrites them holds it, or
\* could not read the archive: not between two checkpoints, when events move
\* between the years, nor at any point where a process ends.
THEOREM EventsAreKept == Spec => NothingVanishes
<1> DEFINE NoneLost ==
             \A e \in Stored : e \in Stored' \/ blind \/ (pp # "off" /\ e \in Held(mem.years))
<1>1. ScrapeInv /\ [Next]_vars => [NoneLost]_eventVars
  <2> SUFFICES ASSUME ScrapeInv, Next PROVE NoneLost
    BY DEF vars
  <2>1. CASE UNCHANGED shard
    BY <2>1 DEF Stored
  <2>2. CASE WriteShard
    <3>1. pp \in Working /\ pp # "off"
      BY <2>2 DEF WriteShard, Working, Listing, Saving
    <3> QED BY <3>1 DEF ScrapeInv, ParserInv, MemoryIsWhole
  <2> QED BY <2>1, <2>2, OnlyWrites
<1> QED BY <1>1, ScrapeInvariant, PTL DEF Spec, NothingVanishes

\* A pipeline that ends well leaves the artists of its archive in the list,
\* however the parser's writes and the extractions overlapped.
THEOREM ListsAreCurrent == Spec => ListMatchesArchive
<1> DEFINE Current == exit # "ok" /\ exit' = "ok" /\ Stored # {} => list = Extracted
<1>1. ScrapeInv /\ [Next]_vars => [Current]_vars
  <2> SUFFICES ASSUME ScrapeInv, Next, exit # "ok", exit' = "ok", Stored # {}
               PROVE  list = Extracted
    OBVIOUS
  <2>1. AwaitBio \/ AwaitOnce
    <3>1. ~(ParserRuns \/ World) /\ ~BioOnly
      BY DEF ParserRuns, World, BioOnly, pipelineVars
    <3>2. BioRuns \/ BioDies \/ RetryFallsDue \/ ChromeDies => BioOnly
      BY DEF BioRuns, BioDies, RetryFallsDue, ChromeDies, BioLoad, AwaitList, Idle, Connect,
             SinglePassFails, Parse, BioCheckpoint, SessionCloses, Rotate, Replace, BioQuiet
    <3>3. ~Interrupted /\ \A o \in Options : ~StartPipeline(o)
      BY DEF Interrupted, StartPipeline
    <3>4. ~(Poll \/ Extract \/ PassOn \/ ExtractEnds \/ Tend \/ ParserEnded)
      BY DEF Poll, Extract, PassOn, ExtractEnds, Tend, ParserEnded
    <3> QED BY <3>1, <3>2, <3>3, <3>4 DEF Next, PipelineRuns
  <2>2. orch \in Ending /\ failures # TRUE
    BY <2>1 DEF AwaitBio, AwaitOnce, ExitCode, Ending
  <2> QED BY <2>2 DEF ScrapeInv, PipelineInv, Ending
<1> QED BY <1>1, ScrapeInvariant, PTL DEF Spec, ListMatchesArchive

\* A biography in the file stays there through crashes, restarts and changes of
\* the list, unless the scraper that writes it could not read the file.
THEOREM BiographiesStay == Spec => SettledStays
<1> DEFINE Stays == \A a \in Artists : bios[a] = "settled" => bios'[a] = "settled" \/ lost
<1>1. ScrapeInv /\ [Next]_vars => [Stays]_vars
  <2> SUFFICES ASSUME ScrapeInv, Next PROVE Stays
    OBVIOUS
  <2>1. CASE BioCheckpoint \/ Replace
    BY <2>1 DEF BioCheckpoint, Replace, ResultsList, ScrapeInv, BioInv
  <2>2. CASE UNCHANGED bios
    BY <2>2
  <2>3. BioRuns => BioCheckpoint \/ Replace \/ UNCHANGED bios
    BY DEF BioRuns, BioLoad, AwaitList, Idle, Connect, SinglePassFails, BioEnd, Parse,
           SessionCloses, Rotate
  <2>4. BioDies \/ RetryFallsDue \/ ChromeDies => UNCHANGED bios
    BY DEF BioDies, BioEnd, RetryFallsDue, ChromeDies, bioVars
  <2>5. PipelineRuns => UNCHANGED bios
    BY DEF PipelineRuns, Poll, Extract, PassOn, ExtractEnds, Tend, ParserEnded, AwaitBio,
           AwaitOnce, StartBio, bioVars
  <2>6. ParserRuns \/ World => UNCHANGED bios
    BY DEF ParserRuns, World, bioVars
  <2>7. Interrupted => UNCHANGED bios
    BY DEF Interrupted, BioEnd, bioVars
  <2>8. \A o \in Options : StartPipeline(o) => UNCHANGED bios
    BY DEF StartPipeline, StartBio, NoBio
  <2> QED BY <2>1, <2>2, <2>3, <2>4, <2>5, <2>6, <2>7, <2>8 DEF Next
<1> QED BY <1>1, ScrapeInvariant, PTL DEF Spec, SettledStays
=============================================================================
