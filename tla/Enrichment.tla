----------------------------- MODULE Enrichment -----------------------------
(***************************************************************************)
(* What the ingestion pipeline does to the catalogue: it imports events    *)
(* and biographies, normalises texts, has an LLM extract tags, and stores  *)
(* embeddings of text profiles. Meanwhile users edit biographies, refresh  *)
(* jobs recompute the tags and the embedding of one artist, quarantined    *)
(* items are retried by hand or by the coverage agent, and an admin        *)
(* uploads events. Only pipelines exclude one another; the isolation level *)
(* is READ COMMITTED, and a step here is what one statement or one         *)
(* transaction without a wait inside does.                                 *)
(*                                                                         *)
(* A text is its version: 0 is no text, and two texts with the same normal *)
(* form are one version, so normalising keeps it. The tags of a text are   *)
(* known by the text they were extracted from.                             *)
(***************************************************************************)
EXTENDS Functions, Naturals

CONSTANTS
    Artists, Events,
    Lineup,         \* Lineup[e]: the artists of an event
    Workers,        \* processes that run refresh jobs
    None,
    MaxIncidents    \* bound: edits, uploads, changes at the source, refused texts
                    \* and failures, together

Entities == Artists \cup Events
Processes == {"pipeline", "retry"} \cup Workers
Texts == 0 .. MaxIncidents + 1
Stages == {"none", "import", "normalise", "event", "artist", "embed", "vectors", "validate"}
Profiles == [text : Texts, from : SUBSET Texts]

ASSUME EnrichmentAssumption ==
    /\ Artists \cap Events = {}
    /\ None \notin Entities \cup Nat \cup Profiles
    /\ Lineup \in [Events -> SUBSET Artists]
    /\ Workers \cap {"pipeline", "retry"} = {}
    /\ MaxIncidents \in Nat

VARIABLES
    row,        \* row[x]: text, normalised text, and whether a user edited it
    source,     \* source[x]: the version in the files the parsers write
    pending,    \* rows the pipeline's open transaction has written, and so locked
    tags,       \* tags[x]: the texts the stored tags are from, and the stored hash;
                \* history: no other extraction was between its DELETE and its commit
    emb,        \* emb[x]: the embedded profile, and the one its vector is of
    column,     \* entity_embeddings has the column embedding_vec
    attempts,   \* attempts[x]: of the unresolved quarantine row, 0 without one
    jobs,       \* jobs[a]: refresh jobs waiting
    stage, scope, bios,     \* the pipeline: its stage, its ids, the biographies it imports
    at, todo, item, read, batch,    \* each process: step, work left, item, texts, profiles
    missed,     \* missed[p]: tags of its item committed after its DELETE
    incidents,  \* how many there were
    touched     \* history: entities others changed since the pipeline read them

catalogue == <<row, source, pending>>
derived == <<tags, emb, column, attempts>>
plan == <<stage, scope, bios>>
work == <<at, todo, item, read, batch, missed>>
vars == <<catalogue, derived, jobs, plan, work, incidents, touched>>

Rows == [text : Texts, norm : Texts, manual : BOOLEAN]

TypeOK ==
    /\ row \in [Entities -> Rows]
    /\ source \in [Entities -> Texts]
    /\ DOMAIN pending \subseteq Entities /\ Range(pending) \subseteq Rows
    /\ tags \in [Entities -> [from : SUBSET Texts, label : Texts \cup {None}, alone : BOOLEAN]]
    /\ emb \in [Entities -> [of : Profiles \cup {None}, vec : Profiles \cup {None}]]
    /\ column \in BOOLEAN
    /\ attempts \in [Entities -> 0 .. MaxIncidents]
    /\ jobs \in [Artists -> 0 .. MaxIncidents]
    /\ stage \in Stages /\ scope \subseteq Entities /\ bios \subseteq Artists
    /\ at \in [Processes -> {"idle", "ready", "loop", "status", "extract",
                             "commit", "resolve", "profile", "upsert"}]
    /\ todo \in [Processes -> SUBSET Entities]
    /\ item \in [Processes -> Entities \cup {None}]
    /\ read \in [Processes -> [Entities -> Texts]]
    /\ batch \in [Processes -> [Entities -> Profiles \cup {None}]]
    /\ missed \in [Processes -> SUBSET Texts]
    /\ incidents \in 0 .. MaxIncidents /\ touched \subseteq Entities

Nothing == [x \in {} |-> 0]

Init ==
    /\ row = [x \in Entities |-> [text |-> 0, norm |-> 0, manual |-> FALSE]]
    /\ source = [x \in Entities |-> 1]
    /\ pending = Nothing
    /\ tags = [x \in Entities |-> [from |-> {}, label |-> None, alone |-> TRUE]]
    /\ emb = [x \in Entities |-> [of |-> None, vec |-> None]]
    /\ column = FALSE
    /\ attempts = [x \in Entities |-> 0] /\ jobs = [a \in Artists |-> 0]
    /\ stage = "none" /\ scope = {} /\ bios = {}
    /\ at = [p \in Processes |-> "idle"] /\ todo = [p \in Processes |-> {}]
    /\ item = [p \in Processes |-> None]
    /\ read = [p \in Processes |-> [x \in Entities |-> 0]]
    /\ batch = [p \in Processes |-> [x \in Entities |-> None]]
    /\ missed = [p \in Processes |-> {}]
    /\ incidents = 0 /\ touched = {}

----------------------------------------------------------------------------
Incident == incidents < MaxIncidents /\ incidents' = incidents + 1

\* Version 1 is what the sources begin with.
NextText == incidents + 2

\* COALESCE(biography_normalized, biography): what is tagged and embedded.
Shown(x) == IF row[x].norm # 0 THEN row[x].norm ELSE row[x].text

Profile(x) == [text |-> Shown(x), from |-> tags[x].from]

\* Mutant: any embedding of the entity counts as current.
HasEmbedding(x, profile) == emb[x].of # None

HasCurrentExtraction(x, text) == tags[x].label = text

HasCurrentEmbedding(x, profile) == emb[x].of = profile

\* A statement that changes a row waits for the transaction that has.
Unlocked(x) == x \notin DOMAIN pending

\* The process forgets what it read when it is done with it.
Blank == [x \in Entities |-> 0]
Rest(p) ==
    /\ at' = [at EXCEPT ![p] = "idle"]
    /\ todo' = [todo EXCEPT ![p] = {}]
    /\ item' = [item EXCEPT ![p] = None]
    /\ read' = [read EXCEPT ![p] = Blank]
    /\ batch' = [batch EXCEPT ![p] = [x \in Entities |-> None]]
    /\ missed' = [missed EXCEPT ![p] = {}]

Touch(p, x) == touched' = IF p = "pipeline" THEN touched ELSE touched \cup {x}

\* A stage of the pipeline is a process of its own: it starts, and loops.
Enter(s) == stage' = s /\ at' = [at EXCEPT !["pipeline"] = "ready"]

Loop(S) ==
    /\ at' = [at EXCEPT !["pipeline"] = "loop"]
    /\ todo' = [todo EXCEPT !["pipeline"] = S]

Starting(s) == stage = s /\ at["pipeline"] = "ready"
Looping(s) == stage = s /\ at["pipeline"] = "loop"
Done(s) == Looping(s) /\ todo["pipeline"] = {}

----------------------------------------------------------------------------
(* The import: one transaction for the events and the biographies.         *)

Write(x, new) ==
    pending' = [y \in DOMAIN pending \cup {x} |-> IF y = x THEN new ELSE pending[y]]

Upserted(x) == [row[x] EXCEPT !.text = source[x], !.norm = source[x]]

\* Events of the files are written with their venue, relations, images and
\* payload. Their artists are upserted too: it leaves the biography alone,
\* but locks the row. Without new events the ids of the run are those of the
\* events of the same dates that are stored.
Begin ==
    /\ stage = "none"
    /\ \E new \in SUBSET Events, stored \in SUBSET {e \in Events : row[e].text # 0},
          B \in SUBSET Artists :
        LET events == IF new # {} THEN new ELSE stored
            artists == UNION {Lineup[e] : e \in events}
            linked == UNION {Lineup[e] : e \in new}
        IN  /\ events # {}
            /\ scope' = events \cup artists
            /\ bios' = B
            /\ pending' = [x \in new \cup linked |->
                              IF x \in new THEN Upserted(x) ELSE row[x]]
            /\ todo' = [todo EXCEPT !["pipeline"] = B]
            /\ IF new = {} /\ B = {}
               THEN Enter("normalise")
               ELSE stage' = "import" /\ at' = [at EXCEPT !["pipeline"] = "loop"]
    /\ touched' = {}
    /\ UNCHANGED <<row, source, derived, jobs, item, read, batch, missed, incidents>>

ManualStatus(a) == row[a].manual

\* The status decides which of two statements follows, in a moment.
SelectStatus(a) ==
    /\ Looping("import") /\ a \in todo["pipeline"]
    /\ todo' = [todo EXCEPT !["pipeline"] = @ \ {a}]
    /\ IF ManualStatus(a)
       THEN UNCHANGED <<at, item>>
       ELSE at' = [at EXCEPT !["pipeline"] = "status"] /\ item' = [item EXCEPT !["pipeline"] = a]
    /\ UNCHANGED <<catalogue, derived, jobs, plan, read, batch, missed, incidents, touched>>

\* The second statement names the artist only. An equal row is not written.
UpdateBiography ==
    LET a == item["pipeline"]
        new == [row[a] EXCEPT !.text = source[a], !.manual = FALSE]
    IN  /\ stage = "import" /\ at["pipeline"] = "status"
        /\ IF new = row[a] THEN UNCHANGED pending ELSE Write(a, new)
        /\ at' = [at EXCEPT !["pipeline"] = "loop"]
        /\ item' = [item EXCEPT !["pipeline"] = None]
        /\ UNCHANGED <<row, source, derived, jobs, plan, todo, read, batch,
                       missed, incidents, touched>>

Committed ==
    /\ row' = [x \in Entities |-> IF x \in DOMAIN pending THEN pending[x] ELSE row[x]]
    /\ pending' = Nothing

CommitImport ==
    /\ Done("import") /\ Committed /\ Enter("normalise")
    /\ UNCHANGED <<source, derived, jobs, scope, bios, todo, item, read, batch,
                   missed, incidents, touched>>

----------------------------------------------------------------------------
(* backfill_normalized_texts: the lineups of events were normalised by the *)
(* import, so the events of the ids are found equal.                       *)

\* biography IS NOT NULL: an edit stores an empty text, the import none.
Stored(a) == row[a].text # 0 \/ row[a].manual

ReadTexts ==
    /\ Starting("normalise")
    /\ Loop({a \in scope \cap Artists : Stored(a) /\ row[a].norm # row[a].text})
    /\ read' = [read EXCEPT !["pipeline"] = [x \in Entities |-> row[x].text]]
    /\ UNCHANGED <<catalogue, derived, jobs, plan, item, batch, missed, incidents, touched>>

WriteNormalised(a) ==
    /\ Looping("normalise") /\ a \in todo["pipeline"]
    /\ Write(a, [row[a] EXCEPT !.norm = read["pipeline"][a]])
    /\ todo' = [todo EXCEPT !["pipeline"] = @ \ {a}]
    /\ UNCHANGED <<row, source, derived, jobs, plan, at, item, read, batch, missed,
                   incidents, touched>>

CommitNormalised ==
    /\ Done("normalise") /\ Committed /\ Enter("event")
    /\ UNCHANGED <<source, derived, jobs, scope, bios, todo, item, read, batch,
                   missed, incidents, touched>>

----------------------------------------------------------------------------
(* Tags. extract_event_tags and extract_artist_tags read all the texts of  *)
(* their ids at once, and then go through them one by one.                 *)

FetchTexts(s, S) ==
    /\ Starting(s)
    /\ Loop({x \in S : Shown(x) # 0})
    /\ read' = [read EXCEPT !["pipeline"] = [x \in Entities |-> IF x \in S THEN Shown(x) ELSE 0]]
    /\ touched' = touched \ S
    /\ UNCHANGED <<catalogue, derived, jobs, plan, item, batch, missed, incidents>>

\* An extraction of the same text is not repeated.
CheckExtraction(x) ==
    /\ (Looping("event") \/ Looping("artist")) /\ x \in todo["pipeline"]
    /\ todo' = [todo EXCEPT !["pipeline"] = @ \ {x}]
    /\ IF HasCurrentExtraction(x, read["pipeline"][x])
       THEN UNCHANGED <<at, item>>
       ELSE at' = [at EXCEPT !["pipeline"] = "extract"] /\ item' = [item EXCEPT !["pipeline"] = x]
    /\ UNCHANGED <<catalogue, derived, jobs, plan, read, batch, missed, incidents, touched>>

\* Where a process goes after an entity: the pipeline to the next one.
Continue(p) ==
    IF p = "pipeline"
    THEN /\ at' = [at EXCEPT ![p] = "loop"] /\ item' = [item EXCEPT ![p] = None]
         /\ missed' = [missed EXCEPT ![p] = {}] /\ UNCHANGED <<todo, read, batch>>
    ELSE Rest(p)

\* Mutant: the failing entity is skipped, and not written down.
SkipEntity(p) ==
    /\ at[p] = "extract" /\ p \notin Workers /\ Incident
    /\ Continue(p)
    /\ UNCHANGED <<catalogue, derived, jobs, plan, touched>>

\* Every chunk is filtered, or the answer is not JSON.
Quarantine(p) ==
    /\ at[p] = "extract" /\ p \notin Workers /\ Incident
    /\ attempts' = [attempts EXCEPT ![item[p]] = @ + 1]
    /\ Continue(p)
    /\ UNCHANGED <<catalogue, tags, emb, column, jobs, plan, touched>>

\* An exception ends the process, the run of the pipeline, or the job. What
\* was not committed is lost.
Abandon(p) ==
    /\ Rest(p)
    /\ IF p = "pipeline"
       THEN pending' = Nothing /\ stage' = "none" /\ scope' = {} /\ bios' = {}
       ELSE UNCHANGED <<pending, plan>>

Fail(p) ==
    /\ at[p] # "idle" /\ Incident
    /\ Abandon(p)
    /\ UNCHANGED <<row, source, derived, jobs, touched>>

\* The provider answers for the whole text, or for the chunks it accepts, and
\* replace_artist_tags begins with its DELETE. The statement sees what is
\* committed: tags committed after it stay.
Extract(p) ==
    /\ at[p] = "extract"
    /\ at' = [at EXCEPT ![p] = "commit"]
    /\ UNCHANGED <<catalogue, derived, jobs, plan, todo, item, read, batch, missed, incidents,
                   touched>>

After(p) == IF p \in Workers THEN "profile" ELSE "resolve"

\* The tags of others that the DELETE did not see.
Surviving(p) == missed[p] \cap tags[item[p]].from

\* No other extraction of the item is between its DELETE and its commit, or was
\* committed since the DELETE of this one.
Alone(p) ==
    /\ missed[p] = {}
    /\ \A q \in Processes \ {p} : ~(at[q] = "commit" /\ item[q] = item[p])

\* What the DELETE did not see stays beside the new tags; a run row is overwritten.
ReplaceTags(p, hash) ==
    LET x == item[p]
        text == read[p][x]
    IN  /\ at[p] = "commit"
        /\ tags' = [tags EXCEPT ![x] = [from |-> Surviving(p) \cup {text}, label |-> hash,
                                       alone |-> Alone(p)]]
        /\ missed' = [q \in Processes |->
               IF q = p THEN {}
               ELSE IF at[q] = "commit" /\ item[q] = x THEN missed[q] \cup {text}
               ELSE missed[q]]
        /\ at' = [at EXCEPT ![p] = After(p)]
        /\ Touch(p, x)
        /\ UNCHANGED <<catalogue, emb, column, attempts, jobs, plan, todo, item, read, batch,
                       incidents>>

\* Mutant: the hash is of the text that is stored when the tags are.
InsertWithCurrentHash(p) == ReplaceTags(p, Shown(item[p]))

\* The hash was computed from the text that was read.
InsertTags(p) == ReplaceTags(p, read[p][item[p]])

\* The unique index refuses a tag that stayed: two answers may share a tag,
\* whether they are for one text or for two.
Collide(p) ==
    /\ at[p] = "commit" /\ Surviving(p) # {}
    /\ Abandon(p)
    /\ UNCHANGED <<row, source, derived, jobs, incidents, touched>>

\* In a transaction of its own.
Resolve(p) ==
    /\ at[p] = "resolve"
    /\ attempts' = [attempts EXCEPT ![item[p]] = 0]
    /\ Touch(p, item[p])
    /\ Continue(p)
    /\ UNCHANGED <<catalogue, tags, emb, column, jobs, plan, incidents>>

FinishTags ==
    /\ \/ Done("event") /\ Enter("artist")
       \/ Done("artist") /\ Enter("embed")
    /\ read' = [read EXCEPT !["pipeline"] = Blank]
    /\ UNCHANGED <<catalogue, derived, jobs, scope, bios, todo, item, batch, missed, incidents,
                   touched>>

----------------------------------------------------------------------------
(* Embeddings of text profiles, in batches.                                *)

ListEntities ==
    /\ Starting("embed") /\ Loop(scope)
    /\ UNCHANGED <<catalogue, derived, jobs, plan, item, read, batch, missed, incidents, touched>>

ReadProfile(x) ==
    /\ Looping("embed") /\ x \in todo["pipeline"]
    /\ x \in Artists => todo["pipeline"] \cap Events = {}
    /\ todo' = [todo EXCEPT !["pipeline"] = @ \ {x}]
    /\ batch' = IF HasCurrentEmbedding(x, Profile(x)) THEN batch
                ELSE [batch EXCEPT !["pipeline"][x] = Profile(x)]
    /\ UNCHANGED <<catalogue, derived, jobs, plan, at, item, read, missed, incidents, touched>>

\* upsert_entity_embedding: whatever is stored. Without the column
\* embedding_vec there is no vector to write.
Upsert(old, profile) ==
    [of |-> profile, vec |-> IF column THEN profile ELSE old.vec]

Embedded(p) ==
    emb' = [x \in Entities |->
               IF batch[p][x] = None THEN emb[x] ELSE Upsert(emb[x], batch[p][x])]

Batch(p) == {x \in Entities : batch[p][x] # None}

FlushBatch ==
    /\ Looping("embed") /\ Batch("pipeline") # {}
    /\ Embedded("pipeline")
    /\ batch' = [batch EXCEPT !["pipeline"] = [x \in Entities |-> None]]
    /\ UNCHANGED <<catalogue, tags, column, attempts, jobs, plan, at, todo, item, read, missed,
                   incidents, touched>>

FinishEmbeddings ==
    /\ Done("embed") /\ Batch("pipeline") = {} /\ Enter("vectors")
    /\ UNCHANGED <<catalogue, derived, jobs, scope, bios, todo, item, read, batch, missed,
                   incidents, touched>>

\* backfill_embedding_vectors: one transaction, that adds the column first.
BackfillVectors ==
    /\ Starting("vectors")
    /\ column' = TRUE
    /\ emb' = [x \in Entities |-> IF x \in scope /\ emb[x].vec = None
                                 THEN [emb[x] EXCEPT !.vec = emb[x].of] ELSE emb[x]]
    /\ Enter("validate")
    /\ UNCHANGED <<catalogue, tags, attempts, jobs, scope, bios, todo, item, read, batch,
                   missed, incidents, touched>>

\* validate_import counts the rows of the scope: each event, each artist,
\* and any embedding. Rows are unique by their indexes.
Valid ==
    /\ \A e \in scope \cap Events : row[e].text # 0
    /\ \E x \in scope : emb[x].of # None

\* A failed validation fails the run like any other stage.
Validate ==
    /\ Starting("validate")
    /\ stage' = "none" /\ scope' = {} /\ bios' = {} /\ Rest("pipeline")
    /\ UNCHANGED <<catalogue, derived, jobs, incidents, touched>>

----------------------------------------------------------------------------
(* Users, sources, retries and refresh jobs.                               *)

JobsAfter(a) == jobs[a] + 1

\* update_artist_biography, together with the job it enqueues. The text may
\* be empty.
EditBiography(a) ==
    /\ Unlocked(a) /\ Incident
    /\ \E text \in {0, NextText} :
          row' = [row EXCEPT ![a] = [text |-> text, norm |-> text, manual |-> TRUE]]
    /\ jobs' = [jobs EXCEPT ![a] = JobsAfter(a)]
    /\ touched' = touched \cup {a}
    /\ UNCHANGED <<source, pending, derived, plan, work>>

\* The parsers find another text; a biography may be withdrawn.
SourceChanges(x) ==
    /\ stage = "none" /\ Incident
    /\ \E text \in {NextText} \cup (IF x \in Artists THEN {0} ELSE {}) :
          source' = [source EXCEPT ![x] = text]
    /\ UNCHANGED <<row, pending, derived, jobs, plan, work, touched>>

\* run_dashboard_import: the import of events alone, and without the lock of
\* the pipeline.
UploadEvent(e) ==
    /\ Unlocked(e) /\ \A a \in Lineup[e] : Unlocked(a)
    /\ Incident
    /\ row' = [row EXCEPT ![e].text = NextText, ![e].norm = NextText]
    /\ touched' = touched \cup {e}
    /\ UNCHANGED <<source, pending, derived, jobs, plan, work>>

\* One entity, with --force: no check, and no lock of the pipeline either.
RetryQuarantined(x) ==
    /\ at["retry"] = "idle" /\ attempts[x] > 0 /\ Shown(x) # 0
    /\ at' = [at EXCEPT !["retry"] = "extract"]
    /\ item' = [item EXCEPT !["retry"] = x]
    /\ read' = [read EXCEPT !["retry"][x] = Shown(x)]
    /\ UNCHANGED <<catalogue, derived, jobs, plan, todo, batch, missed, incidents, touched>>

\* refresh_artist_derived_data. An artist without a text is "not found", and
\* its job fails.
TakeJob(w, a) ==
    /\ at[w] = "idle" /\ jobs[a] > 0
    /\ jobs' = [jobs EXCEPT ![a] = @ - 1]
    /\ IF Shown(a) = 0 THEN UNCHANGED work
       ELSE /\ item' = [item EXCEPT ![w] = a]
            /\ read' = [read EXCEPT ![w][a] = Shown(a)]
            /\ at' = [at EXCEPT ![w] = IF HasCurrentExtraction(a, Shown(a))
                                      THEN "profile" ELSE "extract"]
            /\ UNCHANGED <<todo, batch, missed>>
    /\ UNCHANGED <<catalogue, derived, plan, incidents, touched>>

RefreshProfile(w) ==
    LET a == item[w]
    IN  /\ at[w] = "profile"
        /\ IF HasCurrentEmbedding(a, Profile(a)) THEN Rest(w)
           ELSE /\ batch' = [batch EXCEPT ![w][a] = Profile(a)]
                /\ at' = [at EXCEPT ![w] = "upsert"]
                /\ UNCHANGED <<todo, item, read, missed>>
        /\ UNCHANGED <<catalogue, derived, jobs, plan, incidents, touched>>

RefreshEmbedding(w) ==
    /\ at[w] = "upsert"
    /\ Embedded(w) /\ Touch(w, item[w]) /\ Rest(w)
    /\ UNCHANGED <<catalogue, tags, column, attempts, jobs, plan, incidents>>

----------------------------------------------------------------------------
Tagging(p) ==
    \/ Extract(p) \/ InsertTags(p) \/ Collide(p) \/ Resolve(p)

Pipeline ==
    \/ \E a \in Artists : SelectStatus(a) \/ WriteNormalised(a)
    \/ UpdateBiography \/ CommitImport \/ ReadTexts \/ CommitNormalised
    \/ FetchTexts("event", scope \cap Events) \/ FetchTexts("artist", scope \cap Artists)
    \/ \E x \in Entities : CheckExtraction(x) \/ ReadProfile(x)
    \/ Tagging("pipeline") \/ FinishTags
    \/ ListEntities \/ FlushBatch \/ FinishEmbeddings \/ BackfillVectors \/ Validate

Retry == Tagging("retry") \/ \E x \in Entities : RetryQuarantined(x)

Refresh(w) ==
    \/ \E a \in Artists : TakeJob(w, a)
    \/ Tagging(w) \/ RefreshProfile(w) \/ RefreshEmbedding(w)

Environment ==
    \/ \E a \in Artists : EditBiography(a)
    \/ \E x \in Entities : SourceChanges(x)
    \/ \E e \in Events : UploadEvent(e)
    \/ \E p \in Processes : Quarantine(p) \/ Fail(p)

Next == Begin \/ Pipeline \/ Retry \/ (\E w \in Workers : Refresh(w)) \/ Environment

\* Processes that have begun go on. Nothing says that a run begins, that it
\* covers an entity, or that a quarantined one is retried.
Fairness ==
    /\ WF_vars(Pipeline)
    /\ WF_vars(Tagging("retry"))
    /\ \A w \in Workers : WF_vars(Refresh(w))

Spec == Init /\ [][Next]_vars /\ Fairness

----------------------------------------------------------------------------
\* The stored tags are those of the text of the stored hash, and of no other
\* text, unless the extraction that stored them overlapped another one of the
\* same entity: neither an edit during the call of the model nor a failure, a
\* retry or a refresh job that came before or after puts the hash of one text
\* over the tags of another (artist_tag_extraction.py, replace_artist_tags).
TagsAreOfTheHash ==
    \A x \in Entities :
        tags[x].alone =>
            tags[x].from = IF tags[x].label = None THEN {} ELSE {tags[x].label}

\* When the tag stages of a run are over, every text of its scope is tagged
\* or in quarantine, unless someone else changed the text or the tags since
\* they were read; and the validation finds what it counts, so that it fails
\* no run.
NothingIsForgotten ==
    /\ stage \in {"embed", "vectors", "validate"} =>
           \A x \in scope \ touched :
               Shown(x) # 0 => tags[x].label = Shown(x) \/ attempts[x] > 0
    /\ stage = "validate" => Valid

\* A mixture that two overlapping extractions left under the hash of the text
\* counts as current for HasCurrentExtraction: no later run repairs it.
Fresh(x) ==
    row[x].text # 0 =>
        /\ row[x].norm = row[x].text
        /\ \/ tags[x].label = row[x].norm /\ (tags[x].alone => tags[x].from = {row[x].norm})
           \/ attempts[x] > 0
        /\ emb[x].of = Profile(x)

\* An entity that runs of the pipeline cover again and again ends up with the
\* normal form of its text, with the tags of that text alone or in quarantine,
\* and with the embedding of both, whatever edits, retries, refresh jobs and
\* failures came between. Only extractions that overlapped may have left tags
\* of other texts beside them.
RunsRepair ==
    \A x \in Entities :
        []<>(stage = "validate" /\ x \in scope) => <>[]Fresh(x)
=============================================================================
