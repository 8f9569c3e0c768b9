-------------------------- MODULE Enrichment_proofs --------------------------
(***************************************************************************)
(* What the pipeline promises of the entities of its scope, for any number *)
(* of artists, events, workers and incidents: none of them is forgotten by *)
(* its tag stages unless someone else changed it, the validation finds     *)
(* what it counts, and the stored tags are those of the stored hash unless *)
(* two extractions of the entity overlapped.                               *)
(*                                                                         *)
(* The argument has four parts. Typed says where each process can be, so   *)
(* that a step of the tag stages is about an entity of the stage. Beside   *)
(* says that a process which missed tags of its entity was seen by the one *)
(* that stored them, so that nothing stays beside tags that count as those *)
(* of their hash alone. Followed                                           *)
(* says that the texts a stage has read are the stored ones, of entities   *)
(* nobody else touched, and that each of them is still to do, in work,     *)
(* tagged or in quarantine. Findable says that the events of the scope are *)
(* stored or about to be, and that an entity that left the list of the     *)
(* embeddings has one. A step of another process leaves what these say of  *)
(* the pipeline alone (Aside): so the proofs look at the others once.      *)
(***************************************************************************)
EXTENDS Enrichment, TLAPS

Held ==
    \A p \in Processes :
        at[p] \in {"extract", "commit", "resolve", "profile", "upsert"} => item[p] \in Entities

Counted ==
    /\ \A x \in Entities : attempts[x] <= incidents
    /\ \A a \in Artists : jobs[a] <= incidents

Place ==
    /\ stage = "none" <=> at["pipeline"] = "idle"
    /\ at["pipeline"] = "status" => stage = "import" /\ item["pipeline"] \in Artists
    /\ at["pipeline"] \in {"extract", "commit", "resolve"} => stage \in {"event", "artist"}
    /\ at["pipeline"] \notin {"profile", "upsert"}
    /\ at["pipeline"] = "ready" => stage \notin {"none", "import"}
    /\ at["pipeline"] = "loop" => stage \in {"import", "normalise", "event", "artist", "embed"}
    /\ stage \notin {"import", "normalise"} => DOMAIN pending = {}

Typed == TypeOK /\ Held /\ Counted /\ Place

Part(s) == scope \cap (IF s = "event" THEN Events ELSE Artists)

Tagged(x) == Shown(x) # 0 => tags[x].label = Shown(x) \/ attempts[x] > 0

\* A stage has read the text of x, and not yet lost sight of it.
Covered(x) ==
    /\ read["pipeline"][x] = Shown(x)
    /\ \/ Tagged(x)
       \/ x \in todo["pipeline"]
       \/ at["pipeline"] \in {"extract", "commit"} /\ item["pipeline"] = x
    /\ at["pipeline"] = "resolve" /\ item["pipeline"] = x => tags[x].label = Shown(x)

Followed ==
    /\ stage \in {"event", "artist"} /\ at["pipeline"] # "ready" =>
           /\ todo["pipeline"] \subseteq Part(stage)
           /\ at["pipeline"] \in {"extract", "commit", "resolve"} =>
                  item["pipeline"] \in Part(stage)
           /\ \A x \in Part(stage) \ touched : Covered(x)
    /\ stage = "artist" => \A x \in Part("event") \ touched : Tagged(x)
    /\ stage \in {"embed", "vectors", "validate"} => \A x \in scope \ touched : Tagged(x)

Findable ==
    /\ \A e \in Events : source[e] # 0
    /\ \A e \in Events \cap DOMAIN pending : pending[e].text # 0
    /\ stage # "none" =>
           /\ scope # {}
           /\ \A e \in scope \cap Events : row[e].text # 0 \/ e \in DOMAIN pending
    /\ stage = "embed" /\ at["pipeline"] = "loop" =>
           \A x \in scope : \/ x \in todo["pipeline"]
                            \/ batch["pipeline"][x] # None
                            \/ emb[x].of # None
    /\ stage \in {"vectors", "validate"} => \A x \in scope : emb[x].of # None

\* Who stored tags that a process missed did not store them alone.
Beside ==
    \A p \in Processes : missed[p] # {} => at[p] = "commit" /\ ~tags[item[p]].alone

HashOK == TagsAreOfTheHash /\ Beside

EnrichInv == Typed /\ HashOK /\ Followed /\ Findable
-----------------------------------------------------------------------------
(* Types.                                                                  *)

CatalogueOK ==
    /\ row \in [Entities -> Rows] /\ source \in [Entities -> Texts]
    /\ DOMAIN pending \subseteq Entities
    /\ \A x \in DOMAIN pending : pending[x] \in Rows

DerivedOK ==
    /\ tags \in [Entities -> [from : SUBSET Texts, label : Texts \cup {None}, alone : BOOLEAN]]
    /\ emb \in [Entities -> [of : Profiles \cup {None}, vec : Profiles \cup {None}]]
    /\ column \in BOOLEAN
    /\ attempts \in [Entities -> 0 .. MaxIncidents]

PlanOK == stage \in Stages /\ scope \subseteq Entities /\ bios \subseteq Artists

Steps == {"idle", "ready", "loop", "status", "extract", "commit", "resolve", "profile", "upsert"}

WorkOK ==
    /\ at \in [Processes -> Steps]
    /\ todo \in [Processes -> SUBSET Entities]
    /\ item \in [Processes -> Entities \cup {None}]
    /\ read \in [Processes -> [Entities -> Texts]]
    /\ batch \in [Processes -> [Entities -> Profiles \cup {None}]]
    /\ missed \in [Processes -> SUBSET Texts]

CountsOK ==
    /\ jobs \in [Artists -> 0 .. MaxIncidents]
    /\ incidents \in 0 .. MaxIncidents /\ touched \subseteq Entities

LEMMA TypeParts == TypeOK <=> CatalogueOK /\ DerivedOK /\ PlanOK /\ WorkOK /\ CountsOK
<1>1. Range(pending) \subseteq Rows <=> \A x \in DOMAIN pending : pending[x] \in Rows
  BY DEF Range
<1> QED
  BY <1>1 DEF TypeOK, CatalogueOK, DerivedOK, PlanOK, WorkOK, CountsOK, Steps

LEMMA Constants ==
    /\ "pipeline" \in Processes /\ "retry" \in Processes /\ Workers \subseteq Processes
    /\ "pipeline" \notin Workers /\ "retry" \notin Workers
    /\ Artists \subseteq Entities /\ Events \subseteq Entities /\ Artists \cap Events = {}
    /\ 0 \in Texts /\ 1 \in Texts /\ Texts \subseteq Nat
    /\ None \notin Entities /\ None \notin Texts /\ None \notin Profiles
    /\ MaxIncidents \in Nat
  BY EnrichmentAssumption DEF Processes, Entities, Texts

LEMMA NextTextType == CountsOK /\ incidents < MaxIncidents => NextText \in Texts /\ NextText # 0
  BY Constants DEF CountsOK, NextText, Texts

LEMMA RowParts ==
    ASSUME NEW r \in Rows
    PROVE  r.text \in Texts /\ r.norm \in Texts /\ r.manual \in BOOLEAN
  BY DEF Rows

LEMMA ShownType ==
    ASSUME CatalogueOK, NEW x \in Entities
    PROVE  Shown(x) \in Texts
<1>1. row[x] \in Rows
  BY DEF CatalogueOK
<1> QED
  BY <1>1, RowParts DEF Shown

LEMMA ProfileType ==
    ASSUME CatalogueOK, DerivedOK, NEW x \in Entities
    PROVE  Profile(x) \in Profiles /\ Profile(x) # None
<1>1. tags[x].from \in SUBSET Texts
  BY DEF DerivedOK
<1>2. Shown(x) \in Texts
  BY ShownType
<1>3. Profile(x) \in Profiles
  BY <1>1, <1>2 DEF Profile, Profiles
<1> QED
  BY <1>3, Constants

LEMMA InitTyped == Init => Typed
<1> SUFFICES ASSUME Init PROVE Typed
  OBVIOUS
<1> USE Constants
<1>1. CatalogueOK
  <2>1. [text |-> 0, norm |-> 0, manual |-> FALSE] \in Rows
    BY DEF Rows
  <2> QED BY <2>1 DEF Init, CatalogueOK, Nothing
<1>2. DerivedOK
  <2>1. [from |-> {}, label |-> None, alone |-> TRUE]
            \in [from : SUBSET Texts, label : Texts \cup {None}, alone : BOOLEAN]
    OBVIOUS
  <2>2. [of |-> None, vec |-> None] \in [of : Profiles \cup {None}, vec : Profiles \cup {None}]
    OBVIOUS
  <2>3. 0 \in 0 .. MaxIncidents
    OBVIOUS
  <2>4. tags \in [Entities -> [from : SUBSET Texts, label : Texts \cup {None}, alone : BOOLEAN]]
    BY <2>1 DEF Init
  <2>5. emb \in [Entities -> [of : Profiles \cup {None}, vec : Profiles \cup {None}]]
    BY <2>2 DEF Init
  <2>6. column \in BOOLEAN /\ attempts \in [Entities -> 0 .. MaxIncidents]
    BY <2>3 DEF Init
  <2> QED BY <2>4, <2>5, <2>6 DEF DerivedOK
<1>3. PlanOK
  BY DEF Init, PlanOK, Stages
<1>4. WorkOK
  BY DEF Init, WorkOK, Steps
<1>5. CountsOK /\ Counted
  BY DEF Init, CountsOK, Counted
<1>6. Held /\ Place
  BY DEF Init, Held, Place, Nothing
<1> QED BY <1>1, <1>2, <1>3, <1>4, <1>5, <1>6, TypeParts DEF Typed

LEMMA WriteType ==
    ASSUME CatalogueOK, NEW x \in Entities, NEW r \in Rows, Write(x, r), UNCHANGED <<row, source>>
    PROVE  CatalogueOK'
  BY DEF CatalogueOK, Write

LEMMA CommitType == CatalogueOK /\ Committed /\ UNCHANGED source => CatalogueOK'
  BY DEF CatalogueOK, Committed, Nothing

LEMMA CatalogueStep == Typed /\ [Next]_vars => CatalogueOK'
<1> SUFFICES ASSUME Typed, [Next]_vars PROVE CatalogueOK'
  OBVIOUS
<1> USE Constants
<1>1. CatalogueOK /\ WorkOK /\ CountsOK
  BY TypeParts DEF Typed
<1>2. CASE Begin
  <2>1. PICK new \in SUBSET Events, B \in SUBSET Artists, linked \in SUBSET Entities :
           pending' = [x \in new \cup linked |-> IF x \in new THEN Upserted(x) ELSE row[x]]
    <3>1. \A new \in SUBSET Events : UNION {Lineup[e] : e \in new} \in SUBSET Entities
      BY EnrichmentAssumption
    <3>2. PICK new \in SUBSET Events, B \in SUBSET Artists :
             pending' = [x \in new \cup UNION {Lineup[e] : e \in new} |->
                             IF x \in new THEN Upserted(x) ELSE row[x]]
      BY <1>2 DEF Begin
    <3> QED BY <3>1, <3>2
  <2>2. \A x \in Entities : Upserted(x) \in Rows
    BY <1>1, ZenonT(40) DEF CatalogueOK, Upserted, Rows
  <2>3. row' = row /\ source' = source
    BY <1>2 DEF Begin
  <2> QED BY <1>1, <2>1, <2>2, <2>3 DEF CatalogueOK
<1>3. ASSUME NEW a \in Artists, WriteNormalised(a) PROVE CatalogueOK'
  <2>1. [row[a] EXCEPT !.norm = read["pipeline"][a]] \in Rows
    <3>1. row[a] \in Rows /\ read["pipeline"][a] \in Texts
      BY <1>1 DEF CatalogueOK, WorkOK
    <3> QED BY <3>1 DEF Rows
  <2> QED BY <1>1, <1>3, <2>1, WriteType DEF WriteNormalised
<1>4. CASE UpdateBiography
  <2> DEFINE a == item["pipeline"]
             new == [row[a] EXCEPT !.text = source[a], !.manual = FALSE]
  <2>1. a \in Artists
    BY <1>4 DEF UpdateBiography, Typed, Place
  <2>2. new \in Rows
    BY <1>1, <2>1 DEF CatalogueOK, Rows
  <2>3. UNCHANGED pending \/ Write(a, new)
    BY <1>4 DEF UpdateBiography
  <2>4. row' = row /\ source' = source
    BY <1>4 DEF UpdateBiography
  <2>5. CASE UNCHANGED pending
    BY <1>1, <2>4, <2>5 DEF CatalogueOK
  <2>6. CASE Write(a, new)
    <3> HIDE DEF new, a
    <3> QED BY <1>1, <2>1, <2>2, <2>4, <2>6, WriteType
  <2> QED BY <2>3, <2>5, <2>6
<1>5. CASE CommitImport \/ CommitNormalised
  BY <1>1, <1>5, CommitType DEF CommitImport, CommitNormalised
<1>6. ASSUME NEW p \in Processes, Abandon(p), UNCHANGED <<row, source>> PROVE CatalogueOK'
  BY <1>1, <1>6 DEF CatalogueOK, Abandon, Nothing
<1>7. ASSUME NEW p \in Processes, Collide(p) \/ Fail(p) PROVE CatalogueOK'
  BY <1>6, <1>7 DEF Collide, Fail
<1>8. ASSUME NEW a \in Artists, EditBiography(a) PROVE CatalogueOK'
  <2>1. \E r \in Rows : row' = [row EXCEPT ![a] = r]
    <3>1. NextText \in Texts
      BY <1>1, <1>8, NextTextType DEF EditBiography, Incident
    <3>2. \A t \in {0, NextText} : [text |-> t, norm |-> t, manual |-> TRUE] \in Rows
      BY <3>1 DEF Rows
    <3> QED BY <1>8, <3>2 DEF EditBiography
  <2> QED BY <1>1, <1>8, <2>1 DEF CatalogueOK, EditBiography
<1>9. ASSUME NEW x \in Entities, SourceChanges(x) PROVE CatalogueOK'
  <2>1. NextText \in Texts
    BY <1>1, <1>9, NextTextType DEF SourceChanges, Incident
  <2>2. \E t \in Texts : source' = [source EXCEPT ![x] = t]
    BY <1>9, <2>1 DEF SourceChanges
  <2> QED BY <1>1, <1>9, <2>2 DEF CatalogueOK, SourceChanges
<1>10. ASSUME NEW e \in Events, UploadEvent(e) PROVE CatalogueOK'
  <2>1. NextText \in Texts
    BY <1>1, <1>10, NextTextType DEF UploadEvent, Incident
  <2>2. \E r \in Rows : row' = [row EXCEPT ![e] = r]
    <3>1. [row[e] EXCEPT !.text = NextText, !.norm = NextText] \in Rows
      BY <1>1, <2>1 DEF CatalogueOK, Rows
    <3>2. row' = [row EXCEPT ![e] = [row[e] EXCEPT !.text = NextText, !.norm = NextText]]
      BY <1>10 DEF UploadEvent
    <3> QED BY <3>1, <3>2
  <2> QED BY <1>1, <1>10, <2>2 DEF CatalogueOK, UploadEvent
<1>11. CASE UNCHANGED catalogue
  BY <1>1, <1>11 DEF catalogue, CatalogueOK
<1>12. ASSUME NEW x \in Entities,
              \/ CheckExtraction(x) \/ ReadProfile(x) \/ RetryQuarantined(x)
       PROVE  UNCHANGED catalogue
  BY <1>12 DEF CheckExtraction, ReadProfile, RetryQuarantined
<1>13. ASSUME NEW p \in Processes, Extract(p) \/ InsertTags(p) \/ Resolve(p) \/ Quarantine(p)
       PROVE  UNCHANGED catalogue
  BY <1>13 DEF Extract, InsertTags, ReplaceTags, Resolve, Quarantine
<1>14. ASSUME NEW a \in Artists, SelectStatus(a) \/ \E w \in Workers : TakeJob(w, a)
       PROVE  UNCHANGED catalogue
  BY <1>14 DEF SelectStatus, TakeJob
<1>15. ASSUME NEW w \in Workers, RefreshProfile(w) \/ RefreshEmbedding(w)
       PROVE  UNCHANGED catalogue
  BY <1>15 DEF RefreshProfile, RefreshEmbedding
<1>16. ASSUME \/ ReadTexts \/ \E s, S : FetchTexts(s, S)
              \/ FinishTags \/ ListEntities \/ FlushBatch \/ FinishEmbeddings
              \/ BackfillVectors \/ Validate \/ UNCHANGED vars
       PROVE  UNCHANGED catalogue
  BY <1>16 DEF ReadTexts, FetchTexts, FinishTags, ListEntities, FlushBatch, FinishEmbeddings,
               BackfillVectors, Validate, vars
<1>17. ASSUME NEW p \in Processes, Tagging(p) PROVE CatalogueOK'
  BY <1>7, <1>11, <1>13, <1>17 DEF Tagging
<1> QED
  <2>1. Next \/ UNCHANGED vars
    OBVIOUS
  <2>2. CASE Pipeline
    BY <2>2, <1>3, <1>4, <1>5, <1>11, <1>12, <1>14, <1>16, <1>17 DEF Pipeline
  <2>3. CASE Retry \/ \E w \in Workers : Refresh(w)
    BY <2>3, <1>11, <1>12, <1>14, <1>15, <1>17 DEF Retry, Refresh
  <2>4. CASE Environment
    BY <2>4, <1>7, <1>8, <1>9, <1>10, <1>11, <1>13 DEF Environment
  <2> QED BY <2>1, <2>2, <2>3, <2>4, <1>2, <1>11, <1>16 DEF Next

LEMMA UpsertType ==
    ASSUME DerivedOK, NEW x \in Entities, NEW profile \in Profiles
    PROVE  /\ Upsert(emb[x], profile) \in [of : Profiles \cup {None}, vec : Profiles \cup {None}]
           /\ Upsert(emb[x], profile).of = profile
  BY DEF DerivedOK, Upsert

LEMMA EmbeddedType ==
    ASSUME DerivedOK, WorkOK, NEW p \in Processes, Embedded(p)
    PROVE  /\ emb' \in [Entities -> [of : Profiles \cup {None}, vec : Profiles \cup {None}]]
           /\ \A x \in Entities : emb'[x].of = IF batch[p][x] = None THEN emb[x].of
                                               ELSE batch[p][x]
<1> DEFINE E == [of : Profiles \cup {None}, vec : Profiles \cup {None}]
<1>1. emb' = [x \in Entities |-> IF batch[p][x] = None THEN emb[x]
                                 ELSE Upsert(emb[x], batch[p][x])]
  BY DEF Embedded
<1>2. ASSUME NEW x \in Entities
      PROVE  /\ (IF batch[p][x] = None THEN emb[x] ELSE Upsert(emb[x], batch[p][x])) \in E
             /\ batch[p][x] # None => Upsert(emb[x], batch[p][x]).of = batch[p][x]
  <2>1. emb[x] \in E /\ batch[p][x] \in Profiles \cup {None}
    BY DEF DerivedOK, WorkOK
  <2> QED BY <2>1, UpsertType
<1> HIDE DEF E
<1>3. emb' \in [Entities -> E]
  BY <1>1, <1>2
<1>4. \A x \in Entities : emb'[x].of = IF batch[p][x] = None THEN emb[x].of ELSE batch[p][x]
  BY <1>1, <1>2
<1> QED BY <1>3, <1>4 DEF E

LEMMA DerivedStep == Typed /\ [Next]_vars => DerivedOK'
<1> SUFFICES ASSUME Typed, [Next]_vars PROVE DerivedOK'
  OBVIOUS
<1> USE Constants
<1>1. DerivedOK /\ WorkOK /\ CountsOK
  BY TypeParts DEF Typed
<1>2. ASSUME NEW p \in Processes, InsertTags(p) PROVE DerivedOK'
  <2> DEFINE T == [from : SUBSET Texts, label : Texts \cup {None}, alone : BOOLEAN]
             new == [from |-> Surviving(p) \cup {read[p][item[p]]}, label |-> read[p][item[p]],
                     alone |-> Alone(p)]
  <2>1. item[p] \in Entities
    BY <1>2 DEF Typed, Held, InsertTags, ReplaceTags
  <2>2. new \in T
    <3>1. /\ read[p][item[p]] \in Texts /\ Surviving(p) \subseteq Texts
          /\ Alone(p) \in BOOLEAN
      BY <1>1, <2>1 DEF WorkOK, Surviving, Alone
    <3> QED BY <3>1
  <2>3. tags' = [tags EXCEPT ![item[p]] = new]
    BY <1>2 DEF InsertTags, ReplaceTags
  <2>4. tags \in [Entities -> T]
    BY <1>1 DEF DerivedOK
  <2> HIDE DEF T, new
  <2>5. tags' \in [Entities -> T]
    BY <2>1, <2>2, <2>3, <2>4
  <2>6. UNCHANGED <<emb, column, attempts>>
    BY <1>2 DEF InsertTags, ReplaceTags
  <2> QED BY <1>1, <2>5, <2>6 DEF DerivedOK, T
<1>3. ASSUME NEW p \in Processes, Quarantine(p) PROVE DerivedOK'
  <2>1. item[p] \in Entities
    BY <1>3 DEF Typed, Held, Quarantine
  <2>2. attempts[item[p]] + 1 \in 0 .. MaxIncidents
    BY <1>1, <1>3, <2>1 DEF Typed, Counted, CountsOK, DerivedOK, Quarantine, Incident
  <2>3. attempts' = [attempts EXCEPT ![item[p]] = attempts[item[p]] + 1]
    BY <1>3 DEF Quarantine
  <2>4. attempts' \in [Entities -> 0 .. MaxIncidents]
    BY <1>1, <2>1, <2>2, <2>3 DEF DerivedOK
  <2> QED BY <1>1, <1>3, <2>4 DEF DerivedOK, Quarantine
<1>4. ASSUME NEW p \in Processes, Resolve(p) PROVE DerivedOK'
  <2>1. 0 \in 0 .. MaxIncidents
    OBVIOUS
  <2>2. attempts' = [attempts EXCEPT ![item[p]] = 0] /\ UNCHANGED <<tags, emb, column>>
    BY <1>4 DEF Resolve
  <2> QED BY <1>1, <2>1, <2>2 DEF DerivedOK
<1>5. ASSUME NEW p \in Processes, Embedded(p), UNCHANGED <<tags, column, attempts>>
      PROVE  DerivedOK'
  BY <1>1, <1>5, EmbeddedType DEF DerivedOK
<1>6. CASE FlushBatch
  BY <1>5, <1>6 DEF FlushBatch
<1>7. ASSUME NEW w \in Workers, RefreshEmbedding(w) PROVE DerivedOK'
  BY <1>5, <1>7 DEF RefreshEmbedding
<1>8. CASE BackfillVectors
  <2> DEFINE E == [of : Profiles \cup {None}, vec : Profiles \cup {None}]
             new(x) == IF x \in scope /\ emb[x].vec = None
                       THEN [emb[x] EXCEPT !.vec = emb[x].of] ELSE emb[x]
  <2>1. emb' = [x \in Entities |-> new(x)] /\ column' = TRUE /\ UNCHANGED <<tags, attempts>>
    BY <1>8 DEF BackfillVectors
  <2>2. \A x \in Entities : new(x) \in E
    BY <1>1 DEF DerivedOK
  <2> HIDE DEF E, new
  <2>3. emb' \in [Entities -> E]
    BY <2>1, <2>2
  <2> QED BY <1>1, <2>1, <2>3 DEF DerivedOK, E
<1>9. CASE UNCHANGED derived
  BY <1>1, <1>9 DEF derived, DerivedOK
<1>10. ASSUME NEW x \in Entities,
              \/ CheckExtraction(x) \/ ReadProfile(x) \/ RetryQuarantined(x) \/ SourceChanges(x)
       PROVE  UNCHANGED derived
  BY <1>10 DEF CheckExtraction, ReadProfile, RetryQuarantined, SourceChanges
<1>11. ASSUME NEW p \in Processes, Extract(p) \/ Collide(p) \/ Fail(p)
       PROVE  UNCHANGED derived
  BY <1>11 DEF Extract, Collide, Fail
<1>12. ASSUME NEW a \in Artists,
              \/ SelectStatus(a) \/ WriteNormalised(a) \/ EditBiography(a)
              \/ \E w \in Workers : TakeJob(w, a)
       PROVE  UNCHANGED derived
  BY <1>12 DEF SelectStatus, WriteNormalised, EditBiography, TakeJob
<1>13. ASSUME NEW e \in Events, UploadEvent(e) PROVE UNCHANGED derived
  BY <1>13 DEF UploadEvent
<1>14. ASSUME NEW w \in Workers, RefreshProfile(w) PROVE UNCHANGED derived
  BY <1>14 DEF RefreshProfile
<1>15. ASSUME \/ Begin \/ UpdateBiography \/ CommitImport \/ ReadTexts \/ CommitNormalised
              \/ \E s, S : FetchTexts(s, S)
              \/ FinishTags \/ ListEntities \/ FinishEmbeddings
              \/ Validate \/ UNCHANGED vars
       PROVE  UNCHANGED derived
  BY <1>15 DEF Begin, UpdateBiography, CommitImport, ReadTexts, CommitNormalised, FetchTexts,
               FinishTags, ListEntities, FinishEmbeddings, Validate, vars
<1>16. ASSUME NEW p \in Processes, Tagging(p) PROVE DerivedOK'
  BY <1>2, <1>4, <1>9, <1>11, <1>16 DEF Tagging
<1> QED
  <2>1. Next \/ UNCHANGED vars
    OBVIOUS
  <2>2. CASE Pipeline
    BY <2>2, <1>6, <1>8, <1>9, <1>10, <1>12, <1>15, <1>16 DEF Pipeline
  <2>3. CASE Retry \/ \E w \in Workers : Refresh(w)
    BY <2>3, <1>7, <1>9, <1>10, <1>12, <1>14, <1>16 DEF Retry, Refresh
  <2>4. CASE Environment
    BY <2>4, <1>3, <1>9, <1>10, <1>11, <1>12, <1>13 DEF Environment
  <2> QED BY <2>1, <2>2, <2>3, <2>4, <1>9, <1>15 DEF Next

LEMMA PlanStep == Typed /\ [Next]_vars => PlanOK'
<1> SUFFICES ASSUME Typed, [Next]_vars PROVE PlanOK'
  OBVIOUS
<1> USE Constants
<1>1. PlanOK
  BY TypeParts DEF Typed
<1>2. CASE Begin
  <2>1. PICK new \in SUBSET Events, stored \in SUBSET {e \in Events : row[e].text # 0} :
           LET events == IF new # {} THEN new ELSE stored
           IN  scope' = events \cup UNION {Lineup[e] : e \in events}
    BY <1>2 DEF Begin
  <2>2. \A S \in SUBSET Events : UNION {Lineup[e] : e \in S} \subseteq Entities
    BY EnrichmentAssumption
  <2>3. scope' \subseteq Entities
    BY <2>1, <2>2
  <2>4. stage' \in Stages /\ bios' \subseteq Artists
    BY <1>2 DEF Begin, Enter, Stages
  <2> QED BY <2>3, <2>4 DEF PlanOK
<1>3. ASSUME NEW p \in Processes, Collide(p) \/ Fail(p) PROVE PlanOK'
  BY <1>1, <1>3 DEF Collide, Fail, Abandon, PlanOK, Stages, plan
<1>4. CASE \/ CommitImport \/ CommitNormalised \/ FinishTags \/ FinishEmbeddings
           \/ BackfillVectors \/ Validate
  BY <1>1, <1>4 DEF CommitImport, CommitNormalised, FinishTags, FinishEmbeddings, BackfillVectors,
                    Validate, Enter, PlanOK, Stages
<1>5. CASE UNCHANGED plan
  BY <1>1, <1>5 DEF plan, PlanOK
<1>6. ASSUME NEW x \in Entities,
              \/ CheckExtraction(x) \/ ReadProfile(x) \/ RetryQuarantined(x) \/ SourceChanges(x)
       PROVE  UNCHANGED plan
  BY <1>6 DEF CheckExtraction, ReadProfile, RetryQuarantined, SourceChanges
<1>7. ASSUME NEW p \in Processes, Extract(p) \/ InsertTags(p) \/ Resolve(p) \/ Quarantine(p)
       PROVE  UNCHANGED plan
  BY <1>7 DEF Extract, InsertTags, ReplaceTags, Resolve, Quarantine
<1>8. ASSUME NEW a \in Artists,
              \/ SelectStatus(a) \/ WriteNormalised(a) \/ EditBiography(a)
              \/ \E w \in Workers : TakeJob(w, a)
       PROVE  UNCHANGED plan
  BY <1>8 DEF SelectStatus, WriteNormalised, EditBiography, TakeJob
<1>9. ASSUME NEW e \in Events, UploadEvent(e) PROVE UNCHANGED plan
  BY <1>9 DEF UploadEvent
<1>10. ASSUME NEW w \in Workers, RefreshProfile(w) \/ RefreshEmbedding(w) PROVE UNCHANGED plan
  BY <1>10 DEF RefreshProfile, RefreshEmbedding
<1>11. ASSUME \/ UpdateBiography \/ ReadTexts \/ \E s, S : FetchTexts(s, S)
              \/ ListEntities \/ FlushBatch \/ UNCHANGED vars
       PROVE  UNCHANGED plan
  BY <1>11 DEF UpdateBiography, ReadTexts, FetchTexts, ListEntities, FlushBatch, vars
<1>12. ASSUME NEW p \in Processes, Tagging(p) PROVE PlanOK'
  BY <1>3, <1>5, <1>7, <1>12 DEF Tagging
<1> QED
  <2>1. Next \/ UNCHANGED vars
    OBVIOUS
  <2>2. CASE Pipeline
    BY <2>2, <1>4, <1>5, <1>6, <1>8, <1>11, <1>12 DEF Pipeline
  <2>3. CASE Retry \/ \E w \in Workers : Refresh(w)
    BY <2>3, <1>5, <1>6, <1>8, <1>10, <1>12 DEF Retry, Refresh
  <2>4. CASE Environment
    BY <2>4, <1>3, <1>5, <1>6, <1>7, <1>8, <1>9 DEF Environment
  <2> QED BY <2>1, <2>2, <2>3, <2>4, <1>2, <1>5, <1>11 DEF Next

LEMMA CountsStep == Typed /\ [Next]_vars => CountsOK' /\ Counted'
<1> SUFFICES ASSUME Typed, [Next]_vars PROVE CountsOK' /\ Counted'
  OBVIOUS
<1> USE Constants
<1>1. CountsOK /\ Counted /\ DerivedOK /\ WorkOK /\ Held
  BY TypeParts DEF Typed
<1>2. CASE UNCHANGED <<attempts, jobs, incidents>> /\ touched' \subseteq Entities
  BY <1>1, <1>2 DEF CountsOK, Counted
<1>3. CASE /\ incidents < MaxIncidents /\ incidents' = incidents + 1
           /\ UNCHANGED <<attempts, jobs>> /\ touched' \subseteq Entities
  BY <1>1, <1>3 DEF CountsOK, Counted, DerivedOK
<1>4. CASE /\ \E x \in Entities : attempts' = [attempts EXCEPT ![x] = 0]
           /\ UNCHANGED <<jobs, incidents>> /\ touched' \subseteq Entities
  BY <1>1, <1>4 DEF CountsOK, Counted, DerivedOK
<1>5. touched \subseteq Entities
  BY <1>1 DEF CountsOK
<1>6. ASSUME NEW p \in Processes, Quarantine(p) PROVE CountsOK' /\ Counted'
  <2>1. item[p] \in Entities
    BY <1>6, <1>1 DEF Held, Quarantine
  <2>2. /\ attempts' = [attempts EXCEPT ![item[p]] = attempts[item[p]] + 1]
        /\ incidents < MaxIncidents /\ incidents' = incidents + 1
        /\ UNCHANGED <<jobs, touched>>
    BY <1>6 DEF Quarantine, Incident
  <2> QED BY <1>1, <2>1, <2>2 DEF CountsOK, Counted, DerivedOK
<1>7. ASSUME NEW p \in Processes, Extract(p) \/ InsertTags(p) \/ Collide(p)
      PROVE  CountsOK' /\ Counted'
  <2>1. InsertTags(p) => item[p] \in Entities
    BY <1>1 DEF Held, InsertTags, ReplaceTags
  <2>2. UNCHANGED <<attempts, jobs, incidents>> /\ touched' \subseteq Entities
    BY <1>5, <1>7, <2>1 DEF Extract, InsertTags, ReplaceTags, Collide, Touch, derived
  <2> QED BY <1>2, <2>2
<1>8. ASSUME NEW p \in Processes, Resolve(p) PROVE CountsOK' /\ Counted'
  <2>1. item[p] \in Entities
    BY <1>8, <1>1 DEF Held, Resolve
  <2>2. attempts' = [attempts EXCEPT ![item[p]] = 0] /\ UNCHANGED <<jobs, incidents>>
    BY <1>8 DEF Resolve
  <2>3. touched' \subseteq Entities
    BY <1>5, <1>8, <2>1 DEF Resolve, Touch
  <2> QED BY <1>4, <2>1, <2>2, <2>3
<1>9. ASSUME NEW w \in Workers, RefreshProfile(w) \/ RefreshEmbedding(w)
      PROVE  CountsOK' /\ Counted'
  <2>1. RefreshEmbedding(w) => item[w] \in Entities
    BY <1>1 DEF Held, RefreshEmbedding
  <2>2. UNCHANGED <<attempts, jobs, incidents>> /\ touched' \subseteq Entities
    BY <1>5, <1>9, <2>1 DEF RefreshProfile, RefreshEmbedding, Touch, derived
  <2> QED BY <1>2, <2>2
<1>10. ASSUME NEW p \in Processes, Fail(p) PROVE CountsOK' /\ Counted'
  BY <1>3, <1>5, <1>10 DEF Fail, Incident, derived
<1>11. ASSUME NEW a \in Artists, EditBiography(a) PROVE CountsOK' /\ Counted'
  <2>1. /\ jobs' = [jobs EXCEPT ![a] = jobs[a] + 1] /\ touched' = touched \cup {a}
        /\ incidents < MaxIncidents /\ incidents' = incidents + 1 /\ UNCHANGED attempts
    BY <1>11 DEF EditBiography, JobsAfter, Incident, derived
  <2> QED BY <1>1, <2>1 DEF CountsOK, Counted, DerivedOK
<1>12. ASSUME NEW w \in Workers, NEW a \in Artists, TakeJob(w, a) PROVE CountsOK' /\ Counted'
  <2>1. /\ jobs' = [jobs EXCEPT ![a] = jobs[a] - 1] /\ jobs[a] > 0
        /\ UNCHANGED <<attempts, incidents, touched>>
    BY <1>12 DEF TakeJob, derived
  <2> QED BY <1>1, <2>1 DEF CountsOK, Counted, DerivedOK
<1>13. ASSUME NEW x \in Entities, SourceChanges(x) PROVE CountsOK' /\ Counted'
  BY <1>3, <1>5, <1>13 DEF SourceChanges, Incident, derived
<1>14. ASSUME NEW e \in Events, UploadEvent(e) PROVE CountsOK' /\ Counted'
  BY <1>3, <1>5, <1>14 DEF UploadEvent, Incident, derived
<1>15. ASSUME NEW x \in Entities, CheckExtraction(x) \/ ReadProfile(x) \/ RetryQuarantined(x)
       PROVE  CountsOK' /\ Counted'
  BY <1>2, <1>5, <1>15 DEF CheckExtraction, ReadProfile, RetryQuarantined, derived
<1>16. ASSUME NEW a \in Artists, SelectStatus(a) \/ WriteNormalised(a)
       PROVE  CountsOK' /\ Counted'
  BY <1>2, <1>5, <1>16 DEF SelectStatus, WriteNormalised, derived
<1>17. CASE \/ Begin \/ UpdateBiography \/ CommitImport \/ ReadTexts \/ CommitNormalised
            \/ \E s, S : FetchTexts(s, S)
            \/ FinishTags \/ ListEntities \/ FlushBatch \/ FinishEmbeddings
            \/ BackfillVectors \/ Validate \/ UNCHANGED vars
  <2>1. UNCHANGED <<attempts, jobs, incidents>> /\ touched' \subseteq Entities
    BY <1>5, <1>17 DEF Begin, UpdateBiography, CommitImport, ReadTexts, CommitNormalised,
       FetchTexts, FinishTags, ListEntities, FlushBatch, FinishEmbeddings, BackfillVectors,
       Validate, derived, vars
  <2> QED BY <1>2, <2>1
<1>18. ASSUME NEW p \in Processes, Tagging(p) PROVE CountsOK' /\ Counted'
  BY <1>7, <1>8, <1>18 DEF Tagging
<1> QED
  <2>1. Next \/ UNCHANGED vars
    OBVIOUS
  <2>2. CASE Pipeline
    BY <2>2, <1>15, <1>16, <1>17, <1>18 DEF Pipeline
  <2>3. CASE Retry \/ \E w \in Workers : Refresh(w)
    BY <2>3, <1>9, <1>12, <1>15, <1>18 DEF Retry, Refresh
  <2>4. CASE Environment
    BY <2>4, <1>6, <1>10, <1>11, <1>13, <1>14 DEF Environment
  <2> QED BY <2>1, <2>2, <2>3, <2>4, <1>17 DEF Next

-----------------------------------------------------------------------------
(* Where the processes are.                                                *)

\* Only p moves.
Moves(p) == \A q \in Processes \ {p} : at'[q] = at[q] /\ item'[q] = item[q]

LEMMA RestType ==
    ASSUME WorkOK, NEW p \in Processes, Rest(p)
    PROVE  WorkOK' /\ Moves(p) /\ at'[p] = "idle"
  BY Constants DEF WorkOK, Steps, Rest, Blank, Moves

LEMMA ContinueType ==
    ASSUME WorkOK, NEW p \in Processes, Continue(p)
    PROVE  WorkOK' /\ Moves(p) /\ at'[p] = IF p = "pipeline" THEN "loop" ELSE "idle"
<1>1. CASE p = "pipeline"
  <2>1. /\ at' = [at EXCEPT ![p] = "loop"] /\ item' = [item EXCEPT ![p] = None]
        /\ missed' = [missed EXCEPT ![p] = {}] /\ UNCHANGED <<todo, read, batch>>
    BY <1>1 DEF Continue
  <2>2. at' \in [Processes -> Steps] /\ item' \in [Processes -> Entities \cup {None}]
    BY <2>1 DEF WorkOK, Steps
  <2>3. missed' \in [Processes -> SUBSET Texts]
    BY <2>1 DEF WorkOK
  <2>4. Moves(p) /\ at'[p] = "loop"
    BY <2>1 DEF WorkOK, Moves
  <2> QED BY <1>1, <2>1, <2>2, <2>3, <2>4 DEF WorkOK
<1>2. CASE p # "pipeline"
  BY <1>2, RestType DEF Continue
<1> QED BY <1>1, <1>2

\* A step of another process leaves the pipeline where it is.
LEMMA OtherPlace ==
    ASSUME Typed, NEW p \in Processes \ {"pipeline"}, WorkOK', Moves(p),
           UNCHANGED <<stage, pending>>,
           at'[p] \in {"extract", "commit", "resolve", "profile", "upsert"} => item'[p] \in Entities
    PROVE  Held' /\ Place'
<1>1. Held'
  BY DEF Held, Moves, Typed
<1>2. Place'
  BY Constants DEF Place, Moves, Typed
<1> QED BY <1>1, <1>2

LEMMA SamePlace ==
    Typed /\ WorkOK /\ UNCHANGED <<stage, pending, at, item, todo, read, batch, missed>>
        => WorkOK' /\ Held' /\ Place'
  BY DEF WorkOK, Held, Place, Typed

LEMMA TaggingPlace ==
    ASSUME Typed, NEW p \in Processes, Tagging(p) \/ Quarantine(p) \/ Fail(p)
    PROVE  WorkOK' /\ Held' /\ Place'
<1> USE Constants
<1>1. WorkOK /\ Held /\ Place
  BY TypeParts DEF Typed
<1>2. CASE Extract(p)
  <2>1. /\ at' = [at EXCEPT ![p] = "commit"]
        /\ UNCHANGED <<stage, pending, item, todo, read, batch, missed>>
    BY <1>2 DEF Extract, catalogue, plan
  <2>2. at[p] = "extract"
    BY <1>2 DEF Extract
  <2> QED BY <1>1, <2>1, <2>2 DEF WorkOK, Steps, Held, Place
<1>3. CASE InsertTags(p)
  <2> DEFINE x == item[p]
  <2>1. /\ at' = [at EXCEPT ![p] = After(p)]
        /\ UNCHANGED <<stage, pending, item, todo, read, batch>>
        /\ at[p] = "commit"
    BY <1>3 DEF InsertTags, ReplaceTags, catalogue, plan
  <2>2. x \in Entities /\ read[p][x] \in Texts
    BY <1>1, <2>1 DEF WorkOK, Held
  <2>3. missed' \in [Processes -> SUBSET Texts]
    BY <1>1, <1>3, <2>2 DEF InsertTags, ReplaceTags, WorkOK
  <2>4. After(p) \in {"profile", "resolve"} /\ (p = "pipeline" => After(p) = "resolve")
    BY DEF After
  <2> QED BY <1>1, <2>1, <2>2, <2>3, <2>4 DEF WorkOK, Steps, Held, Place
<1>4. CASE Resolve(p) \/ Quarantine(p)
  <2>1. /\ Continue(p) /\ UNCHANGED <<stage, pending>> /\ at[p] \in {"extract", "resolve"}
    BY <1>4 DEF Resolve, Quarantine, catalogue, plan
  <2>2. WorkOK' /\ Moves(p) /\ at'[p] = IF p = "pipeline" THEN "loop" ELSE "idle"
    BY <1>1, <2>1, ContinueType
  <2>3. CASE p # "pipeline"
    BY <2>1, <2>2, <2>3, OtherPlace
  <2>4. CASE p = "pipeline"
    <3>1. Held'
      BY <1>1, <2>2, <2>4 DEF Held, Moves
    <3>2. Place'
      BY <1>1, <2>1, <2>2, <2>4 DEF Place
    <3> QED BY <2>2, <3>1, <3>2
  <2> QED BY <2>3, <2>4
<1>5. CASE Collide(p) \/ Fail(p)
  <2>1. Abandon(p)
    BY <1>5 DEF Collide, Fail
  <2>2. WorkOK' /\ Moves(p) /\ at'[p] = "idle"
    BY <1>1, <2>1, RestType DEF Abandon
  <2>3. CASE p # "pipeline"
    <3>1. UNCHANGED <<stage, pending>>
      BY <2>1, <2>3 DEF Abandon, plan
    <3> QED BY <2>2, <2>3, <3>1, OtherPlace
  <2>4. CASE p = "pipeline"
    <3>1. stage' = "none" /\ DOMAIN pending' = {}
      BY <2>1, <2>4 DEF Abandon, Nothing
    <3>2. Held'
      BY <1>1, <2>2, <2>4 DEF Held, Moves
    <3>3. Place'
      BY <2>2, <2>4, <3>1 DEF Place
    <3> QED BY <2>2, <3>2, <3>3
  <2> QED BY <2>3, <2>4
<1> QED BY <1>2, <1>3, <1>4, <1>5 DEF Tagging

LEMMA RefreshPlace ==
    ASSUME Typed, NEW w \in Workers,
           \/ \E a \in Artists : TakeJob(w, a)
           \/ RefreshProfile(w) \/ RefreshEmbedding(w)
    PROVE  WorkOK' /\ Held' /\ Place'
<1> USE Constants
<1>1. WorkOK /\ Held /\ CatalogueOK /\ DerivedOK
  BY TypeParts DEF Typed
<1>2. w \in Processes \ {"pipeline"}
  OBVIOUS
<1>3. UNCHANGED <<stage, pending>>
  BY DEF TakeJob, RefreshProfile, RefreshEmbedding, catalogue, plan
<1>4. ASSUME NEW a \in Artists, TakeJob(w, a) PROVE WorkOK' /\ Held' /\ Place'
  <2>1. Shown(a) \in Texts
    BY <1>1, ShownType
  <2>2. CASE Shown(a) = 0
    BY <1>1, <1>3, <1>4, <2>2, SamePlace DEF TakeJob, work
  <2>3. CASE Shown(a) # 0
    <3>1. /\ item' = [item EXCEPT ![w] = a]
          /\ read' = [read EXCEPT ![w][a] = Shown(a)]
          /\ \E s \in {"profile", "extract"} : at' = [at EXCEPT ![w] = s]
          /\ UNCHANGED <<todo, batch, missed>>
      BY <1>4, <2>3 DEF TakeJob
    <3>2. read' \in [Processes -> [Entities -> Texts]]
      BY <1>1, <1>2, <2>1, <3>1 DEF WorkOK
    <3>3. WorkOK' /\ Moves(w) /\ item'[w] \in Entities
      BY <1>1, <1>2, <3>1, <3>2 DEF WorkOK, Steps, Moves
    <3> QED BY <1>2, <1>3, <3>3, OtherPlace
  <2> QED BY <2>2, <2>3
<1>5. CASE RefreshProfile(w)
  <2> DEFINE a == item[w]
  <2>1. a \in Entities /\ at[w] = "profile"
    BY <1>1, <1>2, <1>5 DEF Held, RefreshProfile
  <2>2. Profile(a) \in Profiles
    BY <1>1, <2>1, ProfileType
  <2>3. CASE Rest(w)
    BY <1>1, <1>2, <1>3, <2>3, RestType, OtherPlace
  <2>4. CASE /\ batch' = [batch EXCEPT ![w][a] = Profile(a)]
             /\ at' = [at EXCEPT ![w] = "upsert"]
             /\ UNCHANGED <<todo, item, read, missed>>
    <3>1. batch' \in [Processes -> [Entities -> Profiles \cup {None}]]
      BY <1>1, <1>2, <2>1, <2>2, <2>4 DEF WorkOK
    <3>2. WorkOK' /\ Moves(w) /\ item'[w] \in Entities
      BY <1>1, <1>2, <2>1, <2>4, <3>1 DEF WorkOK, Steps, Moves
    <3> QED BY <1>2, <1>3, <3>2, OtherPlace
  <2> QED BY <1>5, <2>3, <2>4 DEF RefreshProfile
<1>6. CASE RefreshEmbedding(w)
  BY <1>1, <1>2, <1>3, <1>6, RestType, OtherPlace DEF RefreshEmbedding
<1> QED BY <1>4, <1>5, <1>6

LEMMA RetryPlace ==
    ASSUME Typed, NEW x \in Entities, RetryQuarantined(x)
    PROVE  WorkOK' /\ Held' /\ Place'
<1> USE Constants
<1>1. WorkOK /\ CatalogueOK
  BY TypeParts DEF Typed
<1>2. /\ item' = [item EXCEPT !["retry"] = x]
      /\ read' = [read EXCEPT !["retry"][x] = Shown(x)]
      /\ at' = [at EXCEPT !["retry"] = "extract"]
      /\ UNCHANGED <<todo, batch, missed, stage, pending>>
  BY DEF RetryQuarantined, catalogue, plan
<1>3. read' \in [Processes -> [Entities -> Texts]]
  BY <1>1, <1>2, ShownType DEF WorkOK
<1>4. WorkOK' /\ Moves("retry") /\ item'["retry"] \in Entities
  BY <1>1, <1>2, <1>3 DEF WorkOK, Steps, Moves
<1> QED BY <1>2, <1>4, OtherPlace

LEMMA EnvironmentPlace ==
    ASSUME Typed,
           \/ \E a \in Artists : EditBiography(a)
           \/ \E x \in Entities : SourceChanges(x)
           \/ \E e \in Events : UploadEvent(e)
    PROVE  WorkOK' /\ Held' /\ Place'
<1>1. UNCHANGED <<stage, pending, at, item, todo, read, batch, missed>>
  BY DEF EditBiography, SourceChanges, UploadEvent, plan, work
<1> QED BY <1>1, SamePlace, TypeParts DEF Typed

LEMMA ImportPlace ==
    ASSUME Typed,
           \/ Begin \/ UpdateBiography \/ CommitImport \/ ReadTexts \/ CommitNormalised
           \/ \E a \in Artists : SelectStatus(a) \/ WriteNormalised(a)
    PROVE  WorkOK' /\ Held' /\ Place'
<1> USE Constants
<1>1. WorkOK /\ Held /\ Place /\ CatalogueOK /\ PlanOK
  BY TypeParts DEF Typed
<1>2. CASE Begin
  <2>1. PICK new \in SUBSET Events, B \in SUBSET Artists :
           /\ pending' = [x \in new \cup UNION {Lineup[e] : e \in new} |->
                             IF x \in new THEN Upserted(x) ELSE row[x]]
           /\ todo' = [todo EXCEPT !["pipeline"] = B]
           /\ IF new = {} /\ B = {}
              THEN Enter("normalise")
              ELSE stage' = "import" /\ at' = [at EXCEPT !["pipeline"] = "loop"]
    BY <1>2 DEF Begin
  <2>2. UNCHANGED <<item, read, batch, missed>>
    BY <1>2 DEF Begin
  <2>3. stage' \in {"import", "normalise"}
    BY <2>1 DEF Enter
  <2>4. \/ stage' = "import" /\ at' = [at EXCEPT !["pipeline"] = "loop"]
        \/ stage' = "normalise" /\ at' = [at EXCEPT !["pipeline"] = "ready"]
    BY <2>1 DEF Enter
  <2>5. \E s \in {"loop", "ready"} : at' = [at EXCEPT !["pipeline"] = s]
    BY <2>4
  <2>6. WorkOK'
    <3>1. B \subseteq Entities
      OBVIOUS
    <3>2. todo' \in [Processes -> SUBSET Entities]
      BY <1>1, <2>1, <3>1 DEF WorkOK
    <3> QED BY <1>1, <2>2, <2>5, <3>2 DEF WorkOK, Steps
  <2>7. Held'
    BY <1>1, <2>2, <2>5 DEF Held, WorkOK
  <2>8. Place'
    BY <1>1, <2>3, <2>4 DEF Place, WorkOK
  <2> QED BY <2>6, <2>7, <2>8
<1>3. ASSUME NEW a \in Artists, SelectStatus(a) PROVE WorkOK' /\ Held' /\ Place'
  <2>1. /\ stage = "import" /\ at["pipeline"] = "loop" /\ a \in Entities
        /\ todo' = [todo EXCEPT !["pipeline"] = todo["pipeline"] \ {a}]
        /\ UNCHANGED <<stage, pending, read, batch, missed>>
    BY <1>3 DEF SelectStatus, Looping, catalogue, plan
  <2>2. todo' \in [Processes -> SUBSET Entities]
    BY <1>1, <2>1 DEF WorkOK
  <2>3. CASE UNCHANGED <<at, item>>
    BY <1>1, <2>1, <2>2, <2>3 DEF WorkOK, Held, Place
  <2>4. CASE /\ at' = [at EXCEPT !["pipeline"] = "status"]
             /\ item' = [item EXCEPT !["pipeline"] = a]
    <3>1. WorkOK'
      BY <1>1, <2>1, <2>2, <2>4 DEF WorkOK, Steps
    <3>2. Held' /\ Place'
      BY <1>1, <2>1, <2>4 DEF WorkOK, Held, Place
    <3> QED BY <3>1, <3>2
  <2> QED BY <1>3, <2>3, <2>4 DEF SelectStatus
<1>4. CASE UpdateBiography
  <2>1. /\ stage = "import" /\ at' = [at EXCEPT !["pipeline"] = "loop"]
        /\ item' = [item EXCEPT !["pipeline"] = None]
        /\ UNCHANGED <<stage, todo, read, batch, missed>>
    BY <1>4 DEF UpdateBiography, plan
  <2> QED BY <1>1, <2>1 DEF WorkOK, Steps, Held, Place
<1>5. CASE CommitImport \/ CommitNormalised
  <2>1. /\ DOMAIN pending' = {} /\ stage' \in {"normalise", "event"}
        /\ at' = [at EXCEPT !["pipeline"] = "ready"]
        /\ UNCHANGED <<todo, item, read, batch, missed>>
    BY <1>5 DEF CommitImport, CommitNormalised, Committed, Enter, Nothing
  <2> QED BY <1>1, <2>1 DEF WorkOK, Steps, Held, Place
<1>6. CASE ReadTexts
  <2>1. /\ stage = "normalise" /\ at' = [at EXCEPT !["pipeline"] = "loop"]
        /\ UNCHANGED <<stage, pending, item, batch, missed>>
    BY <1>6 DEF ReadTexts, Starting, Loop, catalogue, plan
  <2>2. todo' \in [Processes -> SUBSET Entities]
    BY <1>1, <1>6 DEF ReadTexts, Loop, WorkOK
  <2>3. read' \in [Processes -> [Entities -> Texts]]
    <3>1. \A x \in Entities : row[x].text \in Texts
      BY <1>1, RowParts DEF CatalogueOK
    <3> QED BY <1>1, <1>6, <3>1 DEF ReadTexts, WorkOK
  <2> QED BY <1>1, <2>1, <2>2, <2>3 DEF WorkOK, Steps, Held, Place
<1>7. ASSUME NEW a \in Artists, WriteNormalised(a) PROVE WorkOK' /\ Held' /\ Place'
  <2>1. /\ stage = "normalise" /\ todo' = [todo EXCEPT !["pipeline"] = @ \ {a}]
        /\ UNCHANGED <<stage, at, item, read, batch, missed>>
    BY <1>7 DEF WriteNormalised, Looping, plan
  <2> QED BY <1>1, <2>1 DEF WorkOK, Held, Place
<1> QED BY <1>2, <1>3, <1>4, <1>5, <1>6, <1>7

LEMMA StagesPlace ==
    ASSUME Typed,
           \/ FetchTexts("event", scope \cap Events) \/ FetchTexts("artist", scope \cap Artists)
           \/ \E x \in Entities : CheckExtraction(x) \/ ReadProfile(x)
           \/ FinishTags \/ ListEntities \/ FlushBatch \/ FinishEmbeddings
           \/ BackfillVectors \/ Validate
    PROVE  WorkOK' /\ Held' /\ Place'
<1> USE Constants
<1>1. WorkOK /\ Held /\ Place /\ CatalogueOK /\ DerivedOK /\ PlanOK
  BY TypeParts DEF Typed
<1>2. ASSUME NEW S \in SUBSET Entities, FetchTexts("event", S) \/ FetchTexts("artist", S)
      PROVE  WorkOK' /\ Held' /\ Place'
  <2>1. /\ stage \in {"event", "artist"} /\ at' = [at EXCEPT !["pipeline"] = "loop"]
        /\ UNCHANGED <<stage, pending, item, batch, missed>>
    BY <1>2 DEF FetchTexts, Starting, Loop, catalogue, plan
  <2>2. todo' \in [Processes -> SUBSET Entities]
    <3>1. PICK texts \in SUBSET Entities : todo' = [todo EXCEPT !["pipeline"] = texts]
      <4>1. \A T : Loop(T) => todo' = [todo EXCEPT !["pipeline"] = T]
        BY DEF Loop
      <4>2. \E T \in SUBSET S : Loop(T)
        BY <1>2 DEF FetchTexts
      <4> QED BY <4>1, <4>2
    <3> QED BY <1>1, <3>1 DEF WorkOK
  <2>3. read' \in [Processes -> [Entities -> Texts]]
    <3> DEFINE texts == [x \in Entities |-> IF x \in S THEN Shown(x) ELSE 0]
    <3>1. texts \in [Entities -> Texts]
      BY <1>1, ShownType
    <3>2. read' = [read EXCEPT !["pipeline"] = texts]
      BY <1>2 DEF FetchTexts
    <3> HIDE DEF texts
    <3> QED BY <1>1, <3>1, <3>2 DEF WorkOK
  <2>4. WorkOK'
    BY <1>1, <2>1, <2>2, <2>3 DEF WorkOK, Steps
  <2>5. Held'
    BY <1>1, <2>1 DEF Held, WorkOK
  <2>6. Place'
    BY <1>1, <2>1 DEF Place, WorkOK
  <2> QED BY <2>4, <2>5, <2>6
<1>3. ASSUME NEW x \in Entities, CheckExtraction(x) PROVE WorkOK' /\ Held' /\ Place'
  <2>1. /\ stage \in {"event", "artist"} /\ at["pipeline"] = "loop" /\ x \in Entities
        /\ todo' = [todo EXCEPT !["pipeline"] = todo["pipeline"] \ {x}]
        /\ UNCHANGED <<stage, pending, read, batch, missed>>
    BY <1>3 DEF CheckExtraction, Looping, catalogue, plan
  <2>2. todo' \in [Processes -> SUBSET Entities]
    BY <1>1, <2>1 DEF WorkOK
  <2>3. CASE UNCHANGED <<at, item>>
    BY <1>1, <2>1, <2>2, <2>3 DEF WorkOK, Held, Place
  <2>4. CASE /\ at' = [at EXCEPT !["pipeline"] = "extract"]
             /\ item' = [item EXCEPT !["pipeline"] = x]
    <3>1. WorkOK'
      BY <1>1, <2>1, <2>2, <2>4 DEF WorkOK, Steps
    <3>2. Held' /\ Place'
      BY <1>1, <2>1, <2>4 DEF WorkOK, Held, Place
    <3> QED BY <3>1, <3>2
  <2> QED BY <1>3, <2>3, <2>4 DEF CheckExtraction
<1>4. ASSUME NEW x \in Entities, ReadProfile(x) PROVE WorkOK' /\ Held' /\ Place'
  <2>1. /\ todo' = [todo EXCEPT !["pipeline"] = @ \ {x}]
        /\ UNCHANGED <<stage, pending, at, item, read, missed>>
    BY <1>4 DEF ReadProfile, catalogue, plan
  <2>2. batch' \in [Processes -> [Entities -> Profiles \cup {None}]]
    BY <1>1, <1>4, ProfileType DEF ReadProfile, WorkOK
  <2> QED BY <1>1, <2>1, <2>2 DEF WorkOK, Held, Place
<1>5. CASE FinishTags
  <2>1. /\ stage' \in {"artist", "embed"} /\ stage \in {"event", "artist"}
        /\ at' = [at EXCEPT !["pipeline"] = "ready"]
        /\ read' = [read EXCEPT !["pipeline"] = Blank]
        /\ UNCHANGED <<pending, todo, item, batch, missed>>
    BY <1>5 DEF FinishTags, Done, Looping, Enter, catalogue
  <2> QED BY <1>1, <2>1 DEF WorkOK, Steps, Held, Place, Blank
<1>6. CASE ListEntities
  BY <1>1, <1>6 DEF ListEntities, Starting, Loop, catalogue, plan, PlanOK, WorkOK,
                   Steps, Held, Place
<1>7. CASE FlushBatch
  BY <1>1, <1>7 DEF FlushBatch, catalogue, plan, WorkOK, Held, Place
<1>8. CASE FinishEmbeddings
  BY <1>1, <1>8 DEF FinishEmbeddings, Done, Looping, Enter, catalogue, WorkOK, Steps, Held, Place
<1>9. CASE BackfillVectors
  BY <1>1, <1>9 DEF BackfillVectors, Starting, Enter, catalogue, WorkOK, Steps, Held, Place
<1>10. CASE Validate
  <2>1. /\ stage = "validate" /\ stage' = "none" /\ Rest("pipeline") /\ UNCHANGED pending
    BY <1>10 DEF Validate, Starting, catalogue
  <2>2. WorkOK' /\ Moves("pipeline") /\ at'["pipeline"] = "idle"
    BY <1>1, <2>1, RestType
  <2> QED BY <1>1, <2>1, <2>2 DEF Held, Place, Moves
<1> QED BY <1>1, <1>2, <1>3, <1>4, <1>5, <1>6, <1>7, <1>8, <1>9, <1>10 DEF PlanOK

LEMMA TypedStep == Typed /\ [Next]_vars => Typed'
<1> SUFFICES ASSUME Typed, [Next]_vars PROVE Typed'
  OBVIOUS
<1>1. WorkOK' /\ Held' /\ Place'
  <2>1. CASE UNCHANGED vars
    BY <2>1, SamePlace, TypeParts DEF vars, catalogue, plan, work, Typed
  <2>2. CASE Pipeline
    BY <2>2, ImportPlace, StagesPlace, TaggingPlace, Constants DEF Pipeline
  <2>3. CASE Retry \/ \E w \in Workers : Refresh(w)
    BY <2>3, RefreshPlace, RetryPlace, TaggingPlace, Constants DEF Retry, Refresh
  <2>4. CASE Environment
    BY <2>4, EnvironmentPlace, TaggingPlace DEF Environment
  <2>5. CASE Begin
    BY <2>5, ImportPlace
  <2> QED BY <2>1, <2>2, <2>3, <2>4, <2>5 DEF Next
<1>2. CatalogueOK' /\ DerivedOK' /\ PlanOK' /\ CountsOK' /\ Counted'
  BY CatalogueStep, DerivedStep, PlanStep, CountsStep
<1>3. TypeOK'
  <2>1. (Range(pending) \subseteq Rows)'
    BY <1>2 DEF CatalogueOK, Range
  <2> QED
    BY <1>1, <1>2, <2>1 DEF TypeOK, CatalogueOK, DerivedOK, PlanOK, WorkOK, CountsOK, Steps
<1> QED BY <1>1, <1>2, <1>3 DEF Typed

-----------------------------------------------------------------------------
(* The hash of the tags: only InsertTags writes them.                      *)

\* What a step of q that stores no tags does to the others, and to q itself:
\* it leaves nothing behind that it missed.
Clears(q) ==
    /\ UNCHANGED tags
    /\ \A p \in Processes \ {q} : at'[p] = at[p] /\ item'[p] = item[p] /\ missed'[p] = missed[p]
    /\ missed'[q] = {} \/ (at[q] # "commit" /\ missed'[q] = missed[q])

LEMMA ClearsHash ==
    ASSUME HashOK, NEW q \in Processes, Clears(q)
    PROVE  HashOK'
  BY DEF HashOK, TagsAreOfTheHash, Beside, Clears

LEMMA InsertHash ==
    ASSUME Typed, HashOK, NEW p \in Processes, InsertTags(p)
    PROVE  HashOK'
<1> DEFINE x == item[p]
           text == read[p][x]
           new == [from |-> Surviving(p) \cup {text}, label |-> text, alone |-> Alone(p)]
<1>1. DerivedOK /\ WorkOK /\ x \in Entities /\ text \in Texts /\ at[p] = "commit"
  BY TypeParts DEF Typed, Held, InsertTags, ReplaceTags, WorkOK
<1>2. tags' = [tags EXCEPT ![x] = new]
  BY DEF InsertTags, ReplaceTags
<1>3. tags'[x] = new /\ \A y \in Entities \ {x} : tags'[y] = tags[y]
  <2> HIDE DEF new, x
  <2> QED BY <1>1, <1>2 DEF DerivedOK
<1>4. TagsAreOfTheHash'
  <2>1. new.alone => new.from = {new.label} /\ new.label # None
    BY <1>1, Constants DEF Alone, Surviving
  <2> HIDE DEF new, x
  <2> QED BY <1>1, <1>3, <2>1 DEF HashOK, TagsAreOfTheHash
<1>5. ASSUME NEW q \in Processes, missed'[q] # {}
      PROVE  at'[q] = "commit" /\ ~tags'[item'[q]].alone
  <2>1. /\ missed'[q] = (IF q = p THEN {}
                         ELSE IF at[q] = "commit" /\ item[q] = x THEN missed[q] \cup {text}
                         ELSE missed[q])
        /\ at' = [at EXCEPT ![p] = After(p)] /\ item' = item
    BY DEF InsertTags, ReplaceTags
  <2>2. q # p /\ at'[q] = at[q] /\ item'[q] = item[q]
    BY <1>1, <1>5, <2>1 DEF WorkOK
  <2>3. CASE at[q] = "commit" /\ item[q] = x
    <3>1. new.alone = FALSE
      BY <2>2, <2>3 DEF Alone
    <3> QED BY <1>3, <2>2, <2>3, <3>1
  <2>4. CASE ~(at[q] = "commit" /\ item[q] = x)
    <3>1. missed[q] # {}
      BY <1>5, <2>1, <2>2, <2>4
    <3>2. at[q] = "commit" /\ ~tags[item[q]].alone
      BY <3>1 DEF HashOK, Beside
    <3>3. item[q] \in Entities \ {x}
      BY <2>4, <3>2 DEF Typed, Held
    <3> HIDE DEF new, x
    <3> QED BY <1>3, <2>2, <3>2, <3>3
  <2> QED BY <2>3, <2>4
<1> QED BY <1>4, <1>5 DEF HashOK, Beside

LEMMA RestClears ==
    ASSUME WorkOK, NEW p \in Processes, Rest(p) \/ Continue(p), UNCHANGED tags
    PROVE  Clears(p)
<1>1. CASE Rest(p)
  BY <1>1 DEF Rest, Clears, WorkOK
<1>2. CASE p = "pipeline" /\ Continue(p)
  BY <1>2 DEF Continue, Clears, WorkOK
<1> QED BY <1>1, <1>2 DEF Continue

LEMMA TaggingHash ==
    ASSUME Typed, HashOK, NEW p \in Processes, Tagging(p) \/ Quarantine(p) \/ Fail(p)
    PROVE  HashOK'
<1>1. WorkOK
  BY TypeParts DEF Typed
<1>2. CASE Extract(p)
  <2>1. Clears(p)
    BY <1>1, <1>2 DEF Extract, Clears, WorkOK, derived
  <2> QED BY <2>1, ClearsHash
<1>3. CASE Collide(p) \/ Fail(p) \/ Resolve(p) \/ Quarantine(p)
  <2>1. UNCHANGED tags /\ (Rest(p) \/ Continue(p))
    BY <1>3 DEF Collide, Fail, Resolve, Quarantine, Abandon, derived
  <2> QED BY <1>1, <2>1, RestClears, ClearsHash
<1> QED BY <1>2, <1>3, InsertHash DEF Tagging

\* The pipeline goes from step to step without a transaction about tags.
LEMMA PipelineHash ==
    ASSUME Typed, HashOK, Begin \/ Pipeline
    PROVE  HashOK'
<1> USE Constants
<1>1. WorkOK /\ Place
  BY TypeParts DEF Typed
<1>2. CASE Begin
  <2>1. UNCHANGED <<tags, item, missed>> /\ stage = "none"
    BY <1>2 DEF Begin, derived
  <2>2. \E s : at' = [at EXCEPT !["pipeline"] = s]
    BY <1>2 DEF Begin, Enter
  <2>3. at["pipeline"] # "commit"
    BY <1>1, <2>1 DEF Place
  <2>4. Clears("pipeline")
    BY <1>1, <2>1, <2>2, <2>3 DEF Clears, WorkOK
  <2> QED BY <2>4, ClearsHash
<1>3. ASSUME NEW a \in Artists, SelectStatus(a) \/ WriteNormalised(a) PROVE HashOK'
  <2>1. UNCHANGED <<tags, missed>> /\ at["pipeline"] # "commit"
    BY <1>3 DEF SelectStatus, WriteNormalised, Looping, derived
  <2>2. Clears("pipeline")
    BY <1>1, <1>3, <2>1 DEF SelectStatus, WriteNormalised, Clears, WorkOK
  <2> QED BY <2>2, ClearsHash
<1>4. CASE \/ UpdateBiography \/ CommitImport \/ ReadTexts \/ CommitNormalised
           \/ \E s, S : FetchTexts(s, S)
  <2>1. UNCHANGED <<tags, missed>> /\ at["pipeline"] # "commit"
    BY <1>4 DEF UpdateBiography, CommitImport, ReadTexts, CommitNormalised, FetchTexts,
                Done, Looping, Starting, derived
  <2>2. \A p \in Processes \ {"pipeline"} : at'[p] = at[p] /\ item'[p] = item[p]
    BY <1>1, <1>4 DEF UpdateBiography, CommitImport, ReadTexts, CommitNormalised, FetchTexts,
                      Loop, Enter, WorkOK
  <2> QED BY <2>1, <2>2, ClearsHash DEF Clears
<1>5. ASSUME NEW x \in Entities, CheckExtraction(x) \/ ReadProfile(x) PROVE HashOK'
  <2>1. UNCHANGED <<tags, missed>> /\ at["pipeline"] # "commit"
    BY <1>5 DEF CheckExtraction, ReadProfile, Looping, derived
  <2>2. \A p \in Processes \ {"pipeline"} : at'[p] = at[p] /\ item'[p] = item[p]
    BY <1>1, <1>5 DEF CheckExtraction, ReadProfile, WorkOK
  <2> QED BY <2>1, <2>2, ClearsHash DEF Clears
<1>6. CASE FinishTags \/ ListEntities \/ FlushBatch \/ FinishEmbeddings \/ BackfillVectors
  <2>1. UNCHANGED <<tags, missed>> /\ at["pipeline"] # "commit"
    BY <1>6 DEF FinishTags, ListEntities, FlushBatch, FinishEmbeddings, BackfillVectors,
                Done, Looping, Starting, derived
  <2>2. \A p \in Processes \ {"pipeline"} : at'[p] = at[p] /\ item'[p] = item[p]
    BY <1>1, <1>6 DEF FinishTags, ListEntities, FlushBatch, FinishEmbeddings, BackfillVectors,
                      Loop, Enter, WorkOK
  <2> QED BY <2>1, <2>2, ClearsHash DEF Clears
<1>7. CASE Validate
  <2>1. UNCHANGED tags /\ Rest("pipeline")
    BY <1>7 DEF Validate, derived
  <2> QED BY <1>1, <2>1, RestClears, ClearsHash
<1>8. CASE Tagging("pipeline")
  BY <1>8, TaggingHash
<1> QED BY <1>2, <1>3, <1>4, <1>5, <1>6, <1>7, <1>8 DEF Pipeline

LEMMA RefreshHash ==
    ASSUME Typed, HashOK, NEW w \in Workers,
           \/ \E a \in Artists : TakeJob(w, a)
           \/ RefreshProfile(w) \/ RefreshEmbedding(w)
    PROVE  HashOK'
<1>1. WorkOK /\ w \in Processes
  BY TypeParts, Constants DEF Typed
<1>2. CASE \E a \in Artists : TakeJob(w, a)
  <2>1. UNCHANGED <<tags, missed>> /\ at[w] # "commit"
    BY <1>2 DEF TakeJob, derived, work
  <2>2. \A p \in Processes \ {w} : at'[p] = at[p] /\ item'[p] = item[p]
    BY <1>1, <1>2 DEF TakeJob, work, WorkOK
  <2> QED BY <1>1, <2>1, <2>2, ClearsHash DEF Clears
<1>3. CASE RefreshProfile(w)
  <2>1. UNCHANGED tags /\ at[w] # "commit"
    BY <1>3 DEF RefreshProfile, derived
  <2>2. CASE Rest(w)
    BY <1>1, <2>1, <2>2, RestClears, ClearsHash
  <2>3. CASE at' = [at EXCEPT ![w] = "upsert"] /\ UNCHANGED <<item, missed>>
    <3>1. Clears(w)
      BY <1>1, <2>1, <2>3 DEF Clears, WorkOK
    <3> QED BY <1>1, <3>1, ClearsHash
  <2> QED BY <1>3, <2>2, <2>3 DEF RefreshProfile
<1>4. CASE RefreshEmbedding(w)
  <2>1. UNCHANGED tags /\ Rest(w)
    BY <1>4 DEF RefreshEmbedding
  <2> QED BY <1>1, <2>1, RestClears, ClearsHash
<1> QED BY <1>2, <1>3, <1>4

LEMMA HashStep == Typed /\ HashOK /\ [Next]_vars => HashOK'
<1> SUFFICES ASSUME Typed, HashOK, [Next]_vars PROVE HashOK'
  OBVIOUS
<1>1. CASE UNCHANGED <<tags, at, item, missed>>
  BY <1>1 DEF HashOK, TagsAreOfTheHash, Beside
<1>2. CASE Begin \/ Pipeline
  BY <1>2, PipelineHash
<1>3. ASSUME NEW x \in Entities, RetryQuarantined(x) PROVE HashOK'
  <2>1. WorkOK /\ "retry" \in Processes
    BY TypeParts, Constants DEF Typed
  <2>2. UNCHANGED <<tags, missed>> /\ at["retry"] # "commit"
    BY <1>3 DEF RetryQuarantined, derived
  <2>3. \A p \in Processes \ {"retry"} : at'[p] = at[p] /\ item'[p] = item[p]
    BY <1>3, <2>1 DEF RetryQuarantined, WorkOK
  <2> QED BY <2>1, <2>2, <2>3, ClearsHash DEF Clears
<1>4. CASE Retry
  BY <1>3, <1>4, TaggingHash, Constants DEF Retry
<1>5. CASE \E w \in Workers : Refresh(w)
  BY <1>5, TaggingHash, RefreshHash, Constants DEF Refresh
<1>6. CASE Environment
  BY <1>1, <1>6, TaggingHash DEF Environment, EditBiography, SourceChanges, UploadEvent,
               derived, work
<1>7. CASE UNCHANGED vars
  BY <1>1, <1>7 DEF vars, derived, work
<1> QED BY <1>2, <1>4, <1>5, <1>6, <1>7 DEF Next

-----------------------------------------------------------------------------
(* The steps of others.                                                    *)

Still ==
    /\ at'["pipeline"] = at["pipeline"] /\ item'["pipeline"] = item["pipeline"]
    /\ todo'["pipeline"] = todo["pipeline"] /\ read'["pipeline"] = read["pipeline"]
    /\ batch'["pipeline"] = batch["pipeline"]

\* What others do to x is seen in touched, and they never take anything away
\* that the validation counts.
Aside ==
    /\ UNCHANGED <<stage, scope, pending>> /\ Still
    /\ touched \subseteq touched'
    /\ \A x \in Entities \ touched' :
           /\ row'[x] = row[x] /\ tags'[x].label = tags[x].label
           /\ attempts[x] > 0 => attempts'[x] > 0
    /\ \A x \in Entities : emb[x].of # None => emb'[x].of # None
    /\ \A e \in Events : /\ row[e].text # 0 => row'[e].text # 0
                         /\ source[e] # 0 => source'[e] # 0

LEMMA RestStill ==
    ASSUME WorkOK, NEW p \in Processes \ {"pipeline"}, Rest(p)
    PROVE  Still
  BY Constants DEF WorkOK, Rest, Still

LEMMA TaggingAside ==
    ASSUME Typed, NEW p \in Processes \ {"pipeline"}, Tagging(p) \/ Quarantine(p) \/ Fail(p)
    PROVE  Aside
<1> USE Constants
<1>1. WorkOK /\ Held /\ DerivedOK /\ CountsOK
  BY TypeParts DEF Typed
<1>2. CASE Extract(p)
  <2>1. Still
    BY <1>1, <1>2 DEF Extract, WorkOK, Still
  <2> QED BY <1>2, <2>1 DEF Extract, Aside, catalogue, derived, plan
<1>3. CASE InsertTags(p)
  <2> DEFINE x == item[p]
  <2>1. x \in Entities /\ touched' = touched \cup {x}
    BY <1>1, <1>3 DEF InsertTags, ReplaceTags, Held, Touch
  <2>2. \A y \in Entities \ {x} : tags'[y] = tags[y]
    BY <1>1, <1>3 DEF InsertTags, ReplaceTags, DerivedOK
  <2>3. Still
    BY <1>1, <1>3 DEF InsertTags, ReplaceTags, WorkOK, Still
  <2>4. UNCHANGED <<catalogue, emb, attempts, plan>>
    BY <1>3 DEF InsertTags, ReplaceTags
  <2> QED BY <2>1, <2>2, <2>3, <2>4 DEF Aside, catalogue, plan
<1>4. CASE Resolve(p)
  <2> DEFINE x == item[p]
  <2>1. x \in Entities /\ touched' = touched \cup {x}
    BY <1>1, <1>4 DEF Resolve, Held, Touch
  <2>2. \A y \in Entities \ {x} : attempts'[y] = attempts[y]
    BY <1>1, <1>4 DEF Resolve, DerivedOK
  <2>3. Still
    BY <1>1, <1>4, RestStill DEF Resolve, Continue
  <2>4. UNCHANGED <<catalogue, tags, emb, plan>>
    BY <1>4 DEF Resolve
  <2> QED BY <2>1, <2>2, <2>3, <2>4 DEF Aside, catalogue, plan
<1>5. CASE Quarantine(p)
  <2>1. \A y \in Entities : attempts[y] > 0 => attempts'[y] > 0
    BY <1>1, <1>5 DEF Quarantine, Held, DerivedOK
  <2>2. Still
    BY <1>1, <1>5, RestStill DEF Quarantine, Continue
  <2>3. UNCHANGED <<catalogue, tags, emb, plan, touched>>
    BY <1>5 DEF Quarantine
  <2> QED BY <2>1, <2>2, <2>3 DEF Aside, catalogue, plan
<1>6. CASE Collide(p) \/ Fail(p)
  <2>1. Still
    BY <1>1, <1>6, RestStill DEF Collide, Fail, Abandon
  <2>2. UNCHANGED <<row, source, pending, derived, plan, touched>>
    BY <1>6 DEF Collide, Fail, Abandon
  <2> QED BY <2>1, <2>2 DEF Aside, derived, plan
<1> QED BY <1>2, <1>3, <1>4, <1>5, <1>6 DEF Tagging

LEMMA RefreshAside ==
    ASSUME Typed, NEW w \in Workers,
           \/ \E a \in Artists : TakeJob(w, a)
           \/ RefreshProfile(w) \/ RefreshEmbedding(w)
    PROVE  Aside
<1> USE Constants
<1>1. WorkOK /\ Held /\ DerivedOK /\ CountsOK
  BY TypeParts DEF Typed
<1>2. ASSUME NEW a \in Artists, TakeJob(w, a) PROVE Aside
  <2>1. Still
    BY <1>1, <1>2 DEF TakeJob, WorkOK, Still, work
  <2> QED BY <1>2, <2>1 DEF TakeJob, Aside, catalogue, derived, plan
<1>3. CASE RefreshProfile(w)
  <2>1. Still
    <3>1. CASE Rest(w)
      BY <1>1, <3>1, RestStill
    <3>2. CASE ~Rest(w)
      BY <1>1, <1>3, <3>2 DEF RefreshProfile, WorkOK, Still
    <3> QED BY <3>1, <3>2
  <2> QED BY <1>3, <2>1 DEF RefreshProfile, Aside, catalogue, derived, plan
<1>4. CASE RefreshEmbedding(w)
  <2>1. Still
    BY <1>1, <1>4, RestStill DEF RefreshEmbedding
  <2>2. \A x \in Entities : emb[x].of # None => emb'[x].of # None
    BY <1>1, <1>4, EmbeddedType DEF RefreshEmbedding
  <2>3. touched \subseteq touched'
    BY <1>4 DEF RefreshEmbedding, Touch
  <2> QED BY <1>4, <2>1, <2>2, <2>3 DEF RefreshEmbedding, Aside, catalogue, plan
<1> QED BY <1>2, <1>3, <1>4

LEMMA EnvironmentAside ==
    ASSUME Typed,
           \/ \E a \in Artists : EditBiography(a)
           \/ \E x \in Entities : SourceChanges(x) \/ RetryQuarantined(x)
           \/ \E e \in Events : UploadEvent(e)
    PROVE  Aside
<1> USE Constants
<1>1. WorkOK /\ CatalogueOK /\ CountsOK
  BY TypeParts DEF Typed
<1>2. ASSUME NEW a \in Artists, EditBiography(a) PROVE Aside
  <2>1. touched' = touched \cup {a} /\ UNCHANGED <<source, pending, derived, plan, work>>
    BY <1>2 DEF EditBiography
  <2>2. \A x \in Entities \ {a} : row'[x] = row[x]
    BY <1>1, <1>2 DEF EditBiography, CatalogueOK
  <2> QED BY <2>1, <2>2 DEF Aside, Still, derived, plan, work
<1>3. ASSUME NEW x \in Entities, SourceChanges(x) PROVE Aside
  <2>1. UNCHANGED <<row, pending, derived, plan, work, touched>>
    BY <1>3 DEF SourceChanges
  <2>2. \A e \in Events : source[e] # 0 => source'[e] # 0
    <3>1. \E t \in Texts \cup {NextText} :
             /\ source' = [source EXCEPT ![x] = t]
             /\ x \in Events => t = NextText
      BY <1>3 DEF SourceChanges
    <3>2. NextText # 0
      BY <1>1, <1>3, NextTextType DEF SourceChanges, Incident
    <3> QED BY <1>1, <3>1, <3>2 DEF CatalogueOK
  <2> QED BY <2>1, <2>2 DEF Aside, Still, derived, plan, work
<1>4. ASSUME NEW x \in Entities, RetryQuarantined(x) PROVE Aside
  <2>1. Still
    BY <1>1, <1>4 DEF RetryQuarantined, WorkOK, Still
  <2> QED BY <1>4, <2>1 DEF RetryQuarantined, Aside, catalogue, derived, plan
<1>5. ASSUME NEW e \in Events, UploadEvent(e) PROVE Aside
  <2>1. touched' = touched \cup {e} /\ UNCHANGED <<source, pending, derived, plan, work>>
    BY <1>5 DEF UploadEvent
  <2>2. row' = [row EXCEPT ![e] = [row[e] EXCEPT !.text = NextText, !.norm = NextText]]
    BY <1>5 DEF UploadEvent
  <2>3. NextText # 0
    BY <1>1, <1>5, NextTextType DEF UploadEvent, Incident
  <2>4. /\ \A x \in Entities \ {e} : row'[x] = row[x]
        /\ row'[e].text = NextText
    <3>1. row[e] \in Rows
      BY <1>1 DEF CatalogueOK
    <3> QED BY <1>1, <2>2, <3>1 DEF CatalogueOK, Rows
  <2> QED BY <2>1, <2>3, <2>4 DEF Aside, Still, derived, plan, work
<1> QED BY <1>2, <1>3, <1>4, <1>5

LEMMA StutterAside == UNCHANGED vars => Aside
  BY DEF vars, Aside, Still, catalogue, derived, plan, work

\* Steps that are not the pipeline's.
LEMMA OthersAside ==
    ASSUME Typed, Retry \/ (\E w \in Workers : Refresh(w)) \/ Environment \/ UNCHANGED vars
    PROVE  Aside \/ Quarantine("pipeline") \/ Fail("pipeline")
<1> USE Constants
<1>1. CASE Retry \/ \E w \in Workers : Refresh(w)
  BY <1>1, TaggingAside, RefreshAside, EnvironmentAside DEF Retry, Refresh
<1>2. CASE Environment
  BY <1>2, TaggingAside, EnvironmentAside DEF Environment
<1> QED BY <1>1, <1>2, StutterAside

-----------------------------------------------------------------------------
(* No entity is lost from sight.                                           *)

LEMMA Parts ==
    /\ Part("event") = scope \cap Events /\ Part("artist") = scope \cap Artists
    /\ Part("event") \cap Part("artist") = {}
    /\ PlanOK => scope = Part("event") \cup Part("artist")
  BY Constants DEF Part, PlanOK, Entities

LEMMA FollowedAside == Typed /\ Followed /\ Aside => Followed'
<1> SUFFICES ASSUME Typed, Followed, Aside PROVE Followed'
  OBVIOUS
<1>1. PlanOK
  BY TypeParts DEF Typed
<1>2. /\ UNCHANGED <<stage, scope>> /\ Still /\ touched \subseteq touched'
      /\ (Part(stage))' = Part(stage) /\ (Part("event"))' = Part("event")
  BY DEF Aside, Part
<1>3. \A x \in scope \ touched' : (Tagged(x) => Tagged(x)') /\ Shown(x)' = Shown(x)
  BY <1>1 DEF Aside, PlanOK, Tagged, Shown
<1>4. \A x \in scope \ touched' : Covered(x) => Covered(x)'
  <2> SUFFICES ASSUME NEW x \in scope \ touched', Covered(x) PROVE Covered(x)'
    OBVIOUS
  <2>1. tags'[x].label = tags[x].label
    BY <1>1 DEF Aside, PlanOK
  <2> QED BY <1>2, <1>3, <2>1 DEF Covered, Still
<1>5. Part(stage) \subseteq scope /\ Part("event") \subseteq scope
  BY DEF Part
<1> HIDE DEF Part
<1> QED BY <1>2, <1>3, <1>4, <1>5 DEF Followed, Still

LEMMA ImportFollowed ==
    ASSUME Typed, Followed,
           \/ Begin \/ UpdateBiography \/ CommitImport \/ ReadTexts \/ CommitNormalised
           \/ \E a \in Artists : SelectStatus(a) \/ WriteNormalised(a)
    PROVE  Followed'
<1>1. \/ stage' \in {"import", "normalise"}
      \/ stage' = "event" /\ at'["pipeline"] = "ready"
  <2>1. WorkOK
    BY TypeParts DEF Typed
  <2>2. CASE CommitNormalised
    BY <2>1, <2>2, Constants DEF CommitNormalised, Enter, WorkOK
  <2>3. CASE ~CommitNormalised
    BY <2>3 DEF Begin, UpdateBiography, CommitImport, ReadTexts, SelectStatus, WriteNormalised,
                Enter, Done, Looping, Starting, plan
  <2> QED BY <2>2, <2>3
<1> QED BY <1>1 DEF Followed

LEMMA FetchFollowed ==
    ASSUME Typed, Followed, NEW s \in {"event", "artist"}, FetchTexts(s, Part(s))
    PROVE  Followed'
<1> USE Constants
<1>1. WorkOK /\ PlanOK /\ CatalogueOK
  BY TypeParts DEF Typed
<1>2. /\ stage = s /\ at' = [at EXCEPT !["pipeline"] = "loop"]
      /\ todo' = [todo EXCEPT !["pipeline"] = {x \in Part(s) : Shown(x) # 0}]
      /\ read' = [read EXCEPT !["pipeline"] =
                     [x \in Entities |-> IF x \in Part(s) THEN Shown(x) ELSE 0]]
      /\ touched' = touched \ Part(s)
      /\ UNCHANGED <<row, tags, attempts, stage, scope, item>>
  BY DEF FetchTexts, Starting, Loop, catalogue, derived, plan
<1>3. Part(s) \subseteq Entities /\ (Part(s))' = Part(s) /\ (Part("event"))' = Part("event")
  BY <1>1, <1>2 DEF Part, PlanOK
<1>4. \A x : Shown(x)' = Shown(x) /\ Tagged(x)' = Tagged(x)
  BY <1>2 DEF Shown, Tagged
<1>5. /\ at'["pipeline"] = "loop"
      /\ todo'["pipeline"] = {x \in Part(s) : Shown(x) # 0}
      /\ \A x \in Part(s) : read'["pipeline"][x] = Shown(x)
  BY <1>1, <1>2, <1>3 DEF WorkOK
<1>6. \A x \in Part(s) : Covered(x)'
  BY <1>4, <1>5 DEF Covered, Tagged
<1>7. s = "artist" => \A x \in Part("event") \ touched' : Tagged(x)'
  BY <1>2, <1>4, Parts DEF Followed
<1> HIDE DEF Part
<1>8. stage' = s
  BY <1>2
<1> QED BY <1>3, <1>5, <1>6, <1>7, <1>8 DEF Followed

LEMMA CheckFollowed ==
    ASSUME Typed, Followed, NEW x \in Entities, CheckExtraction(x)
    PROVE  Followed'
<1> USE Constants
<1>1. WorkOK /\ PlanOK
  BY TypeParts DEF Typed
<1>2. /\ stage \in {"event", "artist"} /\ at["pipeline"] = "loop" /\ x \in todo["pipeline"]
      /\ todo' = [todo EXCEPT !["pipeline"] = todo["pipeline"] \ {x}]
      /\ UNCHANGED <<row, tags, attempts, stage, scope, read, touched>>
  BY DEF CheckExtraction, Looping, catalogue, derived, plan
<1>3. todo'["pipeline"] = todo["pipeline"] \ {x} /\ read'["pipeline"] = read["pipeline"]
  BY <1>1, <1>2 DEF WorkOK
<1>4. /\ todo["pipeline"] \subseteq Part(stage)
      /\ \A y \in Part(stage) \ touched : Covered(y)
  BY <1>2 DEF Followed
<1>5. \A y : Shown(y)' = Shown(y) /\ Tagged(y)' = Tagged(y)
  BY <1>2 DEF Shown, Tagged
<1>6. (Part(stage))' = Part(stage) /\ (Part("event"))' = Part("event")
  BY <1>2 DEF Part
<1>7. \/ at'["pipeline"] = "loop" /\ HasCurrentExtraction(x, read["pipeline"][x])
      \/ at'["pipeline"] = "extract" /\ item'["pipeline"] = x
  BY <1>1, <1>2 DEF CheckExtraction, WorkOK
<1>8. \A y \in Part(stage) \ touched : Covered(y)'
  <2> SUFFICES ASSUME NEW y \in Part(stage) \ touched PROVE Covered(y)'
    OBVIOUS
  <2>1. Covered(y)
    BY <1>4
  <2>2. y # x => (Tagged(y) \/ y \in todo'["pipeline"])
    BY <1>2, <1>3, <2>1 DEF Covered
  <2>3. y = x => Tagged(y) \/ (at'["pipeline"] = "extract" /\ item'["pipeline"] = y)
    BY <1>7, <2>1 DEF Covered, Tagged, HasCurrentExtraction
  <2>4. read'["pipeline"][y] = Shown(y)'
    BY <1>3, <1>5, <2>1 DEF Covered
  <2>5. at'["pipeline"] # "resolve"
    BY <1>7
  <2> QED BY <1>5, <2>2, <2>3, <2>4, <2>5 DEF Covered
<1>9. stage' = "artist" => \A y \in Part("event") \ touched : Tagged(y)'
  BY <1>2, <1>5 DEF Followed
<1>10. stage' = stage /\ touched' = touched
  BY <1>2
<1>11. \/ at'["pipeline"] = "loop"
       \/ at'["pipeline"] = "extract" /\ item'["pipeline"] \in Part(stage)
  BY <1>2, <1>4, <1>7
<1>12. todo'["pipeline"] \subseteq Part(stage)
  BY <1>3, <1>4
<1> HIDE DEF Part
<1> QED BY <1>2, <1>6, <1>8, <1>9, <1>10, <1>11, <1>12 DEF Followed

LEMMA TaggingFollowed ==
    ASSUME Typed, Followed,
           Tagging("pipeline") \/ Quarantine("pipeline") \/ Fail("pipeline")
    PROVE  Followed'
<1> USE Constants
<1>1. WorkOK /\ PlanOK /\ DerivedOK /\ Held /\ Place
  BY TypeParts DEF Typed
<1>2. CASE Collide("pipeline") \/ Fail("pipeline")
  BY <1>2 DEF Collide, Fail, Abandon, Followed
<1>3. CASE Extract("pipeline") \/ InsertTags("pipeline") \/ Resolve("pipeline")
           \/ Quarantine("pipeline")
  <2>1. /\ at["pipeline"] \in {"extract", "commit", "resolve"} /\ stage \in {"event", "artist"}
        /\ UNCHANGED <<row, stage, scope, touched>>
    BY <1>1, <1>3 DEF Extract, InsertTags, ReplaceTags, Resolve, Quarantine, Touch, Place,
                      catalogue, plan
  <2>0. PICK x \in Entities : x = item["pipeline"]
    BY <1>1, <2>1 DEF Held
  <2>2. /\ todo["pipeline"] \subseteq Part(stage) /\ x \in Part(stage) /\ x \in Entities
        /\ \A y \in Part(stage) \ touched : Covered(y)
        /\ stage = "artist" => \A y \in Part("event") \ touched : Tagged(y)
    BY <2>0, <1>1, <2>1 DEF Followed, Held
  <2>3. /\ (Part(stage))' = Part(stage) /\ (Part("event"))' = Part("event")
        /\ Part(stage) \subseteq Entities /\ Part("event") \subseteq Entities
        /\ stage = "artist" => x \notin Part("event")
    BY <2>0, <1>1, <2>1, <2>2, Parts DEF Part, PlanOK
  <2>4. todo'["pipeline"] = todo["pipeline"] /\ read'["pipeline"] = read["pipeline"]
    BY <2>0, <1>3 DEF Extract, InsertTags, ReplaceTags, Resolve, Quarantine, Continue
  <2>5. \A y : Shown(y)' = Shown(y)
    BY <2>1 DEF Shown
  <2>6. \A y \in Entities \ {x} : tags'[y] = tags[y] /\ attempts'[y] = attempts[y]
    BY <2>0, <1>1, <1>3, <2>2 DEF Extract, InsertTags, ReplaceTags, Resolve, Quarantine,
                                  DerivedOK, derived
  <2>7. \A y \in Entities \ {x} : Tagged(y)' = Tagged(y)
    BY <2>5, <2>6 DEF Tagged
  <2>8. \/ at'["pipeline"] \in {"commit", "resolve"} /\ item'["pipeline"] = x
        \/ at'["pipeline"] = "loop"
    BY <2>0, <1>1, <1>3 DEF Extract, InsertTags, ReplaceTags, Resolve, Quarantine, Continue,
                            After, WorkOK
  <2>9. \A y \in Part(stage) \ (touched \cup {x}) : Covered(y)'
    <3> SUFFICES ASSUME NEW y \in Part(stage) \ (touched \cup {x}) PROVE Covered(y)'
      OBVIOUS
    <3>1. Covered(y) /\ y \in Entities
      BY <2>2, <2>3
    <3>2. Tagged(y) \/ y \in todo["pipeline"]
      BY <2>0, <3>1 DEF Covered
    <3>3. read'["pipeline"][y] = Shown(y)'
      BY <2>4, <2>5, <3>1 DEF Covered
    <3> QED BY <2>4, <2>7, <2>8, <3>1, <3>2, <3>3 DEF Covered
  <2>10. x \notin touched => Covered(x)'
    <3> SUFFICES ASSUME x \notin touched PROVE Covered(x)'
      OBVIOUS
    <3>1. Covered(x)
      BY <2>0, <2>2
    <3>2. read'["pipeline"][x] = Shown(x)' /\ read["pipeline"][x] = Shown(x)
      BY <2>4, <2>5, <3>1 DEF Covered
    <3>3. CASE Extract("pipeline")
      <4>1. at'["pipeline"] = "commit" /\ item'["pipeline"] = x
        BY <2>0, <1>1, <3>3 DEF Extract, WorkOK
      <4> QED BY <2>0, <3>2, <4>1 DEF Covered
    <3>4. CASE InsertTags("pipeline")
      <4>1. at'["pipeline"] = "resolve" /\ item'["pipeline"] = x
        BY <2>0, <1>1, <3>4 DEF InsertTags, ReplaceTags, After, WorkOK
      <4>2. tags'[x].label = read["pipeline"][x]
        BY <2>0, <1>1, <2>2, <3>4 DEF InsertTags, ReplaceTags, DerivedOK
      <4>3. tags'[x].label = Shown(x)'
        BY <2>0, <3>2, <4>2, <2>5
      <4> QED BY <2>0, <3>2, <4>1, <4>3 DEF Covered, Tagged
    <3>5. CASE Resolve("pipeline")
      <4>1. at'["pipeline"] = "loop" /\ UNCHANGED tags /\ at["pipeline"] = "resolve"
        BY <2>0, <1>1, <3>5 DEF Resolve, Continue, WorkOK
      <4>2. tags'[x].label = Shown(x)'
        BY <2>0, <2>5, <3>1, <4>1 DEF Covered
      <4> QED BY <2>0, <3>2, <4>1, <4>2 DEF Covered, Tagged
    <3>6. CASE Quarantine("pipeline")
      <4>1. at'["pipeline"] = "loop" /\ attempts'[x] > 0
        BY <2>0, <1>1, <2>2, <3>6 DEF Quarantine, Continue, WorkOK, DerivedOK
      <4> QED BY <2>0, <3>2, <4>1 DEF Covered, Tagged
    <3> QED BY <2>0, <1>3, <3>3, <3>4, <3>5, <3>6
  <2>11. \A y \in Part(stage) \ touched : Covered(y)'
    BY <2>9, <2>10
  <2>12. stage = "artist" => \A y \in Part("event") \ touched : Tagged(y)'
    BY <2>2, <2>3, <2>7
  <2>13. at'["pipeline"] \in {"commit", "resolve"} => item'["pipeline"] \in Part(stage)
    BY <2>2, <2>8
  <2> HIDE DEF Part
  <2> QED BY <2>1, <2>2, <2>3, <2>4, <2>8, <2>11, <2>12, <2>13 DEF Followed
<1> QED BY <1>2, <1>3 DEF Tagging

LEMMA FinishFollowed == Typed /\ Followed /\ FinishTags => Followed'
<1> SUFFICES ASSUME Typed, Followed, FinishTags PROVE Followed'
  OBVIOUS
<1> USE Constants
<1>1. WorkOK /\ PlanOK
  BY TypeParts DEF Typed
<1>2. /\ at["pipeline"] = "loop" /\ todo["pipeline"] = {}
      /\ at'["pipeline"] = "ready"
      /\ \/ stage = "event" /\ stage' = "artist"
         \/ stage = "artist" /\ stage' = "embed"
      /\ UNCHANGED <<row, tags, attempts, scope, touched>>
  BY <1>1 DEF FinishTags, Done, Looping, Enter, WorkOK, catalogue, derived
<1>3. \A y : Tagged(y)' = Tagged(y)
  BY <1>2 DEF Shown, Tagged
<1>4. \A y \in Part(stage) \ touched : Tagged(y)
  BY <1>2 DEF Followed, Covered
<1>5. (Part("event"))' = Part("event")
  BY <1>2 DEF Part
<1>6. CASE stage = "event"
  BY <1>2, <1>3, <1>4, <1>5, <1>6 DEF Followed
<1>7. CASE stage = "artist"
  <2>1. \A y \in scope \ touched : Tagged(y)
    BY <1>1, <1>4, <1>7, Parts DEF Followed
  <2> QED BY <1>2, <1>3, <1>7, <2>1 DEF Followed
<1> QED BY <1>2, <1>6, <1>7

LEMMA EmbedFollowed ==
    ASSUME Typed, Followed,
           \/ \E x \in Entities : ReadProfile(x)
           \/ ListEntities \/ FlushBatch \/ FinishEmbeddings \/ BackfillVectors \/ Validate
    PROVE  Followed'
<1>1. CASE Validate
  BY <1>1 DEF Validate, Followed
<1>2. CASE ~Validate
  <2>1. /\ stage \in {"embed", "vectors"} /\ stage' \in {"embed", "vectors", "validate"}
        /\ UNCHANGED <<row, tags, attempts, scope, touched>>
    BY <1>2 DEF ReadProfile, ListEntities, FlushBatch, FinishEmbeddings, BackfillVectors, Enter,
       Done, Looping, Starting, catalogue, derived, plan
  <2>2. \A y : Tagged(y)' = Tagged(y)
    BY <2>1 DEF Shown, Tagged
  <2> QED BY <2>1, <2>2 DEF Followed
<1> QED BY <1>1, <1>2

LEMMA FollowedStep == Typed /\ Followed /\ [Next]_vars => Followed'
<1> SUFFICES ASSUME Typed, Followed, [Next]_vars PROVE Followed'
  OBVIOUS
<1>1. CASE Pipeline
  <2>1. CASE FetchTexts("event", scope \cap Events) \/ FetchTexts("artist", scope \cap Artists)
    BY <2>1, FetchFollowed, Parts
  <2> QED BY <1>1, <2>1, ImportFollowed, CheckFollowed, TaggingFollowed, FinishFollowed,
             EmbedFollowed DEF Pipeline
<1>2. CASE Retry \/ (\E w \in Workers : Refresh(w)) \/ Environment \/ UNCHANGED vars
  BY <1>2, OthersAside, FollowedAside, TaggingFollowed
<1>3. CASE Begin
  BY <1>3, ImportFollowed
<1> QED BY <1>1, <1>2, <1>3 DEF Next

-----------------------------------------------------------------------------
(* The validation finds what it counts.                                    *)

LEMMA FindableAside == Typed /\ Findable /\ Aside => Findable'
<1> SUFFICES ASSUME Typed, Findable, Aside PROVE Findable'
  OBVIOUS
<1>1. scope \subseteq Entities
  BY TypeParts DEF Typed, PlanOK
<1> QED BY <1>1 DEF Findable, Aside, Still

\* The parts of Findable that a step disturbs.
Imported ==
    /\ \A e \in Events \cap DOMAIN pending : pending[e].text # 0
    /\ stage # "none" =>
           /\ scope # {}
           /\ \A e \in scope \cap Events : row[e].text # 0 \/ e \in DOMAIN pending

Embeddings ==
    /\ stage = "embed" /\ at["pipeline"] = "loop" =>
           \A x \in scope : \/ x \in todo["pipeline"]
                            \/ batch["pipeline"][x] # None
                            \/ emb[x].of # None
    /\ stage \in {"vectors", "validate"} => \A x \in scope : emb[x].of # None

LEMMA FindableParts == Findable <=> (\A e \in Events : source[e] # 0) /\ Imported /\ Embeddings
  BY DEF Findable, Imported, Embeddings

LEMMA BeginFindable == Typed /\ Findable /\ Begin => Findable'
<1> SUFFICES ASSUME Typed, Findable, Begin PROVE Findable'
  OBVIOUS
<1> USE Constants
<1>1. CatalogueOK
  BY TypeParts DEF Typed
<1>2. PICK new \in SUBSET Events, stored \in SUBSET {e \in Events : row[e].text # 0} :
         LET events == IF new # {} THEN new ELSE stored
         IN  /\ events # {}
             /\ scope' = events \cup UNION {Lineup[e] : e \in events}
             /\ pending' = [x \in new \cup UNION {Lineup[e] : e \in new} |->
                               IF x \in new THEN Upserted(x) ELSE row[x]]
  BY DEF Begin
<1>3. \A S \in SUBSET Events : (UNION {Lineup[e] : e \in S}) \cap Events = {}
  <2>1. \A e \in Events : Lineup[e] \cap Events = {}
    BY EnrichmentAssumption
  <2> TAKE S \in SUBSET Events
  <2>2. ASSUME NEW a \in UNION {Lineup[e] : e \in S} PROVE a \notin Events
    <3>1. PICK e \in S : a \in Lineup[e]
      BY <2>2
    <3> QED BY <2>1, <3>1
  <2> QED BY <2>2
<1>4. \A e \in Events : Upserted(e).text = source[e] /\ source[e] # 0
  BY <1>1 DEF Upserted, CatalogueOK, Rows, Findable
<1>5. source' = source /\ row' = row /\ stage' \in {"import", "normalise"}
  BY DEF Begin, Enter
<1>6. \A e \in Events \cap DOMAIN pending' : pending'[e].text # 0
  <2>1. DOMAIN pending' \cap Events \subseteq new
    BY <1>2, <1>3
  <2>2. \A e \in new : pending'[e] = Upserted(e)
    BY <1>2
  <2> QED BY <1>4, <2>1, <2>2
<1>7. scope' # {} /\ \A e \in scope' \cap Events : row'[e].text # 0 \/ e \in DOMAIN pending'
  <2> DEFINE events == IF new # {} THEN new ELSE stored
             artists(S) == UNION {Lineup[e] : e \in S}
  <2>1. events # {} /\ scope' = events \cup artists(events)
    BY <1>2
  <2>2. scope' \cap Events \subseteq events
    BY <1>3, <2>1
  <2>3. new \subseteq DOMAIN pending'
    BY <1>2
  <2> HIDE DEF artists
  <2>4. scope' # {}
    BY <2>1
  <2> QED BY <1>5, <2>2, <2>3, <2>4
<1> QED BY <1>4, <1>5, <1>6, <1>7 DEF Findable

LEMMA WriteFindable ==
    ASSUME Imported, NEW a \in Artists, NEW r, Write(a, r), UNCHANGED <<row, scope, stage>>
    PROVE  Imported'
  BY Constants DEF Imported, Write

LEMMA CommitFindable ==
    ASSUME CatalogueOK, PlanOK, Imported, Committed, UNCHANGED scope, stage # "none"
    PROVE  Imported'
<1>1. \A e \in scope \cap Events : row'[e].text # 0
  BY Constants DEF CatalogueOK, PlanOK, Imported, Committed
<1>2. DOMAIN pending' = {}
  BY DEF Committed, Nothing
<1> QED BY <1>1, <1>2 DEF Imported

LEMMA ImportFindable ==
    ASSUME Typed, Findable,
           \/ UpdateBiography \/ CommitImport \/ ReadTexts \/ CommitNormalised
           \/ \E a \in Artists : SelectStatus(a) \/ WriteNormalised(a)
    PROVE  Findable'
<1>1. CatalogueOK /\ PlanOK /\ Place /\ Imported
  BY TypeParts, FindableParts DEF Typed
<1>2. stage' \in {"import", "normalise", "event"} /\ stage # "none" /\ UNCHANGED <<source, scope>>
  BY DEF UpdateBiography, CommitImport, ReadTexts, CommitNormalised, SelectStatus, WriteNormalised,
         Looping, Starting, Done, Enter, catalogue, plan
<1>3. Imported'
  <2>1. CASE CommitImport \/ CommitNormalised
    BY <1>1, <1>2, <2>1, CommitFindable DEF CommitImport, CommitNormalised
  <2>2. ASSUME NEW a \in Artists, WriteNormalised(a) PROVE Imported'
    BY <1>1, <1>2, <2>2, WriteFindable DEF WriteNormalised, plan
  <2>3. CASE UpdateBiography
    <3>1. item["pipeline"] \in Artists /\ UNCHANGED <<row, scope, stage>>
      BY <1>1, <2>3 DEF Place, UpdateBiography, plan
    <3>2. UNCHANGED pending \/ \E r : Write(item["pipeline"], r)
      BY <2>3 DEF UpdateBiography
    <3>3. CASE UNCHANGED pending
      BY <1>1, <3>1, <3>3 DEF Imported
    <3> QED BY <1>1, <3>1, <3>2, <3>3, WriteFindable
  <2>4. ASSUME ReadTexts \/ \E a \in Artists : SelectStatus(a) PROVE Imported'
    <3>1. UNCHANGED <<row, pending, scope, stage>>
      BY <2>4 DEF ReadTexts, SelectStatus, catalogue, plan
    <3> QED BY <1>1, <3>1 DEF Imported
  <2> QED BY <2>1, <2>2, <2>3, <2>4
<1>4. Embeddings'
  BY <1>2 DEF Embeddings
<1>5. \A e \in Events : source'[e] # 0
  BY <1>2 DEF Findable
<1> QED BY <1>3, <1>4, <1>5 DEF Findable, Imported, Embeddings

LEMMA TagsFindable ==
    ASSUME Typed, Findable,
           \/ FetchTexts("event", scope \cap Events) \/ FetchTexts("artist", scope \cap Artists)
           \/ \E x \in Entities : CheckExtraction(x)
           \/ Tagging("pipeline") \/ Quarantine("pipeline") \/ Fail("pipeline") \/ FinishTags
    PROVE  Findable'
<1>1. UNCHANGED <<row, source>>
  BY DEF FetchTexts, CheckExtraction, Tagging, Extract, InsertTags, ReplaceTags, Collide,
         Resolve, Quarantine,
         Fail, FinishTags, catalogue
<1>2. CASE Collide("pipeline") \/ Fail("pipeline")
  <2>1. stage' = "none" /\ DOMAIN pending' = {}
    BY <1>2 DEF Collide, Fail, Abandon, Nothing
  <2> QED BY <1>1, <2>1 DEF Findable
<1>3. CASE ~(Collide("pipeline") \/ Fail("pipeline"))
  <2>1. Place /\ WorkOK
    BY TypeParts DEF Typed
  <2>2. /\ UNCHANGED <<pending, scope>> /\ stage # "none"
        /\ stage' \in {"event", "artist"} \/ (stage' = "embed" /\ at'["pipeline"] = "ready")
    <3>1. CASE FinishTags
      BY <2>1, <3>1, Constants DEF FinishTags, Done, Looping, Enter, catalogue, WorkOK
    <3>2. CASE ~FinishTags
      BY <1>3, <2>1, <3>2 DEF FetchTexts, CheckExtraction, Tagging, Extract, InsertTags,
                              ReplaceTags, Resolve,
         Quarantine, Starting, Looping, Place, catalogue, plan
    <3> QED BY <3>1, <3>2
  <2> QED BY <1>1, <2>2 DEF Findable
<1> QED BY <1>2, <1>3

LEMMA EmbedFindable ==
    ASSUME Typed, Findable,
           \/ \E x \in Entities : ReadProfile(x)
           \/ ListEntities \/ FlushBatch \/ FinishEmbeddings \/ BackfillVectors \/ Validate
    PROVE  Findable'
<1> USE Constants
<1>1. CatalogueOK /\ DerivedOK /\ PlanOK /\ WorkOK
  BY TypeParts DEF Typed
<1>2. UNCHANGED <<row, source, pending>>
  BY DEF ReadProfile, ListEntities, FlushBatch, FinishEmbeddings, BackfillVectors, Validate,
         catalogue
<1>3. CASE Validate
  BY <1>2, <1>3 DEF Validate, Findable
<1>4. CASE ~Validate
  <2>1. scope' = scope /\ stage \in {"embed", "vectors"}
    BY <1>4 DEF ReadProfile, ListEntities, FlushBatch, FinishEmbeddings, BackfillVectors,
                Done, Looping, Starting, plan
  <2>2. Imported'
    BY <1>2, <2>1 DEF Findable, Imported
  <2>3. Embeddings'
    <3>1. ASSUME NEW x \in Entities, ReadProfile(x) PROVE Embeddings'
      <4>1. /\ stage = "embed" /\ at["pipeline"] = "loop" /\ UNCHANGED <<stage, scope, emb>>
            /\ todo' = [todo EXCEPT !["pipeline"] = todo["pipeline"] \ {x}]
        BY <3>1 DEF ReadProfile, Looping, plan, derived
      <4>2. \/ emb[x].of = Profile(x) /\ batch' = batch
            \/ batch' = [batch EXCEPT !["pipeline"][x] = Profile(x)]
        BY <3>1 DEF ReadProfile, HasCurrentEmbedding
      <4>3. Profile(x) # None
        BY <1>1, ProfileType
      <4>4. \A y \in scope : \/ y \in todo["pipeline"]
                             \/ batch["pipeline"][y] # None
                             \/ emb[y].of # None
        BY <4>1 DEF Findable
      <4>5. todo'["pipeline"] = todo["pipeline"] \ {x}
        BY <1>1, <4>1 DEF WorkOK
      <4>6. /\ \A y \in Entities \ {x} : batch'["pipeline"][y] = batch["pipeline"][y]
            /\ emb[x].of # None \/ batch'["pipeline"][x] # None
        BY <1>1, <4>2, <4>3 DEF WorkOK
      <4>7. scope \subseteq Entities
        BY <1>1 DEF PlanOK
      <4> QED BY <4>1, <4>4, <4>5, <4>6, <4>7 DEF Embeddings
    <3>2. CASE ListEntities
      <4>1. stage' = "embed" /\ todo'["pipeline"] = scope
        BY <1>1, <3>2 DEF ListEntities, Starting, Loop, plan, WorkOK
      <4> QED BY <2>1, <4>1 DEF Embeddings
    <3>3. CASE FlushBatch
      <4>1. /\ stage = "embed" /\ at["pipeline"] = "loop" /\ Embedded("pipeline")
            /\ UNCHANGED <<stage, scope, todo, at>>
        BY <3>3 DEF FlushBatch, Looping, plan
      <4>2. \A x \in Entities : emb'[x].of = IF batch["pipeline"][x] = None THEN emb[x].of
                                            ELSE batch["pipeline"][x]
        BY <1>1, <4>1, EmbeddedType
      <4>3. scope \subseteq Entities
        BY <1>1 DEF PlanOK
      <4> QED BY <4>1, <4>2, <4>3 DEF Findable, Embeddings
    <3>4. CASE FinishEmbeddings
      <4>1. /\ stage = "embed" /\ at["pipeline"] = "loop" /\ todo["pipeline"] = {}
            /\ Batch("pipeline") = {} /\ stage' = "vectors" /\ UNCHANGED emb
        BY <3>4 DEF FinishEmbeddings, Done, Looping, Enter, derived
      <4>2. \A x \in scope : emb[x].of # None
        BY <1>1, <4>1 DEF Findable, Batch, PlanOK
      <4> QED BY <2>1, <4>1, <4>2 DEF Embeddings
    <3>5. CASE BackfillVectors
      <4>1. stage = "vectors" /\ stage' = "validate"
        BY <3>5 DEF BackfillVectors, Starting, Enter
      <4>2. \A x \in Entities : emb'[x].of = emb[x].of
        <5>1. \A x \in Entities : emb[x] \in [of : Profiles \cup {None}, vec : Profiles \cup {None}]
          BY <1>1 DEF DerivedOK
        <5> QED BY <3>5, <5>1 DEF BackfillVectors
      <4>3. \A x \in scope : emb[x].of # None /\ x \in Entities
        BY <1>1, <4>1 DEF Findable, PlanOK
      <4> QED BY <2>1, <4>1, <4>2, <4>3 DEF Embeddings
    <3> QED BY <1>4, <3>1, <3>2, <3>3, <3>4, <3>5
  <2>4. \A e \in Events : source'[e] # 0
    BY <1>2 DEF Findable
  <2> QED BY <2>2, <2>3, <2>4 DEF Findable, Imported, Embeddings
<1> QED BY <1>3, <1>4

LEMMA FindableStep == Typed /\ Findable /\ [Next]_vars => Findable'
<1> SUFFICES ASSUME Typed, Findable, [Next]_vars PROVE Findable'
  OBVIOUS
<1>1. CASE Pipeline
  BY <1>1, ImportFindable, TagsFindable, EmbedFindable DEF Pipeline
<1>2. CASE Retry \/ (\E w \in Workers : Refresh(w)) \/ Environment \/ UNCHANGED vars
  BY <1>2, OthersAside, FindableAside, TagsFindable
<1>3. CASE Begin
  BY <1>3, BeginFindable
<1> QED BY <1>1, <1>2, <1>3 DEF Next

-----------------------------------------------------------------------------
LEMMA InitEnrichInv == Init => EnrichInv
<1> SUFFICES ASSUME Init PROVE EnrichInv
  OBVIOUS
<1>1. HashOK
  BY Constants DEF Init, HashOK, TagsAreOfTheHash, Beside
<1>2. Followed /\ Findable
  BY Constants DEF Init, Followed, Findable, Nothing
<1> QED BY <1>1, <1>2, InitTyped DEF EnrichInv

LEMMA EnrichStep == EnrichInv /\ [Next]_vars => EnrichInv'
  BY TypedStep, HashStep, FollowedStep, FindableStep DEF EnrichInv

LEMMA EnrichInvariant == Spec => []EnrichInv
  BY InitEnrichInv, EnrichStep, PTL DEF Spec

\* Every variable has its type; the attempts of an entity and the waiting
\* jobs of an artist are no more than there were incidents.
THEOREM EnrichmentTypes == Spec => []TypeOK
<1>1. EnrichInv => TypeOK
  BY DEF EnrichInv, Typed
<1> QED BY <1>1, EnrichInvariant, PTL

\* The stored tags are from the text of the stored hash and from no other,
\* unless the extraction that stored them overlapped another one of the entity,
\* whatever edits, failures, retries and refresh jobs came before, in between
\* and after (replace_artist_tags, replace_event_tags).
THEOREM TrueHash == Spec => []TagsAreOfTheHash
<1>1. EnrichInv => TagsAreOfTheHash
  BY DEF EnrichInv, HashOK
<1> QED BY <1>1, EnrichInvariant, PTL

\* After its tag stages a run leaves every text of its scope tagged or in
\* quarantine, unless another process touched the entity meanwhile, and its
\* validation finds the rows and the embedding it counts.
THEOREM NothingForgotten == Spec => []NothingIsForgotten
<1>1. EnrichInv => NothingIsForgotten
  <2> SUFFICES ASSUME EnrichInv PROVE NothingIsForgotten
    OBVIOUS
  <2>1. Followed /\ Findable /\ Place
    BY DEF EnrichInv, Typed
  <2>2. stage \in {"embed", "vectors", "validate"} => \A x \in scope \ touched : Tagged(x)
    BY <2>1 DEF Followed
  <2>3. stage = "validate" => Valid
    BY <2>1 DEF Findable, Place, Valid
  <2> QED BY <2>2, <2>3 DEF NothingIsForgotten, Tagged
<1> QED BY <1>1, EnrichInvariant, PTL
=============================================================================
