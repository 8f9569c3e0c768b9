------------------------- MODULE Supervisor_proofs -------------------------
(***************************************************************************)
(* What the supervisor keeps, however long its conversations are, whatever *)
(* fails and however the command line tool puts the file back: its types,  *)
(* that no update is passed over before it was handled to its end, and     *)
(* that an approved action is carried out again only after the record of   *)
(* it was lost.                                                            *)
(***************************************************************************)
EXTENDS Supervisor, FiniteSetTheorems, SequenceTheorems, TLAPS

-----------------------------------------------------------------------------
(* The inductive invariant.                                                *)

Entry == [id : Nat, status : Status]
Proposal == [executed : Nat, undone : Nat, aged : BOOLEAN]

Jobs == [run : 0 .. MaxRuns, outcome : Outcomes \cup {"none"}, chats : Seq(STRING),
         next : {"loop", "observe", "poll", "reply", "propose"},
         action : Nat, file : Files]

Handling == {"handle", "propose", "executed", "reply", "done"}
Watching == {"observe", "notify"}
Places == {"loop", "poll"} \cup Handling \cup Watching

\* Where the worker stands: it has a batch whenever it acts for an update.
Standing ==
    /\ pc \in Places /\ job \in Jobs /\ batch \in Seq(1 .. MaxMessages)
    /\ pc \in Handling => batch # <<>>
    /\ pc \in Watching => /\ job.next \in {"poll", "reply", "propose"}
                          /\ job.next # "poll" => batch # <<>>
    /\ pc = "notify" => job.chats # <<>>

Typed ==
    /\ runs \in Seq(Outcomes) /\ Len(runs) <= MaxRuns
    /\ inbox \in Seq(Requests) /\ Len(inbox) <= MaxMessages
    /\ gone \in 0 .. MaxMessages /\ file \in Files /\ db \in BOOLEAN
    /\ Standing
    /\ proposals \in Seq(Proposal) /\ cli \in [1 .. MaxClis -> Clis]
    /\ faults \in 0 .. MaxFaults

\* The batch is in the order of the updates, and up to each of its updates it
\* has every one that is not handled.
Past(u) == u \in handled \/ inbox[u] = "sticker"
Sorted == \A i, j \in DOMAIN batch : i < j => batch[i] < batch[j]
Complete ==
    \A i \in DOMAIN batch :
        /\ batch[i] <= Len(inbox)
        /\ \A u \in 1 .. batch[i] : Past(u) \/ \E j \in 1 .. i : batch[j] = u

Reading ==
    /\ gone <= Len(inbox) /\ handled \subseteq 1 .. Len(inbox)
    /\ \A u \in 1 .. Len(inbox) : u <= gone => Past(u)
    /\ Sorted /\ Complete

\* A file may be put back: its offset passes over no update that is not
\* handled, and it has no two entries for one proposal, and none for a
\* proposal that was never made.
Safe(f, asked, done, made) ==
    /\ f.offset <= Len(asked) + 1
    /\ \A u \in 1 .. Len(asked) : u < f.offset => u \in done \/ asked[u] = "sticker"
    /\ \A k \in 1 .. Len(f.actions) : f.actions[k].id \in 1 .. made
    /\ \A j, k \in 1 .. Len(f.actions) : f.actions[j].id = f.actions[k].id => j = k

\* That holds of the file, and of every copy of it that may be saved.
Kept ==
    /\ Safe(file, inbox, handled, Len(proposals))
    /\ Safe(job.file, inbox, handled, Len(proposals))
    /\ \A p \in 1 .. MaxClis : Safe(cli[p].file, inbox, handled, Len(proposals))

\* The copy that will be saved after an action accounts for every proposal but
\* the one whose action it is.
Counted(q, ps, recorded) ==
    ps[q].executed <= ps[q].undone + (IF recorded THEN 1 ELSE 0)
Saving ==
    pc = "executed" =>
        /\ job.action \in 1 .. Len(job.file.actions)
        /\ \A q \in 1 .. Len(proposals) :
              Counted(q, proposals, Recorded(job.file, q) \/ q = Acting)

Deciding ==
    /\ \A q \in 1 .. Len(proposals) :
          Counted(q, proposals, Recorded(file, q) \/ InProgress(q))
    /\ Saving

SupervisorInv == Typed /\ Reading /\ Kept /\ Deciding

-----------------------------------------------------------------------------
(* Facts about the operators.                                              *)

LEMMA Bounds ==
    /\ MaxRuns \in Nat /\ MaxMessages \in Nat /\ MaxFaults \in Nat /\ MaxClis \in Nat
    /\ Chats \in Seq(STRING) /\ Chats # <<>>
  BY SupervisorAssumption

LEMMA FiniteInterval ==
    ASSUME NEW n \in Nat
    PROVE  IsFiniteSet(1 .. n) /\ Cardinality(1 .. n) = n
<1>1. 1 \in Int /\ n \in Int
  OBVIOUS
<1> QED BY <1>1, FS_Interval

\* How many of the updates come before one.
Rank(updates, u) == Cardinality({v \in updates : v < u})

LEMMA RankGrows ==
    ASSUME NEW n \in Nat, NEW S \in SUBSET (1 .. n), NEW u \in S, NEW w \in S, u < w
    PROVE  Rank(S, u) \in Nat /\ Rank(S, w) \in Nat /\ Rank(S, u) < Rank(S, w)
<1> DEFINE before(x) == {v \in S : v < x}
<1>1. IsFiniteSet(1 .. n) /\ IsFiniteSet(S)
  <2>1. IsFiniteSet(1 .. n)
    BY FiniteInterval
  <2> QED BY <2>1, FS_Subset
<1>2. IsFiniteSet(before(u)) /\ IsFiniteSet(before(w))
  <2>1. before(u) \in SUBSET S /\ before(w) \in SUBSET S
    OBVIOUS
  <2> QED BY <1>1, <2>1, FS_Subset
<1>3. u \notin before(u) /\ before(u) \cup {u} \in SUBSET before(w)
  <2>1. \A v \in before(u) \cup {u} : v \in S /\ v < w
    OBVIOUS
  <2>2. u \notin before(u)
    OBVIOUS
  <2> QED BY <2>1, <2>2
<1>4. Cardinality(before(u)) \in Nat /\ Cardinality(before(w)) \in Nat
  BY <1>2, FS_CardinalityType
<1> HIDE DEF before
<1>5. Cardinality(before(u) \cup {u}) = Cardinality(before(u)) + 1
  BY <1>2, <1>3, FS_AddElement
<1>6. Cardinality(before(u) \cup {u}) <= Cardinality(before(w))
  BY <1>2, <1>3, FS_Subset
<1> QED BY <1>4, <1>5, <1>6 DEF Rank, before

LEMMA RankBound ==
    ASSUME NEW n \in Nat, NEW S \in SUBSET (1 .. n), NEW u \in S
    PROVE  /\ IsFiniteSet(S) /\ Cardinality(S) \in Nat
           /\ Rank(S, u) \in Nat /\ Rank(S, u) < Cardinality(S)
<1> DEFINE before == {v \in S : v < u}
<1>1. IsFiniteSet(1 .. n) /\ IsFiniteSet(S)
  <2>1. IsFiniteSet(1 .. n)
    BY FiniteInterval
  <2> QED BY <2>1, FS_Subset
<1>2. before \in SUBSET S /\ u \notin before
  OBVIOUS
<1>3. IsFiniteSet(before) /\ Cardinality(before) <= Cardinality(S)
      /\ (Cardinality(before) = Cardinality(S) => S = before)
  BY <1>1, <1>2, FS_Subset
<1>4. Cardinality(S) \in Nat /\ Cardinality(before) \in Nat
  BY <1>1, <1>3, FS_CardinalityType
<1> HIDE DEF before
<1> QED BY <1>1, <1>2, <1>3, <1>4 DEF Rank, before

\* InOrder lists the updates, each of them once and the earlier ones first.
LEMMA InOrderLists ==
    ASSUME NEW n \in Nat, NEW S \in SUBSET (1 .. n)
    PROVE  /\ InOrder(S) \in Seq(1 .. n) /\ DOMAIN InOrder(S) = 1 .. Cardinality(S)
           /\ \A i \in DOMAIN InOrder(S) : InOrder(S)[i] \in S
           /\ \A i, j \in DOMAIN InOrder(S) : i < j => InOrder(S)[i] < InOrder(S)[j]
           /\ \A u \in S : \E i \in DOMAIN InOrder(S) : InOrder(S)[i] = u
<1> DEFINE m == Cardinality(S)
           f == [u \in S |-> Rank(S, u) + 1]
           s == InOrder(S)
<1>1. IsFiniteSet(S) /\ m \in Nat
  <2>1. IsFiniteSet(1 .. n)
    BY FiniteInterval
  <2> QED BY <2>1, FS_Subset, FS_CardinalityType
<1>2. IsFiniteSet(1 .. m) /\ Cardinality(1 .. m) = m
  BY <1>1, FiniteInterval
<1>3. \A u \in S : Rank(S, u) \in Nat /\ Rank(S, u) + 1 \in 1 .. m
  <2> SUFFICES ASSUME NEW u \in S PROVE Rank(S, u) \in Nat /\ Rank(S, u) + 1 \in 1 .. m
    OBVIOUS
  <2>1. Rank(S, u) \in Nat /\ Rank(S, u) < Cardinality(S)
    BY RankBound
  <2> QED BY <1>1, <2>1
<1>4. \A u, w \in S : u < w => Rank(S, u) < Rank(S, w)
  <2> SUFFICES ASSUME NEW u \in S, NEW w \in S, u < w PROVE Rank(S, u) < Rank(S, w)
    OBVIOUS
  <2> QED BY RankGrows
<1>5. \A u, w \in S : Rank(S, u) = Rank(S, w) => u = w
  <2> SUFFICES ASSUME NEW u \in S, NEW w \in S, Rank(S, u) = Rank(S, w) PROVE u = w
    OBVIOUS
  <2> QED BY <1>3, <1>4
<1>6. f \in Injection(S, 1 .. m)
  <2>1. \A u, w \in S : f[u] = f[w] => u = w
    BY <1>3, <1>5
  <2>2. f \in [S -> 1 .. m]
    BY <1>3
  <2> HIDE DEF f, m
  <2> QED BY <2>1, <2>2 DEF Injection, IsInjective
<1>7. f \in Surjection(S, 1 .. m)
  <2> HIDE DEF f
  <2> QED BY <1>1, <1>2, <1>6, FS_Injection
<1>8. \A i \in 1 .. m : \E u \in S : Rank(S, u) = i - 1
  <2>1. \A i \in 1 .. m : \E u \in S : f[u] = i
    <3> HIDE DEF f, m
    <3> QED BY <1>7 DEF Surjection
  <2> QED BY <1>1, <1>3, <2>1
<1>9. DOMAIN s = 1 .. m
  BY DEF InOrder
<1>10. \A i \in 1 .. m : s[i] \in S /\ Rank(S, s[i]) = i - 1
  <2> SUFFICES ASSUME NEW i \in 1 .. m PROVE s[i] \in S /\ Rank(S, s[i]) = i - 1
    OBVIOUS
  <2>1. s[i] = CHOOSE u \in S : Rank(S, u) = i - 1
    BY DEF InOrder, Rank
  <2>2. \E u \in S : Rank(S, u) = i - 1
    BY <1>8
  <2> HIDE DEF s, m
  <2> QED BY <2>1, <2>2
<1> HIDE DEF s, m
<1>11. ASSUME NEW i \in 1 .. m, NEW j \in 1 .. m, i < j PROVE s[i] < s[j]
  <2>1. \A u, w \in S : Rank(S, u) < Rank(S, w) => u < w
    <3> SUFFICES ASSUME NEW u \in S, NEW w \in S, Rank(S, u) < Rank(S, w) PROVE u < w
      OBVIOUS
    <3> QED BY <1>3, <1>4
  <2>2. Rank(S, s[i]) < Rank(S, s[j])
    BY <1>1, <1>10, <1>11
  <2> QED BY <1>10, <2>1, <2>2
<1>12. ASSUME NEW u \in S PROVE \E i \in 1 .. m : s[i] = u
  <2>1. Rank(S, u) + 1 \in 1 .. m /\ Rank(S, u) \in Nat
    BY <1>3
  <2>2. Rank(S, s[Rank(S, u) + 1]) = Rank(S, u) /\ s[Rank(S, u) + 1] \in S
    BY <1>10, <2>1
  <2> QED BY <1>5, <2>1, <2>2
<1>13. s \in Seq(1 .. n)
  <2> DEFINE e(i) == CHOOSE u \in S : Cardinality({v \in S : v < u}) = i - 1
  <2>1. s = [i \in 1 .. m |-> e(i)]
    BY DEF s, m, InOrder
  <2> HIDE DEF e
  <2>2. \A i \in 1 .. m : e(i) \in 1 .. n
    BY <1>10, <2>1
  <2>3. s \in [1 .. m -> 1 .. n]
    BY <2>1, <2>2
  <2> QED BY <1>1, <2>3, SeqDef
<1> QED BY <1>9, <1>10, <1>11, <1>12, <1>13 DEF s, m

LEMMA FilesAre ==
    Files = [key : [1 .. MaxRuns -> Outcomes \cup {"none"}], actions : Seq(Entry),
             offset : 1 .. MaxMessages + 1]
  BY DEF Files, Entry

LEMMA Empty ==
    /\ EmptyFile \in Files /\ EmptyFile.offset = 1 /\ EmptyFile.actions = <<>>
    /\ NoJob \in Jobs /\ NoJob.file = EmptyFile /\ NoJob.run = 0 /\ NoJob.next = "loop"
    /\ Unused \in Clis /\ Unused.file = EmptyFile
<1>1. EmptyFile \in Files
  <2>1. [r \in 1 .. MaxRuns |-> "none"] \in [1 .. MaxRuns -> Outcomes \cup {"none"}]
    OBVIOUS
  <2>2. <<>> \in Seq(Entry) /\ 1 \in 1 .. MaxMessages + 1
    BY Bounds
  <2> QED BY <2>1, <2>2, FilesAre DEF EmptyFile
<1>2. EmptyFile.offset = 1 /\ EmptyFile.actions = <<>>
  BY DEF EmptyFile
<1>3. 0 \in 0 .. MaxRuns /\ 0 \in Nat /\ <<>> \in Seq(STRING)
  BY Bounds
<1>4. NoJob \in Jobs
  BY <1>1, <1>3 DEF NoJob, Jobs
<1>5. Unused \in Clis
  BY <1>1, <1>3 DEF Unused, Clis
<1> QED BY <1>1, <1>2, <1>4, <1>5 DEF NoJob, Unused

\* A file in which a run's outcome was saved.
LEMMA KeySaved ==
    ASSUME NEW f \in Files, NEW r, NEW o \in Outcomes \cup {"none"}
    PROVE  /\ [f EXCEPT !.key[r] = o] \in Files
           /\ [f EXCEPT !.key[r] = o].actions = f.actions
           /\ [f EXCEPT !.key[r] = o].offset = f.offset
  BY FilesAre

LEMMA OffsetSaved ==
    ASSUME NEW f \in Files, NEW u \in 1 .. MaxMessages + 1
    PROVE  /\ [f EXCEPT !.offset = u] \in Files
           /\ [f EXCEPT !.offset = u].actions = f.actions
           /\ [f EXCEPT !.offset = u].offset = u
  BY FilesAre

\* A file in which an action was decided.
Decided(f, g, k, verdict) ==
    /\ g \in Files /\ g.offset = f.offset /\ Len(g.actions) = Len(f.actions)
    /\ g.actions[k].status = verdict
    /\ \A j \in 1 .. Len(f.actions) :
          /\ g.actions[j].id = f.actions[j].id
          /\ j # k => g.actions[j] = f.actions[j]

LEMMA ActionSaved ==
    ASSUME NEW f \in Files, NEW k \in 1 .. Len(f.actions), NEW v \in Status
    PROVE  Decided(f, [f EXCEPT !.actions[k].status = v], k, v)
<1> DEFINE e == [f.actions[k] EXCEPT !.status = v]
           s == [f.actions EXCEPT ![k] = e]
           g == [f EXCEPT !.actions = s]
<1>1. f.actions \in Seq(Entry) /\ f.actions[k] \in Entry
  BY FilesAre, ElementOfSeq
<1>2. e \in Entry /\ e.id = f.actions[k].id /\ e.status = v
  BY <1>1 DEF Entry
<1>3. [f EXCEPT !.actions[k].status = v] = g
  BY FilesAre
<1> HIDE DEF e
<1>4. /\ s \in Seq(Entry) /\ Len(s) = Len(f.actions)
      /\ \A j \in 1 .. Len(f.actions) : s[j] = IF j = k THEN e ELSE f.actions[j]
  BY <1>1, <1>2, ExceptSeq
<1> HIDE DEF s
<1>5. g \in Files /\ g.offset = f.offset /\ g.actions = s
  BY <1>4, FilesAre
<1> HIDE DEF g
<1> QED BY <1>2, <1>3, <1>4, <1>5 DEF Decided

\* A file with one action more.
LEMMA ActionAdded ==
    ASSUME NEW f \in Files, NEW n \in Nat
    PROVE  LET e == [id |-> n, status |-> "pending"]
               g == [f EXCEPT !.actions = Append(@, e)]
           IN  /\ g \in Files /\ g.offset = f.offset /\ Len(f.actions) \in Nat
               /\ Len(g.actions) = Len(f.actions) + 1
               /\ g.actions[Len(f.actions) + 1] = e
               /\ \A j \in 1 .. Len(f.actions) : g.actions[j] = f.actions[j]
<1> DEFINE e == [id |-> n, status |-> "pending"]
           s == Append(f.actions, e)
           g == [f EXCEPT !.actions = s]
<1>1. f.actions \in Seq(Entry) /\ e \in Entry
  BY FilesAre DEF Entry, Status
<1> HIDE DEF e
<1>2. /\ s \in Seq(Entry) /\ Len(s) = Len(f.actions) + 1 /\ Len(f.actions) \in Nat
      /\ s[Len(f.actions) + 1] = e
      /\ \A j \in 1 .. Len(f.actions) : s[j] = f.actions[j]
  BY <1>1, AppendProperties, LenProperties
<1>3. [f EXCEPT !.actions = Append(@, e)] = g
  BY FilesAre
<1> HIDE DEF s
<1>4. g \in Files /\ g.offset = f.offset /\ g.actions = s
  BY <1>2, FilesAre
<1> HIDE DEF g
<1> QED BY <1>2, <1>3, <1>4 DEF e

\* The lengths are numbers, and the elements have their types.
LEMMA Sizes ==
    ASSUME Typed
    PROVE  /\ Len(runs) \in 0 .. MaxRuns /\ Len(inbox) \in 0 .. MaxMessages
           /\ Len(inbox) \in Nat /\ Len(proposals) \in Nat
           /\ file.offset \in 1 .. MaxMessages + 1 /\ file.actions \in Seq(Entry)
           /\ Len(file.actions) \in Nat /\ DOMAIN file.actions = 1 .. Len(file.actions)
           /\ DOMAIN batch = 1 .. Len(batch) /\ Len(batch) \in Nat
           /\ \A i \in 1 .. Len(batch) : batch[i] \in 1 .. MaxMessages
           /\ \A r \in 1 .. Len(runs) : r \in 1 .. MaxRuns /\ runs[r] \in Outcomes
           /\ DOMAIN runs = 1 .. Len(runs) /\ DOMAIN inbox = 1 .. Len(inbox)
           /\ DOMAIN proposals = 1 .. Len(proposals)
<1>1. /\ runs \in Seq(Outcomes) /\ inbox \in Seq(Requests) /\ batch \in Seq(1 .. MaxMessages)
      /\ file \in Files /\ Len(runs) <= MaxRuns /\ Len(inbox) <= MaxMessages
      /\ proposals \in Seq(Proposal)
  BY DEF Typed, Standing
<1>2. file.offset \in 1 .. MaxMessages + 1 /\ file.actions \in Seq(Entry)
  BY <1>1, FilesAre
<1>3. Len(runs) \in Nat /\ Len(inbox) \in Nat /\ Len(batch) \in Nat /\ Len(file.actions) \in Nat
      /\ Len(proposals) \in Nat
  BY <1>1, <1>2, LenProperties
<1>4. /\ DOMAIN file.actions = 1 .. Len(file.actions) /\ DOMAIN batch = 1 .. Len(batch)
      /\ DOMAIN runs = 1 .. Len(runs) /\ DOMAIN inbox = 1 .. Len(inbox)
      /\ DOMAIN proposals = 1 .. Len(proposals)
  BY <1>1, <1>2, LenProperties
<1>5. \A i \in 1 .. Len(batch) : batch[i] \in 1 .. MaxMessages
  BY <1>1, ElementOfSeq
<1>6. \A r \in 1 .. Len(runs) : r \in 1 .. MaxRuns /\ runs[r] \in Outcomes
  <2>1. \A r \in 1 .. Len(runs) : runs[r] \in Outcomes
    BY <1>1, ElementOfSeq
  <2> QED BY <1>1, <1>3, <2>1, Bounds
<1> QED BY <1>1, <1>2, <1>3, <1>4, <1>5, <1>6, Bounds

\* What holds before every step, in one place.
LEMMA Before ==
    ASSUME SupervisorInv
    PROVE  /\ Typed /\ Reading /\ Kept /\ Deciding /\ Saving /\ Standing
           /\ file \in Files /\ job \in Jobs /\ job.file \in Files
           /\ \A p \in 1 .. MaxClis : cli[p] \in Clis /\ cli[p].file \in Files
           /\ cli \in [1 .. MaxClis -> Clis]
           /\ db \in BOOLEAN /\ faults \in 0 .. MaxFaults /\ faults \in Nat
           /\ batch \in Seq(1 .. MaxMessages) /\ <<>> \in Seq(1 .. MaxMessages)
           /\ proposals \in Seq(Proposal) /\ inbox \in Seq(Requests)
           /\ NoJob \in Jobs /\ NoJob.file = EmptyFile /\ NoJob.next = "loop" /\ NoJob.run = 0
           /\ "loop" \in Places /\ "loop" \notin Handling \cup Watching
           /\ "poll" \in Places /\ "poll" \notin Handling \cup Watching
<1>1. /\ Typed /\ Reading /\ Kept /\ Deciding /\ Saving /\ Standing
      /\ file \in Files /\ job \in Jobs
      /\ db \in BOOLEAN /\ faults \in 0 .. MaxFaults /\ batch \in Seq(1 .. MaxMessages)
      /\ proposals \in Seq(Proposal) /\ inbox \in Seq(Requests) /\ cli \in [1 .. MaxClis -> Clis]
  BY DEF SupervisorInv, Typed, Standing, Deciding
<1>2. faults \in Nat /\ <<>> \in Seq(1 .. MaxMessages)
  BY <1>1, Bounds
<1>3. /\ "loop" \in Places /\ "loop" \notin Handling \cup Watching
      /\ "poll" \in Places /\ "poll" \notin Handling \cup Watching
  BY DEF Places, Handling, Watching
<1>4. job.file \in Files /\ \A p \in 1 .. MaxClis : cli[p] \in Clis /\ cli[p].file \in Files
  BY <1>1 DEF Jobs, Clis
<1> QED BY <1>1, <1>2, <1>3, <1>4, Empty

-----------------------------------------------------------------------------
(* The files.                                                              *)

\* What was asked, handled and proposed only grows.
Grown ==
    /\ inbox' \in Seq(Requests) /\ Len(inbox) <= Len(inbox')
    /\ \A u \in 1 .. Len(inbox) : inbox'[u] = inbox[u]
    /\ handled \subseteq handled'
    /\ proposals' \in Seq(Proposal) /\ Len(proposals) <= Len(proposals')

\* A file that could be put back still can be, later.
LEMMA SafeLater ==
    ASSUME SupervisorInv, Grown, NEW f \in Files,
           Safe(f, inbox, handled, Len(proposals))
    PROVE  Safe(f, inbox', handled', Len(proposals'))
<1>1. /\ f.offset \in Nat /\ Len(inbox) \in Nat /\ Len(inbox') \in Nat
      /\ Len(proposals) \in Nat /\ Len(proposals') \in Nat
  BY Before, Sizes, FilesAre, Bounds, LenProperties DEF Grown
<1>2. f.offset <= Len(inbox') + 1
  BY <1>1 DEF Grown, Safe
<1>3. ASSUME NEW u \in 1 .. Len(inbox'), u < f.offset
      PROVE  u \in handled' \/ inbox'[u] = "sticker"
  <2>1. u \in 1 .. Len(inbox)
    BY <1>1, <1>3 DEF Safe
  <2> QED BY <1>3, <2>1 DEF Grown, Safe
<1>4. \A k \in 1 .. Len(f.actions) : f.actions[k].id \in 1 .. Len(proposals')
  BY <1>1 DEF Grown, Safe
<1> QED BY <1>2, <1>3, <1>4 DEF Safe

LEMMA EmptySafe == ASSUME NEW asked \in Seq(Requests), NEW done, NEW made
                   PROVE  Safe(EmptyFile, asked, done, made)
<1>1. Len(asked) \in Nat /\ 1 .. Len(EmptyFile.actions) = {}
  BY Empty, EmptySeq, LenProperties
<1> QED BY <1>1, Empty DEF Safe

\* A file that differs in what was reported only.
LEMMA SafeAlike ==
    ASSUME NEW f, NEW g, NEW asked, NEW done, NEW made, Safe(f, asked, done, made),
           g.offset = f.offset, g.actions = f.actions
    PROVE  Safe(g, asked, done, made)
  BY DEF Safe

LEMMA SafeDecided ==
    ASSUME NEW f, NEW g, NEW asked, NEW done, NEW made, NEW k, NEW v,
           Safe(f, asked, done, made), Decided(f, g, k, v)
    PROVE  Safe(g, asked, done, made)
  BY DEF Safe, Decided

\* The copies of a step are copies of before it, or empty.
LEMMA KeptLater ==
    ASSUME SupervisorInv, Grown, Safe(file', inbox', handled', Len(proposals')),
           job'.file \in {job.file, file, EmptyFile},
           \A p \in 1 .. MaxClis : cli'[p].file \in {cli[p].file, file, EmptyFile}
    PROVE  Kept'
<1>1. inbox' \in Seq(Requests)
  BY DEF Grown
<1>2. Safe(EmptyFile, inbox', handled', Len(proposals'))
  BY <1>1, EmptySafe
<1>3. Safe(file, inbox', handled', Len(proposals'))
  BY Before, SafeLater DEF Kept
<1>4. Safe(job.file, inbox', handled', Len(proposals'))
  BY Before, SafeLater DEF Kept
<1>5. \A p \in 1 .. MaxClis : Safe(cli[p].file, inbox', handled', Len(proposals'))
  BY Before, SafeLater DEF Kept
<1>6. Safe(job'.file, inbox', handled', Len(proposals'))
  BY <1>2, <1>3, <1>4
<1>7. \A p \in 1 .. MaxClis : Safe(cli'[p].file, inbox', handled', Len(proposals'))
  BY <1>2, <1>3, <1>5
<1> QED BY <1>6, <1>7 DEF Kept

LEMMA NothingGrown ==
    ASSUME SupervisorInv, UNCHANGED <<inbox, handled>>, proposals' \in Seq(Proposal),
           Len(proposals') = Len(proposals)
    PROVE  Grown
<1>1. Len(inbox) \in Nat /\ Len(proposals) \in Nat /\ inbox \in Seq(Requests)
  BY Before, Sizes
<1> QED BY <1>1 DEF Grown

-----------------------------------------------------------------------------
(* What was read, and what was handled.                                    *)

\* A step that handles nothing, and keeps the batch or gives it up.
LEMMA NothingRead ==
    ASSUME Typed, Reading, UNCHANGED <<inbox, gone, handled>>,
           batch' = batch \/ batch' = <<>>
    PROVE  Reading'
<1>1. /\ gone' <= Len(inbox') /\ handled' \subseteq 1 .. Len(inbox')
      /\ \A u \in 1 .. Len(inbox') : u <= gone' => Past(u)'
  BY DEF Reading, Past
<1>2. CASE batch' = batch
  BY <1>1, <1>2 DEF Reading, Sorted, Complete, Past
<1>3. CASE batch' = <<>>
  <2>1. DOMAIN batch' = {}
    BY <1>3
  <2> QED BY <1>1, <2>1 DEF Reading, Sorted, Complete
<1> QED BY <1>2, <1>3

LEMMA AskReads ==
    ASSUME Typed, Reading, Ask
    PROVE  /\ inbox' \in Seq(Requests) /\ Len(inbox') <= MaxMessages /\ Reading'
           /\ Len(inbox) <= Len(inbox')
           /\ \A u \in 1 .. Len(inbox) : inbox'[u] = inbox[u]
<1>1. PICK c \in Conversations :
        Len(c) > Len(inbox) /\ inbox' = Append(inbox, c[Len(inbox) + 1])
  BY DEF Ask
<1>2. /\ inbox \in Seq(Requests) /\ Len(inbox) \in Nat
      /\ c \in Seq(Requests) /\ Len(c) <= MaxMessages /\ Len(c) \in Nat
  <2>1. inbox \in Seq(Requests) /\ c \in Seq(Requests) /\ Len(c) <= MaxMessages
    BY SupervisorAssumption DEF Typed
  <2> QED BY <2>1, LenProperties
<1>3. c[Len(inbox) + 1] \in Requests
  <2>1. Len(inbox) + 1 \in 1 .. Len(c)
    BY <1>1, <1>2
  <2> QED BY <1>2, <2>1, ElementOfSeq
<1>4. /\ inbox' \in Seq(Requests) /\ Len(inbox') = Len(inbox) + 1
      /\ \A u \in 1 .. Len(inbox) : inbox'[u] = inbox[u]
  BY <1>1, <1>2, <1>3, AppendProperties
<1>5. UNCHANGED <<gone, file, batch, handled>>
  BY DEF Ask, WorkerVars
<1>6. gone \in Nat /\ \A i \in DOMAIN batch : batch[i] \in Nat
  <2>1. \A i \in 1 .. Len(batch) : batch[i] \in Nat
    BY Sizes, Bounds
  <2> QED BY <2>1, Sizes, Bounds DEF Typed
<1>7. /\ gone' <= Len(inbox') /\ handled' \subseteq 1 .. Len(inbox')
      /\ \A u \in 1 .. Len(inbox') : u <= gone' => Past(u)'
  <2>1. \A u \in 1 .. Len(inbox') : u <= gone => u \in 1 .. Len(inbox)
    BY <1>2, <1>4, <1>6 DEF Reading
  <2> QED BY <1>2, <1>4, <1>5, <1>6, <2>1 DEF Reading, Past
<1>8. Complete'
  <2> SUFFICES ASSUME NEW i \in DOMAIN batch
               PROVE  /\ batch[i] <= Len(inbox')
                      /\ \A u \in 1 .. batch[i] : Past(u)' \/ \E j \in 1 .. i : batch[j] = u
    BY <1>5 DEF Complete
  <2>1. /\ batch[i] <= Len(inbox) /\ batch[i] \in Nat
        /\ \A u \in 1 .. batch[i] : Past(u) \/ \E j \in 1 .. i : batch[j] = u
    BY <1>6 DEF Reading, Complete
  <2>2. \A u \in 1 .. batch[i] : u \in 1 .. Len(inbox)
    BY <1>2, <2>1
  <2>3. \A u \in 1 .. batch[i] : Past(u) => Past(u)'
    BY <1>4, <1>5, <2>2 DEF Past
  <2> QED BY <1>2, <1>4, <2>1, <2>3
<1>9. Sorted'
  BY <1>5 DEF Reading, Sorted
<1>10. Len(inbox') <= MaxMessages /\ Len(inbox) <= Len(inbox')
  BY <1>1, <1>2, <1>4, Bounds
<1> QED BY <1>4, <1>7, <1>8, <1>9, <1>10 DEF Reading

LEMMA PollReads ==
    ASSUME SupervisorInv, Poll
    PROVE  /\ batch' \in Seq(1 .. MaxMessages) /\ gone' \in 0 .. MaxMessages
           /\ Reading'
<1> DEFINE S == Readable(file.offset)
<1>1. /\ gone' = (IF file.offset - 1 > gone THEN file.offset - 1 ELSE gone)
      /\ batch' = InOrder(S) /\ UNCHANGED <<inbox, file, handled>>
  BY DEF Poll, Unobserved, History
<1>2. /\ file.offset \in 1 .. MaxMessages + 1 /\ Len(inbox) \in 0 .. MaxMessages
      /\ gone \in 0 .. MaxMessages /\ gone <= Len(inbox) /\ file.offset <= Len(inbox) + 1
  BY Before, Sizes DEF Typed, Reading, Kept, Safe
<1>3. gone' \in 0 .. MaxMessages /\ gone' <= Len(inbox)
  BY <1>1, <1>2, Bounds
<1>4. \A u \in 1 .. Len(inbox) : u <= gone \/ u < file.offset => Past(u)
  BY Before DEF Reading, Kept, Safe, Past
<1>5. /\ \A u \in S : u \in 1 .. Len(inbox) /\ file.offset <= u
      /\ \A u \in 1 .. Len(inbox) : u \in S \/ Past(u)
  <2>1. \A u \in 1 .. Len(inbox) : u \in file.offset .. Len(inbox) \/ u < file.offset
    BY <1>2
  <2>2. \A u \in 1 .. Len(inbox) : u > gone \/ u <= gone
    BY <1>2
  <2>3. \A u \in file.offset .. Len(inbox) : u \in 1 .. Len(inbox)
    BY <1>2
  <2> QED BY <1>4, <2>1, <2>2, <2>3 DEF Readable, Past
<1> HIDE DEF S
<1>6. S \in SUBSET (1 .. MaxMessages) /\ MaxMessages \in Nat
  BY <1>2, <1>5, Bounds
<1>7. /\ batch' \in Seq(1 .. MaxMessages) /\ DOMAIN batch' = 1 .. Cardinality(S)
      /\ \A i \in DOMAIN batch' : batch'[i] \in S
      /\ \A i, j \in DOMAIN batch' : i < j => batch'[i] < batch'[j]
      /\ \A u \in S : \E i \in DOMAIN batch' : batch'[i] = u
  BY <1>1, <1>6, InOrderLists
<1>8. Cardinality(S) \in Nat
  BY <1>6, FiniteInterval, FS_Subset, FS_CardinalityType
<1>9. Sorted'
  BY <1>7 DEF Sorted
<1>10. \A u : Past(u)' <=> Past(u)
  BY <1>1 DEF Past
<1>11. Complete'
  <2> SUFFICES ASSUME NEW i \in DOMAIN batch'
               PROVE  /\ batch'[i] <= Len(inbox)
                      /\ \A u \in 1 .. batch'[i] : Past(u) \/ \E j \in 1 .. i : batch'[j] = u
    BY <1>1, <1>10 DEF Complete
  <2>1. batch'[i] \in S /\ batch'[i] \in 1 .. Len(inbox)
    BY <1>5, <1>7
  <2>2. ASSUME NEW u \in 1 .. batch'[i], ~Past(u)
        PROVE  \E j \in 1 .. i : batch'[j] = u
    <3>1. u \in S
      <4>1. u \in 1 .. Len(inbox)
        BY <1>2, <2>1
      <4> QED BY <1>5, <2>2, <4>1
    <3>2. PICK j \in DOMAIN batch' : batch'[j] = u
      BY <1>7, <3>1
    <3>3. ~(i < j)
      <4>1. i < j => batch'[i] < batch'[j]
        BY <1>7
      <4> QED BY <1>2, <2>1, <3>2, <4>1
    <3>4. j \in 1 .. i
      BY <1>7, <1>8, <3>3
    <3> QED BY <3>2, <3>4
  <2>3. batch'[i] <= Len(inbox)
    BY <1>2, <2>1
  <2> QED BY <2>2, <2>3
<1>12. \A u \in 1 .. Len(inbox) : u <= gone' => Past(u)
  <2>1. \A u \in 1 .. Len(inbox) : u <= gone' => u <= gone \/ u < file.offset
    BY <1>1, <1>2
  <2> QED BY <1>4, <2>1
<1>13. /\ gone' <= Len(inbox') /\ handled' \subseteq 1 .. Len(inbox')
       /\ \A u \in 1 .. Len(inbox') : u <= gone' => Past(u)'
  BY <1>1, <1>3, <1>10, <1>12, Before DEF Reading
<1> QED BY <1>3, <1>7, <1>9, <1>11, <1>13 DEF Reading

LEMMA AcknowledgeReads ==
    ASSUME SupervisorInv, Acknowledge
    PROVE  /\ batch' \in Seq(1 .. MaxMessages) /\ file' \in Files
           /\ file'.actions = file.actions /\ Reading'
           /\ handled \subseteq handled'
           /\ Safe(file', inbox', handled', Len(proposals))
<1> DEFINE u == Head(batch)
<1>1. batch # <<>> /\ batch \in Seq(1 .. MaxMessages) /\ file \in Files
  BY Before DEF Standing, Handling, Acknowledge
<1>2. u = batch[1] /\ 1 \in 1 .. Len(batch) /\ DOMAIN batch = 1 .. Len(batch)
  BY <1>1, EmptySeq, LenProperties
<1>3. u \in 1 .. MaxMessages
  BY <1>1, <1>2, ElementOfSeq
<1>4. /\ file' = [file EXCEPT !.offset = u + 1] /\ handled' = handled \cup {u}
      /\ batch' = Tail(batch) /\ UNCHANGED <<inbox, gone>>
  BY DEF Acknowledge, Unobserved
<1>5. /\ batch' \in Seq(1 .. MaxMessages) /\ Len(batch') = Len(batch) - 1
      /\ \A i \in 1 .. Len(batch') : batch'[i] = batch[i + 1]
  BY <1>1, <1>4, HeadTailProperties
<1> HIDE DEF u
<1>6. file' \in Files /\ file'.actions = file.actions /\ file'.offset = u + 1
  <2>1. u + 1 \in 1 .. MaxMessages + 1
    BY <1>3, Bounds
  <2> QED BY <1>1, <1>4, <2>1, OffsetSaved
<1>7. /\ gone \in Nat /\ u \in Nat /\ u <= Len(inbox) /\ Len(inbox) \in Nat
      /\ Len(batch) \in Nat /\ DOMAIN batch' = 1 .. Len(batch')
      /\ \A i \in 1 .. Len(batch) : batch[i] \in Nat
      /\ u \in 1 .. Len(inbox)
  <2>1. DOMAIN batch' = 1 .. Len(batch')
    BY <1>5, LenProperties
  <2>2. Typed /\ Complete
    BY Before DEF Reading
  <2>3. Len(inbox) \in Nat /\ Len(batch) \in Nat
        /\ \A i \in 1 .. Len(batch) : batch[i] \in 1 .. MaxMessages
    BY <2>2, Sizes
  <2>4. gone \in Nat
    BY <2>2, Bounds DEF Typed
  <2>5. u <= Len(inbox)
    BY <1>2, <2>2 DEF Complete
  <2>6. \A v \in 1 .. MaxMessages : v \in Nat /\ 1 <= v
    BY Bounds
  <2>7. u \in 1 .. Len(inbox)
    BY <1>3, <2>3, <2>5, <2>6
  <2> QED BY <1>3, <2>1, <2>3, <2>4, <2>5, <2>6, <2>7
<1>8. /\ \A i \in DOMAIN batch' : i + 1 \in DOMAIN batch /\ batch'[i] = batch[i + 1]
                                 /\ 1 < i + 1
      /\ \A v : v \in handled \/ inbox[v] = "sticker" \/ v = u => Past(v)'
  <2>1. \A i \in DOMAIN batch' : i + 1 \in DOMAIN batch /\ batch'[i] = batch[i + 1]
                               /\ 1 < i + 1
    BY <1>2, <1>5, <1>7
  <2>2. ASSUME NEW v, v \in handled \/ inbox[v] = "sticker" \/ v = u
        PROVE  v \in handled' \/ inbox'[v] = "sticker"
    BY <1>4, <2>2
  <2> QED BY <2>1, <2>2 DEF Past
<1>9. Sorted'
  <2> SUFFICES ASSUME NEW i \in DOMAIN batch', NEW j \in DOMAIN batch', i < j
               PROVE  batch'[i] < batch'[j]
    BY DEF Sorted
  <2>1. i + 1 < j + 1
    BY <1>5, <1>7
  <2> QED BY <1>8, <2>1, Before DEF Reading, Sorted
<1>10. Complete'
  <2> SUFFICES ASSUME NEW i \in DOMAIN batch'
               PROVE  /\ batch'[i] <= Len(inbox)
                      /\ \A v \in 1 .. batch'[i] : Past(v)' \/ \E j \in 1 .. i : batch'[j] = v
    BY <1>4 DEF Complete
  <2>1. /\ i + 1 \in DOMAIN batch /\ batch'[i] = batch[i + 1] /\ i \in Nat
    BY <1>5, <1>7, <1>8
  <2>2. /\ batch'[i] <= Len(inbox)
        /\ \A v \in 1 .. batch'[i] : Past(v) \/ \E j \in 1 .. i + 1 : batch[j] = v
    BY <2>1, Before DEF Reading, Complete
  <2>3. ASSUME NEW v \in 1 .. batch'[i], ~Past(v)'
        PROVE  \E j \in 1 .. i : batch'[j] = v
    <3>1. v # u /\ ~Past(v)
      BY <1>8, <2>3 DEF Past
    <3>2. PICK j \in 1 .. i + 1 : batch[j] = v
      BY <2>2, <3>1
    <3>3. j - 1 \in 1 .. i
      <4>1. j # 1
        BY <1>2, <3>1, <3>2
      <4> QED BY <2>1, <4>1
    <3>4. j - 1 \in DOMAIN batch' /\ j - 1 + 1 = j
      BY <1>7, <2>1, <3>3
    <3> QED BY <1>8, <3>2, <3>3, <3>4
  <2> QED BY <2>2, <2>3
<1>11. /\ gone' <= Len(inbox') /\ handled' \subseteq 1 .. Len(inbox')
       /\ \A v \in 1 .. Len(inbox') : v <= gone' => Past(v)'
  BY <1>4, <1>7, <1>8, Before DEF Reading, Past
<1>12. Reading'
  BY <1>9, <1>10, <1>11 DEF Reading
<1>13. ASSUME NEW v \in 1 .. Len(inbox), v < u + 1
       PROVE  v \in handled' \/ inbox[v] = "sticker"
  <2>1. v \in 1 .. batch[1]
    BY <1>2, <1>7, <1>13
  <2>2. Past(v) \/ \E j \in 1 .. 1 : batch[j] = v
    BY <1>2, <2>1, Before DEF Reading, Complete
  <2>3. Past(v)'
    BY <1>2, <1>8, <2>2 DEF Past
  <2> QED BY <1>4, <2>3 DEF Past
<1>14. Safe(file', inbox', handled', Len(proposals))
  <2>1. /\ \A k \in 1 .. Len(file.actions) : file.actions[k].id \in 1 .. Len(proposals)
        /\ \A j, k \in 1 .. Len(file.actions) :
              file.actions[j].id = file.actions[k].id => j = k
    BY Before DEF Kept, Safe
  <2>2. file'.offset <= Len(inbox') + 1
    BY <1>4, <1>6, <1>7
  <2> QED BY <1>4, <1>6, <1>13, <2>1, <2>2 DEF Safe
<1> QED BY <1>4, <1>5, <1>6, <1>12, <1>14

-----------------------------------------------------------------------------
(* The steps in which nothing is proposed, decided or carried out.         *)

\* The worker goes on, or gives up: an action that is being carried out stays so.
GoesOn == UNCHANGED <<pc, job>> \/ (pc # "executed" /\ pc' # "executed")

\* What the proposals and the file say of each other.
LEMMA Accounts ==
    ASSUME SupervisorInv, NEW q \in 1 .. Len(proposals)
    PROVE  /\ proposals[q].executed \in Nat /\ proposals[q].undone \in Nat
           /\ proposals[q].executed <= proposals[q].undone + 1
           /\ ~Recorded(file, q) /\ ~InProgress(q)
                 => proposals[q].executed <= proposals[q].undone
<1>1. proposals[q] \in Proposal
  BY Before, ElementOfSeq
<1>2. proposals[q].executed \in Nat /\ proposals[q].undone \in Nat
  BY <1>1 DEF Proposal
<1>3. proposals[q].executed <= proposals[q].undone
        + (IF Recorded(file, q) \/ InProgress(q) THEN 1 ELSE 0)
  BY Before DEF Deciding, Counted
<1> QED BY <1>2, <1>3

\* No proposal is made, none is carried out, and no record of one is lost.
SameCounts ==
    /\ proposals' \in Seq(Proposal) /\ Len(proposals') = Len(proposals)
    /\ \A q \in 1 .. Len(proposals) :
          /\ proposals'[q].executed = proposals[q].executed
          /\ proposals'[q].undone = proposals[q].undone

LEMMA NothingDecided ==
    ASSUME SupervisorInv, SameCounts, file'.actions = file.actions, GoesOn
    PROVE  Deciding'
<1>1. Deciding /\ Saving
  BY Before
<1>2. \A q : /\ Recorded(file', q) <=> Recorded(file, q)
             /\ InProgress(q)' <=> InProgress(q)
  BY DEF Recorded, InProgress, Acting, GoesOn
<1>3. ASSUME NEW q \in 1 .. Len(proposals)
      PROVE  Counted(q, proposals', Recorded(file', q) \/ InProgress(q)')
  BY <1>1, <1>2, <1>3 DEF SameCounts, Counted, Deciding
<1>4. Saving'
  <2>1. CASE UNCHANGED <<pc, job>>
    BY <1>1, <2>1 DEF SameCounts, Counted, Saving, Acting, Recorded
  <2>2. CASE pc' # "executed"
    BY <2>2 DEF Saving
  <2> QED BY <2>1, <2>2 DEF GoesOn
<1> QED BY <1>3, <1>4 DEF SameCounts, Deciding

LEMMA QuietStep ==
    ASSUME SupervisorInv, UNCHANGED <<runs, inbox, gone, proposals, handled, cli>>,
           file' \in Files, file'.actions = file.actions, file'.offset = file.offset,
           job'.file \in {job.file, file, EmptyFile},
           db' \in BOOLEAN, faults' \in 0 .. MaxFaults, GoesOn,
           batch' = batch \/ batch' = <<>>, Standing'
    PROVE  SupervisorInv'
<1>1. Typed'
  BY DEF SupervisorInv, Typed
<1>2. Reading'
  BY NothingRead DEF SupervisorInv
<1>3. Deciding'
  BY Before, NothingDecided DEF SameCounts
<1>4. Kept'
  <2>1. Grown
    BY Before, NothingGrown
  <2>2. Safe(file', inbox', handled', Len(proposals'))
    BY Before, SafeAlike DEF Kept
  <2> QED BY <2>1, <2>2, KeptLater
<1> QED BY <1>1, <1>2, <1>3, <1>4 DEF SupervisorInv

LEMMA RaiseStands ==
    ASSUME SupervisorInv, Raise
    PROVE  Standing' /\ pc' = "loop" /\ batch' = <<>> /\ job'.file = EmptyFile
<1>1. /\ pc' = "loop" /\ batch' = <<>>
      /\ \/ job' = [NoJob EXCEPT !.next = "observe"]
         \/ job' = [NoJob EXCEPT !.next = "loop"]
  BY DEF Raise
<1>2. job' \in Jobs /\ job'.file = EmptyFile
  BY <1>1, Before DEF Jobs
<1>3. "loop" # "notify"
  OBVIOUS
<1> QED BY <1>1, <1>2, <1>3, Before DEF Standing

LEMMA ReadsRun ==
    ASSUME SupervisorInv, NEW r \in 0 .. Len(runs), NEW n \in {"poll", "reply", "propose"},
           Read(r, n)
    PROVE  job' \in Jobs /\ job'.next = n /\ job'.file = EmptyFile
<1>1. r \in 0 .. MaxRuns /\ OutcomeOf(r) \in Outcomes \cup {"none"}
  <2>1. r = 0 \/ r \in 1 .. Len(runs)
    BY Before, Sizes
  <2> QED BY <2>1, Before, Sizes, Bounds DEF OutcomeOf
<1>2. job' = [NoJob EXCEPT !.run = r, !.outcome = OutcomeOf(r), !.next = n]
  BY DEF Read
<1> QED BY <1>1, <1>2, Before DEF Jobs

LEMMA MonitorStep == ASSUME SupervisorInv, Monitor PROVE SupervisorInv'
<1>1. /\ pc = "loop" /\ pc' = "observe" /\ Read(Len(runs), "poll")
      /\ UNCHANGED <<runs, inbox, gone, file, db, batch, proposals, handled, cli, faults>>
  BY DEF Monitor, NoFault, Unobserved, History
<1>2. job' \in Jobs /\ job'.next = "poll" /\ job'.file = EmptyFile
  <2>1. Len(runs) \in 0 .. Len(runs)
    BY Before, Sizes
  <2> QED BY <1>1, <2>1, ReadsRun
<1>3. Standing'
  BY <1>1, <1>2, Before DEF Standing, Places, Handling, Watching
<1> QED BY <1>1, <1>2, <1>3, Before, QuietStep DEF GoesOn

LEMMA ListenStep == ASSUME SupervisorInv, Listen PROVE SupervisorInv'
<1>1. /\ pc = "loop" /\ pc' = "poll" /\ job' = NoJob
      /\ UNCHANGED <<runs, inbox, gone, file, db, batch, proposals, handled, cli, faults>>
  BY DEF Listen, NoFault, Unobserved, History
<1>2. Standing'
  BY <1>1, Before DEF Standing, Places, Handling, Watching
<1> QED BY <1>1, <1>2, Before, QuietStep DEF GoesOn

LEMMA ObserveStep == ASSUME SupervisorInv, Observe PROVE SupervisorInv'
<1>1. /\ pc = "observe" /\ file' = [file EXCEPT !.key[job.run] = job.outcome]
      /\ \/ pc' = "notify" /\ job' = [job EXCEPT !.chats = Chats]
         \/ pc' = job.next /\ job' = NoJob
      /\ UNCHANGED <<runs, inbox, gone, db, batch, proposals, handled, cli, faults>>
  BY DEF Observe, NoFault, Unobserved, History
<1>2. /\ job.next \in {"poll", "reply", "propose"} /\ job.outcome \in Outcomes \cup {"none"}
      /\ job.next # "poll" => batch # <<>>
  BY <1>1, Before DEF Standing, Watching, Jobs
<1>3. file' \in Files /\ file'.actions = file.actions /\ file'.offset = file.offset
  <2> DEFINE r == job.run  o == job.outcome
  <2>1. file \in Files /\ o \in Outcomes \cup {"none"} /\ file' = [file EXCEPT !.key[r] = o]
    BY <1>1, <1>2, Before
  <2> HIDE DEF r, o
  <2>2. /\ [file EXCEPT !.key[r] = o] \in Files
        /\ [file EXCEPT !.key[r] = o].actions = file.actions
        /\ [file EXCEPT !.key[r] = o].offset = file.offset
    BY <2>1, KeySaved
  <2> QED BY <2>1, <2>2
<1>4. CASE pc' = "notify" /\ job' = [job EXCEPT !.chats = Chats]
  <2>1. /\ job' \in Jobs /\ job'.next = job.next /\ job'.file = job.file /\ job'.chats # <<>>
    BY <1>4, Before, Bounds DEF Jobs
  <2>2. Standing'
    BY <1>1, <1>2, <1>4, <2>1, Before DEF Standing, Places, Handling, Watching
  <2> QED BY <1>1, <1>3, <1>4, <2>1, <2>2, Before, QuietStep DEF GoesOn
<1>5. CASE pc' = job.next /\ job' = NoJob
  <2>1. Standing'
    BY <1>1, <1>2, <1>5, Before DEF Standing, Places, Handling, Watching
  <2> QED BY <1>1, <1>2, <1>3, <1>5, <2>1, Before, QuietStep DEF GoesOn
<1> QED BY <1>1, <1>4, <1>5

LEMMA CannotObserveStep == ASSUME SupervisorInv, CannotObserve PROVE SupervisorInv'
<1>1. /\ pc = "observe"
      /\ UNCHANGED <<runs, inbox, gone, file, db, proposals, handled, cli, faults>>
  BY DEF CannotObserve, NoFault, Unobserved, History
<1>2. CASE Raise
  BY <1>1, <1>2, RaiseStands, Before, QuietStep DEF GoesOn
<1>3. CASE Questioned /\ pc' = "reply" /\ job' = NoJob /\ UNCHANGED batch
  <2>1. batch # <<>>
    BY <1>1, <1>3, Before DEF Questioned, Monitoring, Standing, Watching
  <2>2. Standing'
    BY <1>3, <2>1, Before DEF Standing, Places, Handling, Watching
  <2> QED BY <1>1, <1>3, <2>2, Before, QuietStep DEF GoesOn
<1> QED BY <1>2, <1>3 DEF CannotObserve

LEMMA NotifyStep == ASSUME SupervisorInv, Notify PROVE SupervisorInv'
<1>1. /\ pc = "notify"
      /\ \/ pc' = job.next /\ job' = NoJob
         \/ pc' = pc /\ Len(job.chats) # 1 /\ job' = [job EXCEPT !.chats = Tail(@)]
      /\ UNCHANGED <<runs, inbox, gone, file, db, batch, proposals, handled, cli, faults>>
  BY DEF Notify, NoFault, Unobserved
<1>2. /\ job.next \in {"poll", "reply", "propose"}
      /\ job.chats \in Seq(STRING) /\ job.chats # <<>>
      /\ job.next # "poll" => batch # <<>>
  BY <1>1, Before DEF Standing, Watching, Jobs
<1>3. CASE pc' = job.next /\ job' = NoJob
  <2>1. Standing'
    BY <1>1, <1>2, <1>3, Before DEF Standing, Places, Handling, Watching
  <2> QED BY <1>1, <1>2, <1>3, <2>1, Before, QuietStep DEF GoesOn
<1>4. CASE pc' = pc /\ Len(job.chats) # 1 /\ job' = [job EXCEPT !.chats = Tail(@)]
  <2> DEFINE t == Tail(job.chats)
  <2>1. t \in Seq(STRING) /\ t # <<>>
    <3>1. t \in Seq(STRING) /\ Len(t) = Len(job.chats) - 1 /\ Len(job.chats) \in Nat
      BY <1>2, HeadTailProperties, LenProperties
    <3>2. Len(t) # 0
      BY <1>4, <3>1
    <3> QED BY <3>1, <3>2, EmptySeq
  <2>2. job' = [job EXCEPT !.chats = t]
    BY <1>4
  <2> HIDE DEF t
  <2>3. job' \in Jobs /\ job'.next = job.next /\ job'.file = job.file /\ job'.chats # <<>>
    BY <2>1, <2>2, Before DEF Jobs
  <2>4. Standing'
    BY <1>1, <1>2, <1>4, <2>3, Before DEF Standing, Places, Handling, Watching
  <2> QED BY <1>1, <1>4, <2>3, <2>4, Before, QuietStep DEF GoesOn
<1> QED BY <1>1, <1>3, <1>4

LEMMA TelegramStep == ASSUME SupervisorInv, TelegramFails PROVE SupervisorInv'
<1>1. /\ pc \in {"notify", "poll", "reply"} /\ Raise /\ faults < MaxFaults /\ faults' = faults + 1
      /\ UNCHANGED <<runs, inbox, gone, file, db, proposals, handled, cli>>
  BY DEF TelegramFails, Fault, Unobserved
<1>2. faults' \in 0 .. MaxFaults
  BY <1>1, Before, Bounds
<1> QED BY <1>1, <1>2, RaiseStands, Before, QuietStep DEF GoesOn

LEMMA InquireStep == ASSUME SupervisorInv, Inquire PROVE SupervisorInv'
<1>1. PICK r \in {0, Len(runs)}, n \in {"propose", "reply"} : Read(r, n)
  BY DEF Inquire
<1>2. /\ pc = "handle" /\ pc' = "observe"
      /\ UNCHANGED <<runs, inbox, gone, file, db, batch, proposals, handled, cli, faults>>
  BY DEF Inquire, NoFault, Unobserved, History
<1>3. job' \in Jobs /\ job'.next = n /\ job'.file = EmptyFile
  <2>1. Len(runs) \in Nat
    BY Before, LenProperties DEF Typed
  <2>2. r \in 0 .. Len(runs)
    BY <2>1
  <2> QED BY <1>1, <2>2, ReadsRun
<1>4. batch # <<>>
  BY <1>2, Before DEF Standing, Handling
<1>5. Standing'
  BY <1>2, <1>3, <1>4, Before DEF Standing, Places, Handling, Watching
<1> QED BY <1>2, <1>3, <1>5, Before, QuietStep DEF GoesOn

LEMMA UnauthorizedStep == ASSUME SupervisorInv, Unauthorized PROVE SupervisorInv'
<1>1. /\ pc = "handle" /\ pc' = "done"
      /\ UNCHANGED <<runs, inbox, gone, file, db, batch, job, proposals, handled, cli, faults>>
  BY DEF Unauthorized, NoFault, Unobserved, History
<1>2. Standing'
  BY <1>1, Before DEF Standing, Places, Handling, Watching
<1> QED BY <1>1, <1>2, Before, QuietStep DEF GoesOn

LEMMA SessionStep == ASSUME SupervisorInv, SessionLost PROVE SupervisorInv'
<1>1. /\ db' = FALSE /\ faults < MaxFaults /\ faults' = faults + 1
      /\ UNCHANGED <<runs, inbox, gone, file, pc, batch, job, proposals, handled, cli>>
  BY DEF SessionLost, Fault, History
<1>2. faults' \in 0 .. MaxFaults
  BY <1>1, Before, Bounds
<1>3. Standing'
  BY <1>1, Before DEF Standing
<1> QED BY <1>1, <1>2, <1>3, Before, QuietStep DEF GoesOn

-----------------------------------------------------------------------------
(* Around the worker: pipelines, operators, time, the command line.        *)

LEMMA RunsStep == ASSUME SupervisorInv, RunStarts \/ RunMoves PROVE SupervisorInv'
<1>1. UNCHANGED <<inbox, gone, file, db, pc, batch, job, proposals, handled, cli, faults>>
  BY DEF RunStarts, RunMoves, WorkerVars
<1>2. runs' \in Seq(Outcomes) /\ Len(runs') <= MaxRuns
  <2>1. runs \in Seq(Outcomes) /\ Len(runs) \in 0 .. MaxRuns /\ Len(runs) \in Nat
    BY Before, Sizes, Bounds DEF Typed
  <2>2. CASE RunStarts
    <3>1. runs' = Append(runs, "running") /\ Len(runs) < MaxRuns /\ "running" \in Outcomes
      BY <2>2 DEF RunStarts, Outcomes
    <3>2. runs' \in Seq(Outcomes) /\ Len(runs') = Len(runs) + 1
      BY <2>1, <3>1, AppendProperties
    <3> QED BY <2>1, <3>1, <3>2, Bounds
  <2>3. CASE RunMoves
    <3>1. PICK o \in Outcomes : runs' = [runs EXCEPT ![Len(runs)] = o]
      BY <2>3 DEF RunMoves
    <3>2. Len(runs) \in 1 .. Len(runs)
      BY <2>1, <2>3, EmptySeq DEF RunMoves
    <3>3. runs' \in Seq(Outcomes) /\ Len(runs') = Len(runs)
      BY <2>1, <3>1, <3>2, ExceptSeq
    <3> QED BY <2>1, <3>3, Bounds
  <2> QED BY <2>2, <2>3
<1>3. Standing'
  BY <1>1, Before DEF Standing
<1>4. Typed'
  BY <1>1, <1>2, <1>3, Before DEF Typed
<1>5. Reading'
  BY <1>1, Before, NothingRead
<1>6. Kept'
  BY <1>1, Before DEF Kept
<1>7. Deciding'
  BY <1>1, Before, NothingDecided DEF GoesOn, SameCounts
<1> QED BY <1>4, <1>5, <1>6, <1>7 DEF SupervisorInv

LEMMA AskStep == ASSUME SupervisorInv, Ask PROVE SupervisorInv'
<1>1. UNCHANGED <<runs, gone, file, db, pc, batch, job, proposals, handled, cli, faults>>
  BY DEF Ask, WorkerVars
<1>2. /\ inbox' \in Seq(Requests) /\ Len(inbox') <= MaxMessages /\ Reading'
      /\ Len(inbox) <= Len(inbox') /\ \A u \in 1 .. Len(inbox) : inbox'[u] = inbox[u]
  BY Before, AskReads
<1>3. Standing'
  BY <1>1, Before DEF Standing
<1>4. Typed'
  BY <1>1, <1>2, <1>3, Before DEF Typed
<1>5. Kept'
  <2>1. Grown
    BY <1>1, <1>2, Before, Sizes DEF Grown
  <2>2. Safe(file', inbox', handled', Len(proposals'))
    BY <1>1, <2>1, Before, SafeLater DEF Kept
  <2> QED BY <1>1, <2>1, <2>2, KeptLater
<1>6. Deciding'
  BY <1>1, Before, NothingDecided DEF GoesOn, SameCounts
<1> QED BY <1>2, <1>4, <1>5, <1>6 DEF SupervisorInv

LEMMA HourStep == ASSUME SupervisorInv, HourPasses PROVE SupervisorInv'
<1>1. PICK p \in DOMAIN proposals : proposals' = [proposals EXCEPT ![p].aged = TRUE]
  BY DEF HourPasses
<1>2. UNCHANGED <<runs, inbox, gone, file, db, pc, batch, job, handled, cli, faults>>
  BY DEF HourPasses, WorkerVars
<1>3. p \in 1 .. Len(proposals) /\ proposals[p] \in Proposal
  <2>1. p \in 1 .. Len(proposals)
    BY Before, Sizes
  <2> QED BY <2>1, Before, ElementOfSeq
<1>4. SameCounts
  <2> DEFINE e == [proposals[p] EXCEPT !.aged = TRUE]
  <2>1. /\ e \in Proposal /\ e.executed = proposals[p].executed
        /\ e.undone = proposals[p].undone
    BY <1>3 DEF Proposal
  <2>2. proposals' = [proposals EXCEPT ![p] = e]
    BY <1>1
  <2> HIDE DEF e
  <2>3. /\ proposals' \in Seq(Proposal) /\ Len(proposals') = Len(proposals)
        /\ \A q \in 1 .. Len(proposals) : proposals'[q] = IF q = p THEN e ELSE proposals[q]
    BY <1>3, <2>1, <2>2, Before, ExceptSeq
  <2> QED BY <2>1, <2>3 DEF SameCounts
<1>5. Standing'
  BY <1>2, Before DEF Standing
<1>6. Typed'
  BY <1>2, <1>4, <1>5, Before DEF Typed, SameCounts
<1>7. Reading'
  BY <1>2, Before, NothingRead
<1>8. Kept'
  BY <1>2, <1>4, Before DEF Kept, SameCounts
<1>9. Deciding'
  BY <1>2, <1>4, Before, NothingDecided DEF GoesOn
<1> QED BY <1>6, <1>7, <1>8, <1>9 DEF SupervisorInv

\* Records are lost: what was carried out stays so.
LEMMA RecordsLost ==
    ASSUME SupervisorInv, NEW ps, Lost(ps)
    PROVE  /\ proposals' \in Seq(Proposal) /\ Len(proposals') = Len(proposals)
           /\ \A q \in 1 .. Len(proposals) :
                 /\ proposals[q].executed \in Nat /\ proposals[q].undone \in Nat
                 /\ proposals'[q].executed = proposals[q].executed
                 /\ proposals'[q].undone = proposals[q].undone + (IF q \in ps THEN 1 ELSE 0)
<1> DEFINE n == Len(proposals)
           e(q) == [proposals[q] EXCEPT !.undone = @ + 1]
           s == [q \in 1 .. n |-> IF q \in ps THEN e(q) ELSE proposals[q]]
<1>1. n \in Nat /\ DOMAIN proposals = 1 .. n /\ \A q \in 1 .. n : proposals[q] \in Proposal
  BY Before, Sizes, ElementOfSeq
<1>2. ASSUME NEW q \in 1 .. n
      PROVE  /\ e(q) \in Proposal /\ e(q).executed = proposals[q].executed
             /\ e(q).undone = proposals[q].undone + 1
             /\ proposals[q].executed \in Nat /\ proposals[q].undone \in Nat
  BY <1>1, <1>2 DEF Proposal
<1>3. proposals' = s
  BY <1>1 DEF Lost
<1> HIDE DEF e, n
<1>4. s \in [1 .. n -> Proposal]
  BY <1>1, <1>2
<1>5. s \in Seq(Proposal) /\ Len(s) = n
  BY <1>1, <1>4, SeqDef, LenProperties
<1>6. ASSUME NEW q \in 1 .. n
      PROVE  /\ s[q].executed = proposals[q].executed
             /\ s[q].undone = proposals[q].undone + (IF q \in ps THEN 1 ELSE 0)
  <2>1. CASE q \in ps
    BY <1>2, <2>1
  <2>2. CASE q \notin ps
    BY <1>2, <2>2
  <2> QED BY <2>1, <2>2
<1> QED BY <1>2, <1>3, <1>5, <1>6 DEF n

LEMMA CliReadsStep ==
    ASSUME SupervisorInv, NEW p \in 1 .. MaxClis, CliReads(p) PROVE SupervisorInv'
<1>1. PICK r \in DOMAIN runs :
        cli' = [cli EXCEPT ![p].pc = "read", ![p].run = r, ![p].outcome = runs[r]]
  BY DEF CliReads
<1>2. /\ UNCHANGED <<runs, inbox, gone, file, db, pc, batch, job, proposals, handled>>
      /\ faults < MaxFaults /\ faults' = faults + 1
  BY DEF CliReads, Fault, Outside
<1>3. faults' \in 0 .. MaxFaults
  BY <1>2, Before, Bounds
<1>4. r \in 1 .. MaxRuns /\ r \in 0 .. MaxRuns /\ runs[r] \in Outcomes
  BY Before, Sizes, Bounds
<1> DEFINE c == [cli[p] EXCEPT !.pc = "read", !.run = r, !.outcome = runs[r]]
<1>5. c \in Clis /\ c.file = cli[p].file
  BY <1>4, Before DEF Clis
<1>6. cli' = [cli EXCEPT ![p] = c]
  BY <1>1, Before DEF Clis
<1> HIDE DEF c
<1>7. /\ cli' \in [1 .. MaxClis -> Clis]
      /\ \A q \in 1 .. MaxClis : cli'[q].file = cli[q].file
  BY <1>5, <1>6, Before
<1>8. Standing'
  BY <1>2, Before DEF Standing
<1>9. Typed'
  BY <1>3, <1>2, <1>7, <1>8, Before DEF Typed
<1>10. Reading'
  BY <1>2, Before, NothingRead
<1>11. Kept'
  BY <1>2, <1>7, Before DEF Kept
<1>12. Deciding'
  BY <1>2, Before, NothingDecided DEF GoesOn, SameCounts
<1> QED BY <1>9, <1>10, <1>11, <1>12 DEF SupervisorInv

LEMMA CliLoadsStep ==
    ASSUME SupervisorInv, NEW p \in 1 .. MaxClis, CliLoads(p) PROVE SupervisorInv'
<1>1. /\ cli' = [cli EXCEPT ![p].pc = "loaded", ![p].file = file]
      /\ UNCHANGED <<runs, inbox, gone, file, db, pc, batch, job, proposals, handled, faults>>
  BY DEF CliLoads, NoFault, Outside
<1> DEFINE c == [cli[p] EXCEPT !.pc = "loaded", !.file = file]
<1>2. c \in Clis /\ c.file = file
  BY Before DEF Clis
<1>3. cli' = [cli EXCEPT ![p] = c]
  BY <1>1, Before DEF Clis
<1> HIDE DEF c
<1>4. /\ cli' \in [1 .. MaxClis -> Clis]
      /\ \A q \in 1 .. MaxClis : cli'[q].file \in {cli[q].file, file, EmptyFile}
  BY <1>2, <1>3, Before
<1>5. Standing'
  BY <1>1, Before DEF Standing
<1>6. Typed'
  BY <1>1, <1>4, <1>5, Before DEF Typed
<1>7. Reading'
  BY <1>1, Before, NothingRead
<1>8. Kept'
  <2>1. Grown
    BY <1>1, Before, NothingGrown
  <2>2. Safe(file', inbox', handled', Len(proposals'))
    BY <1>1, Before DEF Kept
  <2> QED BY <1>1, <1>4, <2>1, <2>2, KeptLater
<1>9. Deciding'
  BY <1>1, Before, NothingDecided DEF GoesOn, SameCounts
<1> QED BY <1>6, <1>7, <1>8, <1>9 DEF SupervisorInv

\* The copy is put back: a proposal whose record it does not have lost it.
LEMMA CliSavesStep ==
    ASSUME SupervisorInv, NEW p \in 1 .. MaxClis, CliSaves(p) PROVE SupervisorInv'
<1> DEFINE f == cli[p].file
           ps == {q \in DOMAIN proposals : Recorded(file, q) /\ ~Recorded(f, q)}
<1>1. /\ file' = [f EXCEPT !.key[cli[p].run] = cli[p].outcome] /\ Lost(ps)
      /\ cli' = [cli EXCEPT ![p].pc = "done", ![p].file = EmptyFile]
      /\ UNCHANGED <<runs, inbox, gone, db, pc, batch, job, handled, faults>>
  BY DEF CliSaves, NoFault, Outside
<1>2. /\ file' \in Files /\ file'.actions = f.actions /\ file'.offset = f.offset
      /\ f \in Files
  <2> DEFINE r == cli[p].run  o == cli[p].outcome
  <2>1. f \in Files /\ o \in Outcomes \cup {"none"} /\ file' = [f EXCEPT !.key[r] = o]
    BY <1>1, Before DEF Clis
  <2> HIDE DEF f, r, o
  <2>2. /\ [f EXCEPT !.key[r] = o] \in Files
        /\ [f EXCEPT !.key[r] = o].actions = f.actions
        /\ [f EXCEPT !.key[r] = o].offset = f.offset
    BY <2>1, KeySaved
  <2> QED BY <2>1, <2>2
<1>3. /\ proposals' \in Seq(Proposal) /\ Len(proposals') = Len(proposals)
      /\ \A q \in 1 .. Len(proposals) :
            /\ proposals[q].executed \in Nat /\ proposals[q].undone \in Nat
            /\ proposals'[q].executed = proposals[q].executed
            /\ proposals'[q].undone = proposals[q].undone + (IF q \in ps THEN 1 ELSE 0)
  <2> HIDE DEF ps
  <2> QED BY <1>1, RecordsLost
<1>4. /\ cli' \in [1 .. MaxClis -> Clis]
      /\ \A q \in 1 .. MaxClis : cli'[q].file \in {cli[q].file, file, EmptyFile}
  <2> DEFINE c == [cli[p] EXCEPT !.pc = "done", !.file = EmptyFile]
  <2>1. c \in Clis /\ c.file = EmptyFile
    BY Before, Empty DEF Clis
  <2>2. cli' = [cli EXCEPT ![p] = c]
    BY <1>1, Before DEF Clis
  <2> HIDE DEF c
  <2> QED BY <2>1, <2>2, Before
<1>5. Standing'
  BY <1>1, Before DEF Standing
<1>6. Typed'
  BY <1>1, <1>2, <1>3, <1>4, <1>5, Before DEF Typed
<1>7. Reading'
  BY <1>1, Before, NothingRead
<1>8. Kept'
  <2>1. Grown
    BY <1>1, <1>3, Before, NothingGrown
  <2>2. Safe(f, inbox', handled', Len(proposals'))
    BY <1>2, <2>1, Before, SafeLater DEF Kept
  <2>3. Safe(file', inbox', handled', Len(proposals'))
    <3> HIDE DEF f
    <3> QED BY <1>2, <2>2, SafeAlike
  <2> QED BY <1>1, <1>4, <2>1, <2>3, KeptLater
<1>9. Deciding'
  <2>1. \A q : /\ Recorded(file', q) <=> Recorded(f, q)
               /\ InProgress(q)' <=> InProgress(q)
    BY <1>1, <1>2 DEF Recorded, InProgress, Acting
  <2>2. DOMAIN proposals = 1 .. Len(proposals)
    BY Before, Sizes
  <2>3. ASSUME NEW q \in 1 .. Len(proposals)
        PROVE  Counted(q, proposals', Recorded(file', q) \/ InProgress(q)')
    <3>1. Counted(q, proposals, Recorded(file, q) \/ InProgress(q))
      BY Before DEF Deciding
    <3>2. q \in ps <=> Recorded(file, q) /\ ~Recorded(f, q)
      BY <2>2, <2>3
    <3> HIDE DEF f, ps
    <3> QED BY <1>3, <2>1, <3>1, <3>2 DEF Counted
  <2>4. Saving'
    <3> HIDE DEF f, ps
    <3>1. \A q \in 1 .. Len(proposals) :
             Counted(q, proposals, Recorded(job.file, q) \/ q = Acting)
                => Counted(q, proposals', Recorded(job.file, q) \/ q = Acting)
      BY <1>3 DEF Counted
    <3>2. job' = job /\ pc' = pc /\ Saving
      BY <1>1, Before
    <3> QED BY <1>3, <3>1, <3>2 DEF Saving, Acting, Recorded
  <2> QED BY <1>3, <2>3, <2>4 DEF Deciding
<1> QED BY <1>6, <1>7, <1>8, <1>9 DEF SupervisorInv

-----------------------------------------------------------------------------
(* The updates and the actions.                                            *)

LEMMA PollStep == ASSUME SupervisorInv, Poll PROVE SupervisorInv'
<1>1. /\ pc = "poll" /\ job' = NoJob
      /\ pc' = (IF batch' = <<>> THEN "loop" ELSE "handle")
      /\ UNCHANGED <<runs, inbox, file, db, proposals, handled, cli, faults>>
  BY DEF Poll, NoFault, Unobserved, History
<1>2. batch' \in Seq(1 .. MaxMessages) /\ gone' \in 0 .. MaxMessages /\ Reading'
  BY PollReads
<1>3. Standing'
  BY <1>1, <1>2, Before DEF Standing, Places, Handling, Watching
<1>4. Typed'
  BY <1>1, <1>2, <1>3, Before DEF Typed
<1>5. Kept'
  <2>1. Grown
    BY <1>1, Before, NothingGrown
  <2>2. Safe(file', inbox', handled', Len(proposals'))
    BY <1>1, Before DEF Kept
  <2> QED BY <1>1, <2>1, <2>2, Before, KeptLater
<1>6. Deciding'
  BY <1>1, Before, NothingDecided DEF GoesOn, SameCounts
<1> QED BY <1>2, <1>4, <1>5, <1>6 DEF SupervisorInv

\* A new proposal: its number is in no file that could be put back.
LEMMA ProposeStep == ASSUME SupervisorInv, Propose PROVE SupervisorInv'
<1> DEFINE n == Len(file.actions)
           m == Len(proposals)
           e == [id |-> m + 1, status |-> "pending"]
<1>1. /\ pc \in {"handle", "propose"} /\ pc' = "reply"
      /\ file' = [file EXCEPT !.actions = Append(@, e)]
      /\ proposals' = Append(proposals, NewProposal)
      /\ UNCHANGED <<runs, inbox, gone, db, batch, job, handled, cli, faults>>
  BY DEF Propose, NoFault, Unobserved
<1>2. /\ m \in Nat /\ proposals' \in Seq(Proposal) /\ Len(proposals') = m + 1
      /\ proposals'[m + 1] = NewProposal
      /\ \A q \in 1 .. m : proposals'[q] = proposals[q]
  <2>1. NewProposal \in Proposal /\ m \in Nat
    BY Before, Sizes DEF NewProposal, Proposal
  <2> QED BY <1>1, <2>1, Before, AppendProperties
<1>3. /\ file' \in Files /\ file'.offset = file.offset /\ n \in Nat
      /\ Len(file'.actions) = n + 1 /\ file'.actions[n + 1] = e
      /\ \A j \in 1 .. n : file'.actions[j] = file.actions[j]
  <2> DEFINE i == m + 1
             g == [file EXCEPT !.actions = Append(@, [id |-> i, status |-> "pending"])]
  <2>1. i \in Nat /\ file \in Files /\ file' = g
    BY <1>1, <1>2, Before
  <2> HIDE DEF i
  <2>2. /\ g \in Files /\ g.offset = file.offset /\ n \in Nat
        /\ Len(g.actions) = n + 1
        /\ g.actions[n + 1] = [id |-> i, status |-> "pending"]
        /\ \A j \in 1 .. n : g.actions[j] = file.actions[j]
    BY <2>1, ActionAdded
  <2> HIDE DEF g
  <2> QED BY <2>1, <2>2 DEF i
<1>4. e.id = m + 1 /\ e.status = "pending"
  OBVIOUS
<1> HIDE DEF n, e
<1>5. Standing'
  <2>1. batch # <<>>
    BY <1>1, Before DEF Standing, Handling
  <2> QED BY <1>1, <2>1, Before DEF Standing, Places, Handling, Watching
<1>6. Typed'
  BY <1>1, <1>2, <1>3, <1>5, Before DEF Typed
<1>7. Reading'
  BY <1>1, Before, NothingRead
<1>8. \A j \in 1 .. n : file.actions[j].id \in 1 .. m
  BY Before DEF Kept, Safe, n
<1>9. Kept'
  <2>1. Grown
    BY <1>1, <1>2, Before, Sizes DEF Grown
  <2>2. Safe(file, inbox, handled, m)
    BY Before DEF Kept
  <2>3. \A k \in 1 .. n + 1 : k \in 1 .. n \/ k = n + 1
    BY <1>3
  <2>4. \A k \in 1 .. n + 1 : file'.actions[k].id \in 1 .. m + 1
    BY <1>2, <1>3, <1>4, <1>8, <2>3
  <2>5. ASSUME NEW j \in 1 .. n + 1, NEW k \in 1 .. n + 1,
               file'.actions[j].id = file'.actions[k].id
        PROVE  j = k
    <3>1. \A i \in 1 .. n : file'.actions[i].id # m + 1
      BY <1>2, <1>3, <1>8
    <3>2. CASE j \in 1 .. n /\ k \in 1 .. n
      BY <1>3, <2>2, <2>5, <3>2 DEF Safe, n
    <3>3. CASE j = n + 1 \/ k = n + 1
      BY <1>3, <1>4, <2>3, <2>5, <3>1, <3>3
    <3> QED BY <2>3, <3>2, <3>3
  <2>6. Safe(file', inbox', handled', Len(proposals'))
    BY <1>1, <1>2, <1>3, <2>2, <2>4, <2>5 DEF Safe
  <2> QED BY <1>1, <2>1, <2>6, KeptLater
<1>10. Deciding'
  <2>1. Saving'
    BY <1>1 DEF Saving
  <2>2. \A q : ~InProgress(q) /\ ~InProgress(q)'
    BY <1>1 DEF InProgress
  <2>3. \A q : Recorded(file, q) => Recorded(file', q)
    <3>1. DOMAIN file.actions = 1 .. n /\ DOMAIN file'.actions = 1 .. n + 1
      BY <1>3, <1>6, Before, Sizes, FilesAre, LenProperties DEF n
    <3>2. \A j \in 1 .. n : j \in 1 .. n + 1
      BY <1>3
    <3> QED BY <1>3, <3>1, <3>2 DEF Recorded
  <2>4. ASSUME NEW q \in 1 .. m + 1
        PROVE  Counted(q, proposals', Recorded(file', q) \/ InProgress(q)')
    <3>1. CASE q = m + 1
      <4>1. proposals'[q].executed = 0 /\ proposals'[q].undone = 0
        BY <1>2, <3>1 DEF NewProposal
      <4> QED BY <4>1 DEF Counted
    <3>2. CASE q \in 1 .. m
      <4>1. /\ proposals[q].executed \in Nat /\ proposals[q].undone \in Nat
            /\ proposals[q].executed <= proposals[q].undone + 1
            /\ ~Recorded(file, q) => proposals[q].executed <= proposals[q].undone
        BY <2>2, <3>2, Accounts DEF m
      <4> QED BY <1>2, <2>3, <3>2, <4>1 DEF Counted
    <3> QED BY <1>2, <2>4, <3>1, <3>2
  <2> QED BY <1>2, <2>1, <2>4 DEF Deciding
<1> QED BY <1>6, <1>7, <1>9, <1>10 DEF SupervisorInv

\* What is declined was not carried out, but for records that were lost, and
\* it has no record afterwards either.
LEMMA DeclineStep == ASSUME SupervisorInv, Decline PROVE SupervisorInv'
<1>1. /\ pc = "handle" /\ pc' = "reply"
      /\ UNCHANGED <<runs, inbox, gone, db, batch, job, proposals, handled, cli, faults>>
  BY DEF Decline, NoFault, Unobserved, History
<1>2. Standing'
  <2>1. batch # <<>>
    BY <1>1, Before DEF Standing, Handling
  <2> QED BY <1>1, <2>1, Before DEF Standing, Places, Handling, Watching
<1>3. CASE UNCHANGED file
  BY <1>1, <1>2, <1>3, Before, QuietStep DEF GoesOn
<1>4. ASSUME NEW k \in DOMAIN file.actions, NEW v \in {"expired", "rejected"},
             ~Closed(file.actions[k]), file' = [file EXCEPT !.actions[k].status = v]
      PROVE  SupervisorInv'
  <2>1. k \in 1 .. Len(file.actions) /\ v \in Status
    BY Before, Sizes DEF Status
  <2>2. Decided(file, file', k, v)
    BY <1>4, <2>1, Before, ActionSaved
  <2>3. \A q : Recorded(file, q) => Recorded(file', q)
    <3>1. DOMAIN file.actions = DOMAIN file'.actions
      BY <2>2, Before, FilesAre, LenProperties DEF Decided
    <3>2. file.actions[k].status \notin {"completed", "failed"}
      BY <1>4 DEF Closed
    <3>3. DOMAIN file.actions = 1 .. Len(file.actions)
      BY Before, Sizes
    <3> QED BY <2>2, <3>1, <3>2, <3>3 DEF Recorded, Decided
  <2>4. Deciding'
    <3>1. \A q : ~InProgress(q) /\ ~InProgress(q)'
      BY <1>1 DEF InProgress
    <3>2. ASSUME NEW q \in 1 .. Len(proposals)
          PROVE  Counted(q, proposals, Recorded(file', q) \/ InProgress(q)')
      <4>1. /\ proposals[q].executed \in Nat /\ proposals[q].undone \in Nat
            /\ proposals[q].executed <= proposals[q].undone + 1
            /\ ~Recorded(file, q) => proposals[q].executed <= proposals[q].undone
        BY <3>1, Accounts
      <4> QED BY <2>3, <4>1 DEF Counted
    <3>3. Saving'
      BY <1>1 DEF Saving
    <3> QED BY <1>1, <3>2, <3>3 DEF Deciding
  <2>5. file' \in Files
    BY <2>2 DEF Decided
  <2>6. Typed'
    BY <1>1, <1>2, <2>5, Before DEF Typed
  <2>7. Reading'
    BY <1>1, Before, NothingRead
  <2>8. Kept'
    <3>1. Grown
      BY <1>1, Before, NothingGrown
    <3>2. Safe(file', inbox', handled', Len(proposals'))
      BY <1>1, <2>2, Before, SafeDecided DEF Kept
    <3> QED BY <1>1, <3>1, <3>2, KeptLater
  <2> QED BY <2>4, <2>6, <2>7, <2>8 DEF SupervisorInv
<1>5. \/ UNCHANGED file
      \/ \E k \in DOMAIN file.actions, v \in {"expired", "rejected"} :
            ~Closed(file.actions[k]) /\ file' = [file EXCEPT !.actions[k].status = v]
  BY DEF Decline, Resolve
<1> QED BY <1>3, <1>4, <1>5

\* The action that is carried out had no record: the one it will have is its own.
LEMMA ExecuteStep == ASSUME SupervisorInv, Execute PROVE SupervisorInv'
<1>1. PICK k \in DOMAIN file.actions :
        /\ ~Closed(file.actions[k])
        /\ proposals' = [proposals EXCEPT ![file.actions[k].id].executed = @ + 1]
        /\ job' = [NoJob EXCEPT !.action = k, !.file = file]
  BY DEF Execute
<1>2. /\ pc = "handle" /\ pc' = "executed"
      /\ UNCHANGED <<runs, inbox, gone, file, db, batch, handled, cli, faults>>
  BY DEF Execute, NoFault, Unobserved
<1> DEFINE p == file.actions[k].id
           e == [proposals[p] EXCEPT !.executed = @ + 1]
<1>3. /\ k \in 1 .. Len(file.actions) /\ k \in Nat /\ p \in 1 .. Len(proposals)
      /\ DOMAIN file.actions = 1 .. Len(file.actions)
      /\ \A j \in 1 .. Len(file.actions) : file.actions[j].id = p => j = k
  <2>1. /\ DOMAIN file.actions = 1 .. Len(file.actions) /\ Len(file.actions) \in Nat
        /\ k \in 1 .. Len(file.actions)
    BY Before, Sizes
  <2>2. Safe(file, inbox, handled, Len(proposals))
    BY Before DEF Kept
  <2>3. k \in Nat
    BY <2>1
  <2> QED BY <2>1, <2>2, <2>3 DEF Safe
<1>4. e \in Proposal /\ e.executed = proposals[p].executed + 1 /\ e.undone = proposals[p].undone
  <2>1. proposals[p] \in Proposal
    BY <1>3, Before, ElementOfSeq
  <2> QED BY <2>1 DEF Proposal
<1>5. proposals' = [proposals EXCEPT ![p] = e]
  BY <1>1
<1>6. job' \in Jobs /\ job'.action = k /\ job'.file = file
  BY <1>1, <1>3, Before DEF Jobs
<1>7. ~Recorded(file, p)
  BY <1>1, <1>3 DEF Recorded, Closed
<1>8. Acting' = p
  BY <1>6 DEF Acting
<1> HIDE DEF e
<1>9. /\ proposals' \in Seq(Proposal) /\ Len(proposals') = Len(proposals)
      /\ \A q \in 1 .. Len(proposals) : proposals'[q] = IF q = p THEN e ELSE proposals[q]
  <2> HIDE DEF p
  <2> QED BY <1>3, <1>4, <1>5, Before, ExceptSeq
<1> HIDE DEF p
<1>10. Standing'
  <2>1. batch # <<>>
    BY <1>2, Before DEF Standing, Handling
  <2> QED BY <1>2, <1>6, <2>1, Before DEF Standing, Places, Handling, Watching
<1>11. Typed'
  BY <1>2, <1>9, <1>10, Before DEF Typed
<1>12. Reading'
  BY <1>2, Before, NothingRead
<1>13. Kept'
  <2>1. Grown
    BY <1>2, <1>9, Before, NothingGrown
  <2>2. Safe(file', inbox', handled', Len(proposals'))
    BY <1>2, <1>9, Before DEF Kept
  <2> QED BY <1>2, <1>6, <2>1, <2>2, KeptLater
<1>14. ASSUME NEW q \in 1 .. Len(proposals)
       PROVE  Counted(q, proposals', Recorded(file, q) \/ q = p)
  <2>1. ~InProgress(q)
    BY <1>2 DEF InProgress
  <2>2. /\ proposals[q].executed \in Nat /\ proposals[q].undone \in Nat
        /\ proposals[q].executed <= proposals[q].undone + 1
        /\ ~Recorded(file, q) => proposals[q].executed <= proposals[q].undone
    BY <2>1, Accounts
  <2>3. CASE q = p
    BY <1>4, <1>7, <1>9, <2>2, <2>3 DEF Counted
  <2>4. CASE q # p
    BY <1>9, <2>2, <2>4 DEF Counted
  <2> QED BY <2>3, <2>4
<1>15. Deciding'
  <2>1. \A q : InProgress(q)' <=> q = p
    BY <1>2, <1>8 DEF InProgress
  <2>2. ASSUME NEW q \in 1 .. Len(proposals)
        PROVE  Counted(q, proposals', Recorded(file', q) \/ InProgress(q)')
    BY <1>2, <1>14, <2>1, <2>2 DEF Counted
  <2>3. ASSUME NEW q \in 1 .. Len(proposals)
        PROVE  Counted(q, proposals', Recorded(job'.file, q) \/ q = Acting')
    BY <1>6, <1>8, <1>14, <2>3 DEF Counted
  <2>4. Saving'
    BY <1>3, <1>6, <1>9, <2>3 DEF Saving
  <2> QED BY <1>9, <2>2, <2>4 DEF Deciding
<1> QED BY <1>11, <1>12, <1>13, <1>15 DEF SupervisorInv

\* The copy loaded before the action is saved, with the verdict.
LEMMA ExecutedStep == ASSUME SupervisorInv, Executed PROVE SupervisorInv'
<1> DEFINE k == job.action
           f == job.file
<1>1. PICK v \in {"completed", "failed"} : file' = [f EXCEPT !.actions[k].status = v]
  BY DEF Executed
<1>2. /\ pc = "executed" /\ pc' = "reply" /\ job' = NoJob
      /\ UNCHANGED <<runs, inbox, gone, db, batch, proposals, handled, cli, faults>>
  BY DEF Executed, NoFault, Unobserved, History
<1>3. k \in 1 .. Len(f.actions) /\ f \in Files /\ v \in Status
  BY <1>2, Before DEF Saving, Status
<1>4. Acting = f.actions[k].id
  BY DEF Acting
<1> HIDE DEF k, f
<1>5. Decided(f, file', k, v)
  BY <1>1, <1>3, ActionSaved
<1>6. \A q : Recorded(f, q) \/ q = Acting => Recorded(file', q)
  <2>1. DOMAIN f.actions = 1 .. Len(f.actions) /\ DOMAIN file'.actions = 1 .. Len(f.actions)
    BY <1>3, <1>5, FilesAre, LenProperties DEF Decided
  <2>2. Recorded(file', Acting)
    BY <1>3, <1>4, <1>5, <2>1 DEF Recorded, Decided
  <2>3. ASSUME NEW q, Recorded(f, q), q # Acting PROVE Recorded(file', q)
    <3>1. PICK j \in 1 .. Len(f.actions) :
            f.actions[j].id = q /\ f.actions[j].status \in {"completed", "failed"}
      BY <2>1, <2>3 DEF Recorded
    <3>2. j # k
      BY <1>4, <2>3, <3>1
    <3>3. file'.actions[j] = f.actions[j]
      BY <1>5, <3>1, <3>2 DEF Decided
    <3> QED BY <2>1, <3>1, <3>3 DEF Recorded
  <2> QED BY <2>2, <2>3
<1>7. Deciding'
  <2>1. ASSUME NEW q \in 1 .. Len(proposals)
        PROVE  Counted(q, proposals, Recorded(file', q) \/ InProgress(q)')
    <3>1. Counted(q, proposals, Recorded(f, q) \/ q = Acting)
      BY <1>2, <2>1, Before DEF Saving, f
    <3>2. ~InProgress(q)'
      BY <1>2 DEF InProgress
    <3>3. proposals[q].executed \in Nat /\ proposals[q].undone \in Nat
          /\ proposals[q].executed <= proposals[q].undone + 1
      BY <2>1, Accounts
    <3> QED BY <1>6, <3>1, <3>2, <3>3 DEF Counted
  <2>2. Saving'
    BY <1>2 DEF Saving
  <2> QED BY <1>2, <2>1, <2>2 DEF Deciding
<1>8. file' \in Files
  BY <1>5 DEF Decided
<1>9. Standing'
  <2>1. batch # <<>>
    BY <1>2, Before DEF Standing, Handling
  <2> QED BY <1>2, <2>1, Before DEF Standing, Places, Handling, Watching
<1>10. Typed'
  BY <1>2, <1>8, <1>9, Before DEF Typed
<1>11. Reading'
  BY <1>2, Before, NothingRead
<1>12. Kept'
  <2>1. Grown
    BY <1>2, Before, NothingGrown
  <2>2. Safe(f, inbox', handled', Len(proposals'))
    BY <1>2, Before DEF Kept, f
  <2>3. Safe(file', inbox', handled', Len(proposals'))
    BY <1>5, <2>2, SafeDecided
  <2> QED BY <1>2, <2>1, <2>3, Before, KeptLater
<1> QED BY <1>7, <1>10, <1>11, <1>12 DEF SupervisorInv

LEMMA AcknowledgeStep == ASSUME SupervisorInv, Acknowledge PROVE SupervisorInv'
<1>1. /\ pc \in {"reply", "done"} /\ job' = NoJob
      /\ pc' = (IF batch' = <<>> THEN "loop" ELSE "handle")
      /\ UNCHANGED <<runs, inbox, gone, db, proposals, cli, faults>>
  BY DEF Acknowledge, NoFault, Unobserved
<1>2. /\ batch' \in Seq(1 .. MaxMessages) /\ file' \in Files
      /\ file'.actions = file.actions /\ Reading' /\ handled \subseteq handled'
      /\ Safe(file', inbox', handled', Len(proposals))
  BY AcknowledgeReads
<1>3. Standing'
  BY <1>1, <1>2, Before DEF Standing, Places, Handling, Watching
<1>4. Typed'
  BY <1>1, <1>2, <1>3, Before DEF Typed
<1>5. Kept'
  <2>1. Grown
    BY <1>1, <1>2, Before, Sizes DEF Grown
  <2> QED BY <1>1, <1>2, <2>1, Before, KeptLater
<1>6. Deciding'
  BY <1>1, <1>2, Before, NothingDecided DEF GoesOn, SameCounts
<1> QED BY <1>2, <1>4, <1>5, <1>6 DEF SupervisorInv

\* The record of an action that was just carried out is lost with the worker.
LEMMA DiesStep == ASSUME SupervisorInv, Dies PROVE SupervisorInv'
<1> DEFINE ps == IF pc = "executed" THEN {Acting} ELSE {}
<1>1. /\ faults < MaxFaults /\ faults' = faults + 1 /\ pc' = "loop" /\ batch' = <<>>
      /\ job' = NoJob /\ db' = TRUE /\ Lost(ps)
      /\ UNCHANGED <<runs, inbox, gone, file, handled, cli>>
  BY DEF Dies, Fault
<1>2. /\ proposals' \in Seq(Proposal) /\ Len(proposals') = Len(proposals)
      /\ \A q \in 1 .. Len(proposals) :
            /\ proposals'[q].executed = proposals[q].executed
            /\ proposals'[q].undone = proposals[q].undone + (IF q \in ps THEN 1 ELSE 0)
  <2> HIDE DEF ps
  <2> QED BY <1>1, RecordsLost
<1>3. faults' \in 0 .. MaxFaults
  BY <1>1, Before, Bounds
<1>4. Standing'
  BY <1>1, Before DEF Standing, Places, Handling, Watching
<1>5. Typed'
  BY <1>1, <1>2, <1>3, <1>4, Before DEF Typed
<1>6. Reading'
  BY <1>1, Before, NothingRead
<1>7. Kept'
  <2>1. Grown
    BY <1>1, <1>2, Before, NothingGrown
  <2>2. Safe(file', inbox', handled', Len(proposals'))
    BY <1>1, <1>2, Before DEF Kept
  <2> QED BY <1>1, <2>1, <2>2, Before, KeptLater
<1>8. Deciding'
  <2>1. Saving' /\ \A q : ~InProgress(q)'
    BY <1>1 DEF Saving, InProgress
  <2>2. \A q : InProgress(q) => q \in ps
    BY DEF InProgress
  <2>3. ASSUME NEW q \in 1 .. Len(proposals)
        PROVE  Counted(q, proposals', Recorded(file, q))
    <3>1. /\ proposals[q].executed \in Nat /\ proposals[q].undone \in Nat
          /\ proposals[q].executed <= proposals[q].undone + 1
          /\ ~Recorded(file, q) /\ ~InProgress(q)
                => proposals[q].executed <= proposals[q].undone
      BY <2>3, Accounts
    <3> HIDE DEF ps
    <3> QED BY <1>2, <2>2, <3>1 DEF Counted
  <2>4. ASSUME NEW q \in 1 .. Len(proposals)
        PROVE  Counted(q, proposals', Recorded(file', q) \/ InProgress(q)')
    BY <1>1, <2>1, <2>3, <2>4 DEF Counted
  <2> QED BY <1>2, <2>1, <2>4 DEF Deciding
<1> QED BY <1>5, <1>6, <1>7, <1>8 DEF SupervisorInv

-----------------------------------------------------------------------------
(* The theorems.                                                           *)

LEMMA InvInit == Init => SupervisorInv
<1> SUFFICES ASSUME Init PROVE SupervisorInv
  OBVIOUS
<1>1. /\ runs = <<>> /\ inbox = <<>> /\ gone = 0 /\ file = EmptyFile /\ db = TRUE
      /\ pc = "loop" /\ batch = <<>> /\ job = NoJob /\ handled = {} /\ proposals = <<>>
      /\ cli = [p \in 1 .. MaxClis |-> Unused] /\ faults = 0
  BY DEF Init
<1>2. Len(<<>>) = 0 /\ \A S : <<>> \in Seq(S)
  BY EmptySeq
<1>3. Typed
  <2>1. Standing
    BY <1>1, <1>2, Empty DEF Standing, Places, Handling, Watching
  <2>2. cli \in [1 .. MaxClis -> Clis]
    BY <1>1, Empty
  <2>3. /\ runs \in Seq(Outcomes) /\ Len(runs) <= MaxRuns
        /\ inbox \in Seq(Requests) /\ Len(inbox) <= MaxMessages
        /\ gone \in 0 .. MaxMessages /\ faults \in 0 .. MaxFaults
        /\ proposals \in Seq(Proposal)
    BY <1>1, <1>2, Bounds
  <2> QED BY <1>1, <2>1, <2>2, <2>3, Empty DEF Typed
<1>4. Reading
  <2>1. DOMAIN batch = {} /\ 1 .. Len(inbox) = {} /\ Len(inbox) = 0
    BY <1>1, <1>2
  <2> QED BY <1>1, <2>1 DEF Reading, Sorted, Complete
<1>5. Kept
  <2>1. \A made : Safe(EmptyFile, inbox, handled, made)
    BY <1>1, <1>2, EmptySafe
  <2> QED BY <1>1, <2>1, Empty DEF Kept
<1>6. Deciding
  <2>1. 1 .. Len(proposals) = {}
    BY <1>1, <1>2
  <2> QED BY <1>1, <2>1 DEF Deciding, Saving
<1> QED BY <1>3, <1>4, <1>5, <1>6 DEF SupervisorInv

LEMMA InvStep == SupervisorInv /\ [Next]_vars => SupervisorInv'
<1> SUFFICES ASSUME SupervisorInv, [Next]_vars PROVE SupervisorInv'
  OBVIOUS
<1>1. CASE RunStarts \/ RunMoves \/ Ask \/ HourPasses
  BY <1>1, RunsStep, AskStep, HourStep
<1>2. CASE Worker
  BY <1>2, MonitorStep, ListenStep, ObserveStep, CannotObserveStep, NotifyStep, PollStep,
     InquireStep, UnauthorizedStep, ProposeStep, DeclineStep, ExecuteStep, ExecutedStep,
     AcknowledgeStep DEF Worker
<1>3. CASE TelegramFails \/ Dies \/ SessionLost
  BY <1>3, TelegramStep, DiesStep, SessionStep
<1>4. CASE \E p \in 1 .. MaxClis : CommandLine(p)
  BY <1>4, CliReadsStep, CliLoadsStep, CliSavesStep DEF CommandLine
<1>5. CASE UNCHANGED vars
  <2>1. UNCHANGED <<runs, inbox, gone, file, db, pc, batch, job, proposals, handled, cli, faults>>
    BY <1>5 DEF vars
  <2>2. Standing'
    BY <2>1, Before DEF Standing
  <2> QED BY <2>1, <2>2, Before, QuietStep DEF GoesOn
<1> QED BY <1>1, <1>2, <1>3, <1>4, <1>5 DEF Next

LEMMA Invariant == Spec => []SupervisorInv
  BY InvInit, InvStep, PTL DEF Spec

\* Every variable keeps its type, and the worker always has a batch when it
\* acts for an update.
THEOREM SupervisorTypes == Spec => []TypeOK
<1>1. ASSUME SupervisorInv PROVE TypeOK
  <2>1. handled \subseteq DOMAIN inbox
    BY <1>1, Before, Sizes DEF Reading
  <2>2. job.file \in Files /\ job.run \in 0 .. MaxRuns
    BY <1>1, Before DEF Jobs
  <2>3. proposals \in Seq([executed : Nat, undone : Nat, aged : BOOLEAN])
    BY <1>1, Before DEF Proposal
  <2> QED BY <1>1, <2>1, <2>2, <2>3, Before
          DEF TypeOK, Typed, Standing, Places, Handling, Watching
<1> QED BY <1>1, Invariant, PTL

\* However the operators decide, repeat and fail to get an answer, and whatever
\* files the command line tool puts back, each repetition of an action needs a
\* loss of its record: by a worker that dies between the action and the save,
\* or by a file that was loaded before that save and put back after it.  What
\* the file has as open, rejected or expired was carried out no more often than
\* its record was lost (telegram.py, _resolve_action).
THEOREM OnceOnly == Spec => []ActionRunsOnce
<1>1. ASSUME SupervisorInv PROVE ActionRunsOnce
  <2>1. DOMAIN proposals = 1 .. Len(proposals)
    BY <1>1, Before, Sizes
  <2>2. \A q \in 1 .. Len(proposals) :
           proposals[q].executed <= proposals[q].undone
              + (IF Recorded(file, q) \/ InProgress(q) THEN 1 ELSE 0)
    BY <1>1, Before DEF Deciding, Counted
  <2> QED BY <2>1, <2>2 DEF ActionRunsOnce
<1> QED BY <1>1, Invariant, PTL

\* No update is confirmed to Telegram, nor passed over by the stored offset,
\* before it was handled to its end, and no file put back passes one over
\* (telegram.py, poll_once).
THEOREM NothingSkipped == Spec => []NoUpdateSkipped
<1>1. SupervisorInv => NoUpdateSkipped
  BY DEF SupervisorInv, Reading, Kept, Safe, Past, NoUpdateSkipped
<1> QED BY <1>1, Invariant, PTL
=============================================================================
