-------------------------- MODULE Ingestion_proofs --------------------------
(***************************************************************************)
(* The safety of the full pipeline for any number of processes, launches   *)
(* and failures.                                                           *)
(***************************************************************************)
EXTENDS Ingestion, TLAPS

Places == {"off", "prepare", "provider", "lock", "begin", "next", "stage",
           "scope", "finish", "cleanup", "failing", "closing"}

Undecided == {"prepare", "provider", "lock", "begin", "next", "stage",
              "scope", "finish"}

\* Required, as a function of the run.
Needs(r) ==
    IF r.scope = "empty" THEN {"scrape"}
    ELSE {"scrape"} \cup ToSet(StagesFor(r.want, r.scope = "new"))

\* LogIsTrue of one run.
Honest(r) ==
    /\ r.status = "succeeded" => Needs(r) \subseteq r.did
    /\ \A s \in Stages : r.stages[s] = "succeeded" => s \in r.did

\* What is done and what is still to do make up what the run needs, wherever
\* the process stands.
OnTrack(where, r, left) ==
    /\ where \in Undecided => r.status # "succeeded"
    /\ where \in {"prepare", "provider", "lock", "begin"} => r.scope = "unknown"
    /\ where = "stage" => left # <<>>
    /\ where \in {"next", "stage"} =>
          IF r.scope = "unknown" THEN left = <<"scrape">>
          ELSE /\ "scrape" \notin ToSet(left)
               /\ Needs(r) \subseteq r.did \cup ToSet(left)
    /\ where = "scope" => r.scope = "unknown" /\ "scrape" \in r.did
    /\ where = "finish" => Needs(r) \subseteq r.did

AtWork == {"begin", "next", "stage", "scope", "finish", "cleanup", "failing",
           "closing"}

OwnLaunch ==
    /\ \A p \in Procs : pc[p] # "off" => launch[p] \in 1..launches
    /\ \A p, q \in Procs :
          pc[p] # "off" /\ pc[q] # "off" /\ launch[p] = launch[q] => p = q

Holding ==
    /\ lock # NoProc => pc[lock] \in AtWork
    /\ \A p \in Procs : pc[p] \in AtWork /\ ~Run(p).unlocked => lock = p

AllHonest == \A l \in 1..launches : Honest(runs[l])
AllOnTrack == \A p \in Procs : pc[p] # "off" => OnTrack(pc[p], Run(p), todo[p])
Waiting == daily = "refresh" => child # 0

PipelineInv ==
    /\ TypeOK /\ Waiting /\ OwnLaunch /\ Holding /\ AllHonest /\ AllOnTrack

-----------------------------------------------------------------------------
LEMMA Work == \A p : Working(p) <=> pc[p] \in AtWork
  BY DEF Working, AtWork

\* The stages of a sequence are its head and those of the rest.
LEMMA HeadAndTail ==
  ASSUME NEW t \in Seq(Stages), t # <<>>
  PROVE  /\ Head(t) \in Stages /\ Tail(t) \in Seq(Stages)
         /\ ToSet(t) = {Head(t)} \cup ToSet(Tail(t))
<1>1. Len(t) \in Nat /\ Len(t) > 0 /\ DOMAIN t = 1..Len(t)
  OBVIOUS
<1>2. Head(t) = t[1] /\ Tail(t) \in Seq(Stages) /\ Len(Tail(t)) = Len(t) - 1
  BY <1>1
<1>3. \A i \in 1..(Len(t) - 1) : Tail(t)[i] = t[i + 1]
  BY <1>1
<1>4. ToSet(t) \subseteq {Head(t)} \cup ToSet(Tail(t))
  <2> SUFFICES ASSUME NEW i \in 1..Len(t)
               PROVE  t[i] \in {Head(t)} \cup ToSet(Tail(t))
    BY <1>1 DEF ToSet
  <2>1. CASE i = 1
    <3>1. t[i] = Head(t)
      BY <2>1, <1>2
    <3> QED BY <3>1, Zenon
  <2>2. CASE i # 1
    <3>1. i - 1 \in 1..Len(Tail(t)) /\ Tail(t)[i - 1] = t[i]
      BY <2>2, <1>1, <1>2, <1>3
    <3>2. DOMAIN Tail(t) = 1..Len(Tail(t))
      BY <1>2
    <3>3. t[i] \in ToSet(Tail(t))
      BY <3>1, <3>2 DEF ToSet
    <3> QED BY <3>3
  <2> QED BY <2>1, <2>2
<1>5. {Head(t)} \cup ToSet(Tail(t)) \subseteq ToSet(t)
  <2>1. Head(t) \in ToSet(t)
    BY <1>1, <1>2 DEF ToSet
  <2> SUFFICES ASSUME NEW i \in 1..Len(Tail(t))
               PROVE  Tail(t)[i] \in ToSet(t)
    BY <2>1, <1>2 DEF ToSet
  <2>2. i + 1 \in 1..Len(t) /\ t[i + 1] = Tail(t)[i]
    BY <1>1, <1>2, <1>3
  <2> QED BY <2>2, <1>1 DEF ToSet
<1> QED BY <1>1, <1>2, <1>4, <1>5

\* The sequence of stages of a scope has no scraping in it.
LEMMA StagesAreStages ==
  ASSUME NEW want, NEW importing \in BOOLEAN
  PROVE  /\ StagesFor(want, importing) \in Seq(Stages)
         /\ "scrape" \notin ToSet(StagesFor(want, importing))
         /\ ToSet(StagesFor(want, FALSE)) \subseteq ToSet(StagesFor(want, importing))
<1> DEFINE A == IF importing THEN <<"import">> ELSE <<>>
           B == <<"normalize">>
           C == IF "tags" \in want THEN <<"event tags", "artist tags">> ELSE <<>>
           D == IF "embeddings" \in want THEN <<"embed", "vectors">> ELSE <<>>
           E == <<"validate">>
           Later == Stages \ {"scrape"}
<1>1. {"import", "normalize", "event tags", "artist tags", "embed",
       "vectors", "validate"} \subseteq Later
  BY DEF Stages
<1> HIDE DEF Later
<1>a. /\ \A x \in Later : <<x>> \in Seq(Later)
      /\ \A x, y \in Later : <<x, y>> \in Seq(Later)
      /\ <<>> \in Seq(Later)
  OBVIOUS
<1>2. /\ A \in Seq(Later) /\ B \in Seq(Later) /\ C \in Seq(Later)
      /\ D \in Seq(Later) /\ E \in Seq(Later)
  BY <1>1, <1>a
<1> DEFINE R == ((B \o C) \o D) \o E
<1>3. /\ StagesFor(want, importing) = (((A \o B) \o C) \o D) \o E
      /\ StagesFor(want, FALSE) = (((<<>> \o B) \o C) \o D) \o E
  BY DEF StagesFor
<1> HIDE DEF A, B, C, D, E
<1>4. \A s, t \in Seq(Later) : s \o t \in Seq(Later) /\ <<>> \o s = s
  OBVIOUS
<1>b. \A s, t, v \in Seq(Later) : (s \o t) \o v = s \o (t \o v)
  OBVIOUS
<1>5. R \in Seq(Later)
  BY <1>2, <1>4
<1>6. StagesFor(want, importing) = A \o R /\ StagesFor(want, FALSE) = R
  <2>1. /\ B \o C \in Seq(Later) /\ (B \o C) \o D \in Seq(Later)
        /\ A \o B \in Seq(Later) /\ (A \o B) \o C \in Seq(Later)
    BY <1>2, <1>4
  <2>2. (((A \o B) \o C) \o D) \o E = A \o R
    <3>a. A \in Seq(Later) /\ B \in Seq(Later) /\ C \in Seq(Later)
      BY <1>2
    <3>b. D \in Seq(Later) /\ E \in Seq(Later)
      BY <1>2
    <3> DEFINE BC == B \o C
               BCD == BC \o D
    <3>1. BC \in Seq(Later) /\ BCD \in Seq(Later)
      BY <2>1
    <3>2. \A x, y \in Seq(Later) : (A \o x) \o y = A \o (x \o y)
      BY <3>a, <1>b, ZenonT(30)
    <3>3. (A \o B) \o C = A \o (B \o C)
      BY <3>a, <3>2, ZenonT(30)
    <3> HIDE DEF BC
    <3>4. (A \o BC) \o D = A \o BCD
      BY <3>b, <3>1, <3>2, ZenonT(30) DEF BCD
    <3> HIDE DEF BCD
    <3>5. (A \o BCD) \o E = A \o (BCD \o E)
      BY <3>b, <3>1, <3>2, ZenonT(30)
    <3> QED BY <3>3, <3>4, <3>5 DEF R, BC, BCD
  <2>3. <<>> \o B = B
    BY <1>2, <1>4
  <2> QED BY <1>3, <2>2, <2>3
<1> HIDE DEF R
<1>7. A \o R \in Seq(Later)
  BY <1>2, <1>4, <1>5
<1>8. ToSet(R) \subseteq ToSet(A \o R)
  <2> SUFFICES ASSUME NEW i \in 1..Len(R) PROVE R[i] \in ToSet(A \o R)
    BY <1>5 DEF ToSet
  <2>1. Len(A) \in Nat /\ Len(R) \in Nat
    BY <1>2, <1>5
  <2>2. Len(A \o R) = Len(A) + Len(R)
    BY <1>2, <1>5
  <2>3. Len(A) + i \in 1..Len(A \o R)
    BY <2>1, <2>2
  <2>4. (A \o R)[Len(A) + i] = R[i]
    BY <1>2, <1>5, <2>1, <2>2, <2>3
  <2>5. DOMAIN (A \o R) = 1..Len(A \o R)
    BY <1>7
  <2> QED BY <2>3, <2>4, <2>5 DEF ToSet
<1>9. ASSUME NEW s \in Seq(Later) PROVE "scrape" \notin ToSet(s) /\ s \in Seq(Stages)
  <2>1. \A i \in DOMAIN s : s[i] \in Later
    OBVIOUS
  <2>2. "scrape" \notin Later /\ Later \subseteq Stages
    BY DEF Later
  <2> QED BY <2>1, <2>2 DEF ToSet
<1> QED BY <1>5, <1>6, <1>7, <1>8, <1>9

-----------------------------------------------------------------------------
(* What is known of a process that runs *)

LEMMA Running ==
  ASSUME PipelineInv, NEW p \in Procs, pc[p] # "off"
  PROVE  /\ launch[p] \in 1..launches /\ launch[p] \in 1..MaxLaunches
         /\ Run(p) \in RunRows /\ todo[p] \in Seq(Stages) /\ pc[p] \in Places
         /\ Honest(Run(p)) /\ OnTrack(pc[p], Run(p), todo[p])
         /\ todo = [todo EXCEPT ![p] = todo[p]] /\ pc = [pc EXCEPT ![p] = pc[p]]
         /\ runs = [runs EXCEPT ![launch[p]] = Run(p)]
<1>1. TypeOK /\ OwnLaunch /\ AllHonest /\ AllOnTrack
  BY DEF PipelineInv
<1>2. launch[p] \in 1..launches /\ launches \in 0..MaxLaunches /\ MaxLaunches \in Nat
  BY <1>1, IngestionAssumption DEF OwnLaunch, TypeOK
<1>3. launch[p] \in 1..MaxLaunches
  BY <1>2
<1>4. /\ runs \in [1..MaxLaunches -> RunRows] /\ todo \in [Procs -> Seq(Stages)]
      /\ pc \in [Procs -> Places]
  BY <1>1 DEF TypeOK, Places
<1>5. Honest(Run(p)) /\ OnTrack(pc[p], Run(p), todo[p])
  BY <1>1, <1>2 DEF AllHonest, AllOnTrack, Run
<1> QED BY <1>2, <1>3, <1>4, <1>5 DEF Run

LEMMA FaultsBounded ==
  ASSUME TypeOK, Fault \/ NoFault PROVE faults' \in 0..MaxFaults
<1>1. MaxFaults \in Nat
  BY IngestionAssumption
<1> QED BY <1>1 DEF TypeOK, Fault, NoFault

\* The ways the lock may change in a step of p.
LockMove(p, where, r) ==
    \/ lock' = lock /\ (where \in AtWork <=> pc[p] \in AtWork)
    \/ lock = NoProc /\ lock' = p /\ where \in AtWork
    \/ lock' = Released(p) /\ where = "off"
    \/ lock = p /\ lock' = NoProc /\ r.unlocked

(* A step of p leads from a good state to a good state if the row it        *)
(* leaves behind is honest and the work it has left is on track.            *)
LEMMA RunStep ==
  ASSUME PipelineInv, NEW p \in Procs, pc[p] # "off",
         NEW where \in Places, NEW r \in RunRows, NEW left \in Seq(Stages),
         pc' = [pc EXCEPT ![p] = where],
         runs' = [runs EXCEPT ![launch[p]] = r],
         todo' = [todo EXCEPT ![p] = left],
         UNCHANGED <<launch, launches, dailyVars>>,
         logged' \in [Procs -> BOOLEAN], chrome' \in Procs \cup {NoProc},
         Fault \/ NoFault, Run(p).unlocked => r.unlocked,
         Honest(r), where # "off" => OnTrack(where, r, left),
         LockMove(p, where, r)
  PROVE  PipelineInv'
<1>1. /\ TypeOK /\ OwnLaunch /\ Holding /\ AllHonest /\ AllOnTrack /\ Waiting
      /\ NoProc \notin Procs
  BY IngestionAssumption DEF PipelineInv
<1>2. launch[p] \in 1..MaxLaunches /\ launch[p] \in 1..launches
  BY Running
<1>3. /\ pc \in [Procs -> Places] /\ runs \in [1..MaxLaunches -> RunRows]
      /\ todo \in [Procs -> Seq(Stages)] /\ launch \in [Procs -> 0..MaxLaunches]
  BY <1>1 DEF TypeOK, Places
<1>4. lock' \in Procs \cup {NoProc}
  BY <1>1 DEF LockMove, Released, TypeOK
<1>5. /\ pc' \in [Procs -> Places] /\ runs' \in [1..MaxLaunches -> RunRows]
      /\ todo' \in [Procs -> Seq(Stages)]
  BY <1>2, <1>3
<1>6. TypeOK'
  <2>1. faults' \in 0..MaxFaults
    BY <1>1, FaultsBounded
  <2> QED BY <1>1, <1>4, <1>5, <2>1 DEF TypeOK, Places, dailyVars
<1>7. \A q \in Procs : q # p /\ pc[q] # "off" =>
         /\ pc'[q] = pc[q] /\ todo'[q] = todo[q] /\ launch'[q] = launch[q]
         /\ runs'[launch'[q]] = runs[launch[q]]
  BY <1>1, <1>2, <1>3 DEF OwnLaunch
<1>8. /\ pc'[p] = where /\ todo'[p] = left /\ launch'[p] = launch[p]
      /\ runs'[launch'[p]] = r
      /\ \A q \in Procs : pc'[q] = "off" <=> IF q = p THEN where = "off" ELSE pc[q] = "off"
  BY <1>2, <1>3
<1>9. OwnLaunch'
  BY <1>1, <1>3, <1>8 DEF OwnLaunch
<1>10. Holding'
  <2>1. \A q \in Procs : pc[q] \in AtWork /\ ~runs[launch[q]].unlocked => lock = q
    BY <1>1 DEF Holding, Run
  <2>2. lock # NoProc => pc[lock] \in AtWork
    BY <1>1 DEF Holding
  <2>3. lock \in Procs \cup {NoProc} /\ "off" \notin AtWork
    BY <1>1 DEF TypeOK, AtWork
  <2>4. \A q \in Procs : q # p /\ pc'[q] \in AtWork =>
           /\ pc[q] \in AtWork /\ runs'[launch'[q]] = runs[launch[q]]
    BY <1>3, <1>7, <2>3
  <2>5. ASSUME lock' # NoProc PROVE pc'[lock'] \in AtWork
    BY <1>1, <1>3, <1>8, <2>2, <2>3, <2>5 DEF LockMove, Released
  <2>6. ASSUME NEW q \in Procs, pc'[q] \in AtWork, ~runs'[launch'[q]].unlocked
        PROVE  lock' = q
    <3>1. CASE q = p
      BY <3>1, <2>6, <1>1, <1>8, <2>1, <2>3 DEF LockMove, Released, Run
    <3>2. CASE q # p
      BY <3>2, <2>6, <1>1, <2>1, <2>4 DEF LockMove, Released
    <3> QED BY <3>1, <3>2
  <2> QED BY <2>5, <2>6 DEF Holding, Run
<1>11. AllHonest'
  <2> SUFFICES ASSUME NEW l \in 1..launches PROVE Honest(runs'[l])
    BY DEF AllHonest
  <2>1. launches \in 0..MaxLaunches /\ MaxLaunches \in Nat
    BY <1>1, IngestionAssumption DEF TypeOK
  <2>2. runs'[l] = IF l = launch[p] THEN r ELSE runs[l]
    BY <1>2, <1>3, <2>1
  <2> QED BY <1>1, <2>2 DEF AllHonest
<1>12. AllOnTrack'
  <2> SUFFICES ASSUME NEW q \in Procs, pc'[q] # "off"
               PROVE  OnTrack(pc'[q], runs'[launch'[q]], todo'[q])
    BY DEF AllOnTrack, Run
  <2>1. CASE q = p
    BY <2>1, <1>8
  <2>2. CASE q # p
    BY <2>2, <1>1, <1>7, <1>8 DEF AllOnTrack, Run
  <2> QED BY <2>1, <2>2
<1>13. Waiting'
  BY <1>1 DEF Waiting, dailyVars
<1> QED BY <1>6, <1>9, <1>10, <1>11, <1>12, <1>13 DEF PipelineInv

LEMMA SetField ==
  ASSUME PipelineInv, NEW p \in Procs, pc[p] # "off"
  PROVE  /\ \A v : Set(p, "code", v) =>
              runs' = [runs EXCEPT ![launch[p]] = [Run(p) EXCEPT !.code = v]]
         /\ \A v : Set(p, "status", v) =>
              runs' = [runs EXCEPT ![launch[p]] = [Run(p) EXCEPT !.status = v]]
         /\ \A v : Set(p, "scope", v) =>
              runs' = [runs EXCEPT ![launch[p]] = [Run(p) EXCEPT !.scope = v]]
         /\ \A v : Set(p, "lossy", v) =>
              runs' = [runs EXCEPT ![launch[p]] = [Run(p) EXCEPT !.lossy = v]]
         /\ \A v : Set(p, "unlocked", v) =>
              runs' = [runs EXCEPT ![launch[p]] = [Run(p) EXCEPT !.unlocked = v]]
<1>1. launch[p] \in 1..MaxLaunches /\ runs \in [1..MaxLaunches -> RunRows]
  BY Running DEF PipelineInv, TypeOK
<1> QED BY <1>1 DEF Set, Run, RunRows

-----------------------------------------------------------------------------
(* The steps of a process *)

LEMMA PrepareSafe ==
  ASSUME PipelineInv, NEW p \in Procs,
         Prepare(p) \/ Prepared(p) \/ AcquireLock(p)
  PROVE  PipelineInv'
<1>1. pc[p] # "off"
  BY DEF Prepare, Prepared, AcquireLock
<1>2. /\ Run(p) \in RunRows /\ todo[p] \in Seq(Stages) /\ Honest(Run(p))
      /\ OnTrack(pc[p], Run(p), todo[p])
      /\ todo = [todo EXCEPT ![p] = todo[p]]
      /\ runs = [runs EXCEPT ![launch[p]] = Run(p)]
  BY <1>1, Running
<1>3. logged \in [Procs -> BOOLEAN] /\ chrome \in Procs \cup {NoProc}
  BY DEF PipelineInv, TypeOK
<1>4. CASE Prepare(p)
  <2>1. LockMove(p, "provider", Run(p))
    BY <1>4 DEF Prepare, LockMove, AtWork
  <2>2. OnTrack("provider", Run(p), todo[p])
    BY <1>2, <1>4 DEF Prepare, OnTrack, Undecided
  <2> QED BY <1>1, <1>2, <1>3, <1>4, <2>1, <2>2, RunStep DEF Prepare, Goto, Places
<1>5. CASE Prepared(p)
  <2>1. LockMove(p, "lock", Run(p))
    BY <1>5 DEF Prepared, LockMove, AtWork
  <2>2. OnTrack("lock", Run(p), todo[p])
    BY <1>2, <1>5 DEF Prepared, OnTrack, Undecided
  <2> QED BY <1>1, <1>2, <1>3, <1>5, <2>1, <2>2, RunStep DEF Prepared, Goto, Places
<1>6. CASE AcquireLock(p)
  <2>1. LockMove(p, "begin", Run(p))
    BY <1>6 DEF AcquireLock, LockIsFree, LockMove, AtWork
  <2>2. OnTrack("begin", Run(p), todo[p])
    BY <1>2, <1>6 DEF AcquireLock, OnTrack, Undecided
  <2> QED BY <1>1, <1>2, <1>3, <1>6, <2>1, <2>2, RunStep DEF AcquireLock, Goto, Places
<1> QED BY <1>4, <1>5, <1>6

\* The ends of a process before its work and after it.
LEMMA ExitSafe ==
  ASSUME PipelineInv, NEW p \in Procs, NEW code \in Codes, pc[p] # "off",
         Exit(p, code), (lock' = lock /\ pc[p] \notin AtWork) \/ lock' = Released(p),
         UNCHANGED <<launch, todo, logged, launches, dailyVars>>,
         chrome' \in Procs \cup {NoProc}, Fault \/ NoFault
  PROVE  PipelineInv'
<1>1. /\ Run(p) \in RunRows /\ todo[p] \in Seq(Stages) /\ Honest(Run(p))
      /\ todo = [todo EXCEPT ![p] = todo[p]]
  BY Running
<1>2. logged \in [Procs -> BOOLEAN]
  BY DEF PipelineInv, TypeOK
<1> DEFINE r == [Run(p) EXCEPT !.code = code]
<1>3. runs' = [runs EXCEPT ![launch[p]] = r]
  BY SetField DEF Exit
<1>4. r \in RunRows /\ r.unlocked = Run(p).unlocked
  BY <1>1 DEF RunRows
<1>5. Honest(r)
  BY <1>1 DEF Honest, Needs, RunRows
<1>6. LockMove(p, "off", r)
  BY DEF LockMove, AtWork
<1> HIDE DEF r
<1>7. pc' = [pc EXCEPT ![p] = "off"] /\ "off" \in Places
  BY DEF Exit, Places
<1> QED BY <1>1, <1>2, <1>3, <1>4, <1>5, <1>6, <1>7, RunStep

LEMMA LeaveSafe ==
  ASSUME PipelineInv, NEW p \in Procs, Unprepared(p) \/ Contend(p) \/ Close(p)
  PROVE  PipelineInv'
<1>1. /\ chrome \in Procs \cup {NoProc} /\ CloseChrome(p) \in Procs \cup {NoProc}
      /\ {"startup", "busy", "error"} \subseteq Codes
  BY DEF PipelineInv, TypeOK, CloseChrome, Codes
<1>2. CASE Unprepared(p)
  <2>1. pc[p] # "off" /\ pc[p] \notin AtWork
    BY <1>2 DEF Unprepared, AtWork
  <2>2. Exit(p, "startup") /\ UNCHANGED lock /\ chrome' = chrome
    BY <1>2 DEF Unprepared
  <2> QED BY <1>1, <1>2, <2>1, <2>2, ExitSafe DEF Unprepared
<1>3. CASE Contend(p)
  <2>1. pc[p] # "off" /\ pc[p] \notin AtWork
    BY <1>3 DEF Contend, AtWork
  <2>2. chrome' \in Procs \cup {NoProc} /\ lock' = lock
    BY <1>1, <1>3 DEF Contend, AfterContention
  <2>3. Exit(p, "busy") \/ Exit(p, "error")
    BY <1>3 DEF Contend
  <2>4. UNCHANGED <<launch, todo, logged, launches, dailyVars>> /\ (Fault \/ NoFault)
    BY <1>3 DEF Contend
  <2> QED BY <1>1, <2>1, <2>2, <2>3, <2>4, ExitSafe
<1>4. CASE Close(p)
  <2>1. pc[p] # "off" /\ Run(p).code \in Codes
    <3>1. pc[p] # "off"
      BY <1>4 DEF Close
    <3> QED BY <3>1, Running DEF RunRows
  <2>2. (IF lock = p THEN Run(p).code ELSE "error") \in Codes
    BY <1>1, <2>1
  <2>3. Exit(p, IF lock = p THEN Run(p).code ELSE "error")
    BY <1>4 DEF Close
  <2>4. /\ UNCHANGED <<launch, todo, logged, launches, dailyVars>> /\ NoFault
        /\ chrome' \in Procs \cup {NoProc} /\ lock' = Released(p)
    BY <1>1, <1>4 DEF Close
  <2> QED BY <2>1, <2>2, <2>3, <2>4, ExitSafe
<1> QED BY <1>2, <1>3, <1>4

\* A step of the work itself, which leaves the lock and the browser alone.
LEMMA WorkStep ==
  ASSUME PipelineInv, NEW p \in Procs, pc[p] \in AtWork,
         NEW where \in AtWork, NEW r \in RunRows, NEW left \in Seq(Stages),
         Goto(p, where), runs' = [runs EXCEPT ![launch[p]] = r],
         todo' = [todo EXCEPT ![p] = left], logged' \in [Procs -> BOOLEAN],
         UNCHANGED <<launch, lock, chrome, launches, dailyVars>>,
         Fault \/ NoFault, Run(p).unlocked => r.unlocked,
         Honest(r), OnTrack(where, r, left)
  PROVE  PipelineInv'
<1>1. /\ pc[p] # "off" /\ where \in Places /\ pc' = [pc EXCEPT ![p] = where]
      /\ chrome' \in Procs \cup {NoProc} /\ LockMove(p, where, r)
  BY DEF AtWork, Places, Goto, PipelineInv, TypeOK, LockMove
<1> QED BY <1>1, RunStep

LEMMA BeginSafe ==
  ASSUME PipelineInv, NEW p \in Procs, Begin(p) PROVE PipelineInv'
<1>1. pc[p] = "begin" /\ pc[p] # "off" /\ pc[p] \in AtWork /\ "next" \in AtWork
  BY DEF Begin, AtWork
<1>2. Run(p) \in RunRows /\ Honest(Run(p)) /\ OnTrack("begin", Run(p), todo[p])
  BY <1>1, Running
<1> DEFINE good == [Run(p) EXCEPT !.status = "running"]
           bad == [Run(p) EXCEPT !.lossy = TRUE]
<1>3. \A r \in {good, bad} :
         r \in RunRows /\ r.unlocked = Run(p).unlocked /\ Honest(r)
         /\ OnTrack("next", r, <<"scrape">>)
  BY <1>2, ZenonT(40) DEF RunRows, Statuses, Honest, Needs, OnTrack, Undecided
<1>4. runs' = [runs EXCEPT ![launch[p]] = good] \/ runs' = [runs EXCEPT ![launch[p]] = bad]
  BY <1>1, SetField DEF Begin
<1>5. <<"scrape">> \in Seq(Stages) /\ logged \in [Procs -> BOOLEAN]
  <2>1. "scrape" \in Stages
    BY DEF Stages
  <2>2. \A x \in Stages : <<x>> \in Seq(Stages)
    OBVIOUS
  <2> QED BY <2>1, <2>2 DEF PipelineInv, TypeOK
<1>6. /\ todo' = [todo EXCEPT ![p] = <<"scrape">>] /\ Goto(p, "next")
      /\ UNCHANGED <<launch, logged, lock, chrome, launches, dailyVars>>
      /\ (Fault \/ NoFault)
  BY DEF Begin
<1> HIDE DEF good, bad
<1> QED BY <1>1, <1>3, <1>4, <1>5, <1>6, WorkStep

LEMMA StartStageSafe ==
  ASSUME PipelineInv, NEW p \in Procs, StartStage(p) PROVE PipelineInv'
<1>1. pc[p] = "next" /\ todo[p] # <<>> /\ pc[p] # "off" /\ pc[p] \in AtWork /\ "stage" \in AtWork
  BY DEF StartStage, AtWork
<1>2. /\ Run(p) \in RunRows /\ Honest(Run(p)) /\ OnTrack("next", Run(p), todo[p])
      /\ todo[p] \in Seq(Stages) /\ todo = [todo EXCEPT ![p] = todo[p]]
      /\ runs = [runs EXCEPT ![launch[p]] = Run(p)] /\ launch[p] \in 1..MaxLaunches
  BY <1>1, Running
<1> DEFINE s == Head(todo[p])
           r == [Run(p) EXCEPT !.stages = [@ EXCEPT ![s] = "running"]]
<1>3. s \in Stages
  BY <1>1, <1>2, HeadAndTail
<1>4. r \in RunRows /\ r.unlocked = Run(p).unlocked /\ Honest(r)
  BY <1>2, <1>3 DEF RunRows, Statuses, Honest, Needs
<1>5. OnTrack("stage", r, todo[p]) /\ OnTrack("stage", Run(p), todo[p])
  BY <1>1, <1>2 DEF RunRows, OnTrack, Undecided, Needs
<1>6. runs' = [runs EXCEPT ![launch[p]] = r] \/ runs' = runs
  BY <1>2, <1>3 DEF StartStage, Run, PipelineInv, TypeOK, RunRows
<1>7. logged' \in [Procs -> BOOLEAN]
  BY DEF StartStage, PipelineInv, TypeOK
<1>8. /\ Goto(p, "stage") /\ UNCHANGED <<launch, todo, lock, chrome, launches, dailyVars>>
      /\ (Fault \/ NoFault)
  BY DEF StartStage
<1> HIDE DEF r
<1> QED BY <1>1, <1>2, <1>4, <1>5, <1>6, <1>7, <1>8, WorkStep

LEMMA StageSucceedsSafe ==
  ASSUME PipelineInv, NEW p \in Procs, StageSucceeds(p) PROVE PipelineInv'
<1>1. pc[p] = "stage" /\ pc[p] # "off" /\ pc[p] \in AtWork
      /\ {"scope", "next"} \subseteq AtWork
  BY DEF StageSucceeds, AtWork
<1>2. /\ Run(p) \in RunRows /\ Honest(Run(p)) /\ OnTrack("stage", Run(p), todo[p])
      /\ todo[p] \in Seq(Stages) /\ todo[p] # <<>>
  BY <1>1, Running DEF OnTrack
<1> DEFINE s == Head(todo[p])
           left == Tail(todo[p])
           done == [Run(p) EXCEPT !.did = @ \cup {s}]
           shown == Logged(p, done, s, "succeeded")
           where == IF s = "scrape" THEN "scope" ELSE "next"
<1>3. /\ s \in Stages /\ left \in Seq(Stages)
      /\ ToSet(todo[p]) = {s} \cup ToSet(left)
  BY <1>2, HeadAndTail
<1>4. done \in RunRows /\ shown \in RunRows
  BY <1>2, <1>3 DEF RunRows, Logged, Statuses
<1>a. shown = done \/ shown = [done EXCEPT !.stages[s] = "succeeded"]
  BY DEF Logged
<1>5. \A r \in {done, shown} :
         /\ r.unlocked = Run(p).unlocked /\ r.scope = Run(p).scope
         /\ r.want = Run(p).want /\ r.status = Run(p).status
         /\ r.did = Run(p).did \cup {s}
         /\ \A x \in Stages : r.stages[x] = "succeeded" =>
               x = s \/ Run(p).stages[x] = "succeeded"
  <2> DEFINE marked == [done EXCEPT !.stages[s] = "succeeded"]
  <2>1. /\ done.unlocked = Run(p).unlocked /\ done.scope = Run(p).scope
        /\ done.want = Run(p).want /\ done.status = Run(p).status
        /\ done.did = Run(p).did \cup {s} /\ done.stages = Run(p).stages
    BY <1>2 DEF RunRows
  <2>2. /\ marked.unlocked = done.unlocked /\ marked.scope = done.scope
        /\ marked.want = done.want /\ marked.status = done.status
        /\ marked.did = done.did
        /\ marked.stages = [done.stages EXCEPT ![s] = "succeeded"]
    BY <1>4 DEF RunRows
  <2>3. done.stages \in [Stages -> Statuses]
    BY <1>4 DEF RunRows
  <2> HIDE DEF done, marked
  <2>4. \A x \in Stages : marked.stages[x] = "succeeded" =>
               x = s \/ done.stages[x] = "succeeded"
    BY <1>3, <2>2, <2>3
  <2> HIDE DEF shown
  <2>5. shown = done \/ shown = marked
    BY <1>a DEF marked
  <2> QED BY <2>1, <2>2, <2>4, <2>5
<1>6. /\ Run(p).status # "succeeded"
      /\ IF Run(p).scope = "unknown" THEN todo[p] = <<"scrape">>
         ELSE "scrape" \notin ToSet(todo[p])
              /\ Needs(Run(p)) \subseteq Run(p).did \cup ToSet(todo[p])
  BY <1>2 DEF OnTrack, Undecided
<1> QED
  <2>1. \A r \in {done, shown} : Honest(r)
    BY <1>2, <1>5, <1>6 DEF Honest
  <2>2. \A r \in {done, shown} : OnTrack(where, r, left)
    <3>1. CASE Run(p).scope = "unknown"
      <4>1. s = "scrape" /\ where = "scope"
        BY <1>6, <3>1
      <4> QED BY <1>5, <1>6, <3>1, <4>1 DEF OnTrack, Undecided
    <3>2. CASE Run(p).scope # "unknown"
      <4>1. s # "scrape" /\ where = "next"
        BY <1>3, <1>6, <3>2
      <4>2. \A r \in {done, shown} :
               "scrape" \notin ToSet(left) /\ Needs(r) \subseteq r.did \cup ToSet(left)
        BY <1>3, <1>5, <1>6, <3>2 DEF Needs
      <4> QED BY <1>5, <1>6, <3>2, <4>1, <4>2 DEF OnTrack, Undecided
    <3> QED BY <3>1, <3>2
  <2>3. /\ todo' = [todo EXCEPT ![p] = left] /\ Goto(p, where)
        /\ UNCHANGED <<launch, logged, lock, chrome, launches, dailyVars>>
        /\ (Fault \/ NoFault)
        /\ \/ runs' = [runs EXCEPT ![launch[p]] = done]
           \/ runs' = [runs EXCEPT ![launch[p]] = shown]
    <3>1. todo' = [todo EXCEPT ![p] = left]
      BY <1>1, Running DEF StageSucceeds, PipelineInv, TypeOK
    <3> QED BY <3>1 DEF StageSucceeds
  <2>4. logged \in [Procs -> BOOLEAN] /\ where \in AtWork
    BY <1>1 DEF PipelineInv, TypeOK
  <2> HIDE DEF done, shown, where, left
  <2> QED BY <1>1, <1>3, <1>4, <1>5, <2>1, <2>2, <2>3, <2>4, WorkStep

LEMMA StageFailsSafe ==
  ASSUME PipelineInv, NEW p \in Procs, StageFails(p) PROVE PipelineInv'
<1>1. pc[p] = "stage" /\ pc[p] # "off" /\ pc[p] \in AtWork /\ "failing" \in AtWork
  BY DEF StageFails, AtWork
<1>2. /\ Run(p) \in RunRows /\ Honest(Run(p)) /\ OnTrack("stage", Run(p), todo[p])
      /\ todo[p] \in Seq(Stages) /\ todo[p] # <<>>
  BY <1>1, Running DEF OnTrack
<1> DEFINE s == Head(todo[p])
           left == Tail(todo[p])
           shown == Logged(p, Run(p), s, "failed")
<1>3. s \in Stages /\ left \in Seq(Stages)
  BY <1>2, HeadAndTail
<1>4. /\ shown \in RunRows /\ shown.unlocked = Run(p).unlocked /\ Honest(shown)
  <2>1. Run(p) \in RunRows /\ Run(p).unlocked = Run(p).unlocked /\ Honest(Run(p))
    BY <1>2
  <2> DEFINE marked == [Run(p) EXCEPT !.stages[s] = "failed"]
  <2>2. marked \in RunRows /\ marked.unlocked = Run(p).unlocked
    BY <1>2, <1>3 DEF RunRows, Statuses
  <2>3. Honest(marked)
    BY <1>2, <1>3 DEF RunRows, Honest, Needs
  <2> QED BY <2>1, <2>2, <2>3 DEF Logged
<1> PICK code \in {"busy", "error"} :
        runs' = [runs EXCEPT ![launch[p]] = [shown EXCEPT !.code = code]]
  BY DEF StageFails
<1> DEFINE r == [shown EXCEPT !.code = code]
<1> HIDE DEF shown
<1>5. r \in RunRows /\ r.unlocked = Run(p).unlocked /\ Honest(r)
  BY <1>4 DEF RunRows, Codes, Honest, Needs
<1>6. OnTrack("failing", r, left)
  BY DEF OnTrack, Undecided
<1>7. todo' = [todo EXCEPT ![p] = left] /\ Goto(p, "failing")
  BY DEF StageFails, OnFailure, PipelineInv, TypeOK
<1>8. /\ UNCHANGED <<launch, logged, lock, chrome, launches, dailyVars>>
      /\ (Fault \/ NoFault)
  BY DEF StageFails
<1>9. logged \in [Procs -> BOOLEAN]
  BY DEF PipelineInv, TypeOK
<1> HIDE DEF r, left
<1> QED BY <1>1, <1>3, <1>5, <1>6, <1>7, <1>8, <1>9, WorkStep DEF r

LEMMA ScopeSafe ==
  ASSUME PipelineInv, NEW p \in Procs, Scope(p) PROVE PipelineInv'
<1>1. pc[p] = "scope" /\ pc[p] # "off" /\ pc[p] \in AtWork
      /\ {"finish", "next"} \subseteq AtWork
  BY DEF Scope, AtWork
<1>2. /\ Run(p) \in RunRows /\ Honest(Run(p)) /\ OnTrack("scope", Run(p), todo[p])
      /\ todo[p] \in Seq(Stages) /\ todo = [todo EXCEPT ![p] = todo[p]]
  BY <1>1, Running
<1> PICK scope \in Scopes(Run(p).want) :
           /\ Set(p, "scope", scope)
           /\ IF scope = "empty"
              THEN Goto(p, "finish") /\ UNCHANGED todo
              ELSE /\ Goto(p, "next")
                   /\ todo' = [todo EXCEPT ![p] =
                        StagesFor(Run(p).want,
                                  scope = "new" \/ "bio" \in Run(p).want)]
  BY DEF Scope
<1> DEFINE r == [Run(p) EXCEPT !.scope = scope]
           left == StagesFor(Run(p).want, scope = "new" \/ "bio" \in Run(p).want)
<1>3. /\ scope \in {"new", "existing", "empty"} /\ Run(p).status # "succeeded"
      /\ "scrape" \in Run(p).did
  BY <1>2 DEF Scopes, OnTrack, Undecided
<1>4. /\ r \in RunRows /\ r.unlocked = Run(p).unlocked /\ r.scope = scope
      /\ r.want = Run(p).want /\ r.did = Run(p).did
      /\ r.status = Run(p).status /\ r.stages = Run(p).stages
  BY <1>2, <1>3 DEF RunRows
<1>5. Honest(r)
  BY <1>2, <1>3, <1>4 DEF Honest
<1>6. runs' = [runs EXCEPT ![launch[p]] = r]
  BY <1>1, SetField
<1>7. /\ UNCHANGED <<launch, logged, lock, chrome, launches, dailyVars>> /\ NoFault
      /\ logged \in [Procs -> BOOLEAN]
  BY DEF Scope, PipelineInv, TypeOK
<1> HIDE DEF r
<1>8. CASE scope = "empty"
  <2>1. OnTrack("finish", r, todo[p])
    BY <1>3, <1>4, <1>8 DEF OnTrack, Undecided, Needs
  <2>2. Goto(p, "finish") /\ todo' = [todo EXCEPT ![p] = todo[p]]
    BY <1>2, <1>8
  <2> QED BY <1>1, <1>2, <1>4, <1>5, <1>6, <1>7, <2>1, <2>2, WorkStep
<1>9. CASE scope # "empty"
  <2>1. /\ left \in Seq(Stages) /\ "scrape" \notin ToSet(left)
        /\ ToSet(StagesFor(Run(p).want, FALSE)) \subseteq ToSet(left)
    BY StagesAreStages
  <2>2. Needs(r) \subseteq r.did \cup ToSet(left)
    <3>1. CASE scope = "new"
      <4>1. left = StagesFor(Run(p).want, TRUE)
        BY <3>1
      <4>2. Needs(r) = {"scrape"} \cup ToSet(StagesFor(Run(p).want, TRUE))
        BY <3>1, <1>4, <1>9 DEF Needs
      <4> HIDE DEF left
      <4> QED BY <4>1, <4>2, <1>3, <1>4
    <3>2. CASE scope # "new"
      <4>1. Needs(r) = {"scrape"} \cup ToSet(StagesFor(Run(p).want, FALSE))
        <5>1. (r.scope = "new") = FALSE
          BY <3>2, <1>4
        <5> QED BY <5>1, <1>4, <1>9 DEF Needs
      <4> HIDE DEF left
      <4> QED BY <2>1, <4>1, <1>3, <1>4
    <3> QED BY <3>1, <3>2
  <2>3. Goto(p, "next") /\ todo' = [todo EXCEPT ![p] = left]
    BY <1>9
  <2> HIDE DEF left
  <2>4. OnTrack("next", r, left)
    BY <1>3, <1>4, <2>1, <2>2 DEF OnTrack, Undecided
  <2> QED BY <1>1, <1>2, <1>4, <1>5, <1>6, <1>7, <2>1, <2>3, <2>4, WorkStep
<1> QED BY <1>8, <1>9

\* The verdicts a run that worked can be given.
LEMMA VerdictStep ==
  ASSUME PipelineInv, NEW p \in Procs, pc[p] \in AtWork,
         NEW where \in {"cleanup", "failing", "closing"}, Goto(p, where),
         NEW r \in RunRows, runs' = [runs EXCEPT ![launch[p]] = r],
         r.unlocked = Run(p).unlocked, Honest(r),
         UNCHANGED <<launch, todo, logged, lock, chrome, launches, dailyVars>>,
         Fault \/ NoFault
  PROVE  PipelineInv'
<1>1. OnTrack(where, r, todo[p]) /\ where \in AtWork /\ pc[p] # "off"
  BY DEF OnTrack, Undecided, AtWork
<1>2. todo[p] \in Seq(Stages) /\ todo' = [todo EXCEPT ![p] = todo[p]]
  BY <1>1, Running
<1>3. logged' \in [Procs -> BOOLEAN]
  BY DEF PipelineInv, TypeOK
<1> QED BY <1>1, <1>2, <1>3, WorkStep

LEMMA BreakSafe ==
  ASSUME PipelineInv, NEW p \in Procs, Break(p) \/ Cleanup(p) PROVE PipelineInv'
<1>1. pc[p] # "off" /\ pc[p] \in AtWork
  BY DEF Break, Cleanup, AtWork
<1>2. Run(p) \in RunRows /\ Honest(Run(p))
  BY <1>1, Running
<1>3. ASSUME NEW code \in Codes
      PROVE  /\ [Run(p) EXCEPT !.code = code] \in RunRows
             /\ [Run(p) EXCEPT !.code = code].unlocked = Run(p).unlocked
             /\ Honest([Run(p) EXCEPT !.code = code])
  BY <1>2 DEF RunRows, Honest, Needs
<1>4. \A v : Set(p, "code", v) =>
          runs' = [runs EXCEPT ![launch[p]] = [Run(p) EXCEPT !.code = v]]
  BY <1>1, SetField
<1>5. PICK where \in {"failing", "closing"}, code \in Codes :
          Goto(p, where) /\ Set(p, "code", code)
  BY DEF Break, Cleanup, Codes
<1>6. /\ UNCHANGED <<launch, todo, logged, lock, chrome, launches, dailyVars>>
      /\ (Fault \/ NoFault)
  BY DEF Break, Cleanup
<1> DEFINE r == [Run(p) EXCEPT !.code = code]
<1>7. runs' = [runs EXCEPT ![launch[p]] = r]
  BY <1>4, <1>5
<1>8. r \in RunRows /\ r.unlocked = Run(p).unlocked /\ Honest(r)
  BY <1>3
<1> HIDE DEF r
<1> QED BY <1>1, <1>5, <1>6, <1>7, <1>8, VerdictStep

\* A status is only written over a run that has a row.
LEMMA RecordKeeps ==
  ASSUME PipelineInv, NEW p \in Procs, pc[p] # "off",
         NEW status \in {"succeeded", "failed"}, WriteStatus(p, status, Run(p)),
         status = "succeeded" => Needs(Run(p)) \subseteq Run(p).did
  PROVE  /\ Fault \/ NoFault
         /\ \E r \in RunRows : /\ runs' = [runs EXCEPT ![launch[p]] = r]
                               /\ r.unlocked = Run(p).unlocked /\ Honest(r)
<1>1. Run(p) \in RunRows /\ Honest(Run(p))
  BY Running
<1> DEFINE written == [Run(p) EXCEPT !.status = status]
           lost == [Run(p) EXCEPT !.lossy = TRUE]
<1>2. \A r \in {written, lost} :
         r \in RunRows /\ r.unlocked = Run(p).unlocked /\ Honest(r)
  BY <1>1, ZenonT(40) DEF RunRows, Statuses, Honest, Needs
<1>3. \/ runs' = [runs EXCEPT ![launch[p]] = written]
      \/ runs' = [runs EXCEPT ![launch[p]] = lost]
  BY DEF WriteStatus, Record
<1>4. Fault \/ NoFault
  BY DEF WriteStatus
<1> HIDE DEF written, lost
<1> QED BY <1>2, <1>3, <1>4

LEMMA FinishSafe ==
  ASSUME PipelineInv, NEW p \in Procs, Finish(p) \/ Fail(p) PROVE PipelineInv'
<1>1. pc[p] # "off" /\ pc[p] \in AtWork
  BY DEF Finish, Fail, AtWork
<1>2. Run(p) \in RunRows /\ Honest(Run(p)) /\ OnTrack(pc[p], Run(p), todo[p])
  BY <1>1, Running
<1>3. UNCHANGED <<launch, todo, logged, lock, chrome, launches, dailyVars>>
  BY DEF Finish, Fail
<1>4. CASE Finish(p)
  <2>1. Needs(Run(p)) \subseteq Run(p).did
    <3>1. CASE pc[p] = "finish"
      BY <1>2, <3>1 DEF OnTrack
    <3>2. CASE pc[p] = "next" /\ todo[p] = <<>>
      <4>1. ToSet(<<>>) = {} /\ <<>> # <<"scrape">>
        BY DEF ToSet
      <4> QED BY <1>2, <3>2, <4>1 DEF OnTrack
    <3> QED BY <1>4, <3>1, <3>2 DEF Finish
  <2>2. WriteStatus(p, "succeeded", Run(p)) /\ Goto(p, "cleanup")
    BY <1>4 DEF Finish
  <2>3. /\ Fault \/ NoFault
        /\ \E r \in RunRows : /\ runs' = [runs EXCEPT ![launch[p]] = r]
                              /\ r.unlocked = Run(p).unlocked /\ Honest(r)
    BY <1>1, <2>1, <2>2, RecordKeeps
  <2> QED BY <1>1, <1>3, <2>2, <2>3, VerdictStep
<1>5. CASE Fail(p)
  <2>1. WriteStatus(p, "failed", Run(p)) /\ Goto(p, "closing")
    BY <1>5 DEF Fail, Verdict
  <2>2. /\ Fault \/ NoFault
        /\ \E r \in RunRows : /\ runs' = [runs EXCEPT ![launch[p]] = r]
                              /\ r.unlocked = Run(p).unlocked /\ Honest(r)
    BY <1>1, <2>1, RecordKeeps
  <2> QED BY <1>1, <1>3, <2>1, <2>2, VerdictStep
<1> QED BY <1>4, <1>5

LEMMA LoseSessionSafe ==
  ASSUME PipelineInv, NEW p \in Procs, LoseSession(p) PROVE PipelineInv'
<1>1. lock = p /\ pc[p] \in AtWork /\ pc[p] # "off"
  BY IngestionAssumption DEF LoseSession, PipelineInv, Holding, AtWork
<1>2. /\ Run(p) \in RunRows /\ todo[p] \in Seq(Stages) /\ pc[p] \in Places
      /\ Honest(Run(p)) /\ OnTrack(pc[p], Run(p), todo[p])
      /\ todo = [todo EXCEPT ![p] = todo[p]] /\ pc = [pc EXCEPT ![p] = pc[p]]
  BY <1>1, Running
<1> DEFINE r == [Run(p) EXCEPT !.unlocked = TRUE]
<1>3. r \in RunRows /\ r.unlocked /\ Honest(r) /\ OnTrack(pc[p], r, todo[p])
  BY <1>2 DEF RunRows, Honest, Needs, OnTrack
<1>4. runs' = [runs EXCEPT ![launch[p]] = r]
  BY <1>1, SetField DEF LoseSession
<1>5. LockMove(p, pc[p], r)
  BY <1>1, <1>3 DEF LockMove, LoseSession
<1>6. /\ UNCHANGED <<pc, launch, todo, logged, chrome, launches, dailyVars>> /\ Fault
      /\ logged \in [Procs -> BOOLEAN] /\ chrome \in Procs \cup {NoProc}
  BY DEF LoseSession, PipelineInv, TypeOK
<1> HIDE DEF r
<1> QED BY <1>1, <1>2, <1>3, <1>4, <1>5, <1>6, RunStep

-----------------------------------------------------------------------------
(* Launches, deaths and the scheduled command *)

\* The scheduled command's own state has its types.
DailyOK ==
    /\ daily \in {"idle", "coverage", "refresh", "schedule"} /\ Waiting
    /\ worker \in {"free", "daily"} /\ told \in Codes /\ scheduled \in BOOLEAN
    /\ child \in 0..launches /\ starts \in 0..MaxStarts
    /\ faults \in 0..MaxFaults

LEMMA DailySplit ==
  ASSUME PipelineInv PROVE DailyOK
  BY DEF PipelineInv, TypeOK, DailyOK

LEMMA StartStep ==
  ASSUME PipelineInv, NEW p \in Procs, NEW want, NEW forDay \in BOOLEAN,
         want \subseteq {"bio", "tags", "embeddings"}, Start(p, want, forDay),
         DailyOK'
  PROVE  PipelineInv'
<1>1. /\ TypeOK /\ OwnLaunch /\ Holding /\ AllHonest /\ AllOnTrack
      /\ NoProc \notin Procs /\ MaxLaunches \in Nat
  BY IngestionAssumption DEF PipelineInv
<1> DEFINE n == launches + 1
           r == NewRun(want, forDay)
<1>2. launches \in Nat /\ n \in 1..MaxLaunches /\ n \notin 1..launches /\ n \in 0..MaxLaunches
  BY <1>1 DEF Start, TypeOK
<1>3. /\ pc \in [Procs -> Places] /\ runs \in [1..MaxLaunches -> RunRows]
      /\ todo \in [Procs -> Seq(Stages)] /\ launch \in [Procs -> 0..MaxLaunches]
  BY <1>1 DEF TypeOK, Places
<1>4. /\ r \in RunRows /\ Honest(r) /\ r.status = "none" /\ r.scope = "unknown"
  BY DEF NewRun, RunRows, Honest, Statuses, Codes
<1>5. /\ pc' = [pc EXCEPT ![p] = "prepare"] /\ launch' = [launch EXCEPT ![p] = n]
      /\ runs' = [runs EXCEPT ![n] = r] /\ launches' = n
      /\ UNCHANGED <<todo, logged, lock, chrome>> /\ pc[p] = "off"
  BY DEF Start, Goto
<1> HIDE DEF r
<1>6. TypeOK'
  <2>1. /\ pc' \in [Procs -> Places] /\ runs' \in [1..MaxLaunches -> RunRows]
        /\ launch' \in [Procs -> 0..MaxLaunches] /\ launches' \in 0..MaxLaunches
    BY <1>2, <1>3, <1>4, <1>5 DEF Places
  <2> HIDE DEF n
  <2> QED BY <1>1, <1>5, <2>1 DEF TypeOK, Places, DailyOK
<1>7. \A q \in Procs : q # p /\ pc[q] # "off" =>
         /\ launch[q] \in 1..launches
         /\ pc'[q] = pc[q] /\ todo'[q] = todo[q] /\ launch'[q] = launch[q]
         /\ runs'[launch'[q]] = runs[launch[q]]
  BY <1>1, <1>2, <1>3, <1>5 DEF OwnLaunch
<1>8. /\ pc'[p] = "prepare" /\ launch'[p] = n /\ runs'[n] = r
      /\ \A q \in Procs : q # p => pc'[q] = pc[q]
  BY <1>2, <1>3, <1>5
<1>9. OwnLaunch'
  <2>1. \A l \in 1..launches : l \in 1..n /\ l # n
    BY <1>2
  <2>2. n \in 1..n
    BY <1>2
  <2> HIDE DEF n
  <2> QED BY <1>1, <1>5, <1>7, <1>8, <2>1, <2>2 DEF OwnLaunch
<1>10. Holding'
  <2>1. lock # p
    BY <1>1, <1>5 DEF Holding, AtWork
  <2>2. lock \in Procs \cup {NoProc} /\ "prepare" \notin AtWork /\ "off" \notin AtWork
    BY <1>1 DEF TypeOK, AtWork
  <2> QED BY <1>1, <1>5, <1>7, <1>8, <2>1, <2>2 DEF Holding, Run
<1>11. AllHonest'
  <2> SUFFICES ASSUME NEW l \in 1..n PROVE Honest(runs'[l])
    BY <1>5 DEF AllHonest
  <2>1. CASE l = n
    BY <2>1, <1>4, <1>8
  <2>2. CASE l # n
    <3>1. l \in 1..launches /\ runs'[l] = runs[l]
      BY <2>2, <1>2, <1>3, <1>5
    <3> QED BY <3>1, <1>1 DEF AllHonest
  <2> QED BY <2>1, <2>2
<1>12. AllOnTrack'
  <2> SUFFICES ASSUME NEW q \in Procs, pc'[q] # "off"
               PROVE  OnTrack(pc'[q], runs'[launch'[q]], todo'[q])
    BY DEF AllOnTrack, Run
  <2>1. CASE q = p
    BY <2>1, <1>4, <1>8 DEF OnTrack, Undecided
  <2>2. CASE q # p
    <3>1. OnTrack(pc[q], runs[launch[q]], todo[q]) /\ pc[q] # "off"
      BY <2>2, <1>1, <1>8 DEF AllOnTrack, Run
    <3> QED BY <2>2, <3>1, <1>7
  <2> QED BY <2>1, <2>2
<1> QED BY <1>6, <1>9, <1>10, <1>11, <1>12 DEF PipelineInv, DailyOK

LEMMA DieStep ==
  ASSUME PipelineInv, NEW victims \in SUBSET Procs, Die(victims),
         UNCHANGED <<launch, todo, logged, chrome, launches>>, DailyOK'
  PROVE  PipelineInv'
<1>1. /\ TypeOK /\ OwnLaunch /\ Holding /\ AllHonest /\ AllOnTrack
      /\ NoProc \notin Procs /\ MaxLaunches \in Nat
  BY IngestionAssumption DEF PipelineInv
<1>2. /\ pc \in [Procs -> Places] /\ runs \in [1..MaxLaunches -> RunRows]
      /\ launches \in 0..MaxLaunches
  BY <1>1 DEF TypeOK, Places
<1>3. ASSUME NEW r \in RunRows
      PROVE  LET k == [r EXCEPT !.code = "killed"] IN
             /\ k \in RunRows /\ k.unlocked = r.unlocked
             /\ Honest(r) => Honest(k)
  BY DEF RunRows, Codes, Honest, Needs
<1>4. /\ pc' \in [Procs -> Places] /\ "off" \in Places
      /\ \A q \in Procs : pc'[q] = IF q \in victims THEN "off" ELSE pc[q]
  BY <1>2 DEF Die, Places
<1>5. \A l \in 1..MaxLaunches :
         /\ runs'[l] \in RunRows /\ runs'[l].unlocked = runs[l].unlocked
         /\ Honest(runs[l]) => Honest(runs'[l])
         /\ (\A q \in victims : launch[q] = l => pc[q] = "off") => runs'[l] = runs[l]
  <2> SUFFICES ASSUME NEW l \in 1..MaxLaunches
               PROVE  /\ runs'[l] \in RunRows /\ runs'[l].unlocked = runs[l].unlocked
                      /\ Honest(runs[l]) => Honest(runs'[l])
                      /\ (\A q \in victims : launch[q] = l => pc[q] = "off")
                            => runs'[l] = runs[l]
    OBVIOUS
  <2>1. runs[l] \in RunRows
    BY <1>2
  <2>2. runs'[l] = IF \E q \in victims : launch[q] = l /\ pc[q] # "off"
                   THEN [runs[l] EXCEPT !.code = "killed"] ELSE runs[l]
    BY <1>2 DEF Die
  <2>3. CASE \E q \in victims : launch[q] = l /\ pc[q] # "off"
    <3>1. runs'[l] = [runs[l] EXCEPT !.code = "killed"]
      BY <2>2, <2>3
    <3> QED BY <2>1, <2>3, <3>1, <1>3
  <2>4. CASE ~ \E q \in victims : launch[q] = l /\ pc[q] # "off"
    BY <2>1, <2>2, <2>4
  <2> QED BY <2>3, <2>4
<1>6. runs' \in [1..MaxLaunches -> RunRows]
  <2>1. runs' = [l \in 1..MaxLaunches |-> runs'[l]]
    BY <1>2 DEF Die
  <2> QED BY <2>1, <1>5
<1>7. TypeOK'
  <2>1. lock' \in Procs \cup {NoProc}
    BY <1>1 DEF Die, TypeOK
  <2> QED BY <1>1, <1>4, <1>6, <2>1 DEF TypeOK, Places, DailyOK
<1>8. \A q \in Procs : pc'[q] # "off" =>
         /\ q \notin victims /\ pc[q] # "off" /\ pc'[q] = pc[q]
         /\ launch[q] \in 1..MaxLaunches /\ runs'[launch[q]] = runs[launch[q]]
  <2> SUFFICES ASSUME NEW q \in Procs, pc'[q] # "off"
               PROVE  /\ q \notin victims /\ pc[q] # "off" /\ pc'[q] = pc[q]
                      /\ launch[q] \in 1..MaxLaunches
                      /\ runs'[launch[q]] = runs[launch[q]]
    OBVIOUS
  <2>1. q \notin victims /\ pc[q] # "off" /\ pc'[q] = pc[q]
    BY <1>4
  <2>2. launch[q] \in 1..MaxLaunches
    BY <2>1, Running
  <2>3. \A v \in victims : launch[v] = launch[q] => pc[v] = "off"
    BY <1>1, <2>1 DEF OwnLaunch
  <2> QED BY <1>5, <2>1, <2>2, <2>3
<1>9. OwnLaunch'
  BY <1>1, <1>8 DEF OwnLaunch
<1>10. Holding'
  <2>1. "off" \notin AtWork /\ lock \in Procs \cup {NoProc}
    BY <1>1 DEF AtWork, TypeOK
  <2>2. lock' = IF lock \in victims THEN NoProc ELSE lock
    BY DEF Die
  <2>3. lock' # NoProc => pc'[lock'] \in AtWork
    BY <1>1, <1>4, <2>1, <2>2 DEF Holding
  <2>4. ASSUME NEW q \in Procs, pc'[q] \in AtWork, ~runs'[launch'[q]].unlocked
        PROVE  lock' = q
    BY <1>1, <1>8, <2>1, <2>2, <2>4 DEF Holding, Run
  <2> QED BY <2>3, <2>4 DEF Holding, Run
<1>11. AllHonest'
  <2>1. \A l \in 1..launches : l \in 1..MaxLaunches
    BY <1>1, <1>2
  <2> QED BY <1>1, <1>5, <2>1 DEF AllHonest
<1>12. AllOnTrack'
  BY <1>1, <1>8 DEF AllOnTrack, Run
<1> QED BY <1>7, <1>9, <1>10, <1>11, <1>12 DEF PipelineInv, DailyOK

LEMMA SameLaunches ==
  ASSUME PipelineInv, UNCHANGED pipelineVars, DailyOK' PROVE PipelineInv'
<1>1. TypeOK'
  BY DEF PipelineInv, TypeOK, DailyOK, pipelineVars
<1>2. OwnLaunch' /\ Holding' /\ AllHonest' /\ AllOnTrack'
  BY DEF PipelineInv, OwnLaunch, Holding, AllHonest, AllOnTrack, Run, pipelineVars
<1> QED BY <1>1, <1>2 DEF PipelineInv, DailyOK

LEMMA OutsideSafe ==
  ASSUME PipelineInv, NEW p \in Procs, Launch(p) \/ Kill(p) \/ OrphanEnds
  PROVE  PipelineInv'
<1>1. TypeOK /\ DailyOK
  BY DailySplit DEF PipelineInv
<1>2. CASE Launch(p)
  <2> PICK want \in OptionSets : Start(p, want, FALSE)
    BY <1>2 DEF Launch
  <2>1. want \subseteq {"bio", "tags", "embeddings"}
    BY IngestionAssumption
  <2>2. child' \in 0..launches'
    BY <1>1, <1>2 DEF Launch, Start, DailyOK, TypeOK, dailyVars
  <2>3. DailyOK'
    BY <1>1, <1>2, <2>2 DEF Launch, DailyOK, Waiting, NoFault, dailyVars
  <2> QED BY <2>1, <2>3, StartStep
<1>3. CASE Kill(p)
  <2>1. faults' \in 0..MaxFaults
    BY <1>1, <1>3, FaultsBounded DEF Kill
  <2>2. DailyOK'
    BY <1>1, <1>3, <2>1 DEF Kill, DailyOK, Waiting, dailyVars
  <2> QED BY <1>3, <2>2, DieStep DEF Kill
<1>4. CASE OrphanEnds
  <2>1. TypeOK'
    BY <1>1, <1>4 DEF OrphanEnds, TypeOK, NoFault, dailyVars
  <2>2. OwnLaunch' /\ Holding' /\ AllHonest' /\ AllOnTrack' /\ Waiting'
    BY <1>4 DEF OrphanEnds, PipelineInv, OwnLaunch, Holding, AllHonest,
                AllOnTrack, Run, Waiting, dailyVars
  <2> QED BY <2>1, <2>2 DEF PipelineInv
<1> QED BY <1>2, <1>3, <1>4

LEMMA DailySafe ==
  ASSUME PipelineInv,
         CoverageFails \/ Refreshed \/ Schedule \/ Cron \/ KillDaily
         \/ \E p \in Procs : Refresh(p)
  PROVE  PipelineInv'
<1>1. TypeOK /\ DailyOK /\ launches \in Nat /\ MaxStarts \in Nat
      /\ 0 \in 0..launches /\ {"none", "ok", "busy", "error", "killed"} \subseteq Codes
  BY DailySplit, IngestionAssumption DEF PipelineInv, TypeOK, Codes
<1>2. Fault \/ NoFault => faults' \in 0..MaxFaults
  BY <1>1, FaultsBounded
<1>3. ASSUME NEW code \in Codes, Return(code), UNCHANGED starts,
             scheduled' \in BOOLEAN, launches' = launches, Fault \/ NoFault
      PROVE  DailyOK'
  BY <1>1, <1>2, <1>3 DEF Return, DailyOK, Waiting
<1>4. CASE CoverageFails
  BY <1>1, <1>3, <1>4, SameLaunches DEF CoverageFails, DailyOK, pipelineVars
<1>5. CASE Schedule
  BY <1>1, <1>3, <1>5, SameLaunches DEF Schedule, DailyOK, pipelineVars
<1>6. CASE Refreshed
  <2>1. launches' = launches /\ UNCHANGED pipelineVars /\ NoFault
        /\ scheduled' = scheduled /\ starts' = starts
    BY <1>6 DEF Refreshed, pipelineVars
  <2>2. CASE RefreshOk(child)
    <3>1. DailyOK'
      BY <1>1, <1>2, <1>6, <2>1, <2>2 DEF Refreshed, DailyOK, Waiting
    <3> QED BY <2>1, <3>1, SameLaunches
  <2>3. CASE ~RefreshOk(child)
    <3>1. Return(runs[child].code)
      BY <1>6, <2>3 DEF Refreshed
    <3>2. child \in 1..MaxLaunches
      BY <1>1, <1>6, IngestionAssumption DEF Refreshed, DailyOK, Waiting, TypeOK
    <3>3. runs[child].code \in Codes
      BY <1>1, <3>2 DEF TypeOK, RunRows
    <3>4. DailyOK'
      BY <1>1, <1>3, <2>1, <3>1, <3>3 DEF DailyOK
    <3> QED BY <2>1, <3>4, SameLaunches
  <2> QED BY <2>2, <2>3
<1>7. CASE Cron
  <2>1. DailyOK'
    BY <1>1, <1>7 DEF Cron, DailyOK, Waiting, NoFault, pipelineVars
  <2> QED BY <1>7, <2>1, SameLaunches DEF Cron
<1>8. CASE KillDaily
  <2>1. launches' = launches /\ Return("killed") /\ Fault
        /\ scheduled' = scheduled /\ starts' = starts
    BY <1>8 DEF KillDaily, pipelineVars
  <2>2. DailyOK'
    BY <1>1, <1>3, <2>1 DEF DailyOK
  <2>3. CASE UNCHANGED pipelineVars
    BY <2>2, <2>3, SameLaunches
  <2>4. CASE Die({p \in Procs : launch[p] = child})
             /\ UNCHANGED <<launch, todo, logged, chrome, launches>>
    BY <2>2, <2>4, DieStep
  <2> QED BY <1>8, <2>3, <2>4 DEF KillDaily
<1>9. ASSUME NEW p \in Procs, Refresh(p) PROVE PipelineInv'
  <2>1. Start(p, {"tags", "embeddings"}, TRUE)
    BY <1>9 DEF Refresh
  <2>2. child' \in 0..launches' /\ child' # 0
    BY <1>1, <1>9 DEF Refresh, Start
  <2>3. DailyOK'
    BY <1>1, <1>9, <2>2 DEF Refresh, DailyOK, Waiting, NoFault
  <2> QED BY <2>1, <2>3, StartStep
<1> QED BY <1>4, <1>5, <1>6, <1>7, <1>8, <1>9

-----------------------------------------------------------------------------
LEMMA PipelineInit == Init => PipelineInv
<1> SUFFICES ASSUME Init PROVE PipelineInv
  OBVIOUS
<1>1. MaxLaunches \in Nat /\ MaxStarts \in Nat /\ MaxFaults \in Nat
  BY IngestionAssumption
<1>2. NewRun({}, FALSE) \in RunRows
  BY DEF NewRun, RunRows, Statuses, Codes
<1>3. TypeOK
  <2>1. <<>> \in Seq(Stages)
    OBVIOUS
  <2>2. todo \in [Procs -> Seq(Stages)]
    BY <2>1 DEF Init
  <2>3. runs \in [1..MaxLaunches -> RunRows]
    BY <1>2 DEF Init
  <2>4. /\ launch \in [Procs -> 0..MaxLaunches] /\ logged \in [Procs -> BOOLEAN]
        /\ pc \in [Procs -> Places] /\ {lock, chrome} \subseteq Procs \cup {NoProc}
    BY <1>1 DEF Init, Places
  <2>5. /\ launches \in 0..MaxLaunches /\ child \in 0..launches
        /\ starts \in 0..MaxStarts /\ faults \in 0..MaxFaults
    BY <1>1 DEF Init
  <2>6. told \in Codes /\ worker \in {"free", "daily"} /\ scheduled \in BOOLEAN
        /\ daily \in {"idle", "coverage", "refresh", "schedule"}
    BY DEF Init, Codes
  <2> QED BY <2>2, <2>3, <2>4, <2>5, <2>6 DEF TypeOK, Places
<1>4. OwnLaunch /\ Holding /\ AllOnTrack /\ Waiting
  BY <1>1 DEF Init, OwnLaunch, Holding, AllOnTrack, Waiting, AtWork
<1>5. AllHonest
  BY <1>1 DEF Init, AllHonest
<1> QED BY <1>3, <1>4, <1>5 DEF PipelineInv

LEMMA PipelineNext == PipelineInv /\ [Next]_vars => PipelineInv'
<1> SUFFICES ASSUME PipelineInv, [Next]_vars PROVE PipelineInv'
  OBVIOUS
<1>1. CASE UNCHANGED vars
  <2>1. DailyOK' /\ UNCHANGED pipelineVars
    BY <1>1, DailySplit DEF vars, pipelineVars, DailyOK, Waiting
  <2> QED BY <2>1, SameLaunches
<1>2. ASSUME NEW p \in Procs, Step(p) PROVE PipelineInv'
  BY <1>2, PrepareSafe, LeaveSafe, BeginSafe, StartStageSafe,
     StageSucceedsSafe, StageFailsSafe, ScopeSafe, BreakSafe, FinishSafe DEF Step
<1>3. ASSUME NEW p \in Procs,
             Launch(p) \/ Unprepared(p) \/ Break(p) \/ LoseSession(p) \/ Kill(p)
      PROVE  PipelineInv'
  BY <1>3, OutsideSafe, LeaveSafe, BreakSafe, LoseSessionSafe
<1>4. CASE OrphanEnds
  <2>1. \E p \in Procs : TRUE
    BY <1>4 DEF OrphanEnds, PipelineInv, TypeOK
  <2> QED BY <1>4, <2>1, OutsideSafe
<1>5. CASE DailyStep \/ Cron \/ KillDaily
  BY <1>5, DailySafe DEF DailyStep
<1> QED BY <1>1, <1>2, <1>3, <1>4, <1>5 DEF Next

LEMMA PipelineAlways == Spec => []PipelineInv
  BY PipelineInit, PipelineNext, PTL DEF Spec

\* Every variable of the pipelines and of the scheduled command keeps its
\* type (full_pipeline.py, import_run_logger.py, daily_ingestion.py).
THEOREM PipelineTypes == Spec => []TypeOK
<1>1. PipelineInv => TypeOK
  BY DEF PipelineInv
<1> QED BY <1>1, PipelineAlways, PTL

\* However many processes start pipelines, two of them work together only
\* after one has lost the session of its lock (pipeline_lock.py).
THEOREM OnePipeline == Spec => []OneWorks
<1>1. PipelineInv => OneWorks
  BY Work DEF PipelineInv, Holding, OneWorks
<1> QED BY <1>1, PipelineAlways, PTL

\* What the log calls succeeded was done, whatever fails on the way and
\* whatever is written of it (full_pipeline.py, import_run_logger.py).
THEOREM TrueLog == Spec => []LogIsTrue
<1>1. \A l : Required(l) = Needs(runs[l])
  BY DEF Required, Needs
<1>2. PipelineInv => LogIsTrue
  BY <1>1 DEF PipelineInv, AllHonest, Honest, LogIsTrue
<1> QED BY <1>2, PipelineAlways, PTL

-----------------------------------------------------------------------------
(* The exit code and the log *)

\* ExitMatchesLog of one run that nobody executes any more.
Agrees(r) ==
    r.status # "none" /\ ~r.lossy /\ ~r.unlocked /\ r.code # "killed"
        => /\ r.status # "running"
           /\ (r.code = "ok") = (r.status = "succeeded")

\* What the row and the code of a run are, wherever its process stands, if no
\* write of the log was lost.
InStep(where, r) ==
    /\ where \in {"prepare", "provider", "lock", "begin"} => r.status = "none"
    /\ where = "cleanup" => r.lossy \/ r.status = "succeeded"
    /\ where = "failing" => r.code # "ok"
    /\ where = "closing" =>
          r.lossy \/ (r.code = "ok" /\ r.status = "succeeded")
                  \/ (r.code # "ok" /\ r.status = "failed")

LogInv ==
    /\ \A p \in Procs : pc[p] # "off" => InStep(pc[p], Run(p))
    /\ \A l \in 1..launches : ~Owned(l) => Agrees(runs[l])

\* A step of p that changes its own run only.
LEMMA OwnRun ==
  ASSUME PipelineInv, LogInv, NEW p \in Procs, pc[p] # "off",
         NEW where, NEW r, pc' = [pc EXCEPT ![p] = where],
         runs' = [runs EXCEPT ![launch[p]] = r], UNCHANGED <<launch, launches>>,
         IF where = "off" THEN Agrees(r) ELSE InStep(where, r)
  PROVE  LogInv'
<1>1. /\ pc \in [Procs -> Places] /\ runs \in [1..MaxLaunches -> RunRows]
      /\ launches \in 0..MaxLaunches /\ MaxLaunches \in Nat
  BY IngestionAssumption DEF PipelineInv, TypeOK, Places
<1>2. /\ launch[p] \in 1..launches
      /\ \A q \in Procs : q # p /\ pc[q] # "off" =>
            launch[q] # launch[p] /\ launch[q] \in 1..launches
  BY DEF PipelineInv, OwnLaunch
<1>3. 1..launches \subseteq 1..MaxLaunches
  BY <1>1
<1>4. \A q \in Procs : pc'[q] = IF q = p THEN where ELSE pc[q]
  BY <1>1
<1>5. \A l \in 1..launches : runs'[l] = IF l = launch[p] THEN r ELSE runs[l]
  BY <1>1, <1>2, <1>3
<1>6. ASSUME NEW q \in Procs, pc'[q] # "off" PROVE InStep(pc'[q], runs'[launch[q]])
  <2>1. CASE q = p
    BY <1>2, <1>4, <1>5, <1>6, <2>1
  <2>2. CASE q # p
    BY <1>2, <1>4, <1>5, <1>6, <2>2 DEF LogInv, Run
  <2> QED BY <2>1, <2>2
<1>7. ASSUME NEW l \in 1..launches, ~Owned(l)' PROVE Agrees(runs'[l])
  <2>1. CASE l = launch[p]
    BY <1>4, <1>5, <1>7, <2>1 DEF Owned
  <2>2. CASE l # launch[p]
    <3>1. ~Owned(l)
      BY <1>4, <1>7, <2>2 DEF Owned
    <3> QED BY <1>5, <2>2, <3>1 DEF LogInv
  <2> QED BY <2>1, <2>2
<1> QED BY <1>6, <1>7 DEF LogInv, Run

\* Until the row is written a process is in step whatever it does.
LEMMA LogPrepare ==
  ASSUME PipelineInv, LogInv, NEW p \in Procs,
         Prepare(p) \/ Prepared(p) \/ AcquireLock(p)
  PROVE  LogInv'
<1>1. pc[p] \in {"prepare", "provider", "lock"} /\ pc[p] # "off"
  BY DEF Prepare, Prepared, AcquireLock
<1>2. PICK where \in {"provider", "lock", "begin"} : pc' = [pc EXCEPT ![p] = where]
  BY DEF Prepare, Prepared, AcquireLock, Goto
<1>3. runs' = [runs EXCEPT ![launch[p]] = Run(p)] /\ UNCHANGED <<launch, launches>>
  BY <1>1, Running DEF Prepare, Prepared, AcquireLock
<1>4. InStep(where, Run(p))
  BY <1>1 DEF LogInv, InStep
<1> QED BY <1>1, <1>2, <1>3, <1>4, OwnRun

LEMMA LogLeave ==
  ASSUME PipelineInv, LogInv, NEW p \in Procs, Unprepared(p) \/ Contend(p) \/ Close(p)
  PROVE  LogInv'
<1>1. pc[p] # "off"
  BY DEF Unprepared, Contend, Close
<1>2. PICK code : Exit(p, code) /\ (pc[p] = "closing" =>
                     code = IF lock = p THEN Run(p).code ELSE "error")
  BY DEF Unprepared, Contend, Close
<1>3. pc[p] \in {"prepare", "provider", "lock", "closing"} /\ UNCHANGED <<launch, launches>>
  BY DEF Unprepared, Contend, Close
<1> DEFINE r == [Run(p) EXCEPT !.code = code]
<1>4. runs' = [runs EXCEPT ![launch[p]] = r] /\ pc' = [pc EXCEPT ![p] = "off"]
  BY <1>1, <1>2, SetField DEF Exit
<1>5. r.status = Run(p).status /\ r.lossy = Run(p).lossy /\ r.unlocked = Run(p).unlocked
      /\ r.code = code
  BY <1>1, Running DEF RunRows
<1>6. InStep(pc[p], Run(p)) /\ (pc[p] = "closing" => Run(p).unlocked \/ lock = p)
  BY <1>1 DEF LogInv, PipelineInv, Holding, AtWork
<1> HIDE DEF r
<1>7. Agrees(r)
  BY <1>2, <1>3, <1>5, <1>6 DEF Agrees, InStep
<1> QED BY <1>1, <1>3, <1>4, <1>7, OwnRun

\* While the stages run nothing is decided, and no code is ok.
LEMMA LogStages ==
  ASSUME PipelineInv, LogInv, NEW p \in Procs,
         \/ Begin(p) \/ StartStage(p) \/ StageSucceeds(p) \/ StageFails(p)
         \/ Scope(p)
  PROVE  LogInv'
<1>1. pc[p] \in {"begin", "next", "stage", "scope"} /\ pc[p] # "off"
  BY DEF Begin, StartStage, StageSucceeds, StageFails, Scope
<1>2. PICK where \in {"next", "stage", "scope", "finish", "failing"} :
        /\ pc' = [pc EXCEPT ![p] = where]
        /\ where = "failing" => StageFails(p)
  BY DEF Begin, StartStage, StageSucceeds, StageFails, Scope, Goto, OnFailure
<1>3. UNCHANGED <<launch, launches>>
  BY DEF Begin, StartStage, StageSucceeds, StageFails, Scope
<1>4. \E r : /\ runs' = [runs EXCEPT ![launch[p]] = r]
             /\ StageFails(p) => r.code # "ok"
  <2>1. launch[p] \in 1..MaxLaunches /\ runs \in [1..MaxLaunches -> RunRows]
        /\ Run(p) \in RunRows /\ runs = [runs EXCEPT ![launch[p]] = Run(p)]
    BY <1>1, Running DEF PipelineInv, TypeOK
  <2>2. CASE StageFails(p)
    <3>1. PICK code \in {"busy", "error"} :
             runs' = [runs EXCEPT ![launch[p]] =
                        [Logged(p, Run(p), Head(todo[p]), "failed") EXCEPT !.code = code]]
      BY <2>2 DEF StageFails
    <3>2. [Logged(p, Run(p), Head(todo[p]), "failed") EXCEPT !.code = code].code = code
      BY <2>1 DEF Logged, RunRows
    <3> QED BY <3>1, <3>2
  <2>3. CASE StartStage(p)
    <3>1. PICK s : runs' = [runs EXCEPT ![launch[p]].stages[s] = "running"] \/ runs' = runs
      BY <2>3 DEF StartStage
    <3> DEFINE r == [Run(p) EXCEPT !.stages[s] = "running"]
    <3>2. runs' = [runs EXCEPT ![launch[p]] = r] \/ runs' = [runs EXCEPT ![launch[p]] = Run(p)]
      BY <2>1, <3>1 DEF Run
    <3>3. pc[p] # "stage"
      BY <2>3 DEF StartStage
    <3> HIDE DEF r
    <3> QED BY <3>2, <3>3 DEF StageFails
  <2>4. CASE StageSucceeds(p) /\ ~StageFails(p)
    BY <2>4 DEF StageSucceeds
  <2>5. CASE Begin(p) \/ Scope(p)
    <3>1. ~StageFails(p)
      BY <2>5 DEF Begin, Scope, StageFails
    <3>2. CASE Begin(p)
      BY <1>1, <3>1, <3>2, SetField DEF Begin
    <3>3. CASE Scope(p)
      <4>1. PICK scope : Set(p, "scope", scope)
        BY <3>3 DEF Scope
      <4>2. runs' = [runs EXCEPT ![launch[p]] = [Run(p) EXCEPT !.scope = scope]]
        BY <1>1, <4>1, SetField
      <4> QED BY <3>1, <4>2
    <3> QED BY <2>5, <3>2, <3>3
  <2> QED BY <2>2, <2>3, <2>4, <2>5
<1>5. PICK r : /\ runs' = [runs EXCEPT ![launch[p]] = r]
               /\ StageFails(p) => r.code # "ok"
  BY <1>4
<1>6. InStep(where, r) /\ where # "off"
  BY <1>2, <1>5 DEF InStep
<1> QED BY <1>1, <1>2, <1>3, <1>5, <1>6, OwnRun

LEMMA LogBreak ==
  ASSUME PipelineInv, LogInv, NEW p \in Procs, Break(p) \/ Cleanup(p)
  PROVE  LogInv'
<1>1. pc[p] \in {"scope", "next", "cleanup"} /\ pc[p] # "off"
  BY DEF Break, Cleanup
<1>2. UNCHANGED <<launch, launches>>
  BY DEF Break, Cleanup
<1>3. PICK where, code :
        /\ pc' = [pc EXCEPT ![p] = where] /\ Set(p, "code", code)
        /\ \/ where = "failing" /\ code = "error"
           \/ where = "closing" /\ code = "ok" /\ pc[p] = "cleanup"
  BY DEF Break, Cleanup, Goto
<1> DEFINE r == [Run(p) EXCEPT !.code = code]
<1>4. runs' = [runs EXCEPT ![launch[p]] = r]
  BY <1>1, <1>3, SetField
<1>5. r.code = code /\ r.status = Run(p).status /\ r.lossy = Run(p).lossy
  BY <1>1, Running DEF RunRows
<1>6. InStep(pc[p], Run(p))
  BY <1>1 DEF LogInv
<1> HIDE DEF r
<1>7. InStep(where, r)
  BY <1>3, <1>5, <1>6 DEF InStep
<1> QED BY <1>1, <1>2, <1>3, <1>4, <1>7, OwnRun

\* The verdict is written, or the run is known to have lost a write.
LEMMA LogVerdict ==
  ASSUME PipelineInv, LogInv, NEW p \in Procs, Finish(p) \/ Fail(p)
  PROVE  LogInv'
<1>1. pc[p] \in {"finish", "next", "failing"} /\ pc[p] # "off"
  BY DEF Finish, Fail
<1>2. UNCHANGED <<launch, launches>>
  BY DEF Finish, Fail
<1>3. PICK where, status :
        /\ pc' = [pc EXCEPT ![p] = where] /\ WriteStatus(p, status, Run(p))
        /\ \/ where = "cleanup" /\ status = "succeeded"
           \/ where = "closing" /\ status = "failed" /\ pc[p] = "failing"
  BY DEF Finish, Fail, Goto, Verdict
<1>4. PICK r : /\ runs' = [runs EXCEPT ![launch[p]] = r]
               /\ r = [Run(p) EXCEPT !.lossy = TRUE] \/ r = [Run(p) EXCEPT !.status = status]
  BY <1>3 DEF WriteStatus, Record
<1>5. r.code = Run(p).code /\ (r.lossy \/ r.status = status)
  BY <1>1, <1>4, Running DEF RunRows
<1>6. InStep(pc[p], Run(p))
  BY <1>1 DEF LogInv
<1>7. InStep(where, r)
  BY <1>3, <1>5, <1>6 DEF InStep
<1> QED BY <1>1, <1>2, <1>3, <1>4, <1>7, OwnRun

LEMMA LogLoss ==
  ASSUME PipelineInv, LogInv, NEW p \in Procs, LoseSession(p) PROVE LogInv'
<1>1. pc[p] # "off"
  BY IngestionAssumption DEF LoseSession, PipelineInv, Holding, AtWork
<1> DEFINE r == [Run(p) EXCEPT !.unlocked = TRUE]
<1>2. /\ runs' = [runs EXCEPT ![launch[p]] = r] /\ pc' = [pc EXCEPT ![p] = pc[p]]
      /\ UNCHANGED <<launch, launches>>
  BY <1>1, SetField, Running DEF LoseSession
<1>3. r.code = Run(p).code /\ r.status = Run(p).status /\ r.lossy = Run(p).lossy
  BY <1>1, Running DEF RunRows
<1> HIDE DEF r
<1>4. InStep(pc[p], r)
  BY <1>1, <1>3 DEF LogInv, InStep
<1> QED BY <1>1, <1>2, <1>4, OwnRun

LEMMA LogStart ==
  ASSUME PipelineInv, LogInv, NEW p \in Procs, NEW want, NEW forDay,
         Start(p, want, forDay)
  PROVE  LogInv'
<1> DEFINE n == launches + 1
           r == NewRun(want, forDay)
<1>1. launches \in 0..MaxLaunches /\ MaxLaunches \in Nat /\ launches < MaxLaunches
  BY IngestionAssumption DEF PipelineInv, TypeOK, Start
<1>2. n \in 1..MaxLaunches /\ n \notin 1..launches /\ 1..n = 1..launches \cup {n}
      /\ 1..launches \subseteq 1..MaxLaunches
  BY <1>1
<1>3. pc[p] = "off" /\ launches' = n /\ launch' = [launch EXCEPT ![p] = n]
      /\ runs' = [runs EXCEPT ![n] = r] /\ pc' = [pc EXCEPT ![p] = "prepare"]
  BY DEF Start, Goto
<1>4. r.status = "none"
  BY DEF NewRun
<1> HIDE DEF n, r
<1>5. \A l \in 1..launches : runs'[l] = runs[l]
  BY <1>2, <1>3 DEF PipelineInv, TypeOK
<1>6. runs'[n] = r
  BY <1>2, <1>3 DEF PipelineInv, TypeOK
<1>7. /\ launch'[p] = n /\ pc'[p] = "prepare"
      /\ \A q \in Procs : q # p => launch'[q] = launch[q] /\ pc'[q] = pc[q]
  BY <1>3 DEF PipelineInv, TypeOK
<1>8. ASSUME NEW q \in Procs, pc'[q] # "off" PROVE InStep(pc'[q], runs'[launch'[q]])
  <2>1. CASE q = p
    BY <1>4, <1>6, <1>7, <2>1 DEF InStep
  <2>2. CASE q # p
    <3>1. launch[q] \in 1..launches
      BY <1>7, <1>8, <2>2 DEF PipelineInv, OwnLaunch
    <3> QED BY <1>5, <1>7, <1>8, <2>2, <3>1 DEF LogInv, Run
  <2> QED BY <2>1, <2>2
<1>9. ASSUME NEW l \in 1..n, ~Owned(l)' PROVE Agrees(runs'[l])
  <2>1. l # n
    BY <1>7, <1>9 DEF Owned
  <2>2. l \in 1..launches
    BY <1>2, <2>1
  <2>3. ~Owned(l)
    BY <1>3, <1>7, <1>9, <2>1 DEF Owned
  <2> QED BY <1>5, <2>2, <2>3 DEF LogInv
<1> QED BY <1>3, <1>8, <1>9 DEF LogInv, Run

LEMMA LogDeath ==
  ASSUME PipelineInv, LogInv, NEW victims \in SUBSET Procs, Die(victims),
         UNCHANGED <<launch, launches>>
  PROVE  LogInv'
<1>1. /\ pc \in [Procs -> Places] /\ runs \in [1..MaxLaunches -> RunRows]
      /\ launches \in 0..MaxLaunches /\ MaxLaunches \in Nat
  BY IngestionAssumption DEF PipelineInv, TypeOK, Places
<1>2. \A q \in Procs : pc'[q] = IF q \in victims THEN "off" ELSE pc[q]
  BY DEF Die
<1>3. 1..launches \subseteq 1..MaxLaunches
  BY <1>1
<1>4. \A l \in 1..launches : runs'[l] =
         IF \E q \in victims : launch[q] = l /\ pc[q] # "off"
         THEN [runs[l] EXCEPT !.code = "killed"] ELSE runs[l]
  BY <1>1, <1>3 DEF Die
<1>5. ASSUME NEW q \in Procs, pc'[q] # "off" PROVE InStep(pc'[q], runs'[launch[q]])
  <2>1. q \notin victims /\ pc'[q] = pc[q] /\ launch[q] \in 1..launches
    BY <1>2, <1>5 DEF PipelineInv, OwnLaunch
  <2>2. ~\E v \in victims : launch[v] = launch[q] /\ pc[v] # "off"
    BY <1>5, <2>1 DEF PipelineInv, OwnLaunch
  <2> QED BY <1>4, <1>5, <2>1, <2>2 DEF LogInv, Run
<1>6. ASSUME NEW l \in 1..launches, ~Owned(l)' PROVE Agrees(runs'[l])
  <2>1. CASE \E q \in victims : launch[q] = l /\ pc[q] # "off"
    <3>1. runs[l] \in RunRows
      BY <1>1, <1>3
    <3>2. runs'[l].code = "killed"
      BY <1>4, <2>1, <3>1, ZenonT(40) DEF RunRows
    <3> QED BY <3>2 DEF Agrees
  <2>2. CASE ~\E q \in victims : launch[q] = l /\ pc[q] # "off"
    <3>1. ~Owned(l)
      BY <1>2, <1>6, <2>2 DEF Owned
    <3> QED BY <1>4, <2>2, <3>1 DEF LogInv
  <2> QED BY <2>1, <2>2
<1> QED BY <1>5, <1>6 DEF LogInv, Run

LEMMA LogNext == PipelineInv /\ LogInv /\ [Next]_vars => LogInv'
<1> SUFFICES ASSUME PipelineInv, LogInv, [Next]_vars PROVE LogInv'
  OBVIOUS
<1>1. ASSUME UNCHANGED <<pc, launch, runs, launches>> PROVE LogInv'
  BY <1>1 DEF LogInv, Owned, Run
<1>2. ASSUME NEW p \in Procs,
             Step(p) \/ Unprepared(p) \/ Break(p) \/ LoseSession(p)
      PROVE  LogInv'
  BY <1>2, LogPrepare, LogLeave, LogStages, LogBreak, LogVerdict, LogLoss DEF Step
<1>3. ASSUME NEW p \in Procs, Launch(p) \/ Refresh(p) PROVE LogInv'
  BY <1>3, LogStart DEF Launch, Refresh
<1>4. ASSUME NEW p \in Procs, Kill(p) PROVE LogInv'
  BY <1>4, LogDeath DEF Kill
<1>5. CASE KillDaily
  <2>1. CASE UNCHANGED pipelineVars
    BY <1>1, <2>1 DEF pipelineVars
  <2>2. CASE Die({p \in Procs : launch[p] = child}) /\ UNCHANGED <<launch, launches>>
    BY <2>2, LogDeath
  <2> QED BY <1>5, <2>1, <2>2 DEF KillDaily
<1>6. CASE OrphanEnds \/ CoverageFails \/ Refreshed \/ Schedule \/ Cron \/ UNCHANGED vars
  BY <1>1, <1>6 DEF OrphanEnds, CoverageFails, Refreshed, Schedule, Cron, vars, pipelineVars
<1> QED BY <1>2, <1>3, <1>4, <1>5, <1>6 DEF Next, DailyStep

LEMMA LogAlways == Spec => []LogInv
<1>1. Init => LogInv
  BY IngestionAssumption DEF Init, LogInv
<1> QED BY <1>1, PipelineAlways, LogNext, PTL DEF Spec

\* The exit code of a pipeline that ended by itself and its row in the log
\* agree, wherever it failed, unless a write or the lock's session was lost
\* (full_pipeline.py, import_run_logger.py).
THEOREM ExitAgrees == Spec => []ExitMatchesLog
<1>1. LogInv => ExitMatchesLog
  BY DEF LogInv, Agrees, ExitMatchesLog
<1> QED BY <1>1, LogAlways, PTL
=============================================================================
