------------------------ MODULE Reconciliation_proofs ------------------------
(***************************************************************************)
(* What coverage reconciliation promises for any number of workers, daily  *)
(* executions, dates, runs and faults: a verdict is true when it is stored *)
(* and, as long as no lock session was lost, complete and final.           *)
(*                                                                         *)
(* The argument. Placed gives every process what the step it is at needs:  *)
(* a run that exists, dates of that run, the stage the step belongs to.    *)
(* Seen is what a process has audited in the final stage. Neither needs    *)
(* the lock: whoever executes a run beside the process leaves its request  *)
(* and its last date alone. While the lock is intact the process that      *)
(* executes a run is the only one and its run is running (Alone); so the   *)
(* rows it has written are as it wrote them, and those of a decided run    *)
(* are nobody's.                                                           *)
(***************************************************************************)
EXTENDS Reconciliation, WellFoundedInduction, TLAPS

\* A run is inserted with its request; a last date is stored once, and it is the
\* requested one if there is one.
TablesInv ==
    \A r \in Runs :
        /\ status[r] # "none" =>
               request[r] \in Request /\ (MaxLosses > 0 => request[r].max # AutoDate)
        /\ resolved[r] # None =>
               /\ status[r] # "none"
               /\ request[r].max # AutoDate => resolved[r] = request[r].max

Unplanned == {"idle", "claim", "lock", "enqueue", "take", "start", "discover", "init"}
Planned   == RunPCs \ Unplanned
Repairing == {"mark", "next", "confirm", "child", "attempt", "success", "transient", "fatal"}
Judging   == {"audit", "verify", "finish"}

\* The dates have rows, once the planning has recorded them.
Recorded(m) ==
    \A d \in Span(m.run) :
        (m.stage = "planning" => d \notin m.left \cup m.todo) => row[m.run][d] \in DateRows

\* What the step a process with the variables m is at takes for granted.
Placed(m) ==
    /\ m.pc \in RunPCs \cup {"take", "check"} => m.run \in Runs /\ status[m.run] # "none"
    /\ m.pc \in Planned \cup {"init"} => resolved[m.run] # None
    /\ m.pc \in Planned =>
           /\ m.left \subseteq Span(m.run) /\ m.todo \subseteq Span(m.run)
           /\ m.sub \subseteq Span(m.run) /\ m.chunk \subseteq Span(m.run)
    /\ m.pc \in Planned => Recorded(m)
    /\ m.pc \in Unplanned \cup {"audit", "next", "child", "finish"} => m.todo = {}
    /\ m.pc \in Unplanned => m.sub = {} /\ m.chunk = {}
    /\ m.pc \in Unplanned \cup {"record"} => m.stage = "planning"
    /\ m.pc = "audit" => m.stage \in {"planning", "final"}
    /\ m.pc \in Repairing => m.stage \in {"historical", "future"}
    /\ m.pc = "verify" => m.stage # "planning"
    /\ m.pc = "finish" => m.stage = "final" /\ m.left = {}

\* The final audit finds nothing wrong so far.
Satisfied(m) == m.pc \in Judging /\ m.stage = "final" /\ m.ok

\* The dates of the run that have been audited in the final stage.
Checked(m) == Span(m.run) \ m.left

\* The history variable holds what is complete, and what the final audit saw.
Seen(p, m) ==
    /\ m.pc \in RunPCs => Complete(cover) \subseteq healthy[p]
    /\ Satisfied(m) => Checked(m) \subseteq healthy[p]

\* What the rows are while the lock is intact: as the final audit stored them.
Stored(m) ==
    /\ Satisfied(m) =>
           \A d \in Checked(m) \ m.todo :
               row[m.run][d].status = "complete"
    /\ Satisfied(m) /\ m.pc = "verify" => \A d \in m.todo : m.audits[d] = "complete"

\* What holds of a process while the lock is intact.
Alone(p, m) ==
    /\ m.pc \notin {"idle", "lock"} => holder = p
    /\ m.pc \in RunPCs => status[m.run] = "running"
    /\ m.pc = "take" => status[m.run] \in Active
    /\ m.pc = "discover" => resolved[m.run] = None
    /\ Stored(m)

Intact == losses = 0

Safe == SucceededIsComplete /\ \A p \in Procs : Alone(p, me[p])

ReconInv ==
    /\ TypeOK /\ TablesInv
    /\ \A p \in Procs : Placed(me[p]) /\ Seen(p, me[p])
    /\ Intact => Safe

----------------------------------------------------------------------------
(* Numbers and constants *)

LEMMA MinOf ==
    ASSUME NEW S, S \subseteq Nat, S # {}
    PROVE  Min(S) \in S /\ \A y \in S : Min(S) <= y
<1>1. IsWellFoundedOn(OpToRel(<, Nat), Nat)
  BY NatLessThanWellFounded, Zenon
<1> DEFINE less == OpToRel(<, Nat)
<1>2. \E x \in S : \A y \in S : <<y, x>> \notin less
  <2> HIDE DEF less
  <2>1. IsWellFoundedOn(less, Nat)
    BY <1>1, Zenon DEF less
  <2> QED BY <2>1, WFMin, Zenon
<1>3. \A x, y \in Nat : y < x => <<y, x>> \in less
  BY DEF OpToRel
<1>4. \E x \in S : \A y \in S : x <= y
  <2>1. PICK x \in S : \A y \in S : <<y, x>> \notin less
    BY <1>2
  <2> HIDE DEF less
  <2>2. \A y \in S : ~(y < x)
    BY <1>3, <2>1
  <2> QED BY <2>2
<1> QED BY <1>4 DEF Min

\* Numbers that belong to the first n dates have a bound.
LEMMA Bounded ==
    ASSUME NEW n \in Nat, NEW f \in [1..n -> Nat]
    PROVE  \E b \in Nat : \A d \in 1..n : f[d] <= b
<1> DEFINE Bound(k) == \E b \in Nat : \A d \in 1..n : d <= k => f[d] <= b
           bad == {k \in 0..n : ~Bound(k)}
<1>1. SUFFICES ASSUME bad # {} PROVE FALSE
  <2>1. n \in 0..n /\ (Bound(n) => \E b \in Nat : \A d \in 1..n : f[d] <= b)
    OBVIOUS
  <2>2. bad = {} => \A k \in 0..n : Bound(k)
    BY Zenon
  <2> QED BY <2>1, <2>2
<1>2. PICK m \in bad : \A y \in bad : m <= y
  <2>1. bad \subseteq Nat
    OBVIOUS
  <2> HIDE DEF bad
  <2> QED BY <1>1, <2>1, MinOf
<1>3. Bound(0)
  OBVIOUS
<1>4. m \in Nat /\ m <= n /\ m # 0 /\ ~Bound(m)
  <2>1. m \in 0..n /\ ~Bound(m)
    OBVIOUS
  <2> HIDE DEF Bound, bad
  <2> QED BY <1>3, <2>1
<1>5. Bound(m - 1)
  <2>1. m - 1 \in 0..n /\ m - 1 \notin bad
    <3> HIDE DEF Bound, bad
    <3> QED BY <1>2, <1>4
  <2> QED BY <2>1
<1>6. PICK b \in Nat : \A d \in 1..n : d <= m - 1 => f[d] <= b
  BY <1>5
<1> HIDE DEF bad
<1>7. f[m] \in Nat
  BY <1>4
<1>8. b + f[m] \in Nat /\ \A d \in 1..n : d <= m => f[d] <= b + f[m]
  <2>1. ASSUME NEW d \in 1..n, d <= m PROVE f[d] <= b + f[m]
    <3>1. CASE d = m
      BY <1>7, <3>1
    <3>2. CASE d # m
      <4>1. d <= m - 1
        BY <1>4, <2>1, <3>2
      <4>2. f[d] <= b /\ f[d] \in Nat
        BY <1>6, <4>1
      <4> QED BY <1>7, <4>2
    <3> QED BY <3>1, <3>2
  <2> QED BY <1>7, <2>1
<1> QED BY <1>4, <1>8

LEMMA MaxOf ==
    ASSUME NEW S, S \subseteq Nat, S # {}, NEW b \in Nat, \A x \in S : x <= b
    PROVE  Max(S) \in S
<1> DEFINE above == {u \in Nat : \A x \in S : x <= u}
<1>1. above \subseteq Nat /\ b \in above
  OBVIOUS
<1>2. Min(above) \in above /\ \A y \in above : Min(above) <= y
  <2> HIDE DEF above
  <2> QED BY <1>1, MinOf
<1>3. PICK u \in above : \A y \in above : u <= y
  BY <1>2
<1>4. u \in S
  <2> SUFFICES ASSUME u \notin S PROVE FALSE
    OBVIOUS
  <2>1. \A x \in S : x \in Nat /\ x < u
    BY <1>3
  <2>2. PICK x \in S : x < u
    BY <2>1
  <2>3. u - 1 \in Nat /\ \A y \in S : y <= u - 1
    BY <2>1, <2>2, <1>3
  <2> QED BY <2>3, <1>3
<1>5. \E x \in S : \A y \in S : x >= y
  BY <1>3, <1>4
<1> QED BY <1>5 DEF Max

LEMMA Constants ==
    /\ Workers \subseteq Procs /\ Dailies \subseteq Procs /\ Workers \cap Dailies = {}
    /\ LastDate \in Nat /\ Dates = 1..LastDate /\ Dates \subseteq Nat /\ Today \in Dates
    /\ Runs \subseteq Nat /\ MaxLosses \in Nat /\ MaxAttempts \in Nat \ {0}
    /\ AuditChunk \in Nat \ {0} /\ PipelineChunk \in Nat \ {0}
    /\ None \notin Procs /\ None \notin Dates /\ None \notin Runs /\ None \notin Request
    /\ None \notin DateRows /\ AutoDate \notin Dates
    /\ \A q \in Requests \cup {DailyRequest} :
           q \in Request /\ (MaxLosses > 0 => q.max # AutoDate)
<1>1. LastDate \in Nat \ {0} /\ Today \in Dates
  BY ReconciliationAssumption
<1>2. AuditChunk \in Nat \ {0} /\ PipelineChunk \in Nat \ {0}
  BY ReconciliationAssumption
<1>3. MaxAttempts \in Nat \ {0} /\ MaxLosses \in Nat
  BY ReconciliationAssumption
<1>4. Workers \cap Dailies = {} /\ AutoDate \notin Dates /\ None \notin Procs
  BY ReconciliationAssumption
<1>5. None \notin Dates /\ None \notin Runs /\ None \notin Request /\ None \notin DateRows
  BY ReconciliationAssumption
<1>6. \A q \in Requests \cup {DailyRequest} : q \in Request
  BY ReconciliationAssumption
<1>7. \A q \in Requests \cup {DailyRequest} : MaxLosses > 0 => q.max # AutoDate
  BY ReconciliationAssumption
<1> QED BY <1>1, <1>2, <1>3, <1>4, <1>5, <1>6, <1>7 DEF Procs, Dates, Runs

LEMMA ChunkType ==
    ASSUME NEW S \in SUBSET Dates, S # {}, NEW n \in Nat \ {0}
    PROVE  FirstChunk(S, n) \subseteq S /\ FirstChunk(S, n) # {}
<1>1. Min(S) \in S /\ Min(S) \in Nat /\ S \subseteq Nat
  BY MinOf, Constants
<1>2. Min(S)..Min(S) = {Min(S)}
  BY <1>1
<1>3. Min(S) \in FirstChunk(S, n)
  BY <1>1, <1>2 DEF FirstChunk
<1> QED BY <1>3 DEF FirstChunk

LEMMA IdleType == Idle \in Locals /\ Placed(Idle)
<1>1. Idle \in Locals
  BY Constants DEF Idle, Locals, PCs, RunPCs
<1>2. Placed(Idle)
  BY DEF Idle, Placed, RunPCs, Planned, Unplanned, Repairing
<1> QED BY <1>1, <1>2

LEMMA SpanType ==
    ASSUME TypeOK, TablesInv, NEW r \in Runs, resolved[r] # None
    PROVE  /\ request[r] \in Request /\ resolved[r] \in Dates /\ Span(r) \subseteq Dates
           /\ request[r].min \in Dates
<1>1. request[r] \in Request /\ resolved[r] \in Dates
  BY DEF TypeOK, TablesInv
<1>2. request[r].min \in 1..LastDate /\ resolved[r] \in 1..LastDate
  BY <1>1 DEF Request, Dates
<1> QED BY <1>1, <1>2, Constants DEF Span

----------------------------------------------------------------------------
(* What steps have in common *)

Statuses == Active \cup {"none", "succeeded", "failed", "future_horizon_exhausted"}

\* Only the variables of p may change.
Only(p) == me' \in [Procs -> Locals] /\ \A q \in Procs \ {p} : me'[q] = me[q]

\* Runs remain, with their requests, last dates and rows.
Grows ==
    \A r \in Runs : status[r] # "none" =>
        /\ status'[r] # "none" /\ request'[r] = request[r]
        /\ resolved[r] # None => resolved'[r] = resolved[r]
        /\ \A d \in Dates : row[r][d] \in DateRows => row'[r][d] \in DateRows

\* What is complete is recorded for a process that executes a run.
Noticed(q) ==
    me[q].pc \in RunPCs /\ me[q].run \in Runs =>
        /\ Complete(cover) \subseteq healthy[q] => Complete(cover') \subseteq healthy'[q]
        /\ healthy[q] \subseteq healthy'[q]

LEMMA Assign ==
    ASSUME me \in [Procs -> Locals], NEW p \in Procs, NEW x \in Locals,
           me' = [me EXCEPT ![p] = x]
    PROVE  Only(p) /\ me'[p] = x
  BY DEF Only

LEMMA GotoLocals ==
    ASSUME me \in [Procs -> Locals], NEW p \in Procs, NEW pc \in PCs, Goto(p, pc)
    PROVE  /\ Only(p) /\ me'[p] \in Locals /\ me'[p].pc = pc /\ me'[p].run = me[p].run
           /\ me'[p].stage = me[p].stage /\ me'[p].left = me[p].left
           /\ me'[p].sub = me[p].sub /\ me'[p].chunk = me[p].chunk
           /\ me'[p].todo = me[p].todo /\ me'[p].ok = me[p].ok
           /\ me'[p].audits = me[p].audits
<1>1. me[p] \in Locals
  OBVIOUS
<1>2. [me[p] EXCEPT !.pc = pc] \in Locals
  BY <1>1 DEF Locals
<1>3. me' = [me EXCEPT ![p] = [me[p] EXCEPT !.pc = pc]]
  BY DEF Goto, Local
<1> QED BY <1>1, <1>2, <1>3 DEF Only, Locals

LEMMA SpanKept ==
    ASSUME Grows, NEW r \in Runs, status[r] # "none", resolved[r] # None
    PROVE  Span(r)' = Span(r)
  BY DEF Grows, Span

\* A process that does not move keeps its place.
LEMMA OthersPlaced ==
    ASSUME ReconInv, Grows, NEW q \in Procs, me'[q] = me[q], Noticed(q)
    PROVE  Placed(me[q])' /\ Seen(q, me[q])'
<1> DEFINE m == me[q]
<1>1. Placed(m) /\ Seen(q, m) /\ TablesInv
  BY DEF ReconInv
<1>2. ASSUME m.pc \in RunPCs \cup {"take", "check"}
      PROVE  m.run \in Runs /\ status[m.run] # "none" /\ status'[m.run] # "none"
  BY <1>1, <1>2 DEF Placed, Grows
<1>3. ASSUME m.pc \in Planned \cup {"init"}
      PROVE  resolved[m.run] # None /\ resolved'[m.run] # None /\ Span(m.run)' = Span(m.run)
  <2>1. m.run \in Runs /\ status[m.run] # "none"
    BY <1>2, <1>3 DEF Planned, RunPCs, Unplanned
  <2>2. resolved[m.run] # None
    BY <1>1, <1>3 DEF Placed
  <2> QED BY <2>1, <2>2, SpanKept DEF Grows, Span
<1>4. m.pc \in Judging => m.pc \in Planned
  BY DEF Judging, Planned, RunPCs, Unplanned
<1>5. Planned \subseteq RunPCs
  BY DEF Planned
<1>6. Placed(me[q])'
  <2>1. ASSUME m.pc \in Planned PROVE Recorded(m)'
    <3>1. m.run \in Runs /\ status[m.run] # "none" /\ resolved[m.run] # None
      BY <1>2, <1>3, <2>1, <1>5
    <3>2. Span(m.run) \subseteq Dates /\ Span(m.run)' = Span(m.run) /\ Recorded(m)
      BY <1>1, <1>3, <2>1, <3>1, SpanType DEF ReconInv, Placed
    <3> QED BY <3>1, <3>2 DEF Grows, Recorded
  <2> QED BY <1>1, <1>2, <1>3, <2>1 DEF Placed
<1>7. (m.pc \in RunPCs => Complete(cover) \subseteq healthy[q])'
  BY <1>1, <1>2 DEF Seen, Noticed, Complete
<1>8. (Satisfied(m) => Checked(m) \subseteq healthy[q])'
  BY <1>1, <1>2, <1>3, <1>4, <1>5 DEF Seen, Noticed, Satisfied, Checked
<1> QED BY <1>6, <1>7, <1>8 DEF Seen

\* While the lock is intact, only its holder does anything to the tables.
LEMMA OthersIdle ==
    ASSUME ReconInv, Intact, NEW p \in Procs, me[p].pc \notin {"idle", "lock"},
           NEW q \in Procs, q # p, me'[q] = me[q]
    PROVE  Alone(q, me[q])'
<1>1. Alone(p, me[p]) /\ Alone(q, me[q])
  BY DEF ReconInv, Safe
<1>2. me[q].pc \in {"idle", "lock"}
  BY <1>1 DEF Alone
<1> QED BY <1>2 DEF Alone, Stored, Satisfied, Judging, RunPCs

\* The invariant of a step of p follows from what it says of p.
LEMMA Assemble ==
    ASSUME ReconInv, NEW p \in Procs, TypeOK', TablesInv', Grows, Only(p),
           \A q \in Procs \ {p} : Noticed(q),
           Placed(me[p])', Seen(p, me[p])',
           Intact' => /\ SucceededIsComplete' /\ Alone(p, me[p])'
                      /\ \A q \in Procs \ {p} : Alone(q, me[q])'
    PROVE  ReconInv'
<1>1. ASSUME NEW q \in Procs PROVE Placed(me[q])' /\ Seen(q, me[q])'
  <2>1. CASE q = p
    BY <2>1
  <2>2. CASE q # p
    BY <2>2, OthersPlaced DEF Only
  <2> QED BY <2>1, <2>2
<1>2. Intact' => Safe'
  BY DEF Safe
<1> QED BY <1>1, <1>2 DEF ReconInv

\* Runs other than r stay as they are.
Apart(r) ==
    \A s \in Runs \ {r} :
        /\ status'[s] = status[s] /\ request'[s] = request[s]
        /\ resolved'[s] = resolved[s] /\ row'[s] = row[s]

LEMMA SucceededKept ==
    ASSUME SucceededIsComplete, NEW r, Apart(r), status'[r] # "succeeded"
    PROVE  SucceededIsComplete'
<1> SUFFICES ASSUME NEW s \in Runs, status'[s] = "succeeded", NEW d \in Span(s)'
             PROVE  /\ row'[s][d] # None /\ row'[s][d].status = "complete"
                    /\ ~Historical(d) => row'[s][d].pipeline \in
                         {"succeeded"} \cup (IF request'[s].all THEN {} ELSE {"skipped"})
  BY Zenon DEF SucceededIsComplete, Historical
<1>1. /\ status[s] = "succeeded" /\ Span(s)' = Span(s) /\ row'[s] = row[s]
      /\ request'[s] = request[s]
  BY DEF Apart, Span
<1> QED BY <1>1 DEF SucceededIsComplete

\* A step that concerns only the variables of p.
LEMMA LocalStep ==
    ASSUME ReconInv, NEW p \in Procs, me[p].pc \notin {"idle", "lock"},
           NEW x \in Locals, Local(p, x), UNCHANGED table, Unmoved,
           Placed(x), Seen(p, x), Intact => Alone(p, x)
    PROVE  ReconInv'
<1>1. Only(p) /\ me'[p] = x
  BY Assign DEF Local, ReconInv, TypeOK
<1>2. /\ UNCHANGED <<status, request, resolved, row, cover, marker, holder, healthy>>
      /\ UNCHANGED <<submits, changes, faults, losses>>
  BY DEF table, Unmoved, Stay, budget
<1>3. TypeOK' /\ TablesInv' /\ Grows
  BY <1>1, <1>2 DEF ReconInv, TypeOK, TablesInv, Grows, Only
<1>4. \A q \in Procs \ {p} : Noticed(q)
  BY <1>2 DEF Noticed
<1>5. Placed(me[p])' /\ Seen(p, me[p])'
  BY <1>1, <1>2 DEF Placed, Recorded, Seen, Satisfied, Checked, Span, Complete
<1>6. ASSUME Intact'
      PROVE  /\ SucceededIsComplete' /\ Alone(p, me[p])'
             /\ \A q \in Procs \ {p} : Alone(q, me[q])'
  <2>1. Intact
    BY <1>2, <1>6 DEF Intact
  <2>2. SucceededIsComplete'
    BY <1>2, <2>1 DEF ReconInv, Safe, SucceededIsComplete, Span
  <2>3. Alone(p, me[p])'
    BY <1>1, <1>2, <2>1 DEF Alone, Stored, Satisfied, Checked, Span
  <2>4. \A q \in Procs \ {p} : Alone(q, me[q])'
    BY <1>1, <2>1, OthersIdle DEF Only
  <2> QED BY <2>2, <2>3, <2>4
<1> QED BY <1>1, <1>3, <1>4, <1>5, <1>6, Assemble

\* A step of an execution that concerns only its own variables.
LEMMA RunLocal ==
    ASSUME ReconInv, NEW p \in Procs, me[p].pc \in RunPCs,
           NEW x \in Locals, x.run = me[p].run, x.pc \in RunPCs \ {"discover"},
           Local(p, x), UNCHANGED table, Unmoved, Placed(x),
           Satisfied(x) => Checked(x) \subseteq healthy[p],
           Satisfied(x) /\ Intact => Stored(x)
    PROVE  ReconInv'
<1>1. Seen(p, me[p]) /\ (Intact => Alone(p, me[p]))
  BY DEF ReconInv, Safe
<1>2. Seen(p, x)
  BY <1>1 DEF Seen
<1>3. Stored(x) \/ Satisfied(x)
  BY DEF Stored
<1>4. Intact => Alone(p, x)
  BY <1>1, <1>3 DEF Alone, RunPCs
<1>5. me[p].pc \notin {"idle", "lock"}
  BY DEF RunPCs
<1> QED BY <1>2, <1>4, <1>5, LocalStep

\* The facts about a process in an execution.
LEMMA Here ==
    ASSUME ReconInv, NEW p \in Procs, me[p].pc \in RunPCs
    PROVE  /\ me[p] \in Locals /\ Placed(me[p]) /\ Seen(p, me[p]) /\ (Intact => Alone(p, me[p]))
           /\ me[p].run \in Runs /\ status[me[p].run] # "none"
           /\ resolved[me[p].run] # None => Span(me[p].run) \subseteq Dates
<1>1. me[p] \in Locals /\ Placed(me[p]) /\ TypeOK /\ TablesInv
  BY DEF ReconInv, TypeOK
<1>2. me[p].run \in Runs /\ status[me[p].run] # "none"
  BY <1>1 DEF Placed
<1> QED BY <1>1, <1>2, SpanType DEF ReconInv, Safe

LEMMA StagesOf ==
    /\ Unplanned \cap Planned = {} /\ Planned \subseteq RunPCs /\ RunPCs \subseteq PCs
    /\ Planned = {"audit", "record", "mark", "next", "confirm", "child", "attempt",
                  "success", "transient", "fatal", "verify", "finish"}
  BY DEF Planned, Unplanned, RunPCs, PCs

LEMMA StartAgain ==
    ASSUME ReconInv, NEW p \in Procs, me[p].pc = "start", resolved[me[p].run] # None,
           Local(p, [me[p] EXCEPT !.pc = "audit", !.left = Span(me[p].run)]),
           UNCHANGED table, Unmoved
    PROVE  ReconInv'
<1> DEFINE m == me[p]
           x == [m EXCEPT !.pc = "audit", !.left = Span(m.run)]
<1>1. m.pc \in RunPCs
  BY DEF RunPCs
<1>2. m \in Locals /\ Placed(m) /\ m.run \in Runs /\ status[m.run] # "none"
      /\ Span(m.run) \subseteq Dates
  BY <1>1, Here
<1>3. m.stage = "planning" /\ m.todo = {} /\ m.sub = {} /\ m.chunk = {}
  BY <1>2 DEF Placed, Unplanned
<1>4. /\ x \in Locals /\ x.pc = "audit" /\ x.run = m.run /\ x.left = Span(m.run)
      /\ x.stage = "planning" /\ x.todo = {} /\ x.sub = {} /\ x.chunk = {}
  BY <1>2, <1>3 DEF Locals, PCs, RunPCs
<1> HIDE DEF x
<1>5. Placed(x)
  BY <1>2, <1>4 DEF Placed, Recorded, Planned, Unplanned, Repairing, RunPCs
<1>6. ~Satisfied(x)
  BY <1>4 DEF Satisfied
<1>7. Local(p, x)
  BY DEF x
<1> QED BY <1>1, <1>4, <1>5, <1>6, <1>7, RunLocal DEF RunPCs

LEMMA AuditStep ==
    ASSUME ReconInv, NEW p \in Procs, AuditWindow(p)
    PROVE  ReconInv'
<1> DEFINE m == me[p]
           window == FirstChunk(m.left, AuditChunk)
           found  == Audited(p, window)
           pc == IF m.stage = "planning" THEN "record" ELSE "verify"
           ok == m.ok /\ (m.stage = "final" => \A d \in window : found[d] = "complete")
           x  == [m EXCEPT !.pc = pc, !.audits = found, !.todo = window,
                           !.left = m.left \ window, !.ok = ok]
<1>1. m.pc = "audit" /\ m.left # {} /\ m.pc \in RunPCs /\ m.pc \in Planned
  BY StagesOf DEF AuditWindow
<1>2. /\ m \in Locals /\ Placed(m) /\ Seen(p, m) /\ (Intact => Alone(p, m))
      /\ m.run \in Runs /\ status[m.run] # "none"
  BY <1>1, Here
<1>3. /\ resolved[m.run] # None /\ m.stage \in {"planning", "final"} /\ m.todo = {}
      /\ m.left \subseteq Span(m.run) /\ m.sub \subseteq Span(m.run)
      /\ m.chunk \subseteq Span(m.run) /\ Recorded(m)
  BY <1>1, <1>2 DEF Placed
<1>4. Span(m.run) \subseteq Dates
  BY <1>1, <1>3, Here
<1>5. window \subseteq m.left
  BY <1>1, <1>3, <1>4, ChunkType, Constants
<1>6. /\ found \in [Dates -> Audits \cup {"unknown"}]
      /\ \A d \in window : found[d] = cover[d]
  BY <1>2, <1>3, <1>4, <1>5 DEF Audited, Locals, ReconInv, TypeOK
<1>7. Local(p, x) /\ UNCHANGED table /\ Unmoved
  BY DEF AuditWindow
<1> HIDE DEF window, found
<1>8. /\ x \in Locals /\ x.pc = pc /\ x.run = m.run /\ x.left = m.left \ window
      /\ x.stage = m.stage /\ x.todo = window /\ x.sub = m.sub /\ x.chunk = m.chunk
      /\ x.audits = found /\ x.ok = ok
  <2>1. pc \in PCs /\ ok \in BOOLEAN
    BY StagesOf, <1>2 DEF Locals
  <2> HIDE DEF pc, ok
  <2> QED BY <1>2, <1>3, <1>4, <1>5, <1>6, <2>1 DEF Locals
<1> HIDE DEF x
<1>9. Placed(x)
  <2>1. Recorded(x)
    BY <1>3, <1>5, <1>8 DEF Recorded
  <2> QED BY <1>2, <1>3, <1>5, <1>8, <2>1, StagesOf DEF Placed, Unplanned, Repairing
<1>10. ASSUME Satisfied(x)
       PROVE  Satisfied(m) /\ \A d \in window : cover[d] = "complete" /\ found[d] = "complete"
  <2>1. x.ok /\ m.stage = "final"
    BY <1>8, <1>10 DEF Satisfied
  <2>2. m.ok /\ \A d \in window : found[d] = "complete"
    BY <1>8, <2>1
  <2> QED BY <1>1, <1>6, <2>1, <2>2 DEF Satisfied, Judging
<1>11. Satisfied(x) => Checked(x) \subseteq healthy[p]
  BY <1>1, <1>2, <1>3, <1>4, <1>5, <1>8, <1>10 DEF Seen, Checked, Complete
<1>12. Satisfied(x) /\ Intact => Stored(x)
  BY <1>2, <1>3, <1>5, <1>8, <1>10 DEF Stored, Checked, Alone
<1> QED BY <1>1, <1>7, <1>8, <1>9, <1>11, <1>12, StagesOf, RunLocal

\* A step within the repair of history or the refresh of the future.
LEMMA RepairLocal ==
    ASSUME ReconInv, NEW p \in Procs, me[p].pc \in Planned,
           NEW x \in Locals, x.run = me[p].run, x.pc \in Repairing \cup {"verify"},
           x.stage \in {"historical", "future"},
           x.left \subseteq Span(x.run), x.todo \subseteq Span(x.run),
           x.sub \subseteq Span(x.run), x.chunk \subseteq Span(x.run),
           x.pc \in {"next", "child"} => x.todo = {},
           \A d \in Span(x.run) : row[x.run][d] \in DateRows,
           Local(p, x), UNCHANGED table, Unmoved
    PROVE  ReconInv'
<1>1. me[p].pc \in RunPCs /\ x.pc \in RunPCs \ {"discover"}
  BY StagesOf DEF RunPCs, Repairing
<1>2. Placed(me[p]) /\ me[p].run \in Runs /\ status[me[p].run] # "none"
  BY <1>1, Here
<1>3. resolved[x.run] # None
  BY <1>2 DEF Placed
<1>4. Placed(x)
  BY <1>1, <1>2, <1>3, StagesOf DEF Placed, Recorded, Unplanned, Repairing
<1>5. ~Satisfied(x)
  BY DEF Satisfied
<1> QED BY <1>1, <1>4, <1>5, RunLocal

\* What a process at a planned step may rely on.
LEMMA HerePlanned ==
    ASSUME ReconInv, NEW p \in Procs, me[p].pc \in Planned
    PROVE  /\ me[p] \in Locals /\ me[p].run \in Runs /\ status[me[p].run] # "none"
           /\ resolved[me[p].run] # None /\ Span(me[p].run) \subseteq Dates
           /\ me[p].left \subseteq Span(me[p].run) /\ me[p].todo \subseteq Span(me[p].run)
           /\ me[p].sub \subseteq Span(me[p].run) /\ me[p].chunk \subseteq Span(me[p].run)
           /\ me[p].pc \in Repairing =>
                  /\ me[p].stage \in {"historical", "future"}
                  /\ \A d \in Span(me[p].run) : row[me[p].run][d] \in DateRows
           /\ me[p].pc \in {"next", "child"} => me[p].todo = {}
<1>1. me[p].pc \in RunPCs
  BY StagesOf
<1>2. me[p] \in Locals /\ Placed(me[p]) /\ me[p].run \in Runs /\ status[me[p].run] # "none"
  BY <1>1, Here
<1>3. resolved[me[p].run] # None
  BY <1>2 DEF Placed
<1>4. Span(me[p].run) \subseteq Dates
  BY <1>1, <1>3, Here
<1>5. me[p].pc \in Repairing => me[p].stage \in {"historical", "future"}
  BY <1>2 DEF Placed
<1>6. Recorded(me[p])
  BY <1>2 DEF Placed
<1>7. me[p].pc \in Repairing => \A d \in Span(me[p].run) : row[me[p].run][d] \in DateRows
  BY <1>5, <1>6 DEF Recorded
<1> QED BY <1>2, <1>3, <1>4, <1>5, <1>7 DEF Placed

LEMMA PlanHistoricalStep ==
    ASSUME ReconInv, NEW p \in Procs, PlanHistorical(p)
    PROVE  ReconInv'
<1> DEFINE m == me[p]
           past == {d \in Span(m.run) : Historical(d)}
           fine == \A d \in past : m.audits[d] # "conflict"
           todo == {d \in past : m.audits[d] = "complete" /\ Pipeline(p, d) = "pending"}
           left == {d \in past : m.audits[d] = "missing"}
           x == [m EXCEPT !.pc = "mark", !.stage = "historical", !.ok = fine,
                          !.todo = todo, !.left = left]
<1>1. m.pc \in Planned
  BY StagesOf DEF PlanHistorical, Wrote
<1>0. m \in Locals /\ Span(m.run) \subseteq Dates /\ m.left \subseteq Dates
  BY <1>1, HerePlanned
<1>2. Local(p, x) /\ UNCHANGED table /\ Unmoved
  BY DEF PlanHistorical
<1>3. todo \subseteq Span(m.run) /\ left \subseteq Span(m.run) /\ fine \in BOOLEAN
  OBVIOUS
<1> HIDE DEF fine, todo, left
<1>4. /\ x \in Locals /\ x.pc = "mark" /\ x.run = m.run /\ x.stage = "historical"
      /\ x.todo = todo /\ x.left = left /\ x.sub = m.sub /\ x.chunk = m.chunk
  BY <1>1, <1>3, <1>0 DEF Locals, PCs, RunPCs
<1> HIDE DEF x
<1>5. \A d \in Span(m.run) : row[m.run][d] \in DateRows
  <2>1. Recorded(m) /\ m.left = {} /\ m.todo = {}
    BY <1>1 DEF ReconInv, Placed, PlanHistorical, Wrote
  <2> QED BY <2>1 DEF Recorded
<1> QED BY <1>1, <1>2, <1>3, <1>4, <1>5, HerePlanned, RepairLocal DEF Repairing

LEMMA PlanFutureStep ==
    ASSUME ReconInv, NEW p \in Procs, PlanFuture(p)
    PROVE  ReconInv'
<1> DEFINE m == me[p]
           future == {d \in Span(m.run) : ~Historical(d)}
           all  == request[m.run].all
           todo == {d \in future : /\ ~all /\ m.audits[d] # "missing"
                                   /\ Pipeline(p, d) \in {"pending", "failed"}}
           left == {d \in future : \/ m.audits[d] = "missing"
                                   \/ all /\ Pipeline(p, d) # "succeeded"}
           x == [m EXCEPT !.pc = "mark", !.stage = "future", !.todo = todo, !.left = left]
<1>1. m.pc \in Planned /\ m.pc \in Repairing
  BY StagesOf DEF PlanFuture, Repairing
<1>0. m \in Locals /\ Span(m.run) \subseteq Dates /\ m.left \subseteq Dates
  BY <1>1, HerePlanned
<1>2. Local(p, x) /\ UNCHANGED table /\ Unmoved
  BY DEF PlanFuture
<1>3. todo \subseteq Span(m.run) /\ left \subseteq Span(m.run)
  OBVIOUS
<1> HIDE DEF todo, left
<1>4. /\ x \in Locals /\ x.pc = "mark" /\ x.run = m.run /\ x.stage = "future"
      /\ x.todo = todo /\ x.left = left /\ x.sub = m.sub /\ x.chunk = m.chunk
  BY <1>1, <1>3, <1>0 DEF Locals, PCs, RunPCs
<1> HIDE DEF x
<1>5. \A d \in Span(m.run) : row[m.run][d] \in DateRows
  BY <1>1, HerePlanned
<1> QED BY <1>1, <1>2, <1>3, <1>4, <1>5, HerePlanned, RepairLocal DEF Repairing

LEMMA RecheckStep ==
    ASSUME ReconInv, NEW p \in Procs, Recheck(p)
    PROVE  ReconInv'
<1> DEFINE m == me[p]
           outer == FirstChunk(m.left, PipelineChunk)
           found == Audited(p, outer)
           gaps  == {d \in outer : found[d] = "missing"}
           todo  == IF gaps = {} THEN outer ELSE {}
           pc    == IF gaps = {} THEN "confirm" ELSE "child"
           x == [m EXCEPT !.audits = found, !.left = m.left \ outer, !.sub = gaps,
                          !.pc = pc, !.todo = todo]
<1>1. m.pc \in Planned /\ m.pc \in Repairing /\ m.left # {}
  BY StagesOf DEF Recheck, Repairing
<1>0. m \in Locals /\ Span(m.run) \subseteq Dates /\ m.left \subseteq Dates
  BY <1>1, HerePlanned
<1>2. Local(p, x) /\ UNCHANGED table /\ Unmoved
  BY DEF Recheck
<1>3. outer \subseteq m.left
  BY <1>1, HerePlanned, ChunkType, Constants
<1>4. found \in [Dates -> Audits \cup {"unknown"}]
  BY <1>1, HerePlanned DEF Audited, Locals, ReconInv, TypeOK
<1> HIDE DEF outer, found
<1>5. /\ gaps \subseteq m.left /\ todo \subseteq m.left /\ pc \in {"confirm", "child"}
      /\ pc = "child" => todo = {}
  BY <1>3
<1> HIDE DEF gaps, todo, pc
<1>6. /\ x \in Locals /\ x.pc = pc /\ x.run = m.run /\ x.stage = m.stage
      /\ x.todo = todo /\ x.left \subseteq m.left /\ x.sub = gaps /\ x.chunk = m.chunk
  BY <1>1, <1>3, <1>4, <1>5, <1>0 DEF Locals, PCs, RunPCs
<1> HIDE DEF x
<1>7. \A d \in Span(m.run) : row[m.run][d] \in DateRows
  BY <1>1, HerePlanned
<1> QED BY <1>1, <1>2, <1>5, <1>6, <1>7, HerePlanned, RepairLocal DEF Repairing

LEMMA NextFutureStep ==
    ASSUME ReconInv, NEW p \in Procs, NextFuture(p)
    PROVE  ReconInv'
<1> DEFINE m == me[p]
           outer == FirstChunk(m.left, PipelineChunk)
           x == [m EXCEPT !.left = m.left \ outer, !.sub = outer, !.pc = "child"]
<1>1. m.pc = "next" /\ m.pc \in Planned /\ m.pc \in Repairing /\ m.left # {}
  BY StagesOf DEF NextFuture, Repairing
<1>0. m \in Locals /\ Span(m.run) \subseteq Dates /\ m.left \subseteq Dates
  BY <1>1, HerePlanned
<1>2. Local(p, x) /\ UNCHANGED table /\ Unmoved
  BY DEF NextFuture
<1>3. outer \subseteq m.left
  BY <1>1, HerePlanned, ChunkType, Constants
<1>4. m.todo = {}
  BY <1>1, HerePlanned
<1> HIDE DEF outer
<1>5. /\ x \in Locals /\ x.pc = "child" /\ x.run = m.run /\ x.stage = m.stage
      /\ x.todo = {} /\ x.left \subseteq m.left /\ x.sub = outer /\ x.chunk = m.chunk
  BY <1>1, <1>3, <1>4, <1>0 DEF Locals, PCs, RunPCs
<1> HIDE DEF x
<1> QED BY <1>1, <1>2, <1>3, <1>5, HerePlanned, RepairLocal DEF Repairing

LEMMA StartChildStep ==
    ASSUME ReconInv, NEW p \in Procs, StartChild(p)
    PROVE  ReconInv'
<1> DEFINE m == me[p]
           chunk == FirstChunk(m.sub, PipelineChunk)
           tried == Attempts(p, chunk)
           x == [m EXCEPT !.pc = "attempt", !.chunk = chunk, !.sub = m.sub \ chunk,
                          !.todo = chunk, !.base = Max(tried), !.try = 1]
<1>1. m.pc = "child" /\ m.pc \in Planned /\ m.pc \in Repairing /\ m.sub # {}
  BY StagesOf DEF StartChild, Repairing
<1>2. Local(p, x) /\ UNCHANGED table /\ Unmoved
  BY DEF StartChild
<1>3. /\ m \in Locals /\ m.run \in Runs /\ Span(m.run) \subseteq Dates
      /\ m.left \subseteq Span(m.run) /\ m.sub \subseteq Span(m.run)
      /\ m.stage \in {"historical", "future"}
      /\ \A d \in Span(m.run) : row[m.run][d] \in DateRows
  BY <1>1, HerePlanned
<1>4. chunk \subseteq m.sub /\ chunk # {}
  BY <1>1, <1>3, ChunkType, Constants
<1>5. Max(tried) \in Nat
  <2> HIDE DEF chunk
  <2>1. \A d \in chunk : row[m.run][d].attempts \in Nat
    BY <1>3, <1>4 DEF DateRows
  <2> DEFINE f == [d \in 1..LastDate |-> IF d \in chunk THEN row[m.run][d].attempts ELSE 0]
  <2>2. f \in [1..LastDate -> Nat]
    BY <2>1
  <2>3. PICK b \in Nat : \A d \in 1..LastDate : f[d] <= b
    <3> HIDE DEF f
    <3> QED BY <2>2, Bounded, Constants
  <2>4. chunk \subseteq 1..LastDate
    BY <1>3, <1>4, Constants
  <2>5. \A d \in chunk : row[m.run][d].attempts <= b
    BY <2>3, <2>4
  <2>6. tried \subseteq Nat /\ tried # {} /\ \A n \in tried : n <= b
    BY <1>4, <2>1, <2>5 DEF Attempts
  <2>7. Max(tried) \in tried
    <3> HIDE DEF tried
    <3> QED BY <2>6, MaxOf
  <2> QED BY <2>6, <2>7
<1> HIDE DEF chunk, tried
<1>6. /\ x \in Locals /\ x.pc = "attempt" /\ x.run = m.run /\ x.stage = m.stage
      /\ x.todo = chunk /\ x.left = m.left /\ x.sub \subseteq m.sub /\ x.chunk = chunk
  <2>1. 1 \in 0..MaxAttempts
    BY Constants
  <2> QED BY <1>3, <1>4, <1>5, <2>1 DEF Locals, PCs, RunPCs
<1> HIDE DEF x
<1> QED BY <1>1, <1>2, <1>3, <1>4, <1>6, RepairLocal DEF Repairing

LEMMA RetryStep ==
    ASSUME ReconInv, NEW p \in Procs, Retry(p)
    PROVE  ReconInv'
<1> DEFINE m == me[p]
           again == [m EXCEPT !.pc = "attempt", !.try = m.try + 1, !.todo = m.chunk]
           over  == [m EXCEPT !.pc = "child", !.ok = FALSE]
<1>1. m.pc \in Planned /\ m.pc \in Repairing /\ m.todo = {}
  BY StagesOf DEF Retry, Wrote, Repairing
<1>2. /\ Local(p, IF m.try < MaxAttempts THEN again ELSE over)
      /\ UNCHANGED table /\ Unmoved
  BY DEF Retry
<1>3. /\ m \in Locals /\ m.run \in Runs /\ Span(m.run) \subseteq Dates
      /\ m.left \subseteq Span(m.run) /\ m.sub \subseteq Span(m.run)
      /\ m.chunk \subseteq Span(m.run) /\ m.stage \in {"historical", "future"}
      /\ \A d \in Span(m.run) : row[m.run][d] \in DateRows
  BY <1>1, HerePlanned
<1>4. CASE m.try < MaxAttempts
  <2>1. m.try + 1 \in 0..MaxAttempts
    BY <1>3, <1>4, Constants DEF Locals
  <2>2. /\ again \in Locals /\ again.pc = "attempt" /\ again.run = m.run
        /\ again.stage = m.stage /\ again.todo = m.chunk /\ again.left = m.left
        /\ again.sub = m.sub /\ again.chunk = m.chunk
    BY <1>3, <2>1 DEF Locals, PCs, RunPCs
  <2>3. Local(p, again)
    BY <1>2, <1>4
  <2> HIDE DEF again
  <2> QED BY <1>1, <1>2, <1>3, <2>2, <2>3, RepairLocal DEF Repairing
<1>5. CASE ~(m.try < MaxAttempts)
  <2>1. /\ over \in Locals /\ over.pc = "child" /\ over.run = m.run
        /\ over.stage = m.stage /\ over.todo = {} /\ over.left = m.left
        /\ over.sub = m.sub /\ over.chunk = m.chunk
    BY <1>1, <1>3 DEF Locals, PCs, RunPCs
  <2>2. Local(p, over)
    BY <1>2, <1>5
  <2> HIDE DEF over
  <2> QED BY <1>1, <1>2, <1>3, <2>1, <2>2, RepairLocal DEF Repairing
<1> QED BY <1>4, <1>5

LEMMA VerifyStep ==
    ASSUME ReconInv, NEW p \in Procs, Verify(p)
    PROVE  ReconInv'
<1> DEFINE m == me[p]
           found == Audited(p, m.chunk)
           ok == m.ok /\ \A d \in m.chunk : found[d] = "complete"
           x == [m EXCEPT !.pc = "verify", !.audits = found, !.todo = m.chunk, !.ok = ok]
<1>1. m.pc \in Planned /\ m.pc \in Repairing
  BY StagesOf DEF Verify, Wrote, Repairing
<1>2. Local(p, x) /\ UNCHANGED table /\ Unmoved
  BY DEF Verify
<1>3. /\ m \in Locals /\ m.run \in Runs /\ Span(m.run) \subseteq Dates
      /\ m.left \subseteq Span(m.run) /\ m.sub \subseteq Span(m.run)
      /\ m.chunk \subseteq Span(m.run) /\ m.stage \in {"historical", "future"}
      /\ \A d \in Span(m.run) : row[m.run][d] \in DateRows
  BY <1>1, HerePlanned
<1>4. found \in [Dates -> Audits \cup {"unknown"}]
  BY <1>3 DEF Audited, Locals, ReconInv, TypeOK
<1>5. ok \in BOOLEAN
  BY <1>3 DEF Locals
<1> HIDE DEF found, ok
<1>6. /\ x \in Locals /\ x.pc = "verify" /\ x.run = m.run /\ x.stage = m.stage
      /\ x.todo = m.chunk /\ x.left = m.left /\ x.sub = m.sub /\ x.chunk = m.chunk
  BY <1>3, <1>4, <1>5 DEF Locals, PCs, RunPCs
<1> HIDE DEF x
<1> QED BY <1>1, <1>2, <1>3, <1>6, RepairLocal

LEMMA AtType ==
    ASSUME NEW m \in Locals, NEW pc \in PCs, NEW x, x = [m EXCEPT !.pc = pc]
    PROVE  /\ x \in Locals /\ x.pc = pc /\ x.run = m.run /\ x.stage = m.stage
           /\ x.left = m.left /\ x.sub = m.sub /\ x.chunk = m.chunk /\ x.todo = m.todo
           /\ x.ok = m.ok /\ x.audits = m.audits
  BY DEF Locals

LEMMA ContinueStep ==
    ASSUME ReconInv, NEW p \in Procs, Continue(p)
    PROVE  ReconInv'
<1> DEFINE m == me[p]
           At(pc) == [m EXCEPT !.pc = pc]
<1>1. m.pc \in Planned /\ m.pc \in RunPCs
  BY StagesOf DEF Continue, Wrote
<1>2. /\ m \in Locals /\ m.run \in Runs /\ Span(m.run) \subseteq Dates
      /\ status[m.run] # "none" /\ resolved[m.run] # None
      /\ m.left \subseteq Span(m.run) /\ m.sub \subseteq Span(m.run)
      /\ m.chunk \subseteq Span(m.run) /\ m.todo \subseteq Span(m.run)
  BY <1>1, HerePlanned
<1>3. Placed(m) /\ Seen(p, m) /\ Recorded(m) /\ (Intact => Stored(m))
  <2>1. Placed(m) /\ Seen(p, m) /\ (Intact => Alone(p, m))
    BY <1>1, Here
  <2> QED BY <1>1, <2>1 DEF Placed, Alone
<1>4. UNCHANGED table /\ Unmoved
  BY DEF Continue
<1>5. CASE Wrote(p, "record") /\ m.left # {} /\ Goto(p, "audit")
  <2> DEFINE x == At("audit")
  <2>1. Local(p, x) /\ m.pc = "record" /\ m.todo = {}
    BY <1>5 DEF Goto, Wrote
  <2>2. m.stage = "planning"
    BY <1>3, <2>1 DEF Placed
  <2>3. /\ x \in Locals /\ x.pc = "audit" /\ x.run = m.run /\ x.stage = m.stage
        /\ x.left = m.left /\ x.sub = m.sub /\ x.chunk = m.chunk /\ x.todo = m.todo
    BY <1>2, StagesOf, AtType
  <2> HIDE DEF x
  <2>4. Placed(x)
    BY <1>2, <1>3, <2>1, <2>2, <2>3, StagesOf DEF Placed, Recorded, Unplanned, Repairing
  <2>5. ~Satisfied(x)
    BY <2>2, <2>3 DEF Satisfied
  <2> QED BY <1>1, <1>4, <2>1, <2>3, <2>4, <2>5, StagesOf, RunLocal
<1>6. CASE /\ \/ (Wrote(p, "mark") \/ Wrote(p, "confirm")) /\ Goto(p, "next")
              \/ m.pc = "child" /\ m.sub = {} /\ Goto(p, "next")
              \/ Wrote(p, "verify") /\ m.stage # "final" /\ Goto(p, "child")
  <2>1. PICK pc \in {"next", "child"} : Goto(p, pc)
    BY <1>6
  <2> DEFINE x == At(pc)
  <2>2. /\ Local(p, x) /\ m.todo = {} /\ m.stage \in {"historical", "future"}
    <3>1. m.todo = {}
      BY <1>3, <1>6 DEF Wrote, Placed
    <3>2. m.pc \in Repairing \/ (m.pc = "verify" /\ m.stage # "final")
      BY <1>6 DEF Wrote, Repairing
    <3>3. m.stage \in {"historical", "future"}
      <4>1. m.stage \in {"planning", "historical", "future", "final"}
        BY <1>2 DEF Locals
      <4> QED BY <1>3, <3>2, <4>1 DEF Placed
    <3> QED BY <2>1, <3>1, <3>3 DEF Goto
  <2>3. /\ x \in Locals /\ x.pc = pc /\ x.run = m.run /\ x.stage = m.stage
        /\ x.left = m.left /\ x.sub = m.sub /\ x.chunk = m.chunk /\ x.todo = m.todo
    BY <1>2, StagesOf, AtType
  <2> HIDE DEF x
  <2>4. \A d \in Span(m.run) : row[m.run][d] \in DateRows
    BY <1>3, <2>2 DEF Recorded
  <2> QED BY <1>1, <1>2, <1>4, <2>2, <2>3, <2>4, RepairLocal DEF Repairing
<1>7. CASE /\ Wrote(p, "verify") /\ m.stage = "final"
           /\ Goto(p, IF m.left = {} THEN "finish" ELSE "audit")
  <2> DEFINE pc == IF m.left = {} THEN "finish" ELSE "audit"
             x == At(pc)
  <2>1. Local(p, x) /\ m.pc = "verify" /\ m.todo = {} /\ m.stage = "final"
    BY <1>7 DEF Goto, Wrote
  <2>2. pc \in {"finish", "audit"} /\ (pc = "finish" => m.left = {})
    OBVIOUS
  <2> HIDE DEF pc
  <2>3. /\ x \in Locals /\ x.pc = pc /\ x.run = m.run /\ x.stage = m.stage
        /\ x.left = m.left /\ x.sub = m.sub /\ x.chunk = m.chunk /\ x.todo = m.todo
        /\ x.ok = m.ok /\ x.audits = m.audits
    BY <1>2, <2>2, StagesOf, AtType
  <2> HIDE DEF x
  <2>4. Placed(x)
    BY <1>2, <1>3, <2>1, <2>2, <2>3, StagesOf DEF Placed, Recorded, Unplanned, Repairing
  <2>5. Satisfied(x) => Satisfied(m)
    BY <2>1, <2>3 DEF Satisfied, Judging
  <2>6. Satisfied(x) => Checked(x) \subseteq healthy[p]
    BY <1>3, <2>3, <2>5 DEF Seen, Checked
  <2>7. Satisfied(x) /\ Intact => Stored(x)
    BY <1>3, <2>1, <2>3, <2>5 DEF Stored, Checked
  <2> QED BY <1>1, <1>4, <2>1, <2>2, <2>3, <2>4, <2>6, <2>7, StagesOf, RunLocal
<1>8. CASE /\ m.pc = "next" /\ m.stage = "future" /\ m.left = {}
           /\ Local(p, [m EXCEPT !.pc = "audit", !.stage = "final", !.left = Span(m.run)])
  <2> DEFINE x == [m EXCEPT !.pc = "audit", !.stage = "final", !.left = Span(m.run)]
  <2>1. Local(p, x) /\ m.todo = {} /\ m.stage = "future"
    BY <1>3, <1>8 DEF Placed
  <2>2. /\ x \in Locals /\ x.pc = "audit" /\ x.run = m.run /\ x.stage = "final"
        /\ x.left = Span(m.run) /\ x.sub = m.sub /\ x.chunk = m.chunk /\ x.todo = m.todo
    BY <1>2, StagesOf DEF Locals
  <2> HIDE DEF x
  <2>3. Placed(x)
    BY <1>2, <1>3, <2>1, <2>2, StagesOf DEF Placed, Recorded, Unplanned, Repairing
  <2>4. Checked(x) = {}
    BY <2>2 DEF Checked
  <2>5. Stored(x)
    BY <2>2, <2>4 DEF Stored
  <2> QED BY <1>1, <1>4, <2>1, <2>2, <2>3, <2>4, <2>5, StagesOf, RunLocal
<1> QED BY <1>5, <1>6, <1>7, <1>8 DEF Continue

\* A change of the coverage is noticed by every process that executes a run.
LEMMA CoverStep ==
    ASSUME ReconInv, NEW c \in [Dates -> Audits], CoverBecomes(c)
    PROVE  /\ cover' \in [Dates -> Audits] /\ healthy' \in [Procs -> SUBSET Dates]
           /\ \A q \in Procs : Noticed(q)
<1>1. cover' = c /\ Complete(c) \subseteq Dates /\ healthy \in [Procs -> SUBSET Dates]
  BY DEF CoverBecomes, Complete, ReconInv, TypeOK
<1>2. \A q \in Procs :
        healthy'[q] = IF me[q].run = None THEN {} ELSE healthy[q] \cup Complete(c)
  BY DEF CoverBecomes
<1>3. healthy' \in [Procs -> SUBSET Dates]
  BY <1>1 DEF CoverBecomes
<1>4. \A q \in Procs : Noticed(q)
  BY <1>1, <1>2, Constants DEF Noticed
<1> QED BY <1>1, <1>3, <1>4

LEMMA ImportStep ==
    ASSUME ReconInv, NEW S, Import(S)
    PROVE  /\ cover' \in [Dates -> Audits] /\ healthy' \in [Procs -> SUBSET Dates]
           /\ \A q \in Procs : Noticed(q)
<1>1. PICK fixed :
        CoverBecomes([d \in Dates |-> IF d \in fixed THEN "complete" ELSE cover[d]])
  BY DEF Import
<1>2. [d \in Dates |-> IF d \in fixed THEN "complete" ELSE cover[d]] \in [Dates -> Audits]
  BY DEF ReconInv, TypeOK, Audits
<1> QED BY <1>1, <1>2, CoverStep

\* A pipeline changes the coverage, and the process that started it goes on.
LEMMA CoverLocal ==
    ASSUME ReconInv, NEW p \in Procs, me[p].pc \notin {"idle", "lock"},
           NEW x \in Locals, Local(p, x), NEW S, Import(S),
           UNCHANGED <<table, holder, budget>>, marker' \in BOOLEAN,
           x.pc \in RunPCs => me[p].pc \in RunPCs /\ x.run = me[p].run,
           Placed(x), ~Satisfied(x), Intact => Alone(p, x)
    PROVE  ReconInv'
<1>1. Only(p) /\ me'[p] = x
  BY Assign DEF Local, ReconInv, TypeOK
<1>2. /\ UNCHANGED <<status, request, resolved, row, holder>>
      /\ UNCHANGED <<submits, changes, faults, losses>>
  BY DEF table, budget
<1>3. /\ cover' \in [Dates -> Audits] /\ healthy' \in [Procs -> SUBSET Dates]
      /\ \A q \in Procs : Noticed(q)
  BY ImportStep
<1>4. TypeOK' /\ TablesInv' /\ Grows
  BY <1>1, <1>2, <1>3 DEF ReconInv, TypeOK, TablesInv, Grows, Only
<1>5. Placed(me[p])' /\ ~Satisfied(me[p])'
  BY <1>1, <1>2 DEF Placed, Recorded, Satisfied, Span
<1>6. Seen(p, me[p])'
  <2>1. ASSUME x.pc \in RunPCs PROVE Complete(cover') \subseteq healthy'[p]
    <3>1. Complete(cover) \subseteq healthy[p] /\ me[p].run \in Runs
      BY <2>1 DEF ReconInv, Seen, Placed
    <3> QED BY <1>3, <2>1, <3>1 DEF Noticed
  <2> QED BY <1>1, <1>5, <2>1 DEF Seen, Complete
<1>7. ASSUME Intact'
      PROVE  /\ SucceededIsComplete' /\ Alone(p, me[p])'
             /\ \A q \in Procs \ {p} : Alone(q, me[q])'
  <2>1. Intact
    BY <1>2, <1>7 DEF Intact
  <2>2. SucceededIsComplete'
    BY <1>2, <2>1 DEF ReconInv, Safe, SucceededIsComplete, Span
  <2>3. Alone(p, me[p])'
    BY <1>1, <1>2, <2>1 DEF Alone, Stored, Satisfied, Checked, Span
  <2>4. \A q \in Procs \ {p} : Alone(q, me[q])'
    BY <1>1, <2>1, OthersIdle DEF Only
  <2> QED BY <2>2, <2>3, <2>4
<1> QED BY <1>1, <1>3, <1>4, <1>5, <1>6, <1>7, Assemble

LEMMA RunPipelineStep ==
    ASSUME ReconInv, NEW p \in Procs, RunPipeline(p)
    PROVE  ReconInv'
<1> DEFINE m == me[p]
<1>1. m.pc \in Planned /\ m.pc \in Repairing /\ m.pc \in RunPCs
  BY StagesOf DEF RunPipeline, Wrote, Repairing
<1>2. /\ m \in Locals /\ m.run \in Runs /\ Span(m.run) \subseteq Dates
      /\ status[m.run] # "none" /\ resolved[m.run] # None
      /\ m.left \subseteq Span(m.run) /\ m.sub \subseteq Span(m.run)
      /\ m.chunk \subseteq Span(m.run) /\ m.stage \in {"historical", "future"}
      /\ \A d \in Span(m.run) : row[m.run][d] \in DateRows
  BY <1>1, HerePlanned
<1>3. Intact => Alone(p, m)
  BY <1>1, Here
<1>4. PICK outcome \in {"success", "transient", "fatal"} :
        Local(p, [m EXCEPT !.pc = outcome, !.todo = m.chunk])
  BY DEF RunPipeline
<1> DEFINE x == [m EXCEPT !.pc = outcome, !.todo = m.chunk]
<1>5. Import(m.chunk) /\ UNCHANGED <<table, holder, budget>> /\ marker' = marker
  BY DEF RunPipeline
<1>6. /\ x \in Locals /\ x.pc = outcome /\ x.run = m.run /\ x.stage = m.stage
      /\ x.todo = m.chunk /\ x.left = m.left /\ x.sub = m.sub /\ x.chunk = m.chunk
  BY <1>2, StagesOf DEF Locals
<1>7. Local(p, x) /\ marker' \in BOOLEAN
  BY <1>4, <1>5 DEF ReconInv, TypeOK
<1> HIDE DEF x
<1>8. Placed(x)
  BY <1>2, <1>6, StagesOf DEF Placed, Recorded, Unplanned, Repairing
<1>9. ~Satisfied(x) /\ Stored(x)
  BY <1>6 DEF Satisfied, Judging, Stored
<1>10. Intact => Alone(p, x)
  BY <1>1, <1>3, <1>6, <1>9 DEF Alone, RunPCs
<1>11. m.pc \notin {"idle", "lock"}
  BY <1>1 DEF RunPCs
<1> QED BY <1>1, <1>5, <1>6, <1>7, <1>8, <1>9, <1>10, <1>11, CoverLocal

LEMMA RefreshStep ==
    ASSUME ReconInv, NEW p \in Procs, Refresh(p)
    PROVE  ReconInv'
<1> DEFINE m == me[p]
<1>1. m.pc = "refresh" /\ m \in Locals
  BY DEF Refresh, ReconInv, TypeOK
<1>2. PICK pc \in {"schedule", "release"} : Goto(p, pc)
  BY DEF Refresh
<1> DEFINE x == [m EXCEPT !.pc = pc]
<1>3. x \in Locals /\ x.pc = pc
  BY <1>1, AtType DEF PCs
<1>4. Local(p, x)
  BY <1>2 DEF Goto
<1>5. /\ Import({d \in Dates : ~Historical(d)}) /\ UNCHANGED <<table, holder, budget>>
      /\ marker' \in BOOLEAN
  BY DEF Refresh, ReconInv, TypeOK
<1> HIDE DEF x
<1>6. Placed(x) /\ ~Satisfied(x) /\ Stored(x)
  BY <1>3 DEF Placed, Planned, Unplanned, Repairing, RunPCs, Satisfied, Judging, Stored
<1>7. Intact => Alone(p, x)
  BY <1>1, <1>3, <1>6 DEF Alone, RunPCs, ReconInv, Safe
<1>8. m.pc \notin {"idle", "lock"} /\ x.pc \notin RunPCs
  BY <1>1, <1>3 DEF RunPCs
<1> QED BY <1>3, <1>4, <1>5, <1>6, <1>7, <1>8, CoverLocal

----------------------------------------------------------------------------
(* Steps that write to the tables *)

\* While the lock is intact, nobody else is concerned by a step of p.
LEMMA TableStep ==
    ASSUME ReconInv, NEW p \in Procs, me[p].pc \notin {"idle", "lock"}, Only(p),
           TypeOK', TablesInv', Grows, losses' = losses, \A q \in Procs : Noticed(q),
           Placed(me[p])', Seen(p, me[p])',
           Intact => SucceededIsComplete' /\ Alone(p, me[p])'
    PROVE  ReconInv'
<1>1. ASSUME Intact, NEW q \in Procs \ {p} PROVE Alone(q, me[q])'
  BY <1>1, OthersIdle DEF Only
<1>2. Intact' => Intact
  BY DEF Intact
<1> QED BY <1>1, <1>2, Assemble

LEMMA StatusSet ==
    ASSUME ReconInv, NEW r \in Runs, status[r] # "none", NEW s \in Statuses \ {"none"},
           status' = [status EXCEPT ![r] = s], UNCHANGED <<request, resolved, row>>
    PROVE  /\ status' \in [Runs -> Statuses] /\ status'[r] = s
           /\ TablesInv' /\ Grows /\ Apart(r)
<1>1. status \in [Runs -> Statuses] /\ TablesInv
  BY DEF ReconInv, TypeOK, Statuses
<1>2. /\ status' \in [Runs -> Statuses] /\ status'[r] = s
      /\ \A q \in Runs \ {r} : status'[q] = status[q]
  BY <1>1
<1>3. \A q \in Runs : status'[q] = "none" <=> status[q] = "none"
  BY <1>2
<1> QED BY <1>1, <1>2, <1>3 DEF TablesInv, Grows, Apart

LEMMA StatusType ==
    ASSUME ReconInv, NEW p \in Procs, NEW r \in Runs, r = me[p].run, status[r] # "none",
           NEW s \in Statuses \ {"none"}, SetStatus(p, s)
    PROVE  /\ status' \in [Runs -> Statuses] /\ status'[r] = s
           /\ UNCHANGED <<request, resolved, row>>
           /\ TablesInv' /\ Grows /\ Apart(r)
  BY StatusSet DEF SetStatus

\* A run leaves the hands of p, which goes on without it.
LEMMA RaiseStep ==
    ASSUME ReconInv, NEW p \in Procs, me[p].pc \in RunPCs, Raise(p),
           submits' = submits, changes' = changes, faults' \in 0..MaxFaults, losses' = losses
    PROVE  ReconInv'
<1> DEFINE m == me[p]
<1>1. m \in Locals /\ m.run \in Runs /\ status[m.run] # "none" /\ (Intact => Alone(p, m))
  BY Here
<1>2. SetStatus(p, "failed") /\ Goto(p, "release") /\ Stay
  BY DEF Raise
<1>3. /\ status' \in [Runs -> Statuses] /\ status'[m.run] = "failed"
      /\ UNCHANGED <<request, resolved, row>> /\ TablesInv' /\ Grows /\ Apart(m.run)
  BY <1>1, <1>2, StatusType DEF Statuses
<1>4. Only(p) /\ me'[p].pc = "release"
  BY <1>2, GotoLocals DEF PCs, ReconInv, TypeOK
<1>5. UNCHANGED <<cover, marker, holder, healthy>>
  BY <1>2 DEF Stay
<1>6. TypeOK'
  BY <1>3, <1>4, <1>5 DEF ReconInv, TypeOK, Only, Statuses
<1>7. \A q \in Procs : Noticed(q)
  BY <1>5 DEF Noticed
<1>8. Placed(me[p])' /\ Seen(p, me[p])' /\ Stored(me[p])'
  BY <1>4 DEF Placed, Planned, Unplanned, Repairing, RunPCs, Seen, Satisfied, Judging, Stored
<1>9. m.pc \notin {"idle", "lock"}
  BY DEF RunPCs
<1>10. ASSUME Intact PROVE SucceededIsComplete' /\ Alone(p, me[p])'
  <2>1. Alone(p, me[p])'
    BY <1>1, <1>4, <1>5, <1>8, <1>9, <1>10 DEF Alone, RunPCs
  <2>2. SucceededIsComplete'
    BY <1>3, <1>10, SucceededKept DEF ReconInv, Safe
  <2> QED BY <2>1, <2>2
<1> QED BY <1>3, <1>4, <1>6, <1>7, <1>8, <1>9, <1>10, TableStep

LEMMA RaisingSteps ==
    ASSUME ReconInv, NEW p \in Procs,
           \/ DiscoverRaises(p) \/ AuditFails(p) \/ DateUnknown(p) \/ PipelineRaises(p)
           \/ StatementFails(p)
    PROVE  ReconInv'
<1>1. me[p].pc \in RunPCs /\ Raise(p)
  BY DEF DiscoverRaises, AuditFails, DateUnknown, PipelineRaises, StatementFails, Wrote, RunPCs
<1>2. CASE ~StatementFails(p)
  <2>1. UNCHANGED budget
    BY <1>2 DEF DiscoverRaises, AuditFails, DateUnknown, PipelineRaises
  <2> QED BY <1>1, <2>1, RaiseStep DEF budget, ReconInv, TypeOK
<1>3. CASE StatementFails(p)
  <2>1. faults' \in 0..MaxFaults
    BY <1>3, ReconciliationAssumption DEF StatementFails, ReconInv, TypeOK
  <2> QED BY <1>1, <1>3, <2>1, RaiseStep DEF StatementFails
<1> QED BY <1>2, <1>3

LEMMA StartStep ==
    ASSUME ReconInv, NEW p \in Procs, Start(p)
    PROVE  ReconInv'
<1> DEFINE m == me[p]
<1>1. m.pc = "start" /\ m.pc \in RunPCs /\ Unmoved
  BY DEF Start, RunPCs
<1>2. CASE resolved[m.run] # None
  BY <1>1, <1>2, StartAgain DEF Start
<1>3. CASE resolved[m.run] = None
  <2>1. /\ m \in Locals /\ m.run \in Runs /\ status[m.run] # "none" /\ Placed(m)
        /\ Seen(p, m) /\ (Intact => Alone(p, m))
    BY <1>1, Here
  <2>2. SetStatus(p, "running") /\ Goto(p, "discover")
    BY <1>3 DEF Start
  <2>3. /\ status' \in [Runs -> Statuses] /\ status'[m.run] = "running"
        /\ UNCHANGED <<request, resolved, row>> /\ TablesInv' /\ Grows /\ Apart(m.run)
    BY <2>1, <2>2, StatusType DEF Statuses, Active
  <2>4. /\ Only(p) /\ me'[p].pc = "discover" /\ me'[p].run = m.run /\ me'[p].left = m.left
        /\ me'[p].sub = m.sub /\ me'[p].chunk = m.chunk /\ me'[p].todo = m.todo
        /\ me'[p].stage = m.stage
    BY <2>2, GotoLocals DEF PCs, RunPCs, ReconInv, TypeOK
  <2>5. UNCHANGED <<cover, marker, holder, healthy, submits, changes, faults, losses>>
    BY <1>1 DEF Unmoved, Stay, budget
  <2>6. TypeOK'
    BY <2>3, <2>4, <2>5 DEF ReconInv, TypeOK, Only, Statuses
  <2>7. \A q \in Procs : Noticed(q)
    BY <2>5 DEF Noticed
  <2>8. Placed(me[p])'
    BY <1>1, <2>1, <2>3, <2>4 DEF Placed, Planned, Unplanned, Repairing, RunPCs
  <2>9. Seen(p, me[p])' /\ Stored(me[p])'
    BY <1>1, <2>1, <2>4, <2>5 DEF Seen, Satisfied, Judging, Stored, Complete
  <2>10. ASSUME Intact PROVE SucceededIsComplete' /\ Alone(p, me[p])'
    <3>1. Alone(p, me[p])'
      BY <1>1, <1>3, <2>1, <2>3, <2>4, <2>5, <2>9, <2>10 DEF Alone
    <3>2. SucceededIsComplete'
      BY <2>3, <2>10, SucceededKept DEF ReconInv, Safe
    <3> QED BY <3>1, <3>2
  <2> QED BY <1>1, <2>3, <2>4, <2>5, <2>6, <2>7, <2>8, <2>9, <2>10, TableStep
<1> QED BY <1>2, <1>3

\* The verdict of a run, whatever it is.
LEMMA DecidedStep ==
    ASSUME ReconInv, NEW p \in Procs, me[p].pc \in RunPCs, NEW s \in Statuses \ {"none"},
           SetStatus(p, s), Goto(p, Decided(p)), Unmoved, Intact => SucceededIsComplete'
    PROVE  ReconInv'
<1> DEFINE m == me[p]
<1>1. m \in Locals /\ m.run \in Runs /\ status[m.run] # "none" /\ (Intact => Alone(p, m))
  BY Here
<1>2. /\ status' \in [Runs -> Statuses] /\ status'[m.run] = s
      /\ UNCHANGED <<request, resolved, row>> /\ TablesInv' /\ Grows
  BY <1>1, StatusType
<1>3. PICK pc \in {"check", "release"} : Goto(p, pc)
  BY DEF Decided
<1>4. Only(p) /\ me'[p].pc = pc /\ me'[p].run = m.run
  BY <1>3, GotoLocals DEF PCs, ReconInv, TypeOK
<1>5. UNCHANGED <<cover, marker, holder, healthy, submits, changes, faults, losses>>
  BY DEF Unmoved, Stay, budget
<1>6. TypeOK'
  BY <1>2, <1>4, <1>5 DEF ReconInv, TypeOK, Only, Statuses
<1>7. \A q \in Procs : Noticed(q)
  BY <1>5 DEF Noticed
<1>8. Placed(me[p])'
  BY <1>1, <1>2, <1>4 DEF Placed, Planned, Unplanned, Repairing, RunPCs
<1>9. Seen(p, me[p])' /\ Stored(me[p])'
  BY <1>4 DEF RunPCs, Seen, Satisfied, Judging, Stored
<1>10. m.pc \notin {"idle", "lock"}
  BY DEF RunPCs
<1>11. Intact => Alone(p, me[p])'
  BY <1>1, <1>4, <1>5, <1>9, <1>10 DEF Alone, RunPCs
<1> QED BY <1>2, <1>4, <1>5, <1>6, <1>7, <1>8, <1>9, <1>10, <1>11, TableStep

LEMMA ExhaustedStep ==
    ASSUME ReconInv, NEW p \in Procs, DiscoverExhausted(p)
    PROVE  ReconInv'
<1> DEFINE s == "future_horizon_exhausted"
<1>1. /\ me[p].pc \in RunPCs /\ SetStatus(p, s) /\ Goto(p, Decided(p)) /\ Unmoved
      /\ s \in Statuses \ {"none"} /\ s # "succeeded"
  BY DEF DiscoverExhausted, RunPCs, Statuses
<1> HIDE DEF s
<1>2. me[p].run \in Runs /\ status[me[p].run] # "none"
  BY <1>1, Here
<1>3. Apart(me[p].run) /\ status'[me[p].run] = s
  BY <1>1, <1>2, StatusType
<1>4. Intact => SucceededIsComplete'
  BY <1>1, <1>3, SucceededKept DEF ReconInv, Safe
<1> QED BY <1>1, <1>4, DecidedStep

\* At the end of a satisfied execution the rows are complete.
LEMMA FinishStep ==
    ASSUME ReconInv, NEW p \in Procs, Finish(p)
    PROVE  ReconInv'
<1> DEFINE m == me[p]
           s == IF m.ok /\ FutureComplete(p) THEN "succeeded" ELSE "failed"
<1>1. m.pc = "finish" /\ m.pc \in RunPCs /\ SetStatus(p, s) /\ Goto(p, Decided(p)) /\ Unmoved
  BY DEF Finish, RunPCs
<1>2. s \in Statuses \ {"none"} /\ (s = "succeeded" => m.ok /\ FutureComplete(p))
  BY DEF Statuses
<1> HIDE DEF s
<1>3. /\ m.run \in Runs /\ status[m.run] # "none" /\ Placed(m) /\ (Intact => Alone(p, m))
  BY <1>1, Here
<1>4. /\ status'[m.run] = s /\ UNCHANGED <<request, resolved, row>> /\ Apart(m.run)
  BY <1>1, <1>2, <1>3, StatusType
<1>5. CASE s # "succeeded"
  <2>1. Intact => SucceededIsComplete'
    BY <1>4, <1>5, SucceededKept DEF ReconInv, Safe
  <2> QED BY <1>1, <1>2, <2>1, DecidedStep
<1>6. ASSUME s = "succeeded", Intact PROVE SucceededIsComplete'
  <2>1. Satisfied(m) /\ Checked(m) \ m.todo = Span(m.run) /\ m.left \cup m.todo = {}
        /\ Recorded(m)
    BY <1>1, <1>2, <1>3, <1>6, StagesOf DEF Placed, Satisfied, Judging, Checked
  <2>2. \A d \in Span(m.run) : row[m.run][d].status = "complete"
    BY <1>3, <1>6, <2>1 DEF Alone, Stored
  <2>3. \A d \in Span(m.run) : row[m.run][d] # None
    BY <2>1, Constants DEF Recorded
  <2>4. \A d \in Span(m.run) : ~Historical(d) =>
           row[m.run][d].pipeline \in
             {"succeeded"} \cup (IF request[m.run].all THEN {} ELSE {"skipped"})
    BY <1>2, <1>6 DEF FutureComplete, Pipeline
  <2> SUFFICES ASSUME NEW r \in Runs, status'[r] = "succeeded", NEW d \in Span(r)
               PROVE  /\ row[r][d] # None /\ row[r][d].status = "complete"
                      /\ ~Historical(d) => row[r][d].pipeline \in
                           {"succeeded"} \cup (IF request[r].all THEN {} ELSE {"skipped"})
    BY <1>4, Zenon DEF SucceededIsComplete, Span, Historical
  <2>5. CASE r = m.run
    BY <2>2, <2>3, <2>4, <2>5
  <2>6. CASE r # m.run
    <3>1. status[r] = "succeeded" /\ SucceededIsComplete
      BY <1>4, <1>6, <2>6 DEF Apart, ReconInv, Safe
    <3> QED BY <3>1 DEF SucceededIsComplete
  <2> QED BY <2>5, <2>6
<1> QED BY <1>1, <1>2, <1>5, <1>6, DecidedStep

LEMMA DiscoverStep ==
    ASSUME ReconInv, NEW p \in Procs, Discover(p)
    PROVE  ReconInv'
<1> DEFINE m == me[p]
           q == request[m.run]
<1>1. m.pc = "discover" /\ m.pc \in RunPCs /\ Unmoved /\ Goto(p, "init")
      /\ UNCHANGED <<status, request, row>>
  BY DEF Discover, RunPCs
<1>2. /\ m \in Locals /\ m.run \in Runs /\ status[m.run] # "none" /\ Placed(m)
      /\ Seen(p, m) /\ (Intact => Alone(p, m)) /\ TypeOK /\ TablesInv
  BY <1>1, Here DEF ReconInv
<1>3. PICK target \in Targets(q) :
        q.min <= target /\ resolved' = [resolved EXCEPT ![m.run] = target]
  BY DEF Discover
<1>4. q \in Request /\ (MaxLosses > 0 => q.max # AutoDate)
  BY <1>2 DEF TablesInv
<1>5. target \in Dates /\ (q.max # AutoDate => target = q.max)
  <2>1. CASE q.max = AutoDate
    BY <1>3, <2>1, Constants DEF Targets
  <2>2. CASE q.max # AutoDate
    BY <1>3, <1>4, <2>2 DEF Targets, Request
  <2> QED BY <2>1, <2>2
<1>6. resolved \in [Runs -> Dates \cup {None}]
  BY <1>2 DEF TypeOK
<1>7. /\ resolved' \in [Runs -> Dates \cup {None}] /\ resolved'[m.run] = target
      /\ \A r \in Runs \ {m.run} : resolved'[r] = resolved[r]
  BY <1>2, <1>3, <1>5, <1>6
\* No other execution has found another last date.
<1>8. resolved[m.run] # None => resolved[m.run] = target
  <2>1. CASE q.max # AutoDate
    BY <1>2, <1>5, <2>1 DEF TablesInv
  <2>2. CASE q.max = AutoDate
    <3>1. losses = 0
      BY <1>2, <1>4, <2>2, Constants DEF TypeOK
    <3> QED BY <1>1, <1>2, <3>1 DEF Intact, Alone
  <2> QED BY <2>1, <2>2
<1>9. /\ Only(p) /\ me'[p].pc = "init" /\ me'[p].run = m.run /\ me'[p].left = m.left
      /\ me'[p].sub = m.sub /\ me'[p].chunk = m.chunk /\ me'[p].todo = m.todo
      /\ me'[p].stage = m.stage
  BY <1>1, GotoLocals DEF PCs, RunPCs, ReconInv, TypeOK
<1>10. UNCHANGED <<cover, marker, holder, healthy, submits, changes, faults, losses>>
  BY <1>1 DEF Unmoved, Stay, budget
<1>11. TypeOK'
  BY <1>1, <1>2, <1>7, <1>9, <1>10 DEF TypeOK, Only
<1>12. TablesInv'
  BY <1>1, <1>2, <1>5, <1>7 DEF TablesInv
<1>13. Grows
  BY <1>1, <1>7, <1>8 DEF Grows
<1>14. \A r \in Procs : Noticed(r)
  BY <1>10 DEF Noticed
<1>15. Placed(me[p])'
  <2>1. resolved'[m.run] # None
    BY <1>5, <1>7, Constants
  <2> QED BY <1>1, <1>2, <1>9, <2>1 DEF Placed, Planned, Unplanned, Repairing, RunPCs
<1>16. Seen(p, me[p])' /\ Stored(me[p])'
  BY <1>1, <1>2, <1>9, <1>10 DEF Seen, Satisfied, Judging, Stored, Complete
<1>17. ASSUME Intact PROVE SucceededIsComplete' /\ Alone(p, me[p])'
  <2>1. status[m.run] = "running"
    BY <1>1, <1>2, <1>17 DEF Alone
  <2>2. Alone(p, me[p])'
    BY <1>1, <1>2, <1>9, <1>10, <1>16, <1>17 DEF Alone, RunPCs
  <2>3. Apart(m.run) /\ status'[m.run] # "succeeded"
    BY <1>1, <1>7, <2>1 DEF Apart
  <2>4. SucceededIsComplete'
    BY <1>17, <2>3, SucceededKept DEF ReconInv, Safe
  <2> QED BY <2>2, <2>4
<1> QED BY <1>1, <1>9, <1>10, <1>11, <1>12, <1>13, <1>14, <1>15, <1>16, <1>17, TableStep

\* An execution writes rows of its run.
LEMMA RowStep ==
    ASSUME ReconInv, NEW p \in Procs, me[p].pc \in RunPCs, NEW r \in Runs, r = me[p].run,
           UNCHANGED <<status, request, resolved>>, Unmoved,
           row' \in [Runs -> [Dates -> DateRows \cup {None}]],
           \A s \in Runs \ {r} : row'[s] = row[s],
           \A d \in Dates : row[r][d] \in DateRows => row'[r][d] \in DateRows,
           NEW x \in Locals, x.run = r, x.pc \in RunPCs \ {"discover"}, Local(p, x),
           Placed(me[p])',
           Satisfied(x) => Satisfied(me[p]) /\ x.left = me[p].left,
           Intact => Stored(me[p])'
    PROVE  ReconInv'
<1> DEFINE m == me[p]
<1>1. /\ m \in Locals /\ status[r] # "none" /\ Seen(p, m) /\ (Intact => Alone(p, m))
  BY Here
<1>2. Only(p) /\ me'[p] = x
  BY Assign DEF Local, ReconInv, TypeOK
<1>3. UNCHANGED <<cover, marker, holder, healthy, submits, changes, faults, losses>>
  BY DEF Unmoved, Stay, budget
<1>4. TypeOK' /\ TablesInv' /\ Grows
  BY <1>2, <1>3 DEF ReconInv, TypeOK, TablesInv, Grows, Only
<1>5. \A q \in Procs : Noticed(q)
  BY <1>3 DEF Noticed
<1>6. Seen(p, me[p])'
  BY <1>1, <1>2, <1>3 DEF Seen, Satisfied, Checked, Span, Complete
<1>7. m.pc \notin {"idle", "lock"}
  BY DEF RunPCs
<1>8. ASSUME Intact PROVE SucceededIsComplete' /\ Alone(p, me[p])'
  <2>1. status[r] = "running" /\ holder = p
    BY <1>1, <1>7, <1>8 DEF Alone
  <2>2. Alone(p, me[p])'
    BY <1>2, <1>3, <1>8, <2>1 DEF Alone, RunPCs
  <2>3. Apart(r) /\ status'[r] # "succeeded"
    BY <2>1 DEF Apart
  <2>4. SucceededIsComplete'
    BY <1>8, <2>3, SucceededKept DEF ReconInv, Safe
  <2> QED BY <2>2, <2>4
<1> QED BY <1>2, <1>3, <1>4, <1>5, <1>6, <1>7, <1>8, TableStep

LEMMA InitializeStep ==
    ASSUME ReconInv, NEW p \in Procs, Initialize(p)
    PROVE  ReconInv'
<1> DEFINE m == me[p]
           r == m.run
           fill == [d \in Dates |-> IF d \in Span(r) /\ row[r][d] = None
                                    THEN NewRow ELSE row[r][d]]
           x == [m EXCEPT !.pc = "audit", !.left = Span(r)]
<1>1. m.pc = "init" /\ m.pc \in RunPCs /\ Unmoved /\ UNCHANGED <<status, request, resolved>>
      /\ row' = [row EXCEPT ![r] = fill] /\ Local(p, x)
  BY DEF Initialize, RunPCs
<1>2. m \in Locals /\ r \in Runs /\ status[r] # "none" /\ Placed(m) /\ TypeOK
  BY <1>1, Here DEF ReconInv
<1>3. /\ resolved[r] # None /\ m.stage = "planning" /\ m.todo = {} /\ m.sub = {}
      /\ m.chunk = {}
  BY <1>1, <1>2 DEF Placed, Unplanned
<1>4. Span(r) \subseteq Dates
  BY <1>1, <1>3, Here
<1>5. NewRow \in DateRows
  BY DEF NewRow, DateRows
<1>6. row \in [Runs -> [Dates -> DateRows \cup {None}]]
  BY <1>2 DEF TypeOK
<1>7. /\ fill \in [Dates -> DateRows \cup {None}]
      /\ \A d \in Dates : row[r][d] \in DateRows => fill[d] \in DateRows
  BY <1>2, <1>5, <1>6, Constants
<1> HIDE DEF fill
<1>8. /\ row' \in [Runs -> [Dates -> DateRows \cup {None}]] /\ row'[r] = fill
      /\ \A s \in Runs \ {r} : row'[s] = row[s]
  BY <1>1, <1>2, <1>6, <1>7
<1>9. /\ x \in Locals /\ x.pc = "audit" /\ x.run = r /\ x.left = Span(r)
      /\ x.stage = "planning" /\ x.todo = {} /\ x.sub = {} /\ x.chunk = {}
  BY <1>2, <1>3, <1>4 DEF Locals, PCs, RunPCs
<1> HIDE DEF x
<1>10. me'[p] = x /\ Span(r)' = Span(r)
  BY <1>1, <1>2, <1>9, Assign DEF Local, TypeOK, Span
<1>11. Placed(me[p])'
  BY <1>1, <1>2, <1>3, <1>9, <1>10
     DEF Placed, Recorded, Planned, Unplanned, Repairing, RunPCs, Span
<1>12. ~Satisfied(x) /\ Stored(me[p])'
  BY <1>9, <1>10 DEF Satisfied, Stored
<1>13. x.pc \in RunPCs \ {"discover"}
  BY <1>9 DEF RunPCs
<1> QED BY <1>1, <1>2, <1>7, <1>8, <1>9, <1>11, <1>12, <1>13, RowStep

WritingPCs == {"record", "mark", "confirm", "attempt", "success", "transient", "fatal", "verify"}

LEMMA WrittenType ==
    ASSUME NEW p, me[p] \in Locals, me[p].pc \in WritingPCs, NEW d \in Dates,
           row[me[p].run][d] \in DateRows
    PROVE  /\ Written(p, d) \in DateRows
           /\ me[p].pc = "verify" /\ me[p].audits[d] = "complete" =>
                  Written(p, d).status = "complete"
<1> DEFINE m == me[p]
           y == row[m.run][d]
           a == m.audits[d]
<1>1. CASE m.pc = "record"
  <2>1. Written(p, d) = [y EXCEPT !.status = IF a = "conflict" THEN "failed" ELSE "audited"]
    BY <1>1 DEF Written
  <2> QED BY <1>1, <2>1 DEF DateRows
<1>2. CASE m.pc = "mark"
  <2>1. Written(p, d) = [y EXCEPT !.status = "complete", !.pipeline = "skipped"]
    BY <1>2 DEF Written
  <2> QED BY <1>2, <2>1 DEF DateRows
<1>3. CASE m.pc = "confirm"
  <2>1. Written(p, d) = [y EXCEPT !.status = "complete",
                            !.pipeline = IF y.pipeline = "pending" THEN "skipped" ELSE y.pipeline]
    BY <1>3 DEF Written
  <2> QED BY <1>3, <2>1 DEF DateRows
<1>4. CASE m.pc = "attempt"
  <2>1. Written(p, d) = [status |-> "processing", pipeline |-> "running",
                         attempts |-> m.base + m.try]
    BY <1>4 DEF Written
  <2>2. m.base + m.try \in Nat
    BY Constants DEF Locals
  <2> QED BY <1>4, <2>1, <2>2 DEF DateRows
<1>5. CASE m.pc = "success"
  <2>1. Written(p, d) = [y EXCEPT !.pipeline = "succeeded"]
    BY <1>5 DEF Written
  <2> QED BY <1>5, <2>1 DEF DateRows
<1>6. CASE m.pc \in {"transient", "fatal"}
  <2>1. Written(p, d) = [y EXCEPT !.status = "failed", !.pipeline = "failed"]
    BY <1>6 DEF Written
  <2> QED BY <1>6, <2>1 DEF DateRows
<1>7. CASE m.pc = "verify"
  <2>1. Written(p, d) = [y EXCEPT !.status = IF a = "complete" THEN "complete" ELSE "failed"]
    BY <1>7 DEF Written, Healthy
  <2> QED BY <1>7, <2>1 DEF DateRows
<1> QED BY <1>1, <1>2, <1>3, <1>4, <1>5, <1>6, <1>7 DEF WritingPCs

LEMMA WriteStep ==
    ASSUME ReconInv, NEW p \in Procs, WriteDate(p)
    PROVE  ReconInv'
<1> DEFINE m == me[p]
           r == m.run
           d == Min(m.todo)
           x == [m EXCEPT !.todo = m.todo \ {d}]
<1>1. /\ m.pc \in RunPCs /\ m.todo # {} /\ row[r][d] # None /\ Unmoved
      /\ UNCHANGED <<status, request, resolved>> /\ Local(p, x)
      /\ row' = [row EXCEPT ![r][d] = Written(p, d)]
  BY DEF WriteDate
<1>2. /\ m \in Locals /\ r \in Runs /\ status[r] # "none" /\ Placed(m) /\ TypeOK
      /\ (Intact => Alone(p, m))
  BY <1>1, Here DEF ReconInv
<1>3. m.pc \in Planned /\ m.pc \in WritingPCs
  BY <1>1, <1>2 DEF Placed, Unplanned, Planned, RunPCs, WritingPCs
<1>4. /\ resolved[r] # None /\ Span(r) \subseteq Dates /\ Recorded(m)
      /\ m.left \subseteq Span(r) /\ m.todo \subseteq Span(r)
      /\ m.sub \subseteq Span(r) /\ m.chunk \subseteq Span(r)
  BY <1>2, <1>3, HerePlanned DEF Placed
<1>5. d \in m.todo /\ d \in Dates
  BY <1>1, <1>4, MinOf, Constants
<1>6. row \in [Runs -> [Dates -> DateRows \cup {None}]]
  BY <1>2 DEF TypeOK
<1>7. row[r][d] \in DateRows
  BY <1>1, <1>2, <1>5, <1>6
<1> HIDE DEF d
<1>8. /\ Written(p, d) \in DateRows
      /\ m.pc = "verify" /\ m.audits[d] = "complete" => Written(p, d).status = "complete"
  BY <1>2, <1>3, <1>5, <1>7, WrittenType
<1>9. /\ row' \in [Runs -> [Dates -> DateRows \cup {None}]] /\ row'[r][d] = Written(p, d)
      /\ \A s \in Runs \ {r} : row'[s] = row[s]
      /\ \A e \in Dates \ {d} : row'[r][e] = row[r][e]
  BY <1>1, <1>2, <1>5, <1>6, <1>8
<1>10. \A e \in Dates : row[r][e] \in DateRows => row'[r][e] \in DateRows
  BY <1>8, <1>9
<1>11. /\ x \in Locals /\ x.pc = m.pc /\ x.run = r /\ x.stage = m.stage /\ x.ok = m.ok
       /\ x.left = m.left /\ x.sub = m.sub /\ x.chunk = m.chunk /\ x.todo = m.todo \ {d}
       /\ x.audits = m.audits
  BY <1>2 DEF Locals
<1> HIDE DEF x
<1>12. me'[p] = x /\ Span(r)' = Span(r)
  BY <1>1, <1>2, <1>11, Assign DEF Local, TypeOK, Span
<1>13. Placed(me[p])'
  <2>1. Recorded(me[p])'
    <3> SUFFICES ASSUME NEW e \in Span(r), x.stage = "planning" => e \notin x.left \cup x.todo
                 PROVE  row'[r][e] \in DateRows
      BY <1>11, <1>12 DEF Recorded
    <3>1. CASE e = d
      BY <1>8, <1>9, <3>1
    <3>2. CASE e # d
      <4>1. row[r][e] \in DateRows
        BY <1>4, <1>11, <3>2 DEF Recorded
      <4> QED BY <1>4, <1>10, <4>1
    <3> QED BY <3>1, <3>2
  <2>2. x.todo \subseteq Span(r) /\ (m.todo = {} => x.todo = {})
    BY <1>4, <1>11
  <2>3. m.pc \notin Unplanned \cup {"take", "check", "audit", "next", "child", "finish"}
    BY <1>3 DEF Unplanned, WritingPCs
  <2> QED BY <1>1, <1>2, <1>3, <1>4, <1>11, <1>12, <2>1, <2>2, <2>3, StagesOf
          DEF Placed, Span
<1>14. Satisfied(x) => Satisfied(m)
  BY <1>11 DEF Satisfied
<1>15. ASSUME Intact PROVE Stored(me[p])'
  <2>1. ASSUME Satisfied(x)
        PROVE  m.pc = "verify" /\ Stored(m) /\ m.audits[d] = "complete" /\ Satisfied(m)
    BY <1>2, <1>3, <1>5, <1>14, <1>15, <2>1 DEF Alone, Stored, Satisfied, Judging, WritingPCs
  <2>2. ASSUME Satisfied(x), NEW e \in Checked(x) \ x.todo
        PROVE  row'[r][e].status = "complete"
    <3>1. CASE e = d
      BY <1>8, <1>9, <2>1, <2>2, <3>1
    <3>2. CASE e # d
      <4>1. e \in Checked(m) \ m.todo /\ e \in Dates
        BY <1>4, <1>11, <2>2, <3>2 DEF Checked
      <4> QED BY <1>9, <2>1, <2>2, <3>2, <4>1 DEF Stored
    <3> QED BY <3>1, <3>2
  <2>3. Satisfied(x) => \A e \in x.todo : x.audits[e] = "complete"
    BY <1>11, <2>1 DEF Stored
  <2>4. Checked(me[p])' = Checked(x)
    BY <1>11, <1>12 DEF Checked
  <2>5. Satisfied(me[p])' <=> Satisfied(x)
    BY <1>12 DEF Satisfied
  <2> QED BY <1>11, <1>12, <2>2, <2>3, <2>4, <2>5 DEF Stored
<1>16. x.pc \in RunPCs \ {"discover"}
  BY <1>1, <1>3, <1>11 DEF WritingPCs
<1> QED BY <1>1, <1>2, <1>9, <1>10, <1>11, <1>13, <1>14, <1>15, <1>16, RowStep

----------------------------------------------------------------------------
(* Enqueueing, claiming, and the lock *)

\* p begins to execute run r.
LEMMA ExecuteStep ==
    ASSUME ReconInv, NEW p \in Procs, me[p].pc \in {"claim", "take"},
           NEW r \in Runs, status[r] # "none",
           status' = [status EXCEPT ![r] = "running"], UNCHANGED <<request, resolved, row>>,
           Execute(p, r, "start"), UNCHANGED <<cover, marker, holder, budget>>
    PROVE  ReconInv'
<1> DEFINE m == me[p]
           x == [m EXCEPT !.pc = "start", !.run = r]
<1>1. m \in Locals /\ Placed(m) /\ (Intact => Alone(p, m)) /\ TypeOK
  BY DEF ReconInv, Safe, TypeOK
<1>2. /\ m.todo = {} /\ m.sub = {} /\ m.chunk = {} /\ m.stage = "planning"
  BY <1>1 DEF Placed, Unplanned
<1>3. /\ x \in Locals /\ x.pc = "start" /\ x.run = r /\ x.stage = "planning"
      /\ x.todo = {} /\ x.sub = {} /\ x.chunk = {}
  BY <1>1, <1>2 DEF Locals, PCs, RunPCs
<1>4. me' = [me EXCEPT ![p] = x] /\ healthy' = [healthy EXCEPT ![p] = Complete(cover)]
  BY DEF Execute
<1> HIDE DEF x
<1>5. Only(p) /\ me'[p] = x
  BY <1>1, <1>3, <1>4, Assign DEF TypeOK
<1>6. "running" \in Statuses \ {"none"}
  BY DEF Active, Statuses
<1>7. /\ status' \in [Runs -> Statuses] /\ status'[r] = "running"
      /\ TablesInv' /\ Grows /\ Apart(r)
  BY <1>6, StatusSet
<1>8. /\ healthy' \in [Procs -> SUBSET Dates] /\ healthy'[p] = Complete(cover)
      /\ \A q \in Procs \ {p} : healthy'[q] = healthy[q]
  BY <1>1, <1>4 DEF TypeOK, Complete
<1>9. UNCHANGED <<cover, marker, holder, submits, changes, faults, losses>>
  BY DEF budget
<1>10. TypeOK'
  BY <1>1, <1>5, <1>7, <1>8, <1>9 DEF TypeOK, Only, Statuses
<1>11. \A q \in Procs : Noticed(q)
  BY <1>8, <1>9 DEF Noticed, RunPCs
<1>12. Placed(me[p])'
  BY <1>3, <1>5, <1>7 DEF Placed, Planned, Unplanned, Repairing, RunPCs
<1>13. Seen(p, me[p])' /\ Stored(me[p])'
  BY <1>3, <1>5, <1>8, <1>9 DEF Seen, Satisfied, Judging, Stored, Complete
<1>14. ASSUME Intact PROVE SucceededIsComplete' /\ Alone(p, me[p])'
  <2>1. Alone(p, me[p])'
    BY <1>1, <1>3, <1>5, <1>7, <1>9, <1>13, <1>14 DEF Alone
  <2>2. SucceededIsComplete'
    BY <1>7, <1>14, SucceededKept DEF ReconInv, Safe
  <2> QED BY <2>1, <2>2
<1> QED BY <1>5, <1>7, <1>9, <1>10, <1>11, <1>12, <1>13, <1>14, TableStep

LEMMA ClaimStep ==
    ASSUME ReconInv, NEW w \in Workers, Claim(w)
    PROVE  ReconInv'
<1>1. Claimable \subseteq Runs /\ \A r \in Claimable : status[r] \in Active
  BY DEF Claimable, Active
<1>2. Claimable # {}
  BY DEF Claim
<1> DEFINE r == Min(Claimable)
<1>3. r \in Runs /\ status[r] \in Active
  BY <1>1, <1>2, MinOf, Constants
<1>4. /\ status' = [status EXCEPT ![r] = "running"] /\ UNCHANGED <<request, resolved, row>>
      /\ Execute(w, r, "start") /\ UNCHANGED <<cover, marker, holder, budget>>
      /\ me[w].pc = "claim"
  BY DEF Claim
<1> HIDE DEF r
<1>5. status[r] # "none"
  BY <1>3 DEF Active
<1> QED BY <1>3, <1>4, <1>5, ExecuteStep, Constants

LEMMA TakeStep ==
    ASSUME ReconInv, NEW p \in Procs, Take(p)
    PROVE  ReconInv'
<1> DEFINE r == me[p].run
<1>1. /\ me[p].pc = "take" /\ Execute(p, r, "start")
      /\ UNCHANGED <<cover, marker, holder, budget>>
      /\ status' = [status EXCEPT ![r] = "running"] /\ UNCHANGED <<request, resolved, row>>
  BY DEF Take, SetStatus
<1>2. r \in Runs /\ status[r] # "none"
  BY <1>1 DEF ReconInv, Placed
<1> HIDE DEF r
<1> QED BY <1>1, <1>2, ExecuteStep

\* What enqueue does to the tables.
Enqueued(r) ==
    /\ status' \in [Runs -> Statuses] /\ status'[r] \in Active
    /\ request' \in [Runs -> Request \cup {None}] /\ UNCHANGED <<resolved, row>>
    /\ TablesInv' /\ Grows
    /\ \A s \in Runs : status[s] # "none" => request'[s] = request[s]
    /\ \A s \in Runs : s # r \/ status[s] \in Active => status'[s] = status[s]
    /\ status[r] \in Active \cup {"failed", "none"}
    /\ status[r] = "failed" => status'[r] = "queued"

LEMMA EnqueueType ==
    ASSUME ReconInv, NEW q \in Requests \cup {DailyRequest}, NEW r \in Runs, Enqueue(q, r)
    PROVE  Enqueued(r)
<1>1. /\ status \in [Runs -> Statuses] /\ request \in [Runs -> Request \cup {None}]
      /\ TablesInv
  BY DEF ReconInv, TypeOK, Statuses
<1>2. q \in Request /\ (MaxLosses > 0 => q.max # AutoDate)
  BY Constants
<1>3. CASE r \in Reusable(q) /\ UNCHANGED <<request, resolved, row>>
           /\ status' = [status EXCEPT ![r] =
                           IF status[r] = "failed" THEN "queued" ELSE status[r]]
  <2>1. status[r] \in Active \cup {"failed"}
    BY <1>3 DEF Reusable
  <2>2. /\ status' \in [Runs -> Statuses]
        /\ status'[r] = (IF status[r] = "failed" THEN "queued" ELSE status[r])
        /\ \A s \in Runs \ {r} : status'[s] = status[s]
    BY <1>1, <1>3 DEF Statuses, Active
  <2>3. status'[r] \in Active /\ (status[r] \in Active => status'[r] = status[r])
    BY <2>1, <2>2 DEF Active
  <2>4. \A s \in Runs : status'[s] = "none" <=> status[s] = "none"
    BY <2>1, <2>2, <2>3 DEF Active
  <2>5. TablesInv' /\ Grows
    BY <1>1, <1>3, <2>4 DEF TablesInv, Grows
  <2> QED BY <1>1, <1>3, <2>1, <2>2, <2>3, <2>5 DEF Enqueued
<1>4. CASE r \in Unused /\ UNCHANGED <<resolved, row>>
           /\ status' = [status EXCEPT ![r] = "queued"]
           /\ request' = [request EXCEPT ![r] = q]
  <2>1. status[r] = "none" /\ resolved[r] = None
    BY <1>1, <1>4 DEF Unused, TablesInv
  <2>2. /\ status' \in [Runs -> Statuses] /\ status'[r] = "queued"
        /\ \A s \in Runs \ {r} : status'[s] = status[s]
    BY <1>1, <1>4 DEF Statuses, Active
  <2>3. /\ request' \in [Runs -> Request \cup {None}] /\ request'[r] = q
        /\ \A s \in Runs \ {r} : request'[s] = request[s]
    BY <1>1, <1>2, <1>4
  <2>4. TablesInv'
    <3> SUFFICES ASSUME NEW s \in Runs
                 PROVE  /\ status'[s] # "none" =>
                             /\ request'[s] \in Request
                             /\ MaxLosses > 0 => request'[s].max # AutoDate
                        /\ resolved[s] # None =>
                             /\ status'[s] # "none"
                             /\ request'[s].max # AutoDate => resolved[s] = request'[s].max
      BY <1>4, Zenon DEF TablesInv
    <3>1. CASE s = r
      BY <1>2, <2>1, <2>2, <2>3, <3>1
    <3>2. CASE s # r
      BY <1>1, <2>2, <2>3, <3>2 DEF TablesInv
    <3> QED BY <3>1, <3>2
  <2>5. Grows
    BY <1>4, <2>1, <2>2, <2>3 DEF Grows
  <2> QED BY <1>4, <2>1, <2>2, <2>3, <2>4, <2>5 DEF Enqueued, Active
<1> QED BY <1>3, <1>4 DEF Enqueue

LEMMA EnqueuedComplete ==
    ASSUME SucceededIsComplete, NEW r \in Runs, Enqueued(r)
    PROVE  SucceededIsComplete'
<1> SUFFICES ASSUME NEW s \in Runs, status'[s] = "succeeded", NEW d \in Span(s)'
             PROVE  /\ row'[s][d] # None /\ row'[s][d].status = "complete"
                    /\ ~Historical(d) => row'[s][d].pipeline \in
                         {"succeeded"} \cup (IF request'[s].all THEN {} ELSE {"skipped"})
  BY Zenon DEF SucceededIsComplete, Historical
<1>1. status[s] = "succeeded" /\ request'[s] = request[s]
  BY DEF Enqueued, Active
<1>2. Span(s)' = Span(s) /\ row' = row
  BY <1>1 DEF Enqueued, Span
<1> QED BY <1>1, <1>2 DEF SucceededIsComplete

LEMMA SubmitStep ==
    ASSUME ReconInv, NEW q \in Requests, Submit(q)
    PROVE  ReconInv'
<1>1. PICK r \in Runs : Enqueue(q, r)
  BY DEF Submit
<1>2. Enqueued(r)
  BY <1>1, EnqueueType
<1>3. UNCHANGED <<cover, marker, holder, me, healthy, changes, faults, losses>>
  BY DEF Submit
<1>4. submits' \in 0..MaxSubmits
  BY ReconciliationAssumption DEF Submit, ReconInv, TypeOK
<1>5. TypeOK'
  BY <1>2, <1>3, <1>4 DEF ReconInv, TypeOK, Enqueued, Statuses
<1>6. ASSUME NEW p \in Procs PROVE Placed(me[p])' /\ Seen(p, me[p])'
  BY <1>2, <1>3, OthersPlaced DEF Enqueued, Noticed
<1>7. ASSUME Intact, NEW p \in Procs PROVE Alone(p, me[p])'
  <2> DEFINE m == me[p]
  <2>1. Alone(p, m) /\ Placed(m)
    BY <1>7 DEF ReconInv, Safe
  <2>2. ASSUME m.pc \in RunPCs \cup {"take"}
        PROVE  /\ status'[m.run] = status[m.run] /\ request'[m.run] = request[m.run]
    <3>1. m.run \in Runs /\ status[m.run] # "none"
      BY <2>1, <2>2 DEF Placed
    <3>2. status[m.run] \in Active
      BY <2>1, <2>2 DEF Alone, Active
    <3> QED BY <1>2, <3>1, <3>2 DEF Enqueued
  <2>3. UNCHANGED <<resolved, row>>
    BY <1>2 DEF Enqueued
  <2>4. Satisfied(m) => Span(m.run)' = Span(m.run)
    BY <1>3, <2>2, <2>3 DEF Span, Satisfied, Judging, RunPCs
  <2> QED BY <1>3, <2>1, <2>2, <2>3, <2>4 DEF Alone, Stored, Satisfied, Checked
<1>8. Intact' => Intact /\ Safe'
  <2>1. Intact' => Intact
    BY <1>3 DEF Intact
  <2>2. Intact => SucceededIsComplete'
    BY <1>2, EnqueuedComplete DEF ReconInv, Safe
  <2> QED BY <1>7, <2>1, <2>2 DEF Safe
<1> QED BY <1>2, <1>5, <1>6, <1>8 DEF ReconInv, Enqueued

LEMMA DailyEnqueueStep ==
    ASSUME ReconInv, NEW p \in Procs, DailyEnqueue(p)
    PROVE  ReconInv'
<1> DEFINE m == me[p]
<1>1. m.pc = "enqueue" /\ Unmoved
  BY DEF DailyEnqueue
<1>2. m \in Locals /\ Placed(m) /\ Seen(p, m) /\ (Intact => Alone(p, m)) /\ TypeOK
  BY DEF ReconInv, Safe, TypeOK
<1>3. m.todo = {} /\ m.sub = {} /\ m.chunk = {} /\ m.stage = "planning"
  BY <1>1, <1>2 DEF Placed, Unplanned
<1>4. CASE \E r \in Runs :
             /\ Enqueue(DailyRequest, r)
             /\ Local(p, [m EXCEPT !.pc = "take", !.run = r])
  <2>1. PICK r \in Runs : /\ Enqueue(DailyRequest, r)
                          /\ Local(p, [m EXCEPT !.pc = "take", !.run = r])
    BY <1>4
  <2> DEFINE x == [m EXCEPT !.pc = "take", !.run = r]
  <2>2. /\ x \in Locals /\ x.pc = "take" /\ x.run = r /\ x.stage = "planning"
        /\ x.todo = {} /\ x.sub = {} /\ x.chunk = {}
    BY <1>2, <1>3 DEF Locals, PCs
  <2>3. me' = [me EXCEPT ![p] = x]
    BY <2>1 DEF Local
  <2> HIDE DEF x
  <2>4. Only(p) /\ me'[p] = x
    BY <1>2, <2>2, <2>3, Assign DEF TypeOK
  <2>5. Enqueued(r)
    BY <2>1, EnqueueType
  <2>6. UNCHANGED <<cover, marker, holder, healthy, submits, changes, faults, losses>>
    BY <1>1 DEF Unmoved, Stay, budget
  <2>7. TypeOK'
    BY <1>2, <2>4, <2>5, <2>6 DEF TypeOK, Only, Enqueued, Statuses
  <2>8. \A q \in Procs : Noticed(q)
    BY <2>6 DEF Noticed
  <2>9. status'[r] \in Active /\ TablesInv' /\ Grows
    BY <2>5 DEF Enqueued
  <2>10. Placed(me[p])'
    BY <2>2, <2>4, <2>9 DEF Placed, Planned, Unplanned, Repairing, RunPCs, Active
  <2>11. Seen(p, me[p])' /\ Stored(me[p])'
    BY <2>2, <2>4 DEF Seen, Satisfied, Judging, Stored, RunPCs
  <2>12. ASSUME Intact PROVE SucceededIsComplete' /\ Alone(p, me[p])'
    <3>1. Alone(p, me[p])'
      BY <1>1, <1>2, <2>2, <2>4, <2>6, <2>9, <2>11, <2>12 DEF Alone, RunPCs
    <3> QED BY <2>5, <2>12, <3>1, EnqueuedComplete DEF ReconInv, Safe
  <2> QED BY <1>1, <2>4, <2>6, <2>7, <2>8, <2>9, <2>10, <2>11, <2>12, TableStep
<1>5. CASE Goto(p, "release") /\ UNCHANGED table
  <2> DEFINE x == [m EXCEPT !.pc = "release"]
  <2>1. x \in Locals /\ x.pc = "release"
    BY <1>2, AtType DEF PCs
  <2>2. Local(p, x)
    BY <1>5 DEF Goto
  <2> HIDE DEF x
  <2>3. Placed(x) /\ Seen(p, x) /\ Stored(x)
    BY <2>1 DEF Placed, Planned, Unplanned, Repairing, RunPCs, Seen, Satisfied, Judging, Stored
  <2>4. Intact => Alone(p, x)
    BY <1>1, <1>2, <2>1, <2>3 DEF Alone, RunPCs
  <2> QED BY <1>1, <1>5, <2>1, <2>2, <2>3, <2>4, LocalStep
<1> QED BY <1>4, <1>5 DEF DailyEnqueue

\* The steps after an execution, which only move the process.
LEMMA AfterSteps ==
    ASSUME ReconInv, NEW p \in Procs, ClaimNothing(p) \/ CheckResult(p) \/ Schedule(p)
    PROVE  ReconInv'
<1> DEFINE m == me[p]
<1>1. m.pc \in {"claim", "check", "schedule"} /\ UNCHANGED table /\ Unmoved
  BY DEF ClaimNothing, CheckResult, Schedule, Unmoved, Stay
<1>2. PICK pc \in {"release", "refresh"} : me' = [me EXCEPT ![p] = [m EXCEPT !.pc = pc]]
  BY DEF ClaimNothing, CheckResult, Schedule, Goto, Local
<1>3. m \in Locals /\ (Intact => Alone(p, m))
  BY DEF ReconInv, Safe, TypeOK
<1> DEFINE x == [m EXCEPT !.pc = pc]
<1>4. x \in Locals /\ x.pc = pc
  BY <1>3, AtType DEF PCs
<1>5. Local(p, x)
  BY <1>2 DEF Local
<1> HIDE DEF x
<1>6. Placed(x) /\ Seen(p, x) /\ Stored(x)
  BY <1>4 DEF Placed, Planned, Unplanned, Repairing, RunPCs, Seen, Satisfied, Judging, Stored
<1>7. Intact => Alone(p, x)
  BY <1>1, <1>3, <1>4, <1>6 DEF Alone, RunPCs
<1> QED BY <1>1, <1>4, <1>5, <1>6, <1>7, LocalStep

\* p takes the lock, leaves it or stops; nothing else happens.
LEMMA LockStep ==
    ASSUME ReconInv, NEW p \in Procs, Only(p), UNCHANGED <<table, cover, marker>>,
           submits' \in 0..MaxSubmits, UNCHANGED <<changes, losses>>, faults' \in 0..MaxFaults,
           holder' \in Procs \cup {None}, healthy' \in [Procs -> SUBSET Dates],
           \A q \in Procs \ {p} : healthy'[q] = healthy[q] /\ (holder = q => holder' = q),
           me'[p].pc \in {"idle", "lock", "claim", "enqueue"},
           me'[p].pc \in {"claim", "enqueue"} => holder' = p,
           me'[p].todo = {}, me'[p].sub = {}, me'[p].chunk = {}, me'[p].stage = "planning"
    PROVE  ReconInv'
<1>1. UNCHANGED <<status, request, resolved, row>>
  BY DEF table
<1>2. TypeOK' /\ TablesInv' /\ Grows
  BY <1>1 DEF ReconInv, TypeOK, TablesInv, Grows, Only
<1>3. \A q \in Procs \ {p} : Noticed(q)
  BY DEF Noticed
<1>4. Placed(me[p])' /\ Seen(p, me[p])' /\ Stored(me[p])'
  BY DEF Placed, Planned, Unplanned, Repairing, RunPCs, Seen, Satisfied, Judging, Stored
<1>5. ASSUME Intact'
      PROVE  /\ SucceededIsComplete' /\ Alone(p, me[p])'
             /\ \A q \in Procs \ {p} : Alone(q, me[q])'
  <2>1. Intact
    BY <1>5 DEF Intact
  <2>2. SucceededIsComplete'
    BY <1>1, <2>1 DEF ReconInv, Safe, SucceededIsComplete, Span
  <2>3. Alone(p, me[p])'
    BY <1>4 DEF Alone, RunPCs
  <2>4. ASSUME NEW q \in Procs \ {p} PROVE Alone(q, me[q])'
    <3>1. Alone(q, me[q]) /\ me'[q] = me[q]
      BY <2>1 DEF ReconInv, Safe, Only
    <3> QED BY <1>1, <3>1 DEF Alone, Stored, Satisfied, Checked, Span
  <2> QED BY <2>2, <2>3, <2>4
<1> QED BY <1>2, <1>3, <1>4, <1>5, Assemble

LEMMA AcquireStep ==
    ASSUME ReconInv, NEW p \in Procs, Acquire(p) \/ CheckMarker(p) \/ LockOrBusy(p)
    PROVE  ReconInv'
<1> DEFINE m == me[p]
<1>1. m \in Locals /\ Placed(m) /\ TypeOK
  BY DEF ReconInv, TypeOK
<1>2. m.pc \in {"idle", "lock"}
  BY DEF Acquire, CheckMarker, LockOrBusy
<1>3. m.todo = {} /\ m.sub = {} /\ m.chunk = {} /\ m.stage = "planning"
  BY <1>1, <1>2 DEF Placed, Unplanned
<1>4. PICK pc \in {"idle", "lock", "claim", "enqueue"} :
        /\ me' = [me EXCEPT ![p] = [m EXCEPT !.pc = pc]]
        /\ pc \in {"claim", "enqueue"} => holder' = p
  BY DEF Acquire, CheckMarker, LockOrBusy, Goto, Local
<1>5. Goto(p, pc)
  BY <1>4 DEF Goto, Local
<1>6. /\ Only(p) /\ me'[p].pc = pc /\ me'[p].todo = {} /\ me'[p].sub = {}
      /\ me'[p].chunk = {} /\ me'[p].stage = "planning"
  BY <1>1, <1>3, <1>5, GotoLocals DEF TypeOK, PCs
<1>7. /\ UNCHANGED <<table, cover, marker, healthy, changes, faults, losses>>
      /\ submits' = submits \/ (submits < MaxSubmits /\ submits' = submits + 1)
  BY DEF Acquire, CheckMarker, LockOrBusy, Stay, budget
<1>8. submits' \in 0..MaxSubmits
  BY <1>1, <1>7, ReconciliationAssumption DEF TypeOK
<1>9. holder' = holder \/ (holder = None /\ holder' = p)
  BY DEF Acquire, CheckMarker, LockOrBusy, Stay
<1>10. /\ holder' \in Procs \cup {None}
       /\ \A q \in Procs \ {p} : healthy'[q] = healthy[q] /\ (holder = q => holder' = q)
  BY <1>1, <1>7, <1>9, Constants DEF TypeOK
<1>11. healthy' \in [Procs -> SUBSET Dates] /\ faults' \in 0..MaxFaults
  BY <1>1, <1>7 DEF TypeOK
<1> QED BY <1>4, <1>6, <1>7, <1>8, <1>10, <1>11, LockStep

LEMMA LeaveStep ==
    ASSUME ReconInv, NEW p \in Procs, Release(p) \/ Crash(p)
    PROVE  ReconInv'
<1>1. Leave(p) /\ UNCHANGED <<table, cover, marker, submits, changes, losses>>
  BY DEF Release, Crash, budget
<1>2. faults' \in 0..MaxFaults
  BY ReconciliationAssumption DEF Release, Crash, budget, ReconInv, TypeOK
<1>3. TypeOK /\ me' = [me EXCEPT ![p] = Idle] /\ healthy' = [healthy EXCEPT ![p] = {}]
  BY <1>1 DEF Leave, ReconInv
<1>4. Only(p) /\ me'[p] = Idle
  BY <1>3, IdleType, Assign DEF TypeOK
<1>5. /\ Idle.pc = "idle" /\ Idle.todo = {} /\ Idle.sub = {} /\ Idle.chunk = {}
      /\ Idle.stage = "planning"
  BY DEF Idle
<1>6. /\ healthy' \in [Procs -> SUBSET Dates]
      /\ \A q \in Procs \ {p} : healthy'[q] = healthy[q]
  BY <1>3 DEF TypeOK
<1>7. holder' = IF holder = p THEN None ELSE holder
  BY <1>1 DEF Leave
<1> QED BY <1>1, <1>2, <1>3, <1>4, <1>5, <1>6, <1>7, LockStep DEF ReconInv, TypeOK

\* Once a lock is lost nothing is said of the rows any more.
LEMMA LoseLockStep ==
    ASSUME ReconInv, NEW p \in Procs, LoseLock(p)
    PROVE  ReconInv'
<1>1. /\ UNCHANGED <<status, request, resolved, row, cover, marker, me, healthy>>
      /\ UNCHANGED <<submits, changes, faults>>
  BY DEF LoseLock, table
<1>2. losses' \in 0..MaxLosses /\ losses' # 0 /\ holder' = None
  BY Constants DEF LoseLock, ReconInv, TypeOK
<1>3. TypeOK' /\ TablesInv'
  BY <1>1, <1>2 DEF ReconInv, TypeOK, TablesInv
<1>4. \A q \in Procs : Placed(me[q])' /\ Seen(q, me[q])'
  BY <1>1 DEF ReconInv, Placed, Recorded, Seen, Satisfied, Checked, Span, Complete
<1> QED BY <1>2, <1>3, <1>4 DEF ReconInv, Intact

LEMMA ChangeStep ==
    ASSUME ReconInv, NEW d \in Dates, Change(d)
    PROVE  ReconInv'
<1>1. /\ UNCHANGED <<status, request, resolved, row, marker, holder, me>>
      /\ UNCHANGED <<submits, faults, losses>>
  BY DEF Change, table
<1>2. PICK a \in Audits : CoverBecomes([cover EXCEPT ![d] = a])
  BY DEF Change
<1>3. [cover EXCEPT ![d] = a] \in [Dates -> Audits]
  BY DEF ReconInv, TypeOK
<1>4. /\ cover' \in [Dates -> Audits] /\ healthy' \in [Procs -> SUBSET Dates]
      /\ \A q \in Procs : Noticed(q)
  BY <1>2, <1>3, CoverStep
<1>5. changes' \in 0..MaxChanges
  BY ReconciliationAssumption DEF Change, ReconInv, TypeOK
<1>6. TypeOK' /\ TablesInv' /\ Grows
  BY <1>1, <1>4, <1>5 DEF ReconInv, TypeOK, TablesInv, Grows
<1>7. \A q \in Procs : Placed(me[q])' /\ Seen(q, me[q])'
  BY <1>1, <1>4, <1>6, OthersPlaced
<1>8. Intact' => Safe'
  BY <1>1 DEF ReconInv, Intact, Safe, SucceededIsComplete, Alone, Stored, Satisfied, Checked,
              Span
<1> QED BY <1>6, <1>7, <1>8 DEF ReconInv

----------------------------------------------------------------------------
(* The theorems *)

LEMMA InvInit == Init => ReconInv
<1> SUFFICES ASSUME Init PROVE ReconInv
  OBVIOUS
<1>1. TypeOK
  <2>1. /\ 0 \in 0..MaxSubmits /\ 0 \in 0..MaxChanges /\ 0 \in 0..MaxFaults
        /\ 0 \in 0..MaxLosses
    BY ReconciliationAssumption
  <2>2. cover \in [Dates -> Audits]
    BY DEF Init, Audits
  <2>3. me \in [Procs -> Locals]
    BY IdleType DEF Init
  <2> QED BY <2>1, <2>2, <2>3 DEF Init, TypeOK
<1>2. TablesInv
  BY DEF Init, TablesInv
<1>3. \A p \in Procs : me[p] = Idle /\ Idle.pc = "idle"
  BY DEF Init, Idle
<1>4. \A p \in Procs : Placed(me[p]) /\ Seen(p, me[p]) /\ Alone(p, me[p])
  BY <1>3, IdleType DEF Seen, Alone, Stored, Satisfied, Judging, RunPCs
<1>5. SucceededIsComplete
  BY DEF Init, SucceededIsComplete
<1> QED BY <1>1, <1>2, <1>4, <1>5 DEF ReconInv, Safe

LEMMA InvRun ==
    ASSUME ReconInv, NEW p \in Procs, RunStep(p)
    PROVE  ReconInv'
<1>1. CASE Start(p) \/ Discover(p) \/ DiscoverExhausted(p) \/ Initialize(p)
  BY <1>1, StartStep, DiscoverStep, ExhaustedStep, InitializeStep
<1>2. CASE DiscoverRaises(p) \/ AuditFails(p) \/ DateUnknown(p) \/ PipelineRaises(p)
  BY <1>2, RaisingSteps
<1>3. CASE AuditWindow(p) \/ WriteDate(p) \/ PlanHistorical(p) \/ PlanFuture(p) \/ Recheck(p)
  BY <1>3, AuditStep, WriteStep, PlanHistoricalStep, PlanFutureStep, RecheckStep
<1>4. CASE NextFuture(p) \/ StartChild(p) \/ RunPipeline(p) \/ Retry(p) \/ Verify(p)
  BY <1>4, NextFutureStep, StartChildStep, RunPipelineStep, RetryStep, VerifyStep
<1>5. CASE Continue(p) \/ Finish(p)
  BY <1>5, ContinueStep, FinishStep
<1> QED BY <1>1, <1>2, <1>3, <1>4, <1>5 DEF RunStep

LEMMA InvStutter == ReconInv /\ UNCHANGED vars => ReconInv'
<1> SUFFICES ASSUME ReconInv, UNCHANGED vars PROVE ReconInv'
  OBVIOUS
<1>1. /\ UNCHANGED <<status, request, resolved, row, cover, marker, holder, me, healthy>>
      /\ UNCHANGED <<submits, changes, faults, losses>>
  BY DEF vars, table, budget
<1>2. TypeOK' /\ TablesInv'
  BY <1>1 DEF ReconInv, TypeOK, TablesInv
<1>3. \A q \in Procs : Placed(me[q])' /\ Seen(q, me[q])'
  BY <1>1 DEF ReconInv, Placed, Recorded, Seen, Satisfied, Checked, Span, Complete
<1>4. Intact' => Safe'
  BY <1>1 DEF ReconInv, Intact, Safe, SucceededIsComplete, Alone, Stored, Satisfied, Checked,
              Span
<1> QED BY <1>2, <1>3, <1>4 DEF ReconInv

LEMMA InvStep == ReconInv /\ [Next]_vars => ReconInv'
<1> SUFFICES ASSUME ReconInv, [Next]_vars PROVE ReconInv'
  OBVIOUS
<1>1. ASSUME NEW q \in Requests, Submit(q) PROVE ReconInv'
  BY <1>1, SubmitStep
<1>2. ASSUME NEW w \in Workers, WorkerStep(w) PROVE ReconInv'
  <2>1. w \in Procs
    BY Constants
  <2> QED BY <1>2, <2>1, AcquireStep, ClaimStep, AfterSteps DEF WorkerStep
<1>3. ASSUME NEW p \in Dailies, CheckMarker(p) \/ DailyStep(p) PROVE ReconInv'
  <2>1. p \in Procs
    BY Constants
  <2> QED BY <1>3, <2>1, AcquireStep, DailyEnqueueStep, TakeStep, AfterSteps, RefreshStep
          DEF DailyStep
<1>4. ASSUME NEW p \in Procs, RunStep(p) \/ Release(p) PROVE ReconInv'
  BY <1>4, InvRun, LeaveStep
<1>5. ASSUME NEW d \in Dates, Change(d) PROVE ReconInv'
  BY <1>5, ChangeStep
<1>6. ASSUME NEW p \in Procs, Crash(p) \/ StatementFails(p) \/ LoseLock(p) PROVE ReconInv'
  BY <1>6, LeaveStep, RaisingSteps, LoseLockStep
<1>7. CASE UNCHANGED vars
  BY <1>7, InvStutter
<1> QED BY <1>1, <1>2, <1>3, <1>4, <1>5, <1>6, <1>7 DEF Next

\* The inductive invariant holds in every reachable state.
THEOREM ReconInvariant == Spec => []ReconInv
  BY InvInit, InvStep, PTL DEF Spec

\* The tables and the variables of every process have their types; in particular
\* every number of attempts that a row is given by a retry or a repair is a number.
THEOREM ReconTypes == Spec => []TypeOK
<1>1. ReconInv => TypeOK
  BY DEF ReconInv
<1> QED BY <1>1, ReconInvariant, PTL

\* What the status command reports of a succeeded run agrees with its verdict, as
\* long as no lock session was lost: each date is complete, and each future date
\* went through a pipeline or was skipped as the mode of the run allows.
THEOREM SuccessesAreComplete == Spec => [](losses = 0 => SucceededIsComplete)
<1>1. ReconInv => (losses = 0 => SucceededIsComplete)
  BY DEF ReconInv, Intact, Safe
<1> QED BY <1>1, ReconInvariant, PTL

\* The ways in which a status may change.
StatusMoves ==
    \/ UNCHANGED status
    \/ \E r \in Runs : Enqueued(r)
    \/ \E p \in Procs, s \in Statuses \ {"succeeded"} :
           me[p].pc \in RunPCs /\ status' = [status EXCEPT ![me[p].run] = s]
    \/ \E p \in Procs : Finish(p)
    \/ \E r \in Runs : /\ status' = [status EXCEPT ![r] = "running"]
                       /\ Intact => status[r] \in Active

LEMMA RunMoves ==
    ASSUME ReconInv, NEW p \in Procs, RunStep(p)
    PROVE  StatusMoves
<1> SUFFICES ASSUME status' # status, ~Finish(p)
             PROVE  /\ me[p].pc \in RunPCs
                    /\ \E s \in Statuses \ {"succeeded"} :
                           status' = [status EXCEPT ![me[p].run] = s]
  BY DEF StatusMoves
<1>1. CASE Start(p)
  <2>1. me[p].pc \in RunPCs /\ SetStatus(p, "running")
    BY <1>1 DEF Start, RunPCs, table
  <2> QED BY <2>1 DEF SetStatus, Statuses, Active
<1>2. CASE DiscoverExhausted(p)
  <2>1. me[p].pc \in RunPCs /\ SetStatus(p, "future_horizon_exhausted")
    BY <1>2 DEF DiscoverExhausted, RunPCs
  <2> QED BY <2>1 DEF SetStatus, Statuses
<1>3. CASE DiscoverRaises(p) \/ AuditFails(p) \/ DateUnknown(p) \/ PipelineRaises(p)
  <2>1. me[p].pc \in RunPCs /\ SetStatus(p, "failed")
    BY <1>3 DEF DiscoverRaises, AuditFails, DateUnknown, PipelineRaises, Raise, Wrote, RunPCs
  <2> QED BY <2>1 DEF SetStatus, Statuses
<1>4. CASE Discover(p) \/ Initialize(p) \/ AuditWindow(p) \/ WriteDate(p)
  BY <1>4 DEF Discover, Initialize, AuditWindow, WriteDate, table
<1>5. CASE PlanHistorical(p) \/ PlanFuture(p) \/ Recheck(p) \/ NextFuture(p) \/ StartChild(p)
  BY <1>5 DEF PlanHistorical, PlanFuture, Recheck, NextFuture, StartChild, table
<1>6. CASE RunPipeline(p) \/ Retry(p) \/ Verify(p) \/ Continue(p)
  BY <1>6 DEF RunPipeline, Retry, Verify, Continue, table
<1> QED BY <1>1, <1>2, <1>3, <1>4, <1>5, <1>6 DEF RunStep

LEMMA Moves == ReconInv /\ [Next]_vars => StatusMoves
<1> SUFFICES ASSUME ReconInv, [Next]_vars PROVE StatusMoves
  OBVIOUS
<1>1. ASSUME NEW q \in Requests, Submit(q) PROVE StatusMoves
  BY <1>1, EnqueueType DEF Submit, StatusMoves
<1>2. ASSUME NEW w \in Workers, WorkerStep(w) PROVE StatusMoves
  <2>1. CASE Claim(w)
    <3>1. Claimable \subseteq Runs /\ \A r \in Claimable : status[r] \in Active
      BY DEF Claimable, Active
    <3>2. Min(Claimable) \in Claimable
      BY <2>1, <3>1, MinOf, Constants DEF Claim
    <3>3. status' = [status EXCEPT ![Min(Claimable)] = "running"]
      BY <2>1 DEF Claim
    <3> QED BY <3>1, <3>2, <3>3 DEF StatusMoves
  <2>2. CASE Acquire(w) \/ ClaimNothing(w)
    BY <2>2 DEF Acquire, ClaimNothing, table, StatusMoves
  <2> QED BY <1>2, <2>1, <2>2 DEF WorkerStep
<1>3. ASSUME NEW p \in Dailies, CheckMarker(p) \/ DailyStep(p) PROVE StatusMoves
  <2>1. p \in Procs
    BY Constants
  <2>2. CASE Take(p)
    <3>1. me[p].pc = "take" /\ status' = [status EXCEPT ![me[p].run] = "running"]
      BY <2>2 DEF Take, SetStatus
    <3>2. me[p].run \in Runs /\ (Intact => status[me[p].run] \in Active)
      BY <2>1, <3>1 DEF ReconInv, Safe, Placed, Alone
    <3> QED BY <3>1, <3>2 DEF StatusMoves
  <2>3. CASE DailyEnqueue(p)
    BY <2>3, EnqueueType DEF DailyEnqueue, table, StatusMoves
  <2>4. CASE CheckMarker(p) \/ LockOrBusy(p) \/ CheckResult(p) \/ Refresh(p) \/ Schedule(p)
    BY <2>4 DEF CheckMarker, LockOrBusy, CheckResult, Refresh, Schedule, table, StatusMoves
  <2> QED BY <1>3, <2>2, <2>3, <2>4 DEF DailyStep
<1>4. ASSUME NEW p \in Procs, RunStep(p) \/ Release(p) PROVE StatusMoves
  BY <1>4, RunMoves DEF Release, table, StatusMoves
<1>5. ASSUME NEW d \in Dates, Change(d) PROVE StatusMoves
  BY <1>5 DEF Change, table, StatusMoves
<1>6. ASSUME NEW p \in Procs, Crash(p) \/ StatementFails(p) \/ LoseLock(p) PROVE StatusMoves
  BY <1>6 DEF Crash, StatementFails, Raise, SetStatus, LoseLock, table, StatusMoves, Statuses
<1>7. CASE UNCHANGED vars
  BY <1>7 DEF vars, table, StatusMoves
<1> QED BY <1>1, <1>2, <1>3, <1>4, <1>5, <1>6, <1>7 DEF Next

\* As long as no lock session is lost, a run that has succeeded or exhausted the
\* horizon keeps its verdict, and a failed one only returns to the queue, whatever
\* requests, replicas and daily executions overlap and whatever fails.
THEOREM VerdictsAreFinal == Spec /\ [](losses = 0) => VerdictIsFinal
<1> DEFINE Final(r) ==
             /\ status[r] \in {"succeeded", "future_horizon_exhausted"} => status'[r] = status[r]
             /\ status[r] = "failed" => status'[r] \in {"failed", "queued"}
<1>1. ASSUME ReconInv, losses = 0, [Next]_vars PROVE \A r \in Runs : Final(r)
  <2>1. StatusMoves /\ Intact /\ status \in [Runs -> Statuses]
    BY <1>1, Moves DEF Intact, ReconInv, TypeOK, Statuses
  <2>2. CASE UNCHANGED status
    BY <2>2
  <2>3. CASE \E r \in Runs : Enqueued(r)
    BY <2>3 DEF Enqueued, Active
  <2>4. CASE \E r \in Runs, s \in Statuses :
               status[r] \in Active /\ status' = [status EXCEPT ![r] = s]
    BY <2>1, <2>4 DEF Active
  <2>5. ASSUME NEW p \in Procs, me[p].pc \in RunPCs
        PROVE  me[p].run \in Runs /\ status[me[p].run] \in Active
    BY <1>1, <2>1, <2>5, Here DEF Alone, Active
  <2>6. CASE \E p \in Procs, s \in Statuses \ {"succeeded"} :
               me[p].pc \in RunPCs /\ status' = [status EXCEPT ![me[p].run] = s]
    BY <2>4, <2>5, <2>6
  <2>7. CASE \E p \in Procs : Finish(p)
    <3>1. PICK p \in Procs : Finish(p)
      BY <2>7
    <3>2. \E s \in Statuses : status' = [status EXCEPT ![me[p].run] = s]
      BY <3>1 DEF Finish, SetStatus, Statuses
    <3> QED BY <2>4, <2>5, <3>1, <3>2 DEF Finish, RunPCs
  <2>8. CASE \E r \in Runs : /\ status' = [status EXCEPT ![r] = "running"]
                             /\ Intact => status[r] \in Active
    BY <2>1, <2>4, <2>8 DEF Statuses, Active
  <2> QED BY <2>1, <2>2, <2>3, <2>6, <2>7, <2>8 DEF StatusMoves
<1>2. ReconInv /\ losses = 0 /\ [Next]_vars => [\A r \in Runs : Final(r)]_vars
  BY <1>1
<1> QED BY <1>2, ReconInvariant, PTL DEF Spec, VerdictIsFinal

\* A run is marked succeeded only by an execution that found each of its dates
\* complete at some time, even if two executions of it overlap.
THEOREM SuccessesAreTrue == Spec => SuccessWasTrue
<1> DEFINE True(p) ==
             LET r == me[p].run IN
             /\ me[p].pc = "finish" /\ me'[p].pc # "finish"
             /\ r # None /\ status'[r] = "succeeded"
             => Span(r) \subseteq healthy[p] \/ status[r] = "succeeded"
<1>1. ASSUME ReconInv, [Next]_vars, NEW p \in Procs PROVE True(p)
  <2> DEFINE r == me[p].run
  <2>1. SUFFICES ASSUME me[p].pc = "finish", me'[p].pc # "finish", status'[r] = "succeeded",
                        status[r] # "succeeded"
                 PROVE  Span(r) \subseteq healthy[p]
    OBVIOUS
  <2>2. r \in Runs /\ status \in [Runs -> Statuses] /\ Placed(me[p]) /\ Seen(p, me[p])
    BY <1>1, <2>1, Here DEF RunPCs, ReconInv, TypeOK, Statuses
  <2>3. PICK q \in Procs : Finish(q) /\ me[q].ok
    <3>1. StatusMoves
      BY <1>1, Moves
    <3>2. ~(\E s \in Runs : Enqueued(s))
      BY <2>1, <2>2 DEF Enqueued, Active
    <3>3. ~(\E q \in Procs, s \in Statuses \ {"succeeded"} :
               me[q].pc \in RunPCs /\ status' = [status EXCEPT ![me[q].run] = s])
      BY <2>1, <2>2
    <3>4. ~(\E s \in Runs : status' = [status EXCEPT ![s] = "running"])
      BY <2>1, <2>2
    <3>5. PICK q \in Procs : Finish(q)
      BY <2>1, <3>1, <3>2, <3>3, <3>4 DEF StatusMoves
    <3>6. ~me[q].ok => status' = [status EXCEPT ![me[q].run] = "failed"]
      BY <3>5 DEF Finish, SetStatus
    <3>7. me[q].ok
      BY <2>1, <2>2, <3>6
    <3> QED BY <3>5, <3>7
  <2>4. q = p
    <3>1. me' = [me EXCEPT ![q] = [me[q] EXCEPT !.pc = Decided(q)]]
      BY <2>3 DEF Finish, Goto, Local
    <3>2. q # p => me'[p] = me[p]
      BY <1>1, <3>1 DEF ReconInv, TypeOK
    <3> QED BY <2>1, <3>2
  <2>5. Satisfied(me[p]) /\ Checked(me[p]) = Span(r)
    BY <2>1, <2>2, <2>3, <2>4 DEF Satisfied, Judging, Checked, Placed
  <2> QED BY <2>2, <2>5 DEF Seen
<1>2. ReconInv /\ [Next]_vars => [\A p \in Procs : True(p)]_vars
  BY <1>1
<1> QED BY <1>2, ReconInvariant, PTL DEF Spec, SuccessWasTrue

=============================================================================
