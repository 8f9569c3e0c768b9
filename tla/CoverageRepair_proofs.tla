------------------------ MODULE CoverageRepair_proofs ------------------------
(***************************************************************************)
(* What coverage repair promises for any number of workers, launchers,     *)
(* dates, runs and faults, as long as no session of the worker lock breaks *)
(* without its process noticing: a decided run says what its last audits   *)
(* saw, and the attempts of a date bound the pipelines started for it over *)
(* all executions of the run.                                              *)
(*                                                                         *)
(* The argument. Typed gives every process what the step it is at needs: a *)
(* run that exists, a date of that run, an audit of its range. Then, while *)
(* the lock is intact, the process that executes a run is the only one     *)
(* (Solo) and its run is running (Running), so what it knows about rows    *)
(* and audits stays true between its steps: Attempting relates the attempt *)
(* it is at to the stored count and to the pipelines started, Solid says   *)
(* at each step which dates are backed by their last audit. Settled is     *)
(* what is left of it when the run is decided.                             *)
(***************************************************************************)
EXTENDS CoverageRepair, WellFoundedInduction, TLAPS

Answers == Findings \cup Failures
Audits == {None} \cup Ranges \cup UNION {[S -> Answers] : S \in SUBSET Dates}

Locals == [pc : PCs, run : Runs \cup {None}, audit : Audits,
           seen : {None} \cup [Dates -> DateRows \cup {None}],
           left : SUBSET Dates, date : Dates \cup {None}, try : 0 .. MaxAttempts + 1]

Known(r) == r \in Runs /\ status[r] # "none"

DateSteps == {"attempt", "probe", "backfill", "child", "store", "verify",
              "reread", "recount", "recheck", "giveup"}
TrySteps == {"attempt", "probe", "backfill", "child", "recount", "recheck"}

\* What the step a process is at takes for granted.
Placed(p) ==
    LET r == me[p].run IN
    /\ me[p].pc = "insert" =>
           /\ p \in Launchers /\ inserting = p /\ r \in Runs /\ status[r] = "none"
           /\ me[p].audit \in Ranges
    /\ me[p].pc \in Executing \cup {"enqueued"} => Known(r)
    /\ me[p].pc \in {"audit", "record"} =>
           /\ me[p].seen \in [Dates -> DateRows \cup {None}]
           /\ \A d \in DatesOf(r) : me[p].seen[d] # None
    /\ me[p].pc \in {"record", "refinal", "verdict"} => me[p].audit \in [DatesOf(r) -> Answers]
    /\ me[p].pc \in {"record", "refinal"} => me[p].left # {}
    /\ me[p].pc = "verdict" => me[p].left = {}
    /\ me[p].pc \in Guarded \cup {"start"} => me[p].left \subseteq DatesOf(r)
    /\ me[p].pc \in DateSteps => me[p].date \in DatesOf(r)
    /\ me[p].pc \in TrySteps => me[p].try \in 1 .. MaxAttempts

TablesOK ==
    /\ status \in [Runs -> Active \cup {"none", "succeeded", "failed"}]
    /\ range \in [Runs -> Ranges \cup {None}]
    /\ row \in [Runs -> [Dates -> DateRows \cup {None}]]
    /\ \A r \in Runs :
           /\ range[r] = None <=> status[r] = "none"
           /\ range[r] # None => \A d \in DatesOf(r) : row[r][d] # None

OthersOK ==
    /\ found \in [Dates -> Findings]
    /\ holder \in Procs \cup {None} /\ inserting \in Launchers \cup {None}
    /\ started \in [Runs -> [Dates -> Nat]]
    /\ confirmed \in [Runs -> SUBSET Dates]
    /\ budget \in [Events -> Nat] /\ \A e \in Events : budget[e] <= Limit[e]

Typed == TablesOK /\ OthersOK /\ me \in [Procs -> Locals] /\ \A p \in Procs : Placed(p)

Solo == \A p \in Procs : me[p].pc \in Executing \cup {"claim"} => holder = p

Running ==
    \A p \in Procs : me[p].pc \in Guarded \cup {"abort"} => status[me[p].run] = "running"

Counted ==
    \A r \in Runs, d \in Dates :
        IF status[r] # "none" /\ d \in DatesOf(r) THEN started[r][d] <= row[r][d].attempts
                                                  ELSE started[r][d] = 0

\* The attempt, the stored count and the pipelines started.
Attempting(p) ==
    LET r == me[p].run  d == me[p].date IN
    /\ me[p].pc = "attempt" => row[r][d].attempts = me[p].try - 1
    /\ me[p].pc \in {"probe", "backfill", "child"} => row[r][d].attempts = me[p].try
    /\ me[p].pc \in {"probe", "backfill"} => started[r][d] < me[p].try

Backed(r, d) == row[r][d].status = "complete" => d \in confirmed[r]

Repairing == {"probe", "backfill", "child", "store", "verify", "recheck"}

\* Which dates are complete only if their last audit says so.
Solid(p) ==
    LET r == me[p].run  d == me[p].date IN
    /\ me[p].pc \in {"record", "refinal", "verdict"} =>
           \A x \in DatesOf(r) : Covered(me[p].audit[x]) => x \in confirmed[r]
    /\ me[p].pc = "record" => \A x \in DatesOf(r) \ me[p].left : Backed(r, x)
    /\ me[p].pc \in {"refinal", "verdict"} =>
           \A x \in DatesOf(r) \ me[p].left : row[r][x].status = FinalStatus(me[p].audit[x])
    /\ me[p].pc \in {"next", "final"} => \A x \in DatesOf(r) : Backed(r, x)
    /\ me[p].pc = "abort" /\ budget.errors = 0 => \A x \in DatesOf(r) : Backed(r, x)
    /\ me[p].pc \in DateSteps => \A x \in DatesOf(r) \ {d} : Backed(r, x)
    /\ me[p].pc = "attempt" => Backed(r, d)
    /\ me[p].pc \in Repairing => row[r][d].status = "repairing"

Settled ==
    \A r \in Runs, d \in Dates :
        /\ status[r] = "succeeded" /\ d \in DatesOf(r) =>
               row[r][d].status = "complete" /\ d \in confirmed[r]
        /\ status[r] = "failed" /\ budget.errors = 0 /\ d \in DatesOf(r) => Backed(r, d)

Intact == budget.losses = 0

Safe ==
    /\ Solo /\ Running /\ Counted /\ Settled
    /\ \A p \in Procs : Attempting(p) /\ Solid(p)

RepairInv == Typed /\ (Intact => Safe)


-----------------------------------------------------------------------------
(* Sets of numbers, and the constants.                                     *)

LEMMA MinOf ==
    ASSUME NEW S, S \subseteq Nat, S # {}
    PROVE  Min(S) \in S /\ \A y \in S : Min(S) <= y
<1>1. IsWellFoundedOn(OpToRel(<, Nat), Nat)
  BY NatLessThanWellFounded, Zenon
<1> DEFINE less == OpToRel(<, Nat)
<1>2. \E x \in S : \A y \in S : <<y, x>> \notin less
  <2> HIDE DEF less
  <2>1. IsWellFoundedOn(less, Nat)
    BY <1>1, Zenon DEF less
  <2> QED BY <2>1, WFMin, Zenon
<1>3. \A x, y \in Nat : y < x => <<y, x>> \in less
  BY DEF OpToRel
<1>4. \E x \in S : \A y \in S : x <= y
  <2>1. PICK x \in S : \A y \in S : <<y, x>> \notin less
    BY <1>2
  <2> HIDE DEF less
  <2>2. \A y \in S : ~(y < x)
    BY <1>3, <2>1
  <2> QED BY <2>2
<1> QED BY <1>4 DEF Min

LEMMA MaxOf ==
    ASSUME NEW n \in Nat, NEW S \in SUBSET (1 .. n), S # {}
    PROVE  Max(S) \in S /\ \A y \in S : Max(S) >= y
<1> DEFINE T == {n - x : x \in S}
<1>0. \A x \in S : x \in Int /\ 1 <= x /\ x <= n /\ n - x \in Nat
  OBVIOUS
<1>1. T \subseteq Nat /\ T # {}
  BY <1>0
<1>2. Min(T) \in T /\ \A y \in T : Min(T) <= y
  BY <1>1, MinOf
<1>3. PICK m \in S : Min(T) = n - m
  BY <1>2
<1>4. ASSUME NEW y \in S PROVE m >= y
  <2>1. n - y \in T
    OBVIOUS
  <2>2. n - m <= n - y
    BY <1>2, <1>3, <2>1
  <2> QED BY <1>0, <2>2
<1> QED BY <1>4 DEF Max

LEMMA Constants ==
    /\ Workers \subseteq Procs /\ Launchers \subseteq Procs /\ Workers \cap Launchers = {}
    /\ Dates \subseteq Nat /\ Runs \subseteq Nat /\ MaxAttempts \in Nat
    /\ None \notin Procs /\ None \notin Ranges /\ None \notin Dates /\ None \notin Runs
    /\ None \notin DateRows
    /\ \A g \in Ranges : g[1] .. g[2] \subseteq Dates /\ g[1] .. g[2] # {}
  BY RepairAssumption DEF Procs, Dates, Runs

LEMMA DatesType ==
    ASSUME TablesOK, NEW r, Known(r)
    PROVE  /\ r \in Runs /\ range[r] \in Ranges /\ DatesOf(r) \subseteq Dates /\ DatesOf(r) # {}
           /\ \A d \in DatesOf(r) : row[r][d] \in DateRows
<1>1. r \in Runs /\ range[r] \in Ranges
  BY DEF TablesOK, Known
<1>2. DatesOf(r) \subseteq Dates /\ DatesOf(r) # {}
  BY <1>1, Constants DEF DatesOf
<1>3. ASSUME NEW d \in DatesOf(r) PROVE row[r][d] \in DateRows
  <2>1. row[r][d] # None
    BY <1>1, Constants DEF TablesOK
  <2>2. row[r][d] \in DateRows \cup {None}
    BY <1>1, <1>2 DEF TablesOK
  <2> QED BY <2>1, <2>2
<1> QED BY <1>1, <1>2, <1>3

LEMMA EventsType ==
    /\ Events = {"commands", "news", "crashes", "errors", "failures", "losses"}
    /\ \A e \in Events : Limit[e] \in Nat
  BY RepairAssumption DEF Events, Limit

LEMMA SpendType ==
    ASSUME OthersOK, NEW e \in Events, Spend(e)
    PROVE  /\ budget' \in [Events -> Nat] /\ \A x \in Events : budget'[x] <= Limit[x]
           /\ budget'[e] = budget[e] + 1 /\ \A x \in Events \ {e} : budget'[x] = budget[x]
  BY EventsType DEF OthersOK, Spend

-----------------------------------------------------------------------------
(* The variables of a process, and the row of a date.                      *)

LEMMA IdleType == Idle \in Locals
  BY RepairAssumption DEF Idle, Locals, PCs, Audits

\* Only the variables of p may change.
Only(p) == me' \in [Procs -> Locals] /\ \A q \in Procs \ {p} : me'[q] = me[q]

LEMMA GotoLocals ==
    ASSUME me \in [Procs -> Locals], NEW p \in Procs, NEW pc \in PCs, Goto(p, pc)
    PROVE  /\ Only(p) /\ me'[p].pc = pc /\ me'[p].run = me[p].run
           /\ me'[p].audit = me[p].audit /\ me'[p].seen = me[p].seen
           /\ me'[p].left = me[p].left /\ me'[p].date = me[p].date /\ me'[p].try = me[p].try
<1>1. me[p] \in Locals
  OBVIOUS
<1>2. [me[p] EXCEPT !.pc = pc] \in Locals
  BY <1>1 DEF Locals
<1>3. me' = [me EXCEPT ![p] = [me[p] EXCEPT !.pc = pc]]
  BY DEF Goto
<1> QED BY <1>1, <1>2, <1>3 DEF Only, Locals

LEMMA EnterLocals ==
    ASSUME me \in [Procs -> Locals], NEW p \in Procs, NEW pc \in PCs,
           NEW r \in Runs \cup {None}, Enter(p, pc, r)
    PROVE  /\ Only(p) /\ me'[p].pc = pc /\ me'[p].run = r /\ me'[p].left = {}
<1>1. [Idle EXCEPT !.pc = pc, !.run = r] \in Locals
  BY IdleType DEF Locals
<1>2. me' = [me EXCEPT ![p] = [Idle EXCEPT !.pc = pc, !.run = r]]
  BY DEF Enter
<1> QED BY <1>1, <1>2, IdleType DEF Only, Locals, Idle

LEMMA IdleLocals ==
    ASSUME me \in [Procs -> Locals], NEW p \in Procs, me' = [me EXCEPT ![p] = Idle]
    PROVE  Only(p) /\ me'[p].pc = "idle"
  BY IdleType DEF Only, Idle

LEMMA TryLocals ==
    ASSUME me \in [Procs -> Locals], NEW p \in Procs, NEW d \in Dates, NEW pc \in PCs,
           NEW n \in 0 .. MaxAttempts, TryFrom(p, d, pc, n)
    PROVE  /\ Only(p) /\ me'[p].pc = (IF n < MaxAttempts THEN pc ELSE "giveup")
           /\ me'[p].run = me[p].run /\ me'[p].left = me[p].left
           /\ me'[p].date = d /\ me'[p].try = n + 1
<1> DEFINE s == IF MayTry(n) THEN pc ELSE "giveup"
           l == [me[p] EXCEPT !.date = d, !.try = n + 1, !.pc = s]
<1>1. me[p] \in Locals /\ s \in PCs /\ s = IF n < MaxAttempts THEN pc ELSE "giveup"
  BY DEF MayTry, PCs, Executing, Guarded
<1>2. n + 1 \in 0 .. MaxAttempts + 1
  BY Constants
<1>3. me' = [me EXCEPT ![p] = l]
  BY DEF TryFrom
<1> HIDE DEF s
<1>4. /\ l \in Locals /\ l.pc = s /\ l.run = me[p].run /\ l.left = me[p].left
      /\ l.date = d /\ l.try = n + 1
  BY <1>1, <1>2 DEF Locals
<1> HIDE DEF l
<1> QED BY <1>1, <1>3, <1>4 DEF Only

LEMMA RepairedLocals ==
    ASSUME me \in [Procs -> Locals], NEW p \in Procs, Repaired(p)
    PROVE  /\ Only(p) /\ me'[p].pc = "next" /\ me'[p].run = me[p].run
           /\ me'[p].left = me[p].left \ {me[p].date}
<1> DEFINE l == [me[p] EXCEPT !.pc = "next", !.left = me[p].left \ {me[p].date},
                              !.date = None, !.try = 0]
<1>1. me[p] \in Locals /\ 0 \in 0 .. MaxAttempts + 1
  BY Constants
<1>2. me' = [me EXCEPT ![p] = l]
  BY DEF Repaired
<1>3. l \in Locals /\ l.pc = "next" /\ l.run = me[p].run /\ l.left = me[p].left \ {me[p].date}
  BY <1>1 DEF Locals, PCs, Executing, Guarded
<1> HIDE DEF l
<1> QED BY <1>1, <1>2, <1>3 DEF Only

Columns == {"status", "backfill", "attempts", "verify", "checks"}

\* Values that a step may store about a date.
Values(v) ==
    /\ DOMAIN v \subseteq Columns
    /\ "status" \in DOMAIN v =>
           v.status \in {"pending", "audited", "repairing", "complete", "failed"}
    /\ "backfill" \in DOMAIN v =>
           v.backfill \in {"pending", "running", "succeeded", "failed", "skipped"}
    /\ "attempts" \in DOMAIN v => v.attempts \in 0 .. MaxAttempts
    /\ "verify" \in DOMAIN v =>
           v.verify \in {"pending", "running", "succeeded", "failed", "skipped"}
    /\ "checks" \in DOMAIN v => v.checks \in 0 .. MaxAttempts

\* A run keeps its range, and whether it exists.
Kept ==
    \A r \in Runs : (status'[r] = "none" <=> status[r] = "none") /\ range'[r] = range[r]

\* What is left of a Store that a proof needs.
Stored(r, d, values) ==
    /\ row' \in [Runs -> [Dates -> DateRows \cup {None}]]
    /\ row'[r][d] \in DateRows
    /\ row'[r][d].status = IF "status" \in DOMAIN values THEN values.status
                           ELSE row[r][d].status
    /\ row'[r][d].attempts = IF "attempts" \in DOMAIN values THEN values.attempts
                             ELSE row[r][d].attempts
    /\ \A q \in Runs, x \in Dates : q # r \/ x # d => row'[q][x] = row[q][x]

LEMMA StoreRow ==
    ASSUME TablesOK, NEW p, NEW r, r = me[p].run, Known(r), NEW d \in DatesOf(r), NEW values,
           Values(values), Store(p, d, values)
    PROVE  Stored(r, d, values)
<1> DEFINE old == row[r][d]
           new == [c \in DOMAIN old |-> IF c \in DOMAIN values THEN values[c] ELSE old[c]]
<1>1. old \in DateRows /\ r \in Runs /\ d \in Dates
  BY DatesType
<1>2. new \in DateRows
  BY <1>1 DEF DateRows, Values
<1>3. /\ new.status = IF "status" \in DOMAIN values THEN values.status ELSE old.status
      /\ new.attempts = IF "attempts" \in DOMAIN values THEN values.attempts ELSE old.attempts
  BY <1>1 DEF DateRows
<1>4. row' = [row EXCEPT ![r][d] = new]
  BY DEF Store
<1> HIDE DEF new, old
<1>5. row \in [Runs -> [Dates -> DateRows \cup {None}]]
  BY DEF TablesOK
<1>6. /\ row' \in [Runs -> [Dates -> DateRows \cup {None}]] /\ row'[r][d] = new
      /\ \A q \in Runs, x \in Dates : q # r \/ x # d => row'[q][x] = row[q][x]
  BY <1>1, <1>2, <1>4, <1>5
<1> QED BY <1>2, <1>3, <1>6 DEF old, Stored

LEMMA TablesStep ==
    ASSUME TablesOK, range' = range, Kept,
           status' \in [Runs -> Active \cup {"none", "succeeded", "failed"}],
           row' \in [Runs -> [Dates -> DateRows \cup {None}]],
           \A q \in Runs, x \in Dates : row[q][x] # None => row'[q][x] # None
    PROVE  TablesOK'
<1>1. ASSUME NEW q \in Runs
      PROVE  /\ range'[q] = None <=> status'[q] = "none"
             /\ range'[q] # None => \A d \in DatesOf(q)' : row'[q][d] # None
  <2>1. range'[q] = None <=> status'[q] = "none"
    BY DEF Kept, TablesOK
  <2>2. SUFFICES ASSUME range[q] # None, NEW d \in DatesOf(q) PROVE row'[q][d] # None
    BY <2>1 DEF DatesOf
  <2>3. d \in Dates
    BY <2>2, DatesType DEF Known, TablesOK
  <2> QED BY <2>2, <2>3 DEF TablesOK
<1> QED BY <1>1 DEF TablesOK

LEMMA StoreTables ==
    ASSUME TablesOK, NEW p, NEW r, r = me[p].run, Known(r), NEW d \in DatesOf(r), NEW values,
           Values(values), Store(p, d, values), UNCHANGED <<status, range>>
    PROVE  TablesOK' /\ Kept
<1>1. Kept
  BY DEF Kept
<1>2. Stored(r, d, values)
  BY StoreRow
<1>3. ASSUME NEW q \in Runs, NEW x \in Dates, row[q][x] # None PROVE row'[q][x] # None
  <2>1. CASE q = r /\ x = d
    BY <1>2, <2>1, Constants DEF Stored
  <2>2. CASE q # r \/ x # d
    BY <1>2, <1>3, <2>2 DEF Stored
  <2> QED BY <2>1, <2>2
<1>4. status' \in [Runs -> Active \cup {"none", "succeeded", "failed"}]
  BY DEF TablesOK
<1> QED BY <1>1, <1>2, <1>3, <1>4, TablesStep DEF Stored

LEMMA StatusTables ==
    ASSUME TablesOK, NEW r, Known(r), NEW v \in Active \cup {"succeeded", "failed"},
           status' = [status EXCEPT ![r] = v], UNCHANGED <<range, row>>
    PROVE  /\ TablesOK' /\ Kept /\ status'[r] = v
           /\ \A q \in Runs \ {r} : status'[q] = status[q]
<1>1. /\ status' \in [Runs -> Active \cup {"none", "succeeded", "failed"}] /\ status'[r] = v
      /\ \A q \in Runs \ {r} : status'[q] = status[q]
  BY DEF TablesOK, Known
<1>2. Kept
  BY <1>1 DEF Kept, Known, Active
<1> QED BY <1>1, <1>2, TablesStep DEF TablesOK

LEMMA SameTables ==
    ASSUME TablesOK, UNCHANGED table
    PROVE  TablesOK' /\ Kept
  BY DEF TablesOK, table, Kept, DatesOf

-----------------------------------------------------------------------------
(* What a step leaves alone.                                               *)

LEMMA PlacedStays ==
    ASSUME Typed, NEW q \in Procs, me'[q] = me[q],
           \A r \in Runs : status[r] # "none" => status'[r] # "none" /\ range'[r] = range[r],
           me[q].pc = "insert" => inserting' = q /\ status'[me[q].run] = "none"
    PROVE  Placed(q)'
<1> DEFINE r == me[q].run
<1>1. Placed(q)
  BY DEF Typed
<1>2. CASE me[q].pc \in Executing \cup {"enqueued"}
  <2>1. Known(r) /\ status'[r] # "none" /\ range'[r] = range[r]
    BY <1>1, <1>2 DEF Placed, Known
  <2>2. DatesOf(r)' = DatesOf(r)
    BY <2>1 DEF DatesOf
  <2> QED BY <1>1, <1>2, <2>1, <2>2 DEF Placed, Known, Executing, Guarded
<1>3. CASE me[q].pc \notin Executing \cup {"enqueued"}
  BY <1>1, <1>3 DEF Placed, Executing, Guarded, DateSteps, TrySteps
<1> QED BY <1>2, <1>3

LEMMA TypedStep ==
    ASSUME Typed, NEW p \in Procs, Only(p), TablesOK', OthersOK', Kept,
           \A q \in Procs \ {p} : inserting = q => inserting' = q, Placed(p)'
    PROVE  Typed'
<1>1. ASSUME NEW q \in Procs \ {p} PROVE Placed(q)'
  <2>1. Placed(q) /\ me'[q] = me[q]
    BY DEF Typed, Only
  <2>2. me[q].pc = "insert" => inserting' = q /\ status'[me[q].run] = "none"
    BY <2>1 DEF Placed, Kept
  <2> QED BY <2>1, <2>2, PlacedStays DEF Kept
<1> QED BY <1>1 DEF Typed, Only

\* The process is at no step that takes anything for granted.
LEMMA PlacedNowhere ==
    ASSUME NEW p \in Procs, me'[p].pc \in {"idle", "claim"}
    PROVE  Placed(p)'
  BY DEF Placed, Executing, Guarded, DateSteps, TrySteps

LEMMA Alone ==
    ASSUME Safe, NEW p \in Procs, me[p].pc \in Executing \cup {"claim"}, NEW q \in Procs \ {p}
    PROVE  me[q].pc \notin Executing \cup {"claim"}
  BY DEF Safe, Solo

\* Attempting and Solid speak of processes that execute a run.
LEMMA Vacuous ==
    ASSUME NEW p, me'[p].pc \notin Guarded \cup {"abort"}
    PROVE  Attempting(p)' /\ Solid(p)'
  BY DEF Attempting, Solid, Guarded, DateSteps, Repairing

LEMMA Untouched ==
    ASSUME Safe, UNCHANGED <<table, ghost>>, budget'.errors = 0 => budget.errors = 0
    PROVE  /\ Counted' /\ Settled'
           /\ \A q \in Procs : me'[q] = me[q] => Attempting(q)' /\ Solid(q)'
<1>1. \A r : DatesOf(r)' = DatesOf(r)
  BY DEF DatesOf, table
<1>2. Counted'
  BY <1>1 DEF Safe, Counted, table, ghost
<1>3. Settled'
  BY <1>1 DEF Safe, Settled, table, ghost, Backed
<1>4. ASSUME NEW q \in Procs, me'[q] = me[q] PROVE Attempting(q)' /\ Solid(q)'
  <2>1. Attempting(q)'
    BY <1>4 DEF Safe, Attempting, table, ghost
  <2>2. Solid(q)'
    BY <1>1, <1>4 DEF Safe, Solid, table, ghost, Backed
  <2> QED BY <2>1, <2>2
<1> QED BY <1>2, <1>3, <1>4

\* A step of a process that executes no run, and of which nobody else notices.
LEMMA Aside ==
    ASSUME Safe, NEW p \in Procs, Only(p), UNCHANGED <<table, ghost>>,
           budget'.errors = 0 => budget.errors = 0,
           me'[p].pc \notin Guarded \cup {"abort"},
           me'[p].pc \in Executing \cup {"claim"} => holder' = p,
           \A q \in Procs \ {p} :
               holder = q => holder' = q \/ me[q].pc \notin Executing \cup {"claim"}
    PROVE  Safe'
<1>1. \A q \in Procs : Attempting(q)' /\ Solid(q)'
  BY Untouched, Vacuous DEF Only
<1>2. Solo'
  BY DEF Safe, Solo, Only
<1>3. Running'
  BY DEF Safe, Running, Only, table
<1> QED BY <1>1, <1>2, <1>3, Untouched DEF Safe

\* A step of the process that executes run r.
LEMMA Work ==
    ASSUME Typed, Safe, NEW p \in Procs, NEW r, r = me[p].run, me[p].pc \in Guarded, Only(p),
           me'[p].pc \in Guarded \cup {"abort"}, me'[p].run = r,
           UNCHANGED <<status, range, holder>>, budget'.errors = 0 => budget.errors = 0,
           \A q \in Runs \ {r}, x \in Dates :
               row'[q][x] = row[q][x] /\ started'[q][x] = started[q][x],
           \A q \in Runs \ {r} : confirmed'[q] = confirmed[q],
           \A x \in DatesOf(r) : started'[r][x] <= row'[r][x].attempts,
           \A x \in Dates \ DatesOf(r) : started'[r][x] = started[r][x],
           Attempting(p)', Solid(p)'
    PROVE  Safe'
<1>1. \A q : DatesOf(q)' = DatesOf(q)
  BY DEF DatesOf
<1>2. holder = p /\ status[r] = "running" /\ r \in Runs
  BY DEF Safe, Solo, Running, Executing, Typed, Placed, Known
<1>3. \A q \in Procs \ {p} : me'[q].pc \notin Executing \cup {"claim"}
  BY Alone DEF Only, Executing
<1>4. \A q \in Procs : Attempting(q)' /\ Solid(q)'
  BY <1>3, Vacuous DEF Executing
<1>5. Solo'
  BY <1>2, <1>3 DEF Solo
<1>6. Running'
  BY <1>2, <1>3 DEF Running, Executing
<1>7. ASSUME NEW q \in Runs, NEW x \in Dates
      PROVE  IF status[q] # "none" /\ x \in DatesOf(q) THEN started'[q][x] <= row'[q][x].attempts
                                                        ELSE started'[q][x] = 0
  BY <1>2 DEF Safe, Counted
<1>8. Counted'
  BY <1>1, <1>7 DEF Counted
<1>9. ASSUME NEW q \in Runs, NEW x \in Dates
      PROVE  /\ status[q] = "succeeded" /\ x \in DatesOf(q) =>
                     row'[q][x].status = "complete" /\ x \in confirmed'[q]
             /\ status[q] = "failed" /\ budget'.errors = 0 /\ x \in DatesOf(q) => Backed(q, x)'
  BY <1>2 DEF Safe, Settled, Backed
<1>10. Settled'
  BY <1>1, <1>9 DEF Settled
<1> QED BY <1>4, <1>5, <1>6, <1>8, <1>10 DEF Safe

-----------------------------------------------------------------------------
(* The steps of processes that execute no run.                             *)

LEMMA SpentOn ==
    ASSUME OthersOK, NEW e \in Events, Spend(e)
    PROVE  /\ budget' \in [Events -> Nat] /\ \A x \in Events : budget'[x] <= Limit[x]
           /\ budget'.errors = 0 => budget.errors = 0
           /\ e # "losses" => budget'.losses = budget.losses
           /\ e = "losses" => budget'.losses # 0
           /\ e = "errors" => budget'.errors # 0
           /\ e # "errors" => budget'.errors = budget.errors
<1>1. /\ budget' \in [Events -> Nat] /\ \A x \in Events : budget'[x] <= Limit[x]
      /\ budget'[e] = budget[e] + 1 /\ \A x \in Events \ {e} : budget'[x] = budget[x]
  BY SpendType
<1>2. "errors" \in Events /\ "losses" \in Events
  BY EventsType
<1>3. budget[e] \in Nat /\ budget'[e] # 0
  BY <1>1 DEF OthersOK
<1> QED BY <1>1, <1>2, <1>3

LEMMA EnqueueStep ==
    ASSUME Typed, NEW p \in Launchers, NEW g \in Ranges, Enqueue(p, g)
    PROVE  Typed' /\ (Safe => Safe')
<1>1. /\ p \in Procs /\ "commands" \in Events /\ "commands" # "losses"
      /\ TablesOK /\ OthersOK /\ me \in [Procs -> Locals] /\ me[p].pc = "idle" /\ inserting = None
  BY Constants, EventsType DEF Typed, Enqueue
<1>2. /\ budget' \in [Events -> Nat] /\ \A x \in Events : budget'[x] <= Limit[x]
      /\ budget'.errors = 0 => budget.errors = 0
  BY <1>1, SpentOn DEF Enqueue
<1>3. UNCHANGED <<table, found, holder, ghost>>
  BY DEF Enqueue
<1>4. Only(p) /\ Placed(p)' /\ me'[p].pc \in {"enqueued", "insert"} /\ inserting' \in {None, p}
  <2>1. CASE ActiveOf(g) # {}
    <3> DEFINE m == Max(ActiveOf(g))
    <3>1. m \in ActiveOf(g)
      BY <2>1, MaxOf, RepairAssumption DEF ActiveOf, Runs
    <3>2. m \in Runs /\ status[m] # "none"
      BY <3>1 DEF ActiveOf, Active
    <3>3. Enter(p, "enqueued", m) /\ inserting' = inserting
      BY <2>1 DEF Enqueue
    <3> HIDE DEF m
    <3>4. Only(p) /\ me'[p].pc = "enqueued" /\ me'[p].run = m
      BY <1>1, <3>2, <3>3, EnterLocals DEF PCs
    <3>5. Placed(p)'
      BY <1>3, <3>2, <3>4 DEF Placed, Executing, Guarded, DateSteps, TrySteps, Known, table
    <3> QED BY <1>1, <3>3, <3>4, <3>5
  <2>2. CASE ActiveOf(g) = {}
    <3>1. PICK r \in Runs : /\ status[r] = "none" /\ inserting' = p
                            /\ me' = [me EXCEPT ![p] = [Idle EXCEPT !.pc = "insert", !.run = r,
                                                                    !.audit = g]]
      BY <2>2 DEF Enqueue
    <3> DEFINE l == [Idle EXCEPT !.pc = "insert", !.run = r, !.audit = g]
    <3>2. l \in Locals /\ l.pc = "insert" /\ l.run = r /\ l.audit = g
      BY IdleType DEF Locals, Idle, PCs, Audits
    <3>3. me' = [me EXCEPT ![p] = l]
      BY <3>1
    <3> HIDE DEF l
    <3>4. Only(p) /\ me'[p] = l
      BY <1>1, <3>2, <3>3 DEF Only
    <3>5. Placed(p)'
      BY <1>3, <3>1, <3>2, <3>4 DEF Placed, Executing, Guarded, DateSteps, TrySteps, table
    <3> QED BY <3>1, <3>2, <3>4, <3>5
  <2> QED BY <2>1, <2>2
<1>5. TablesOK' /\ Kept
  BY <1>1, <1>3, SameTables
<1>6. OthersOK'
  BY <1>1, <1>2, <1>3, <1>4 DEF OthersOK, ghost
<1>7. Typed'
  <2>1. \A q \in Procs \ {p} : inserting = q => inserting' = q
    BY <1>1, Constants
  <2> QED BY <1>1, <1>4, <1>5, <1>6, <2>1, TypedStep
<1>8. Safe => Safe'
  BY <1>1, <1>2, <1>3, <1>4, Aside DEF Executing, Guarded
<1> QED BY <1>7, <1>8

LEMMA InsertRunStep ==
    ASSUME Typed, NEW p \in Launchers, InsertRun(p)
    PROVE  Typed' /\ (Safe => Safe')
<1> DEFINE r == me[p].run
           g == me[p].audit
<1>1. /\ p \in Procs /\ TablesOK /\ OthersOK /\ me \in [Procs -> Locals] /\ me[p].pc = "insert"
      /\ inserting = p /\ r \in Runs /\ status[r] = "none" /\ g \in Ranges
  BY Constants DEF Typed, InsertRun, Placed
<1>2. UNCHANGED <<found, holder, ghost, budget>> /\ inserting' = None
  BY DEF InsertRun
<1>3. OthersOK'
  BY <1>1, <1>2 DEF OthersOK, ghost
<1>4. CASE ActiveOf(g) # {}
  <2>1. me' = [me EXCEPT ![p] = Idle] /\ UNCHANGED table
    BY <1>4 DEF InsertRun
  <2>2. Only(p) /\ me'[p].pc = "idle"
    BY <1>1, <2>1, IdleLocals
  <2>3. Typed'
    BY <1>1, <1>3, <2>1, <2>2, SameTables, PlacedNowhere, TypedStep
  <2>4. Safe => Safe'
    BY <1>1, <1>2, <2>1, <2>2, Aside DEF Executing, Guarded
  <2> QED BY <2>3, <2>4
<1>5. CASE ActiveOf(g) = {}
  <2> DEFINE new == [d \in Dates |-> IF d \in g[1] .. g[2] THEN NewRow ELSE None]
  <2>1. /\ status' = [status EXCEPT ![r] = "queued"] /\ range' = [range EXCEPT ![r] = g]
        /\ row' = [row EXCEPT ![r] = new] /\ Enter(p, "enqueued", r)
    BY <1>5 DEF InsertRun
  <2>2. Only(p) /\ me'[p].pc = "enqueued" /\ me'[p].run = r
    BY <1>1, <2>1, EnterLocals DEF PCs
  <2>3. NewRow \in DateRows /\ NewRow.attempts = 0 /\ NewRow.status = "pending"
    BY Constants DEF NewRow, DateRows
  <2>4. /\ new \in [Dates -> DateRows \cup {None}]
        /\ \A d \in g[1] .. g[2] : d \in Dates /\ new[d] = NewRow
    BY <1>1, <2>3, Constants
  <2> HIDE DEF new
  <2>5. /\ status' \in [Runs -> Active \cup {"none", "succeeded", "failed"}]
        /\ range' \in [Runs -> Ranges \cup {None}]
        /\ row' \in [Runs -> [Dates -> DateRows \cup {None}]]
    BY <1>1, <2>1, <2>4 DEF TablesOK, Active
  <2>6. /\ status'[r] = "queued" /\ range'[r] = g /\ row'[r] = new
        /\ \A q \in Runs \ {r} : /\ status'[q] = status[q] /\ range'[q] = range[q]
                                 /\ row'[q] = row[q] /\ DatesOf(q)' = DatesOf(q)
    BY <1>1, <2>1 DEF TablesOK, DatesOf
  <2>7. TablesOK'
    <3>1. ASSUME NEW q \in Runs
          PROVE  /\ range'[q] = None <=> status'[q] = "none"
                 /\ range'[q] # None => \A d \in DatesOf(q)' : row'[q][d] # None
      <4>1. CASE q = r
        <5>1. range'[q] # None /\ status'[q] # "none"
          BY <1>1, <2>6, <4>1, Constants
        <5>2. \A d \in DatesOf(q)' : row'[q][d] = NewRow
          BY <2>4, <2>6, <4>1 DEF DatesOf
        <5> QED BY <2>3, <5>1, <5>2, Constants
      <4>2. CASE q # r
        BY <1>1, <2>6, <4>2 DEF TablesOK
      <4> QED BY <4>1, <4>2
    <3> QED BY <2>5, <3>1 DEF TablesOK
  <2>8. ASSUME NEW q \in Procs PROVE Placed(q)'
    <3>1. CASE q = p
      BY <1>1, <2>2, <2>6, <3>1 DEF Placed, Executing, Guarded, DateSteps, TrySteps, Known
    <3>2. CASE q # p
      <4>1. me[q].pc # "insert" /\ me'[q] = me[q]
        BY <1>1, <2>2, <3>2 DEF Typed, Placed, Only
      <4> QED BY <1>1, <2>6, <4>1, PlacedStays
    <3> QED BY <3>1, <3>2
  <2>9. Typed'
    BY <1>3, <2>2, <2>7, <2>8 DEF Typed, Only
  <2>10. ASSUME Safe PROVE Safe'
    <3>1. Solo'
      BY <1>2, <2>2, <2>10 DEF Safe, Solo, Only, Executing, Guarded
    <3>2. \A q \in Procs : me[q].pc \in Executing \cup {"enqueued"} =>
                               me[q].run \in Runs /\ me[q].run # r
      BY <1>1 DEF Typed, Placed, Known
    <3>3. Running'
      BY <2>2, <2>6, <2>10, <3>2 DEF Safe, Running, Only, Executing, Guarded
    <3>4. Counted'
      <4>1. ASSUME NEW q \in Runs, NEW d \in Dates
            PROVE  IF status'[q] # "none" /\ d \in DatesOf(q)'
                   THEN started'[q][d] <= row'[q][d].attempts ELSE started'[q][d] = 0
        <5>1. CASE q = r
          <6>1. started'[q][d] = 0
            BY <1>1, <1>2, <2>10, <5>1 DEF Safe, Counted, ghost
          <6>2. d \in DatesOf(q)' => row'[q][d].attempts = 0
            BY <2>3, <2>4, <2>6, <5>1 DEF DatesOf
          <6> QED BY <6>1, <6>2
        <5>2. CASE q # r
          BY <1>2, <2>6, <2>10, <5>2 DEF Safe, Counted, ghost
        <5> QED BY <5>1, <5>2
      <4> QED BY <4>1 DEF Counted
    <3>5. Settled'
      BY <1>2, <2>6, <2>10 DEF Safe, Settled, Backed, ghost
    <3>6. ASSUME NEW q \in Procs PROVE Attempting(q)' /\ Solid(q)'
      <4>1. CASE me'[q].pc \notin Guarded \cup {"abort"}
        BY <4>1, Vacuous
      <4>2. CASE me'[q].pc \in Guarded \cup {"abort"}
        <5>1. q # p
          BY <2>2, <4>2 DEF Guarded
        <5>2. /\ me'[q] = me[q] /\ me[q].run \in Runs /\ me[q].run # r
              /\ Attempting(q) /\ Solid(q)
          BY <2>2, <2>10, <3>2, <4>2, <5>1 DEF Only, Safe, Executing
        <5>3. Attempting(q)'
          BY <1>2, <2>6, <5>2 DEF Attempting, ghost
        <5>4. Solid(q)'
          BY <1>2, <2>6, <5>2 DEF Solid, Backed, ghost
        <5> QED BY <5>3, <5>4
      <4> QED BY <4>1, <4>2
    <3> QED BY <3>1, <3>3, <3>4, <3>5, <3>6 DEF Safe
  <2> QED BY <2>9, <2>10
<1> QED BY <1>4, <1>5

LEMMA BackgroundStep ==
    ASSUME Typed, NEW p \in Launchers, Background(p)
    PROVE  Typed' /\ (Safe => Safe')
<1>1. /\ p \in Procs /\ TablesOK /\ OthersOK /\ me \in [Procs -> Locals]
      /\ me' = [me EXCEPT ![p] = Idle]
      /\ UNCHANGED <<table, found, holder, inserting, ghost, budget>>
  BY Constants DEF Typed, Background
<1>2. Only(p) /\ me'[p].pc = "idle"
  BY <1>1, IdleLocals
<1>3. OthersOK'
  BY <1>1 DEF OthersOK, ghost
<1>4. Typed'
  BY <1>1, <1>2, <1>3, SameTables, PlacedNowhere, TypedStep
<1>5. Safe => Safe'
  BY <1>1, <1>2, Aside DEF Executing, Guarded
<1> QED BY <1>4, <1>5

LEMMA ForegroundStep ==
    ASSUME Typed, NEW p \in Launchers, Foreground(p)
    PROVE  Typed' /\ (Safe => Safe')
<1>1. /\ p \in Procs /\ TablesOK /\ OthersOK /\ me \in [Procs -> Locals] /\ me[p].pc = "enqueued"
      /\ UNCHANGED <<table, found, inserting, ghost, budget>> /\ Known(me[p].run)
  BY Constants DEF Typed, Foreground, Placed
<1>2. CASE holder = None
  <2>1. holder' = p /\ Enter(p, "start", me[p].run)
    BY <1>2 DEF Foreground
  <2>2. Only(p) /\ me'[p].pc = "start" /\ me'[p].run = me[p].run /\ me'[p].left = {}
    BY <1>1, <2>1, EnterLocals DEF PCs, Executing, Known
  <2>3. OthersOK'
    BY <1>1, <2>1 DEF OthersOK, ghost
  <2>4. Placed(p)'
    BY <1>1, <2>2 DEF Placed, Guarded, DateSteps, TrySteps, Known, table
  <2>5. Typed'
    BY <1>1, <2>2, <2>3, <2>4, SameTables, TypedStep
  <2>6. Safe => Safe'
    BY <1>1, <1>2, <2>1, <2>2, Constants, Aside DEF Guarded
  <2> QED BY <2>5, <2>6
<1>3. CASE holder # None
  <2>1. holder' = holder /\ me' = [me EXCEPT ![p] = Idle]
    BY <1>3 DEF Foreground
  <2>2. Only(p) /\ me'[p].pc = "idle"
    BY <1>1, <2>1, IdleLocals
  <2>3. OthersOK'
    BY <1>1, <2>1 DEF OthersOK, ghost
  <2>4. Typed'
    BY <1>1, <2>2, <2>3, SameTables, PlacedNowhere, TypedStep
  <2>5. Safe => Safe'
    BY <1>1, <2>1, <2>2, Aside DEF Executing, Guarded
  <2> QED BY <2>4, <2>5
<1> QED BY <1>2, <1>3

LEMMA AcquireLockStep ==
    ASSUME Typed, NEW p \in Workers, AcquireLock(p)
    PROVE  Typed' /\ (Safe => Safe')
<1>1. /\ p \in Procs /\ TablesOK /\ OthersOK /\ me \in [Procs -> Locals]
      /\ UNCHANGED <<table, found, inserting, ghost, budget>>
      /\ holder = None /\ holder' = p /\ Goto(p, "claim")
  BY Constants DEF Typed, AcquireLock
<1>2. Only(p) /\ me'[p].pc = "claim"
  BY <1>1, GotoLocals DEF PCs
<1>3. OthersOK'
  BY <1>1 DEF OthersOK, ghost
<1>4. Typed'
  BY <1>1, <1>2, <1>3, SameTables, PlacedNowhere, TypedStep
<1>5. Safe => Safe'
  BY <1>1, <1>2, Constants, Aside DEF Executing, Guarded
<1> QED BY <1>4, <1>5

-----------------------------------------------------------------------------
(* A process that ends or leaves its run, and the environment.             *)

LEMMA ExitLocals ==
    ASSUME me \in [Procs -> Locals], OthersOK, NEW p \in Procs, Exit(p)
    PROVE  /\ Only(p) /\ me'[p].pc = "idle" /\ holder' \in Procs \cup {None}
           /\ \A q \in Procs \ {p} : holder = q => holder' = q
  BY IdleLocals DEF Exit, OthersOK

LEMMA LeaveLocals ==
    ASSUME me \in [Procs -> Locals], OthersOK, NEW p \in Procs, Leave(p)
    PROVE  /\ Only(p) /\ me'[p].pc \in {"idle", "claim"} /\ holder' \in Procs \cup {None}
           /\ me'[p].pc = "claim" => holder' = holder
           /\ \A q \in Procs \ {p} : holder = q => holder' = q
<1>1. CASE p \in Workers
  <2>1. Enter(p, "claim", None) /\ holder' = holder
    BY <1>1 DEF Leave
  <2>2. Only(p) /\ me'[p].pc = "claim"
    BY <2>1, EnterLocals DEF PCs
  <2> QED BY <2>1, <2>2 DEF OthersOK
<1>2. CASE p \notin Workers
  BY <1>2, IdleLocals DEF Leave, OthersOK
<1> QED BY <1>1, <1>2

LEMMA CrashStep ==
    ASSUME Typed, NEW p \in Procs, Crash(p)
    PROVE  Typed' /\ (Safe => Safe')
<1>1. /\ TablesOK /\ OthersOK /\ me \in [Procs -> Locals] /\ "crashes" \in Events
      /\ UNCHANGED <<table, found, ghost>> /\ Exit(p) /\ Spend("crashes")
      /\ inserting' = IF inserting = p THEN None ELSE inserting
  BY EventsType DEF Typed, Crash
<1>2. /\ Only(p) /\ me'[p].pc = "idle" /\ holder' \in Procs \cup {None}
      /\ \A q \in Procs \ {p} : holder = q => holder' = q
  BY <1>1, ExitLocals
<1>3. /\ budget' \in [Events -> Nat] /\ \A x \in Events : budget'[x] <= Limit[x]
      /\ budget'.errors = 0 => budget.errors = 0
  BY <1>1, SpentOn
<1>4. OthersOK'
  BY <1>1, <1>2, <1>3 DEF OthersOK, ghost
<1>5. Typed'
  BY <1>1, <1>2, <1>4, SameTables, PlacedNowhere, TypedStep
<1>6. Safe => Safe'
  BY <1>1, <1>2, <1>3, Aside DEF Executing, Guarded
<1> QED BY <1>5, <1>6

LEMMA RaiseStep ==
    ASSUME Typed, NEW p \in Procs, Raise(p)
    PROVE  Typed' /\ (Safe => Safe')
<1>1. /\ TablesOK /\ OthersOK /\ me \in [Procs -> Locals] /\ "errors" \in Events
      /\ UNCHANGED <<table, found, inserting, ghost>> /\ Spend("errors")
  BY EventsType DEF Typed, Raise
<1>2. /\ budget' \in [Events -> Nat] /\ \A x \in Events : budget'[x] <= Limit[x]
      /\ budget'.errors # 0
  BY <1>1, SpentOn
<1>3. CASE me[p].pc \in Guarded /\ Enter(p, "abort", me[p].run) /\ UNCHANGED holder
  <2>1. Known(me[p].run)
    BY <1>3 DEF Typed, Placed, Executing
  <2>2. Only(p) /\ me'[p].pc = "abort" /\ me'[p].run = me[p].run
    BY <1>1, <1>3, <2>1, EnterLocals DEF PCs, Executing, Known
  <2>3. OthersOK'
    BY <1>1, <1>2, <1>3 DEF OthersOK, ghost
  <2>4. Placed(p)'
    BY <1>1, <2>1, <2>2 DEF Placed, Guarded, DateSteps, TrySteps, Known, table
  <2>5. Typed'
    BY <1>1, <2>2, <2>3, <2>4, SameTables, TypedStep
  <2>6. Attempting(p)' /\ Solid(p)'
    BY <1>2, <2>2 DEF Attempting, Solid, DateSteps, Repairing
  <2>7. ASSUME Safe PROVE Safe'
    <3>1. \A x \in DatesOf(me[p].run) : started[me[p].run][x] <= row[me[p].run][x].attempts
      BY <1>1, <2>1, <2>7, DatesType DEF Safe, Counted, Known
    <3> QED BY <1>1, <1>2, <1>3, <2>2, <2>6, <2>7, <3>1, Work DEF table, ghost
  <2> QED BY <2>5, <2>7
<1>4. CASE me[p].pc \in {"claim", "start", "abort"} /\ Exit(p)
  <2>1. /\ Only(p) /\ me'[p].pc = "idle" /\ holder' \in Procs \cup {None}
        /\ \A q \in Procs \ {p} : holder = q => holder' = q
    BY <1>1, <1>4, ExitLocals
  <2>2. OthersOK'
    BY <1>1, <1>2, <2>1 DEF OthersOK, ghost
  <2>3. Typed'
    BY <1>1, <2>1, <2>2, SameTables, PlacedNowhere, TypedStep
  <2>4. Safe => Safe'
    BY <1>1, <1>2, <2>1, Aside DEF Executing, Guarded
  <2> QED BY <2>3, <2>4
<1> QED BY <1>3, <1>4 DEF Raise

\* A step of the environment that no process takes part in.
LEMMA TypedAround ==
    ASSUME Typed, UNCHANGED <<table, me, inserting>>, OthersOK'
    PROVE  Typed'
<1>1. TablesOK' /\ Kept
  BY SameTables DEF Typed
<1>2. ASSUME NEW q \in Procs PROVE Placed(q)'
  BY <1>1, PlacedStays DEF Typed, Placed, Kept
<1> QED BY <1>1, <1>2 DEF Typed

LEMMA LoseSessionStep ==
    ASSUME Typed, LoseSession
    PROVE  Typed' /\ ~Intact'
<1>1. OthersOK /\ "losses" \in Events /\ Spend("losses")
  BY EventsType DEF Typed, LoseSession
<1>2. /\ budget' \in [Events -> Nat] /\ \A x \in Events : budget'[x] <= Limit[x]
      /\ budget'.losses # 0
  BY <1>1, SpentOn
<1>3. OthersOK'
  BY <1>1, <1>2 DEF OthersOK, ghost, LoseSession
<1> QED BY <1>2, <1>3, TypedAround DEF LoseSession, Intact

LEMMA NewsStep ==
    ASSUME Typed, News
    PROVE  Typed' /\ (Safe => Safe')
<1>1. /\ OthersOK /\ "news" \in Events /\ Spend("news")
      /\ UNCHANGED <<table, holder, inserting, me, ghost>>
  BY EventsType DEF Typed, News
<1>2. /\ budget' \in [Events -> Nat] /\ \A x \in Events : budget'[x] <= Limit[x]
      /\ budget'.errors = 0 => budget.errors = 0
  BY <1>1, SpentOn
<1>3. found' \in [Dates -> Findings]
  BY <1>1 DEF OthersOK, News
<1>4. OthersOK'
  BY <1>1, <1>2, <1>3 DEF OthersOK, ghost
<1>5. Typed'
  BY <1>1, <1>4, TypedAround
<1>6. ASSUME Safe PROVE Safe'
  BY <1>1, <1>2, <1>6, Untouched DEF Safe, Solo, Running, table
<1> QED BY <1>5, <1>6

-----------------------------------------------------------------------------
(* The steps that change the status of a run.                              *)

LEMMA Deciding ==
    ASSUME Safe, NEW p \in Procs, NEW r \in Runs, me[p].pc \in Executing \cup {"claim"}, Only(p),
           NEW v, status'[r] = v, \A q \in Runs \ {r} : status'[q] = status[q], status[r] # "none",
           UNCHANGED <<range, row, ghost, budget>>,
           v \in {"running", "succeeded", "failed"},
           v = "succeeded" =>
               \A x \in DatesOf(r) : row[r][x].status = "complete" /\ x \in confirmed[r],
           v = "failed" /\ budget.errors = 0 => \A x \in DatesOf(r) : Backed(r, x),
           me'[p].pc \in Executing \cup {"claim"} => holder' = p,
           me'[p].pc \in Guarded \cup {"abort"} => me'[p].run = r /\ v = "running",
           Attempting(p)', Solid(p)'
    PROVE  Safe'
<1>1. \A q : DatesOf(q)' = DatesOf(q)
  BY DEF DatesOf
<1>2. \A q \in Procs \ {p} : me'[q].pc \notin Executing \cup {"claim"}
  BY Alone DEF Only
<1>3. \A q \in Procs : Attempting(q)' /\ Solid(q)'
  BY <1>2, Vacuous DEF Executing
<1>4. Solo'
  BY <1>2 DEF Solo
<1>5. Running'
  BY <1>2 DEF Running, Executing
<1>6. Counted'
  BY <1>1 DEF Safe, Counted, ghost
<1>7. Settled'
  BY <1>1 DEF Safe, Settled, Backed, ghost
<1> QED BY <1>3, <1>4, <1>5, <1>6, <1>7 DEF Safe

LEMMA ClaimStep ==
    ASSUME Typed, NEW p \in Workers, Claim(p)
    PROVE  Typed' /\ (Safe => Safe')
<1>1. /\ p \in Procs /\ TablesOK /\ OthersOK /\ me \in [Procs -> Locals] /\ me[p].pc = "claim"
      /\ UNCHANGED <<range, row, found, holder, inserting, ghost, budget>>
  BY Constants DEF Typed, Claim
<1>2. PICK r \in Runs : /\ NextRun(r) /\ status' = [status EXCEPT ![r] = "running"]
                        /\ Enter(p, "start", r)
  BY DEF Claim
<1>3. status[r] \in Active
  <2>1. CASE \E q \in Runs : status[q] = "running"
    <3> DEFINE S == {q \in Runs : status[q] = "running"}
    <3>1. S \subseteq Nat /\ S # {}
      BY <2>1, Constants
    <3>2. Min(S) \in S
      BY <3>1, MinOf
    <3> QED BY <1>2, <2>1, <3>2 DEF NextRun, Active
  <2>2. CASE ~\E q \in Runs : status[q] = "running"
    BY <1>2, <2>2 DEF NextRun, Active
  <2> QED BY <2>1, <2>2
<1>4. Known(r)
  BY <1>3 DEF Known, Active
<1>5. Only(p) /\ me'[p].pc = "start" /\ me'[p].run = r /\ me'[p].left = {}
  BY <1>1, <1>2, EnterLocals DEF PCs, Executing
<1>6. /\ TablesOK' /\ Kept /\ status'[r] = "running"
      /\ \A q \in Runs \ {r} : status'[q] = status[q]
  BY <1>1, <1>2, <1>4, StatusTables DEF Active
<1>7. OthersOK'
  BY <1>1 DEF OthersOK, ghost
<1>8. Placed(p)'
  BY <1>5, <1>6 DEF Placed, Guarded, DateSteps, TrySteps, Known
<1>9. Typed'
  BY <1>1, <1>5, <1>6, <1>7, <1>8, TypedStep
<1>10. ASSUME Safe PROVE Safe'
  <2>1. holder' = p
    BY <1>1, <1>10 DEF Safe, Solo
  <2>2. Attempting(p)' /\ Solid(p)'
    BY <1>5, Vacuous DEF Guarded
  <2> QED BY <1>1, <1>4, <1>5, <1>6, <1>10, <2>1, <2>2, Deciding DEF Guarded, Known
<1> QED BY <1>9, <1>10

LEMMA StartStep ==
    ASSUME Typed, NEW p \in Procs, Start(p)
    PROVE  Typed' /\ (Safe => Safe')
<1> DEFINE r == me[p].run
<1>1. /\ TablesOK /\ OthersOK /\ me \in [Procs -> Locals] /\ me[p].pc = "start" /\ Known(r)
      /\ me[p].left \subseteq DatesOf(r)
      /\ UNCHANGED <<range, row, found, inserting, ghost, budget>>
  BY DEF Typed, Start, Placed, Executing
<1>2. CASE IndexAllows(r)
  <2>1. /\ status' = [status EXCEPT ![r] = "running"] /\ holder' = holder
        /\ me' = [me EXCEPT ![p].pc = "audit", ![p].seen = row[r]]
    BY <1>2 DEF Start
  <2> DEFINE l == [me[p] EXCEPT !.pc = "audit", !.seen = row[r]]
  <2>2. me[p] \in Locals /\ row[r] \in [Dates -> DateRows \cup {None}]
    BY <1>1 DEF TablesOK, Known
  <2>3. /\ l \in Locals /\ l.pc = "audit" /\ l.run = r /\ l.left = me[p].left
        /\ l.seen = row[r]
    BY <2>2 DEF Locals, PCs, Executing, Guarded
  <2>4. me' = [me EXCEPT ![p] = l]
    BY <2>1
  <2> HIDE DEF l
  <2>5. Only(p) /\ me'[p] = l
    BY <1>1, <2>3, <2>4 DEF Only
  <2>6. /\ TablesOK' /\ Kept /\ status'[r] = "running"
        /\ \A q \in Runs \ {r} : status'[q] = status[q]
    BY <1>1, <2>1, StatusTables DEF Active
  <2>7. OthersOK'
    BY <1>1, <2>1 DEF OthersOK, ghost
  <2>8. Known(r) /\ r' = r /\ DatesOf(r)' = DatesOf(r)
    BY <1>1, <2>3, <2>5 DEF DatesOf
  <2>9. \A d \in DatesOf(r) : row[r][d] # None
    BY <1>1 DEF TablesOK, Known
  <2>10. Placed(p)'
    <3>1. me'[p].run = r /\ me'[p].pc = "audit" /\ me'[p].seen = row[r] /\ me'[p].left = me[p].left
      BY <2>3, <2>5
    <3> QED BY <1>1, <2>2, <2>6, <2>8, <2>9, <3>1
            DEF Placed, Guarded, DateSteps, TrySteps, Known
  <2>11. Typed'
    BY <1>1, <2>5, <2>6, <2>7, <2>10, TypedStep
  <2>12. ASSUME Safe PROVE Safe'
    <3>1. holder' = p
      BY <1>1, <2>1, <2>12 DEF Safe, Solo, Executing
    <3>2. Attempting(p)' /\ Solid(p)'
      BY <2>3, <2>5 DEF Attempting, Solid, DateSteps, Repairing
    <3>3. me'[p].run = r
      BY <2>3, <2>5
    <3> QED BY <1>1, <2>5, <2>6, <2>12, <3>1, <3>2, <3>3, Deciding DEF Executing, Known
  <2> QED BY <2>11, <2>12
<1>3. CASE ~IndexAllows(r)
  <2>1. Exit(p) /\ status' = status
    BY <1>3 DEF Start
  <2>2. /\ Only(p) /\ me'[p].pc = "idle" /\ holder' \in Procs \cup {None}
        /\ \A q \in Procs \ {p} : holder = q => holder' = q
    BY <1>1, <2>1, ExitLocals
  <2>3. OthersOK' /\ UNCHANGED table
    BY <1>1, <2>1, <2>2 DEF OthersOK, ghost, table
  <2>4. Typed'
    BY <1>1, <2>2, <2>3, SameTables, PlacedNowhere, TypedStep
  <2>5. Safe => Safe'
    BY <1>1, <2>2, <2>3, Aside DEF Executing, Guarded
  <2> QED BY <2>4, <2>5
<1> QED BY <1>2, <1>3

LEMMA VerdictStep ==
    ASSUME Typed, NEW p \in Procs, Verdict(p)
    PROVE  Typed' /\ (Safe => Safe')
<1> DEFINE r == me[p].run
           a == me[p].audit
           v == IF Converged(a) THEN "succeeded" ELSE "failed"
<1>1. /\ TablesOK /\ OthersOK /\ me \in [Procs -> Locals] /\ me[p].pc = "verdict" /\ Known(r)
      /\ a \in [DatesOf(r) -> Answers] /\ me[p].left = {}
      /\ UNCHANGED <<range, row, found, inserting, ghost, budget>>
      /\ status' = [status EXCEPT ![r] = v] /\ Leave(p)
  BY DEF Typed, Verdict, Decide, Placed, Executing, Guarded
<1>2. /\ Only(p) /\ me'[p].pc \in {"idle", "claim"} /\ holder' \in Procs \cup {None}
      /\ me'[p].pc = "claim" => holder' = holder
      /\ \A q \in Procs \ {p} : holder = q => holder' = q
  BY <1>1, LeaveLocals
<1>3. /\ TablesOK' /\ Kept /\ status'[r] = v
      /\ \A q \in Runs \ {r} : status'[q] = status[q]
  BY <1>1, StatusTables, ZenonT(40)
<1>4. OthersOK'
  BY <1>1, <1>2 DEF OthersOK, ghost
<1>5. Typed'
  BY <1>1, <1>2, <1>3, <1>4, PlacedNowhere, TypedStep
<1>6. ASSUME Safe PROVE Safe'
  <2>1. /\ \A x \in DatesOf(r) : Covered(a[x]) => x \in confirmed[r]
        /\ \A x \in DatesOf(r) : row[r][x].status = FinalStatus(a[x])
    BY <1>1, <1>6 DEF Safe, Solid
  <2>2. v = "succeeded" => \A x \in DatesOf(r) : row[r][x].status = "complete" /\ x \in confirmed[r]
    BY <1>1, <2>1 DEF Converged, FinalStatus
  <2>3. \A x \in DatesOf(r) : Backed(r, x)
    BY <2>1 DEF Backed, FinalStatus
  <2>4. holder = p
    BY <1>1, <1>6 DEF Safe, Solo, Executing, Guarded
  <2>5. Attempting(p)' /\ Solid(p)'
    BY <1>2, Vacuous DEF Guarded
  <2>6. v \in {"succeeded", "failed"}
    OBVIOUS
  <2> HIDE DEF v
  <2>7. me[p].pc \in Executing /\ r \in Runs /\ status[r] # "none"
    BY <1>1 DEF Executing, Guarded, Known
  <2>8. me'[p].pc \in Executing \cup {"claim"} => holder' = p
    BY <1>2, <2>4 DEF Executing, Guarded
  <2>9. me'[p].pc \notin Guarded \cup {"abort"}
    BY <1>2 DEF Guarded
  <2> QED BY <1>1, <1>2, <1>3, <1>6, <2>2, <2>3, <2>5, <2>6, <2>7, <2>8, <2>9, Deciding
<1> QED BY <1>5, <1>6

LEMMA AbortStep ==
    ASSUME Typed, NEW p \in Procs, Abort(p)
    PROVE  Typed' /\ (Safe => Safe')
<1> DEFINE r == me[p].run
<1>1. /\ TablesOK /\ OthersOK /\ me \in [Procs -> Locals] /\ me[p].pc = "abort" /\ Known(r)
      /\ UNCHANGED <<range, row, found, inserting, ghost, budget>>
      /\ status' = [status EXCEPT ![r] = "failed"] /\ Leave(p)
  BY DEF Typed, Abort, Decide, Placed, Executing
<1>2. /\ Only(p) /\ me'[p].pc \in {"idle", "claim"} /\ holder' \in Procs \cup {None}
      /\ me'[p].pc = "claim" => holder' = holder
      /\ \A q \in Procs \ {p} : holder = q => holder' = q
  BY <1>1, LeaveLocals
<1>3. /\ TablesOK' /\ Kept /\ status'[r] = "failed"
      /\ \A q \in Runs \ {r} : status'[q] = status[q]
  BY <1>1, StatusTables
<1>4. OthersOK'
  BY <1>1, <1>2 DEF OthersOK, ghost
<1>5. Typed'
  BY <1>1, <1>2, <1>3, <1>4, PlacedNowhere, TypedStep
<1>6. ASSUME Safe PROVE Safe'
  <2>1. budget.errors = 0 => \A x \in DatesOf(r) : Backed(r, x)
    BY <1>1, <1>6 DEF Safe, Solid
  <2>2. holder = p
    BY <1>1, <1>6 DEF Safe, Solo, Executing
  <2>3. Attempting(p)' /\ Solid(p)'
    BY <1>2, Vacuous DEF Guarded
  <2>4. me[p].pc \in Executing /\ r \in Runs /\ status[r] # "none"
    BY <1>1 DEF Executing, Known
  <2>5. me'[p].pc \in Executing \cup {"claim"} => holder' = p
    BY <1>2, <2>2 DEF Executing, Guarded
  <2>6. me'[p].pc \notin Guarded \cup {"abort"}
    BY <1>2 DEF Guarded
  <2> QED BY <1>1, <1>2, <1>3, <1>6, <2>1, <2>3, <2>4, <2>5, <2>6, Deciding
<1> QED BY <1>5, <1>6

-----------------------------------------------------------------------------
(* The steps inside a run.                                                 *)

LEMMA InRun ==
    ASSUME Typed, NEW p \in Procs, me[p].pc \in Guarded, NEW r, r = me[p].run
    PROVE  /\ TablesOK /\ OthersOK /\ me \in [Procs -> Locals] /\ me[p] \in Locals
           /\ Known(r) /\ r \in Runs /\ DatesOf(r) \subseteq Dates /\ DatesOf(r) # {}
           /\ \A d \in DatesOf(r) : row[r][d] \in DateRows
           /\ me[p].left \subseteq DatesOf(r)
           /\ me[p].pc \in DateSteps => me[p].date \in DatesOf(r)
           /\ me[p].pc \in TrySteps => me[p].try \in 1 .. MaxAttempts
<1>1. Placed(p) /\ Known(r)
  BY DEF Typed, Placed, Executing
<1> QED BY <1>1, DatesType DEF Typed, Placed

\* No statement raised and no session broke.
Spent ==
    /\ budget' \in [Events -> Nat] /\ \A x \in Events : budget'[x] <= Limit[x]
    /\ budget'.errors = budget.errors

LEMMA FailureSpent ==
    ASSUME OthersOK, Spend("failures") \/ UNCHANGED budget
    PROVE  Spent
<1>1. CASE Spend("failures")
  <2>1. "failures" \in Events /\ "failures" # "errors"
    BY EventsType
  <2> QED BY <1>1, <2>1, SpentOn DEF Spent
<1>2. CASE UNCHANGED budget
  BY <1>2 DEF OthersOK, Spent
<1> QED BY <1>1, <1>2

\* Only the confirmations of run r may change.
Confirms(r) ==
    /\ confirmed' \in [Runs -> SUBSET Dates]
    /\ \A q \in Runs \ {r} : confirmed'[q] = confirmed[q]

LEMMA AuditedRun ==
    ASSUME OthersOK, NEW p, NEW r \in Runs, r = me[p].run, NEW S \in SUBSET Dates,
           NEW a \in [S -> Answers], Audited(p, a)
    PROVE  /\ Confirms(r) /\ Spent
           /\ \A x \in Dates : x \in confirmed'[r] <=>
                  IF x \in S THEN ~Missing(a[x]) /\ ~Failed(a[x]) ELSE x \in confirmed[r]
<1> DEFINE new == {d \in S : ~Missing(a[d]) /\ ~Failed(a[d])} \cup (confirmed[r] \ S)
<1>1. confirmed \in [Runs -> SUBSET Dates]
  BY DEF OthersOK
<1>2. confirmed' = [confirmed EXCEPT ![r] = new]
  BY DEF Audited, Saw
<1>3. new \subseteq Dates
  BY <1>1
<1>4. confirmed'[r] = new /\ Confirms(r)
  BY <1>1, <1>2, <1>3 DEF Confirms
<1>5. Spent
  BY FailureSpent DEF Audited
<1> QED BY <1>4, <1>5

LEMMA AuditedOne ==
    ASSUME OthersOK, NEW p, NEW r \in Runs, r = me[p].run, NEW d \in Dates, NEW a \in Answers,
           AuditedDate(p, d, a)
    PROVE  /\ Confirms(r) /\ Spent
           /\ d \in confirmed'[r] <=> ~Missing(a) /\ ~Failed(a)
           /\ \A x \in Dates \ {d} : x \in confirmed'[r] <=> x \in confirmed[r]
<1> DEFINE f == [x \in {d} |-> a]
<1>1. {d} \in SUBSET Dates /\ f \in [{d} -> Answers] /\ f[d] = a /\ Audited(p, f)
  BY DEF AuditedDate
<1> HIDE DEF f
<1>2. /\ Confirms(r) /\ Spent
      /\ \A x \in Dates : x \in confirmed'[r] <=>
             IF x \in {d} THEN ~Missing(f[x]) /\ ~Failed(f[x]) ELSE x \in confirmed[r]
  BY <1>1, AuditedRun
<1> QED BY <1>1, <1>2

LEMMA WorkStep ==
    ASSUME Typed, NEW p \in Procs, me[p].pc \in Guarded, NEW r, r = me[p].run, Only(p),
           me'[p].pc \in Guarded \cup {"abort"}, me'[p].run = r, Placed(p)',
           UNCHANGED <<status, range, holder, inserting>>, found' \in [Dates -> Findings],
           Spent, Confirms(r), TablesOK', Kept,
           \A q \in Runs \ {r}, x \in Dates :
               row'[q][x] = row[q][x] /\ started'[q][x] = started[q][x],
           started' \in [Runs -> [Dates -> Nat]],
           Safe => \A x \in DatesOf(r) : started'[r][x] <= row'[r][x].attempts,
           \A x \in Dates \ DatesOf(r) : started'[r][x] = started[r][x],
           Safe => Attempting(p)' /\ Solid(p)'
    PROVE  Typed' /\ (Safe => Safe')
<1>1. OthersOK'
  BY DEF Typed, OthersOK, Spent, Confirms
<1>2. Typed'
  BY <1>1, TypedStep
<1>3. Safe => Safe'
  BY Work DEF Spent, Confirms
<1> QED BY <1>2, <1>3

\* A step that stores values about one date of the run.
LEMMA StoreStep ==
    ASSUME Typed, NEW p \in Procs, me[p].pc \in Guarded, NEW r, r = me[p].run, Only(p),
           me'[p].pc \in Guarded \cup {"abort"}, me'[p].run = r, Placed(p)',
           UNCHANGED <<status, range, found, holder, inserting, started>>,
           Spent, Confirms(r),
           NEW d \in DatesOf(r), NEW values, Values(values), Store(p, d, values),
           Safe /\ "attempts" \in DOMAIN values => row[r][d].attempts <= values.attempts,
           Safe => Attempting(p)' /\ Solid(p)'
    PROVE  Typed' /\ (Safe => Safe')
<1>1. /\ TablesOK /\ OthersOK /\ Known(r) /\ r \in Runs /\ DatesOf(r) \subseteq Dates
      /\ \A x \in DatesOf(r) : row[r][x] \in DateRows
  BY InRun
<1>2. TablesOK' /\ Kept
  BY <1>1, StoreTables
<1>3. Stored(r, d, values)
  BY <1>1, StoreRow
<1>4. ASSUME Safe, NEW x \in DatesOf(r) PROVE started'[r][x] <= row'[r][x].attempts
  <2>1. started[r][x] <= row[r][x].attempts
    BY <1>1, <1>4 DEF Safe, Counted, Known
  <2>2. CASE x # d
    BY <1>1, <1>3, <2>1, <2>2 DEF Stored
  <2>3. CASE x = d /\ "attempts" \notin DOMAIN values
    BY <1>3, <2>1, <2>3 DEF Stored
  <2>4. CASE x = d /\ "attempts" \in DOMAIN values
    <3>1. started[r][x] \in Nat
      BY <1>1 DEF OthersOK
    <3>2. row[r][x].attempts \in 0 .. MaxAttempts
      BY <1>1 DEF DateRows
    <3>3. values.attempts \in 0 .. MaxAttempts
      BY <2>4 DEF Values
    <3>4. row[r][x].attempts <= values.attempts /\ row'[r][x].attempts = values.attempts
      BY <1>3, <1>4, <2>4 DEF Stored
    <3> QED BY <2>1, <3>1, <3>2, <3>3, <3>4, Constants
  <2> QED BY <2>2, <2>3, <2>4
<1>5. found' \in [Dates -> Findings] /\ started' \in [Runs -> [Dates -> Nat]]
  BY <1>1 DEF OthersOK
<1>6. \A q \in Runs \ {r}, x \in Dates : row'[q][x] = row[q][x] /\ started'[q][x] = started[q][x]
  BY <1>3 DEF Stored
<1> QED BY <1>1, <1>2, <1>4, <1>5, <1>6, WorkStep

\* A step that changes the variables of the process only, or what is found.
LEMMA CalmStep ==
    ASSUME Typed, NEW p \in Procs, me[p].pc \in Guarded, NEW r, r = me[p].run, Only(p),
           me'[p].pc \in Guarded \cup {"abort"}, me'[p].run = r, Placed(p)',
           UNCHANGED <<table, holder, inserting, started>>, found' \in [Dates -> Findings],
           Spent, Confirms(r), Safe => Attempting(p)' /\ Solid(p)'
    PROVE  Typed' /\ (Safe => Safe')
<1>1. TablesOK /\ OthersOK /\ Known(r) /\ r \in Runs /\ DatesOf(r) \subseteq Dates
  BY InRun
<1>2. TablesOK' /\ Kept
  BY <1>1, SameTables
<1>3. Safe => \A x \in DatesOf(r) : started'[r][x] <= row'[r][x].attempts
  BY <1>1 DEF Safe, Counted, Known, table
<1>4. started' \in [Runs -> [Dates -> Nat]]
  BY <1>1 DEF OthersOK
<1> QED BY <1>1, <1>2, <1>3, <1>4, WorkStep DEF table

LEMMA SameGhost ==
    ASSUME OthersOK, NEW r, UNCHANGED <<confirmed, budget>>
    PROVE  Spent /\ Confirms(r)
  BY DEF OthersOK, Spent, Confirms

\* What is true at a step of _repair_date.
LEMMA PlacedAtDate ==
    ASSUME NEW p \in Procs, NEW r, me'[p].run = r, Known(r), UNCHANGED <<status, range>>,
           me'[p].pc \in DateSteps, me'[p].left \subseteq DatesOf(r), me'[p].date \in DatesOf(r),
           me'[p].pc \in TrySteps => me'[p].try \in 1 .. MaxAttempts
    PROVE  Placed(p)'
<1>1. DatesOf(r)' = DatesOf(r) /\ Known(r)'
  BY DEF DatesOf, Known
<1> QED BY <1>1 DEF Placed, DateSteps, Guarded, Executing

\* And at the steps between the dates.
LEMMA PlacedBetween ==
    ASSUME NEW p \in Procs, NEW r, me'[p].run = r, Known(r), UNCHANGED <<status, range>>,
           me'[p].pc \in {"next", "final", "abort"}, me'[p].left \subseteq DatesOf(r)
    PROVE  Placed(p)'
<1>1. DatesOf(r)' = DatesOf(r) /\ Known(r)'
  BY DEF DatesOf, Known
<1> QED BY <1>1 DEF Placed, DateSteps, TrySteps, Guarded, Executing

LEMMA SolidAtDate ==
    ASSUME NEW p \in Procs, NEW r, me'[p].run = r, UNCHANGED range,
           me'[p].pc \in DateSteps, NEW d, me'[p].date = d,
           \A x \in DatesOf(r) \ {d} : Backed(r, x)', me'[p].pc = "attempt" => Backed(r, d)',
           me'[p].pc \in Repairing => row'[r][d].status = "repairing"
    PROVE  Solid(p)'
<1>1. DatesOf(r)' = DatesOf(r)
  BY DEF DatesOf
<1> QED BY <1>1 DEF Solid, DateSteps

LEMMA SolidBetween ==
    ASSUME NEW p \in Procs, NEW r, me'[p].run = r, UNCHANGED range,
           me'[p].pc \in {"next", "final", "abort"}, \A x \in DatesOf(r) : Backed(r, x)'
    PROVE  Attempting(p)' /\ Solid(p)'
<1>1. DatesOf(r)' = DatesOf(r)
  BY DEF DatesOf
<1> QED BY <1>1 DEF Solid, Attempting, DateSteps, Repairing

-----------------------------------------------------------------------------
(* The steps of _repair_date.                                              *)

\* p goes on with date d ...
Onward(p, r, d) ==
    /\ me'[p].pc \in DateSteps /\ me'[p].date = d /\ me'[p].left = me[p].left
    /\ me'[p].pc \in TrySteps => me'[p].try \in 1 .. MaxAttempts
    /\ Safe => /\ Attempting(p)'
               /\ me'[p].pc = "attempt" => row'[r][d].status # "complete"
               /\ me'[p].pc \in Repairing => row'[r][d].status = "repairing"

\* ... or is done with it.
Done(p, r, d) ==
    /\ me'[p].pc \in {"next", "abort"} /\ me'[p].left \subseteq me[p].left
    /\ Safe => Backed(r, d)'

\* Only the last audit of date d may change.
ConfirmsOne(r, d) ==
    Confirms(r) /\ \A x \in Dates \ {d} : x \in confirmed'[r] <=> x \in confirmed[r]

LEMMA AuditedDateOne ==
    ASSUME OthersOK, NEW p, NEW r \in Runs, r = me[p].run, NEW d \in Dates, NEW a \in Answers,
           AuditedDate(p, d, a)
    PROVE  Spent /\ ConfirmsOne(r, d) /\ (d \in confirmed'[r] <=> ~Missing(a) /\ ~Failed(a))
  BY AuditedOne DEF ConfirmsOne

LEMMA SameGhostOne ==
    ASSUME OthersOK, NEW r, NEW d, UNCHANGED <<confirmed, budget>>
    PROVE  Spent /\ ConfirmsOne(r, d)
  BY SameGhost DEF ConfirmsOne

\* What a step changes of the row of a date and of the pipelines started for it.
OneRow(r, d) ==
    /\ TablesOK' /\ Kept /\ started' \in [Runs -> [Dates -> Nat]]
    /\ \A q \in Runs, x \in Dates :
           q # r \/ x # d => row'[q][x] = row[q][x] /\ started'[q][x] = started[q][x]
    /\ Safe => started'[r][d] <= row'[r][d].attempts

LEMMA StoredDate ==
    ASSUME Typed, NEW p \in Procs, NEW r, r = me[p].run, NEW d, d = me[p].date,
           me[p].pc \in DateSteps, NEW v, Values(v), Store(p, d, v),
           UNCHANGED <<status, range, started>>,
           Safe /\ "attempts" \in DOMAIN v => row[r][d].attempts <= v.attempts
    PROVE  OneRow(r, d) /\ Stored(r, d, v)
<1>1. /\ TablesOK /\ OthersOK /\ Known(r) /\ r \in Runs /\ DatesOf(r) \subseteq Dates
      /\ d \in DatesOf(r) /\ row[r][d] \in DateRows
  BY InRun DEF DateSteps, Guarded
<1>2. TablesOK' /\ Kept
  BY <1>1, StoreTables
<1>3. Stored(r, d, v)
  BY <1>1, StoreRow
<1>4. ASSUME Safe PROVE started'[r][d] <= row'[r][d].attempts
  <2>1. started[r][d] <= row[r][d].attempts
    BY <1>1, <1>4 DEF Safe, Counted, Known
  <2>2. CASE "attempts" \notin DOMAIN v
    BY <1>3, <2>1, <2>2 DEF Stored
  <2>3. CASE "attempts" \in DOMAIN v
    <3>1. started[r][d] \in Nat
      BY <1>1 DEF OthersOK
    <3>2. row[r][d].attempts \in 0 .. MaxAttempts
      BY <1>1 DEF DateRows
    <3>3. v.attempts \in 0 .. MaxAttempts
      BY <2>3 DEF Values
    <3>4. row[r][d].attempts <= v.attempts /\ row'[r][d].attempts = v.attempts
      BY <1>3, <1>4, <2>3 DEF Stored
    <3> QED BY <2>1, <3>1, <3>2, <3>3, <3>4, Constants
  <2> QED BY <2>2, <2>3
<1>5. started' \in [Runs -> [Dates -> Nat]]
  BY <1>1 DEF OthersOK
<1>6. \A q \in Runs, x \in Dates :
          q # r \/ x # d => row'[q][x] = row[q][x] /\ started'[q][x] = started[q][x]
  BY <1>3 DEF Stored
<1> QED BY <1>2, <1>3, <1>4, <1>5, <1>6 DEF OneRow

LEMMA SameRow ==
    ASSUME Typed, NEW p \in Procs, NEW r, r = me[p].run, NEW d, d = me[p].date,
           me[p].pc \in DateSteps, UNCHANGED <<table, started>>
    PROVE  OneRow(r, d)
<1>1. /\ TablesOK /\ OthersOK /\ Known(r) /\ r \in Runs /\ DatesOf(r) \subseteq Dates
      /\ d \in DatesOf(r)
  BY InRun DEF DateSteps, Guarded
<1>2. TablesOK' /\ Kept
  BY <1>1, SameTables
<1>3. Safe => started[r][d] <= row[r][d].attempts
  BY <1>1 DEF Safe, Counted, Known
<1> QED BY <1>1, <1>2, <1>3 DEF OneRow, table, OthersOK

LEMMA DateStep ==
    ASSUME Typed, NEW p \in Procs, NEW r, r = me[p].run, NEW d, d = me[p].date,
           me[p].pc \in DateSteps, Only(p), me'[p].run = r,
           UNCHANGED <<status, range, holder, inserting>>, found' \in [Dates -> Findings],
           Spent, ConfirmsOne(r, d), OneRow(r, d), Onward(p, r, d) \/ Done(p, r, d)
    PROVE  Typed' /\ (Safe => Safe')
<1>1. /\ TablesOK /\ OthersOK /\ Known(r) /\ r \in Runs /\ DatesOf(r) \subseteq Dates
      /\ d \in DatesOf(r) /\ me[p].left \subseteq DatesOf(r) /\ me[p].pc \in Guarded
  BY InRun DEF DateSteps, Guarded
<1>2. me'[p].pc \in Guarded \cup {"abort"}
  BY DEF Onward, Done, DateSteps, Guarded
<1>3. Placed(p)'
  <2>1. CASE Onward(p, r, d)
    BY <1>1, <2>1, PlacedAtDate DEF Onward
  <2>2. CASE Done(p, r, d)
    BY <1>1, <2>2, PlacedBetween DEF Done
  <2> QED BY <2>1, <2>2
<1>4. ASSUME Safe PROVE Attempting(p)' /\ Solid(p)'
  <2>1. \A x \in DatesOf(r) \ {d} : Backed(r, x)
    BY <1>1, <1>4 DEF Safe, Solid
  <2>2. \A x \in DatesOf(r) \ {d} : Backed(r, x)'
    BY <1>1, <2>1 DEF Backed, ConfirmsOne, OneRow
  <2>3. CASE Onward(p, r, d)
    BY <1>4, <2>2, <2>3, SolidAtDate DEF Onward, Backed
  <2>4. CASE Done(p, r, d)
    BY <1>4, <2>2, <2>4, SolidBetween DEF Done
  <2> QED BY <2>3, <2>4
<1>5. ASSUME Safe, NEW x \in DatesOf(r) PROVE started'[r][x] <= row'[r][x].attempts
  <2>1. started[r][x] <= row[r][x].attempts
    BY <1>1, <1>5 DEF Safe, Counted, Known
  <2> QED BY <1>1, <1>5, <2>1 DEF OneRow
<1>6. /\ \A q \in Runs \ {r}, x \in Dates : row'[q][x] = row[q][x] /\ started'[q][x] = started[q][x]
      /\ \A x \in Dates \ DatesOf(r) : started'[r][x] = started[r][x]
  BY <1>1 DEF OneRow
<1> QED BY <1>1, <1>2, <1>3, <1>4, <1>5, <1>6, WorkStep DEF OneRow, ConfirmsOne

\* Before a step of _repair_date.
LEMMA AtDate ==
    ASSUME Typed, NEW p \in Procs, me[p].pc \in DateSteps, NEW r, r = me[p].run,
           NEW d, d = me[p].date
    PROVE  /\ OthersOK /\ me \in [Procs -> Locals] /\ me[p] \in Locals /\ Known(r) /\ r \in Runs
           /\ d \in Dates /\ d \in DatesOf(r) /\ row[r][d] \in DateRows /\ MaxAttempts \in Nat
           /\ me[p].pc \in TrySteps => me[p].try \in 1 .. MaxAttempts
           /\ found \in [Dates -> Findings] /\ found[d] \in Findings
           /\ started \in [Runs -> [Dates -> Nat]]
<1>1. me[p].pc \in Guarded
  BY DEF DateSteps, Guarded
<1> QED BY <1>1, InRun, Constants DEF OthersOK

\* The next attempt, or none.
LEMMA TryOnward ==
    ASSUME Typed, NEW p \in Procs, me[p].pc \in DateSteps, NEW r, r = me[p].run,
           NEW d, d = me[p].date, NEW pc \in {"attempt", "recount"}, NEW n \in 0 .. MaxAttempts,
           TryFrom(p, d, pc, n),
           Safe /\ pc = "attempt" => row'[r][d].attempts = n /\ row'[r][d].status # "complete"
    PROVE  Only(p) /\ me'[p].run = r /\ Onward(p, r, d)
<1>1. me \in [Procs -> Locals] /\ d \in Dates /\ MaxAttempts \in Nat
  BY AtDate
<1>2. /\ Only(p) /\ me'[p].pc = (IF n < MaxAttempts THEN pc ELSE "giveup")
      /\ me'[p].run = me[p].run /\ me'[p].left = me[p].left
      /\ me'[p].date = d /\ me'[p].try = n + 1
  BY <1>1, TryLocals DEF PCs, Executing, Guarded
<1>3. me'[p].pc \in TrySteps => me'[p].try \in 1 .. MaxAttempts
  BY <1>1, <1>2 DEF TrySteps
<1>4. me'[p].pc \in DateSteps /\ me'[p].pc \notin Repairing
  BY <1>2 DEF DateSteps, Repairing
<1>5. Safe => Attempting(p)'
  BY <1>2 DEF Attempting
<1> QED BY <1>2, <1>3, <1>4, <1>5 DEF Onward

-----------------------------------------------------------------------------
(* The actions of _repair_date, one by one.                                *)

LEMMA AttemptStep ==
    ASSUME Typed, NEW p \in Procs, Attempt(p), NEW r, r = me[p].run, NEW d, d = me[p].date
    PROVE  Typed' /\ (Safe => Safe')
<1> DEFINE n == me[p].try
           v == [status |-> "repairing", backfill |-> "running", attempts |-> n]
<1>1. /\ me[p].pc = "attempt" /\ Store(p, d, v) /\ Goto(p, "probe")
      /\ UNCHANGED <<status, range, found, holder, inserting, ghost, budget>>
      /\ me[p].pc \in DateSteps
  BY DEF Attempt, DateSteps
<1>2. /\ OthersOK /\ me \in [Procs -> Locals] /\ r \in Runs /\ Known(r) /\ d \in Dates
      /\ d \in DatesOf(r) /\ row[r][d] \in DateRows /\ found \in [Dates -> Findings]
      /\ MaxAttempts \in Nat /\ n \in 1 .. MaxAttempts
  BY <1>1, AtDate DEF TrySteps
<1>3. /\ Values(v) /\ "attempts" \in DOMAIN v /\ v.attempts = n
      /\ "status" \in DOMAIN v /\ v.status = "repairing"
  BY <1>2 DEF Values, Columns
<1>4. /\ Only(p) /\ me'[p].pc = "probe" /\ me'[p].run = r /\ me'[p].left = me[p].left
      /\ me'[p].date = d /\ me'[p].try = n
  BY <1>1, <1>2, GotoLocals DEF PCs, Executing, Guarded
<1>5. Safe => row[r][d].attempts = n - 1
  BY <1>1 DEF Safe, Attempting
<1> HIDE DEF v
<1>6. OneRow(r, d) /\ Stored(r, d, v)
  <2>1. Safe => row[r][d].attempts <= v.attempts
    BY <1>2, <1>3, <1>5
  <2> QED BY <1>1, <1>3, <2>1, StoredDate DEF ghost
<1>7. ASSUME Safe PROVE Attempting(p)'
  <2>1. started[r][d] <= row[r][d].attempts
    BY <1>2, <1>7 DEF Safe, Counted, Known
  <2>2. started[r][d] < n
    <3>1. started[r][d] \in Nat
      BY <1>2 DEF OthersOK
    <3> QED BY <1>2, <1>5, <1>7, <2>1, <3>1
  <2>3. row'[r][d].attempts = n
    BY <1>3, <1>6 DEF Stored
  <2> QED BY <1>1, <1>4, <2>2, <2>3 DEF Attempting, ghost
<1>8. row'[r][d].status = "repairing"
  BY <1>3, <1>6 DEF Stored
<1>9. Onward(p, r, d)
  BY <1>2, <1>4, <1>7, <1>8 DEF Onward, DateSteps
<1>10. Spent /\ ConfirmsOne(r, d)
  BY <1>1, <1>2, SameGhostOne DEF ghost
<1> QED BY <1>1, <1>2, <1>4, <1>6, <1>9, <1>10, DateStep

LEMMA ProbeStep ==
    ASSUME Typed, NEW p \in Procs, Probe(p), NEW r, r = me[p].run, NEW d, d = me[p].date
    PROVE  Typed' /\ (Safe => Safe')
<1>1. /\ me[p].pc = "probe" /\ me[p].pc \in DateSteps /\ me[p].pc \in TrySteps
      /\ UNCHANGED <<status, range, found, holder, inserting, started>>
  BY DEF Probe, DateSteps, TrySteps
<1>2. /\ OthersOK /\ me \in [Procs -> Locals] /\ r \in Runs /\ Known(r) /\ d \in Dates
      /\ d \in DatesOf(r) /\ row[r][d] \in DateRows /\ found \in [Dates -> Findings]
      /\ found[d] \in Findings /\ MaxAttempts \in Nat /\ me[p].try \in 1 .. MaxAttempts
  BY <1>1, AtDate
<1>3. PICK a \in Outcomes(d) :
          /\ AuditedDate(p, d, a)
          /\ CASE Failed(a) ->
                    /\ Store(p, d, [backfill |-> "failed"])
                    /\ IF a = "audit_failed" THEN Goto(p, "giveup") ELSE Again(p, "attempt")
               [] Missing(a) -> Goto(p, "backfill") /\ UNCHANGED row
               [] OTHER ->
                    /\ Store(p, d, [status |-> "complete", backfill |-> "skipped",
                                    verify |-> "skipped"])
                    /\ Repaired(p)
  BY DEF Probe
<1>4. a \in Answers
  BY <1>2 DEF Outcomes, Answers
<1>5. Spent /\ ConfirmsOne(r, d) /\ (d \in confirmed'[r] <=> ~Missing(a) /\ ~Failed(a))
  BY <1>2, <1>3, <1>4, AuditedDateOne
<1>6. ASSUME Safe
      PROVE  /\ row[r][d].status = "repairing" /\ row[r][d].attempts = me[p].try
             /\ started[r][d] < me[p].try
  BY <1>1, <1>6 DEF Safe, Attempting, Solid, Repairing
<1>7. CASE Failed(a)
  <2> DEFINE v == [backfill |-> "failed"]
  <2>1. Store(p, d, v) /\ (IF a = "audit_failed" THEN Goto(p, "giveup") ELSE Again(p, "attempt"))
    <3>1. ~Missing(a)
      BY <1>7 DEF Failed, Failures, Missing
    <3> QED BY <1>3, <1>7, <3>1
  <2>2. Values(v) /\ "attempts" \notin DOMAIN v /\ "status" \notin DOMAIN v
    BY DEF Values, Columns
  <2> HIDE DEF v
  <2>3. OneRow(r, d) /\ Stored(r, d, v)
    BY <1>1, <2>1, <2>2, StoredDate
  <2>4. Safe => row'[r][d].status = "repairing" /\ row'[r][d].attempts = me[p].try
    BY <1>6, <2>2, <2>3 DEF Stored
  <2>5. Only(p) /\ me'[p].run = r /\ Onward(p, r, d)
    <3>1. CASE Goto(p, "giveup")
      <4>1. /\ Only(p) /\ me'[p].pc = "giveup" /\ me'[p].run = r /\ me'[p].left = me[p].left
            /\ me'[p].date = d
        BY <1>2, <3>1, GotoLocals DEF PCs, Executing, Guarded
      <4> QED BY <4>1 DEF Onward, DateSteps, TrySteps, Repairing, Attempting
    <3>2. CASE Again(p, "attempt")
      <4>1. TryFrom(p, d, "attempt", me[p].try) /\ me[p].try \in 0 .. MaxAttempts
        BY <1>2, <3>2 DEF Again
      <4> QED BY <1>1, <2>4, <4>1, TryOnward
    <3> QED BY <2>1, <3>1, <3>2
  <2> QED BY <1>1, <1>2, <1>5, <2>3, <2>5, DateStep
<1>8. CASE ~Failed(a) /\ Missing(a)
  <2>1. Goto(p, "backfill") /\ UNCHANGED row
    BY <1>3, <1>8
  <2>2. /\ Only(p) /\ me'[p].pc = "backfill" /\ me'[p].run = r /\ me'[p].left = me[p].left
        /\ me'[p].date = d /\ me'[p].try = me[p].try
    BY <1>2, <2>1, GotoLocals DEF PCs, Executing, Guarded
  <2>3. OneRow(r, d)
    BY <1>1, <2>1, SameRow DEF table
  <2>4. Safe => Attempting(p)' /\ row'[r][d].status = "repairing"
    BY <1>1, <1>6, <2>1, <2>2 DEF Attempting
  <2>5. Onward(p, r, d)
    BY <1>2, <2>2, <2>4 DEF Onward, DateSteps
  <2> QED BY <1>1, <1>2, <1>5, <2>2, <2>3, <2>5, DateStep
<1>9. CASE ~Failed(a) /\ ~Missing(a)
  <2> DEFINE v == [status |-> "complete", backfill |-> "skipped", verify |-> "skipped"]
  <2>1. Store(p, d, v) /\ Repaired(p)
    BY <1>3, <1>9
  <2>2. Values(v) /\ "attempts" \notin DOMAIN v
    BY DEF Values, Columns
  <2> HIDE DEF v
  <2>3. OneRow(r, d) /\ Stored(r, d, v)
    BY <1>1, <2>1, <2>2, StoredDate
  <2>4. Only(p) /\ me'[p].pc = "next" /\ me'[p].run = r /\ me'[p].left = me[p].left \ {d}
    BY <1>2, <2>1, RepairedLocals
  <2>5. Done(p, r, d)
    BY <1>5, <1>9, <2>4 DEF Done, Backed
  <2> QED BY <1>1, <1>2, <1>5, <2>3, <2>4, <2>5, DateStep
<1> QED BY <1>7, <1>8, <1>9

LEMMA RunBackfillStep ==
    ASSUME Typed, NEW p \in Procs, RunBackfill(p), NEW r, r = me[p].run, NEW d, d = me[p].date
    PROVE  Typed' /\ (Safe => Safe')
<1>1. /\ me[p].pc = "backfill" /\ me[p].pc \in DateSteps /\ me[p].pc \in TrySteps
      /\ started' = [started EXCEPT ![r][d] = started[r][d] + 1] /\ Goto(p, "child")
      /\ UNCHANGED <<table, found, holder, inserting, confirmed, budget>>
  BY DEF RunBackfill, DateSteps, TrySteps
<1>2. /\ OthersOK /\ me \in [Procs -> Locals] /\ r \in Runs /\ Known(r) /\ d \in Dates
      /\ d \in DatesOf(r) /\ row[r][d] \in DateRows /\ found \in [Dates -> Findings]
      /\ MaxAttempts \in Nat /\ me[p].try \in 1 .. MaxAttempts /\ TablesOK
      /\ started \in [Runs -> [Dates -> Nat]]
  BY <1>1, AtDate DEF Typed
<1>3. /\ Only(p) /\ me'[p].pc = "child" /\ me'[p].run = r /\ me'[p].left = me[p].left
      /\ me'[p].date = d /\ me'[p].try = me[p].try
  BY <1>1, <1>2, GotoLocals DEF PCs, Executing, Guarded
<1>4. ASSUME Safe
      PROVE  /\ row[r][d].status = "repairing" /\ row[r][d].attempts = me[p].try
             /\ started[r][d] < me[p].try
  BY <1>1, <1>4 DEF Safe, Attempting, Solid, Repairing
<1>5. /\ started' \in [Runs -> [Dates -> Nat]] /\ started'[r][d] = started[r][d] + 1
      /\ \A q \in Runs, x \in Dates : q # r \/ x # d => started'[q][x] = started[q][x]
  <2> DEFINE n == started[r][d] + 1
  <2>1. n \in Nat /\ started' = [started EXCEPT ![r][d] = n]
    BY <1>1, <1>2
  <2> HIDE DEF n
  <2>2. /\ started' \in [Runs -> [Dates -> Nat]] /\ started'[r][d] = n
        /\ \A q \in Runs, x \in Dates : q # r \/ x # d => started'[q][x] = started[q][x]
    BY <1>2, <2>1
  <2> QED BY <2>2 DEF n
<1>6. OneRow(r, d)
  <2>1. TablesOK' /\ Kept
    BY <1>1, <1>2, SameTables
  <2>2. Safe => started'[r][d] <= row'[r][d].attempts
    BY <1>1, <1>2, <1>4, <1>5 DEF table
  <2> QED BY <1>1, <1>5, <2>1, <2>2 DEF OneRow, table
<1>7. Onward(p, r, d)
  <2>1. Safe => Attempting(p)' /\ row'[r][d].status = "repairing"
    BY <1>1, <1>3, <1>4 DEF Attempting, table
  <2> QED BY <1>2, <1>3, <2>1 DEF Onward, DateSteps
<1>8. Spent /\ ConfirmsOne(r, d)
  BY <1>1, <1>2, SameGhostOne
<1> QED BY <1>1, <1>2, <1>3, <1>6, <1>7, <1>8, DateStep DEF table

LEMMA BackfillDoneStep ==
    ASSUME Typed, NEW p \in Procs, BackfillDone(p), NEW r, r = me[p].run, NEW d, d = me[p].date
    PROVE  Typed' /\ (Safe => Safe')
<1>1. /\ me[p].pc = "child" /\ me[p].pc \in DateSteps /\ Goto(p, "store")
      /\ UNCHANGED <<table, holder, inserting, ghost, budget>>
  BY DEF BackfillDone, DateSteps
<1>2. /\ OthersOK /\ me \in [Procs -> Locals] /\ d \in Dates /\ found \in [Dates -> Findings]
      /\ found[d] \in Findings
  BY <1>1, AtDate
<1>3. found' \in [Dates -> Findings]
  <2>1. PICK f \in {found[d], "complete", "complete_with_source_unresolvable"} :
            found' = [found EXCEPT ![d] = f]
    BY DEF BackfillDone
  <2>2. f \in Findings
    BY <1>2, <2>1 DEF Findings
  <2> QED BY <1>2, <2>1, <2>2
<1>4. /\ Only(p) /\ me'[p].pc = "store" /\ me'[p].run = r /\ me'[p].left = me[p].left
      /\ me'[p].date = d
  BY <1>1, <1>2, GotoLocals DEF PCs, Executing, Guarded
<1>5. Safe => row'[r][d].status = "repairing"
  BY <1>1 DEF Safe, Solid, Repairing, table
<1>6. Onward(p, r, d)
  BY <1>4, <1>5 DEF Onward, DateSteps, TrySteps, Attempting
<1>7. Spent /\ ConfirmsOne(r, d) /\ OneRow(r, d)
  BY <1>1, <1>2, SameGhostOne, SameRow DEF ghost
<1> QED BY <1>1, <1>3, <1>4, <1>6, <1>7, DateStep DEF table

LEMMA BackfillTransientStep ==
    ASSUME Typed, NEW p \in Procs, BackfillTransient(p), NEW r, r = me[p].run, NEW d, d = me[p].date
    PROVE  Typed' /\ (Safe => Safe')
<1> DEFINE v == [backfill |-> "failed"]
<1>1. /\ me[p].pc = "child" /\ me[p].pc \in DateSteps /\ me[p].pc \in TrySteps
      /\ Spend("failures") /\ Store(p, d, v)
      /\ Again(p, "attempt") /\ UNCHANGED <<status, range, found, holder, inserting, ghost>>
  BY DEF BackfillTransient, DateSteps, TrySteps
<1>2. /\ OthersOK /\ found \in [Dates -> Findings] /\ MaxAttempts \in Nat
      /\ me[p].try \in 1 .. MaxAttempts
  BY <1>1, AtDate
<1>3. Values(v) /\ "attempts" \notin DOMAIN v /\ "status" \notin DOMAIN v
  BY DEF Values, Columns
<1> HIDE DEF v
<1>4. OneRow(r, d) /\ Stored(r, d, v)
  BY <1>1, <1>3, StoredDate DEF ghost
<1>5. Safe => row'[r][d].status = "repairing" /\ row'[r][d].attempts = me[p].try
  BY <1>1, <1>3, <1>4 DEF Safe, Attempting, Solid, Repairing, Stored
<1>6. TryFrom(p, d, "attempt", me[p].try) /\ me[p].try \in 0 .. MaxAttempts
  BY <1>1, <1>2 DEF Again
<1>7. Only(p) /\ me'[p].run = r /\ Onward(p, r, d)
  BY <1>1, <1>5, <1>6, TryOnward
<1>8. Spent /\ ConfirmsOne(r, d)
  BY <1>1, <1>2, FailureSpent DEF ConfirmsOne, Confirms, ghost, OthersOK
<1> QED BY <1>1, <1>2, <1>4, <1>7, <1>8, DateStep

LEMMA BackfillFatalStep ==
    ASSUME Typed, NEW p \in Procs, BackfillFatal(p), NEW r, r = me[p].run, NEW d, d = me[p].date
    PROVE  Typed' /\ (Safe => Safe')
<1> DEFINE v == [status |-> "failed", backfill |-> "failed"]
<1>1. /\ me[p].pc = "child" /\ me[p].pc \in DateSteps
      /\ Spend("failures") /\ Store(p, d, v)
      /\ Enter(p, "abort", r) /\ UNCHANGED <<status, range, found, holder, inserting, ghost>>
  BY DEF BackfillFatal, DateSteps
<1>2. /\ OthersOK /\ me \in [Procs -> Locals] /\ r \in Runs /\ found \in [Dates -> Findings]
  BY <1>1, AtDate
<1>3. Values(v) /\ "attempts" \notin DOMAIN v /\ "status" \in DOMAIN v /\ v.status = "failed"
  BY DEF Values, Columns
<1> HIDE DEF v
<1>4. OneRow(r, d) /\ Stored(r, d, v)
  BY <1>1, <1>3, StoredDate DEF ghost
<1>5. row'[r][d].status = "failed"
  BY <1>3, <1>4 DEF Stored
<1>6. Only(p) /\ me'[p].pc = "abort" /\ me'[p].run = r /\ me'[p].left = {}
  BY <1>1, <1>2, EnterLocals DEF PCs, Executing
<1>7. Done(p, r, d)
  BY <1>5, <1>6 DEF Done, Backed
<1>8. Spent /\ ConfirmsOne(r, d)
  BY <1>1, <1>2, FailureSpent DEF ConfirmsOne, Confirms, ghost, OthersOK
<1> QED BY <1>1, <1>2, <1>4, <1>6, <1>7, <1>8, DateStep

LEMMA StoreBackfillStep ==
    ASSUME Typed, NEW p \in Procs, StoreBackfill(p), NEW r, r = me[p].run, NEW d, d = me[p].date
    PROVE  Typed' /\ (Safe => Safe')
<1> DEFINE v == [backfill |-> "succeeded"]
<1>1. /\ me[p].pc = "store" /\ me[p].pc \in DateSteps /\ Store(p, d, v) /\ Goto(p, "verify")
      /\ UNCHANGED <<status, range, found, holder, inserting, ghost, budget>>
  BY DEF StoreBackfill, DateSteps
<1>2. OthersOK /\ me \in [Procs -> Locals] /\ found \in [Dates -> Findings]
  BY <1>1, AtDate
<1>3. Values(v) /\ "attempts" \notin DOMAIN v /\ "status" \notin DOMAIN v
  BY DEF Values, Columns
<1> HIDE DEF v
<1>4. OneRow(r, d) /\ Stored(r, d, v)
  BY <1>1, <1>3, StoredDate DEF ghost
<1>5. Safe => row'[r][d].status = "repairing"
  BY <1>1, <1>3, <1>4 DEF Safe, Solid, Repairing, Stored
<1>6. /\ Only(p) /\ me'[p].pc = "verify" /\ me'[p].run = r /\ me'[p].left = me[p].left
      /\ me'[p].date = d
  BY <1>1, <1>2, GotoLocals DEF PCs, Executing, Guarded
<1>7. Onward(p, r, d)
  BY <1>5, <1>6 DEF Onward, DateSteps, TrySteps, Attempting
<1>8. Spent /\ ConfirmsOne(r, d)
  BY <1>1, <1>2, SameGhostOne DEF ghost
<1> QED BY <1>1, <1>2, <1>4, <1>6, <1>7, <1>8, DateStep

LEMMA VerifyStep ==
    ASSUME Typed, NEW p \in Procs, Verify(p), NEW r, r = me[p].run, NEW d, d = me[p].date
    PROVE  Typed' /\ (Safe => Safe')
<1>1. /\ me[p].pc = "verify" /\ me[p].pc \in DateSteps
      /\ UNCHANGED <<status, range, found, holder, inserting, started>>
  BY DEF Verify, DateSteps
<1>2. /\ OthersOK /\ me \in [Procs -> Locals] /\ r \in Runs /\ d \in Dates
      /\ found \in [Dates -> Findings] /\ found[d] \in Findings
  BY <1>1, AtDate
<1>3. PICK a \in Outcomes(d) :
          /\ AuditedDate(p, d, a)
          /\ Store(p, d, [checks |-> 1,
                          verify |-> IF Missing(a) THEN "failed" ELSE "succeeded",
                          status |-> IF Missing(a) THEN "failed" ELSE "complete"])
          /\ CASE Failed(a) -> Goto(p, "reread")
               [] Missing(a) -> Goto(p, "giveup")
               [] OTHER -> Repaired(p)
  BY DEF Verify
<1>4. a \in Answers
  BY <1>2 DEF Outcomes, Answers
<1>5. Spent /\ ConfirmsOne(r, d) /\ (d \in confirmed'[r] <=> ~Missing(a) /\ ~Failed(a))
  BY <1>2, <1>3, <1>4, AuditedDateOne
<1> DEFINE v == [checks |-> 1,
                 verify |-> IF Missing(a) THEN "failed" ELSE "succeeded",
                 status |-> IF Missing(a) THEN "failed" ELSE "complete"]
<1>6. Values(v) /\ "attempts" \notin DOMAIN v
  <2>1. 1 \in 0 .. MaxAttempts
    BY RepairAssumption
  <2> QED BY <2>1 DEF Values, Columns
<1>7. Store(p, d, v)
  BY <1>3
<1> HIDE DEF v
<1>8. OneRow(r, d)
  BY <1>1, <1>6, <1>7, StoredDate
<1>9. CASE Failed(a) \/ Missing(a)
  <2>1. PICK pc \in {"reread", "giveup"} : Goto(p, pc)
    BY <1>3, <1>9
  <2>2. /\ Only(p) /\ me'[p].pc = pc /\ me'[p].run = r /\ me'[p].left = me[p].left
        /\ me'[p].date = d
    BY <1>2, <2>1, GotoLocals DEF PCs, Executing, Guarded
  <2>3. Onward(p, r, d)
    BY <2>2 DEF Onward, DateSteps, TrySteps, Repairing, Attempting
  <2> QED BY <1>1, <1>2, <1>5, <1>8, <2>2, <2>3, DateStep
<1>10. CASE ~Failed(a) /\ ~Missing(a)
  <2>1. Repaired(p)
    BY <1>3, <1>10
  <2>2. Only(p) /\ me'[p].pc = "next" /\ me'[p].run = r /\ me'[p].left = me[p].left \ {d}
    BY <1>2, <2>1, RepairedLocals
  <2>3. Done(p, r, d)
    BY <1>5, <1>10, <2>2 DEF Done, Backed
  <2> QED BY <1>1, <1>2, <1>5, <1>8, <2>2, <2>3, DateStep
<1> QED BY <1>9, <1>10

LEMMA RereadStep ==
    ASSUME Typed, NEW p \in Procs, Reread(p), NEW r, r = me[p].run, NEW d, d = me[p].date
    PROVE  Typed' /\ (Safe => Safe')
<1> DEFINE n == row[r][d].checks
<1>1. /\ me[p].pc = "reread" /\ me[p].pc \in DateSteps /\ TryFrom(p, d, "recount", n)
      /\ UNCHANGED <<table, found, holder, inserting, ghost, budget>>
  BY DEF Reread, DateSteps
<1>2. OthersOK /\ found \in [Dates -> Findings] /\ row[r][d] \in DateRows
  BY <1>1, AtDate
<1>3. n \in 0 .. MaxAttempts
  BY <1>2 DEF DateRows
<1>4. Only(p) /\ me'[p].run = r /\ Onward(p, r, d)
  BY <1>1, <1>3, TryOnward
<1>5. Spent /\ ConfirmsOne(r, d) /\ OneRow(r, d)
  BY <1>1, <1>2, SameGhostOne, SameRow DEF ghost
<1> QED BY <1>1, <1>2, <1>4, <1>5, DateStep DEF table

LEMMA RecountStep ==
    ASSUME Typed, NEW p \in Procs, Recount(p), NEW r, r = me[p].run, NEW d, d = me[p].date
    PROVE  Typed' /\ (Safe => Safe')
<1> DEFINE n == me[p].try
           v == [status |-> "repairing", verify |-> "running", checks |-> n]
<1>1. /\ me[p].pc = "recount" /\ me[p].pc \in DateSteps /\ me[p].pc \in TrySteps
      /\ Store(p, d, v) /\ Goto(p, "recheck")
      /\ UNCHANGED <<status, range, found, holder, inserting, ghost, budget>>
  BY DEF Recount, DateSteps, TrySteps
<1>2. /\ OthersOK /\ me \in [Procs -> Locals] /\ found \in [Dates -> Findings]
      /\ MaxAttempts \in Nat /\ n \in 1 .. MaxAttempts
  BY <1>1, AtDate
<1>3. Values(v) /\ "attempts" \notin DOMAIN v /\ "status" \in DOMAIN v /\ v.status = "repairing"
  BY <1>2 DEF Values, Columns
<1> HIDE DEF v
<1>4. OneRow(r, d) /\ Stored(r, d, v)
  BY <1>1, <1>3, StoredDate DEF ghost
<1>5. row'[r][d].status = "repairing"
  BY <1>3, <1>4 DEF Stored
<1>6. /\ Only(p) /\ me'[p].pc = "recheck" /\ me'[p].run = r /\ me'[p].left = me[p].left
      /\ me'[p].date = d /\ me'[p].try = n
  BY <1>1, <1>2, GotoLocals DEF PCs, Executing, Guarded
<1>7. Onward(p, r, d)
  BY <1>2, <1>5, <1>6 DEF Onward, DateSteps, Attempting
<1>8. Spent /\ ConfirmsOne(r, d)
  BY <1>1, <1>2, SameGhostOne DEF ghost
<1> QED BY <1>1, <1>2, <1>4, <1>6, <1>7, <1>8, DateStep

LEMMA RecheckStep ==
    ASSUME Typed, NEW p \in Procs, Recheck(p), NEW r, r = me[p].run, NEW d, d = me[p].date
    PROVE  Typed' /\ (Safe => Safe')
<1>1. /\ me[p].pc = "recheck" /\ me[p].pc \in DateSteps /\ me[p].pc \in TrySteps
      /\ UNCHANGED <<status, range, found, holder, inserting, started>>
  BY DEF Recheck, DateSteps, TrySteps
<1>2. /\ OthersOK /\ me \in [Procs -> Locals] /\ r \in Runs /\ d \in Dates
      /\ found \in [Dates -> Findings] /\ found[d] \in Findings
      /\ MaxAttempts \in Nat /\ me[p].try \in 1 .. MaxAttempts
  BY <1>1, AtDate
<1>3. PICK a \in Outcomes(d) :
          /\ AuditedDate(p, d, a)
          /\ CASE Failed(a) ->
                    /\ Store(p, d, [verify |-> "failed"])
                    /\ IF a = "audit_failed" THEN Goto(p, "giveup") ELSE Again(p, "recount")
               [] Missing(a) ->
                    /\ Store(p, d, [status |-> "failed", verify |-> "failed"])
                    /\ Goto(p, "giveup")
               [] OTHER ->
                    /\ Store(p, d, [status |-> "complete", verify |-> "succeeded"])
                    /\ Repaired(p)
  BY DEF Recheck
<1>4. a \in Answers
  BY <1>2 DEF Outcomes, Answers
<1>5. Spent /\ ConfirmsOne(r, d) /\ (d \in confirmed'[r] <=> ~Missing(a) /\ ~Failed(a))
  BY <1>2, <1>3, <1>4, AuditedDateOne
<1>6. ASSUME NEW v, Values(v), "attempts" \notin DOMAIN v, Store(p, d, v) PROVE OneRow(r, d)
  BY <1>1, <1>6, StoredDate
<1>7. ASSUME Goto(p, "giveup") PROVE Only(p) /\ me'[p].run = r /\ Onward(p, r, d)
  <2>1. /\ Only(p) /\ me'[p].pc = "giveup" /\ me'[p].run = r /\ me'[p].left = me[p].left
        /\ me'[p].date = d
    BY <1>2, <1>7, GotoLocals DEF PCs, Executing, Guarded
  <2> QED BY <2>1 DEF Onward, DateSteps, TrySteps, Repairing, Attempting
<1>8. CASE Failed(a)
  <2> DEFINE v == [verify |-> "failed"]
  <2>1. Values(v) /\ "attempts" \notin DOMAIN v
    BY DEF Values, Columns
  <2>2. OneRow(r, d)
    <3>1. Store(p, d, v)
      <4>1. ~Missing(a)
        BY <1>8 DEF Failed, Failures, Missing
      <4> QED BY <1>3, <1>8, <4>1
    <3> HIDE DEF v
    <3> QED BY <1>6, <2>1, <3>1
  <2>3. Only(p) /\ me'[p].run = r /\ Onward(p, r, d)
    <3>1. CASE Goto(p, "giveup")
      BY <1>7, <3>1
    <3>2. CASE Again(p, "recount")
      <4>1. TryFrom(p, d, "recount", me[p].try) /\ me[p].try \in 0 .. MaxAttempts
        BY <1>2, <3>2 DEF Again
      <4> QED BY <1>1, <4>1, TryOnward
    <3> QED BY <1>3, <1>8, <3>1, <3>2
  <2> QED BY <1>1, <1>2, <1>5, <2>2, <2>3, DateStep
<1>9. CASE ~Failed(a) /\ Missing(a)
  <2> DEFINE v == [status |-> "failed", verify |-> "failed"]
  <2>1. Values(v) /\ "attempts" \notin DOMAIN v
    BY DEF Values, Columns
  <2>2. Store(p, d, v) /\ Goto(p, "giveup")
    BY <1>3, <1>9
  <2> HIDE DEF v
  <2>3. OneRow(r, d) /\ Only(p) /\ me'[p].run = r /\ Onward(p, r, d)
    BY <1>6, <1>7, <2>1, <2>2
  <2> QED BY <1>1, <1>2, <1>5, <2>3, DateStep
<1>10. CASE ~Failed(a) /\ ~Missing(a)
  <2> DEFINE v == [status |-> "complete", verify |-> "succeeded"]
  <2>1. Values(v) /\ "attempts" \notin DOMAIN v
    BY DEF Values, Columns
  <2>2. Store(p, d, v) /\ Repaired(p)
    BY <1>3, <1>10
  <2> HIDE DEF v
  <2>3. OneRow(r, d)
    BY <1>6, <2>1, <2>2
  <2>4. Only(p) /\ me'[p].pc = "next" /\ me'[p].run = r /\ me'[p].left = me[p].left \ {d}
    BY <1>2, <2>2, RepairedLocals
  <2>5. Done(p, r, d)
    BY <1>5, <1>10, <2>4 DEF Done, Backed
  <2> QED BY <1>1, <1>2, <1>5, <2>3, <2>4, <2>5, DateStep
<1> QED BY <1>8, <1>9, <1>10

LEMMA GiveUpStep ==
    ASSUME Typed, NEW p \in Procs, GiveUp(p), NEW r, r = me[p].run, NEW d, d = me[p].date
    PROVE  Typed' /\ (Safe => Safe')
<1> DEFINE v == [status |-> "failed"]
<1>1. /\ me[p].pc = "giveup" /\ me[p].pc \in DateSteps /\ Store(p, d, v) /\ Repaired(p)
      /\ UNCHANGED <<status, range, found, holder, inserting, ghost, budget>>
  BY DEF GiveUp, DateSteps
<1>2. OthersOK /\ me \in [Procs -> Locals] /\ found \in [Dates -> Findings]
  BY <1>1, AtDate
<1>3. Values(v) /\ "attempts" \notin DOMAIN v /\ "status" \in DOMAIN v /\ v.status = "failed"
  BY DEF Values, Columns
<1> HIDE DEF v
<1>4. OneRow(r, d) /\ Stored(r, d, v)
  BY <1>1, <1>3, StoredDate DEF ghost
<1>5. row'[r][d].status = "failed"
  BY <1>3, <1>4 DEF Stored
<1>6. Only(p) /\ me'[p].pc = "next" /\ me'[p].run = r /\ me'[p].left = me[p].left \ {d}
  BY <1>1, <1>2, RepairedLocals
<1>7. Done(p, r, d)
  BY <1>5, <1>6 DEF Done, Backed
<1>8. Spent /\ ConfirmsOne(r, d)
  BY <1>1, <1>2, SameGhostOne DEF ghost
<1> QED BY <1>1, <1>2, <1>4, <1>6, <1>7, <1>8, DateStep

-----------------------------------------------------------------------------
(* The audits of a run, and the dates between them.                        *)

LEMMA InitialAuditStep ==
    ASSUME Typed, NEW p \in Procs, InitialAudit(p), NEW r, r = me[p].run
    PROVE  Typed' /\ (Safe => Safe')
<1>1. /\ me[p].pc = "audit" /\ me[p].pc \in Guarded
      /\ UNCHANGED <<table, found, holder, inserting, started>>
  BY DEF InitialAudit, Guarded
<1>2. /\ OthersOK /\ me \in [Procs -> Locals] /\ me[p] \in Locals /\ Known(r) /\ r \in Runs
      /\ DatesOf(r) \subseteq Dates /\ DatesOf(r) # {}
  BY <1>1, InRun
<1>3. PICK a \in RangeAudits(r) :
          /\ Audited(p, a)
          /\ me' = [me EXCEPT ![p].pc = "record", ![p].audit = a, ![p].left = DOMAIN a]
  BY DEF InitialAudit
<1>4. a \in [DatesOf(r) -> Answers] /\ DOMAIN a = DatesOf(r)
  BY DEF RangeAudits, Answers
<1>5. /\ Confirms(r) /\ Spent
      /\ \A x \in Dates : x \in confirmed'[r] <=>
             IF x \in DatesOf(r) THEN ~Missing(a[x]) /\ ~Failed(a[x]) ELSE x \in confirmed[r]
  BY <1>2, <1>3, <1>4, AuditedRun
<1> DEFINE l == [me[p] EXCEPT !.pc = "record", !.audit = a, !.left = DatesOf(r)]
<1>6. /\ l \in Locals /\ l.pc = "record" /\ l.run = r /\ l.audit = a /\ l.left = DatesOf(r)
      /\ l.seen = me[p].seen
  <2>1. a \in Audits
    BY <1>2, <1>4 DEF Audits
  <2> QED BY <1>2, <2>1 DEF Locals, PCs, Executing, Guarded
<1>7. me' = [me EXCEPT ![p] = l]
  BY <1>3, <1>4
<1> HIDE DEF l
<1>8. Only(p) /\ me'[p] = l
  BY <1>2, <1>6, <1>7 DEF Only
<1>9. DatesOf(r)' = DatesOf(r) /\ Known(r)'
  BY <1>1, <1>2 DEF DatesOf, Known, table
<1>10. Placed(p)'
  BY <1>1, <1>2, <1>4, <1>6, <1>8, <1>9 DEF Typed, Placed, DateSteps, TrySteps
<1>11. \A x \in DatesOf(r) : Covered(a[x]) => x \in confirmed'[r]
  BY <1>2, <1>5 DEF Covered, Missing, Failed, Failures
<1>12. Attempting(p)' /\ Solid(p)'
  BY <1>6, <1>8, <1>9, <1>11 DEF Attempting, Solid, DateSteps, Repairing
<1> QED BY <1>1, <1>2, <1>5, <1>6, <1>8, <1>10, <1>12, CalmStep DEF OthersOK, Guarded

LEMMA FinalAuditStep ==
    ASSUME Typed, NEW p \in Procs, FinalAudit(p), NEW r, r = me[p].run
    PROVE  Typed' /\ (Safe => Safe')
<1>1. /\ me[p].pc = "final" /\ me[p].pc \in Guarded
      /\ UNCHANGED <<table, found, holder, inserting, started>>
  BY DEF FinalAudit, Guarded
<1>2. /\ OthersOK /\ me \in [Procs -> Locals] /\ me[p] \in Locals /\ Known(r) /\ r \in Runs
      /\ DatesOf(r) \subseteq Dates /\ DatesOf(r) # {}
  BY <1>1, InRun
<1>3. PICK a \in RangeAudits(r) :
          /\ Audited(p, a)
          /\ me' = [me EXCEPT ![p].pc = "refinal", ![p].audit = a, ![p].left = DOMAIN a]
  BY DEF FinalAudit
<1>4. a \in [DatesOf(r) -> Answers] /\ DOMAIN a = DatesOf(r)
  BY DEF RangeAudits, Answers
<1>5. /\ Confirms(r) /\ Spent
      /\ \A x \in Dates : x \in confirmed'[r] <=>
             IF x \in DatesOf(r) THEN ~Missing(a[x]) /\ ~Failed(a[x]) ELSE x \in confirmed[r]
  BY <1>2, <1>3, <1>4, AuditedRun
<1> DEFINE l == [me[p] EXCEPT !.pc = "refinal", !.audit = a, !.left = DatesOf(r)]
<1>6. /\ l \in Locals /\ l.pc = "refinal" /\ l.run = r /\ l.audit = a /\ l.left = DatesOf(r)
      /\ l.seen = me[p].seen
  <2>1. a \in Audits
    BY <1>2, <1>4 DEF Audits
  <2> QED BY <1>2, <2>1 DEF Locals, PCs, Executing, Guarded
<1>7. me' = [me EXCEPT ![p] = l]
  BY <1>3, <1>4
<1> HIDE DEF l
<1>8. Only(p) /\ me'[p] = l
  BY <1>2, <1>6, <1>7 DEF Only
<1>9. DatesOf(r)' = DatesOf(r) /\ Known(r)'
  BY <1>1, <1>2 DEF DatesOf, Known, table
<1>10. Placed(p)'
  BY <1>1, <1>2, <1>4, <1>6, <1>8, <1>9 DEF Typed, Placed, DateSteps, TrySteps
<1>11. \A x \in DatesOf(r) : Covered(a[x]) => x \in confirmed'[r]
  BY <1>2, <1>5 DEF Covered, Missing, Failed, Failures
<1>12. Attempting(p)' /\ Solid(p)'
  BY <1>6, <1>8, <1>9, <1>11 DEF Attempting, Solid, DateSteps, Repairing
<1> QED BY <1>1, <1>2, <1>5, <1>6, <1>8, <1>10, <1>12, CalmStep DEF OthersOK, Guarded

\* The least of the dates that are left.
LEMMA LeastLeft ==
    ASSUME Typed, NEW p \in Procs, me[p].pc \in Guarded, me[p].left # {}
    PROVE  Min(me[p].left) \in me[p].left /\ Min(me[p].left) \in DatesOf(me[p].run)
<1>1. me[p].left \subseteq DatesOf(me[p].run) /\ DatesOf(me[p].run) \subseteq Dates
  BY InRun
<1>2. Min(me[p].left) \in me[p].left
  BY <1>1, Constants, MinOf
<1> QED BY <1>1, <1>2

LEMMA InitialValuesOK ==
    ASSUME NEW a, NEW old \in DateRows
    PROVE  /\ Values(InitialValues(a, old)) /\ "attempts" \notin DOMAIN InitialValues(a, old)
           /\ "status" \in DOMAIN InitialValues(a, old)
           /\ InitialValues(a, old).status = "complete" => Covered(a)
<1>1. CASE ~Covered(a)
  <2> DEFINE v == [status |-> "audited"]
  <2>1. InitialValues(a, old) = v
    BY <1>1 DEF InitialValues
  <2>2. /\ Values(v) /\ "attempts" \notin DOMAIN v /\ "status" \in DOMAIN v
        /\ v.status = "audited"
    BY DEF Values, Columns
  <2> HIDE DEF v
  <2> QED BY <2>1, <2>2
<1>2. CASE Covered(a)
  <2> DEFINE b == CASE old.backfill = "pending" -> "skipped"
                    [] old.backfill \in {"running", "failed"} -> "succeeded"
                    [] OTHER -> old.backfill
             w == IF b = "skipped" THEN "skipped"
                  ELSE IF old.verify = "skipped" THEN old.verify ELSE "succeeded"
             v == [status |-> "complete", backfill |-> b, verify |-> w]
  <2>1. InitialValues(a, old) = v
    BY <1>2 DEF InitialValues
  <2>2. b \in {"pending", "running", "succeeded", "failed", "skipped"}
    <3>1. old.backfill \in {"pending", "running", "succeeded", "failed", "skipped"}
      BY DEF DateRows
    <3> QED BY <3>1
  <2> HIDE DEF b
  <2>3. w \in {"skipped", "succeeded"}
    OBVIOUS
  <2> HIDE DEF w
  <2>4. Values(v) /\ "attempts" \notin DOMAIN v /\ "status" \in DOMAIN v
    BY <2>2, <2>3 DEF Values, Columns
  <2> HIDE DEF v
  <2> QED BY <1>2, <2>1, <2>4
<1> QED BY <1>1, <1>2

LEMMA RecordInitialStep ==
    ASSUME Typed, NEW p \in Procs, RecordInitial(p), NEW r, r = me[p].run,
           NEW d, d = Min(me[p].left)
    PROVE  Typed' /\ (Safe => Safe')
<1>1. /\ me[p].pc = "record" /\ me[p].pc \in Guarded
      /\ UNCHANGED <<status, range, found, holder, inserting, ghost, budget>>
  BY DEF RecordInitial, Guarded
<1>2. /\ TablesOK /\ OthersOK /\ me \in [Procs -> Locals] /\ me[p] \in Locals /\ Known(r)
      /\ r \in Runs /\ DatesOf(r) \subseteq Dates /\ me[p].left \subseteq DatesOf(r)
  BY <1>1, InRun
<1>3. /\ me[p].left # {} /\ me[p].audit \in [DatesOf(r) -> Answers]
      /\ me[p].seen \in [Dates -> DateRows \cup {None}]
      /\ \A x \in DatesOf(r) : me[p].seen[x] # None
  BY <1>1 DEF Typed, Placed
<1>4. d \in me[p].left /\ d \in DatesOf(r)
  BY <1>1, <1>3, LeastLeft
<1> DEFINE a == me[p].audit
           v == InitialValues(me[p].audit[d], me[p].seen[d])
<1>5. me[p].seen[d] \in DateRows
  BY <1>2, <1>3, <1>4
<1>6. /\ Values(v) /\ "attempts" \notin DOMAIN v /\ "status" \in DOMAIN v
      /\ v.status = "complete" => Covered(me[p].audit[d])
  BY <1>5, InitialValuesOK
<1>7. Store(p, d, v)
  BY DEF RecordInitial
<1> HIDE DEF v
<1>8. Stored(r, d, v)
  BY <1>2, <1>4, <1>6, <1>7, StoreRow
<1>9. Spent /\ Confirms(r)
  BY <1>1, <1>2, SameGhost DEF ghost
<1>10. ASSUME Safe
       PROVE  /\ \A x \in DatesOf(r) : Covered(me[p].audit[x]) => x \in confirmed'[r]
              /\ \A x \in (DatesOf(r) \ me[p].left) \cup {d} : Backed(r, x)'
  <2>1. /\ \A x \in DatesOf(r) : Covered(me[p].audit[x]) => x \in confirmed[r]
        /\ \A x \in DatesOf(r) \ me[p].left : Backed(r, x)
    BY <1>1, <1>10 DEF Safe, Solid
  <2>2. Backed(r, d)'
    BY <1>1, <1>4, <1>6, <1>8, <2>1 DEF Backed, Stored, ghost
  <2>3. ASSUME NEW x \in DatesOf(r) \ me[p].left PROVE Backed(r, x)'
    BY <1>1, <1>2, <1>4, <1>8, <2>1 DEF Backed, Stored, ghost
  <2> QED BY <1>1, <2>1, <2>2, <2>3 DEF ghost
<1>11. DatesOf(r)' = DatesOf(r) /\ Known(r)'
  BY <1>1, <1>2 DEF DatesOf, Known
<1>12. CASE me[p].left = {d}
  <2>1. AfterAudit(p)
    BY <1>12 DEF RecordInitial
  <2>2. /\ Only(p) /\ me'[p].pc \in {"next", "abort"} /\ me'[p].run = r
        /\ me'[p].left \subseteq DatesOf(r)
    <3>1. CASE Enter(p, "abort", r)
      <4>1. Only(p) /\ me'[p].pc = "abort" /\ me'[p].run = r /\ me'[p].left = {}
        BY <1>2, <3>1, EnterLocals DEF PCs, Executing
      <4> QED BY <4>1
    <3>2. CASE ~Enter(p, "abort", r)
      <4> DEFINE gaps == {x \in DOMAIN a : Missing(a[x])}
                 l == [Idle EXCEPT !.pc = "next", !.run = r, !.left = gaps]
      <4>1. me' = [me EXCEPT ![p] = l]
        BY <2>1, <3>2 DEF AfterAudit
      <4>2. gaps \subseteq DatesOf(r) /\ gaps \subseteq Dates
        BY <1>2, <1>3
      <4> HIDE DEF gaps
      <4>3. l \in Locals /\ l.pc = "next" /\ l.run = r /\ l.left = gaps
        BY <1>2, <4>2, IdleType DEF Locals, PCs, Executing, Guarded, Idle
      <4> HIDE DEF l
      <4>4. Only(p) /\ me'[p] = l
        BY <1>2, <4>1, <4>3 DEF Only
      <4> QED BY <4>2, <4>3, <4>4
    <3> QED BY <3>1, <3>2
  <2>3. Placed(p)'
    BY <1>1, <1>2, <2>2, PlacedBetween
  <2>4. Safe => Attempting(p)' /\ Solid(p)'
    BY <1>1, <1>10, <1>12, <2>2, SolidBetween
  <2>5. me'[p].pc \in Guarded \cup {"abort"}
    BY <2>2 DEF Guarded
  <2> QED BY <1>1, <1>4, <1>6, <1>7, <1>9, <2>2, <2>3, <2>4, <2>5, StoreStep DEF ghost
<1>13. CASE me[p].left # {d}
  <2> DEFINE l == [me[p] EXCEPT !.left = me[p].left \ {d}]
  <2>1. me' = [me EXCEPT ![p] = l]
    BY <1>13 DEF RecordInitial
  <2>2. /\ l \in Locals /\ l.pc = "record" /\ l.run = r /\ l.left = me[p].left \ {d}
        /\ l.audit = me[p].audit
    BY <1>1, <1>2 DEF Locals
  <2> HIDE DEF l
  <2>3. Only(p) /\ me'[p] = l
    BY <1>2, <2>1, <2>2 DEF Only
  <2>4. me'[p].left # {} /\ me'[p].left \subseteq DatesOf(r)
    BY <1>2, <1>3, <1>4, <1>13, <2>2, <2>3
  <2>5. Placed(p)'
    <3>1. me'[p].seen = me[p].seen
      BY <1>2, <2>1, <2>3 DEF l, Locals
    <3> QED BY <1>3, <1>11, <2>2, <2>3, <2>4, <3>1 DEF Placed, DateSteps, TrySteps
  <2>6. ASSUME Safe PROVE Attempting(p)' /\ Solid(p)'
    <3>1. \A x \in DatesOf(r) \ me'[p].left : Backed(r, x)'
      BY <1>10, <2>2, <2>3, <2>6
    <3> QED BY <1>10, <1>11, <2>2, <2>3, <2>6, <3>1
            DEF Attempting, Solid, DateSteps, Repairing
  <2> QED BY <1>1, <1>4, <1>6, <1>7, <1>9, <2>2, <2>3, <2>5, <2>6, StoreStep DEF ghost
<1> QED BY <1>12, <1>13

LEMMA NextDateStep ==
    ASSUME Typed, NEW p \in Procs, NextDate(p), NEW r, r = me[p].run, NEW d, d = Min(me[p].left)
    PROVE  Typed' /\ (Safe => Safe')
<1>1. /\ me[p].pc = "next" /\ me[p].pc \in Guarded
      /\ UNCHANGED <<table, found, holder, inserting, ghost, budget>>
  BY DEF NextDate, Guarded
<1>2. /\ TablesOK /\ OthersOK /\ me \in [Procs -> Locals] /\ me[p] \in Locals /\ Known(r)
      /\ r \in Runs /\ DatesOf(r) \subseteq Dates /\ me[p].left \subseteq DatesOf(r)
      /\ \A x \in DatesOf(r) : row[r][x] \in DateRows
  BY <1>1, InRun
<1>3. Spent /\ Confirms(r) /\ found' \in [Dates -> Findings]
  BY <1>1, <1>2, SameGhost DEF ghost, OthersOK
<1>4. ASSUME Safe PROVE \A x \in DatesOf(r) : Backed(r, x)'
  BY <1>1, <1>4 DEF Safe, Solid, Backed, table, ghost
<1>5. UNCHANGED <<status, range, started>>
  BY <1>1 DEF table, ghost
<1>6. CASE me[p].left = {}
  <2>1. Goto(p, "final")
    BY <1>6 DEF NextDate
  <2>2. Only(p) /\ me'[p].pc = "final" /\ me'[p].run = r /\ me'[p].left = me[p].left
    BY <1>2, <2>1, GotoLocals DEF PCs, Executing, Guarded
  <2>3. Placed(p)'
    BY <1>2, <1>5, <2>2, PlacedBetween
  <2>4. Safe => Attempting(p)' /\ Solid(p)'
    BY <1>4, <1>5, <2>2, SolidBetween
  <2> QED BY <1>1, <1>3, <1>5, <2>2, <2>3, <2>4, CalmStep DEF Guarded
<1>7. CASE me[p].left # {}
  <2>1. d \in me[p].left /\ d \in DatesOf(r) /\ d \in Dates
    BY <1>1, <1>2, <1>7, LeastLeft
  <2>2. CASE IsBackfilled(row[r][d])
    <3> DEFINE l == [me[p] EXCEPT !.pc = "reread", !.date = d]
    <3>1. me' = [me EXCEPT ![p] = l]
      BY <1>7, <2>2 DEF NextDate
    <3>2. /\ l \in Locals /\ l.pc = "reread" /\ l.run = r /\ l.left = me[p].left
          /\ l.date = d
      BY <1>2, <2>1 DEF Locals, PCs, Executing, Guarded
    <3> HIDE DEF l
    <3>3. Only(p) /\ me'[p] = l
      BY <1>2, <3>1, <3>2 DEF Only
    <3>4. Placed(p)'
      BY <1>2, <1>5, <2>1, <3>2, <3>3, PlacedAtDate DEF DateSteps, TrySteps
    <3>5. Safe => Attempting(p)' /\ Solid(p)'
      <4>1. Attempting(p)'
        BY <3>2, <3>3 DEF Attempting
      <4> QED BY <1>4, <1>5, <3>2, <3>3, <4>1, SolidAtDate DEF DateSteps, Repairing
    <3> QED BY <1>1, <1>3, <1>5, <3>2, <3>3, <3>4, <3>5, CalmStep DEF Guarded
  <2>3. CASE ~IsBackfilled(row[r][d])
    <3> DEFINE n == row[r][d].attempts
    <3>1. TryFrom(p, d, "attempt", n)
      BY <1>7, <2>3 DEF NextDate, ResumeFrom
    <3>2. n \in 0 .. MaxAttempts
      BY <1>2, <2>1 DEF DateRows
    <3>3. /\ Only(p) /\ me'[p].pc = (IF n < MaxAttempts THEN "attempt" ELSE "giveup")
          /\ me'[p].run = r /\ me'[p].left = me[p].left
          /\ me'[p].date = d /\ me'[p].try = n + 1
      <4> HIDE DEF n
      <4>1. "attempt" \in PCs
        BY DEF PCs, Executing, Guarded
      <4> QED BY <1>1, <1>2, <2>1, <3>1, <3>2, <4>1, TryLocals
    <3>4. me'[p].pc \in TrySteps => me'[p].try \in 1 .. MaxAttempts
      BY <3>2, <3>3, Constants DEF TrySteps
    <3>5. me'[p].pc \in DateSteps /\ me'[p].pc \notin Repairing /\ me'[p].pc \in Guarded
      BY <3>3 DEF DateSteps, Repairing, Guarded
    <3>6. Placed(p)'
      BY <1>2, <1>5, <2>1, <3>3, <3>4, <3>5, PlacedAtDate
    <3>7. Attempting(p)'
      BY <1>1, <3>2, <3>3 DEF Attempting, table
    <3>8. Safe => Solid(p)'
      BY <1>4, <1>5, <2>1, <3>3, <3>5, SolidAtDate
    <3> QED BY <1>1, <1>3, <1>5, <3>3, <3>5, <3>6, <3>7, <3>8, CalmStep
  <2> QED BY <2>2, <2>3
<1> QED BY <1>6, <1>7

LEMMA RecordFinalStep ==
    ASSUME Typed, NEW p \in Procs, RecordFinal(p), NEW r, r = me[p].run,
           NEW d, d = Min(me[p].left)
    PROVE  Typed' /\ (Safe => Safe')
<1> DEFINE v == [status |-> FinalStatus(me[p].audit[d])]
           l == [me[p] EXCEPT !.left = me[p].left \ {d},
                              !.pc = IF me[p].left = {d} THEN "verdict" ELSE me[p].pc]
<1>1. /\ me[p].pc = "refinal" /\ me[p].pc \in Guarded /\ Store(p, d, v)
      /\ me' = [me EXCEPT ![p] = l]
      /\ UNCHANGED <<status, range, found, holder, inserting, ghost, budget>>
  BY DEF RecordFinal, Guarded
<1>2. /\ TablesOK /\ OthersOK /\ me \in [Procs -> Locals] /\ me[p] \in Locals /\ Known(r)
      /\ r \in Runs /\ DatesOf(r) \subseteq Dates /\ me[p].left \subseteq DatesOf(r)
  BY <1>1, InRun
<1>3. me[p].left # {} /\ me[p].audit \in [DatesOf(r) -> Answers]
  BY <1>1 DEF Typed, Placed
<1>4. d \in me[p].left /\ d \in DatesOf(r)
  BY <1>1, <1>3, LeastLeft
<1>5. /\ Values(v) /\ "attempts" \notin DOMAIN v /\ "status" \in DOMAIN v
      /\ v.status = FinalStatus(me[p].audit[d])
  <2>1. FinalStatus(me[p].audit[d]) \in {"complete", "failed"}
    BY DEF FinalStatus
  <2> QED BY <2>1 DEF Values, Columns
<1> HIDE DEF v
<1>6. Stored(r, d, v)
  BY <1>1, <1>2, <1>4, <1>5, StoreRow
<1>7. Spent /\ Confirms(r)
  BY <1>1, <1>2, SameGhost DEF ghost
<1>8. /\ l \in Locals /\ l.run = r /\ l.audit = me[p].audit /\ l.left = me[p].left \ {d}
      /\ l.pc = IF me[p].left = {d} THEN "verdict" ELSE "refinal"
  BY <1>1, <1>2 DEF Locals, PCs, Executing, Guarded
<1> HIDE DEF l
<1>9. Only(p) /\ me'[p] = l
  BY <1>1, <1>2, <1>8 DEF Only
<1>10. me'[p].pc \in {"refinal", "verdict"} /\ me'[p].pc \in Guarded
  BY <1>8, <1>9 DEF Guarded
<1>11. DatesOf(r)' = DatesOf(r) /\ Known(r)'
  BY <1>1, <1>2 DEF DatesOf, Known
<1>12. Placed(p)'
  BY <1>2, <1>3, <1>4, <1>8, <1>9, <1>10, <1>11 DEF Placed, DateSteps, TrySteps
<1>13. ASSUME Safe PROVE Attempting(p)' /\ Solid(p)'
  <2>1. /\ \A x \in DatesOf(r) : Covered(me[p].audit[x]) => x \in confirmed'[r]
        /\ \A x \in DatesOf(r) \ me[p].left : row[r][x].status = FinalStatus(me[p].audit[x])
    BY <1>1, <1>13 DEF Safe, Solid, ghost
  <2>2. \A x \in DatesOf(r) \ me'[p].left : row'[r][x].status = FinalStatus(me[p].audit[x])
    <3>1. row'[r][d].status = FinalStatus(me[p].audit[d])
      BY <1>5, <1>6 DEF Stored
    <3>2. ASSUME NEW x \in DatesOf(r) \ me[p].left PROVE row'[r][x] = row[r][x]
      BY <1>2, <1>4, <1>6 DEF Stored
    <3> QED BY <1>8, <1>9, <2>1, <3>1, <3>2
  <2> QED BY <1>8, <1>9, <1>10, <1>11, <2>1, <2>2 DEF Attempting, Solid, DateSteps, Repairing
<1> QED BY <1>1, <1>4, <1>5, <1>7, <1>8, <1>9, <1>10, <1>12, <1>13, StoreStep DEF ghost

-----------------------------------------------------------------------------
(* The invariant, and what follows from it.                                *)

LEMMA AdvanceStep ==
    ASSUME Typed, NEW p \in Procs, Advance(p)
    PROVE  Typed' /\ (Safe => Safe')
<1>1. CASE Start(p)
  BY <1>1, StartStep
<1>2. CASE InitialAudit(p) \/ RecordInitial(p) \/ FinalAudit(p) \/ RecordFinal(p) \/ NextDate(p)
  BY <1>2, InitialAuditStep, RecordInitialStep, FinalAuditStep, RecordFinalStep, NextDateStep
<1>3. CASE Attempt(p) \/ Probe(p)
  BY <1>3, AttemptStep, ProbeStep
<1>4. CASE RunBackfill(p) \/ BackfillDone(p) \/ BackfillTransient(p) \/ BackfillFatal(p)
  BY <1>4, RunBackfillStep, BackfillDoneStep, BackfillTransientStep, BackfillFatalStep
<1>5. CASE StoreBackfill(p) \/ Verify(p) \/ GiveUp(p)
  BY <1>5, StoreBackfillStep, VerifyStep, GiveUpStep
<1>6. CASE Reread(p) \/ Recount(p) \/ Recheck(p)
  BY <1>6, RereadStep, RecountStep, RecheckStep
<1>7. CASE Verdict(p) \/ Abort(p)
  BY <1>7, VerdictStep, AbortStep
<1> QED BY <1>1, <1>2, <1>3, <1>4, <1>5, <1>6, <1>7 DEF Advance

\* A lock that was lost stays lost.
LEMMA LossStays ==
    ASSUME Typed, Next
    PROVE  Intact' => Intact
<1>1. SUFFICES ASSUME NEW e \in Events, Spend(e) PROVE Intact' => Intact
  <2>1. ASSUME NEW p, Advance(p) PROVE UNCHANGED budget \/ Spend("failures")
    <3>1. CASE InitialAudit(p) \/ FinalAudit(p) \/ Probe(p) \/ Verify(p) \/ Recheck(p)
      BY <3>1 DEF InitialAudit, FinalAudit, Probe, Verify, Recheck, AuditedDate, Audited
    <3>2. CASE BackfillTransient(p) \/ BackfillFatal(p)
      BY <3>2 DEF BackfillTransient, BackfillFatal
    <3>3. CASE Start(p) \/ RecordInitial(p) \/ NextDate(p) \/ RecordFinal(p) \/ Verdict(p)
                 \/ Abort(p)
      BY <3>3 DEF Start, RecordInitial, NextDate, RecordFinal, Verdict, Abort
    <3>4. CASE Attempt(p) \/ RunBackfill(p) \/ BackfillDone(p) \/ StoreBackfill(p) \/ Reread(p)
                 \/ Recount(p) \/ GiveUp(p)
      BY <3>4 DEF Attempt, RunBackfill, BackfillDone, StoreBackfill, Reread, Recount, GiveUp
    <3> QED BY <2>1, <3>1, <3>2, <3>3, <3>4 DEF Advance
  <2>2. UNCHANGED budget \/ \E e \in Events : Spend(e)
    BY <2>1, EventsType
       DEF Next, Operator, InsertRun, Background, Foreground, Enqueue, Loop, AcquireLock, Claim,
           Raise, Crash, LoseSession, News
  <2> QED BY <1>1, <2>2 DEF Intact
<1>2. budget' \in [Events -> Nat] /\ (budget'.losses = budget.losses \/ budget'.losses # 0)
  BY <1>1, SpentOn DEF Typed
<1> QED BY <1>2 DEF Intact

LEMMA InvStep ==
    ASSUME RepairInv, [Next]_vars
    PROVE  RepairInv'
<1>1. CASE UNCHANGED vars
  <2>1. UNCHANGED <<table, found, holder, inserting, me, ghost, budget>>
    BY <1>1 DEF vars
  <2>2. Typed'
    BY <2>1, TypedAround DEF RepairInv, Typed, OthersOK, ghost
  <2>3. Safe => Safe'
    BY <2>1, Untouched DEF Safe, Solo, Running, table
  <2> QED BY <2>1, <2>2, <2>3 DEF RepairInv, Intact
<1>2. CASE Next
  <2>1. Typed /\ (Intact' => Safe)
    BY <1>2, LossStays DEF RepairInv
  <2>2. CASE LoseSession
    BY <2>1, <2>2, LoseSessionStep DEF RepairInv
  <2>3. CASE \E p \in Launchers : Operator(p) \/ \E g \in Ranges : Enqueue(p, g)
    BY <2>1, <2>3, EnqueueStep, InsertRunStep, BackgroundStep, ForegroundStep
       DEF RepairInv, Operator
  <2>4. CASE \E w \in Workers : Loop(w)
    BY <2>1, <2>4, AcquireLockStep, ClaimStep DEF RepairInv, Loop
  <2>5. CASE \E p \in Procs : Advance(p) \/ Raise(p) \/ Crash(p)
    BY <2>1, <2>5, AdvanceStep, RaiseStep, CrashStep DEF RepairInv
  <2>6. CASE News
    BY <2>1, <2>6, NewsStep DEF RepairInv
  <2> QED BY <1>2, <2>2, <2>3, <2>4, <2>5, <2>6 DEF Next
<1> QED BY <1>1, <1>2

LEMMA InvInit == Init => RepairInv
<1> SUFFICES ASSUME Init PROVE RepairInv
  OBVIOUS
<1>1. TablesOK
  BY Constants DEF Init, TablesOK, Active
<1>2. OthersOK
  <2>1. budget \in [Events -> Nat] /\ \A e \in Events : budget[e] <= Limit[e]
    BY EventsType DEF Init
  <2>2. found \in [Dates -> Findings]
    BY DEF Init, Findings
  <2> QED BY <2>1, <2>2 DEF Init, OthersOK
<1>3. me \in [Procs -> Locals] /\ \A p \in Procs : me[p].pc = "idle"
  BY IdleType DEF Init, Idle
<1>4. \A p \in Procs : Placed(p) /\ Attempting(p) /\ Solid(p)
  BY <1>3 DEF Placed, Attempting, Solid, Executing, Guarded, DateSteps, TrySteps, Repairing
<1>5. Solo /\ Running /\ Counted /\ Settled
  BY <1>3 DEF Init, Solo, Running, Counted, Settled, Executing, Guarded
<1> QED BY <1>1, <1>2, <1>3, <1>4, <1>5 DEF RepairInv, Typed, Safe

THEOREM RepairInvariant == Spec => []RepairInv
  BY InvInit, InvStep, PTL DEF Spec

\* The tables and the variables of every process have their types.
THEOREM RepairTypes == Spec => []TypeOK
<1>1. ASSUME RepairInv PROVE TypeOK
  <2>1. \A p \in Procs : me[p] \in Locals
    BY <1>1 DEF RepairInv, Typed
  <2>2. \A p \in Procs :
            /\ me[p].pc \in PCs /\ me[p].run \in Runs \cup {None}
            /\ me[p].left \subseteq Dates /\ me[p].date \in Dates \cup {None}
            /\ me[p].try \in 0 .. MaxAttempts + 1
    BY <2>1 DEF Locals
  <2>3. \A r \in Runs :
            /\ range[r] \in Ranges \cup {None} /\ (range[r] = None <=> status[r] = "none")
            /\ \A d \in Dates : row[r][d] \in DateRows \cup {None}
    BY <1>1 DEF RepairInv, Typed, TablesOK
  <2>4. \A e \in Events : budget[e] \in 0 .. Limit[e]
    BY <1>1, EventsType DEF RepairInv, Typed, OthersOK
  <2> QED BY <1>1, <2>2, <2>3, <2>4 DEF RepairInv, Typed, TablesOK, OthersOK, TypeOK
<1> QED BY <1>1, RepairInvariant, PTL

LEMMA LockHeld ==
    ASSUME RepairInv, ~LockLost
    PROVE  Safe
<1>1. budget.losses \in Nat
  BY EventsType DEF RepairInv, Typed, OthersOK
<1> QED BY <1>1 DEF RepairInv, Intact, LockLost

LEMMA DecidedDates ==
    ASSUME RepairInv, NEW r \in Runs, Decided(r)
    PROVE  DatesOf(r) \subseteq Dates
  BY DatesType DEF RepairInv, Typed, Known, Decided

\* SucceededIsCovered: every date of a run that is reported succeeded is complete, and
\* its last audit in the run found nothing missing, whoever executed the run and
\* however often (the last audit and the verdict of CoverageRepairOrchestrator.run).
THEOREM VerdictsAreCovered == Spec => []SucceededIsCovered
<1>1. ASSUME RepairInv PROVE SucceededIsCovered
  <2> SUFFICES ASSUME ~LockLost, NEW r \in Runs, status[r] = "succeeded", NEW d \in DatesOf(r)
               PROVE  row[r][d].status = "complete" /\ d \in confirmed[r]
    BY DEF SucceededIsCovered
  <2>1. Settled /\ d \in Dates
    BY <1>1, LockHeld, DecidedDates DEF Safe, Decided
  <2> QED BY <2>1 DEF Settled
<1> QED BY <1>1, RepairInvariant, PTL

\* CompleteIsConfirmed: when no statement raised, a date that a decided run reports
\* complete was confirmed by the last audit of the date, also in a run that failed or
\* was executed by several processes after each other (_repair_date, verify_date).
THEOREM CompletesAreConfirmed == Spec => []CompleteIsConfirmed
<1>1. ASSUME RepairInv PROVE CompleteIsConfirmed
  <2> SUFFICES ASSUME budget.errors = 0, ~LockLost, NEW r \in Runs, Decided(r),
                      NEW d \in DatesOf(r), row[r][d].status = "complete"
               PROVE  d \in confirmed[r]
    BY DEF CompleteIsConfirmed
  <2>1. Settled /\ d \in Dates
    BY <1>1, LockHeld, DecidedDates DEF Safe
  <2> QED BY <2>1 DEF Settled, Decided, Backed
<1> QED BY <1>1, RepairInvariant, PTL

\* BackfillsAreBounded: over all executions of a run, at most max_attempts pipelines
\* are started for a date of it, also when a worker dies in the middle of each.
THEOREM PipelinesAreBounded == Spec => []BackfillsAreBounded
<1>1. ASSUME RepairInv PROVE BackfillsAreBounded
  <2> SUFFICES ASSUME ~LockLost, NEW r \in Runs, NEW d \in Dates
               PROVE  started[r][d] <= MaxAttempts
    BY DEF BackfillsAreBounded
  <2>1. Counted /\ started[r][d] \in Nat
    BY <1>1, LockHeld DEF Safe, RepairInv, Typed, OthersOK
  <2>2. CASE status[r] # "none" /\ d \in DatesOf(r)
    <3>1. row[r][d] \in DateRows
      BY <1>1, <2>2, DatesType DEF RepairInv, Typed, Known
    <3>2. row[r][d].attempts \in 0 .. MaxAttempts /\ started[r][d] <= row[r][d].attempts
      BY <2>1, <2>2, <3>1 DEF DateRows, Counted
    <3> QED BY <2>1, <3>2, Constants
  <2>3. CASE ~(status[r] # "none" /\ d \in DatesOf(r))
    <3>1. started[r][d] = 0
      BY <2>1, <2>3 DEF Counted
    <3> QED BY <3>1, Constants
  <2> QED BY <2>2, <2>3
<1> QED BY <1>1, RepairInvariant, PTL
=============================================================================
