----------------------------- MODULE DeskProofs -----------------------------
(***************************************************************************)
(* Inductive invariants of the scheduler, the hygiene checker and the CEO  *)
(* chat, and what follows from them: slots fire once and the runs of a     *)
(* task follow one another, a verdict is final, and a conversation and its *)
(* account stay in step.  Each component is proved on its own variables;   *)
(* OperationsProofs puts the steps together.                               *)
(***************************************************************************)
EXTENDS Scheduler, Hygiene, Chat, FiniteSetTheorems, WellFoundedInduction, TLAPS

\* A set of row numbers any two of which are equal has at most one.
LEMMA AtMostOne ==
    ASSUME NEW S, NEW n \in Nat, S \subseteq 1..n, \A i, j \in S : i = j
    PROVE  Cardinality(S) <= 1
<1>1. CASE S = {}
  BY <1>1, FS_EmptySet
<1>2. CASE S # {}
  <2>1. PICK i \in S : TRUE
    BY <1>2
  <2>2. S = {i}
    BY <2>1
  <2> QED
    BY <2>2, FS_Singleton
<1> QED
  BY <1>1, <1>2

\* A set of row numbers is finite.
LEMMA RowsFinite ==
    ASSUME NEW S, NEW n \in Nat, S \subseteq 1..n
    PROVE  IsFiniteSet(S) /\ Cardinality(S) \in Nat
<1>1. IsFiniteSet(1..n)
  BY FS_Interval
<1>2. IsFiniteSet(S)
  BY <1>1, FS_Subset
<1> QED
  BY <1>2, FS_CardinalityType

\* A set of row numbers that gained at most the number x has grown by at most one.
LEMMA GrowsByOne ==
    ASSUME NEW S, NEW T, NEW n \in Nat, S \subseteq 1..n, NEW x, T \subseteq S \union {x}
    PROVE  /\ Cardinality(T) \in Nat /\ Cardinality(S) \in Nat
           /\ Cardinality(T) <= Cardinality(S) + 1
<1>1. IsFiniteSet(S) /\ Cardinality(S) \in Nat
  BY RowsFinite
<1>2. IsFiniteSet(S \union {x}) /\ Cardinality(S \union {x}) <= Cardinality(S) + 1
  <2>1. /\ IsFiniteSet(S \union {x})
        /\ Cardinality(S \union {x}) = IF x \in S THEN Cardinality(S) ELSE Cardinality(S) + 1
    BY <1>1, FS_AddElement
  <2> QED
    BY <1>1, <2>1
<1>3. Cardinality(T) <= Cardinality(S \union {x}) /\ IsFiniteSet(T)
  BY <1>2, FS_Subset
<1>4. Cardinality(T) \in Nat /\ Cardinality(S \union {x}) \in Nat
  BY <1>2, <1>3, FS_CardinalityType
<1> QED
  BY <1>1, <1>2, <1>3, <1>4

\* A set of row numbers that gained nothing has not grown.
LEMMA NeverGrows ==
    ASSUME NEW S, NEW T, NEW n \in Nat, S \subseteq 1..n, T \subseteq S
    PROVE  /\ Cardinality(T) \in Nat /\ Cardinality(S) \in Nat
           /\ Cardinality(T) <= Cardinality(S)
<1>1. IsFiniteSet(S) /\ Cardinality(S) \in Nat
  BY RowsFinite
<1> QED
  BY <1>1, FS_Subset, FS_CardinalityType

\* A set of row numbers that is not empty has a last one.
LEMMA LastRow ==
    ASSUME NEW n \in Nat, NEW S \in SUBSET (1..n), S # {}
    PROVE  \E m \in S : \A j \in S : j <= m
<1> DEFINE R == OpToRel(<, Nat)
<1>1. PICK T : T = {n - j : j \in S}
  OBVIOUS
<1>2. T \subseteq Nat /\ T # {}
  <2>1. \A j \in S : n - j \in Nat
    OBVIOUS
  <2>2. PICK j \in S : TRUE
    OBVIOUS
  <2>3. n - j \in T
    BY <1>1, <2>2
  <2> QED
    BY <1>1, <2>1, <2>3
<1>3. \E x \in T : \A y \in T : ~(<<y, x>> \in R)
  BY <1>2, NatLessThanWellFounded, WFMin
<1>4. \A x, y \in T : <<y, x>> \in R <=> y < x
  BY <1>2 DEF OpToRel
<1> HIDE DEF R
<1>5. PICK x \in T : \A y \in T : ~(<<y, x>> \in R)
  BY <1>3
<1>6. PICK m \in S : x = n - m
  BY <1>1, <1>5
<1>7. ASSUME NEW j \in S PROVE j <= m
  <2>1. n - j \in T
    BY <1>1
  <2>2. ~(n - j < n - m)
    BY <1>4, <1>5, <1>6, <2>1
  <2>3. j \in Int /\ m \in Int
    OBVIOUS
  <2> QED
    BY <2>2, <2>3
<1> QED
  BY <1>7

-----------------------------------------------------------------------------
(***************************************************************************)
(* Scheduler.                                                              *)
(***************************************************************************)
Pcs == {Quiet, "setup", "launch", "failing", "talking", "unwritten"}

\* The types; a form that was validated has room for its write.
SchedTypes ==
    /\ now \in 0..MaxNow
    /\ task \in [Tasks -> {"none", "live", "paused", "deleted"}]
    /\ next \in [Tasks -> Nat]
    /\ runs \in [Tasks -> Seq(Run)]
    /\ \A t \in Tasks : Len(runs[t]) <= MaxRuns
    /\ form \in [Tasks -> {NoForm} \union Nat]
    /\ \A t \in Tasks : form[t] # NoForm => rewrites[t] < MaxRewrite
    /\ firing \in [Tasks -> [1..MaxRuns -> Pcs]]
    /\ rewrites \in [Tasks -> 0..MaxRewrite]
    /\ reopens \in [Tasks -> 0..MaxReopen]
    /\ slotless \in [Tasks -> SUBSET (1..MaxRuns)]
    /\ known \in BOOLEAN /\ resets \in 0..MaxReset
    /\ mishaps \in 0..MaxMishap

\* What a one-shot's run is while its handler is at f: an event exists unless
\* the slot was skipped, a session belongs to an open event and a running
\* instance, and a stored outcome comes with a processed event.
RunFits(r, f) ==
    /\ r.event = "none" => r.outcome = "skipped_overlap" /\ f = Quiet
    /\ r.event # "none" => r.outcome # "skipped_overlap"
    /\ r.event = "open" => ~r.structured
    /\ r.event = "processed" => /\ r.outcome \in {"fired", "failed"}
                                /\ r.inst \in {"succeeded", "failed"}
                                /\ r.inst = "succeeded" => r.structured
    /\ r.structured => r.event = "processed"
    /\ r.inst = "none" => r.outcome # "failed"
    /\ f \in {"setup", "launch", "failing", "talking"} => r.event = "open" /\ r.inst = "running"
    /\ f = "unwritten" => (r.event = "open" /\ r.inst = "running") \/ (r.event = "processed" /\ r.structured)
    /\ f # Quiet => r.outcome \in {"fired", "failed"}

RunsFit ==
    \A t \in OneshotTasks, i \in 1..MaxRuns :
        IF i \in DOMAIN runs[t] THEN RunFits(runs[t][i], firing[t][i]) ELSE firing[t][i] = Quiet

\* All one-shots use one agent: there is one handler with a slot over all of them.
OneFiring ==
    \A t, u \in OneshotTasks, i, j \in 1..MaxRuns :
        /\ firing[t][i] # Quiet /\ i \notin slotless[t]
        /\ firing[u][j] # Quiet /\ j \notin slotless[u]
        => t = u /\ i = j

\* A handler without a slot found no agent, and finds none until the cache is
\* loaded again.
Barred(f, k) == f \in {Quiet, "failing"} \/ (f = "setup" /\ ~k)
GateOpen ==
    \A t \in OneshotTasks, i \in 1..MaxRuns : resets = 0 /\ i \in slotless[t] => Barred(firing[t][i], known)

\* A run that has had no instance yet.
Fresh(r) == r.event = "open" /\ r.inst = "none"
OneFresh ==
    \A t \in OneshotTasks : \A i, j \in DOMAIN runs[t] :
        Fresh(runs[t][i]) /\ Fresh(runs[t][j]) => i = j

\* A run whose handler, one with a slot, lost a write: its event will be
\* delivered again.
LateRun(r, f) == r.event = "open" /\ (f = "unwritten" \/ (f = Quiet /\ r.inst # "none"))
Late(t) == {i \in DOMAIN runs[t] : LateRun(runs[t][i], firing[t][i]) /\ i \notin slotless[t]}
LateBound == \A t \in OneshotTasks : Cardinality(Late(t)) <= mishaps

\* The slots a task has fired twice, and whether its next one is new.
Back(t) == {i \in DOMAIN runs[t] : i > 1 /\ runs[t][i].slot <= runs[t][i - 1].slot}
Ahead(t) == Len(runs[t]) = 0 \/ runs[t][Len(runs[t])].slot < next[t]
SlotInv(t) ==
    /\ task[t] = "none" => Len(runs[t]) = 0
    /\ Cardinality(Back(t)) <= rewrites[t]
    /\ ~Ahead(t) => Cardinality(Back(t)) < rewrites[t]

SchedInv ==
    /\ SchedTypes /\ RunsFit /\ OneOpenTicket /\ OneFiring /\ GateOpen /\ OneFresh /\ LateBound
    /\ \A t \in Tasks : SlotInv(t)

\* The invariant implies what the run checks.
LEMMA SchedSafe == SchedInv => SchedTypeOK /\ SlotsFireOnce /\ RunsAreOrderly
<1> SUFFICES ASSUME SchedInv PROVE SchedTypeOK /\ SlotsFireOnce /\ RunsAreOrderly
  OBVIOUS
<1> USE SchedulerAssumption
<1>1. SchedTypes /\ RunsFit /\ OneOpenTicket /\ OneFiring /\ GateOpen /\ OneFresh /\ LateBound /\ \A t \in Tasks : SlotInv(t)
  BY DEF SchedInv
<1>2. TicketTasks \subseteq Tasks /\ OneshotTasks \subseteq Tasks
  BY DEF Tasks
<1>3. \A t \in Tasks : /\ runs[t] \in Seq(Run) /\ Len(runs[t]) \in 0..MaxRuns /\ DOMAIN runs[t] = 1..Len(runs[t])
                       /\ DOMAIN runs[t] \subseteq 1..MaxRuns
  BY <1>1 DEF SchedTypes
<1>4. SchedTypeOK
  BY <1>1, <1>3 DEF SchedTypes, SchedTypeOK, Pcs
<1>5. SlotsFireOnce
  BY <1>1 DEF SlotsFireOnce, SlotInv, Back
<1>6. OneOpenTicket
  BY <1>1
<1>7. OneSessionPerTask
  <2> SUFFICES ASSUME NEW t \in OneshotTasks
               PROVE  /\ Cardinality({i \in 1..MaxRuns : firing[t][i] # Quiet /\ i \notin slotless[t]}) <= 1
                      /\ resets = 0 =>
                           Cardinality({i \in 1..MaxRuns : firing[t][i] \in {"launch", "talking", "unwritten"}}) <= 1
    BY DEF OneSessionPerTask
  <2> DEFINE S == {i \in 1..MaxRuns : firing[t][i] # Quiet /\ i \notin slotless[t]}
             T == {i \in 1..MaxRuns : firing[t][i] \in {"launch", "talking", "unwritten"}}
  <2>1. S \subseteq 1..MaxRuns /\ \A i, j \in S : i = j
    BY <1>1 DEF OneFiring
  <2>2. resets = 0 => T \subseteq S
    BY <1>1 DEF GateOpen, Barred, Quiet
  <2> HIDE DEF S, T
  <2>3. Cardinality(S) <= 1
    BY <2>1, AtMostOne
  <2>4. resets = 0 => Cardinality(T) <= 1
    BY <2>1, <2>2, AtMostOne
  <2> QED
    BY <2>3, <2>4 DEF S, T
<1>8. OneQueuedRun
  <2> SUFFICES ASSUME NEW t \in OneshotTasks
               PROVE  Cardinality({i \in DOMAIN runs[t] : /\ runs[t][i].event = "open" /\ firing[t][i] = Quiet
                                                           /\ i \notin slotless[t]}) <= 1 + mishaps
    BY DEF OneQueuedRun
  <2> DEFINE S == {i \in DOMAIN runs[t] : /\ runs[t][i].event = "open" /\ firing[t][i] = Quiet
                                           /\ i \notin slotless[t]}
  <2>1. Late(t) \subseteq 1..MaxRuns /\ S \subseteq 1..MaxRuns
    BY <1>2, <1>3 DEF Late
  <2>2. \A i \in S : i \in Late(t) \/ Fresh(runs[t][i])
    BY DEF Late, LateRun, Fresh
  <2>3. \A i, j \in S : Fresh(runs[t][i]) /\ Fresh(runs[t][j]) => i = j
    BY <1>1 DEF OneFresh
  <2>4. \E x : S \subseteq Late(t) \union {x}
    BY <2>2, <2>3
  <2>5. PICK x : S \subseteq Late(t) \union {x}
    BY <2>4
  <2> HIDE DEF S
  <2>6. Cardinality(S) \in Nat /\ Cardinality(Late(t)) \in Nat /\ Cardinality(S) <= Cardinality(Late(t)) + 1
    BY <2>1, <2>5, GrowsByOne
  <2>7. Cardinality(Late(t)) <= mishaps /\ mishaps \in Nat
    BY <1>1 DEF LateBound, SchedTypes
  <2>8. Cardinality(S) <= 1 + mishaps
    BY <2>6, <2>7
  <2> QED
    BY <2>8 DEF S
<1>9. OverlapCanEnd /\ ProcessedRunIsOver
  <2> SUFFICES ASSUME NEW t \in OneshotTasks, NEW i \in 1..MaxRuns, i \in DOMAIN runs[t]
               PROVE  /\ runs[t][i].outcome \in {"fired", "gate_deferred"} /\ runs[t][i].inst \in {"none", "running"}
                         => runs[t][i].event = "open" \/ firing[t][i] # Quiet
                      /\ runs[t][i].event = "processed" =>
                            /\ runs[t][i].outcome # "gate_deferred"
                            /\ runs[t][i].inst \in {"succeeded", "failed"}
                            /\ runs[t][i].inst = "succeeded" => runs[t][i].structured
    BY DEF OverlapCanEnd, ProcessedRunIsOver
  <2>1. RunFits(runs[t][i], firing[t][i])
    BY <1>1 DEF RunsFit
  <2>2. runs[t][i] \in Run
    BY <1>2, <1>3
  <2>3. runs[t][i].event \in {"none", "open", "processed"}
    BY <2>2 DEF Run
  <2> QED
    BY <2>1, <2>3 DEF RunFits
<1> QED
  BY <1>4, <1>5, <1>6, <1>7, <1>8, <1>9 DEF RunsAreOrderly

\* At first there are no runs.
LEMMA SchedInvInit == SchedInit => SchedInv
<1> SUFFICES ASSUME SchedInit PROVE SchedInv
  OBVIOUS
<1>0. Cardinality({}) = 0
  BY FS_EmptySet
<1> USE SchedulerAssumption
<1>1. TicketTasks \subseteq Tasks /\ OneshotTasks \subseteq Tasks
  BY DEF Tasks
<1>2. \A t \in Tasks : runs[t] = <<>> /\ Len(runs[t]) = 0 /\ DOMAIN runs[t] = {}
  BY DEF SchedInit
<1>3. SchedTypes
  <2>1. runs \in [Tasks -> Seq(Run)]
    BY DEF SchedInit
  <2> QED
    BY <1>2, <2>1 DEF SchedInit, SchedTypes, Pcs
<1>4. \A t \in Tasks, i \in 1..MaxRuns : firing[t][i] = Quiet
  BY DEF SchedInit
<1>5. RunsFit /\ OneFiring /\ GateOpen /\ OneFresh
  BY <1>1, <1>2, <1>4 DEF RunsFit, OneFiring, GateOpen, Barred, OneFresh
<1>8. OneOpenTicket
  <2> SUFFICES ASSUME NEW t \in TicketTasks PROVE Cardinality(OpenTickets(t)) <= 1 + reopens[t]
    BY DEF OneOpenTicket
  <2>1. OpenTickets(t) = {} /\ reopens[t] = 0
    BY <1>1, <1>2 DEF OpenTickets, SchedInit
  <2> QED
    BY <1>0, <2>1
<1>6. LateBound
  <2> SUFFICES ASSUME NEW t \in OneshotTasks PROVE Cardinality(Late(t)) <= mishaps
    BY DEF LateBound
  <2>1. Late(t) = {}
    BY <1>1, <1>2 DEF Late
  <2>2. Cardinality(Late(t)) = 0
    BY <1>0, <2>1
  <2> QED
    BY <1>3, <2>2 DEF SchedTypes
<1>7. \A t \in Tasks : SlotInv(t)
  <2> SUFFICES ASSUME NEW t \in Tasks PROVE SlotInv(t)
    OBVIOUS
  <2>1. Back(t) = {} /\ Ahead(t)
    BY <1>2 DEF Back, Ahead
  <2>2. Cardinality(Back(t)) = 0
    BY <1>0, <2>1
  <2> QED
    BY <1>2, <1>3, <2>1, <2>2 DEF SlotInv, SchedTypes
<1> QED
  BY <1>3, <1>5, <1>6, <1>7, <1>8 DEF SchedInv

\* The sequences of runs and what an index into them is.
LEMMA RunsShape ==
    ASSUME SchedTypes, NEW t \in Tasks
    PROVE  /\ runs[t] \in Seq(Run) /\ Len(runs[t]) \in Nat /\ Len(runs[t]) <= MaxRuns
           /\ DOMAIN runs[t] = 1..Len(runs[t])
           /\ DOMAIN runs[t] \subseteq 1..MaxRuns
           /\ \A i \in DOMAIN runs[t] : runs[t][i] \in Run
  BY SchedulerAssumption DEF SchedTypes

\* SetRun changes one run and nothing else.
LEMMA SetRunShape ==
    ASSUME SchedTypes, NEW t \in Tasks, NEW i \in DOMAIN runs[t], NEW r \in Run
    PROVE  /\ SetRun(t, i, r) \in [Tasks -> Seq(Run)]
           /\ \A u \in Tasks : Len(SetRun(t, i, r)[u]) = Len(runs[u]) /\ DOMAIN SetRun(t, i, r)[u] = DOMAIN runs[u]
           /\ SetRun(t, i, r)[t][i] = r
           /\ \A j \in DOMAIN runs[t] : j # i => SetRun(t, i, r)[t][j] = runs[t][j]
           /\ \A u \in Tasks : u # t => SetRun(t, i, r)[u] = runs[u]
<1>1. runs \in [Tasks -> Seq(Run)] /\ runs[t] \in Seq(Run)
  BY DEF SchedTypes
<1>2. PICK s : s = [runs[t] EXCEPT ![i] = r]
  OBVIOUS
<1>3. s \in Seq(Run) /\ Len(s) = Len(runs[t]) /\ DOMAIN s = DOMAIN runs[t]
  BY <1>1, <1>2
<1>4. SetRun(t, i, r) = [runs EXCEPT ![t] = s]
  BY <1>1, <1>2 DEF SetRun
<1>5. s[i] = r /\ \A j \in DOMAIN runs[t] : j # i => s[j] = runs[t][j]
  BY <1>1, <1>2
<1> QED
  BY <1>1, <1>3, <1>4, <1>5

\* The slots of a task's runs and its next one are all SlotInv looks at.
LEMMA SlotKept ==
    ASSUME NEW u, SlotInv(u), UNCHANGED <<task, next, rewrites>>,
           Len(runs[u]) \in Nat, DOMAIN runs[u] = 1..Len(runs[u]),
           DOMAIN runs'[u] = DOMAIN runs[u], Len(runs'[u]) = Len(runs[u]),
           \A j \in DOMAIN runs[u] : runs'[u][j].slot = runs[u][j].slot
    PROVE  SlotInv(u)'
<1>1. Back(u)' = Back(u)
  <2>1. \A j \in DOMAIN runs[u] : j > 1 => j - 1 \in DOMAIN runs[u]
    OBVIOUS
  <2> QED
    BY <2>1 DEF Back
<1>2. Ahead(u)' <=> Ahead(u)
  <2>1. CASE Len(runs[u]) = 0
    BY <2>1 DEF Ahead
  <2>2. CASE Len(runs[u]) # 0
    <3>1. Len(runs[u]) \in DOMAIN runs[u]
      BY <2>2
    <3> QED
      BY <3>1 DEF Ahead
  <2> QED
    BY <2>1, <2>2
<1> QED
  BY <1>1, <1>2 DEF SlotInv

\* The handler of one delivery, at run i of the one-shot t: what it must keep
\* of that run for the invariant to stay.
LEMMA OneshotTouch ==
    ASSUME SchedInv, NEW t \in OneshotTasks, NEW i \in DOMAIN runs[t], NEW r \in Run, NEW f \in Pcs,
           runs' = SetRun(t, i, r), firing' = [firing EXCEPT ![t][i] = f],
           UNCHANGED <<now, task, next, form, rewrites, known, resets, reopens>>,
           mishaps' \in 0..MaxMishap, mishaps <= mishaps',
           RunFits(r, f), r.slot = runs[t][i].slot,
           slotless' \in [Tasks -> SUBSET (1..MaxRuns)],
           \A u \in Tasks : u # t => slotless'[u] = slotless[u],
           \A j \in 1..MaxRuns : j # i => (j \in slotless'[t] <=> j \in slotless[t]),
           \/ UNCHANGED slotless /\ (firing[t][i] # Quiet \/ f = Quiet)
           \/ SlotFree \/ i \in slotless'[t],
           resets = 0 /\ i \in slotless'[t] => Barred(f, known),
           Fresh(r) => Fresh(runs[t][i]),
           LateRun(r, f) => (UNCHANGED slotless /\ LateRun(runs[t][i], firing[t][i])) \/ mishaps' = mishaps + 1
    PROVE  SchedInv'
<1> USE SchedulerAssumption
<1>1. SchedTypes /\ RunsFit /\ OneOpenTicket /\ OneFiring /\ GateOpen /\ OneFresh /\ LateBound /\ \A u \in Tasks : SlotInv(u)
  BY DEF SchedInv
<1>2. TicketTasks \subseteq Tasks /\ OneshotTasks \subseteq Tasks /\ t \in Tasks /\ t \notin TicketTasks
  BY DEF Tasks
<1>3. /\ runs' \in [Tasks -> Seq(Run)]
      /\ \A u \in Tasks : Len(runs'[u]) = Len(runs[u]) /\ DOMAIN runs'[u] = DOMAIN runs[u]
      /\ runs'[t][i] = r
      /\ \A j \in DOMAIN runs[t] : j # i => runs'[t][j] = runs[t][j]
      /\ \A u \in Tasks : u # t => runs'[u] = runs[u]
  BY <1>1, <1>2, SetRunShape
<1>4. /\ firing' \in [Tasks -> [1..MaxRuns -> Pcs]]
      /\ firing'[t][i] = f /\ i \in 1..MaxRuns
      /\ \A j \in 1..MaxRuns : j # i => firing'[t][j] = firing[t][j]
      /\ \A u \in Tasks : u # t => firing'[u] = firing[u]
  <2>1. i \in 1..MaxRuns /\ firing \in [Tasks -> [1..MaxRuns -> Pcs]]
    BY <1>1, <1>2, RunsShape DEF SchedTypes
  <2> QED
    BY <1>2, <2>1
<1>5. SchedTypes'
  BY <1>1, <1>3, <1>4 DEF SchedTypes
<1>6. RunsFit'
  <2> SUFFICES ASSUME NEW u \in OneshotTasks, NEW j \in 1..MaxRuns
               PROVE  IF j \in DOMAIN runs'[u] THEN RunFits(runs'[u][j], firing'[u][j]) ELSE firing'[u][j] = Quiet
    BY DEF RunsFit, RunFits
  <2>1. IF j \in DOMAIN runs[u] THEN RunFits(runs[u][j], firing[u][j]) ELSE firing[u][j] = Quiet
    BY <1>1 DEF RunsFit
  <2>2. CASE u = t /\ j = i
    BY <1>2, <1>3, <1>4, <2>2
  <2>3. CASE ~(u = t /\ j = i)
    BY <1>2, <1>3, <1>4, <2>1, <2>3
  <2> QED
    BY <2>2, <2>3
<1>7. OneOpenTicket'
  <2>1. \A u \in TicketTasks : OpenTickets(u)' = OpenTickets(u)
    BY <1>2, <1>3 DEF OpenTickets
  <2> QED
    BY <1>1, <2>1 DEF OneOpenTicket
<1>8. OneFiring'
  <2> SUFFICES ASSUME NEW u \in OneshotTasks, NEW v \in OneshotTasks, NEW j \in 1..MaxRuns, NEW k \in 1..MaxRuns,
                      firing'[u][j] # Quiet, j \notin slotless'[u], firing'[v][k] # Quiet, k \notin slotless'[v]
               PROVE  u = v /\ j = k
    BY DEF OneFiring
  <2>1. CASE SlotFree
    BY <1>2, <1>4, <2>1 DEF SlotFree
  <2>2. CASE UNCHANGED slotless /\ (firing[t][i] # Quiet \/ f = Quiet)
    <3>1. firing[u][j] # Quiet /\ firing[v][k] # Quiet
      BY <1>2, <1>4, <2>2
    <3> QED
      BY <1>1, <2>2, <3>1 DEF OneFiring
  <2>3. CASE i \in slotless'[t]
    <3>1. ~(u = t /\ j = i) /\ ~(v = t /\ k = i)
      BY <2>3
    <3>2. /\ firing[u][j] # Quiet /\ j \notin slotless[u]
          /\ firing[v][k] # Quiet /\ k \notin slotless[v]
      BY <1>2, <1>4, <3>1
    <3> QED
      BY <1>1, <3>2 DEF OneFiring
  <2> QED
    BY <2>1, <2>2, <2>3
<1>12. GateOpen'
  <2> SUFFICES ASSUME NEW u \in OneshotTasks, NEW j \in 1..MaxRuns, resets' = 0, j \in slotless'[u]
               PROVE  Barred(firing'[u][j], known')
    BY DEF GateOpen, Barred
  <2>1. CASE u = t /\ j = i
    BY <1>4, <2>1 DEF Barred
  <2>2. CASE ~(u = t /\ j = i)
    <3>1. j \in slotless[u] /\ firing'[u][j] = firing[u][j]
      BY <1>2, <1>4, <2>2
    <3> QED
      BY <1>1, <3>1 DEF GateOpen, Barred
  <2> QED
    BY <2>1, <2>2
<1>9. OneFresh'
  <2> SUFFICES ASSUME NEW u \in OneshotTasks, NEW j \in DOMAIN runs'[u], NEW k \in DOMAIN runs'[u],
                      Fresh(runs'[u][j]), Fresh(runs'[u][k])
               PROVE  j = k
    BY DEF OneFresh, Fresh
  <2>1. j \in DOMAIN runs[u] /\ k \in DOMAIN runs[u]
    BY <1>2, <1>3
  <2>2. Fresh(runs[u][j]) /\ Fresh(runs[u][k])
    BY <1>2, <1>3, <2>1
  <2> QED
    BY <1>1, <2>1, <2>2 DEF OneFresh
<1>10. LateBound'
  <2> SUFFICES ASSUME NEW u \in OneshotTasks PROVE Cardinality(Late(u)') <= mishaps'
    BY DEF LateBound
  <2>1. Late(u) \subseteq 1..MaxRuns /\ Cardinality(Late(u)) <= mishaps /\ mishaps \in Nat /\ mishaps' \in Nat
    <3>1. DOMAIN runs[u] \subseteq 1..MaxRuns
      BY <1>1, <1>2, RunsShape
    <3>2. Cardinality(Late(u)) <= mishaps
      BY <1>1 DEF LateBound
    <3>3. mishaps \in Nat /\ mishaps' \in Nat
      BY <1>1 DEF SchedTypes
    <3>4. Late(u) \subseteq DOMAIN runs[u]
      BY DEF Late
    <3> QED
      BY <3>1, <3>2, <3>3, <3>4
  <2>2. Late(u)' \subseteq Late(u) \union {i}
    <3> SUFFICES ASSUME NEW j \in DOMAIN runs'[u], LateRun(runs'[u][j], firing'[u][j]), j \notin slotless'[u], j # i
                 PROVE  j \in Late(u)
      BY DEF Late, LateRun
    <3> QED
      BY <1>2, <1>3, <1>4, RunsShape, <1>1 DEF Late
  <2>3. CASE mishaps' = mishaps + 1
    <3>1. /\ Cardinality(Late(u)') \in Nat /\ Cardinality(Late(u)) \in Nat
          /\ Cardinality(Late(u)') <= Cardinality(Late(u)) + 1
      BY <2>1, <2>2, GrowsByOne
    <3> QED
      BY <2>1, <2>3, <3>1
  <2>4. CASE LateRun(r, f) => UNCHANGED slotless /\ LateRun(runs[t][i], firing[t][i])
    <3>1. Late(u)' \subseteq Late(u)
      <4> SUFFICES ASSUME NEW j \in DOMAIN runs'[u], LateRun(runs'[u][j], firing'[u][j]), j \notin slotless'[u]
                   PROVE  j \in Late(u)
        BY DEF Late, LateRun
      <4>1. j \in DOMAIN runs[u] /\ j \in 1..MaxRuns
        BY <1>1, <1>2, <1>3, RunsShape
      <4>2. LateRun(runs[u][j], firing[u][j]) /\ j \notin slotless[u]
        BY <1>2, <1>3, <1>4, <2>4, <4>1
      <4> QED
        BY <4>1, <4>2 DEF Late
    <3>2. /\ Cardinality(Late(u)') \in Nat /\ Cardinality(Late(u)) \in Nat
          /\ Cardinality(Late(u)') <= Cardinality(Late(u))
      BY <2>1, <3>1, NeverGrows
    <3> QED
      BY <2>1, <3>2
  <2> QED
    BY <2>3, <2>4
<1>11. ASSUME NEW u \in Tasks PROVE SlotInv(u)'
  <2>1. \A j \in DOMAIN runs[u] : runs'[u][j].slot = runs[u][j].slot
    BY <1>2, <1>3
  <2>2. Len(runs[u]) \in Nat /\ DOMAIN runs[u] = 1..Len(runs[u]) /\ DOMAIN runs'[u] = DOMAIN runs[u] /\ Len(runs'[u]) = Len(runs[u])
    BY <1>1, <1>2, <1>3, RunsShape
  <2> QED
    BY <1>1, <2>1, <2>2, SlotKept
<1> QED
  BY <1>5, <1>6, <1>7, <1>8, <1>9, <1>10, <1>11, <1>12 DEF SchedInv

\* Writing back what is there changes nothing.
LEMMA TouchNothing ==
    ASSUME SchedTypes, NEW t \in OneshotTasks, NEW i \in DOMAIN runs[t]
    PROVE  /\ runs = SetRun(t, i, runs[t][i]) /\ firing = [firing EXCEPT ![t][i] = firing[t][i]]
           /\ runs[t][i] \in Run /\ firing[t][i] \in Pcs /\ i \in 1..MaxRuns
<1>1. t \in Tasks
  BY DEF Tasks
<1>2. runs[t][i] \in Run /\ i \in 1..MaxRuns /\ firing[t][i] \in Pcs
  BY <1>1, RunsShape DEF SchedTypes
<1> QED
  BY <1>1, <1>2 DEF SchedTypes, SetRun

\* Each step of a one-shot's delivery keeps the invariant.
LEMMA SchedOneshot ==
    ASSUME SchedInv, NEW t \in OneshotTasks, NEW i \in 1..MaxRuns, OneshotStep(t, i)
    PROVE  SchedInv'
<1> USE SchedulerAssumption
<1>1. SchedTypes /\ RunsFit /\ GateOpen
  BY DEF SchedInv
<1>2. t \in Tasks /\ mishaps \in 0..MaxMishap
  BY <1>1 DEF Tasks, SchedTypes
<1>3. i \in DOMAIN runs[t]
  <2>1. CASE OneshotDelivered(t, i)
    BY <2>1 DEF OneshotDelivered
  <2>2. CASE firing[t][i] # Quiet
    BY <1>1, <2>2 DEF RunsFit
  <2> QED
    BY <2>1, <2>2 DEF OneshotStep, DeferOneshot, InsertOneshotRunning, PrepareOneshotRun, LaunchOneshot, FailRunOutcome,
       TerminalWrite, WriteFinalizeOneshot, FinalizeWriteFails, FailOneshotWrite, OneshotWriteLost, Quiet
<1>4. PICK r : r = runs[t][i]
  OBVIOUS
<1>5. PICK f : f = firing[t][i]
  OBVIOUS
<1>6. /\ runs = SetRun(t, i, r) /\ firing = [firing EXCEPT ![t][i] = f]
      /\ r \in Run /\ f \in Pcs
  BY <1>1, <1>3, <1>4, <1>5, TouchNothing
<1>7. RunFits(r, f)
  BY <1>1, <1>3, <1>4, <1>5 DEF RunsFit
<1>8. ASSUME NEW r1 \in Run, NEW f1 \in Pcs,
             runs' = SetRun(t, i, r1), firing' = [firing EXCEPT ![t][i] = f1],
             UNCHANGED <<now, task, next, form, rewrites, gateVars, reopens>>,
             mishaps' = mishaps \/ Mishap,
             RunFits(r1, f1), r1.slot = r.slot,
             f # Quiet \/ f1 = Quiet,
             f1 \in {Quiet, "failing"} \/ f1 = f \/ f \in {"launch", "talking"} \/ (f = "setup" /\ known),
             Fresh(r1) => Fresh(r),
             LateRun(r1, f1) => LateRun(r, f) \/ mishaps' = mishaps + 1
      PROVE  SchedInv'
  <2>1. mishaps' \in 0..MaxMishap /\ mishaps <= mishaps'
    BY <1>2, <1>8 DEF Mishap
  <2>2. UNCHANGED <<now, task, next, form, rewrites, known, resets, reopens>> /\ UNCHANGED slotless
    BY <1>8 DEF gateVars
  <2>3. slotless \in [Tasks -> SUBSET (1..MaxRuns)]
    BY <1>1 DEF SchedTypes
  <2>4. resets = 0 /\ i \in slotless[t] => Barred(f, known)
    BY <1>1, <1>5 DEF GateOpen
  <2>5. resets = 0 /\ i \in slotless'[t] => Barred(f1, known)
    BY <1>8, <2>2, <2>4 DEF Barred, Quiet
  <2> QED
    BY <1>3, <1>4, <1>5, <1>8, <2>1, <2>2, <2>3, <2>5, OneshotTouch
<1>9. r.event \in {"none", "open", "processed"} /\ r.outcome \in {"fired", "skipped_overlap", "gate_deferred", "failed"}
      /\ r.inst \in {"none", "running", "succeeded", "failed"} /\ r.structured \in BOOLEAN
  BY <1>6 DEF Run
<1>10. CASE DeferOneshot(t, i)
  <2>1. PICK r1 : r1 = [r EXCEPT !.outcome = "gate_deferred"]
    OBVIOUS
  <2>2. r1 \in Run /\ r1.outcome = "gate_deferred" /\ r1.slot = r.slot /\ r1.event = r.event /\ r1.inst = r.inst /\ r1.structured = r.structured
    BY <1>6, <2>1 DEF Run
  <2>3. runs' = SetRun(t, i, r1) /\ firing' = firing /\ f = Quiet /\ r.event = "open" /\ mishaps' = mishaps
        /\ UNCHANGED <<now, task, next, form, rewrites, gateVars, reopens>>
    BY <1>4, <1>5, <1>10, <2>1 DEF DeferOneshot, OneshotDelivered
  <2>4. RunFits(r1, f)
    BY <1>7, <2>2, <2>3 DEF RunFits, Quiet
  <2> QED
    BY <1>6, <1>8, <2>2, <2>3, <2>4 DEF Fresh, LateRun
<1>11. CASE InsertOneshotRunning(t, i)
  <2>1. PICK r1 : r1 = [r EXCEPT !.inst = "running", !.outcome = IF @ = "gate_deferred" THEN "fired" ELSE @]
    OBVIOUS
  <2>2. r1 \in Run /\ r1.outcome = (IF r.outcome = "gate_deferred" THEN "fired" ELSE r.outcome) /\ r1.slot = r.slot
        /\ r1.event = r.event /\ r1.inst = "running" /\ r1.structured = r.structured
    BY <1>6, <2>1 DEF Run
  <2>3. runs' = SetRun(t, i, r1) /\ firing' = [firing EXCEPT ![t][i] = "setup"] /\ f = Quiet /\ r.event = "open"
        /\ mishaps' = mishaps /\ AcquireAgentSlot(t, i)
        /\ UNCHANGED <<now, task, next, form, rewrites, known, resets, reopens>>
    BY <1>4, <1>5, <1>11, <2>1 DEF InsertOneshotRunning, OneshotDelivered
  <2>4. RunFits(r1, "setup") /\ ~LateRun(r1, "setup") /\ ~Fresh(r1) /\ "setup" \in Pcs
    BY <1>7, <1>9, <2>2, <2>3 DEF RunFits, LateRun, Fresh, Pcs, Quiet
  <2>5. slotless \in [Tasks -> SUBSET (1..MaxRuns)] /\ i \in 1..MaxRuns
    BY <1>1 DEF SchedTypes
  <2>6. /\ slotless' \in [Tasks -> SUBSET (1..MaxRuns)]
        /\ \A u \in Tasks : u # t => slotless'[u] = slotless[u]
        /\ \A j \in 1..MaxRuns : j # i => (j \in slotless'[t] <=> j \in slotless[t])
        /\ SlotFree \/ i \in slotless'[t]
        /\ i \in slotless'[t] => ~known
    <3>1. CASE ~known /\ slotless' = [slotless EXCEPT ![t] = @ \union {i}]
      BY <1>2, <2>5, <3>1
    <3>2. CASE SlotFree /\ slotless' = [slotless EXCEPT ![t] = @ \ {i}]
      BY <1>2, <2>5, <3>2
    <3> QED
      BY <2>3, <3>1, <3>2 DEF AcquireAgentSlot
  <2>7. resets = 0 /\ i \in slotless'[t] => Barred("setup", known)
    BY <2>6 DEF Barred
  <2>8. mishaps' \in 0..MaxMishap /\ mishaps <= mishaps'
    BY <1>2, <2>3
  <2> QED
    BY <1>3, <1>4, <2>2, <2>3, <2>4, <2>6, <2>7, <2>8, OneshotTouch
<1>12. CASE PrepareOneshotRun(t, i)
  <2>1. runs' = SetRun(t, i, r) /\ firing' = [firing EXCEPT ![t][i] = "launch"] /\ f = "setup" /\ known
        /\ mishaps' = mishaps /\ UNCHANGED <<now, task, next, form, rewrites, gateVars, reopens>>
    BY <1>5, <1>6, <1>12 DEF PrepareOneshotRun
  <2>2. RunFits(r, "launch")
    BY <1>7, <2>1 DEF RunFits, Quiet
  <2> QED
    BY <1>6, <1>8, <2>1, <2>2 DEF LateRun, Pcs, Quiet
<1>13. CASE LaunchOneshot(t, i)
  <2>1. runs' = SetRun(t, i, r) /\ firing' = [firing EXCEPT ![t][i] = "talking"] /\ f = "launch"
        /\ mishaps' = mishaps /\ UNCHANGED <<now, task, next, form, rewrites, gateVars, reopens>>
    BY <1>5, <1>6, <1>13 DEF LaunchOneshot
  <2>2. RunFits(r, "talking")
    BY <1>7, <2>1 DEF RunFits, Quiet
  <2> QED
    BY <1>6, <1>8, <2>1, <2>2 DEF LateRun, Pcs, Quiet
<1>14. CASE FailRunOutcome(t, i)
  <2>1. firing' = [firing EXCEPT ![t][i] = "failing"] /\ f \in {"setup", "launch"} /\ UNCHANGED <<now, task, next, form, rewrites, gateVars, reopens>>
    BY <1>5, <1>14 DEF FailRunOutcome
  <2>2. CASE runs' = runs /\ Mishap
    <3>1. RunFits(r, "failing")
      BY <1>7, <2>1 DEF RunFits, Quiet
    <3> QED
      BY <1>6, <1>8, <2>1, <2>2, <3>1 DEF LateRun, Pcs, Quiet
  <2>3. CASE runs' = SetRun(t, i, [runs[t][i] EXCEPT !.outcome = "failed"]) /\ UNCHANGED mishaps
    <3>1. PICK r1 : r1 = [r EXCEPT !.outcome = "failed"]
      OBVIOUS
    <3>2. r1 \in Run /\ r1.outcome = "failed" /\ r1.slot = r.slot /\ r1.event = r.event /\ r1.inst = r.inst /\ r1.structured = r.structured
      BY <1>6, <3>1 DEF Run
    <3>3. RunFits(r1, "failing")
      BY <1>7, <2>1, <3>2 DEF RunFits, Quiet
    <3>4. runs' = SetRun(t, i, r1)
      BY <1>4, <2>3, <3>1
    <3> QED
      BY <1>8, <2>1, <2>3, <3>2, <3>3, <3>4 DEF Fresh, LateRun, Pcs, Quiet
  <2> QED
    BY <1>14, <2>2, <2>3 DEF FailRunOutcome
<1>15. CASE TerminalWrite(t, i)
  <2>1. PICK r1 : r1 = [r EXCEPT !.inst = "failed", !.event = "processed"]
    OBVIOUS
  <2>2. r1 \in Run /\ r1.outcome = r.outcome /\ r1.slot = r.slot /\ r1.event = "processed" /\ r1.inst = "failed" /\ r1.structured = r.structured
    BY <1>6, <2>1 DEF Run
  <2>3. runs' = SetRun(t, i, r1) /\ firing' = [firing EXCEPT ![t][i] = Quiet] /\ f \in {"failing", "talking"}
        /\ mishaps' = mishaps /\ UNCHANGED <<now, task, next, form, rewrites, gateVars, reopens>>
    BY <1>4, <1>5, <1>15, <2>1 DEF TerminalWrite
  <2>4. RunFits(r1, Quiet)
    BY <1>7, <2>2, <2>3 DEF RunFits, Quiet
  <2> QED
    BY <1>8, <2>2, <2>3, <2>4 DEF Fresh, LateRun, Pcs, Quiet
<1>16. PICK rf : rf = Finalized(r)
  OBVIOUS
<1>17. rf \in Run /\ rf.outcome = r.outcome /\ rf.slot = r.slot /\ rf.event = "processed" /\ rf.inst = "succeeded" /\ rf.structured = TRUE
  BY <1>6, <1>16 DEF Run, Finalized
<1>18. CASE WriteFinalizeOneshot(t, i)
  <2>1. firing' = [firing EXCEPT ![t][i] = Quiet] /\ f = "talking" /\ mishaps' = mishaps /\ UNCHANGED <<now, task, next, form, rewrites, gateVars, reopens>>
    BY <1>5, <1>18 DEF WriteFinalizeOneshot
  <2>2. ~r.structured
    BY <1>7, <2>1 DEF RunFits
  <2>3. runs' = SetRun(t, i, rf)
    BY <1>4, <1>16, <1>18, <2>2 DEF WriteFinalizeOneshot
  <2>4. RunFits(rf, Quiet)
    BY <1>7, <1>17, <2>1 DEF RunFits, Quiet
  <2> QED
    BY <1>8, <1>17, <2>1, <2>3, <2>4 DEF Fresh, LateRun, Pcs, Quiet
<1>19. CASE FinalizeWriteFails(t, i)
  <2>1. firing' = [firing EXCEPT ![t][i] = "unwritten"] /\ f = "talking" /\ Mishap /\ UNCHANGED <<now, task, next, form, rewrites, gateVars, reopens>>
    BY <1>5, <1>19 DEF FinalizeWriteFails
  <2>2. CASE runs' = runs
    <3>1. RunFits(r, "unwritten")
      BY <1>7, <2>1 DEF RunFits, Quiet
    <3> QED
      BY <1>6, <1>8, <2>1, <2>2, <3>1 DEF LateRun, Pcs, Quiet, Mishap
  <2>3. CASE runs' = SetRun(t, i, rf)
    <3>1. RunFits(rf, "unwritten")
      BY <1>7, <1>17, <2>1 DEF RunFits, Quiet
    <3> QED
      BY <1>8, <1>17, <2>1, <2>3, <3>1 DEF Fresh, LateRun, Pcs, Quiet
  <2> QED
    BY <1>4, <1>16, <1>19, <2>2, <2>3 DEF FinalizeWriteFails
<1>20. CASE FailOneshotWrite(t, i)
  <2>1. PICK r1 : r1 = [r EXCEPT !.inst = "failed"]
    OBVIOUS
  <2>2. r1 \in Run /\ r1.outcome = r.outcome /\ r1.slot = r.slot /\ r1.event = r.event /\ r1.inst = "failed" /\ r1.structured = r.structured
    BY <1>6, <2>1 DEF Run
  <2>3. runs' = SetRun(t, i, r1) /\ firing' = [firing EXCEPT ![t][i] = Quiet] /\ f = "unwritten"
        /\ mishaps' = mishaps /\ UNCHANGED <<now, task, next, form, rewrites, gateVars, reopens>>
    BY <1>4, <1>5, <1>20, <2>1 DEF FailOneshotWrite
  <2>4. RunFits(r1, Quiet)
    BY <1>7, <1>9, <2>2, <2>3 DEF RunFits, Quiet
  <2> QED
    BY <1>8, <2>2, <2>3, <2>4 DEF Fresh, LateRun, Pcs, Quiet
<1>21. CASE OneshotWriteLost(t, i)
  <2>1. firing' = [firing EXCEPT ![t][i] = Quiet] /\ f # Quiet /\ Mishap /\ runs' = SetRun(t, i, r) /\ UNCHANGED <<now, task, next, form, rewrites, gateVars, reopens>>
    BY <1>5, <1>6, <1>21 DEF OneshotWriteLost
  <2>2. RunFits(r, Quiet)
    BY <1>7, <2>1 DEF RunFits, Quiet
  <2> QED
    BY <1>6, <1>8, <2>1, <2>2 DEF Pcs, Quiet, Mishap
<1> QED
  BY <1>10, <1>11, <1>12, <1>13, <1>14, <1>15, <1>18, <1>19, <1>20, <1>21 DEF OneshotStep

\* A ticket that reaches done closes its run's overlap; one that leaves it is counted.
LEMMA SchedTicketMoves ==
    ASSUME SchedInv, NEW t \in TicketTasks, NEW i \in 1..MaxRuns,
           TicketReachesDone(t, i) \/ ReopenTicket(t, i)
    PROVE  SchedInv'
<1> USE SchedulerAssumption
<1>1. SchedTypes /\ RunsFit /\ OneOpenTicket /\ OneFiring /\ GateOpen /\ OneFresh /\ LateBound /\ \A u \in Tasks : SlotInv(u)
  BY DEF SchedInv
<1>2. t \in Tasks /\ t \notin OneshotTasks /\ i \in DOMAIN runs[t] /\ TicketTasks \subseteq Tasks /\ OneshotTasks \subseteq Tasks
  BY DEF Tasks, TicketReachesDone, ReopenTicket
<1>4. runs[t][i] \in Run
  BY <1>1, <1>2, RunsShape
<1>3. PICK to \in {"open", "done"}, r \in Run :
         /\ r = [runs[t][i] EXCEPT !.ticket = to] /\ runs' = SetRun(t, i, r)
         /\ \/ to = "done" /\ UNCHANGED reopens
            \/ reopens[t] < MaxReopen /\ reopens' = [reopens EXCEPT ![t] = @ + 1]
  <2>1. \A to \in {"open", "done"} : [runs[t][i] EXCEPT !.ticket = to] \in Run
    BY <1>4 DEF Run
  <2> QED
    BY <2>1 DEF TicketReachesDone, ReopenTicket
<1>5. r \in Run /\ r.slot = runs[t][i].slot /\ r.ticket = to
  BY <1>3, <1>4 DEF Run
<1>6. /\ runs' \in [Tasks -> Seq(Run)]
      /\ \A u \in Tasks : Len(runs'[u]) = Len(runs[u]) /\ DOMAIN runs'[u] = DOMAIN runs[u]
      /\ runs'[t][i] = r
      /\ \A j \in DOMAIN runs[t] : j # i => runs'[t][j] = runs[t][j]
      /\ \A u \in Tasks : u # t => runs'[u] = runs[u]
  <2>1. runs' = SetRun(t, i, r)
    BY <1>3
  <2> QED
    BY <1>1, <1>2, <1>5, <2>1, SetRunShape
<1>7. UNCHANGED <<now, task, next, form, firing, rewrites, mishaps, slotless, known, resets>>
  BY DEF TicketReachesDone, ReopenTicket, gateVars
<1>13. reopens \in [Tasks -> 0..MaxReopen] /\ reopens' \in [Tasks -> 0..MaxReopen]
  <2>1. reopens \in [Tasks -> 0..MaxReopen] /\ MaxReopen \in Nat
    BY <1>1 DEF SchedTypes
  <2>2. CASE UNCHANGED reopens
    BY <2>1, <2>2
  <2>3. CASE reopens[t] < MaxReopen /\ reopens' = [reopens EXCEPT ![t] = @ + 1]
    <3>1. reopens[t] + 1 \in 0..MaxReopen
      BY <1>2, <2>1, <2>3
    <3> QED
      BY <1>2, <2>1, <2>3, <3>1
  <2> QED
    BY <1>3, <2>1, <2>2, <2>3
<1>8. SchedTypes'
  BY <1>1, <1>6, <1>7, <1>13 DEF SchedTypes
<1>9. \A u \in OneshotTasks : runs'[u] = runs[u] /\ u \in Tasks
  BY <1>2, <1>6
<1>10. RunsFit' /\ OneFiring' /\ GateOpen' /\ OneFresh' /\ LateBound'
  <2>1. RunsFit'
    BY <1>1, <1>7, <1>9 DEF RunsFit, RunFits
  <2>2. OneFiring' /\ GateOpen' /\ OneFresh'
    BY <1>1, <1>7, <1>9 DEF OneFiring, GateOpen, Barred, OneFresh, Fresh
  <2>3. LateBound'
    <3> SUFFICES ASSUME NEW u \in OneshotTasks PROVE Cardinality(Late(u)') <= mishaps'
      BY DEF LateBound
    <3>1. Late(u)' = Late(u)
      BY <1>7, <1>9 DEF Late, LateRun
    <3> QED
      BY <1>1, <1>7, <3>1 DEF LateBound
  <2> QED
    BY <2>1, <2>2, <2>3
<1>11. OneOpenTicket'
  <2> SUFFICES ASSUME NEW u \in TicketTasks PROVE Cardinality(OpenTickets(u)') <= 1 + reopens'[u]
    BY DEF OneOpenTicket
  <2>1. /\ OpenTickets(u) \subseteq 1..MaxRuns /\ Cardinality(OpenTickets(u)) <= 1 + reopens[u]
        /\ reopens[u] \in Nat /\ reopens'[u] \in Nat
    BY <1>1, <1>2, <1>13, RunsShape DEF OpenTickets, OneOpenTicket
  <2>2. CASE u = t /\ reopens[t] < MaxReopen /\ reopens' = [reopens EXCEPT ![t] = @ + 1]
    <3>1. OpenTickets(u)' \subseteq OpenTickets(u) \union {i}
      BY <1>2, <1>6, <2>2 DEF OpenTickets
    <3>2. reopens'[u] = reopens[u] + 1
      BY <1>2, <1>13, <2>2
    <3>3. /\ Cardinality(OpenTickets(u)') \in Nat /\ Cardinality(OpenTickets(u)) \in Nat
          /\ Cardinality(OpenTickets(u)') <= Cardinality(OpenTickets(u)) + 1
      BY <2>1, <3>1, GrowsByOne
    <3> QED
      BY <2>1, <3>2, <3>3
  <2>3. CASE u # t \/ (to = "done" /\ UNCHANGED reopens)
    <3>1. OpenTickets(u)' \subseteq OpenTickets(u)
      BY <1>2, <1>5, <1>6, <2>3 DEF OpenTickets
    <3>2. reopens'[u] = reopens[u]
      BY <1>2, <1>3, <1>13, <2>3
    <3>3. /\ Cardinality(OpenTickets(u)') \in Nat /\ Cardinality(OpenTickets(u)) \in Nat
          /\ Cardinality(OpenTickets(u)') <= Cardinality(OpenTickets(u))
      BY <2>1, <3>1, NeverGrows
    <3> QED
      BY <2>1, <3>2, <3>3
  <2> QED
    BY <1>3, <2>2, <2>3
<1>12. ASSUME NEW u \in Tasks PROVE SlotInv(u)'
  <2>1. \A j \in DOMAIN runs[u] : runs'[u][j].slot = runs[u][j].slot
    BY <1>2, <1>5, <1>6
  <2>2. Len(runs[u]) \in Nat /\ DOMAIN runs[u] = 1..Len(runs[u]) /\ DOMAIN runs'[u] = DOMAIN runs[u] /\ Len(runs'[u]) = Len(runs[u])
    BY <1>1, <1>2, <1>6, RunsShape
  <2> QED
    BY <1>1, <1>7, <2>1, <2>2, SlotKept
<1> QED
  BY <1>8, <1>10, <1>11, <1>12 DEF SchedInv

\* The supervisor comes back: sessions are gone, running instances failed.
LEMMA SchedRestarts == ASSUME SchedInv, SchedRestart PROVE SchedInv'
<1> USE SchedulerAssumption
<1>1. SchedTypes /\ RunsFit /\ OneOpenTicket /\ OneFiring /\ GateOpen /\ OneFresh /\ LateBound /\ \A u \in Tasks : SlotInv(u)
  BY DEF SchedInv
<1>2. TicketTasks \subseteq Tasks /\ OneshotTasks \subseteq Tasks
  BY DEF Tasks
<1>3. UNCHANGED <<now, task, next, form, rewrites, slotless, resets, reopens>> /\ known' \in BOOLEAN /\ mishaps' = mishaps + 1 /\ mishaps' \in 0..MaxMishap /\ mishaps \in Nat
  BY <1>1 DEF SchedRestart, Mishap, SchedTypes
<1>4. \A u \in Tasks, i \in 1..MaxRuns : firing'[u][i] = Quiet
  BY DEF SchedRestart
<1>5. \A u \in Tasks : runs'[u] = [i \in DOMAIN runs[u] |-> [runs[u][i] EXCEPT !.inst = IF @ = "running" THEN "failed" ELSE @]]
  BY DEF SchedRestart
<1>6. ASSUME NEW u \in Tasks
      PROVE  /\ DOMAIN runs'[u] = DOMAIN runs[u] /\ Len(runs'[u]) = Len(runs[u]) /\ runs'[u] \in Seq(Run)
             /\ DOMAIN runs[u] = 1..Len(runs[u]) /\ Len(runs[u]) \in Nat /\ DOMAIN runs[u] \subseteq 1..MaxRuns
             /\ \A i \in DOMAIN runs[u] :
                    /\ runs'[u][i].slot = runs[u][i].slot /\ runs'[u][i].outcome = runs[u][i].outcome
                    /\ runs'[u][i].ticket = runs[u][i].ticket /\ runs'[u][i].event = runs[u][i].event
                    /\ runs'[u][i].inst = (IF runs[u][i].inst = "running" THEN "failed" ELSE runs[u][i].inst)
                    /\ runs'[u][i].structured = runs[u][i].structured
  <2>1. /\ DOMAIN runs[u] = 1..Len(runs[u]) /\ Len(runs[u]) \in Nat /\ \A i \in DOMAIN runs[u] : runs[u][i] \in Run
        /\ DOMAIN runs[u] \subseteq 1..MaxRuns
    BY <1>1, RunsShape
  <2>2. ASSUME NEW i \in DOMAIN runs[u]
        PROVE  /\ runs'[u][i] \in Run
               /\ runs'[u][i].slot = runs[u][i].slot /\ runs'[u][i].outcome = runs[u][i].outcome
               /\ runs'[u][i].ticket = runs[u][i].ticket /\ runs'[u][i].event = runs[u][i].event
               /\ runs'[u][i].inst = (IF runs[u][i].inst = "running" THEN "failed" ELSE runs[u][i].inst)
               /\ runs'[u][i].structured = runs[u][i].structured
    <3>1. PICK r \in Run : r = runs[u][i]
      BY <2>1
    <3>2. runs'[u][i] = [r EXCEPT !.inst = IF @ = "running" THEN "failed" ELSE @]
      BY ONLY <1>5, <3>1, u \in Tasks, i \in DOMAIN runs[u]
    <3> QED
      BY <3>1, <3>2 DEF Run
  <2>3. runs'[u] = [i \in 1..Len(runs[u]) |-> runs'[u][i]]
    BY <1>5, <2>1
  <2>4. runs'[u] \in Seq(Run)
    <3>1. PICK s : s = runs'[u]
      OBVIOUS
    <3>2. s = [i \in 1..Len(runs[u]) |-> s[i]] /\ \A i \in 1..Len(runs[u]) : s[i] \in Run
      BY <2>1, <2>2, <2>3, <3>1
    <3>3. s \in [1..Len(runs[u]) -> Run]
      BY <3>2
    <3> QED
      BY <2>1, <3>1, <3>3
  <2>5. DOMAIN runs'[u] = 1..Len(runs[u])
    BY ONLY <2>3
  <2>6. Len(runs'[u]) = Len(runs[u])
    BY ONLY <2>1, <2>4, <2>5
  <2> QED
    BY ONLY <2>1, <2>2, <2>4, <2>5, <2>6
<1>7. SchedTypes'
  <2>1. runs' = [u \in Tasks |-> runs'[u]] /\ firing' \in [Tasks -> [1..MaxRuns -> Pcs]]
    BY DEF SchedRestart, Pcs
  <2>2. runs' \in [Tasks -> Seq(Run)]
    BY <2>1, <1>6
  <2> QED
    BY <1>1, <1>3, <1>6, <2>1, <2>2 DEF SchedTypes
<1>8. RunsFit'
  <2> SUFFICES ASSUME NEW u \in OneshotTasks, NEW j \in 1..MaxRuns, j \in DOMAIN runs'[u]
               PROVE  RunFits(runs'[u][j], Quiet)
    BY <1>2, <1>4 DEF RunsFit, RunFits
  <2>1. RunFits(runs[u][j], firing[u][j]) /\ j \in DOMAIN runs[u]
    BY <1>1, <1>2, <1>6 DEF RunsFit
  <2>2. PICK r : r = runs[u][j]
    OBVIOUS
  <2>3. PICK r1 : r1 = runs'[u][j]
    OBVIOUS
  <2>4. /\ r1.outcome = r.outcome /\ r1.event = r.event /\ r1.structured = r.structured
        /\ r1.inst = (IF r.inst = "running" THEN "failed" ELSE r.inst)
    BY <1>2, <1>6, <2>1, <2>2, <2>3
  <2>5. RunFits(r1, Quiet)
    BY <2>1, <2>2, <2>4 DEF RunFits, Quiet
  <2> QED
    BY <2>3, <2>5
<1>9. OneOpenTicket' /\ OneFiring' /\ GateOpen' /\ OneFresh'
  <2>1. OneOpenTicket'
    <3>1. \A u \in TicketTasks : OpenTickets(u)' = OpenTickets(u)
      BY <1>2, <1>6 DEF OpenTickets
    <3> QED
      BY <1>1, <1>3, <3>1 DEF OneOpenTicket
  <2>2. OneFiring' /\ GateOpen'
    BY <1>2, <1>4 DEF OneFiring, GateOpen, Barred
  <2>3. OneFresh'
    <3> SUFFICES ASSUME NEW u \in OneshotTasks, NEW j \in DOMAIN runs'[u], NEW k \in DOMAIN runs'[u],
                        Fresh(runs'[u][j]), Fresh(runs'[u][k])
                 PROVE  j = k
      BY DEF OneFresh, Fresh
    <3>1. Fresh(runs[u][j]) /\ Fresh(runs[u][k]) /\ j \in DOMAIN runs[u] /\ k \in DOMAIN runs[u]
      BY <1>2, <1>6 DEF Fresh
    <3> QED
      BY <1>1, <3>1 DEF OneFresh
  <2> QED
    BY <2>1, <2>2, <2>3
<1>10. LateBound'
  <2> SUFFICES ASSUME NEW u \in OneshotTasks PROVE Cardinality(Late(u)') <= mishaps'
    BY DEF LateBound
  <2>1. Late(u) \subseteq 1..MaxRuns /\ Cardinality(Late(u)) <= mishaps
    BY <1>1, <1>2, <1>6 DEF Late, LateBound
  <2>2. ASSUME NEW j \in DOMAIN runs'[u], LateRun(runs'[u][j], firing'[u][j]), j \notin slotless'[u]
        PROVE  j \in Late(u) \/ (firing[u][j] # Quiet /\ j \notin slotless[u])
    <3>1. firing'[u][j] = Quiet /\ j \in DOMAIN runs[u]
      BY <1>2, <1>4, <1>6
    <3> QED
      BY <1>2, <1>3, <1>6, <2>2, <3>1 DEF Late, LateRun, Quiet
  <2>3. \A j \in Late(u)' : j \in Late(u) \/ (firing[u][j] # Quiet /\ j \notin slotless[u])
    BY <2>2 DEF Late, LateRun
  <2>4. Late(u)' \subseteq 1..MaxRuns
    BY <1>2, <1>6 DEF Late
  <2>5. \A j, k \in Late(u)' : /\ firing[u][j] # Quiet /\ j \notin slotless[u]
                                /\ firing[u][k] # Quiet /\ k \notin slotless[u] => j = k
    BY <1>1, <2>4 DEF OneFiring
  <2>6. \E x : Late(u)' \subseteq Late(u) \union {x}
    BY <2>3, <2>5
  <2>7. PICK x : Late(u)' \subseteq Late(u) \union {x}
    BY <2>6
  <2>8. /\ Cardinality(Late(u)') \in Nat /\ Cardinality(Late(u)) \in Nat
        /\ Cardinality(Late(u)') <= Cardinality(Late(u)) + 1
    BY <2>1, <2>7, GrowsByOne
  <2> QED
    BY <1>3, <2>1, <2>8
<1>11. ASSUME NEW u \in Tasks PROVE SlotInv(u)'
  BY <1>1, <1>3, <1>6, SlotKept
<1> QED
  BY <1>7, <1>8, <1>9, <1>10, <1>11 DEF SchedInv

\* A tick appends one run to each claimed task: none while one is in flight,
\* and the slot it writes down is behind the next one.
LEMMA SchedTicks == ASSUME SchedInv, TickOnce PROVE SchedInv'
<1> USE SchedulerAssumption
<1>1. SchedTypes /\ RunsFit /\ OneOpenTicket /\ OneFiring /\ GateOpen /\ OneFresh /\ LateBound /\ \A u \in Tasks : SlotInv(u)
  BY DEF SchedInv
<1>2. TicketTasks \subseteq Tasks /\ OneshotTasks \subseteq Tasks /\ \A u \in OneshotTasks : u \notin TicketTasks
  BY DEF Tasks
<1>3. PICK claimed \in SUBSET Due, room \in BOOLEAN :
        /\ runs' = [t \in Tasks |-> IF t \in claimed THEN Append(runs[t], FireClaimedTask(t, room)) ELSE runs[t]]
        /\ next' = [t \in Tasks |-> IF t \in claimed THEN Advanced(t, room) ELSE next[t]]
  BY DEF TickOnce
<1>4. UNCHANGED <<now, task, form, firing, rewrites, mishaps, slotless, known, resets, reopens>>
  BY DEF TickOnce, gateVars
<1>5. ASSUME NEW u \in Tasks
      PROVE  /\ runs[u] \in Seq(Run) /\ Len(runs[u]) \in Nat /\ DOMAIN runs[u] = 1..Len(runs[u])
             /\ DOMAIN runs[u] \subseteq 1..MaxRuns /\ next[u] \in Nat /\ now \in Nat
             /\ FireClaimedTask(u, room) \in Run /\ FireClaimedTask(u, room).slot = next[u]
             /\ FireClaimedTask(u, room).inst = "none" /\ ~FireClaimedTask(u, room).structured
             /\ FireClaimedTask(u, room).ticket = "open" => u \in TicketTasks /\ ~TicketOverlap(u)
             /\ u \in OneshotTasks =>
                  \/ /\ FireClaimedTask(u, room).outcome = "skipped_overlap" /\ FireClaimedTask(u, room).event = "none"
                  \/ /\ FireClaimedTask(u, room).outcome = "fired" /\ FireClaimedTask(u, room).event = "open"
                     /\ ~OneshotOverlap(u)
  <2>1. /\ runs[u] \in Seq(Run) /\ Len(runs[u]) \in Nat /\ DOMAIN runs[u] = 1..Len(runs[u])
        /\ DOMAIN runs[u] \subseteq 1..MaxRuns /\ next[u] \in Nat /\ now \in Nat
    BY <1>1, RunsShape DEF SchedTypes
  <2>2. ASSUME NEW o \in {"fired", "skipped_overlap", "gate_deferred"}
        PROVE  /\ InsertRun(u, o) \in Run /\ InsertRun(u, o).slot = next[u] /\ InsertRun(u, o).outcome = o
               /\ InsertRun(u, o).inst = "none" /\ InsertRun(u, o).structured = FALSE
               /\ InsertRun(u, o).ticket = (IF o = "fired" /\ u \in TicketTasks THEN "open" ELSE "none")
               /\ InsertRun(u, o).event = (IF o = "fired" /\ u \in OneshotTasks THEN "open" ELSE "none")
    BY <2>1 DEF InsertRun, Run
  <2>3. CASE HasOverlap(u)
    <3>1. FireClaimedTask(u, room) = InsertRun(u, "skipped_overlap")
      BY <2>3 DEF FireClaimedTask
    <3> QED
      BY <2>1, <2>2, <3>1
  <2>4. CASE ~HasOverlap(u) /\ u \in TicketTasks /\ ~room
    <3>1. FireClaimedTask(u, room) = InsertRun(u, "gate_deferred")
      BY <2>4 DEF FireClaimedTask
    <3> QED
      BY <1>2, <2>1, <2>2, <2>4, <3>1
  <2>5. CASE ~HasOverlap(u) /\ ~(u \in TicketTasks /\ ~room)
    <3>1. FireClaimedTask(u, room) = InsertRun(u, "fired")
      BY <2>5 DEF FireClaimedTask
    <3>2. u \in TicketTasks => ~TicketOverlap(u)
      BY <2>5 DEF HasOverlap
    <3>3. u \in OneshotTasks => ~OneshotOverlap(u)
      BY <1>2, <2>5 DEF HasOverlap
    <3> QED
      BY <2>1, <2>2, <3>1, <3>2, <3>3
  <2> QED
    BY <2>3, <2>4, <2>5
<1>6. ASSUME NEW u \in Tasks, u \notin claimed PROVE runs'[u] = runs[u] /\ next'[u] = next[u]
  BY <1>3, <1>6
<1>7. ASSUME NEW u \in Tasks, u \in claimed
      PROVE  /\ runs'[u] = Append(runs[u], FireClaimedTask(u, room)) /\ next'[u] = now + Period
             /\ runs'[u] \in Seq(Run) /\ Len(runs'[u]) = Len(runs[u]) + 1
             /\ DOMAIN runs'[u] = 1..(Len(runs[u]) + 1)
             /\ Len(runs[u]) < MaxRuns /\ next[u] <= now /\ task[u] = "live"
             /\ \A j \in 1..Len(runs[u]) : runs'[u][j] = runs[u][j]
             /\ runs'[u][Len(runs[u]) + 1] = FireClaimedTask(u, room)
  <2>1. Len(runs[u]) < MaxRuns /\ next[u] <= now /\ task[u] = "live"
    BY <1>3, <1>7 DEF Due
  <2>2. runs'[u] = Append(runs[u], FireClaimedTask(u, room)) /\ next'[u] = now + Period
    BY <1>3, <1>7 DEF Advanced, NextFire
  <2>3. PICK s \in Seq(Run), x \in Run : s = runs[u] /\ x = FireClaimedTask(u, room)
    BY <1>5
  <2>4. /\ Append(s, x) \in Seq(Run) /\ Len(Append(s, x)) = Len(s) + 1
        /\ DOMAIN Append(s, x) = 1..(Len(s) + 1) /\ Append(s, x)[Len(s) + 1] = x
        /\ \A j \in 1..Len(s) : Append(s, x)[j] = s[j]
    OBVIOUS
  <2> QED
    BY <2>1, <2>2, <2>3, <2>4
<1>8. SchedTypes'
  <2>1. \A u \in Tasks : runs'[u] \in Seq(Run) /\ next'[u] \in Nat /\ Len(runs'[u]) <= MaxRuns
    <3> SUFFICES ASSUME NEW u \in Tasks PROVE runs'[u] \in Seq(Run) /\ next'[u] \in Nat /\ Len(runs'[u]) <= MaxRuns
      OBVIOUS
    <3>1. CASE u \in claimed
      BY <1>5, <1>7, <3>1
    <3>2. CASE u \notin claimed
      BY <1>1, <1>5, <1>6, <3>2 DEF SchedTypes
    <3> QED
      BY <3>1, <3>2
  <2>2. runs' = [u \in Tasks |-> runs'[u]] /\ next' = [u \in Tasks |-> next'[u]]
    BY <1>3
  <2>3. runs' \in [Tasks -> Seq(Run)] /\ next' \in [Tasks -> Nat]
    BY <2>1, <2>2
  <2> QED
    BY <1>1, <1>4, <2>1, <2>3 DEF SchedTypes
<1>9. RunsFit'
  <2> SUFFICES ASSUME NEW u \in OneshotTasks, NEW j \in 1..MaxRuns
               PROVE  IF j \in DOMAIN runs'[u] THEN RunFits(runs'[u][j], firing'[u][j]) ELSE firing'[u][j] = Quiet
    BY DEF RunsFit, RunFits
  <2>1. IF j \in DOMAIN runs[u] THEN RunFits(runs[u][j], firing[u][j]) ELSE firing[u][j] = Quiet
    BY <1>1 DEF RunsFit
  <2>2. CASE u \notin claimed
    BY <1>2, <1>4, <1>6, <2>1, <2>2
  <2>3. CASE u \in claimed /\ j # Len(runs[u]) + 1
    <3>1. j \in DOMAIN runs'[u] <=> j \in DOMAIN runs[u]
      BY <1>2, <1>5, <1>7, <2>3
    <3>2. j \in DOMAIN runs[u] => runs'[u][j] = runs[u][j]
      BY <1>2, <1>5, <1>7, <2>3
    <3> QED
      BY <1>4, <2>1, <3>1, <3>2
  <2>4. CASE u \in claimed /\ j = Len(runs[u]) + 1
    <3>1. firing[u][j] = Quiet /\ j \in DOMAIN runs'[u] /\ runs'[u][j] = FireClaimedTask(u, room)
      BY <1>2, <1>5, <1>7, <2>1, <2>4
    <3>2. PICK r : r = FireClaimedTask(u, room)
      OBVIOUS
    <3>3. /\ r.inst = "none" /\ ~r.structured
          /\ \/ r.outcome = "skipped_overlap" /\ r.event = "none"
             \/ r.outcome = "fired" /\ r.event = "open"
      BY <1>2, <1>5, <3>2
    <3>4. RunFits(r, Quiet)
      BY <3>3 DEF RunFits, Quiet
    <3> QED
      BY <1>4, <3>1, <3>2, <3>4
  <2> QED
    BY <2>2, <2>3, <2>4
<1>10. OneOpenTicket'
  <2> SUFFICES ASSUME NEW u \in TicketTasks PROVE Cardinality(OpenTickets(u)') <= 1 + reopens[u]
    BY <1>4 DEF OneOpenTicket
  <2>0. OpenTickets(u) \subseteq 1..MaxRuns /\ Cardinality(OpenTickets(u)) <= 1 + reopens[u] /\ reopens[u] \in Nat
    BY <1>1, <1>2, RunsShape DEF OpenTickets, OneOpenTicket, SchedTypes
  <2>1. CASE u \notin claimed
    <3>1. OpenTickets(u)' = OpenTickets(u)
      BY <1>2, <1>6, <2>1 DEF OpenTickets
    <3> QED
      BY <2>0, <3>1
  <2>2. CASE u \in claimed
    <3>1. FireClaimedTask(u, room).ticket = "open" => \A i \in 1..Len(runs[u]) : runs[u][i].ticket # "open"
      BY <1>2, <1>5 DEF TicketOverlap
    <3>2. \A i \in 1..Len(runs[u]) : runs'[u][i] = runs[u][i]
      BY <1>2, <1>7, <2>2
    <3>3. DOMAIN runs'[u] = 1..(Len(runs[u]) + 1) /\ Len(runs[u]) \in Nat /\ DOMAIN runs[u] = 1..Len(runs[u])
          /\ runs'[u][Len(runs[u]) + 1] = FireClaimedTask(u, room)
      BY <1>2, <1>5, <1>7, <2>2
    <3>4. CASE FireClaimedTask(u, room).ticket # "open"
      <4>1. OpenTickets(u)' \subseteq OpenTickets(u)
        BY <3>2, <3>3, <3>4 DEF OpenTickets
      <4>2. /\ Cardinality(OpenTickets(u)') \in Nat /\ Cardinality(OpenTickets(u)) \in Nat
            /\ Cardinality(OpenTickets(u)') <= Cardinality(OpenTickets(u))
        BY <2>0, <4>1, NeverGrows
      <4> QED
        BY <2>0, <4>2
    <3>5. CASE FireClaimedTask(u, room).ticket = "open"
      <4>1. OpenTickets(u)' \subseteq {Len(runs[u]) + 1}
        BY <3>1, <3>2, <3>3, <3>5 DEF OpenTickets
      <4>2. Cardinality(OpenTickets(u)') \in Nat /\ Cardinality(OpenTickets(u)') <= 1
        <5>1. OpenTickets(u)' \subseteq 1..(Len(runs[u]) + 1) /\ Len(runs[u]) + 1 \in Nat
          BY <3>3, <4>1
        <5>2. \A i, j \in OpenTickets(u)' : i = j
          BY <4>1
        <5>3. Cardinality(OpenTickets(u)') <= 1
          BY <5>1, <5>2, AtMostOne
        <5>4. Cardinality(OpenTickets(u)') \in Nat
          BY <5>1, RowsFinite
        <5> QED
          BY <5>3, <5>4
      <4> QED
        BY <2>0, <4>2
    <3> QED
      BY <3>4, <3>5
  <2> QED
    BY <2>1, <2>2
<1>11. OneFiring' /\ GateOpen'
  BY <1>1, <1>4 DEF OneFiring, GateOpen, Barred
<1>12. OneFresh'
  <2> SUFFICES ASSUME NEW u \in OneshotTasks, NEW j \in DOMAIN runs'[u], NEW k \in DOMAIN runs'[u],
                      Fresh(runs'[u][j]), Fresh(runs'[u][k])
               PROVE  j = k
    BY DEF OneFresh, Fresh
  <2>1. CASE u \notin claimed
    BY <1>1, <1>2, <1>6, <2>1 DEF OneFresh
  <2>2. CASE u \in claimed
    <3>1. FireClaimedTask(u, room).event = "open" => \A i \in 1..Len(runs[u]) : ~Fresh(runs[u][i])
      <4> SUFFICES ASSUME FireClaimedTask(u, room).event = "open", NEW i \in 1..Len(runs[u]), Fresh(runs[u][i]) PROVE FALSE
        OBVIOUS
      <4>1. i \in DOMAIN runs[u] /\ i \in 1..MaxRuns /\ runs[u][i] \in Run
        BY <1>1, <1>2, RunsShape
      <4>2. ~OneshotOverlap(u)
        BY <1>2, <1>5
      <4>3. RunFits(runs[u][i], firing[u][i])
        BY <1>1, <4>1 DEF RunsFit
      <4>4. runs[u][i].outcome \in {"fired", "skipped_overlap", "gate_deferred", "failed"}
        BY <4>1 DEF Run
      <4>5. runs[u][i].outcome \in {"fired", "gate_deferred"} /\ runs[u][i].inst = "none"
        BY <4>3, <4>4 DEF RunFits, Fresh
      <4> QED
        BY <4>1, <4>2, <4>5 DEF OneshotOverlap
    <3>2. \A i \in 1..Len(runs[u]) : runs'[u][i] = runs[u][i]
      BY <1>2, <1>7, <2>2
    <3>3. j \in 1..(Len(runs[u]) + 1) /\ k \in 1..(Len(runs[u]) + 1) /\ Len(runs[u]) \in Nat
          /\ runs'[u][Len(runs[u]) + 1] = FireClaimedTask(u, room)
      BY <1>2, <1>5, <1>7, <2>2
    <3>4. CASE j \in 1..Len(runs[u]) /\ k \in 1..Len(runs[u])
      BY <1>1, <1>2, <1>5, <3>2, <3>4 DEF OneFresh
    <3>5. CASE j = Len(runs[u]) + 1 \/ k = Len(runs[u]) + 1
      <4>1. FireClaimedTask(u, room).event = "open"
        BY <3>3, <3>5 DEF Fresh
      <4> QED
        BY <3>1, <3>2, <3>3, <3>5, <4>1
    <3> QED
      BY <3>3, <3>4, <3>5
  <2> QED
    BY <2>1, <2>2
<1>13. LateBound'
  <2> SUFFICES ASSUME NEW u \in OneshotTasks PROVE Cardinality(Late(u)') <= mishaps'
    BY DEF LateBound
  <2>1. Late(u) \subseteq 1..MaxRuns /\ Cardinality(Late(u)) <= mishaps /\ mishaps \in Nat
    <3>1. DOMAIN runs[u] \subseteq 1..MaxRuns
      BY <1>1, <1>2, RunsShape
    <3>2. Cardinality(Late(u)) <= mishaps
      BY <1>1 DEF LateBound
    <3>3. mishaps \in Nat
      BY <1>1 DEF SchedTypes
    <3>4. Late(u) \subseteq DOMAIN runs[u]
      BY DEF Late
    <3> QED
      BY <3>1, <3>2, <3>3, <3>4
  <2>2. Late(u)' \subseteq Late(u)
    <3> SUFFICES ASSUME NEW j \in DOMAIN runs'[u], LateRun(runs'[u][j], firing'[u][j]), j \notin slotless'[u]
                 PROVE  j \in Late(u)
      BY DEF Late, LateRun
    <3>1. CASE u \notin claimed
      BY <1>2, <1>4, <1>6, <3>1 DEF Late
    <3>2. CASE u \in claimed /\ j \in 1..Len(runs[u])
      <4>1. runs'[u][j] = runs[u][j] /\ j \in DOMAIN runs[u]
        BY <1>2, <1>5, <1>7, <3>2
      <4> QED
        BY <1>4, <4>1 DEF Late
    <3>3. CASE u \in claimed /\ j = Len(runs[u]) + 1
      <4>1. j \in 1..MaxRuns /\ j \notin DOMAIN runs[u] /\ runs'[u][j].inst = "none"
        BY <1>2, <1>5, <1>7, <3>3
      <4>2. firing[u][j] = Quiet
        BY <1>1, <4>1 DEF RunsFit
      <4> QED
        BY <1>4, <4>1, <4>2 DEF LateRun, Quiet
    <3>4. u \in claimed => j \in 1..Len(runs[u]) \/ j = Len(runs[u]) + 1
      BY <1>2, <1>5, <1>7
    <3> QED
      BY <3>1, <3>2, <3>3, <3>4
  <2>3. /\ Cardinality(Late(u)') \in Nat /\ Cardinality(Late(u)) \in Nat
        /\ Cardinality(Late(u)') <= Cardinality(Late(u))
    BY <2>1, <2>2, NeverGrows
  <2> QED
    BY <1>4, <2>1, <2>3
<1>14. ASSUME NEW u \in Tasks PROVE SlotInv(u)'
  <2>1. CASE u \notin claimed
    <3>1. runs'[u] = runs[u] /\ next'[u] = next[u] /\ task' = task /\ rewrites' = rewrites
      BY <1>4, <1>6, <2>1
    <3>2. Back(u)' = Back(u) /\ (Ahead(u)' <=> Ahead(u))
      BY <3>1 DEF Back, Ahead
    <3> QED
      BY <1>1, <3>1, <3>2 DEF SlotInv
  <2>2. CASE u \in claimed
    <3>1. PICK n \in Nat : n = Len(runs[u])
      BY <1>5
    <3>2. /\ \A j \in 1..n : runs'[u][j] = runs[u][j]
          /\ runs'[u][n + 1].slot = next[u] /\ DOMAIN runs[u] = 1..n /\ DOMAIN runs'[u] = 1..(n + 1)
          /\ Len(runs'[u]) = n + 1 /\ next'[u] = now + Period /\ next[u] <= now /\ next[u] \in Nat /\ now \in Nat
          /\ task'[u] = "live" /\ 1..n \subseteq 1..MaxRuns
      BY <1>4, <1>5, <1>7, <2>2, <3>1
    <3>3. Ahead(u)'
      <4>1. next[u] < now + Period
        BY <3>2
      <4> QED
        BY <3>2, <4>1 DEF Ahead
    <3>4. rewrites'[u] = rewrites[u] /\ rewrites[u] \in Nat
      BY <1>1, <1>4 DEF SchedTypes
    <3>5. Back(u) \subseteq 1..n
      BY <3>2 DEF Back
    <3>6. ASSUME NEW j \in Back(u)', j # n + 1 PROVE j \in Back(u)
      <4>1. j \in 1..n /\ j > 1 /\ runs'[u][j].slot <= runs'[u][j - 1].slot
        BY <3>2, <3>6 DEF Back
      <4>2. j - 1 \in 1..n
        BY <4>1
      <4> QED
        BY <3>2, <4>1, <4>2 DEF Back
    <3>7. CASE Ahead(u)
      <4>1. n + 1 \notin Back(u)'
        <5> SUFFICES ASSUME n + 1 > 1, runs'[u][n + 1].slot <= runs'[u][n].slot PROVE FALSE
          BY <3>2 DEF Back
        <5>1. n \in 1..n /\ runs[u][n].slot < next[u]
          BY <3>1, <3>7 DEF Ahead
        <5>2. runs[u][n].slot \in Nat
          <6>1. runs[u][n] \in Run
            BY <1>1, <3>2, <5>1, RunsShape
          <6> QED
            BY <6>1 DEF Run
        <5>3. runs'[u][n] = runs[u][n]
          BY <3>2, <5>1
        <5>4. next[u] <= runs[u][n].slot /\ next[u] \in Nat
          BY <3>2, <5>3
        <5> QED
          BY <5>1, <5>2, <5>4
      <4>2. Back(u)' \subseteq Back(u)
        BY <3>6, <4>1
      <4>3. Cardinality(Back(u)') \in Nat /\ Cardinality(Back(u)) \in Nat /\ Cardinality(Back(u)') <= Cardinality(Back(u))
        BY <3>5, <4>2, NeverGrows
      <4>4. Cardinality(Back(u)) <= rewrites[u]
        BY <1>1 DEF SlotInv
      <4> QED
        BY <3>2, <3>3, <3>4, <4>3, <4>4 DEF SlotInv
    <3>8. CASE ~Ahead(u)
      <4>1. Back(u)' \subseteq Back(u) \union {n + 1}
        BY <3>6
      <4>2. Cardinality(Back(u)') \in Nat /\ Cardinality(Back(u)) \in Nat /\ Cardinality(Back(u)') <= Cardinality(Back(u)) + 1
        BY <3>5, <4>1, GrowsByOne
      <4>3. Cardinality(Back(u)) < rewrites[u]
        BY <1>1, <3>8 DEF SlotInv
      <4> QED
        BY <3>2, <3>3, <3>4, <4>2, <4>3 DEF SlotInv
    <3> QED
      BY <3>7, <3>8
  <2> QED
    BY <2>1, <2>2
<1> QED
  BY <1>8, <1>9, <1>10, <1>11, <1>12, <1>13, <1>14 DEF SchedInv

\* Steps that touch neither runs nor sessions: the clock, and the changes to
\* a task.  Only a form that is written may bring a slot back.
LEMMA SchedTaskStep ==
    ASSUME SchedInv, UNCHANGED <<runs, firing, mishaps, slotless, reopens>>, SchedTypes',
           UNCHANGED <<known, resets>> \/ resets' # 0,
           NEW t \in Tasks,
           \A u \in Tasks : u # t => task'[u] = task[u] /\ next'[u] = next[u] /\ rewrites'[u] = rewrites[u],
           task'[t] = "none" => task[t] = "none",
           \/ next'[t] = next[t] /\ rewrites'[t] = rewrites[t]
           \/ task[t] = "none" /\ rewrites'[t] = rewrites[t]
           \/ rewrites'[t] = rewrites[t] + 1
    PROVE  SchedInv'
<1> USE SchedulerAssumption
<1>1. SchedTypes /\ RunsFit /\ OneOpenTicket /\ OneFiring /\ GateOpen /\ OneFresh /\ LateBound /\ \A u \in Tasks : SlotInv(u)
  BY DEF SchedInv
<1>2. RunsFit' /\ OneOpenTicket'
  BY <1>1 DEF RunsFit, RunFits, OneOpenTicket, OpenTickets
<1>3. OneFiring' /\ GateOpen' /\ OneFresh'
  BY <1>1 DEF OneFiring, GateOpen, Barred, OneFresh, Fresh
<1>4. LateBound'
  <2> SUFFICES ASSUME NEW u \in OneshotTasks PROVE Cardinality(Late(u)') <= mishaps'
    BY DEF LateBound
  <2>1. Late(u)' = Late(u)
    BY DEF Late, LateRun
  <2> QED
    BY <1>1, <2>1 DEF LateBound
<1>5. ASSUME NEW u \in Tasks PROVE SlotInv(u)'
  <2>1. Back(u)' = Back(u) /\ SlotInv(u)
    BY <1>1 DEF Back
  <2>2. CASE u # t \/ (next'[t] = next[t] /\ rewrites'[t] = rewrites[t])
    <3>1. next'[u] = next[u] /\ rewrites'[u] = rewrites[u] /\ (task'[u] = "none" => task[u] = "none")
      BY <2>2
    <3>2. Ahead(u)' <=> Ahead(u)
      BY <3>1 DEF Ahead
    <3> QED
      BY <2>1, <3>1, <3>2 DEF SlotInv
  <2>3. CASE u = t /\ task[t] = "none" /\ rewrites'[t] = rewrites[t]
    <3>1. Len(runs[u]) = 0
      BY <2>1, <2>3 DEF SlotInv
    <3>2. Ahead(u)'
      BY <3>1 DEF Ahead
    <3> QED
      BY <2>1, <2>3, <3>1, <3>2 DEF SlotInv
  <2>4. CASE u = t /\ rewrites'[t] = rewrites[t] + 1
    <3>1. rewrites[t] \in Nat /\ Back(u) \subseteq 1..MaxRuns
      BY <1>1, RunsShape DEF SchedTypes, Back
    <3>2. Cardinality(Back(u)) \in Nat
      BY <3>1, RowsFinite
    <3>3. task'[u] = "none" => Len(runs[u]) = 0
      BY <2>1, <2>4 DEF SlotInv
    <3>4. Cardinality(Back(u)) <= rewrites[t]
      BY <2>1, <2>4 DEF SlotInv
    <3>5. Cardinality(Back(u)) < rewrites'[u]
      BY <2>4, <3>1, <3>2, <3>4
    <3>6. Cardinality(Back(u)) <= rewrites'[u]
      BY <2>4, <3>1, <3>2, <3>4
    <3> QED
      BY <2>1, <3>3, <3>5, <3>6 DEF SlotInv
  <2> QED
    BY <2>2, <2>3, <2>4
<1> QED
  BY <1>2, <1>3, <1>4, <1>5 DEF SchedInv

\* Every step of the scheduler keeps the invariant.
LEMMA SchedInvStep == SchedInv /\ [SchedNext]_schedVars => SchedInv'
<1> SUFFICES ASSUME SchedInv, [SchedNext]_schedVars PROVE SchedInv'
  OBVIOUS
<1> USE SchedulerAssumption
<1>1. SchedTypes
  BY DEF SchedInv
<1>2. ASSUME UNCHANGED <<task, next, runs, form, firing, rewrites, mishaps, slotless, reopens>>, SchedTypes',
             UNCHANGED <<known, resets>> \/ resets' # 0
      PROVE  SchedInv'
  <2>1. SchedTypes'
    BY <1>2
  <2>2. CASE Tasks = {}
    <3>1. OneshotTasks = {} /\ TicketTasks = {}
      BY <2>2 DEF Tasks
    <3> QED
      BY <2>1, <2>2, <3>1 DEF SchedInv, RunsFit, OneOpenTicket, OneFiring, GateOpen, OneFresh, LateBound
  <2>3. CASE Tasks # {}
    <3>1. PICK t \in Tasks : TRUE
      BY <2>3
    <3> QED
      BY <1>2, <2>1, <3>1, SchedTaskStep
  <2> QED
    BY <2>2, <2>3
<1>3. CASE UNCHANGED schedVars
  BY <1>1, <1>2, <1>3 DEF schedVars, gateVars, SchedTypes
<1>4. CASE SchedTimePasses
  BY <1>1, <1>2, <1>4 DEF SchedTimePasses, SchedTypes, gateVars
<1>10. ASSUME NEW active \in BOOLEAN, CacheReset(active) PROVE SchedInv'
  <2>1. SchedTypes' /\ resets' # 0
    BY <1>1, <1>10 DEF CacheReset, SchedTypes
  <2> QED
    BY <1>2, <1>10, <2>1 DEF CacheReset
<1>5. ASSUME NEW t \in Tasks, CreateScheduledTask(t) PROVE SchedInv'
  <2>1. SchedTypes'
    BY <1>1, <1>5 DEF gateVars, CreateScheduledTask, NextFire, SchedTypes
  <2> QED
    BY <1>1, <1>5, <2>1, SchedTaskStep DEF gateVars, CreateScheduledTask, ValidTask, SchedTypes
<1>6. ASSUME NEW t \in Tasks, PauseScheduledTask(t) PROVE SchedInv'
  <2>1. SchedTypes'
    BY <1>1, <1>6 DEF gateVars, PauseScheduledTask, SchedTypes
  <2> QED
    BY <1>1, <1>6, <2>1, SchedTaskStep DEF gateVars, PauseScheduledTask, SchedTypes
<1>7. ASSUME NEW t \in Tasks, ValidateForm(t) PROVE SchedInv'
  <2>1. SchedTypes'
    BY <1>1, <1>7 DEF gateVars, ValidateForm, NextFire, SchedTypes, NoForm
  <2> QED
    BY <1>1, <1>7, <2>1, SchedTaskStep DEF gateVars, ValidateForm, SchedTypes
<1>8. ASSUME NEW t \in Tasks, DeleteScheduledTask(t) PROVE SchedInv'
  <2>1. SchedTypes'
    BY <1>1, <1>8 DEF gateVars, DeleteScheduledTask, SchedTypes
  <2> QED
    BY <1>1, <1>8, <2>1, SchedTaskStep DEF gateVars, DeleteScheduledTask, SchedTypes
<1>9. ASSUME NEW t \in Tasks, WriteForm(t) PROVE SchedInv'
  <2>1. form[t] \in Nat /\ form' \in [Tasks -> {NoForm} \union Nat] /\ form'[t] = NoForm /\ \A u \in Tasks : u # t => form'[u] = form[u]
    BY <1>1, <1>9 DEF gateVars, WriteForm, SchedTypes
  <2>2. CASE task[t] = "deleted" /\ UNCHANGED <<task, next, rewrites>>
    <3>1. SchedTypes'
      BY <1>1, <1>9, <2>1, <2>2 DEF gateVars, WriteForm, SchedTypes
    <3> QED
      BY <1>9, <2>2, <3>1, SchedTaskStep DEF gateVars, WriteForm
  <2>3. CASE task[t] # "deleted"
    <3>1. /\ task' = [task EXCEPT ![t] = "live"] /\ next' = [next EXCEPT ![t] = form[t]]
          /\ rewrites' = [rewrites EXCEPT ![t] = @ + 1]
      BY <1>9, <2>3 DEF gateVars, WriteForm
    <3>2. rewrites[t] < MaxRewrite
      BY <1>1, <1>9 DEF gateVars, WriteForm, SchedTypes
    <3>3. SchedTypes'
      BY <1>1, <1>9, <2>1, <3>1, <3>2 DEF gateVars, WriteForm, SchedTypes
    <3> QED
      BY <1>1, <1>9, <3>1, <3>3, SchedTaskStep DEF gateVars, WriteForm, SchedTypes
  <2> QED
    BY <1>9, <2>2, <2>3 DEF gateVars, WriteForm
<1> QED
  BY <1>3, <1>4, <1>5, <1>6, <1>7, <1>8, <1>9, <1>10, SchedTicks, SchedTicketMoves, SchedOneshot, SchedRestarts DEF SchedNext

\* A run with a stored outcome starts no further session.
LEMMA OutcomeEnds ==
    SchedInv /\ [SchedNext]_schedVars =>
        \A t \in OneshotTasks, i \in 1..MaxRuns :
            i \in DOMAIN runs[t] /\ runs[t][i].structured => firing'[t][i] \in {Quiet, firing[t][i]}
<1> SUFFICES ASSUME SchedInv, [SchedNext]_schedVars, NEW t \in OneshotTasks, NEW i \in 1..MaxRuns,
                    i \in DOMAIN runs[t], runs[t][i].structured
             PROVE  firing'[t][i] \in {Quiet, firing[t][i]}
  OBVIOUS
<1>1. SchedTypes /\ RunsFit /\ t \in Tasks
  BY DEF SchedInv, Tasks
<1>2. runs[t][i].event = "processed" /\ firing[t][i] \in {Quiet, "unwritten"}
  <2>1. RunFits(runs[t][i], firing[t][i])
    BY <1>1 DEF RunsFit
  <2>2. firing[t][i] \in Pcs
    BY <1>1 DEF SchedTypes
  <2> QED
    BY <2>1, <2>2 DEF RunFits, Pcs
<1>3. CASE UNCHANGED firing
  BY <1>3
<1>4. CASE SchedRestart
  BY <1>1, <1>4 DEF SchedRestart
<1>5. ASSUME NEW u \in OneshotTasks, NEW j \in 1..MaxRuns, OneshotStep(u, j)
      PROVE  firing'[t][i] \in {Quiet, firing[t][i]}
  <2>1. firing \in [Tasks -> [1..MaxRuns -> Pcs]] /\ u \in Tasks
    BY <1>1 DEF SchedTypes, Tasks
  <2>2. CASE UNCHANGED firing
    BY <2>2
  <2>3. ASSUME NEW f, firing' = [firing EXCEPT ![u][j] = f], ~(u = t /\ j = i) PROVE firing'[t][i] = firing[t][i]
    BY <1>1, <2>1, <2>3
  <2>4. CASE u = t /\ j = i
    <3>1. ~OneshotDelivered(u, j)
      BY <1>2, <2>4 DEF OneshotDelivered
    <3>2. FailOneshotWrite(u, j) \/ OneshotWriteLost(u, j)
      BY <1>2, <1>5, <2>4, <3>1 DEF OneshotStep, DeferOneshot, InsertOneshotRunning, PrepareOneshotRun, LaunchOneshot,
         FailRunOutcome, TerminalWrite, WriteFinalizeOneshot, FinalizeWriteFails, Quiet
    <3>3. firing' = [firing EXCEPT ![t][i] = Quiet]
      BY <2>4, <3>2 DEF FailOneshotWrite, OneshotWriteLost
    <3> QED
      BY <1>1, <2>1, <3>3
  <2>5. UNCHANGED firing \/ \E f : firing' = [firing EXCEPT ![u][j] = f]
    BY <1>5 DEF OneshotStep, DeferOneshot, InsertOneshotRunning, PrepareOneshotRun, LaunchOneshot, FailRunOutcome,
       TerminalWrite, WriteFinalizeOneshot, FinalizeWriteFails, FailOneshotWrite, OneshotWriteLost
  <2> QED
    BY <2>2, <2>3, <2>4, <2>5
<1> QED
  BY <1>3, <1>4, <1>5 DEF SchedNext, schedVars, SchedTimePasses, TickOnce, CreateScheduledTask, PauseScheduledTask,
     ValidateForm, WriteForm, DeleteScheduledTask, TicketReachesDone,
     ReopenTicket, CacheReset

-----------------------------------------------------------------------------
(***************************************************************************)
(* Hygiene.                                                                *)
(***************************************************************************)
HygInv ==
    /\ moves \in Seq(Move) /\ Len(moves) <= MaxTransition
    /\ aged \in 0..Len(moves)
    /\ handling \in [1..MaxTransition -> {Idle, Waits} \union Statuses]
    /\ sweep \in [batch : SUBSET (1..MaxTransition), verdict : {Idle} \union Statuses]
    /\ sweep.batch \subseteq 1..Len(moves) /\ Cardinality(sweep.batch) <= SweepLimit
    /\ linked \in BOOLEAN /\ palaceUp \in BOOLEAN
    /\ hygFaults \in 0..MaxHygFault

\* The invariant is the type invariant, in a form steps preserve.
LEMMA HygSafe == HygInv => HygTypeOK
<1> SUFFICES ASSUME HygInv PROVE HygTypeOK
  OBVIOUS
<1>1. DOMAIN moves = 1..Len(moves) /\ \A i \in DOMAIN moves : moves[i] \in Move
  BY DEF HygInv
<1> QED
  BY <1>1 DEF HygInv, HygTypeOK

\* At first there are no rows.
LEMMA HygInvInit == HygInit => HygInv
<1> SUFFICES ASSUME HygInit PROVE HygInv
  OBVIOUS
<1>1. Cardinality({}) = 0 /\ Len(<<>>) = 0 /\ <<>> \in Seq(Move)
  BY FS_EmptySet
<1>2. sweep = [batch |-> {}, verdict |-> Idle]
  BY DEF HygInit, NoSweep
<1>3. sweep.batch = {} /\ sweep.verdict = Idle /\ sweep \in [batch : SUBSET (1..MaxTransition), verdict : {Idle} \union Statuses]
  BY <1>2
<1>4. Cardinality(sweep.batch) <= SweepLimit
  BY <1>1, <1>3, HygieneAssumption
<1> QED
  BY <1>1, <1>3, <1>4, HygieneAssumption DEF HygInit, HygInv

\* Whatever the palace answers, a verdict is a status.
LEMMA VerdictType ==
    ASSUME NEW m, NEW v \in HygVerdicts(m)
    PROVE  v \in Statuses
<1>1. \A kgErr \in BOOLEAN : Evaluate(m, kgErr) \in Statuses
  BY DEF Evaluate, Statuses
<1>2. EvaluateFinalizeOutcome(ExitReason(m.writer)) \in Statuses
  BY DEF EvaluateFinalizeOutcome, ExitReason, Statuses, Unjudged
<1>3. "pending" \in Statuses
  BY DEF Statuses, Unjudged
<1> QED
  BY <1>1, <1>2, <1>3 DEF HygVerdicts

\* The UPDATE keeps the rows and every verdict there is.
LEMMA UpdateKeeps ==
    ASSUME moves \in Seq(Move), NEW i, NEW s \in Statuses, UpdateTransitionHygiene(i, s)
    PROVE  /\ moves' \in Seq(Move) /\ Len(moves') = Len(moves)
           /\ \A j \in DOMAIN moves : moves[j].status \notin Unjudged => moves'[j].status = moves[j].status
<1>1. CASE i \notin DOMAIN moves
  <2>1. moves' = moves
    BY <1>1 DEF UpdateTransitionHygiene
  <2> QED
    BY <2>1
<1>2. CASE i \in DOMAIN moves
  <2>1. PICK m \in Move : m = moves[i]
    BY <1>2
  <2>2. PICK n : n = [m EXCEPT !.status = IF @ \in Unjudged THEN s ELSE @]
    OBVIOUS
  <2>3. n \in Move /\ n.status = (IF m.status \in Unjudged THEN s ELSE m.status)
    BY <2>2 DEF Move
  <2>4. moves' = [moves EXCEPT ![i] = n]
    BY <1>2, <2>1, <2>2 DEF UpdateTransitionHygiene
  <2>5. moves' \in Seq(Move) /\ Len(moves') = Len(moves)
    BY <1>2, <2>3, <2>4
  <2> QED
    BY <1>2, <2>1, <2>3, <2>4, <2>5
<1> QED
  BY <1>1, <1>2

\* A sweep reads at most SweepLimit rows.
LEMMA OldestIsLimited ==
    ASSUME NEW n \in Nat, NEW S \in SUBSET (1..n)
    PROVE  Oldest(S) \subseteq S /\ Cardinality(Oldest(S)) <= SweepLimit
<1>1. Oldest(S) \subseteq S
  BY DEF Oldest
<1>2. CASE Oldest(S) = {}
  BY <1>1, <1>2, FS_EmptySet, HygieneAssumption
<1>3. CASE Oldest(S) # {}
  <2>1. PICK m \in Oldest(S) : \A j \in Oldest(S) : j <= m
    BY <1>1, <1>3, LastRow
  <2>2. Cardinality({j \in S : j <= m}) <= SweepLimit
    BY <2>1 DEF Oldest
  <2>3. Oldest(S) \subseteq {j \in S : j <= m} /\ {j \in S : j <= m} \subseteq 1..n
    BY <1>1, <2>1
  <2>4. /\ Cardinality(Oldest(S)) \in Nat /\ Cardinality({j \in S : j <= m}) \in Nat
        /\ Cardinality(Oldest(S)) <= Cardinality({j \in S : j <= m})
    BY <2>3, NeverGrows
  <2> QED
    BY <1>1, <2>2, <2>4, HygieneAssumption
<1> QED
  BY <1>2, <1>3

\* A step that leaves the rows and the sweep's batch alone.
LEMMA HygQuiet ==
    ASSUME HygInv, UNCHANGED <<moves, aged, sweep>>,
           handling' \in [1..MaxTransition -> {Idle, Waits} \union Statuses],
           linked' \in BOOLEAN, palaceUp' \in BOOLEAN, hygFaults' \in 0..MaxHygFault
    PROVE  HygInv'
  BY DEF HygInv

\* Every step of the goroutines, the sweep and the environment keeps it.
LEMMA HygInvStep == HygInv /\ [HygNext]_hygVars => HygInv'
<1> SUFFICES ASSUME HygInv, [HygNext]_hygVars PROVE HygInv'
  OBVIOUS
<1> USE HygieneAssumption
<1>1. /\ handling \in [1..MaxTransition -> {Idle, Waits} \union Statuses]
      /\ linked \in BOOLEAN /\ palaceUp \in BOOLEAN /\ hygFaults \in 0..MaxHygFault
      /\ moves \in Seq(Move) /\ Len(moves) \in Nat /\ Len(moves) <= MaxTransition /\ DOMAIN moves = 1..Len(moves)
      /\ aged \in 0..Len(moves)
  BY DEF HygInv
<1>2. /\ sweep \in [batch : SUBSET (1..MaxTransition), verdict : {Idle} \union Statuses]
      /\ sweep.batch \subseteq 1..Len(moves) /\ Cardinality(sweep.batch) <= SweepLimit
  BY DEF HygInv
<1>3. HygFault => hygFaults' \in 0..MaxHygFault
  BY <1>1 DEF HygFault
<1>4. CASE UNCHANGED hygVars
  BY <1>1, <1>4, HygQuiet DEF hygVars
<1>5. ASSUME NEW w \in Writers, NEW d \in {"none", "thin", "full"}, NEW f \in BOOLEAN, NEW s \in BOOLEAN,
             InsertTicketTransition(w, d, f, s)
      PROVE  HygInv'
  <2>1. PICK m : m = [writer |-> w, status |-> BornWith(w), diary |-> d, facts |-> f]
    OBVIOUS
  <2>2. BornWith(w) \in Statuses
    BY DEF BornWith, Statuses, Unjudged
  <2>3. m \in Move
    BY <2>1, <2>2 DEF Move
  <2>4. moves' = Append(moves, m) /\ Len(moves) < MaxTransition /\ UNCHANGED <<aged, sweep, linked, palaceUp, hygFaults>>
    BY <1>5, <2>1 DEF InsertTicketTransition
  <2>5. moves' \in Seq(Move) /\ Len(moves') = Len(moves) + 1
    BY <1>1, <2>3, <2>4
  <2>6. handling' \in [1..MaxTransition -> {Idle, Waits} \union Statuses]
    BY <1>1, <1>5 DEF InsertTicketTransition
  <2>7. 1..Len(moves) \subseteq 1..Len(moves') /\ aged' \in 0..Len(moves') /\ Len(moves') <= MaxTransition
    BY <1>1, <2>4, <2>5
  <2> QED
    BY <1>1, <1>2, <2>4, <2>5, <2>6, <2>7 DEF HygInv
<1>6. CASE RowAges
  BY <1>1, <1>2, <1>6 DEF RowAges, HygInv
<1>7. ASSUME NEW i \in DOMAIN moves, HandleTransition(i) PROVE HygInv'
  <2>1. \A v \in HygVerdicts(moves[i]) : v \in Statuses
    BY VerdictType
  <2>2. handling' \in [1..MaxTransition -> {Idle, Waits} \union Statuses]
    BY <1>1, <1>7, <2>1 DEF HandleTransition
  <2> QED
    BY <1>1, <1>7, <2>2, HygQuiet DEF HandleTransition
<1>8. ASSUME NEW i \in DOMAIN moves, HandlerWrites(i) PROVE HygInv'
  <2>1. handling[i] \in Statuses /\ UpdateTransitionHygiene(i, handling[i])
        /\ UNCHANGED <<aged, sweep, linked, palaceUp, hygFaults>>
    BY <1>8 DEF HandlerWrites
  <2>2. moves' \in Seq(Move) /\ Len(moves') = Len(moves)
    BY <1>1, <2>1, UpdateKeeps
  <2>3. handling' \in [1..MaxTransition -> {Idle, Waits} \union Statuses]
    BY <1>1, <1>8 DEF HandlerWrites
  <2> QED
    BY <1>1, <1>2, <2>1, <2>2, <2>3 DEF HygInv
<1>9. ASSUME NEW i \in DOMAIN moves, HandlerFails(i) PROVE HygInv'
  <2>1. handling' \in [1..MaxTransition -> {Idle, Waits} \union Statuses]
    BY <1>1, <1>9 DEF HandlerFails
  <2> QED
    BY <1>1, <1>3, <1>9, <2>1, HygQuiet DEF HandlerFails
<1>10. CASE SweepOnce
  <2>1. PICK b : b = ListStuckHygieneTransitions
    OBVIOUS
  <2>2. b \subseteq 1..Len(moves) /\ Cardinality(b) <= SweepLimit
    <3>1. PICK S \in SUBSET (1..Len(moves)) : S = {i \in DOMAIN moves : IsStuck(i)}
      BY <1>1
    <3>2. b = Oldest(S)
      BY <2>1, <3>1 DEF ListStuckHygieneTransitions
    <3> QED
      BY <1>1, <3>2, OldestIsLimited
  <2>3. sweep' = [sweep EXCEPT !.batch = b] /\ UNCHANGED <<moves, aged, handling, linked, palaceUp, hygFaults>>
    BY <1>10, <2>1 DEF SweepOnce
  <2>4. b \subseteq 1..MaxTransition
    BY <1>1, <2>2
  <2>5. sweep' \in [batch : SUBSET (1..MaxTransition), verdict : {Idle} \union Statuses] /\ sweep'.batch = b
    BY <1>2, <2>3, <2>4
  <2> QED
    BY <1>1, <2>2, <2>3, <2>5 DEF HygInv
<1>11. PICK c : c = Rest
  OBVIOUS
<1>12. c \subseteq 1..Len(moves) /\ c \subseteq 1..MaxTransition /\ Cardinality(c) <= SweepLimit
  <2>1. c \subseteq sweep.batch
    BY <1>11 DEF Rest
  <2>2. Cardinality(c) \in Nat /\ Cardinality(sweep.batch) \in Nat /\ Cardinality(c) <= Cardinality(sweep.batch)
    BY <1>1, <1>2, <2>1, NeverGrows
  <2> QED
    BY <1>1, <1>2, <2>1, <2>2
<1>13. CASE SweepJudges
  <2>1. UNCHANGED <<moves, aged, handling, linked, palaceUp, hygFaults>>
    BY <1>13 DEF SweepJudges
  <2>2. CASE sweep' = [sweep EXCEPT !.batch = c]
    <3>1. sweep' \in [batch : SUBSET (1..MaxTransition), verdict : {Idle} \union Statuses] /\ sweep'.batch = c
      BY <1>2, <1>12, <2>2
    <3> QED
      BY <1>1, <1>12, <2>1, <3>1 DEF HygInv
  <2>3. ASSUME NEW v \in HygVerdicts(moves[Current]), sweep' = [sweep EXCEPT !.verdict = v] PROVE HygInv'
    <3>1. v \in Statuses
      BY VerdictType
    <3>2. sweep' \in [batch : SUBSET (1..MaxTransition), verdict : {Idle} \union Statuses] /\ sweep'.batch = sweep.batch
      BY <1>2, <2>3, <3>1
    <3> QED
      BY <1>1, <1>2, <2>1, <3>2 DEF HygInv
  <2> QED
    BY <1>11, <1>13, <2>2, <2>3 DEF SweepJudges
<1>14. ASSUME sweep' = [batch |-> c, verdict |-> Idle], UNCHANGED <<aged, handling, linked, palaceUp>>,
              moves' \in Seq(Move), Len(moves') = Len(moves), hygFaults' \in 0..MaxHygFault
       PROVE  HygInv'
  <2>1. sweep' \in [batch : SUBSET (1..MaxTransition), verdict : {Idle} \union Statuses] /\ sweep'.batch = c
    BY <1>12, <1>14
  <2> QED
    BY <1>1, <1>12, <1>14, <2>1 DEF HygInv
<1>15. CASE SweepWrites
  <2>1. sweep.verdict \in Statuses /\ UpdateTransitionHygiene(Current, sweep.verdict)
    BY <1>2, <1>15 DEF SweepWrites
  <2>2. moves' \in Seq(Move) /\ Len(moves') = Len(moves)
    BY <1>1, <2>1, UpdateKeeps
  <2> QED
    BY <1>1, <1>11, <1>14, <1>15, <2>2 DEF SweepWrites
<1>16. CASE SweepRowFails
  BY <1>1, <1>3, <1>11, <1>14, <1>16 DEF SweepRowFails
<1>17. CASE ListenerLosesConn \/ ListenerRedials \/ PalaceFails \/ PalaceReturns
  BY <1>1, <1>3, <1>17, HygQuiet DEF ListenerLosesConn, ListenerRedials, PalaceFails, PalaceReturns
<1>18. CASE HygRestart
  <2>1. sweep' = [batch |-> {}, verdict |-> Idle] /\ handling' \in [1..MaxTransition -> {Idle, Waits} \union Statuses]
        /\ linked' = TRUE /\ UNCHANGED <<moves, aged, palaceUp>> /\ hygFaults' \in 0..MaxHygFault
    BY <1>3, <1>18 DEF HygRestart, NoSweep
  <2>2. Cardinality({}) = 0
    BY FS_EmptySet
  <2>3. /\ sweep' \in [batch : SUBSET (1..MaxTransition), verdict : {Idle} \union Statuses]
        /\ sweep'.batch = {}
    BY <2>1
  <2>4. Cardinality(sweep'.batch) <= SweepLimit
    BY <2>2, <2>3
  <2> QED
    BY <1>1, <2>1, <2>3, <2>4 DEF HygInv
<1> QED
  BY <1>4, <1>5, <1>6, <1>7, <1>8, <1>9, <1>10, <1>13, <1>15, <1>16, <1>17, <1>18 DEF HygNext, HygProgress

\* No step replaces a verdict.
LEMMA VerdictKept ==
    HygInv /\ [HygNext]_hygVars =>
        \A i \in DOMAIN moves : moves[i].status \notin Unjudged => moves'[i].status = moves[i].status
<1> SUFFICES ASSUME HygInv, [HygNext]_hygVars, NEW i \in DOMAIN moves, moves[i].status \notin Unjudged
             PROVE  moves'[i].status = moves[i].status
  OBVIOUS
<1>1. moves \in Seq(Move) /\ DOMAIN moves = 1..Len(moves) /\ Len(moves) \in Nat
      /\ sweep.verdict \in {Idle} \union Statuses
  BY DEF HygInv
<1>2. CASE UNCHANGED moves
  BY <1>2
<1>3. ASSUME NEW m, moves' = Append(moves, m) PROVE moves'[i].status = moves[i].status
  BY <1>1, <1>3
<1>4. ASSUME NEW j, NEW s \in Statuses, UpdateTransitionHygiene(j, s) PROVE moves'[i].status = moves[i].status
  BY <1>1, <1>4, UpdateKeeps
<1>5. ASSUME NEW j \in DOMAIN moves, HandlerWrites(j) PROVE moves'[i].status = moves[i].status
  BY <1>4, <1>5 DEF HandlerWrites
<1>6. CASE SweepWrites
  BY <1>1, <1>4, <1>6 DEF SweepWrites
<1>7. ASSUME NEW w, NEW d, NEW f, NEW s, InsertTicketTransition(w, d, f, s) PROVE moves'[i].status = moves[i].status
  BY <1>3, <1>7 DEF InsertTicketTransition
<1> QED
  BY <1>2, <1>5, <1>6, <1>7 DEF HygNext, HygProgress, hygVars, RowAges, HandleTransition, HandlerFails, SweepOnce,
     SweepJudges, SweepRowFails, ListenerLosesConn, ListenerRedials, PalaceFails, PalaceReturns, HygRestart

-----------------------------------------------------------------------------
(***************************************************************************)
(* Chat.  A worker past its lookup knows which row it answers: the row is  *)
(* the operator's, its answer's cost is still 0 until the result, and the  *)
(* session had room under the cap when the one worker that holds the       *)
(* session mutex looked.                                                   *)
(***************************************************************************)
Active == {"waits"} \union Holding

ChatTypes ==
    /\ session \in {"none", "active", "ended", "aborted", "gone"}
    /\ totalCost \in Nat
    /\ msgs \in Seq(Row) /\ Len(msgs) <= MaxRow
    /\ msgsAged \in 0..Len(msgs)
    /\ sender \in [pc: {"idle", "checked", "numbered"}, attempt: 0..1, next: 0..(MaxRow + 1)]
    /\ jobs \in [1..MaxRow -> Job]
    /\ chatListen \in {"down", "booting", "aborting", "orphans", "up", "draining"}
    /\ chatFaults \in 0..MaxChatFault

\* A session that is not there has no rows; the sender met it first.
NoSession ==
    /\ session \in {"none", "gone"} => msgs = <<>> /\ totalCost = 0
    /\ sender.pc # "idle" => session # "none"
    /\ sender.pc = "numbered" => /\ sender.next >= 1
                                 /\ session # "gone" => sender.next <= Len(msgs) + 1

\* The turn of job j has not been charged yet.
Unpaid(j) == j.pc = "inserted" \/ (j.pc = "running" /\ ~j.result)

\* A worker's message is the operator's and its answer, once inserted, is
\* neither aborted nor charged before the result.  There are workers only
\* while the supervisor listens or drains.
WorkerFits ==
    \A i \in 1..MaxRow : jobs[i].pc \in Active =>
        /\ i < MaxRow
        /\ chatListen \in {"up", "draining"}
        /\ session # "none"
        /\ session # "gone" => i <= Len(msgs)
        /\ i <= Len(msgs) => msgs[i].role = "operator"
        /\ jobs[i].pc \in {"refusing", "inserted", "running"} /\ i + 1 <= Len(msgs) =>
              msgs[i + 1].status # "aborted"
        /\ Unpaid(jobs[i]) /\ i + 1 <= Len(msgs) => msgs[i + 1].cost = 0
        /\ jobs[i].pc = "locked" \/ Unpaid(jobs[i]) => totalCost < CostCap

OneHolds ==
    \A i, k \in 1..MaxRow : jobs[i].pc \in Holding /\ jobs[k].pc \in Holding => i = k

\* f is the running total of the rows' costs.
Running(f, rows) ==
    /\ f[0] = 0
    /\ \A n \in 1..Len(rows) : f[n] = f[n - 1] + rows[n].cost

\* Some running total of the rows ends in c.
AddUpTo(rows, c) == \E f \in [0..Len(rows) -> Int] : Running(f, rows) /\ f[Len(rows)] = c

ChatInv ==
    /\ ChatTypes
    /\ NoSession
    /\ WorkerFits
    /\ OneHolds
    /\ AnswerFollowsQuestion
    /\ CapOvershoot
    /\ AddUpTo(msgs, totalCost)

\* Two running totals of the same rows agree: a least place where they differ
\* would follow one where they do not.
LEMMA RunningAgree ==
    ASSUME NEW rows \in Seq(Row), NEW f, NEW g, Running(f, rows), Running(g, rows),
           NEW m \in 0..Len(rows)
    PROVE  f[m] = g[m]
<1> SUFFICES ASSUME f[m] # g[m] PROVE FALSE
  OBVIOUS
<1> DEFINE R == OpToRel(<, Nat)
<1>1. PICK T : T = {n \in 0..Len(rows) : f[n] # g[n]}
  OBVIOUS
<1>2. T \subseteq Nat /\ T # {}
  BY <1>1
<1>3. \E x \in T : \A y \in T : ~(<<y, x>> \in R)
  BY <1>2, NatLessThanWellFounded, WFMin
<1>4. \A x, y \in T : <<y, x>> \in R <=> y < x
  BY <1>2 DEF OpToRel
<1> HIDE DEF R
<1>5. PICK x \in T : \A y \in T : ~(y < x)
  BY <1>3, <1>4
<1>6. x \in 0..Len(rows) /\ f[x] # g[x]
  BY <1>1, <1>5
<1>7. x # 0
  BY <1>6 DEF Running
<1>8. x - 1 \in 0..Len(rows) /\ x \in 1..Len(rows)
  BY <1>6, <1>7
<1>9. x - 1 \notin T
  BY <1>5, <1>8
<1>10. f[x - 1] = g[x - 1]
  BY <1>1, <1>8, <1>9
<1>11. f[x] = f[x - 1] + rows[x].cost /\ g[x] = g[x - 1] + rows[x].cost
  BY <1>8 DEF Running
<1> QED
  BY <1>6, <1>10, <1>11

\* What a running total ends in is what the rows cost.
LEMMA AddUpToCost ==
    ASSUME NEW c, msgs \in Seq(Row), AddUpTo(msgs, c)
    PROVE  c = CostOfRows
<1>1. PICK f \in [0..Len(msgs) -> Int] : Running(f, msgs) /\ f[Len(msgs)] = c
  BY DEF AddUpTo
<1>3. Len(msgs) \in Nat
  OBVIOUS
<1>4. f = [n \in 0..Len(msgs) |-> IF n = 0 THEN 0 ELSE f[n - 1] + msgs[n].cost]
  BY <1>1, <1>3 DEF Running
<1>5. PICK g : /\ g = [n \in 0..Len(msgs) |-> IF n = 0 THEN 0 ELSE g[n - 1] + msgs[n].cost]
               /\ CostOfRows = g[Len(msgs)]
  BY <1>4 DEF CostOfRows
<1>6. Running(g, msgs)
  <2>1. PICK h : h = [n \in 0..Len(msgs) |-> IF n = 0 THEN 0 ELSE g[n - 1] + msgs[n].cost]
    OBVIOUS
  <2>2. \A n \in 0..Len(msgs) : h[n] = IF n = 0 THEN 0 ELSE g[n - 1] + msgs[n].cost
    BY <2>1
  <2>3. g = h
    BY <1>5, <2>1
  <2> QED
    BY <1>3, <2>2, <2>3 DEF Running
<1> QED
  BY <1>1, <1>3, <1>5, <1>6, RunningAgree

\* A row that cost nothing leaves the total as it is.
LEMMA AddUpToAppend ==
    ASSUME NEW rows \in Seq(Row), NEW c \in Int, AddUpTo(rows, c), NEW r \in Row, r.cost = 0
    PROVE  AddUpTo(Append(rows, r), c)
<1>1. PICK f \in [0..Len(rows) -> Int] : Running(f, rows) /\ f[Len(rows)] = c
  BY DEF AddUpTo
<1>2. PICK t : t = Append(rows, r)
  OBVIOUS
<1>3. PICK n : n = Len(rows)
  OBVIOUS
<1>4. n \in Nat /\ Len(t) = n + 1 /\ t[n + 1] = r /\ \A k \in 1..n : t[k] = rows[k]
  BY <1>2, <1>3
<1>5. PICK g : g = [k \in 0..(n + 1) |-> IF k = n + 1 THEN c ELSE f[k]]
  OBVIOUS
<1>6. g \in [0..Len(t) -> Int] /\ g[Len(t)] = c
  BY <1>1, <1>3, <1>4, <1>5
<1>7. g[0] = 0 /\ g[n] = c /\ g[n + 1] = c
  BY <1>1, <1>3, <1>4, <1>5 DEF Running
<1>8. \A k \in 1..n : g[k] = g[k - 1] + t[k].cost
  BY <1>1, <1>3, <1>4, <1>5 DEF Running
<1>9. g[n + 1] = g[(n + 1) - 1] + t[n + 1].cost
  BY <1>4, <1>7
<1>10. \A k \in 1..Len(t) : g[k] = g[k - 1] + t[k].cost
  BY <1>4, <1>8, <1>9
<1> QED
  BY <1>2, <1>6, <1>7, <1>10 DEF AddUpTo, Running

\* Rows that cost the same add up to the same.
LEMMA AddUpToSame ==
    ASSUME NEW rows \in Seq(Row), NEW t \in Seq(Row), NEW c, AddUpTo(rows, c),
           Len(t) = Len(rows), \A k \in 1..Len(rows) : t[k].cost = rows[k].cost
    PROVE  AddUpTo(t, c)
  BY DEF AddUpTo, Running

\* A row that gains d adds d to the total.
LEMMA AddUpToMore ==
    ASSUME NEW rows \in Seq(Row), NEW t \in Seq(Row), NEW c \in Int, AddUpTo(rows, c),
           NEW d \in Int, NEW j \in 1..Len(rows), Len(t) = Len(rows),
           t[j].cost = rows[j].cost + d,
           \A k \in 1..Len(rows) : k # j => t[k].cost = rows[k].cost
    PROVE  AddUpTo(t, c + d)
<1>1. PICK f \in [0..Len(rows) -> Int] : Running(f, rows) /\ f[Len(rows)] = c
  BY DEF AddUpTo
<1>2. PICK n : n = Len(rows)
  OBVIOUS
<1>3. n \in Nat /\ j \in 1..n /\ f \in [0..n -> Int]
  BY <1>2
<1>4. \A k \in 1..n : rows[k].cost \in Int
  <2>1. \A k \in 1..n : rows[k] \in Row
    BY <1>2
  <2>2. \A r \in Row : r.cost \in Int
    BY ChatAssumption DEF Row
  <2> QED
    BY <2>1, <2>2
<1>5. PICK g : g = [k \in 0..n |-> IF k < j THEN f[k] ELSE f[k] + d]
  OBVIOUS
<1>6. g \in [0..n -> Int] /\ g[0] = 0 /\ g[n] = c + d
  BY <1>1, <1>2, <1>3, <1>5 DEF Running
<1>7. ASSUME NEW k \in 1..n PROVE g[k] = g[k - 1] + t[k].cost
  <2>1. f[k] \in Int /\ f[k - 1] \in Int
    <3>1. k \in 0..n /\ k - 1 \in 0..n
      BY ONLY <1>3, k \in 1..n
    <3> QED
      BY ONLY <1>3, <3>1
  <2>2. f[k] = f[k - 1] + rows[k].cost
    BY <1>1, <1>2 DEF Running
  <2>3. f[k] = f[k - 1] + rows[k].cost /\ f[k] \in Int /\ f[k - 1] \in Int /\ rows[k].cost \in Int
    BY <1>4, <2>1, <2>2
  <2>4. CASE k < j
    BY <1>2, <1>3, <1>5, <2>3, <2>4
  <2>5. CASE k = j
    BY <1>2, <1>3, <1>5, <2>3, <2>5
  <2>6. CASE k > j
    BY <1>2, <1>3, <1>5, <2>3, <2>6
  <2> QED
    BY <1>3, <2>4, <2>5, <2>6
<1> QED
  BY <1>2, <1>6, <1>7 DEF AddUpTo, Running

\* Nothing adds up to nothing.
LEMMA AddUpToNone == AddUpTo(<<>>, 0)
<1>1. PICK f : f = [k \in 0..0 |-> 0]
  OBVIOUS
<1>2. Len(<<>>) = 0
  OBVIOUS
<1>3. f \in [0..Len(<<>>) -> Int] /\ f[0] = 0 /\ \A n \in 1..Len(<<>>) : f[n] = f[n - 1] + <<>>[n].cost
  BY <1>1, <1>2
<1> QED
  BY <1>2, <1>3 DEF AddUpTo, Running

\* A status written to row j changes nothing else.
LEMMA RowStatusWritten ==
    ASSUME NEW rows \in Seq(Row), NEW j \in 1..Len(rows), NEW st \in Open \union Ended,
           NEW t, t = [rows EXCEPT ![j].status = st]
    PROVE  /\ t \in Seq(Row) /\ Len(t) = Len(rows)
           /\ \A k \in 1..Len(rows) : t[k].role = rows[k].role /\ t[k].cost = rows[k].cost
           /\ t[j].status = st
           /\ \A k \in 1..Len(rows) : k # j => t[k] = rows[k]
<1>1. rows[j] \in Row
  OBVIOUS
<1>2. PICK r : r = [rows[j] EXCEPT !.status = st]
  OBVIOUS
<1>3. r \in Row /\ r.role = rows[j].role /\ r.cost = rows[j].cost /\ r.status = st
  BY <1>1, <1>2 DEF Row
<1>4. t = [rows EXCEPT ![j] = r]
  BY <1>2
<1> QED
  BY <1>3, <1>4

\* A cost written to row j changes nothing else.
LEMMA RowCostWritten ==
    ASSUME NEW rows \in Seq(Row), NEW j \in 1..Len(rows), NEW c \in 0..TurnCost,
           NEW t, t = [rows EXCEPT ![j].cost = c]
    PROVE  /\ t \in Seq(Row) /\ Len(t) = Len(rows)
           /\ \A k \in 1..Len(rows) : t[k].role = rows[k].role /\ t[k].status = rows[k].status
           /\ t[j].cost = c
           /\ \A k \in 1..Len(rows) : k # j => t[k] = rows[k]
<1>1. rows[j] \in Row
  OBVIOUS
<1>2. PICK r : r = [rows[j] EXCEPT !.cost = c]
  OBVIOUS
<1>3. r \in Row /\ r.role = rows[j].role /\ r.status = rows[j].status /\ r.cost = c
  BY <1>1, <1>2 DEF Row
<1>4. t = [rows EXCEPT ![j] = r]
  BY <1>2
<1> QED
  BY <1>3, <1>4

\* A worker's place changes; what it was called and its result do not.
LEMMA PlaceWritten ==
    ASSUME jobs \in [1..MaxRow -> Job], NEW i \in 1..MaxRow,
           NEW p \in {"none", "waits", "over"} \union Holding,
           jobs' = [jobs EXCEPT ![i].pc = p]
    PROVE  /\ jobs' \in [1..MaxRow -> Job]
           /\ jobs'[i].pc = p /\ jobs'[i].result = jobs[i].result
           /\ \A k \in 1..MaxRow : k # i => jobs'[k] = jobs[k]
<1>1. PICK j : j = [jobs[i] EXCEPT !.pc = p]
  OBVIOUS
<1>2. j \in Job /\ j.pc = p /\ j.result = jobs[i].result
  BY <1>1 DEF Job
<1>3. jobs' = [jobs EXCEPT ![i] = j]
  BY <1>1
<1> QED
  BY <1>2, <1>3

\* Steps that touch neither rows, workers nor the account.
LEMMA ChatIdleSteps ==
    ASSUME ChatInv, SendChecks \/ SendNumbers \/ RowsAge \/ EndChatSession \/ IdleSweep
                     \/ ChatLosesConn \/ ChatRelistens \/ ChatBoots \/ AbortSessions
    PROVE  ChatInv'
<1>1. AddUpTo(msgs, totalCost)'
  BY DEF ChatInv, SendChecks, SendNumbers, RowsAge, EndChatSession, IdleSweep, ChatLosesConn,
         ChatRelistens, ChatBoots, AbortSessions
<1>2. msgs' = msgs /\ totalCost' = totalCost /\ jobs' = jobs
  BY DEF SendChecks, SendNumbers, RowsAge, EndChatSession, IdleSweep, ChatLosesConn,
         ChatRelistens, ChatBoots, AbortSessions
<1>3. AnswerFollowsQuestion' /\ CapOvershoot' /\ OneHolds'
  BY <1>2 DEF ChatInv, AnswerFollowsQuestion, CapOvershoot, OneHolds
<1>4. ChatTypes' /\ NoSession'
  <2> USE <1>2, ChatAssumption DEF ChatInv, ChatTypes, NoSession
  <2>1. CASE SendChecks
    BY <2>1 DEF SendChecks
  <2>2. CASE SendNumbers
    <3>1. Len(msgs) \in Nat /\ Len(msgs) + 1 \in 0..(MaxRow + 1)
      OBVIOUS
    <3>2. /\ sender' \in [pc: {"idle", "checked", "numbered"}, attempt: 0..1, next: 0..(MaxRow + 1)]
          /\ sender'.pc = "numbered" /\ sender'.next = Len(msgs) + 1
      BY <2>2, <3>1 DEF SendNumbers
    <3>3. sender.pc # "idle" /\ session' = session /\ UNCHANGED <<msgsAged, chatListen, chatFaults>>
      BY <2>2 DEF SendNumbers
    <3> QED
      BY <3>1, <3>2, <3>3
  <2>3. CASE RowsAge \/ EndChatSession \/ IdleSweep
    BY <2>3 DEF RowsAge, EndChatSession, IdleSweep
  <2>4. CASE ChatLosesConn \/ ChatRelistens \/ ChatBoots
    BY <2>4 DEF ChatLosesConn, ChatRelistens, ChatBoots, ChatFault
  <2>5. CASE AbortSessions
    BY <2>5 DEF AbortSessions
  <2> QED
    BY <2>1, <2>2, <2>3, <2>4, <2>5
<1>5. \A i \in 1..MaxRow : jobs[i].pc \in Active =>
          /\ chatListen' \in {"up", "draining"}
          /\ session' # "none"
          /\ session' # "gone" => session # "gone"
  BY <1>2, ChatAssumption
     DEF ChatInv, WorkerFits, Active, SendChecks, SendNumbers, RowsAge, EndChatSession, IdleSweep,
         ChatLosesConn, ChatRelistens, ChatBoots, AbortSessions, ChatFault
<1>6. WorkerFits'
  BY <1>2, <1>5 DEF ChatInv, WorkerFits
<1> QED
  BY <1>1, <1>3, <1>4, <1>6 DEF ChatInv

\* Rows that kept their roles still answer the questions before them.
LEMMA RolesKept ==
    ASSUME msgs \in Seq(Row), msgs' \in Seq(Row), Len(msgs') = Len(msgs), AnswerFollowsQuestion,
           \A k \in 1..Len(msgs) : msgs'[k].role = msgs[k].role
    PROVE  AnswerFollowsQuestion'
<1> SUFFICES ASSUME NEW k \in 1..Len(msgs), msgs[k].role = "assistant"
             PROVE  k > 1 /\ msgs'[k - 1].role = "operator"
  BY DEF AnswerFollowsQuestion
<1>1. DOMAIN msgs = 1..Len(msgs)
  OBVIOUS
<1>2. k > 1 /\ msgs[k - 1].role = "operator"
  BY <1>1 DEF AnswerFollowsQuestion
<1> QED
  BY <1>2

\* A worker that goes on or ends, and leaves in its answer's row at most
\* another status that is not "aborted".
LEMMA TurnMoves ==
    ASSUME ChatInv, NEW i \in 1..MaxRow, jobs[i].pc \in Holding,
           jobs' \in [1..MaxRow -> Job], \A k \in 1..MaxRow : k # i => jobs'[k] = jobs[k],
           \/ jobs'[i].pc = "over"
           \/ /\ jobs[i].pc \in {"inserted", "running"} /\ jobs'[i].pc = "running"
              /\ jobs[i].result => jobs'[i].result,
           msgs' \in Seq(Row), Len(msgs') = Len(msgs),
           \A k \in 1..Len(msgs) : msgs'[k].role = msgs[k].role /\ msgs'[k].cost = msgs[k].cost,
           \A k \in 1..Len(msgs) : k # i + 1 => msgs'[k] = msgs[k],
           i + 1 <= Len(msgs) => msgs'[i + 1].status # "aborted" \/ jobs'[i].pc = "over",
           UNCHANGED <<session, totalCost, msgsAged, sender, chatListen>>,
           chatFaults' \in 0..MaxChatFault
    PROVE  ChatInv'
<1>1. ChatTypes'
  BY DEF ChatInv, ChatTypes
<1>2. NoSession'
  <2>1. session \in {"none", "gone"} => msgs' = <<>>
    BY DEF ChatInv, NoSession
  <2> QED
    BY <2>1 DEF ChatInv, NoSession
<1>3. OneHolds'
  BY DEF ChatInv, OneHolds, Holding
<1>4. CapOvershoot'
  BY DEF ChatInv, CapOvershoot
<1>5. AnswerFollowsQuestion'
  BY RolesKept DEF ChatInv, ChatTypes
<1>6. AddUpTo(msgs, totalCost)'
  <2>1. AddUpTo(msgs', totalCost)
    BY AddUpToSame DEF ChatInv, ChatTypes
  <2> QED
    BY <2>1
<1>7. WorkerFits'
  <2> SUFFICES ASSUME NEW k \in 1..MaxRow, jobs'[k].pc \in Active
               PROVE  /\ k < MaxRow
                      /\ chatListen \in {"up", "draining"}
                      /\ session # "none"
                      /\ session # "gone" => k <= Len(msgs)
                      /\ k <= Len(msgs) => msgs'[k].role = "operator"
                      /\ jobs'[k].pc \in {"refusing", "inserted", "running"} /\ k + 1 <= Len(msgs) =>
                            msgs'[k + 1].status # "aborted"
                      /\ Unpaid(jobs'[k]) /\ k + 1 <= Len(msgs) => msgs'[k + 1].cost = 0
                      /\ jobs'[k].pc = "locked" \/ Unpaid(jobs'[k]) => totalCost < CostCap
    BY DEF WorkerFits
  <2>1. jobs[k].pc \in Active
    BY DEF Active, Holding
  <2>2. /\ k < MaxRow
        /\ chatListen \in {"up", "draining"}
        /\ session # "none"
        /\ session # "gone" => k <= Len(msgs)
        /\ k <= Len(msgs) => msgs[k].role = "operator"
        /\ jobs[k].pc \in {"refusing", "inserted", "running"} /\ k + 1 <= Len(msgs) =>
              msgs[k + 1].status # "aborted"
        /\ Unpaid(jobs[k]) /\ k + 1 <= Len(msgs) => msgs[k + 1].cost = 0
        /\ jobs[k].pc = "locked" \/ Unpaid(jobs[k]) => totalCost < CostCap
    BY <2>1 DEF ChatInv, WorkerFits
  <2>3. Len(msgs) \in Nat /\ k \in Nat
    BY DEF ChatInv, ChatTypes
  <2>4. CASE k # i
    BY <2>2, <2>3, <2>4
  <2>5. CASE k = i
    <3>1. jobs[i].pc \in {"inserted", "running"} /\ jobs'[i].pc = "running"
          /\ (jobs[i].result => jobs'[i].result)
      BY <2>5 DEF Active, Holding
    <3>2. jobs[i].result \in BOOLEAN /\ jobs'[i].result \in BOOLEAN /\ jobs[i] \in Job
      BY DEF ChatInv, ChatTypes, Job
    <3>3. Unpaid(jobs'[i]) => jobs[i].pc = "inserted" \/ (jobs[i].pc = "running" /\ ~jobs[i].result)
      BY <3>1, <3>2 DEF Unpaid
    <3>4. Unpaid(jobs'[i]) => Unpaid(jobs[i])
      BY <3>3 DEF Unpaid
    <3> QED
      BY <2>2, <2>3, <2>5, <3>1, <3>4
  <2> QED
    BY <2>4, <2>5
<1> QED
  BY <1>1, <1>2, <1>3, <1>4, <1>5, <1>6, <1>7 DEF ChatInv

\* TerminalWriteWithError of a worker's answer.
LEMMA ErrorWritten ==
    ASSUME msgs \in Seq(Row), NEW i \in 1..MaxRow, TerminalWriteWithError(i)
    PROVE  /\ msgs' \in Seq(Row) /\ Len(msgs') = Len(msgs)
           /\ \A k \in 1..Len(msgs) : msgs'[k].role = msgs[k].role /\ msgs'[k].cost = msgs[k].cost
           /\ \A k \in 1..Len(msgs) : k # i + 1 => msgs'[k] = msgs[k]
           /\ i + 1 <= Len(msgs) => msgs'[i + 1].status = "failed"
<1>1. CASE i + 1 <= Len(msgs)
  <2>1. i + 1 \in 1..Len(msgs) /\ "failed" \in Open \union Ended
    BY <1>1 DEF Ended
  <2>2. msgs' = [msgs EXCEPT ![i + 1].status = "failed"]
    BY <1>1 DEF TerminalWriteWithError
  <2> QED
    BY <2>1, <2>2, RowStatusWritten
<1>2. CASE ~(i + 1 <= Len(msgs))
  BY <1>2 DEF TerminalWriteWithError
<1> QED
  BY <1>1, <1>2

\* A fault stays within its bound.
LEMMA ChatFaultBound ==
    ASSUME ChatTypes, ChatFault
    PROVE  chatFaults' \in 0..MaxChatFault
  BY ChatAssumption DEF ChatTypes, ChatFault

\* An error write changes the status of a row and no cost.
LEMMA ChatWrites ==
    ASSUME ChatInv, NEW i \in 1..MaxRow, WriteAssistantError(i) \/ ParseError(i)
    PROVE  ChatInv'
<1>1. ChatTypes /\ msgs \in Seq(Row) /\ jobs \in [1..MaxRow -> Job]
  BY DEF ChatInv, ChatTypes
<1>2. /\ jobs[i].pc \in Holding /\ TerminalWriteWithError(i)
      /\ jobs' = [jobs EXCEPT ![i].pc = "over"]
      /\ UNCHANGED <<session, totalCost, msgsAged, sender, chatListen>>
  BY DEF WriteAssistantError, ParseError, Holding
<1>3. chatFaults' \in 0..MaxChatFault
  BY <1>1, ChatFaultBound DEF WriteAssistantError, ParseError, ChatTypes
<1>4. /\ jobs' \in [1..MaxRow -> Job] /\ jobs'[i].pc = "over"
      /\ \A k \in 1..MaxRow : k # i => jobs'[k] = jobs[k]
  BY <1>1, <1>2, PlaceWritten
<1> QED
  BY <1>1, <1>2, <1>3, <1>4, ErrorWritten, TurnMoves

\* The container starts and OnInit moves the row to streaming, or fails it.
LEMMA ChatSpawns ==
    ASSUME ChatInv, NEW i \in 1..MaxRow, NEW healthy \in BOOLEAN, SpawnTurn(i, healthy)
    PROVE  ChatInv'
<1>1. ChatTypes /\ msgs \in Seq(Row) /\ jobs \in [1..MaxRow -> Job] /\ chatFaults' \in 0..MaxChatFault
  BY DEF ChatInv, ChatTypes, SpawnTurn
<1>2. /\ jobs[i].pc = "inserted" /\ OnInit(i, healthy)
      /\ jobs' = [jobs EXCEPT ![i].pc = "running"]
      /\ UNCHANGED <<session, totalCost, msgsAged, sender, chatListen>>
  BY DEF SpawnTurn
<1>3. jobs[i].pc \in Holding /\ "running" \in Holding
  BY <1>2 DEF Holding
<1>4. /\ jobs' \in [1..MaxRow -> Job] /\ jobs'[i].pc = "running" /\ jobs'[i].result = jobs[i].result
      /\ \A k \in 1..MaxRow : k # i => jobs'[k] = jobs[k]
  BY <1>1, <1>2, <1>3, PlaceWritten
<1>5. i + 1 <= Len(msgs) => msgs[i + 1].status # "aborted"
  BY <1>2, <1>3 DEF ChatInv, WorkerFits, Active
<1>6. /\ msgs' \in Seq(Row) /\ Len(msgs') = Len(msgs)
      /\ \A k \in 1..Len(msgs) : msgs'[k].role = msgs[k].role /\ msgs'[k].cost = msgs[k].cost
      /\ \A k \in 1..Len(msgs) : k # i + 1 => msgs'[k] = msgs[k]
      /\ i + 1 <= Len(msgs) => msgs'[i + 1].status # "aborted"
  <2>1. CASE ~healthy
    <3>1. TerminalWriteWithError(i)
      BY <1>2, <2>1 DEF OnInit
    <3> QED
      BY <1>1, <3>1, ErrorWritten
  <2>2. CASE healthy /\ i + 1 <= Len(msgs) /\ msgs[i + 1].status = "pending"
    <3>1. i + 1 \in 1..Len(msgs) /\ "streaming" \in Open \union Ended
      BY <1>1, <2>2 DEF Open
    <3>2. msgs' = [msgs EXCEPT ![i + 1].status = "streaming"]
      BY <1>2, <2>2 DEF OnInit
    <3>3. /\ msgs' \in Seq(Row) /\ Len(msgs') = Len(msgs)
          /\ \A k \in 1..Len(msgs) : msgs'[k].role = msgs[k].role /\ msgs'[k].cost = msgs[k].cost
          /\ \A k \in 1..Len(msgs) : k # i + 1 => msgs'[k] = msgs[k]
          /\ msgs'[i + 1].status = "streaming"
      BY <1>1, <3>1, <3>2, RowStatusWritten
    <3> QED
      BY <3>3
  <2>3. CASE healthy /\ ~(i + 1 <= Len(msgs) /\ msgs[i + 1].status = "pending")
    <3>1. msgs' = msgs
      BY <1>2, <2>3 DEF OnInit
    <3> QED
      BY <1>1, <1>5, <3>1
  <2> QED
    BY <2>1, <2>2, <2>3
<1> QED
  BY <1>1, <1>2, <1>3, <1>4, <1>6, TurnMoves

\* A tool call leaves rows and totals alone.
LEMMA ChatToolUse ==
    ASSUME ChatInv, NEW i \in 1..MaxRow, ToolUse(i)
    PROVE  ChatInv'
<1>1. ChatTypes /\ msgs \in Seq(Row) /\ jobs \in [1..MaxRow -> Job] /\ chatFaults' \in 0..MaxChatFault
  BY DEF ChatInv, ChatTypes, ToolUse
<1>2. /\ jobs[i].pc = "running" /\ jobs[i].calls <= ToolCallCeiling
      /\ jobs' = [jobs EXCEPT ![i].calls = jobs[i].calls + 1]
      /\ UNCHANGED <<session, totalCost, msgs, msgsAged, sender, chatListen>>
  BY DEF ToolUse
<1>3. /\ jobs' \in [1..MaxRow -> Job] /\ jobs'[i].pc = "running" /\ jobs'[i].result = jobs[i].result
      /\ \A k \in 1..MaxRow : k # i => jobs'[k] = jobs[k]
  <2>1. PICK j : j = [jobs[i] EXCEPT !.calls = jobs[i].calls + 1]
    OBVIOUS
  <2>2. jobs[i] \in Job
    BY <1>1
  <2>3. j \in Job /\ j.pc = "running" /\ j.result = jobs[i].result
    BY <1>2, <2>1, <2>2, ChatAssumption DEF Job
  <2>4. jobs' = [jobs EXCEPT ![i] = j]
    BY <1>2, <2>1
  <2> QED
    BY <1>1, <2>3, <2>4
<1>4. jobs[i].pc \in Holding
  BY <1>2 DEF Holding
<1>5. i + 1 <= Len(msgs) => msgs[i + 1].status # "aborted"
  BY <1>2, <1>4 DEF ChatInv, WorkerFits, Active
<1> QED
  BY <1>1, <1>2, <1>3, <1>4, <1>5, TurnMoves

\* A container that exits without a result fails the row, at no cost.
LEMMA ChatExits ==
    ASSUME ChatInv, NEW i \in 1..MaxRow, NEW clean \in BOOLEAN, ContainerExits(i, clean)
    PROVE  ChatInv'
<1>1. ChatTypes /\ msgs \in Seq(Row) /\ jobs \in [1..MaxRow -> Job] /\ chatFaults' \in 0..MaxChatFault
  BY DEF ChatInv, ChatTypes, ContainerExits
<1>2. /\ jobs[i].pc \in Holding /\ jobs' = [jobs EXCEPT ![i].pc = "over"]
      /\ TerminalWriteWithError(i) \/ msgs' = msgs
      /\ UNCHANGED <<session, totalCost, msgsAged, sender, chatListen>>
  BY DEF ContainerExits, Holding
<1>3. /\ jobs' \in [1..MaxRow -> Job] /\ jobs'[i].pc = "over"
      /\ \A k \in 1..MaxRow : k # i => jobs'[k] = jobs[k]
  BY <1>1, <1>2, PlaceWritten
<1>4. /\ msgs' \in Seq(Row) /\ Len(msgs') = Len(msgs)
      /\ \A k \in 1..Len(msgs) : msgs'[k].role = msgs[k].role /\ msgs'[k].cost = msgs[k].cost
      /\ \A k \in 1..Len(msgs) : k # i + 1 => msgs'[k] = msgs[k]
  BY <1>1, <1>2, ErrorWritten
<1> QED
  BY <1>1, <1>2, <1>3, <1>4, TurnMoves

\* A row is appended: the operator's, or one that answers the last row.
LEMMA RowAppended ==
    ASSUME ChatInv, NEW r \in Row, msgs' = Append(msgs, r), Len(msgs) < MaxRow, r.cost = 0,
           r.role = "operator" \/ (Len(msgs) >= 1 /\ msgs[Len(msgs)].role = "operator"),
           totalCost' = totalCost
    PROVE  /\ msgs' \in Seq(Row) /\ Len(msgs') = Len(msgs) + 1 /\ Len(msgs') <= MaxRow
           /\ \A k \in 1..Len(msgs) : msgs'[k] = msgs[k]
           /\ msgs'[Len(msgs) + 1] = r
           /\ msgsAged \in 0..Len(msgs')
           /\ AnswerFollowsQuestion' /\ CapOvershoot' /\ AddUpTo(msgs, totalCost)'
<1>1. msgs \in Seq(Row) /\ Len(msgs) \in Nat /\ totalCost \in Int /\ MaxRow \in Nat /\ msgsAged \in 0..Len(msgs)
  BY ChatAssumption DEF ChatInv, ChatTypes
<1>2. /\ msgs' \in Seq(Row) /\ Len(msgs') = Len(msgs) + 1 /\ Len(msgs') <= MaxRow
      /\ \A k \in 1..Len(msgs) : msgs'[k] = msgs[k]
      /\ msgs'[Len(msgs) + 1] = r
      /\ DOMAIN msgs' = 1..(Len(msgs) + 1) /\ DOMAIN msgs = 1..Len(msgs)
  BY <1>1
<1>3. AnswerFollowsQuestion'
  <2> SUFFICES ASSUME NEW k \in 1..(Len(msgs) + 1), msgs'[k].role = "assistant"
               PROVE  k > 1 /\ msgs'[k - 1].role = "operator"
    BY <1>2 DEF AnswerFollowsQuestion
  <2>1. CASE k = Len(msgs) + 1
    <3>1. r.role = "assistant"
      BY <1>2, <2>1
    <3>2. Len(msgs) >= 1 /\ msgs[Len(msgs)].role = "operator"
      BY <3>1
    <3>3. k - 1 = Len(msgs) /\ k - 1 \in 1..Len(msgs) /\ k > 1
      BY <1>1, <2>1, <3>2
    <3>4. msgs'[k - 1] = msgs[k - 1]
      BY <1>2, <3>3
    <3> QED
      BY <3>2, <3>3, <3>4
  <2>2. CASE k # Len(msgs) + 1
    <3>1. k \in 1..Len(msgs) /\ msgs[k].role = "assistant"
      BY <1>1, <1>2, <2>2
    <3>2. k > 1 /\ msgs[k - 1].role = "operator"
      BY <1>2, <3>1 DEF ChatInv, AnswerFollowsQuestion
    <3> QED
      BY <1>1, <1>2, <3>1, <3>2
  <2> QED
    BY <2>1, <2>2
<1>4. CapOvershoot'
  BY DEF ChatInv, CapOvershoot
<1>5. AddUpTo(msgs', totalCost)
  BY <1>1, AddUpToAppend DEF ChatInv
<1> QED
  BY <1>1, <1>2, <1>3, <1>4, <1>5

\* HandleMessage lets a turn go on only below the cap, one worker at a time.
LEMMA ChatHandles ==
    ASSUME ChatInv, NEW i \in 1..MaxRow, HandleMessage(i)
    PROVE  ChatInv'
<1>1. ChatTypes /\ jobs \in [1..MaxRow -> Job] /\ Len(msgs) \in Nat
  BY DEF ChatInv, ChatTypes
<1>2. /\ jobs[i].pc = "waits"
      /\ UNCHANGED <<session, totalCost, msgs, msgsAged, sender, chatListen, chatFaults>>
  BY DEF HandleMessage
<1>3. PICK p \in {"over", "refused", "locked"} :
          /\ jobs' = [jobs EXCEPT ![i].pc = p]
          /\ p = "locked" => totalCost < CostCap
          /\ p # "over" => \A k \in 1..MaxRow : jobs[k].pc \notin Holding
  <2>1. CASE i > Len(msgs) /\ jobs' = [jobs EXCEPT ![i].pc = "over"]
    BY <2>1
  <2>2. CASE /\ MutexFree(i)
             /\ jobs' = [jobs EXCEPT ![i].pc =
                   IF session # "active" \/ totalCost >= CostCap THEN "refused" ELSE "locked"]
    <3>1. \A k \in 1..MaxRow : jobs[k].pc \notin Holding
      BY <2>2 DEF MutexFree
    <3>2. CASE session # "active" \/ totalCost >= CostCap
      BY <2>2, <3>1, <3>2
    <3>3. CASE ~(session # "active" \/ totalCost >= CostCap)
      <4>1. totalCost < CostCap
        BY <1>1, <3>3, ChatAssumption DEF ChatTypes
      <4> QED
        BY <2>2, <3>1, <3>3, <4>1
    <3> QED
      BY <3>2, <3>3
  <2> QED
    BY <2>1, <2>2 DEF HandleMessage
<1>4. /\ jobs' \in [1..MaxRow -> Job] /\ jobs'[i].pc = p /\ jobs'[i].result = jobs[i].result
      /\ \A k \in 1..MaxRow : k # i => jobs'[k] = jobs[k]
  <2>1. p \in {"none", "waits", "over"} \union Holding
    BY DEF Holding
  <2> QED
    BY <1>1, <1>3, <2>1, PlaceWritten
<1>5. ChatTypes'
  BY <1>1, <1>2, <1>4 DEF ChatTypes
<1>6. NoSession' /\ AnswerFollowsQuestion' /\ CapOvershoot' /\ AddUpTo(msgs, totalCost)'
  BY <1>2 DEF ChatInv, NoSession, AnswerFollowsQuestion, CapOvershoot
<1>7. OneHolds'
  BY <1>3, <1>4 DEF ChatInv, OneHolds, Holding
<1>8. WorkerFits'
  <2> SUFFICES ASSUME NEW k \in 1..MaxRow, jobs'[k].pc \in Active
               PROVE  /\ k < MaxRow
                      /\ chatListen \in {"up", "draining"}
                      /\ session # "none"
                      /\ session # "gone" => k <= Len(msgs)
                      /\ k <= Len(msgs) => msgs[k].role = "operator"
                      /\ jobs'[k].pc \in {"refusing", "inserted", "running"} /\ k + 1 <= Len(msgs) =>
                            msgs[k + 1].status # "aborted"
                      /\ Unpaid(jobs'[k]) /\ k + 1 <= Len(msgs) => msgs[k + 1].cost = 0
                      /\ jobs'[k].pc = "locked" \/ Unpaid(jobs'[k]) => totalCost < CostCap
    BY <1>2 DEF WorkerFits
  <2>1. jobs[k].pc \in Active
    BY <1>2, <1>4 DEF Active
  <2>2. /\ k < MaxRow
        /\ chatListen \in {"up", "draining"}
        /\ session # "none"
        /\ session # "gone" => k <= Len(msgs)
        /\ k <= Len(msgs) => msgs[k].role = "operator"
        /\ jobs[k].pc \in {"refusing", "inserted", "running"} /\ k + 1 <= Len(msgs) =>
              msgs[k + 1].status # "aborted"
        /\ Unpaid(jobs[k]) /\ k + 1 <= Len(msgs) => msgs[k + 1].cost = 0
        /\ jobs[k].pc = "locked" \/ Unpaid(jobs[k]) => totalCost < CostCap
    BY <2>1 DEF ChatInv, WorkerFits
  <2>3. CASE k # i
    BY <1>4, <2>2, <2>3
  <2>4. CASE k = i
    <3>1. ~Unpaid(jobs'[i]) /\ jobs'[i].pc \notin {"refusing", "inserted", "running"}
      BY <1>4 DEF Unpaid
    <3> QED
      BY <1>3, <1>4, <2>2, <2>4, <3>1
  <2> QED
    BY <2>3, <2>4
<1> QED
  BY <1>5, <1>6, <1>7, <1>8 DEF ChatInv

\* The pending row takes the index after its question, or the insert fails.
LEMMA ChatInserts ==
    ASSUME ChatInv, NEW i \in 1..MaxRow, InsertAssistantPending(i)
    PROVE  ChatInv'
<1>1. /\ ChatTypes /\ jobs \in [1..MaxRow -> Job] /\ msgs \in Seq(Row) /\ Len(msgs) \in Nat
      /\ chatFaults \in 0..MaxChatFault
  BY DEF ChatInv, ChatTypes
<1>2. /\ jobs[i].pc \in {"locked", "refused"}
      /\ UNCHANGED <<session, totalCost, msgsAged, sender, chatListen, chatFaults>>
  BY DEF InsertAssistantPending
<1>3. jobs[i].pc \in Holding /\ jobs[i].pc \in Active
  BY <1>2 DEF Holding, Active
<1>4. CASE ~(SlotOf(i) = Len(msgs) + 1 /\ session # "gone")
  <2>1. msgs' = msgs /\ jobs' = [jobs EXCEPT ![i].pc = "over"]
    BY <1>4 DEF InsertAssistantPending, SlotTaken
  <2>2. /\ jobs' \in [1..MaxRow -> Job] /\ jobs'[i].pc = "over"
        /\ \A k \in 1..MaxRow : k # i => jobs'[k] = jobs[k]
    BY <1>1, <2>1, PlaceWritten
  <2> QED
    BY <1>1, <1>2, <1>3, <2>1, <2>2, TurnMoves
<1>5. CASE SlotOf(i) = Len(msgs) + 1 /\ session # "gone"
  <2>1. i = Len(msgs) /\ i >= 1
    BY <1>1, <1>5 DEF SlotOf
  <2>2. msgs' = Append(msgs, PendingRow)
    BY <1>5 DEF InsertAssistantPending
  <2>3. PICK p \in {"inserted", "refusing"} :
            /\ jobs' = [jobs EXCEPT ![i].pc = p]
            /\ p = "inserted" <=> jobs[i].pc = "locked"
    <3>1. jobs' = [jobs EXCEPT ![i].pc = IF jobs[i].pc = "locked" THEN "inserted" ELSE "refusing"]
      BY <1>5 DEF InsertAssistantPending
    <3> QED
      BY <3>1
  <2>4. /\ jobs' \in [1..MaxRow -> Job] /\ jobs'[i].pc = p
        /\ \A k \in 1..MaxRow : k # i => jobs'[k] = jobs[k]
    <3>1. p \in {"none", "waits", "over"} \union Holding
      BY DEF Holding
    <3> QED
      BY <1>1, <2>3, <3>1, PlaceWritten
  <2>5. i < MaxRow /\ msgs[i].role = "operator" /\ (jobs[i].pc = "locked" => totalCost < CostCap)
    BY <1>3, <2>1 DEF ChatInv, WorkerFits
  <2>6. PendingRow \in Row /\ PendingRow.cost = 0 /\ PendingRow.status = "pending"
    BY ChatAssumption DEF PendingRow, Row, Open
  <2>7. /\ msgs' \in Seq(Row) /\ Len(msgs') = Len(msgs) + 1 /\ Len(msgs') <= MaxRow
        /\ \A k \in 1..Len(msgs) : msgs'[k] = msgs[k]
        /\ msgs'[Len(msgs) + 1] = PendingRow
        /\ msgsAged \in 0..Len(msgs')
        /\ AnswerFollowsQuestion' /\ CapOvershoot' /\ AddUpTo(msgs, totalCost)'
    BY <1>2, <2>1, <2>2, <2>5, <2>6, RowAppended
  <2>8. ChatTypes'
    BY <1>1, <1>2, <2>4, <2>7 DEF ChatTypes
  <2>9. NoSession'
    <3>1. session \notin {"none", "gone"}
      BY <1>3, <1>5 DEF ChatInv, WorkerFits
    <3>2. sender.next \in Int
      BY <1>1 DEF ChatTypes
    <3> QED
      BY <1>1, <1>2, <2>7, <3>1, <3>2 DEF ChatInv, NoSession
  <2>10. OneHolds'
    BY <1>3, <2>4 DEF ChatInv, OneHolds, Holding
  <2>11. WorkerFits'
    <3> SUFFICES ASSUME NEW k \in 1..MaxRow, jobs'[k].pc \in Active
                 PROVE  /\ k < MaxRow
                        /\ chatListen \in {"up", "draining"}
                        /\ session # "none"
                        /\ k <= Len(msgs')
                        /\ msgs'[k].role = "operator"
                        /\ jobs'[k].pc \in {"refusing", "inserted", "running"} /\ k + 1 <= Len(msgs') =>
                              msgs'[k + 1].status # "aborted"
                        /\ Unpaid(jobs'[k]) /\ k + 1 <= Len(msgs') => msgs'[k + 1].cost = 0
                        /\ jobs'[k].pc = "locked" \/ Unpaid(jobs'[k]) => totalCost < CostCap
      BY <1>2 DEF WorkerFits
    <3>1. jobs[k].pc \in Active
      BY <1>3, <2>4 DEF Active
    <3>2. /\ k < MaxRow
          /\ chatListen \in {"up", "draining"}
          /\ session # "none"
          /\ k <= Len(msgs)
          /\ msgs[k].role = "operator"
          /\ jobs[k].pc \in {"refusing", "inserted", "running"} /\ k + 1 <= Len(msgs) =>
                msgs[k + 1].status # "aborted"
          /\ Unpaid(jobs[k]) /\ k + 1 <= Len(msgs) => msgs[k + 1].cost = 0
          /\ jobs[k].pc = "locked" \/ Unpaid(jobs[k]) => totalCost < CostCap
      BY <1>5, <3>1 DEF ChatInv, WorkerFits
    <3>3. CASE k # i
      BY <1>1, <2>1, <2>4, <2>7, <3>2, <3>3
    <3>4. CASE k = i
      <4>1. Unpaid(jobs'[i]) => jobs[i].pc = "locked"
        BY <2>3, <2>4 DEF Unpaid
      <4> QED
        BY <1>1, <2>1, <2>3, <2>4, <2>5, <2>6, <2>7, <3>2, <3>4, <4>1
    <3> QED
      BY <3>3, <3>4
  <2> QED
    BY <2>7, <2>8, <2>9, <2>10, <2>11 DEF ChatInv
<1> QED
  BY <1>4, <1>5

\* The result writes the row and the session total together: the sums move alike.
LEMMA ChatResult ==
    ASSUME ChatInv, NEW i \in 1..MaxRow, NEW status \in {"completed", "failed"},
           NEW cost \in 0..TurnCost, OnResult(i, status, cost)
    PROVE  ChatInv'
<1>1. /\ ChatTypes /\ jobs \in [1..MaxRow -> Job] /\ msgs \in Seq(Row) /\ Len(msgs) \in Nat
      /\ totalCost \in Nat
  BY DEF ChatInv, ChatTypes
<1>2. /\ jobs[i].pc = "running" /\ ~jobs[i].result
      /\ jobs' = [jobs EXCEPT ![i].result = TRUE]
      /\ CommitAssistantTerminal(i, status, cost)
      /\ UNCHANGED <<session, msgsAged, sender, chatListen>>
  BY DEF OnResult
<1>3. /\ jobs' \in [1..MaxRow -> Job] /\ jobs'[i].pc = "running" /\ jobs'[i].result
      /\ \A k \in 1..MaxRow : k # i => jobs'[k] = jobs[k]
  <2>1. PICK j : j = [jobs[i] EXCEPT !.result = TRUE]
    OBVIOUS
  <2>2. jobs[i] \in Job
    BY <1>1
  <2>3. j \in Job /\ j.pc = "running" /\ j.result = TRUE
    BY <1>2, <2>1, <2>2 DEF Job
  <2>4. jobs' = [jobs EXCEPT ![i] = j]
    BY <1>2, <2>1
  <2>5. jobs'[i] = j /\ jobs' \in [1..MaxRow -> Job] /\ \A k \in 1..MaxRow : k # i => jobs'[k] = jobs[k]
    BY <1>1, <2>3, <2>4
  <2> QED
    BY <2>3, <2>5
<1>4. jobs[i].pc \in Holding /\ jobs[i].pc \in Active /\ Unpaid(jobs[i]) /\ ~Unpaid(jobs'[i])
  BY <1>2, <1>3 DEF Holding, Active, Unpaid
<1>5. /\ i + 1 <= Len(msgs) => msgs[i + 1].status # "aborted" /\ msgs[i + 1].cost = 0
      /\ totalCost < CostCap
  BY <1>2, <1>4 DEF ChatInv, WorkerFits
<1>6. CASE UNCHANGED <<msgs, totalCost>>
  <2>1. chatFaults' \in 0..MaxChatFault
    BY <1>1, <1>2, ChatFaultBound DEF CommitAssistantTerminal, ChatTypes
  <2> QED
    BY <1>1, <1>2, <1>3, <1>4, <1>5, <1>6, <2>1, TurnMoves
<1>7. CASE /\ i + 1 <= Len(msgs)
           /\ msgs' = [msgs EXCEPT ![i + 1].status = status, ![i + 1].cost = cost]
           /\ totalCost' = totalCost + cost
           /\ UNCHANGED chatFaults
  <2>1. i + 1 \in 1..Len(msgs) /\ status \in Open \union Ended /\ status # "aborted"
    BY <1>1, <1>7 DEF Ended
  <2>2. /\ msgs' \in Seq(Row) /\ Len(msgs') = Len(msgs)
        /\ \A k \in 1..Len(msgs) : msgs'[k].role = msgs[k].role
        /\ msgs'[i + 1].status = status /\ msgs'[i + 1].cost = cost
        /\ \A k \in 1..Len(msgs) : k # i + 1 => msgs'[k] = msgs[k]
    <3>1. PICK j \in 1..Len(msgs) : j = i + 1
      BY <2>1
    <3>2. PICK u : u = [msgs EXCEPT ![j].status = status]
      OBVIOUS
    <3>3. PICK t : t = [u EXCEPT ![j].cost = cost]
      OBVIOUS
    <3>4. /\ u \in Seq(Row) /\ Len(u) = Len(msgs)
          /\ \A k \in 1..Len(msgs) : u[k].role = msgs[k].role /\ u[k].cost = msgs[k].cost
          /\ u[j].status = status
          /\ \A k \in 1..Len(msgs) : k # j => u[k] = msgs[k]
      BY <1>1, <2>1, <3>2, RowStatusWritten
    <3>5. /\ t \in Seq(Row) /\ Len(t) = Len(u)
          /\ \A k \in 1..Len(u) : t[k].role = u[k].role /\ t[k].status = u[k].status
          /\ t[j].cost = cost
          /\ \A k \in 1..Len(u) : k # j => t[k] = u[k]
      <4>1. u \in Seq(Row) /\ j \in 1..Len(u)
        BY ONLY <3>1, <3>4
      <4> QED
        BY ONLY <3>3, <4>1, cost \in 0..TurnCost, RowCostWritten
    <3>6. msgs' = t
      BY <1>7, <3>1, <3>2, <3>3
    <3> QED
      BY <3>1, <3>4, <3>5, <3>6
  <2>3. ChatTypes'
    BY <1>1, <1>2, <1>3, <1>7, <2>2 DEF ChatTypes
  <2>4. session \notin {"none", "gone"}
    BY <1>1, <2>1 DEF ChatInv, NoSession
  <2>5. NoSession'
    BY <1>2, <2>2, <2>4 DEF ChatInv, NoSession
  <2>6. OneHolds'
    BY <1>3, <1>4 DEF ChatInv, OneHolds
  <2>7. AnswerFollowsQuestion'
    BY <1>1, <2>2, RolesKept DEF ChatInv
  <2>8. CapOvershoot'
    BY <1>1, <1>5, <1>7, ChatAssumption DEF CapOvershoot
  <2>9. AddUpTo(msgs, totalCost)'
    <3>1. msgs'[i + 1].cost = msgs[i + 1].cost + cost
      BY <1>5, <1>7, <2>2
    <3>2. \A k \in 1..Len(msgs) : k # i + 1 => msgs'[k].cost = msgs[k].cost
      BY <2>2
    <3>3. AddUpTo(msgs', totalCost + cost)
      <4>1. AddUpTo(msgs, totalCost) /\ totalCost \in Int /\ cost \in Int
        BY <1>1, ChatAssumption DEF ChatInv
      <4> QED
        BY ONLY <1>1, <2>1, <2>2, <3>1, <3>2, <4>1, AddUpToMore
    <3> QED
      BY <1>7, <3>3
  <2>10. WorkerFits'
    <3> SUFFICES ASSUME NEW k \in 1..MaxRow, jobs'[k].pc \in Active
                 PROVE  /\ k < MaxRow
                        /\ chatListen \in {"up", "draining"}
                        /\ session # "none"
                        /\ session # "gone" => k <= Len(msgs)
                        /\ k <= Len(msgs) => msgs'[k].role = "operator"
                        /\ jobs'[k].pc \in {"refusing", "inserted", "running"} /\ k + 1 <= Len(msgs) =>
                              msgs'[k + 1].status # "aborted"
                        /\ Unpaid(jobs'[k]) /\ k + 1 <= Len(msgs) => msgs'[k + 1].cost = 0
                        /\ ~(jobs'[k].pc = "locked" \/ Unpaid(jobs'[k]))
      BY <1>2, <2>2 DEF WorkerFits
    <3>1. jobs[k].pc \in Active
      BY <1>3, <1>4
    <3>2. /\ k < MaxRow
          /\ chatListen \in {"up", "draining"}
          /\ session # "none"
          /\ session # "gone" => k <= Len(msgs)
          /\ k <= Len(msgs) => msgs[k].role = "operator"
          /\ jobs[k].pc \in {"refusing", "inserted", "running"} /\ k + 1 <= Len(msgs) =>
                msgs[k + 1].status # "aborted"
          /\ Unpaid(jobs[k]) /\ k + 1 <= Len(msgs) => msgs[k + 1].cost = 0
      BY <3>1 DEF ChatInv, WorkerFits
    <3>3. CASE k # i
      <4>1. jobs'[k] = jobs[k] /\ jobs[k].pc \notin Holding
        BY <1>3, <1>4, <3>3 DEF ChatInv, OneHolds
      <4>2. ~(jobs'[k].pc = "locked" \/ Unpaid(jobs'[k])) /\ jobs'[k].pc \notin {"refusing", "inserted", "running"}
        BY <4>1 DEF Holding, Unpaid
      <4> QED
        BY <1>1, <2>2, <3>2, <4>2
    <3>4. CASE k = i
      BY <1>1, <1>3, <1>4, <2>1, <2>2, <3>2, <3>4
    <3> QED
      BY <3>3, <3>4
  <2> QED
    BY <2>3, <2>5, <2>6, <2>7, <2>8, <2>9, <2>10 DEF ChatInv
<1> QED
  BY <1>2, <1>6, <1>7 DEF CommitAssistantTerminal

\* Without workers the invariant is about the rows alone.
LEMMA NoWorkers ==
    ASSUME ChatTypes', NoSession', AnswerFollowsQuestion', CapOvershoot', AddUpTo(msgs, totalCost)',
           \A k \in 1..MaxRow : jobs'[k].pc \notin Active
    PROVE  ChatInv'
<1>1. OneHolds'
  BY DEF OneHolds, Active
<1>2. WorkerFits'
  BY DEF WorkerFits
<1> QED
  BY <1>1, <1>2 DEF ChatInv

\* A crash forgets the jobs and keeps the rows.
LEMMA ChatCrashes ==
    ASSUME ChatInv, ChatCrash
    PROVE  ChatInv'
<1>1. ChatTypes
  BY DEF ChatInv
<1>2. /\ UNCHANGED <<session, totalCost, msgs, msgsAged, sender>> /\ chatListen' = "down"
      /\ jobs' = [i \in 1..MaxRow |-> NoTurn] /\ chatFaults' \in 0..MaxChatFault
  BY <1>1, ChatFaultBound DEF ChatCrash
<1>3. NoTurn \in Job /\ NoTurn.pc \notin Active
  BY ChatAssumption DEF NoTurn, Job, Active, Holding
<1>4. ChatTypes'
  BY <1>1, <1>2, <1>3 DEF ChatTypes
<1>5. NoSession' /\ AnswerFollowsQuestion' /\ CapOvershoot' /\ AddUpTo(msgs, totalCost)'
  BY <1>2 DEF ChatInv, NoSession, AnswerFollowsQuestion, CapOvershoot
<1> QED
  BY <1>2, <1>3, <1>4, <1>5, NoWorkers

\* MarkPendingMessagesAborted rewrites statuses only.
LEMMA RowsMarked ==
    ASSUME msgs \in Seq(Row),
           msgs' = [i \in DOMAIN msgs |->
               IF msgs[i].status \in Open /\ i <= msgsAged
               THEN [msgs[i] EXCEPT !.status = "aborted"] ELSE msgs[i]]
    PROVE  /\ msgs' \in Seq(Row) /\ Len(msgs') = Len(msgs)
           /\ \A k \in 1..Len(msgs) : msgs'[k].role = msgs[k].role /\ msgs'[k].cost = msgs[k].cost
           /\ \A k \in 1..Len(msgs) : msgs[k].status = "aborted" => msgs'[k].status = "aborted"
<1>1. PICK n : n = Len(msgs)
  OBVIOUS
<1>2. n \in Nat /\ DOMAIN msgs = 1..n /\ \A k \in 1..n : msgs[k] \in Row
  BY <1>1
<1>3. ASSUME NEW k \in 1..n
      PROVE  /\ msgs'[k] \in Row /\ msgs'[k].role = msgs[k].role /\ msgs'[k].cost = msgs[k].cost
             /\ msgs[k].status = "aborted" => msgs'[k].status = "aborted"
  <2>1. PICK r : r = [msgs[k] EXCEPT !.status = "aborted"]
    OBVIOUS
  <2>2. r \in Row /\ r.role = msgs[k].role /\ r.cost = msgs[k].cost /\ r.status = "aborted"
    BY <1>2, <2>1 DEF Row, Ended
  <2>3. msgs'[k] = r \/ msgs'[k] = msgs[k]
    BY <1>2, <2>1
  <2> QED
    BY <1>2, <2>2, <2>3
<1>4. DOMAIN msgs' = 1..n /\ msgs' = [k \in 1..n |-> msgs'[k]]
  BY <1>2
<1>5. msgs' \in Seq(Row) /\ Len(msgs') = n
  BY <1>2, <1>3, <1>4
<1> QED
  BY <1>1, <1>3, <1>5

\* Aborting open rows that have aged changes no cost.
LEMMA ChatMarks ==
    ASSUME ChatInv, MarkPendingMessagesAborted
    PROVE  ChatInv'
<1>1. ChatTypes /\ msgs \in Seq(Row)
  BY DEF ChatInv, ChatTypes
<1>2. /\ msgs' \in Seq(Row) /\ Len(msgs') = Len(msgs)
      /\ \A k \in 1..Len(msgs) : msgs'[k].role = msgs[k].role /\ msgs'[k].cost = msgs[k].cost
  BY <1>1, RowsMarked DEF MarkPendingMessagesAborted
<1>3. /\ UNCHANGED <<session, totalCost, msgsAged, sender, jobs, chatFaults>>
      /\ chatListen = "booting" /\ chatListen' \in {"orphans", "aborting"}
  BY DEF MarkPendingMessagesAborted, SweepTurn
<1>4. ChatTypes'
  BY <1>1, <1>2, <1>3 DEF ChatTypes
<1>5. NoSession' /\ CapOvershoot'
  <2>1. msgs = <<>> => msgs' = <<>>
    BY <1>2
  <2> QED
    BY <1>2, <1>3, <2>1 DEF ChatInv, NoSession, CapOvershoot
<1>6. AnswerFollowsQuestion'
  BY <1>1, <1>2, RolesKept DEF ChatInv
<1>7. AddUpTo(msgs', totalCost)
  BY <1>1, <1>2, AddUpToSame DEF ChatInv
<1>8. \A k \in 1..MaxRow : jobs'[k].pc \notin Active
  BY <1>3 DEF ChatInv, WorkerFits
<1> QED
  BY <1>3, <1>4, <1>5, <1>6, <1>7, <1>8, NoWorkers

\* The orphan sweep puts an aborted answer behind a question nobody answers.
LEMMA ChatOrphans ==
    ASSUME ChatInv, OrphanSweep
    PROVE  ChatInv'
<1>1. ChatTypes /\ msgs \in Seq(Row) /\ Len(msgs) \in Nat /\ Len(msgs) <= MaxRow /\ MaxRow \in Nat
  BY ChatAssumption DEF ChatInv, ChatTypes
<1>2. /\ UNCHANGED <<totalCost, msgsAged, sender, jobs, chatFaults>>
      /\ chatListen = "orphans" /\ chatListen' = "up"
  BY DEF OrphanSweep
<1>3. \A k \in 1..MaxRow : jobs'[k].pc \notin Active
  BY <1>2 DEF ChatInv, WorkerFits
<1>4. CASE UNCHANGED <<msgs, session>>
  <2>1. ChatTypes'
    BY <1>1, <1>2, <1>4 DEF ChatTypes
  <2>2. NoSession' /\ AnswerFollowsQuestion' /\ CapOvershoot' /\ AddUpTo(msgs, totalCost)'
    BY <1>2, <1>4 DEF ChatInv, NoSession, AnswerFollowsQuestion, CapOvershoot
  <2> QED
    BY <1>3, <2>1, <2>2, NoWorkers
<1>5. CASE /\ session = "active" /\ msgs # <<>>
           /\ msgs[Len(msgs)].role = "operator" /\ Len(msgs) < MaxRow
           /\ msgs' = Append(msgs, [PendingRow EXCEPT !.status = "aborted"])
           /\ session' = "aborted"
  <2>1. PICK r : r = [PendingRow EXCEPT !.status = "aborted"]
    OBVIOUS
  <2>2. r \in Row /\ r.cost = 0
    BY <2>1, ChatAssumption DEF PendingRow, Row, Ended
  <2>3. Len(msgs) >= 1
    BY <1>1, <1>5
  <2>4. /\ msgs' \in Seq(Row) /\ Len(msgs') = Len(msgs) + 1 /\ Len(msgs') <= MaxRow
        /\ msgsAged \in 0..Len(msgs')
        /\ AnswerFollowsQuestion' /\ CapOvershoot' /\ AddUpTo(msgs, totalCost)'
    BY <1>2, <1>5, <2>1, <2>2, <2>3, RowAppended
  <2>5. ChatTypes'
    BY <1>1, <1>2, <1>5, <2>4 DEF ChatTypes
  <2>6. NoSession'
    <3>1. sender.next \in Int
      BY <1>1 DEF ChatTypes
    <3> QED
      BY <1>1, <1>2, <1>5, <2>4, <3>1 DEF ChatInv, NoSession
  <2> QED
    BY <1>3, <2>4, <2>5, <2>6, NoWorkers
<1> QED
  BY <1>4, <1>5 DEF OrphanSweep

\* Deleting the session takes its rows with it.
LEMMA ChatDeletes ==
    ASSUME ChatInv, DeleteChatSession
    PROVE  ChatInv'
<1>1. ChatTypes
  BY DEF ChatInv
<1>2. /\ session' = "gone" /\ msgs' = <<>> /\ msgsAged' = 0 /\ totalCost' = 0
      /\ UNCHANGED <<sender, jobs, chatListen, chatFaults>> /\ session \notin {"none", "gone"}
  BY DEF DeleteChatSession
<1>3. <<>> \in Seq(Row) /\ Len(<<>>) = 0 /\ DOMAIN <<>> = {}
  OBVIOUS
<1>4. ChatTypes'
  BY <1>1, <1>2, <1>3, ChatAssumption DEF ChatTypes
<1>5. NoSession' /\ CapOvershoot' /\ OneHolds'
  BY <1>2, ChatAssumption DEF ChatInv, NoSession, CapOvershoot, OneHolds
<1>6. AnswerFollowsQuestion'
  BY <1>2, <1>3 DEF AnswerFollowsQuestion
<1>7. AddUpTo(msgs, totalCost)'
  BY <1>2, AddUpToNone
<1>8. WorkerFits'
  <2> SUFFICES ASSUME NEW k \in 1..MaxRow, jobs[k].pc \in Active
               PROVE  k < MaxRow /\ chatListen \in {"up", "draining"} /\ 0 < CostCap
    BY <1>2, <1>3 DEF WorkerFits
  <2> QED
    BY ChatAssumption DEF ChatInv, WorkerFits
<1> QED
  BY <1>4, <1>5, <1>6, <1>7, <1>8 DEF ChatInv

\* Notify wakes a worker for row i, or nobody.
LEMMA Notified ==
    ASSUME jobs \in [1..MaxRow -> Job], NEW i \in 1..MaxRow, Notify(i)
    PROVE  /\ jobs' \in [1..MaxRow -> Job]
           /\ \A k \in 1..MaxRow : k # i => jobs'[k] = jobs[k]
           /\ jobs'[i] = jobs[i] \/ (chatListen = "up" /\ jobs'[i].pc = "waits")
<1>1. PICK j : j = [NoTurn EXCEPT !.pc = "waits"]
  OBVIOUS
<1>2. j = [pc |-> "waits", calls |-> 0, result |-> FALSE]
  BY <1>1 DEF NoTurn
<1>3. 0 \in 0..(ToolCallCeiling + 1)
  BY ChatAssumption
<1>4. j \in Job /\ j.pc = "waits"
  BY <1>2, <1>3 DEF Job
<1> QED
  BY <1>1, <1>4 DEF Notify

\* The operator's row at the end, and its worker if somebody listens.
LEMMA Asked ==
    ASSUME ChatInv, NEW i \in 1..MaxRow, i = Len(msgs) + 1, i < MaxRow,
           msgs' = Append(msgs, OperatorRow), Notify(i), session' \notin {"none", "gone"},
           session' # "gone" => session # "gone",
           session = "none" => \A k \in 1..MaxRow : jobs[k].pc \notin Active,
           session' \in {"active", "ended", "aborted"}, totalCost' = totalCost,
           sender' \in [pc: {"idle", "checked", "numbered"}, attempt: 0..1, next: 0..(MaxRow + 1)],
           sender'.pc # "numbered",
           UNCHANGED <<msgsAged, chatListen, chatFaults>>
    PROVE  ChatInv'
<1>1. ChatTypes /\ jobs \in [1..MaxRow -> Job] /\ msgs \in Seq(Row) /\ Len(msgs) \in Nat
  BY DEF ChatInv, ChatTypes
<1>2. OperatorRow \in Row /\ OperatorRow.cost = 0 /\ OperatorRow.role = "operator"
      /\ OperatorRow.status # "aborted"
  BY ChatAssumption DEF OperatorRow, Row, Ended
<1>3. Len(msgs) < MaxRow
  BY <1>1, ChatAssumption
<1>4. /\ msgs' \in Seq(Row) /\ Len(msgs') = Len(msgs) + 1 /\ Len(msgs') <= MaxRow
      /\ \A k \in 1..Len(msgs) : msgs'[k] = msgs[k]
      /\ msgs'[Len(msgs) + 1] = OperatorRow
      /\ msgsAged \in 0..Len(msgs')
      /\ AnswerFollowsQuestion' /\ CapOvershoot' /\ AddUpTo(msgs, totalCost)'
  BY <1>2, <1>3, RowAppended
<1>5. /\ jobs' \in [1..MaxRow -> Job]
      /\ \A k \in 1..MaxRow : k # i => jobs'[k] = jobs[k]
      /\ jobs'[i] = jobs[i] \/ (chatListen = "up" /\ jobs'[i].pc = "waits")
  BY <1>1, Notified
<1>6. ChatTypes'
  BY <1>1, <1>4, <1>5 DEF ChatTypes
<1>7. NoSession'
  BY DEF NoSession
<1>8. OneHolds'
  BY <1>5 DEF ChatInv, OneHolds, Holding
<1>9. WorkerFits'
  <2> SUFFICES ASSUME NEW k \in 1..MaxRow, jobs'[k].pc \in Active
               PROVE  /\ k < MaxRow
                      /\ chatListen \in {"up", "draining"}
                      /\ k <= Len(msgs')
                      /\ msgs'[k].role = "operator"
                      /\ jobs'[k].pc \in {"refusing", "inserted", "running"} /\ k + 1 <= Len(msgs') =>
                            msgs'[k + 1].status # "aborted"
                      /\ Unpaid(jobs'[k]) /\ k + 1 <= Len(msgs') => msgs'[k + 1].cost = 0
                      /\ jobs'[k].pc = "locked" \/ Unpaid(jobs'[k]) => totalCost < CostCap
    BY DEF WorkerFits
  <2>1. CASE jobs'[k] = jobs[k]
    <3>1. /\ k < MaxRow
          /\ chatListen \in {"up", "draining"}
          /\ k <= Len(msgs)
          /\ msgs[k].role = "operator"
          /\ jobs[k].pc \in {"refusing", "inserted", "running"} /\ k + 1 <= Len(msgs) =>
                msgs[k + 1].status # "aborted"
          /\ Unpaid(jobs[k]) /\ k + 1 <= Len(msgs) => msgs[k + 1].cost = 0
          /\ jobs[k].pc = "locked" \/ Unpaid(jobs[k]) => totalCost < CostCap
      BY <2>1 DEF ChatInv, WorkerFits
    <3>2. CASE k + 1 <= Len(msgs)
      BY <1>1, <1>4, <2>1, <3>1, <3>2
    <3>3. CASE k = Len(msgs)
      BY <1>1, <1>2, <1>4, <2>1, <3>1, <3>3
    <3> QED
      BY <1>1, <3>1, <3>2, <3>3
  <2>2. CASE k = i /\ chatListen = "up" /\ jobs'[i].pc = "waits"
    <3>1. ~Unpaid(jobs'[i])
      BY <2>2 DEF Unpaid
    <3> QED
      BY <1>1, <1>2, <1>4, <2>2, <3>1
  <2> QED
    BY <1>5, <2>1, <2>2
<1> QED
  BY <1>4, <1>6, <1>7, <1>8, <1>9 DEF ChatInv

\* A new session begins with no rows, or with its first question.
LEMMA ChatStarts ==
    ASSUME ChatInv, NEW empty \in BOOLEAN, StartChatSession(empty)
    PROVE  ChatInv'
<1>1. ChatTypes /\ jobs \in [1..MaxRow -> Job] /\ msgs \in Seq(Row)
  BY DEF ChatInv, ChatTypes
<1>2. /\ session = "none" /\ session' = "active"
      /\ UNCHANGED <<totalCost, msgsAged, sender, chatListen, chatFaults>>
  BY DEF StartChatSession
<1>3. msgs = <<>> /\ sender.pc = "idle" /\ \A k \in 1..MaxRow : jobs[k].pc \notin Active
  BY <1>2 DEF ChatInv, NoSession, WorkerFits
<1>4. CASE UNCHANGED <<msgs, jobs>>
  <2>1. ChatTypes'
    BY <1>1, <1>2, <1>4 DEF ChatTypes
  <2>2. NoSession' /\ AnswerFollowsQuestion' /\ CapOvershoot' /\ AddUpTo(msgs, totalCost)'
    BY <1>2, <1>3, <1>4 DEF ChatInv, NoSession, AnswerFollowsQuestion, CapOvershoot
  <2> QED
    BY <1>3, <1>4, <2>1, <2>2, NoWorkers
<1>5. CASE msgs' = <<OperatorRow>> /\ Notify(1)
  <2>1. 1 \in 1..MaxRow /\ 1 < MaxRow /\ Len(msgs) = 0
    BY <1>3, ChatAssumption
  <2>2. msgs' = Append(msgs, OperatorRow)
    BY <1>3, <1>5
  <2>3. sender' \in [pc: {"idle", "checked", "numbered"}, attempt: 0..1, next: 0..(MaxRow + 1)]
    BY <1>1, <1>2 DEF ChatTypes
  <2> QED
    BY <1>2, <1>3, <1>5, <2>1, <2>2, <2>3, Asked
<1> QED
  BY <1>4, <1>5 DEF StartChatSession

\* A question is inserted behind everything that was written.
LEMMA ChatSends ==
    ASSUME ChatInv, SendInserts
    PROVE  ChatInv'
<1>1. /\ ChatTypes /\ jobs \in [1..MaxRow -> Job] /\ msgs \in Seq(Row) /\ Len(msgs) \in Nat
      /\ sender.next \in 0..(MaxRow + 1) /\ MaxRow \in Nat
  BY ChatAssumption DEF ChatInv, ChatTypes
<1>2. /\ sender.pc = "numbered"
      /\ UNCHANGED <<session, totalCost, msgsAged, chatListen, chatFaults>>
  BY DEF SendInserts
<1>3. session # "none" /\ sender.next >= 1 /\ (session # "gone" => sender.next <= Len(msgs) + 1)
  BY <1>2 DEF ChatInv, NoSession
<1>4. /\ sender' \in [pc: {"idle", "checked", "numbered"}, attempt: 0..1, next: 0..(MaxRow + 1)]
      /\ sender'.pc # "numbered"
  <2>1. \/ sender' = [pc |-> "checked", attempt |-> 1, next |-> 0]
        \/ sender' = [pc |-> "idle", attempt |-> 0, next |-> 0]
    BY DEF SendInserts
  <2> QED
    BY <1>1, <2>1
<1>5. CASE UNCHANGED <<msgs, jobs>>
  <2>1. ChatTypes'
    BY <1>1, <1>2, <1>4, <1>5 DEF ChatTypes
  <2>2. NoSession'
    BY <1>2, <1>3, <1>4, <1>5 DEF ChatInv, NoSession
  <2>3. AnswerFollowsQuestion' /\ CapOvershoot' /\ AddUpTo(msgs, totalCost)' /\ OneHolds' /\ WorkerFits'
    BY <1>2, <1>5 DEF ChatInv, AnswerFollowsQuestion, CapOvershoot, OneHolds, WorkerFits
  <2> QED
    BY <2>1, <2>2, <2>3 DEF ChatInv
<1>6. CASE /\ ~(sender.next <= Len(msgs)) /\ session # "gone" /\ sender.next < MaxRow
           /\ msgs' = Append(msgs, OperatorRow) /\ Notify(sender.next)
  <2>1. PICK i \in 1..MaxRow : i = sender.next
    BY <1>1, <1>3, <1>6
  <2>2. i = Len(msgs) + 1 /\ i < MaxRow
    BY <1>1, <1>3, <1>6, <2>1
  <2>3. session' \in {"active", "ended", "aborted"} /\ session' = session
    BY <1>1, <1>2, <1>3, <1>6 DEF ChatTypes
  <2> QED
    BY <1>2, <1>3, <1>4, <1>6, <2>1, <2>2, <2>3, Asked
<1> QED
  BY <1>5, <1>6 DEF SendInserts

\* The chat's invariant holds at the start.
LEMMA ChatInvInit ==
    ASSUME ChatInit
    PROVE  ChatInv
<1> USE ChatAssumption DEF ChatInit
<1>1. NoTurn \in Job /\ NoTurn.pc \notin Active /\ NoTurn.pc \notin Holding
  BY DEF NoTurn, Job, Active, Holding
<1>2. msgs \in Seq(Row) /\ Len(msgs) = 0 /\ DOMAIN msgs = {}
  OBVIOUS
<1>3. ChatTypes
  BY <1>1, <1>2 DEF ChatTypes
<1>4. NoSession /\ AnswerFollowsQuestion /\ CapOvershoot
  BY <1>2 DEF NoSession, AnswerFollowsQuestion, CapOvershoot
<1>5. WorkerFits /\ OneHolds
  BY <1>1 DEF WorkerFits, OneHolds
<1>6. AddUpTo(msgs, totalCost)
  BY AddUpToNone
<1> QED
  BY <1>3, <1>4, <1>5, <1>6 DEF ChatInv

\* Every step of the chat keeps it.
LEMMA ChatInvStep ==
    ASSUME ChatInv, [ChatNext]_chatVars
    PROVE  ChatInv'
<1>1. CASE ChatNext
  <2>1. CASE \E empty \in BOOLEAN : StartChatSession(empty)
    BY <2>1, ChatStarts
  <2>2. CASE SendInserts
    BY <2>2, ChatSends
  <2>3. CASE DeleteChatSession
    BY <2>3, ChatDeletes
  <2>4. CASE \E i \in 1..MaxRow : ChatWork(i) \/ \E clean \in BOOLEAN : ContainerExits(i, clean)
    BY <2>4, ChatHandles, ChatInserts, ChatWrites, ChatSpawns, ChatExits DEF ChatWork
  <2>5. CASE \E i \in 1..MaxRow : ToolUse(i)
    BY <2>5, ChatToolUse
  <2>6. CASE \E i \in 1..MaxRow, status \in {"completed", "failed"}, cost \in 0..TurnCost :
                 OnResult(i, status, cost)
    BY <2>6, ChatResult
  <2>7. CASE \E i \in 1..MaxRow : ParseError(i)
    BY <2>7, ChatWrites
  <2>8. CASE ChatCrash
    BY <2>8, ChatCrashes
  <2>9. CASE MarkPendingMessagesAborted
    BY <2>9, ChatMarks
  <2>10. CASE OrphanSweep
    BY <2>10, ChatOrphans
  <2>11. CASE SendChecks \/ SendNumbers \/ RowsAge \/ EndChatSession \/ IdleSweep
                     \/ ChatLosesConn \/ ChatRelistens \/ ChatBoots \/ AbortSessions
    BY <2>11, ChatIdleSteps
  <2> QED
    BY <1>1, <2>1, <2>2, <2>3, <2>4, <2>5, <2>6, <2>7, <2>8, <2>9, <2>10, <2>11 DEF ChatNext
<1>2. CASE UNCHANGED chatVars
  <2>1. AddUpTo(msgs, totalCost)'
    BY <1>2 DEF ChatInv, chatVars
  <2> QED
    BY <1>2, <2>1 DEF ChatInv, chatVars, ChatTypes, NoSession, WorkerFits, OneHolds,
                      AnswerFollowsQuestion, CapOvershoot
<1> QED
  BY <1>1, <1>2

\* What a reader wants of it: types, and a conversation whose account adds up.
LEMMA ChatSafe ==
    ASSUME ChatInv
    PROVE  ChatTypeOK /\ TurnsAddUp
<1>1. ChatTypeOK
  BY DEF ChatInv, ChatTypes, ChatTypeOK
<1>2. CostAddsUp
  BY AddUpToCost DEF ChatInv, ChatTypes, CostAddsUp
<1> QED
  BY <1>1, <1>2 DEF ChatInv, TurnsAddUp

\* No step takes a row out of "aborted".
LEMMA AbortedKept ==
    ASSUME ChatInv, [ChatNext]_chatVars, NEW j \in DOMAIN msgs \intersect DOMAIN msgs',
           msgs[j].status = "aborted"
    PROVE  msgs'[j].status = "aborted"
<1>1. msgs \in Seq(Row) /\ Len(msgs) \in Nat /\ j \in 1..Len(msgs)
  BY DEF ChatInv, ChatTypes
<1>2. ASSUME NEW i \in 1..MaxRow, jobs[i].pc \in {"refusing", "inserted", "running"}
      PROVE  i + 1 # j
  BY <1>1, <1>2 DEF ChatInv, WorkerFits, Active, Holding
<1>3. ASSUME NEW i \in 1..MaxRow, TerminalWriteWithError(i), jobs[i].pc \in {"refusing", "inserted", "running"}
      PROVE  msgs'[j] = msgs[j]
  BY <1>1, <1>2, <1>3, ErrorWritten
<1>4. CASE ChatNext
  <2>1. CASE \E empty \in BOOLEAN : StartChatSession(empty)
    <3>1. msgs = <<>>
      BY <2>1 DEF ChatInv, NoSession, StartChatSession
    <3> QED
      BY <1>1, <3>1
  <2>2. CASE SendInserts
    <3>1. msgs' = msgs \/ msgs' = Append(msgs, OperatorRow)
      BY <2>2 DEF SendInserts
    <3> QED
      BY <1>1, <3>1
  <2>3. CASE DeleteChatSession
    <3>1. DOMAIN msgs' = {}
      BY <2>3 DEF DeleteChatSession
    <3> QED
      BY <3>1
  <2>4. CASE \E i \in 1..MaxRow : ChatWork(i) \/ \E clean \in BOOLEAN : ContainerExits(i, clean)
    <3>1. PICK i \in 1..MaxRow : ChatWork(i) \/ \E clean \in BOOLEAN : ContainerExits(i, clean)
      BY <2>4
    <3>2. CASE HandleMessage(i)
      BY <3>2 DEF HandleMessage
    <3>3. CASE InsertAssistantPending(i)
      <4>1. msgs' = msgs \/ msgs' = Append(msgs, PendingRow)
        BY <3>3 DEF InsertAssistantPending
      <4> QED
        BY <1>1, <4>1
    <3>4. CASE WriteAssistantError(i)
      BY <1>3, <3>4 DEF WriteAssistantError
    <3>5. CASE \E healthy \in BOOLEAN : SpawnTurn(i, healthy)
      <4>1. jobs[i].pc = "inserted" /\ i + 1 # j
        BY <1>2, <3>5 DEF SpawnTurn
      <4>2. \/ TerminalWriteWithError(i) \/ msgs' = msgs
            \/ msgs' = [msgs EXCEPT ![i + 1].status = "streaming"]
        BY <3>5 DEF SpawnTurn, OnInit
      <4> QED
        BY <1>1, <1>3, <4>1, <4>2
    <3>6. CASE \E clean \in BOOLEAN : ContainerExits(i, clean)
      BY <1>3, <3>6 DEF ContainerExits
    <3> QED
      BY <3>1, <3>2, <3>3, <3>4, <3>5, <3>6 DEF ChatWork
  <2>5. CASE \E i \in 1..MaxRow : ToolUse(i)
    BY <2>5 DEF ToolUse
  <2>6. CASE \E i \in 1..MaxRow, status \in {"completed", "failed"}, cost \in 0..TurnCost :
                 OnResult(i, status, cost)
    <3>1. PICK i \in 1..MaxRow, status \in {"completed", "failed"}, cost \in 0..TurnCost :
                 OnResult(i, status, cost)
      BY <2>6
    <3>2. i + 1 # j
      BY <1>2, <3>1 DEF OnResult
    <3>3. msgs' = msgs \/ msgs' = [msgs EXCEPT ![i + 1].status = status, ![i + 1].cost = cost]
      BY <3>1 DEF OnResult, CommitAssistantTerminal
    <3>4. msgs'[j] = msgs[j]
      BY <1>1, <3>2, <3>3
    <3> QED
      BY <3>4
  <2>7. CASE \E i \in 1..MaxRow : ParseError(i)
    BY <1>3, <2>7 DEF ParseError
  <2>8. CASE MarkPendingMessagesAborted
    BY <1>1, <2>8, RowsMarked DEF MarkPendingMessagesAborted
  <2>9. CASE OrphanSweep
    <3>1. msgs' = msgs \/ msgs' = Append(msgs, [PendingRow EXCEPT !.status = "aborted"])
      BY <2>9 DEF OrphanSweep
    <3> QED
      BY <1>1, <3>1
  <2>10. CASE SendChecks \/ SendNumbers \/ RowsAge \/ EndChatSession \/ IdleSweep \/ ChatCrash
                     \/ ChatLosesConn \/ ChatRelistens \/ ChatBoots \/ AbortSessions
    BY <2>10 DEF SendChecks, SendNumbers, RowsAge, EndChatSession, IdleSweep, ChatCrash,
                 ChatLosesConn, ChatRelistens, ChatBoots, AbortSessions
  <2> QED
    BY <1>4, <2>1, <2>2, <2>3, <2>4, <2>5, <2>6, <2>7, <2>8, <2>9, <2>10 DEF ChatNext
<1>5. CASE UNCHANGED chatVars
  BY <1>5 DEF chatVars
<1> QED
  BY <1>4, <1>5

=============================================================================
