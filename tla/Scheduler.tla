------------------------------ MODULE Scheduler ------------------------------
(***************************************************************************)
(* Scheduled wake-ups: the tick loop that fires due tasks                  *)
(* (internal/schedule), the dashboard's and the chat's changes to them,    *)
(* and the one-shot runs that need no ticket (spawn/oneshot.go).           *)
(*                                                                         *)
(* Time is a counter of schedule slots.  A tick is one transaction over    *)
(* all claimed tasks, so a crash inside it leaves nothing behind; ticks    *)
(* missed while the supervisor is down show as a clock that ran on.        *)
(***************************************************************************)
EXTENDS Integers, FiniteSets, Sequences

CONSTANTS
    TicketTasks,   \* tasks with mode 'ticket'
    OneshotTasks,  \* tasks with mode 'oneshot'; all use the same agent role
    Period,        \* slots between two firings of a task
    ClaimLimit,    \* tasks claimed by one tick
    MaxNow,        \* bound on the clock
    MaxRuns,       \* bound on the runs of a task
    MaxRewrite,    \* bound on the edits and resumes of a task
    MaxReopen,     \* bound on the tickets of a task moved out of done
    MaxReset,      \* bound on the reloads of the agents cache
    MaxMishap      \* bound on crashes and failed writes

Tasks == TicketTasks \union OneshotTasks

ASSUME SchedulerAssumption ==
    /\ Period \in Nat \ {0} /\ ClaimLimit \in Nat \ {0}
    /\ MaxNow \in Nat /\ MaxRuns \in Nat /\ MaxMishap \in Nat /\ MaxRewrite \in Nat
    /\ MaxReopen \in Nat /\ MaxReset \in Nat
    /\ TicketTasks \intersect OneshotTasks = {}

VARIABLES
    now,       \* the clock
    task,      \* "none", "live", "paused" or "deleted"
    next,      \* scheduled_tasks.next_fire_at
    runs,      \* scheduled_task_runs, with the rows each run points to
    form,      \* a dashboard edit or resume between validation and write
    firing,   \* what the handler of a run's event is doing
    rewrites,  \* edits and resumes written per task
    reopens,   \* tickets of a task moved out of done so far
    slotless,  \* the runs whose handler was let through without the agent's slot
    known,     \* the agents cache has the role's agent
    resets,    \* reloads of the cache so far
    mishaps    \* crashes and failed writes so far

gateVars == <<slotless, known, resets>>
schedVars == <<now, task, next, runs, form, firing, rewrites, mishaps, gateVars, reopens>>

\* One row of scheduled_task_runs: its slot and outcome, the ticket it made,
\* the outbox event it queued, the instance last linked to it and whether
\* that instance stored a structured outcome.
Run == [slot: Nat, outcome: {"fired", "skipped_overlap", "gate_deferred", "failed"},
        ticket: {"none", "open", "done"}, event: {"none", "open", "processed"},
        inst: {"none", "running", "succeeded", "failed"}, structured: BOOLEAN]

NoForm == -1
Quiet == "quiet"

SchedTypeOK ==
    /\ now \in 0..MaxNow
    /\ task \in [Tasks -> {"none", "live", "paused", "deleted"}]
    /\ next \in [Tasks -> Nat]
    /\ \A t \in Tasks : Len(runs[t]) <= MaxRuns /\ \A i \in DOMAIN runs[t] : runs[t][i] \in Run
    /\ form \in [Tasks -> {NoForm} \union Nat]
    /\ firing \in [Tasks -> [1..MaxRuns -> {Quiet, "setup", "launch", "failing", "talking", "unwritten"}]]
    /\ rewrites \in [Tasks -> 0..MaxRewrite]
    /\ reopens \in [Tasks -> 0..MaxReopen]
    /\ slotless \in [Tasks -> SUBSET (1..MaxRuns)]
    /\ known \in BOOLEAN /\ resets \in 0..MaxReset
    /\ mishaps \in 0..MaxMishap

SchedInit ==
    /\ now = 0
    /\ task \in [Tasks -> {"none", "deleted"}]
    /\ next = [t \in Tasks |-> 0]
    /\ runs = [t \in Tasks |-> <<>>]
    /\ form = [t \in Tasks |-> NoForm]
    /\ firing = [t \in Tasks |-> [i \in 1..MaxRuns |-> Quiet]]
    /\ rewrites = [t \in Tasks |-> 0]
    /\ reopens = [t \in Tasks |-> 0]
    /\ slotless = [t \in Tasks |-> {}]
    /\ known \in BOOLEAN /\ resets = 0
    /\ mishaps = 0

\* An UPDATE of one run and the rows it points to.
SetRun(t, i, r) == [runs EXCEPT ![t][i] = r]

Mishap == mishaps < MaxMishap /\ mishaps' = mishaps + 1

SchedTimePasses ==
    /\ now < MaxNow
    /\ now' = now + 1
    /\ UNCHANGED <<task, next, runs, form, firing, rewrites, mishaps, gateVars, reopens>>

-----------------------------------------------------------------------------
(* Creating and changing tasks *)

\* Mutant: the slot at the current instant counts as the next one.
NextFireInclusive(instant) == instant

\* Expression.Next: the first slot strictly after the given instant.
NextFire(instant) == instant + Period

\* ValidateTask: the expression parses, is no denser than the minimum, and no
\* live task has the name.
ValidTask(t) == task[t] = "none"

\* create_scheduled_task and its dashboard twin.
CreateScheduledTask(t) ==
    /\ ValidTask(t)
    /\ task' = [task EXCEPT ![t] = "live"]
    /\ next' = [next EXCEPT ![t] = NextFire(now)]
    /\ UNCHANGED <<now, runs, form, firing, rewrites, mishaps, gateVars, reopens>>

PauseScheduledTask(t) ==
    /\ task[t] = "live"
    /\ task' = [task EXCEPT ![t] = "paused"]
    /\ UNCHANGED <<now, next, runs, form, firing, rewrites, mishaps, gateVars, reopens>>

\* An edit of the expression and a resume validate first: the supervisor
\* answers with the next slot as of now.
ValidateForm(t) ==
    /\ task[t] \in {"live", "paused"}
    /\ form[t] = NoForm
    /\ rewrites[t] < MaxRewrite
    /\ form' = [form EXCEPT ![t] = NextFire(now)]
    /\ UNCHANGED <<now, task, next, runs, firing, rewrites, mishaps, gateVars, reopens>>

\* The transaction then writes that answer, whatever ticked in between.
WriteForm(t) ==
    /\ form[t] # NoForm
    /\ \/ /\ task[t] \in {"live", "paused"}
          /\ task' = [task EXCEPT ![t] = "live"]
          /\ next' = [next EXCEPT ![t] = form[t]]
          /\ rewrites' = [rewrites EXCEPT ![t] = @ + 1]
       \/ /\ task[t] = "deleted"
          /\ UNCHANGED <<task, next, rewrites>>
    /\ form' = [form EXCEPT ![t] = NoForm]
    /\ UNCHANGED <<now, runs, firing, mishaps, gateVars, reopens>>

DeleteScheduledTask(t) ==
    /\ task[t] \in {"live", "paused"}
    /\ task' = [task EXCEPT ![t] = "deleted"]
    /\ UNCHANGED <<now, next, runs, form, firing, rewrites, mishaps, gateVars, reopens>>

-----------------------------------------------------------------------------
(* The tick *)

\* ClaimDueScheduledTasks' WHERE clause.
Due == {t \in Tasks : task[t] = "live" /\ next[t] <= now /\ Len(runs[t]) < MaxRuns}

\* Mutant: the query asks for tickets that are done.
TicketOverlapDone(t) == \E i \in DOMAIN runs[t] : runs[t][i].ticket = "done"

\* HasOpenTicketForTask: a ticket of an earlier run is not done.
TicketOverlap(t) == \E i \in DOMAIN runs[t] : runs[t][i].ticket = "open"

\* Mutant: a run without an instance yet does not count as in flight.
OneshotOverlapStarted(t) ==
    \E i \in DOMAIN runs[t] :
        /\ runs[t][i].outcome \in {"fired", "gate_deferred"}
        /\ runs[t][i].inst = "running"

\* HasInFlightOneshotForTask: a run that waits for its instance or whose
\* instance runs.
OneshotOverlap(t) ==
    \E i \in DOMAIN runs[t] :
        /\ runs[t][i].outcome \in {"fired", "gate_deferred"}
        /\ runs[t][i].inst \in {"none", "running"}

\* hasOverlap.
HasOverlap(t) == IF t \in TicketTasks THEN TicketOverlap(t) ELSE OneshotOverlap(t)

\* insertRun, for each way a claimed task can end.
InsertRun(t, outcome) ==
    [slot |-> next[t], outcome |-> outcome,
     ticket |-> IF outcome = "fired" /\ t \in TicketTasks THEN "open" ELSE "none",
     event |-> IF outcome = "fired" /\ t \in OneshotTasks THEN "open" ELSE "none",
     inst |-> "none", structured |-> FALSE]

\* fireClaimedTask: an overlap is skipped; a ticket needs room in the weekly
\* budget; a one-shot queues its event.
FireClaimedTask(t, room) ==
    IF HasOverlap(t) THEN InsertRun(t, "skipped_overlap")
    ELSE IF t \in TicketTasks /\ ~room THEN InsertRun(t, "gate_deferred")
    ELSE InsertRun(t, "fired")

\* AdvanceScheduledTask: every claimed task moves on, whatever its outcome.
Advanced(t, room) == NextFire(now)

\* tickOnce: the oldest due tasks, up to the limit, in one transaction.
TickOnce ==
    \E claimed \in (SUBSET Due) \ {{}}, room \in BOOLEAN :
        /\ Cardinality(claimed) <= ClaimLimit
        /\ \/ Cardinality(claimed) = ClaimLimit
           \/ claimed = Due
        /\ \A c \in claimed, d \in Due \ claimed : next[c] <= next[d]
        /\ runs' = [t \in Tasks |-> IF t \in claimed THEN Append(runs[t], FireClaimedTask(t, room)) ELSE runs[t]]
        /\ next' = [t \in Tasks |-> IF t \in claimed THEN Advanced(t, room) ELSE next[t]]
        /\ UNCHANGED <<now, task, form, firing, rewrites, mishaps, gateVars, reopens>>

\* The run's ticket is moved to done: by a finalize write, transition_ticket or
\* the operator's moveTicket.
TicketReachesDone(t, i) ==
    /\ i \in DOMAIN runs[t]
    /\ runs[t][i].ticket = "open"
    /\ runs' = SetRun(t, i, [runs[t][i] EXCEPT !.ticket = "done"])
    /\ UNCHANGED <<now, task, next, form, firing, rewrites, mishaps, gateVars, reopens>>

\* moveTicket and transition_ticket refuse no direction: a ticket may leave done,
\* and neither looks at the task's later runs.
ReopenTicket(t, i) ==
    /\ i \in DOMAIN runs[t]
    /\ runs[t][i].ticket = "done"
    /\ reopens[t] < MaxReopen
    /\ runs' = SetRun(t, i, [runs[t][i] EXCEPT !.ticket = "open"])
    /\ reopens' = [reopens EXCEPT ![t] = @ + 1]
    /\ UNCHANGED <<now, task, next, form, firing, rewrites, mishaps, gateVars>>

-----------------------------------------------------------------------------
(* One-shot runs *)

\* agents.changed: Cache.Reset swaps the map; a paused agent is not in the new one.
CacheReset(active) ==
    /\ resets < MaxReset
    /\ resets' = resets + 1
    /\ known' = active
    /\ UNCHANGED <<now, task, next, runs, form, firing, rewrites, mishaps, reopens, slotless>>

\* Mutant: one-shots do not take the agent's slot.
SlotFreeAlways == TRUE

\* Inflight.TryAcquire: no handler holds the agent's slot.
SlotFree == \A t \in OneshotTasks, i \in 1..MaxRuns : firing[t][i] = Quiet \/ i \in slotless[t]

\* acquireAgentSlot: an agent the cache does not have passes without a slot.
AcquireAgentSlot(t, i) ==
    \/ ~known /\ slotless' = [slotless EXCEPT ![t] = @ \union {i}]
    \/ known /\ SlotFree /\ slotless' = [slotless EXCEPT ![t] = @ \ {i}]

\* prepareOneshot up to the gates: the event is unprocessed and the
\* dispatcher holds no other delivery of it.
OneshotDelivered(t, i) ==
    /\ i \in DOMAIN runs[t]
    /\ runs[t][i].event = "open"
    /\ firing[t][i] = Quiet

\* Mutant: a deferral also consumes the event.
DeferOneshotConsumes(t, i) ==
    /\ OneshotDelivered(t, i)
    /\ runs' = SetRun(t, i, [runs[t][i] EXCEPT !.outcome = "gate_deferred", !.event = "processed"])
    /\ UNCHANGED <<now, task, next, form, firing, rewrites, mishaps, gateVars, reopens>>

\* The cap or the throttle gate defers: deferOneshot commits the outcome and
\* the event stays for the next poll.
DeferOneshot(t, i) ==
    /\ OneshotDelivered(t, i)
    /\ runs[t][i].outcome # "gate_deferred"
    /\ runs' = SetRun(t, i, [runs[t][i] EXCEPT !.outcome = "gate_deferred"])
    /\ UNCHANGED <<now, task, next, form, firing, rewrites, mishaps, gateVars, reopens>>

\* Mutant: a deferred run that starts keeps its outcome.
InsertOneshotRunningKeeps(t, i) ==
    /\ OneshotDelivered(t, i)
    /\ AcquireAgentSlot(t, i)
    /\ runs' = SetRun(t, i, [runs[t][i] EXCEPT !.inst = "running"])
    /\ firing' = [firing EXCEPT ![t][i] = "setup"]
    /\ UNCHANGED <<now, task, next, form, rewrites, mishaps, known, resets, reopens>>

\* gateAndInsertOneshotRunning: a deferred run becomes fired again, a fresh
\* instance row is linked to the run.
InsertOneshotRunning(t, i) ==
    /\ OneshotDelivered(t, i)
    /\ AcquireAgentSlot(t, i)
    /\ runs' = SetRun(t, i, [runs[t][i] EXCEPT !.inst = "running",
                                 !.outcome = IF @ = "gate_deferred" THEN "fired" ELSE @])
    /\ firing' = [firing EXCEPT ![t][i] = "setup"]
    /\ UNCHANGED <<now, task, next, form, rewrites, mishaps, known, resets, reopens>>

\* runOneshotClaude: the agent, looked up again, its secrets and the wake-up context
\* are there.
PrepareOneshotRun(t, i) ==
    /\ firing[t][i] = "setup" /\ known
    /\ firing' = [firing EXCEPT ![t][i] = "launch"]
    /\ UNCHANGED <<now, task, next, runs, form, rewrites, mishaps, gateVars, reopens>>

\* runOneshotViaContainer: the MCP config is in the container and the exec
\* starts.
LaunchOneshot(t, i) ==
    /\ firing[t][i] = "launch"
    /\ firing' = [firing EXCEPT ![t][i] = "talking"]
    /\ UNCHANGED <<now, task, next, runs, form, rewrites, mishaps, gateVars, reopens>>

\* writeOneshotPrePipelineFail, first statement: the run's outcome.  Its
\* failure is only logged.
FailRunOutcome(t, i) ==
    /\ firing[t][i] \in {"setup", "launch"}
    /\ firing' = [firing EXCEPT ![t][i] = "failing"]
    /\ \/ runs' = SetRun(t, i, [runs[t][i] EXCEPT !.outcome = "failed"]) /\ UNCHANGED mishaps
       \/ Mishap /\ UNCHANGED runs
    /\ UNCHANGED <<now, task, next, form, rewrites, gateVars, reopens>>

\* writeTerminalCostAndWakeup, after a failed setup or a session that ended
\* without a finalize call: instance and event in one transaction.
TerminalWrite(t, i) ==
    /\ firing[t][i] \in {"failing", "talking"}
    /\ runs' = SetRun(t, i, [runs[t][i] EXCEPT !.inst = "failed", !.event = "processed"])
    /\ firing' = [firing EXCEPT ![t][i] = Quiet]
    /\ UNCHANGED <<now, task, next, form, rewrites, mishaps, gateVars, reopens>>

\* Mutant: the event is left to the terminal write that never comes.
WriteFinalizeOneshotUnmarked(t, i) ==
    /\ firing[t][i] = "talking"
    /\ runs' = SetRun(t, i, [runs[t][i] EXCEPT !.structured = TRUE, !.inst = "succeeded"])
    /\ firing' = [firing EXCEPT ![t][i] = Quiet]
    /\ UNCHANGED <<now, task, next, form, rewrites, mishaps, gateVars, reopens>>

\* The rows one transaction of WriteFinalizeOneshot writes.
Finalized(r) == [r EXCEPT !.structured = TRUE, !.inst = "succeeded", !.event = "processed"]

\* WriteFinalizeOneshot commits: the outcome, the instance and the event.  A
\* run that has an outcome already is refused and nothing is written.
WriteFinalizeOneshot(t, i) ==
    /\ firing[t][i] = "talking"
    /\ runs' = IF runs[t][i].structured THEN runs
               ELSE SetRun(t, i, Finalized(runs[t][i]))
    /\ firing' = [firing EXCEPT ![t][i] = Quiet]
    /\ UNCHANGED <<now, task, next, form, rewrites, mishaps, gateVars, reopens>>

\* The palace, a statement or the commit fails; or the commit succeeded and
\* its answer was lost.
FinalizeWriteFails(t, i) ==
    /\ firing[t][i] = "talking"
    /\ Mishap
    /\ runs' \in {runs, SetRun(t, i, Finalized(runs[t][i]))}
    /\ firing' = [firing EXCEPT ![t][i] = "unwritten"]
    /\ UNCHANGED <<now, task, next, form, rewrites, gateVars, reopens>>

\* failOneshotWrite: the instance becomes failed, with no look at what it
\* was; the event is not marked.
FailOneshotWrite(t, i) ==
    /\ firing[t][i] = "unwritten"
    /\ runs' = SetRun(t, i, [runs[t][i] EXCEPT !.inst = "failed"])
    /\ firing' = [firing EXCEPT ![t][i] = Quiet]
    /\ UNCHANGED <<now, task, next, form, rewrites, mishaps, gateVars, reopens>>

\* A terminal write is lost, and with it the handler.
OneshotWriteLost(t, i) ==
    /\ firing[t][i] # Quiet
    /\ Mishap
    /\ firing' = [firing EXCEPT ![t][i] = Quiet]
    /\ UNCHANGED <<now, task, next, runs, form, rewrites, gateVars, reopens>>

\* The supervisor dies with a session open; at the next boot the cache is filled
\* anew and RunOnce closes the instances that still run.
SchedRestart ==
    /\ Mishap
    /\ \E t \in OneshotTasks : \E i \in DOMAIN runs[t] : runs[t][i].inst = "running"
    /\ firing' = [t \in Tasks |-> [i \in 1..MaxRuns |-> Quiet]]
    /\ runs' = [t \in Tasks |-> [i \in DOMAIN runs[t] |->
                   [runs[t][i] EXCEPT !.inst = IF @ = "running" THEN "failed" ELSE @]]]
    /\ known' \in BOOLEAN
    /\ UNCHANGED <<now, task, next, form, rewrites, slotless, resets, reopens>>

-----------------------------------------------------------------------------
OneshotStep(t, i) ==
    \/ DeferOneshot(t, i) \/ InsertOneshotRunning(t, i) \/ PrepareOneshotRun(t, i) \/ LaunchOneshot(t, i)
    \/ FailRunOutcome(t, i) \/ TerminalWrite(t, i) \/ WriteFinalizeOneshot(t, i)
    \/ FinalizeWriteFails(t, i) \/ FailOneshotWrite(t, i) \/ OneshotWriteLost(t, i)

SchedNext ==
    \/ SchedTimePasses
    \/ TickOnce
    \/ \E t \in Tasks : \/ CreateScheduledTask(t) \/ PauseScheduledTask(t) \/ ValidateForm(t)
                        \/ WriteForm(t) \/ DeleteScheduledTask(t)
    \/ \E t \in TicketTasks, i \in 1..MaxRuns : TicketReachesDone(t, i) \/ ReopenTicket(t, i)
    \/ \E active \in BOOLEAN : CacheReset(active)
    \/ \E t \in OneshotTasks, i \in 1..MaxRuns : OneshotStep(t, i)
    \/ SchedRestart

-----------------------------------------------------------------------------
(* Properties *)

Fired(t) == {i \in DOMAIN runs[t] : runs[t][i].outcome = "fired"}

\* A slot fires once: two runs of a task stand for the same slot only when an
\* edit or a resume wrote an answer that a tick had overtaken.
SlotsFireOnce ==
    \A t \in Tasks :
        Cardinality({i \in DOMAIN runs[t] : i > 1 /\ runs[t][i].slot <= runs[t][i - 1].slot})
            <= rewrites[t]

OpenTickets(t) == {i \in DOMAIN runs[t] : runs[t][i].ticket = "open"}

\* A task has one ticket in progress at a time, but for those somebody took out
\* of done again.
OneOpenTicket == \A t \in TicketTasks : Cardinality(OpenTickets(t)) <= 1 + reopens[t]

\* Two handlers of one task never hold the agent's slot at once, although a run
\* whose write failed is delivered again after a later slot has fired; and
\* without a reload of the cache behind the gate two sessions never run at once.
OneSessionPerTask ==
    \A t \in OneshotTasks :
        /\ Cardinality({i \in 1..MaxRuns : firing[t][i] # Quiet /\ i \notin slotless[t]}) <= 1
        /\ resets = 0 =>
             Cardinality({i \in 1..MaxRuns : firing[t][i] \in {"launch", "talking", "unwritten"}}) <= 1

\* A slot is not queued behind an earlier one that has yet to run: a second
\* run waits only when a write of the first was lost, or its handler had no slot.
OneQueuedRun ==
    \A t \in OneshotTasks :
        Cardinality({i \in DOMAIN runs[t] : /\ runs[t][i].event = "open" /\ firing[t][i] = Quiet
                                            /\ i \notin slotless[t]}) <= 1 + mishaps

\* A task held back by an overlap is held by a run that can still end: its
\* event is unprocessed or its session is going on.
OverlapCanEnd ==
    \A t \in OneshotTasks, i \in 1..MaxRuns :
        i \in DOMAIN runs[t] /\ runs[t][i].outcome \in {"fired", "gate_deferred"}
            /\ runs[t][i].inst \in {"none", "running"}
            => runs[t][i].event = "open" \/ firing[t][i] # Quiet

\* A run that is over says how: its processed event belongs to a run whose
\* outcome is not a deferral and whose instance has ended.
ProcessedRunIsOver ==
    \A t \in OneshotTasks, i \in 1..MaxRuns :
        i \in DOMAIN runs[t] /\ runs[t][i].event = "processed" =>
            /\ runs[t][i].outcome # "gate_deferred"
            /\ runs[t][i].inst \in {"succeeded", "failed"}
            /\ runs[t][i].inst = "succeeded" => runs[t][i].structured

\* A stored outcome is never followed by another session of the same run.
OutcomeEndsRun ==
    [][\A t \in OneshotTasks, i \in 1..MaxRuns :
          i \in DOMAIN runs[t] /\ runs[t][i].structured
              => firing'[t][i] \in {Quiet, firing[t][i]}]_schedVars

\* The runs of a task follow one another: one ticket or session at a time, a
\* run held back is held by one that can end, and a run that is over says how
\* (tick's overlap tests, the gates and terminal writes of a one-shot).
RunsAreOrderly ==
    OneOpenTicket /\ OneSessionPerTask /\ OneQueuedRun /\ OverlapCanEnd /\ ProcessedRunIsOver
=============================================================================
