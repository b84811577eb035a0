------------------------------ MODULE EventSpawn ------------------------------
(***************************************************************************)
(* The core of the supervisor: rows of event_outbox are delivered to spawn *)
(* handlers by LISTEN and by a fallback poll, each handler runs one agent  *)
(* for one event, and the terminal write of the run marks the event        *)
(* processed.  One department, one company.                                *)
(*                                                                         *)
(* A supervisor process has two dispatch loops, each of which runs one     *)
(* handler at a time, synchronously: "listen" takes notifications, "poll"  *)
(* walks the batch a SELECT of unprocessed rows returned.  Supervisors may *)
(* crash, be stopped by a signal, lose the connection that carries LISTEN  *)
(* and the advisory lock, and be started again.                            *)
(***************************************************************************)
EXTENDS TicketFlow, Integers, Sequences, FiniteSets, FiniteSetsExt

CONSTANTS
    Supervisors,    \* supervisor processes that may be started
    NoSupervisor,   \* "nobody holds the advisory lock"
    Tickets,        \* ticket ids
    Predecessor,    \* tickets.depends_on_ticket_id, or NoTicket
    NoTicket,
    Cap,            \* departments.concurrency_cap
    PollLimit,      \* LIMIT of SelectUnprocessedEvents (100 in the code)
    UseContainer,   \* container runtime: the per-agent in-flight slot is active
    HasBudget,      \* companies.daily_budget_usd is set ...
    Budget,         \* ... to this amount
    Estimate,       \* GARRISON_DEFAULT_SPAWN_COST_USD, the same for every spawn
    SessionCost,    \* the most a session bills (--max-budget-usd)
    MaxOps,         \* bounds on what the environment does
    MaxCrashes,
    MaxStops,
    MaxDrops,
    MaxFaults,
    MaxReloads

ASSUME ConstantsAssumption ==
    /\ NoSupervisor \notin Supervisors
    /\ NoTicket \notin Tickets
    /\ Predecessor \in [Tickets -> Tickets \cup {NoTicket}]
    /\ Cap \in Nat /\ PollLimit \in Nat \ {0}
    /\ UseContainer \in BOOLEAN /\ HasBudget \in BOOLEAN
    /\ {Budget, Estimate, SessionCost} \subseteq Nat
    /\ {MaxOps, MaxCrashes, MaxStops, MaxDrops, MaxFaults, MaxReloads} \subseteq Nat

Loops == {"listen", "poll"}

\* <<s, l>> is the handler that loop l of process s runs.
Handlers == Supervisors \X Loops

VARIABLES
    column,     \* tickets.column_slug
    outbox,     \* event_outbox, in created_at order
    instances,  \* agent_instances
    history,    \* ticket_transitions
    drawers,    \* instances whose diary reached MemPalace
    paused,     \* companies.pause_until is in the future
    spend,      \* what sessions billed in the rolling 24 hours
    lock,       \* holder of the advisory lock
    phase,      \* where each supervisor's events.Run is
    connUp,     \* its LISTEN connection is alive
    cancelled,  \* the context its handlers run under is cancelled
    cache,      \* AgentsCache: the roles it resolves to an active agent
    notes,      \* notifications delivered to its connection, not yet read
    batch,      \* rows of the current pollOnce not yet dispatched
    inFlight,   \* Dispatcher.inFlight
    slots,      \* AgentInflight, by role
    hnd,        \* what each dispatch loop's handler is doing
    env         \* how often the environment may still interfere

dbVars == <<column, outbox, instances, history, drawers, paused, spend>>
loopVars == <<notes, batch>>
procVars == <<lock, phase, connUp, cancelled, cache>>
vars == <<dbVars, procVars, loopVars, inFlight, slots, hnd, env>>

-------------------------------------------------------------------------------
(* Rows and their types *)

EventRow == [ticket : Tickets, channel : Channels, col : Columns \cup {NoColumn},
             decodable : BOOLEAN, processed : BOOLEAN]

\* "failed" stands for every failed or timed-out exit_reason but the two named.
Statuses == {"running", "succeeded", "failed", "supervisor_shutdown", "supervisor_restarted"}

InstanceRow == [event : Nat, status : Statuses]

TransitionRow == [ev : Nat, inst : Nat, ticket : Tickets,
                  from : Columns \cup {NoColumn}, to : Columns]

Phases == {"down", "recover", "drain", "listening", "stopping"}

Pcs == {"idle", "gate", "screen", "insert", "setup", "running", "closing",
        "palace", "tx", "finfail", "tail"}

\* The handler's agent_instances row exists.
AgentPcs == {"setup", "running", "closing", "palace", "tx", "finfail", "tail"}

\* ... and the handler has not written its outcome.
OpenPcs == {"setup", "running", "closing", "palace", "tx"}

IdleHandler == [pc |-> "idle", ev |-> 0, inst |-> 0, exit |-> "running", slot |-> FALSE]

\* slot: the release function is not nil.
HandlerRow == [pc : Pcs, ev : Nat, inst : Nat, exit : Statuses, slot : BOOLEAN]

\* How often each kind of interference may still happen.
Allowance == [ops : Nat, crashes : Nat, stops : Nat, drops : Nat, faults : Nat,
              reloads : Nat]

TypeOK ==
    /\ column \in [Tickets -> Columns \cup {NoColumn}]
    /\ outbox \in Seq(EventRow)
    /\ instances \in Seq(InstanceRow)
    /\ history \in Seq(TransitionRow)
    /\ drawers \subseteq Nat
    /\ paused \in BOOLEAN
    /\ spend \in Nat
    /\ lock \in Supervisors \cup {NoSupervisor}
    /\ phase \in [Supervisors -> Phases]
    /\ connUp \in [Supervisors -> BOOLEAN]
    /\ cancelled \in [Supervisors -> BOOLEAN]
    /\ cache \in [Supervisors -> SUBSET Roles]
    /\ notes \in [Supervisors -> SUBSET Nat]
    /\ batch \in [Supervisors -> SUBSET Nat]
    /\ inFlight \in [Supervisors -> SUBSET Nat]
    /\ slots \in [Supervisors -> SUBSET Roles]
    /\ hnd \in [Handlers -> HandlerRow]
    /\ env \in Allowance

Init ==
    /\ column = [t \in Tickets |-> NoColumn]
    /\ outbox = <<>>
    /\ instances = <<>>
    /\ history = <<>>
    /\ drawers = {}
    /\ paused = FALSE
    /\ spend = 0
    /\ lock = NoSupervisor
    /\ phase = [s \in Supervisors |-> "down"]
    /\ connUp = [s \in Supervisors |-> FALSE]
    /\ cancelled = [s \in Supervisors |-> FALSE]
    /\ cache = [s \in Supervisors |-> Roles]
    /\ notes = [s \in Supervisors |-> {}]
    /\ batch = [s \in Supervisors |-> {}]
    /\ inFlight = [s \in Supervisors |-> {}]
    /\ slots = [s \in Supervisors |-> {}]
    /\ hnd = [h \in Handlers |-> IdleHandler]
    /\ env = [ops |-> MaxOps, crashes |-> MaxCrashes, stops |-> MaxStops,
              drops |-> MaxDrops, faults |-> MaxFaults, reloads |-> MaxReloads]

-------------------------------------------------------------------------------
(* Reading and writing the tables *)

Unprocessed == {e \in DOMAIN outbox : ~outbox[e].processed}

\* SelectUnprocessedEvents: the oldest PollLimit unprocessed rows.
Window == {e \in Unprocessed : Cardinality({f \in Unprocessed : f < e}) < PollLimit}

Running == {i \in DOMAIN instances : instances[i].status = "running"}

Row(t, channel, col, decodable) ==
    [ticket |-> t, channel |-> channel, col |-> col, decodable |-> decodable,
     processed |-> FALSE]

\* emit_ticket_created writes the column into the payload,
\* emit_ticket_transitioned does not.
CreatedRow(t, col) == Row(t, <<"created", col>>, col, TRUE)
TransitionedRow(t, from, to) == Row(t, <<from, to>>, NoColumn, TRUE)

\* writeMutationEventToOutbox: a row whose payload no spawn handler can decode.
MutationRow(t, channel) == Row(t, channel, NoColumn, FALSE)

MarkEventProcessed(rows, e) == [rows EXCEPT ![e].processed = TRUE]

SetStatus(i, status) == instances' = [instances EXCEPT ![i].status = status]

\* pg_notify of a row on a channel a supervisor LISTENs on.  The dashboard's own
\* notification carries a bare id, which Dispatch rejects as malformed.
Notify(e, channel) ==
    notes' = [s \in Supervisors |->
                IF phase[s] = "listening" /\ connUp[s] /\ Route(channel) # NoRole
                THEN notes[s] \cup {e} ELSE notes[s]]

TransitionOf(e, i, t, from, to) ==
    [ev |-> e, inst |-> i, ticket |-> t, from |-> from, to |-> to]

-------------------------------------------------------------------------------
(* Writers of tickets: the dashboard, and agents and connectors *)

\* INSERT INTO tickets fires emit_ticket_created; the dashboard adds its row.
CreateTicket(t, col, dashboard) ==
    /\ env.ops > 0
    /\ column[t] = NoColumn
    /\ Predecessor[t] # NoTicket => column[Predecessor[t]] # NoColumn
    /\ env' = [env EXCEPT !.ops = @ - 1]
    /\ column' = [column EXCEPT ![t] = col]
    /\ outbox' = LET rows == Append(outbox, CreatedRow(t, col))
                 IN  IF dashboard
                     THEN Append(rows, MutationRow(t, <<"mutation", "mutation">>))
                     ELSE rows
    /\ Notify(Len(outbox) + 1, <<"created", col>>)
    /\ UNCHANGED <<instances, history, drawers, paused, spend, procVars, batch,
                   inFlight, slots, hnd>>

\* moveTicket: the conditional UPDATE makes a stale drag a conflict.
moveTicket(t, from, to) ==
    /\ env.ops > 0
    /\ from # to
    /\ column[t] = from
    /\ env' = [env EXCEPT !.ops = @ - 1]
    /\ column' = [column EXCEPT ![t] = to]
    /\ history' = Append(history, TransitionOf(0, 0, t, from, to))
    /\ outbox' = Append(Append(outbox, TransitionedRow(t, from, to)),
                        MutationRow(t, <<from, to>>))
    /\ Notify(Len(outbox) + 1, <<from, to>>)
    /\ UNCHANGED <<instances, drawers, paused, spend, procVars, batch,
                   inFlight, slots, hnd>>

-------------------------------------------------------------------------------
(* The life of a supervisor process *)

Idle(s, l) == hnd[<<s, l>>].pc = "idle"
AllIdle(s) == \A l \in Loops : Idle(s, l)

\* Mutant: the result of pg_try_advisory_lock is ignored.
connectNoLock(s) ==
    /\ phase[s] = "down"
    /\ lock' = s
    /\ phase' = [phase EXCEPT ![s] = "recover"]
    /\ connUp' = [connUp EXCEPT ![s] = TRUE]
    /\ cancelled' = [cancelled EXCEPT ![s] = FALSE]
    /\ UNCHANGED <<dbVars, cache, loopVars, inFlight, slots, hnd, env>>

\* connectAndLock: pg_try_advisory_lock on the LISTEN connection, or exit.
connectAndLock(s) ==
    /\ phase[s] = "down"
    /\ lock = NoSupervisor
    /\ lock' = s
    /\ phase' = [phase EXCEPT ![s] = "recover"]
    /\ connUp' = [connUp EXCEPT ![s] = TRUE]
    /\ cancelled' = [cancelled EXCEPT ![s] = FALSE]
    /\ UNCHANGED <<dbVars, cache, loopVars, inFlight, slots, hnd, env>>

\* Mutant: a staleness window that a fast restart falls short of.
RecoverNothing(s) ==
    /\ phase[s] = "recover"
    /\ phase' = [phase EXCEPT ![s] = "drain"]
    /\ batch' = [batch EXCEPT ![s] = Window]
    /\ UNCHANGED <<dbVars, lock, connUp, cancelled, cache, notes, inFlight, slots, hnd, env>>

\* recovery.RunOnce, then the SELECT of the first cycle's pollOnce.
RecoverStaleRunning(s) ==
    /\ phase[s] = "recover"
    /\ instances' = [i \in DOMAIN instances |->
                       IF instances[i].status = "running"
                       THEN [instances[i] EXCEPT !.status = "supervisor_restarted"]
                       ELSE instances[i]]
    /\ phase' = [phase EXCEPT ![s] = "drain"]
    /\ batch' = [batch EXCEPT ![s] = Window]
    /\ UNCHANGED <<column, outbox, history, drawers, paused, spend, lock, connUp,
                   cancelled, cache, notes, inFlight, slots, hnd, env>>

\* runOneListenCycle: LISTEN once the drain is over.
BeginListen(s) ==
    /\ phase[s] = "drain"
    /\ batch[s] = {} /\ Idle(s, "poll")
    /\ phase' = [phase EXCEPT ![s] = "listening"]
    /\ UNCHANGED <<dbVars, lock, connUp, cancelled, cache, loopVars, inFlight, slots,
                   hnd, env>>

\* The LISTEN session ends on the server, and its advisory lock with it.
ConnDrop(s) ==
    /\ env.drops > 0
    /\ phase[s] \in {"drain", "listening"} /\ connUp[s]
    /\ env' = [env EXCEPT !.drops = @ - 1]
    /\ connUp' = [connUp EXCEPT ![s] = FALSE]
    /\ lock' = IF lock = s THEN NoSupervisor ELSE lock
    /\ notes' = [notes EXCEPT ![s] = {}]
    /\ UNCHANGED <<dbVars, phase, cancelled, cache, batch, inFlight, slots, hnd>>

\* The listen loop meets the error when it next waits for a notification, and
\* cancels the context it shares with the poll loop; what is left of the batch
\* fails at Begin.
NoticeDrop(s) ==
    /\ phase[s] = "listening" /\ ~connUp[s] /\ ~cancelled[s]
    /\ Idle(s, "listen")
    /\ cancelled' = [cancelled EXCEPT ![s] = TRUE]
    /\ batch' = [batch EXCEPT ![s] = {}]
    /\ UNCHANGED <<dbVars, lock, phase, connUp, cache, notes, inFlight, slots, hnd, env>>

\* redialUntilSuccess and the next cycle's drain: neither the advisory lock nor
\* recovery is taken again.
Redial(s) ==
    /\ phase[s] = "listening" /\ ~connUp[s] /\ cancelled[s]
    /\ AllIdle(s)
    /\ connUp' = [connUp EXCEPT ![s] = TRUE]
    /\ cancelled' = [cancelled EXCEPT ![s] = FALSE]
    /\ phase' = [phase EXCEPT ![s] = "drain"]
    /\ batch' = [batch EXCEPT ![s] = Window]
    /\ UNCHANGED <<dbVars, lock, cache, notes, inFlight, slots, hnd, env>>

\* watchSignals: SIGTERM cancels the root context.
Sigterm(s) ==
    /\ env.stops > 0
    /\ phase[s] \in {"drain", "listening"}
    /\ env' = [env EXCEPT !.stops = @ - 1]
    /\ phase' = [phase EXCEPT ![s] = "stopping"]
    /\ cancelled' = [cancelled EXCEPT ![s] = TRUE]
    /\ batch' = [batch EXCEPT ![s] = {}]
    /\ UNCHANGED <<dbVars, lock, connUp, cache, notes, inFlight, slots, hnd>>

\* The process is gone: what it held in memory, its connections, its lock.
Gone(s) ==
    /\ phase' = [phase EXCEPT ![s] = "down"]
    /\ connUp' = [connUp EXCEPT ![s] = FALSE]
    /\ lock' = IF lock = s THEN NoSupervisor ELSE lock
    /\ cancelled' = [cancelled EXCEPT ![s] = FALSE]
    /\ notes' = [notes EXCEPT ![s] = {}]
    /\ batch' = [batch EXCEPT ![s] = {}]
    /\ inFlight' = [inFlight EXCEPT ![s] = {}]
    /\ slots' = [slots EXCEPT ![s] = {}]
    /\ hnd' = [h \in Handlers |-> IF h[1] = s THEN IdleHandler ELSE hnd[h]]
    /\ UNCHANGED cache

\* g.Wait returns once every handler has returned.
Exit(s) ==
    /\ phase[s] = "stopping"
    /\ AllIdle(s)
    /\ Gone(s)
    /\ UNCHANGED <<dbVars, env>>

\* SIGKILL, or the host dies: an open transaction rolls back.
Crash(s) ==
    /\ env.crashes > 0
    /\ phase[s] # "down"
    /\ env' = [env EXCEPT !.crashes = @ - 1]
    /\ Gone(s)
    /\ UNCHANGED dbVars

\* Agents were hired, paused or resumed: the listener swaps the map (Cache.Reset), or
\* a process that starts reads the table.
CacheReload(s, active) ==
    /\ env.reloads > 0
    /\ env' = [env EXCEPT !.reloads = @ - 1]
    /\ cache' = [cache EXCEPT ![s] = active]
    /\ UNCHANGED <<dbVars, lock, phase, connUp, cancelled, loopVars, inFlight, slots, hnd>>

-------------------------------------------------------------------------------
(* Dispatch *)

\* Mutant: no in-flight table.
DispatchNoDedupe(s, l, e) ==
    \/ Route(outbox[e].channel) = NoRole /\ UNCHANGED <<inFlight, hnd>>
    \/ /\ Route(outbox[e].channel) # NoRole
       /\ inFlight' = [inFlight EXCEPT ![s] = @ \cup {e}]
       /\ hnd' = [hnd EXCEPT ![<<s, l>>] = [IdleHandler EXCEPT !.pc = "gate", !.ev = e]]

\* Dispatch: an unknown channel is an error, an event already in flight is
\* dropped; neither touches the row.
Dispatch(s, l, e) ==
    \/ /\ Route(outbox[e].channel) = NoRole \/ e \in inFlight[s]
       /\ UNCHANGED <<inFlight, hnd>>
    \/ /\ Route(outbox[e].channel) # NoRole /\ e \notin inFlight[s]
       /\ inFlight' = [inFlight EXCEPT ![s] = @ \cup {e}]
       /\ hnd' = [hnd EXCEPT ![<<s, l>>] = [IdleHandler EXCEPT !.pc = "gate", !.ev = e]]

\* listen: one notification, in the order the rows were committed.
ListenOne(s) ==
    /\ phase[s] = "listening" /\ ~cancelled[s]
    /\ Idle(s, "listen")
    /\ notes[s] # {}
    /\ notes' = [notes EXCEPT ![s] = @ \ {Min(@)}]
    /\ Dispatch(s, "listen", Min(notes[s]))
    /\ UNCHANGED <<dbVars, procVars, batch, slots, env>>

\* runPollTicker: the SELECT of one pollOnce.
PollSelect(s) ==
    /\ phase[s] = "listening" /\ ~cancelled[s]
    /\ Idle(s, "poll") /\ batch[s] = {}
    /\ Window # {}
    /\ batch' = [batch EXCEPT ![s] = Window]
    /\ UNCHANGED <<dbVars, procVars, notes, inFlight, slots, hnd, env>>

\* pollOnce: the next row of the batch.
PollOne(s) ==
    /\ phase[s] \in {"drain", "listening"}
    /\ Idle(s, "poll") /\ batch[s] # {}
    /\ batch' = [batch EXCEPT ![s] = @ \ {Min(@)}]
    /\ Dispatch(s, "poll", Min(batch[s]))
    /\ UNCHANGED <<dbVars, procVars, notes, slots, env>>

-------------------------------------------------------------------------------
(* spawn.prepareSpawn: one transaction, from the row lock to the commit *)

RoleOf(e) == Route(outbox[e].channel)

\* Mutant: the slot is never released.
HeldSlotNone(h) == {}

\* What the handler's release function frees.
HeldSlot(h) == IF hnd[h].slot THEN {RoleOf(hnd[h].ev)} ELSE {}

\* Mutant: Dispatch does not delete the event when the handler returns.
ReturnKeepsInFlight(h) ==
    /\ hnd' = [hnd EXCEPT ![h] = IdleHandler]
    /\ slots' = [slots EXCEPT ![h[1]] = @ \ HeldSlot(h)]
    /\ UNCHANGED inFlight

\* The handler returns: Dispatch forgets the event, Spawn releases the slot.
Return(h) ==
    /\ hnd' = [hnd EXCEPT ![h] = IdleHandler]
    /\ inFlight' = [inFlight EXCEPT ![h[1]] = @ \ {hnd[h].ev}]
    /\ slots' = [slots EXCEPT ![h[1]] = @ \ HeldSlot(h)]

Goto(h, pc) == hnd' = [hnd EXCEPT ![h].pc = pc]

\* LockEventForProcessing: SELECT ... FOR UPDATE waits for another transaction.
RowLocked(h) ==
    \E g \in Handlers \ {h} :
        hnd[g].pc \in {"screen", "insert"} /\ hnd[g].ev = hnd[h].ev

\* Mutant: the cap is off by one.
CheckCapLoose == Cardinality(Running) <= Cap

CheckCap == Cardinality(Running) < Cap

\* The gate is inert without containers, and for an agent the cache does not resolve.
SlotEnforced(s, e) == UseContainer /\ RoleOf(e) \in cache[s]

\* Mutant: an agent whose slot is held gets another.
acquireAnySlot(s, e) == TRUE

acquireAgentSlot(s, e) == SlotEnforced(s, e) => RoleOf(e) \notin slots[s]

\* Mutant: the next session's estimate is left out.
ThrottleNoEstimate == ~paused /\ (HasBudget => Budget # 0 /\ spend <= Budget)

\* Mutant: the gate looks at the ticket's own column.
DependencyOfItself(t) == column[t] # "done"

\* throttle.Check: the pause, then the budget with the flat estimate of a spawn.
ThrottleAllows == ~paused /\ (HasBudget => Budget # 0 /\ spend + Estimate <= Budget)

checkDependencySatisfied(t) ==
    Predecessor[t] # NoTicket => column[Predecessor[t]] \in SatisfactionColumns

\* Mutant: processed_at is not looked at.
GateOpenNoDedupe(s, e) ==
    /\ ~cancelled[s]
    /\ outbox[e].decodable
    /\ CheckCap
    /\ acquireAgentSlot(s, e)

\* The row is locked: already processed, undecodable, cap, slot of the agent.
GateOpen(s, e) ==
    /\ ~cancelled[s]
    /\ ~outbox[e].processed
    /\ outbox[e].decodable
    /\ CheckCap
    /\ acquireAgentSlot(s, e)

\* A closed gate rolls back and leaves the row for a later poll.
GateDefer(h) ==
    /\ hnd[h].pc = "gate"
    /\ ~RowLocked(h)
    /\ ~GateOpen(h[1], hnd[h].ev)
    /\ Return(h)
    /\ UNCHANGED <<dbVars, procVars, loopVars, env>>

GatePass(h) ==
    /\ hnd[h].pc = "gate"
    /\ ~RowLocked(h)
    /\ GateOpen(h[1], hnd[h].ev)
    /\ LET taken == SlotEnforced(h[1], hnd[h].ev)
       IN  /\ hnd' = [hnd EXCEPT ![h] = [@ EXCEPT !.pc = "screen", !.slot = taken]]
           /\ slots' = [slots EXCEPT ![h[1]] =
                           @ \cup (IF taken THEN {RoleOf(hnd[h].ev)} ELSE {})]
    /\ UNCHANGED <<dbVars, procVars, loopVars, inFlight, env>>

\* The later checks read the tables as they are by then; only the row is locked.
ScreenOpen(s, e) ==
    ~cancelled[s] /\ ThrottleAllows /\ checkDependencySatisfied(outbox[e].ticket)

ScreenDefer(h) ==
    /\ hnd[h].pc = "screen"
    /\ ~ScreenOpen(h[1], hnd[h].ev)
    /\ Return(h)
    /\ UNCHANGED <<dbVars, procVars, loopVars, env>>

ScreenPass(h) ==
    /\ hnd[h].pc = "screen"
    /\ ScreenOpen(h[1], hnd[h].ev)
    /\ Goto(h, "insert")
    /\ UNCHANGED <<dbVars, procVars, loopVars, inFlight, slots, env>>

\* Mutant: the event is acknowledged when the run starts.
InsertAcksEarly(h) ==
    /\ hnd[h].pc = "insert"
    /\ ~cancelled[h[1]]
    /\ instances' = Append(instances, [event |-> hnd[h].ev, status |-> "running"])
    /\ outbox' = MarkEventProcessed(outbox, hnd[h].ev)
    /\ hnd' = [hnd EXCEPT ![h] = [@ EXCEPT !.pc = "setup", !.inst = Len(instances) + 1]]
    /\ UNCHANGED <<column, history, drawers, paused, spend, procVars,
                   loopVars, inFlight, slots, env>>

InsertRunningInstance(h) ==
    /\ hnd[h].pc = "insert"
    /\ ~cancelled[h[1]]
    /\ instances' = Append(instances, [event |-> hnd[h].ev, status |-> "running"])
    /\ hnd' = [hnd EXCEPT ![h] = [@ EXCEPT !.pc = "setup", !.inst = Len(instances) + 1]]
    /\ UNCHANGED <<column, outbox, history, drawers, paused, spend, procVars,
                   loopVars, inFlight, slots, env>>

DbFault == env.faults > 0 /\ env' = [env EXCEPT !.faults = @ - 1]

\* A database fault, or a context cancelled before the commit.
Fault(s) == DbFault \/ (cancelled[s] /\ UNCHANGED env)

InsertAbort(h) ==
    /\ hnd[h].pc = "insert"
    /\ Fault(h[1])
    /\ Return(h)
    /\ UNCHANGED <<dbVars, procVars, loopVars>>

-------------------------------------------------------------------------------
(* spawn.runRealClaude and runClaudeSession *)

Expected(e) == finalizeExpectedForRole(RoleOf(e), outbox[e].col)

\* Any preparation step fails (agent, vault, MCP config, start): writeFail.
SetupFail(h) ==
    /\ hnd[h].pc = "setup"
    /\ ~cancelled[h[1]]
    /\ SetStatus(hnd[h].inst, "failed")
    /\ outbox' = MarkEventProcessed(outbox, hnd[h].ev)
    /\ Return(h)
    /\ UNCHANGED <<column, history, drawers, paused, spend, procVars, loopVars, env>>

\* writeFail runs under the handler's own context: once that is cancelled the
\* write fails and the row stays "running".
SetupFailLost(h) ==
    /\ hnd[h].pc = "setup"
    /\ Fault(h[1])
    /\ Return(h)
    /\ UNCHANGED <<dbVars, procVars, loopVars>>

\* runRealClaude resolves the agent again.
SessionStart(h) ==
    /\ hnd[h].pc = "setup"
    /\ RoleOf(hnd[h].ev) \in cache[h[1]]
    /\ Goto(h, "running")
    /\ UNCHANGED <<dbVars, procVars, loopVars, inFlight, slots, env>>

\* rateLimitHook: FirePause in a transaction of its own.
FirePause(h) ==
    /\ hnd[h].pc = "running"
    /\ ~paused
    /\ paused' = TRUE
    /\ UNCHANGED <<column, outbox, instances, history, drawers, spend, procVars,
                   loopVars, inFlight, slots, hnd, env>>

\* Adjudicate: a finalize-expected session never succeeds without its commit, and
\* a cancelled context classifies whatever was still running as a shutdown.
SessionEnd(h, exit) ==
    /\ hnd[h].pc = "running"
    /\ exit \in {"failed"} \cup (IF Expected(hnd[h].ev) THEN {} ELSE {"succeeded"})
                          \cup (IF cancelled[h[1]] THEN {"supervisor_shutdown"} ELSE {})
    /\ hnd' = [hnd EXCEPT ![h] = [@ EXCEPT !.pc = "closing", !.exit = exit]]
    /\ UNCHANGED <<dbVars, procVars, loopVars, inFlight, slots, env>>

\* Mutant: the transaction commits before the diary is written.
FinalizeOKNoDiary(h) ==
    /\ hnd[h].pc = "running"
    /\ Expected(hnd[h].ev)
    /\ Goto(h, "tx")
    /\ UNCHANGED <<dbVars, procVars, loopVars, inFlight, slots, env>>

\* A successful finalize_ticket tool result.
FinalizeOK(h) ==
    /\ hnd[h].pc = "running"
    /\ Expected(hnd[h].ev)
    /\ Goto(h, "palace")
    /\ UNCHANGED <<dbVars, procVars, loopVars, inFlight, slots, env>>

\* The cost of a session is billed when its terminal row is written.
Bill == IF HasBudget THEN spend' \in spend .. (spend + SessionCost) ELSE UNCHANGED spend

\* Mutant: the terminal transaction forgets MarkEventProcessed.
SucceedUnmarked(h) ==
    LET e == hnd[h].ev
        t == outbox[e].ticket
        cols == transitionColumns(RoleOf(e), outbox[e].col)
    IN  /\ SetStatus(hnd[h].inst, "succeeded")
        /\ history' = Append(history, TransitionOf(e, hnd[h].inst, t, cols[1], cols[2]))
        /\ column' = [column EXCEPT ![t] = cols[2]]
        /\ outbox' = Append(outbox, TransitionedRow(t, cols[1], cols[2]))
        /\ Notify(Len(outbox) + 1, cols)

\* Instance, transition, column and event in one transaction; the column is
\* overwritten whatever it is by now.
Succeed(h) ==
    LET e == hnd[h].ev
        t == outbox[e].ticket
        cols == transitionColumns(RoleOf(e), outbox[e].col)
    IN  /\ SetStatus(hnd[h].inst, "succeeded")
        /\ history' = Append(history, TransitionOf(e, hnd[h].inst, t, cols[1], cols[2]))
        /\ column' = [column EXCEPT ![t] = cols[2]]
        /\ outbox' = Append(MarkEventProcessed(outbox, e),
                            TransitionedRow(t, cols[1], cols[2]))
        /\ Notify(Len(outbox) + 1, cols)

\* writeTerminalCostAndWakeup, under a context detached from cancellation.
WriteTerminal(h) ==
    /\ hnd[h].pc = "closing"
    /\ Bill
    /\ \/ /\ hnd[h].exit = "succeeded"
          /\ Succeed(h)
       \/ /\ hnd[h].exit # "succeeded"
          /\ SetStatus(hnd[h].inst, hnd[h].exit)
          /\ outbox' = MarkEventProcessed(outbox, hnd[h].ev)
          /\ UNCHANGED <<column, history, notes>>
    /\ Return(h)
    /\ UNCHANGED <<drawers, paused, procVars, batch, env>>

WriteTerminalLost(h) ==
    /\ hnd[h].pc = "closing"
    /\ DbFault
    /\ Return(h)
    /\ UNCHANGED <<dbVars, procVars, loopVars>>

-------------------------------------------------------------------------------
(* spawn.WriteFinalize: MemPalace first, then the transaction *)

AddDrawer(h) ==
    /\ hnd[h].pc = "palace"
    /\ drawers' = drawers \cup {hnd[h].inst}
    /\ Goto(h, "tx")
    /\ UNCHANGED <<column, outbox, instances, history, paused, spend, procVars,
                   loopVars, inFlight, slots, env>>

\* AddDrawer fails, or anything after it up to and including Commit.
FinalizeFault(h) ==
    /\ hnd[h].pc \in {"palace", "tx"}
    /\ DbFault
    /\ Goto(h, "finfail")
    /\ UNCHANGED <<dbVars, procVars, loopVars, inFlight, slots>>

CommitFinalize(h) ==
    /\ hnd[h].pc = "tx"
    /\ Bill
    /\ Succeed(h)
    /\ Goto(h, "tail")
    /\ UNCHANGED <<drawers, paused, procVars, batch, inFlight, slots, env>>

\* Commit reached the server and the answer was lost to the deadline.
CommitUnknown(h) ==
    /\ hnd[h].pc = "tx"
    /\ Bill
    /\ DbFault
    /\ Succeed(h)
    /\ Goto(h, "finfail")
    /\ UNCHANGED <<drawers, paused, procVars, batch, inFlight, slots>>

\* writeFinalizeFailure: one unguarded UPDATE; the event is not marked.
WriteFinalizeFailure(h) ==
    /\ hnd[h].pc = "finfail"
    /\ \/ SetStatus(hnd[h].inst, "failed") /\ UNCHANGED env
       \/ DbFault /\ UNCHANGED instances
    /\ Goto(h, "tail")
    /\ UNCHANGED <<column, outbox, history, drawers, paused, spend, procVars,
                   loopVars, inFlight, slots>>

\* The session drains; Committed is set, so nothing more is written.
SessionTail(h) ==
    /\ hnd[h].pc = "tail"
    /\ Return(h)
    /\ UNCHANGED <<dbVars, procVars, loopVars, env>>

-------------------------------------------------------------------------------
(* Time *)

PauseElapses ==
    /\ paused
    /\ paused' = FALSE
    /\ UNCHANGED <<column, outbox, instances, history, drawers, spend, procVars,
                   loopVars, inFlight, slots, hnd, env>>

\* What was billed leaves the 24-hour window.
SpendAges ==
    /\ spend > 0
    /\ spend' = spend - 1
    /\ UNCHANGED <<column, outbox, instances, history, drawers, paused, procVars,
                   loopVars, inFlight, slots, hnd, env>>

-------------------------------------------------------------------------------
HandlerStep(h) ==
    \/ GateDefer(h)             \/ GatePass(h)
    \/ ScreenDefer(h)           \/ ScreenPass(h)
    \/ InsertRunningInstance(h) \/ InsertAbort(h)
    \/ SetupFail(h)             \/ SetupFailLost(h)
    \/ SessionStart(h)          \/ FinalizeOK(h)
    \/ \E exit \in Statuses : SessionEnd(h, exit)
    \/ WriteTerminal(h)         \/ WriteTerminalLost(h)
    \/ AddDrawer(h)             \/ FinalizeFault(h)
    \/ CommitFinalize(h)        \/ CommitUnknown(h)
    \/ WriteFinalizeFailure(h)  \/ SessionTail(h)

SupervisorStep(s) ==
    \/ connectAndLock(s) \/ RecoverStaleRunning(s) \/ BeginListen(s)
    \/ NoticeDrop(s)     \/ Redial(s)              \/ Exit(s)
    \/ ListenOne(s)      \/ PollSelect(s)          \/ PollOne(s)

Reload(s) == \E active \in SUBSET Roles : CacheReload(s, active)

Disturbance(s) == ConnDrop(s) \/ Sigterm(s) \/ Crash(s) \/ Reload(s)

Writers ==
    \/ \E t \in Tickets, col \in {"todo", "in_dev"}, dashboard \in BOOLEAN :
          CreateTicket(t, col, dashboard)
    \/ \E t \in Tickets, from, to \in Columns : moveTicket(t, from, to)

Next ==
    \/ Writers
    \/ \E s \in Supervisors : SupervisorStep(s) \/ Disturbance(s)
    \/ \E h \in Handlers : HandlerStep(h) \/ FirePause(h)
    \/ PauseElapses
    \/ SpendAges

Spec == Init /\ [][Next]_vars

\* Every loop of a live process keeps running; whoever runs the supervisor
\* restarts it; pauses and the billing window end.
Fairness ==
    /\ \A s \in Supervisors :
          /\ WF_vars(connectAndLock(s) \/ RecoverStaleRunning(s) \/ BeginListen(s)
                        \/ NoticeDrop(s) \/ Redial(s) \/ Exit(s))
          /\ WF_vars(ListenOne(s))
          /\ WF_vars(PollSelect(s) \/ PollOne(s))
    /\ \A h \in Handlers : WF_vars(HandlerStep(h))
    /\ WF_vars(PauseElapses)
    /\ WF_vars(SpendAges)

FairSpec == Spec /\ Fairness

-------------------------------------------------------------------------------
(* Safety *)

Busy(h) == hnd[h].pc # "idle"

\* A process that holds, or once held, the advisory lock is the only one that is
\* up: "One supervisor per database" of docs/architecture.md.
OneSupervisor ==
    \A s, r \in Supervisors : phase[s] # "down" /\ phase[r] # "down" => s = r

\* LISTEN and the poll may both deliver an event, again and again, but no two
\* handlers ever work on the same event (Dispatcher.inFlight).
OneHandlerPerEvent ==
    \A g, h \in Handlers : Busy(g) /\ Busy(h) /\ hnd[g].ev = hnd[h].ev => g = h

\* However often an event is delivered, retried after a fault or re-run after a
\* crash, it moves its ticket at most once ("One event = one successful spawn").
OneEffectPerEvent ==
    \A i, j \in DOMAIN history :
        history[i].ev # 0 /\ history[i].ev = history[j].ev => i = j

\* Once an event is marked processed nobody is still working towards a terminal
\* write for it: the mark and the outcome are one transaction.
ProcessedMeansSettled ==
    \A h \in Handlers : hnd[h].pc \in OpenPcs => ~outbox[hnd[h].ev].processed

\* CheckCap and the INSERT are not atomic, so the two dispatch loops may both
\* take the last place: one above the cap, never two, and none at all when the
\* cap is zero.
CapBound ==
    Cardinality(Running) <= (IF Cap = 0 THEN 0 ELSE Cap + 1)

\* WriteFinalize writes the diary before the transition: every transition of a
\* finalize run has its diary in MemPalace.
TransitionHasDiary ==
    \A i \in DOMAIN history :
        history[i].inst # 0 /\ Expected(history[i].ev) => history[i].inst \in drawers

\* Handlers that have resolved their agent and work for it.
InSession(h) == hnd[h].pc \in AgentPcs \ {"setup"}

\* On the container runtime the slots taken are those of the handlers that will release
\* one, no agent's is held twice, and a session runs without one only if its agent was
\* missing from the cache at the gate and was back when runRealClaude looked: two
\* reloads lie between, however the loops, defers, faults and crashes interleave.
AgentSlotExclusive ==
    UseContainer =>
        \A s \in Supervisors :
            LET holders == {l \in Loops : hnd[<<s, l>>].slot}
            IN  /\ slots[s] = {RoleOf(hnd[<<s, l>>].ev) : l \in holders}
                /\ Cardinality(slots[s]) = Cardinality(holders)
                /\ \A l \in Loops : InSession(<<s, l>>) /\ l \notin holders =>
                                       env.reloads + 2 <= MaxReloads

\* As long as no write was lost, a supervisor that is past recovery owns every
\* row that says "running": none is left over from a crashed predecessor.
RunningRowsOwned ==
    env.faults = MaxFaults /\ env.drops = MaxDrops /\ env.stops = MaxStops =>
        \A s \in Supervisors :
            phase[s] \in {"drain", "listening"} =>
                Running \subseteq {hnd[<<s, l>>].inst : l \in Loops}

\* The budget gate adds a flat estimate to what was billed and reserves nothing: what
\* is spent goes beyond the budget by what the sessions of the two loops really cost,
\* less the estimate the last of them was admitted with, and never beyond that.
BudgetOvershoot ==
    HasBudget /\ spend > 0 => Budget # 0 /\ spend + Estimate <= Budget + 2 * SessionCost

\* No agent was ever started for a dependent ticket before its predecessor was
\* up for review, unless an operator dragged the predecessor back.
DependentsWait ==
    \A i \in DOMAIN instances :
        LET pred == Predecessor[outbox[instances[i].event].ticket]
        IN  pred # NoTicket /\ (\A j \in DOMAIN history :
                                   history[j].ticket = pred => history[j].inst # 0)
            => column[pred] \in SatisfactionColumns

-------------------------------------------------------------------------------
(* The outbox, as an implementation of its abstract specification *)

Outbox == INSTANCE WorkOutbox
            WITH emitted <- Len(outbox),
                 settled <- {e \in DOMAIN outbox : outbox[e].processed},
                 effects <- [i \in DOMAIN history |-> history[i].ev]

\* Every step of the supervisors, writers and agents emits rows, settles one row
\* with its effect, discards one row, or changes nothing the outbox shows.
ImplementsOutbox == Outbox!Spec

-------------------------------------------------------------------------------
(* Liveness *)

EventIds == 1 .. (4 * MaxOps)

\* A row some handler will take: routed, decodable, and not waiting for a ticket
\* that may never be reviewed.
Deliverable(e) ==
    /\ e \in DOMAIN outbox
    /\ RoleOf(e) # NoRole
    /\ outbox[e].decodable
    /\ Predecessor[outbox[e].ticket] = NoTicket

Processed(e) == e \in DOMAIN outbox /\ outbox[e].processed

\* "notifications can be lost without work being lost": every deliverable row is
\* eventually processed.
WorkNotLost == \A e \in EventIds : Deliverable(e) ~> Processed(e)

===============================================================================
