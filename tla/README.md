# Garrison: TLA+ models, model checks and proofs

Garrison runs AI agents for a company's departments. Tickets live in Postgres;
triggers turn ticket changes into rows of an outbox table; a Go supervisor
consumes the rows, starts one agent (a Claude subprocess or a container exec)
for each, reads the agent's event stream, and writes the result back to the
database and to MemPalace, an external store of diaries. A Next.js dashboard is
the operators' view of the same database.

This directory models the path from a ticket to a finished run and back: the
delivery of outbox rows, the gates in front of a spawn, the agent's session, the
terminal writes, and what crashes, restarts, lost connections, lost
notifications and failed writes do to them. Around that core it models the
subsystems that share the database with it: scheduled tasks, outbound actions,
webhooks, the CEO chat, hygiene, the chat's verbs, hiring and the roster, agent
containers, skill installs, MCP registration and the finalize tool.

## 1. The system's parts

Paths are relative to `src/`; `sup/` is `supervisor/internal/`.

| part | state it keeps | operations | what is hard | modelled |
|---|---|---|---|---|
| event bus, `sup/events` | in-memory `inFlight` set, LISTEN connection, poll ticker | `Run`, `runOneListenCycle`, `listen`, `pollOnce`, `Dispatch`, `redialUntilSuccess` | two loops deliver the same row; the connection drops while handlers run; a notification is lost | `EventSpawn` |
| startup and lock, `supervisor/cmd/supervisor`, `sup/pgdb` | session-level advisory lock | `connectAndLock`, `watchSignals`, exit | the lock lives on the LISTEN connection | `EventSpawn` (partly) |
| recovery, `sup/recovery` | none | `RunOnce` | runs once per process | `EventSpawn` |
| spawn gate, `sup/spawn/spawn.go`, `sup/concurrency` | row lock, `AgentInflight` slots | `prepareSpawn` | check-then-act over transactions that lock different rows | `EventSpawn` (partly) |
| throttle, `sup/throttle` | `pause_until`, rolling cost, `throttle_events` | `Check`, `FirePause`, weekly budget | reads without reserving | `EventSpawn`, `Intake` (partly) |
| agent session, `sup/spawn/{pipeline,runner,exitreason,pgroup}.go` | `FinalizeState`, `Result`, pending commit, grace timer | stream handlers, `firePending`, `awaitPipelineDrain`, `Adjudicate` | five ways to end race for one outcome | `FinalizePipeline`, abstracted in `EventSpawn` |
| finalize write, `sup/spawn/finalize.go` | – | `WriteFinalize`, `writeFinalizeFailure` | two stores, no common transaction | `EventSpawn` |
| terminal writes, `sup/spawn/spawn.go` | – | `writeTerminalCostAndWakeup`, `writeFail` | which context they run under | `EventSpawn` |
| tickets, `migrations/`, `dashboard/lib/actions/tickets.ts` | `tickets`, `ticket_transitions`, `event_outbox` | create, move, triggers | a second outbox row per dashboard mutation | `EventSpawn`, `TicketFlow`, `TicketVerbs` |
| workflow tables | – | routing, transition columns | payloads without a column | `TicketFlow` |
| scheduler, `sup/schedule`, `dashboard/lib/actions/scheduledTasks.ts` | `next_fire_at` of tasks, run rows | tick, claim, overlap, fire, edit, pause, resume | missed ticks, an edit computed before a tick and written after it | `Scheduler` |
| one-shot runs, `sup/spawn/oneshot.go` | run rows, instances | gates, session, finalize, terminal writes | a lost commit, then the event again | `Scheduler` (partly) |
| action broker, `sup/actionbroker`, the Outbox page | `pending_actions`, outcomes | request, approve, claim, post, record | nothing ties the post to its record | `ActionBroker` |
| ingress, `sup/ingress`; weekly budget, `sup/throttle/dept_weekly.go` | delivery rows, token bucket | HTTP handler, dedupe, 429; `create_ticket` | redelivery beside delivery; count, then insert | `Intake` |
| CEO chat, `sup/chat`, `dashboard/lib/actions/chat.ts` | sessions, messages, per-session mutex | message worker, turn, restart, idle and orphan sweeps | sweeps and reconnects race turns | `Chat` |
| hygiene, `sup/hygiene` | `hygiene_status` | listener, sweep, evaluator | both judge one transition; the palace is away | `Hygiene` |
| ticket verbs, `sup/garrisonmutate/verbs_tickets.go`, `dashboard/lib/actions/tickets.ts` | tickets, transitions | transition, edit, drag, inline edit | read, then write, beside a finalizing agent | `TicketVerbs` |
| hiring, agent settings, roster cache, `sup/garrisonmutate`, `sup/agents`, `dashboard/lib/{actions,locks}` | proposals, agents, cache, routes | propose, approve, reject, pause, edit, reload | decisions on an old read; stale cache | `Roster` |
| agent containers, `sup/agentcontainer`, `sup/migrate7` | host uids, containers | grandfathering and shape reconcile at boot | several Docker calls, a crash between any two | `AgentFleet` |
| sessions in containers, `sup/spawn/m7.go` | the agent's slot, the exec stream | acquire, exec, demux, deadline, inspect | deadline, bail, shutdown and end race | `ContainerExec` |
| skill installer, `sup/skillinstall` | journal of steps | download … container_start, `Resume` | crash between a step and its journal row | `SkillInstall` (partly) |
| MCP registration, `sup/mcpserverwork`, `sup/mcpjungle` | server rows, clients, secrets, grants | verb, one-attempt worker, boot reconcile | two stores and an upstream, no common transaction | `McpRegistry` |
| finalize MCP server, `sup/finalize` | attempts | request loop, committed check, validation | the check races the supervisor's commit | `FinalizeTool` |
| MemPalace, vault, Postgres MCP, MCPJungle, object store, config | – | request/response | – | I/O; a failure of one is a fault of its caller |
| dashboard pages, auth, SSE | – | – | – | presentation |

How they interact: everything meets in Postgres. A trigger on `tickets` or
`ticket_transitions` inserts an outbox row and calls `pg_notify` in the writer's
transaction. The supervisor's listen loop and poll loop both call
`Dispatcher.Dispatch`, which calls the spawn handler **synchronously**: one
handler per loop at a time. The handler opens a transaction on the outbox row,
passes the gates, inserts an `agent_instances` row and commits; then it starts
the agent, reads its stdout in a second goroutine, and ends in one of four
writes (finalize transaction, finalize failure, terminal write, pre-start
`writeFail`). A successful one inserts a transition, whose trigger emits the
next row.

What makes the core correct: one supervisor per database; an event worked on by
one handler at a time; one effect per event however often it is delivered; the
processed mark and the outcome together; nothing delivered is lost; capacity,
budget and agent slots respected, up to the races the code accepts; no
transition without its diary; one outcome per session, always reached.

## 2. Modules

| module | role |
|---|---|
| `TicketFlow` | routing table, finalize expectation, transition and satisfaction columns (pure) |
| `WorkOutbox` | abstract specification: rows are emitted, settled once, take effect only when settled |
| `EventSpawn` | the core; extends `TicketFlow`, is mapped to `WorkOutbox` |
| `FinalizePipeline` | one agent session in detail |
| `ActionBroker`, `McpRegistry`, `Scheduler`, `Hygiene`, `Chat`, `Intake`, `TicketVerbs`, `Roster`, `AgentFleet`, `SkillInstall`, `ContainerExec`, `FinalizeTool` | one subsystem around the core each |
| `MCEventSpawn`, `MCFinalizePipeline` | the model values and dependency shapes of TLC's instances |
| `MCOperations` | the twelve subsystem modules side by side, with their fairness |
| `MCActionBroker`, `MCRoster` | one of them alone, for a run that finds a violation |
| `EventSpawnProofs` | `EventSpawn` is type correct and its references are valid |
| `EventSpawnSafety` | safety of `EventSpawn` while the lock cannot be lost, and that it implements `WorkOutbox` |
| `EventSpawnResources` | diaries, slots, dependencies, running rows, cap and budget of `EventSpawn` |
| `FinalizePipelineProofs` | types and safety of the session |
| `GatewayProofs` | broker, MCP registry, intake, verbs, finalize tool: inductive invariants |
| `FleetProofs` | container sessions, installs, fleet, roster: inductive invariants |
| `DeskProofs` | scheduler, hygiene, chat: inductive invariants |
| `OperationsProofs` | the theorems about the composition `MCOperations` |

### EventSpawn

Three layers of state. The **database**: `column`, `outbox`, `instances`,
`history` (ticket_transitions), `paused`, `spend`, and `drawers` for MemPalace.
Row ids are positions, so `created_at` order is the order of the sequence. The
**process**, per supervisor: `phase` (where `events.Run` is), `connUp`,
`cancelled` (the context the handlers run under), unread notifications `notes`,
the rest of the current poll `batch`, `inFlight`, `slots`, and `cache`, the roles
whose agent the in-memory roster has; and `lock`, which belongs to a server
session. The **handler** of each loop, `hnd[<<s, l>>]`: a
program counter, the event, the instance, the adjudicated exit, and whether it
holds a slot.

A program-counter value is a point between two calls at which something else
can observe or change shared state:

| pc | the handler is about to |
|---|---|
| `gate` | lock the outbox row; check processed, payload, cap, agent slot |
| `screen` | check pause, budget, dependency (tables may have moved on) |
| `insert` | insert the running row and commit |
| `setup` | resolve agent, secrets and MCP config, start the process |
| `running` | read the stream |
| `closing` | write the terminal transaction |
| `palace`, `tx`, `finfail` | write the diary; commit; or write the failure row |
| `tail` | drain the rest of the session |

What the code does in one transaction is one action (`Succeed` is instance,
transition, column, mark and the trigger's new row). What it does in two is
two. A closed gate returns from the handler with nothing written
(`GateDefer`, `ScreenDefer`), leaving the row to a later poll.

Some places where the model follows the code against first expectation:

- `Dispatch` with an unknown channel, or an event in flight, does not touch the
  row. The dashboard's own mutation rows (`MutationRow`) are therefore never
  marked processed; some share a routed channel but cannot be decoded.
- `emit_ticket_transitioned` puts no column in the payload: `TransitionedRow`
  has `col = NoColumn`, from which `transitionColumns` falls back to todo → done.
- `Redial` takes neither the advisory lock nor recovery again.
- `acquireAgentSlot` lets a handler through without a slot when the agent is not in
  the cache, and `SessionStart` looks the agent up again: a `Reload` between the
  two gives a session without a slot.
- The budget gate adds a flat `Estimate`; what a session is billed is `SessionCost`
  (0.05 and at most 0.10 in the code), two constants without a relation.
- Terminal writes are under `context.WithoutCancel`, so only a database fault
  loses them (`WriteTerminalLost`); `writeFail` is under the handler's context,
  so a cancellation loses it as well (`SetupFailLost`).
- `writeFinalizeFailure` is an unguarded UPDATE that does not mark the event:
  after a commit whose answer was lost (`CommitUnknown`) the row says failed
  although the ticket moved and the event is processed.

Abstractions: one department and one company; `failed` stands for every failed
exit reason but the two that properties name; the session is reduced to its
effects (`FinalizeOK`, `SessionEnd`, `FirePause`), and `FinalizePipeline` looks
inside; a session that is billed is billed `SessionCost`, the most it may cost; time
appears only as "the pause
ends", "the window ages" and "the ticker ticks"; `spend` is nondeterministically
billed or not, since a session without a result event has no cost.

### FinalizePipeline

Two goroutines (`pipeline.Run` reading stdout, `runClaudeSession` waiting for
it), the agent process, `execCtx` and the dispatcher's context. An action is one
stream event handled, one `select` branch taken, or one signal sent.
`fin`, `res` and `calls` are the fields of `FinalizeState`, `Result` and the
tool-use table that control depends on. `outcomes` records what was settled for
the `agent_instances` row: a terminal write by the runner, or what the commit
hook ended in. Its value `no_write` is the hook giving up before
`WriteFinalize` (no palace client, payload rejected on re-validation);
`Committed` is already set then, so nothing else writes the row and it stays
`running` until the next restart.

`holder` is a descendant of the agent that inherited stdout, stderr or both, in the
process group or away from it. End of file on a pipe needs the process and the
holder gone. A group signal may end the holder and need not (SIGTERM can be
ignored); the kill after `cmd.WaitDelay` reaches the leader alone. `Reap` waits for
`stderrDone` without a bound, as the code does.

The agent's stream is arbitrary within what the parser accepts: calls in
parallel, results before or after the result event, garbage lines, silence.

### The subsystem modules

Each module has its own `...Init`, `...Next` and type invariant, and its own view
of rows it shares with others (a ticket in `Intake` is a count, in `TicketVerbs`
a column and two fields). As in the core, what the code does in one transaction
is one action, and a read that a later write relies on is an action of its own.

- **`ActionBroker`**: `pending_actions` rows, what exists at the provider
  (`posts`), the open transaction of each dispatcher (`broker`) and of each Outbox
  click (`click`). `Claim` takes the row lock; `BrokerWork` passes the tier gate,
  posts, and records; `Lapse` is any way the post is done and the record is not.
- **`McpRegistry`**: registration (`RegisterMcpServer`, `HandleRegistration`,
  `RegisterServer`, `RecordRegistration`) by two supervisors, each with the
  notifications waiting for it, and the boot reconciler (`Visit`,
  `CreateMcpClient`, `WriteSecret`, `CleanUpClient`, `InsertAgentScopedSecret`).
  A token is the number of the run that made it, so "the stored token is the
  accepted one" can be said.
- **`Scheduler`**: a clock of slots, `next_fire_at`, the rows of each run, the
  dashboard's form between validation and write, and the handler of each run's
  event. `TickOnce` is one transaction over all claimed tasks: catch-up to the
  next slot after now, the overlap test, the run row and the ticket or event.
  `TicketReachesDone` and `ReopenTicket` are the moves of a run's ticket: no
  direction is refused. `AcquireAgentSlot` has the open gate of the core.
- **`Hygiene`**: transitions with what the evaluator tells apart, a goroutine per
  notification, the sweep with its batch, and a palace that goes away.
- **`Chat`**: one session. A row's position is its `turn_index`; `jobs[i]` is the
  worker of the message at `i`, which waits for the mutex, checks the cap, inserts
  its answer row, runs the container turn and commits row and total together.
  `SendChecks`, `SendNumbers`, `SendInserts` are the three statements of
  `sendChatMessage`. A connection loss drains the running turns before it
  listens again; a crash is followed by boot, the two sweeps and LISTEN.
- **`Intake`**: concurrent webhook requests through filter, bucket, mapping
  (`MapEvent`: no route is a 200, a body that cannot be mapped a 500) and the delivery
  transaction, where a second insert of the same id waits for the first; and
  `create_ticket` calls, which count the week and insert later.
- **`TicketVerbs`**: one ticket, verb calls that hold its row lock, the operator's
  drag and inline edit, and a run that finalizes. `intent` keeps, beside the
  fields, what each field's last editor meant.
- **`Roster`**: proposals and the transactions that decide them; the agents row,
  the verbs and the form that change it (with `updated_at` as `version`); the
  cache, its routes and the listener with its unread notifications.
- **`AgentFleet`**: the boot sequence, agent by agent: allocate, create, start,
  commit; then inspect, remove, create, start, report. Containers outlive the
  process; a deployment changes the shape asked for.
- **`SkillInstall`**: the six steps and the journal's last row, directories as
  what they hold (a body, `"remains"` of one, nothing), and a registry whose content
  changes. The old version is removed in more than one step, and a failure or a crash
  between them leaves its remains.
- **`ContainerExec`**: the slot, one session per event (a program counter and
  what has been written, read and signalled), claude processes with and without a
  session, deadline restarts on their way, and the container. `StreamTears` is an
  exec stream that ends with an error while claude runs; `PassesOpen` a session
  without the slot.
- **`FinalizeTool`**: the request loop and a validator in the code's order. The
  agent mends what it was told. `Wrong` is what the validator's rules forbid, one
  element per fault and without their order; `Published` is the schema that
  `tools/list` shows, which is another one, and `SchemaGap` says where. A `"loose"` draft
  decodes although the published schema forbids it: an array is missing or a
  property is added. Lengths are what the validator measures, bytes; the published
  schema counts characters, a difference the model does not show. Decode positions
  are computed for every text up to `MaxText`.

## 3. Runs

Passing runs. States are distinct states found by TLC.

| run | instance | what it shows |
|---|---|---|
| `single` | 1 supervisor, 1 ticket, cap 1, poll limit 2, containers, 2 writes, 1 crash, 1 LISTEN drop, 1 fault (4.4 M) | `OneHandlerPerEvent`, `OneEffectPerEvent`, `ProcessedMeansSettled`, `CapBound`, `TransitionHasDiary`, `RunningRowsOwned`, types |
| `two_supervisors` | 2 supervisors, 1 crash, 1 SIGTERM, 1 fault (156 k) | `OneSupervisor`, and the refinement `ImplementsOutbox`, which has one effect per event in it |
| `budget` | 2 tickets, the second depends on the first, containers, 2 reloads of the cache, cap 2, budget 2, estimate 1, cost 2 (2.6 M) | `BudgetOvershoot`: the gate reserves nothing and its estimate may be below the cost; what is billed and one more estimate stay within the budget and two sessions' cost. `DependentsWait`. `AgentSlotExclusive`: the slots taken are those of the handlers that will release one, none is held twice, and a session without a slot takes two reloads: the agent gone before the gate and back after it |
| `live` | 1 supervisor, cap 1, containers, 2 writes, 1 crash (189 k) | `WorkNotLost` under `FairSpec` |
| `session` | 3 finalize calls, finalize expected, grace window (817 k) | `OneOutcome`, `AcceptedCallDecides`, `RetryCap`, `CostKnown`, and under `FairSpec` `SessionEnds`: a session ends, or waits for ever for a descendant that keeps stderr |
| `operations` | every subsystem, one per behaviour (1.35 M) | types, the twelve invariants and two action properties below |
| `operations_live` | broker, hygiene, chat, intake and container sessions (137 k) | `HeadIsServed`, `JudgedEventually`, `QueuedIsServed`, `RedeliveryArrives`, `EventsSettle` |

What `operations` checks. An invariant is the conjunction of the named parts in its
component's module:

| property | parts |
|---|---|
| `PostsAreJustified` | an approval precedes a post; a post is repeated only by a lapse; a settled row is true |
| `RegistryAgrees` | one audit row per registration; no second call but after a loss; what is registered is upstream; a granted token works |
| `SlotsFireOnce` | two runs of a task share a slot only when an overtaken edit or resume was written |
| `RunsAreOrderly` | one open ticket per task but for those taken out of done again; one handler with the agent's slot, and one session while the cache is not reloaded; one queued run; an overlap can end; a processed run is over |
| `TurnsAddUp` | answers follow questions; the total is the sum of the rows; the cap is exceeded by less than one turn |
| `IntakeIsCounted` | one ticket per delivery; what GitHub is told is true; the weekly budget is exceeded at most by the callers past the gate |
| `NothingOverwritten` | moves start where the ticket is; no edit undoes another |
| `RosterIsSound` | siblings are not both approved; a cache with nothing to hear is the table |
| `FleetIsSound` | host uids are never shared; a boot without failure leaves every container as configured |
| `InstallIsSound` | what is mounted is a verified body, whole, or the remains of one during its removal or after a failure in it; the journal is never ahead |
| `SessionsAreCounted` | supervised sessions overlap in a container only past the open gate; a claude is left running only after a deadline or a torn stream; a result written to a stream that held counts |
| `AnswersAreRight` | mending what is reported leads to an accepted draft, one rejection per fault; a position is where the decoder stopped, one past the byte it refused; at most one late ok; the published schema and the validator differ in formats, in the maximum of a triple's fields and in what decoding lets pass, nowhere else |
| `SettledStays` | nothing settled changes again: actions, verdicts, aborted turns, decisions, outcomes, containers of the right shape |
| `PausesAndFormsHold` | a pause survives an edit that read before it; a form is accepted only against the row as it is |

Every part was broken by a mutant listed in `PROJECT.json`: a dropped lock, a missing
guard, a swapped order in the mapped code makes the property fail.

Violation runs. Each checks a sentence of the documentation or of a comment and
finds a behaviour of the code that contradicts it.

| run | what the counterexample does |
|---|---|
| `lock_lost` | supervisor 1 loses its LISTEN connection and with it the lock; supervisor 2 starts; supervisor 1 redials and goes on |
| `reconnect_wedge` | a LISTEN drop cancels a handler still in setup; `writeFail` fails on its cancelled context; the row stays running, recovery does not run again, and with cap 1 the department stops |
| `cap_race` | a good finalize result read after the third rejected one is committed |
| `broker_starved` | the oldest action waits for an approval nobody gives; each tick claims it again, and the approved one behind it is never dispatched |
| `hire_rejected` | one operator reads the proposal as pending, another rejects it, the first inserts the agent; its guarded UPDATE matches nothing and nobody notices |

`reconnect_wedge` has a relative at shutdown: the same `writeFail` on a
cancelled context leaves `running` rows after a clean SIGTERM, until the next
start's recovery; `RunningRowsOwned` therefore excludes drops, stops and faults,
and says exactly when no row is left over.

**Bounds.** `MaxOps` ticket writes, `MaxCrashes`, `MaxStops`, `MaxDrops`,
`MaxFaults` count down in `env`; `PollLimit` is 100 in the code. Two writes give
up to four outbox rows plus the rows runs emit, so both loops, a redelivered
row, a row behind an undecodable one, and a chain created → qa_review → done all
occur. One crash, one drop and one fault per behaviour, in any order and at any
step, cover each recovery path and each pair of different failures. What
two failures of the same kind might add, the theorems cover for every safety
property; for liveness one of a kind is the limit of these runs. Cap 1 with two loops reaches the race at the cap; poll limit 2
with up to four unprocessed rows reaches the limit. A second ticket is only
needed for dependencies and for budget. Two
reloads are what a session without a slot takes; `budget` has
no failures beside them, which the theorem covers. Three calls are the retry cap exactly;
`cap_race` adds a fourth. The session is run with finalize expected and a
grace window, the setting with the most behaviours; the proofs of its safety
properties hold for the other settings of `Expected` and `Grace` as well. `WorkNotLost` quantifies over `EventIds`, the ids a
bounded behaviour can emit. Deadlock is not checked: when the bounds are used up
and every row is settled, the model rightly has no step left.

In `operations` a behaviour picks one `part` and the others stand still, so the
twelve state spaces add up instead of multiplying; interactions between the
subsystems are inside the modules that need them (chat and operator in
`TicketVerbs`, webhooks and verbs in `Intake`, tick, form and session in
`Scheduler`). Two dispatchers and two actions reach every order of claim, post,
verdict and lapse; two supervisors and two servers every order of two deliveries;
three slots with a claim limit of one an overdue task and a catch-up, beside one
mishap, one overtaken form, one reopened ticket and one reload each; two
transitions, one of them agentless, a full sweep batch of two (in `operations_live`
one transition, so that `JudgedEventually` is not checked at the batch's limit); four message rows two
questions with their answers, or a question in the place of an answer; two
requests of one delivery id every redelivery; two callers at a weekly budget of
one the race at the gate; two verb calls beside a drag and a run every pair of
writers; three proposals a pair of siblings and a later one; three agents with
two uids an exhausted range and a hire; two installs a resumed one and its
successor; two events a session and its follower, with two faults a deadline
beside a failed write, a torn stream or a reboot. `Max...Fault` bounds the failures of a part, all
kinds together.

**Fairness.** `EventSpawn!Fairness`: weak fairness of each process's control
steps, of its listen loop, of its poll loop and of each handler (goroutines that
are runnable run; the ticker ticks; the database answers), of restart (a process
manager restarts the supervisor), and of the end of a pause and the ageing of
the cost window (time passes). No fairness for tickets being written, for crashes,
drops or faults, nor for any particular exit of a session. That a handler's session
ends is `SessionEnds` of `FinalizePipeline` without its exception: `WorkNotLost` says
nothing of a session that waits for a descendant with stderr open. `live` has no
drops and no faults because with them the property is false: that is
`reconnect_wedge`. `FinalizePipeline!FairSpec`: fairness of `Run`'s return
paths, of the runner, of the deadline (a timer) and of the kill after
`cmd.WaitDelay`; none for the agent, which may stay silent and ignore SIGTERM.
`MCOperations!Fairness`: weak fairness of each dispatcher's tick and of the
transaction it opened; of the hygiene sweep, of rows growing old and of MemPalace
coming back (an outage ends); of every chat worker, but not of containers exiting: no timer
ends a turn, so `QueuedIsServed` has "no container hangs for ever" as its
premise; of the bucket's refill and the webhook handlers; of each
container session's goroutines, of claude ending (the `timeout` wrapper in
`m7.go` ends it) and of the next event trying for the slot (the poll delivers it
again). Strong fairness only for redelivery: GitHub does not resend by itself,
redelivery is manual (`docs/retros/m10.md`), so `RedeliveryArrives` assumes an operator who has a
failed delivery sent again as often as it fails, and that it is not for ever over the
cap when the bucket refills for ever. None for what operators do otherwise, crashes, faults or what an agent
writes.

## 4. Divergences that have no run

Places where the code does something a document, a comment or a reader would not
expect. The models follow the code; the properties are stated so that they hold
beside these.

Core:

- `SelectUnprocessedEvents` reads the oldest 100 unprocessed rows
  (`migrations/queries/event_outbox.sql`); rows on unrouted channels and the
  dashboard's mutation rows are never marked, so they can fill the window.
  `WorkNotLost` is checked with room in it. `ARCHITECTURE.md` calls the poll a
  safety net.
- `writeTerminalCostAndWakeup` (`sup/spawn/spawn.go`) marks the event processed
  for `supervisor_shutdown` too; `docs/ops-checklist.md` says such tickets are
  picked up again after the restart.
- When the commit hook gives up before `WriteFinalize`, `Committed` is set and nothing
  writes the row (`no_write` in `FinalizePipeline`). `OneOutcome` counts it as an
  outcome and does not forbid it; the row stays running until the next start.
- `emit_ticket_transitioned` writes no column, so a ticket dragged into in_dev is
  run with a blank column and lands in done; a comment in `spawn.go` says
  qa_review.
- `acquireAgentSlot` passes open when the agent is not in the cache, and the agent may
  be back at the next lookup: two sessions then share a container, which the
  comment on `AgentInflight` (`inflight.go:8`) excludes.
- After the deadline the group gets one SIGTERM and `cmd.WaitDelay` kills the leader
  alone (the comment at `spawn.go:861` speaks of a second Cancel); a descendant
  that keeps stderr open keeps `runClaudeSession` at `<-stderrDone` and the
  dispatch loop with it. `specs/003-m2-1-claude-invocation/spec.md` (SC-104) has the
  whole group terminated and the event processed.
- The budget gate's estimate (0.05) is half of what a session may cost (0.10).
- With a result-grace window `Run` returns at the result event, and `cmd.Wait`
  follows with stdout unread (`sup/spawn/pipeline.go`); `ARCHITECTURE.md` says the
  pipes are drained first.

Subsystems:

- *Action broker.* Only approve-tier types exist in production. The notification
  carries a bare id that `Dispatch` rejects, so only the ticker works. The Outbox
  writes its outcome row even when its guarded UPDATE matched nothing. The query's
  comment promises "exactly-once"; a crash between post and mark repeats the post.
- *MCP registry.* A lost notification leaves a row pending, and the UNIQUE name
  keeps the operator from submitting it again. A client whose create answer was
  lost, or whose cleanup failed, is not repaired by a later run.
- *Scheduler.* An edit writes the slot computed at validation, after a tick may
  have advanced the task. A ticket may leave done (`moveTicket`, `transition_ticket`)
  after the next one has fired, so a task can have two open tickets, where
  `m9_schedule.sql:111` says that at most one exists. `failOneshotWrite` leaves the event unmarked; a failed
  `UpdateRunOutcome` is only logged.
- *Hygiene.* Rows without an agent stay NULL for ever and stay in the sweep's
  batch; a hundred of them starve it.
- *Chat.* A second message sent before the first is answered takes the turn index
  of its answer, and the first stays unanswered. A restart within 60 s leaves
  pending rows. A reconnect waits for the running turns and misses what is sent
  meanwhile. A silent exit, or a failed commit, leaves a row streaming.
  `TurnTimeout` is not read anywhere: a container that hangs keeps its turn and the
  session's mutex, although `specs/010-m5-1-ceo-chat-backend/spec.md` (FR-016) and
  `docs/ops-checklist.md` promise a SIGTERM after five minutes. A completed row may be overwritten by a later parse
  error. The two statements of the restart sweep are not one transaction. The
  tool-call ceiling records a reason without ending the turn, which
  `docs/security/chat-threat-model.md` says it does.
- *Intake.* `dept_weekly.go` speaks of one snapshot; at READ COMMITTED there are
  two. Webhook tickets count against the week but are not gated by it.
- *Ticket verbs.* `edit_ticket` replaces the metadata whole, where a comment speaks
  of a merge. The finalize write sets its columns without looking at the
  ticket's.
- *Roster.* After a lost connection the change listener listens again on the same
  closed connection; changes between the first load and LISTEN are missed. An
  `edit_agent_config` of one field writes the others back as it read them and so
  undoes an edit that committed in between, where the comment on its arguments
  (`verbs_agents.go:255`) says "nil leaves the field unchanged". Approving a skill
  proposal that is already decided still supersedes its siblings. A paused agent's
  events are consumed as `agent_missing`. Nothing starts the skill actuator, so
  approved skill proposals stay `install_in_progress`.
- *Fleet.* A failure or crash between create and commit makes the next boot's create
  fail with a conflict, and `migrate7` stays there; its comment says idempotent.
  `UidsNeverShared` holds because it stops.
- *Skill installer.* All versions of a package share one directory. A re-run past
  container_create meets a conflict. A crash between `RemoveAll` and `Rename`
  leaves no skill; a crash or an error inside `RemoveAll` leaves a part of the old one
  mounted, although `actuator.go:55` says that on any failure side-effects are rolled
  back. `actuator.go:27` calls concurrent installs of different proposals safe; two
  of one package share the `.tmp` directory, and one may mount what the other is
  still extracting. An unreadable journal counts as an empty one.
- *Container sessions.* A deadline restart carried out late kills the next
  session's claude. After a deadline, a torn stream or a crash an old claude may live beside the
  new one (`strays`). A malformed or truncated exec stream ends the session with
  claude alive; `runner.go:156` takes end of file for the end of the session. An exec whose start answer was lost runs although its event is run
  again.
- *Finalize tool.* The attempt counter also counts already-committed rejections,
  against its comment. `specs/005-m2-2-1-finalize-ticket/spec.md` (FR-253) has the input
  schema enforce every constraint; the published one has no maximum for a triple's
  fields (`tool.go:265`) and no formats, and the validator accepts missing arrays
  and unknown properties, which it forbids. `SyntaxError.Offset` is one past the failing byte. A line over
  1 MiB ends the server. Two oks are possible before the commit.

## 5. Proofs

Every invariant and every action property that a passing run checks is also a
theorem, for every value of the constants that satisfies the named assumptions:
any number of supervisors, tickets, dispatchers, chats, agents and calls, any
caps, budgets and limits, any number of failures. Only liveness is left to TLC.

| theorem | states |
|---|---|
| `EventSpawnProofs!TypeCorrect` | `Spec => []TypeOK` |
| `EventSpawnSafety!{OneSupervisor,OneHandlerPerEvent,ProcessedMeansSettled,OneEffectPerEvent}Holds` | `NoLockLoss => (Spec => []...)` |
| `EventSpawnSafety!ImplementsOutboxHolds` | `NoLockLoss => (Spec => ImplementsOutbox)` |
| `EventSpawnResources!{TransitionHasDiary,AgentSlotExclusive,DependentsWait,RunningRowsOwned}Holds` | `Spec => []...`, the lock lost or not |
| `EventSpawnResources!{CapBound,BudgetOvershoot}Holds` | `NoLockLoss => (Spec => []...)` |
| `FinalizePipelineProofs!{SessionTypeCorrect,OneOutcomeHolds,AcceptedCallDecidesHolds,RetryCapHolds,CostKnownHolds}` | types and safety of the session |
| `OperationsProofs!TypeOKHolds` | types of the twelve subsystems |
| `OperationsProofs!{PostsAreJustified,RegistryAgrees,SlotsFireOnce,RunsAreOrderly,TurnsAddUp,IntakeIsCounted,NothingOverwritten,RosterIsSound,FleetIsSound,InstallIsSound,SessionsAreCounted,AnswersAreRight}Holds` | the twelve invariants of `operations` |
| `OperationsProofs!{SettledStaysHolds,PausesAndFormsHoldAlways}` | its two action properties, `[][...]_vars` |

### Assumptions

Each module names one assumption on its constants, evaluated by TLC in every run.
They are types (bounds are natural numbers, sets of names are subsets of one
another) except for these:

- `IntakeAssumption`: the delivery ids and the callers of `create_ticket` are
  finite sets, and there is a caller; the overshoot of the weekly budget is a
  count of callers. The code has as many callers as requests in flight.
- `ChatAssumption`: a session has room for two rows, a question and its answer.
- `BrokerAssumption`, `SchedulerAssumption`, `HygieneAssumption`,
  `FleetAssumption`: periods, claim and sweep limits are positive, the kinds of
  task are disjoint, the seeded agents are among the agents.
- `ExecAssumption`, `VerbsAssumption`, `ConstantsAssumption`: the value for
  "nobody" or "no ticket" is not one of the events, chats, supervisors, tickets.

`NoLockLoss` is a hypothesis of theorems, not an assumption of the module:
either no LISTEN connection drops (`MaxDrops = 0`) or there is one supervisor
process. It is needed: `lock_lost` shows `OneSupervisor` to fail without it, and
with two processes up, each has its own loops, so the cap and the budget are
exceeded further.

### EventSpawn

1. `CoreInv == TypeOK /\ RefInv`. `TypeOK` is not inductive alone: an action
   that updates `outbox[hnd[h].ev]` keeps the type only if the event exists.
   `RefInv` says that notifications, batches and busy handlers refer to outbox
   rows that exist, and a busy handler's row is routed to a role.
2. `SafeInv == CoreInv /\ LockInv /\ FlightInv /\ SettleInv`.
   `LockInv`: without drops, a process that is up holds the lock.
   `FlightInv`: a busy handler's process is up and has the event in its
   `inFlight`, and the two loops of a process never have the same event.
   Together they give `OneHandlerPerEvent` across processes as well.
   `SettleInv`: a handler between the row lock and its outcome has an unprocessed
   event, and every effect in `history` belongs to a processed one. So the step that
   appends an effect settles a row that has none yet, and `OneEffectPerEvent`
   follows, through crashes and retries.
3. Refinement: initial states map to initial states; every action leaves the
   mapped variables alone, emits (`CreateTicket`, `moveTicket`), discards one
   unsettled row (`SetupFail`, `WriteTerminal` without success) or applies one
   (`Succeed`). `SettleInv` supplies "unsettled".
4. `EventSpawnResources` first says what any step does to a handler (`Moves`, the
   edges between program counters) and to the tables (rows are appended, tickets
   move forward), once for all actions. Then:
   - `DiaryInv`: a handler in `tx` has its drawer, and a terminal write that says
     "succeeded" belongs to a run that owes no finalize (`ExitInv`).
   - `SlotInv`: a process's slots are the roles of its handlers that hold one, no
     two alike. Equality, not inclusion: that is why no slot leaks. `OpenInv`:
     a handler past the gate without a slot saw a cache that lacks its role, and is not
     in a session before another reload.
   - `WaitInv`: the dependency check still holds at the INSERT, because no run takes
     a ticket out of review. An operator may, and the property says so.
   - `OwnInv`: while no allowance for losses was used, every running row has a busy
     handler with that instance. The premise is on the allowances that are left.
   - `CapInv`, `BudgetInv`: one predicate `Room(n, limit, est, step, C)` for a check
     of `n + est` that reserves nothing. A handler that passed it has left room for
     itself, two have left room for both, and each takes at most `step`; a process has
     two loops, so `n + est` ends at most two steps above the limit. For the cap both
     are 1 and the overshoot is one session; for the budget they are `Estimate` and
     `SessionCost`.

For `FinalizePipeline`, `SessionInv` adds `PendingInv` to the properties, which
relates `outcomes` to `committed`, `pending`, `loop` and `runner`: a pending
commit is committed, unsettled and only there while `Run` is reading; a commit
that is no longer pending has settled its outcome; an uncommitted session is
settled exactly when the runner is done; and the runner goes on to reap only
after `Run` returned. `OneOutcome` is not inductive without these: `Judge` relies
on what every return path of `Run` did.

### The subsystems

`EachPartSteps` shows that a step of the composition is a step or a stutter of
each part, so an inductive invariant of a part is one of the composition. Each
has three lemmas, `...InvInit`, `...InvStep`, `...Safe`, and a lemma per action.

| invariant | what it adds to the property |
|---|---|
| `BrokerInv` | a dispatcher or a click past the row lock holds a row that is still to be decided, and no two hold the same; `posts` is one above `lapses` only when the row is spent |
| `McpInv` | a registration in progress holds its row, at most one per row; the reconciler past the client's creation has this boot's token, and no grant yet |
| `IntakeInv` | an open delivery transaction has a delivery nobody else has; the week's tickets and the callers past the gate together are fewer than budget plus callers |
| `VerbsInv` | a call past `FOR UPDATE` is the only one, and what it read is what is there |
| `RosterInv` | when a sibling is approved, any other one open or approved saw it decided, or was decided when it was made; every write of the row is counted, so a form with the current token shows the row; a listener about to swap with nothing unheard holds the active row |
| `FleetInv` | uids grow with the agents' order, so a maximum is a fresh uid; the agents the boot has walked are as configured while it is intact |
| `InstallInv` | the journal's last row says which directories hold what, and the step in progress is its successor; the remains of a body are there only in mount or after a failure |
| `ExecInv` | a session holds the slot or came past the open gate; a result that was written is in the pipe, seen, or cut off by a bail, the deadline or a torn stream; restarts and strays are at most the faults used |
| `SchedInv` | every run that steps back to an earlier slot (`Back`) used up a rewrite, and one is still unused when `next` is not ahead of the last run; at most one run without an instance; open tickets are at most one more than the reopened ones; a handler without the slot came while the cache lacked the agent, or after a reload; runs whose handler lost a write are at most the mishaps |
| `HygInv` | the sweep's batch is a set of rows that exist, at most `SweepLimit` |
| `ChatInv` | at most one worker past the mutex, whose answer is the row after its question; the total is the end of some running total of the rows |
| `ToolInv` | what was told and what is still wrong add up to what was wrong at first |

Two arguments are inductions over data, which the prover's induction theorems do
not give; both are by a least counterexample (`WFMin` of the library) instead:

- *Chat total.* `CostOfRows` is a recursive sum. `AddUpTo` states that running totals
  exist; two running totals of the same rows agree (a least index where they differ
  follows one where they do not), so `CostOfRows` is the one `OnResult` extended.
- *Decode position.* `decodePosition` walks the text byte by byte; the
  property counts line feeds before the offset (`PlaceAfter`). A least
  offset where they differ would follow one where they agree.

For the finalize tool, every check of the validator that rejects reports one fault,
and mending it removes exactly that one from `Wrong` (`MendsByIt`). This is proved for
each check and lifted through `FirstOf`, the order of the checks. `Tame`
is needed with it: nothing is wrong beyond the length at which an array is cut, and a
draft has at most one triple more than allowed.

### Only model-checked

`WorkNotLost`, `SessionEnds`, `HeadIsServed`, `JudgedEventually`,
`QueuedIsServed`, `RedeliveryArrives`, `EventsSettle`: liveness under fairness, which
needs `ENABLED` and is out of this prover's reach. The five violation runs are
counterexamples and need no proof.

Some definitions were written so that the prover can follow them, at no change of
meaning: the sweep's batch is a set whose oldest row is next (the order of rows is
their index), running costs are a recursive function, `Wrong` is a union of
named parts, and `CASE`s over an exit are `IF` chains.

## 6. What is not modelled

Within the core: the roster overlay of routes (same kind of channel); a missing
department, which marks the event without a run; the fake-agent path;
`throttle_events` audit rows; backoff delays and log lines; texts of payloads,
diaries and prompts; secret redaction.

Within the subsystems: one-shots on the direct-exec transport; `rollback` and
`MarkInterruptedSteps` of the skill installer, which no caller reaches with
effect; installs that run at the same time; `spawn_agent`; the orphan collector of
agent containers, which nothing calls; streaming deltas and transcripts of the
chat; cron arithmetic (a period stands for it); bodies of webhooks and HTTP
clients beyond how they answer.

Left out: MemPalace's client and bootstrap, the vault client, the Postgres MCP
server, the object store, health, leak scan, configuration parsing: request and
response without state the correctness of the rest depends on; their failures
are faults of their callers. The dashboard's pages, authentication and SSE are
presentation. Generated queries (`sup/store`) are modelled by the definitions that
use them.

## 7. Plan

1. Abstract specifications for subsystems, with refinement proofs: a queue whose
   entries are settled once for `ActionBroker`, and one for the chat's turns.
2. Models: one-shots on the direct transport, concurrent skill installs.
