--------------------------- MODULE ContainerExec ---------------------------
(***************************************************************************)
(* Sessions run inside one agent's container (spawn/m7.go): the in-flight  *)
(* slot, the MCP-config helper exec, the claude exec under coreutils       *)
(* timeout, the demultiplexed stream with its drain-ahead relay, the       *)
(* deadline watcher, the bail and shutdown restarts, the exit-code inspect *)
(* and the terminal write.  A restart of the container kills every process *)
(* in it.  The exec stream may end with claude still running, and a        *)
(* session may come past the slot gate while the agent cannot be resolved. *)
(* What a claude process does is abstracted to the frames it writes and    *)
(* how it ends.                                                            *)
(***************************************************************************)
EXTENDS Integers

CONSTANTS
    ExecEvents,      \* events routed to the agent
    MaxExecFault     \* bound on failures, hangs and crashes

VARIABLES
    holder,       \* the agent's in-flight slot: the event whose session holds it
    sess,         \* each event's session
    claude,       \* the session's claude process is alive in the container
    strays,       \* a claude process whose session is over is in the container
    restarts,     \* deadline restarts requested and not yet carried out
    boxUp,        \* the container runs
    settled,      \* event_outbox.processed_at and the instance's exit reason
    execFaults

execVars == <<holder, sess, claude, strays, restarts, boxUp, settled, execFaults>>

Free == "free"

ASSUME ExecAssumption == MaxExecFault \in Nat /\ Free \notin ExecEvents

NoSess == [pc |-> "idle", pipe |-> {}, wrote |-> FALSE, seen |-> FALSE, reading |-> TRUE, committed |-> FALSE,
           code |-> "none", hung |-> FALSE, late |-> FALSE, torn |-> FALSE, open |-> FALSE, why |-> "none"]
Codes == {"none", "ok", "budget", "wrapper", "killed"}
Reasons == {"none", "completed", "timeout", "signaled", "no_result", "spawn_failed", "bail", "shutdown"}

ExecTypeOK ==
    /\ holder \in ExecEvents \union {Free}
    /\ sess \in [ExecEvents -> [pc : {"idle", "config", "exec", "stream", "inspect", "cleanup"},
                                pipe : SUBSET {"result", "tail"}, wrote : BOOLEAN, seen : BOOLEAN,
                                reading : BOOLEAN, committed : BOOLEAN, code : Codes, hung : BOOLEAN,
                                late : BOOLEAN, torn : BOOLEAN, open : BOOLEAN,
                                why : {"none", "bail", "shutdown"}]]
    /\ claude \subseteq ExecEvents
    /\ strays \in BOOLEAN /\ restarts \in Nat
    /\ boxUp \in BOOLEAN
    /\ settled \in [ExecEvents -> Reasons]
    /\ execFaults \in 0..MaxExecFault

ExecInit ==
    /\ holder = Free
    /\ sess = [e \in ExecEvents |-> NoSess]
    /\ claude = {}
    /\ strays = FALSE /\ restarts = 0
    /\ boxUp = TRUE
    /\ settled = [e \in ExecEvents |-> "none"]
    /\ execFaults = 0

ExecFault == execFaults < MaxExecFault /\ execFaults' = execFaults + 1
Goes(e, pc) == sess' = [sess EXCEPT ![e].pc = pc]

-----------------------------------------------------------------------------
(* From the slot to the claude exec *)

\* Mutant: the slot is taken without a look at who holds it.
TryAcquireAny(e) ==
    /\ sess[e].pc = "idle" /\ settled[e] = "none"
    /\ holder' = e
    /\ sess' = [sess EXCEPT ![e] = [NoSess EXCEPT !.pc = "config"]]
    /\ UNCHANGED <<claude, strays, restarts, boxUp, settled, execFaults>>

TryAcquire(e) ==
    /\ sess[e].pc = "idle" /\ holder = Free /\ settled[e] = "none"
    /\ holder' = e
    /\ sess' = [sess EXCEPT ![e] = [NoSess EXCEPT !.pc = "config"]]
    /\ UNCHANGED <<claude, strays, restarts, boxUp, settled, execFaults>>

\* The agent cannot be resolved at the gate, which lets the session through
\* without the slot, and can be at the lookup behind it.
PassesOpen(e) ==
    /\ sess[e].pc = "idle" /\ settled[e] = "none"
    /\ ExecFault
    /\ sess' = [sess EXCEPT ![e] = [NoSess EXCEPT !.pc = "config", !.open = TRUE]]
    /\ UNCHANGED <<holder, claude, strays, restarts, boxUp, settled>>

\* The deferred release of the slot; nothing for a session that has none.
Release(e) == holder' = IF holder = e THEN Free ELSE holder

\* writeContainerFail: a retryable failure leaves the event unprocessed.
WriteContainerFail(e, retryable) ==
    /\ settled' = [settled EXCEPT ![e] = IF retryable THEN "none" ELSE "spawn_failed"]
    /\ sess' = [sess EXCEPT ![e] = NoSess]
    /\ Release(e)

\* A missing or stopped container is retryable; any other failure of the
\* helper exec is not.
WriteContainerMCPConfig(e) ==
    /\ sess[e].pc = "config"
    /\ \/ boxUp /\ Goes(e, "exec") /\ UNCHANGED <<holder, settled, execFaults>>
       \/ ~ boxUp /\ WriteContainerFail(e, TRUE) /\ UNCHANGED execFaults
       \/ ExecFault /\ WriteContainerFail(e, FALSE)
    /\ UNCHANGED <<claude, strays, restarts, boxUp>>

\* Controller.Exec creates and starts the exec.
ExecStarts(e) ==
    /\ boxUp
    /\ claude' = claude \union {e}
    /\ UNCHANGED <<strays, execFaults>>

\* Controller.Exec fails: there is no running container, or the answer of the
\* create or the start request is lost, and then the process may be there.
ExecErrs ==
    /\ \/ ~ boxUp /\ UNCHANGED <<strays, execFaults>>
       \/ boxUp /\ ExecFault /\ strays' \in {strays, TRUE}
    /\ UNCHANGED claude

\* A failed exec is retryable, and its config is removed by the deferred
\* cleanup on the way out.
ExecClaude(e) ==
    /\ sess[e].pc = "exec"
    /\ \/ ExecStarts(e) /\ Goes(e, "stream") /\ UNCHANGED <<holder, settled>>
       \/ ExecErrs /\ WriteContainerFail(e, TRUE)
    /\ UNCHANGED <<restarts, boxUp>>

-----------------------------------------------------------------------------
(* The claude process and the stream *)

\* What it writes into a torn stream is lost.
ClaudeWrites(e) ==
    /\ e \in claude /\ ~ sess[e].hung
    /\ \/ /\ ~ sess[e].wrote
          /\ sess' = [sess EXCEPT ![e].wrote = TRUE, ![e].pipe = IF sess[e].torn THEN @ ELSE @ \union {"result"}]
       \/ /\ sess[e].wrote /\ ~ sess[e].torn /\ "tail" \notin sess[e].pipe
          /\ sess' = [sess EXCEPT ![e].pipe = @ \union {"tail"}]
    /\ UNCHANGED <<holder, claude, strays, restarts, boxUp, settled, execFaults>>

\* It ends by itself, by the wrapper's budget, or because the wrapper could
\* not run it.
ClaudeExits(e) ==
    /\ e \in claude /\ ~ sess[e].hung
    /\ claude' = claude \ {e}
    /\ \E c \in {"ok", "budget"} \union (IF sess[e].wrote THEN {} ELSE {"wrapper"}) :
         sess' = [sess EXCEPT ![e].code = c]
    /\ UNCHANGED <<holder, strays, restarts, boxUp, settled, execFaults>>

\* A black hole: neither claude nor the wrapper's signal ends it.
ClaudeHangs(e) ==
    /\ e \in claude /\ ~ sess[e].hung
    /\ ExecFault
    /\ sess' = [sess EXCEPT ![e].hung = TRUE]
    /\ UNCHANGED <<holder, claude, strays, restarts, boxUp, settled>>

\* Mutant: the pipeline reads the demultiplexer's pipe directly.
FlowsWhileRead(e) == sess[e].reading

\* The relay drains the demultiplexer whether or not the pipeline reads.
Flows(e) == TRUE

\* The demultiplexer hands over the next frame.
DemuxRawStream(e) ==
    /\ sess[e].pc = "stream" /\ sess[e].pipe # {} /\ Flows(e)
    /\ LET f == IF "result" \in sess[e].pipe THEN "result" ELSE "tail"
       IN  sess' = [sess EXCEPT ![e].pipe = @ \ {f},
                                ![e].seen = @ \/ (f = "result" /\ sess[e].reading)]
    /\ UNCHANGED <<holder, claude, strays, restarts, boxUp, settled, execFaults>>

\* A malformed header, a truncated frame or a lost connection: the
\* demultiplexer closes both streams with an error and what was on its way
\* is gone, whatever claude does.
StreamTears(e) ==
    /\ sess[e].pc = "stream" /\ ~ sess[e].torn
    /\ ExecFault
    /\ sess' = [sess EXCEPT ![e].torn = TRUE, ![e].pipe = {}]
    /\ UNCHANGED <<holder, claude, strays, restarts, boxUp, settled>>

\* The finalize commit, then the pipeline stops reading before end of file
\* (pipeline.Run's result grace).
CommitAndLeave(e) ==
    /\ sess[e].pc = "stream" /\ sess[e].seen /\ sess[e].reading
    /\ sess' = [sess EXCEPT ![e].reading = FALSE, ![e].committed = TRUE]
    /\ settled' = [settled EXCEPT ![e] = "completed"]
    /\ UNCHANGED <<holder, claude, strays, restarts, boxUp, execFaults>>

\* Restart kills every exec in the container; PID 1 comes back.
KillAll ==
    /\ claude' = {}
    /\ strays' = FALSE
    /\ boxUp' = TRUE

Killed(s) == [e \in ExecEvents |-> IF e \in claude THEN [s[e] EXCEPT !.code = "killed"] ELSE s[e]]

\* A bail (MCP gate, parse error) or the shutdown ladder restarts the
\* container and waits for it; a failed restart is only logged.
Terminate(e, why) ==
    /\ sess[e].pc = "stream" /\ sess[e].why = "none"
    /\ why = "bail" => sess[e].reading
    /\ ExecFault
    /\ LET told == [sess EXCEPT ![e].why = why, ![e].reading = @ /\ why # "bail"]
       IN  \/ KillAll /\ sess' = Killed(told)
           \/ sess' = told /\ UNCHANGED <<claude, strays, boxUp>>
    /\ UNCHANGED <<holder, restarts, settled>>

\* watchExecDeadline: budget plus slack has passed.  The stream is cut at
\* once; the restart is requested from the watcher's goroutine.
WatchExecDeadline(e) ==
    /\ sess[e].pc = "stream" /\ e \in claude /\ sess[e].hung /\ ~ sess[e].late
    /\ sess' = [sess EXCEPT ![e].late = TRUE]
    /\ restarts' = restarts + 1
    /\ UNCHANGED <<holder, claude, strays, boxUp, settled, execFaults>>

\* docker carries a watcher's restart out, or the call fails.
DeadlineRestart ==
    /\ restarts > 0
    /\ restarts' = restarts - 1
    /\ \/ KillAll /\ sess' = Killed(sess) /\ UNCHANGED execFaults
       \/ ExecFault /\ UNCHANGED <<sess, claude, strays, boxUp>>
    /\ UNCHANGED <<holder, settled>>

-----------------------------------------------------------------------------
(* The end of a session *)

\* Mutant: the exit code is taken while frames are still on their way.
DrainedBeforeEof(e) == TRUE

\* Both streams have ended: end of file after the last frame, the cut, or an
\* error, which leaves nothing to read.
Drained(e) == sess[e].pipe = {} \/ (sess[e].late /\ Flows(e))

StreamEnds(e) ==
    /\ sess[e].pc = "stream" /\ (e \notin claude \/ sess[e].late \/ sess[e].torn) /\ Drained(e)
    /\ Goes(e, "inspect")
    /\ UNCHANGED <<holder, claude, strays, restarts, boxUp, settled, execFaults>>

\* inspectContainerExit, containerWaitDetail, overlayRunnerWaitDetail and the
\* rows of Adjudicate they decide between; the inspect may fail.
ExitReasonOf(e, code) ==
    IF sess[e].why \in {"bail", "shutdown"} THEN sess[e].why
    ELSE IF sess[e].late \/ code = "budget" THEN "timeout"
    ELSE IF code = "killed" THEN "signaled"
    ELSE IF sess[e].seen THEN "completed"
    ELSE IF code = "wrapper" THEN "spawn_failed" ELSE "no_result"

\* Mutant: the commit is not looked at before the terminal write.
WriteTerminalAlways(e, code) == settled' = [settled EXCEPT ![e] = ExitReasonOf(e, code)]

\* A committed session has written its terminal row already.
WriteTerminal(e, code) ==
    settled' = [settled EXCEPT ![e] = IF sess[e].committed THEN @ ELSE ExitReasonOf(e, code)]

\* A process that still runs has no exit code: the poll gives up.
InspectContainerExit(e) ==
    /\ sess[e].pc = "inspect"
    /\ \/ WriteTerminal(e, IF e \in claude THEN "none" ELSE sess[e].code) /\ UNCHANGED execFaults
       \/ WriteTerminal(e, "none") /\ ExecFault
    /\ Goes(e, "cleanup")
    /\ UNCHANGED <<holder, claude, strays, restarts, boxUp>>

\* The cleanup exec only warns; the slot is free once it returns.
CleanupContainerMCPConfig(e) ==
    /\ sess[e].pc = "cleanup"
    /\ Release(e)
    /\ sess' = [sess EXCEPT ![e] = NoSess]
    /\ strays' = (strays \/ e \in claude)
    /\ claude' = claude \ {e}
    /\ UNCHANGED <<restarts, boxUp, settled, execFaults>>

-----------------------------------------------------------------------------
(* The environment *)

BoxDies ==
    /\ boxUp
    /\ ExecFault
    /\ boxUp' = FALSE /\ claude' = {} /\ strays' = FALSE
    /\ sess' = Killed(sess)
    /\ UNCHANGED <<holder, restarts, settled>>

\* The supervisor dies and boots again: sessions, slot and watchers are
\* gone, an unprocessed event is dispatched again, the boot reconcile starts
\* a stopped container and leaves a running one, and what runs in it, alone.
SupervisorReboots ==
    /\ ExecFault
    /\ holder' = Free
    /\ sess' = [e \in ExecEvents |-> NoSess]
    /\ strays' = (strays \/ claude # {})
    /\ claude' = {}
    /\ restarts' = 0
    /\ boxUp' = TRUE
    /\ UNCHANGED settled

\* What the supervisor's goroutines do for a session.
ExecStep(e) ==
    \/ WriteContainerMCPConfig(e) \/ ExecClaude(e) \/ DemuxRawStream(e)
    \/ WatchExecDeadline(e) \/ StreamEnds(e) \/ InspectContainerExit(e) \/ CleanupContainerMCPConfig(e)

ExecNext ==
    \/ \E e \in ExecEvents :
         \/ TryAcquire(e) \/ PassesOpen(e) \/ ExecStep(e) \/ StreamTears(e) \/ CommitAndLeave(e)
         \/ ClaudeWrites(e) \/ ClaudeExits(e) \/ ClaudeHangs(e)
         \/ \E why \in {"bail", "shutdown"} : Terminate(e, why)
    \/ DeadlineRestart \/ BoxDies \/ SupervisorReboots

-----------------------------------------------------------------------------
(* Properties *)

\* Two sessions share the container only when one of them came past the gate
\* while the agent could not be resolved (AgentInflight, one claude exec at a
\* time), and a session ends with its process running, a stray from then on,
\* only after a deadline or an error on the exec stream.
OneSupervisedExec ==
    /\ \A d, e \in ExecEvents :
         d # e /\ sess[d].pc # "idle" /\ sess[e].pc # "idle" => sess[d].open \/ sess[e].open
    /\ \A e \in ExecEvents :
         sess[e].pc \in {"inspect", "cleanup"} /\ e \in claude => sess[e].late \/ sess[e].torn

\* A result frame that claude wrote to a stream that held is never recorded as
\* no_result or spawn_failed: the streams are drained before the exit code is
\* read (runClaudeSession, concurrency rule 8).
ResultIsCounted ==
    \A e \in ExecEvents :
        sess[e].pc = "cleanup" /\ sess[e].wrote /\ ~ sess[e].late /\ ~ sess[e].torn
            => settled[e] \notin {"no_result", "spawn_failed"}

\* What is recorded for an event is recorded once: no deadline, kill or
\* later session rewrites it (finalizeState.Committed, the terminal write).
OutcomeIsFinal ==
    [][\A e \in ExecEvents : settled[e] # "none" => settled'[e] = settled[e]]_execVars

\* As long as the container stands, the session that holds the slot and every
\* event waiting behind it get their outcome: the demux never wedges on a
\* reader that has left, a hung exec is cut by the deadline, and the slot
\* comes back (newDrainAheadReader, watchExecDeadline).
EventsSettle ==
    \A e \in ExecEvents : holder # Free ~> (settled[e] # "none" \/ ~ boxUp)

\* Sessions in a container are neither doubled nor miscounted but for the
\* open gate, the deadline and the torn stream: supervised ones do not overlap
\* and a result that was written counts.
SessionsAreCounted == OneSupervisedExec /\ ResultIsCounted
=============================================================================
