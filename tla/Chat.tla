-------------------------------- MODULE Chat --------------------------------
(***************************************************************************)
(* One CEO-chat session (internal/chat and the dashboard's chat actions):  *)
(* the operator's messages, the worker goroutine each notification starts, *)
(* the container turn it runs, the sweeps, and a supervisor that dies and  *)
(* comes back.  A row's place in msgs is its turn_index, which is UNIQUE   *)
(* per session, so the answer to the message at i can only be the row i+1. *)
(***************************************************************************)
EXTENDS Integers, Sequences

CONSTANTS
    CostCap,          \* SessionCostCapUSD, in units of cost
    TurnCost,         \* the most a turn costs
    ToolCallCeiling,  \* tool calls a turn may make
    MaxRow,           \* bound on message rows
    MaxChatFault      \* bound on crashes, lost connections and failed writes

ASSUME ChatAssumption ==
    /\ CostCap \in Nat \ {0} /\ TurnCost \in Nat \ {0}
    /\ ToolCallCeiling \in Nat /\ MaxRow \in Nat \ {0, 1} /\ MaxChatFault \in Nat

VARIABLES
    session,     \* chat_sessions.status; "none" before, "gone" after
    totalCost,   \* chat_sessions.total_cost_usd
    msgs,        \* chat_messages by turn_index
    msgsAged,    \* how many of them are older than the sweep's 60 seconds
    sender,      \* the dashboard's sendChatMessage
    jobs,        \* per operator row, the worker goroutine
    chatListen,  \* the supervisor: down, booting, up, or draining a dead cycle
    chatFaults   \* faults so far

chatVars == <<session, totalCost, msgs, msgsAged, sender, jobs, chatListen, chatFaults>>

Open == {"pending", "streaming"}
Ended == {"completed", "failed", "aborted"}
Row == [role: {"operator", "assistant"}, status: Open \union Ended, cost: 0..TurnCost]

\* A job waits for the session mutex, then is inside HandleMessageInSession
\* and SpawnTurn until it is over.
Holding == {"locked", "refused", "refusing", "inserted", "running"}
Job == [pc: {"none", "waits", "over"} \union Holding, calls: 0..(ToolCallCeiling + 1), result: BOOLEAN]
NoTurn == [pc |-> "none", calls |-> 0, result |-> FALSE]

ChatTypeOK ==
    /\ session \in {"none", "active", "ended", "aborted", "gone"}
    /\ totalCost \in Nat
    /\ Len(msgs) <= MaxRow /\ \A i \in DOMAIN msgs : msgs[i] \in Row
    /\ msgsAged \in 0..Len(msgs)
    /\ sender \in [pc: {"idle", "checked", "numbered"}, attempt: 0..1, next: 0..(MaxRow + 1)]
    /\ jobs \in [1..MaxRow -> Job]
    /\ chatListen \in {"down", "booting", "aborting", "orphans", "up", "draining"}
    /\ chatFaults \in 0..MaxChatFault

ChatInit ==
    /\ session = "none" /\ totalCost = 0
    /\ msgs = <<>> /\ msgsAged = 0
    /\ sender = [pc |-> "idle", attempt |-> 0, next |-> 0]
    /\ jobs = [i \in 1..MaxRow |-> NoTurn]
    /\ chatListen = "up"
    /\ chatFaults = 0

ChatFault == chatFaults < MaxChatFault /\ chatFaults' = chatFaults + 1

-----------------------------------------------------------------------------
(* The dashboard *)

OperatorRow == [role |-> "operator", status |-> "completed", cost |-> 0]

\* pg_notify at commit: only a listening supervisor starts a worker.
Notify(i) ==
    jobs' = IF chatListen = "up" THEN [jobs EXCEPT ![i] = [NoTurn EXCEPT !.pc = "waits"]] ELSE jobs

\* startChatSession, or createEmptyChatSession when the thread has no message.
StartChatSession(empty) ==
    /\ session = "none"
    /\ session' = "active"
    /\ \/ empty /\ UNCHANGED <<msgs, jobs>>
       \/ ~empty /\ msgs' = <<OperatorRow>> /\ Notify(1)
    /\ UNCHANGED <<totalCost, msgsAged, sender, chatListen, chatFaults>>

\* sendChatMessage reads the session before its transaction.
SendChecks ==
    /\ sender.pc = "idle"
    /\ session = "active"
    /\ Len(msgs) < MaxRow - 1
    /\ sender' = [pc |-> "checked", attempt |-> 0, next |-> 0]
    /\ UNCHANGED <<session, totalCost, msgs, msgsAged, jobs, chatListen, chatFaults>>

SendNumbers ==
    /\ sender.pc = "checked"
    /\ sender' = [sender EXCEPT !.pc = "numbered", !.next = Len(msgs) + 1]
    /\ UNCHANGED <<session, totalCost, msgs, msgsAged, jobs, chatListen, chatFaults>>

\* The INSERT; a taken turn_index is retried once, a deleted session throws.
SendInserts ==
    /\ sender.pc = "numbered"
    /\ LET taken == sender.next <= Len(msgs)
           lands == ~taken /\ session # "gone" /\ sender.next < MaxRow
       IN  /\ sender' = IF taken /\ sender.attempt = 0
                        THEN [pc |-> "checked", attempt |-> 1, next |-> 0]
                        ELSE [pc |-> "idle", attempt |-> 0, next |-> 0]
           /\ IF lands
              THEN msgs' = Append(msgs, OperatorRow) /\ Notify(sender.next)
              ELSE UNCHANGED <<msgs, jobs>>
    /\ UNCHANGED <<session, totalCost, msgsAged, chatListen, chatFaults>>

EndChatSession ==
    /\ session = "active"
    /\ session' = "ended"
    /\ UNCHANGED <<totalCost, msgs, msgsAged, sender, jobs, chatListen, chatFaults>>

\* The rows go with the session.
DeleteChatSession ==
    /\ session \notin {"none", "gone"}
    /\ session' = "gone" /\ msgs' = <<>> /\ msgsAged' = 0 /\ totalCost' = 0
    /\ UNCHANGED <<sender, jobs, chatListen, chatFaults>>

RowsAge ==
    /\ msgsAged < Len(msgs)
    /\ msgsAged' = msgsAged + 1
    /\ UNCHANGED <<session, totalCost, msgs, sender, jobs, chatListen, chatFaults>>

\* runIdleSweepOnce: no row newer than the idle timeout, which is longer than
\* the restart sweep's.  A session without rows qualifies at once.
IdleSweep ==
    /\ chatListen \in {"up", "draining"}
    /\ session = "active" /\ msgsAged = Len(msgs)
    /\ session' = "ended"
    /\ UNCHANGED <<totalCost, msgs, msgsAged, sender, jobs, chatListen, chatFaults>>

-----------------------------------------------------------------------------
(* HandleMessageInSession *)

\* Mutant: every worker gets a mutex of its own.
MutexFreeAlways(i) == TRUE

\* AcquireForSession: one worker of the session at a time.
MutexFree(i) == \A k \in 1..MaxRow : jobs[k].pc \notin Holding

\* FindOperatorMessageInSession, the lock, then one read of the session for
\* EnsureActiveSession and EnsureCostCapNotExceeded.  A deleted message ends
\* the worker before it takes the lock.
HandleMessage(i) ==
    /\ jobs[i].pc = "waits"
    /\ \/ i > Len(msgs) /\ jobs' = [jobs EXCEPT ![i].pc = "over"]
       \/ /\ i <= Len(msgs) /\ MutexFree(i)
          /\ jobs' = [jobs EXCEPT ![i].pc =
                 IF session # "active" \/ totalCost >= CostCap THEN "refused" ELSE "locked"]
    /\ UNCHANGED <<session, totalCost, msgs, msgsAged, sender, chatListen, chatFaults>>

PendingRow == [role |-> "assistant", status |-> "pending", cost |-> 0]

\* Mutant: the answer takes the next free index instead of the message's + 1.
SlotOfNext(i) == Len(msgs) + 1

\* turn_index of the answer: the operator row's + 1.
SlotOf(i) == i + 1

\* Mutant: the worker that finds its slot taken returns without unlocking.
SlotTakenKeepsLock(i) == jobs' = [jobs EXCEPT ![i].pc = "refused"]

\* The UNIQUE violation ends the worker; its message is never answered.
SlotTaken(i) == jobs' = [jobs EXCEPT ![i].pc = "over"]

\* InsertAssistantPending, for a turn or for a refusal.  Deleted sessions
\* fail the foreign key.
InsertAssistantPending(i) ==
    /\ jobs[i].pc \in {"locked", "refused"}
    /\ IF SlotOf(i) = Len(msgs) + 1 /\ session # "gone"
       THEN /\ msgs' = Append(msgs, PendingRow)
            /\ jobs' = [jobs EXCEPT ![i].pc = IF @ = "locked" THEN "inserted" ELSE "refusing"]
       ELSE SlotTaken(i) /\ UNCHANGED msgs
    /\ UNCHANGED <<session, totalCost, msgsAged, sender, chatListen, chatFaults>>

\* TerminalWriteWithError: the row becomes failed whatever it was.
TerminalWriteWithError(i) ==
    msgs' = IF i + 1 <= Len(msgs) THEN [msgs EXCEPT ![i + 1].status = "failed"] ELSE msgs

\* terminalSyntheticAssistant's second statement, and SpawnTurn without a
\* token, an MCP config or a container.
WriteAssistantError(i) ==
    /\ jobs[i].pc \in {"refusing", "inserted"}
    /\ TerminalWriteWithError(i)
    /\ jobs' = [jobs EXCEPT ![i].pc = "over"]
    /\ UNCHANGED <<session, totalCost, msgsAged, sender, chatListen, chatFaults>>

\* OnInit moves a pending row to streaming, or writes failed for an unhealthy
\* MCP server; dispatchStreamLine reads on either way.
OnInit(i, healthy) ==
    IF healthy
    THEN msgs' = IF i + 1 <= Len(msgs) /\ msgs[i + 1].status = "pending"
                 THEN [msgs EXCEPT ![i + 1].status = "streaming"] ELSE msgs
    ELSE TerminalWriteWithError(i)

\* The container runs and reports its MCP servers.
SpawnTurn(i, healthy) ==
    /\ jobs[i].pc = "inserted"
    /\ jobs' = [jobs EXCEPT ![i].pc = "running"]
    /\ OnInit(i, healthy)
    /\ UNCHANGED <<session, totalCost, msgsAged, sender, chatListen, chatFaults>>

-----------------------------------------------------------------------------
(* The turn *)

\* handleToolUseBlockStart: past the ceiling, maybeFireToolCallCeiling sets
\* bailReason and tells the dashboard.  The stream goes on.
ToolUse(i) ==
    /\ jobs[i].pc = "running" /\ ~jobs[i].result
    /\ jobs[i].calls <= ToolCallCeiling
    /\ jobs' = [jobs EXCEPT ![i].calls = @ + 1]
    /\ UNCHANGED <<session, totalCost, msgs, msgsAged, sender, chatListen, chatFaults>>

\* Mutant: the roll-up is committed with a row write that failed.
CommitTerminalSplit(i, status, cost) ==
    \/ /\ i + 1 <= Len(msgs)
       /\ msgs' = [msgs EXCEPT ![i + 1].status = status, ![i + 1].cost = cost]
       /\ totalCost' = totalCost + cost
       /\ UNCHANGED chatFaults
    \/ ChatFault /\ totalCost' = totalCost + cost /\ UNCHANGED msgs

\* commitAssistantTerminal: the row and the session's total in one transaction,
\* or neither.  A deleted session matches nothing.
CommitAssistantTerminal(i, status, cost) ==
    \/ /\ i + 1 <= Len(msgs)
       /\ msgs' = [msgs EXCEPT ![i + 1].status = status, ![i + 1].cost = cost]
       /\ totalCost' = totalCost + cost
       /\ UNCHANGED chatFaults
    \/ i + 1 > Len(msgs) /\ UNCHANGED <<msgs, totalCost, chatFaults>>
    \/ ChatFault /\ UNCHANGED <<msgs, totalCost>>

OnResult(i, status, cost) ==
    /\ jobs[i].pc = "running" /\ ~jobs[i].result
    /\ jobs' = [jobs EXCEPT ![i].result = TRUE]
    /\ CommitAssistantTerminal(i, status, cost)
    /\ UNCHANGED <<session, msgsAged, sender, chatListen>>

\* cmd.Wait: only a failing exit without a result writes the row.
ContainerExits(i, clean) ==
    /\ jobs[i].pc = "running"
    /\ IF ~clean /\ ~jobs[i].result THEN TerminalWriteWithError(i) ELSE UNCHANGED msgs
    /\ jobs' = [jobs EXCEPT ![i].pc = "over"]
    /\ UNCHANGED <<session, totalCost, msgsAged, sender, chatListen, chatFaults>>

\* OnTerminate and the RunStream error both write failed, after a result too.
ParseError(i) ==
    /\ jobs[i].pc = "running"
    /\ ChatFault
    /\ TerminalWriteWithError(i)
    /\ jobs' = [jobs EXCEPT ![i].pc = "over"]
    /\ UNCHANGED <<session, totalCost, msgsAged, sender, chatListen>>

-----------------------------------------------------------------------------
(* The listener, crashes and the restart sweep *)

\* runChatListenCycle waits for its workers before RunListener listens again;
\* what is sent meanwhile is never handled.
ChatLosesConn ==
    /\ chatListen = "up"
    /\ ChatFault
    /\ chatListen' = "draining"
    /\ UNCHANGED <<session, totalCost, msgs, msgsAged, sender, jobs>>

ChatRelistens ==
    /\ chatListen = "draining"
    /\ \A i \in 1..MaxRow : jobs[i].pc \in {"none", "over"}
    /\ chatListen' = "up"
    /\ UNCHANGED <<session, totalCost, msgs, msgsAged, sender, jobs, chatFaults>>

ChatCrash ==
    /\ chatListen # "down"
    /\ ChatFault
    /\ chatListen' = "down"
    /\ jobs' = [i \in 1..MaxRow |-> NoTurn]
    /\ UNCHANGED <<session, totalCost, msgs, msgsAged, sender>>

ChatBoots ==
    /\ chatListen = "down"
    /\ chatListen' = "booting"
    /\ UNCHANGED <<session, totalCost, msgs, msgsAged, sender, jobs, chatFaults>>

\* Mutant: the sweep also runs after LISTEN, on turns that are alive.
SweepTurnAlways == chatListen \in {"booting", "up"}

\* RunRestartSweep comes before LISTEN.
SweepTurn == chatListen = "booting"

\* MarkPendingMessagesAborted, rows older than the cutoff.
MarkPendingMessagesAborted ==
    /\ SweepTurn
    /\ msgs' = [i \in DOMAIN msgs |->
           IF msgs[i].status \in Open /\ i <= msgsAged
           THEN [msgs[i] EXCEPT !.status = "aborted"] ELSE msgs[i]]
    /\ chatListen' = IF msgs' = msgs THEN "orphans" ELSE "aborting"
    /\ UNCHANGED <<session, totalCost, msgsAged, sender, jobs, chatFaults>>

\* AbortSessionsWithAbortedMessages, a statement of its own.
AbortSessions ==
    /\ chatListen = "aborting"
    /\ session' = IF session = "active" THEN "aborted" ELSE session
    /\ chatListen' = "orphans"
    /\ UNCHANGED <<totalCost, msgs, msgsAged, sender, jobs, chatFaults>>

\* runOrphanOperatorSweep: an old newest operator row gets an aborted answer
\* and takes the session down; then LISTEN.  Failing is logged.
OrphanSweep ==
    /\ chatListen = "orphans"
    /\ chatListen' = "up"
    /\ IF /\ session = "active" /\ msgs # <<>> /\ msgsAged = Len(msgs)
          /\ msgs[Len(msgs)].role = "operator" /\ Len(msgs) < MaxRow
       THEN /\ msgs' = Append(msgs, [PendingRow EXCEPT !.status = "aborted"])
            /\ session' = "aborted"
       ELSE UNCHANGED <<msgs, session>>
    /\ UNCHANGED <<totalCost, msgsAged, sender, jobs, chatFaults>>

\* The steps of a worker that come by themselves.  A container's exit is not
\* one: deps.TurnTimeout is read nowhere, so nothing ends a turn that hangs.
ChatWork(i) ==
    \/ HandleMessage(i)
    \/ InsertAssistantPending(i)
    \/ WriteAssistantError(i)
    \/ \E healthy \in BOOLEAN : SpawnTurn(i, healthy)

ChatNext ==
    \/ \E empty \in BOOLEAN : StartChatSession(empty)
    \/ SendChecks
    \/ SendNumbers
    \/ SendInserts
    \/ EndChatSession
    \/ DeleteChatSession
    \/ RowsAge
    \/ IdleSweep
    \/ \E i \in 1..MaxRow :
        \/ ChatWork(i)
        \/ \E clean \in BOOLEAN : ContainerExits(i, clean)
        \/ ToolUse(i)
        \/ \E status \in {"completed", "failed"}, cost \in 0..TurnCost : OnResult(i, status, cost)
        \/ ParseError(i)
    \/ ChatLosesConn
    \/ ChatRelistens
    \/ ChatCrash
    \/ ChatBoots
    \/ MarkPendingMessagesAborted
    \/ AbortSessions
    \/ OrphanSweep

-----------------------------------------------------------------------------
(* Properties *)

\* The answer to a message is the row right after it: whatever the order of
\* the operator's messages, the workers and the sweeps, no assistant row is
\* first, and none follows another (worker.go, turn_index + 1).
AnswerFollowsQuestion ==
    \A i \in DOMAIN msgs :
        msgs[i].role = "assistant" => i > 1 /\ msgs[i - 1].role = "operator"

CostOfRows ==
    LET upTo[n \in 0..Len(msgs)] == IF n = 0 THEN 0 ELSE upTo[n - 1] + msgs[n].cost
    IN  upTo[Len(msgs)]

\* total_cost_usd is what the rows of the session cost, through crashes,
\* failed commits, sweeps and turns that end after the session did
\* (commitAssistantTerminal).
CostAddsUp == session # "gone" => totalCost = CostOfRows

\* The cap is checked before a turn and charged after it; the session mutex
\* keeps the overshoot to one turn (EnsureCostCapNotExceeded).
CapOvershoot == totalCost < CostCap + TurnCost

\* No turn outlives the sweep that aborted its row: an aborted row stays
\* aborted (RunRestartSweep before RunListener).
AbortedIsFinal ==
    [][\A i \in DOMAIN msgs \intersect DOMAIN msgs' :
          msgs[i].status = "aborted" => msgs'[i].status = "aborted"]_chatVars

TurnRunning == \E i \in 1..MaxRow : jobs[i].pc = "running"

\* If no container hangs for ever, a worker that waits for the session mutex
\* gets its turn, whatever ends the turns before it: no way out of
\* HandleMessageInSession keeps the mutex.
QueuedIsServed ==
    []<>~TurnRunning =>
        \A i \in 1..MaxRow : jobs[i].pc = "waits" ~> jobs[i].pc \in {"none", "over"}

\* A conversation and its account stay in step through workers, crashes and
\* sweeps: answers follow questions, the total is what the rows cost, and the
\* cap is exceeded by less than one turn.
TurnsAddUp == AnswerFollowsQuestion /\ CostAddsUp /\ CapOvershoot
=============================================================================
