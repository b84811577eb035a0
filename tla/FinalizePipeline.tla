--------------------------- MODULE FinalizePipeline ---------------------------
(***************************************************************************)
(* One agent session: runClaudeSession and the goroutine that reads the    *)
(* agent's stream-json stdout (pipeline.Run with FinalizePolicy).  The two *)
(* goroutines, the agent process, the per-run deadline and the             *)
(* supervisor's shutdown interleave; between them they must produce exactly *)
(* one outcome for the agent_instances row.                                *)
(*                                                                         *)
(* EventSpawn holds this to a few steps (FinalizeOK, SessionEnd, ...); here *)
(* the database is only the list of outcomes settled.                      *)
(***************************************************************************)
EXTENDS Naturals, Sequences, FiniteSets

CONSTANTS
    Calls,      \* tool_use ids of the finalize calls the agent may make
    Expected,   \* FinalizeState.Expected
    Grace       \* FinalizeResultGrace > 0: the commit waits for the result event

ASSUME SessionAssumption == Expected \in BOOLEAN /\ Grace \in BOOLEAN

VARIABLES
    child,      \* the agent process
    killed,     \* ... died of a signal
    deadline,   \* execCtx has expired
    ctxDone,    \* the dispatcher's context is cancelled
    holder,     \* the pipes a descendant of the agent holds open, and whether it left
                \* the agent's process group
    calls,      \* finalize calls made, and those without a tool_result
    fin,        \* FinalizeState, the attempt counter and pendingCommit
    res,        \* the Result accumulated from the stream
    grace,      \* the result-grace timer
    loop,       \* pipeline.Run: reading, returned, or returned an error
    eof,        \* ... and stdout was read to its end
    bailed,     \* the bail hook has signalled the process group
    runner,     \* where runClaudeSession is
    shutdown,   \* shutdownCtxErr # nil
    outcomes    \* what was settled for the row, in order; see OnCommit

agentVars == <<child, killed, deadline, ctxDone, holder>>
streamVars == <<calls, fin, res, grace, loop, eof, bailed>>
runnerVars == <<runner, shutdown>>
vars == <<agentVars, streamVars, runnerVars, outcomes>>

FinalizeCap == 3

FinalizeKinds == {"finalized", "finalize_partial", "no_write"}

ExitReasons == {"mcp_failed", "parse_error", "supervisor_shutdown", "timeout",
                "budget_exceeded", "finalize_invalid", "signaled", "no_result",
                "claude_error", "finalize_never_called", "acceptance_failed", "completed"}

Outcome == [kind : FinalizeKinds \cup ExitReasons, cost : BOOLEAN]

FinalizeState == [attempted : BOOLEAN, committed : BOOLEAN, capExhausted : BOOLEAN,
                  attempts : Nat, pending : BOOLEAN]

Result == [mcpBailed : BOOLEAN, parseError : BOOLEAN, resultSeen : BOOLEAN,
           isError : BOOLEAN, budget : BOOLEAN]

Pipes == {"stdout", "stderr"}

Released == [fds |-> {}, away |-> FALSE]

TypeOK ==
    /\ child \in {"running", "signalled", "exited"}
    /\ killed \in BOOLEAN /\ deadline \in BOOLEAN /\ ctxDone \in BOOLEAN
    /\ holder \in [fds : SUBSET Pipes, away : BOOLEAN]
    /\ calls \in [made : SUBSET Calls, open : SUBSET Calls]
    /\ fin \in FinalizeState
    /\ res \in Result
    /\ grace \in {"off", "armed", "elapsed"}
    /\ loop \in {"reading", "returned", "failed"}
    /\ eof \in BOOLEAN /\ bailed \in BOOLEAN /\ shutdown \in BOOLEAN
    /\ runner \in {"await", "terminating", "killing", "reap", "judge", "done"}
    /\ outcomes \in Seq(Outcome)

Init ==
    /\ child = "running"
    /\ killed = FALSE /\ deadline = FALSE /\ ctxDone = FALSE
    /\ holder = Released
    /\ calls = [made |-> {}, open |-> {}]
    /\ fin = [attempted |-> FALSE, committed |-> FALSE, capExhausted |-> FALSE,
              attempts |-> 0, pending |-> FALSE]
    /\ res = [mcpBailed |-> FALSE, parseError |-> FALSE, resultSeen |-> FALSE,
              isError |-> FALSE, budget |-> FALSE]
    /\ grace = "off"
    /\ loop = "reading"
    /\ eof = FALSE /\ bailed = FALSE /\ shutdown = FALSE
    /\ runner = "await"
    /\ outcomes = <<>>

-------------------------------------------------------------------------------
(* The agent process and the two contexts *)

\* Of its own accord, on a signal, or because something outside killed it.
ChildExits ==
    /\ child # "exited"
    /\ child' = "exited"
    /\ killed' \in BOOLEAN
    /\ UNCHANGED <<deadline, ctxDone, holder, streamVars, runnerVars, outcomes>>

\* A tool the agent runs, or one of its MCP servers, inherits its pipes ...
DescendantStarts ==
    /\ child # "exited" /\ holder = Released
    /\ holder' \in [fds : (SUBSET Pipes) \ {{}}, away : BOOLEAN]
    /\ UNCHANGED <<child, killed, deadline, ctxDone, streamVars, runnerVars, outcomes>>

\* ... until it ends, of its own accord or on a SIGTERM to the group; it need not.
DescendantEnds ==
    /\ holder # Released
    /\ holder' = Released
    /\ UNCHANGED <<child, killed, deadline, ctxDone, streamVars, runnerVars, outcomes>>

Signalled == IF child = "running" THEN "signalled" ELSE child

\* execCtx expires; cmd.Cancel signals the group.
DeadlinePasses ==
    /\ ~deadline
    /\ deadline' = TRUE
    /\ child' = Signalled
    /\ UNCHANGED <<killed, ctxDone, holder, streamVars, runnerVars, outcomes>>

\* Mutant: no WaitDelay, so a process that ignores SIGTERM lives on.
DeadlineTermAgain ==
    /\ deadline /\ child = "signalled"
    /\ UNCHANGED vars

\* cmd.WaitDelay after the deadline: os/exec kills the agent's own PID.  Cancel is
\* not called again, so nothing else in the group is killed.
DeadlineKill ==
    /\ deadline /\ child = "signalled"
    /\ child' = "exited"
    /\ killed' = TRUE
    /\ UNCHANGED <<deadline, ctxDone, holder, streamVars, runnerVars, outcomes>>

\* The supervisor shuts down, or its LISTEN cycle ends.
CtxCancelled ==
    /\ ~ctxDone
    /\ ctxDone' = TRUE
    /\ UNCHANGED <<child, killed, deadline, holder, streamVars, runnerVars, outcomes>>

-------------------------------------------------------------------------------
(* The pipeline goroutine *)

\* finalizeOnCommit: WriteFinalize commits, fails and writes the failed row, or is
\* not reached (no palace client, payload rejected): the hook gave up, Committed is
\* already set, and the row stays as it is.
OnCommit(cost) ==
    \E kind \in FinalizeKinds :
        outcomes' = Append(outcomes, [kind |-> kind, cost |-> cost])

\* Mutant: a return path of Run that does not fire the pending commit.
firePendingNot(cost) == UNCHANGED <<fin, outcomes>>

\* firePending: every return path of Run fires a commit that is still pending.
firePending(cost) ==
    \/ fin.pending /\ fin' = [fin EXCEPT !.pending = FALSE] /\ OnCommit(cost)
    \/ ~fin.pending /\ UNCHANGED <<fin, outcomes>>

\* The bail hook signals the group once.
OnBail == bailed' = TRUE /\ child' = Signalled

NoBail == UNCHANGED <<bailed, child>>

\* An init frame with a server that is not connected; reading goes on.
OnInitUnhealthy ==
    /\ loop = "reading" /\ calls.made = {} /\ ~res.resultSeen /\ ~res.mcpBailed
    /\ res' = [res EXCEPT !.mcpBailed = TRUE]
    /\ OnBail
    /\ UNCHANGED <<killed, deadline, ctxDone, holder, calls, fin, grace, loop, eof,
                   runnerVars, outcomes>>

\* An assistant event with a finalize tool_use.
recordFinalizeToolUse(c) ==
    /\ loop = "reading" /\ Expected /\ c \notin calls.made
    /\ calls' = [made |-> calls.made \cup {c}, open |-> calls.open \cup {c}]
    /\ fin' = [fin EXCEPT !.attempted = @ \/ ~fin.committed]
    /\ UNCHANGED <<agentVars, res, grace, loop, eof, bailed, runnerVars, outcomes>>

Answered(c) == calls' = [calls EXCEPT !.open = @ \ {c}]

\* A tool_result after the commit is logged and nothing else.
ResultPostCommit(c) ==
    /\ loop = "reading" /\ c \in calls.open /\ fin.committed
    /\ Answered(c)
    /\ UNCHANGED <<agentVars, fin, res, grace, loop, eof, bailed, runnerVars, outcomes>>

\* Mutant: a fourth attempt.
AttemptFailedOffByOne(c) ==
    /\ loop = "reading" /\ c \in calls.open /\ ~fin.committed
    /\ Answered(c)
    /\ LET n == fin.attempts + 1
       IN  /\ fin' = [fin EXCEPT !.attempts = n, !.capExhausted = @ \/ n > FinalizeCap]
           /\ IF n > FinalizeCap THEN OnBail ELSE NoBail
    /\ UNCHANGED <<killed, deadline, ctxDone, holder, res, grace, loop, eof, runnerVars, outcomes>>

\* handleFinalizeToolResult, ok = false: the third failure bails.
AttemptFailed(c) ==
    /\ loop = "reading" /\ c \in calls.open /\ ~fin.committed
    /\ Answered(c)
    /\ LET n == fin.attempts + 1
       IN  /\ fin' = [fin EXCEPT !.attempts = n, !.capExhausted = @ \/ n >= FinalizeCap]
           /\ IF n >= FinalizeCap THEN OnBail ELSE NoBail
    /\ UNCHANGED <<killed, deadline, ctxDone, holder, res, grace, loop, eof, runnerVars, outcomes>>

\* Mutant: the grace window is never used.
handleFinalizeOKNow(c) ==
    /\ loop = "reading" /\ c \in calls.open /\ ~fin.committed
    /\ Answered(c)
    /\ fin' = [fin EXCEPT !.attempts = @ + 1, !.committed = TRUE]
    /\ OnCommit(res.resultSeen)
    /\ UNCHANGED <<agentVars, res, grace, loop, eof, bailed, runnerVars>>

\* handleFinalizeOK: Committed is set before anything is written.  With a grace
\* window the commit waits for the result event; a result that was already read
\* fires it and ends Run.
handleFinalizeOK(c) ==
    /\ loop = "reading" /\ c \in calls.open /\ ~fin.committed
    /\ Answered(c)
    /\ LET n  == fin.attempts + 1
           ok == [fin EXCEPT !.attempts = n, !.committed = TRUE]
       IN  \/ /\ Grace /\ ~res.resultSeen
              /\ fin' = [ok EXCEPT !.pending = TRUE]
              /\ grace' = "armed"
              /\ UNCHANGED <<loop, outcomes>>
           \/ /\ Grace => res.resultSeen
              /\ fin' = ok
              /\ OnCommit(res.resultSeen)
              /\ loop' = IF Grace THEN "returned" ELSE loop
              /\ UNCHANGED grace
    /\ UNCHANGED <<agentVars, res, eof, bailed, runnerVars>>

\* OnResult; Run returns without reading on when a commit was waiting for it.
OnResult(isError, budget) ==
    /\ loop = "reading" /\ ~res.resultSeen
    /\ res' = [res EXCEPT !.resultSeen = TRUE, !.isError = isError, !.budget = budget]
    /\ firePending(TRUE)
    /\ loop' = IF fin.pending THEN "returned" ELSE loop
    /\ UNCHANGED <<agentVars, calls, grace, eof, bailed, runnerVars>>

\* A line that does not parse, or one the scanner cannot hold.
StreamError(parse) ==
    /\ loop = "reading"
    /\ res' = [res EXCEPT !.parseError = @ \/ parse]
    /\ IF parse THEN OnBail ELSE NoBail
    /\ firePending(res.resultSeen)
    /\ loop' = "failed"
    /\ UNCHANGED <<killed, deadline, ctxDone, holder, calls, grace, eof, runnerVars>>

\* Stdout is at its end once nobody has it open.
StreamEnds ==
    /\ loop = "reading" /\ child = "exited" /\ "stdout" \notin holder.fds
    /\ firePending(res.resultSeen)
    /\ loop' = "returned" /\ eof' = TRUE
    /\ UNCHANGED <<agentVars, calls, res, grace, bailed, runnerVars>>

GraceElapses ==
    /\ loop = "reading" /\ grace = "armed"
    /\ grace' = "elapsed"
    /\ firePending(res.resultSeen)
    /\ loop' = "returned"
    /\ UNCHANGED <<agentVars, calls, res, eof, bailed, runnerVars>>

\* Run sees execCtx done.
StreamDeadline ==
    /\ loop = "reading" /\ deadline
    /\ firePending(res.resultSeen)
    /\ loop' = "failed"
    /\ UNCHANGED <<agentVars, calls, res, grace, eof, bailed, runnerVars>>

-------------------------------------------------------------------------------
(* runClaudeSession *)

\* awaitPipelineDrain: Terminate(false), Terminate(true) after the grace.
AwaitShutdown ==
    /\ runner = "await" /\ ctxDone
    /\ runner' = "terminating"
    /\ shutdown' = TRUE
    /\ child' = Signalled
    /\ UNCHANGED <<killed, deadline, ctxDone, holder, streamVars, outcomes>>

\* SIGKILL to the group: a descendant that left it lives on.
Escalate ==
    /\ runner = "terminating"
    /\ runner' = "killing"
    /\ killed' = (killed \/ child # "exited")
    /\ child' = "exited"
    /\ holder' = IF holder.away THEN holder ELSE Released
    /\ UNCHANGED <<deadline, ctxDone, streamVars, shutdown, outcomes>>

PipelineDone ==
    /\ runner \in {"await", "terminating", "killing"}
    /\ loop # "reading"
    /\ runner' = "reap"
    /\ UNCHANGED <<agentVars, streamVars, shutdown, outcomes>>

\* <-stderrDone, which neither the deadline nor a shutdown cuts short; then
\* ExitDetail: cmd.Wait.
Reap ==
    /\ runner = "reap" /\ child = "exited" /\ "stderr" \notin holder.fds
    /\ runner' = "judge"
    /\ UNCHANGED <<agentVars, streamVars, shutdown, outcomes>>

\* overlayRunnerWaitDetail.
Signaled == killed /\ ~shutdown /\ ~deadline /\ ~bailed

\* Mutant: the status is taken for the exit reason.
AdjudicateStatus(helloTxtOK) == IF helloTxtOK /\ fin.committed THEN "succeeded" ELSE "failed"

\* The first row of the precedence table that applies.
Adjudicate(helloTxtOK) ==
    IF res.mcpBailed                     THEN "mcp_failed"
    ELSE IF res.parseError               THEN "parse_error"
    ELSE IF shutdown                     THEN "supervisor_shutdown"
    ELSE IF deadline                     THEN "timeout"
    ELSE IF fin.capExhausted /\ res.resultSeen /\ res.budget THEN "budget_exceeded"
    ELSE IF fin.capExhausted             THEN "finalize_invalid"
    ELSE IF Signaled                     THEN "signaled"
    ELSE IF ~res.resultSeen              THEN "no_result"
    ELSE IF res.budget                   THEN "budget_exceeded"
    ELSE IF res.isError                  THEN "claude_error"
    ELSE IF Expected /\ ~fin.committed   THEN "finalize_never_called"
    ELSE IF ~helloTxtOK                  THEN "acceptance_failed"
    ELSE                                      "completed"

\* Mutant: the finalize short-circuit is missing.
JudgeAlways ==
    /\ runner = "judge"
    /\ runner' = "done"
    /\ \E hello \in BOOLEAN :
          outcomes' = Append(outcomes, [kind |-> Adjudicate(hello), cost |-> res.resultSeen])
    /\ UNCHANGED <<agentVars, streamVars, shutdown>>

\* A committed finalize short-circuits; otherwise the terminal write.  The hello
\* file is only looked at outside the finalize workflow.
Judge ==
    /\ runner = "judge"
    /\ runner' = "done"
    /\ \/ fin.committed /\ UNCHANGED outcomes
       \/ /\ ~fin.committed
          /\ \E hello \in IF Expected THEN {TRUE} ELSE BOOLEAN :
                outcomes' = Append(outcomes, [kind |-> Adjudicate(hello),
                                              cost |-> res.resultSeen])
    /\ UNCHANGED <<agentVars, streamVars, shutdown>>

-------------------------------------------------------------------------------
Pipeline ==
    \/ OnInitUnhealthy
    \/ \E c \in Calls : \/ recordFinalizeToolUse(c) \/ ResultPostCommit(c)
                        \/ AttemptFailed(c)         \/ handleFinalizeOK(c)
    \/ \E isError, budget \in BOOLEAN : OnResult(isError, budget)
    \/ \E parse \in BOOLEAN : StreamError(parse)

Returns == StreamEnds \/ GraceElapses \/ StreamDeadline

Runner == AwaitShutdown \/ Escalate \/ PipelineDone \/ Reap \/ Judge

Environment ==
    \/ ChildExits \/ DescendantStarts \/ DescendantEnds
    \/ DeadlinePasses \/ DeadlineKill \/ CtxCancelled

Next == Pipeline \/ Returns \/ Runner \/ Environment

Spec == Init /\ [][Next]_vars

\* The goroutines run and the deadline comes; the agent need not do anything, and
\* need not heed a SIGTERM, nor need its descendants ever end.
FairSpec ==
    /\ Spec
    /\ WF_vars(Returns)
    /\ WF_vars(Runner)
    /\ WF_vars(DeadlinePasses)
    /\ WF_vars(DeadlineKill)

-------------------------------------------------------------------------------
\* However the agent, the deadline, a shutdown and the result-grace timer
\* interleave, a session settles its outcome at most once, and by its end exactly
\* once: a pending commit is neither dropped nor followed by a second write.  (A
\* commit hook that gives up is the outcome "no_write".)
OneOutcome ==
    /\ Len(outcomes) <= 1
    /\ runner = "done" => Len(outcomes) = 1

\* Once the finalize call was accepted the run is never judged by Adjudicate,
\* whatever happens to the process afterwards; and without an accepted call it
\* never counts as finalized.
AcceptedCallDecides ==
    \A i \in DOMAIN outcomes : fin.committed <=> outcomes[i].kind \in FinalizeKinds

\* Three rejected calls, and not one more, before the process group is signalled.
RetryCap ==
    ~fin.committed => (fin.attempts >= FinalizeCap <=> fin.capExhausted)

\* With a grace window a finalize is written without its cost only if the window
\* elapsed or the stream was cut short: the blind spot the window closes.
CostKnown ==
    \A i \in DOMAIN outcomes :
        Grace /\ outcomes[i].kind \in FinalizeKinds /\ ~outcomes[i].cost =>
            grace = "elapsed" \/ eof \/ loop = "failed"

\* Even an agent that says nothing and ignores SIGTERM does not hold the dispatch
\* loop for ever: a session ends unless a descendant keeps stderr open for ever.
SessionEnds ==
    \/ <>(runner = "done")
    \/ <>[](runner = "reap" /\ child = "exited" /\ "stderr" \in holder.fds)

\* specs/005-m2-2-1-finalize-ticket/spec.md: three invalid payloads end in
\* finalize_invalid and no transition.
NoCommitAfterCap ==
    \A i \in DOMAIN outcomes : fin.capExhausted => outcomes[i].kind # "finalized"
===============================================================================
