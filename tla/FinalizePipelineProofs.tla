------------------------ MODULE FinalizePipelineProofs ------------------------
(***************************************************************************)
(* A session writes exactly one outcome, whatever the number of finalize   *)
(* calls, with or without a grace window, inside or outside the finalize   *)
(* workflow.                                                               *)
(***************************************************************************)
EXTENDS FinalizePipeline, TLAPS

\* The first element of an empty sequence of outcomes.
LEMMA AppendToEmpty ==
    ASSUME NEW S, NEW s \in Seq(S), NEW o \in S, Len(s) = 0
    PROVE  /\ Append(s, o) \in Seq(S)
           /\ Len(Append(s, o)) = 1
           /\ DOMAIN Append(s, o) = {1}
           /\ Append(s, o)[1] = o
  OBVIOUS

\* Adjudicate always names an exit reason.
LEMMA AdjudicateType ==
    ASSUME NEW hello PROVE Adjudicate(hello) \in ExitReasons
  BY DEF Adjudicate, ExitReasons

\* An exit reason is not the outcome of a finalize write.
LEMMA KindsDisjoint == ExitReasons \cap FinalizeKinds = {}
  BY DEF ExitReasons, FinalizeKinds

-------------------------------------------------------------------------------
\* Where a session stands between the accepted call and its one write.
PendingInv ==
    /\ fin.pending => fin.committed /\ Len(outcomes) = 0 /\ loop = "reading"
    /\ fin.committed /\ ~fin.pending => Len(outcomes) = 1
    /\ ~fin.committed => Len(outcomes) = IF runner = "done" THEN 1 ELSE 0
    /\ runner \in {"reap", "judge", "done"} => loop # "reading"

SessionInv == TypeOK /\ PendingInv /\ AcceptedCallDecides /\ RetryCap /\ CostKnown

\* The whole conjunction holds initially.
LEMMA SessionInvInit == Init => SessionInv
<1> SUFFICES ASSUME Init PROVE SessionInv
  OBVIOUS
<1>1. Len(outcomes) = 0 /\ DOMAIN outcomes = {} /\ outcomes \in Seq(Outcome)
  BY DEF Init
<1>2. TypeOK
  BY <1>1 DEF Init, TypeOK, FinalizeState, Result, Released
<1>3. PendingInv
  BY <1>1 DEF Init, PendingInv
<1>4. AcceptedCallDecides /\ CostKnown
  BY <1>1 DEF AcceptedCallDecides, CostKnown
<1>5. RetryCap
  BY DEF Init, RetryCap, FinalizeCap
<1> QED
  BY <1>2, <1>3, <1>4, <1>5 DEF SessionInv

\* The step from "no outcome" to "one outcome" that a finalize write makes.
LEMMA CommitStep ==
    ASSUME outcomes \in Seq(Outcome), Len(outcomes) = 0, NEW cost \in BOOLEAN, OnCommit(cost)
    PROVE  /\ outcomes' \in Seq(Outcome)
           /\ Len(outcomes') = 1 /\ DOMAIN outcomes' = {1}
           /\ outcomes'[1].kind \in FinalizeKinds /\ outcomes'[1].cost = cost
<1>1. PICK kind \in FinalizeKinds : outcomes' = Append(outcomes, [kind |-> kind, cost |-> cost])
  BY DEF OnCommit
<1>2. [kind |-> kind, cost |-> cost] \in Outcome
  BY DEF Outcome
<1> QED
  BY <1>1, <1>2, AppendToEmpty

\* What firePending leaves behind on every return path of Run.
LEMMA FireStep ==
    ASSUME SessionInv, NEW cost \in BOOLEAN, firePending(cost)
    PROVE  /\ fin' \in FinalizeState /\ outcomes' \in Seq(Outcome)
           /\ ~fin'.pending
           /\ fin'.committed = fin.committed
           /\ fin'.attempts = fin.attempts /\ fin'.capExhausted = fin.capExhausted
           /\ fin.committed => Len(outcomes') = 1
           /\ ~fin.pending => outcomes' = outcomes
           /\ fin.pending => /\ DOMAIN outcomes' = {1}
                             /\ outcomes'[1].kind \in FinalizeKinds
                             /\ outcomes'[1].cost = cost
<1>1. fin \in FinalizeState /\ outcomes \in Seq(Outcome)
  BY DEF SessionInv, TypeOK
<1>2. CASE fin.pending
  <2>1. fin' = [fin EXCEPT !.pending = FALSE] /\ OnCommit(cost)
    BY <1>2 DEF firePending
  <2>2. Len(outcomes) = 0 /\ fin.committed
    BY <1>2 DEF SessionInv, PendingInv
  <2>3. /\ fin' \in FinalizeState /\ ~fin'.pending /\ fin'.committed = fin.committed
        /\ fin'.attempts = fin.attempts /\ fin'.capExhausted = fin.capExhausted
    BY <1>1, <2>1 DEF FinalizeState
  <2> QED
    BY <1>1, <1>2, <2>1, <2>2, <2>3, CommitStep
<1>3. CASE ~fin.pending
  BY <1>1, <1>3 DEF firePending, SessionInv, PendingInv
<1> QED
  BY <1>2, <1>3

\* A step that writes no outcome and leaves the finalize state, the loop and the
\* timer alone keeps the invariant, provided the runner moves on only once Run has
\* returned.
LEMMA QuietStep ==
    ASSUME SessionInv, TypeOK', UNCHANGED <<fin, outcomes, loop, grace, eof>>,
           (runner' = "done") = (runner = "done"),
           runner' \in {"reap", "judge", "done"} => loop # "reading"
    PROVE  SessionInv'
<1>1. PendingInv'
  BY DEF SessionInv, PendingInv
<1>2. AcceptedCallDecides' /\ CostKnown' /\ RetryCap'
  BY DEF SessionInv, AcceptedCallDecides, CostKnown, RetryCap
<1> QED
  BY <1>1, <1>2 DEF SessionInv

\* A return path of Run: firePending, after which the loop does not read again.
\* A commit fired without its cost leaves the reason behind.
LEMMA ReturnStep ==
    ASSUME SessionInv, TypeOK', NEW cost \in BOOLEAN, firePending(cost),
           loop = "reading", loop' \in {"reading", "returned", "failed"}, UNCHANGED runner,
           grace = "elapsed" => grace' = "elapsed", eof => eof',
           fin.pending => (cost \/ grace' = "elapsed" \/ eof' \/ loop' = "failed")
    PROVE  SessionInv'
<1> USE FireStep
<1>1. runner \notin {"reap", "judge", "done"}
  BY DEF SessionInv, PendingInv
<1>2. PendingInv'
  BY <1>1 DEF SessionInv, PendingInv
<1>3. AcceptedCallDecides' /\ CostKnown'
  <2>1. CASE fin.pending
    BY <2>1 DEF SessionInv, PendingInv, AcceptedCallDecides, CostKnown
  <2>2. CASE ~fin.pending
    BY <2>2 DEF SessionInv, AcceptedCallDecides, CostKnown
  <2> QED
    BY <2>1, <2>2
<1>4. RetryCap'
  BY DEF SessionInv, RetryCap
<1> QED
  BY <1>2, <1>3, <1>4 DEF SessionInv

\* What a rejected call leaves behind.
LEMMA RejectStep ==
    ASSUME SessionInv, NEW c \in Calls, AttemptFailed(c)
    PROVE  /\ fin' \in FinalizeState
           /\ UNCHANGED <<fin.committed, fin.pending>>
           /\ fin'.attempts = fin.attempts + 1
           /\ fin'.capExhausted = (fin.capExhausted \/ fin.attempts + 1 >= FinalizeCap)
<1>1. fin \in FinalizeState /\ FinalizeCap \in Nat
  BY DEF SessionInv, TypeOK, FinalizeCap
<1> DEFINE n == fin.attempts + 1
<1>2. n \in Nat
  BY <1>1 DEF FinalizeState
<1>3. fin' = [fin EXCEPT !.attempts = n, !.capExhausted = fin.capExhausted \/ n >= FinalizeCap]
  BY DEF AttemptFailed
<1> HIDE DEF n
<1>4. /\ fin' \in FinalizeState
      /\ UNCHANGED <<fin.committed, fin.pending>>
      /\ fin'.attempts = n
      /\ fin'.capExhausted = (fin.capExhausted \/ n >= FinalizeCap)
  BY <1>1, <1>2, <1>3 DEF FinalizeState
<1> QED
  BY <1>4 DEF n

\* What the accepted call leaves behind: either the commit is pending, or it was
\* written with the cost the result event gave.
LEMMA AcceptStep ==
    ASSUME SessionInv, NEW c \in Calls, handleFinalizeOK(c)
    PROVE  /\ fin' \in FinalizeState /\ fin'.committed
           /\ \/ /\ fin'.pending /\ UNCHANGED <<loop, outcomes>>
                 /\ grace' \in {"off", "armed", "elapsed"}
              \/ /\ ~fin'.pending /\ OnCommit(res.resultSeen)
                 /\ Grace => res.resultSeen
                 /\ UNCHANGED grace
                 /\ loop' \in {"reading", "returned"}
<1>1. fin \in FinalizeState /\ ~fin.pending /\ loop = "reading"
  BY DEF SessionInv, TypeOK, PendingInv, handleFinalizeOK
<1> DEFINE n  == fin.attempts + 1
           ok == [fin EXCEPT !.attempts = n, !.committed = TRUE]
<1>2. n \in Nat
  BY <1>1 DEF FinalizeState
<1>3. ok \in FinalizeState /\ ok.committed /\ ~ok.pending
  <2> HIDE DEF n
  <2> QED
    BY <1>1, <1>2 DEF FinalizeState
<1>4. \/ /\ fin' = [ok EXCEPT !.pending = TRUE] /\ grace' = "armed"
         /\ UNCHANGED <<loop, outcomes>>
      \/ /\ Grace => res.resultSeen
         /\ fin' = ok /\ OnCommit(res.resultSeen)
         /\ loop' = (IF Grace THEN "returned" ELSE loop)
         /\ UNCHANGED grace
  BY DEF handleFinalizeOK
<1> HIDE DEF ok
<1>5. CASE /\ fin' = [ok EXCEPT !.pending = TRUE] /\ grace' = "armed"
           /\ UNCHANGED <<loop, outcomes>>
  <2>1. fin' \in FinalizeState /\ fin'.committed /\ fin'.pending
    BY <1>3, <1>5 DEF FinalizeState
  <2> QED
    BY <1>5, <2>1
<1>6. CASE /\ Grace => res.resultSeen
           /\ fin' = ok /\ OnCommit(res.resultSeen)
           /\ loop' = (IF Grace THEN "returned" ELSE loop)
           /\ UNCHANGED grace
  BY <1>1, <1>3, <1>6
<1> QED
  BY <1>4, <1>5, <1>6

\* Every step keeps the invariant.
LEMMA SessionInvStep == SessionInv /\ [Next]_vars => SessionInv'
<1> SUFFICES ASSUME SessionInv, [Next]_vars PROVE SessionInv'
  OBVIOUS
<1>0. TypeOK /\ PendingInv
  BY DEF SessionInv
<1> USE <1>0
<1>1. CASE ChildExits
  <2>1. TypeOK'
    BY <1>1 DEF TypeOK, ChildExits, agentVars, streamVars, runnerVars
  <2> QED
    BY <1>1, <2>1, QuietStep DEF PendingInv, ChildExits, agentVars, streamVars, runnerVars
<1>2. CASE DeadlinePasses
  <2>1. TypeOK'
    BY <1>2 DEF TypeOK, DeadlinePasses, Signalled, agentVars, streamVars, runnerVars
  <2> QED
    BY <1>2, <2>1, QuietStep DEF PendingInv, DeadlinePasses, agentVars, streamVars, runnerVars
<1>3. CASE DeadlineKill
  <2>1. TypeOK'
    BY <1>3 DEF TypeOK, DeadlineKill, agentVars, streamVars, runnerVars
  <2> QED
    BY <1>3, <2>1, QuietStep DEF PendingInv, DeadlineKill, agentVars, streamVars, runnerVars
<1>3a. CASE DescendantStarts \/ DescendantEnds
  <2>1. holder' \in [fds : SUBSET Pipes, away : BOOLEAN]
    <3>1. {} \in SUBSET Pipes /\ (SUBSET Pipes) \ {{}} \subseteq SUBSET Pipes
      OBVIOUS
    <3>2. CASE DescendantStarts
      BY <3>1, <3>2 DEF DescendantStarts
    <3>3. CASE DescendantEnds
      BY <3>1, <3>3 DEF DescendantEnds, Released
    <3> QED
      BY <1>3a, <3>2, <3>3
  <2>2. TypeOK'
    BY <1>3a, <2>1 DEF TypeOK, DescendantStarts, DescendantEnds, streamVars, runnerVars
  <2> QED
    BY <1>3a, <2>2, QuietStep DEF PendingInv, DescendantStarts, DescendantEnds, streamVars,
                                  runnerVars
<1>4. CASE CtxCancelled
  <2>1. TypeOK'
    BY <1>4 DEF TypeOK, CtxCancelled, agentVars, streamVars, runnerVars
  <2> QED
    BY <1>4, <2>1, QuietStep DEF PendingInv, CtxCancelled, agentVars, streamVars, runnerVars
<1>5. CASE AwaitShutdown
  <2>1. TypeOK'
    BY <1>5 DEF TypeOK, AwaitShutdown, Signalled, agentVars, streamVars, runnerVars
  <2> QED
    BY <1>5, <2>1, QuietStep DEF PendingInv, AwaitShutdown, agentVars, streamVars, runnerVars
<1>6. CASE Escalate
  <2>1. TypeOK'
    BY <1>6 DEF TypeOK, Escalate, Released, agentVars, streamVars, runnerVars
  <2> QED
    BY <1>6, <2>1, QuietStep DEF PendingInv, Escalate, agentVars, streamVars, runnerVars
<1>7. CASE PipelineDone
  <2>1. TypeOK'
    BY <1>7 DEF TypeOK, PipelineDone, agentVars, streamVars, runnerVars
  <2> QED
    BY <1>7, <2>1, QuietStep DEF PendingInv, PipelineDone, agentVars, streamVars, runnerVars
<1>8. CASE Reap
  <2>1. TypeOK'
    BY <1>8 DEF TypeOK, Reap, agentVars, streamVars, runnerVars
  <2> QED
    BY <1>8, <2>1, QuietStep DEF PendingInv, Reap, agentVars, streamVars, runnerVars
<1>9. CASE OnInitUnhealthy
  <2>1. res' \in Result
    BY <1>9 DEF OnInitUnhealthy, TypeOK, Result
  <2>2. TypeOK'
    BY <1>9, <2>1 DEF TypeOK, OnInitUnhealthy, OnBail, Signalled, agentVars, streamVars, runnerVars
  <2> QED
    BY <1>9, <2>2, QuietStep DEF PendingInv, OnInitUnhealthy, agentVars, streamVars, runnerVars
<1>10. CASE \E c \in Calls : ResultPostCommit(c)
  <2>1. TypeOK'
    BY <1>10 DEF TypeOK, ResultPostCommit, Answered, agentVars, streamVars, runnerVars
  <2> QED
    BY <1>10, <2>1, QuietStep DEF PendingInv, ResultPostCommit, agentVars, streamVars, runnerVars
<1>11. CASE \E c \in Calls : recordFinalizeToolUse(c)
  <2>1. /\ fin' \in FinalizeState
        /\ UNCHANGED <<fin.committed, fin.pending, fin.attempts, fin.capExhausted>>
    BY <1>11 DEF recordFinalizeToolUse, TypeOK, FinalizeState
  <2>2. TypeOK'
    BY <1>11, <2>1 DEF TypeOK, recordFinalizeToolUse, agentVars, streamVars, runnerVars
  <2>3. PendingInv'
    BY <1>11, <2>1 DEF PendingInv, recordFinalizeToolUse, agentVars, streamVars, runnerVars
  <2>4. AcceptedCallDecides' /\ CostKnown' /\ RetryCap'
    BY <1>11, <2>1 DEF SessionInv, AcceptedCallDecides, CostKnown, RetryCap,
                       recordFinalizeToolUse, agentVars, streamVars, runnerVars
  <2> QED
    BY <2>2, <2>3, <2>4 DEF SessionInv
<1>12. CASE \E c \in Calls : AttemptFailed(c)
  <2> PICK c \in Calls : AttemptFailed(c)
    BY <1>12
  <2>0. UNCHANGED <<res, grace, loop, eof, runner, outcomes>> /\ ~fin.committed
    BY DEF AttemptFailed, agentVars, streamVars, runnerVars
  <2>1. TypeOK'
    <3>1. child' \in {"running", "signalled", "exited"} /\ bailed' \in BOOLEAN
      BY DEF AttemptFailed, OnBail, NoBail, Signalled, TypeOK
    <3>2. calls' \in [made : SUBSET Calls, open : SUBSET Calls]
      BY DEF AttemptFailed, Answered, TypeOK
    <3>3. UNCHANGED <<killed, deadline, ctxDone, holder, shutdown>>
      BY DEF AttemptFailed, agentVars, streamVars, runnerVars
    <3> QED
      BY <2>0, <3>1, <3>2, <3>3, RejectStep DEF TypeOK
  <2>2. PendingInv'
    BY <2>0, RejectStep DEF PendingInv
  <2>3. AcceptedCallDecides' /\ CostKnown'
    BY <2>0, RejectStep DEF SessionInv, AcceptedCallDecides, CostKnown
  <2>4. RetryCap'
    <3>1. fin.attempts \in Nat /\ FinalizeCap \in Nat /\ fin.capExhausted \in BOOLEAN
      BY DEF TypeOK, FinalizeState, FinalizeCap
    <3>2. fin.attempts >= FinalizeCap <=> fin.capExhausted
      BY <2>0 DEF SessionInv, RetryCap
    <3>3. fin.attempts >= FinalizeCap => fin.attempts + 1 >= FinalizeCap
      BY <3>1
    <3>4. fin'.attempts >= FinalizeCap <=> fin'.capExhausted
      BY <3>2, <3>3, RejectStep, Zenon
    <3> QED
      BY <3>4 DEF RetryCap
  <2> QED
    BY <2>1, <2>2, <2>3, <2>4 DEF SessionInv
<1>13. CASE \E c \in Calls : handleFinalizeOK(c)
  <2> PICK c \in Calls : handleFinalizeOK(c)
    BY <1>13
  <2>0. UNCHANGED <<child, killed, deadline, ctxDone, holder, res, eof, bailed, runner, shutdown>>
    BY DEF handleFinalizeOK, agentVars, streamVars, runnerVars
  <2>1. /\ loop = "reading" /\ ~fin.committed /\ ~fin.pending
        /\ Len(outcomes) = 0 /\ outcomes \in Seq(Outcome) /\ res.resultSeen \in BOOLEAN
        /\ runner \notin {"reap", "judge", "done"}
    BY DEF handleFinalizeOK, TypeOK, PendingInv, Result
  <2>2. DOMAIN outcomes = {}
    BY <2>1
  <2>3. calls' \in [made : SUBSET Calls, open : SUBSET Calls]
    BY DEF handleFinalizeOK, Answered, TypeOK
  <2>4. CASE fin'.pending
    <3>1. /\ fin' \in FinalizeState /\ fin'.committed /\ UNCHANGED <<loop, outcomes>>
          /\ grace' \in {"off", "armed", "elapsed"}
      BY <2>4, AcceptStep
    <3>2. TypeOK'
      BY <2>0, <2>3, <3>1 DEF TypeOK
    <3>3. PendingInv'
      BY <2>0, <2>1, <2>4, <3>1 DEF PendingInv
    <3>4. AcceptedCallDecides' /\ CostKnown' /\ RetryCap'
      BY <2>2, <3>1 DEF AcceptedCallDecides, CostKnown, RetryCap
    <3> QED
      BY <3>2, <3>3, <3>4 DEF SessionInv
  <2>5. CASE ~fin'.pending
    <3>1. /\ fin' \in FinalizeState /\ fin'.committed /\ OnCommit(res.resultSeen)
          /\ Grace => res.resultSeen
          /\ UNCHANGED grace /\ loop' \in {"reading", "returned"}
      BY <2>5, AcceptStep
    <3>2. /\ outcomes' \in Seq(Outcome)
          /\ Len(outcomes') = 1 /\ DOMAIN outcomes' = {1}
          /\ outcomes'[1].kind \in FinalizeKinds /\ outcomes'[1].cost = res.resultSeen
      BY <2>1, <3>1, CommitStep
    <3>3. TypeOK'
      BY <2>0, <2>3, <3>1, <3>2 DEF TypeOK
    <3>4. PendingInv'
      BY <2>0, <2>1, <2>5, <3>1, <3>2 DEF PendingInv
    <3>5. AcceptedCallDecides' /\ CostKnown' /\ RetryCap'
      BY <3>1, <3>2 DEF AcceptedCallDecides, CostKnown, RetryCap
    <3> QED
      BY <3>3, <3>4, <3>5 DEF SessionInv
  <2> QED
    BY <2>4, <2>5
<1>14. CASE \E isError, budget \in BOOLEAN : OnResult(isError, budget)
  <2> PICK isError \in BOOLEAN, budget \in BOOLEAN : OnResult(isError, budget)
    BY <1>14
  <2>1. firePending(TRUE)
    BY DEF OnResult
  <2>2. res' \in Result /\ fin' \in FinalizeState /\ outcomes' \in Seq(Outcome)
    <3>1. res' \in Result
      BY DEF OnResult, TypeOK, Result
    <3>2. fin' \in FinalizeState /\ outcomes' \in Seq(Outcome)
      BY <2>1, FireStep
    <3> QED
      BY <3>1, <3>2
  <2>3. TypeOK'
    BY <2>2 DEF OnResult, TypeOK, agentVars, streamVars, runnerVars
  <2> QED
    BY <2>1, <2>3, ReturnStep DEF OnResult, agentVars, streamVars, runnerVars
<1>15. CASE \E parse \in BOOLEAN : StreamError(parse)
  <2> PICK parse \in BOOLEAN : StreamError(parse)
    BY <1>15
  <2>1. firePending(res.resultSeen) /\ res.resultSeen \in BOOLEAN
    BY DEF StreamError, TypeOK, Result
  <2>2. res' \in Result
    BY DEF StreamError, TypeOK, Result
  <2>3. TypeOK'
    <3>1. fin' \in FinalizeState /\ outcomes' \in Seq(Outcome)
      BY <2>1, FireStep
    <3>2. child' \in {"running", "signalled", "exited"} /\ bailed' \in BOOLEAN
      BY DEF StreamError, OnBail, NoBail, Signalled, TypeOK
    <3>3. /\ UNCHANGED <<killed, deadline, ctxDone, holder, calls, grace, eof, shutdown, runner>>
          /\ loop' = "failed"
      BY DEF StreamError, runnerVars
    <3> QED
      BY <2>2, <3>1, <3>2, <3>3 DEF TypeOK
  <2> QED
    BY <2>1, <2>3, ReturnStep DEF StreamError, agentVars, streamVars, runnerVars
<1>16. CASE StreamEnds
  <2>1. firePending(res.resultSeen) /\ res.resultSeen \in BOOLEAN
    BY <1>16 DEF StreamEnds, TypeOK, Result
  <2>2. TypeOK'
    BY <1>16, <2>1, FireStep DEF StreamEnds, TypeOK, agentVars, streamVars, runnerVars
  <2> QED
    BY <1>16, <2>1, <2>2, ReturnStep DEF StreamEnds, agentVars, streamVars, runnerVars
<1>17. CASE GraceElapses
  <2>1. firePending(res.resultSeen) /\ res.resultSeen \in BOOLEAN
    BY <1>17 DEF GraceElapses, TypeOK, Result
  <2>2. TypeOK'
    BY <1>17, <2>1, FireStep DEF GraceElapses, TypeOK, agentVars, streamVars, runnerVars
  <2> QED
    BY <1>17, <2>1, <2>2, ReturnStep DEF GraceElapses, agentVars, streamVars, runnerVars
<1>18. CASE StreamDeadline
  <2>1. firePending(res.resultSeen) /\ res.resultSeen \in BOOLEAN
    BY <1>18 DEF StreamDeadline, TypeOK, Result
  <2>2. TypeOK'
    BY <1>18, <2>1, FireStep DEF StreamDeadline, TypeOK, agentVars, streamVars, runnerVars
  <2> QED
    BY <1>18, <2>1, <2>2, ReturnStep DEF StreamDeadline, agentVars, streamVars, runnerVars
<1>19. CASE Judge
  <2>0. /\ runner = "judge" /\ runner' = "done"
        /\ UNCHANGED <<child, killed, deadline, ctxDone, holder, calls, fin, res, grace, loop,
                       eof, bailed, shutdown>>
    BY <1>19 DEF Judge, agentVars, streamVars, runnerVars
  <2>1. loop # "reading" /\ ~fin.pending
    BY <2>0 DEF PendingInv
  <2>2. CASE fin.committed
    <3>1. UNCHANGED outcomes
      BY <1>19, <2>2 DEF Judge
    <3>2. TypeOK' /\ PendingInv'
      BY <2>0, <2>1, <2>2, <3>1 DEF TypeOK, PendingInv
    <3> QED
      BY <2>0, <3>1, <3>2 DEF SessionInv, AcceptedCallDecides, CostKnown, RetryCap
  <2>3. CASE ~fin.committed
    <3>1. Len(outcomes) = 0 /\ outcomes \in Seq(Outcome)
      BY <2>0, <2>3 DEF PendingInv, TypeOK
    <3>2. PICK hello \in BOOLEAN :
             outcomes' = Append(outcomes, [kind |-> Adjudicate(hello),
                                           cost |-> res.resultSeen])
      BY <1>19, <2>3 DEF Judge
    <3>3. Adjudicate(hello) \in ExitReasons
      BY AdjudicateType
    <3>4. [kind |-> Adjudicate(hello), cost |-> res.resultSeen] \in Outcome
      BY <3>3 DEF Outcome, TypeOK, Result
    <3>5. /\ outcomes' \in Seq(Outcome) /\ Len(outcomes') = 1
          /\ DOMAIN outcomes' = {1}
          /\ outcomes'[1].kind \in ExitReasons
      BY <3>1, <3>2, <3>3, <3>4, AppendToEmpty
    <3>6. TypeOK' /\ PendingInv'
      BY <2>0, <2>1, <2>3, <3>5 DEF TypeOK, PendingInv
    <3>7. AcceptedCallDecides' /\ CostKnown'
      BY <2>0, <2>3, <3>5, KindsDisjoint DEF AcceptedCallDecides, CostKnown
    <3> QED
      BY <2>0, <3>6, <3>7 DEF SessionInv, RetryCap
  <2> QED
    BY <2>2, <2>3
<1>20. CASE UNCHANGED vars
  BY <1>20 DEF SessionInv, TypeOK, PendingInv, AcceptedCallDecides, RetryCap, CostKnown,
               vars, agentVars, streamVars, runnerVars
<1> QED
  BY <1>1, <1>2, <1>3, <1>3a, <1>4, <1>5, <1>6, <1>7, <1>8, <1>9, <1>10, <1>11, <1>12, <1>13,
     <1>14, <1>15, <1>16, <1>17, <1>18, <1>19, <1>20
     DEF Next, Pipeline, Returns, Runner, Environment

-------------------------------------------------------------------------------
\* The inductive invariant holds throughout every session: the agent process, the
\* pipeline goroutine and runClaudeSession keep it in whatever order they step.
THEOREM SessionCorrect == Spec => []SessionInv
  BY SessionInvInit, SessionInvStep, PTL DEF Spec

\* The record runClaudeSession and the pipeline share keeps its type, and every
\* exit reason written is one of the vocabulary.
THEOREM SessionTypeCorrect == Spec => []TypeOK
<1>1. SessionInv => TypeOK
  BY DEF SessionInv
<1> QED
  BY <1>1, SessionCorrect, PTL

\* The finalize write of the pipeline goroutine and the terminal write of the
\* runner never both happen, and one of them always has by the end.
THEOREM OneOutcomeHolds == Spec => []OneOutcome
<1>1. SessionInv => OneOutcome
  <2> SUFFICES ASSUME SessionInv PROVE OneOutcome
    OBVIOUS
  <2>1. Len(outcomes) = 0 \/ Len(outcomes) = 1
    <3>1. CASE runner = "done"
      BY <3>1 DEF SessionInv, PendingInv
    <3>2. CASE runner # "done"
      BY <3>2 DEF SessionInv, PendingInv
    <3> QED
      BY <3>1, <3>2
  <2>2. runner = "done" => Len(outcomes) = 1
    BY DEF SessionInv, PendingInv
  <2>3. \A n \in {0, 1} : n <= 1
    OBVIOUS
  <2>4. Len(outcomes) <= 1
    BY <2>1, <2>3, Zenon
  <2> QED
    BY <2>2, <2>4 DEF OneOutcome
<1> QED
  BY <1>1, SessionCorrect, PTL

\* An accepted finalize call is never overruled by Adjudicate, nor is a run that
\* had none accepted counted as finalized.
THEOREM AcceptedCallDecidesHolds == Spec => []AcceptedCallDecides
<1>1. SessionInv => AcceptedCallDecides
  BY DEF SessionInv
<1> QED
  BY <1>1, SessionCorrect, PTL

\* The bail comes with the third rejected call, however many calls the agent makes.
THEOREM RetryCapHolds == Spec => []RetryCap
<1>1. SessionInv => RetryCap
  BY DEF SessionInv
<1> QED
  BY <1>1, SessionCorrect, PTL

\* With a grace window, a finalize without its cost has an elapsed window, an end
\* of stream or a broken stream to show for it.
THEOREM CostKnownHolds == Spec => []CostKnown
<1>1. SessionInv => CostKnown
  BY DEF SessionInv
<1> QED
  BY <1>1, SessionCorrect, PTL

===============================================================================
