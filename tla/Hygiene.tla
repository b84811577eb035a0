------------------------------- MODULE Hygiene -------------------------------
(***************************************************************************)
(* The hygiene checker (internal/hygiene): every ticket_transitions row    *)
(* gets a hygiene_status.  A goroutine per notification and a periodic     *)
(* sweep judge the same rows without a lock between them; the guard of the *)
(* UPDATE decides which of two verdicts stays.                             *)
(***************************************************************************)
EXTENDS Integers, Sequences, FiniteSetsExt

CONSTANTS
    SweepLimit,     \* rows one sweep reads (100 in sweepOnce)
    MaxTransition,  \* bound on transition rows
    MaxAgentless,   \* bound on rows without an agent instance
    MaxHygFault     \* bound on outages, lost connections, failed writes, restarts

ASSUME HygieneAssumption ==
    /\ SweepLimit \in Nat \ {0} /\ MaxTransition \in Nat
    /\ MaxAgentless \in Nat /\ MaxHygFault \in Nat

VARIABLES
    moves,      \* ticket_transitions in the order of "at"
    aged,       \* how many of them are older than the delay
    handling,   \* per row, the notification goroutine's state
    sweep,      \* the rows left of the sweep's batch, the verdict it is about to write
    linked,     \* the LISTEN connection is up
    palaceUp,   \* the palace container answers
    hygFaults   \* faults so far

hygVars == <<moves, aged, handling, sweep, linked, palaceUp, hygFaults>>

Unjudged == {"null", "pending"}
Statuses == Unjudged \union
    {"clean", "missing_diary", "thin_diary", "missing_kg_facts", "finalize_failed",
     "finalize_partial", "stuck", "operator_initiated"}

\* Who wrote the row: WriteFinalize, the terminal write of a run without
\* finalize, a run that predates the finalize exit reasons, transition_ticket
\* of the CEO chat, or the operator's drag.  Only WriteFinalize and the drag
\* set the status themselves, in the same transaction.
Writers == {"finalize", "run", "legacy", "ceo", "operator"}

BornWith(w) == CASE w = "finalize" -> "clean" [] w = "operator" -> "operator_initiated" [] OTHER -> "null"
HasAgent(w) == w \in {"finalize", "run", "legacy"}
ExitReason(w) == IF w = "legacy" THEN "other" ELSE "completed"

Move == [writer: Writers, status: Statuses, diary: {"none", "thin", "full"}, facts: BOOLEAN]
Idle == "idle"
Waits == "waits"

HygTypeOK ==
    /\ Len(moves) <= MaxTransition /\ \A i \in DOMAIN moves : moves[i] \in Move
    /\ aged \in 0..Len(moves)
    /\ handling \in [1..MaxTransition -> {Idle, Waits} \union Statuses]
    /\ sweep.batch \subseteq DOMAIN moves /\ Cardinality(sweep.batch) <= SweepLimit
    /\ sweep.verdict \in {Idle} \union Statuses
    /\ linked \in BOOLEAN /\ palaceUp \in BOOLEAN
    /\ hygFaults \in 0..MaxHygFault

NoSweep == [batch |-> {}, verdict |-> Idle]

HygInit ==
    /\ moves = <<>> /\ aged = 0
    /\ handling = [i \in 1..MaxTransition |-> Idle]
    /\ sweep = NoSweep
    /\ linked = TRUE /\ palaceUp = TRUE
    /\ hygFaults = 0

HygFault == hygFaults < MaxHygFault /\ hygFaults' = hygFaults + 1

-----------------------------------------------------------------------------
(* Verdicts *)

\* EvaluateFinalizeOutcome for an instance that has a transition.
EvaluateFinalizeOutcome(reason) ==
    CASE reason = "completed" -> "clean"
      [] reason = "finalize_invalid" -> "finalize_failed"
      [] reason \in {"finalize_palace_write_failed", "finalize_commit_failed", "finalize_write_timeout"}
           -> "finalize_partial"
      [] OTHER -> "pending"

IsFinalizeExitReason(reason) == reason # "other"

\* Evaluate on what the palace returned; an unanswered facts query passes.
Evaluate(m, kgErr) ==
    IF m.diary = "none" THEN "missing_diary"
    ELSE IF m.diary = "thin" THEN "thin_diary"
    ELSE IF ~m.facts /\ ~kgErr THEN "missing_kg_facts"
    ELSE "clean"

\* The verdicts evaluateAndWrite may reach on a row now.
HygVerdicts(m) ==
    IF IsFinalizeExitReason(ExitReason(m.writer))
    THEN {EvaluateFinalizeOutcome(ExitReason(m.writer))}
    ELSE IF palaceUp THEN {Evaluate(m, kgErr) : kgErr \in BOOLEAN} ELSE {"pending"}

\* Mutant: the UPDATE loses its WHERE clause.
UpdateTransitionUnguarded(i, s) == moves' = [moves EXCEPT ![i].status = s]

\* UpdateTicketTransitionHygiene: only NULL and 'pending' are overwritten.
UpdateTransitionHygiene(i, s) ==
    moves' = [moves EXCEPT ![i].status = IF @ \in Unjudged THEN s ELSE @]

-----------------------------------------------------------------------------
(* Transitions and the listener *)

\* A writer commits a row.  The trigger's notification reaches the goroutine
\* only on the two subscribed channels and while the connection is up.
InsertTicketTransition(w, diary, facts, subscribed) ==
    /\ Len(moves) < MaxTransition
    /\ w = "ceo" => Cardinality({i \in DOMAIN moves : moves[i].writer = "ceo"}) < MaxAgentless
    /\ w = "legacy" \/ (diary = "full" /\ facts)
    /\ moves' = Append(moves, [writer |-> w, status |-> BornWith(w), diary |-> diary, facts |-> facts])
    /\ handling' = [handling EXCEPT ![Len(moves) + 1] = IF linked /\ subscribed THEN Waits ELSE Idle]
    /\ UNCHANGED <<aged, sweep, linked, palaceUp, hygFaults>>

RowAges ==
    /\ aged < Len(moves)
    /\ aged' = aged + 1
    /\ UNCHANGED <<moves, handling, sweep, linked, palaceUp, hygFaults>>

\* handleTransition after the delay: the reads of evaluateAndWrite.
HandleTransition(i) ==
    /\ handling[i] = Waits /\ i <= aged
    /\ \/ ~HasAgent(moves[i].writer) /\ handling' = [handling EXCEPT ![i] = Idle]
       \/ /\ HasAgent(moves[i].writer)
          /\ \E v \in HygVerdicts(moves[i]) : handling' = [handling EXCEPT ![i] = v]
    /\ UNCHANGED <<moves, aged, sweep, linked, palaceUp, hygFaults>>

HandlerWrites(i) ==
    /\ handling[i] \in Statuses
    /\ UpdateTransitionHygiene(i, handling[i])
    /\ handling' = [handling EXCEPT ![i] = Idle]
    /\ UNCHANGED <<aged, sweep, linked, palaceUp, hygFaults>>

\* A read or the write failed: logged, left to the sweep.
HandlerFails(i) ==
    /\ handling[i] # Idle
    /\ HygFault
    /\ handling' = [handling EXCEPT ![i] = Idle]
    /\ UNCHANGED <<moves, aged, sweep, linked, palaceUp>>

-----------------------------------------------------------------------------
(* The sweep *)

IsStuck(i) == i <= aged /\ moves[i].status \in Unjudged

\* LIMIT: the oldest rows, as many as a sweep reads.
Oldest(rows) == {i \in rows : Cardinality({j \in rows : j <= i}) <= SweepLimit}

\* Mutant: only rows never judged are listed.
ListStuckNullOnly == Oldest({i \in DOMAIN moves : i <= aged /\ moves[i].status = "null"})

\* ListStuckHygieneTransitions: NULL or pending, old enough, oldest first.
ListStuckHygieneTransitions == Oldest({i \in DOMAIN moves : IsStuck(i)})

SweepOnce ==
    /\ sweep = NoSweep
    /\ ListStuckHygieneTransitions # {}
    /\ sweep' = [sweep EXCEPT !.batch = ListStuckHygieneTransitions]
    /\ UNCHANGED <<moves, aged, handling, linked, palaceUp, hygFaults>>

\* The rows come oldest first; the rest of the batch stays.
Current == Min(sweep.batch)
Rest == sweep.batch \ {Current}

\* evaluateAndWrite on the current row of the batch: a row without an agent is
\* passed over, unwritten.
SweepJudges ==
    /\ sweep.batch # {} /\ sweep.verdict = Idle
    /\ LET m == moves[Current] IN
         \/ ~HasAgent(m.writer) /\ sweep' = [sweep EXCEPT !.batch = Rest]
         \/ HasAgent(m.writer) /\ \E v \in HygVerdicts(m) : sweep' = [sweep EXCEPT !.verdict = v]
    /\ UNCHANGED <<moves, aged, handling, linked, palaceUp, hygFaults>>

SweepWrites ==
    /\ sweep.verdict # Idle
    /\ UpdateTransitionHygiene(Current, sweep.verdict)
    /\ sweep' = [batch |-> Rest, verdict |-> Idle]
    /\ UNCHANGED <<aged, handling, linked, palaceUp, hygFaults>>

\* One row's error does not stop the batch.
SweepRowFails ==
    /\ sweep.batch # {}
    /\ HygFault
    /\ sweep' = [batch |-> Rest, verdict |-> Idle]
    /\ UNCHANGED <<moves, aged, handling, linked, palaceUp>>

-----------------------------------------------------------------------------
(* Faults *)

ListenerLosesConn ==
    /\ linked /\ HygFault
    /\ linked' = FALSE
    /\ UNCHANGED <<moves, aged, handling, sweep, palaceUp>>

\* RunListener dials again after its backoff.
ListenerRedials ==
    /\ ~linked
    /\ linked' = TRUE
    /\ UNCHANGED <<moves, aged, handling, sweep, palaceUp, hygFaults>>

PalaceFails ==
    /\ palaceUp /\ HygFault
    /\ palaceUp' = FALSE
    /\ UNCHANGED <<moves, aged, handling, sweep, linked>>

PalaceReturns ==
    /\ ~palaceUp
    /\ palaceUp' = TRUE
    /\ UNCHANGED <<moves, aged, handling, sweep, linked, hygFaults>>

\* The supervisor dies and comes back: goroutines are gone, rows stay.
HygRestart ==
    /\ HygFault
    /\ handling' = [i \in 1..MaxTransition |-> Idle]
    /\ sweep' = NoSweep
    /\ linked' = TRUE
    /\ UNCHANGED <<moves, aged, palaceUp>>

HygProgress == SweepOnce \/ SweepJudges \/ SweepWrites

HygNext ==
    \/ \E w \in Writers, d \in {"none", "thin", "full"}, f \in BOOLEAN, s \in BOOLEAN :
         InsertTicketTransition(w, d, f, s)
    \/ RowAges
    \/ \E i \in DOMAIN moves : HandleTransition(i) \/ HandlerWrites(i) \/ HandlerFails(i)
    \/ HygProgress \/ SweepRowFails
    \/ ListenerLosesConn \/ ListenerRedials \/ PalaceFails \/ PalaceReturns \/ HygRestart

-----------------------------------------------------------------------------
(* Properties *)

\* A verdict is final: a slower goroutine or sweep that read the row earlier,
\* or met a palace outage, never replaces it.
VerdictIsFinal ==
    [][\A i \in DOMAIN moves :
         moves[i].status \notin Unjudged => moves'[i].status = moves[i].status]_hygVars

\* The sweep gets to every row of an agent, whatever notification was lost and
\* however long the palace was away, as long as agentless rows leave room in
\* its batch.
JudgedEventually ==
    \A i \in 1..MaxTransition :
        (i \in DOMAIN moves /\ HasAgent(moves[i].writer))
            ~> (i \in DOMAIN moves /\ moves[i].status \notin Unjudged)
=============================================================================
