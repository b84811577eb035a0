---------------------------- MODULE TicketVerbs ----------------------------
(***************************************************************************)
(* Who may change an existing ticket: the transition_ticket and            *)
(* edit_ticket verbs of the CEO chat (internal/garrisonmutate), which lock *)
(* the row with FOR UPDATE NOWAIT; the dashboard's drag and inline edit,   *)
(* whose UPDATEs wait for that lock; and the agent's finalize write, which *)
(* sets the column of its workflow without looking.  One ticket.           *)
(***************************************************************************)
EXTENDS Integers, Sequences

CONSTANTS
    Slugs,        \* column slugs
    FirstSlug,    \* where the ticket starts
    Chats,        \* concurrent verb calls
    MaxTrail,     \* bound on transitions
    MaxEdit,      \* bound on edits
    MaxVerbFault  \* bound on failed transactions

Any == "any"
Nobody == "nobody"

ASSUME VerbsAssumption ==
    /\ FirstSlug \in Slugs /\ Nobody \notin Chats
    /\ MaxTrail \in Nat /\ MaxEdit \in Nat /\ MaxVerbFault \in Nat

Fields == {"objective", "acceptance"}

VARIABLES
    slug,        \* tickets.column_slug
    ticketText,        \* the editable fields, as the number of the edit that set them
    intent,      \* the same, as the editors meant it
    rowLock,     \* the verb call that holds the row
    calls,       \* verb calls
    drag,        \* the operator's moveTicket
    run,         \* the column the agent's run was started for, or Any
    trail,       \* ticket_transitions
    verbBounds   \* edits and faults so far

verbVars == <<slug, ticketText, intent, rowLock, calls, drag, run, trail, verbBounds>>

NoCall == [pc |-> "idle", verb |-> "none", expected |-> Any, to |-> Any, from |-> Any,
           field |-> "none", before |-> [f \in Fields |-> 0]]
NoDrag == [pc |-> "idle", from |-> Any, to |-> Any]

VerbsTypeOK ==
    /\ slug \in Slugs
    /\ ticketText \in [Fields -> 0..MaxEdit] /\ intent \in [Fields -> 0..MaxEdit]
    /\ rowLock \in Chats \union {Nobody}
    /\ \A c \in Chats :
        /\ calls[c].pc \in {"idle", "locked", "read"}
        /\ calls[c].verb \in {"none", "transition", "edit"}
        /\ {calls[c].expected, calls[c].to, calls[c].from} \subseteq Slugs \union {Any}
    /\ drag \in [pc: {"idle", "checked"}, from: Slugs \union {Any}, to: Slugs \union {Any}]
    /\ run \in Slugs \union {Any}
    /\ Len(trail) <= MaxTrail
    /\ \A i \in DOMAIN trail : trail[i] \in [by: {"chat", "operator", "agent"}, expected: Slugs \union {Any}, from: Slugs, to: Slugs]
    /\ verbBounds \in [edits: 0..MaxEdit, faults: 0..MaxVerbFault]

VerbsInit ==
    /\ slug = FirstSlug
    /\ ticketText = [f \in Fields |-> 0] /\ intent = ticketText
    /\ rowLock = Nobody
    /\ calls = [c \in Chats |-> NoCall]
    /\ drag = NoDrag
    /\ run = Any
    /\ trail = <<>>
    /\ verbBounds = [edits |-> 0, faults |-> 0]

Moved(by, expected, from, to) ==
    /\ trail' = Append(trail, [by |-> by, expected |-> expected, from |-> from, to |-> to])
    /\ slug' = to

-----------------------------------------------------------------------------
(* transition_ticket and edit_ticket *)

\* Mutant: the SELECT does not lock.
LockTicketPlain(c, call) ==
    calls' = [calls EXCEPT ![c] = call] /\ UNCHANGED rowLock

\* LockTicketForUpdate: a row somebody else has locked is an error at once,
\* which classifyTicketLockErr reports as ticket_state_changed.
LockTicketForUpdate(c, call) ==
    IF rowLock = Nobody
    THEN rowLock' = c /\ calls' = [calls EXCEPT ![c] = call]
    ELSE UNCHANGED <<calls, rowLock>>

\* Both verbs check their arguments, then lock the row before reading it.
BeginTransition(c, to, expected) ==
    /\ calls[c] = NoCall
    /\ Len(trail) < MaxTrail
    /\ LockTicketForUpdate(c,
           [NoCall EXCEPT !.pc = "locked", !.verb = "transition", !.to = to, !.expected = expected])
    /\ UNCHANGED <<slug, ticketText, intent, drag, run, trail, verbBounds>>

BeginEdit(c, field) ==
    /\ calls[c] = NoCall
    /\ verbBounds.edits < MaxEdit
    /\ LockTicketForUpdate(c, [NoCall EXCEPT !.pc = "locked", !.verb = "edit", !.field = field])
    /\ UNCHANGED <<slug, ticketText, intent, drag, run, trail, verbBounds>>

\* The reads of the transaction.
ReadRow(c) ==
    /\ calls[c].pc = "locked"
    /\ calls' = IF calls[c].verb = "edit"
                THEN [calls EXCEPT ![c].pc = "read", ![c].before = ticketText]
                ELSE [calls EXCEPT ![c].pc = "read", ![c].from = slug]
    /\ UNCHANGED <<slug, ticketText, intent, rowLock, drag, run, trail, verbBounds>>

\* Commit or rollback releases the row.
EndCall(c) ==
    /\ calls' = [calls EXCEPT ![c] = NoCall]
    /\ rowLock' = IF rowLock = c THEN Nobody ELSE rowLock

Stale(c) == calls[c].expected \notin {Any, calls[c].from}

\* Another column than expected, or the column it is already in: an audit row
\* and nothing else.
TransitionRefused(c) ==
    /\ calls[c].pc = "read" /\ calls[c].verb = "transition"
    /\ Stale(c) \/ calls[c].to = calls[c].from
    /\ EndCall(c)
    /\ UNCHANGED <<slug, ticketText, intent, drag, run, trail, verbBounds>>

CommitTransition(c) ==
    /\ calls[c].pc = "read" /\ calls[c].verb = "transition"
    /\ ~Stale(c) /\ calls[c].to # calls[c].from
    /\ Len(trail) < MaxTrail
    /\ Moved("chat", calls[c].expected, calls[c].from, calls[c].to)
    /\ EndCall(c)
    /\ UNCHANGED <<ticketText, intent, drag, run, verbBounds>>

\* UpdateTicketEditableFields writes every field: the given one, and the
\* others as mergeTicketFields took them from the row it read.
CommitEdit(c) ==
    /\ calls[c].pc = "read" /\ calls[c].verb = "edit"
    /\ verbBounds.edits < MaxEdit
    /\ LET n == verbBounds.edits + 1
       IN  /\ ticketText' = [calls[c].before EXCEPT ![calls[c].field] = n]
           /\ intent' = [intent EXCEPT ![calls[c].field] = n]
           /\ verbBounds' = [verbBounds EXCEPT !.edits = n]
    /\ EndCall(c)
    /\ UNCHANGED <<slug, drag, run, trail>>

\* A statement fails, or the chat's container dies: the transaction ends.
VerbFails(c) ==
    /\ calls[c].pc \in {"locked", "read"}
    /\ \/ /\ verbBounds.faults < MaxVerbFault
          /\ verbBounds' = [verbBounds EXCEPT !.faults = @ + 1]
       \/ /\ \/ calls[c].verb = "edit" /\ verbBounds.edits = MaxEdit
             \/ calls[c].verb = "transition" /\ Len(trail) = MaxTrail
          /\ UNCHANGED verbBounds
    /\ EndCall(c)
    /\ UNCHANGED <<slug, ticketText, intent, drag, run, trail>>

-----------------------------------------------------------------------------
(* The dashboard and the agent *)

\* moveTicket reads the column, then updates where it still is; the UPDATE
\* waits for the row lock.
DragChecks(to) ==
    /\ drag = NoDrag
    /\ to # slug
    /\ Len(trail) < MaxTrail
    /\ drag' = [pc |-> "checked", from |-> slug, to |-> to]
    /\ UNCHANGED <<slug, ticketText, intent, rowLock, calls, run, trail, verbBounds>>

DragMoves ==
    /\ drag.pc = "checked"
    /\ rowLock = Nobody
    /\ drag' = NoDrag
    /\ IF slug = drag.from /\ Len(trail) < MaxTrail
       THEN Moved("operator", drag.from, drag.from, drag.to)
       ELSE UNCHANGED <<slug, trail>>
    /\ UNCHANGED <<ticketText, intent, rowLock, calls, run, verbBounds>>

\* editTicket sets only the field that changed.
OperatorEdits(field) ==
    /\ rowLock = Nobody
    /\ verbBounds.edits < MaxEdit
    /\ verbBounds' = [verbBounds EXCEPT !.edits = @ + 1]
    /\ ticketText' = [ticketText EXCEPT ![field] = verbBounds.edits + 1]
    /\ intent' = [intent EXCEPT ![field] = verbBounds.edits + 1]
    /\ UNCHANGED <<slug, rowLock, calls, drag, run, trail>>

AgentStarts ==
    /\ run = Any
    /\ run' = slug
    /\ UNCHANGED <<slug, ticketText, intent, rowLock, calls, drag, trail, verbBounds>>

\* writeTransitionRows: from and to come from the run, not from the row.
AgentFinalizes(to) ==
    /\ run # Any /\ to # run
    /\ rowLock = Nobody
    /\ Len(trail) < MaxTrail
    /\ Moved("agent", Any, run, to)
    /\ run' = Any
    /\ UNCHANGED <<ticketText, intent, rowLock, calls, drag, verbBounds>>

VerbStep(c) ==
    \/ ReadRow(c)
    \/ TransitionRefused(c)
    \/ CommitTransition(c)
    \/ CommitEdit(c)
    \/ VerbFails(c)

VerbsNext ==
    \/ \E c \in Chats :
        \/ \E to \in Slugs, expected \in Slugs \union {Any} : BeginTransition(c, to, expected)
        \/ \E field \in Fields : BeginEdit(c, field)
        \/ VerbStep(c)
    \/ \E to \in Slugs : DragChecks(to)
    \/ DragMoves
    \/ \E field \in Fields : OperatorEdits(field)
    \/ AgentStarts
    \/ \E to \in Slugs : AgentFinalizes(to)

-----------------------------------------------------------------------------
(* Properties *)

\* A chat or an operator moves the ticket from where it is: a transition of
\* theirs starts in the column the last one, of whomever, ended in, and that
\* is the column they expected (realTransitionTicketHandler, moveTicket).
\* The agent's finalize has no such check.
MovesAreFresh ==
    \A i \in DOMAIN trail : trail[i].by # "agent" =>
        /\ trail[i].from = IF i = 1 THEN FirstSlug ELSE trail[i - 1].to
        /\ trail[i].expected \in {Any, trail[i].from}

\* No edit undoes another: each field holds what its last editor wrote, though
\* edit_ticket writes back all the fields it read (realEditTicketHandler).
NoLostEdit == ticketText = intent

\* What the chats and the operator do to one ticket at the same time is never
\* overwritten unread: neither the column nor a field (SELECT ... FOR UPDATE
\* before every check and merge).
NothingOverwritten == MovesAreFresh /\ NoLostEdit
=============================================================================
