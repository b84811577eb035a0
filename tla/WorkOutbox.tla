------------------------------ MODULE WorkOutbox ------------------------------
(***************************************************************************)
(* What the event outbox promises, with no supervisor in sight: rows are   *)
(* emitted, every row is settled at most once, and a row takes effect (one *)
(* ticket transition) only in the step that settles it.  Moves made by an  *)
(* operator are effects of row 0.                                          *)
(***************************************************************************)
EXTENDS Naturals, Sequences

VARIABLES
    emitted,    \* how many rows were written
    settled,    \* the rows marked processed
    effects     \* the row behind every ticket transition, in order

vars == <<emitted, settled, effects>>

Init ==
    /\ emitted = 0
    /\ settled = {}
    /\ effects = <<>>

\* A writer emits rows, with or without moving a ticket itself.
Emit ==
    /\ emitted' \in {emitted + 1, emitted + 2}
    /\ effects' \in {effects, Append(effects, 0)}
    /\ UNCHANGED settled

\* A run ends without effect: failed, timed out, shut down.
Discard(e) ==
    /\ e \in 1 .. emitted /\ e \notin settled
    /\ settled' = settled \cup {e}
    /\ UNCHANGED <<emitted, effects>>

\* A run succeeds: its one transition, the row the transition emits, the mark.
Apply(e) ==
    /\ e \in 1 .. emitted /\ e \notin settled
    /\ settled' = settled \cup {e}
    /\ effects' = Append(effects, e)
    /\ emitted' = emitted + 1

Next == Emit \/ \E e \in 1 .. emitted : Discard(e) \/ Apply(e)

Spec == Init /\ [][Next]_vars

===============================================================================
