------------------------------ MODULE TicketFlow ------------------------------
(***************************************************************************)
(* The routing and workflow tables of the supervisor: which outbox channel *)
(* wakes which role, and which columns a run moves its ticket between.     *)
(*                                                                         *)
(* A channel work.ticket.created.<dept>.<col> is <<"created", col>>, a     *)
(* channel work.ticket.transitioned.<dept>.<from>.<to> is <<from, to>>.    *)
(* The dashboard writes a second, informational row for every mutation; a  *)
(* row on one of its literal channels is <<"mutation", "mutation">>.       *)
(***************************************************************************)
EXTENDS Naturals

Columns == {"todo", "in_dev", "qa_review", "done"}

\* A ticket that is not in the table yet, and an absent payload field.
NoColumn == "none"

Roles == {"engineer", "qa-engineer"}
NoRole == "none"

Channels == ({"created"} \cup Columns) \X Columns \cup {<<"mutation", "mutation">>}

\* buildDispatcherWithExtras: the frozen base table of channel handlers.
Route(channel) ==
    CASE channel \in {<<"created", "in_dev">>, <<"todo", "in_dev">>,
                      <<"qa_review", "in_dev">>} -> "engineer"
      [] channel = <<"in_dev", "qa_review">>     -> "qa-engineer"
      [] OTHER                                   -> NoRole

finalizeExpectedForRole(role, fromColumn) ==
    role = "qa-engineer" \/ fromColumn = "in_dev"

\* Mutant: a blank payload column is written as it is.
transitionColumnsBlank(role, fromColumn) ==
    CASE role = "qa-engineer"                               -> <<"qa_review", "done">>
      [] role # "qa-engineer" /\ fromColumn = "in_dev"      -> <<"in_dev", "qa_review">>
      [] OTHER                                              -> <<fromColumn, "done">>

\* The (from, to) pair a run writes; a blank payload column falls back to the
\* single-transition workflow of the first milestone.
transitionColumns(role, fromColumn) ==
    CASE role = "qa-engineer"                               -> <<"qa_review", "done">>
      [] role # "qa-engineer" /\ fromColumn = "in_dev"      -> <<"in_dev", "qa_review">>
      [] OTHER                                              -> <<"todo", "done">>

\* The columns in which a predecessor ticket no longer blocks its dependents.
SatisfactionColumns == {"qa_review", "done"}

===============================================================================
