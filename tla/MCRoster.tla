------------------------------ MODULE MCRoster ------------------------------
(***************************************************************************)
(* The hiring proposals alone: the agent is not there yet.                 *)
(***************************************************************************)
EXTENDS Roster

Init == RosterEmpty /\ NoProposals
Spec == Init /\ [][HiringNext]_rosterVars
=============================================================================
