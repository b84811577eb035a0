----------------------------- MODULE MCEventSpawn -----------------------------
(* Small instances of EventSpawn for TLC. *)
EXTENDS EventSpawn

CONSTANTS s1, s2, t1, t2

\* No ticket depends on another.
NoPredecessors == [t \in Tickets |-> NoTicket]

\* t2 waits for t1.
Chain == [t \in Tickets |-> IF t = t2 THEN t1 ELSE NoTicket]
===============================================================================
