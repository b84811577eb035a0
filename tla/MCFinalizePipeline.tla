-------------------------- MODULE MCFinalizePipeline --------------------------
(* Small instances of FinalizePipeline for TLC. *)
EXTENDS FinalizePipeline

CONSTANTS c1, c2, c3, c4
===============================================================================
