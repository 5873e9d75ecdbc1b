----------------------------- MODULE MCDbWorkers -----------------------------
(* Instances of DbWorkers for TLC. *)
EXTENDS DbWorkers

CONSTANTS a, b, c
==============================================================================
