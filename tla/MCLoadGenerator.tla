--------------------------- MODULE MCLoadGenerator ---------------------------
(* A small load generator, for TLC. *)
EXTENDS LoadGenerator
==============================================================================
