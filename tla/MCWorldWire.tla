----------------------------- MODULE MCWorldWire -----------------------------
(* One connection, for TLC. *)
EXTENDS WorldWire
==============================================================================
