---------------------------- MODULE MCWorldServer ----------------------------
(* Instance of WorldServer for TLC. *)
EXTENDS WorldServer, TLC

CONSTANTS i1, i2

\* The last two connections come from one address.
MCIPOf == <<i2, i1, i1>>
==============================================================================
