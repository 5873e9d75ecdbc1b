--------------------------- MODULE MCPlayerMovement ---------------------------
(* Instances of PlayerMovement for TLC. *)
EXTENDS PlayerMovement

MCStrides == {-1, 1}
==============================================================================
