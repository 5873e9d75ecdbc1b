----------------------------- MODULE MCWorldSaves -----------------------------
(* Instances of WorldSaves for TLC. *)
EXTENDS WorldSavesInvariant, TLC

CONSTANTS s1, s2, a1, c1, none, nobody

MCOwner == [c \in Chars |-> a1]
==============================================================================
