--------------------------- MODULE MCWorldSessions ---------------------------
(* Instances of WorldSessions for TLC. *)
EXTENDS WorldSessionsInvariant, TLC

CONSTANTS s1, s2, s3, a1, a2, c1, c2, none, nobody

\* One character of the only account; one character of each of two accounts.
MCOwnerOne == [c \in {c1} |-> a1]
MCOwnerEach == (c1 :> a1) @@ (c2 :> a2)

MCSymmetry == Permutations(Sessions)
==============================================================================
