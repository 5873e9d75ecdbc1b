--------------------------- MODULE MCCharacterRows ---------------------------
(* Instances of CharacterRows for TLC: two sessions of one account, a       *)
(* kicked one and its successor.                                            *)
EXTENDS CharacterRows

CONSTANTS s1, s2, k1, k2, k3, d1, d3, a1, n1, n2

MCBy == [j \in Jobs |-> IF j = k3 THEN s2 ELSE s1]
MCAccount == [s \in Sessions |-> a1]
MCName == [k \in Creates |-> IF k = k2 THEN n2 ELSE n1]

\* d1 is right, d3 confirms with another name.
MCTarget == [d \in Deletes |-> k1]
MCTyped == [d \in Deletes |-> IF d = d3 THEN n2 ELSE n1]
==============================================================================
