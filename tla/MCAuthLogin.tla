----------------------------- MODULE MCAuthLogin -----------------------------
(* Instances of AuthLogin for TLC. *)
EXTENDS AuthLogin

CONSTANTS l1, a1, none

\* All clients log in to the same account.
MCAccountOf == [l \in Logins |-> a1]
==============================================================================
