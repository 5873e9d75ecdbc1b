---------------------------- MODULE WorldPresence ----------------------------
(***************************************************************************)
(* What the world server promises about presence, without its threads,     *)
(* queues and callbacks: who is in the world, for whom.                    *)
(*   - a character is in the world for at most one session;                *)
(*   - a client that is told it is in the world is, until it leaves or its *)
(*     connection is lost;                                                 *)
(*   - a client that is told it is out has nothing left in the world.      *)
(* WorldSessions implements it: see WorldSessions!Presence.                *)
(***************************************************************************)
CONSTANTS Sessions, Chars, Nobody

VARIABLES
  phase,   \* what the client of each session knows
  avatar   \* avatar[c]: the session character c is in the world for

vars == <<phase, avatar>>

Absent(s) == \A c \in Chars : avatar[c] # s

Move(s, from, to) ==
  /\ phase[s] \in from
  /\ phase' = [phase EXCEPT ![s] = to]

Init ==
  /\ phase = [s \in Sessions |-> "out"]
  /\ avatar = [c \in Chars |-> Nobody]

\* The client asks to enter.
Request(s) == Move(s, {"out"}, "entering") /\ UNCHANGED avatar

\* The character appears, maybe after the connection was lost.
Appear(s, c) ==
  /\ phase[s] \in {"entering", "gone"}
  /\ avatar[c] = Nobody
  /\ Absent(s)
  /\ avatar' = [avatar EXCEPT ![c] = s]
  /\ UNCHANGED phase

\* The client is told it is in the world, or that it is not.
Confirm(s) == ~Absent(s) /\ Move(s, {"entering"}, "in") /\ UNCHANGED avatar

Reject(s) == Absent(s) /\ Move(s, {"entering"}, "out") /\ UNCHANGED avatar

\* The client asks to leave; it is told when it has left.
Leave(s) == Move(s, {"in"}, "leaving") /\ UNCHANGED avatar
Left(s)  == Absent(s) /\ Move(s, {"leaving"}, "out") /\ UNCHANGED avatar

\* Only a leaving or lost client's character disappears.
Vanish(c) ==
  /\ avatar[c] # Nobody
  /\ phase[avatar[c]] \in {"leaving", "gone"}
  /\ avatar' = [avatar EXCEPT ![c] = Nobody]
  /\ UNCHANGED phase

\* The connection is lost.
Lose(s) == Move(s, {"out", "entering", "in", "leaving"}, "gone") /\ UNCHANGED avatar

Next ==
  \/ \E s \in Sessions :
       \/ Request(s) \/ Confirm(s) \/ Reject(s)
       \/ Leave(s) \/ Left(s) \/ Lose(s)
       \/ \E c \in Chars : Appear(s, c)
  \/ \E c \in Chars : Vanish(c)

Spec == Init /\ [][Next]_vars

------------------------------------------------------------------------------
Phases == {"out", "entering", "in", "leaving", "gone"}

\* Both variables have their type.
TypeOK ==
  /\ phase \in [Sessions -> Phases]
  /\ avatar \in [Chars -> Sessions \cup {Nobody}]

\* What WorldCmdCallback_OnEnterWorld and _OnExitWorld tell a client stays true
\* until its next request: the character of a client that was told SUCCESS is
\* there, a client that was told FAILED or that has left has none, and nobody
\* plays two characters at once.
ClientKnowledgeTrue ==
  \A s \in Sessions :
    /\ phase[s] = "in" => ~Absent(s)
    /\ phase[s] = "out" => Absent(s)
    /\ \A c, d \in Chars : avatar[c] = s /\ avatar[d] = s => c = d
==============================================================================
