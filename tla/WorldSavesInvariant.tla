-------------------------- MODULE WorldSavesInvariant --------------------------
(***************************************************************************)
(* The inductive invariant of WorldSaves, for players that do not          *)
(* reconnect before the session they had is through.  Between a stay in    *)
(* the world and the next one the progress of a character travels: in a    *)
(* save through the worker's queue to the row, and in a load, a response   *)
(* and a spawn command back to the world.  Nothing may overtake it on the  *)
(* way out, and nothing may be written behind it on the way back.          *)
(***************************************************************************)
EXTENDS WorldSessionsInvariant, WorldSaves

\* The saves of character c that may wait in the worker's queue.
SavesOf(c) == [type : {"save"}, char : {c}, data : 0..MaxProgress]

\* x is what the row of character c will be when the queue is executed.
Lasting(c, x) ==
  \/ row[c] = x /\ ~Holds(dbQueue, SavesOf(c))
  \/ \E i \in DOMAIN dbQueue :
       /\ dbQueue[i] \in SavesOf(c) /\ dbQueue[i].data = x
       /\ \A j \in DOMAIN dbQueue : j > i => dbQueue[j] \notin SavesOf(c)

\* A character that is not in the world, or only just, has all it achieved in
\* its row or on the way there.
AllSaved ==
  \A c \in Chars :
    (\A p \in players : p.char = c => Entering(p.sess)) => Lasting(c, latest[c])

\* Session s may yet use the row of its own character c.
MayUse(s, c) == life[s] # "dead" /\ Owner[c] = account[s]

\* The SELECT at i is that of the session's one request, and a row that will be
\* used is not written any more after it was read.
LoadLast(i, s, c) ==
  /\ [type |-> "enter", char |-> c] \in requests[s]
  /\ MayUse(s, c) => \A j \in DOMAIN dbQueue : j > i => dbQueue[j] \notin SavesOf(c)
  /\ \A j \in DOMAIN dbQueue : dbQueue[j].type = "load" /\ dbQueue[j].sess = s => j = i

LoadsLast ==
  \A i \in DOMAIN dbQueue, s \in Sessions, c \in Chars :
    dbQueue[i] = [type |-> "load", sess |-> s, char |-> c] => LoadLast(i, s, c)

\* What the worker's queue holds.
SaveRequests == [type : {"save"}, char : Chars, data : 0..MaxProgress]
LoadRequests == [type : {"load"}, sess : Sessions, char : Chars]

\* The rows that come back to a session that enters the world.
EnterRows == {m \in IoMsgs : m.type = "enter"}

\* Rows fetched, and characters to be spawned from them, that are not up to date.
OldRows(s) == {m \in EnterRows : MayUse(s, m.char) /\ fetched[s] # latest[m.char]}
OldSpawns  == {c \in WorldCmds : /\ c.type = "spawn" /\ MayUse(c.sess, c.char)
                                /\ fetched[c.sess] # latest[c.char]}

\* Moves of a player before its session was told of it, and rollbacks after it.
EarlyMoves    == {c \in WorldCmds : /\ c.type = "move"
                                    /\ \/ c.guid \notin Issued
                                       \/ \E p \in players : p.guid = c.guid /\ Entering(p.sess)}
LateRollbacks == {c \in WorldCmds : /\ c.type = "rollback"
                                    /\ \E p \in players : p.guid = c.guid /\ ~Entering(p.sess)}

\* The inductive invariant of the progress of the characters.
SavesInv ==
  /\ SavesTypeOK
  /\ NoProgressLost
  /\ AllSaved
  /\ LoadsLast
  /\ \A s \in Sessions : ~Holds(io[s], OldRows(s))
  /\ ~Holds(cmds, OldSpawns)
  /\ ~Holds(cmds, EarlyMoves)
  /\ ~Holds(cmds, LateRollbacks)
==============================================================================
