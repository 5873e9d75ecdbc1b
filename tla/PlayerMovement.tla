--------------------------- MODULE PlayerMovement ---------------------------
(***************************************************************************)
(* Where a player is: the client that moves first and tells the server,    *)
(* the simulation that accepts, corrects or ignores what it is told, the   *)
(* zone that takes a player back into the map, and the corrections on      *)
(* their way to the client (the Epoch/Ack design of WorldCodes.h).         *)
(*                                                                         *)
(* One player and one connection: players do not affect each other's       *)
(* movement.  One axis: the code treats both alike.  A client leaves and   *)
(* enters again; loading and saving are in WorldSaves, here the row is     *)
(* read when the character is spawned and written when it is despawned.    *)
(***************************************************************************)
EXTENDS Integers, Sequences

CONSTANTS
  CellWidth,    \* width of a cell
  Cells,        \* number of cells of the map
  MaxDiff,      \* PLAYER_MOVEMENT_XY_MAX_DIFF_ALLOWED
  QueueSize,    \* PLAYER_PACKET_QUEUE_MAX_SIZE
  Strides,      \* what a frame may move the player by
  MaxSteps,     \* bound: frames in which the player moves, and teleports
  MaxVisits     \* bound: times the client enters the world

ASSUME MapAssumption == CellWidth \in Nat \ {0} /\ Cells \in Nat \ {0}
ASSUME RulesAssumption == MaxDiff \in Nat /\ QueueSize \in Nat \ {0}
ASSUME StridesAssumption == Strides \subseteq Int /\ MaxSteps \in Nat /\ MaxVisits \in Nat

VARIABLES
  conn,      \* "up", "lost", or who closed it over an unexpected packet
  client,    \* the client's OnlineData and Player
  told,      \* history: the position client and server last exchanged, as the client knows it
  up,        \* packets to the server, in order
  down,      \* packets to the client, in order
  status,    \* m_status of the WorldSession
  queue,     \* the PlayerPacketQueue
  cmds,      \* commands posted to the simulation
  results,   \* results posted back to the session
  player,    \* the PlayerEntity
  saved,     \* the position in the character's row
  steps, visits   \* counters of the bounds

net == <<up, down>>
session == <<status, queue, results>>
sim == <<cmds, player, saved>>
bounds == <<steps, visits>>
vars == <<conn, client, told, net, session, sim, bounds>>

Map == 0 .. CellWidth * Cells - 1
CellOf(p) == p \div CellWidth
CellBoundCheck(c) == c \in 0 .. Cells - 1
MiddleOf(c) == c * CellWidth + CellWidth \div 2
CenterOfWorld == (Cells \div 2) * CellWidth
TooFar(p, q) == p - q > MaxDiff \/ q - p > MaxDiff

Nowhere == [here |-> FALSE, pos |-> 0, cell |-> 0, last |-> 0]

Init ==
  /\ conn = "up"
  /\ client = [place |-> "out", pos |-> 0, previous |-> 0, dirty |-> FALSE, acked |-> 0]
  /\ told = 0
  /\ up = <<>> /\ down = <<>>
  /\ status = "authed" /\ queue = <<>> /\ results = <<>>
  /\ cmds = <<>> /\ player = Nowhere
  /\ saved = CenterOfWorld
  /\ steps = 0 /\ visits = 0

------------------------------------------------------------------------------
(* The client.  A frame is NetworkUpdate (Receive), then World::Update     *)
(* and GameUpdate (Frame).  place is m_status with isInWorld and           *)
(* isLeavingWorld; "asked" has sent ENTER_WORLD and waits for the answer.  *)

MovementUpdate(c) == [kind |-> "move", pos |-> c.pos, ack |-> c.acked]

\* SendPlayerMovementUpdate of a client that has something to tell.
SendMovementUpdate(c) ==
  /\ client' = [c EXCEPT !.dirty = FALSE]
  /\ up' = Append(up, MovementUpdate(c))
  /\ told' = c.pos

HandleMovements(d) ==
  LET p == client.pos + d
  IN IF p # client.previous
     THEN [client EXCEPT !.pos = p, !.previous = p, !.dirty = TRUE]
     ELSE [client EXCEPT !.pos = p]

\* elapsed: the timer of GameUpdate, 10 updates a second at most.
Frame(d, elapsed) ==
  LET c == HandleMovements(d)
  IN /\ conn = "up"
     /\ d # 0 => steps < MaxSteps
     /\ steps' = IF d = 0 THEN steps ELSE steps + 1
     /\ IF elapsed /\ c.place = "in" /\ c.dirty
        THEN SendMovementUpdate(c)
        ELSE client' = c /\ UNCHANGED <<up, told>>
     /\ UNCHANGED <<conn, down, session, sim, visits>>

\* The command /tel.
TeleportToGrid(cell) ==
  /\ conn = "up"
  /\ steps < MaxSteps
  /\ steps' = steps + 1
  /\ client' = [client EXCEPT !.pos = cell * CellWidth]
  /\ UNCHANGED <<conn, told, net, session, sim, visits>>

Send(kind) == up' = Append(up, [kind |-> kind, pos |-> 0, ack |-> 0])

EnterWorld ==
  /\ conn = "up"
  /\ client.place = "out"
  /\ visits < MaxVisits
  /\ visits' = visits + 1
  /\ client' = [client EXCEPT !.place = "asked"]
  /\ Send("enter")
  /\ UNCHANGED <<conn, told, down, session, sim, steps>>

ExitWorld ==
  /\ conn = "up"
  /\ client.place = "in"
  /\ client' = [client EXCEPT !.place = "leaving"]
  /\ Send("exit")
  /\ UNCHANGED <<conn, told, down, session, sim, bounds>>

InWorldStatus == client.place \in {"in", "leaving"}

HandleEnterWorldResponse(m) ==
  /\ m.kind = "enter"
  /\ client.place = "asked"
  /\ client' = [client EXCEPT !.place = "in", !.pos = m.pos, !.acked = 0]
  /\ told' = m.pos
  /\ UNCHANGED <<conn, up>>

HandleExitWorldResponse(m) ==
  /\ m.kind = "exit"
  /\ InWorldStatus
  /\ client' = [client EXCEPT !.place = "out"]
  /\ UNCHANGED <<conn, up, told>>

\* Slip: the correction is applied, and acknowledged when the player moves.
HandleMovementCorrectionSilently(m) ==
  /\ m.kind = "fix"
  /\ InWorldStatus
  /\ client' = [client EXCEPT !.pos = m.pos, !.acked = m.id]
  /\ UNCHANGED <<conn, up, told>>

\* The correction is applied and acknowledged, by a client that leaves too.
HandleMovementCorrection(m) ==
  /\ m.kind = "fix"
  /\ InWorldStatus
  /\ SendMovementUpdate([client EXCEPT !.pos = m.pos, !.acked = m.id, !.dirty = TRUE])
  /\ UNCHANGED conn

\* A packet the client's status does not expect.
StatusMismatch(m) ==
  /\ ~(m.kind = "enter" /\ client.place = "asked")
  /\ ~(m.kind \in {"exit", "fix"} /\ InWorldStatus)
  /\ conn' = "byClient"
  /\ UNCHANGED <<client, up, told>>

Receive ==
  /\ conn = "up"
  /\ down # <<>>
  /\ down' = Tail(down)
  /\ \/ HandleEnterWorldResponse(Head(down))
     \/ HandleExitWorldResponse(Head(down))
     \/ HandleMovementCorrection(Head(down))
     \/ StatusMismatch(Head(down))
  /\ UNCHANGED <<session, sim, bounds>>

------------------------------------------------------------------------------
(* The session on its network thread.                                      *)

\* A packet in a status that does not allow it closes the socket.
Refuse(kind) ==
  /\ ~(kind \in {"move", "exit"} /\ status = "inWorld")
  /\ ~(kind = "enter" /\ status = "authed")
  /\ conn' = "byServer"
  /\ UNCHANGED <<status, queue, cmds>>

HandlePlayerMovementUpdate(m) ==
  /\ m.kind = "move"
  /\ status = "inWorld"
  /\ cmds' = Append(cmds, m)
  /\ UNCHANGED <<conn, status, queue>>

\* DoExitWorld(true).
HandleExitWorld(m) ==
  /\ m.kind = "exit"
  /\ status = "inWorld"
  /\ status' = "leaving"
  /\ cmds' = Append(cmds, m)
  /\ UNCHANGED <<conn, queue>>

\* With the callback of its SELECT, which clears the queue of packets.
HandleEnterWorld(m) ==
  /\ m.kind = "enter"
  /\ status = "authed"
  /\ status' = "entering"
  /\ queue' = <<>>
  /\ cmds' = Append(cmds, [m EXCEPT !.pos = saved])
  /\ UNCHANGED conn

Read ==
  /\ conn = "up"
  /\ up # <<>>
  /\ up' = Tail(up)
  /\ \/ HandlePlayerMovementUpdate(Head(up))
     \/ HandleExitWorld(Head(up))
     \/ HandleEnterWorld(Head(up))
     \/ Refuse(Head(up).kind)
  /\ UNCHANGED <<client, told, down, results, player, saved, bounds>>

\* Slip: packets are sent whatever the status is.
ProcessPlayerPacketsQueueAlways ==
  /\ conn = "up"
  /\ queue # <<>>
  /\ down' = down \o queue
  /\ queue' = <<>>
  /\ UNCHANGED <<conn, client, told, up, status, results, sim, bounds>>

\* Update of the session: what the simulation queued goes to the socket.
ProcessPlayerPacketsQueue ==
  /\ conn = "up"
  /\ status = "inWorld"
  /\ queue # <<>>
  /\ down' = down \o queue
  /\ queue' = <<>>
  /\ UNCHANGED <<conn, client, told, up, status, results, sim, bounds>>

\* WorldCmdCallback_OnEnterWorld and _OnExitWorld.
ServeResult ==
  /\ conn = "up"
  /\ results # <<>>
  /\ results' = Tail(results)
  /\ down' = Append(down, Head(results))
  /\ status' = IF Head(results).kind = "enter" THEN "inWorld" ELSE "authed"
  /\ UNCHANGED <<conn, client, told, up, queue, sim, bounds>>

Lose ==
  /\ conn = "up"
  /\ conn' = "lost"
  /\ UNCHANGED <<client, told, net, session, sim, bounds>>

------------------------------------------------------------------------------
(* The simulation.                                                         *)

\* Slip: the epoch moves on though the correction was not queued.
CorrectAnyway(p) ==
  /\ queue' = IF Len(queue) < QueueSize
              THEN Append(queue, [kind |-> "fix", pos |-> p.pos, id |-> p.last + 1])
              ELSE queue
  /\ player' = [p EXCEPT !.last = @ + 1]

\* Slip: corrections do not begin an epoch.
CorrectSameEpoch(p) ==
  /\ queue' = Append(queue, [kind |-> "fix", pos |-> p.pos, id |-> p.last])
  /\ player' = p

\* SendMovementCorrection: the epoch moves on only when the packet was queued.
Correct(p) ==
  IF Len(queue) < QueueSize
  THEN /\ queue' = Append(queue, [kind |-> "fix", pos |-> p.pos, id |-> p.last + 1])
       /\ player' = [p EXCEPT !.last = @ + 1]
  ELSE player' = p /\ UNCHANGED queue

\* A position outside the map is replaced by the center of the world.
Spawn(m) ==
  LET p == IF CellBoundCheck(CellOf(m.pos)) THEN m.pos ELSE CenterOfWorld
  IN /\ m.kind = "enter"
     /\ player' = [here |-> TRUE, pos |-> p, cell |-> CellOf(p), last |-> 0]
     /\ results' = Append(results, [kind |-> "enter", pos |-> p, id |-> 0])
     /\ UNCHANGED <<queue, saved>>

SaveAndDespawn(m) ==
  /\ m.kind = "exit"
  /\ saved' = player.pos
  /\ player' = Nowhere
  /\ results' = Append(results, [kind |-> "exit", pos |-> 0, id |-> 0])
  /\ UNCHANGED queue

\* Slip: no move is too old.
StaleNever(m) == FALSE

\* A move of an earlier epoch.
Stale(m) == m.ack # player.last

UpdatePlayerMovement(m) ==
  /\ m.kind = "move"
  /\ IF ~player.here \/ Stale(m)
     THEN UNCHANGED <<player, queue>>
     ELSE IF TooFar(m.pos, player.pos)
     THEN Correct(player)
     ELSE player' = [player EXCEPT !.pos = m.pos] /\ UNCHANGED queue
  /\ UNCHANGED <<results, saved>>

ExecuteWorldCmd ==
  /\ conn = "up"
  /\ cmds # <<>>
  /\ cmds' = Tail(cmds)
  /\ \/ Spawn(Head(cmds))
     \/ SaveAndDespawn(Head(cmds))
     \/ UpdatePlayerMovement(Head(cmds))
  /\ UNCHANGED <<conn, client, told, net, status, bounds>>

\* Entity::Update and the transfer at the end of Zone::Update: into the new
\* cell, or back to the middle of the old one.
ZoneUpdate ==
  LET new == CellOf(player.pos)
  IN /\ conn = "up"
     /\ player.here
     /\ new # player.cell
     /\ IF CellBoundCheck(new)
        THEN player' = [player EXCEPT !.cell = new] /\ UNCHANGED queue
        ELSE Correct([player EXCEPT !.pos = MiddleOf(player.cell)])
     /\ UNCHANGED <<conn, client, told, net, status, results, cmds, saved, bounds>>

------------------------------------------------------------------------------
Next ==
  \/ \E d \in Strides \cup {0}, elapsed \in BOOLEAN : Frame(d, elapsed)
  \/ \E cell \in 0 .. Cells - 1 : TeleportToGrid(cell)
  \/ EnterWorld \/ ExitWorld \/ Receive
  \/ Read \/ ProcessPlayerPacketsQueue \/ ServeResult \/ Lose
  \/ ExecuteWorldCmd \/ ZoneUpdate

Spec == Init /\ [][Next]_vars

\* The client's loop runs frames and its timer elapses, the network thread
\* reads and updates, and the simulation executes commands and updates its zone.
FairSpec ==
  /\ Spec
  /\ WF_vars(Frame(0, TRUE)) /\ WF_vars(Receive)
  /\ WF_vars(Read) /\ WF_vars(ProcessPlayerPacketsQueue) /\ WF_vars(ServeResult)
  /\ WF_vars(ExecuteWorldCmd) /\ WF_vars(ZoneUpdate)

------------------------------------------------------------------------------
(* Properties.                                                             *)

Kinds(s) == {s[i].kind : i \in DOMAIN s}

\* However far a client lags or moves, at most two corrections are under way:
\* one for a refused move and one for a position outside the map that an
\* earlier move of the same tick had reached.  So PLAYER_PACKET_QUEUE_MAX_SIZE
\* is never reached by them.
FewCorrections ==
  /\ Len(queue) <= 2
  /\ conn = "up" /\ client.place = "in" => Len(down) + Len(queue) <= 2

\* A move is applied or refused only when nothing is under way to the client:
\* what it sent before it knew of a correction changes nothing.
OnlyCurrentMoves ==
  [][ExecuteWorldCmd /\ player.here /\ player'.here /\ player' # player
       => down = <<>> /\ queue = <<>>]_vars

\* When nothing is under way and the zone is updated, the player is where the
\* client said or was told, whatever was refused, ignored or taken back before.
Agreement ==
  (/\ conn = "up" /\ client.place = "in"
   /\ up = <<>> /\ cmds = <<>> /\ queue = <<>> /\ down = <<>>
   /\ CellOf(player.pos) = player.cell) => player.here /\ player.pos = told

\* No packet reaches a client that is not in the status for it: corrections
\* come after the answer to ENTER_WORLD and before that to EXIT_WORLD.
ClientExpects == conn # "byClient"

\* A client does not stay in an earlier epoch, its moves ignored for ever.
CatchesUp ==
  <>[](conn = "up" /\ client.place = "in" =>
         client.acked = player.last /\ player.pos = told)

\* The server accepts the movement updates of its client, or corrects them
\* (WorldCodes.h on SPacketPlayerMovementUpdate); it does not drop the client.
\* This does not hold (README, section 5): a correction may cross EXIT_WORLD.
ClientKept == conn # "byServer"

------------------------------------------------------------------------------
(* The inductive invariant.                                                *)

Places == {"out", "asked", "in", "leaving"}
Requests == [kind : {"move", "exit", "enter"}, pos : Int, ack : Nat]
Answers == [kind : {"enter", "exit", "fix"}, pos : Int, id : Nat]

\* Every variable has its type.
TypeOK ==
  /\ conn \in {"up", "lost", "byServer", "byClient"}
  /\ client \in [place : Places, pos : Int, previous : Int, dirty : BOOLEAN, acked : Nat]
  /\ told \in Int /\ saved \in Int
  /\ up \in Seq(Requests) /\ cmds \in Seq(Requests)
  /\ down \in Seq(Answers) /\ queue \in Seq(Answers) /\ results \in Seq(Answers)
  /\ status \in {"authed", "entering", "inWorld", "leaving"}
  /\ player \in [here : BOOLEAN, pos : Int, cell : Int, last : Nat]
  /\ steps \in 0 .. MaxSteps /\ visits \in 0 .. MaxVisits

\* The player is nowhere and nothing concerns it.
Absent == ~player.here /\ cmds = <<>> /\ results = <<>>

\* Corrections are numbered from the last that the client has applied.
Numbered ==
  /\ Kinds(down) \subseteq {"fix"} /\ Kinds(queue) \subseteq {"fix"}
  /\ \A i \in DOMAIN down : down[i].id = client.acked + i
  /\ \A i \in DOMAIN queue : queue[i].id = client.acked + Len(down) + i
  /\ player.last = client.acked + Len(down) + Len(queue)

\* No move is of a later epoch than its client.
AcksKnown ==
  /\ \A i \in DOMAIN up : up[i].ack <= client.acked
  /\ \A i \in DOMAIN cmds : cmds[i].ack <= client.acked

\* The player moves: two corrections are enough, and the last move under way
\* is what the client told.
Playing ==
  /\ player.here /\ player.cell \in 0 .. Cells - 1
  /\ results = <<>>
  /\ Numbered /\ AcksKnown
  /\ Len(down) + Len(queue) <= 2
  /\ Len(down) + Len(queue) = 2 => CellBoundCheck(CellOf(player.pos))

Told ==
  player.last = client.acked =>
    IF up # <<>> THEN up[Len(up)].pos = told /\ up[Len(up)].ack = client.acked
    ELSE IF cmds # <<>> THEN cmds[Len(cmds)].pos = told /\ cmds[Len(cmds)].ack = client.acked
    ELSE player.pos = told

InWorld ==
  /\ client.place = "in" /\ status = "inWorld"
  /\ Kinds(up) \subseteq {"move"} /\ Kinds(cmds) \subseteq {"move"}
  /\ Playing /\ Told

\* One packet of the kind among moves; one after moves.
OnlyOnce(kind, s) ==
  /\ Kinds(s) \subseteq {"move", kind}
  /\ \A i, j \in DOMAIN s : s[i].kind = kind /\ s[j].kind = kind => i = j
AtEnd(kind, s) ==
  /\ s # <<>> /\ s[Len(s)].kind = kind
  /\ \A i \in 1 .. Len(s) - 1 : s[i].kind = "move"

\* The client has left, or was never there.
Out ==
  /\ client.place = "out" /\ status = "authed"
  /\ Kinds(up) \subseteq {"move"}
  /\ Absent /\ down = <<>>

\* A player that was spawned and has not moved.
Fresh ==
  /\ player.here /\ player.last = 0
  /\ player.cell = CellOf(player.pos) /\ CellBoundCheck(player.cell)
  /\ queue = <<>>

\* The request to enter, the command, the result and the answer.
Asking ==
  /\ client.place = "asked" /\ status = "authed"
  /\ AtEnd("enter", up) /\ Absent /\ down = <<>>
Loaded ==
  /\ client.place = "asked" /\ status = "entering"
  /\ up = <<>> /\ down = <<>> /\ queue = <<>>
  /\ ~player.here /\ results = <<>>
  /\ Len(cmds) = 1 /\ cmds[1].kind = "enter"
Spawned ==
  /\ client.place = "asked" /\ status = "entering"
  /\ up = <<>> /\ down = <<>> /\ cmds = <<>>
  /\ Fresh
  /\ Len(results) = 1 /\ results[1].kind = "enter" /\ results[1].pos = player.pos
Welcomed ==
  /\ client.place = "asked" /\ status = "inWorld"
  /\ up = <<>> /\ cmds = <<>> /\ results = <<>>
  /\ Fresh
  /\ Len(down) = 1 /\ down[1].kind = "enter" /\ down[1].pos = player.pos

\* The request to leave, the command, the result and the answer.
Quitting ==
  /\ client.place = "leaving" /\ status = "inWorld"
  /\ OnlyOnce("exit", up) /\ Kinds(cmds) \subseteq {"move"}
  /\ Playing
Despawning ==
  /\ client.place = "leaving" /\ status = "leaving"
  /\ Kinds(up) \subseteq {"move"} /\ AtEnd("exit", cmds)
  /\ Playing
Despawned ==
  /\ client.place = "leaving" /\ status = "leaving"
  /\ Kinds(up) \subseteq {"move"}
  /\ ~player.here /\ cmds = <<>>
  /\ Len(results) = 1 /\ results[1].kind = "exit"
  /\ Kinds(down) \subseteq {"fix"}
Released ==
  /\ client.place = "leaving" /\ status = "authed"
  /\ Kinds(up) \subseteq {"move"}
  /\ Absent
  /\ down # <<>> /\ down[Len(down)].kind = "exit"
  /\ \A i \in 1 .. Len(down) - 1 : down[i].kind = "fix"

Phase ==
  \/ Out \/ Asking \/ Loaded \/ Spawned \/ Welcomed
  \/ InWorld \/ Quitting \/ Despawning \/ Despawned \/ Released

MovementInv ==
  /\ TypeOK
  /\ Len(queue) <= 2
  /\ conn # "byClient"
  /\ conn = "up" => Phase
==============================================================================
