------------------------ MODULE PlayerMovementProofs ------------------------
(***************************************************************************)
(* Theorems of PlayerMovement, for a map, a rule of movement and a packet  *)
(* queue of any size, and any strides and number of visits.                *)
(***************************************************************************)
EXTENDS PlayerMovement, SequenceTheorems, TLAPS

------------------------------------------------------------------------------
(* Cells and queues.                                                       *)

\* A position is in the cell that its distance from the cell's edge says.
LEMMA Division ==
  ASSUME NEW w \in Nat \ {0}, NEW c \in Int, NEW r \in 0 .. w - 1
  PROVE  (c * w + r) \div w = c
  BY SMTT(20)

\* The middle of a cell is in the cell, and the center of the world on the map.
LEMMA Positions ==
  /\ \A p \in Int : CellOf(p) \in Int
  /\ \A c \in 0 .. Cells - 1 : MiddleOf(c) \in Int /\ CellOf(MiddleOf(c)) = c
  /\ CenterOfWorld \in Int /\ CellBoundCheck(CellOf(CenterOfWorld))
<1>1. CellWidth \div 2 \in 0 .. CellWidth - 1 /\ Cells \div 2 \in 0 .. Cells - 1
  BY MapAssumption
<1>2. ASSUME NEW c \in 0 .. Cells - 1
      PROVE  MiddleOf(c) \in Int /\ CellOf(MiddleOf(c)) = c
  <2>1. c * CellWidth \in Int
    BY MapAssumption
  <2> QED
    BY <1>1, <2>1, Division, MapAssumption DEF MiddleOf, CellOf
<1>3. (Cells \div 2) * CellWidth + 0 = CenterOfWorld /\ CenterOfWorld \in Int
  BY <1>1, MapAssumption DEF CenterOfWorld
<1>4. CellOf(CenterOfWorld) = Cells \div 2
  <2>1. ((Cells \div 2) * CellWidth + 0) \div CellWidth = Cells \div 2
    BY <1>1, Division, MapAssumption
  <2> QED
    BY <1>3, <2>1 DEF CellOf
<1>5. \A p \in Int : CellOf(p) \in Int
  BY MapAssumption DEF CellOf
<1> QED
  BY <1>1, <1>2, <1>3, <1>4, <1>5 DEF CellBoundCheck

\* The first of a queue and the rest.
LEMMA Taken ==
  ASSUME NEW S, NEW s \in Seq(S), s # <<>>
  PROVE  /\ Tail(s) \in Seq(S) /\ Len(Tail(s)) = Len(s) - 1
         /\ Head(s) = s[1] /\ Head(s) \in S /\ 1 \in DOMAIN s
         /\ \A i \in DOMAIN Tail(s) : i + 1 \in DOMAIN s /\ Tail(s)[i] = s[i + 1]
         /\ (Tail(s) = <<>> <=> Len(s) = 1)
         /\ Len(s) \in Nat \ {0} /\ DOMAIN s = 1 .. Len(s)
<1>1. Len(s) \in Nat \ {0} /\ DOMAIN s = 1 .. Len(s)
  OBVIOUS
<1>2. Tail(s) \in Seq(S) /\ Len(Tail(s)) = Len(s) - 1
  BY <1>1
<1>3. Tail(s) = <<>> <=> Len(s) = 1
  <2>1. Tail(s) # <<>> => Len(Tail(s)) # 0
    BY <1>2, EmptySeq
  <2>2. Tail(s) = <<>> => Len(Tail(s)) = 0
    BY EmptySeq
  <2> QED
    BY <1>1, <1>2, <2>1, <2>2
<1> QED
  BY <1>1, <1>2, <1>3

\* The first of several is not the last.
LEMMA FirstOfMany == \A n \in Nat \ {0} : n # 1 => 1 \in 1 .. n - 1
  OBVIOUS

\* A queue with one more at its end.
LEMMA Added ==
  ASSUME NEW S, NEW s \in Seq(S), NEW e \in S
  PROVE  /\ Append(s, e) \in Seq(S) /\ Len(Append(s, e)) = Len(s) + 1
         /\ \A i \in DOMAIN s : i \in DOMAIN Append(s, e) /\ Append(s, e)[i] = s[i]
         /\ Append(s, e)[Len(s) + 1] = e
         /\ \A i \in DOMAIN Append(s, e) : i \in DOMAIN s \/ i = Len(s) + 1
         /\ Append(s, e) # <<>>
         /\ Len(s) \in Nat /\ DOMAIN s = 1 .. Len(s)
  OBVIOUS

\* A queue behind another.
LEMMA Joined ==
  ASSUME NEW S, NEW s \in Seq(S), NEW t \in Seq(S)
  PROVE  /\ s \o t \in Seq(S) /\ Len(s \o t) = Len(s) + Len(t)
         /\ \A i \in DOMAIN (s \o t) :
              (s \o t)[i] = IF i <= Len(s) THEN s[i] ELSE t[i - Len(s)]
         /\ DOMAIN s = 1 .. Len(s) /\ DOMAIN t = 1 .. Len(t)
         /\ DOMAIN (s \o t) = 1 .. (Len(s) + Len(t))
         /\ Len(s) \in Nat /\ Len(t) \in Nat
  OBVIOUS

------------------------------------------------------------------------------
(* Types.                                                                  *)

Clients == [place : Places, pos : Int, previous : Int, dirty : BOOLEAN, acked : Nat]
Players == [here : BOOLEAN, pos : Int, cell : Int, last : Nat]

LEMMA InitType == Init => TypeOK
  BY Positions, StridesAssumption DEF Init, TypeOK, Places, Nowhere

\* Sending a correction keeps the types, and queues at most one.
LEMMA CorrectType ==
  ASSUME TypeOK, NEW p \in Players, Correct(p)
  PROVE  /\ queue' \in Seq(Answers) /\ player' \in Players
         /\ player'.here = p.here /\ player'.pos = p.pos /\ player'.cell = p.cell
<1>1. p.last + 1 \in Nat /\ p.pos \in Int
  BY DEF Players
<1>2. [kind |-> "fix", pos |-> p.pos, id |-> p.last + 1] \in Answers
  BY <1>1 DEF Answers
<1>3. [p EXCEPT !.last = @ + 1] \in Players
  BY <1>1 DEF Players
<1>4. queue \in Seq(Answers)
  BY DEF TypeOK
<1>5. CASE Len(queue) < QueueSize
  BY <1>2, <1>3, <1>4, <1>5, Added DEF Correct, Players
<1>6. CASE ~(Len(queue) < QueueSize)
  BY <1>4, <1>6 DEF Correct
<1> QED
  BY <1>5, <1>6

\* The client's half keeps the types.
LEMMA SendType ==
  ASSUME TypeOK, NEW c \in Clients, SendMovementUpdate(c)
  PROVE  client' \in Clients /\ up' \in Seq(Requests) /\ told' \in Int
<1>1. MovementUpdate(c) \in Requests /\ c.pos \in Int
  BY DEF MovementUpdate, Clients, Requests
<1>2. [c EXCEPT !.dirty = FALSE] \in Clients
  BY DEF Clients
<1> QED
  BY <1>1, <1>2, Added DEF TypeOK, SendMovementUpdate

LEMMA FrameType ==
  ASSUME TypeOK, NEW d \in Strides \cup {0}, NEW e \in BOOLEAN, Frame(d, e)
  PROVE  TypeOK'
<1> DEFINE c == HandleMovements(d)
<1>1. c \in Clients
  <2>1. client \in Clients /\ client.pos + d \in Int
    BY StridesAssumption DEF TypeOK, Clients
  <2> QED
    BY <2>1 DEF HandleMovements, Clients
<1>2. client' \in Clients /\ up' \in Seq(Requests) /\ told' \in Int
  BY <1>1, SendType DEF Frame, TypeOK
<1> HIDE DEF c
<1>3. steps' \in 0 .. MaxSteps
  BY StridesAssumption DEF Frame, TypeOK
<1> QED
  BY <1>2, <1>3 DEF Frame, TypeOK, session, sim, Clients

LEMMA CommandType ==
  ASSUME TypeOK, EnterWorld \/ ExitWorld \/ \E c \in 0 .. Cells - 1 : TeleportToGrid(c)
  PROVE  TypeOK'
<1>1. client \in Clients /\ up \in Seq(Requests)
  BY DEF TypeOK, Clients
<1>2. ASSUME NEW c \in 0 .. Cells - 1, TeleportToGrid(c)
      PROVE  TypeOK'
  <2>1. c * CellWidth \in Int
    BY MapAssumption
  <2>2. client' \in Clients
    BY <1>1, <1>2, <2>1 DEF TeleportToGrid, Clients
  <2>3. steps' \in 0 .. MaxSteps
    <3>1. steps \in 0 .. MaxSteps
      BY DEF TypeOK
    <3> QED
      BY <1>2, <3>1, StridesAssumption DEF TeleportToGrid
  <2> QED
    BY <1>2, <2>2, <2>3 DEF TeleportToGrid, TypeOK, session, sim, net, Clients
<1>3. CASE EnterWorld
  <2>1. client' \in Clients
    BY <1>1, <1>3 DEF EnterWorld, Clients, Places
  <2>2. [kind |-> "enter", pos |-> 0, ack |-> 0] \in Requests
    BY DEF Requests
  <2>3. up' \in Seq(Requests)
    BY <1>1, <1>3, <2>2, Added DEF EnterWorld, Send
  <2>4. visits' \in 0 .. MaxVisits
    <3>1. visits \in 0 .. MaxVisits
      BY <1>3 DEF TypeOK
    <3> QED
      BY <1>3, <3>1, StridesAssumption DEF EnterWorld
  <2> QED
    BY <1>3, <2>1, <2>3, <2>4 DEF EnterWorld, TypeOK, session, sim, Clients
<1>4. CASE ExitWorld
  <2>1. client' \in Clients
    BY <1>1, <1>4 DEF ExitWorld, Clients, Places
  <2>2. [kind |-> "exit", pos |-> 0, ack |-> 0] \in Requests
    BY DEF Requests
  <2>3. up' \in Seq(Requests)
    BY <1>1, <1>4, <2>2, Added DEF ExitWorld, Send
  <2> QED
    BY <1>4, <2>1, <2>3 DEF ExitWorld, TypeOK, session, sim, bounds, Clients
<1> QED
  BY <1>2, <1>3, <1>4

LEMMA ReceiveType ==
  ASSUME TypeOK, Receive
  PROVE  TypeOK'
<1> DEFINE m == Head(down)
<1>1. m \in Answers /\ down' \in Seq(Answers)
  BY Taken DEF TypeOK, Receive
<1>2. /\ client' \in Clients /\ up' \in Seq(Requests) /\ told' \in Int
      /\ conn' \in {"up", "lost", "byServer", "byClient"}
  <2>1. CASE HandleEnterWorldResponse(m)
    BY <1>1, <2>1 DEF HandleEnterWorldResponse, TypeOK, Answers, Clients, Places
  <2>2. CASE HandleExitWorldResponse(m)
    BY <1>1, <2>2 DEF HandleExitWorldResponse, TypeOK, Answers, Clients, Places
  <2>3. CASE HandleMovementCorrection(m)
    <3>1. [client EXCEPT !.pos = m.pos, !.acked = m.id, !.dirty = TRUE] \in Clients
      BY <1>1 DEF TypeOK, Answers, Clients
    <3> QED
      BY <2>3, <3>1, SendType DEF HandleMovementCorrection, TypeOK
  <2>4. CASE StatusMismatch(m)
    BY <2>4 DEF StatusMismatch, TypeOK, Clients
  <2> QED
    BY <2>1, <2>2, <2>3, <2>4 DEF Receive
<1> QED
  BY <1>1, <1>2 DEF Receive, TypeOK, session, sim, bounds, Clients

LEMMA ReadType ==
  ASSUME TypeOK, Read
  PROVE  TypeOK'
<1> DEFINE m == Head(up)
<1>1. m \in Requests /\ up' \in Seq(Requests)
  BY Taken DEF TypeOK, Read
<1>2. /\ queue' \in Seq(Answers) /\ cmds' \in Seq(Requests)
      /\ status' \in {"authed", "entering", "inWorld", "leaving"}
      /\ conn' \in {"up", "lost", "byServer", "byClient"}
  <2>1. CASE HandlePlayerMovementUpdate(m)
    BY <1>1, <2>1 DEF HandlePlayerMovementUpdate, TypeOK
  <2>2. CASE HandleExitWorld(m)
    BY <1>1, <2>2 DEF HandleExitWorld, TypeOK
  <2>3. CASE HandleEnterWorld(m)
    <3>1. [m EXCEPT !.pos = saved] \in Requests
      BY <1>1 DEF TypeOK, Requests
    <3> QED
      BY <2>3, <3>1 DEF HandleEnterWorld, TypeOK
  <2>4. CASE Refuse(m.kind)
    BY <2>4 DEF Refuse, TypeOK
  <2> QED
    BY <2>1, <2>2, <2>3, <2>4 DEF Read
<1> QED
  BY <1>1, <1>2 DEF Read, TypeOK, bounds

LEMMA UpdateType ==
  ASSUME TypeOK, ProcessPlayerPacketsQueue \/ ServeResult \/ Lose
  PROVE  TypeOK'
<1>1. CASE ProcessPlayerPacketsQueue
  <2>1. down \o queue \in Seq(Answers)
    BY Joined DEF TypeOK
  <2> QED
    BY <1>1, <2>1 DEF ProcessPlayerPacketsQueue, TypeOK, sim, bounds
<1>2. CASE ServeResult
  <2>1. results' \in Seq(Answers) /\ down' \in Seq(Answers)
    BY <1>2, Taken, Added DEF ServeResult, TypeOK
  <2> QED
    BY <1>2, <2>1 DEF ServeResult, TypeOK, sim, bounds
<1>3. CASE Lose
  BY <1>3 DEF Lose, TypeOK, net, session, sim, bounds
<1> QED
  BY <1>1, <1>2, <1>3

LEMMA CmdType ==
  ASSUME TypeOK, ExecuteWorldCmd
  PROVE  TypeOK'
<1> DEFINE m == Head(cmds)
<1>1. m \in Requests /\ cmds' \in Seq(Requests)
  BY Taken DEF TypeOK, ExecuteWorldCmd
<1>2. /\ queue' \in Seq(Answers) /\ results' \in Seq(Answers)
      /\ player' \in Players /\ saved' \in Int
  <2>1. CASE Spawn(m)
    <3> DEFINE p == IF CellBoundCheck(CellOf(m.pos)) THEN m.pos ELSE CenterOfWorld
    <3>1. p \in Int /\ CellOf(p) \in Int
      BY <1>1, Positions DEF Requests
    <3>2. [kind |-> "enter", pos |-> p, id |-> 0] \in Answers
      BY <3>1 DEF Answers
    <3> HIDE DEF p
    <3>3. [here |-> TRUE, pos |-> p, cell |-> CellOf(p), last |-> 0] \in Players
      BY <3>1 DEF Players
    <3> QED
      BY <2>1, <3>2, <3>3 DEF Spawn, p, TypeOK
  <2>2. CASE SaveAndDespawn(m)
    <3>1. Nowhere \in Players /\ [kind |-> "exit", pos |-> 0, id |-> 0] \in Answers
      BY DEF Nowhere, Players, Answers
    <3> QED
      BY <2>2, <3>1 DEF SaveAndDespawn, TypeOK
  <2>3. CASE UpdatePlayerMovement(m)
    <3>1. player \in Players /\ [player EXCEPT !.pos = m.pos] \in Players
      BY <1>1 DEF TypeOK, Players, Requests
    <3> QED
      BY <2>3, <3>1, CorrectType DEF UpdatePlayerMovement, TypeOK
  <2> QED
    BY <2>1, <2>2, <2>3 DEF ExecuteWorldCmd
<1> QED
  BY <1>1, <1>2 DEF ExecuteWorldCmd, TypeOK, net, bounds, Players

LEMMA ZoneType ==
  ASSUME TypeOK, ZoneUpdate
  PROVE  TypeOK'
<1>1. player \in Players /\ CellOf(player.pos) \in Int
  BY Positions DEF TypeOK, Players
<1>2. MiddleOf(player.cell) \in Int
  BY <1>1, MapAssumption DEF MiddleOf, Players
<1>3. /\ [player EXCEPT !.pos = MiddleOf(player.cell)] \in Players
      /\ [player EXCEPT !.cell = CellOf(player.pos)] \in Players
  BY <1>1, <1>2 DEF Players
<1>4. queue' \in Seq(Answers) /\ player' \in Players
  BY <1>3, CorrectType DEF ZoneUpdate, TypeOK
<1> QED
  BY <1>4 DEF ZoneUpdate, TypeOK, net, bounds, Players

LEMMA TypeStep == TypeOK /\ [Next]_vars => TypeOK'
<1>1. TypeOK /\ UNCHANGED vars => TypeOK'
  BY DEF TypeOK, vars, net, session, sim, bounds
<1> QED
  BY <1>1, FrameType, CommandType, ReceiveType, ReadType, UpdateType, CmdType, ZoneType
     DEF Next

\* Every variable has its type, for any map, rules and bounds: positions may
\* be far outside the map and epochs only grow.
THEOREM TypeCorrect == Spec => []TypeOK
  BY InitType, TypeStep, PTL DEF Spec

------------------------------------------------------------------------------
(* What is under way while the player moves.                               *)

LEMMA KindsTaken ==
  ASSUME NEW S, NEW s \in Seq(S), s # <<>>
  PROVE  Kinds(Tail(s)) \subseteq Kinds(s) /\ Head(s).kind \in Kinds(s)
  BY Taken DEF Kinds

LEMMA KindsAdded ==
  ASSUME NEW S, NEW s \in Seq(S), NEW e \in S
  PROVE  Kinds(Append(s, e)) = Kinds(s) \cup {e.kind}
  BY Added DEF Kinds

LEMMA KindsJoined ==
  ASSUME NEW S, NEW s \in Seq(S), NEW t \in Seq(S), NEW K,
         Kinds(s) \subseteq K, Kinds(t) \subseteq K
  PROVE  Kinds(s \o t) \subseteq K
<1> SUFFICES ASSUME NEW i \in DOMAIN (s \o t)
             PROVE  (s \o t)[i].kind \in K
  BY DEF Kinds
<1>1. CASE i <= Len(s)
  BY <1>1, Joined DEF Kinds
<1>2. CASE ~(i <= Len(s))
  BY <1>2, Joined DEF Kinds
<1> QED
  BY <1>1, <1>2

LEMMA KindsEmpty == Kinds(<<>>) = {} /\ DOMAIN <<>> = {} /\ Len(<<>>) = 0
  BY DEF Kinds

\* The client tells where it is, and may acknowledge the next correction.
LEMMA PlayingSent ==
  ASSUME TypeOK, Playing, NEW c \in Clients, SendMovementUpdate(c),
         UNCHANGED <<cmds, queue, results, player>>,
         \/ down' = down /\ c.acked = client.acked
         \/ down # <<>> /\ down' = Tail(down) /\ c.acked = Head(down).id
  PROVE  Playing' /\ client'.acked = c.acked /\ Told'
<1>1. /\ client.acked \in Nat /\ up \in Seq(Requests)
      /\ down \in Seq(Answers) /\ queue \in Seq(Answers)
      /\ Len(down) \in Nat /\ Len(queue) \in Nat /\ player.last \in Nat
      /\ \A i \in DOMAIN up : up[i].ack \in Nat
      /\ \A i \in DOMAIN cmds : cmds[i].ack \in Nat
  <2>1. /\ client.acked \in Nat /\ up \in Seq(Requests) /\ cmds \in Seq(Requests)
        /\ down \in Seq(Answers) /\ queue \in Seq(Answers) /\ player.last \in Nat
    BY DEF TypeOK
  <2>2. \A e \in Requests : e.ack \in Nat
    BY DEF Requests
  <2> QED
    BY <2>1, <2>2
<1>2. client'.acked = c.acked /\ c.acked \in Nat /\ client'.pos = c.pos
  BY DEF SendMovementUpdate, Clients
<1>3. MovementUpdate(c) \in Requests
  BY DEF MovementUpdate, Clients, Requests
<1>4. c.acked = client.acked + (Len(down) - Len(down'))
      /\ client.acked <= c.acked /\ Len(down') \in Nat /\ Len(down') <= Len(down)
  <2>1. CASE down' = down /\ c.acked = client.acked
    BY <1>1, <2>1
  <2>2. CASE down # <<>> /\ down' = Tail(down) /\ c.acked = Head(down).id
    <3>1. c.acked = client.acked + 1
      BY <1>1, <2>2, Taken DEF Playing, Numbered
    <3>2. Len(down') = Len(down) - 1 /\ Len(down') \in Nat
      BY <1>1, <2>2, Taken
    <3> QED
      BY <1>1, <3>1, <3>2
  <2> QED
    BY <2>1, <2>2
<1>5. Numbered'
  <2>1. CASE down' = down
    BY <1>1, <1>2, <1>4, <2>1 DEF Playing, Numbered
  <2>2. CASE down # <<>> /\ down' = Tail(down)
    <3>1. Kinds(down') \subseteq {"fix"}
      BY <1>1, <2>2, KindsTaken DEF Playing, Numbered
    <3>2. \A i \in DOMAIN down' : down'[i].id = client.acked + (i + 1)
      BY <1>1, <2>2, Taken DEF Playing, Numbered
    <3>3. c.acked = client.acked + 1 /\ Len(down') = Len(down) - 1
      BY <1>1, <1>4, <2>2, Taken
    <3>4. \A i \in DOMAIN down' : i \in Int
      BY <1>1, <2>2, Taken
    <3>5. \A i \in DOMAIN queue : i \in Int
      BY <1>1
    <3>6. \A i \in DOMAIN down' : down'[i].id = c.acked + i
      <4> SUFFICES ASSUME NEW i \in DOMAIN down'
                   PROVE  down'[i].id = c.acked + i
        OBVIOUS
      <4>1. down'[i].id = client.acked + (i + 1) /\ i \in Int
        BY <3>2, <3>4
      <4>2. client.acked \in Nat /\ c.acked = client.acked + 1
        BY <1>1, <3>3
      <4>3. client.acked + (i + 1) = (client.acked + 1) + i
        BY <4>1, <4>2
      <4> QED
        BY <4>1, <4>2, <4>3
    <3>7. \A i \in DOMAIN queue : queue[i].id = c.acked + Len(down') + i
      <4> SUFFICES ASSUME NEW i \in DOMAIN queue
                   PROVE  queue[i].id = c.acked + Len(down') + i
        OBVIOUS
      <4>1. queue[i].id = client.acked + Len(down) + i
        BY DEF Playing, Numbered
      <4>2. c.acked + Len(down') = client.acked + Len(down)
        BY <1>1, <3>3
      <4> QED
        BY <4>1, <4>2
    <3>8. player.last = c.acked + Len(down') + Len(queue) /\ Kinds(queue) \subseteq {"fix"}
      <4>1. player.last = client.acked + Len(down) + Len(queue) /\ Kinds(queue) \subseteq {"fix"}
        BY DEF Playing, Numbered
      <4>2. client.acked \in Nat /\ Len(down) \in Nat /\ Len(queue) \in Nat
        BY <1>1
      <4>3. c.acked + Len(down') = client.acked + Len(down)
        BY <3>3, <4>2
      <4>4. c.acked + Len(down') + Len(queue) = client.acked + Len(down) + Len(queue)
        BY <4>3
      <4> QED
        BY <4>1, <4>4
    <3> QED
      BY <1>2, <3>1, <3>6, <3>7, <3>8 DEF Numbered
  <2> QED
    BY <2>1, <2>2
<1>6. /\ up' \in Seq(Requests) /\ up' # <<>> /\ Len(up') = Len(up) + 1
      /\ up'[Len(up')] = MovementUpdate(c)
      /\ \A i \in DOMAIN up' : up'[i].ack <= c.acked
  <2>1. \A i \in DOMAIN up : up[i].ack <= c.acked
    <3> SUFFICES ASSUME NEW i \in DOMAIN up
                 PROVE  up[i].ack <= c.acked
      OBVIOUS
    <3>1. up[i].ack \in Nat /\ up[i].ack <= client.acked
      BY <1>1 DEF Playing, AcksKnown, Requests
    <3>2. client.acked \in Nat /\ c.acked \in Nat /\ client.acked <= c.acked
      BY <1>1, <1>2, <1>4
    <3> QED
      BY <3>1, <3>2
  <2>2. MovementUpdate(c).ack = c.acked
    BY DEF MovementUpdate
  <2> QED
    BY <1>1, <1>2, <1>3, <2>1, <2>2, Added DEF SendMovementUpdate
<1>7. AcksKnown'
  <2>1. \A i \in DOMAIN cmds : cmds[i].ack <= c.acked
    BY <1>1, <1>2, <1>4 DEF Playing, AcksKnown
  <2> QED
    BY <1>2, <1>6, <2>1 DEF AcksKnown
<1>8. Told'
  <2>1. MovementUpdate(c).pos = c.pos /\ MovementUpdate(c).ack = c.acked
    BY DEF MovementUpdate
  <2> QED
    BY <1>2, <1>6, <2>1 DEF Told, SendMovementUpdate
<1>9. /\ Len(down') + Len(queue') <= 2
      /\ Len(down') + Len(queue') = 2 => CellBoundCheck(CellOf(player.pos))
  BY <1>1, <1>4 DEF Playing
<1> QED
  BY <1>2, <1>5, <1>7, <1>8, <1>9 DEF Playing, CellBoundCheck, CellOf

\* The session posts what it has read.
LEMMA PlayingRead ==
  ASSUME TypeOK, Playing, up # <<>>, up' = Tail(up), cmds' = Append(cmds, Head(up)),
         UNCHANGED <<client, down, queue, results, player>>
  PROVE  Playing'
<1>1. up \in Seq(Requests) /\ cmds \in Seq(Requests)
  BY DEF TypeOK
<1>2. \A i \in DOMAIN up' : up'[i].ack <= client.acked
  BY <1>1, Taken DEF Playing, AcksKnown
<1>3. \A i \in DOMAIN cmds' : cmds'[i].ack <= client.acked
  <2>1. Head(up) \in Requests /\ Head(up).ack <= client.acked
    BY <1>1, Taken DEF Playing, AcksKnown
  <2> QED
    BY <1>1, <2>1, Added DEF Playing, AcksKnown
<1> QED
  BY <1>2, <1>3 DEF Playing, Numbered, AcksKnown, CellBoundCheck, CellOf

\* The session sends what the simulation queued.
LEMMA PlayingDrained ==
  ASSUME TypeOK, Playing, down' = down \o queue, queue' = <<>>,
         UNCHANGED <<client, up, cmds, results, player>>
  PROVE  Playing'
<1>1. /\ client.acked \in Nat /\ down \in Seq(Answers) /\ queue \in Seq(Answers)
      /\ Len(down) \in Nat /\ Len(queue) \in Nat
  BY DEF TypeOK
<1>2. Len(down') = Len(down) + Len(queue) /\ Len(queue') = 0
  BY <1>1, Joined
<1>3. Kinds(down') \subseteq {"fix"} /\ Kinds(queue') \subseteq {"fix"}
  BY <1>1, KindsJoined, KindsEmpty DEF Playing, Numbered
<1>4. ASSUME NEW i \in DOMAIN down'
      PROVE  down'[i].id = client.acked + i
  <2>1. i \in 1 .. (Len(down) + Len(queue))
    BY <1>1, Joined
  <2>2. CASE i <= Len(down)
    BY <1>1, <2>1, <2>2, Joined DEF Playing, Numbered
  <2>3. CASE ~(i <= Len(down))
    <3>1. i - Len(down) \in DOMAIN queue /\ down'[i] = queue[i - Len(down)]
      BY <1>1, <2>1, <2>3, Joined
    <3>2. queue[i - Len(down)].id = client.acked + Len(down) + (i - Len(down))
      BY <3>1 DEF Playing, Numbered
    <3> QED
      BY <1>1, <2>1, <3>1, <3>2
  <2> QED
    BY <2>2, <2>3
<1>5. Numbered'
  BY <1>1, <1>2, <1>3, <1>4 DEF Playing, Numbered
<1> QED
  BY <1>1, <1>2, <1>5 DEF Playing, AcksKnown, CellBoundCheck, CellOf

\* A correction continues the numbering, and none fits in a full queue.
LEMMA CorrectNumbered ==
  ASSUME TypeOK, Numbered, NEW p \in Players, p.last = player.last, Correct(p),
         UNCHANGED <<client, down>>
  PROVE  /\ Numbered'
         /\ \/ Len(queue') = Len(queue) + 1 /\ player'.last = player.last + 1
            \/ queue' = queue /\ player'.last = player.last /\ Len(queue) >= QueueSize
<1>1. /\ client.acked \in Nat /\ queue \in Seq(Answers) /\ Len(queue) \in Nat
      /\ Len(down) \in Nat /\ player.last \in Nat
  BY DEF TypeOK
<1>2. CASE Len(queue) < QueueSize
  <2> DEFINE e == [kind |-> "fix", pos |-> p.pos, id |-> p.last + 1]
  <2>1. e \in Answers /\ e.kind = "fix" /\ e.id = player.last + 1
    BY <1>1 DEF Players, Answers
  <2>2. queue' = Append(queue, e) /\ player'.last = player.last + 1
    BY <1>1, <1>2 DEF Correct, Players
  <2> HIDE DEF e
  <2>3. Kinds(queue') \subseteq {"fix"} /\ Len(queue') = Len(queue) + 1
    BY <1>1, <2>1, <2>2, KindsAdded, Added DEF Numbered
  <2>4. \A i \in DOMAIN queue' : queue'[i].id = client.acked + Len(down) + i
    <3> SUFFICES ASSUME NEW i \in DOMAIN queue'
                 PROVE  queue'[i].id = client.acked + Len(down) + i
      OBVIOUS
    <3>1. CASE i \in DOMAIN queue
      BY <1>1, <2>1, <2>2, <3>1, Added DEF Numbered
    <3>2. CASE i = Len(queue) + 1
      <4>1. queue'[i].id = player.last + 1
        BY <1>1, <2>1, <2>2, <3>2, Added
      <4>2. player.last = client.acked + Len(down) + Len(queue)
        BY DEF Numbered
      <4>3. client.acked \in Nat /\ Len(down) \in Nat /\ Len(queue) \in Nat
        BY <1>1
      <4> QED
        BY <3>2, <4>1, <4>2, <4>3
    <3> QED
      BY <1>1, <2>1, <2>2, <3>1, <3>2, Added
  <2>5. player'.last = client.acked + Len(down) + Len(queue')
    <3>1. player.last = client.acked + Len(down) + Len(queue)
      BY DEF Numbered
    <3>2. Len(queue') = Len(queue) + 1
      BY <2>3
    <3>3. player'.last = player.last + 1
      BY <2>2
    <3>4. client.acked \in Nat /\ Len(down) \in Nat /\ Len(queue) \in Nat
      BY <1>1
    <3> QED
      BY <3>1, <3>2, <3>3, <3>4
  <2>6. Numbered'
    BY <2>3, <2>4, <2>5 DEF Numbered
  <2> QED
    BY <2>2, <2>3, <2>6
<1>3. CASE ~(Len(queue) < QueueSize)
  BY <1>1, <1>3, RulesAssumption DEF Correct, Numbered
<1> QED
  BY <1>2, <1>3

\* The simulation takes a move: it applies or refuses only one of the epoch
\* that the client is in, when no correction is under way.
LEMMA PlayingUpdate ==
  ASSUME TypeOK, Playing, cmds # <<>>, cmds' = Tail(cmds),
         UpdatePlayerMovement(Head(cmds)), UNCHANGED <<client, up, down>>
  PROVE  /\ Playing'
         /\ player' # player => down = <<>> /\ queue = <<>>
<1> DEFINE m == Head(cmds)
<1>1. /\ client.acked \in Nat /\ queue \in Seq(Answers) /\ Len(queue) \in Nat
      /\ down \in Seq(Answers) /\ Len(down) \in Nat /\ player \in Players
      /\ cmds \in Seq(Requests) /\ m \in Requests
  <2>1. /\ client.acked \in Nat /\ queue \in Seq(Answers) /\ down \in Seq(Answers)
        /\ player \in Players /\ cmds \in Seq(Requests)
    BY DEF TypeOK, Players
  <2>2. m \in Requests
    BY <2>1, Taken
  <2> QED
    BY <2>1, <2>2
<1>2. AcksKnown' /\ m.ack <= client.acked
  BY <1>1, Taken DEF Playing, AcksKnown
<1>3. CASE Stale(m)
  BY <1>2, <1>3 DEF UpdatePlayerMovement, Playing, Numbered, CellBoundCheck, CellOf
<1>4. CASE ~Stale(m)
  <2>1. m.ack = player.last
    BY <1>4 DEF Stale
  <2>2. Len(down) = 0 /\ Len(queue) = 0
    <3>1. player.last = client.acked + Len(down) + Len(queue)
      BY DEF Playing, Numbered
    <3> QED
      BY <1>1, <1>2, <2>1, <3>1
  <2>3. down = <<>> /\ queue = <<>>
    BY <1>1, <2>2, EmptySeq
  <2>4. CASE TooFar(m.pos, player.pos)
    <3>1. Correct(player)
      BY <1>4, <2>4 DEF UpdatePlayerMovement, Playing
    <3>2. player'.here /\ player'.cell = player.cell
      BY <1>1, <3>1, CorrectType DEF Playing
    <3>3. Numbered' /\ Len(queue') <= Len(queue) + 1 /\ Len(queue') \in Nat
      BY <1>1, <3>1, CorrectNumbered DEF Playing
    <3>4. /\ Len(down') + Len(queue') <= 2 /\ Len(down') + Len(queue') # 2
          /\ results' = <<>>
      <4>1. results' = <<>>
        BY DEF Playing, UpdatePlayerMovement
      <4>2. Len(down') + Len(queue') <= 1 /\ Len(down') + Len(queue') \in Nat
        BY <1>1, <2>2, <3>3
      <4> QED
        BY <4>1, <4>2
    <3>5. player'.cell \in 0 .. Cells - 1
      BY <3>2 DEF Playing
    <3> QED
      BY <1>1, <1>2, <2>2, <2>3, <3>2, <3>3, <3>4, <3>5 DEF Playing
  <2>5. CASE ~TooFar(m.pos, player.pos)
    <3>1. player' = [player EXCEPT !.pos = m.pos] /\ UNCHANGED <<queue, results>>
      BY <1>4, <2>5 DEF UpdatePlayerMovement, Playing
    <3>2. player'.here /\ player'.cell = player.cell /\ player'.last = player.last
      BY <1>1, <3>1 DEF Playing, Players
    <3>3. Numbered'
      BY <3>1, <3>2 DEF Playing, Numbered
    <3> QED
      BY <1>1, <1>2, <2>2, <2>3, <3>1, <3>2, <3>3 DEF Playing
  <2> QED
    BY <2>4, <2>5
<1> QED
  BY <1>3, <1>4

\* The zone moves the player to its cell, or back into the map, from where it
\* needs no third correction.
LEMMA PlayingZone ==
  ASSUME TypeOK, Playing, ZoneUpdate
  PROVE  /\ Playing'
         /\ player'.last = client'.acked => player'.last = player.last /\ player'.pos = player.pos
<1>1. /\ client.acked \in Nat /\ queue \in Seq(Answers) /\ Len(queue) \in Nat
      /\ down \in Seq(Answers) /\ Len(down) \in Nat /\ player \in Players
  BY DEF TypeOK, Players
<1>2. AcksKnown' /\ UNCHANGED <<client, up, down, cmds, results>>
  BY DEF ZoneUpdate, net, Playing, AcksKnown
<1>3. CASE CellBoundCheck(CellOf(player.pos))
  <2>1. player' = [player EXCEPT !.cell = CellOf(player.pos)] /\ UNCHANGED queue
    BY <1>3 DEF ZoneUpdate
  <2>2. /\ player'.here /\ player'.cell = CellOf(player.pos)
        /\ player'.last = player.last /\ player'.pos = player.pos
    BY <1>1, <2>1 DEF Playing, Players
  <2>3. Numbered'
    BY <1>2, <2>1, <2>2 DEF Playing, Numbered
  <2> QED
    BY <1>2, <1>3, <2>1, <2>2, <2>3 DEF Playing, CellBoundCheck, CellOf
<1>4. CASE ~CellBoundCheck(CellOf(player.pos))
  <2> DEFINE p == [player EXCEPT !.pos = MiddleOf(player.cell)]
  <2>1. MiddleOf(player.cell) \in Int /\ CellOf(MiddleOf(player.cell)) = player.cell
    BY Positions DEF Playing
  <2>2. /\ p \in Players /\ p.last = player.last /\ p.here /\ p.cell = player.cell
        /\ p.pos = MiddleOf(player.cell)
    BY <1>1, <2>1 DEF Players, Playing
  <2>3. Correct(p)
    BY <1>4 DEF ZoneUpdate
  <2> HIDE DEF p
  <2>4. player'.here /\ player'.pos = p.pos /\ player'.cell = player.cell
    BY <2>2, <2>3, CorrectType
  <2>5. CellBoundCheck(CellOf(player'.pos))
    BY <2>1, <2>2, <2>4 DEF CellBoundCheck, Playing
  <2>6. /\ Numbered'
        /\ \/ Len(queue') = Len(queue) + 1 /\ player'.last = player.last + 1
           \/ queue' = queue /\ player'.last = player.last /\ Len(queue) >= QueueSize
    BY <1>2, <2>2, <2>3, CorrectNumbered DEF Playing
  <2>7. Len(down) + Len(queue) <= 1
    BY <1>1, <1>4 DEF Playing
  <2>8. player'.last # client'.acked
    BY <1>1, <1>2, <2>6, RulesAssumption DEF Playing, Numbered
  <2> QED
    BY <1>1, <1>2, <2>4, <2>5, <2>6, <2>7, <2>8 DEF Playing, CellBoundCheck, CellOf
<1> QED
  BY <1>3, <1>4

------------------------------------------------------------------------------
(* The phases of a visit.                                                  *)

Asked == Asking \/ Loaded \/ Spawned \/ Welcomed
Gone  == Quitting \/ Despawning \/ Despawned \/ Released

\* What each action must keep.
Kept ==
  /\ conn' # "byClient"
  /\ Len(queue') <= 2
  /\ conn' = "up" => Phase'

\* The client's place says which phases are possible.
LEMMA PlacePhase ==
  ASSUME Phase
  PROVE  /\ client.place = "out" => Out
         /\ client.place = "asked" => Asked
         /\ client.place = "in" => InWorld
         /\ client.place = "leaving" => Gone
  BY DEF Phase, Asked, Gone, Out, Asking, Loaded, Spawned, Welcomed, InWorld, Quitting,
         Despawning, Despawned, Released

\* The player moves in three of them; in the others two queues are empty.
LEMMA QueuePhase ==
  ASSUME TypeOK, Phase
  PROVE  /\ down # <<>> => Welcomed \/ InWorld \/ Gone
         /\ up # <<>> => Out \/ Asking \/ InWorld \/ Gone
         /\ cmds # <<>> => Loaded \/ InWorld \/ Quitting \/ Despawning
         /\ results # <<>> => Spawned \/ Despawned
         /\ queue # <<>> /\ status = "inWorld" => InWorld \/ Quitting
         /\ player.here /\ player.cell # CellOf(player.pos) => InWorld \/ Quitting \/ Despawning
  BY DEF Phase, Gone, Out, Asking, Loaded, Spawned, Welcomed, InWorld, Quitting,
         Despawning, Despawned, Released, Absent, Playing, Fresh

\* No phase depends on what only the client knows.
LEMMA PhaseKept ==
  ASSUME Phase, client'.place = client.place, client'.acked = client.acked,
         UNCHANGED <<told, net, session, sim>>
  PROVE  Phase'
<1>1. /\ Playing => Playing'
      /\ Told => Told'
      /\ Absent => Absent'
      /\ Fresh => Fresh'
  BY DEF Playing, Numbered, AcksKnown, Told, Absent, Fresh, net, session, sim, CellBoundCheck, CellOf
<1>2. UNCHANGED <<up, down, status, queue, results, cmds, player>>
  BY DEF net, session, sim
<1>3. /\ Out => Out'
      /\ InWorld => InWorld'
  BY <1>1, <1>2 DEF Out, InWorld
<1>4. Asked => Asked'
  BY <1>1, <1>2 DEF Asked, Asking, Loaded, Spawned, Welcomed, AtEnd
<1>5. Gone => Gone'
  BY <1>1, <1>2 DEF Gone, Quitting, Despawning, Despawned, Released, AtEnd, OnlyOnce
<1> QED
  BY <1>3, <1>4, <1>5 DEF Phase, Asked, Gone

LEMMA FramePhase ==
  ASSUME MovementInv, NEW d \in Strides \cup {0}, NEW e \in BOOLEAN, Frame(d, e)
  PROVE  Kept
<1> DEFINE c == HandleMovements(d)
<1>1. /\ TypeOK /\ Phase /\ conn' # "byClient" /\ Len(queue') <= 2
      /\ UNCHANGED <<down, status, queue, results, cmds, player, saved>>
  BY DEF MovementInv, Frame, session, sim
<1>2. c \in Clients /\ c.place = client.place /\ c.acked = client.acked
  <2>1. client \in Clients /\ client.pos + d \in Int
    BY <1>1, StridesAssumption DEF TypeOK, Clients
  <2> QED
    BY <2>1 DEF HandleMovements, Clients
<1>3. CASE e /\ c.place = "in" /\ c.dirty
  <2> HIDE DEF c
  <2>1. SendMovementUpdate(c)
    BY <1>3 DEF Frame, c
  <2>2. InWorld
    BY <1>1, <1>2, <1>3, PlacePhase
  <2>3. Playing' /\ Told' /\ client'.acked = c.acked
    BY <1>1, <1>2, <2>1, <2>2, PlayingSent DEF InWorld
  <2>4. MovementUpdate(c) \in Requests /\ MovementUpdate(c).kind = "move"
    BY <1>2 DEF MovementUpdate, Clients, Requests
  <2>5. Kinds(up') \subseteq {"move"}
    <3>1. up \in Seq(Requests) /\ Kinds(up) \subseteq {"move"}
      BY <1>1, <2>2 DEF TypeOK, InWorld
    <3>2. up' = Append(up, MovementUpdate(c))
      BY <2>1 DEF SendMovementUpdate
    <3> QED
      BY <2>4, <3>1, <3>2, KindsAdded
  <2>6. client'.place = "in"
    BY <1>2, <1>3, <2>1 DEF SendMovementUpdate, Clients
  <2> QED
    BY <1>1, <2>2, <2>3, <2>5, <2>6 DEF Kept, Phase, InWorld
<1>4. CASE ~(e /\ c.place = "in" /\ c.dirty)
  BY <1>1, <1>2, <1>4, PhaseKept DEF Frame, Kept, net
<1> QED
  BY <1>3, <1>4

LEMMA TeleportPhase ==
  ASSUME MovementInv, NEW cell \in 0 .. Cells - 1, TeleportToGrid(cell)
  PROVE  Kept
<1>1. client'.place = client.place /\ client'.acked = client.acked
  BY DEF TeleportToGrid, MovementInv, TypeOK
<1> QED
  BY <1>1, PhaseKept DEF TeleportToGrid, Kept, MovementInv, session

LEMMA EnterPhase ==
  ASSUME MovementInv, EnterWorld
  PROVE  Kept
<1> DEFINE e == [kind |-> "enter", pos |-> 0, ack |-> 0]
<1>1. /\ TypeOK /\ Out /\ conn' # "byClient" /\ Len(queue') <= 2
      /\ UNCHANGED <<down, status, queue, results, cmds, player>>
  BY PlacePhase DEF MovementInv, EnterWorld, session, sim
<1>2. up' = Append(up, e) /\ e \in Requests /\ e.kind = "enter" /\ up \in Seq(Requests)
  BY <1>1 DEF EnterWorld, Send, Requests, TypeOK
<1> HIDE DEF e
<1>3. AtEnd("enter", up)'
  <2>1. \A i \in DOMAIN up : up[i].kind = "move"
    BY <1>1 DEF Out, Kinds
  <2>2. up' # <<>> /\ Len(up') = Len(up) + 1 /\ up'[Len(up) + 1] = e
    BY <1>2, Added
  <2>3. \A i \in 1 .. Len(up') - 1 : up'[i] = up[i] /\ i \in DOMAIN up
    BY <1>2, <2>2, Added
  <2> QED
    BY <1>2, <2>1, <2>2, <2>3 DEF AtEnd
<1>4. client'.place = "asked"
  BY <1>1 DEF EnterWorld, TypeOK
<1> QED
  BY <1>1, <1>3, <1>4 DEF Kept, Phase, Out, Asking, Absent

LEMMA ExitPhase ==
  ASSUME MovementInv, ExitWorld
  PROVE  Kept
<1> DEFINE e == [kind |-> "exit", pos |-> 0, ack |-> 0]
<1>1. /\ TypeOK /\ InWorld /\ conn' # "byClient" /\ Len(queue') <= 2
      /\ UNCHANGED <<down, status, queue, results, cmds, player>>
  BY PlacePhase DEF MovementInv, ExitWorld, session, sim
<1>2. /\ up' = Append(up, e) /\ e \in Requests /\ e.kind = "exit" /\ e.ack = 0
      /\ up \in Seq(Requests)
  BY <1>1 DEF ExitWorld, Send, Requests, TypeOK
<1> HIDE DEF e
<1>3. client'.place = "leaving" /\ client'.acked = client.acked /\ client.acked \in Nat
  BY <1>1 DEF ExitWorld, TypeOK
<1>4. OnlyOnce("exit", up)'
  <2>1. Kinds(up') \subseteq {"move", "exit"}
    BY <1>1, <1>2, KindsAdded DEF InWorld
  <2>2. \A i \in DOMAIN up : up[i].kind = "move"
    BY <1>1 DEF InWorld, Kinds
  <2>3. \A i \in DOMAIN up' : up'[i].kind = "exit" => i = Len(up) + 1
    BY <1>2, <2>2, Added
  <2> QED
    BY <2>1, <2>3 DEF OnlyOnce
<1>5. Playing'
  <2>1. \A i \in DOMAIN up' : up'[i].ack <= client.acked
    BY <1>1, <1>2, <1>3, Added DEF InWorld, Playing, AcksKnown
  <2>2. AcksKnown'
    BY <1>1, <1>3, <2>1 DEF InWorld, Playing, AcksKnown
  <2>3. Numbered'
    BY <1>1, <1>3 DEF InWorld, Playing, Numbered
  <2> QED
    BY <1>1, <2>2, <2>3 DEF InWorld, Playing, CellBoundCheck, CellOf
<1> QED
  BY <1>1, <1>3, <1>4, <1>5 DEF Kept, Phase, InWorld, Quitting

------------------------------------------------------------------------------
(* A packet reaches the client.                                            *)

\* The answer to ENTER_WORLD: nothing is under way, and the epoch is the first.
LEMMA WelcomedReceives ==
  ASSUME MovementInv, Welcomed, Receive
  PROVE  Kept
<1>1. /\ TypeOK /\ conn' # "byClient" /\ UNCHANGED <<conn, up>>
      /\ HandleEnterWorldResponse(Head(down))
      /\ down' = Tail(down) /\ down # <<>>
      /\ UNCHANGED <<status, queue, results, cmds, player>>
  BY Taken DEF MovementInv, Receive, session, sim, Welcomed, HandleEnterWorldResponse,
       HandleExitWorldResponse, HandleMovementCorrection, StatusMismatch, InWorldStatus, TypeOK
<1>2. down' = <<>> /\ Head(down).pos = player.pos
  BY <1>1, Taken DEF Welcomed, TypeOK
<1>3. client'.place = "in" /\ client'.acked = 0 /\ told' = player.pos
  BY <1>1, <1>2 DEF HandleEnterWorldResponse, TypeOK
<1>4. Playing'
  <2>1. Numbered'
    <3>1. queue' = <<>> /\ player'.last = 0
      BY <1>1 DEF Welcomed, Fresh
    <3> QED
      BY <1>2, <1>3, <3>1, KindsEmpty DEF Numbered
  <2>2. AcksKnown'
    BY <1>1 DEF AcksKnown, Welcomed
  <2>3. player'.here /\ player'.cell \in 0 .. Cells - 1 /\ results' = <<>>
    BY <1>1, MapAssumption DEF Welcomed, Fresh, CellBoundCheck, TypeOK
  <2>4. Len(down') = 0 /\ Len(queue') = 0
    BY <1>1, <1>2, KindsEmpty DEF Welcomed, Fresh
  <2> QED
    BY <2>1, <2>2, <2>3, <2>4 DEF Playing
<1>5. InWorld' /\ Len(queue') <= 2
  BY <1>1, <1>3, <1>4, KindsEmpty DEF InWorld, Told, Welcomed, Fresh, MovementInv
<1> QED
  BY <1>1, <1>5 DEF Kept, Phase

\* A correction is applied and acknowledged by one more packet.
LEMMA Acknowledged ==
  ASSUME TypeOK, HandleMovementCorrection(Head(down)), down # <<>>
  PROVE  \E c \in Clients :
           /\ c.place = client.place /\ c.acked = Head(down).id
           /\ SendMovementUpdate(c)
           /\ client'.place = client.place
           /\ MovementUpdate(c) \in Requests /\ MovementUpdate(c).kind = "move"
           /\ up' = Append(up, MovementUpdate(c))
<1> DEFINE m == Head(down)
           c == [client EXCEPT !.pos = m.pos, !.acked = m.id, !.dirty = TRUE]
<1>1. m \in Answers /\ client \in Clients
  BY Taken DEF TypeOK, Clients
<1>2. c \in Clients /\ c.place = client.place /\ c.acked = m.id
  BY <1>1 DEF Clients, Answers
<1>3. SendMovementUpdate(c)
  BY DEF HandleMovementCorrection
<1> HIDE DEF c
<1>4. MovementUpdate(c) \in Requests /\ MovementUpdate(c).kind = "move"
  BY <1>2 DEF MovementUpdate, Clients, Requests
<1>5. client'.place = client.place /\ up' = Append(up, MovementUpdate(c))
  BY <1>2, <1>3 DEF SendMovementUpdate, Clients
<1> QED
  BY <1>2, <1>3, <1>4, <1>5

\* A correction is what a client gets while its player moves.
LEMMA PlayingReceives ==
  ASSUME MovementInv, InWorld \/ Quitting \/ Despawning, Receive
  PROVE  Kept
<1>1. /\ TypeOK /\ Playing /\ InWorldStatus /\ conn # "byClient" /\ down # <<>>
      /\ Head(down).kind = "fix" /\ Len(queue) <= 2
  <2>1. TypeOK /\ Playing /\ InWorldStatus /\ conn # "byClient" /\ Len(queue) <= 2
    BY DEF MovementInv, InWorld, Quitting, Despawning, InWorldStatus
  <2>2. down # <<>> /\ down \in Seq(Answers)
    BY <2>1 DEF Receive, TypeOK
  <2>3. Head(down).kind \in {"fix"}
    BY <2>1, <2>2, KindsTaken DEF Playing, Numbered
  <2> QED
    BY <2>1, <2>2, <2>3
<1>2. /\ HandleMovementCorrection(Head(down)) /\ conn' = conn /\ down' = Tail(down)
      /\ UNCHANGED <<status, queue, results, cmds, player>>
  BY <1>1 DEF Receive, session, sim, HandleEnterWorldResponse, HandleExitWorldResponse,
       HandleMovementCorrection, StatusMismatch
<1>3. PICK c \in Clients :
        /\ c.place = client.place /\ c.acked = Head(down).id
        /\ SendMovementUpdate(c)
        /\ client'.place = client.place
        /\ MovementUpdate(c) \in Requests /\ MovementUpdate(c).kind = "move"
        /\ up' = Append(up, MovementUpdate(c))
  BY <1>1, <1>2, Acknowledged
<1>4. Playing' /\ Told'
  BY <1>1, <1>2, <1>3, PlayingSent
<1>5. up \in Seq(Requests) /\ Kinds(up') = Kinds(up) \cup {"move"}
  <2>1. up \in Seq(Requests)
    BY <1>1 DEF TypeOK
  <2> QED
    BY <1>3, <2>1, KindsAdded
<1>6. CASE InWorld
  BY <1>1, <1>2, <1>3, <1>4, <1>5, <1>6 DEF Kept, Phase, InWorld
<1>7. CASE Quitting
  <2>1. \A i \in DOMAIN up' : up'[i].kind = "exit" => i \in DOMAIN up /\ up'[i] = up[i]
    BY <1>3, <1>5, Added
  <2>2. OnlyOnce("exit", up)'
    BY <1>5, <1>7, <2>1 DEF Quitting, OnlyOnce
  <2> QED
    BY <1>1, <1>2, <1>3, <1>4, <1>7, <2>2 DEF Kept, Phase, Quitting
<1>8. CASE Despawning
  BY <1>1, <1>2, <1>3, <1>4, <1>5, <1>8 DEF Kept, Phase, Despawning, AtEnd
<1> QED
  BY <1>6, <1>7, <1>8

\* A client that leaves gets corrections that were sent before, then the answer.
LEMMA GoneReceives ==
  ASSUME MovementInv, Despawned \/ Released, Receive
  PROVE  Kept
<1> DEFINE m == Head(down)
<1>1. /\ TypeOK /\ conn = "up" /\ InWorldStatus /\ client.place = "leaving"
      /\ down # <<>> /\ down' = Tail(down)
      /\ Len(queue) <= 2 /\ UNCHANGED <<status, queue, results, cmds, player>>
  BY DEF MovementInv, Receive, session, sim, Despawned, Released, InWorldStatus
<1>2. /\ m = down[1] /\ m \in Answers /\ down \in Seq(Answers) /\ down' \in Seq(Answers)
      /\ Len(down') = Len(down) - 1 /\ Len(down) \in Nat \ {0}
      /\ \A i \in 1 .. Len(down') : down'[i] = down[i + 1]
      /\ (down' = <<>> <=> Len(down) = 1)
  <2>1. down \in Seq(Answers)
    BY <1>1 DEF TypeOK
  <2>2. down' \in Seq(Answers)
    BY <1>1, <2>1, Taken
  <2>3. DOMAIN down' = 1 .. Len(down')
    BY <2>2
  <2> QED
    BY <1>1, <2>1, <2>2, <2>3, Taken
<1>3. CASE m.kind = "fix"
  <2>1. HandleMovementCorrection(m) /\ conn' = conn
    BY <1>1, <1>3 DEF Receive, HandleEnterWorldResponse, HandleExitWorldResponse,
         HandleMovementCorrection, StatusMismatch
  <2>2. client'.place = "leaving" /\ Kinds(up') = Kinds(up) \cup {"move"}
    <3>1. PICK c \in Clients :
            /\ client'.place = client.place
            /\ MovementUpdate(c) \in Requests /\ MovementUpdate(c).kind = "move"
            /\ up' = Append(up, MovementUpdate(c))
      BY <1>1, <2>1, Acknowledged
    <3>2. up \in Seq(Requests)
      BY <1>1 DEF TypeOK
    <3> QED
      BY <1>1, <3>1, <3>2, KindsAdded
  <2>3. CASE Despawned
    <3>1. Kinds(down') \subseteq {"fix"}
      BY <1>1, <1>2, <2>3, KindsTaken DEF Despawned
    <3> QED
      BY <1>1, <2>1, <2>2, <2>3, <3>1 DEF Kept, Phase, Despawned
  <2>4. CASE Released
    <3>1. Len(down) # 1
      BY <1>2, <1>3, <2>4 DEF Released
    <3>2. down' # <<>> /\ down'[Len(down')] = down[Len(down)]
      BY <1>2, <3>1
    <3>3. \A i \in 1 .. Len(down') - 1 : down'[i].kind = "fix"
      BY <1>2, <2>4 DEF Released
    <3> QED
      BY <1>1, <2>1, <2>2, <2>4, <3>2, <3>3 DEF Kept, Phase, Released, Absent
  <2> QED
    BY <2>3, <2>4
<1>4. CASE m.kind # "fix"
  <2>1. Released /\ Len(down) = 1 /\ m.kind = "exit"
    <3>1. ~Despawned
      BY <1>1, <1>2, <1>4, KindsTaken DEF Despawned
    <3>2. Len(down) = 1
      BY <1>2, <1>4, <3>1 DEF Released
    <3> QED
      BY <1>2, <3>1, <3>2 DEF Released
  <2>2. HandleExitWorldResponse(m)
    BY <1>1, <2>1 DEF Receive, HandleEnterWorldResponse, HandleExitWorldResponse,
         HandleMovementCorrection, StatusMismatch
  <2>3. client'.place = "out" /\ UNCHANGED <<conn, up>>
    BY <1>1, <2>2 DEF HandleExitWorldResponse, TypeOK
  <2> QED
    BY <1>1, <1>2, <2>1, <2>3 DEF Kept, Phase, Released, Out, Absent
<1> QED
  BY <1>3, <1>4

LEMMA ReceivePhase == MovementInv /\ Receive => Kept
<1> SUFFICES ASSUME MovementInv, Receive
             PROVE  Kept
  OBVIOUS
<1>1. Welcomed \/ InWorld \/ Gone
  BY QueuePhase DEF MovementInv, Receive
<1> QED
  BY <1>1, WelcomedReceives, PlayingReceives, GoneReceives DEF Gone

------------------------------------------------------------------------------
(* The session reads, sends and answers.                                   *)

\* The request to enter is read when nothing else is under way.
LEMMA AskingReads ==
  ASSUME MovementInv, Asking, Read
  PROVE  Kept
<1> DEFINE m == Head(up)
<1>1. /\ TypeOK /\ conn = "up" /\ Len(queue) <= 2 /\ up # <<>> /\ up' = Tail(up)
      /\ UNCHANGED <<client, down, results, player>>
  BY DEF MovementInv, Read
<1>2. up \in Seq(Requests) /\ m = up[1] /\ (up' = <<>> <=> Len(up) = 1) /\ Len(up) \in Nat \ {0}
  BY <1>1, Taken DEF TypeOK
<1>3. CASE HandleEnterWorld(m)
  <2>1. up' = <<>>
    <3>1. up[1].kind = "enter"
      BY <1>2, <1>3 DEF HandleEnterWorld
    <3>2. Len(up) # 1 => 1 \in 1 .. Len(up) - 1
      BY <1>2, FirstOfMany
    <3>3. \A i \in 1 .. Len(up) - 1 : up[i].kind = "move"
      BY DEF Asking, AtEnd
    <3> QED
      BY <1>2, <3>1, <3>2, <3>3
  <2>2. Len(cmds') = 1 /\ cmds'[1].kind = "enter"
    <3>1. [m EXCEPT !.pos = saved] \in Requests /\ [m EXCEPT !.pos = saved].kind = "enter"
      <4>1. m \in Requests /\ m.kind = "enter" /\ saved \in Int
        BY <1>1, <1>2, <1>3, Taken DEF HandleEnterWorld, TypeOK
      <4> QED
        BY <4>1 DEF Requests
    <3>2. cmds = <<>> /\ cmds' = Append(cmds, [m EXCEPT !.pos = saved])
      BY <1>3 DEF HandleEnterWorld, Asking, Absent
    <3> DEFINE e == [m EXCEPT !.pos = saved]
    <3> HIDE DEF e
    <3>3. cmds' = <<e>>
      BY <3>2 DEF e
    <3> QED
      BY <3>1, <3>3 DEF e
  <2>3. conn' = "up" /\ status' = "entering" /\ queue' = <<>> /\ Len(queue') <= 2
    BY <1>1, <1>3, KindsEmpty DEF HandleEnterWorld
  <2> QED
    BY <1>1, <2>1, <2>2, <2>3 DEF Kept, Phase, Asking, Loaded, Absent
<1>4. CASE Refuse(m.kind)
  BY <1>1, <1>4 DEF Refuse, Kept
<1> QED
  BY <1>3, <1>4 DEF Read, Asking, HandlePlayerMovementUpdate, HandleExitWorld

\* Moves, and the request to leave, are posted as they come.
LEMMA PlayingReads ==
  ASSUME MovementInv, InWorld \/ Quitting, Read
  PROVE  Kept
<1> DEFINE m == Head(up)
<1>1. /\ TypeOK /\ Playing /\ conn = "up" /\ Len(queue) <= 2 /\ up # <<>> /\ up' = Tail(up)
      /\ status = "inWorld" /\ Kinds(cmds) \subseteq {"move"}
      /\ UNCHANGED <<client, told, down, results, player>>
  BY DEF MovementInv, Read, InWorld, Quitting
<1>2. /\ up \in Seq(Requests) /\ cmds \in Seq(Requests) /\ m \in Requests /\ m = up[1]
      /\ Len(up') = Len(up) - 1 /\ Len(up) \in Nat \ {0} /\ (up' = <<>> <=> Len(up) = 1)
      /\ DOMAIN up = 1 .. Len(up)
      /\ \A i \in DOMAIN up' : i + 1 \in DOMAIN up /\ up'[i] = up[i + 1] /\ i \in Int
  <2>1. up \in Seq(Requests) /\ cmds \in Seq(Requests)
    BY <1>1 DEF TypeOK
  <2> QED
    BY <1>1, <2>1, Taken
<1>3. CASE HandlePlayerMovementUpdate(m)
  <2>1. cmds' = Append(cmds, m) /\ m.kind = "move" /\ UNCHANGED <<conn, status, queue>>
    BY <1>3 DEF HandlePlayerMovementUpdate
  <2>2. Playing'
    BY <1>1, <2>1, PlayingRead
  <2>3. Kinds(cmds') \subseteq {"move"} /\ Kinds(up') \subseteq Kinds(up)
    BY <1>1, <1>2, <2>1, KindsAdded, KindsTaken
  <2>4. CASE InWorld
    <3>1. Told'
      <4> SUFFICES ASSUME player.last = client.acked
                   PROVE  IF up' # <<>>
                          THEN up'[Len(up')].pos = told /\ up'[Len(up')].ack = client.acked
                          ELSE /\ cmds' # <<>>
                               /\ cmds'[Len(cmds')].pos = told
                               /\ cmds'[Len(cmds')].ack = client.acked
        BY <1>1 DEF Told
      <4>1. up[Len(up)].pos = told /\ up[Len(up)].ack = client.acked
        BY <1>1, <2>4 DEF InWorld, Told
      <4>2. CASE up' # <<>>
        <5>1. Len(up') \in DOMAIN up' /\ Len(up') + 1 = Len(up)
          BY <1>1, <1>2, <4>2, Taken
        <5> QED
          BY <1>2, <4>1, <4>2, <5>1
      <4>3. CASE up' = <<>>
        <5>1. cmds' # <<>> /\ cmds'[Len(cmds')] = m /\ m = up[Len(up)]
          BY <1>2, <2>1, <4>3, Added
        <5> QED
          BY <4>1, <4>3, <5>1
      <4> QED
        BY <4>2, <4>3
    <3> QED
      BY <1>1, <2>1, <2>2, <2>3, <2>4, <3>1 DEF Kept, Phase, InWorld
  <2>5. CASE Quitting
    <3>1. OnlyOnce("exit", up)'
      <4>1. Kinds(up') \subseteq {"move", "exit"}
        BY <2>3, <2>5 DEF Quitting, OnlyOnce
      <4>2. ASSUME NEW i \in DOMAIN up', NEW j \in DOMAIN up',
                   up'[i].kind = "exit", up'[j].kind = "exit"
            PROVE  i = j
        <5>1. i + 1 = j + 1
          BY <1>2, <2>5, <4>2 DEF Quitting, OnlyOnce
        <5> QED
          BY <1>2, <5>1
      <4> QED
        BY <4>1, <4>2 DEF OnlyOnce
    <3> QED
      BY <1>1, <2>1, <2>2, <2>3, <2>5, <3>1 DEF Kept, Phase, Quitting
  <2> QED
    BY <2>4, <2>5
<1>4. CASE HandleExitWorld(m)
  <2>1. /\ cmds' = Append(cmds, m) /\ m.kind = "exit" /\ status' = "leaving"
        /\ UNCHANGED <<conn, queue>>
    BY <1>4 DEF HandleExitWorld
  <2>2. Quitting
    BY <1>1, <1>2, <2>1, KindsTaken DEF InWorld
  <2>3. Playing'
    BY <1>1, <2>1, PlayingRead
  <2>4. Kinds(up') \subseteq {"move"}
    <3>1. ASSUME NEW i \in DOMAIN up'
          PROVE  up'[i].kind = "move"
      <4>1. up'[i] = up[i + 1] /\ i + 1 \in DOMAIN up /\ i + 1 # 1
        BY <1>1, <1>2, <3>1, Taken
      <4>2. up[i + 1].kind # "exit"
        BY <1>2, <2>1, <2>2, <4>1 DEF Quitting, OnlyOnce
      <4> QED
        BY <2>2, <4>1, <4>2 DEF Quitting, OnlyOnce, Kinds
    <3> QED
      BY <3>1 DEF Kinds
  <2>5. AtEnd("exit", cmds)'
    <3>1. \A i \in DOMAIN cmds : cmds[i].kind = "move"
      BY <1>1 DEF Kinds
    <3>2. /\ cmds' # <<>> /\ Len(cmds') = Len(cmds) + 1 /\ cmds'[Len(cmds) + 1] = m
          /\ DOMAIN cmds = 1 .. Len(cmds) /\ Len(cmds) \in Nat
          /\ \A i \in DOMAIN cmds : cmds'[i] = cmds[i]
      BY <1>2, <2>1, Added
    <3>3. \A i \in 1 .. Len(cmds') - 1 : cmds'[i] = cmds[i] /\ i \in DOMAIN cmds
      BY <3>2
    <3> QED
      BY <2>1, <3>1, <3>2, <3>3 DEF AtEnd
  <2> QED
    BY <1>1, <2>1, <2>2, <2>3, <2>4, <2>5 DEF Kept, Phase, Quitting, Despawning
<1>5. CASE Refuse(m.kind)
  BY <1>1, <1>5 DEF Refuse, Kept
<1> QED
  BY <1>1, <1>3, <1>4, <1>5 DEF Read, HandleEnterWorld

\* Elsewhere a packet closes the connection.
LEMMA ReadPhase == MovementInv /\ Read => Kept
<1> SUFFICES ASSUME MovementInv, Read
             PROVE  Kept
  OBVIOUS
<1>1. Out \/ Asking \/ InWorld \/ Gone
  BY QueuePhase DEF MovementInv, Read
<1>2. CASE Out \/ Despawning \/ Despawned \/ Released
  <2>1. Head(up).kind = "move" /\ status # "inWorld" /\ Len(queue) <= 2
    BY <1>2, KindsTaken
       DEF Read, Out, Despawning, Despawned, Released, MovementInv, TypeOK
  <2>2. Refuse(Head(up).kind)
    BY <2>1 DEF Read, HandlePlayerMovementUpdate, HandleExitWorld, HandleEnterWorld
  <2> QED
    BY <2>1, <2>2 DEF Refuse, Kept
<1> QED
  BY <1>1, <1>2, AskingReads, PlayingReads DEF Gone

LEMMA DrainPhase == MovementInv /\ ProcessPlayerPacketsQueue => Kept
<1> SUFFICES ASSUME MovementInv, ProcessPlayerPacketsQueue
             PROVE  Kept
  OBVIOUS
<1>1. /\ TypeOK
      /\ InWorld \/ Quitting
      /\ UNCHANGED <<conn, client, told, up, status, results, cmds, player>>
      /\ down' = down \o queue /\ queue' = <<>> /\ conn' # "byClient"
  BY QueuePhase DEF MovementInv, ProcessPlayerPacketsQueue, sim
<1>2. Playing'
  BY <1>1, PlayingDrained DEF InWorld, Quitting, MovementInv
<1>3. Len(queue') <= 2
  BY <1>1, KindsEmpty
<1>4. CASE InWorld
  BY <1>1, <1>2, <1>3, <1>4 DEF Kept, Phase, InWorld, Told
<1>5. CASE Quitting
  BY <1>1, <1>2, <1>3, <1>5 DEF Kept, Phase, Quitting, OnlyOnce
<1> QED
  BY <1>1, <1>4, <1>5

LEMMA ResultPhase == MovementInv /\ ServeResult => Kept
<1> SUFFICES ASSUME MovementInv, ServeResult
             PROVE  Kept
  OBVIOUS
<1> DEFINE m == Head(results)
<1>1. /\ TypeOK
      /\ Spawned \/ Despawned
      /\ UNCHANGED <<conn, client, up, queue, cmds, player>>
      /\ results # <<>> /\ results' = Tail(results) /\ down' = Append(down, m)
      /\ conn' # "byClient" /\ Len(queue') <= 2
  BY QueuePhase DEF MovementInv, ServeResult, sim
<1>2. /\ Len(results) = 1 /\ results' = <<>> /\ m = results[1] /\ m \in Answers
      /\ down \in Seq(Answers)
  BY <1>1, Taken DEF Spawned, Despawned, TypeOK
<1>3. /\ down' # <<>> /\ Len(down') = Len(down) + 1 /\ down'[Len(down) + 1] = m
      /\ \A i \in 1 .. Len(down') - 1 : down'[i] = down[i] /\ i \in DOMAIN down
  <2>1. DOMAIN down = 1 .. Len(down) /\ Len(down) \in Nat
    BY <1>2
  <2> QED
    BY <1>1, <1>2, <2>1, Added
<1>4. CASE Spawned
  <2>1. status' = "inWorld"
    BY <1>2, <1>4 DEF ServeResult, Spawned
  <2>2. Len(down') = 1 /\ down'[1] = m
    BY <1>3, <1>4, KindsEmpty DEF Spawned
  <2> QED
    BY <1>1, <1>2, <1>4, <2>1, <2>2
       DEF Kept, Phase, Spawned, Welcomed, Fresh, CellBoundCheck, CellOf
<1>5. CASE Despawned
  <2>1. status' = "authed" /\ m.kind = "exit"
    BY <1>2, <1>5 DEF ServeResult, Despawned
  <2>2. \A i \in DOMAIN down : down[i].kind = "fix"
    BY <1>5 DEF Despawned, Kinds
  <2>3. down'[Len(down')].kind = "exit" /\ \A i \in 1 .. Len(down') - 1 : down'[i].kind = "fix"
    BY <1>3, <2>1, <2>2
  <2> QED
    BY <1>1, <1>2, <1>3, <1>5, <2>1, <2>3 DEF Kept, Phase, Despawned, Released, Absent
<1> QED
  BY <1>1, <1>4, <1>5

------------------------------------------------------------------------------
(* The simulation.                                                         *)

\* Spawning takes the position of the row, or the center of the world.
LEMMA LoadedExecutes ==
  ASSUME MovementInv, Loaded, ExecuteWorldCmd
  PROVE  Kept
<1> DEFINE m == Head(cmds)
           p == IF CellBoundCheck(CellOf(m.pos)) THEN m.pos ELSE CenterOfWorld
<1>1. /\ TypeOK /\ cmds # <<>> /\ cmds' = Tail(cmds) /\ conn' # "byClient"
      /\ UNCHANGED <<client, up, down, status>>
  BY DEF MovementInv, ExecuteWorldCmd, net
<1>2. cmds' = <<>> /\ m = cmds[1] /\ m \in Requests
  BY <1>1, Taken DEF Loaded, TypeOK
<1>3. Spawn(m)
  BY <1>2 DEF ExecuteWorldCmd, Loaded, SaveAndDespawn, UpdatePlayerMovement
<1>4. p \in Int /\ CellBoundCheck(CellOf(p))
  BY <1>2, Positions DEF Requests
<1>5. /\ player' = [here |-> TRUE, pos |-> p, cell |-> CellOf(p), last |-> 0]
      /\ results' = Append(results, [kind |-> "enter", pos |-> p, id |-> 0])
      /\ UNCHANGED queue
  BY <1>3 DEF Spawn
<1> HIDE DEF p
<1>6. Fresh'
  BY <1>1, <1>4, <1>5 DEF Fresh, CellBoundCheck, CellOf, Loaded
<1>7. Len(results') = 1 /\ results'[1].kind = "enter" /\ results'[1].pos = player'.pos
  BY <1>5 DEF Loaded
<1> QED
  BY <1>1, <1>2, <1>5, <1>6, <1>7 DEF Kept, Phase, Loaded, Spawned, MovementInv

\* A client that knows of every correction after a move knew of them before it,
\* and its move, of no earlier epoch, was applied.
LEMMA EpochOf ==
  ASSUME TypeOK, Playing, cmds # <<>>, UpdatePlayerMovement(Head(cmds)),
         player'.last = client.acked
  PROVE  /\ player.last = client.acked
         /\ player' = IF Stale(Head(cmds)) THEN player
                      ELSE [player EXCEPT !.pos = Head(cmds).pos]
<1> DEFINE m == Head(cmds)
<1>1. /\ client.acked \in Nat /\ Len(queue) \in Nat /\ Len(down) \in Nat
      /\ player \in Players /\ player.last \in Nat
      /\ player.last = client.acked + Len(down) + Len(queue)
      /\ cmds \in Seq(Requests) /\ m \in Requests
  <2>1. /\ client.acked \in Nat /\ queue \in Seq(Answers) /\ down \in Seq(Answers)
        /\ player \in Players /\ player.last \in Nat /\ cmds \in Seq(Requests)
    BY DEF TypeOK, Players
  <2>2. player.last = client.acked + Len(down) + Len(queue)
    BY DEF Playing, Numbered
  <2> QED
    BY <2>1, <2>2, Taken
<1>2. CASE Stale(m)
  BY <1>1, <1>2 DEF UpdatePlayerMovement
<1>3. CASE ~Stale(m) /\ ~TooFar(m.pos, player.pos)
  <2>1. player' = [player EXCEPT !.pos = m.pos]
    BY <1>3 DEF UpdatePlayerMovement, Playing
  <2> QED
    BY <1>1, <1>3, <2>1 DEF Players
<1>4. CASE ~Stale(m) /\ TooFar(m.pos, player.pos)
  <2>1. Correct(player)
    BY <1>4 DEF UpdatePlayerMovement, Playing
  <2>2. m.ack <= client.acked /\ m.ack = player.last
    BY <1>1, <1>4, Taken DEF Stale, Playing, AcksKnown
  <2>3. Len(queue) = 0
    BY <1>1, <2>2 DEF Requests
  <2>4. player'.last = player.last + 1
    BY <1>1, <2>1, <2>3, RulesAssumption DEF Correct, Players
  <2> QED
    BY <1>1, <2>4
<1> QED
  BY <1>2, <1>3, <1>4

\* A move, and its refusal.
LEMMA MoveExecutes ==
  ASSUME MovementInv, InWorld \/ Quitting \/ Despawning, ExecuteWorldCmd,
         Head(cmds).kind = "move"
  PROVE  Kept /\ (player' # player => down = <<>> /\ queue = <<>>)
<1> DEFINE m == Head(cmds)
<1>1. /\ TypeOK /\ Playing /\ cmds # <<>> /\ cmds' = Tail(cmds) /\ conn' # "byClient"
      /\ UpdatePlayerMovement(m) /\ UNCHANGED <<client, told, up, down, status>>
  BY DEF MovementInv, ExecuteWorldCmd, net, Spawn, SaveAndDespawn, UpdatePlayerMovement,
         InWorld, Quitting, Despawning
<1>2. /\ Playing'
      /\ player' # player => down = <<>> /\ queue = <<>>
  BY <1>1, PlayingUpdate
<1>3. Len(queue') <= 2
  <2>1. /\ Len(down') + Len(queue') <= 2 /\ player \in Players
        /\ queue \in Seq(Answers) /\ down \in Seq(Answers) /\ m \in Requests
    BY <1>1, <1>2, Taken DEF Playing, TypeOK, Players
  <2>2. queue' \in Seq(Answers)
    BY <1>1, <2>1, CorrectType DEF UpdatePlayerMovement
  <2> QED
    BY <1>1, <2>1, <2>2
<1>4. /\ cmds \in Seq(Requests) /\ m = cmds[1] /\ Len(cmds') = Len(cmds) - 1
      /\ Len(cmds) \in Nat \ {0} /\ (cmds' = <<>> <=> Len(cmds) = 1)
      /\ \A i \in 1 .. Len(cmds') : cmds'[i] = cmds[i + 1]
      /\ Kinds(cmds') \subseteq Kinds(cmds)
  <2>1. cmds \in Seq(Requests)
    BY <1>1 DEF TypeOK
  <2>2. DOMAIN cmds' = 1 .. Len(cmds')
    BY <1>1, <2>1
  <2> QED
    BY <1>1, <2>1, <2>2, Taken, KindsTaken
<1>5. CASE InWorld
  <2>1. Told'
    <3> SUFFICES ASSUME player'.last = client.acked, up = <<>>
                 PROVE  IF cmds' # <<>>
                        THEN cmds'[Len(cmds')].pos = told /\ cmds'[Len(cmds')].ack = client.acked
                        ELSE player'.pos = told
      <4>1. up # <<>> => Told'
        <5>1. player'.last = client.acked => player.last = client.acked
          BY <1>1, <1>2, EpochOf
        <5> QED
          BY <1>1, <1>5, <5>1 DEF Told, InWorld
      <4> QED
        BY <1>1, <4>1 DEF Told
    <3>1. player.last = client.acked /\ player' = IF Stale(m) THEN player ELSE [player EXCEPT !.pos = m.pos]
      BY <1>1, <1>2, EpochOf
    <3>2. cmds[Len(cmds)].pos = told /\ cmds[Len(cmds)].ack = client.acked
      BY <1>1, <1>5, <3>1 DEF InWorld, Told
    <3>3. CASE cmds' # <<>>
      BY <1>4, <3>2, <3>3
    <3>4. CASE cmds' = <<>>
      BY <1>1, <1>4, <3>1, <3>2, <3>4 DEF Stale, TypeOK
    <3> QED
      BY <3>3, <3>4
  <2> QED
    BY <1>1, <1>2, <1>3, <1>4, <1>5, <2>1 DEF Kept, Phase, InWorld
<1>6. CASE Quitting
  BY <1>1, <1>2, <1>3, <1>4, <1>6 DEF Kept, Phase, Quitting, OnlyOnce
<1>7. CASE Despawning
  <2>1. Len(cmds) # 1
    BY <1>4, <1>7 DEF Despawning, AtEnd
  <2>2. AtEnd("exit", cmds)'
    <3>1. cmds' # <<>> /\ cmds'[Len(cmds')] = cmds[Len(cmds)]
      BY <1>4, <2>1
    <3>2. ASSUME NEW i \in 1 .. Len(cmds') - 1
          PROVE  cmds'[i].kind = "move"
      <4>1. i \in 1 .. Len(cmds') /\ i + 1 \in 1 .. Len(cmds) - 1
        BY <1>4, <3>2
      <4>2. cmds[i + 1].kind = "move"
        BY <1>7, <4>1 DEF Despawning, AtEnd
      <4> QED
        BY <1>4, <4>1, <4>2
    <3> QED
      BY <1>7, <3>1, <3>2 DEF Despawning, AtEnd
  <2> QED
    BY <1>1, <1>2, <1>3, <1>7, <2>2 DEF Kept, Phase, Despawning
<1> QED
  BY <1>2, <1>5, <1>6, <1>7

\* The save and the despawn: corrections under way stay under way.
LEMMA ExitExecutes ==
  ASSUME MovementInv, Despawning, ExecuteWorldCmd, Head(cmds).kind = "exit"
  PROVE  Kept /\ ~player'.here
<1>1. /\ TypeOK /\ Playing /\ cmds # <<>> /\ cmds' = Tail(cmds) /\ conn' # "byClient"
      /\ UNCHANGED <<client, up, down, status>>
      /\ SaveAndDespawn(Head(cmds))
  BY DEF MovementInv, ExecuteWorldCmd, net, Spawn, SaveAndDespawn, UpdatePlayerMovement, Despawning
<1>2. cmds' = <<>>
  <2>1. cmds \in Seq(Requests)
    BY <1>1 DEF TypeOK
  <2>2. cmds[1].kind # "move" /\ Len(cmds) \in Nat \ {0}
    BY <1>1, <2>1, Taken
  <2>3. Len(cmds) = 1
    <3>1. Len(cmds) # 1 => 1 \in 1 .. Len(cmds) - 1
      BY <2>2, FirstOfMany
    <3>2. \A i \in 1 .. Len(cmds) - 1 : cmds[i].kind = "move"
      BY DEF Despawning, AtEnd
    <3> QED
      BY <2>2, <3>1, <3>2
  <2> QED
    BY <1>1, <2>1, <2>3, Taken
<1>3. /\ ~player'.here /\ UNCHANGED queue
      /\ Len(results') = 1 /\ results'[1].kind = "exit"
  BY <1>1 DEF SaveAndDespawn, Nowhere, Playing
<1> QED
  BY <1>1, <1>2, <1>3 DEF Kept, Phase, Despawning, Despawned, Playing, Numbered, MovementInv

LEMMA ExecutePhase ==
  ASSUME MovementInv, ExecuteWorldCmd
  PROVE  /\ Kept
         /\ player.here /\ player'.here /\ player' # player => down = <<>> /\ queue = <<>>
<1>1. /\ Loaded \/ InWorld \/ Quitting \/ Despawning
      /\ cmds # <<>> /\ cmds \in Seq(Requests)
  BY QueuePhase DEF MovementInv, ExecuteWorldCmd, TypeOK
<1>2. CASE Loaded
  BY <1>2, LoadedExecutes DEF Loaded
<1>3. CASE ~Loaded /\ Head(cmds).kind = "move"
  BY <1>1, <1>3, MoveExecutes
<1>4. CASE ~Loaded /\ Head(cmds).kind # "move"
  <2>1. Despawning
    BY <1>1, <1>4, KindsTaken DEF InWorld, Quitting
  <2>2. Head(cmds).kind = "exit"
    <3>1. Head(cmds) = cmds[1] /\ Len(cmds) \in Nat \ {0}
      BY <1>1, Taken
    <3> QED
      BY <1>4, <2>1, <3>1 DEF Despawning, AtEnd
  <2> QED
    BY <2>1, <2>2, ExitExecutes
<1> QED
  BY <1>2, <1>3, <1>4

LEMMA ZonePhase == MovementInv /\ ZoneUpdate => Kept
<1> SUFFICES ASSUME MovementInv, ZoneUpdate
             PROVE  Kept
  OBVIOUS
<1>1. /\ TypeOK
      /\ InWorld \/ Quitting \/ Despawning
      /\ UNCHANGED <<conn, client, told, up, down, status, results, cmds>>
      /\ conn' # "byClient"
  BY QueuePhase DEF MovementInv, ZoneUpdate, net
<1>2. /\ Playing'
      /\ player'.last = client'.acked => player'.last = player.last /\ player'.pos = player.pos
  BY <1>1, PlayingZone DEF InWorld, Quitting, Despawning
<1>3. Len(queue') <= 2
  <2>1. TypeOK'
    BY <1>1, ZoneType
  <2> QED
    BY <1>2, <2>1 DEF TypeOK, Playing
<1>4. CASE InWorld
  BY <1>1, <1>2, <1>3, <1>4 DEF Kept, Phase, InWorld, Told
<1>5. CASE Quitting
  BY <1>1, <1>2, <1>3, <1>5 DEF Kept, Phase, Quitting, OnlyOnce
<1>6. CASE Despawning
  BY <1>1, <1>2, <1>3, <1>6 DEF Kept, Phase, Despawning, AtEnd
<1> QED
  BY <1>1, <1>4, <1>5, <1>6

------------------------------------------------------------------------------
(* The theorems.                                                           *)

LEMMA InitMovement == Init => MovementInv
<1> SUFFICES ASSUME Init
             PROVE  MovementInv
  OBVIOUS
<1>1. Out
  BY KindsEmpty DEF Init, Out, Absent, Nowhere
<1>2. Len(queue) <= 2 /\ conn = "up"
  BY KindsEmpty DEF Init
<1> QED
  BY <1>1, <1>2, InitType DEF MovementInv, Phase

LEMMA MovementStep == MovementInv /\ [Next]_vars => MovementInv'
<1> SUFFICES ASSUME MovementInv, [Next]_vars
             PROVE  MovementInv'
  OBVIOUS
<1>1. TypeOK'
  BY TypeStep DEF MovementInv
<1>2. CASE UNCHANGED vars
  <2>1. UNCHANGED <<conn, client, told, net, session, sim, queue>>
    BY <1>2 DEF vars, session
  <2> QED
    BY <1>1, <2>1, PhaseKept DEF MovementInv
<1>3. CASE Lose
  BY <1>1, <1>3 DEF Lose, MovementInv, session
<1>4. CASE Kept
  BY <1>1, <1>4 DEF Kept, MovementInv
<1> QED
  BY <1>2, <1>3, <1>4, FramePhase, TeleportPhase, EnterPhase, ExitPhase, ReceivePhase,
     ReadPhase, DrainPhase, ResultPhase, ExecutePhase, ZonePhase DEF Next

\* The phases of a visit, with what may be under way in each, hold always.
THEOREM MovementCorrect == Spec => []MovementInv
  BY InitMovement, MovementStep, PTL DEF Spec

\* However many moves are sent and whatever the size of the packet queue, two
\* corrections at most are under way, by SendMovementCorrection's epochs.
THEOREM CorrectionsAreFew == Spec => []FewCorrections
<1>1. MovementInv => FewCorrections
  BY PlacePhase DEF MovementInv, FewCorrections, InWorld, Playing
<1> QED
  BY <1>1, MovementCorrect, PTL

\* The statuses of client and session let no packet of the server reach the
\* client out of place, though each side changes its own at its own time.
THEOREM ClientNeverDrops == Spec => []ClientExpects
<1>1. MovementInv => ClientExpects
  BY DEF MovementInv, ClientExpects
<1> QED
  BY <1>1, MovementCorrect, PTL

\* Client and server agree on the position when nothing is under way.
THEOREM PositionsAgree == Spec => []Agreement
<1>1. MovementInv => Agreement
  <2> SUFFICES ASSUME MovementInv, conn = "up", client.place = "in",
                      up = <<>>, cmds = <<>>, queue = <<>>, down = <<>>
               PROVE  player.here /\ player.pos = told
    BY DEF Agreement
  <2>1. InWorld /\ client.acked \in Nat
    BY PlacePhase DEF MovementInv, TypeOK
  <2>2. player.last = client.acked
    BY <2>1, KindsEmpty DEF InWorld, Playing, Numbered
  <2> QED
    BY <2>1, <2>2 DEF InWorld, Playing, Told
<1> QED
  BY <1>1, MovementCorrect, PTL

\* What a client sent before it knew of a correction changes nothing.
THEOREM OldMovesIgnored == Spec => OnlyCurrentMoves
<1>1. MovementInv /\ [Next]_vars =>
        [ExecuteWorldCmd /\ player.here /\ player'.here /\ player' # player
           => down = <<>> /\ queue = <<>>]_vars
  BY ExecutePhase
<1> QED
  BY <1>1, MovementCorrect, PTL DEF Spec, OnlyCurrentMoves
=============================================================================
