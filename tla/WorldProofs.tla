---------------------------- MODULE WorldProofs ----------------------------
(***************************************************************************)
(* Theorems of WorldSessions and WorldSaves, for any sessions, accounts    *)
(* and characters, any bounds and any interleaving of the server's         *)
(* threads: types and the simulation's indexes; the safety of a session's  *)
(* way into the world and out of it, by the invariant WorldInv; and what   *)
(* rests on it, the registry of the sessions, the ownership of characters, *)
(* the promise of WorldPresence, and the progress in the database.         *)
(***************************************************************************)
EXTENDS WorldSavesInvariant, FiniteSetTheorems, TLAPS

------------------------------------------------------------------------------
(* What the helpers return.                                                *)

\* The messages a DB worker may answer are messages.
LEMMA AnswersType ==
  ASSUME NEW r \in Requests, NEW m \in Answers(r)
  PROVE  m \in IoMsgs
<1>1. CASE r.type = "greetcode"
  BY <1>1 DEF Answers, IoMsgs, Requests
<1>2. CASE r.type = "enum"
  BY <1>2 DEF Answers, IoMsgs, Requests
<1>3. CASE r.type = "enter"
  BY <1>3, OwnerAssumption DEF Answers, IoMsgs, Requests
<1> QED
  BY <1>1, <1>2, <1>3 DEF Requests

\* Closing a socket keeps the types of what it changes.
LEMMA CloseType ==
  ASSUME SessionsTypeOK, NEW s \in Sessions, Close(s) \/ CloseInReader(s)
  PROVE  life' \in [Sessions -> Lives] /\ lateRead' \in [Sessions -> BOOLEAN]
  BY DEF SessionsTypeOK, Close, CloseInReader, Lives

\* A request or a message joins its queue.
LEMMA AskType ==
  ASSUME QueuesTypeOK, NEW s \in Sessions, NEW r \in Requests, Ask(s, r)
  PROVE  requests' \in [Sessions -> SUBSET Requests]
  BY DEF QueuesTypeOK, Ask

LEMMA PostType ==
  ASSUME QueuesTypeOK, NEW s \in Sessions, NEW m \in IoMsgs, Post(s, m)
  PROVE  io' \in [Sessions -> Seq(IoMsgs)]
  BY DEF QueuesTypeOK, Post

\* The first message of a queue, and the queue without it.
LEMMA IoHeadType ==
  ASSUME QueuesTypeOK, NEW s \in Sessions, NEW t, IoHead(s, t)
  PROVE  /\ Head(io[s]) \in IoMsgs
         /\ IoRest(s) \in [Sessions -> Seq(IoMsgs)]
  BY DEF QueuesTypeOK, IoHead, IoRest

LEMMA CmdHeadType ==
  ASSUME QueuesTypeOK, NEW t, CmdHead(t)
  PROVE  Head(cmds) \in WorldCmds /\ Tail(cmds) \in Seq(WorldCmds)
  BY DEF QueuesTypeOK, CmdHead

\* The commands a session may post.
LEMMA CmdTypes ==
  ASSUME NEW s \in Sessions, NEW c \in Chars, NEW g \in Nat
  PROVE  /\ [type |-> "spawn", sess |-> s, char |-> c] \in WorldCmds
         /\ [type |-> "exit", sess |-> s, guid |-> g] \in WorldCmds
         /\ [type |-> "move", sess |-> s, guid |-> g] \in WorldCmds
         /\ [type |-> "leave", guid |-> g] \in WorldCmds
         /\ [type |-> "rollback", guid |-> g] \in WorldCmds
  BY DEF WorldCmds

\* A command joins the simulation's queue.
LEMMA PostCmdType ==
  ASSUME QueuesTypeOK, NEW cmd \in WorldCmds, cmds' = Append(cmds, cmd)
  PROVE  cmds' \in Seq(WorldCmds)
  BY DEF QueuesTypeOK

LEMMA DoExitWorldType ==
  ASSUME SessionsTypeOK, QueuesTypeOK, NEW s \in Sessions, NEW cmd \in WorldCmds,
         DoExitWorld(s, cmd)
  PROVE  status' \in [Sessions -> WorldSocketStatus] /\ cmds' \in Seq(WorldCmds)
<1>1. CASE status[s] = "AUTHED" \/ playerGUID[s] = 0
  BY <1>1 DEF DoExitWorld, SessionsTypeOK, QueuesTypeOK
<1>2. CASE ~(status[s] = "AUTHED" \/ playerGUID[s] = 0)
  <2>1. cmds' \in Seq(WorldCmds)
    BY <1>2, PostCmdType DEF DoExitWorld
  <2> QED
    BY <1>2, <2>1 DEF DoExitWorld, SessionsTypeOK, WorldSocketStatus
<1> QED
  BY <1>1, <1>2

------------------------------------------------------------------------------
(* Type correctness, one lemma per thread.                                 *)

\* The packet handlers.
LEMMA ReadPacketsType ==
  ASSUME TypeOK, NEW s \in Sessions, ReadPackets(s)
  PROVE  TypeOK'
<1> USE DEF TypeOK
<1>0. RegistryTypeOK' /\ SimulationTypeOK'
  BY DEF ReadPackets, HandleGreetcode, HandleGreetPacket, HandleEnumCharacter,
         HandleEnterWorld, HandleExitWorld, HandlePlayerMovementUpdate,
         RegistryTypeOK, SimulationTypeOK, regVars, simVars
<1>1. CASE HandleGreetcode(s)
  <2>1. requests' \in [Sessions -> SUBSET Requests]
    BY <1>1, AskType DEF HandleGreetcode, Requests
  <2>2. SessionsTypeOK'
    BY <1>1 DEF HandleGreetcode, SessionsTypeOK, WorldSocketStatus
  <2> QED
    BY <1>0, <1>1, <2>1, <2>2 DEF HandleGreetcode, QueuesTypeOK
<1>2. CASE HandleGreetPacket(s)
  <2>1. requests' \in [Sessions -> SUBSET Requests]
    BY <1>2, AskType DEF HandleGreetPacket, Requests, QueuesTypeOK
  <2>2. SessionsTypeOK'
    BY <1>2, CloseType DEF HandleGreetPacket, SessionsTypeOK, WorldSocketStatus
  <2> QED
    BY <1>0, <1>2, <2>1, <2>2 DEF HandleGreetPacket, QueuesTypeOK
<1>3. CASE HandleEnumCharacter(s)
  <2>1. requests' \in [Sessions -> SUBSET Requests]
    BY <1>3, AskType DEF HandleEnumCharacter, Requests, QueuesTypeOK
  <2>2. SessionsTypeOK'
    BY <1>3, CloseType DEF HandleEnumCharacter, SessionsTypeOK
  <2> QED
    BY <1>0, <1>3, <2>1, <2>2 DEF HandleEnumCharacter, QueuesTypeOK
<1>4. ASSUME NEW c \in Chars, HandleEnterWorld(s, c)
      PROVE  TypeOK'
  <2>1. requests' \in [Sessions -> SUBSET Requests]
    BY <1>4, AskType DEF HandleEnterWorld, Requests, QueuesTypeOK
  <2>2. life' \in [Sessions -> Lives] /\ lateRead' \in [Sessions -> BOOLEAN]
    BY <1>4, CloseType DEF HandleEnterWorld, SessionsTypeOK
  <2>3. SessionsTypeOK'
    BY <1>4, <2>2 DEF HandleEnterWorld, SessionsTypeOK, WorldSocketStatus
  <2> QED
    BY <1>0, <1>4, <2>1, <2>3 DEF HandleEnterWorld, QueuesTypeOK
<1>5. CASE HandleExitWorld(s)
  <2>1. playerGUID[s] \in Nat
    BY DEF SessionsTypeOK
  <2>2. status' \in [Sessions -> WorldSocketStatus] /\ cmds' \in Seq(WorldCmds)
    BY <1>5, <2>1, CmdTypes, DoExitWorldType DEF HandleExitWorld, WorldCmds
  <2> QED
    BY <1>0, <1>5, <2>2 DEF HandleExitWorld, SessionsTypeOK, QueuesTypeOK
<1>6. CASE HandlePlayerMovementUpdate(s)
  <2>1. playerGUID[s] \in Nat
    BY DEF SessionsTypeOK
  <2>2. cmds' \in Seq(WorldCmds)
    BY <1>6, <2>1 DEF HandlePlayerMovementUpdate, QueuesTypeOK, WorldCmds
  <2> QED
    BY <1>0, <1>6, <2>2
       DEF HandlePlayerMovementUpdate, SessionsTypeOK, QueuesTypeOK, netVars
<1> QED
  BY <1>1, <1>2, <1>3, <1>4, <1>5, <1>6 DEF ReadPackets

\* The handlers posted to the session's io_context.
LEMMA ServeIoType ==
  ASSUME TypeOK, NEW s \in Sessions, ServeIo(s)
  PROVE  TypeOK'
<1> USE DEF TypeOK
<1> DEFINE m == Head(io[s])
<1>a. m \in IoMsgs /\ IoRest(s) \in [Sessions -> Seq(IoMsgs)]
  BY IoHeadType DEF ServeIo, ServeKick, ServeGreetcode, ServeEnum, ServeEnter, ServeSpawned, ServeLeft
<1>b. SimulationTypeOK'
  BY DEF ServeIo, ServeKick, ServeGreetcode, ServeEnum, ServeEnter, ServeSpawned, ServeLeft,
         SimulationTypeOK, simVars
<1>1. CASE ServeKick(s)
  <2>1. SessionsTypeOK'
    BY <1>1, CloseType DEF ServeKick, SessionsTypeOK
  <2> QED
    BY <1>a, <1>b, <1>1, <2>1 DEF ServeKick, QueuesTypeOK, RegistryTypeOK, regVars
<1>2. CASE ServeGreetcode(s)
  <2>1. m.row \in Accounts \cup {NoAccount}
    BY <1>a, <1>2 DEF ServeGreetcode, IoHead, IoMsgs
  <2>2. life' \in [Sessions -> Lives] /\ lateRead' \in [Sessions -> BOOLEAN]
    BY <1>2, CloseType DEF ServeGreetcode, SessionsTypeOK
  <2>3. SessionsTypeOK'
    BY <1>2, <2>1, <2>2 DEF ServeGreetcode, SessionsTypeOK, WorldSocketStatus
  <2> QED
    BY <1>a, <1>b, <1>2, <2>3 DEF ServeGreetcode, QueuesTypeOK, RegistryTypeOK, regVars
<1>3. CASE ServeEnum(s)
  <2>1. life' \in [Sessions -> Lives] /\ lateRead' \in [Sessions -> BOOLEAN]
    BY <1>3, CloseType DEF ServeEnum, SessionsTypeOK
  <2>2. SessionsTypeOK'
    <3>1. status' \in [Sessions -> WorldSocketStatus]
      BY <1>3 DEF ServeEnum, SessionsTypeOK, WorldSocketStatus
    <3>2. serial' \in [Sessions -> Nat]
      BY <1>3 DEF ServeEnum, SessionsTypeOK, RegistryTypeOK
    <3>3. hasRegistered' \in [Sessions -> BOOLEAN]
      BY <1>3 DEF ServeEnum, SessionsTypeOK
    <3> QED
      BY <1>3, <2>1, <3>1, <3>2, <3>3 DEF ServeEnum, SessionsTypeOK
  <2>3. io' \in [Sessions -> Seq(IoMsgs)]
    <3>1. [type |-> "kick"] \in IoMsgs
      BY DEF IoMsgs
    <3>2. \A t \in Sessions : io[t] \in Seq(IoMsgs)
      BY DEF QueuesTypeOK
    <3>3. Tail(io[s]) \in Seq(IoMsgs)
      BY <3>2, <1>3 DEF ServeEnum, IoHead
    <3>4. \A q \in Seq(IoMsgs) : Append(q, [type |-> "kick"]) \in Seq(IoMsgs)
      BY <3>1
    <3>5. CASE io' = IoRest(s)
      BY <3>2, <3>3, <3>5 DEF IoRest, QueuesTypeOK
    <3>6. ASSUME io' = [t \in Sessions |->
                          LET q == IF t = s THEN Tail(io[t]) ELSE io[t]
                          IN IF t \in Kicked(account[s]) THEN Append(q, [type |-> "kick"]) ELSE q]
          PROVE  io' \in [Sessions -> Seq(IoMsgs)]
      <4>1. ASSUME NEW t \in Sessions
            PROVE  (IF t = s THEN Tail(io[t]) ELSE io[t]) \in Seq(IoMsgs)
        BY <3>2, <3>3
      <4> QED
        BY <3>4, <3>6, <4>1
    <3> QED
      BY <1>3, <3>5, <3>6 DEF ServeEnum
  <2>4. RegistryTypeOK'
    <3>1. sessions' \in [Accounts -> Slots \cup {NoSlot}]
      BY <1>3 DEF ServeEnum, RegisterSession, RegistryTypeOK, Slots, regVars
    <3>2. playerCount' \in Int
      BY <1>3 DEF ServeEnum, RegisterSession, RegistryTypeOK, regVars
    <3>3. nextSerial' \in Nat \ {0}
      BY <1>3 DEF ServeEnum, RegistryTypeOK, regVars
    <3> QED
      BY <3>1, <3>2, <3>3 DEF RegistryTypeOK
  <2> QED
    BY <1>b, <1>3, <2>2, <2>3, <2>4 DEF ServeEnum, QueuesTypeOK
<1>4. CASE ServeEnter(s)
  <2>1. life' \in [Sessions -> Lives] /\ lateRead' \in [Sessions -> BOOLEAN]
    BY <1>4, CloseType DEF ServeEnter, SessionsTypeOK
  <2>2. SessionsTypeOK'
    BY <1>4, <2>1 DEF ServeEnter, SessionsTypeOK, WorldSocketStatus, BackToAuthed
  <2>3. m.char \in Chars
    BY <1>a, <1>4 DEF ServeEnter, IoHead, IoMsgs
  <2>4. cmds' \in Seq(WorldCmds)
    <3>1. UNCHANGED cmds \/ cmds' = Append(cmds, [type |-> "spawn", sess |-> s, char |-> m.char])
      BY <1>4 DEF ServeEnter
    <3>2. [type |-> "spawn", sess |-> s, char |-> m.char] \in WorldCmds
      BY <2>3 DEF WorldCmds
    <3> HIDE DEF m
    <3> QED
      BY <3>1, <3>2, PostCmdType DEF QueuesTypeOK
  <2>5. packets' \in [Sessions -> Seq(Nat)]
    <3>1. UNCHANGED packets \/ packets' = [packets EXCEPT ![s] = <<>>]
      BY <1>4 DEF ServeEnter, ClearPackets
    <3>2. <<>> \in Seq(Nat) /\ packets \in [Sessions -> Seq(Nat)]
      BY DEF QueuesTypeOK
    <3> QED
      BY <3>1, <3>2, Zenon
  <2> QED
    BY <1>a, <1>b, <1>4, <2>2, <2>4, <2>5 DEF ServeEnter, QueuesTypeOK, RegistryTypeOK, regVars
<1>5. CASE ServeSpawned(s)
  <2>1. m.guid \in Nat
    BY <1>a, <1>5 DEF ServeSpawned, IoHead, IoMsgs
  <2>2. SessionsTypeOK'
    BY <1>5, <2>1 DEF ServeSpawned, SessionsTypeOK, WorldSocketStatus, BackToAuthed
  <2>3. cmds' \in Seq(WorldCmds)
    <3>1. UNCHANGED cmds \/ cmds' = Append(cmds, [type |-> "rollback", guid |-> m.guid])
      BY <1>5 DEF ServeSpawned, PostSpawnRollback
    <3>2. [type |-> "rollback", guid |-> m.guid] \in WorldCmds
      BY <2>1 DEF WorldCmds
    <3> HIDE DEF m
    <3> QED
      BY <3>1, <3>2, PostCmdType DEF QueuesTypeOK
  <2> QED
    BY <1>a, <1>b, <1>5, <2>2, <2>3 DEF ServeSpawned, QueuesTypeOK, RegistryTypeOK, regVars
<1>6. CASE ServeLeft(s)
  <2>0. life' \in [Sessions -> Lives] /\ lateRead' \in [Sessions -> BOOLEAN]
    BY <1>6, CloseType DEF ServeLeft, SessionsTypeOK
  <2>1. SessionsTypeOK'
    BY <1>6, <2>0 DEF ServeLeft, SessionsTypeOK, WorldSocketStatus, BackToAuthed
  <2> QED
    BY <1>a, <1>b, <1>6, <2>1 DEF ServeLeft, QueuesTypeOK, RegistryTypeOK, regVars
<1> QED
  BY <1>1, <1>2, <1>3, <1>4, <1>5, <1>6 DEF ServeIo

\* The simulation: a batch of commands, and the zones.
LEMMA SimulationType ==
  ASSUME TypeOK, ExecuteWorldCmd \/ ZoneUpdate
  PROVE  TypeOK'
<1> USE DEF TypeOK
<1> DEFINE cmd == Head(cmds)
<1>a. RegistryTypeOK' /\ SessionsTypeOK'
  BY DEF ExecuteWorldCmd, ExecSpawn, ExecExit, ExecDespawn, ExecMove, ZoneUpdate,
         RegistryTypeOK, SessionsTypeOK, regVars, netVars
<1>b. ASSUME NEW t, CmdHead(t)
      PROVE  cmd \in WorldCmds /\ Tail(cmds) \in Seq(WorldCmds)
  BY <1>b, CmdHeadType
<1>c. ASSUME NEW g, Despawn(g)
      PROVE  /\ players' \in SUBSET Entities
             /\ charIdToGuid' \in [Chars -> Nat]
             /\ zone' \in SUBSET Entities
  BY <1>c DEF Despawn, RemoveEntityFromZone, SimulationTypeOK
<1>d. ASSUME NEW p \in Entities, SendMovementCorrection(p)
      PROVE  packets' \in [Sessions -> Seq(Nat)]
  BY <1>d DEF SendMovementCorrection, QueuesTypeOK, Entities
<1>1. CASE ExecSpawn
  <2>1. cmd.sess \in Sessions /\ cmd.char \in Chars
    BY <1>1, <1>b DEF ExecSpawn, CmdHead, WorldCmds
  <2>2. /\ [guid |-> nextGuid, char |-> cmd.char, sess |-> cmd.sess] \in Entities
        /\ [type |-> "spawned", ok |-> FALSE, guid |-> 0] \in IoMsgs
        /\ [type |-> "spawned", ok |-> FALSE, guid |-> nextGuid] \in IoMsgs
        /\ [type |-> "spawned", ok |-> TRUE, guid |-> nextGuid] \in IoMsgs
    BY <2>1 DEF SimulationTypeOK, Entities, IoMsgs
  <2>3. io' \in [Sessions -> Seq(IoMsgs)]
    BY <1>1, <2>1, <2>2, PostType DEF ExecSpawn, QueuesTypeOK
  <2>4. SimulationTypeOK'
    <3>1. players' \in SUBSET Entities /\ zone' \in SUBSET Entities
      BY <1>1, <2>2
         DEF ExecSpawn, SimulationTypeOK, AddEntityToZone, RemoveEntityFromZone, simVars
    <3>2. charIdToGuid' \in [Chars -> Nat]
      BY <1>1, <2>1 DEF ExecSpawn, SimulationTypeOK, simVars
    <3>3. nextGuid' \in Nat \ {0}
      BY <1>1 DEF ExecSpawn, SimulationTypeOK, GetNextGUID, simVars
    <3> QED
      BY <3>1, <3>2, <3>3 DEF SimulationTypeOK
  <2>5. cmds' \in Seq(WorldCmds)
    BY <1>1, <1>b DEF ExecSpawn
  <2> QED
    BY <1>a, <1>1, <2>3, <2>4, <2>5 DEF ExecSpawn, QueuesTypeOK
<1>2. CASE ExecExit
  <2>1. cmd.sess \in Sessions
    BY <1>2, <1>b DEF ExecExit, CmdHead, WorldCmds
  <2>2. io' \in [Sessions -> Seq(IoMsgs)]
    BY <1>2, <2>1, PostType DEF ExecExit, IoMsgs
  <2>3. cmds' \in Seq(WorldCmds)
    BY <1>2, <1>b DEF ExecExit
  <2> QED
    BY <1>a, <1>2, <1>c, <2>2, <2>3 DEF ExecExit, QueuesTypeOK, SimulationTypeOK
<1>3. CASE ExecDespawn
  <2>1. cmds' \in Seq(WorldCmds)
    BY <1>3, <1>b DEF ExecDespawn
  <2> QED
    BY <1>a, <1>3, <1>c, <2>1 DEF ExecDespawn, QueuesTypeOK, SimulationTypeOK
<1>4. CASE ExecMove
  <2>1. cmds' \in Seq(WorldCmds)
    BY <1>4, <1>b DEF ExecMove
  <2>2. players \subseteq Entities
    BY DEF SimulationTypeOK
  <2>3. packets' \in [Sessions -> Seq(Nat)]
    BY <1>4, <1>d, <2>2 DEF ExecMove, QueuesTypeOK
  <2> QED
    BY <1>a, <1>4, <2>1, <2>3 DEF ExecMove, QueuesTypeOK, SimulationTypeOK, simVars
<1>5. CASE ZoneUpdate
  <2>1. zone \subseteq Entities
    BY DEF SimulationTypeOK
  <2>2. packets' \in [Sessions -> Seq(Nat)]
    BY <1>5, <1>d, <2>1 DEF ZoneUpdate
  <2> QED
    BY <1>a, <1>5, <2>2 DEF ZoneUpdate, QueuesTypeOK, SimulationTypeOK, simVars
<1> QED
  BY <1>1, <1>2, <1>3, <1>4, <1>5 DEF ExecuteWorldCmd

\* Acceptance, disconnection, destruction, and the DB worker.
LEMMA LifetimeType ==
  ASSUME TypeOK, NEW s \in Sessions,
         \/ Accept(s) \/ Disconnect(s) \/ EndLateRead(s) \/ ProcessPlayerPacketsQueue(s)
         \/ BeginDestroy(s) \/ FinishDestroy(s) \/ \E r \in requests[s] : Respond(s, r)
  PROVE  TypeOK'
<1> USE DEF TypeOK
<1>1. CASE Accept(s)
  <2>1. SessionsTypeOK'
    BY <1>1 DEF Accept, SessionsTypeOK, Lives
  <2> QED
    BY <1>1, <2>1 DEF Accept, QueuesTypeOK, RegistryTypeOK, SimulationTypeOK, regVars, simVars
<1>2. CASE Disconnect(s)
  <2>1. SessionsTypeOK'
    BY <1>2, CloseType DEF Disconnect, SessionsTypeOK
  <2> QED
    BY <1>2, <2>1 DEF Disconnect, QueuesTypeOK, RegistryTypeOK, SimulationTypeOK, regVars, simVars
<1>3. CASE EndLateRead(s)
  <2>1. SessionsTypeOK'
    BY <1>3, CloseType DEF EndLateRead, SessionsTypeOK
  <2> QED
    BY <1>3, <2>1 DEF EndLateRead, QueuesTypeOK, RegistryTypeOK, SimulationTypeOK, regVars, simVars
<1>4. CASE ProcessPlayerPacketsQueue(s)
  <2>1. packets' \in [Sessions -> Seq(Nat)]
    <3>1. packets' = [packets EXCEPT ![s] = <<>>]
      BY <1>4 DEF ProcessPlayerPacketsQueue
    <3> QED
      BY <3>1 DEF QueuesTypeOK
  <2>2. SessionsTypeOK'
    BY <1>4 DEF ProcessPlayerPacketsQueue, SessionsTypeOK, netVars
  <2> QED
    BY <1>4, <2>1, <2>2
       DEF ProcessPlayerPacketsQueue, QueuesTypeOK, RegistryTypeOK, SimulationTypeOK, regVars, simVars
<1>5. CASE BeginDestroy(s)
  <2>1. SessionsTypeOK'
    BY <1>5 DEF BeginDestroy, SessionsTypeOK, Lives
  <2>2. RegistryTypeOK'
    BY <1>5 DEF BeginDestroy, UnregisterSession, RegistryTypeOK
  <2> QED
    BY <1>5, <2>1, <2>2 DEF BeginDestroy, QueuesTypeOK, SimulationTypeOK, simVars
<1>6. CASE FinishDestroy(s)
  <2>1. playerGUID[s] \in Nat
    BY DEF SessionsTypeOK
  <2>2. status' \in [Sessions -> WorldSocketStatus] /\ cmds' \in Seq(WorldCmds)
    BY <1>6, <2>1, CmdTypes, DoExitWorldType DEF FinishDestroy, WorldCmds
  <2>3. SessionsTypeOK'
    BY <1>6, <2>2 DEF FinishDestroy, SessionsTypeOK, Lives
  <2> QED
    BY <1>6, <2>2, <2>3
       DEF FinishDestroy, QueuesTypeOK, RegistryTypeOK, SimulationTypeOK, regVars, simVars
<1>7. ASSUME NEW r \in requests[s], Respond(s, r)
      PROVE  TypeOK'
  <2>1. r \in Requests /\ requests' \in [Sessions -> SUBSET Requests]
    BY <1>7 DEF Respond, QueuesTypeOK
  <2>2. io' \in [Sessions -> Seq(IoMsgs)]
    BY <1>7, <2>1, AnswersType, PostType DEF Respond, QueuesTypeOK
  <2>3. SessionsTypeOK'
    BY <1>7 DEF Respond, SessionsTypeOK, netVars
  <2> QED
    BY <1>7, <2>1, <2>2, <2>3
       DEF Respond, QueuesTypeOK, RegistryTypeOK, SimulationTypeOK, regVars, simVars
<1> QED
  BY <1>1, <1>2, <1>3, <1>4, <1>5, <1>6, <1>7

\* The same, for a step of any kind.
LEMMA StepType ==
  ASSUME TypeOK, [Next]_vars
  PROVE  TypeOK'
<1>1. CASE UNCHANGED vars
  BY <1>1 DEF vars, netVars, regVars, simVars, TypeOK,
              SessionsTypeOK, QueuesTypeOK, RegistryTypeOK, SimulationTypeOK
<1> QED
  BY <1>1, ReadPacketsType, ServeIoType, SimulationType, LifetimeType DEF Next

LEMMA InitType ==
  ASSUME Init
  PROVE  TypeOK
<1>1. SessionsTypeOK
  BY DEF Init, SessionsTypeOK, Lives, WorldSocketStatus
<1>2. QueuesTypeOK
  BY DEF Init, QueuesTypeOK
<1>3. RegistryTypeOK
  BY DEF Init, RegistryTypeOK
<1>4. SimulationTypeOK
  BY DEF Init, SimulationTypeOK, FirstGUID
<1> QED
  BY <1>1, <1>2, <1>3, <1>4 DEF TypeOK

\* Every state of the world server is well typed; in particular no GUID and no
\* registration serial it ever hands out is 0, the value that means "none".
THEOREM TypeCorrect == Spec => []TypeOK
  BY InitType, StepType, PTL DEF Spec

------------------------------------------------------------------------------
(* The simulation's indexes.                                               *)

\* GUIDs are given out once: the players' are among those given out so far.
PlayersIssued == \A p \in players : p.guid \in 1..(nextGuid - 1)

SimInv == TypeOK /\ IndexesAgree /\ PlayersIssued

\* The indexes depend on the simulation's variables only.
LEMMA SimFrame ==
  ASSUME SimInv, TypeOK', UNCHANGED simVars
  PROVE  SimInv'
  BY DEF SimInv, IndexesAgree, PlayersIssued, simVars

\* A despawn takes the player out of all three indexes, or out of none.
LEMMA DespawnKeepsIndexes ==
  ASSUME SimInv, TypeOK', NEW g, Despawn(g), UNCHANGED nextGuid
  PROVE  SimInv'
  BY DEF SimInv, TypeOK, SimulationTypeOK, Entities, IndexesAgree, PlayersIssued,
         Despawn, RemoveEntityFromZone

\* A spawn puts the new entity in all three indexes; when RegisterPlayer
\* refuses, it takes it out of the zone again.
LEMMA SpawnKeepsIndexes ==
  ASSUME SimInv, TypeOK', ExecSpawn
  PROVE  SimInv'
<1> DEFINE s == Head(cmds).sess
           c == Head(cmds).char
           e == [guid |-> nextGuid, char |-> c, sess |-> s]
<1>1. s \in Sessions /\ c \in Chars
  BY CmdHeadType DEF ExecSpawn, CmdHead, WorldCmds, SimInv, TypeOK
<1>2. e \in Entities /\ e \notin players
  BY <1>1 DEF Entities, SimInv, TypeOK, SimulationTypeOK, PlayersIssued
<1>3. CASE UNCHANGED simVars
  BY <1>3, SimFrame
<1>4. CASE /\ GetNextGUID
           /\ zone' = RemoveEntityFromZone(AddEntityToZone(zone, e), {e})
           /\ UNCHANGED <<players, charIdToGuid>>
  <2>1. zone' = zone
    BY <1>2, <1>4 DEF RemoveEntityFromZone, AddEntityToZone, SimInv, IndexesAgree
  <2> QED
    BY <1>4, <2>1 DEF GetNextGUID, SimInv, TypeOK, SimulationTypeOK, IndexesAgree, PlayersIssued
<1>5. CASE /\ charIdToGuid[c] = 0
           /\ GetNextGUID
           /\ zone' = AddEntityToZone(zone, e)
           /\ players' = players \cup {e}
           /\ charIdToGuid' = [charIdToGuid EXCEPT ![c] = nextGuid]
  <2>1. nextGuid \in Nat \ {0} /\ nextGuid' = nextGuid + 1 /\ players \subseteq Entities
    BY <1>5 DEF GetNextGUID, SimInv, TypeOK, SimulationTypeOK
  <2>2. \A p \in players : p.guid \in 1..(nextGuid - 1) /\ p.char # c
    BY <1>5, <2>1 DEF SimInv, PlayersIssued, IndexesAgree
  <2>3. PlayersIssued'
    BY <1>5, <2>1, <2>2 DEF PlayersIssued
  <2>4. IndexesAgree'
    <3>1. \A p, q \in players' : p.char = q.char \/ p.guid = q.guid => p = q
      BY <1>5, <2>1, <2>2 DEF SimInv, IndexesAgree
    <3>2. \A d \in Chars : charIdToGuid'[d] # 0 =>
             \E p \in players' : p.char = d /\ p.guid = charIdToGuid'[d]
      BY <1>1, <1>5 DEF SimInv, IndexesAgree, TypeOK, SimulationTypeOK
    <3>3. \A p \in players' : charIdToGuid'[p.char] = p.guid
      BY <1>1, <1>5, <2>1, <2>2 DEF SimInv, IndexesAgree, TypeOK, SimulationTypeOK, Entities
    <3>4. zone' = players'
      BY <1>5 DEF AddEntityToZone, SimInv, IndexesAgree
    <3> QED
      BY <3>1, <3>2, <3>3, <3>4 DEF IndexesAgree
  <2> QED
    BY <2>3, <2>4 DEF SimInv
<1> QED
  BY <1>3, <1>4, <1>5 DEF ExecSpawn

LEMMA StepKeepsIndexes ==
  ASSUME SimInv, [Next]_vars
  PROVE  SimInv'
<1>1. TypeOK'
  BY StepType DEF SimInv
<1>2. CASE UNCHANGED simVars
  BY <1>1, <1>2, SimFrame
<1>3. CASE ExecSpawn
  BY <1>1, <1>3, SpawnKeepsIndexes
<1>4. CASE ExecExit \/ ExecDespawn
  BY <1>1, <1>4, DespawnKeepsIndexes DEF ExecExit, ExecDespawn
<1>5. [Next]_vars => UNCHANGED simVars \/ ExecSpawn \/ ExecExit \/ ExecDespawn
  <2>1. ASSUME NEW s \in Sessions,
               \/ Accept(s) \/ Disconnect(s) \/ EndLateRead(s) \/ ProcessPlayerPacketsQueue(s)
               \/ BeginDestroy(s) \/ FinishDestroy(s) \/ \E r \in requests[s] : Respond(s, r)
        PROVE  UNCHANGED simVars
    BY <2>1 DEF Accept, Disconnect, EndLateRead, ProcessPlayerPacketsQueue,
                BeginDestroy, FinishDestroy, Respond
  <2>2. ASSUME NEW s \in Sessions, ReadPackets(s)
        PROVE  UNCHANGED simVars
    BY <2>2 DEF ReadPackets, HandleGreetcode, HandleGreetPacket, HandleEnumCharacter,
                HandleEnterWorld, HandleExitWorld, HandlePlayerMovementUpdate
  <2>3. ASSUME NEW s \in Sessions, ServeIo(s)
        PROVE  UNCHANGED simVars
    BY <2>3 DEF ServeIo, ServeKick, ServeGreetcode, ServeEnum, ServeEnter, ServeSpawned, ServeLeft
  <2>4. ExecMove \/ ZoneUpdate => UNCHANGED simVars
    BY DEF ExecMove, ZoneUpdate
  <2>5. UNCHANGED vars => UNCHANGED simVars
    BY DEF vars
  <2> QED
    BY <2>1, <2>2, <2>3, <2>4, <2>5 DEF Next, ExecuteWorldCmd
<1> QED
  BY <1>2, <1>3, <1>4, <1>5

\* A character is in the world at most once, the indexes of WorldSimulation
\* find exactly the registered players and the zones own nothing else, however
\* spawns, rollbacks and despawns of several sessions interleave.
THEOREM IndexesCorrect == Spec => []IndexesAgree
<1>1. Init => SimInv
  BY InitType DEF Init, SimInv, IndexesAgree, PlayersIssued
<1>2. SimInv /\ [Next]_vars => SimInv'
  BY StepKeepsIndexes
<1>3. SimInv => IndexesAgree
  BY DEF SimInv
<1> QED
  BY <1>1, <1>2, <1>3, PTL DEF Spec

------------------------------------------------------------------------------
(* Queues: what Append and Tail do to Holds and Once.                      *)

LEMMA HoldsAppend ==
  ASSUME NEW S, NEW q \in Seq(S), NEW x \in S, NEW M
  PROVE  Holds(Append(q, x), M) <=> Holds(q, M) \/ x \in M
<1>1. /\ DOMAIN Append(q, x) = 1..(Len(q) + 1) /\ DOMAIN q = 1..Len(q) /\ Len(q) \in Nat
      /\ Append(q, x)[Len(q) + 1] = x
      /\ \A i \in DOMAIN q : Append(q, x)[i] = q[i]
  OBVIOUS
<1> QED
  BY <1>1 DEF Holds

LEMMA OnceAppend ==
  ASSUME NEW S, NEW q \in Seq(S), NEW x \in S, NEW M
  PROVE  Once(Append(q, x), M) <=> Once(q, M) /\ (x \in M => ~Holds(q, M))
<1>1. /\ DOMAIN Append(q, x) = 1..(Len(q) + 1) /\ DOMAIN q = 1..Len(q) /\ Len(q) \in Nat
      /\ Append(q, x)[Len(q) + 1] = x
      /\ \A i \in DOMAIN q : Append(q, x)[i] = q[i]
  OBVIOUS
<1> QED
  BY <1>1 DEF Once, Holds

\* The positions of a queue: its head, and one after each of its tail.
LEMMA TailPositions ==
  ASSUME NEW S, NEW q \in Seq(S), q # <<>>
  PROVE  /\ 1 \in DOMAIN q /\ Head(q) = q[1]
         /\ \A i \in DOMAIN Tail(q) : i + 1 \in DOMAIN q /\ Tail(q)[i] = q[i + 1] /\ i + 1 # 1
         /\ \A i \in DOMAIN q : i # 1 =>
               i - 1 \in DOMAIN Tail(q) /\ Tail(q)[i - 1] = q[i] /\ (i - 1) + 1 = i
         /\ \A i, j \in DOMAIN Tail(q) : i + 1 = j + 1 => i = j
  OBVIOUS

LEMMA HoldsTail ==
  ASSUME NEW S, NEW q \in Seq(S), q # <<>>, NEW M
  PROVE  Holds(q, M) <=> Head(q) \in M \/ Holds(Tail(q), M)
<1>1. ASSUME NEW i \in DOMAIN q, q[i] \in M
      PROVE  Head(q) \in M \/ \E j \in DOMAIN Tail(q) : Tail(q)[j] \in M
  <2>1. CASE i = 1
    BY <1>1, <2>1, TailPositions
  <2>2. ASSUME i # 1
        PROVE  i - 1 \in DOMAIN Tail(q) /\ Tail(q)[i - 1] = q[i]
    BY <1>1, <2>2, TailPositions
  <2> QED
    BY <1>1, <2>1, <2>2
<1>2. ASSUME NEW j \in DOMAIN Tail(q), Tail(q)[j] \in M
      PROVE  \E i \in DOMAIN q : q[i] \in M
  BY <1>2, TailPositions
<1> QED
  BY <1>1, <1>2, TailPositions DEF Holds

LEMMA OnceTail ==
  ASSUME NEW S, NEW q \in Seq(S), q # <<>>, NEW M, Once(q, M)
  PROVE  Once(Tail(q), M) /\ (Head(q) \in M => ~Holds(Tail(q), M))
<1>1. ASSUME NEW i \in DOMAIN Tail(q), NEW j \in DOMAIN Tail(q),
             Tail(q)[i] \in M, Tail(q)[j] \in M
      PROVE  i = j
  <2>1. /\ i + 1 \in DOMAIN q /\ Tail(q)[i] = q[i + 1]
        /\ j + 1 \in DOMAIN q /\ Tail(q)[j] = q[j + 1]
        /\ i + 1 = j + 1 => i = j
    BY TailPositions
  <2> QED
    BY <1>1, <2>1 DEF Once
<1>2. ASSUME Head(q) \in M, NEW j \in DOMAIN Tail(q), Tail(q)[j] \in M
      PROVE  FALSE
  <2>1. /\ 1 \in DOMAIN q /\ Head(q) = q[1]
        /\ j + 1 \in DOMAIN q /\ Tail(q)[j] = q[j + 1] /\ j + 1 # 1
    BY TailPositions
  <2> QED
    BY <1>2, <2>1 DEF Once
<1> QED
  BY <1>1, <1>2 DEF Once, Holds

LEMMA HoldsMore ==
  ASSUME NEW q, NEW M, NEW N, M \subseteq N, Holds(q, M)
  PROVE  Holds(q, N)
  BY DEF Holds

\* What a handler posted to a session, or taken from it, changes.
LEMMA PostEffect ==
  ASSUME QueuesTypeOK, NEW s \in Sessions, NEW m \in IoMsgs, Post(s, m)
  PROVE  /\ \A t \in Sessions : t # s => io'[t] = io[t]
         /\ \A M : Holds(io'[s], M) <=> Holds(io[s], M) \/ m \in M
         /\ \A M : Once(io'[s], M) <=> Once(io[s], M) /\ (m \in M => ~Holds(io[s], M))
<1>1. io[s] \in Seq(IoMsgs) /\ io'[s] = Append(io[s], m)
      /\ \A t \in Sessions : t # s => io'[t] = io[t]
  BY DEF QueuesTypeOK, Post
<1> QED
  BY <1>1, HoldsAppend, OnceAppend

LEMMA TakeEffect ==
  ASSUME QueuesTypeOK, NEW s \in Sessions, NEW h, IoHead(s, h), io' = IoRest(s)
  PROVE  /\ Head(io[s]) \in IoMsgs /\ Head(io[s]).type = h
         /\ \A t \in Sessions : t # s => io'[t] = io[t]
         /\ \A M : Holds(io[s], M) <=> Head(io[s]) \in M \/ Holds(io'[s], M)
         /\ \A M : Once(io[s], M) =>
               Once(io'[s], M) /\ (Head(io[s]) \in M => ~Holds(io'[s], M))
<1>1. io[s] \in Seq(IoMsgs) /\ io[s] # <<>> /\ io'[s] = Tail(io[s])
      /\ \A t \in Sessions : t # s => io'[t] = io[t]
  BY DEF QueuesTypeOK, IoHead, IoRest
<1>2. Head(io[s]) \in IoMsgs /\ Head(io[s]).type = h
  BY IoHeadType DEF IoHead
<1> QED
  BY <1>1, <1>2, HoldsTail, OnceTail

\* What a command posted to the simulation, or taken by it, changes.
LEMMA PostCmdEffect ==
  ASSUME QueuesTypeOK, NEW c \in WorldCmds, cmds' = Append(cmds, c)
  PROVE  /\ \A M : Holds(cmds', M) <=> Holds(cmds, M) \/ c \in M
         /\ \A M : Once(cmds', M) <=> Once(cmds, M) /\ (c \in M => ~Holds(cmds, M))
  BY HoldsAppend, OnceAppend DEF QueuesTypeOK

LEMMA TakeCmdEffect ==
  ASSUME QueuesTypeOK, NEW h, CmdHead(h), cmds' = Tail(cmds)
  PROVE  /\ Head(cmds) \in WorldCmds /\ Head(cmds).type = h
         /\ \A M : Holds(cmds, M) <=> Head(cmds) \in M \/ Holds(cmds', M)
         /\ \A M : Once(cmds, M) =>
               Once(cmds', M) /\ (Head(cmds) \in M => ~Holds(cmds', M))
<1>1. Head(cmds) \in WorldCmds /\ Head(cmds).type = h
  BY CmdHeadType DEF CmdHead
<1> QED
  BY <1>1, HoldsTail, OnceTail DEF QueuesTypeOK, CmdHead

\* The handler of a character list may kick the account's other session.
LEMMA ServeEnumEffect ==
  ASSUME TypeOK, NEW s \in Sessions, ServeEnum(s)
  PROVE  /\ Head(io[s]) \in IoMsgs /\ Head(io[s]).type = "enum"
         /\ \A t \in Sessions : \A M : [type |-> "kick"] \notin M /\ Head(io[s]) \notin M =>
              /\ Holds(io'[t], M) <=> Holds(io[t], M)
              /\ Once(io[t], M) => Once(io'[t], M)
<1> DEFINE kick == [type |-> "kick"]
           rest(t) == IF t = s THEN Tail(io[t]) ELSE io[t]
<1>1. Head(io[s]) \in IoMsgs /\ Head(io[s]).type = "enum" /\ kick \in IoMsgs
  BY IoHeadType DEF ServeEnum, IoHead, TypeOK, IoMsgs
<1>2. \A t \in Sessions : io[t] \in Seq(IoMsgs)
  BY DEF TypeOK, QueuesTypeOK
<1>3. io[s] # <<>>
  BY DEF ServeEnum, IoHead
<1>4. \A t \in Sessions : rest(t) \in Seq(IoMsgs)
  BY <1>2, <1>3
<1>5. \A t \in Sessions : io'[t] = rest(t) \/ io'[t] = Append(rest(t), kick)
  BY <1>2 DEF ServeEnum, IoRest, TypeOK, QueuesTypeOK
<1>6. ASSUME NEW t \in Sessions, NEW M, kick \notin M, Head(io[s]) \notin M
      PROVE  /\ Holds(rest(t), M) <=> Holds(io[t], M)
             /\ Once(io[t], M) => Once(rest(t), M)
  BY <1>2, <1>3, <1>6, HoldsTail, OnceTail
<1> HIDE DEF kick, rest
<1>7. ASSUME NEW t \in Sessions, NEW M, kick \notin M, Head(io[s]) \notin M
      PROVE  /\ Holds(io'[t], M) <=> Holds(io[t], M)
             /\ Once(io[t], M) => Once(io'[t], M)
  <2>1. CASE io'[t] = rest(t)
    BY <1>6, <1>7, <2>1
  <2>2. CASE io'[t] = Append(rest(t), kick)
    <3>1. /\ Holds(io'[t], M) <=> Holds(rest(t), M)
          /\ Once(rest(t), M) => Once(io'[t], M)
      BY <1>1, <1>4, <1>7, <2>2, HoldsAppend, OnceAppend
    <3> QED
      BY <1>6, <1>7, <3>1
  <2> QED
    BY <1>5, <2>1, <2>2
<1> QED
  BY <1>1, <1>7 DEF kick

------------------------------------------------------------------------------
(* The session key is gathered once.                                       *)

\* A step of another kind leaves the greeting alone.
LEMMA GreetFrame ==
  ASSUME GreetInv, TypeOK', UNCHANGED account,
         \A s \in Sessions :
           /\ \/ status'[s] = status[s]
              \/ {status[s], status'[s]}
                    \cap {"GATHER_SESSIONKEY", "GATHER_SESSIONKEY_PENDING"} = {}
           /\ [type |-> "greetcode"] \in requests'[s] <=> [type |-> "greetcode"] \in requests[s]
           /\ Holds(io'[s], GreetMsgs) <=> Holds(io[s], GreetMsgs)
           /\ Once(io[s], GreetMsgs) => Once(io'[s], GreetMsgs)
  PROVE  GreetInv'
  BY DEF GreetInv, OneGreeting

\* What posting or taking another message means for the greeting.
LEMMA GreetPost ==
  ASSUME GreetInv, NEW s \in Sessions, NEW m \in IoMsgs, m.type # "greetcode", Post(s, m)
  PROVE  \A t \in Sessions :
           /\ Holds(io'[t], GreetMsgs) <=> Holds(io[t], GreetMsgs)
           /\ Once(io[t], GreetMsgs) => Once(io'[t], GreetMsgs)
  BY PostEffect DEF GreetInv, TypeOK, GreetMsgs

LEMMA GreetTake ==
  ASSUME GreetInv, NEW s \in Sessions, NEW h, h # "greetcode", IoHead(s, h), io' = IoRest(s)
  PROVE  \A t \in Sessions :
           /\ Holds(io'[t], GreetMsgs) <=> Holds(io[t], GreetMsgs)
           /\ Once(io[t], GreetMsgs) => Once(io'[t], GreetMsgs)
<1>1. Head(io[s]) \notin GreetMsgs
  BY TakeEffect DEF GreetInv, TypeOK, GreetMsgs
<1> QED
  BY <1>1, TakeEffect DEF GreetInv, TypeOK

LEMMA ReadPacketsKeepsGreeting ==
  ASSUME GreetInv, TypeOK', NEW s \in Sessions, ReadPackets(s)
  PROVE  GreetInv'
<1>0. requests \in [Sessions -> SUBSET Requests] /\ status \in [Sessions -> WorldSocketStatus]
  BY DEF GreetInv, TypeOK, QueuesTypeOK, SessionsTypeOK
<1>1. CASE HandleGreetcode(s)
  BY <1>0, <1>1 DEF HandleGreetcode, Ask, GreetInv, OneGreeting
<1>2. CASE HandleGreetPacket(s)
  <2> SUFFICES \A t \in Sessions :
         [type |-> "greetcode"] \in requests'[t] <=> [type |-> "greetcode"] \in requests[t]
    BY <1>0, <1>2, GreetFrame DEF HandleGreetPacket
  <2> QED
    BY <1>0, <1>2 DEF HandleGreetPacket, Ask
<1>3. CASE HandleEnumCharacter(s)
  <2> SUFFICES \A t \in Sessions :
         [type |-> "greetcode"] \in requests'[t] <=> [type |-> "greetcode"] \in requests[t]
    BY <1>0, <1>3, GreetFrame DEF HandleEnumCharacter
  <2> QED
    BY <1>0, <1>3 DEF HandleEnumCharacter, Ask
<1>4. ASSUME NEW c \in Chars, HandleEnterWorld(s, c)
      PROVE  GreetInv'
  <2> SUFFICES \A t \in Sessions :
         [type |-> "greetcode"] \in requests'[t] <=> [type |-> "greetcode"] \in requests[t]
    BY <1>0, <1>4, GreetFrame DEF HandleEnterWorld
  <2> QED
    BY <1>0, <1>4 DEF HandleEnterWorld, Ask
<1>5. CASE HandleExitWorld(s)
  BY <1>0, <1>5, GreetFrame DEF HandleExitWorld, DoExitWorld
<1>6. CASE HandlePlayerMovementUpdate(s)
  BY <1>6, GreetFrame DEF HandlePlayerMovementUpdate, netVars
<1> QED
  BY <1>1, <1>2, <1>3, <1>4, <1>5, <1>6 DEF ReadPackets

\* A session whose entry or exit is answered is not being greeted.
LEMMA AnsweredStatus ==
  ASSUME WorldInv, NEW s \in Sessions, NEW h, IoHead(s, h)
  PROVE  /\ h \in {"enter", "spawned"} => Entering(s)
         /\ h = "left" => status[s] = "LEAVING_WORLD"
<1>1. Head(io[s]) \in IoMsgs /\ Head(io[s]).type = h
  BY IoHeadType DEF IoHead, WorldInv, GreetInv, TypeOK
<1>2. \A M : Head(io[s]) \in M => Holds(io[s], M)
  <2>1. io[s] \in Seq(IoMsgs) /\ io[s] # <<>>
    BY DEF IoHead, WorldInv, GreetInv, TypeOK, QueuesTypeOK
  <2> QED
    BY <2>1, HoldsTail
<1>3. h \in {"enter", "spawned"} => Head(io[s]) \in EnterMsgs
  BY <1>1 DEF EnterMsgs
<1>4. h = "left" => Head(io[s]) \in LeftMsgs
  BY <1>1 DEF LeftMsgs
<1> QED
  BY <1>2, <1>3, <1>4 DEF WorldInv, OneEntry, OneExit

LEMMA ServeIoKeepsGreeting ==
  ASSUME WorldInv, TypeOK', NEW s \in Sessions, ServeIo(s)
  PROVE  GreetInv'
<1> USE DEF WorldInv
<1>0. status \in [Sessions -> WorldSocketStatus]
  BY DEF GreetInv, TypeOK, SessionsTypeOK
<1>1. CASE ServeKick(s)
  BY <1>1, GreetTake, GreetFrame DEF ServeKick
<1>2. CASE ServeGreetcode(s)
  <2>1. /\ Head(io[s]) \in GreetMsgs
        /\ Head(io[s]).row \in Accounts \cup {NoAccount}
        /\ Holds(io[s], GreetMsgs)
        /\ ~Holds(io'[s], GreetMsgs) /\ Once(io'[s], GreetMsgs)
        /\ \A t \in Sessions : t # s => io'[t] = io[t]
    <3>1. IoHead(s, "greetcode") /\ io' = IoRest(s) /\ QueuesTypeOK
      BY <1>2 DEF ServeGreetcode, GreetInv, TypeOK
    <3>2. Head(io[s]) \in IoMsgs /\ Head(io[s]).type = "greetcode"
      BY <3>1, TakeEffect
    <3>3. Head(io[s]) \in GreetMsgs /\ Head(io[s]).row \in Accounts \cup {NoAccount}
      BY <3>2 DEF GreetMsgs, IoMsgs
    <3> QED
      BY <3>1, <3>3, TakeEffect DEF GreetInv, OneGreeting
  <2>2. status[s] = "GATHER_SESSIONKEY_PENDING" /\ [type |-> "greetcode"] \notin requests[s]
    BY <2>1 DEF GreetInv, OneGreeting
  <2>3. \A t \in Sessions : t # s => status'[t] = status[t] /\ account'[t] = account[t]
    BY <1>0, <1>2 DEF ServeGreetcode, GreetInv, TypeOK, SessionsTypeOK
  <2>4. \/ status'[s] = status[s]
        \/ account'[s] = Head(io[s]).row /\ Head(io[s]).row # NoAccount
    BY <1>0, <1>2 DEF ServeGreetcode, GreetInv, TypeOK, SessionsTypeOK
  <2>5. UNCHANGED requests
    BY <1>2 DEF ServeGreetcode
  <2>6. OneGreeting(s)'
    BY <2>1, <2>2, <2>4, <2>5 DEF OneGreeting
  <2>7. ASSUME NEW t \in Sessions, t # s PROVE OneGreeting(t)'
    BY <2>1, <2>3, <2>5, <2>7 DEF GreetInv, OneGreeting
  <2> QED
    BY <2>6, <2>7 DEF GreetInv
<1>3. CASE ServeEnum(s)
  <2>1. \A t \in Sessions :
           /\ Holds(io'[t], GreetMsgs) <=> Holds(io[t], GreetMsgs)
           /\ Once(io[t], GreetMsgs) => Once(io'[t], GreetMsgs)
    BY <1>3, ServeEnumEffect DEF GreetInv, GreetMsgs
  <2>2. UNCHANGED <<account, requests>>
    BY <1>3 DEF ServeEnum
  <2>3. \A t \in Sessions :
          \/ status'[t] = status[t]
          \/ {status[t], status'[t]}
               \cap {"GATHER_SESSIONKEY", "GATHER_SESSIONKEY_PENDING"} = {}
    BY <1>0, <1>3 DEF ServeEnum, FirstList
  <2> QED
    BY <2>1, <2>2, <2>3, GreetFrame
<1>4. CASE ServeEnter(s)
  <2>1. IoHead(s, "enter") /\ io' = IoRest(s) /\ UNCHANGED <<account, requests>>
    BY <1>4 DEF ServeEnter
  <2>2. \A t \in Sessions : status'[t] = status[t] \/ (t = s /\ status'[s] \in {"AUTHED"})
    BY <1>0, <1>4 DEF ServeEnter, BackToAuthed
  <2>3. \A t \in Sessions :
          \/ status'[t] = status[t]
          \/ {status[t], status'[t]}
               \cap {"GATHER_SESSIONKEY", "GATHER_SESSIONKEY_PENDING"} = {}
    BY <2>1, <2>2, AnsweredStatus DEF Entering
  <2> QED
    BY <2>1, <2>3, GreetTake, GreetFrame
<1>5. CASE ServeSpawned(s)
  <2>1. IoHead(s, "spawned") /\ io' = IoRest(s) /\ UNCHANGED <<account, requests>>
    BY <1>5 DEF ServeSpawned
  <2>2. \A t \in Sessions : status'[t] = status[t] \/ (t = s /\ status'[s] \in {"AUTHED", "IN_WORLD"})
    BY <1>0, <1>5 DEF ServeSpawned, BackToAuthed
  <2>3. \A t \in Sessions :
          \/ status'[t] = status[t]
          \/ {status[t], status'[t]}
               \cap {"GATHER_SESSIONKEY", "GATHER_SESSIONKEY_PENDING"} = {}
    BY <2>1, <2>2, AnsweredStatus DEF Entering
  <2> QED
    BY <2>1, <2>3, GreetTake, GreetFrame
<1>6. CASE ServeLeft(s)
  <2>1. IoHead(s, "left") /\ io' = IoRest(s) /\ UNCHANGED <<account, requests>>
    BY <1>6 DEF ServeLeft
  <2>2. \A t \in Sessions : status'[t] = status[t] \/ (t = s /\ status'[s] \in {"AUTHED"})
    BY <1>0, <1>6 DEF ServeLeft, BackToAuthed
  <2>3. \A t \in Sessions :
          \/ status'[t] = status[t]
          \/ {status[t], status'[t]}
               \cap {"GATHER_SESSIONKEY", "GATHER_SESSIONKEY_PENDING"} = {}
    BY <2>1, <2>2, AnsweredStatus DEF Entering
  <2> QED
    BY <2>1, <2>3, GreetTake, GreetFrame
<1> QED
  BY <1>1, <1>2, <1>3, <1>4, <1>5, <1>6 DEF ServeIo

LEMMA SimulationKeepsGreeting ==
  ASSUME GreetInv, TypeOK', ExecuteWorldCmd \/ ZoneUpdate
  PROVE  GreetInv'
<1>0. TypeOK
  BY DEF GreetInv
<1>1. UNCHANGED <<account, requests, status>>
  BY DEF ExecuteWorldCmd, ExecSpawn, ExecExit, ExecDespawn, ExecMove, ZoneUpdate, netVars
<1>2. \/ UNCHANGED io
      \/ \E s \in Sessions : \E m \in IoMsgs : m.type # "greetcode" /\ Post(s, m)
  <2>1. CASE ExecSpawn
    <3>1. Head(cmds).sess \in Sessions /\ nextGuid \in Nat
      BY <1>0, <2>1, CmdHeadType DEF ExecSpawn, CmdHead, WorldCmds, TypeOK, SimulationTypeOK
    <3>2. \A ok \in BOOLEAN, g \in Nat :
            /\ [type |-> "spawned", ok |-> ok, guid |-> g] \in IoMsgs
            /\ [type |-> "spawned", ok |-> ok, guid |-> g].type # "greetcode"
      BY DEF IoMsgs
    <3> QED
      BY <2>1, <3>1, <3>2 DEF ExecSpawn
  <2>2. CASE ExecExit
    <3>1. Head(cmds).sess \in Sessions
      BY <1>0, <2>2, CmdHeadType DEF ExecExit, CmdHead, WorldCmds, TypeOK
    <3>2. [type |-> "left"] \in IoMsgs
      BY DEF IoMsgs
    <3> QED
      BY <2>2, <3>1, <3>2 DEF ExecExit
  <2> QED
    BY <2>1, <2>2 DEF ExecuteWorldCmd, ExecDespawn, ExecMove, ZoneUpdate
<1>3. \A s \in Sessions :
        /\ Holds(io'[s], GreetMsgs) <=> Holds(io[s], GreetMsgs)
        /\ Once(io[s], GreetMsgs) => Once(io'[s], GreetMsgs)
  BY <1>2, GreetPost
<1> QED
  BY <1>1, <1>3, GreetFrame

LEMMA LifetimeKeepsGreeting ==
  ASSUME WorldInv, TypeOK', NEW s \in Sessions,
         \/ Accept(s) \/ Disconnect(s) \/ EndLateRead(s) \/ ProcessPlayerPacketsQueue(s)
         \/ BeginDestroy(s) \/ FinishDestroy(s) \/ \E r \in requests[s] : Respond(s, r)
  PROVE  GreetInv'
<1>0. /\ GreetInv /\ TypeOK
      /\ requests \in [Sessions -> SUBSET Requests] /\ status \in [Sessions -> WorldSocketStatus]
  BY DEF WorldInv, GreetInv, TypeOK, QueuesTypeOK, SessionsTypeOK
<1>1. CASE Accept(s) \/ Disconnect(s) \/ EndLateRead(s) \/ ProcessPlayerPacketsQueue(s) \/ BeginDestroy(s)
  BY <1>0, <1>1, GreetFrame
     DEF Accept, Disconnect, EndLateRead, ProcessPlayerPacketsQueue, BeginDestroy, netVars
<1>2. CASE FinishDestroy(s)
  <2>1. status' = status \/ (playerGUID[s] # 0 /\ status' = [status EXCEPT ![s] = "LEAVING_WORLD"])
    BY <1>2 DEF FinishDestroy, DoExitWorld
  <2>2. playerGUID[s] # 0 => Inside(s)
    BY DEF WorldInv, OwnsInside
  <2>3. \A t \in Sessions :
          \/ status'[t] = status[t]
          \/ {status[t], status'[t]}
               \cap {"GATHER_SESSIONKEY", "GATHER_SESSIONKEY_PENDING"} = {}
    BY <1>0, <2>1, <2>2 DEF Inside
  <2> QED
    BY <1>0, <1>2, <2>3, GreetFrame DEF FinishDestroy
<1>3. ASSUME NEW r \in requests[s], Respond(s, r)
      PROVE  GreetInv'
  <2>1. r \in Requests /\ requests' = [requests EXCEPT ![s] = @ \ {r}]
    BY <1>0, <1>3 DEF Respond
  <2>2. UNCHANGED <<status, account>>
    BY <1>3 DEF Respond, netVars
  <2>3. \/ UNCHANGED io
        \/ \E m \in IoMsgs : m.type = r.type /\ Post(s, m)
    BY <1>3, <2>1, AnswersType DEF Respond, Answers, Requests
  <2>4. CASE r.type # "greetcode"
    <3>1. \A t \in Sessions :
            [type |-> "greetcode"] \in requests'[t] <=> [type |-> "greetcode"] \in requests[t]
      BY <1>0, <2>1, <2>4
    <3>2. \A t \in Sessions :
            /\ Holds(io'[t], GreetMsgs) <=> Holds(io[t], GreetMsgs)
            /\ Once(io[t], GreetMsgs) => Once(io'[t], GreetMsgs)
      BY <1>0, <2>3, <2>4, GreetPost
    <3> QED
      BY <1>0, <2>2, <3>1, <3>2, GreetFrame
  <2>5. CASE r.type = "greetcode"
    <3>1. r = [type |-> "greetcode"]
      BY <2>1, <2>5 DEF Requests
    <3>2. [type |-> "greetcode"] \notin requests'[s] /\ \A t \in Sessions : t # s => requests'[t] = requests[t]
      BY <1>0, <2>1, <3>1
    <3>3. \A t \in Sessions : t # s => io'[t] = io[t]
      BY <1>0, <2>3, PostEffect DEF TypeOK
    <3>4. ~Holds(io[s], GreetMsgs) /\ status[s] = "GATHER_SESSIONKEY_PENDING"
      BY <1>0, <1>3, <3>1 DEF GreetInv, OneGreeting
    <3>5. Once(io'[s], GreetMsgs)
      BY <1>0, <2>3, <3>4, PostEffect DEF TypeOK, GreetInv, OneGreeting
    <3>6. OneGreeting(s)'
      BY <2>2, <3>2, <3>4, <3>5 DEF OneGreeting
    <3> QED
      BY <1>0, <2>2, <3>2, <3>3, <3>6 DEF GreetInv, OneGreeting
  <2> QED
    BY <2>4, <2>5
<1> QED
  BY <1>1, <1>2, <1>3

------------------------------------------------------------------------------
(* Steps that do not concern the world: no session starts or ends a stay,  *)
(* and the queues lose and gain only what WorldInv does not speak of.      *)

WorldlyMsgs == {m \in IoMsgs : m.type \in {"enter", "spawned", "left"}}
WorldlyCmds == {c \in WorldCmds : c.type # "move"}

QuietIo ==
  \A s \in Sessions : \A M : M \subseteq WorldlyMsgs =>
    /\ Holds(io'[s], M) <=> Holds(io[s], M)
    /\ Once(io[s], M) => Once(io'[s], M)

QuietCmds ==
  \A M : M \subseteq WorldlyCmds =>
    /\ Holds(cmds', M) <=> Holds(cmds, M)
    /\ Once(cmds, M) => Once(cmds', M)

QuietStatus ==
  \A s \in Sessions :
    status'[s] = status[s] \/ (~Entering(s) /\ ~Inside(s) /\ ~Entering(s)' /\ ~Inside(s)')

QuietLife ==
  \A s \in Sessions :
    \/ life'[s] = life[s]
    \/ life[s] = "none" /\ life'[s] = "open"
    \/ life'[s] \in {"closed", "dying"}

\* Packets are sent, or a player of the session is corrected.
QuietPackets ==
  \A s \in Sessions :
    \/ packets'[s] = packets[s]
    \/ packets'[s] = <<>>
    \/ \E p \in players : p.sess = s /\ packets'[s] = Append(packets[s], p.guid)

Quiet ==
  /\ UNCHANGED <<playerGUID, players, nextGuid>>
  /\ QuietIo /\ QuietCmds /\ QuietStatus /\ QuietLife
  /\ QuietPackets
  /\ \A s \in Sessions : EnterRequests(s)' = EnterRequests(s)

\* The sets WorldInv looks for in the queues are worldly.
LEMMA WorldlySets ==
  /\ EnterMsgs \subseteq WorldlyMsgs
  /\ LeftMsgs \subseteq WorldlyMsgs
  /\ Spawned \subseteq WorldlyMsgs
  /\ \A g \in Nat : {[type |-> "spawned", ok |-> TRUE, guid |-> g]} \subseteq Spawned
  /\ \A s \in Sessions : SpawnsOf(s) \subseteq WorldlyCmds
  /\ \A s \in Sessions : ExitsOf(s) \subseteq WorldlyCmds
  /\ AllDespawns \subseteq WorldlyCmds
  /\ \A g \in Nat : Despawns(g) \subseteq AllDespawns
  /\ \A s \in Sessions : \A g \in Nat :
        [type |-> "exit", sess |-> s, guid |-> g] \in ExitsOf(s)
<1>1. /\ EnterMsgs \subseteq WorldlyMsgs
      /\ LeftMsgs \subseteq WorldlyMsgs
      /\ Spawned \subseteq WorldlyMsgs
  BY DEF EnterMsgs, LeftMsgs, Spawned, WorldlyMsgs
<1>2. \A g \in Nat : {[type |-> "spawned", ok |-> TRUE, guid |-> g]} \subseteq Spawned
  BY DEF Spawned, IoMsgs
<1>3. /\ \A s \in Sessions : SpawnsOf(s) \subseteq WorldlyCmds
      /\ \A s \in Sessions : ExitsOf(s) \subseteq WorldlyCmds
      /\ AllDespawns \subseteq WorldlyCmds
  BY DEF SpawnsOf, ExitsOf, AllDespawns, WorldlyCmds
<1>4. \A g \in Nat : Despawns(g) \subseteq AllDespawns
  BY DEF Despawns, AllDespawns, WorldCmds
<1>5. \A s \in Sessions : \A g \in Nat :
        [type |-> "exit", sess |-> s, guid |-> g] \in ExitsOf(s)
  BY DEF ExitsOf, WorldCmds
<1> QED
  BY <1>1, <1>2, <1>3, <1>4, <1>5

\* A WorldInv state is a SimInv state, and a step keeps that part of it.
LEMMA StepKeepsSim ==
  ASSUME WorldInv, [Next]_vars
  PROVE  TypeOK' /\ IndexesAgree' /\ (\A p \in players : p.guid \in Issued)'
  BY StepKeepsIndexes DEF WorldInv, GreetInv, SimInv, PlayersIssued, GuidsIssued, Issued

\* The queues' answers in terms of Issued, for a worldly set.
LEMMA IssuedNat == TypeOK => Issued \subseteq Nat /\ nextGuid \in Nat \ {0}
  BY DEF TypeOK, SimulationTypeOK, Issued

\* While a session has a player, nothing is under way that would give it another.
LEMMA CustodyFacts ==
  ASSUME WorldInv, NEW p \in players
  PROVE  /\ p.sess \in Sessions /\ p.guid \in Issued /\ p.char \in Chars
         /\ Entering(p.sess) \/ Inside(p.sess)
         /\ ~Holds(cmds, SpawnsOf(p.sess))
         /\ EnterRequests(p.sess) = {}
         /\ Inside(p.sess) => playerGUID[p.sess] = p.guid
         /\ \A g \in Issued : SpawnResultPending(p.sess, g) => g = p.guid
<1>1. p.sess \in Sessions /\ p.guid \in Issued /\ p.char \in Chars
  BY DEF WorldInv, GreetInv, TypeOK, SimulationTypeOK, Entities, GuidsIssued
<1>2. Issued \subseteq Nat
  BY IssuedNat DEF WorldInv, GreetInv
<1>a. \A g \in Issued : [type |-> "spawned", ok |-> TRUE, guid |-> g] \in EnterMsgs
  BY <1>2 DEF EnterMsgs, IoMsgs
<1>3. \A g \in Issued : SpawnResultPending(p.sess, g) => Holds(io[p.sess], EnterMsgs)
  BY <1>a DEF SpawnResultPending, Holds
<1>4. InCustody(p) /\ OneEntry(p.sess)
  BY <1>1 DEF WorldInv
<1>5. ~(Entering(p.sess) /\ Inside(p.sess))
  BY DEF Entering, Inside
<1>6. ASSUME NEW g \in Issued, SpawnResultPending(p.sess, g)
      PROVE  g = p.guid
  <2>1. Entering(p.sess) /\ Holds(io[p.sess], EnterMsgs)
    BY <1>3, <1>4, <1>6 DEF OneEntry
  <2>2. SpawnResultPending(p.sess, p.guid)
    BY <1>4, <1>5, <2>1 DEF InCustody
  <2>3. PICK i \in DOMAIN io[p.sess] : io[p.sess][i] = [type |-> "spawned", ok |-> TRUE, guid |-> g]
    BY <1>6 DEF SpawnResultPending, Holds
  <2>4. PICK j \in DOMAIN io[p.sess] : io[p.sess][j] = [type |-> "spawned", ok |-> TRUE, guid |-> p.guid]
    BY <2>2 DEF SpawnResultPending, Holds
  <2>5. io[p.sess][i] \in EnterMsgs /\ io[p.sess][j] \in EnterMsgs
    BY <1>1, <1>a, <2>3, <2>4
  <2>6. i = j
    BY <1>4, <2>5 DEF OneEntry, Once
  <2> QED
    BY <2>3, <2>4, <2>6
<1> QED
  BY <1>1, <1>3, <1>4, <1>5, <1>6 DEF InCustody, OneEntry

LEMMA QuietKeepsWorldInv ==
  ASSUME WorldInv, GreetInv', IndexesAgree', Quiet
  PROVE  WorldInv'
<1>1. Issued' = Issued /\ Issued \subseteq Nat
  BY IssuedNat DEF WorldInv, GreetInv, Quiet, Issued
<1>2. \A g \in Issued : DespawnPending(g)' <=> DespawnPending(g)
  BY <1>1, WorldlySets DEF Quiet, QuietCmds, DespawnPending
<1>3. \A s \in Sessions : \A g \in Issued : SpawnResultPending(s, g)' <=> SpawnResultPending(s, g)
  BY <1>1, WorldlySets DEF Quiet, QuietIo, SpawnResultPending
<1>4. \A s \in Sessions : \A g \in Issued : ExitPending(s, g)' <=> ExitPending(s, g)
  <2>1. ASSUME NEW s \in Sessions, NEW g \in Issued
        PROVE  {[type |-> "exit", sess |-> s, guid |-> g]} \subseteq WorldlyCmds
    BY <1>1, WorldlySets
  <2> QED
    BY <2>1 DEF Quiet, QuietCmds, ExitPending
<1>5. GuidsIssued'
  <2>1. {c \in AllDespawns : c.guid \notin Issued} \subseteq WorldlyCmds
    BY WorldlySets
  <2>2. {m \in Spawned : m.guid \notin Issued} \subseteq WorldlyMsgs
    BY WorldlySets
  <2> QED
    BY <1>1, <2>1, <2>2 DEF WorldInv, GuidsIssued, Quiet, QuietIo, QuietCmds
<1>6. OwnsInside'
  BY DEF WorldInv, OwnsInside, Quiet, QuietStatus, QuietLife, Entering, Inside
<1>7. ASSUME NEW s \in Sessions
      PROVE  OneEntry(s)'
  <2>1. Holds(io[s], EnterMsgs)' <=> Holds(io[s], EnterMsgs)
    BY WorldlySets DEF Quiet, QuietIo
  <2>2. Once(io[s], EnterMsgs) => Once(io[s], EnterMsgs)'
    BY WorldlySets DEF Quiet, QuietIo
  <2>3. Holds(cmds, SpawnsOf(s))' <=> Holds(cmds, SpawnsOf(s))
    BY WorldlySets DEF Quiet, QuietCmds
  <2>4. Once(cmds, SpawnsOf(s)) => Once(cmds, SpawnsOf(s))'
    BY WorldlySets DEF Quiet, QuietCmds
  <2>5. EnterRequests(s)' = EnterRequests(s) /\ (~Entering(s)' => ~Entering(s))
    BY DEF Quiet, QuietStatus, Entering
  <2> QED
    BY <2>1, <2>2, <2>3, <2>4, <2>5 DEF WorldInv, OneEntry
<1>8. ASSUME NEW s \in Sessions
      PROVE  OneExit(s)'
  <2>1. Holds(io[s], LeftMsgs)' <=> Holds(io[s], LeftMsgs)
    BY WorldlySets DEF Quiet, QuietIo
  <2>2. Once(io[s], LeftMsgs) => Once(io[s], LeftMsgs)'
    BY WorldlySets DEF Quiet, QuietIo
  <2>3. Holds(cmds, ExitsOf(s))' <=> Holds(cmds, ExitsOf(s))
    BY WorldlySets DEF Quiet, QuietCmds
  <2>4. Once(cmds, ExitsOf(s)) => Once(cmds, ExitsOf(s))'
    BY WorldlySets DEF Quiet, QuietCmds
  <2>5. status'[s] # "LEAVING_WORLD" => status[s] # "LEAVING_WORLD"
    BY DEF Quiet, QuietStatus, Inside
  <2> QED
    BY <1>1, <1>4, <2>1, <2>2, <2>3, <2>4, <2>5 DEF WorldInv, OneExit, Quiet
<1>9. ASSUME NEW s \in Sessions
      PROVE  Confirmed(s)'
  <2>1. \A g \in Issued : Settled(s, g)' <=> Settled(s, g)
    BY <1>2 DEF Settled, Quiet
  <2>2. status'[s] = "IN_WORLD" => status[s] = "IN_WORLD"
    BY DEF Quiet, QuietStatus, Inside
  <2>3. status[s] = "IN_WORLD" => playerGUID[s] \in Issued
    BY DEF WorldInv, Confirmed, Settled, GuidsIssued
  <2> QED
    BY <1>1, <1>3, <2>1, <2>2, <2>3 DEF WorldInv, Confirmed, Quiet
<1>10. ASSUME NEW s \in Sessions
       PROVE  CleanPackets(s)'
  <2>1. Holds(cmds, SpawnsOf(s))' <=> Holds(cmds, SpawnsOf(s))
    BY WorldlySets DEF Quiet, QuietCmds
  <2>2. status'[s] = "IN_WORLD" => status[s] = "IN_WORLD"
    BY DEF Quiet, QuietStatus, Inside
  <2>3. CASE packets'[s] = packets[s]
    BY <1>1, <1>3, <2>1, <2>2, <2>3 DEF WorldInv, CleanPackets, Quiet
  <2>4. CASE packets'[s] = <<>>
    BY <2>4 DEF CleanPackets
  <2>5. ASSUME NEW p \in players, p.sess = s, packets'[s] = Append(packets[s], p.guid)
        PROVE  CleanPackets(s)'
    <3>1. /\ ~Holds(cmds, SpawnsOf(s)) /\ p.guid \in Nat
          /\ status[s] = "IN_WORLD" => playerGUID[s] = p.guid
          /\ \A g \in Issued : SpawnResultPending(s, g) => g = p.guid
      BY <1>1, <2>5, CustodyFacts DEF Inside
    <3>2. packets[s] \in Seq(Nat)
      BY DEF WorldInv, GreetInv, TypeOK, QueuesTypeOK
    <3>3. \A i \in DOMAIN packets'[s] :
            packets'[s][i] = p.guid \/ (i \in DOMAIN packets[s] /\ packets'[s][i] = packets[s][i])
      BY <2>5, <3>1, <3>2
    <3> QED
      BY <1>1, <1>3, <2>1, <2>2, <3>1, <3>3 DEF WorldInv, CleanPackets, Quiet
  <2> QED
    BY <2>3, <2>4, <2>5 DEF Quiet, QuietPackets
<1>11. ASSUME NEW p \in players
       PROVE  InCustody(p)'
  <2>1. p.sess \in Sessions /\ p.guid \in Issued
    BY DEF WorldInv, GreetInv, TypeOK, SimulationTypeOK, Entities, GuidsIssued
  <2>2. /\ Holds(io[p.sess], EnterMsgs)' <=> Holds(io[p.sess], EnterMsgs)
        /\ Holds(io[p.sess], LeftMsgs)' <=> Holds(io[p.sess], LeftMsgs)
        /\ Holds(cmds, SpawnsOf(p.sess))' <=> Holds(cmds, SpawnsOf(p.sess))
    BY <2>1, WorldlySets DEF Quiet, QuietIo, QuietCmds
  <2>3. /\ Entering(p.sess) => Entering(p.sess)'
        /\ Inside(p.sess) => Inside(p.sess)'
    BY <2>1 DEF Quiet, QuietStatus, Entering, Inside
  <2>4. /\ Entering(p.sess) => life[p.sess] # "none"
        /\ life'[p.sess] = "dead" => life[p.sess] = "dead"
        /\ life[p.sess] # "open" /\ life[p.sess] # "none" => life'[p.sess] # "open"
    BY <2>1 DEF WorldInv, OwnsInside, Quiet, QuietLife
  <2>5. EnterRequests(p.sess)' = EnterRequests(p.sess) /\ playerGUID' = playerGUID
    BY <2>1 DEF Quiet
  <2> QED
    BY <1>2, <1>3, <2>1, <2>2, <2>3, <2>4, <2>5 DEF WorldInv, InCustody
<1> QED
  BY <1>5, <1>6, <1>7, <1>8, <1>9, <1>10, <1>11 DEF WorldInv, Quiet

\* Nothing but the socket's and the object's life changes.
LEMMA LifeIsQuiet ==
  ASSUME UNCHANGED <<status, playerGUID, players, nextGuid, io, cmds, requests>>, QuietLife,
         \A s \in Sessions : packets'[s] = packets[s] \/ packets'[s] = <<>>
  PROVE  Quiet
  BY DEF Quiet, QuietIo, QuietCmds, QuietStatus, QuietPackets, EnterRequests

LEMMA CloseIsQuiet ==
  ASSUME TypeOK, NEW s \in Sessions, Close(s) \/ CloseInReader(s)
  PROVE  QuietLife
  BY DEF TypeOK, SessionsTypeOK, Close, CloseInReader, QuietLife

LEMMA LifetimeIsQuiet ==
  ASSUME TypeOK, NEW s \in Sessions,
         \/ Accept(s) \/ Disconnect(s) \/ EndLateRead(s)
         \/ ProcessPlayerPacketsQueue(s) \/ BeginDestroy(s)
  PROVE  Quiet
<1>0. life \in [Sessions -> Lives] /\ packets \in [Sessions -> Seq(Nat)]
  BY DEF TypeOK, SessionsTypeOK, QueuesTypeOK
<1>1. CASE Accept(s)
  BY <1>0, <1>1, LifeIsQuiet DEF Accept, QuietLife, simVars
<1>2. CASE Disconnect(s)
  BY <1>2, LifeIsQuiet, CloseIsQuiet DEF Disconnect, simVars
<1>3. CASE EndLateRead(s)
  BY <1>3, LifeIsQuiet, CloseIsQuiet DEF EndLateRead, simVars
<1>4. CASE ProcessPlayerPacketsQueue(s)
  <2>1. \A t \in Sessions : packets'[t] = packets[t] \/ packets'[t] = <<>>
    BY <1>0, <1>4 DEF ProcessPlayerPacketsQueue
  <2> QED
    BY <1>4, <2>1, LifeIsQuiet DEF ProcessPlayerPacketsQueue, QuietLife, netVars, simVars
<1>5. CASE BeginDestroy(s)
  BY <1>0, <1>5, LifeIsQuiet DEF BeginDestroy, QuietLife, simVars
<1> QED
  BY <1>1, <1>2, <1>3, <1>4, <1>5

\* A request of another kind joins or leaves the requests.
LEMMA OtherRequests ==
  ASSUME TypeOK, NEW s \in Sessions, NEW r \in Requests, r.type # "enter",
         Ask(s, r) \/ UNCHANGED requests \/ requests' = [requests EXCEPT ![s] = @ \ {r}]
  PROVE  \A t \in Sessions : EnterRequests(t)' = EnterRequests(t)
<1>1. requests \in [Sessions -> SUBSET Requests]
  BY DEF TypeOK, QueuesTypeOK
<1> QED
  BY <1>1 DEF Ask, EnterRequests

LEMMA ReadingIsQuiet ==
  ASSUME TypeOK, NEW s \in Sessions,
         \/ HandleGreetcode(s) \/ HandleGreetPacket(s) \/ HandleEnumCharacter(s)
         \/ HandlePlayerMovementUpdate(s)
  PROVE  Quiet
<1>0. life \in [Sessions -> Lives] /\ status \in [Sessions -> WorldSocketStatus]
      /\ [type |-> "enum"] \in Requests /\ [type |-> "greetcode"] \in Requests
      /\ [type |-> "enum"].type # "enter" /\ [type |-> "greetcode"].type # "enter"
  BY DEF TypeOK, SessionsTypeOK, Requests
<1>1. CASE HandleGreetcode(s)
  <2>1. \A t \in Sessions : EnterRequests(t)' = EnterRequests(t)
    BY <1>0, <1>1, OtherRequests DEF HandleGreetcode
  <2>2. QuietStatus /\ QuietLife
    BY <1>0, <1>1 DEF HandleGreetcode, QuietStatus, QuietLife, Entering, Inside
  <2> QED
    BY <1>1, <2>1, <2>2 DEF HandleGreetcode, Quiet, QuietPackets, QuietIo, QuietCmds, simVars
<1>2. CASE HandleGreetPacket(s)
  <2>1. \A t \in Sessions : EnterRequests(t)' = EnterRequests(t)
    BY <1>0, <1>2, OtherRequests DEF HandleGreetPacket
  <2>2. QuietStatus
    BY <1>0, <1>2 DEF HandleGreetPacket, QuietStatus, Entering, Inside
  <2>3. QuietLife
    BY <1>2, CloseIsQuiet DEF HandleGreetPacket, QuietLife
  <2> QED
    BY <1>2, <2>1, <2>2, <2>3 DEF HandleGreetPacket, Quiet, QuietPackets, QuietIo, QuietCmds, simVars
<1>3. CASE HandleEnumCharacter(s)
  <2>1. \A t \in Sessions : EnterRequests(t)' = EnterRequests(t)
    BY <1>0, <1>3, OtherRequests DEF HandleEnumCharacter
  <2>2. QuietStatus
    BY <1>3 DEF HandleEnumCharacter, QuietStatus
  <2>3. QuietLife
    BY <1>3, CloseIsQuiet DEF HandleEnumCharacter, QuietLife
  <2> QED
    BY <1>3, <2>1, <2>2, <2>3 DEF HandleEnumCharacter, Quiet, QuietPackets, QuietIo, QuietCmds, simVars
<1>4. CASE HandlePlayerMovementUpdate(s)
  <2> DEFINE move == [type |-> "move", sess |-> s, guid |-> playerGUID[s]]
  <2>1. move \in WorldCmds /\ cmds' = Append(cmds, move)
    BY <1>4 DEF HandlePlayerMovementUpdate, WorldCmds, TypeOK, SessionsTypeOK
  <2>2. \A M : M \subseteq WorldlyCmds => move \notin M
    BY DEF WorldlyCmds
  <2> HIDE DEF move
  <2>3. QuietCmds
    BY <2>1, <2>2, PostCmdEffect DEF QuietCmds, TypeOK
  <2>4. QuietStatus /\ QuietLife
    BY <1>4 DEF HandlePlayerMovementUpdate, QuietStatus, QuietLife, netVars
  <2> QED
    BY <1>4, <2>3, <2>4
       DEF HandlePlayerMovementUpdate, Quiet, QuietPackets, QuietIo, EnterRequests, netVars, simVars
<1> QED
  BY <1>1, <1>2, <1>3, <1>4

\* Serving a kick, a greeting or a character list.
LEMMA ServingIsQuiet ==
  ASSUME WorldInv, NEW s \in Sessions, ServeKick(s) \/ ServeGreetcode(s) \/ ServeEnum(s)
  PROVE  Quiet
<1>0. TypeOK /\ life \in [Sessions -> Lives] /\ status \in [Sessions -> WorldSocketStatus]
  BY DEF WorldInv, GreetInv, TypeOK, SessionsTypeOK
<1>a. ASSUME NEW h, IoHead(s, h), h \in {"kick", "greetcode"}, io' = IoRest(s)
      PROVE  QuietIo
  <2>1. \A M : M \subseteq WorldlyMsgs => Head(io[s]) \notin M
    BY <1>0, <1>a, TakeEffect DEF TypeOK, WorldlyMsgs
  <2> QED
    BY <1>0, <1>a, <2>1, TakeEffect DEF QuietIo, TypeOK
<1>1. CASE ServeKick(s)
  <2>1. QuietIo /\ QuietLife
    BY <1>0, <1>1, <1>a, CloseIsQuiet DEF ServeKick
  <2> QED
    BY <1>1, <2>1 DEF ServeKick, Quiet, QuietPackets, QuietCmds, QuietStatus, EnterRequests, simVars
<1>2. CASE ServeGreetcode(s)
  <2>1. QuietIo
    BY <1>2, <1>a DEF ServeGreetcode
  <2>2. QuietLife
    BY <1>0, <1>2, CloseIsQuiet DEF ServeGreetcode, QuietLife
  <2>3. status[s] = "GATHER_SESSIONKEY_PENDING"
    <3>1. io[s] \in Seq(IoMsgs) /\ io[s] # <<>> /\ Head(io[s]) \in GreetMsgs
      BY <1>0, <1>2, IoHeadType DEF ServeGreetcode, IoHead, TypeOK, QueuesTypeOK, GreetMsgs
    <3> QED
      BY <3>1, HoldsTail DEF WorldInv, GreetInv, OneGreeting
  <2>4. QuietStatus
    BY <1>0, <1>2, <2>3 DEF ServeGreetcode, QuietStatus, Entering, Inside
  <2> QED
    BY <1>2, <2>1, <2>2, <2>4 DEF ServeGreetcode, Quiet, QuietPackets, QuietCmds, EnterRequests, simVars
<1>3. CASE ServeEnum(s)
  <2>1. QuietIo
    BY <1>0, <1>3, ServeEnumEffect DEF QuietIo, WorldlyMsgs
  <2>2. QuietLife
    BY <1>0, <1>3, CloseIsQuiet DEF ServeEnum, QuietLife
  <2>3. QuietStatus
    BY <1>0, <1>3 DEF ServeEnum, FirstList, QuietStatus, Entering, Inside
  <2> QED
    BY <1>3, <2>1, <2>2, <2>3 DEF ServeEnum, Quiet, QuietPackets, QuietCmds, EnterRequests, simVars
<1> QED
  BY <1>1, <1>2, <1>3

\* The DB worker answers a greeting or a character list.
LEMMA OtherAnswersAreQuiet ==
  ASSUME TypeOK, NEW s \in Sessions, NEW r \in requests[s], r.type # "enter", Respond(s, r)
  PROVE  Quiet
<1>1. r \in Requests /\ requests' = [requests EXCEPT ![s] = @ \ {r}]
  BY DEF Respond, TypeOK, QueuesTypeOK
<1>2. \/ UNCHANGED io
      \/ \E m \in IoMsgs : m.type = r.type /\ Post(s, m)
  BY <1>1, AnswersType DEF Respond, Answers, Requests
<1>3. r.type \in {"greetcode", "enum"}
  BY <1>1 DEF Requests
<1>4. QuietIo
  <2>1. CASE UNCHANGED io
    BY <2>1 DEF QuietIo
  <2>2. ASSUME NEW m \in IoMsgs, m.type = r.type, Post(s, m)
        PROVE  QuietIo
    <3>1. \A M : M \subseteq WorldlyMsgs => m \notin M
      BY <1>3, <2>2 DEF WorldlyMsgs
    <3> QED
      BY <2>2, <3>1, PostEffect DEF QuietIo, TypeOK
  <2> QED
    BY <1>2, <2>1, <2>2
<1>5. \A t \in Sessions : EnterRequests(t)' = EnterRequests(t)
  BY <1>1, OtherRequests
<1> QED
  BY <1>4, <1>5 DEF Respond, Quiet, QuietPackets, QuietCmds, QuietStatus, QuietLife, netVars, simVars

\* A movement command, or the zones' own update: at most a correction.
LEMMA CorrectionIsQuiet ==
  ASSUME TypeOK, NEW p \in players, SendMovementCorrection(p)
  PROVE  QuietPackets
<1>1. packets \in [Sessions -> Seq(Nat)]
  BY DEF TypeOK, QueuesTypeOK
<1> QED
  BY <1>1 DEF SendMovementCorrection, QuietPackets

LEMMA MovingIsQuiet ==
  ASSUME WorldInv, ExecMove \/ ZoneUpdate
  PROVE  Quiet
<1>0. TypeOK /\ zone = players
  BY DEF WorldInv, GreetInv, IndexesAgree
<1>1. QuietPackets
  BY <1>0, CorrectionIsQuiet DEF ExecMove, ZoneUpdate, QuietPackets
<1>2. QuietCmds
  <2>1. CASE ExecMove
    <3>1. \A M : M \subseteq WorldlyCmds => Head(cmds) \notin M
      BY <2>1 DEF ExecMove, CmdHead, WorldlyCmds
    <3> QED
      BY <1>0, <2>1, <3>1, TakeCmdEffect DEF ExecMove, QuietCmds, TypeOK
  <2>2. CASE ZoneUpdate
    BY <2>2 DEF ZoneUpdate, QuietCmds
  <2> QED
    BY <2>1, <2>2
<1> QED
  BY <1>1, <1>2
     DEF ExecMove, ZoneUpdate, Quiet, QuietIo, QuietStatus, QuietLife, EnterRequests, netVars, simVars

------------------------------------------------------------------------------
(* The steps of a stay in the world, one lemma per action.  In each, what   *)
(* WorldInv says of a session other than the acting one is left alone.      *)

\* HandleEnterWorld: the request is the only thing under way.
LEMMA EnterWorldKeepsWorldInv ==
  ASSUME WorldInv, GreetInv', IndexesAgree', NEW s \in Sessions, NEW c \in Chars,
         HandleEnterWorld(s, c)
  PROVE  WorldInv'
<1>0. /\ TypeOK /\ status \in [Sessions -> WorldSocketStatus]
      /\ requests \in [Sessions -> SUBSET Requests]
  BY DEF WorldInv, GreetInv, TypeOK, SessionsTypeOK, QueuesTypeOK
<1>1. CASE UNCHANGED <<requests, status>>
  <2>1. QuietLife
    BY <1>0, <1>1, CloseIsQuiet DEF HandleEnterWorld, QuietLife
  <2>2. Quiet
    BY <1>1, <2>1, LifeIsQuiet DEF HandleEnterWorld, simVars
  <2> QED
    BY <2>2, QuietKeepsWorldInv
<1>2. CASE /\ Ask(s, [type |-> "enter", char |-> c])
           /\ status' = [status EXCEPT ![s] = "ENTERING_WORLD"]
           /\ UNCHANGED <<life, lateRead>>
  <2>1. /\ status[s] = "AUTHED" /\ status'[s] = "ENTERING_WORLD" /\ life[s] # "none"
        /\ \A t \in Sessions : t # s => status'[t] = status[t]
        /\ UNCHANGED <<life, playerGUID, packets, io, cmds, players, nextGuid>>
    BY <1>0, <1>2 DEF HandleEnterWorld, CanRead, simVars
  <2>2. /\ EnterRequests(s)' = EnterRequests(s) \cup {[type |-> "enter", char |-> c]}
        /\ \A t \in Sessions : t # s => EnterRequests(t)' = EnterRequests(t)
    BY <1>0, <1>2 DEF Ask, EnterRequests
  <2>3. ~Entering(s) /\ ~Inside(s) /\ Entering(s)' /\ ~Inside(s)'
    BY <2>1 DEF Entering, Inside
  <2>4. GuidsIssued'
    BY <2>1 DEF WorldInv, GuidsIssued, Issued
  <2>5. OwnsInside'
    BY <2>1, <2>3 DEF WorldInv, OwnsInside, Entering, Inside
  <2>6. \A t \in Sessions : OneEntry(t)'
    <3>1. OneEntry(s)'
      BY <2>1, <2>2, <2>3 DEF WorldInv, OneEntry
    <3>2. ASSUME NEW t \in Sessions, t # s PROVE OneEntry(t)'
      BY <2>1, <2>2, <3>2 DEF WorldInv, OneEntry, Entering
    <3> QED
      BY <3>1, <3>2
  <2>7. \A t \in Sessions : OneExit(t)'
    BY <2>1 DEF WorldInv, OneExit, Issued, ExitPending
  <2>a. \A t \in Sessions : status'[t] = "IN_WORLD" => status[t] = "IN_WORLD"
    BY <2>1
  <2>b. /\ Issued' = Issued
        /\ \A t \in Sessions, g \in Issued :
             /\ SpawnResultPending(t, g)' <=> SpawnResultPending(t, g)
             /\ Settled(t, g)' <=> Settled(t, g)
    BY <2>1 DEF Issued, SpawnResultPending, Settled, DespawnPending
  <2>c. \A t \in Sessions : status[t] = "IN_WORLD" => playerGUID[t] \in Issued
    BY DEF WorldInv, Confirmed, Settled, GuidsIssued
  <2>8. \A t \in Sessions : Confirmed(t)'
    BY <2>1, <2>a, <2>b, <2>c DEF WorldInv, Confirmed
  <2>9. \A t \in Sessions : CleanPackets(t)'
    BY <2>1, <2>a, <2>b DEF WorldInv, CleanPackets
  <2>10. \A p \in players : InCustody(p)'
    <3>1. ASSUME NEW p \in players PROVE InCustody(p)'
      <4>1. p.sess \in Sessions /\ p.sess # s
        BY <2>3, CustodyFacts
      <4> QED
        BY <2>1, <2>2, <4>1
           DEF WorldInv, InCustody, Entering, Inside, SpawnResultPending, DespawnPending
    <3> QED
      BY <3>1
  <2> QED
    BY <2>1, <2>4, <2>5, <2>6, <2>7, <2>8, <2>9, <2>10 DEF WorldInv
<1> QED
  BY <1>1, <1>2 DEF HandleEnterWorld

\* A step that concerns session s only: of the others' state it changes
\* nothing, and none of their players is about to be despawned because of it.
OnlySession(s) ==
  /\ UNCHANGED <<players, nextGuid>>
  /\ \A t \in Sessions : t # s =>
       /\ status'[t] = status[t] /\ playerGUID'[t] = playerGUID[t]
       /\ life'[t] = life[t] /\ packets'[t] = packets[t] /\ io'[t] = io[t]
       /\ EnterRequests(t)' = EnterRequests(t)
       /\ Holds(cmds, SpawnsOf(t))' <=> Holds(cmds, SpawnsOf(t))
       /\ Once(cmds, SpawnsOf(t)) => Once(cmds, SpawnsOf(t))'
       /\ Holds(cmds, ExitsOf(t))' <=> Holds(cmds, ExitsOf(t))
       /\ Once(cmds, ExitsOf(t)) => Once(cmds, ExitsOf(t))'
       /\ \A g \in Issued : ExitPending(t, g)' => ExitPending(t, g)
  /\ \A p \in players : p.sess # s => (DespawnPending(p.guid)' <=> DespawnPending(p.guid))

LEMMA OthersKeepWorldInv ==
  ASSUME WorldInv, NEW s \in Sessions, OnlySession(s)
  PROVE  /\ \A t \in Sessions : t # s =>
              OneEntry(t)' /\ OneExit(t)' /\ Confirmed(t)' /\ CleanPackets(t)'
         /\ \A p \in players : p.sess # s => InCustody(p)'
<1>1. Issued' = Issued
  BY DEF OnlySession, Issued
<1>2. ASSUME NEW t \in Sessions, t # s
      PROVE  OneEntry(t)'
  BY <1>2 DEF WorldInv, OnlySession, OneEntry, Entering
<1>3. ASSUME NEW t \in Sessions, t # s
      PROVE  OneExit(t)'
  BY <1>1, <1>3 DEF WorldInv, OnlySession, OneExit
<1>4. ASSUME NEW t \in Sessions, t # s
      PROVE  /\ \A g \in Issued : SpawnResultPending(t, g)' <=> SpawnResultPending(t, g)
             /\ \A g \in Issued : Settled(t, g) => Settled(t, g)'
  <2>1. \A g \in Issued : SpawnResultPending(t, g)' <=> SpawnResultPending(t, g)
    BY <1>4 DEF OnlySession, SpawnResultPending
  <2>2. \A g \in Issued : Settled(t, g) => Settled(t, g)'
    BY <1>4 DEF OnlySession, Settled
  <2> QED
    BY <2>1, <2>2
<1>5. ASSUME NEW t \in Sessions, t # s
      PROVE  Confirmed(t)'
  <2>1. status[t] = "IN_WORLD" => playerGUID[t] \in Issued
    BY DEF WorldInv, Confirmed, Settled, GuidsIssued
  <2> QED
    BY <1>1, <1>4, <1>5, <2>1 DEF WorldInv, OnlySession, Confirmed
<1>6. ASSUME NEW t \in Sessions, t # s
      PROVE  CleanPackets(t)'
  BY <1>1, <1>4, <1>6 DEF WorldInv, OnlySession, CleanPackets
<1>7. ASSUME NEW p \in players, p.sess # s
      PROVE  InCustody(p)'
  BY <1>4, <1>7, CustodyFacts DEF WorldInv, OnlySession, InCustody, Entering, Inside
<1> QED
  BY <1>2, <1>3, <1>5, <1>6, <1>7

\* The worker's answer takes the place of the request.
LEMMA EnterAnswerKeepsWorldInv ==
  ASSUME WorldInv, GreetInv', IndexesAgree', NEW s \in Sessions, NEW r \in requests[s],
         r.type = "enter", Respond(s, r)
  PROVE  WorldInv'
<1>0. TypeOK /\ requests \in [Sessions -> SUBSET Requests] /\ QueuesTypeOK /\ r \in Requests
  BY DEF WorldInv, GreetInv, TypeOK, QueuesTypeOK
<1>1. /\ requests' = [requests EXCEPT ![s] = @ \ {r}]
      /\ UNCHANGED <<status, playerGUID, life, packets, cmds, players, nextGuid>>
  BY DEF Respond, netVars, simVars
<1>2. r \in EnterRequests(s)
  BY DEF EnterRequests
<1>3. /\ Entering(s) /\ ~Holds(io[s], EnterMsgs) /\ ~Holds(cmds, SpawnsOf(s))
      /\ EnterRequests(s) = {r}
  BY <1>2 DEF WorldInv, OneEntry
<1>4. /\ EnterRequests(s)' = {}
      /\ \A t \in Sessions : t # s => EnterRequests(t)' = EnterRequests(t)
  BY <1>0, <1>1, <1>3 DEF EnterRequests
<1>5. UNCHANGED io \/ \E m \in IoMsgs : m.type = "enter" /\ Post(s, m)
  BY <1>0, AnswersType DEF Respond, Answers, Requests
<1>6. /\ \A t \in Sessions : t # s => io'[t] = io[t]
      /\ Once(io'[s], EnterMsgs)
      /\ \A M : M \cap {m \in IoMsgs : m.type = "enter"} = {} =>
            /\ Holds(io'[s], M) <=> Holds(io[s], M)
            /\ Once(io[s], M) => Once(io'[s], M)
  BY <1>0, <1>3, <1>5, PostEffect DEF WorldInv, OneEntry
<1>7. OnlySession(s)
  BY <1>1, <1>4, <1>6 DEF OnlySession, ExitPending, DespawnPending
<1>8. /\ Holds(io'[s], LeftMsgs) <=> Holds(io[s], LeftMsgs)
      /\ Once(io[s], LeftMsgs) => Once(io'[s], LeftMsgs)
  BY <1>6 DEF LeftMsgs
<1>9. /\ Issued' = Issued
      /\ \A g \in Issued : SpawnResultPending(s, g)' <=> SpawnResultPending(s, g)
  BY <1>1, <1>6 DEF Issued, SpawnResultPending
<1>10. GuidsIssued'
  <2>1. ASSUME NEW t \in Sessions
        PROVE  ~Holds(io'[t], {m \in Spawned : m.guid \notin Issued})
    BY <1>6 DEF WorldInv, GuidsIssued, Spawned
  <2> QED
    BY <1>1, <1>9, <2>1 DEF WorldInv, GuidsIssued
<1>11. OwnsInside'
  BY <1>1 DEF WorldInv, OwnsInside, Entering, Inside
<1>12. OneEntry(s)'
  BY <1>1, <1>3, <1>4, <1>6 DEF WorldInv, OneEntry, Entering
<1>13. OneExit(s)'
  BY <1>1, <1>8, <1>9 DEF WorldInv, OneExit, ExitPending
<1>14. Confirmed(s)'
  BY <1>1, <1>9 DEF WorldInv, Confirmed, Settled, DespawnPending
<1>15. CleanPackets(s)'
  BY <1>1, <1>9 DEF WorldInv, CleanPackets
<1>16. \A p \in players : p.sess # s
  BY <1>2, CustodyFacts
<1> QED
  BY <1>1, <1>7, <1>10, <1>11, <1>12, <1>13, <1>14, <1>15, <1>16, OthersKeepWorldInv DEF WorldInv

\* The response to ENTER_WORLD is served: the session fails, is refused, or its
\* spawn takes the response's place.
LEMMA ServeEnterKeepsWorldInv ==
  ASSUME WorldInv, GreetInv', IndexesAgree', NEW s \in Sessions, ServeEnter(s)
  PROVE  WorldInv'
<1> DEFINE m == Head(io[s])
           spawn == [type |-> "spawn", sess |-> s, char |-> m.char]
<1>0. /\ TypeOK /\ QueuesTypeOK /\ status \in [Sessions -> WorldSocketStatus]
      /\ life \in [Sessions -> Lives] /\ packets \in [Sessions -> Seq(Nat)]
  BY DEF WorldInv, GreetInv, TypeOK, SessionsTypeOK, QueuesTypeOK
<1>1. /\ IoHead(s, "enter") /\ io' = IoRest(s)
      /\ UNCHANGED <<playerGUID, requests, players, nextGuid>>
  BY DEF ServeEnter, simVars
<1>2. /\ m \in IoMsgs /\ m.type = "enter" /\ m \in EnterMsgs
      /\ \A t \in Sessions : t # s => io'[t] = io[t]
      /\ \A M : Holds(io[s], M) <=> m \in M \/ Holds(io'[s], M)
      /\ \A M : Once(io[s], M) => Once(io'[s], M) /\ (m \in M => ~Holds(io'[s], M))
  BY <1>0, <1>1, TakeEffect DEF EnterMsgs
<1>3. /\ Entering(s) /\ ~Inside(s) /\ ~Holds(io'[s], EnterMsgs) /\ Once(io'[s], EnterMsgs)
      /\ ~Holds(cmds, SpawnsOf(s)) /\ EnterRequests(s) = {}
      /\ ~Holds(io'[s], LeftMsgs) /\ Once(io'[s], LeftMsgs) /\ ~Holds(cmds, ExitsOf(s))
  <2>1. /\ Entering(s) /\ ~Holds(io'[s], EnterMsgs) /\ Once(io'[s], EnterMsgs)
        /\ ~Holds(cmds, SpawnsOf(s)) /\ EnterRequests(s) = {}
    BY <1>2 DEF WorldInv, OneEntry
  <2>2. ~Inside(s) /\ status[s] # "LEAVING_WORLD"
    BY <2>1 DEF Entering, Inside
  <2> QED
    BY <1>2, <2>1, <2>2 DEF WorldInv, OneExit
<1>4. /\ spawn \in WorldCmds /\ spawn \in SpawnsOf(s)
      /\ \A t \in Sessions : spawn \notin ExitsOf(t) /\ (t # s => spawn \notin SpawnsOf(t))
      /\ spawn \notin AllDespawns
      /\ \A g \in Nat : spawn \notin Despawns(g)
      /\ \A t \in Sessions, g \in Nat : spawn # [type |-> "exit", sess |-> t, guid |-> g]
  <2>1. m.char \in Chars
    BY <1>2 DEF IoMsgs
  <2>2. spawn \in WorldCmds
    BY <2>1 DEF WorldCmds
  <2> HIDE DEF m
  <2> QED
    BY <2>2 DEF SpawnsOf, ExitsOf, AllDespawns, Despawns
<1>5. \/ UNCHANGED <<status, packets, cmds>>
      \/ status' = [status EXCEPT ![s] = "AUTHED"] /\ UNCHANGED <<packets, cmds>>
      \/ /\ UNCHANGED status
         /\ packets' = [packets EXCEPT ![s] = <<>>]
         /\ cmds' = Append(cmds, spawn)
  BY DEF ServeEnter, BackToAuthed, ClearPackets
<1> HIDE DEF m, spawn
<1>6. /\ \A t \in Sessions : t # s => life'[t] = life[t] /\ status'[t] = status[t] /\ packets'[t] = packets[t]
      /\ life[s] = "none" => life'[s] = "none"
  BY <1>0, <1>5 DEF ServeEnter, Close
<1>7. \/ UNCHANGED cmds
      \/ /\ \A M : Holds(cmds', M) <=> Holds(cmds, M) \/ spawn \in M
         /\ \A M : Once(cmds', M) <=> Once(cmds, M) /\ (spawn \in M => ~Holds(cmds, M))
  BY <1>0, <1>4, <1>5, PostCmdEffect
<1>8. Issued' = Issued /\ Issued \subseteq Nat
  BY <1>0, <1>1, IssuedNat DEF Issued
<1>9. /\ \A t \in Sessions, g \in Issued : ExitPending(t, g)' <=> ExitPending(t, g)
      /\ \A g \in Issued : DespawnPending(g)' <=> DespawnPending(g)
      /\ ~Holds(cmds', {c \in AllDespawns : c.guid \notin Issued})
  <2>1. \A t \in Sessions, g \in Issued : ExitPending(t, g)' <=> ExitPending(t, g)
    BY <1>4, <1>7, <1>8 DEF ExitPending
  <2>2. \A g \in Issued : DespawnPending(g)' <=> DespawnPending(g)
    BY <1>4, <1>7, <1>8 DEF DespawnPending
  <2>3. ~Holds(cmds', {c \in AllDespawns : c.guid \notin Issued})
    BY <1>4, <1>7 DEF WorldInv, GuidsIssued
  <2> QED
    BY <2>1, <2>2, <2>3
<1>10. OnlySession(s)
  <2>1. \A p \in players : p.guid \in Issued
    BY DEF WorldInv, GuidsIssued
  <2>2. \A t \in Sessions : EnterRequests(t)' = EnterRequests(t)
    BY <1>1 DEF EnterRequests
  <2>3. \A t \in Sessions : t # s =>
          /\ Holds(cmds, SpawnsOf(t))' <=> Holds(cmds, SpawnsOf(t))
          /\ Once(cmds, SpawnsOf(t)) => Once(cmds, SpawnsOf(t))'
          /\ Holds(cmds, ExitsOf(t))' <=> Holds(cmds, ExitsOf(t))
          /\ Once(cmds, ExitsOf(t)) => Once(cmds, ExitsOf(t))'
    BY <1>4, <1>7
  <2> QED
    BY <1>1, <1>2, <1>6, <1>9, <2>1, <2>2, <2>3 DEF OnlySession
<1>11. \A p \in players : p.sess # s
  <2>1. \A p \in players : p.sess = s => SpawnResultPending(s, p.guid)
    BY <1>2, <1>3 DEF WorldInv, InCustody
  <2>2. \A g \in Issued : [type |-> "spawned", ok |-> TRUE, guid |-> g] \in EnterMsgs
    BY <1>8 DEF EnterMsgs, IoMsgs
  <2>3. \A g \in Issued : ~Holds(io'[s], {[type |-> "spawned", ok |-> TRUE, guid |-> g]})
    BY <1>3, <2>2 DEF Holds
  <2>4. \A g : m # [type |-> "spawned", ok |-> TRUE, guid |-> g]
    BY <1>2
  <2>5. \A g \in Issued : ~SpawnResultPending(s, g)
    BY <1>2, <2>3, <2>4 DEF SpawnResultPending
  <2> QED
    BY <2>1, <2>5 DEF WorldInv, GuidsIssued
<1>12. \A g \in Issued : ~SpawnResultPending(s, g)'
  <2>1. \A g \in Issued : [type |-> "spawned", ok |-> TRUE, guid |-> g] \in EnterMsgs
    BY <1>8 DEF EnterMsgs, IoMsgs
  <2> QED
    BY <1>3, <2>1 DEF SpawnResultPending, Holds
<1>13. GuidsIssued'
  <2>1. \A t \in Sessions : ~Holds(io'[t], {n \in Spawned : n.guid \notin Issued})
    BY <1>2 DEF WorldInv, GuidsIssued
  <2> QED
    BY <1>1, <1>8, <1>9, <2>1 DEF WorldInv, GuidsIssued
<1>14. OwnsInside'
  <2>1. ~Inside(s)'
    BY <1>0, <1>3, <1>5 DEF Entering, Inside
  <2>2. life[s] # "none"
    BY <1>3 DEF WorldInv, OwnsInside
  <2>3. life'[s] # "none"
    BY <1>0, <2>2 DEF ServeEnter, Close
  <2> QED
    BY <1>1, <1>3, <1>6, <2>1, <2>3 DEF WorldInv, OwnsInside, Entering, Inside
<1>15. status'[s] \in {"ENTERING_WORLD", "AUTHED"} /\ (status'[s] = "AUTHED" => UNCHANGED cmds)
  BY <1>0, <1>3, <1>5 DEF Entering
<1>16. OneEntry(s)'
  <2>1. EnterRequests(s)' = {}
    BY <1>1, <1>3 DEF EnterRequests
  <2>2. Once(cmds', SpawnsOf(s))
    BY <1>3, <1>7 DEF WorldInv, OneEntry
  <2> QED
    BY <1>3, <1>15, <2>1, <2>2 DEF OneEntry, Entering
<1>17. OneExit(s)'
  BY <1>1, <1>3, <1>4, <1>7, <1>8, <1>9 DEF WorldInv, OneExit
<1>18. Confirmed(s)'
  BY <1>8, <1>12, <1>15 DEF Confirmed
<1>19. CleanPackets(s)'
  <2>1. Holds(cmds', SpawnsOf(s)) => packets'[s] = <<>>
    BY <1>0, <1>3, <1>5
  <2> QED
    BY <1>8, <1>12, <1>15, <2>1 DEF CleanPackets
<1> QED
  BY <1>1, <1>10, <1>11, <1>13, <1>14, <1>16, <1>17, <1>18, <1>19, OthersKeepWorldInv DEF WorldInv

\* The result of the spawn is served: the session owns the player, or has none;
\* when it closed meanwhile, the rollback takes the result's place.
LEMMA ServeSpawnedKeepsWorldInv ==
  ASSUME WorldInv, GreetInv', IndexesAgree', NEW s \in Sessions, ServeSpawned(s)
  PROVE  WorldInv'
<1> DEFINE m == Head(io[s])
           g == m.guid
           rollback == [type |-> "rollback", guid |-> g]
<1>0. /\ TypeOK /\ QueuesTypeOK /\ status \in [Sessions -> WorldSocketStatus]
      /\ playerGUID \in [Sessions -> Nat]
  BY DEF WorldInv, GreetInv, TypeOK, SessionsTypeOK, QueuesTypeOK
<1>1. /\ IoHead(s, "spawned") /\ io' = IoRest(s)
      /\ UNCHANGED <<life, packets, requests, players, nextGuid>>
  BY DEF ServeSpawned, simVars
<1>2. /\ m \in IoMsgs /\ m.type = "spawned" /\ m \in EnterMsgs
      /\ \A t \in Sessions : t # s => io'[t] = io[t]
      /\ \A M : Holds(io[s], M) <=> m \in M \/ Holds(io'[s], M)
      /\ \A M : Once(io[s], M) => Once(io'[s], M) /\ (m \in M => ~Holds(io'[s], M))
  BY <1>0, <1>1, TakeEffect DEF EnterMsgs
<1>3. m.ok \in BOOLEAN /\ g \in Nat /\ rollback \in WorldCmds
      /\ (m.ok => m = [type |-> "spawned", ok |-> TRUE, guid |-> g] /\ m \in Spawned)
      /\ (~m.ok => \A h : m # [type |-> "spawned", ok |-> TRUE, guid |-> h])
  <2>1. m \in [type : {"spawned"}, ok : BOOLEAN, guid : Nat]
    BY <1>2 DEF IoMsgs
  <2>2. m.ok \in BOOLEAN /\ g \in Nat
    BY <2>1
  <2>3. m = [type |-> "spawned", ok |-> m.ok, guid |-> g]
    BY <2>1
  <2>4. rollback \in WorldCmds
    BY <2>2 DEF WorldCmds
  <2>5. m.ok => m \in Spawned
    BY <1>2 DEF Spawned
  <2>6. m.ok => m = [type |-> "spawned", ok |-> TRUE, guid |-> g]
    BY <2>2, <2>3
  <2>7. ASSUME NEW h, m = [type |-> "spawned", ok |-> TRUE, guid |-> h]
        PROVE  m.ok
    BY <2>7
  <2> QED
    BY <2>2, <2>4, <2>5, <2>6, <2>7
<1>4. /\ Entering(s) /\ ~Holds(io'[s], EnterMsgs) /\ Once(io'[s], EnterMsgs)
      /\ ~Holds(cmds, SpawnsOf(s)) /\ EnterRequests(s) = {} /\ EnterRequests(s)' = {}
  BY <1>1, <1>2 DEF WorldInv, OneEntry, EnterRequests
<1>5. ~Inside(s) /\ playerGUID[s] = 0 /\ status[s] # "LEAVING_WORLD" /\ life[s] # "none"
  BY <1>4 DEF WorldInv, OwnsInside, Entering, Inside
<1>6. ~Holds(io'[s], LeftMsgs) /\ Once(io'[s], LeftMsgs) /\ ~Holds(cmds, ExitsOf(s))
  BY <1>2, <1>5 DEF WorldInv, OneExit
<1>7. /\ rollback \in Despawns(g) /\ rollback \in AllDespawns
      /\ \A h \in Nat : rollback \in Despawns(h) => h = g
      /\ \A t \in Sessions : rollback \notin ExitsOf(t) /\ rollback \notin SpawnsOf(t)
      /\ \A t \in Sessions, h \in Nat : rollback # [type |-> "exit", sess |-> t, guid |-> h]
  <2> HIDE DEF m
  <2> QED
    BY <1>3 DEF SpawnsOf, ExitsOf, AllDespawns, Despawns
<1>8. \/ /\ life[s] # "open" /\ m.ok /\ cmds' = Append(cmds, rollback)
         /\ UNCHANGED <<status, playerGUID>>
      \/ /\ life[s] # "open" /\ ~m.ok /\ UNCHANGED <<status, playerGUID, cmds>>
      \/ /\ life[s] = "open" /\ m.ok /\ UNCHANGED cmds
         /\ playerGUID' = [playerGUID EXCEPT ![s] = g]
         /\ status' = [status EXCEPT ![s] = "IN_WORLD"]
      \/ /\ life[s] = "open" /\ ~m.ok /\ UNCHANGED <<playerGUID, cmds>>
         /\ status' = [status EXCEPT ![s] = "AUTHED"]
  BY <1>3 DEF ServeSpawned, PostSpawnRollback, BackToAuthed
<1>9. m.ok => SpawnResultPending(s, g)
  BY <1>2, <1>3 DEF SpawnResultPending
<1>10. m.ok => g \in Issued
  BY <1>2, <1>3 DEF WorldInv, GuidsIssued
<1> HIDE DEF m, rollback, g
<1>11. Issued' = Issued /\ Issued \subseteq Nat /\ nextGuid \in Nat
  BY <1>0, <1>1, IssuedNat DEF Issued
<1>12. m.ok => /\ Settled(s, g)
               /\ \A p \in players : p.guid = g => p.sess = s
               /\ \A p \in players : p.sess = s => p.guid = g
  <2>1. m.ok => Settled(s, g)
    BY <1>9, <1>10 DEF WorldInv, Confirmed
  <2>2. m.ok => \A p \in players : p.guid = g => p.sess = s
    BY <2>1 DEF Settled, WorldInv, IndexesAgree
  <2>3. m.ok => \A p \in players : p.sess = s => p.guid = g
    BY <1>9, <1>10, CustodyFacts
  <2> QED
    BY <2>1, <2>2, <2>3
<1>13. \A h \in Issued : [type |-> "spawned", ok |-> TRUE, guid |-> h] \in EnterMsgs
  BY <1>11 DEF EnterMsgs, IoMsgs
<1>14. \A h \in Issued : ~SpawnResultPending(s, h)'
  BY <1>4, <1>13 DEF SpawnResultPending, Holds
<1>15. ~m.ok => \A p \in players : p.sess # s
  <2>1. \A p \in players : p.sess = s => SpawnResultPending(s, p.guid) /\ p.guid \in Issued
    BY <1>2, <1>4, <1>5 DEF WorldInv, InCustody, GuidsIssued
  <2>2. ~m.ok => \A h \in Issued : ~SpawnResultPending(s, h)
    BY <1>2, <1>3, <1>14 DEF SpawnResultPending
  <2> QED
    BY <2>1, <2>2
<1>16. \/ UNCHANGED cmds
       \/ /\ m.ok /\ life[s] # "open"
          /\ \A M : Holds(cmds', M) <=> Holds(cmds, M) \/ rollback \in M
          /\ \A M : Once(cmds', M) <=> Once(cmds, M) /\ (rollback \in M => ~Holds(cmds, M))
  BY <1>0, <1>3, <1>8, PostCmdEffect
<1>17. /\ \A t \in Sessions :
            /\ Holds(cmds', SpawnsOf(t)) <=> Holds(cmds, SpawnsOf(t))
            /\ Once(cmds, SpawnsOf(t)) => Once(cmds', SpawnsOf(t))
            /\ Holds(cmds', ExitsOf(t)) <=> Holds(cmds, ExitsOf(t))
            /\ Once(cmds, ExitsOf(t)) => Once(cmds', ExitsOf(t))
       /\ \A t \in Sessions, h \in Issued : ExitPending(t, h)' <=> ExitPending(t, h)
       /\ \A h \in Issued : h # g => (DespawnPending(h)' <=> DespawnPending(h))
       /\ UNCHANGED cmds => \A h \in Issued : (DespawnPending(h)' <=> DespawnPending(h))
       /\ ~Holds(cmds', {c \in AllDespawns : c.guid \notin Issued})
  <2>1. \A t \in Sessions :
            /\ Holds(cmds', SpawnsOf(t)) <=> Holds(cmds, SpawnsOf(t))
            /\ Once(cmds, SpawnsOf(t)) => Once(cmds', SpawnsOf(t))
            /\ Holds(cmds', ExitsOf(t)) <=> Holds(cmds, ExitsOf(t))
            /\ Once(cmds, ExitsOf(t)) => Once(cmds', ExitsOf(t))
    BY <1>7, <1>16
  <2>2. \A t \in Sessions, h \in Issued : ExitPending(t, h)' <=> ExitPending(t, h)
    BY <1>7, <1>11, <1>16 DEF ExitPending
  <2>3. \A h \in Issued : h # g => (DespawnPending(h)' <=> DespawnPending(h))
    BY <1>7, <1>11, <1>16 DEF DespawnPending
  <2>4. m.ok => rollback.guid \in Issued
    BY <1>10 DEF rollback
  <2>5. ~Holds(cmds', {c \in AllDespawns : c.guid \notin Issued})
    BY <1>16, <2>4 DEF WorldInv, GuidsIssued
  <2> QED
    BY <2>1, <2>2, <2>3, <2>5 DEF DespawnPending
<1>18. /\ \A t \in Sessions : t # s => status'[t] = status[t] /\ playerGUID'[t] = playerGUID[t]
  BY <1>0, <1>8
<1>19. OnlySession(s)
  <2>1. \A p \in players : p.guid \in Issued
    BY DEF WorldInv, GuidsIssued
  <2>2. \A t \in Sessions : EnterRequests(t)' = EnterRequests(t)
    BY <1>1 DEF EnterRequests
  <2>3. \A p \in players : p.sess # s => (DespawnPending(p.guid)' <=> DespawnPending(p.guid))
    BY <1>12, <1>16, <1>17, <2>1
  <2> QED
    BY <1>1, <1>2, <1>17, <1>18, <2>2, <2>3 DEF OnlySession
<1>20. GuidsIssued'
  <2>1. \A t \in Sessions : ~Holds(io'[t], {n \in Spawned : n.guid \notin Issued})
    BY <1>2 DEF WorldInv, GuidsIssued
  <2>2. \A t \in Sessions : playerGUID'[t] < nextGuid
    BY <1>0, <1>8, <1>10, <1>11 DEF WorldInv, GuidsIssued, Issued
  <2> QED
    BY <1>1, <1>11, <1>17, <2>1, <2>2 DEF WorldInv, GuidsIssued
<1>21. OwnsInside'
  <2>1. /\ playerGUID'[s] # 0 => Inside(s)'
        /\ status'[s] = "IN_WORLD" => playerGUID'[s] # 0
    BY <1>0, <1>5, <1>8, <1>10 DEF Inside, Issued
  <2>2. \A p \in players : playerGUID'[s] = p.guid => p.sess = s
    <3>1. \A p \in players : p.guid # 0
      BY DEF WorldInv, GuidsIssued, Issued
    <3> QED
      BY <1>0, <1>5, <1>8, <1>12, <3>1
  <2> QED
    BY <1>1, <1>5, <1>18, <2>1, <2>2 DEF WorldInv, OwnsInside, Entering, Inside
<1>22. OneEntry(s)'
  BY <1>4, <1>17 DEF WorldInv, OneEntry
<1>23. OneExit(s)'
  <2>1. \A h \in Issued : ~ExitPending(s, h)'
    <3>1. \A h \in Issued : [type |-> "exit", sess |-> s, guid |-> h] \in ExitsOf(s)
      BY <1>11, WorldlySets
    <3> QED
      BY <1>6, <1>17, <3>1 DEF ExitPending, Holds
  <2> QED
    BY <1>6, <1>11, <1>17, <2>1 DEF WorldInv, OneExit
<1>24. Confirmed(s)'
  <2>1. status'[s] = "IN_WORLD" => m.ok /\ playerGUID'[s] = g /\ UNCHANGED cmds
    BY <1>0, <1>4, <1>8 DEF Entering
  <2>2. status'[s] = "IN_WORLD" => Settled(s, playerGUID[s])'
    BY <1>1, <1>12, <2>1 DEF Settled, DespawnPending
  <2> QED
    BY <1>11, <1>14, <2>2 DEF Confirmed
<1>25. CleanPackets(s)'
  <2>1. status'[s] = "IN_WORLD" => m.ok /\ playerGUID'[s] = g
    BY <1>0, <1>4, <1>8 DEF Entering
  <2>2. m.ok => \A i \in DOMAIN packets[s] : packets[s][i] = g
    BY <1>9, <1>10 DEF WorldInv, CleanPackets
  <2> QED
    BY <1>1, <1>4, <1>11, <1>14, <1>17, <2>1, <2>2 DEF CleanPackets
<1>26. ASSUME NEW p \in players, p.sess = s
       PROVE  InCustody(p)'
  <2>1. m.ok /\ p.guid = g
    BY <1>12, <1>15, <1>26
  <2>2. CASE life[s] = "open"
    BY <1>0, <1>1, <1>6, <1>8, <1>26, <2>1, <2>2 DEF InCustody, Inside
  <2>3. CASE life[s] # "open"
    <3>1. cmds' = Append(cmds, rollback)
      BY <1>8, <2>1, <2>3
    <3>2. Holds(cmds', Despawns(g))
      BY <1>0, <1>3, <1>7, <3>1, PostCmdEffect
    <3>3. DespawnPending(p.guid)'
      BY <2>1, <3>2 DEF DespawnPending
    <3>4. Entering(s)' /\ life'[s] # "open"
      BY <1>1, <1>4, <1>8, <2>3 DEF Entering
    <3>5. EnterRequests(s)' = {} /\ ~Holds(io'[s], EnterMsgs) /\ ~Holds(cmds', SpawnsOf(s))
      BY <1>4, <1>17
    <3> QED
      BY <1>26, <3>3, <3>4, <3>5 DEF InCustody
  <2> QED
    BY <2>2, <2>3
<1> QED
  BY <1>1, <1>19, <1>20, <1>21, <1>22, <1>23, <1>24, <1>25, <1>26, OthersKeepWorldInv DEF WorldInv

\* The session is told that its player is gone: it is.
LEMMA ServeLeftKeepsWorldInv ==
  ASSUME WorldInv, GreetInv', IndexesAgree', NEW s \in Sessions, ServeLeft(s)
  PROVE  WorldInv'
<1>0. /\ TypeOK /\ QueuesTypeOK /\ status \in [Sessions -> WorldSocketStatus]
      /\ playerGUID \in [Sessions -> Nat]
  BY DEF WorldInv, GreetInv, TypeOK, SessionsTypeOK, QueuesTypeOK
<1>1. /\ IoHead(s, "left") /\ io' = IoRest(s)
      /\ UNCHANGED <<packets, requests, cmds, players, nextGuid>>
  BY DEF ServeLeft, simVars
<1>2. /\ Head(io[s]) \in LeftMsgs /\ Head(io[s]) \notin EnterMsgs /\ Head(io[s]) \notin Spawned
      /\ \A t \in Sessions : t # s => io'[t] = io[t]
      /\ \A M : Holds(io[s], M) <=> Head(io[s]) \in M \/ Holds(io'[s], M)
      /\ \A M : Once(io[s], M) => Once(io'[s], M) /\ (Head(io[s]) \in M => ~Holds(io'[s], M))
  BY <1>0, <1>1, TakeEffect DEF EnterMsgs, LeftMsgs, Spawned
<1>3. /\ status[s] = "LEAVING_WORLD" /\ ~Entering(s) /\ Inside(s)
      /\ ~Holds(io'[s], LeftMsgs) /\ Once(io'[s], LeftMsgs) /\ ~Holds(cmds, ExitsOf(s))
      /\ Holds(io[s], LeftMsgs)
  BY <1>2 DEF WorldInv, OneExit, Entering, Inside
<1>4. /\ EnterRequests(s) = {} /\ ~Holds(io'[s], EnterMsgs) /\ ~Holds(cmds, SpawnsOf(s))
      /\ Once(io'[s], EnterMsgs) /\ Once(cmds, SpawnsOf(s))
  BY <1>2, <1>3 DEF WorldInv, OneEntry
<1>5. \A t \in Sessions : EnterRequests(t)' = EnterRequests(t)
  BY <1>1 DEF EnterRequests
<1>6. \/ UNCHANGED <<status, playerGUID>>
      \/ /\ UNCHANGED status \/ status' = [status EXCEPT ![s] = "AUTHED"]
         /\ playerGUID' = [playerGUID EXCEPT ![s] = 0]
  BY DEF ServeLeft, BackToAuthed
<1>a. /\ \A t \in Sessions : t # s => life'[t] = life[t]
      /\ life[s] # "none" => life'[s] # "none"
  BY <1>0 DEF ServeLeft, Close, TypeOK, SessionsTypeOK
<1>7. /\ \A t \in Sessions : t # s => status'[t] = status[t] /\ playerGUID'[t] = playerGUID[t]
      /\ status'[s] \in {"LEAVING_WORLD", "AUTHED"}
      /\ status'[s] = "AUTHED" => playerGUID'[s] = 0
      /\ playerGUID'[s] \in {0, playerGUID[s]}
  BY <1>0, <1>3, <1>6
<1>8. Issued' = Issued /\ Issued \subseteq Nat /\ nextGuid \in Nat \ {0}
  BY <1>0, <1>1, IssuedNat DEF Issued
<1>9. OnlySession(s)
  BY <1>1, <1>2, <1>5, <1>7, <1>a DEF OnlySession, ExitPending, DespawnPending
<1>10. \A p \in players : p.sess # s
  BY <1>3 DEF WorldInv, InCustody
<1>11. \A h \in Issued : ~SpawnResultPending(s, h)'
  <2>1. \A h \in Issued : [type |-> "spawned", ok |-> TRUE, guid |-> h] \in EnterMsgs
    BY <1>8 DEF EnterMsgs, IoMsgs
  <2> QED
    BY <1>4, <2>1 DEF SpawnResultPending, Holds
<1>12. GuidsIssued'
  <2>1. \A t \in Sessions : ~Holds(io'[t], {n \in Spawned : n.guid \notin Issued})
    BY <1>2 DEF WorldInv, GuidsIssued
  <2>2. \A t \in Sessions : playerGUID'[t] < nextGuid
    BY <1>0, <1>6, <1>8 DEF WorldInv, GuidsIssued
  <2> QED
    BY <1>1, <1>8, <2>1, <2>2 DEF WorldInv, GuidsIssued
<1>13. OwnsInside'
  <2>1. life'[s] # "none"
    BY <1>3, <1>a DEF WorldInv, OwnsInside
  <2>2. /\ playerGUID'[s] # 0 => Inside(s)'
        /\ status'[s] # "IN_WORLD"
    BY <1>7, <2>1 DEF Inside
  <2>3. \A p \in players : playerGUID'[s] = p.guid => p.sess = s
    <3>1. \A p \in players : p.guid # 0
      BY DEF WorldInv, GuidsIssued, Issued
    <3> QED
      BY <1>7, <3>1 DEF WorldInv, OwnsInside
  <2> QED
    BY <1>1, <1>7, <1>a, <2>1, <2>2, <2>3 DEF WorldInv, OwnsInside, Entering, Inside
<1>14. OneEntry(s)'
  BY <1>1, <1>4, <1>5 DEF OneEntry
<1>15. OneExit(s)'
  <2>1. \A h \in Issued : ~ExitPending(s, h)'
    <3>1. \A h \in Issued : [type |-> "exit", sess |-> s, guid |-> h] \in ExitsOf(s)
      BY <1>8, WorldlySets
    <3> QED
      BY <1>1, <1>3, <3>1 DEF ExitPending, Holds
  <2> QED
    BY <1>1, <1>3, <1>8, <2>1 DEF WorldInv, OneExit
<1>16. Confirmed(s)' /\ CleanPackets(s)'
  BY <1>1, <1>4, <1>7, <1>8, <1>11 DEF Confirmed, CleanPackets
<1> QED
  BY <1>1, <1>9, <1>10, <1>12, <1>13, <1>14, <1>15, <1>16, OthersKeepWorldInv DEF WorldInv

\* DoExitWorld of a session that is inside: with the despawn on its way, the
\* session is leaving.
LEMMA DoExitKeepsWorldInv ==
  ASSUME WorldInv, GreetInv', IndexesAgree', NEW s \in Sessions, NEW cmd \in WorldCmds,
         \/ /\ status[s] = "IN_WORLD" /\ UNCHANGED life
            /\ cmd = [type |-> "exit", sess |-> s, guid |-> playerGUID[s]]
         \/ /\ life' = [life EXCEPT ![s] = "dead"]
            /\ cmd = [type |-> "leave", guid |-> playerGUID[s]],
         life[s] # "none",
         playerGUID[s] # 0,
         status' = [status EXCEPT ![s] = "LEAVING_WORLD"],
         cmds' = Append(cmds, cmd),
         UNCHANGED <<playerGUID, packets, requests, io, players, nextGuid>>
  PROVE  WorldInv'
<1> DEFINE g == playerGUID[s]
<1>0. /\ TypeOK /\ QueuesTypeOK /\ status \in [Sessions -> WorldSocketStatus]
      /\ life \in [Sessions -> Lives] /\ playerGUID \in [Sessions -> Nat]
  BY DEF WorldInv, GreetInv, TypeOK, SessionsTypeOK, QueuesTypeOK
<1>1. /\ Inside(s) /\ ~Entering(s) /\ Inside(s)' /\ ~Entering(s)' /\ status'[s] = "LEAVING_WORLD"
      /\ \A t \in Sessions : t # s => status'[t] = status[t] /\ life'[t] = life[t]
      /\ life'[s] = "none" => life[s] = "none"
  BY <1>0 DEF WorldInv, OwnsInside, Entering, Inside
<1>2. Issued' = Issued /\ Issued \subseteq Nat /\ g \in Issued
  BY <1>0, IssuedNat DEF Issued, WorldInv, GuidsIssued
<1>3. /\ cmd.guid = g /\ cmd \in Despawns(g) /\ cmd \in AllDespawns
      /\ \A h \in Nat : cmd \in Despawns(h) => h = g
      /\ \A t \in Sessions : cmd \notin SpawnsOf(t) /\ (t # s => cmd \notin ExitsOf(t))
      /\ \A t \in Sessions, h \in Nat : cmd = [type |-> "exit", sess |-> t, guid |-> h] => t = s /\ h = g
      /\ cmd \in ExitsOf(s) => status[s] = "IN_WORLD"
  BY <1>0 DEF SpawnsOf, ExitsOf, AllDespawns, Despawns
<1>4. /\ \A M : Holds(cmds', M) <=> Holds(cmds, M) \/ cmd \in M
      /\ \A M : Once(cmds', M) <=> Once(cmds, M) /\ (cmd \in M => ~Holds(cmds, M))
  BY <1>0, PostCmdEffect
<1> HIDE DEF g
<1>5. /\ \A t \in Sessions, h \in Issued : ExitPending(t, h)' => ExitPending(t, h) \/ (t = s /\ h = g)
      /\ \A h \in Issued : h # g => (DespawnPending(h)' <=> DespawnPending(h))
      /\ Holds(cmds', Despawns(g))
      /\ ~Holds(cmds', {c \in AllDespawns : c.guid \notin Issued})
  <2>1. \A t \in Sessions, h \in Issued : ExitPending(t, h)' => ExitPending(t, h) \/ (t = s /\ h = g)
    BY <1>2, <1>3, <1>4 DEF ExitPending
  <2>2. ASSUME NEW h \in Issued, h # g
        PROVE  DespawnPending(h)' <=> DespawnPending(h)
    <3>1. cmd \notin Despawns(h)
      BY <1>2, <1>3, <2>2
    <3> QED
      BY <1>4, <3>1 DEF DespawnPending
  <2>3. Holds(cmds', Despawns(g))
    BY <1>3, <1>4
  <2>4. ~Holds(cmds', {c \in AllDespawns : c.guid \notin Issued})
    BY <1>2, <1>3, <1>4 DEF WorldInv, GuidsIssued
  <2> QED
    BY <2>1, <2>2, <2>3, <2>4
<1>6. \A p \in players : p.guid \in Issued /\ (p.guid = g => p.sess = s) /\ (p.sess = s => p.guid = g)
  BY <1>1, CustodyFacts DEF WorldInv, OwnsInside, g
<1>7. \A t \in Sessions : EnterRequests(t)' = EnterRequests(t)
  BY DEF EnterRequests
<1>8. OnlySession(s)
  <2>1. \A p \in players : p.sess # s => (DespawnPending(p.guid)' <=> DespawnPending(p.guid))
    BY <1>5, <1>6
  <2>2. \A t \in Sessions : t # s =>
          /\ Holds(cmds, SpawnsOf(t))' <=> Holds(cmds, SpawnsOf(t))
          /\ Once(cmds, SpawnsOf(t)) => Once(cmds, SpawnsOf(t))'
          /\ Holds(cmds, ExitsOf(t))' <=> Holds(cmds, ExitsOf(t))
          /\ Once(cmds, ExitsOf(t)) => Once(cmds, ExitsOf(t))'
    BY <1>3, <1>4
  <2> QED
    BY <1>1, <1>5, <1>7, <2>1, <2>2 DEF OnlySession
<1>9. GuidsIssued'
  BY <1>2, <1>5 DEF WorldInv, GuidsIssued
<1>10. OwnsInside'
  BY <1>1 DEF WorldInv, OwnsInside, Entering, Inside
<1>11. OneEntry(s)'
  BY <1>1, <1>3, <1>4, <1>7 DEF WorldInv, OneEntry
<1>12. OneExit(s)'
  <2>1. status[s] = "IN_WORLD" => ~Holds(io[s], LeftMsgs) /\ ~Holds(cmds, ExitsOf(s))
    BY DEF WorldInv, OneExit
  <2>2. Once(cmds', ExitsOf(s))
    BY <1>3, <1>4, <2>1 DEF WorldInv, OneExit
  <2>3. Holds(io'[s], LeftMsgs) => ~Holds(cmds', ExitsOf(s))
    BY <1>3, <1>4, <2>1 DEF WorldInv, OneExit
  <2>4. \A h \in Issued : ExitPending(s, h)' => h = playerGUID'[s]
    BY <1>5 DEF WorldInv, OneExit, g
  <2>5. Once(io'[s], LeftMsgs)
    BY DEF WorldInv, OneExit
  <2> QED
    BY <1>1, <1>2, <2>2, <2>3, <2>4, <2>5 DEF OneExit
<1>13. \A h \in Issued : ~SpawnResultPending(s, h)'
  <2>1. \A h \in Issued : [type |-> "spawned", ok |-> TRUE, guid |-> h] \in EnterMsgs
    BY <1>2 DEF EnterMsgs, IoMsgs
  <2>2. ~Holds(io[s], EnterMsgs)
    BY <1>1 DEF WorldInv, OneEntry
  <2> QED
    BY <2>1, <2>2 DEF SpawnResultPending, Holds
<1>14. Confirmed(s)' /\ CleanPackets(s)'
  <2>1. ~Holds(cmds', SpawnsOf(s))
    BY <1>1, <1>3, <1>4 DEF WorldInv, OneEntry
  <2> QED
    BY <1>1, <1>2, <1>13, <2>1 DEF Confirmed, CleanPackets
<1>15. ASSUME NEW p \in players, p.sess = s
       PROVE  InCustody(p)'
  <2>1. p.guid = g /\ playerGUID'[s] = g
    BY <1>6, <1>15 DEF g
  <2>2. ~Holds(io'[s], LeftMsgs)
    BY <1>1, <1>15 DEF WorldInv, InCustody
  <2>3. DespawnPending(p.guid)'
    BY <1>5, <2>1 DEF DespawnPending
  <2> QED
    BY <1>1, <1>15, <2>1, <2>2, <2>3 DEF InCustody
<1> QED
  BY <1>8, <1>9, <1>10, <1>11, <1>12, <1>14, <1>15, OthersKeepWorldInv DEF WorldInv

\* HandleExitWorld, of a session that is in the world.
LEMMA ExitWorldKeepsWorldInv ==
  ASSUME WorldInv, GreetInv', IndexesAgree', NEW s \in Sessions, HandleExitWorld(s)
  PROVE  WorldInv'
<1> DEFINE cmd == [type |-> "exit", sess |-> s, guid |-> playerGUID[s]]
<1>1. /\ status[s] = "IN_WORLD" /\ Inside(s)
      /\ UNCHANGED <<life, playerGUID, packets, requests, io, players, nextGuid>>
  BY DEF HandleExitWorld, Inside, simVars
<1>2. playerGUID[s] \in Nat /\ playerGUID[s] # 0 /\ life[s] # "none"
  BY <1>1 DEF WorldInv, GreetInv, TypeOK, SessionsTypeOK, OwnsInside
<1>3. cmd \in WorldCmds
  BY <1>2 DEF WorldCmds
<1>4. status' = [status EXCEPT ![s] = "LEAVING_WORLD"] /\ cmds' = Append(cmds, cmd)
  BY <1>1, <1>2 DEF HandleExitWorld, DoExitWorld
<1> QED
  BY <1>1, <1>2, <1>3, <1>4, DoExitKeepsWorldInv

\* The destructor's second step: a session that is inside posts the despawn,
\* another one has nothing to take back.
LEMMA FinishDestroyKeepsWorldInv ==
  ASSUME WorldInv, GreetInv', IndexesAgree', NEW s \in Sessions, FinishDestroy(s)
  PROVE  WorldInv'
<1> DEFINE cmd == [type |-> "leave", guid |-> playerGUID[s]]
<1>1. /\ life[s] = "dying" /\ life' = [life EXCEPT ![s] = "dead"]
      /\ UNCHANGED <<playerGUID, packets, requests, io, players, nextGuid>>
      /\ life \in [Sessions -> Lives] /\ playerGUID[s] \in Nat
  BY DEF FinishDestroy, simVars, WorldInv, GreetInv, TypeOK, SessionsTypeOK
<1>2. CASE status[s] = "AUTHED" \/ playerGUID[s] = 0
  <2>1. UNCHANGED <<status, cmds>>
    BY <1>2 DEF FinishDestroy, DoExitWorld
  <2>2. playerGUID[s] = 0 /\ status[s] # "IN_WORLD" /\ status'[s] # "IN_WORLD"
    BY <1>2, <2>1 DEF WorldInv, OwnsInside, Inside
  <2>3. \A t \in Sessions : EnterRequests(t)' = EnterRequests(t)
    BY <1>1 DEF EnterRequests
  <2>4. OnlySession(s)
    BY <1>1, <2>1, <2>3 DEF OnlySession, ExitPending, DespawnPending
  <2>5. Issued' = Issued /\ life'[s] = "dead"
    BY <1>1 DEF Issued
  <2>6. GuidsIssued' /\ OwnsInside'
    BY <1>1, <2>1, <2>5 DEF WorldInv, GuidsIssued, OwnsInside, Entering, Inside
  <2>7. OneEntry(s)'
    BY <1>1, <2>1, <2>3 DEF WorldInv, OneEntry, Entering
  <2>8. OneExit(s)'
    BY <1>1, <2>1, <2>5 DEF WorldInv, OneExit, ExitPending
  <2>9. Confirmed(s)' /\ CleanPackets(s)'
    <3>1. /\ \A g \in Issued : SpawnResultPending(s, g)' <=> SpawnResultPending(s, g)
          /\ \A g \in Issued : Settled(s, g) => Settled(s, g)'
      BY <1>1, <2>1 DEF SpawnResultPending, Settled, DespawnPending
    <3>2. status[s] # "IN_WORLD" /\ status'[s] # "IN_WORLD"
      BY <2>2
    <3>3. Confirmed(s) /\ CleanPackets(s)
      BY DEF WorldInv
    <3>4. Confirmed(s)'
      BY <2>5, <3>1, <3>2, <3>3 DEF Confirmed
    <3>5. CleanPackets(s)'
      BY <1>1, <2>1, <2>5, <3>1, <3>2, <3>3 DEF CleanPackets
    <3> QED
      BY <3>4, <3>5
  <2>10. ASSUME NEW p \in players, p.sess = s
         PROVE  InCustody(p)'
    <3>1. InCustody(p)
      BY DEF WorldInv
    <3>2. SpawnResultPending(s, p.guid)' <=> SpawnResultPending(s, p.guid)
      BY <1>1 DEF SpawnResultPending
    <3>3. DespawnPending(p.guid)' <=> DespawnPending(p.guid)
      BY <2>1 DEF DespawnPending
    <3>4. p.guid # 0
      BY DEF WorldInv, GuidsIssued, Issued
    <3> QED
      BY <1>1, <2>1, <2>2, <2>3, <2>5, <2>10, <3>1, <3>2, <3>3, <3>4 DEF InCustody, Entering
  <2> QED
    BY <1>1, <2>4, <2>6, <2>7, <2>8, <2>9, <2>10, OthersKeepWorldInv DEF WorldInv
<1>3. CASE ~(status[s] = "AUTHED" \/ playerGUID[s] = 0)
  <2>1. status' = [status EXCEPT ![s] = "LEAVING_WORLD"] /\ cmds' = Append(cmds, cmd)
    BY <1>3 DEF FinishDestroy, DoExitWorld
  <2>2. cmd \in WorldCmds
    BY <1>1 DEF WorldCmds
  <2> QED
    BY <1>1, <1>3, <2>1, <2>2, DoExitKeepsWorldInv
<1> QED
  BY <1>2, <1>3

\* A despawn is executed: its player is gone, whoever relied on it was told
\* otherwise before, and the others' custody is not touched.
LEMMA DespawningKeepsWorldInv ==
  ASSUME WorldInv, GreetInv', IndexesAgree',
         NEW h, CmdHead(h), cmds' = Tail(cmds),
         NEW g \in Nat, Head(cmds) \in Despawns(g), Despawn(g),
         UNCHANGED <<status, playerGUID, life, packets, requests, nextGuid>>,
         \A t \in Sessions : \A M : M \cap LeftMsgs = {} =>
           /\ Holds(io'[t], M) <=> Holds(io[t], M)
           /\ Once(io[t], M) => Once(io'[t], M),
         \A t \in Sessions : OneExit(t)',
         \A p \in players : p.guid # g /\ Inside(p.sess) /\ ~Holds(io[p.sess], LeftMsgs)
                              => ~Holds(io'[p.sess], LeftMsgs)
  PROVE  WorldInv'
<1>0. TypeOK /\ QueuesTypeOK
  BY DEF WorldInv, GreetInv, TypeOK
<1>1. /\ Head(cmds) \in WorldCmds
      /\ \A M : Holds(cmds, M) <=> Head(cmds) \in M \/ Holds(cmds', M)
      /\ \A M : Once(cmds, M) => Once(cmds', M)
  BY <1>0, TakeCmdEffect
<1>2. Issued' = Issued /\ Issued \subseteq Nat
  BY <1>0, IssuedNat DEF Issued
<1>3. /\ \A t \in Sessions : Head(cmds) \notin SpawnsOf(t)
      /\ \A k \in Nat : Head(cmds) \in Despawns(k) => k = g
  BY DEF Despawns, SpawnsOf
<1>4. /\ DespawnPending(g)
      /\ \A k \in Nat : DespawnPending(k)' => DespawnPending(k)
      /\ \A k \in Nat : k # g => (DespawnPending(k)' <=> DespawnPending(k))
  <2>1. DespawnPending(g)
    BY <1>1 DEF DespawnPending
  <2>2. \A k \in Nat : DespawnPending(k)' => DespawnPending(k)
    BY <1>1 DEF DespawnPending
  <2>3. ASSUME NEW k \in Nat, k # g
        PROVE  DespawnPending(k)' <=> DespawnPending(k)
    <3>1. Head(cmds) \notin Despawns(k)
      BY <1>3, <2>3
    <3> QED
      BY <1>1, <3>1 DEF DespawnPending
  <2> QED
    BY <2>1, <2>2, <2>3
<1>5. players' = {p \in players : p.guid # g}
  BY DEF Despawn, WorldInv, IndexesAgree
<1>6. \A t \in Sessions, k \in Issued : Settled(t, k) => Settled(t, k)'
  BY <1>2, <1>4, <1>5 DEF Settled
<1>7. /\ EnterMsgs \cap LeftMsgs = {} /\ Spawned \cap LeftMsgs = {}
      /\ \A k \in Nat : {[type |-> "spawned", ok |-> TRUE, guid |-> k]} \cap LeftMsgs = {}
  BY DEF EnterMsgs, LeftMsgs, Spawned
<1>8. \A t \in Sessions, k \in Issued : SpawnResultPending(t, k)' <=> SpawnResultPending(t, k)
  BY <1>2, <1>7 DEF SpawnResultPending
<1>9. \A t \in Sessions : EnterRequests(t)' = EnterRequests(t)
  BY DEF EnterRequests
<1>10. \A t \in Sessions : Holds(cmds', SpawnsOf(t)) <=> Holds(cmds, SpawnsOf(t))
  BY <1>1, <1>3
<1>11. GuidsIssued'
  <2>1. ~Holds(cmds', {c \in AllDespawns : c.guid \notin Issued})
    BY <1>1 DEF WorldInv, GuidsIssued
  <2>2. ASSUME NEW t \in Sessions
        PROVE  ~Holds(io'[t], {m \in Spawned : m.guid \notin Issued})
    <3>1. {m \in Spawned : m.guid \notin Issued} \cap LeftMsgs = {}
      BY <1>7
    <3> QED
      BY <3>1 DEF WorldInv, GuidsIssued
  <2> QED
    BY <1>2, <1>5, <2>1, <2>2 DEF WorldInv, GuidsIssued
<1>12. OwnsInside'
  BY <1>5 DEF WorldInv, OwnsInside, Entering, Inside
<1>13. ASSUME NEW t \in Sessions
       PROVE  OneEntry(t)'
  <2>1. /\ Holds(io'[t], EnterMsgs) <=> Holds(io[t], EnterMsgs)
        /\ Once(io[t], EnterMsgs) => Once(io'[t], EnterMsgs)
    BY <1>7
  <2>2. Once(cmds, SpawnsOf(t)) => Once(cmds', SpawnsOf(t))
    BY <1>1
  <2>3. Entering(t)' <=> Entering(t)
    BY DEF Entering
  <2> QED
    BY <1>9, <1>10, <2>1, <2>2, <2>3 DEF WorldInv, OneEntry
<1>14. ASSUME NEW t \in Sessions
       PROVE  Confirmed(t)'
  <2>1. status[t] = "IN_WORLD" => playerGUID[t] \in Issued
    BY DEF WorldInv, Confirmed, Settled, GuidsIssued
  <2> QED
    BY <1>2, <1>6, <1>8, <2>1 DEF WorldInv, Confirmed
<1>15. ASSUME NEW t \in Sessions
       PROVE  CleanPackets(t)'
  BY <1>2, <1>8, <1>10 DEF WorldInv, CleanPackets
<1>16. ASSUME NEW p \in players'
       PROVE  InCustody(p)'
  <2>1. p \in players /\ p.guid # g /\ p.guid \in Issued /\ p.guid \in Nat /\ p.sess \in Sessions
    BY <1>2, <1>5, CustodyFacts
  <2>2. InCustody(p)
    BY <2>1 DEF WorldInv
  <2>3. DespawnPending(p.guid)' <=> DespawnPending(p.guid)
    BY <1>4, <2>1
  <2>4. SpawnResultPending(p.sess, p.guid)' <=> SpawnResultPending(p.sess, p.guid)
    BY <1>8, <2>1
  <2>5. Holds(io'[p.sess], EnterMsgs) <=> Holds(io[p.sess], EnterMsgs)
    BY <1>7, <2>1
  <2>6. Inside(p.sess) /\ ~Holds(io[p.sess], LeftMsgs) => ~Holds(io'[p.sess], LeftMsgs)
    BY <2>1
  <2> QED
    BY <1>9, <1>10, <2>1, <2>2, <2>3, <2>4, <2>5, <2>6 DEF InCustody, Entering, Inside
<1> QED
  BY <1>11, <1>12, <1>13, <1>14, <1>15, <1>16 DEF WorldInv

\* EXIT_WORLD is executed: its result takes the command's place.
LEMMA ExecExitKeepsWorldInv ==
  ASSUME WorldInv, GreetInv', IndexesAgree', ExecExit
  PROVE  WorldInv'
<1> DEFINE s == Head(cmds).sess
           g == Head(cmds).guid
           left == [type |-> "left"]
<1>0. TypeOK /\ QueuesTypeOK
  BY DEF WorldInv, GreetInv, TypeOK
<1>1. /\ CmdHead("exit") /\ cmds' = Tail(cmds) /\ Despawn(g) /\ Post(s, left)
      /\ UNCHANGED <<status, playerGUID, life, packets, requests, nextGuid>>
  BY DEF ExecExit, netVars
<1>2. /\ Head(cmds) \in WorldCmds /\ Head(cmds).type = "exit"
      /\ \A M : Holds(cmds, M) <=> Head(cmds) \in M \/ Holds(cmds', M)
      /\ \A M : Once(cmds, M) =>
            Once(cmds', M) /\ (Head(cmds) \in M => ~Holds(cmds', M))
  BY <1>0, <1>1, TakeCmdEffect
<1>3. /\ s \in Sessions /\ g \in Nat /\ Head(cmds) = [type |-> "exit", sess |-> s, guid |-> g]
      /\ Head(cmds) \in Despawns(g) /\ Head(cmds) \in AllDespawns /\ Head(cmds) \in ExitsOf(s)
  BY <1>2 DEF WorldCmds, Despawns, AllDespawns, ExitsOf
<1>4. left \in IoMsgs /\ left \in LeftMsgs
  BY DEF IoMsgs, LeftMsgs
<1>5. /\ \A t \in Sessions : t # s => io'[t] = io[t]
      /\ \A M : Holds(io'[s], M) <=> Holds(io[s], M) \/ left \in M
      /\ \A M : Once(io'[s], M) <=> Once(io[s], M) /\ (left \in M => ~Holds(io[s], M))
  BY <1>0, <1>1, <1>3, <1>4, PostEffect
<1> HIDE DEF s, g, left
<1>6. Issued' = Issued /\ Issued \subseteq Nat
  BY <1>0, <1>1, IssuedNat DEF Issued
<1>7. g \in Issued /\ ExitPending(s, g)
  <2>1. Head(cmds) \notin {d \in AllDespawns : d.guid \notin Issued}
    BY <1>2 DEF WorldInv, GuidsIssued
  <2>2. Head(cmds).guid = g
    BY DEF g
  <2> QED
    BY <1>2, <1>3, <2>1, <2>2 DEF ExitPending
<1>8. status[s] = "LEAVING_WORLD" /\ ~Holds(io[s], LeftMsgs) /\ g = playerGUID[s]
  BY <1>2, <1>3, <1>7 DEF WorldInv, OneExit
<1>9. \A p \in players : p.sess = s => p.guid = g
  BY <1>8, CustodyFacts DEF Inside
<1>10. ASSUME NEW t \in Sessions
       PROVE  OneExit(t)'
  <2>1. \A k \in Issued : ExitPending(t, k)' => ExitPending(t, k)
    BY <1>2 DEF ExitPending
  <2>2. CASE t = s
    <3>1. Once(io'[s], LeftMsgs)
      BY <1>3, <1>5, <1>8 DEF WorldInv, OneExit
    <3>2. Once(cmds', ExitsOf(s)) /\ ~Holds(cmds', ExitsOf(s))
      BY <1>2, <1>3 DEF WorldInv, OneExit
    <3> QED
      BY <1>1, <1>3, <1>6, <1>8, <2>1, <2>2, <3>1, <3>2 DEF WorldInv, OneExit
  <2>3. CASE t # s
    <3>1. Holds(cmds', ExitsOf(t)) => Holds(cmds, ExitsOf(t))
      BY <1>2
    <3>2. Once(cmds', ExitsOf(t))
      BY <1>2 DEF WorldInv, OneExit
    <3> QED
      BY <1>1, <1>5, <1>6, <2>1, <2>3, <3>1, <3>2 DEF WorldInv, OneExit
  <2> QED
    BY <2>2, <2>3
<1>11. ASSUME NEW t \in Sessions, NEW M, M \cap LeftMsgs = {}
       PROVE  /\ Holds(io'[t], M) <=> Holds(io[t], M)
              /\ Once(io[t], M) => Once(io'[t], M)
  BY <1>4, <1>5, <1>11
<1>12. ASSUME NEW p \in players, p.guid # g, ~Holds(io[p.sess], LeftMsgs)
       PROVE  ~Holds(io'[p.sess], LeftMsgs)
  BY <1>5, <1>9, <1>12, CustodyFacts
<1> QED
  BY <1>1, <1>3, <1>10, <1>11, <1>12, DespawningKeepsWorldInv

\* The despawn posted by a destructor or by a rollback is executed.
LEMMA ExecDespawnKeepsWorldInv ==
  ASSUME WorldInv, GreetInv', IndexesAgree', ExecDespawn
  PROVE  WorldInv'
<1> DEFINE g == Head(cmds).guid
<1>0. TypeOK /\ QueuesTypeOK
  BY DEF WorldInv, GreetInv, TypeOK
<1>1. /\ cmds' = Tail(cmds) /\ Despawn(g)
      /\ UNCHANGED <<status, playerGUID, life, packets, requests, io, nextGuid>>
  BY DEF ExecDespawn, netVars
<1>2. PICK h \in {"leave", "rollback"} : CmdHead(h)
  BY DEF ExecDespawn
<1>3. /\ Head(cmds) \in WorldCmds /\ Head(cmds).type \in {"leave", "rollback"}
      /\ \A M : Holds(cmds, M) <=> Head(cmds) \in M \/ Holds(cmds', M)
      /\ \A M : Once(cmds, M) => Once(cmds', M)
  BY <1>0, <1>1, <1>2, TakeCmdEffect
<1>4. g \in Nat /\ Head(cmds) \in Despawns(g)
  BY <1>3 DEF WorldCmds, Despawns
<1>5. Issued' = Issued
  BY <1>1 DEF Issued
<1>6. ASSUME NEW t \in Sessions
      PROVE  OneExit(t)'
  BY <1>1, <1>3, <1>5 DEF WorldInv, OneExit, ExitPending
<1> QED
  BY <1>1, <1>2, <1>4, <1>6, DespawningKeepsWorldInv

\* The spawn is executed: its result takes the command's place, and when it
\* succeeded the new player is the only one of the session.
LEMMA ExecSpawnKeepsWorldInv ==
  ASSUME WorldInv, GreetInv', IndexesAgree', ExecSpawn
  PROVE  WorldInv'
<1>a. PICK s, c, n : s = Head(cmds).sess /\ c = Head(cmds).char /\ n = nextGuid
  OBVIOUS
<1> DEFINE e == [guid |-> n, char |-> c, sess |-> s]
           result(ok, g) == [type |-> "spawned", ok |-> ok, guid |-> g]
<1>0. TypeOK /\ QueuesTypeOK /\ nextGuid \in Nat \ {0} /\ n \in Nat /\ n = nextGuid
  BY <1>a DEF WorldInv, GreetInv, TypeOK, SimulationTypeOK
<1>1. /\ CmdHead("spawn") /\ cmds' = Tail(cmds)
      /\ UNCHANGED <<status, playerGUID, life, packets, requests>>
  BY DEF ExecSpawn, netVars
<1>2. /\ Head(cmds) \in WorldCmds /\ Head(cmds).type = "spawn"
      /\ \A M : Holds(cmds, M) <=> Head(cmds) \in M \/ Holds(cmds', M)
      /\ \A M : Once(cmds, M) =>
            Once(cmds', M) /\ (Head(cmds) \in M => ~Holds(cmds', M))
  BY <1>0, <1>1, TakeCmdEffect
<1>3. /\ s \in Sessions /\ Head(cmds) \in SpawnsOf(s)
      /\ \A t \in Sessions : Head(cmds) \notin ExitsOf(t) /\ (t # s => Head(cmds) \notin SpawnsOf(t))
      /\ Head(cmds) \notin AllDespawns
      /\ \A g \in Nat : Head(cmds) \notin Despawns(g)
      /\ \A t \in Sessions, g \in Nat : Head(cmds) # [type |-> "exit", sess |-> t, guid |-> g]
  BY <1>a, <1>2 DEF WorldCmds, SpawnsOf, ExitsOf, AllDespawns, Despawns
<1>4. \/ UNCHANGED <<io, players, nextGuid>>
      \/ /\ UNCHANGED players /\ nextGuid' \in {nextGuid, nextGuid + 1}
         /\ \E g \in Nat : Post(s, result(FALSE, g))
      \/ /\ players' = players \cup {e} /\ nextGuid' = nextGuid + 1
         /\ Post(s, result(TRUE, n))
  BY <1>0, <1>a DEF ExecSpawn, GetNextGUID, simVars
<1>5. e.guid = n /\ e.sess = s
  OBVIOUS
<1>6. /\ \A g \in Nat : result(FALSE, g) \in IoMsgs /\ result(FALSE, g) \notin Spawned
                        /\ result(FALSE, g) \notin LeftMsgs /\ result(FALSE, g) \in EnterMsgs
      /\ \A g, k \in Nat : result(FALSE, g) # result(TRUE, k)
      /\ \A g \in Nat : result(TRUE, g) \in IoMsgs /\ result(TRUE, g) \in Spawned
                        /\ result(TRUE, g) \notin LeftMsgs /\ result(TRUE, g) \in EnterMsgs
      /\ \A g, k \in Nat : result(TRUE, g) = result(TRUE, k) => g = k
      /\ \A g : result(TRUE, g).guid = g
  BY DEF IoMsgs, Spawned, LeftMsgs, EnterMsgs
<1> HIDE DEF e
<1>7. /\ Entering(s) /\ ~Inside(s) /\ ~Holds(io[s], EnterMsgs) /\ EnterRequests(s) = {}
      /\ ~Holds(cmds', SpawnsOf(s)) /\ packets[s] = <<>>
  BY <1>2, <1>3 DEF WorldInv, OneEntry, CleanPackets, Entering, Inside
<1>8. \A p \in players : p.sess # s
  BY <1>2, <1>3, CustodyFacts
<1>9. /\ Issued \subseteq Nat /\ Issued \subseteq Issued' /\ Issued' \subseteq Issued \cup {n}
      /\ n \notin Issued /\ (nextGuid' = nextGuid + 1 => n \in Issued')
  BY <1>0, <1>4 DEF Issued
<1>10. /\ \A t \in Sessions : t # s => io'[t] = io[t]
       /\ \A M : M \cap EnterMsgs = {} =>
             /\ Holds(io'[s], M) <=> Holds(io[s], M)
             /\ Once(io[s], M) => Once(io'[s], M)
       /\ Once(io'[s], EnterMsgs)
       /\ \A M : Holds(io'[s], M) =>
             \/ Holds(io[s], M)
             \/ result(TRUE, n) \in M /\ players' = players \cup {e} /\ nextGuid' = nextGuid + 1
             \/ \E g \in Nat : result(FALSE, g) \in M
       /\ players' # players => Holds(io'[s], {result(TRUE, n)})
  <2>1. CASE UNCHANGED <<io, players, nextGuid>>
    BY <1>3, <2>1 DEF WorldInv, OneEntry
  <2>2. ASSUME UNCHANGED players, NEW g \in Nat, Post(s, result(FALSE, g))
        PROVE  /\ \A t \in Sessions : t # s => io'[t] = io[t]
               /\ \A M : M \cap EnterMsgs = {} =>
                     /\ Holds(io'[s], M) <=> Holds(io[s], M)
                     /\ Once(io[s], M) => Once(io'[s], M)
               /\ Once(io'[s], EnterMsgs)
               /\ \A M : Holds(io'[s], M) =>
                     \/ Holds(io[s], M)
                     \/ result(TRUE, n) \in M /\ players' = players \cup {e} /\ nextGuid' = nextGuid + 1
                     \/ \E h \in Nat : result(FALSE, h) \in M
               /\ players' # players => Holds(io'[s], {result(TRUE, n)})
    <3>1. result(FALSE, g) \in IoMsgs /\ result(FALSE, g) \in EnterMsgs
      BY <1>6
    <3>2. /\ \A t \in Sessions : t # s => io'[t] = io[t]
          /\ \A M : Holds(io'[s], M) <=> Holds(io[s], M) \/ result(FALSE, g) \in M
          /\ \A M : Once(io'[s], M) <=> Once(io[s], M) /\ (result(FALSE, g) \in M => ~Holds(io[s], M))
      BY <1>0, <1>3, <2>2, <3>1, PostEffect
    <3>3. Once(io[s], EnterMsgs)
      BY <1>3 DEF WorldInv, OneEntry
    <3> HIDE DEF result
    <3> QED
      BY <1>7, <2>2, <3>1, <3>2, <3>3
  <2>3. CASE /\ players' = players \cup {e} /\ nextGuid' = nextGuid + 1
             /\ Post(s, result(TRUE, n))
    BY <1>0, <1>3, <1>6, <1>7, <2>3, PostEffect DEF WorldInv, OneEntry
  <2> QED
    BY <1>4, <2>1, <2>2, <2>3
<1>11. players' \subseteq players \cup {e} /\ players \subseteq players'
  BY <1>4
<1>12. /\ \A t \in Sessions, g \in Issued' : ExitPending(t, g)' => ExitPending(t, g) /\ g \in Issued
       /\ \A g \in Nat : DespawnPending(g)' <=> DespawnPending(g)
       /\ ~DespawnPending(n)
       /\ ~Holds(cmds', {d \in AllDespawns : d.guid \notin Issued})
  <2>1. \A g \in Nat : DespawnPending(g)' <=> DespawnPending(g)
    BY <1>2, <1>3 DEF DespawnPending
  <2>2. ~Holds(cmds', {d \in AllDespawns : d.guid \notin Issued})
    BY <1>2 DEF WorldInv, GuidsIssued
  <2>3. ~DespawnPending(n)
    <3>1. Despawns(n) \subseteq {d \in AllDespawns : d.guid \notin Issued}
      BY <1>0, <1>9 DEF Despawns, AllDespawns, WorldCmds
    <3> QED
      BY <3>1, HoldsMore DEF DespawnPending, WorldInv, GuidsIssued
  <2>4. ASSUME NEW t \in Sessions, NEW g \in Issued', ExitPending(t, g)'
        PROVE  ExitPending(t, g) /\ g \in Issued
    <3>1. ExitPending(t, g)
      BY <1>2, <2>4 DEF ExitPending
    <3>2. CASE g = n
      <4>1. [type |-> "exit", sess |-> t, guid |-> g] \in Despawns(n)
        BY <3>2 DEF Despawns
      <4> QED
        BY <2>3, <3>1, <4>1 DEF ExitPending, DespawnPending, Holds
    <3> QED
      BY <1>9, <3>1, <3>2
  <2> QED
    BY <2>1, <2>2, <2>3, <2>4
<1>13. \A t \in Sessions, g \in Issued : Settled(t, g) => Settled(t, g)'
  BY <1>9, <1>11, <1>12 DEF Settled
<1>14. \A t \in Sessions, g \in Issued' : t # s => (SpawnResultPending(t, g)' => SpawnResultPending(t, g) /\ g \in Issued)
  <2>1. ASSUME NEW t \in Sessions, t # s, SpawnResultPending(t, n)
        PROVE  FALSE
    <3>1. result(TRUE, n) \in {m \in Spawned : m.guid \notin Issued}
      BY <1>0, <1>6, <1>9
    <3> QED
      BY <2>1, <3>1 DEF SpawnResultPending, Holds, WorldInv, GuidsIssued
  <2>2. \A t \in Sessions, g \in Issued' : t # s => (SpawnResultPending(t, g)' <=> SpawnResultPending(t, g))
    BY <1>10 DEF SpawnResultPending
  <2> QED
    BY <1>9, <2>1, <2>2
<1>15. \A g \in Issued' : SpawnResultPending(s, g)' =>
          g = n /\ players' = players \cup {e} /\ nextGuid' = nextGuid + 1
  <2>1. \A g \in Issued' : g \in Nat
    BY <1>0, <1>9
  <2>2. \A g \in Issued' : ~Holds(io[s], {result(TRUE, g)})
    BY <1>6, <1>7, <2>1 DEF Holds
  <2>3. \A g \in Issued' : SpawnResultPending(s, g)' <=> Holds(io'[s], {result(TRUE, g)})
    BY DEF SpawnResultPending
  <2>4. ASSUME NEW g \in Issued', Holds(io'[s], {result(TRUE, g)})
        PROVE  g = n /\ players' = players \cup {e} /\ nextGuid' = nextGuid + 1
    <3>1. \/ result(TRUE, n) \in {result(TRUE, g)} /\ players' = players \cup {e} /\ nextGuid' = nextGuid + 1
          \/ \E h \in Nat : result(FALSE, h) \in {result(TRUE, g)}
      BY <1>10, <2>2, <2>4
    <3>2. g \in Nat /\ n \in Nat
      BY <1>0, <2>1
    <3>3. ~ \E h \in Nat : result(FALSE, h) \in {result(TRUE, g)}
      BY <1>6, <3>2
    <3> QED
      BY <1>6, <3>1, <3>2, <3>3
  <2> QED
    BY <2>3, <2>4
<1>16. \A t \in Sessions : EnterRequests(t)' = EnterRequests(t)
  BY <1>1 DEF EnterRequests
<1>17. GuidsIssued'
  <2>1. \A p \in players' : p.guid \in Issued'
    BY <1>4, <1>5, <1>9 DEF WorldInv, GuidsIssued
  <2>2. \A t \in Sessions : playerGUID'[t] < nextGuid'
    BY <1>0, <1>1, <1>4 DEF WorldInv, GuidsIssued, GreetInv, TypeOK, SessionsTypeOK
  <2>3. ~Holds(cmds', {d \in AllDespawns : d.guid \notin Issued'})
    BY <1>9, <1>12 DEF Holds
  <2>4. ASSUME NEW t \in Sessions
        PROVE  ~Holds(io'[t], {m \in Spawned : m.guid \notin Issued'})
    <3>1. ~Holds(io[t], {m \in Spawned : m.guid \notin Issued'})
      BY <1>9 DEF WorldInv, GuidsIssued, Holds
    <3>2. \A g \in Nat : result(FALSE, g) \notin {m \in Spawned : m.guid \notin Issued'}
      BY <1>6
    <3>3. nextGuid' = nextGuid + 1 => result(TRUE, n) \notin {m \in Spawned : m.guid \notin Issued'}
      BY <1>6, <1>9
    <3> QED
      BY <1>10, <3>1, <3>2, <3>3
  <2> QED
    BY <2>1, <2>2, <2>3, <2>4 DEF GuidsIssued
<1>18. OwnsInside'
  <2>1. \A t \in Sessions : playerGUID'[t] = n => FALSE
    BY <1>0, <1>1 DEF WorldInv, GuidsIssued, GreetInv, TypeOK, SessionsTypeOK
  <2> QED
    BY <1>1, <1>5, <1>11, <2>1 DEF WorldInv, OwnsInside, Entering, Inside
<1>19. ASSUME NEW t \in Sessions
       PROVE  OneEntry(t)'
  <2>1. CASE t = s
    BY <1>1, <1>2, <1>7, <1>10, <1>16, <2>1 DEF WorldInv, OneEntry, Entering
  <2>2. CASE t # s
    BY <1>1, <1>2, <1>3, <1>10, <1>16, <2>2 DEF WorldInv, OneEntry, Entering
  <2> QED
    BY <2>1, <2>2
<1>20. ASSUME NEW t \in Sessions
       PROVE  OneExit(t)'
  <2>1. /\ Holds(io'[t], LeftMsgs) <=> Holds(io[t], LeftMsgs)
        /\ Once(io[t], LeftMsgs) => Once(io'[t], LeftMsgs)
    <3>1. LeftMsgs \cap EnterMsgs = {}
      BY DEF LeftMsgs, EnterMsgs
    <3> QED
      BY <1>10, <3>1
  <2>2. /\ Holds(cmds', ExitsOf(t)) <=> Holds(cmds, ExitsOf(t))
        /\ Once(cmds, ExitsOf(t)) => Once(cmds', ExitsOf(t))
    BY <1>2, <1>3
  <2>3. \A g \in Issued' : ExitPending(t, g)' => g = playerGUID'[t]
    BY <1>1, <1>12 DEF WorldInv, OneExit
  <2> QED
    BY <1>1, <2>1, <2>2, <2>3 DEF WorldInv, OneExit
<1>21. ASSUME NEW t \in Sessions
       PROVE  Confirmed(t)'
  <2>1. CASE t = s
    <3>1. status'[s] # "IN_WORLD"
      BY <1>1, <1>7 DEF Entering
    <3>2. players' = players \cup {e} => Settled(s, n)'
      BY <1>0, <1>5, <1>12 DEF Settled, DespawnPending
    <3> QED
      BY <1>15, <2>1, <3>1, <3>2 DEF Confirmed
  <2>2. CASE t # s
    <3>1. status[t] = "IN_WORLD" => playerGUID[t] \in Issued
      BY DEF WorldInv, Confirmed, Settled, GuidsIssued
    <3> QED
      BY <1>1, <1>13, <1>14, <2>2, <3>1 DEF WorldInv, Confirmed
  <2> QED
    BY <2>1, <2>2
<1>22. ASSUME NEW t \in Sessions
       PROVE  CleanPackets(t)'
  <2>1. CASE t = s
    BY <1>1, <1>7, <2>1 DEF CleanPackets
  <2>2. CASE t # s
    <3>1. Holds(cmds', SpawnsOf(t)) => Holds(cmds, SpawnsOf(t))
      BY <1>2
    <3> QED
      BY <1>1, <1>14, <2>2, <3>1 DEF WorldInv, CleanPackets
  <2> QED
    BY <2>1, <2>2
<1>23. ASSUME NEW p \in players
       PROVE  InCustody(p)'
  <2>1. /\ p.sess \in Sessions /\ p.sess # s /\ p.guid \in Nat /\ io'[p.sess] = io[p.sess]
        /\ ~Holds(cmds', SpawnsOf(p.sess))
    BY <1>2, <1>8, <1>9, <1>10, CustodyFacts
  <2>2. InCustody(p)
    BY DEF WorldInv
  <2>3. DespawnPending(p.guid)' <=> DespawnPending(p.guid)
    BY <1>12, <2>1
  <2>4. SpawnResultPending(p.sess, p.guid)' <=> SpawnResultPending(p.sess, p.guid)
    BY <2>1 DEF SpawnResultPending
  <2> QED
    BY <1>1, <1>16, <2>1, <2>2, <2>3, <2>4 DEF InCustody, Entering, Inside
<1>24. players' # players => InCustody(e)'
  BY <1>1, <1>5, <1>7, <1>10 DEF InCustody, SpawnResultPending, Entering
<1> QED
  <2>1. \A p \in players' : InCustody(p)'
    BY <1>11, <1>23, <1>24
  <2> QED
    BY <1>17, <1>18, <1>19, <1>20, <1>21, <1>22, <2>1 DEF WorldInv

------------------------------------------------------------------------------
(* The invariant, and what follows from it.                                *)

LEMMA StepKeepsGreeting ==
  ASSUME WorldInv, TypeOK', [Next]_vars
  PROVE  GreetInv'
<1>1. CASE UNCHANGED vars
  <2>1. UNCHANGED <<account, status, requests, io>>
    BY <1>1 DEF vars, netVars
  <2> QED
    BY <2>1, GreetFrame DEF WorldInv
<1>2. CASE Next
  BY <1>2, ReadPacketsKeepsGreeting, ServeIoKeepsGreeting, SimulationKeepsGreeting,
     LifetimeKeepsGreeting DEF Next, WorldInv
<1> QED
  BY <1>1, <1>2

LEMMA StepKeepsWorldInv ==
  ASSUME WorldInv, [Next]_vars
  PROVE  WorldInv'
<1>1. TypeOK' /\ IndexesAgree'
  BY StepKeepsSim
<1>2. GreetInv'
  BY <1>1, StepKeepsGreeting
<1>3. Quiet => WorldInv'
  BY <1>1, <1>2, QuietKeepsWorldInv
<1>4. TypeOK
  BY DEF WorldInv, GreetInv
<1>5. CASE UNCHANGED vars
  <2>1. /\ UNCHANGED <<status, playerGUID, players, nextGuid, io, cmds, requests>>
        /\ UNCHANGED <<life, packets>>
    BY <1>5 DEF vars, netVars, simVars
  <2>2. QuietLife
    BY <2>1 DEF QuietLife
  <2> QED
    BY <1>3, <2>1, <2>2, LifeIsQuiet
<1>6. CASE \E s \in Sessions : ReadPackets(s)
  BY <1>1, <1>2, <1>3, <1>4, <1>6, ReadingIsQuiet, EnterWorldKeepsWorldInv,
     ExitWorldKeepsWorldInv DEF ReadPackets
<1>7. CASE \E s \in Sessions : ServeIo(s)
  BY <1>1, <1>2, <1>3, <1>7, ServingIsQuiet, ServeEnterKeepsWorldInv,
     ServeSpawnedKeepsWorldInv, ServeLeftKeepsWorldInv DEF ServeIo
<1>8. CASE \E s \in Sessions : \E r \in requests[s] : Respond(s, r)
  BY <1>1, <1>2, <1>3, <1>4, <1>8, OtherAnswersAreQuiet, EnterAnswerKeepsWorldInv
<1>9. CASE \E s \in Sessions :
             \/ Accept(s) \/ Disconnect(s) \/ EndLateRead(s)
             \/ ProcessPlayerPacketsQueue(s) \/ BeginDestroy(s)
  BY <1>3, <1>4, <1>9, LifetimeIsQuiet
<1>10. CASE \E s \in Sessions : FinishDestroy(s)
  BY <1>1, <1>2, <1>10, FinishDestroyKeepsWorldInv
<1>11. CASE ExecuteWorldCmd \/ ZoneUpdate
  BY <1>1, <1>2, <1>3, <1>11, MovingIsQuiet, ExecSpawnKeepsWorldInv,
     ExecExitKeepsWorldInv, ExecDespawnKeepsWorldInv DEF ExecuteWorldCmd
<1> QED
  BY <1>5, <1>6, <1>7, <1>8, <1>9, <1>10, <1>11 DEF Next

LEMMA InitWorldInv == Init => WorldInv
<1> SUFFICES ASSUME Init PROVE WorldInv
  OBVIOUS
<1>1. TypeOK
  BY InitType
<1>2. /\ \A s \in Sessions : \A M : ~Holds(io[s], M) /\ Once(io[s], M)
      /\ \A M : ~Holds(cmds, M) /\ Once(cmds, M)
  BY DEF Init, Holds, Once
<1>3. players = {} /\ nextGuid = 1
  BY DEF Init, FirstGUID
<1>4. \A s \in Sessions :
        /\ life[s] = "none" /\ status[s] = "GATHER_SESSIONKEY" /\ playerGUID[s] = 0
        /\ packets[s] = <<>> /\ requests[s] = {}
  BY DEF Init
<1>5. GreetInv
  BY <1>1, <1>2, <1>4 DEF GreetInv, OneGreeting
<1>6. IndexesAgree
  BY DEF Init, IndexesAgree
<1>7. GuidsIssued
  BY <1>2, <1>3, <1>4 DEF GuidsIssued
<1>8. OwnsInside
  BY <1>3, <1>4 DEF OwnsInside, Entering, Inside
<1>9. ASSUME NEW s \in Sessions
      PROVE  OneEntry(s) /\ OneExit(s) /\ Confirmed(s) /\ CleanPackets(s)
  <2>1. EnterRequests(s) = {}
    BY <1>4 DEF EnterRequests
  <2>2. Issued = {}
    BY <1>3 DEF Issued
  <2> QED
    BY <1>2, <1>4, <2>1, <2>2 DEF OneEntry, OneExit, Confirmed, CleanPackets
<1> QED
  BY <1>3, <1>5, <1>6, <1>7, <1>8, <1>9 DEF WorldInv

LEMMA CustodyIsDuty ==
  ASSUME WorldInv
  PROVE  NoOrphanedPlayer
<1>1. ASSUME NEW p \in players
      PROVE  \/ WillLeave(p.sess, p.guid) \/ SpawnResultPending(p.sess, p.guid)
             \/ DespawnPending(p.guid)
  BY DEF WorldInv, InCustody, WillLeave, Inside
<1> QED
  BY <1>1 DEF NoOrphanedPlayer

\* WorldInv holds in every state: the queues between the network threads, the
\* DB workers and the simulation never hold two ways into the world, or two
\* ways out of it, for one session.
THEOREM WorldCorrect == Spec => []WorldInv
<1>1. WorldInv /\ [Next]_vars => WorldInv'
  BY StepKeepsWorldInv
<1> QED
  BY <1>1, InitWorldInv, PTL DEF Spec

\* No player entity is orphaned, whatever the order in which spawns, kicks,
\* disconnections, destructors and despawns meet.
THEOREM NoOrphans == Spec => []NoOrphanedPlayer
<1>1. WorldInv => NoOrphanedPlayer
  BY CustodyIsDuty
<1> QED
  BY <1>1, WorldCorrect, PTL

\* An open session that is in world owns an entity that is there and that no
\* posted despawn will take away.
THEOREM PlayerStays == Spec => []InWorldHasPlayer
<1>1. WorldInv => InWorldHasPlayer
  BY DEF WorldInv, Confirmed, Settled, InWorldHasPlayer
<1> QED
  BY <1>1, WorldCorrect, PTL

\* An in-world session has no packet of an earlier stay in its queue.
THEOREM NoStalePackets == Spec => []PacketsOfThisStay
<1>1. WorldInv => PacketsOfThisStay
  BY DEF WorldInv, CleanPackets, PacketsOfThisStay
<1> QED
  BY <1>1, WorldCorrect, PTL

------------------------------------------------------------------------------
(* The registry: an account has one usable session.                        *)

Kick == [type |-> "kick"]

LEMMA KickPosted ==
  ASSUME NEW q
  PROVE  Kick \in ToSet(q) <=> Holds(q, {Kick})
  BY DEF ToSet, Holds

\* A step that neither registers a session nor frees a slot.
RegistryUntouched ==
  /\ UNCHANGED <<serial, hasRegistered, sessions, playerCount, nextSerial>>
  /\ \A s \in Sessions : hasRegistered[s] =>
       /\ account'[s] = account[s]
       /\ status[s] \in AuthedStatus => status'[s] \in AuthedStatus
       /\ life[s] # "none" => life'[s] # "none"
       /\ Expired(s)' => Expired(s)
       /\ life'[s] = "open" =>
            (life[s] = "open" \/ life[s] = "none") /\ (Holds(io[s], {Kick}) => Holds(io'[s], {Kick}))

LEMMA UntouchedKeepsRegistry ==
  ASSUME RegistryInv, TypeOK, RegistryUntouched
  PROVE  RegistryInv'
<1>1. Taken' = Taken
  BY DEF RegistryUntouched, Taken
<1>2. \A a \in Accounts : a \in Taken => sessions[a].sess \in Sessions
  BY DEF TypeOK, RegistryTypeOK, Taken, Slots
<1>3. ASSUME NEW s \in Sessions
      PROVE  OneRegistration(s)'
  BY <1>3 DEF RegistryInv, RegistryUntouched, OneRegistration
<1>4. ASSUME NEW a \in Taken'
      PROVE  SlotHeld(a)'
  BY <1>1, <1>2, <1>4 DEF RegistryInv, RegistryUntouched, SlotHeld, Taken
<1>5. OneSessionPerAccount'
  <2> SUFFICES ASSUME NEW s \in Sessions, life'[s] = "open", hasRegistered'[s]
               PROVE  \/ sessions'[account'[s]] = [serial |-> serial'[s], sess |-> s]
                      \/ Kick \in ToSet(io'[s])
    BY DEF OneSessionPerAccount, Kick
  <2>1. life[s] = "open" /\ hasRegistered[s]
    BY DEF RegistryUntouched, RegistryInv, OneRegistration
  <2>2. \/ sessions[account[s]] = [serial |-> serial[s], sess |-> s]
        \/ Kick \in ToSet(io[s])
    BY <2>1 DEF RegistryInv, OneSessionPerAccount, Kick
  <2>3. Kick \in ToSet(io[s]) => Kick \in ToSet(io'[s])
    BY <2>1, KickPosted DEF RegistryUntouched
  <2> QED
    BY <2>1, <2>2, <2>3 DEF RegistryUntouched
<1> QED
  BY <1>1, <1>3, <1>4, <1>5 DEF RegistryInv, RegistryUntouched

\* The packet handlers, the steps of a session's lifetime but the first of its
\* destructor, and the simulation.
LEMMA OthersLeaveRegistry ==
  ASSUME WorldInv, RegistryInv,
         \/ \E s \in Sessions :
              \/ ReadPackets(s) \/ Accept(s) \/ Disconnect(s) \/ EndLateRead(s)
              \/ ProcessPlayerPacketsQueue(s) \/ FinishDestroy(s)
              \/ \E r \in requests[s] : Respond(s, r)
         \/ ExecuteWorldCmd \/ ZoneUpdate \/ UNCHANGED vars
  PROVE  RegistryUntouched
<1>0. /\ QueuesTypeOK /\ TypeOK
      /\ life \in [Sessions -> Lives] /\ status \in [Sessions -> WorldSocketStatus]
  BY DEF WorldInv, GreetInv, TypeOK, SessionsTypeOK
<1>1. UNCHANGED <<serial, hasRegistered, sessions, playerCount, nextSerial, account>>
  BY DEF ReadPackets, HandleGreetcode, HandleGreetPacket, HandleEnumCharacter, HandleEnterWorld,
         HandleExitWorld, HandlePlayerMovementUpdate, Accept, Disconnect, EndLateRead,
         ProcessPlayerPacketsQueue, FinishDestroy, Respond, ExecuteWorldCmd, ExecSpawn, ExecExit,
         ExecDespawn, ExecMove, ZoneUpdate, vars, netVars, regVars
<1>2. \A s \in Sessions : status[s] \in AuthedStatus => status'[s] \in AuthedStatus
  <2>1. \/ status' = status
        \/ \E s \in Sessions : \E x :
             /\ status' = [status EXCEPT ![s] = x]
             /\ status[s] \in AuthedStatus => x \in AuthedStatus
    <3>1. ASSUME NEW s \in Sessions, ReadPackets(s)
          PROVE  \/ status' = status
                 \/ \E x : /\ status' = [status EXCEPT ![s] = x]
                           /\ status[s] \in AuthedStatus => x \in AuthedStatus
      BY <3>1 DEF ReadPackets, HandleGreetcode, HandleGreetPacket, HandleEnumCharacter,
         HandleEnterWorld, HandleExitWorld, DoExitWorld, HandlePlayerMovementUpdate, netVars, AuthedStatus
    <3>2. ASSUME NEW s \in Sessions, FinishDestroy(s)
          PROVE  \/ status' = status
                 \/ \E x : /\ status' = [status EXCEPT ![s] = x]
                           /\ status[s] \in AuthedStatus => x \in AuthedStatus
      BY <3>2 DEF FinishDestroy, DoExitWorld, AuthedStatus
    <3> QED
      BY <3>1, <3>2 DEF Accept, Disconnect, EndLateRead, ProcessPlayerPacketsQueue, Respond,
         ExecuteWorldCmd, ExecSpawn, ExecExit, ExecDespawn, ExecMove, ZoneUpdate, vars, netVars
  <2> QED
    BY <1>0, <2>1
<1>3. \A s \in Sessions :
        /\ life[s] # "none" => life'[s] # "none"
        /\ Expired(s)' => Expired(s)
        /\ life'[s] = "open" => life[s] = "open" \/ life[s] = "none"
  <2>1. \/ life' = life
        \/ \E s \in Sessions : \E x :
             /\ life' = [life EXCEPT ![s] = x]
             /\ \/ life[s] = "none" /\ x = "open"
                \/ x = "closed" /\ life[s] = "open"
                \/ x = "dead" /\ life[s] = "dying"
    <3>1. ASSUME NEW s \in Sessions, Close(s) \/ CloseInReader(s)
          PROVE  life' = life \/ (life' = [life EXCEPT ![s] = "closed"] /\ life[s] = "open")
      BY <1>0, <3>1 DEF Close, CloseInReader
    <3> QED
      BY <3>1 DEF ReadPackets, HandleGreetcode, HandleGreetPacket, HandleEnumCharacter,
         HandleEnterWorld, HandleExitWorld, HandlePlayerMovementUpdate, Accept, Disconnect,
         EndLateRead, ProcessPlayerPacketsQueue, FinishDestroy, Respond, ExecuteWorldCmd, ExecSpawn,
         ExecExit, ExecDespawn, ExecMove, ZoneUpdate, vars, netVars
  <2> QED
    BY <1>0, <2>1 DEF Expired
<1>4. \A s \in Sessions : Holds(io[s], {Kick}) => Holds(io'[s], {Kick})
  <2>1. \/ UNCHANGED io
        \/ \E s \in Sessions : \E m \in IoMsgs : Post(s, m)
    <3>1. ASSUME NEW s \in Sessions, NEW r \in requests[s], Respond(s, r)
          PROVE  UNCHANGED io \/ \E m \in IoMsgs : Post(s, m)
      BY <1>0, <3>1, AnswersType DEF Respond, QueuesTypeOK
    <3>2. ASSUME ExecSpawn
          PROVE  UNCHANGED io \/ \E s \in Sessions : \E m \in IoMsgs : Post(s, m)
      <4>1. Head(cmds).sess \in Sessions /\ nextGuid \in Nat
        BY <1>0, <3>2, CmdHeadType DEF ExecSpawn, CmdHead, WorldCmds, TypeOK, SimulationTypeOK
      <4>2. \A ok \in BOOLEAN, g \in Nat : [type |-> "spawned", ok |-> ok, guid |-> g] \in IoMsgs
        BY DEF IoMsgs
      <4> QED
        BY <3>2, <4>1, <4>2 DEF ExecSpawn
    <3>3. ASSUME ExecExit
          PROVE  \E s \in Sessions : \E m \in IoMsgs : Post(s, m)
      <4>1. Head(cmds).sess \in Sessions
        BY <1>0, <3>3, CmdHeadType DEF ExecExit, CmdHead, WorldCmds
      <4>2. [type |-> "left"] \in IoMsgs
        BY DEF IoMsgs
      <4> QED
        BY <3>3, <4>1, <4>2 DEF ExecExit
    <3> QED
      BY <3>1, <3>2, <3>3 DEF ReadPackets, HandleGreetcode, HandleGreetPacket, HandleEnumCharacter,
         HandleEnterWorld, HandleExitWorld, HandlePlayerMovementUpdate, Accept, Disconnect,
         EndLateRead, ProcessPlayerPacketsQueue, FinishDestroy, ExecuteWorldCmd,
         ExecDespawn, ExecMove, ZoneUpdate, vars
  <2> QED
    BY <1>0, <2>1, PostEffect
<1> QED
  BY <1>1, <1>2, <1>3, <1>4 DEF RegistryUntouched

\* The handlers on a session's io_context, but the one that registers it.
LEMMA ServingLeavesRegistry ==
  ASSUME WorldInv, RegistryInv, NEW s \in Sessions, ServeIo(s), UNCHANGED nextSerial
  PROVE  RegistryUntouched
<1>0. /\ QueuesTypeOK /\ TypeOK
      /\ life \in [Sessions -> Lives] /\ status \in [Sessions -> WorldSocketStatus]
      /\ nextSerial \in Nat /\ account \in [Sessions -> Accounts \cup {NoAccount}]
  BY DEF WorldInv, GreetInv, TypeOK, SessionsTypeOK, RegistryTypeOK
<1>1. UNCHANGED <<serial, hasRegistered, sessions, playerCount>>
  BY <1>0 DEF ServeIo, ServeKick, ServeGreetcode, ServeEnum, ServeEnter, ServeSpawned, ServeLeft,
         regVars
<1>2. /\ \A t \in Sessions : t # s => account'[t] = account[t]
      /\ account'[s] = account[s] \/ status[s] = "GATHER_SESSIONKEY_PENDING"
  <2>1. account' = account \/ (ServeGreetcode(s) /\ \E x : account' = [account EXCEPT ![s] = x])
    BY DEF ServeIo, ServeKick, ServeGreetcode, ServeEnum, ServeEnter, ServeSpawned, ServeLeft
  <2>2. ServeGreetcode(s) => status[s] = "GATHER_SESSIONKEY_PENDING"
    <3> SUFFICES ASSUME ServeGreetcode(s) PROVE status[s] = "GATHER_SESSIONKEY_PENDING"
      OBVIOUS
    <3>1. /\ Head(io[s]) \in IoMsgs /\ Head(io[s]).type = "greetcode"
          /\ Head(io[s]) \in GreetMsgs => Holds(io[s], GreetMsgs)
      BY <1>0, TakeEffect DEF ServeGreetcode
    <3> QED
      BY <3>1 DEF GreetMsgs, WorldInv, GreetInv, OneGreeting
  <2> QED
    BY <1>0, <2>1, <2>2
<1>3. \A t \in Sessions : hasRegistered[t] => account'[t] = account[t]
  BY <1>2 DEF RegistryInv, OneRegistration, AuthedStatus
<1>4. \A t \in Sessions : hasRegistered[t] /\ status[t] \in AuthedStatus => status'[t] \in AuthedStatus
  <2>1. \/ status' = status
        \/ \E x : /\ status' = [status EXCEPT ![s] = x]
                  /\ x \in AuthedStatus \/ status[s] = "GATHER_SESSIONKEY_PENDING"
    <3>1. ServeGreetcode(s) =>
            \/ status' = status
            \/ \E x : /\ status' = [status EXCEPT ![s] = x]
                      /\ status[s] = "GATHER_SESSIONKEY_PENDING"
      <4> SUFFICES ASSUME ServeGreetcode(s), status' # status
                   PROVE  status[s] = "GATHER_SESSIONKEY_PENDING"
        BY DEF ServeGreetcode
      <4>1. /\ Head(io[s]) \in IoMsgs /\ Head(io[s]).type = "greetcode"
            /\ Head(io[s]) \in GreetMsgs => Holds(io[s], GreetMsgs)
        BY <1>0, TakeEffect DEF ServeGreetcode
      <4> QED
        BY <4>1 DEF GreetMsgs, WorldInv, GreetInv, OneGreeting
    <3> QED
      BY <3>1 DEF ServeIo, ServeKick, ServeEnum, ServeEnter, ServeSpawned, ServeLeft,
         BackToAuthed, AuthedStatus
  <2> QED
    BY <1>0, <2>1 DEF AuthedStatus
<1>5. \A t \in Sessions :
        /\ life[t] # "none" => life'[t] # "none"
        /\ Expired(t)' => Expired(t)
        /\ life'[t] = "open" => life[t] = "open"
        /\ ServeKick(s) /\ t = s => life'[t] # "open"
  <2>1. \/ life' = life
        \/ life[s] = "open" /\ life' = [life EXCEPT ![s] = "closed"]
    <3>1. Close(s) => life' = life \/ (life[s] = "open" /\ life' = [life EXCEPT ![s] = "closed"])
      BY <1>0 DEF Close
    <3> QED
      BY <3>1 DEF ServeIo, ServeKick, ServeGreetcode, ServeEnum, ServeEnter, ServeSpawned, ServeLeft
  <2>2. ServeKick(s) => life'[s] # "open"
    BY <1>0 DEF ServeKick, Close
  <2> QED
    BY <1>0, <2>1, <2>2 DEF Expired
<1>6. \A t \in Sessions : (ServeKick(s) /\ t = s) \/ (Holds(io[t], {Kick}) => Holds(io'[t], {Kick}))
  <2>1. io' = IoRest(s)
    BY <1>0 DEF ServeIo, ServeKick, ServeGreetcode, ServeEnum, ServeEnter, ServeSpawned, ServeLeft
  <2>2. PICK h : IoHead(s, h) /\ (h = "kick" => ServeKick(s))
    BY DEF ServeIo, ServeKick, ServeGreetcode, ServeEnum, ServeEnter, ServeSpawned, ServeLeft
  <2>3. /\ \A t \in Sessions : t # s => io'[t] = io[t]
        /\ Holds(io[s], {Kick}) => Head(io[s]) = Kick \/ Holds(io'[s], {Kick})
        /\ Head(io[s]) = Kick => h = "kick"
    BY <1>0, <2>1, <2>2, TakeEffect DEF Kick
  <2> QED
    BY <2>2, <2>3
<1> QED
  BY <1>1, <1>3, <1>4, <1>5, <1>6 DEF RegistryUntouched, RegistryInv, OneRegistration

\* The first character list authenticates a session: it takes its account's
\* slot, and the session that had it is kicked.
LEMMA RegisteringKeepsRegistry ==
  ASSUME WorldInv, RegistryInv, NEW s \in Sessions, ServeIo(s), nextSerial' # nextSerial
  PROVE  RegistryInv'
<1> DEFINE a == account[s]
           slot == [serial |-> nextSerial, sess |-> s]
           tail(t) == IF t = s THEN Tail(io[t]) ELSE io[t]
<1>0. /\ QueuesTypeOK /\ TypeOK /\ io \in [Sessions -> Seq(IoMsgs)]
      /\ life \in [Sessions -> Lives] /\ status \in [Sessions -> WorldSocketStatus]
      /\ serial \in [Sessions -> Nat] /\ hasRegistered \in [Sessions -> BOOLEAN]
      /\ nextSerial \in Nat \ {0} /\ sessions \in [Accounts -> Slots \cup {NoSlot}]
      /\ playerCount \in Int
  BY DEF WorldInv, GreetInv, TypeOK, QueuesTypeOK, SessionsTypeOK, RegistryTypeOK
<1>1. ServeEnum(s)
  BY DEF ServeIo, ServeKick, ServeGreetcode, ServeEnter, ServeSpawned, ServeLeft, regVars
<1>2. /\ IoHead(s, "enum") /\ life[s] = "open" /\ FirstList(s)
      /\ status' = [status EXCEPT ![s] = "AUTHED"]
      /\ serial' = [serial EXCEPT ![s] = nextSerial]
      /\ nextSerial' = nextSerial + 1
      /\ io' = [t \in Sessions |->
                  IF t \in Kicked(a) THEN Append(tail(t), [type |-> "kick"]) ELSE tail(t)]
      /\ sessions' = [sessions EXCEPT ![a] = slot]
      /\ playerCount' = IF sessions[a] = NoSlot THEN playerCount + 1 ELSE playerCount
      /\ hasRegistered' = [hasRegistered EXCEPT ![s] = TRUE]
      /\ UNCHANGED <<life, lateRead, account>>
  BY <1>0, <1>1 DEF ServeEnum, RegisterSession, regVars
<1>3. status[s] = "SELECTING_CHARACTERS" /\ ~hasRegistered[s] /\ a \in Accounts
  BY <1>0, <1>2 DEF FirstList, RegistryInv, OneRegistration, AuthedStatus, WorldInv, GreetInv, OneGreeting
<1>4. slot # NoSlot /\ slot.sess = s /\ slot.serial = nextSerial
  BY <1>0 DEF NoSlot
<1> HIDE DEF slot
<1>5. Taken' = Taken \cup {a} /\ (a \in Taken <=> sessions[a] # NoSlot)
  BY <1>0, <1>2, <1>3, <1>4 DEF Taken
<1>6. IsFiniteSet(Taken') /\ playerCount' = Cardinality(Taken')
  BY <1>0, <1>2, <1>5, FS_AddElement DEF RegistryInv
<1>7. ASSUME NEW t \in Sessions
      PROVE  OneRegistration(t)'
  <2>1. CASE t = s
    BY <1>0, <1>2, <1>3, <2>1 DEF RegistryInv, OneRegistration, AuthedStatus
  <2>2. CASE t # s
    BY <1>0, <1>2, <1>3, <2>2 DEF RegistryInv, OneRegistration
  <2> QED
    BY <2>1, <2>2
<1>8. ASSUME NEW b \in Taken'
      PROVE  SlotHeld(b)'
  <2>1. CASE b = a
    BY <1>0, <1>2, <1>3, <1>4, <2>1 DEF SlotHeld, Expired
  <2>2. CASE b # a
    <3>1. b \in Taken /\ sessions'[b] = sessions[b] /\ sessions[b].sess \in Sessions
      BY <1>0, <1>2, <1>5, <2>2 DEF Taken, Slots
    <3>2. SlotHeld(b) /\ sessions[b].sess # s
      BY <1>3, <3>1 DEF RegistryInv, SlotHeld
    <3> QED
      BY <1>0, <1>2, <3>1, <3>2 DEF SlotHeld, Expired
  <2> QED
    BY <2>1, <2>2
<1>9. ASSUME NEW t \in Sessions
      PROVE  /\ Holds(io[t], {Kick}) => Holds(io'[t], {Kick})
             /\ t \in Kicked(a) => Holds(io'[t], {Kick})
  <2>1. tail(t) \in Seq(IoMsgs) /\ Kick \in IoMsgs
    BY <1>0, <1>2 DEF IoHead, Kick, IoMsgs
  <2>2. Holds(io[t], {Kick}) => Holds(tail(t), {Kick})
    <3>1. CASE t = s
      <4>1. Head(io[s]) # Kick /\ io[s] # <<>>
        BY <1>2 DEF IoHead, Kick
      <4> QED
        BY <1>0, <3>1, <4>1, HoldsTail
    <3>2. CASE t # s
      BY <3>2
    <3> QED
      BY <3>1, <3>2
  <2>3. io'[t] = IF t \in Kicked(a) THEN Append(tail(t), Kick) ELSE tail(t)
    BY <1>2 DEF Kick
  <2> HIDE DEF tail
  <2>4. Holds(Append(tail(t), Kick), {Kick})
    BY <2>1, HoldsAppend
  <2> QED
    BY <2>2, <2>3, <2>4
<1>10. OneSessionPerAccount'
  <2> SUFFICES ASSUME NEW t \in Sessions, life[t] = "open", hasRegistered'[t]
               PROVE  \/ sessions'[account[t]] = [serial |-> serial'[t], sess |-> t]
                      \/ Holds(io'[t], {Kick})
    BY <1>2, KickPosted DEF OneSessionPerAccount, Kick
  <2>1. CASE t = s
    BY <1>0, <1>2, <1>3, <2>1 DEF slot
  <2>2. CASE t # s
    <3>0. hasRegistered[t] /\ serial'[t] = serial[t]
      BY <1>0, <1>2, <2>2
    <3>1. serial[t] # 0 /\ account[t] \in Accounts
      <4>1. status[t] \in AuthedStatus /\ serial[t] \in 1..(nextSerial - 1)
        BY <3>0 DEF RegistryInv, OneRegistration
      <4>2. serial[t] # 0
        BY <1>0, <4>1
      <4>3. account[t] \in Accounts
        BY <4>1 DEF AuthedStatus, WorldInv, GreetInv, OneGreeting
      <4> QED
        BY <4>2, <4>3
    <3>2. sessions[account[t]] = [serial |-> serial[t], sess |-> t] \/ Holds(io[t], {Kick})
      BY <3>0, KickPosted DEF RegistryInv, OneSessionPerAccount, Kick
    <3>3. CASE account[t] # a
      BY <1>0, <1>2, <1>3, <1>9, <3>0, <3>1, <3>2, <3>3
    <3>4. CASE account[t] = a /\ sessions[a] = [serial |-> serial[t], sess |-> t]
      <4>1. sessions[a] # NoSlot /\ sessions[a].sess = t
        BY <3>1, <3>4 DEF NoSlot
      <4>2. t \in Kicked(a)
        BY <4>1 DEF Kicked, Expired
      <4> QED
        BY <1>9, <4>2
    <3> QED
      BY <1>9, <3>2, <3>3, <3>4
  <2> QED
    BY <2>1, <2>2
<1> QED
  BY <1>6, <1>7, <1>8, <1>10 DEF RegistryInv

\* The destructor frees the slot that its session holds, and no other.
LEMMA DestroyKeepsRegistry ==
  ASSUME WorldInv, RegistryInv, NEW s \in Sessions, BeginDestroy(s)
  PROVE  RegistryInv'
<1> DEFINE a == account[s]
           mine == hasRegistered[s] /\ sessions[a] # NoSlot /\ sessions[a].serial = serial[s]
<1>0. /\ TypeOK
      /\ life \in [Sessions -> Lives] /\ serial \in [Sessions -> Nat]
      /\ nextSerial \in Nat \ {0} /\ sessions \in [Accounts -> Slots \cup {NoSlot}]
      /\ playerCount \in Int
  BY DEF WorldInv, GreetInv, TypeOK, SessionsTypeOK, RegistryTypeOK
<1>1. /\ life[s] = "closed" /\ life' = [life EXCEPT ![s] = "dying"]
      /\ UnregisterSession(s)
      /\ UNCHANGED <<status, account, serial, hasRegistered, io, nextSerial>>
  BY DEF BeginDestroy, Unreferenced
<1>2. \A t \in Sessions : hasRegistered[t] => account[t] \in Accounts
  BY DEF RegistryInv, OneRegistration, AuthedStatus, WorldInv, GreetInv, OneGreeting
<1>3. \A t \in Sessions : OneRegistration(t)'
  BY <1>0, <1>1 DEF RegistryInv, OneRegistration
<1>4. ASSUME NEW b \in Taken, b = a => ~mine
      PROVE  sessions[b].sess \in Sessions \ {s} /\ SlotHeld(b)
  BY <1>0, <1>4 DEF RegistryInv, SlotHeld, Taken, Slots
<1>5. CASE ~mine
  <2>1. UNCHANGED <<sessions, playerCount>> /\ Taken' = Taken
    BY <1>1, <1>5 DEF UnregisterSession, Taken
  <2>2. \A b \in Taken' : SlotHeld(b)'
    BY <1>0, <1>1, <1>4, <1>5, <2>1 DEF SlotHeld, Expired
  <2>3. OneSessionPerAccount'
    BY <1>0, <1>1, <2>1 DEF RegistryInv, OneSessionPerAccount
  <2> QED
    BY <1>3, <2>1, <2>2, <2>3 DEF RegistryInv
<1>6. CASE mine
  <2>1. /\ sessions' = [sessions EXCEPT ![a] = NoSlot]
        /\ playerCount' = playerCount - 1
        /\ a \in Accounts
    BY <1>1, <1>2, <1>6 DEF UnregisterSession
  <2>2. Taken' = Taken \ {a} /\ a \in Taken
    BY <1>0, <1>6, <2>1 DEF Taken
  <2>3. IsFiniteSet(Taken') /\ playerCount' = Cardinality(Taken')
    BY <2>1, <2>2, FS_RemoveElement DEF RegistryInv
  <2>4. \A b \in Taken' : SlotHeld(b)'
    <3>1. ASSUME NEW b \in Taken'
          PROVE  sessions'[b] = sessions[b] /\ b \in Taken /\ b # a
      BY <1>0, <2>1, <2>2, <3>1 DEF Taken
    <3> QED
      BY <1>0, <1>1, <1>4, <3>1 DEF SlotHeld, Expired
  <2>5. OneSessionPerAccount'
    <3> SUFFICES ASSUME NEW t \in Sessions, life'[t] = "open", hasRegistered[t]
                 PROVE  \/ sessions'[account[t]] = [serial |-> serial[t], sess |-> t]
                        \/ [type |-> "kick"] \in ToSet(io[t])
      BY <1>1 DEF OneSessionPerAccount
    <3>1. t # s /\ life[t] = "open" /\ account[t] \in Accounts /\ serial[t] # serial[s]
      BY <1>0, <1>1, <1>2, <1>6 DEF RegistryInv, OneRegistration
    <3>2. \/ sessions[account[t]] = [serial |-> serial[t], sess |-> t]
          \/ [type |-> "kick"] \in ToSet(io[t])
      BY <3>1 DEF RegistryInv, OneSessionPerAccount
    <3>3. account[t] = a => sessions[a] # [serial |-> serial[t], sess |-> t]
      BY <1>6, <3>1
    <3> QED
      BY <1>0, <2>1, <3>1, <3>2, <3>3
  <2> QED
    BY <1>3, <2>3, <2>4, <2>5 DEF RegistryInv
<1> QED
  BY <1>5, <1>6

LEMMA StepKeepsRegistry ==
  ASSUME WorldInv, RegistryInv, [Next]_vars
  PROVE  RegistryInv'
<1>0. TypeOK
  BY DEF WorldInv, GreetInv
<1>1. CASE \E s \in Sessions : ServeIo(s)
  BY <1>0, <1>1, ServingLeavesRegistry, UntouchedKeepsRegistry, RegisteringKeepsRegistry
<1>2. CASE \E s \in Sessions : BeginDestroy(s)
  BY <1>2, DestroyKeepsRegistry
<1> QED
  BY <1>0, <1>1, <1>2, OthersLeaveRegistry, UntouchedKeepsRegistry DEF Next

LEMMA InitRegistry == Init => RegistryInv
<1> SUFFICES ASSUME Init PROVE RegistryInv
  OBVIOUS
<1>1. \A s \in Sessions : ~hasRegistered[s]
  BY DEF Init
<1>2. Taken = {} /\ playerCount = 0
  BY DEF Init, Taken
<1> QED
  BY <1>1, <1>2, FS_EmptySet DEF RegistryInv, OneRegistration, OneSessionPerAccount

LEMMA RegistryInvIsSound ==
  ASSUME RegistryInv, WorldInv
  PROVE  RegistrySound
<1>1. {a \in Accounts : sessions[a] # NoSlot} = Taken
  BY DEF Taken
<1>2. ASSUME NEW a \in Taken
      PROVE  LET s == sessions[a].sess IN
             /\ ~Expired(s) /\ account[s] = a /\ serial[s] = sessions[a].serial
             /\ status[s] \notin {"GATHER_SESSIONKEY", "GATHER_SESSIONKEY_PENDING",
                                   "SESSIONKEY_GATHERED", "SELECTING_CHARACTERS"}
  <2>1. SlotHeld(a) /\ sessions[a].sess \in Sessions
    BY DEF RegistryInv, Taken, WorldInv, GreetInv, TypeOK, RegistryTypeOK, Slots
  <2> QED
    BY <2>1 DEF SlotHeld, RegistryInv, OneRegistration, AuthedStatus
<1> QED
  BY <1>1, <1>2 DEF RegistrySound, RegistryInv, Taken

\* RegisterSession and UnregisterSession: the slot of an account is that of a
\* session which will free it, and playerCount counts the slots.
THEOREM RegistryCorrect == Spec => []RegistryInv
<1>1. WorldInv /\ RegistryInv /\ [Next]_vars => RegistryInv'
  BY StepKeepsRegistry
<1> QED
  BY <1>1, InitRegistry, WorldCorrect, PTL DEF Spec

\* The registry never points at a session that is destroyed, and m_playerCount
\* counts its slots, however kicks, new logins and destructors meet.
THEOREM RegistryIsSound == Spec => []RegistrySound
<1>1. RegistryInv /\ WorldInv => RegistrySound
  BY RegistryInvIsSound
<1> QED
  BY <1>1, RegistryCorrect, WorldCorrect, PTL

\* An account has at most one session that has not been told to close.
THEOREM OneUsableSession == Spec => []OneSessionPerAccount
<1>1. RegistryInv => OneSessionPerAccount
  BY DEF RegistryInv
<1> QED
  BY <1>1, RegistryCorrect, PTL

------------------------------------------------------------------------------
(* Nobody plays another account's character.                               *)

\* A step that sets no account and brings no foreign row, command or player.
OwnershipUntouched ==
  /\ UNCHANGED account
  /\ \A s \in Sessions :
       /\ GreetingDue(s)' => GreetingDue(s)
       /\ Holds(io'[s], ForeignRows) => Holds(io[s], ForeignRows)
  /\ Holds(cmds', ForeignSpawns) => Holds(cmds, ForeignSpawns)
  /\ \A p \in players' : p \in players \/ Owner[p.char] = account[p.sess]

LEMMA UntouchedKeepsOwnership ==
  ASSUME OwnershipInv, OwnershipUntouched
  PROVE  OwnershipInv'
<1>1. ForeignSpawns' = ForeignSpawns
  BY DEF OwnershipUntouched, ForeignSpawns
<1> QED
  BY <1>1 DEF OwnershipUntouched, OwnershipInv, PlayerOfOwnAccount

\* Messages and commands of other kinds are none of those.
LEMMA OtherKinds ==
  /\ \A m \in IoMsgs : m.type # "greetcode" => m \notin GreetMsgs
  /\ \A m \in IoMsgs : m.type # "enter" => m \notin ForeignRows
  /\ \A c \in WorldCmds : c.type # "spawn" => c \notin ForeignSpawns
  BY DEF GreetMsgs, ForeignRows, ForeignSpawns

LEMMA ReadingKeepsOwnership ==
  ASSUME WorldInv, OwnershipInv, NEW s \in Sessions, ReadPackets(s)
  PROVE  OwnershipInv'
<1>0. /\ QueuesTypeOK /\ requests \in [Sessions -> SUBSET Requests]
      /\ status \in [Sessions -> WorldSocketStatus] /\ playerGUID[s] \in Nat
  BY DEF WorldInv, GreetInv, TypeOK, QueuesTypeOK, SessionsTypeOK
<1>1. UNCHANGED <<account, io, players>>
  BY DEF ReadPackets, HandleGreetcode, HandleGreetPacket, HandleEnumCharacter, HandleEnterWorld,
         HandleExitWorld, HandlePlayerMovementUpdate, netVars, simVars
<1>2. \A t \in Sessions : GreetingDue(t)' => GreetingDue(t)
  <2>1. \A t \in Sessions :
          \/ status[t] = "GATHER_SESSIONKEY"
          \/ /\ status'[t] # "GATHER_SESSIONKEY"
             /\ [type |-> "greetcode"] \in requests'[t] => [type |-> "greetcode"] \in requests[t]
    BY <1>0 DEF ReadPackets, HandleGreetcode, HandleGreetPacket, HandleEnumCharacter,
         HandleEnterWorld, HandleExitWorld, DoExitWorld, HandlePlayerMovementUpdate, Ask, netVars
  <2> QED
    BY <1>1, <2>1 DEF GreetingDue
<1>3. Holds(cmds', ForeignSpawns) => Holds(cmds, ForeignSpawns)
  <2>1. \/ UNCHANGED cmds
        \/ \E k \in {"exit", "move"} : cmds' = Append(cmds, [type |-> k, sess |-> s, guid |-> playerGUID[s]])
    BY DEF ReadPackets, HandleGreetcode, HandleGreetPacket, HandleEnumCharacter,
         HandleEnterWorld, HandleExitWorld, DoExitWorld, HandlePlayerMovementUpdate
  <2>2. \A k \in {"exit", "move"} :
          /\ [type |-> k, sess |-> s, guid |-> playerGUID[s]] \in WorldCmds
          /\ [type |-> k, sess |-> s, guid |-> playerGUID[s]] \notin ForeignSpawns
    BY <1>0, OtherKinds DEF WorldCmds
  <2> QED
    BY <1>0, <2>1, <2>2, PostCmdEffect
<1> QED
  BY <1>1, <1>2, <1>3, UntouchedKeepsOwnership DEF OwnershipUntouched

LEMMA LifetimeKeepsOwnership ==
  ASSUME WorldInv, OwnershipInv, NEW s \in Sessions,
         \/ Accept(s) \/ Disconnect(s) \/ EndLateRead(s) \/ ProcessPlayerPacketsQueue(s)
         \/ BeginDestroy(s) \/ FinishDestroy(s) \/ \E r \in requests[s] : Respond(s, r)
  PROVE  OwnershipInv'
<1>0. /\ QueuesTypeOK /\ requests \in [Sessions -> SUBSET Requests]
      /\ status \in [Sessions -> WorldSocketStatus] /\ playerGUID[s] \in Nat
      /\ account \in [Sessions -> Accounts \cup {NoAccount}]
  BY DEF WorldInv, GreetInv, TypeOK, QueuesTypeOK, SessionsTypeOK
<1>1. CASE Accept(s) \/ Disconnect(s) \/ EndLateRead(s) \/ ProcessPlayerPacketsQueue(s) \/ BeginDestroy(s)
  <2>1. UNCHANGED <<account, status, requests, io, cmds, players>>
    BY <1>1 DEF Accept, Disconnect, EndLateRead, ProcessPlayerPacketsQueue, BeginDestroy,
       netVars, simVars
  <2> QED
    BY <2>1, UntouchedKeepsOwnership DEF OwnershipUntouched, GreetingDue
<1>2. CASE FinishDestroy(s)
  <2>1. UNCHANGED <<account, requests, io, players>>
    BY <1>2 DEF FinishDestroy, simVars
  <2>2. \A t \in Sessions : status'[t] = "GATHER_SESSIONKEY" => status[t] = "GATHER_SESSIONKEY"
    BY <1>0, <1>2 DEF FinishDestroy, DoExitWorld
  <2>3. Holds(cmds', ForeignSpawns) => Holds(cmds, ForeignSpawns)
    <3>1. UNCHANGED cmds \/ cmds' = Append(cmds, [type |-> "leave", guid |-> playerGUID[s]])
      BY <1>2 DEF FinishDestroy, DoExitWorld
    <3>2. /\ [type |-> "leave", guid |-> playerGUID[s]] \in WorldCmds
          /\ [type |-> "leave", guid |-> playerGUID[s]] \notin ForeignSpawns
      BY <1>0, OtherKinds DEF WorldCmds
    <3> QED
      BY <1>0, <3>1, <3>2, PostCmdEffect
  <2> QED
    BY <2>1, <2>2, <2>3, UntouchedKeepsOwnership DEF OwnershipUntouched, GreetingDue
<1>3. ASSUME NEW r \in requests[s], Respond(s, r)
      PROVE  OwnershipInv'
  <2>1. /\ r \in Requests /\ requests' = [requests EXCEPT ![s] = @ \ {r}]
        /\ UNCHANGED <<account, status, cmds, players>>
    BY <1>0, <1>3 DEF Respond, netVars, simVars
  <2>2. ASSUME NEW m \in Answers(r), Post(s, m)
        PROVE  /\ m \in IoMsgs /\ m \notin ForeignRows
               /\ m \in GreetMsgs => r = [type |-> "greetcode"]
    <3>1. m \in IoMsgs /\ m.type = r.type
      BY <2>1, <2>2, AnswersType DEF Answers, Requests
    <3>2. m \notin ForeignRows
      BY <2>1, <2>2, <3>1 DEF Answers, Requests, ForeignRows
    <3> QED
      BY <2>1, <3>1, <3>2 DEF GreetMsgs, Requests
  <2>3. \/ UNCHANGED io
        \/ \E m \in IoMsgs : /\ Post(s, m) /\ m \notin ForeignRows
                             /\ m \in GreetMsgs => r = [type |-> "greetcode"]
    BY <1>3, <2>2 DEF Respond
  <2>4. \A t \in Sessions :
          /\ Holds(io'[t], ForeignRows) => Holds(io[t], ForeignRows)
          /\ Holds(io'[t], GreetMsgs) =>
               Holds(io[t], GreetMsgs) \/ (t = s /\ r = [type |-> "greetcode"])
    BY <1>0, <2>3, PostEffect
  <2>5. \A t \in Sessions : GreetingDue(t)' => GreetingDue(t)
    BY <1>0, <1>3, <2>1, <2>4 DEF GreetingDue
  <2> QED
    BY <2>1, <2>4, <2>5, UntouchedKeepsOwnership DEF OwnershipUntouched
<1> QED
  BY <1>1, <1>2, <1>3

LEMMA ServingKeepsOwnership ==
  ASSUME WorldInv, OwnershipInv, NEW s \in Sessions, ServeIo(s)
  PROVE  OwnershipInv'
<1> DEFINE m == Head(io[s])
<1>0. /\ TypeOK /\ QueuesTypeOK /\ io \in [Sessions -> Seq(IoMsgs)]
      /\ status \in [Sessions -> WorldSocketStatus]
      /\ account \in [Sessions -> Accounts \cup {NoAccount}]
  BY DEF WorldInv, GreetInv, TypeOK, QueuesTypeOK, SessionsTypeOK
<1>1. /\ UNCHANGED <<players, requests>>
      /\ \A t \in Sessions : status'[t] = "GATHER_SESSIONKEY" => status[t] = "GATHER_SESSIONKEY"
  BY <1>0 DEF ServeIo, ServeKick, ServeGreetcode, ServeEnum, ServeEnter, ServeSpawned, ServeLeft,
     BackToAuthed, simVars
<1>2. ASSUME NEW h, IoHead(s, h), io' = IoRest(s)
      PROVE  /\ m \in IoMsgs /\ m.type = h
             /\ m \in GreetMsgs => Holds(io[s], GreetMsgs) /\ ~Holds(io'[s], GreetMsgs)
             /\ m \in ForeignRows => Holds(io[s], ForeignRows)
             /\ \A t \in Sessions :
                  /\ Holds(io'[t], GreetMsgs) => Holds(io[t], GreetMsgs)
                  /\ Holds(io'[t], ForeignRows) => Holds(io[t], ForeignRows)
  <2>1. Once(io[s], GreetMsgs)
    BY DEF WorldInv, GreetInv, OneGreeting
  <2> QED
    BY <1>0, <1>2, <2>1, TakeEffect
<1>3. CASE ServeKick(s) \/ ServeLeft(s)
  <2>1. UNCHANGED <<account, cmds>> /\ io' = IoRest(s) /\ \E h : IoHead(s, h)
    BY <1>3 DEF ServeKick, ServeLeft
  <2> QED
    BY <1>1, <1>2, <2>1, UntouchedKeepsOwnership DEF OwnershipUntouched, GreetingDue
<1>4. CASE ServeEnum(s)
  <2>1. \A t \in Sessions :
          /\ Holds(io'[t], GreetMsgs) => Holds(io[t], GreetMsgs)
          /\ Holds(io'[t], ForeignRows) => Holds(io[t], ForeignRows)
    <3>1. m \notin GreetMsgs /\ m \notin ForeignRows
      BY <1>0, <1>4, ServeEnumEffect, OtherKinds
    <3>2. [type |-> "kick"] \notin GreetMsgs /\ [type |-> "kick"] \notin ForeignRows
      BY DEF GreetMsgs, ForeignRows
    <3> QED
      BY <1>0, <1>4, <3>1, <3>2, ServeEnumEffect
  <2>2. UNCHANGED <<account, cmds>>
    BY <1>4 DEF ServeEnum
  <2> QED
    BY <1>1, <2>1, <2>2, UntouchedKeepsOwnership DEF OwnershipUntouched, GreetingDue
<1>5. CASE ServeSpawned(s)
  <2>1. /\ UNCHANGED account /\ io' = IoRest(s) /\ IoHead(s, "spawned")
        /\ UNCHANGED cmds \/ cmds' = Append(cmds, [type |-> "rollback", guid |-> m.guid])
    BY <1>5 DEF ServeSpawned, PostSpawnRollback
  <2>2. [type |-> "rollback", guid |-> m.guid] \in WorldCmds \ ForeignSpawns
    BY <1>2, <2>1, OtherKinds DEF IoMsgs, WorldCmds
  <2>3. Holds(cmds', ForeignSpawns) => Holds(cmds, ForeignSpawns)
    BY <1>0, <2>1, <2>2, PostCmdEffect
  <2> QED
    BY <1>1, <1>2, <2>1, <2>3, UntouchedKeepsOwnership DEF OwnershipUntouched, GreetingDue
<1>6. CASE ServeEnter(s)
  <2>1. /\ UNCHANGED account /\ io' = IoRest(s) /\ IoHead(s, "enter")
        /\ \/ UNCHANGED cmds
           \/ /\ m.row = account[s]
              /\ cmds' = Append(cmds, [type |-> "spawn", sess |-> s, char |-> m.char])
    BY <1>6 DEF ServeEnter, OwnRow
  <2>2. m.char \in Chars /\ m.row \in {Owner[m.char], NoAccount}
    <3>1. m \in IoMsgs /\ m.type = "enter" /\ m \notin ForeignRows
      BY <1>2, <2>1 DEF OwnershipInv
    <3>2. m.row \in {Owner[m.char], NoAccount}
      BY <3>1 DEF ForeignRows
    <3>3. ASSUME NEW x \in IoMsgs, x.type = "enter"
          PROVE  x.char \in Chars
      BY <3>3 DEF IoMsgs
    <3> QED
      BY <3>1, <3>2, <3>3
  <2>3. account[s] \in Accounts
    BY <2>1, AnsweredStatus DEF Entering, WorldInv, GreetInv, OneGreeting
  <2>4. m.row = account[s] => [type |-> "spawn", sess |-> s, char |-> m.char] \in WorldCmds \ ForeignSpawns
    BY <2>2, <2>3, NoAccountAssumption DEF WorldCmds, ForeignSpawns
  <2>5. Holds(cmds', ForeignSpawns) => Holds(cmds, ForeignSpawns)
    BY <1>0, <2>1, <2>4, PostCmdEffect
  <2> QED
    BY <1>1, <1>2, <2>1, <2>5, UntouchedKeepsOwnership DEF OwnershipUntouched, GreetingDue
<1>7. CASE ServeGreetcode(s)
  <2>1. /\ io' = IoRest(s) /\ IoHead(s, "greetcode") /\ UNCHANGED cmds
        /\ \A t \in Sessions : t # s => account'[t] = account[t]
    BY <1>0, <1>7 DEF ServeGreetcode
  <2>2. m \in GreetMsgs /\ Holds(io[s], GreetMsgs) /\ ~Holds(io'[s], GreetMsgs)
    BY <1>2, <2>1 DEF GreetMsgs
  <2>3. /\ account[s] = NoAccount
        /\ status[s] = "GATHER_SESSIONKEY_PENDING" /\ [type |-> "greetcode"] \notin requests[s]
    BY <2>2 DEF OwnershipInv, GreetingDue, WorldInv, GreetInv, OneGreeting
  <2>4. ~GreetingDue(s)'
    BY <1>1, <2>2, <2>3 DEF GreetingDue
  <2>5. \A t \in Sessions : t # s => (GreetingDue(t)' => GreetingDue(t))
    BY <1>1, <1>2, <2>1 DEF GreetingDue
  <2>6. \A c \in Chars : Owner[c] # NoAccount
    BY OwnerAssumption, NoAccountAssumption
  <2>7. ~Holds(cmds', ForeignSpawns')
    <3>1. \A c \in WorldCmds : c \in ForeignSpawns' => c \in ForeignSpawns
      <4> SUFFICES ASSUME NEW c \in WorldCmds, c \in ForeignSpawns'
                   PROVE  c \in ForeignSpawns
        OBVIOUS
      <4>1. c.type = "spawn" /\ c.char \in Chars /\ c.sess \in Sessions
        BY DEF ForeignSpawns, WorldCmds
      <4> QED
        BY <2>1, <2>3, <2>6, <4>1 DEF ForeignSpawns
    <3> QED
      BY <2>1, <3>1 DEF OwnershipInv, Holds, ForeignSpawns
  <2>8. PlayerOfOwnAccount'
    <3>1. \A p \in players : p.char \in Chars /\ p.sess \in Sessions
      BY <1>0 DEF TypeOK, SimulationTypeOK, Entities
    <3> QED
      BY <1>1, <2>1, <2>3, <2>6, <3>1 DEF OwnershipInv, PlayerOfOwnAccount
  <2> QED
    BY <1>2, <2>1, <2>4, <2>5, <2>7, <2>8 DEF OwnershipInv
<1> QED
  BY <1>3, <1>4, <1>5, <1>6, <1>7 DEF ServeIo

LEMMA SimulationKeepsOwnership ==
  ASSUME WorldInv, OwnershipInv, ExecuteWorldCmd \/ ZoneUpdate
  PROVE  OwnershipInv'
<1>0. TypeOK /\ QueuesTypeOK
  BY DEF WorldInv, GreetInv, TypeOK
<1>1. UNCHANGED <<account, requests, status>>
  BY DEF ExecuteWorldCmd, ExecSpawn, ExecExit, ExecDespawn, ExecMove, ZoneUpdate, netVars
<1>2. \/ UNCHANGED io
      \/ \E s \in Sessions : \E m \in IoMsgs : m.type \in {"spawned", "left"} /\ Post(s, m)
  <2>1. CASE ExecSpawn
    <3>1. Head(cmds).sess \in Sessions /\ nextGuid \in Nat
      BY <1>0, <2>1, CmdHeadType DEF ExecSpawn, CmdHead, WorldCmds, TypeOK, SimulationTypeOK
    <3>2. \A ok \in BOOLEAN, g \in Nat : [type |-> "spawned", ok |-> ok, guid |-> g] \in IoMsgs
      BY DEF IoMsgs
    <3> QED
      BY <2>1, <3>1, <3>2 DEF ExecSpawn
  <2>2. CASE ExecExit
    <3>1. Head(cmds).sess \in Sessions
      BY <1>0, <2>2, CmdHeadType DEF ExecExit, CmdHead, WorldCmds
    <3>2. [type |-> "left"] \in IoMsgs
      BY DEF IoMsgs
    <3> QED
      BY <2>2, <3>1, <3>2 DEF ExecExit
  <2> QED
    BY <2>1, <2>2 DEF ExecuteWorldCmd, ExecDespawn, ExecMove, ZoneUpdate
<1>3. \A s \in Sessions :
        /\ Holds(io'[s], GreetMsgs) => Holds(io[s], GreetMsgs)
        /\ Holds(io'[s], ForeignRows) => Holds(io[s], ForeignRows)
  BY <1>0, <1>2, PostEffect, OtherKinds
<1>4. \/ UNCHANGED cmds
      \/ cmds' = Tail(cmds) /\ \E h : CmdHead(h)
  BY DEF ExecuteWorldCmd, ExecSpawn, ExecExit, ExecDespawn, ExecMove, ZoneUpdate
<1>5. Holds(cmds', ForeignSpawns) => Holds(cmds, ForeignSpawns)
  BY <1>0, <1>4, TakeCmdEffect
<1>6. \A p \in players' : p \in players \/ Owner[p.char] = account[p.sess]
  <2>1. CASE ExecSpawn
    <3> DEFINE cmd == Head(cmds)
    <3>1. cmd \in WorldCmds /\ cmd.type = "spawn" /\ cmd \notin ForeignSpawns
      <4>1. CmdHead("spawn") /\ cmds' = Tail(cmds)
        BY <2>1 DEF ExecSpawn
      <4> QED
        BY <1>0, <4>1, TakeCmdEffect DEF OwnershipInv
    <3>2. Owner[cmd.char] = account[cmd.sess]
      BY <3>1 DEF ForeignSpawns
    <3>3. \/ players' = players
          \/ players' = players \cup {[guid |-> nextGuid, char |-> cmd.char, sess |-> cmd.sess]}
      BY <2>1 DEF ExecSpawn, simVars
    <3> HIDE DEF cmd
    <3> QED
      BY <3>2, <3>3
  <2>2. CASE ExecExit \/ ExecDespawn
    BY <2>2 DEF ExecExit, ExecDespawn, Despawn
  <2> QED
    BY <2>1, <2>2 DEF ExecuteWorldCmd, ExecMove, ZoneUpdate, simVars
<1> QED
  BY <1>1, <1>3, <1>5, <1>6, UntouchedKeepsOwnership DEF OwnershipUntouched, GreetingDue

LEMMA StepKeepsOwnership ==
  ASSUME WorldInv, OwnershipInv, [Next]_vars
  PROVE  OwnershipInv'
<1>1. CASE UNCHANGED vars
  <2>1. UNCHANGED <<account, status, requests, io, cmds, players>>
    BY <1>1 DEF vars, netVars, simVars
  <2> QED
    BY <2>1, UntouchedKeepsOwnership DEF OwnershipUntouched, GreetingDue
<1>2. CASE Next
  BY <1>2, ReadingKeepsOwnership, ServingKeepsOwnership, SimulationKeepsOwnership,
     LifetimeKeepsOwnership DEF Next
<1> QED
  BY <1>1, <1>2

\* The account of a session is set once, before anything that was checked
\* against it, so no spawn of a foreign character is ever under way.
THEOREM OwnershipCorrect == Spec => []OwnershipInv
<1>1. Init => OwnershipInv
  BY DEF Init, OwnershipInv, GreetingDue, Holds, PlayerOfOwnAccount
<1>2. WorldInv /\ OwnershipInv /\ [Next]_vars => OwnershipInv'
  BY StepKeepsOwnership
<1> QED
  BY <1>1, <1>2, WorldCorrect, PTL DEF Spec

\* A player entity belongs to the account of the session that spawned it.
THEOREM OwnCharactersOnly == Spec => []PlayerOfOwnAccount
<1>1. OwnershipInv => PlayerOfOwnAccount
  BY DEF OwnershipInv
<1> QED
  BY <1>1, OwnershipCorrect, PTL

------------------------------------------------------------------------------
(* WorldSessions implements WorldPresence.  What a client knows changes    *)
(* with its own session's status and socket; who is in the world, with the *)
(* simulation's indexes.                                                   *)

PhaseMap  == [s \in Sessions |-> Phase(s)]
AvatarMap == [c \in Chars |-> AvatarOf(c)]

\* A session's client changes what it knows, as WorldPresence lets it.
ClientStep(s) ==
  \/ Phase(s)' = Phase(s)
  \/ Phase(s) # "gone" /\ Phase(s)' = "gone"
  \/ Phase(s) = "out" /\ Phase(s)' = "entering"
  \/ Phase(s) = "entering" /\ Phase(s)' = "in" /\ (\E p \in players : p.sess = s)
  \/ Phase(s) = "in" /\ Phase(s)' = "leaving"
  \/ /\ Phase(s) \in {"entering", "leaving"} /\ Phase(s)' = "out"
     /\ \A p \in players : p.sess # s

PhaseUntouched(s) == life'[s] = life[s] /\ status'[s] = status[s]

\* The simulation's indexes tell whose each character is.
LEMMA AvatarFacts ==
  ASSUME TypeOK, IndexesAgree
  PROVE  /\ \A p \in players : p.char \in Chars /\ p.sess \in Sessions /\ AvatarOf(p.char) = p.sess
         /\ \A c \in Chars : (\A p \in players : p.char # c) => AvatarOf(c) = Nobody
<1>1. \A p \in players : p.char \in Chars /\ p.sess \in Sessions
  BY DEF TypeOK, SimulationTypeOK, Entities
<1>2. ASSUME NEW p \in players
      PROVE  AvatarOf(p.char) = p.sess
  <2>1. {q \in players : q.char = p.char /\ q.guid = charIdToGuid[p.char]} = {p}
    BY DEF IndexesAgree
  <2> QED
    BY <2>1 DEF AvatarOf
<1>3. ASSUME NEW c \in Chars, \A p \in players : p.char # c
      PROVE  AvatarOf(c) = Nobody
  <2>1. {q \in players : q.char = c /\ q.guid = charIdToGuid[c]} = {}
    BY <1>3
  <2> QED
    BY <2>1 DEF AvatarOf
<1> QED
  BY <1>1, <1>2, <1>3

\* The same of the next state.
LEMMA AvatarFactsNext ==
  ASSUME TypeOK', IndexesAgree'
  PROVE  /\ \A p \in players' : AvatarOf(p.char)' = p.sess
         /\ \A c \in Chars : (\A p \in players' : p.char # c) => AvatarOf(c)' = Nobody
<1>2. ASSUME NEW p \in players'
      PROVE  AvatarOf(p.char)' = p.sess
  <2>1. {q \in players' : q.char = p.char /\ q.guid = charIdToGuid'[p.char]} = {p}
    BY DEF IndexesAgree
  <2> QED
    BY <2>1 DEF AvatarOf
<1>3. ASSUME NEW c \in Chars, \A p \in players' : p.char # c
      PROVE  AvatarOf(c)' = Nobody
  <2>1. {q \in players' : q.char = c /\ q.guid = charIdToGuid'[c]} = {}
    BY <1>3
  <2> QED
    BY <2>1 DEF AvatarOf
<1> QED
  BY <1>2, <1>3

LEMMA AbsentMeans ==
  ASSUME TypeOK, IndexesAgree, NEW s \in Sessions
  PROVE  Presence!Absent(s) <=> \A p \in players : p.sess # s
<1>1. ASSUME NEW c \in Chars, AvatarOf(c) = s
      PROVE  \E p \in players : p.sess = s
  <2>1. PICK p \in players : p.char = c
    BY <1>1, AvatarFacts, NobodyAssumption
  <2> QED
    BY <1>1, <2>1, AvatarFacts
<1>2. Presence!Absent(s) <=> \A c \in Chars : AvatarOf(c) # s
  BY DEF Presence!Absent
<1> QED
  BY <1>1, <1>2, AvatarFacts

\* A step that leaves the players alone and one session's client moves.
LEMMA ClientMoves ==
  ASSUME TypeOK, IndexesAgree, NEW s \in Sessions, UNCHANGED <<players, charIdToGuid>>,
         \A t \in Sessions : t # s => PhaseUntouched(t), ClientStep(s)
  PROVE  [Presence!Next]_(Presence!vars)
<1>1. AvatarMap' = AvatarMap
  BY DEF AvatarMap, AvatarOf
<1>2. \A t \in Sessions : t # s => Phase(t)' = Phase(t)
  BY DEF PhaseUntouched, Phase
<1>3. PhaseMap' = [PhaseMap EXCEPT ![s] = Phase(s)']
  BY <1>2 DEF PhaseMap
<1>4. Phase(s) \in {"out", "entering", "in", "leaving", "gone"} /\ PhaseMap[s] = Phase(s)
  BY DEF Phase, PhaseMap
<1>5. Presence!Absent(s) <=> \A p \in players : p.sess # s
  BY AbsentMeans
<1>6. CASE Phase(s)' = Phase(s)
  <2>1. PhaseMap' = PhaseMap
    BY <1>2, <1>6 DEF PhaseMap
  <2> QED
    BY <1>1, <2>1 DEF Presence!vars, PhaseMap, AvatarMap
<1>7. CASE Phase(s)' # Phase(s)
  <2>1. \A from, to : Phase(s) \in from /\ Phase(s)' = to => Presence!Move(s, from, to)
    BY <1>3, <1>4 DEF Presence!Move, PhaseMap
  <2>2. UNCHANGED [c \in Chars |-> AvatarOf(c)]
    BY <1>1 DEF AvatarMap
  <2>3. \/ Presence!Lose(s) \/ Presence!Request(s) \/ Presence!Confirm(s)
        \/ Presence!Leave(s) \/ Presence!Reject(s) \/ Presence!Left(s)
    BY <1>4, <1>5, <1>7, <2>1, <2>2
       DEF ClientStep, Presence!Lose, Presence!Request, Presence!Confirm, Presence!Leave,
           Presence!Reject, Presence!Left
  <2> QED
    BY <2>3 DEF Presence!Next
<1> QED
  BY <1>6, <1>7

\* A step of the simulation changes what no client knows.
LEMMA NobodyMoves ==
  ASSUME UNCHANGED <<life, status>>
  PROVE  PhaseMap' = PhaseMap
  BY DEF PhaseMap, Phase

LEMMA ReadingImplements ==
  ASSUME WorldInv, NEW s \in Sessions, ReadPackets(s)
  PROVE  [Presence!Next]_(Presence!vars)
<1>1. /\ TypeOK /\ IndexesAgree /\ life \in [Sessions -> Lives]
      /\ status \in [Sessions -> WorldSocketStatus]
  BY DEF WorldInv, GreetInv, TypeOK, SessionsTypeOK
<1>2. UNCHANGED simVars
  BY DEF ReadPackets, HandleGreetcode, HandleGreetPacket, HandleEnumCharacter, HandleEnterWorld,
     HandleExitWorld, HandlePlayerMovementUpdate
<1>3. CASE \/ HandleGreetcode(s) \/ HandleGreetPacket(s) \/ HandleEnumCharacter(s)
           \/ \E c \in Chars : HandleEnterWorld(s, c)
  <2>1. \A t \in Sessions : t # s => PhaseUntouched(t)
    BY <1>1, <1>3 DEF PhaseUntouched, HandleGreetcode, HandleGreetPacket, HandleEnumCharacter,
       HandleEnterWorld, CloseInReader
  <2>2. ClientStep(s)
    BY <1>1, <1>3 DEF ClientStep, Phase, CanRead, HandleGreetcode, HandleGreetPacket,
       HandleEnumCharacter, HandleEnterWorld, CloseInReader
  <2> QED
    BY <1>1, <1>2, <2>1, <2>2, ClientMoves DEF simVars
<1>4. CASE HandleExitWorld(s)
  <2>1. playerGUID[s] # 0
    BY <1>4 DEF HandleExitWorld, WorldInv, OwnsInside
  <2>2. (\A t \in Sessions : t # s => PhaseUntouched(t)) /\ ClientStep(s)
    BY <1>1, <1>4, <2>1 DEF PhaseUntouched, ClientStep, Phase, CanRead, HandleExitWorld, DoExitWorld
  <2> QED
    BY <1>1, <1>2, <2>2, ClientMoves DEF simVars
<1>5. CASE HandlePlayerMovementUpdate(s)
  <2>1. (\A t \in Sessions : t # s => PhaseUntouched(t)) /\ ClientStep(s)
    BY <1>5 DEF PhaseUntouched, ClientStep, Phase, HandlePlayerMovementUpdate, netVars
  <2> QED
    BY <1>1, <1>2, <2>1, ClientMoves DEF simVars
<1> QED
  BY <1>3, <1>4, <1>5 DEF ReadPackets

\* A session that asked to enter or to leave and is told "out" has no player.
LEMMA TakenOut ==
  ASSUME WorldInv, NEW s \in Sessions, NEW h, IoHead(s, h), life[s] = "open",
         \/ h = "enter"
         \/ h = "spawned" /\ ~Head(io[s]).ok
         \/ h = "left"
  PROVE  \A p \in players : p.sess # s
<1> DEFINE m == Head(io[s])
<1> SUFFICES ASSUME NEW p \in players, p.sess = s
             PROVE  FALSE
  OBVIOUS
<1>1. /\ m \in IoMsgs /\ m.type = h
      /\ io[s] \in Seq(IoMsgs) /\ io[s] # <<>>
  BY IoHeadType DEF IoHead, WorldInv, GreetInv, TypeOK, QueuesTypeOK
<1>2. InCustody(p) /\ p.guid \in Nat
  BY DEF WorldInv, GreetInv, TypeOK, SimulationTypeOK, Entities
<1>3. CASE h \in {"enter", "spawned"}
  <2>1. Entering(s) /\ ~Inside(s)
    BY <1>3, AnsweredStatus DEF Entering, Inside
  <2>2. SpawnResultPending(s, p.guid)
    BY <1>2, <2>1 DEF InCustody
  <2>3. PICK i \in DOMAIN io[s] : io[s][i] = [type |-> "spawned", ok |-> TRUE, guid |-> p.guid]
    BY <2>2 DEF SpawnResultPending, Holds
  <2>4. io[s][i] \in EnterMsgs
    BY <1>2, <2>3 DEF EnterMsgs, IoMsgs
  <2>5. 1 \in DOMAIN io[s] /\ m = io[s][1] /\ m \in EnterMsgs
    BY <1>1, <1>3, TailPositions DEF EnterMsgs
  <2>6. i = 1
    BY <2>4, <2>5 DEF WorldInv, OneEntry, Once
  <2> QED
    BY <1>1, <1>3, <2>3, <2>5, <2>6
<1>4. CASE h = "left"
  <2>1. ~Entering(s)
    BY <1>4, AnsweredStatus DEF Entering
  <2>2. m \in LeftMsgs
    BY <1>1, <1>4 DEF LeftMsgs
  <2>3. Holds(io[s], LeftMsgs)
    BY <1>1, <2>2, HoldsTail
  <2> QED
    BY <1>2, <2>1, <2>3 DEF InCustody
<1> QED
  BY <1>3, <1>4

LEMMA ServingImplements ==
  ASSUME WorldInv, NEW s \in Sessions, ServeIo(s)
  PROVE  [Presence!Next]_(Presence!vars)
<1> DEFINE m == Head(io[s])
<1>1. /\ TypeOK /\ IndexesAgree /\ life \in [Sessions -> Lives]
      /\ status \in [Sessions -> WorldSocketStatus]
  BY DEF WorldInv, GreetInv, TypeOK, SessionsTypeOK
<1>2. UNCHANGED simVars
  BY DEF ServeIo, ServeKick, ServeGreetcode, ServeEnum, ServeEnter, ServeSpawned, ServeLeft
<1>3. \A t \in Sessions : t # s => PhaseUntouched(t)
  BY <1>1 DEF PhaseUntouched, ServeIo, ServeKick, ServeGreetcode, ServeEnum, ServeEnter,
     ServeSpawned, ServeLeft, Close, BackToAuthed
<1>4. CASE ServeKick(s)
  BY <1>1, <1>2, <1>3, <1>4, ClientMoves DEF ServeKick, Close, ClientStep, Phase, simVars
<1>5. CASE ServeGreetcode(s)
  <2>1. m \in IoMsgs /\ m.type = "greetcode"
    BY <1>1, <1>5, IoHeadType DEF ServeGreetcode, IoHead, TypeOK
  <2>2. io[s] \in Seq(IoMsgs) /\ io[s] # <<>> /\ m \in GreetMsgs
    BY <1>1, <1>5, <2>1 DEF ServeGreetcode, IoHead, TypeOK, QueuesTypeOK, GreetMsgs
  <2>3. status[s] = "GATHER_SESSIONKEY_PENDING"
    BY <2>2, HoldsTail DEF WorldInv, GreetInv, OneGreeting
  <2>4. ClientStep(s)
    BY <1>1, <1>5, <2>3 DEF ServeGreetcode, Close, ClientStep, Phase
  <2> QED
    BY <1>1, <1>2, <1>3, <2>4, ClientMoves DEF simVars
<1>6. CASE ServeEnum(s)
  <2>1. ClientStep(s)
    BY <1>1, <1>6 DEF ServeEnum, FirstList, Close, ClientStep, Phase
  <2> QED
    BY <1>1, <1>2, <1>3, <2>1, ClientMoves DEF simVars
<1>7. CASE ServeEnter(s)
  <2>1. IoHead(s, "enter") /\ Entering(s)
    BY <1>7, AnsweredStatus DEF ServeEnter
  <2>2. life[s] = "open" => \A p \in players : p.sess # s
    BY <2>1, TakenOut
  <2>3. ClientStep(s)
    BY <1>1, <1>7, <2>1, <2>2 DEF ServeEnter, BackToAuthed, Close, ClientStep, Phase, Entering
  <2> QED
    BY <1>1, <1>2, <1>3, <2>3, ClientMoves DEF simVars
<1>8. CASE ServeSpawned(s)
  <2>1. IoHead(s, "spawned") /\ Entering(s) /\ m \in IoMsgs /\ m.type = "spawned"
    BY <1>1, <1>8, AnsweredStatus, IoHeadType DEF ServeSpawned, IoHead, TypeOK
  <2>2. life[s] = "open" /\ ~m.ok => \A p \in players : p.sess # s
    BY <2>1, TakenOut
  <2>3. m.ok => \E p \in players : p.sess = s
    <3> SUFFICES ASSUME m.ok PROVE \E p \in players : p.sess = s
      OBVIOUS
    <3>1. m = [type |-> "spawned", ok |-> TRUE, guid |-> m.guid] /\ m \in Spawned
      BY <2>1 DEF IoMsgs, Spawned
    <3>2. io[s] \in Seq(IoMsgs) /\ io[s] # <<>>
      BY <1>1, <2>1 DEF IoHead, TypeOK, QueuesTypeOK
    <3>3. \A M : m \in M => Holds(io[s], M)
      BY <3>2, HoldsTail
    <3>4. m.guid \in Issued
      BY <3>1, <3>3 DEF WorldInv, GuidsIssued
    <3>5. SpawnResultPending(s, m.guid)
      BY <3>1, <3>3 DEF SpawnResultPending
    <3> QED
      BY <3>4, <3>5 DEF WorldInv, Confirmed, Settled
  <2>4. ClientStep(s)
    BY <1>1, <1>8, <2>1, <2>2, <2>3 DEF ServeSpawned, BackToAuthed, ClientStep, Phase, Entering
  <2> QED
    BY <1>1, <1>2, <1>3, <2>4, ClientMoves DEF simVars
<1>9. CASE ServeLeft(s)
  <2>1. IoHead(s, "left") /\ status[s] = "LEAVING_WORLD"
    BY <1>9, AnsweredStatus DEF ServeLeft
  <2>2. life[s] = "open" => \A p \in players : p.sess # s
    BY <2>1, TakenOut
  <2>3. ClientStep(s)
    BY <1>1, <1>9, <2>1, <2>2 DEF ServeLeft, BackToAuthed, Close, ClientStep, Phase
  <2> QED
    BY <1>1, <1>2, <1>3, <2>3, ClientMoves DEF simVars
<1> QED
  BY <1>4, <1>5, <1>6, <1>7, <1>8, <1>9 DEF ServeIo

LEMMA LifetimeImplements ==
  ASSUME WorldInv, NEW s \in Sessions,
         \/ Accept(s) \/ Disconnect(s) \/ EndLateRead(s) \/ ProcessPlayerPacketsQueue(s)
         \/ BeginDestroy(s) \/ FinishDestroy(s)
         \/ \E r \in requests[s] : Respond(s, r)
  PROVE  [Presence!Next]_(Presence!vars)
<1>1. /\ TypeOK /\ IndexesAgree /\ life \in [Sessions -> Lives]
      /\ status \in [Sessions -> WorldSocketStatus]
  BY DEF WorldInv, GreetInv, TypeOK, SessionsTypeOK
<1>2. UNCHANGED simVars /\ \A t \in Sessions : t # s => PhaseUntouched(t)
  BY <1>1 DEF PhaseUntouched, Accept, Disconnect, EndLateRead, ProcessPlayerPacketsQueue,
     BeginDestroy, FinishDestroy, DoExitWorld, Respond, Close, CloseInReader, netVars
<1>3. life[s] = "none" => ~Entering(s) /\ ~Inside(s)
  BY DEF WorldInv, OwnsInside
<1>4. CASE Accept(s)
  BY <1>1, <1>2, <1>3, <1>4, ClientMoves DEF Accept, ClientStep, Phase, Entering, Inside, simVars
<1>5. CASE Disconnect(s) \/ EndLateRead(s)
  BY <1>1, <1>2, <1>5, ClientMoves
     DEF Disconnect, EndLateRead, Close, CloseInReader, ClientStep, Phase, simVars
<1>6. CASE BeginDestroy(s) \/ FinishDestroy(s)
  BY <1>1, <1>2, <1>6, ClientMoves
     DEF BeginDestroy, FinishDestroy, DoExitWorld, Unreferenced, ClientStep, Phase, simVars
<1>7. CASE ProcessPlayerPacketsQueue(s) \/ \E r \in requests[s] : Respond(s, r)
  BY <1>1, <1>2, <1>7, ClientMoves
     DEF ProcessPlayerPacketsQueue, Respond, ClientStep, Phase, netVars, simVars
<1> QED
  BY <1>4, <1>5, <1>6, <1>7

\* A spawn puts the character there for a client that waits for it, or is gone.
LEMMA SpawnImplements ==
  ASSUME WorldInv, [Next]_vars, ExecSpawn
  PROVE  [Presence!Next]_(Presence!vars)
<1>1. /\ TypeOK /\ IndexesAgree /\ TypeOK' /\ IndexesAgree'
      /\ life \in [Sessions -> Lives]
  BY StepKeepsSim DEF WorldInv, GreetInv, TypeOK, SessionsTypeOK
<1>2. UNCHANGED <<life, status>>
  BY DEF ExecSpawn, netVars
<1>3. Head(cmds) \in WorldCmds /\ Head(cmds).type = "spawn" /\ cmds \in Seq(WorldCmds) /\ cmds # <<>>
  BY <1>1, CmdHeadType DEF ExecSpawn, CmdHead, TypeOK, QueuesTypeOK
<1>a. PICK s \in Sessions, c \in Chars : s = Head(cmds).sess /\ c = Head(cmds).char
  BY <1>3 DEF WorldCmds
<1> DEFINE e == [guid |-> nextGuid, char |-> c, sess |-> s]
<1>4. s \in Sessions /\ c \in Chars /\ Head(cmds) \in SpawnsOf(s)
  BY <1>3, <1>a DEF SpawnsOf
<1>5. Holds(cmds, SpawnsOf(s))
  BY <1>3, <1>4, HoldsTail
<1>6. CASE UNCHANGED <<players, charIdToGuid>>
  <2>1. (\A t \in Sessions : PhaseUntouched(t)) /\ ClientStep(s)
    BY <1>2 DEF PhaseUntouched, ClientStep, Phase
  <2> QED
    BY <1>1, <1>4, <1>6, <2>1, ClientMoves
<1>7. CASE charIdToGuid[c] = 0 /\ players' = players \cup {e}
  <2>1. Entering(s) /\ life[s] # "none"
    BY <1>4, <1>5 DEF WorldInv, OneEntry, OwnsInside
  <2>2. PhaseMap[s] \in {"entering", "gone"}
    BY <1>1, <1>4, <2>1 DEF PhaseMap, Phase, Entering
  <2>3. \A p \in players : p.char # c
    BY <1>1, <1>7 DEF IndexesAgree, WorldInv, GuidsIssued, Issued
  <2>4. AvatarMap[c] = Nobody
    BY <1>1, <1>4, <2>3, AvatarFacts DEF AvatarMap
  <2>5. \A p \in players : p.sess # s
    BY <1>5, CustodyFacts
  <2>6. Presence!Absent(s)
    BY <1>1, <1>4, <2>5, AbsentMeans
  <2>7. AvatarOf(c)' = s
    BY <1>1, <1>7, AvatarFactsNext
  <2>8. ASSUME NEW d \in Chars, d # c
        PROVE  AvatarOf(d)' = AvatarOf(d)
    <3>1. CASE \E p \in players : p.char = d
      BY <1>1, <1>7, <3>1, AvatarFacts, AvatarFactsNext
    <3>2. CASE \A p \in players : p.char # d
      <4>1. \A p \in players' : p.char # d
        BY <1>7, <2>8, <3>2
      <4> QED
        BY <1>1, <3>2, <4>1, AvatarFacts, AvatarFactsNext
    <3> QED
      BY <3>1, <3>2
  <2>9. AvatarMap' = [AvatarMap EXCEPT ![c] = s]
    BY <1>4, <2>7, <2>8 DEF AvatarMap
  <2>10. PhaseMap' = PhaseMap
    BY <1>2, NobodyMoves
  <2>11. Presence!Appear(s, c)
    BY <2>2, <2>4, <2>6, <2>9, <2>10 DEF Presence!Appear, PhaseMap, AvatarMap
  <2> QED
    BY <1>4, <2>11 DEF Presence!Next
<1> QED
  BY <1>6, <1>7, <1>a DEF ExecSpawn, simVars, AddEntityToZone

\* A despawn takes away a leaving or lost client's character, or none.
LEMMA DespawnImplements ==
  ASSUME WorldInv, [Next]_vars, ExecExit \/ ExecDespawn
  PROVE  [Presence!Next]_(Presence!vars)
<1> DEFINE g == Head(cmds).guid
           gone == {p \in players : p.guid = g /\ charIdToGuid[p.char] = g}
<1>1. /\ TypeOK /\ IndexesAgree /\ TypeOK' /\ IndexesAgree'
      /\ life \in [Sessions -> Lives]
  BY StepKeepsSim DEF WorldInv, GreetInv, TypeOK, SessionsTypeOK
<1>2. /\ UNCHANGED <<life, status>> /\ players' = players \ gone
      /\ charIdToGuid' = [c \in Chars |-> IF \E p \in gone : p.char = c THEN 0 ELSE charIdToGuid[c]]
  BY DEF ExecExit, ExecDespawn, Despawn, netVars
<1>3. /\ Head(cmds) \in WorldCmds /\ Head(cmds).type \in {"exit", "leave", "rollback"}
      /\ cmds \in Seq(WorldCmds) /\ cmds # <<>>
  BY <1>1, CmdHeadType DEF ExecExit, ExecDespawn, CmdHead, TypeOK, QueuesTypeOK
<1>4. g \in Nat /\ DespawnPending(g)
  <2>1. g \in Nat /\ Head(cmds) \in Despawns(g)
    BY <1>3 DEF WorldCmds, Despawns
  <2> QED
    BY <1>3, <2>1, HoldsTail DEF DespawnPending
<1>5. PhaseMap' = PhaseMap
  BY <1>2, NobodyMoves
<1>6. CASE gone = {}
  <2>1. players' = players /\ charIdToGuid' = charIdToGuid
    BY <1>1, <1>2, <1>6 DEF TypeOK, SimulationTypeOK
  <2>2. AvatarMap' = AvatarMap
    BY <2>1 DEF AvatarMap, AvatarOf
  <2> QED
    BY <1>5, <2>2 DEF Presence!vars, PhaseMap, AvatarMap
<1>7. CASE gone # {}
  <2>1. PICK p \in players : p.guid = g /\ charIdToGuid[p.char] = g
    BY <1>7
  <2>2. gone = {p}
    BY <1>1, <2>1 DEF IndexesAgree
  <2>3. p.char \in Chars /\ p.sess \in Sessions /\ g \in Issued
    BY <1>1, <2>1, AvatarFacts DEF WorldInv, GuidsIssued
  <2>4. ~Settled(p.sess, g)
    BY <1>4 DEF Settled
  <2>5. status[p.sess] = "LEAVING_WORLD" \/ (Entering(p.sess) /\ life[p.sess] # "open")
    <3>1. InCustody(p) /\ Confirmed(p.sess)
      BY <2>3 DEF WorldInv
    <3> QED
      BY <2>1, <2>3, <2>4, <3>1 DEF InCustody, Confirmed, Inside
  <2>6. life[p.sess] # "none"
    BY <2>3, <2>5 DEF WorldInv, OwnsInside, Inside
  <2>7. PhaseMap[p.sess] \in {"leaving", "gone"}
    BY <1>1, <2>3, <2>5, <2>6 DEF PhaseMap, Phase, Entering
  <2>8. AvatarMap[p.char] = p.sess
    BY <1>1, <2>3, AvatarFacts DEF AvatarMap
  <2>9. \A q \in players : q.char = p.char => q = p
    BY <1>1 DEF IndexesAgree
  <2>10. AvatarOf(p.char)' = Nobody
    BY <1>1, <1>2, <2>2, <2>3, <2>9, AvatarFactsNext
  <2>11. ASSUME NEW d \in Chars, d # p.char
         PROVE  AvatarOf(d)' = AvatarOf(d)
    <3>1. CASE \E q \in players : q.char = d
      <4>1. PICK q \in players : q.char = d
        BY <3>1
      <4>2. q \in players'
        BY <1>2, <2>2, <2>11, <4>1
      <4> QED
        BY <1>1, <4>1, <4>2, AvatarFacts, AvatarFactsNext
    <3>2. CASE \A q \in players : q.char # d
      <4>1. \A q \in players' : q.char # d
        BY <1>2, <3>2
      <4> QED
        BY <1>1, <3>2, <4>1, AvatarFacts, AvatarFactsNext
    <3> QED
      BY <3>1, <3>2
  <2>12. AvatarMap' = [AvatarMap EXCEPT ![p.char] = Nobody]
    BY <2>3, <2>10, <2>11 DEF AvatarMap
  <2>13. Presence!Vanish(p.char)
    BY <1>5, <2>3, <2>7, <2>8, <2>12, NobodyAssumption DEF Presence!Vanish, PhaseMap, AvatarMap
  <2> QED
    BY <2>3, <2>13 DEF Presence!Next
<1> QED
  BY <1>6, <1>7

LEMMA StepImplements ==
  ASSUME WorldInv, [Next]_vars
  PROVE  [Presence!Next]_(Presence!vars)
<1>1. CASE \/ UNCHANGED vars \/ ExecMove \/ ZoneUpdate
  <2>1. UNCHANGED <<life, status, players, charIdToGuid>>
    BY <1>1 DEF ExecMove, ZoneUpdate, vars, netVars, simVars
  <2> QED
    BY <2>1 DEF Presence!vars, Phase, AvatarOf
<1> QED
  BY <1>1, ReadingImplements, ServingImplements, LifetimeImplements, SpawnImplements,
     DespawnImplements DEF Next, ExecuteWorldCmd

LEMMA InitImplements == Init => Presence!Init
<1> SUFFICES ASSUME Init PROVE Presence!Init
  OBVIOUS
<1>1. \A s \in Sessions : Phase(s) = "out"
  BY DEF Init, Phase
<1>2. \A c \in Chars : AvatarOf(c) = Nobody
  BY DEF Init, AvatarOf
<1> QED
  BY <1>1, <1>2 DEF Presence!Init

\* WorldSessions implements WorldPresence: every step of the three kinds of
\* threads, in any order, is a step a client may see, or one that no client
\* can tell.
THEOREM PresenceImplemented == Spec => ImplementsPresence
<1>1. Init => Presence!Init
  BY InitImplements
<1>2. WorldInv /\ [Next]_vars => [Presence!Next]_(Presence!vars)
  BY StepImplements
<1> QED
  BY <1>1, <1>2, WorldCorrect, PTL DEF Spec, ImplementsPresence, Presence!Spec

------------------------------------------------------------------------------
(* What the clients were told stays true: it follows from WorldPresence.   *)

ClientsInv ==
  /\ PhaseMap \in [Sessions -> Presence!Phases]
  /\ AvatarMap \in [Chars -> Sessions \cup {Nobody}]
  /\ \A s \in Sessions :
       /\ PhaseMap[s] = "in" => \E c \in Chars : AvatarMap[c] = s
       /\ PhaseMap[s] = "out" => \A c \in Chars : AvatarMap[c] # s
       /\ \A c, d \in Chars : AvatarMap[c] = s /\ AvatarMap[d] = s => c = d

\* A client learns something: the knowledge of the others stays true.
LEMMA MoveKeepsKnowledge ==
  ASSUME ClientsInv, NEW s \in Sessions, NEW from, NEW to \in Presence!Phases,
         Presence!Move(s, from, to), UNCHANGED AvatarMap,
         to = "in" => ~Presence!Absent(s), to = "out" => Presence!Absent(s)
  PROVE  ClientsInv'
<1>1. PhaseMap' = [PhaseMap EXCEPT ![s] = to] /\ AvatarMap' = AvatarMap
  BY DEF Presence!Move, PhaseMap
<1>2. Presence!Absent(s) <=> \A c \in Chars : AvatarMap[c] # s
  BY DEF Presence!Absent, AvatarMap
<1> QED
  BY <1>1, <1>2 DEF ClientsInv

LEMMA AppearKeepsKnowledge ==
  ASSUME ClientsInv, NEW s \in Sessions, NEW c \in Chars, Presence!Appear(s, c)
  PROVE  ClientsInv'
<1>1. /\ AvatarMap' = [AvatarMap EXCEPT ![c] = s] /\ PhaseMap' = PhaseMap
      /\ AvatarMap[c] = Nobody /\ PhaseMap[s] \in {"entering", "gone"}
      /\ \A d \in Chars : AvatarMap[d] # s
  BY DEF Presence!Appear, Presence!Absent, PhaseMap, AvatarMap
<1> QED
  BY <1>1, NobodyAssumption DEF ClientsInv

\* No client that is in the world loses its character.
LEMMA VanishKeepsKnowledge ==
  ASSUME ClientsInv, NEW c \in Chars, Presence!Vanish(c)
  PROVE  ClientsInv'
<1>1. /\ AvatarMap' = [AvatarMap EXCEPT ![c] = Nobody] /\ PhaseMap' = PhaseMap
      /\ AvatarMap[c] # Nobody /\ PhaseMap[AvatarMap[c]] \in {"leaving", "gone"}
  BY DEF Presence!Vanish, PhaseMap, AvatarMap
<1> QED
  BY <1>1, NobodyAssumption DEF ClientsInv

\* WorldPresence keeps the knowledge of its clients true.
LEMMA PresencePromise == Presence!Spec => []Presence!ClientKnowledgeTrue
<1>1. Presence!Init => ClientsInv
  BY NobodyAssumption DEF Presence!Init, ClientsInv, Presence!Phases, PhaseMap, AvatarMap
<1>2. ClientsInv /\ [Presence!Next]_(Presence!vars) => ClientsInv'
  <2> SUFFICES ASSUME ClientsInv, [Presence!Next]_(Presence!vars) PROVE ClientsInv'
    OBVIOUS
  <2>1. ASSUME NEW s \in Sessions,
               \/ Presence!Request(s) \/ Presence!Confirm(s) \/ Presence!Reject(s)
               \/ Presence!Leave(s) \/ Presence!Left(s) \/ Presence!Lose(s)
        PROVE  ClientsInv'
    BY <2>1, MoveKeepsKnowledge
       DEF Presence!Request, Presence!Confirm, Presence!Reject, Presence!Leave, Presence!Left,
           Presence!Lose, Presence!Phases, AvatarMap
  <2>2. CASE UNCHANGED Presence!vars
    BY <2>2 DEF ClientsInv, Presence!vars, PhaseMap, AvatarMap
  <2> QED
    BY <2>1, <2>2, AppearKeepsKnowledge, VanishKeepsKnowledge DEF Presence!Next
<1>3. ClientsInv => Presence!ClientKnowledgeTrue
  BY DEF ClientsInv, Presence!ClientKnowledgeTrue, Presence!Absent, PhaseMap, AvatarMap
<1> QED
  BY <1>1, <1>2, <1>3, PTL DEF Presence!Spec

\* What WorldCmdCallback_OnEnterWorld and _OnExitWorld told a client of the
\* world server stays true until the client's next request, whatever the
\* simulation, the DB workers and the other sessions do meanwhile.
THEOREM ClientKnowledge == Spec => []Presence!ClientKnowledgeTrue
  BY PresencePromise, PresenceImplemented, PTL DEF ImplementsPresence

------------------------------------------------------------------------------
(* WorldSaves is WorldSessions with a database.                            *)

LEMMA SavesStep ==
  ASSUME SavesTypeOK, [SavesNext]_savesVars
  PROVE  [Next]_vars
<1>1. CASE UNCHANGED savesVars
  BY <1>1 DEF savesVars
<1>2. ASSUME NEW s \in Sessions, NEW c \in Chars, EnterWorld(s, c)
      PROVE  Next
  BY <1>2 DEF EnterWorld, Next, ReadPackets
<1>3. ASSUME NEW s \in Sessions, OtherNetwork(s)
      PROVE  Next
  BY <1>3 DEF OtherNetwork, Next, ReadPackets
<1>4. CASE RespondOther
  BY <1>4 DEF RespondOther, Next
<1>5. CASE ExecuteSave
  BY <1>5 DEF ExecuteSave
<1>6. CASE ExecuteLoad
  <2>1. PICK s, c : /\ s = Head(dbQueue).sess /\ c = Head(dbQueue).char
                    /\ Respond(s, [type |-> "enter", char |-> c])
    BY <1>6 DEF ExecuteLoad
  <2>2. s \in Sessions
    BY <1>6, <2>1 DEF ExecuteLoad, SavesTypeOK
  <2> QED
    BY <2>1, <2>2 DEF Respond, Next
<1>7. CASE SpawnFetched \/ SaveAndDespawn \/ Rollback \/ Progress \/ ExecMove \/ ZoneUpdate
  BY <1>7 DEF SpawnFetched, SaveAndDespawn, Rollback, Progress, Next, ExecuteWorldCmd
<1> QED
  BY <1>1, <1>2, <1>3, <1>4, <1>5, <1>6, <1>7 DEF SavesNext

------------------------------------------------------------------------------
(* What a step does to the queue of the worker.                            *)

LEMMA SavesAre ==
  ASSUME NEW c
  PROVE  \A r : r \in SavesOf(c) => r.type = "save" /\ r.char = c /\ r.data \in 0..MaxProgress
  BY DEF SavesOf

\* A request other than a save of c joins the queue, or leaves it.
LEMMA OtherJoins ==
  ASSUME NEW S, dbQueue \in Seq(S), NEW x \in S, NEW c \in Chars, x \notin SavesOf(c),
         dbQueue' = Append(dbQueue, x), NEW n, Lasting(c, n), UNCHANGED row
  PROVE  Lasting(c, n)'
<1>1. /\ DOMAIN dbQueue' = 1..(Len(dbQueue) + 1) /\ DOMAIN dbQueue = 1..Len(dbQueue) /\ Len(dbQueue) \in Nat
      /\ dbQueue'[Len(dbQueue) + 1] = x
      /\ \A i \in DOMAIN dbQueue : dbQueue'[i] = dbQueue[i]
  OBVIOUS
<1>2. SavesOf(c)' = SavesOf(c)
  BY DEF SavesOf
<1>3. CASE row[c] = n /\ ~Holds(dbQueue, SavesOf(c))
  BY <1>1, <1>2, <1>3 DEF Holds, Lasting
<1>4. ASSUME NEW i \in DOMAIN dbQueue, dbQueue[i] \in SavesOf(c), dbQueue[i].data = n,
             \A j \in DOMAIN dbQueue : j > i => dbQueue[j] \notin SavesOf(c)
      PROVE  Lasting(c, n)'
  <2>1. i \in DOMAIN dbQueue' /\ dbQueue'[i] = dbQueue[i]
    BY <1>1
  <2>2. \A j \in DOMAIN dbQueue' : j > i => dbQueue'[j] \notin SavesOf(c)
    BY <1>1, <1>4
  <2> QED
    BY <1>2, <1>4, <2>1, <2>2 DEF Lasting
<1> QED
  BY <1>3, <1>4 DEF Lasting

LEMMA SaveJoins ==
  ASSUME NEW S, dbQueue \in Seq(S), NEW x \in S, NEW c \in Chars, x \in SavesOf(c),
         dbQueue' = Append(dbQueue, x)
  PROVE  Lasting(c, x.data)'
<1>1. /\ DOMAIN dbQueue' = 1..(Len(dbQueue) + 1) /\ Len(dbQueue) \in Nat
      /\ dbQueue'[Len(dbQueue) + 1] = x
  OBVIOUS
<1>2. SavesOf(c)' = SavesOf(c)
  BY DEF SavesOf
<1>3. \A j \in DOMAIN dbQueue' : ~(j > Len(dbQueue) + 1)
  BY <1>1
<1> QED
  BY <1>1, <1>2, <1>3 DEF Lasting

\* The worker executes the head of the queue.
LEMMA HeadExecuted ==
  ASSUME NEW S, dbQueue \in Seq(S), dbQueue # <<>>, dbQueue' = Tail(dbQueue),
         NEW c \in Chars, NEW n, Lasting(c, n),
         Head(dbQueue) \notin SavesOf(c) => row'[c] = row[c],
         Head(dbQueue) \in SavesOf(c) => row'[c] = Head(dbQueue).data
  PROVE  Lasting(c, n)'
<1>1. /\ 1 \in DOMAIN dbQueue /\ Head(dbQueue) = dbQueue[1]
      /\ \A i \in DOMAIN dbQueue' : i + 1 \in DOMAIN dbQueue /\ dbQueue'[i] = dbQueue[i + 1]
      /\ \A i \in DOMAIN dbQueue : i # 1 => i - 1 \in DOMAIN dbQueue' /\ dbQueue'[i - 1] = dbQueue[i]
      /\ DOMAIN dbQueue \subseteq Nat \ {0} /\ DOMAIN dbQueue' \subseteq Nat \ {0}
  OBVIOUS
<1>2. SavesOf(c)' = SavesOf(c)
  BY DEF SavesOf
<1>3. CASE row[c] = n /\ ~Holds(dbQueue, SavesOf(c))
  <2>1. row'[c] = n
    BY <1>1, <1>3 DEF Holds
  <2>2. ~Holds(dbQueue', SavesOf(c))
    BY <1>1, <1>3 DEF Holds
  <2> QED
    BY <1>2, <2>1, <2>2 DEF Lasting
<1>4. ASSUME NEW i \in DOMAIN dbQueue, dbQueue[i] \in SavesOf(c), dbQueue[i].data = n,
             \A j \in DOMAIN dbQueue : j > i => dbQueue[j] \notin SavesOf(c)
      PROVE  Lasting(c, n)'
  <2>1. CASE i = 1
    <3>1. row'[c] = n
      BY <1>1, <1>4, <2>1
    <3>2. ~Holds(dbQueue', SavesOf(c))
      BY <1>1, <1>4, <2>1 DEF Holds
    <3> QED
      BY <1>2, <3>1, <3>2 DEF Lasting
  <2>2. CASE i # 1
    <3>1. i - 1 \in DOMAIN dbQueue' /\ dbQueue'[i - 1] = dbQueue[i]
      BY <1>1, <2>2
    <3>2. \A j \in DOMAIN dbQueue' : j > i - 1 => dbQueue'[j] \notin SavesOf(c)
      BY <1>1, <1>4
    <3> QED
      BY <1>2, <1>4, <3>1, <3>2 DEF Lasting
  <2> QED
    BY <2>1, <2>2
<1> QED
  BY <1>3, <1>4 DEF Lasting

------------------------------------------------------------------------------
(* Facts of a state.                                                       *)

\* While a session may yet enter with its character, that is not in the world.
LEMMA EntryMeansAbsent ==
  ASSUME WorldInv, OwnershipInv, NoOverlap, NEW s \in Sessions, NEW c \in Chars, MayUse(s, c),
         EnterRequests(s) # {} \/ Holds(io[s], EnterRows) \/ Holds(cmds, SpawnsOf(s))
  PROVE  \A p \in players : p.char # c
<1> SUFFICES ASSUME NEW p \in players, p.char = c PROVE FALSE
  OBVIOUS
<1>1. p.sess \in Sessions /\ account[p.sess] = account[s] /\ account[s] \in Accounts
  BY CustodyFacts, OwnerAssumption DEF OwnershipInv, PlayerOfOwnAccount, MayUse
<1>2. p.sess = s
  BY <1>1 DEF NoOverlap, Through, MayUse
<1>3. EnterRows \subseteq EnterMsgs
  BY DEF EnterRows, EnterMsgs
<1>4. Holds(io[s], EnterRows)
  BY <1>2, CustodyFacts
<1>5. Holds(io[s], EnterMsgs) /\ Once(io[s], EnterMsgs) /\ Entering(s) /\ ~Inside(s)
  BY <1>3, <1>4 DEF Holds, WorldInv, OneEntry, Entering, Inside
<1>6. SpawnResultPending(s, p.guid)
  BY <1>2, <1>5 DEF WorldInv, InCustody
<1>7. PICK i \in DOMAIN io[s] : io[s][i] \in EnterRows
  BY <1>4 DEF Holds
<1>8. PICK j \in DOMAIN io[s] : io[s][j] = [type |-> "spawned", ok |-> TRUE, guid |-> p.guid]
  BY <1>6 DEF SpawnResultPending, Holds
<1>9. p.guid \in Nat
  BY DEF WorldInv, GreetInv, TypeOK, SimulationTypeOK, Entities
<1>10. [type |-> "spawned", ok |-> TRUE, guid |-> p.guid] \in EnterMsgs
  BY <1>9 DEF EnterMsgs, IoMsgs
<1>11. i = j
  BY <1>3, <1>5, <1>7, <1>8, <1>10 DEF Once
<1> QED
  BY <1>7, <1>8, <1>11 DEF EnterRows

\* A session that has an entry under way is entering.
LEMMA EntryMeansEntering ==
  ASSUME WorldInv, NEW s \in Sessions,
         EnterRequests(s) # {} \/ Holds(io[s], EnterRows) \/ Holds(cmds, SpawnsOf(s))
  PROVE  Entering(s)
<1>1. EnterRows \subseteq EnterMsgs
  BY DEF EnterRows, EnterMsgs
<1> QED
  BY <1>1, HoldsMore DEF WorldInv, OneEntry

\* A destroyed session stays so, and one that enters keeps its account.
LEMMA SessionsLast ==
  ASSUME WorldInv, [Next]_vars, NEW s \in Sessions
  PROVE  /\ life'[s] # "dead" => life[s] # "dead"
         /\ Entering(s) => account'[s] = account[s]
<1>0. /\ life \in [Sessions -> Lives] /\ account \in [Sessions -> Accounts \cup {NoAccount}]
      /\ status \in [Sessions -> WorldSocketStatus]
  BY DEF WorldInv, GreetInv, TypeOK, SessionsTypeOK
<1>1. ASSUME NEW t \in Sessions, Close(t) \/ CloseInReader(t)
      PROVE  life'[s] # "dead" => life[s] # "dead"
  BY <1>0, <1>1 DEF Close, CloseInReader
<1>2. ASSUME NEW t \in Sessions, Accept(t) \/ BeginDestroy(t) \/ FinishDestroy(t)
      PROVE  life'[s] # "dead" => life[s] # "dead"
  BY <1>0, <1>2 DEF Accept, BeginDestroy, Unreferenced, FinishDestroy
<1>3. life'[s] # "dead" => life[s] # "dead"
  <2>1. ASSUME NEW t \in Sessions, ReadPackets(t) \/ EndLateRead(t) \/ Disconnect(t)
        PROVE  UNCHANGED life \/ Close(t) \/ CloseInReader(t)
    BY <2>1 DEF ReadPackets, HandleGreetcode, HandleGreetPacket, HandleEnumCharacter,
       HandleEnterWorld, HandleExitWorld, HandlePlayerMovementUpdate, netVars,
       EndLateRead, Disconnect
  <2>2. ASSUME NEW t \in Sessions, ServeIo(t)
        PROVE  UNCHANGED life \/ Close(t)
    BY <2>2 DEF ServeIo, ServeKick, ServeGreetcode, ServeEnum, ServeEnter, ServeSpawned, ServeLeft
  <2>3. ASSUME NEW t \in Sessions, ProcessPlayerPacketsQueue(t) \/ \E r \in requests[t] : Respond(t, r)
        PROVE  UNCHANGED life
    BY <2>3 DEF ProcessPlayerPacketsQueue, Respond, netVars
  <2>4. ASSUME ExecuteWorldCmd \/ ZoneUpdate \/ UNCHANGED vars
        PROVE  UNCHANGED life
    BY <2>4 DEF ExecuteWorldCmd, ExecSpawn, ExecExit, ExecDespawn, ExecMove, ZoneUpdate, netVars, vars
  <2> QED
    BY <1>1, <1>2, <2>1, <2>2, <2>3, <2>4 DEF Next
<1>4. Entering(s) => account'[s] = account[s]
  <2>1. ASSUME NEW t \in Sessions, ServeGreetcode(t), Entering(s)
        PROVE  account'[s] = account[s]
    <3>1. Holds(io[t], GreetMsgs)
      <4>1. Head(io[t]) \in GreetMsgs /\ io[t] # <<>>
        BY <2>1, IoHeadType DEF ServeGreetcode, IoHead, GreetMsgs, WorldInv, GreetInv, TypeOK
      <4>2. io[t] \in Seq(IoMsgs)
        BY DEF WorldInv, GreetInv, TypeOK, QueuesTypeOK
      <4> QED
        BY <4>1, <4>2, HoldsTail
    <3>2. s # t
      BY <2>1, <3>1 DEF WorldInv, GreetInv, OneGreeting, Entering
    <3> QED
      BY <1>0, <2>1, <3>2 DEF ServeGreetcode
  <2>2. ASSUME NEW t \in Sessions, ServeIo(t), ~ServeGreetcode(t)
        PROVE  UNCHANGED account
    BY <2>2 DEF ServeIo, ServeKick, ServeEnum, ServeEnter, ServeSpawned, ServeLeft
  <2>3. ASSUME NEW t \in Sessions,
               \/ ReadPackets(t) \/ EndLateRead(t) \/ Disconnect(t) \/ Accept(t) \/ BeginDestroy(t)
               \/ FinishDestroy(t) \/ ProcessPlayerPacketsQueue(t) \/ \E r \in requests[t] : Respond(t, r)
        PROVE  UNCHANGED account
    BY <2>3 DEF ReadPackets, HandleGreetcode, HandleGreetPacket, HandleEnumCharacter,
       HandleEnterWorld, HandleExitWorld, HandlePlayerMovementUpdate, netVars, EndLateRead, Disconnect,
       Accept, BeginDestroy, FinishDestroy, ProcessPlayerPacketsQueue, Respond
  <2>4. ASSUME ExecuteWorldCmd \/ ZoneUpdate \/ UNCHANGED vars
        PROVE  UNCHANGED account
    BY <2>4 DEF ExecuteWorldCmd, ExecSpawn, ExecExit, ExecDespawn, ExecMove, ZoneUpdate, netVars, vars
  <2> QED
    BY <2>1, <2>2, <2>3, <2>4 DEF Next
<1> QED
  BY <1>3, <1>4

\* So a row that may be used after a step might have been before it.
LEMMA UseLasts ==
  ASSUME WorldInv, [Next]_vars, NEW s \in Sessions, NEW c, Entering(s), MayUse(s, c)'
  PROVE  MayUse(s, c)
  BY SessionsLast DEF MayUse

------------------------------------------------------------------------------
(* What a step leaves alone, one lemma per queue.                          *)

LEMMA RowsFrame ==
  ASSUME WorldInv, [Next]_vars, SavesInv, UNCHANGED <<fetched, latest>>,
         \A s \in Sessions : \A M : M \subseteq EnterRows /\ Holds(io'[s], M) => Holds(io[s], M)
  PROVE  \A s \in Sessions : ~Holds(io[s], OldRows(s))'
<1> SUFFICES ASSUME NEW s \in Sessions, Holds(io'[s], OldRows(s)') PROVE FALSE
  OBVIOUS
<1>1. OldRows(s)' \subseteq EnterRows /\ EnterRows' = EnterRows
  BY DEF OldRows, EnterRows
<1>2. Holds(io[s], OldRows(s)')
  BY <1>1
<1>3. Entering(s)
  BY <1>1, <1>2, HoldsMore, EntryMeansEntering
<1>4. OldRows(s)' \subseteq OldRows(s)
  BY <1>1, <1>3, UseLasts DEF OldRows
<1> QED
  BY <1>2, <1>4, HoldsMore DEF SavesInv

LEMMA LoadsFrame ==
  ASSUME WorldInv, [Next]_vars, SavesInv, UNCHANGED dbQueue,
         \A s \in Sessions : EnterRequests(s) \subseteq EnterRequests(s)'
  PROVE  LoadsLast'
<1> SUFFICES ASSUME NEW i \in DOMAIN dbQueue, NEW s \in Sessions, NEW c \in Chars,
                    dbQueue[i] = [type |-> "load", sess |-> s, char |-> c]
             PROVE  LoadLast(i, s, c)'
  BY DEF LoadsLast
<1>1. LoadLast(i, s, c)
  BY DEF SavesInv, LoadsLast
<1>2. [type |-> "enter", char |-> c] \in EnterRequests(s)
  BY <1>1 DEF LoadLast, EnterRequests
<1>3. [type |-> "enter", char |-> c] \in requests'[s]
  BY <1>2 DEF EnterRequests
<1>4. MayUse(s, c)' => MayUse(s, c)
  BY <1>2, UseLasts, EntryMeansEntering
<1> QED
  BY <1>1, <1>3, <1>4 DEF LoadLast, SavesOf

\* A request joins the queue: a save of no row that is waited for, or the
\* first load of its session.
LEMMA LoadsJoin ==
  ASSUME WorldInv, [Next]_vars, SavesInv,
         NEW x \in LoadRequests \cup SaveRequests, dbQueue' = Append(dbQueue, x),
         \A s \in Sessions : EnterRequests(s) \subseteq EnterRequests(s)',
         \A s \in Sessions : x.type = "save" /\ MayUse(s, x.char) => EnterRequests(s) = {},
         x.type = "load" =>
           /\ [type |-> "enter", char |-> x.char] \in requests'[x.sess]
           /\ EnterRequests(x.sess) = {}
  PROVE  LoadsLast'
<1> SUFFICES ASSUME NEW i \in DOMAIN dbQueue', NEW s \in Sessions, NEW c \in Chars,
                    dbQueue'[i] = [type |-> "load", sess |-> s, char |-> c]
             PROVE  LoadLast(i, s, c)'
  BY DEF LoadsLast
<1>1. dbQueue \in Seq(LoadRequests \cup SaveRequests)
  BY DEF SavesInv, SavesTypeOK, LoadRequests, SaveRequests
<1>2. /\ DOMAIN dbQueue = 1..Len(dbQueue) /\ DOMAIN dbQueue' = 1..(Len(dbQueue) + 1)
      /\ Len(dbQueue) \in Nat /\ dbQueue'[Len(dbQueue) + 1] = x
      /\ \A j \in DOMAIN dbQueue : dbQueue'[j] = dbQueue[j]
  BY <1>1
<1>3. SavesOf(c)' = SavesOf(c)
  BY DEF SavesOf
<1>4. ASSUME NEW j \in DOMAIN dbQueue, dbQueue[j].type = "load", dbQueue[j].sess = s
      PROVE  EnterRequests(s) # {}
  <2>1. PICK d \in Chars : dbQueue[j] = [type |-> "load", sess |-> s, char |-> d]
    BY <1>1, <1>4 DEF LoadRequests, SaveRequests
  <2>2. LoadLast(j, s, d)
    BY <2>1 DEF SavesInv, LoadsLast
  <2> QED
    BY <2>2 DEF LoadLast, EnterRequests
<1>5. CASE i \in DOMAIN dbQueue
  <2>1. LoadLast(i, s, c) /\ dbQueue[i] = [type |-> "load", sess |-> s, char |-> c]
    BY <1>2, <1>5 DEF SavesInv, LoadsLast
  <2>2. [type |-> "enter", char |-> c] \in EnterRequests(s)
    BY <2>1 DEF LoadLast, EnterRequests
  <2>3. [type |-> "enter", char |-> c] \in requests'[s]
    BY <2>2 DEF EnterRequests
  <2>4. MayUse(s, c)' => MayUse(s, c)
    BY <2>2, UseLasts, EntryMeansEntering
  <2>5. ASSUME MayUse(s, c), NEW j \in DOMAIN dbQueue', j > i
        PROVE  dbQueue'[j] \notin SavesOf(c)
    <3>1. CASE j \in DOMAIN dbQueue
      BY <1>2, <2>1, <2>5, <3>1 DEF LoadLast
    <3>2. CASE j \notin DOMAIN dbQueue
      <4>1. dbQueue'[j] = x
        BY <1>2, <3>2
      <4>2. x \in SavesOf(c) => x.type = "save" /\ x.char = c
        BY DEF SavesOf
      <4> QED
        BY <2>2, <2>5, <4>1, <4>2
    <3> QED
      BY <3>1, <3>2
  <2>6. ASSUME NEW j \in DOMAIN dbQueue', dbQueue'[j].type = "load", dbQueue'[j].sess = s
        PROVE  j = i
    <3>1. CASE j \in DOMAIN dbQueue
      BY <1>2, <2>1, <2>6, <3>1 DEF LoadLast
    <3>2. CASE j \notin DOMAIN dbQueue
      <4>1. dbQueue'[j] = x
        BY <1>2, <3>2
      <4> QED
        BY <2>2, <2>6, <4>1
    <3> QED
      BY <3>1, <3>2
  <2> QED
    BY <1>3, <2>3, <2>4, <2>5, <2>6 DEF LoadLast
<1>6. CASE i \notin DOMAIN dbQueue
  <2>1. /\ i = Len(dbQueue) + 1 /\ x = [type |-> "load", sess |-> s, char |-> c]
        /\ \A j \in DOMAIN dbQueue' : ~(j > i) /\ (j \in DOMAIN dbQueue \/ j = i)
    BY <1>2, <1>6
  <2>2. [type |-> "enter", char |-> c] \in requests'[s] /\ EnterRequests(s) = {}
    BY <2>1
  <2>3. ASSUME NEW j \in DOMAIN dbQueue', dbQueue'[j].type = "load", dbQueue'[j].sess = s
        PROVE  j = i
    BY <1>2, <1>4, <2>1, <2>2, <2>3
  <2> QED
    BY <2>1, <2>2, <2>3 DEF LoadLast
<1> QED
  BY <1>5, <1>6

LEMMA AllSavedFrame ==
  ASSUME SavesInv, UNCHANGED <<dbQueue, row, latest, players>>,
         \A p \in players : Entering(p.sess)' => Entering(p.sess)
  PROVE  AllSaved'
<1>1. \A c, n : Lasting(c, n)' <=> Lasting(c, n)
  BY DEF Lasting, SavesOf
<1> QED
  BY <1>1 DEF SavesInv, AllSaved

NoCmds == {}

\* The commands of the simulation, with the new ones in X.
LEMMA CmdsFrame ==
  ASSUME WorldInv, [Next]_vars, SavesInv, UNCHANGED <<fetched, latest, players, nextGuid>>,
         \A p \in players : Entering(p.sess)' => Entering(p.sess),
         \A p \in players : Entering(p.sess) => Entering(p.sess)' \/ ~DespawnPending(p.guid),
         NEW X, \A x \in X : x \notin OldSpawns' /\ x \notin EarlyMoves' /\ x \notin LateRollbacks',
         \A M : Holds(cmds', M) => Holds(cmds, M) \/ \E x \in X : x \in M
  PROVE  ~Holds(cmds, OldSpawns)' /\ ~Holds(cmds, EarlyMoves)' /\ ~Holds(cmds, LateRollbacks)'
<1>1. ~Holds(cmds', OldSpawns')
  <2> SUFFICES ASSUME Holds(cmds, OldSpawns') PROVE FALSE
    OBVIOUS
  <2>1. PICK i \in DOMAIN cmds : cmds[i] \in OldSpawns'
    BY DEF Holds
  <2>2. PICK c, s : c = cmds[i] /\ s = c.sess
    OBVIOUS
  <2>3. c \in WorldCmds /\ c.type = "spawn" /\ MayUse(s, c.char)' /\ fetched[s] # latest[c.char]
    BY <2>1, <2>2 DEF OldSpawns
  <2>4. c \in SpawnsOf(s) /\ s \in Sessions
    BY <2>2, <2>3 DEF SpawnsOf, WorldCmds
  <2>5. Entering(s)
    BY <2>2, <2>4, EntryMeansEntering DEF Holds
  <2>6. c \in OldSpawns
    BY <2>2, <2>3, <2>4, <2>5, UseLasts DEF OldSpawns
  <2> QED
    BY <2>2, <2>6 DEF Holds, SavesInv
<1>2. ~Holds(cmds', EarlyMoves')
  <2>1. EarlyMoves' \subseteq EarlyMoves
    BY DEF EarlyMoves, Issued
  <2> QED
    BY <2>1, HoldsMore DEF SavesInv
<1>3. ~Holds(cmds', LateRollbacks')
  <2> SUFFICES ASSUME Holds(cmds, LateRollbacks') PROVE FALSE
    OBVIOUS
  <2>1. PICK i \in DOMAIN cmds : cmds[i] \in LateRollbacks'
    BY DEF Holds
  <2>2. PICK p \in players : /\ cmds[i] \in WorldCmds /\ cmds[i].type = "rollback"
                             /\ p.guid = cmds[i].guid /\ ~Entering(p.sess)'
    BY <2>1 DEF LateRollbacks
  <2>3. cmds[i] \in Despawns(p.guid)
    BY <2>2 DEF Despawns, WorldCmds
  <2>4. DespawnPending(p.guid)
    BY <2>3 DEF DespawnPending, Holds
  <2>5. cmds[i] \in LateRollbacks
    BY <2>2, <2>4 DEF LateRollbacks
  <2> QED
    BY <2>5 DEF Holds, SavesInv
<1> QED
  BY <1>1, <1>2, <1>3

LEMMA SavesFrame ==
  ASSUME WorldInv, [Next]_vars, SavesInv, UNCHANGED <<dbVars, players, nextGuid>>,
         \A p \in players : Entering(p.sess)' => Entering(p.sess),
         \A p \in players : Entering(p.sess) => Entering(p.sess)' \/ ~DespawnPending(p.guid),
         \A s \in Sessions : EnterRequests(s) \subseteq EnterRequests(s)',
         \A s \in Sessions : \A M : M \subseteq EnterRows /\ Holds(io'[s], M) => Holds(io[s], M),
         NEW X, \A x \in X : x \notin OldSpawns' /\ x \notin EarlyMoves' /\ x \notin LateRollbacks',
         \A M : Holds(cmds', M) => Holds(cmds, M) \/ \E x \in X : x \in M
  PROVE  SavesInv'
<1>1. UNCHANGED <<dbQueue, row, fetched, live, latest>>
  BY DEF dbVars
<1>2. SavesTypeOK' /\ NoProgressLost'
  BY <1>1 DEF SavesInv, SavesTypeOK, NoProgressLost
<1>3. AllSaved'
  BY <1>1, AllSavedFrame
<1>4. LoadsLast'
  BY <1>1, LoadsFrame
<1>5. \A s \in Sessions : ~Holds(io[s], OldRows(s))'
  BY <1>1, RowsFrame
<1>6. ~Holds(cmds, OldSpawns)' /\ ~Holds(cmds, EarlyMoves)' /\ ~Holds(cmds, LateRollbacks)'
  BY <1>1, CmdsFrame
<1> QED
  BY <1>2, <1>3, <1>4, <1>5, <1>6 DEF SavesInv

------------------------------------------------------------------------------
(* The steps that leave the database alone.                                *)

LEMMA QuietKeepsSaves ==
  ASSUME WorldInv, [Next]_vars, SavesInv, UNCHANGED dbVars, Quiet,
         NEW X, \A x \in X : x \notin OldSpawns' /\ x \notin EarlyMoves' /\ x \notin LateRollbacks',
         \A M : Holds(cmds', M) => Holds(cmds, M) \/ \E x \in X : x \in M
  PROVE  SavesInv'
<1>1. EnterRows \subseteq WorldlyMsgs
  BY DEF EnterRows, WorldlyMsgs
<1>2. \A s \in Sessions : \A M : M \subseteq EnterRows /\ Holds(io'[s], M) => Holds(io[s], M)
  BY <1>1 DEF Quiet, QuietIo
<1>3. \A p \in players : Entering(p.sess)' <=> Entering(p.sess)
  BY CustodyFacts DEF Quiet, QuietStatus, Entering
<1>4. \A s \in Sessions : EnterRequests(s) \subseteq EnterRequests(s)'
  BY DEF Quiet
<1>5. UNCHANGED <<players, nextGuid>>
  BY DEF Quiet
<1> QED
  BY <1>2, <1>3, <1>4, <1>5, SavesFrame

LEMMA RestKeepsSaves ==
  ASSUME WorldInv, [Next]_vars, SavesInv, UNCHANGED <<dbVars, cmds>>, Quiet
  PROVE  SavesInv'
<1>1. \A x \in NoCmds : x \notin OldSpawns' /\ x \notin EarlyMoves' /\ x \notin LateRollbacks'
  BY DEF NoCmds
<1>2. \A M : Holds(cmds', M) => Holds(cmds, M) \/ \E x \in NoCmds : x \in M
  BY DEF NoCmds
<1> QED
  BY <1>1, <1>2, QuietKeepsSaves

\* A move is of the player the session owns in the world.
LEMMA MovePostKeepsSaves ==
  ASSUME WorldInv, [Next]_vars, SavesInv, UNCHANGED dbVars,
         NEW s \in Sessions, HandlePlayerMovementUpdate(s)
  PROVE  SavesInv'
<1>0. TypeOK /\ QueuesTypeOK /\ playerGUID[s] \in Nat
  BY DEF WorldInv, GreetInv, TypeOK, SessionsTypeOK
<1>1. PICK x : x = [type |-> "move", sess |-> s, guid |-> playerGUID[s]]
  OBVIOUS
<1>2. x \in WorldCmds /\ cmds' = Append(cmds, x)
  BY <1>0, <1>1, CmdTypes DEF HandlePlayerMovementUpdate, WorldCmds
<1>3. UNCHANGED <<status, playerGUID, players, nextGuid>>
  BY DEF HandlePlayerMovementUpdate, netVars, simVars
<1>4. x \notin OldSpawns' /\ x \notin LateRollbacks'
  BY <1>1 DEF OldSpawns, LateRollbacks
<1>5. playerGUID[s] \in Issued
  BY DEF HandlePlayerMovementUpdate, WorldInv, Confirmed, Settled, GuidsIssued
<1>6. ASSUME NEW p \in players, p.guid = playerGUID[s]
      PROVE  ~Entering(p.sess)
  BY <1>6 DEF WorldInv, OwnsInside, HandlePlayerMovementUpdate, Entering
<1>7. x \notin EarlyMoves'
  BY <1>1, <1>3, <1>5, <1>6 DEF EarlyMoves, Issued, Entering
<1>8. \A M : Holds(cmds', M) => Holds(cmds, M) \/ \E y \in {x} : y \in M
  BY <1>0, <1>2, PostCmdEffect
<1>9. Quiet
  BY <1>0, ReadingIsQuiet
<1>10. \A y \in {x} : y \notin OldSpawns' /\ y \notin EarlyMoves' /\ y \notin LateRollbacks'
  BY <1>4, <1>7
<1> QED
  BY <1>8, <1>9, <1>10, QuietKeepsSaves

LEMMA MovesKeepSaves ==
  ASSUME WorldInv, [Next]_vars, SavesInv, UNCHANGED dbVars, ExecMove \/ ZoneUpdate
  PROVE  SavesInv'
<1>0. QueuesTypeOK
  BY DEF WorldInv, GreetInv, TypeOK
<1>1. Quiet
  BY MovingIsQuiet
<1>2. CASE ZoneUpdate
  BY <1>1, <1>2, RestKeepsSaves DEF ZoneUpdate
<1>3. CASE ExecMove
  <2>1. \A M : Holds(cmds', M) => Holds(cmds, M) \/ \E x \in NoCmds : x \in M
    BY <1>0, <1>3, TakeCmdEffect DEF ExecMove
  <2>2. \A x \in NoCmds : x \notin OldSpawns' /\ x \notin EarlyMoves' /\ x \notin LateRollbacks'
    BY DEF NoCmds
  <2> QED
    BY <1>1, <2>1, <2>2, QuietKeepsSaves
<1> QED
  BY <1>2, <1>3

\* The row found: a spawn of the character it is of.
LEMMA ServeEnterKeepsSaves ==
  ASSUME WorldInv, OwnershipInv, [Next]_vars, SavesInv, UNCHANGED dbVars,
         NEW s \in Sessions, ServeEnter(s)
  PROVE  SavesInv'
<1>0. /\ TypeOK /\ QueuesTypeOK /\ status \in [Sessions -> WorldSocketStatus]
      /\ requests \in [Sessions -> SUBSET Requests] /\ io \in [Sessions -> Seq(IoMsgs)]
  BY DEF WorldInv, GreetInv, TypeOK, QueuesTypeOK, SessionsTypeOK
<1>1. PICK m, x : m = Head(io[s]) /\ x = [type |-> "spawn", sess |-> s, char |-> m.char]
  OBVIOUS
<1>2. /\ m \in IoMsgs /\ m.type = "enter" /\ Holds(io[s], {m})
      /\ \A t \in Sessions : \A M : Holds(io'[t], M) => Holds(io[t], M)
  BY <1>0, <1>1, TakeEffect DEF ServeEnter
<1>3. m.char \in Chars /\ x \in WorldCmds
  BY <1>1, <1>2 DEF IoMsgs, WorldCmds
<1>4. UNCHANGED <<account, players, nextGuid, requests>>
  BY DEF ServeEnter, simVars
<1>5. m \in EnterRows /\ Entering(s)
  <2>1. m \in EnterRows
    BY <1>2 DEF EnterRows
  <2>2. Holds(io[s], EnterRows)
    BY <1>2, <2>1 DEF Holds
  <2> QED
    BY <2>1, <2>2, EntryMeansEntering
<1>6. status'[s] # status[s] => \A p \in players : p.sess # s
  <2>1. status'[s] # status[s] => life[s] = "open"
    BY DEF ServeEnter
  <2> QED
    BY <2>1, TakenOut DEF ServeEnter
<1>7. \A t \in Sessions : t # s => status'[t] = status[t]
  BY <1>0 DEF ServeEnter, BackToAuthed
<1>8. \A p \in players : status'[p.sess] = status[p.sess]
  BY <1>6, <1>7, CustodyFacts
<1>9. \A M : Holds(cmds', M) => Holds(cmds, M) \/ \E y \in {z \in {x} : m.row = account[s]} : y \in M
  <2>1. CASE cmds' = cmds
    BY <2>1
  <2>2. CASE cmds' # cmds
    <3>1. cmds' = Append(cmds, x) /\ m.row = account[s]
      BY <1>1, <2>2 DEF ServeEnter, OwnRow
    <3> QED
      BY <1>0, <1>3, <3>1, PostCmdEffect
  <2> QED
    BY <2>1, <2>2
<1>10. m.row = account[s] => x \notin OldSpawns'
  <2> SUFFICES ASSUME m.row = account[s], x \in OldSpawns' PROVE FALSE
    OBVIOUS
  <2>1. /\ MayUse(s, m.char)' /\ fetched[s] # latest[m.char]
    BY <1>1 DEF OldSpawns, dbVars
  <2>2. MayUse(s, m.char)
    BY <1>5, <2>1, UseLasts
  <2>3. m \in OldRows(s)
    BY <1>5, <2>1, <2>2 DEF OldRows
  <2> QED
    BY <1>2, <2>3 DEF Holds, SavesInv
<1>11. x \notin EarlyMoves' /\ x \notin LateRollbacks'
  BY <1>1 DEF EarlyMoves, LateRollbacks
<1>12. \A y \in {z \in {x} : m.row = account[s]} :
         y \notin OldSpawns' /\ y \notin EarlyMoves' /\ y \notin LateRollbacks'
  BY <1>10, <1>11
<1>13. /\ \A p \in players : Entering(p.sess)' <=> Entering(p.sess)
       /\ \A t \in Sessions : EnterRequests(t) \subseteq EnterRequests(t)'
  BY <1>4, <1>8 DEF Entering, EnterRequests
<1> QED
  BY <1>2, <1>4, <1>9, <1>12, <1>13, SavesFrame

\* The player is in the world now, or rolled back before it was told.
LEMMA ServeSpawnedKeepsSaves ==
  ASSUME WorldInv, [Next]_vars, SavesInv, UNCHANGED dbVars, NEW s \in Sessions, ServeSpawned(s)
  PROVE  SavesInv'
<1>0. /\ TypeOK /\ QueuesTypeOK /\ status \in [Sessions -> WorldSocketStatus]
      /\ requests \in [Sessions -> SUBSET Requests] /\ io \in [Sessions -> Seq(IoMsgs)]
  BY DEF WorldInv, GreetInv, TypeOK, QueuesTypeOK, SessionsTypeOK
<1>1. PICK m, x : m = Head(io[s]) /\ x = [type |-> "rollback", guid |-> m.guid]
  OBVIOUS
<1>2. /\ m \in IoMsgs /\ m.type = "spawned" /\ Holds(io[s], {m})
      /\ \A t \in Sessions : \A M : Holds(io'[t], M) => Holds(io[t], M)
  BY <1>0, <1>1, TakeEffect DEF ServeSpawned
<1>3. m.guid \in Nat /\ x \in WorldCmds
  BY <1>1, <1>2 DEF IoMsgs, WorldCmds
<1>4. UNCHANGED <<players, nextGuid, requests>>
  BY DEF ServeSpawned, simVars
<1>5. /\ Entering(s)
      /\ m.ok => m.guid \in Issued /\ SpawnResultPending(s, m.guid) /\ Settled(s, m.guid)
  <2>1. Entering(s)
    BY AnsweredStatus DEF ServeSpawned
  <2>2. ASSUME m.ok
        PROVE  m.guid \in Issued /\ m = [type |-> "spawned", ok |-> TRUE, guid |-> m.guid]
    <3>1. m \in Spawned /\ m = [type |-> "spawned", ok |-> TRUE, guid |-> m.guid]
      BY <1>2, <2>2 DEF Spawned, IoMsgs
    <3>2. m \notin {y \in Spawned : y.guid \notin Issued}
      BY <1>2 DEF WorldInv, GuidsIssued, Holds
    <3> QED
      BY <3>1, <3>2
  <2>3. m.ok => SpawnResultPending(s, m.guid)
    BY <1>2, <2>2 DEF SpawnResultPending
  <2> QED
    BY <2>1, <2>2, <2>3 DEF WorldInv, Confirmed
<1>6. \A p \in players : p.sess = s /\ m.ok => p.guid = m.guid
  BY <1>5, CustodyFacts
<1>7. \A t \in Sessions : t # s => status'[t] = status[t]
  BY <1>0 DEF ServeSpawned, BackToAuthed
<1>8. ASSUME NEW p \in players
      PROVE  /\ Entering(p.sess)' => Entering(p.sess)
             /\ Entering(p.sess) => Entering(p.sess)' \/ ~DespawnPending(p.guid)
  <2>1. p.sess \in Sessions
    BY CustodyFacts
  <2>2. CASE p.sess # s
    BY <1>7, <2>1, <2>2 DEF Entering
  <2>3. CASE p.sess = s
    <3>1. CASE life[s] = "open" /\ m.ok
      BY <1>5, <1>6, <2>3, <3>1 DEF Settled
    <3>2. CASE life[s] = "open" /\ ~m.ok
      BY <1>1, <2>3, <3>2, TakenOut DEF ServeSpawned
    <3>3. CASE life[s] # "open"
      BY <1>1, <2>3, <3>3 DEF ServeSpawned, Entering
    <3> QED
      BY <3>1, <3>2, <3>3
  <2> QED
    BY <2>2, <2>3
<1>9. \A M : Holds(cmds', M) => Holds(cmds, M) \/ \E y \in {z \in {x} : life[s] # "open" /\ m.ok} : y \in M
  <2>1. CASE cmds' = cmds
    BY <2>1
  <2>2. CASE cmds' # cmds
    <3>1. cmds' = Append(cmds, x) /\ m.ok /\ life[s] # "open"
      BY <1>1, <2>2 DEF ServeSpawned, PostSpawnRollback
    <3> QED
      BY <1>0, <1>3, <3>1, PostCmdEffect
  <2> QED
    BY <2>1, <2>2
<1>10. x \notin OldSpawns' /\ x \notin EarlyMoves'
  BY <1>1 DEF OldSpawns, EarlyMoves
<1>11. ASSUME life[s] # "open", m.ok
       PROVE  x \notin LateRollbacks'
  <2>1. status' = status
    BY <1>1, <1>11 DEF ServeSpawned
  <2>2. ASSUME NEW p \in players, p.guid = m.guid
        PROVE  p.sess = s
    BY <1>5, <1>11, <2>2 DEF Settled, WorldInv, IndexesAgree
  <2> QED
    BY <1>1, <1>4, <1>5, <2>1, <2>2 DEF LateRollbacks, Entering
<1>12. \A y \in {z \in {x} : life[s] # "open" /\ m.ok} :
         y \notin OldSpawns' /\ y \notin EarlyMoves' /\ y \notin LateRollbacks'
  BY <1>10, <1>11
<1>13. \A t \in Sessions : EnterRequests(t) \subseteq EnterRequests(t)'
  BY <1>4 DEF EnterRequests
<1> QED
  BY <1>2, <1>4, <1>8, <1>9, <1>12, <1>13, SavesFrame

LEMMA ServeLeftKeepsSaves ==
  ASSUME WorldInv, [Next]_vars, SavesInv, UNCHANGED dbVars, NEW s \in Sessions, ServeLeft(s)
  PROVE  SavesInv'
<1>0. QueuesTypeOK /\ status \in [Sessions -> WorldSocketStatus]
  BY DEF WorldInv, GreetInv, TypeOK, SessionsTypeOK
<1>1. /\ UNCHANGED <<players, nextGuid, requests, cmds>>
      /\ \A t \in Sessions : \A M : Holds(io'[t], M) => Holds(io[t], M)
  BY <1>0, TakeEffect DEF ServeLeft, simVars
<1>2. status[s] = "LEAVING_WORLD"
  BY AnsweredStatus DEF ServeLeft
<1>3. \A t \in Sessions : Entering(t)' <=> Entering(t)
  BY <1>0, <1>2 DEF ServeLeft, BackToAuthed, Entering
<1>4. \A p \in players : Entering(p.sess)' <=> Entering(p.sess)
  BY <1>3, CustodyFacts
<1>5. \A t \in Sessions : EnterRequests(t) \subseteq EnterRequests(t)'
  BY <1>1 DEF EnterRequests
<1>6. \A M : Holds(cmds', M) => Holds(cmds, M) \/ \E x \in NoCmds : x \in M
  BY <1>1
<1>7. \A x \in NoCmds : x \notin OldSpawns' /\ x \notin EarlyMoves' /\ x \notin LateRollbacks'
  BY DEF NoCmds
<1> QED
  BY <1>1, <1>4, <1>5, <1>6, <1>7, SavesFrame

\* A command that takes the player out, for the client or for the destructor.
LEMMA DoExitKeepsSaves ==
  ASSUME WorldInv, [Next]_vars, SavesInv, UNCHANGED dbVars,
         NEW s \in Sessions, HandleExitWorld(s) \/ FinishDestroy(s)
  PROVE  SavesInv'
<1>0. QueuesTypeOK /\ status \in [Sessions -> WorldSocketStatus] /\ playerGUID[s] \in Nat
  BY DEF WorldInv, GreetInv, TypeOK, SessionsTypeOK
<1>1. PICK x \in WorldCmds : x.type \in {"exit", "leave"} /\ DoExitWorld(s, x)
  <2>1. /\ [type |-> "exit", sess |-> s, guid |-> playerGUID[s]] \in WorldCmds
        /\ [type |-> "leave", guid |-> playerGUID[s]] \in WorldCmds
    BY <1>0 DEF WorldCmds
  <2> QED
    BY <2>1 DEF HandleExitWorld, FinishDestroy
<1>2. UNCHANGED <<players, nextGuid, requests, io>>
  BY DEF HandleExitWorld, FinishDestroy, simVars
<1>3. \A t \in Sessions : Entering(t)' <=> Entering(t)
  <2>1. CASE status[s] = "AUTHED" \/ playerGUID[s] = 0
    BY <1>1, <2>1 DEF DoExitWorld, Entering
  <2>2. CASE playerGUID[s] # 0
    <3>1. ~Entering(s)
      BY <2>2 DEF WorldInv, OwnsInside, Inside, Entering
    <3> QED
      BY <1>0, <1>1, <3>1 DEF DoExitWorld, Entering
  <2> QED
    BY <2>1, <2>2
<1>4. \A M : Holds(cmds', M) => Holds(cmds, M) \/ \E y \in {x} : y \in M
  BY <1>0, <1>1, PostCmdEffect DEF DoExitWorld
<1>5. x \notin OldSpawns' /\ x \notin EarlyMoves' /\ x \notin LateRollbacks'
  BY <1>1 DEF OldSpawns, EarlyMoves, LateRollbacks
<1>6. \A p \in players : Entering(p.sess)' <=> Entering(p.sess)
  BY <1>3, CustodyFacts
<1>7. \A t \in Sessions : EnterRequests(t) \subseteq EnterRequests(t)'
  BY <1>2 DEF EnterRequests
<1>8. \A y \in {x} : y \notin OldSpawns' /\ y \notin EarlyMoves' /\ y \notin LateRollbacks'
  BY <1>5
<1>9. \A t \in Sessions : \A M : Holds(io'[t], M) => Holds(io[t], M)
  BY <1>2
<1> QED
  BY <1>2, <1>4, <1>6, <1>7, <1>8, <1>9, SavesFrame

LEMMA NetworkKeepsSaves ==
  ASSUME WorldInv, OwnershipInv, [Next]_vars, SavesInv, UNCHANGED dbVars,
         NEW s \in Sessions, OtherNetwork(s) \/ \E r \in requests[s] : r.type # "enter" /\ Respond(s, r)
  PROVE  SavesInv'
<1>0. TypeOK
  BY DEF WorldInv, GreetInv
<1>1. CASE Accept(s) \/ Disconnect(s) \/ EndLateRead(s) \/ ProcessPlayerPacketsQueue(s) \/ BeginDestroy(s)
  <2>1. UNCHANGED cmds
    BY <1>1 DEF Accept, Disconnect, EndLateRead, ProcessPlayerPacketsQueue, BeginDestroy
  <2> QED
    BY <1>0, <1>1, <2>1, LifetimeIsQuiet, RestKeepsSaves
<1>2. CASE HandleGreetcode(s) \/ HandleGreetPacket(s) \/ HandleEnumCharacter(s)
  <2>1. UNCHANGED cmds
    BY <1>2 DEF HandleGreetcode, HandleGreetPacket, HandleEnumCharacter
  <2> QED
    BY <1>0, <1>2, <2>1, ReadingIsQuiet, RestKeepsSaves
<1>3. CASE ServeKick(s) \/ ServeGreetcode(s) \/ ServeEnum(s)
  <2>1. UNCHANGED cmds
    BY <1>3 DEF ServeKick, ServeGreetcode, ServeEnum
  <2> QED
    BY <1>3, <2>1, ServingIsQuiet, RestKeepsSaves
<1>4. ASSUME NEW r \in requests[s], r.type # "enter", Respond(s, r)
      PROVE  SavesInv'
  <2>1. UNCHANGED cmds
    BY <1>4 DEF Respond
  <2> QED
    BY <1>0, <1>4, <2>1, OtherAnswersAreQuiet, RestKeepsSaves
<1>5. CASE HandleExitWorld(s) \/ FinishDestroy(s)
  BY <1>5, DoExitKeepsSaves
<1>6. CASE ServeEnter(s) \/ ServeSpawned(s) \/ ServeLeft(s)
  BY <1>6, ServeEnterKeepsSaves, ServeSpawnedKeepsSaves, ServeLeftKeepsSaves
<1>7. CASE HandlePlayerMovementUpdate(s)
  BY <1>7, MovePostKeepsSaves
<1> QED
  BY <1>1, <1>2, <1>3, <1>4, <1>5, <1>6, <1>7 DEF OtherNetwork, ServeIo

------------------------------------------------------------------------------
(* The worker.                                                             *)

\* The SELECT of ENTER_WORLD joins the queue behind all saves.
LEMMA EnterWorldKeepsSaves ==
  ASSUME WorldInv, [Next]_vars, SavesInv,
         NEW s \in Sessions, NEW c \in Chars, EnterWorld(s, c)
  PROVE  SavesInv'
<1>0. /\ status \in [Sessions -> WorldSocketStatus] /\ requests \in [Sessions -> SUBSET Requests]
      /\ dbQueue \in Seq(LoadRequests \cup SaveRequests)
  BY DEF WorldInv, GreetInv, TypeOK, QueuesTypeOK, SessionsTypeOK, SavesInv, SavesTypeOK,
     LoadRequests, SaveRequests
<1>1. /\ UNCHANGED <<players, nextGuid, io, cmds, account, row, fetched, live, latest>>
      /\ HandleEnterWorld(s, c) /\ status[s] = "AUTHED"
  BY DEF EnterWorld, HandleEnterWorld, simVars
<1>2. \A p \in players : p.sess # s
  BY <1>1, CustodyFacts DEF Entering, Inside
<1>3. \A t \in Sessions : t # s => status'[t] = status[t]
  BY <1>0, <1>1 DEF HandleEnterWorld
<1>4. \A p \in players : Entering(p.sess)' <=> Entering(p.sess)
  BY <1>2, <1>3, CustodyFacts DEF Entering
<1>5. \A t \in Sessions : EnterRequests(t) \subseteq EnterRequests(t)'
  BY <1>0, <1>1 DEF HandleEnterWorld, Ask, EnterRequests
<1>6. \A M : Holds(cmds', M) => Holds(cmds, M) \/ \E x \in NoCmds : x \in M
  BY <1>1
<1>7. \A x \in NoCmds : x \notin OldSpawns' /\ x \notin EarlyMoves' /\ x \notin LateRollbacks'
  BY DEF NoCmds
<1>8. \A t \in Sessions : \A M : Holds(io'[t], M) => Holds(io[t], M)
  BY <1>1
<1>9. CASE requests' = requests
  <2>1. UNCHANGED dbVars
    BY <1>1, <1>9 DEF EnterWorld, dbVars
  <2> QED
    BY <1>1, <1>4, <1>5, <1>6, <1>7, <1>8, <2>1, SavesFrame
<1>10. CASE requests' # requests
  <2>1. PICK x, r : /\ x = [type |-> "load", sess |-> s, char |-> c]
                    /\ r = [type |-> "enter", char |-> c]
    OBVIOUS
  <2>2. /\ dbQueue' = Append(dbQueue, x) /\ r \in requests'[s]
        /\ x \in LoadRequests \cup SaveRequests
    BY <1>0, <1>10, <2>1 DEF EnterWorld, HandleEnterWorld, Ask, LoadRequests
  <2>3. \A d \in Chars : x \notin SavesOf(d)
    BY <2>1 DEF SavesOf
  <2>4. SavesTypeOK'
    BY <1>0, <1>1, <2>2 DEF SavesInv, SavesTypeOK, LoadRequests, SaveRequests
  <2>5. NoProgressLost'
    BY <1>1 DEF SavesInv, NoProgressLost
  <2>6. \A d \in Chars : \A n : Lasting(d, n) => Lasting(d, n)'
    BY <1>0, <1>1, <2>2, <2>3, OtherJoins
  <2>7. AllSaved'
    BY <1>1, <1>4, <2>6 DEF SavesInv, AllSaved
  <2>8. EnterRequests(s) = {}
    BY <1>1, EntryMeansEntering DEF Entering
  <2>9. LoadsLast'
    BY <1>5, <2>1, <2>2, <2>8, LoadsJoin
  <2>10. \A t \in Sessions : ~Holds(io[t], OldRows(t))'
    BY <1>1, <1>8, RowsFrame
  <2>11. ~Holds(cmds, OldSpawns)' /\ ~Holds(cmds, EarlyMoves)' /\ ~Holds(cmds, LateRollbacks)'
    BY <1>1, <1>4, <1>6, <1>7, CmdsFrame
  <2> QED
    BY <2>4, <2>5, <2>7, <2>9, <2>10, <2>11 DEF SavesInv
<1> QED
  BY <1>9, <1>10

\* Where the requests are when the head was executed.
LEMMA QueueAdvances ==
  ASSUME SavesTypeOK, dbQueue # <<>>, dbQueue' = Tail(dbQueue)
  PROVE  /\ 1 \in DOMAIN dbQueue /\ Head(dbQueue) = dbQueue[1]
         /\ Head(dbQueue) \in LoadRequests \cup SaveRequests
         /\ \A i \in DOMAIN dbQueue' : i \in Nat /\ i + 1 \in DOMAIN dbQueue /\ dbQueue'[i] = dbQueue[i + 1]
         /\ \A i \in DOMAIN dbQueue : i # 1 => i > 1
<1>1. dbQueue \in Seq(LoadRequests \cup SaveRequests)
  BY DEF SavesTypeOK, LoadRequests, SaveRequests
<1>2. /\ 1 \in DOMAIN dbQueue /\ Head(dbQueue) = dbQueue[1]
      /\ Head(dbQueue) \in LoadRequests \cup SaveRequests
  BY <1>1
<1>3. \A i \in DOMAIN dbQueue' : i \in Nat /\ i + 1 \in DOMAIN dbQueue /\ dbQueue'[i] = dbQueue[i + 1]
  BY <1>1
<1>4. \A i \in DOMAIN dbQueue : i # 1 => i > 1
  BY <1>1
<1> QED
  BY <1>2, <1>3, <1>4

\* The other loads still wait behind the saves.
LEMMA LoadsAdvance ==
  ASSUME WorldInv, [Next]_vars, SavesInv, dbQueue # <<>>, dbQueue' = Tail(dbQueue),
         \A i \in DOMAIN dbQueue, s \in Sessions, c \in Chars :
           dbQueue[i] = [type |-> "load", sess |-> s, char |-> c] /\ i # 1 =>
             EnterRequests(s) \subseteq EnterRequests(s)'
  PROVE  LoadsLast'
<1> SUFFICES ASSUME NEW i \in DOMAIN dbQueue', NEW s \in Sessions, NEW c \in Chars,
                    dbQueue'[i] = [type |-> "load", sess |-> s, char |-> c]
             PROVE  LoadLast(i, s, c)'
  BY DEF LoadsLast
<1>1. \A j \in DOMAIN dbQueue' : j \in Nat /\ j + 1 \in DOMAIN dbQueue /\ dbQueue'[j] = dbQueue[j + 1]
  BY QueueAdvances DEF SavesInv
<1>2. PICK k : k = i + 1
  OBVIOUS
<1>3. k \in DOMAIN dbQueue /\ k # 1 /\ dbQueue[k] = [type |-> "load", sess |-> s, char |-> c]
  <2>1. DOMAIN dbQueue' \subseteq Nat \ {0}
    BY DEF SavesInv, SavesTypeOK
  <2> QED
    BY <1>1, <1>2, <2>1
<1>4. LoadLast(k, s, c)
  BY <1>3 DEF SavesInv, LoadsLast
<1>5. [type |-> "enter", char |-> c] \in EnterRequests(s)
  BY <1>4 DEF LoadLast, EnterRequests
<1>6. [type |-> "enter", char |-> c] \in requests'[s]
  BY <1>3, <1>5 DEF EnterRequests
<1>7. MayUse(s, c)' => MayUse(s, c)
  BY <1>5, UseLasts, EntryMeansEntering
<1>8. ASSUME MayUse(s, c), NEW j \in DOMAIN dbQueue', j > i
      PROVE  dbQueue'[j] \notin SavesOf(c)
  <2>1. j + 1 \in DOMAIN dbQueue /\ j + 1 > k /\ dbQueue'[j] = dbQueue[j + 1]
    BY <1>1, <1>2, <1>8
  <2> QED
    BY <1>4, <1>8, <2>1 DEF LoadLast
<1>9. ASSUME NEW j \in DOMAIN dbQueue', dbQueue'[j].type = "load", dbQueue'[j].sess = s
      PROVE  j = i
  <2>1. j \in Nat /\ i \in Nat /\ j + 1 \in DOMAIN dbQueue /\ dbQueue'[j] = dbQueue[j + 1]
    BY <1>1
  <2>2. j + 1 = k
    BY <1>4, <1>9, <2>1 DEF LoadLast
  <2> QED
    BY <1>2, <2>1, <2>2
<1>10. SavesOf(c)' = SavesOf(c)
  BY DEF SavesOf
<1> QED
  BY <1>6, <1>7, <1>8, <1>9, <1>10 DEF LoadLast

LEMMA ExecuteSaveKeepsSaves ==
  ASSUME WorldInv, [Next]_vars, SavesInv, ExecuteSave
  PROVE  SavesInv'
<1>0. /\ dbQueue \in Seq(LoadRequests \cup SaveRequests) /\ row \in [Chars -> 0..MaxProgress]
  BY DEF SavesInv, SavesTypeOK, LoadRequests, SaveRequests
<1>1. /\ UNCHANGED <<players, nextGuid, io, cmds, status, requests, fetched, live, latest>>
      /\ dbQueue # <<>> /\ dbQueue' = Tail(dbQueue) /\ Head(dbQueue).type = "save"
      /\ row' = [row EXCEPT ![Head(dbQueue).char] = Head(dbQueue).data]
  BY DEF ExecuteSave, vars, simVars, netVars
<1>2. Head(dbQueue) \in SaveRequests
  BY <1>1, QueueAdvances DEF SavesInv, LoadRequests
<1>3. SavesTypeOK'
  <2>1. dbQueue' \in Seq(LoadRequests \cup SaveRequests)
    BY <1>0, <1>1
  <2>2. row' \in [Chars -> 0..MaxProgress]
    BY <1>0, <1>1, <1>2 DEF SaveRequests
  <2> QED
    BY <1>1, <2>1, <2>2 DEF SavesInv, SavesTypeOK, LoadRequests, SaveRequests
<1>4. ASSUME NEW c \in Chars, NEW n, Lasting(c, n)
      PROVE  Lasting(c, n)'
  <2>1. Head(dbQueue) \notin SavesOf(c) => row'[c] = row[c]
    BY <1>0, <1>1, <1>2 DEF SavesOf, SaveRequests
  <2>2. Head(dbQueue) \in SavesOf(c) => row'[c] = Head(dbQueue).data
    BY <1>0, <1>1 DEF SavesOf
  <2> QED
    BY <1>0, <1>1, <1>4, <2>1, <2>2, HeadExecuted
<1>5. AllSaved' /\ NoProgressLost'
  BY <1>1, <1>4 DEF SavesInv, AllSaved, NoProgressLost, Entering
<1>6. LoadsLast'
  BY <1>1, LoadsAdvance DEF EnterRequests
<1>7. \A s \in Sessions : ~Holds(io[s], OldRows(s))'
  BY <1>1, RowsFrame
<1>8. ~Holds(cmds, OldSpawns)' /\ ~Holds(cmds, EarlyMoves)' /\ ~Holds(cmds, LateRollbacks)'
  <2>1. \A M : Holds(cmds', M) => Holds(cmds, M) \/ \E x \in NoCmds : x \in M
    BY <1>1
  <2>2. \A x \in NoCmds : x \notin OldSpawns' /\ x \notin EarlyMoves' /\ x \notin LateRollbacks'
    BY DEF NoCmds
  <2>3. \A p \in players : Entering(p.sess)' <=> Entering(p.sess)
    BY <1>1 DEF Entering
  <2> QED
    BY <1>1, <2>1, <2>2, <2>3, CmdsFrame
<1> QED
  BY <1>3, <1>5, <1>6, <1>7, <1>8 DEF SavesInv

\* The row that is read is the one the last stay left.
LEMMA ExecuteLoadKeepsSaves ==
  ASSUME WorldInv, OwnershipInv, NoOverlap, [Next]_vars, SavesInv, ExecuteLoad
  PROVE  SavesInv'
<1>0. /\ dbQueue \in Seq(LoadRequests \cup SaveRequests) /\ row \in [Chars -> 0..MaxProgress]
      /\ fetched \in [Sessions -> 0..MaxProgress]
      /\ requests \in [Sessions -> SUBSET Requests] /\ io \in [Sessions -> Seq(IoMsgs)] /\ QueuesTypeOK
  BY DEF SavesInv, SavesTypeOK, LoadRequests, SaveRequests, WorldInv, GreetInv, TypeOK, QueuesTypeOK
<1>1. PICK s, c, r : /\ s = Head(dbQueue).sess /\ c = Head(dbQueue).char
                     /\ r = [type |-> "enter", char |-> c]
  OBVIOUS
<1>2. /\ UNCHANGED <<players, nextGuid, cmds, status, account, life, row, live, latest>>
      /\ dbQueue # <<>> /\ dbQueue' = Tail(dbQueue) /\ Head(dbQueue).type = "load"
      /\ fetched' = [fetched EXCEPT ![s] = row[c]]
      /\ r \in requests[s] /\ requests' = [requests EXCEPT ![s] = @ \ {r}]
      /\ UNCHANGED io \/ \E m \in Answers(r) : Post(s, m)
  BY <1>1 DEF ExecuteLoad, Respond, simVars, netVars
<1>3. /\ s \in Sessions /\ c \in Chars /\ r \in Requests /\ r \in EnterRequests(s)
      /\ Head(dbQueue) = [type |-> "load", sess |-> s, char |-> c]
  <2>1. Head(dbQueue) \in LoadRequests
    BY <1>2, QueueAdvances DEF SavesInv, SaveRequests
  <2> QED
    BY <1>1, <1>2, <2>1 DEF LoadRequests, Requests, EnterRequests
<1>4. MayUse(s, c) => row[c] = latest[c]
  <2> SUFFICES ASSUME MayUse(s, c) PROVE row[c] = latest[c]
    OBVIOUS
  <2>1. \A j \in DOMAIN dbQueue : dbQueue[j] \notin SavesOf(c)
    <3>1. 1 \in DOMAIN dbQueue /\ Head(dbQueue) = dbQueue[1] /\ \A j \in DOMAIN dbQueue : j # 1 => j > 1
      BY <1>2, QueueAdvances DEF SavesInv
    <3>2. dbQueue[1] \notin SavesOf(c)
      BY <1>2, <3>1 DEF SavesOf
    <3>3. LoadLast(1, s, c)
      BY <1>3, <3>1 DEF SavesInv, LoadsLast
    <3> QED
      BY <3>1, <3>2, <3>3 DEF LoadLast
  <2>2. \A p \in players : p.char # c
    BY <1>3, EntryMeansAbsent
  <2>3. Lasting(c, latest[c])
    BY <1>3, <2>2 DEF SavesInv, AllSaved
  <2> QED
    BY <2>1, <2>3 DEF Lasting
<1>5. SavesTypeOK'
  <2>1. dbQueue' \in Seq(LoadRequests \cup SaveRequests)
    BY <1>0, <1>2
  <2>2. fetched' \in [Sessions -> 0..MaxProgress]
    BY <1>0, <1>2, <1>3
  <2> QED
    BY <1>2, <2>1, <2>2 DEF SavesInv, SavesTypeOK, LoadRequests, SaveRequests
<1>6. ASSUME NEW d \in Chars, NEW n, Lasting(d, n)
      PROVE  Lasting(d, n)'
  <2>1. Head(dbQueue) \notin SavesOf(d)
    BY <1>2 DEF SavesOf
  <2> QED
    BY <1>0, <1>2, <1>6, <2>1, HeadExecuted
<1>7. AllSaved' /\ NoProgressLost'
  BY <1>2, <1>6 DEF SavesInv, AllSaved, NoProgressLost, Entering
<1>8. LoadsLast'
  <2>1. ASSUME NEW i \in DOMAIN dbQueue, NEW t \in Sessions, NEW d \in Chars,
               dbQueue[i] = [type |-> "load", sess |-> t, char |-> d], i # 1
        PROVE  EnterRequests(t) \subseteq EnterRequests(t)'
    <3>1. 1 \in DOMAIN dbQueue /\ Head(dbQueue) = dbQueue[1] /\ LoadLast(1, s, c)
      BY <1>2, <1>3, QueueAdvances DEF SavesInv, LoadsLast
    <3>2. t # s
      BY <2>1, <3>1 DEF LoadLast
    <3> QED
      BY <1>0, <1>2, <3>2 DEF EnterRequests
  <2> QED
    BY <1>2, <2>1, LoadsAdvance
<1>9. ASSUME NEW t \in Sessions, Holds(io'[t], OldRows(t)')
      PROVE  FALSE
  <2>1. OldRows(t)' \subseteq EnterRows /\ EnterRows \subseteq EnterMsgs
    BY DEF OldRows, EnterRows, EnterMsgs
  <2>2. CASE t # s
    <3>1. io'[t] = io[t]
      <4>1. \A m : Post(s, m) => io'[t] = io[t]
        BY <1>0, <2>2 DEF Post
      <4> QED
        BY <1>2, <4>1
    <3>2. OldRows(t)' = OldRows(t)
      BY <1>0, <1>2, <2>2 DEF OldRows, EnterRows, MayUse
    <3> QED
      BY <1>9, <3>1, <3>2 DEF SavesInv
  <2>3. CASE t = s
    <3>1. ~Holds(io[s], EnterMsgs)
      BY <1>3 DEF WorldInv, OneEntry
    <3>2. ~Holds(io[s], OldRows(t)')
      BY <2>1, <3>1 DEF Holds
    <3>3. PICK m \in Answers(r) : Post(s, m)
      BY <1>2, <1>9, <2>3, <3>2
    <3>4. m \in IoMsgs /\ m.char = c
      <4>1. m \in IoMsgs
        BY <1>3, AnswersType
      <4>2. m.char = c
        BY <1>1, <3>3 DEF Answers
      <4> QED
        BY <4>1, <4>2
    <3>5. m \in OldRows(t)'
      BY <1>0, <1>3, <1>9, <2>3, <3>2, <3>3, <3>4, PostEffect
    <3>6. MayUse(s, c) /\ row[c] # latest[c]
      BY <1>0, <1>2, <1>3, <2>3, <3>4, <3>5 DEF OldRows, MayUse
    <3> QED
      BY <1>4, <3>6
  <2> QED
    BY <2>2, <2>3
<1>10. ~Holds(cmds, EarlyMoves)' /\ ~Holds(cmds, LateRollbacks)'
  BY <1>2 DEF SavesInv, EarlyMoves, LateRollbacks, Issued, Entering
<1>11. ~Holds(cmds, OldSpawns)'
  <2>1. ~Holds(cmds, SpawnsOf(s))
    BY <1>3 DEF WorldInv, OneEntry
  <2>2. ASSUME NEW i \in DOMAIN cmds, cmds[i] \in OldSpawns'
        PROVE  cmds[i] \in OldSpawns
    <3>1. cmds[i] \in WorldCmds /\ cmds[i].type = "spawn"
      BY <2>2 DEF OldSpawns
    <3>2. cmds[i].sess # s
      BY <2>1, <3>1 DEF SpawnsOf, Holds
    <3> QED
      BY <1>0, <1>2, <2>2, <3>2 DEF OldSpawns, MayUse
  <2> QED
    BY <1>2, <2>2 DEF SavesInv, Holds
<1> QED
  BY <1>5, <1>7, <1>8, <1>9, <1>10, <1>11 DEF SavesInv

------------------------------------------------------------------------------
(* The simulation.                                                         *)

\* The simulation takes a command: what waits behind it is still right.
LEMMA TakenCmdFrame ==
  ASSUME WorldInv, SavesInv, NEW h, CmdHead(h), cmds' = Tail(cmds),
         UNCHANGED <<status, account, life, fetched>>,
         \A s \in Sessions, c \in Chars :
           MayUse(s, c) /\ Holds(cmds, SpawnsOf(s)) => latest'[c] = latest[c],
         Issued \subseteq Issued',
         \A p \in players' : p \in players \/ (p.guid \notin Issued /\ Entering(p.sess))
  PROVE  ~Holds(cmds, OldSpawns)' /\ ~Holds(cmds, EarlyMoves)' /\ ~Holds(cmds, LateRollbacks)'
<1>0. \A M : Holds(cmds', M) => Holds(cmds, M)
  BY TakeCmdEffect DEF WorldInv, GreetInv, TypeOK
<1>1. ~Holds(cmds', OldSpawns')
  <2> SUFFICES ASSUME Holds(cmds, OldSpawns') PROVE FALSE
    BY <1>0
  <2>1. PICK i \in DOMAIN cmds : cmds[i] \in OldSpawns'
    BY DEF Holds
  <2>2. PICK c, s : c = cmds[i] /\ s = c.sess
    OBVIOUS
  <2>3. c \in WorldCmds /\ c.type = "spawn" /\ MayUse(s, c.char) /\ fetched[s] # latest'[c.char]
    BY <2>1, <2>2 DEF OldSpawns, MayUse
  <2>4. c \in SpawnsOf(s) /\ s \in Sessions /\ c.char \in Chars
    BY <2>2, <2>3 DEF SpawnsOf, WorldCmds
  <2>5. Holds(cmds, SpawnsOf(s))
    BY <2>2, <2>4 DEF Holds
  <2>6. c \in OldSpawns
    BY <2>2, <2>3, <2>4, <2>5 DEF OldSpawns
  <2> QED
    BY <2>2, <2>6 DEF Holds, SavesInv
<1>2. ~Holds(cmds', EarlyMoves')
  <2>1. \A p : Entering(p.sess)' <=> Entering(p.sess)
    BY DEF Entering
  <2>2. EarlyMoves' \subseteq EarlyMoves
    BY <2>1 DEF EarlyMoves
  <2> QED
    BY <1>0, <2>2, HoldsMore DEF SavesInv
<1>3. ~Holds(cmds', LateRollbacks')
  <2>1. LateRollbacks' \subseteq LateRollbacks
    BY DEF LateRollbacks, Entering
  <2> QED
    BY <1>0, <2>1, HoldsMore DEF SavesInv
<1> QED
  BY <1>1, <1>2, <1>3

\* A player that leaves is out of the indexes.
LEMMA DespawnTakes ==
  ASSUME WorldInv, NEW g, Despawn(g)
  PROVE  players' = {p \in players : p.guid # g}
  BY DEF Despawn, WorldInv, IndexesAgree

\* The row is still the last one when the player is created from it.
LEMMA SpawnFetchedKeepsSaves ==
  ASSUME WorldInv, OwnershipInv, [Next]_vars, SavesInv, SpawnFetched
  PROVE  SavesInv'
<1>a. PICK s, c, n : s = Head(cmds).sess /\ c = Head(cmds).char /\ n = nextGuid
  OBVIOUS
<1>b. PICK e : e = [guid |-> n, char |-> c, sess |-> s]
  OBVIOUS
<1>0. /\ TypeOK /\ QueuesTypeOK /\ nextGuid \in Nat \ {0}
      /\ live \in [Chars -> 0..MaxProgress] /\ fetched \in [Sessions -> 0..MaxProgress]
  BY DEF WorldInv, GreetInv, TypeOK, SimulationTypeOK, SavesInv, SavesTypeOK
<1>1. /\ ExecSpawn /\ CmdHead("spawn") /\ cmds' = Tail(cmds)
      /\ UNCHANGED <<status, account, life, requests, dbQueue, row, fetched, latest>>
      /\ live' = IF players' = players THEN live ELSE [live EXCEPT ![c] = fetched[s]]
  BY <1>a DEF SpawnFetched, ExecSpawn, netVars
<1>2. /\ Head(cmds) \in WorldCmds /\ Head(cmds).type = "spawn"
      /\ \A M : Holds(cmds, M) <=> Head(cmds) \in M \/ Holds(cmds', M)
  BY <1>0, <1>1, TakeCmdEffect
<1>3. s \in Sessions /\ c \in Chars /\ Head(cmds) \in SpawnsOf(s)
  BY <1>a, <1>2 DEF WorldCmds, SpawnsOf
<1>4. \/ UNCHANGED <<io, players>> /\ nextGuid' = nextGuid
      \/ /\ UNCHANGED players /\ nextGuid' \in {nextGuid, nextGuid + 1}
         /\ \E g \in Nat : Post(s, [type |-> "spawned", ok |-> FALSE, guid |-> g])
      \/ /\ players' = players \cup {e} /\ nextGuid' = nextGuid + 1
         /\ ~Expired(s) /\ charIdToGuid[c] = 0
         /\ Post(s, [type |-> "spawned", ok |-> TRUE, guid |-> n])
  BY <1>0, <1>1, <1>a, <1>b DEF ExecSpawn, GetNextGUID, simVars
<1>5. Entering(s)
  BY <1>2, <1>3, EntryMeansEntering
<1>6. Issued \subseteq Issued' /\ n \notin Issued
  BY <1>0, <1>4, <1>a DEF Issued
<1>7. players' = players \/ players' = players \cup {e}
  BY <1>4
<1>8. e.guid = n /\ e.char = c /\ e.sess = s
  BY <1>b
<1>9. ~Holds(cmds, OldSpawns)' /\ ~Holds(cmds, EarlyMoves)' /\ ~Holds(cmds, LateRollbacks)'
  <2>1. \A p \in players' : p \in players \/ (p.guid \notin Issued /\ Entering(p.sess))
    BY <1>5, <1>6, <1>7, <1>8
  <2> QED
    BY <1>1, <1>6, <2>1, TakenCmdFrame
<1>10. \A t \in Sessions : \A M : M \subseteq EnterRows /\ Holds(io'[t], M) => Holds(io[t], M)
  <2>1. ASSUME NEW ok \in BOOLEAN, NEW g \in Nat, Post(s, [type |-> "spawned", ok |-> ok, guid |-> g]),
               NEW t \in Sessions, NEW M, M \subseteq EnterRows, Holds(io'[t], M)
        PROVE  Holds(io[t], M)
    <3>1. PICK m : m = [type |-> "spawned", ok |-> ok, guid |-> g]
      OBVIOUS
    <3>2. m \in IoMsgs /\ m \notin EnterRows /\ Post(s, m)
      BY <2>1, <3>1 DEF IoMsgs, EnterRows
    <3>3. m \notin M
      BY <2>1, <3>2
    <3> QED
      BY <1>0, <1>3, <2>1, <3>2, <3>3, PostEffect
  <2>2. n \in Nat
    BY <1>0, <1>a
  <2> QED
    BY <1>4, <2>1, <2>2
<1>11. \A t \in Sessions : ~Holds(io[t], OldRows(t))'
  BY <1>1, <1>10, RowsFrame
<1>12. LoadsLast'
  BY <1>1, LoadsFrame DEF EnterRequests
<1>13. AllSaved'
  <2>1. \A d, x : Lasting(d, x)' <=> Lasting(d, x)
    BY <1>1 DEF Lasting, SavesOf
  <2>2. \A p : Entering(p.sess)' <=> Entering(p.sess)
    BY <1>1 DEF Entering
  <2>3. players \subseteq players'
    BY <1>7
  <2> QED
    BY <1>1, <2>1, <2>2, <2>3 DEF SavesInv, AllSaved
<1>14. SavesTypeOK'
  <2>1. live' \in [Chars -> 0..MaxProgress]
    BY <1>0, <1>1, <1>3
  <2> QED
    BY <1>1, <2>1 DEF SavesInv, SavesTypeOK
<1>15. NoProgressLost'
  <2>1. CASE players' = players
    BY <1>1, <2>1 DEF SavesInv, NoProgressLost
  <2>2. CASE players' # players
    <3>1. players' = players \cup {e} /\ ~Expired(s) /\ charIdToGuid[c] = 0
      BY <1>4, <2>2
    <3>2. MayUse(s, c)
      <4>1. Head(cmds) \notin ForeignSpawns
        BY <1>2 DEF OwnershipInv
      <4> QED
        BY <1>2, <1>a, <3>1, <4>1 DEF ForeignSpawns, MayUse, Expired
    <3>3. fetched[s] = latest[c]
      <4>1. Head(cmds) \notin OldSpawns
        BY <1>2 DEF SavesInv
      <4> QED
        BY <1>2, <1>a, <3>2, <4>1 DEF OldSpawns
    <3>4. ASSUME NEW p \in players
          PROVE  p.char # c
      <4>1. p.guid # 0
        BY <1>0, CustodyFacts DEF Issued
      <4> QED
        BY <3>1, <4>1 DEF WorldInv, IndexesAgree
    <3>5. live'[c] = latest[c] /\ \A d : d # c => live'[d] = live[d]
      BY <1>0, <1>1, <1>3, <2>2, <3>3
    <3> QED
      BY <1>1, <1>8, <3>1, <3>4, <3>5 DEF SavesInv, NoProgressLost
  <2> QED
    BY <2>1, <2>2
<1> QED
  BY <1>9, <1>11, <1>12, <1>13, <1>14, <1>15 DEF SavesInv

\* A player that is taken out unsaved has done nothing yet.
LEMMA RollbackKeepsSaves ==
  ASSUME WorldInv, [Next]_vars, SavesInv, Rollback
  PROVE  SavesInv'
<1>a. PICK g : g = Head(cmds).guid
  OBVIOUS
<1>1. /\ CmdHead("rollback") /\ cmds' = Tail(cmds) /\ Despawn(g)
      /\ UNCHANGED <<status, account, life, requests, io, nextGuid, dbQueue, row, fetched, live, latest>>
  BY <1>a DEF Rollback, ExecDespawn, netVars, dbVars
<1>2. players' = {p \in players : p.guid # g}
  BY <1>1, DespawnTakes
<1>3. /\ Head(cmds) \in WorldCmds /\ Head(cmds).type = "rollback"
      /\ \A M : Holds(cmds, M) <=> Head(cmds) \in M \/ Holds(cmds', M)
  BY <1>1, TakeCmdEffect DEF WorldInv, GreetInv, TypeOK
<1>4. \A p \in players : p.guid = g => Entering(p.sess)
  <2>1. Head(cmds) \notin LateRollbacks
    BY <1>3 DEF SavesInv
  <2> QED
    BY <1>3, <1>a, <2>1 DEF LateRollbacks
<1>5. AllSaved'
  <2>1. \A c, x : Lasting(c, x)' <=> Lasting(c, x)
    BY <1>1 DEF Lasting, SavesOf
  <2>2. \A p : Entering(p.sess)' <=> Entering(p.sess)
    BY <1>1 DEF Entering
  <2>3. ASSUME NEW c \in Chars, \A p \in players' : p.char = c => Entering(p.sess)
        PROVE  \A p \in players : p.char = c => Entering(p.sess)
    BY <1>2, <1>4, <2>3
  <2> QED
    BY <1>1, <2>1, <2>2, <2>3 DEF SavesInv, AllSaved
<1>6. ~Holds(cmds, OldSpawns)' /\ ~Holds(cmds, EarlyMoves)' /\ ~Holds(cmds, LateRollbacks)'
  <2>1. Issued' = Issued
    BY <1>1 DEF Issued
  <2> QED
    BY <1>1, <1>2, <2>1, TakenCmdFrame
<1>7. \A t \in Sessions : ~Holds(io[t], OldRows(t))'
  BY <1>1, RowsFrame
<1>8. LoadsLast'
  BY <1>1, LoadsFrame DEF EnterRequests
<1>9. SavesTypeOK' /\ NoProgressLost'
  BY <1>1, <1>2 DEF SavesInv, SavesTypeOK, NoProgressLost
<1> QED
  BY <1>5, <1>6, <1>7, <1>8, <1>9 DEF SavesInv

\* The save joins the queue before anybody can read the row again.
LEMMA SaveAndDespawnKeepsSaves ==
  ASSUME WorldInv, OwnershipInv, NoOverlap, [Next]_vars, SavesInv, SaveAndDespawn
  PROVE  SavesInv'
<1>a. PICK g, S : g = Head(cmds).guid /\ S = LoadRequests \cup SaveRequests
  OBVIOUS
<1>0. /\ QueuesTypeOK /\ dbQueue \in Seq(S) /\ live \in [Chars -> 0..MaxProgress]
  BY <1>a DEF WorldInv, GreetInv, TypeOK, SavesInv, SavesTypeOK, LoadRequests, SaveRequests
<1>1. /\ cmds' = Tail(cmds) /\ Despawn(g) /\ Save(g)
      /\ UNCHANGED <<status, account, life, requests, nextGuid, row, fetched, live, latest>>
      /\ \/ CmdHead("exit") /\ Post(Head(cmds).sess, [type |-> "left"])
         \/ CmdHead("leave") /\ UNCHANGED io
  BY <1>a DEF SaveAndDespawn, ExecExit, ExecDespawn, netVars
<1>2. players' = {p \in players : p.guid # g}
  BY <1>1, DespawnTakes
<1>3. ~Holds(cmds, OldSpawns)' /\ ~Holds(cmds, EarlyMoves)' /\ ~Holds(cmds, LateRollbacks)'
  <2>1. Issued' = Issued
    BY <1>1 DEF Issued
  <2> QED
    BY <1>1, <1>2, <2>1, TakenCmdFrame
<1>4. \A t \in Sessions : \A M : M \subseteq EnterRows /\ Holds(io'[t], M) => Holds(io[t], M)
  <2>1. ASSUME CmdHead("exit"), Post(Head(cmds).sess, [type |-> "left"]),
               NEW t \in Sessions, NEW M, M \subseteq EnterRows, Holds(io'[t], M)
        PROVE  Holds(io[t], M)
    <3>1. PICK m, s : m = [type |-> "left"] /\ s = Head(cmds).sess
      OBVIOUS
    <3>2. Head(cmds) \in WorldCmds /\ Head(cmds).type = "exit"
      BY <1>0, <1>1, <2>1, TakeCmdEffect
    <3>3. s \in Sessions
      BY <3>1, <3>2 DEF WorldCmds
    <3>4. m \in IoMsgs /\ m \notin EnterRows /\ Post(s, m)
      BY <2>1, <3>1 DEF IoMsgs, EnterRows
    <3>5. m \notin M
      BY <2>1, <3>4
    <3> QED
      BY <1>0, <2>1, <3>3, <3>4, <3>5, PostEffect
  <2> QED
    BY <1>1, <2>1
<1>5. \A t \in Sessions : ~Holds(io[t], OldRows(t))'
  BY <1>1, <1>4, RowsFrame
<1>6. NoProgressLost'
  BY <1>1, <1>2 DEF SavesInv, NoProgressLost
<1>7. \A p : Entering(p.sess)' <=> Entering(p.sess)
  BY <1>1 DEF Entering
<1>8. CASE UNCHANGED dbQueue /\ players' = players
  <2>1. LoadsLast'
    BY <1>1, <1>8, LoadsFrame DEF EnterRequests
  <2>2. AllSaved'
    BY <1>1, <1>7, <1>8, AllSavedFrame
  <2>3. SavesTypeOK'
    BY <1>1, <1>8 DEF SavesInv, SavesTypeOK
  <2> QED
    BY <1>3, <1>5, <1>6, <2>1, <2>2, <2>3 DEF SavesInv
<1>9. ASSUME NEW p \in players, p.guid = g,
             dbQueue' = Append(dbQueue, [type |-> "save", char |-> p.char, data |-> live[p.char]])
      PROVE  SavesInv'
  <2>1. PICK c, x : c = p.char /\ x = [type |-> "save", char |-> c, data |-> live[c]]
    OBVIOUS
  <2>2. c \in Chars /\ x \in S /\ x \in SavesOf(c) /\ x.data = latest[c] /\ x.type = "save"
        /\ dbQueue' = Append(dbQueue, x)
    BY <1>0, <1>9, <1>a, <2>1, CustodyFacts DEF SaveRequests, SavesOf, SavesInv, NoProgressLost
  <2>3. \A d : d # c => x \notin SavesOf(d)
    BY <2>1 DEF SavesOf
  <2>4. SavesTypeOK'
    <3>1. dbQueue' \in Seq(S)
      BY <1>0, <2>2
    <3> QED
      BY <1>1, <1>a, <3>1 DEF SavesInv, SavesTypeOK, LoadRequests, SaveRequests
  <2>5. AllSaved'
    <3>1. Lasting(c, latest[c])'
      BY <1>0, <1>1, <2>2, SaveJoins
    <3>2. ASSUME NEW d \in Chars, d # c, \A q \in players' : q.char = d => Entering(q.sess)
          PROVE  Lasting(d, latest[d])'
      <4>1. ASSUME NEW q \in players, q.char = d
            PROVE  q \in players'
        <5>1. q.guid # g
          BY <1>9, <2>1, <3>2, <4>1 DEF WorldInv, IndexesAgree
        <5> QED
          BY <1>2, <5>1
      <4>2. Lasting(d, latest[d])
        BY <3>2, <4>1 DEF SavesInv, AllSaved
      <4>3. \A y : Lasting(d, y) => Lasting(d, y)'
        BY <1>0, <1>1, <2>2, <2>3, <3>2, OtherJoins
      <4> QED
        BY <1>1, <4>2, <4>3
    <3> QED
      BY <1>7, <3>1, <3>2 DEF AllSaved
  <2>6. \A s \in Sessions : MayUse(s, c) => EnterRequests(s) = {}
    BY <1>9, <2>1, <2>2, EntryMeansAbsent
  <2>7. \A s \in Sessions : EnterRequests(s) \subseteq EnterRequests(s)'
    BY <1>1 DEF EnterRequests
  <2>8. LoadsLast'
    BY <1>a, <2>1, <2>2, <2>6, <2>7, LoadsJoin
  <2> QED
    BY <1>3, <1>5, <1>6, <2>4, <2>5, <2>8 DEF SavesInv
<1> QED
  <2>1. CASE {p \in players : p.guid = g} = {}
    BY <1>1, <1>2, <1>8, <2>1 DEF Save
  <2>2. CASE {p \in players : p.guid = g} # {}
    BY <1>1, <1>9, <2>2 DEF Save
  <2> QED
    BY <2>1, <2>2

\* Only a player whose session was told so progresses: it is not read any more.
LEMMA ProgressKeepsSaves ==
  ASSUME WorldInv, OwnershipInv, NoOverlap, [Next]_vars, SavesInv, Progress
  PROVE  SavesInv'
<1>0. /\ live \in [Chars -> 0..MaxProgress] /\ latest \in [Chars -> 0..MaxProgress]
  BY DEF SavesInv, SavesTypeOK
<1>1. PICK p \in players :
        /\ p.guid = Head(cmds).guid /\ latest[p.char] < MaxProgress
        /\ live' = [live EXCEPT ![p.char] = @ + 1]
        /\ latest' = [latest EXCEPT ![p.char] = IF live[p.char] + 1 > @ THEN live[p.char] + 1 ELSE @]
  BY DEF Progress
<1>2. /\ CmdHead("move") /\ cmds' = Tail(cmds)
      /\ UNCHANGED <<status, account, life, requests, io, players, nextGuid, dbQueue, row, fetched>>
  BY DEF Progress, ExecMove, netVars, simVars
<1>3. PICK c : c = p.char
  OBVIOUS
<1>4. /\ c \in Chars /\ live[c] = latest[c] /\ latest[c] \in 0..MaxProgress
      /\ p.sess \in Sessions
  BY <1>0, <1>3, CustodyFacts DEF SavesInv, NoProgressLost
<1>5. /\ live'[c] = latest[c] + 1 /\ latest'[c] = latest[c] + 1
      /\ \A d \in Chars : d # c => live'[d] = live[d] /\ latest'[d] = latest[d]
      /\ live' \in [Chars -> 0..MaxProgress] /\ latest' \in [Chars -> 0..MaxProgress]
  <2>1. latest[c] + 1 \in 0..MaxProgress /\ latest[c] + 1 > latest[c]
    BY <1>1, <1>3, <1>4, MaxProgressAssumption
  <2> QED
    BY <1>0, <1>1, <1>3, <1>4, <2>1
<1>6. ~Entering(p.sess)
  <2>1. /\ Head(cmds) \in WorldCmds /\ Head(cmds).type = "move" /\ Head(cmds) \notin EarlyMoves
    BY <1>2, TakeCmdEffect DEF SavesInv, WorldInv, GreetInv, TypeOK
  <2> QED
    BY <1>1, <2>1 DEF EarlyMoves
<1>7. ASSUME NEW s \in Sessions, NEW d \in Chars, MayUse(s, d),
             Holds(io[s], EnterRows) \/ Holds(cmds, SpawnsOf(s))
      PROVE  latest'[d] = latest[d]
  <2>1. d # c
    BY <1>3, <1>7, EntryMeansAbsent
  <2> QED
    BY <1>5, <2>1
<1>8. SavesTypeOK' /\ NoProgressLost'
  <2>1. \A q \in players : q.char \in Chars
    BY CustodyFacts
  <2> QED
    BY <1>2, <1>5, <2>1 DEF SavesInv, SavesTypeOK, NoProgressLost
<1>9. AllSaved'
  <2>1. \A d, x : Lasting(d, x)' <=> Lasting(d, x)
    BY <1>2 DEF Lasting, SavesOf
  <2>2. \A q : Entering(q.sess)' <=> Entering(q.sess)
    BY <1>2 DEF Entering
  <2> QED
    BY <1>2, <1>3, <1>5, <1>6, <2>1, <2>2 DEF SavesInv, AllSaved
<1>10. LoadsLast'
  BY <1>2, LoadsFrame DEF EnterRequests
<1>11. ASSUME NEW s \in Sessions, Holds(io'[s], OldRows(s)')
       PROVE  FALSE
  <2>1. PICK i \in DOMAIN io[s] : io[s][i] \in OldRows(s)'
    BY <1>2, <1>11 DEF Holds
  <2>2. PICK m : m = io[s][i]
    OBVIOUS
  <2>3. m \in EnterRows /\ MayUse(s, m.char) /\ fetched[s] # latest'[m.char]
    BY <1>2, <2>1, <2>2 DEF OldRows, EnterRows, MayUse
  <2>4. m.char \in Chars /\ Holds(io[s], EnterRows)
    BY <2>2, <2>3 DEF EnterRows, IoMsgs, Holds
  <2>5. m \in OldRows(s)
    BY <1>7, <2>3, <2>4 DEF OldRows
  <2> QED
    BY <2>2, <2>5 DEF SavesInv, Holds
<1>12. ~Holds(cmds, OldSpawns)' /\ ~Holds(cmds, EarlyMoves)' /\ ~Holds(cmds, LateRollbacks)'
  <2>1. Issued' = Issued
    BY <1>2 DEF Issued
  <2> QED
    BY <1>2, <1>7, <2>1, TakenCmdFrame
<1> QED
  BY <1>8, <1>9, <1>10, <1>11, <1>12 DEF SavesInv

------------------------------------------------------------------------------
(* All of it.                                                              *)

LEMMA StepKeepsSaves ==
  ASSUME WorldInv, OwnershipInv, SavesInv, NoOverlap, [SavesNext]_savesVars
  PROVE  WorldInv' /\ OwnershipInv' /\ SavesInv'
<1>0. [Next]_vars
  BY SavesStep DEF SavesInv
<1>1. WorldInv' /\ OwnershipInv'
  BY <1>0, StepKeepsWorldInv, StepKeepsOwnership
<1> SUFFICES SavesInv'
  BY <1>1
<1>2. CASE UNCHANGED savesVars
  <2>1. Quiet /\ UNCHANGED <<cmds, dbVars>>
    BY <1>2 DEF savesVars, vars, netVars, regVars, simVars, Quiet, QuietIo, QuietCmds,
       QuietStatus, QuietLife, QuietPackets, EnterRequests, Inside, Entering
  <2> QED
    BY <1>0, <2>1, RestKeepsSaves
<1>3. ASSUME NEW s \in Sessions, NEW c \in Chars, EnterWorld(s, c)
      PROVE  SavesInv'
  BY <1>0, <1>3, EnterWorldKeepsSaves
<1>4. ASSUME NEW s \in Sessions, OtherNetwork(s), UNCHANGED dbVars
      PROVE  SavesInv'
  BY <1>0, <1>4, NetworkKeepsSaves
<1>5. CASE RespondOther
  BY <1>0, <1>5, NetworkKeepsSaves DEF RespondOther
<1>6. CASE ExecuteLoad \/ ExecuteSave
  BY <1>0, <1>6, ExecuteLoadKeepsSaves, ExecuteSaveKeepsSaves
<1>7. CASE SpawnFetched \/ Rollback
  BY <1>0, <1>7, SpawnFetchedKeepsSaves, RollbackKeepsSaves
<1>8. CASE SaveAndDespawn \/ Progress
  BY <1>0, <1>8, SaveAndDespawnKeepsSaves, ProgressKeepsSaves
<1>9. CASE (ExecMove \/ ZoneUpdate) /\ UNCHANGED dbVars
  BY <1>0, <1>9, MovesKeepSaves
<1> QED
  BY <1>2, <1>3, <1>4, <1>5, <1>6, <1>7, <1>8, <1>9 DEF SavesNext

LEMMA InitSaves == SavesInit => WorldInv /\ OwnershipInv /\ SavesInv
<1> SUFFICES ASSUME SavesInit PROVE WorldInv /\ OwnershipInv /\ SavesInv
  OBVIOUS
<1>1. WorldInv
  BY InitWorldInv DEF SavesInit
<1>2. OwnershipInv
  BY DEF SavesInit, Init, OwnershipInv, GreetingDue, Holds, PlayerOfOwnAccount
<1>3. /\ dbQueue = <<>> /\ players = {} /\ cmds = <<>> /\ io = [s \in Sessions |-> <<>>]
      /\ row = [c \in Chars |-> 0] /\ latest = [c \in Chars |-> 0]
      /\ live = [c \in Chars |-> 0] /\ fetched = [s \in Sessions |-> 0]
  BY DEF SavesInit, Init
<1>4. SavesTypeOK
  BY <1>3, MaxProgressAssumption DEF SavesTypeOK
<1>5. \A M : ~Holds(<<>>, M)
  BY DEF Holds
<1>6. NoProgressLost /\ AllSaved /\ LoadsLast
  BY <1>3, <1>5 DEF NoProgressLost, AllSaved, Lasting, LoadsLast
<1>7. \A s \in Sessions : ~Holds(io[s], OldRows(s))
  BY <1>3, <1>5
<1> QED
  BY <1>1, <1>2, <1>3, <1>4, <1>5, <1>6, <1>7 DEF SavesInv

\* Saves and loads work (WorldSimulation.cpp:117): as long as a player comes
\* back only when the session it had is through, no character is ever in the
\* world with less than it had achieved, whatever the threads do meanwhile.
THEOREM ProgressKept == SavesSpec /\ []NoOverlap => []NoProgressLost
<1> DEFINE I == WorldInv /\ OwnershipInv /\ SavesInv
<1>1. SavesInit => I
  BY InitSaves
<1>2. I /\ NoOverlap /\ [SavesNext]_savesVars => I'
  BY StepKeepsSaves
<1>3. I => NoProgressLost
  BY DEF SavesInv
<1> HIDE DEF I
<1> QED
  BY <1>1, <1>2, <1>3, PTL DEF SavesSpec
==============================================================================
