---------------------------- MODULE WorldSessions ----------------------------
(***************************************************************************)
(* The life of a WorldSession of the world server and of the player entity *)
(* it owns in the WorldSimulation.                                         *)
(*                                                                         *)
(* Three kinds of threads meet here:                                       *)
(*   - the NetworkThread that owns a session runs its packet handlers, its *)
(*     DB callbacks, the results of its WorldCmds and the kicks posted to  *)
(*     it, one at a time, from the thread's io_context;                    *)
(*   - the DB workers execute its requests and post the responses;         *)
(*   - the simulation (main) thread executes the posted WorldCmds in order *)
(*     and updates the zones.                                              *)
(* A session object serves one connection.  A player who reconnects does   *)
(* so on another session object, maybe while the first is still there.     *)
(*                                                                         *)
(* ExecuteWorldCmds swaps the pending vector and runs the batch; commands  *)
(* posted in the meantime run in the next batch.  Order is the order of    *)
(* posting, and a batch may end after any command (the swap may have come  *)
(* before the next one was posted), so one queue stands for both vectors.  *)
(***************************************************************************)
EXTENDS Integers, FiniteSets, Sequences, SequencesExt

CONSTANTS
  Sessions,    \* session objects, one per accepted connection
  Accounts,    \* account ids
  Chars,       \* character ids
  Owner,       \* Owner[c] is the account in the row of character c
  NoAccount,   \* m_data.accountID before the session key is gathered
  Nobody,      \* no session: used only to say what an absent character maps to
  MaxAsks,     \* bound: ENTER_WORLD and ENUM_CHARACTERS requests in a behaviour
  MaxMoves,    \* bound: movement commands a session has pending
  MaxQueue     \* PLAYER_PACKET_QUEUE_MAX_SIZE

ASSUME OwnerAssumption == Owner \in [Chars -> Accounts]
ASSUME NoAccountAssumption == NoAccount \notin Accounts
ASSUME NobodyAssumption == Nobody \notin Sessions
ASSUME BoundsAssumption == MaxAsks \in Nat /\ MaxMoves \in Nat /\ MaxQueue \in Nat

VARIABLES
  life,          \* life[s]: socket and object lifetime, see Lives
  lateRead,      \* a read completed successfully before the socket closed
  status,        \* m_status
  account,       \* m_data.accountID
  serial,        \* m_serial
  hasRegistered, \* m_hasRegistered
  playerGUID,    \* m_playerGUID, 0 when the session owns no entity
  packets,       \* m_playerPacketQueue: the entity that issued each packet
  requests,      \* DB requests enqueued and not yet answered
  io,            \* handlers posted to the session's io_context, in order
  sessions,      \* SessionManager::m_sessions
  playerCount,   \* SessionManager::m_playerCount
  nextSerial,    \* WorldSession::s_nextSerial
  cmds,          \* WorldSimulation::m_pendingCmds
  players,       \* WorldSimulation::m_players
  charIdToGuid,  \* WorldSimulation::m_charIdToGuid, 0 when absent
  zone,          \* the player entities the zones own
  nextGuid,      \* GUIDManager's counter
  asked          \* ENTER_WORLD and ENUM_CHARACTERS requests so far (bound only)

netVars  == <<life, lateRead, status, account, serial, hasRegistered, playerGUID>>
regVars  == <<sessions, playerCount, nextSerial>>
simVars  == <<players, charIdToGuid, zone, nextGuid>>
vars == <<netVars, packets, requests, io, regVars, cmds, simVars, asked>>

------------------------------------------------------------------------------
(* Values.                                                                 *)

\* none: not accepted yet; open: IsOpen(); closed: m_Closed, the object lives;
\* dying: no strong reference is left and the destructor runs; dead.
Lives == {"none", "open", "closed", "dying", "dead"}

WorldSocketStatus ==
  {"GATHER_SESSIONKEY", "GATHER_SESSIONKEY_PENDING", "SESSIONKEY_GATHERED",
   "SELECTING_CHARACTERS", "AUTHED", "ENTERING_WORLD", "IN_WORLD", "LEAVING_WORLD"}

Requests == [type : {"greetcode", "enum"}] \cup [type : {"enter"}, char : Chars]

\* ok: the request's errorCode is 0.  row: the account in the row it found.
IoMsgs ==
       [type : {"kick", "left"}]
  \cup [type : {"greetcode"}, ok : BOOLEAN, row : Accounts \cup {NoAccount}]
  \cup [type : {"enum"}, ok : BOOLEAN]
  \cup [type : {"enter"}, ok : BOOLEAN, row : Accounts \cup {NoAccount}, char : Chars]
  \cup [type : {"spawned"}, ok : BOOLEAN, guid : Nat]

WorldCmds ==
       [type : {"spawn"}, sess : Sessions, char : Chars]
  \cup [type : {"exit", "move"}, sess : Sessions, guid : Nat]
  \cup [type : {"leave", "rollback"}, guid : Nat]

Entities == [guid : Nat, char : Chars, sess : Sessions]

NoSlot == [serial |-> 0]
Slots  == [serial : Nat, sess : Sessions]

Expired(s) == life[s] \in {"dying", "dead"}   \* weak_ptr<WorldSession>::expired

\* Slip: the first GUID is 0, which means "no entity".
FirstGUIDInvalid == 0

FirstGUID == 1

Init ==
  /\ life = [s \in Sessions |-> "none"]
  /\ lateRead = [s \in Sessions |-> FALSE]
  /\ status = [s \in Sessions |-> "GATHER_SESSIONKEY"]
  /\ account = [s \in Sessions |-> NoAccount]
  /\ serial = [s \in Sessions |-> 0]
  /\ hasRegistered = [s \in Sessions |-> FALSE]
  /\ playerGUID = [s \in Sessions |-> 0]
  /\ packets = [s \in Sessions |-> <<>>]
  /\ requests = [s \in Sessions |-> {}]
  /\ io = [s \in Sessions |-> <<>>]
  /\ sessions = [a \in Accounts |-> NoSlot]
  /\ playerCount = 0
  /\ nextSerial = 1
  /\ cmds = <<>>
  /\ players = {}
  /\ charIdToGuid = [c \in Chars |-> 0]
  /\ zone = {}
  /\ nextGuid = FirstGUID
  /\ asked = 0

------------------------------------------------------------------------------
(* Sockets.                                                                *)

\* A connection is accepted and its session joins a NetworkThread.
Accept(s) ==
  /\ life[s] = "none"
  /\ life' = [life EXCEPT ![s] = "open"]
  /\ UNCHANGED <<lateRead, status, account, serial, hasRegistered, playerGUID,
                 packets, requests, io, regVars, cmds, simVars, asked>>

\* CloseSocket or ForceCloseSocket outside the read handler.  Unless the
\* session stopped reading, a read may have completed: its handler is queued.
Close(s) ==
  /\ life' = [life EXCEPT ![s] = IF @ = "open" THEN "closed" ELSE @]
  /\ \E late \in BOOLEAN :
       lateRead' = [lateRead EXCEPT ![s] =
                      IF life[s] = "open" /\ status[s] # "GATHER_SESSIONKEY_PENDING"
                      THEN late ELSE @]

\* The read handler ends with the socket closed: no other read follows.
CloseInReader(s) ==
  /\ life' = [life EXCEPT ![s] = IF @ = "open" THEN "closed" ELSE @]
  /\ lateRead' = [lateRead EXCEPT ![s] = FALSE]

\* Read or write error, idle timeout, or the encryption of an answer fails at
\* the end of a handler (before its other effects, it acts as an error of the
\* request; WorldCmdCallback_OnExitWorld has one between two assignments).
Disconnect(s) ==
  /\ life[s] = "open"
  /\ Close(s)
  /\ UNCHANGED <<status, account, serial, hasRegistered, playerGUID,
                 packets, requests, io, regVars, cmds, simVars, asked>>

\* The read handler runs: on an open socket, or on data that arrived before
\* the socket was closed.  One handler may serve several packets in a row.
CanRead(s) == life[s] = "open" \/ (life[s] = "closed" /\ lateRead[s])

\* End of the read handler: AsyncRead does nothing on a closed socket.  The
\* read may also have failed (bad packet, handler returning false).
EndLateRead(s) ==
  /\ life[s] = "closed" /\ lateRead[s]
  /\ CloseInReader(s)
  /\ UNCHANGED <<status, account, serial, hasRegistered, playerGUID,
                 packets, requests, io, regVars, cmds, simVars, asked>>

------------------------------------------------------------------------------
(* DB requests.  The worker drops a request whose cancel token expired.    *)

Ask(s, r) == requests' = [requests EXCEPT ![s] = @ \cup {r}]

Post(s, m) == io' = [io EXCEPT ![s] = Append(@, m)]

Answers(r) ==
  CASE r.type = "greetcode" ->
         [type : {"greetcode"}, ok : BOOLEAN, row : Accounts \cup {NoAccount}]
    [] r.type = "enum" -> [type : {"enum"}, ok : BOOLEAN]
    [] r.type = "enter" ->
         [type : {"enter"}, ok : BOOLEAN, row : {Owner[r.char], NoAccount}, char : {r.char}]

\* ThreadRoutine executes the request and posts the response to the session's
\* io_context.
Respond(s, r) ==
  /\ r \in requests[s]
  /\ requests' = [requests EXCEPT ![s] = @ \ {r}]
  /\ IF Expired(s) THEN UNCHANGED io
                   ELSE \E m \in Answers(r) : Post(s, m)
  /\ UNCHANGED <<netVars, packets, regVars, cmds, simVars, asked>>

------------------------------------------------------------------------------
(* Packet handlers, on the session's NetworkThread.                        *)

\* The greetcode arrived: look up and invalidate its session key.
HandleGreetcode(s) ==
  /\ CanRead(s)
  /\ status[s] = "GATHER_SESSIONKEY"
  /\ status' = [status EXCEPT ![s] = "GATHER_SESSIONKEY_PENDING"]
  /\ Ask(s, [type |-> "greetcode"])
  /\ UNCHANGED <<life, account, serial, hasRegistered, playerGUID,
                 packets, io, regVars, cmds, simVars, asked>>
  /\ lateRead' = [lateRead EXCEPT ![s] = FALSE]  \* the handler stops reading

\* AUTH_SESSION: the character list is asked for in the same handler.
HandleGreetPacket(s) ==
  /\ CanRead(s)
  /\ status[s] = "SESSIONKEY_GATHERED"
  /\ status' = [status EXCEPT ![s] = "SELECTING_CHARACTERS"]
  /\ \/ Ask(s, [type |-> "enum"]) /\ UNCHANGED <<life, lateRead>>
     \/ CloseInReader(s) /\ UNCHANGED requests   \* DB queue full
  /\ UNCHANGED <<account, serial, hasRegistered, playerGUID,
                 packets, io, regVars, cmds, simVars, asked>>

\* ENUM_CHARACTERS of an authed session.
HandleEnumCharacter(s) ==
  /\ CanRead(s)
  /\ status[s] = "AUTHED"
  /\ asked < MaxAsks
  /\ \/ Ask(s, [type |-> "enum"]) /\ UNCHANGED <<life, lateRead>>
     \/ CloseInReader(s) /\ UNCHANGED requests   \* DB queue full
  /\ asked' = asked + 1
  /\ UNCHANGED <<status, account, serial, hasRegistered, playerGUID,
                 packets, io, regVars, cmds, simVars>>

HandleEnterWorld(s, c) ==
  /\ CanRead(s)
  /\ status[s] = "AUTHED"
  /\ asked < MaxAsks
  /\ \/ /\ Ask(s, [type |-> "enter", char |-> c])
        /\ status' = [status EXCEPT ![s] = "ENTERING_WORLD"]
        /\ UNCHANGED <<life, lateRead>>
     \/ /\ CloseInReader(s)                       \* DB queue full
        /\ UNCHANGED <<requests, status>>
  /\ asked' = asked + 1
  /\ UNCHANGED <<account, serial, hasRegistered, playerGUID,
                 packets, io, regVars, cmds, simVars>>

\* Slip: the status changes and no command is posted.
DoExitWorldSilent(s, cmd) ==
  IF status[s] = "AUTHED" \/ playerGUID[s] = 0
  THEN UNCHANGED <<status, cmds>>
  ELSE status' = [status EXCEPT ![s] = "LEAVING_WORLD"] /\ UNCHANGED cmds

\* DoExitWorld: the status and the commands after it, for the given command.
\* It does nothing for a session that already left, or owns no entity.
DoExitWorld(s, cmd) ==
  IF status[s] = "AUTHED" \/ playerGUID[s] = 0
  THEN UNCHANGED <<status, cmds>>
  ELSE /\ status' = [status EXCEPT ![s] = "LEAVING_WORLD"]
       /\ cmds' = Append(cmds, cmd)

HandleExitWorld(s) ==
  /\ CanRead(s)
  /\ status[s] = "IN_WORLD"
  /\ DoExitWorld(s, [type |-> "exit", sess |-> s, guid |-> playerGUID[s]])
  /\ UNCHANGED <<life, lateRead, account, serial, hasRegistered, playerGUID,
                 packets, requests, io, regVars, simVars, asked>>

PendingMoves(s) ==
  {i \in DOMAIN cmds : cmds[i].type = "move" /\ cmds[i].sess = s}

HandlePlayerMovementUpdate(s) ==
  /\ CanRead(s)
  /\ life[s] = "open"
  /\ status[s] = "IN_WORLD"
  /\ Cardinality(PendingMoves(s)) < MaxMoves
  /\ cmds' = Append(cmds, [type |-> "move", sess |-> s, guid |-> playerGUID[s]])
  /\ UNCHANGED <<netVars, packets, requests, io, regVars, simVars, asked>>

\* The NetworkThread's Update drains the packets the simulation queued.
ProcessPlayerPacketsQueue(s) ==
  /\ life[s] = "open"
  /\ status[s] = "IN_WORLD"
  /\ packets[s] # <<>>
  /\ packets' = [packets EXCEPT ![s] = <<>>]
  /\ UNCHANGED <<netVars, requests, io, regVars, cmds, simVars, asked>>

------------------------------------------------------------------------------
(* SessionManager.  A slot's serial tells which session owns it.           *)

\* RegisterSession: the account's previous session, if it still lives, is
\* kicked on its own NetworkThread; the slot goes to the new one.
Kicked(a) ==
  {t \in Sessions : sessions[a] # NoSlot /\ sessions[a].sess = t /\ ~Expired(t)}

RegisterSession(s, newSerial) ==
  LET a == account[s] IN
  /\ sessions' = [sessions EXCEPT ![a] = [serial |-> newSerial, sess |-> s]]
  /\ playerCount' = IF sessions[a] = NoSlot THEN playerCount + 1 ELSE playerCount

\* Slip: the slot is freed whoever owns it now.
UnregisterSessionAnySerial(s) ==
  LET a == account[s] IN
  IF hasRegistered[s] /\ sessions[a] # NoSlot
  THEN /\ sessions' = [sessions EXCEPT ![a] = NoSlot]
       /\ playerCount' = playerCount - 1
  ELSE UNCHANGED <<sessions, playerCount>>

\* Slip: the destructor keeps the slot.
UnregisterSessionForgotten(s) == UNCHANGED <<sessions, playerCount>>

UnregisterSession(s) ==
  LET a == account[s] IN
  IF hasRegistered[s] /\ sessions[a] # NoSlot /\ sessions[a].serial = serial[s]
  THEN /\ sessions' = [sessions EXCEPT ![a] = NoSlot]
       /\ playerCount' = playerCount - 1
  ELSE UNCHANGED <<sessions, playerCount>>

------------------------------------------------------------------------------
(* Handlers posted to the session's io_context.                            *)

IoHead(s, type) == io[s] # <<>> /\ Head(io[s]).type = type

IoRest(s) == [io EXCEPT ![s] = Tail(@)]

\* PostForceCloseSocket.  Its handler keeps the session alive until it ran.
ServeKick(s) ==
  /\ IoHead(s, "kick")
  /\ io' = IoRest(s)
  /\ Close(s)
  /\ UNCHANGED <<status, account, serial, hasRegistered, playerGUID,
                 packets, requests, regVars, cmds, simVars, asked>>

\* DBCallback_GreetcodeLookup
ServeGreetcode(s) ==
  /\ IoHead(s, "greetcode")
  /\ io' = IoRest(s)
  /\ LET m == Head(io[s]) IN
     \/ /\ life[s] # "open"
        /\ UNCHANGED <<life, lateRead, account, status>>
     \/ /\ life[s] = "open" /\ (~m.ok \/ m.row = NoAccount)  \* or an old greetcode
        /\ Close(s)
        /\ UNCHANGED <<account, status>>
     \/ /\ life[s] = "open" /\ m.ok /\ m.row # NoAccount
        /\ account' = [account EXCEPT ![s] = m.row]
        /\ \/ /\ status' = [status EXCEPT ![s] = "SESSIONKEY_GATHERED"]
              /\ UNCHANGED <<life, lateRead>>
           \/ Close(s) /\ UNCHANGED status           \* the key has a wrong size
  /\ UNCHANGED <<serial, hasRegistered, playerGUID,
                 packets, requests, regVars, cmds, simVars, asked>>

\* Slip: every character list authenticates.
FirstListAlways(s) == TRUE

\* The list asked for by HandleGreetPacket, not one of an authed session.
FirstList(s) == status[s] = "SELECTING_CHARACTERS"

\* DBCallback_HandleSPacketEnumCharacter: the first list authenticates the
\* session, which takes its account's slot.
ServeEnum(s) ==
  /\ IoHead(s, "enum")
  /\ LET m == Head(io[s]) IN
     \/ /\ life[s] = "open" /\ ~m.ok
        /\ io' = IoRest(s)
        /\ Close(s)
        /\ UNCHANGED <<status, serial, hasRegistered, regVars>>
     \/ /\ life[s] = "open" /\ m.ok /\ FirstList(s)
        /\ status' = [status EXCEPT ![s] = "AUTHED"]
        /\ serial' = [serial EXCEPT ![s] = nextSerial]
        /\ nextSerial' = nextSerial + 1
        /\ io' = [t \in Sessions |->
                    LET q == IF t = s THEN Tail(io[t]) ELSE io[t]
                    IN IF t \in Kicked(account[s]) THEN Append(q, [type |-> "kick"]) ELSE q]
        /\ RegisterSession(s, nextSerial)
        /\ hasRegistered' = [hasRegistered EXCEPT ![s] = TRUE]
        /\ UNCHANGED <<life, lateRead>>
     \/ /\ life[s] # "open" \/ (m.ok /\ ~FirstList(s))
        /\ io' = IoRest(s)
        /\ UNCHANGED <<life, lateRead, status, serial, hasRegistered, regVars>>
  /\ UNCHANGED <<account, playerGUID, packets, requests, cmds, simVars, asked>>

\* Slip: the packets of an earlier stay are not cleared.
ClearPacketsForgotten(s) == UNCHANGED packets

\* m_playerPacketQueue->Clear()
ClearPackets(s) == packets' = [packets EXCEPT ![s] = <<>>]

\* Slip: any row found will do.
OwnRowAny(s, m) == m.row # NoAccount

\* The row exists and is of the session's account.
OwnRow(s, m) == m.row = account[s]

\* Slip: the status is not set back.
BackToAuthedForgotten(s) == UNCHANGED status

\* The client may choose a character again.
BackToAuthed(s) == status' = [status EXCEPT ![s] = "AUTHED"]

\* DBCallback_HandleEnterWorldChecks
ServeEnter(s) ==
  /\ IoHead(s, "enter")
  /\ io' = IoRest(s)
  /\ LET m == Head(io[s]) IN
     \/ /\ life[s] # "open"
        /\ UNCHANGED <<life, lateRead, status, packets, cmds>>
     \/ /\ life[s] = "open" /\ ~m.ok
        /\ Close(s)
        /\ UNCHANGED <<status, packets, cmds>>
     \/ /\ life[s] = "open" /\ m.ok /\ ~OwnRow(s, m)
        /\ BackToAuthed(s)
        /\ UNCHANGED <<life, lateRead, packets, cmds>>
     \/ /\ life[s] = "open" /\ m.ok /\ OwnRow(s, m)
        /\ ClearPackets(s)
        /\ cmds' = Append(cmds, [type |-> "spawn", sess |-> s, char |-> m.char])
        /\ UNCHANGED <<life, lateRead, status>>
  /\ UNCHANGED <<account, serial, hasRegistered, playerGUID,
                 requests, regVars, simVars, asked>>

\* Slip: an undeliverable spawn is not rolled back.
PostSpawnRollbackForgotten(m) == UNCHANGED cmds

\* PostSpawnRollback
PostSpawnRollback(m) ==
  cmds' = IF m.ok THEN Append(cmds, [type |-> "rollback", guid |-> m.guid]) ELSE cmds

\* WorldCmdCallback_OnEnterWorld, or the rollback when the session is gone.
ServeSpawned(s) ==
  /\ IoHead(s, "spawned")
  /\ io' = IoRest(s)
  /\ LET m == Head(io[s]) IN
     \/ /\ life[s] # "open"
        /\ PostSpawnRollback(m)
        /\ UNCHANGED <<status, playerGUID>>
     \/ /\ life[s] = "open" /\ m.ok
        /\ playerGUID' = [playerGUID EXCEPT ![s] = m.guid]
        /\ status' = [status EXCEPT ![s] = "IN_WORLD"]
        /\ UNCHANGED cmds
     \/ /\ life[s] = "open" /\ ~m.ok
        /\ BackToAuthed(s)
        /\ UNCHANGED <<playerGUID, cmds>>
  /\ UNCHANGED <<life, lateRead, account, serial, hasRegistered,
                 packets, requests, regVars, simVars, asked>>

\* WorldCmdCallback_OnExitWorld
ServeLeft(s) ==
  /\ IoHead(s, "left")
  /\ io' = IoRest(s)
  /\ \/ /\ life[s] # "open"
        /\ UNCHANGED <<life, lateRead, playerGUID, status>>
     \/ /\ life[s] = "open"
        /\ playerGUID' = [playerGUID EXCEPT ![s] = 0]
        /\ \/ BackToAuthed(s) /\ UNCHANGED <<life, lateRead>>
           \/ Close(s) /\ UNCHANGED status         \* the answer is not encrypted
  /\ UNCHANGED <<account, serial, hasRegistered,
                 packets, requests, regVars, cmds, simVars, asked>>

------------------------------------------------------------------------------
(* Destruction: NetworkThread::Update dropped the closed session and no    *)
(* handler holds it any more.  The two steps of the destructor take        *)
(* different mutexes; the other threads may run between them.              *)

Unreferenced(s) ==
  /\ life[s] = "closed"
  /\ ~lateRead[s]
  /\ [type |-> "kick"] \notin ToSet(io[s])

BeginDestroy(s) ==
  /\ Unreferenced(s)
  /\ life' = [life EXCEPT ![s] = "dying"]
  /\ UnregisterSession(s)
  /\ UNCHANGED <<lateRead, status, account, serial, hasRegistered, playerGUID,
                 packets, requests, io, nextSerial, cmds, simVars, asked>>

FinishDestroy(s) ==
  /\ life[s] = "dying"
  /\ life' = [life EXCEPT ![s] = "dead"]
  /\ DoExitWorld(s, [type |-> "leave", guid |-> playerGUID[s]])
  /\ UNCHANGED <<lateRead, account, serial, hasRegistered, playerGUID,
                 packets, requests, io, regVars, simVars, asked>>

------------------------------------------------------------------------------
(* The simulation thread.                                                  *)

CmdHead(type) == cmds # <<>> /\ Head(cmds).type = type

\* Slip: a GUID is given out again.
GetNextGUIDAgain == UNCHANGED nextGuid

\* The GUID given out is nextGuid.
GetNextGUID == nextGuid' = nextGuid + 1

AddEntityToZone(z, e) == z \cup {e}

\* Slip: the entity stays.
RemoveEntityForgotten(z, gone) == z

RemoveEntityFromZone(z, gone) == z \ gone

\* The command handling in the lambda posted by DBCallback_HandleEnterWorldChecks
\* and WorldCmd_TryToSpawnPlayerCharacter.
\* The entity joins its zone before it is registered; it is taken out again
\* when its character is already in the world.
ExecSpawn ==
  /\ CmdHead("spawn")
  /\ cmds' = Tail(cmds)
  /\ LET s == Head(cmds).sess
         c == Head(cmds).char
         e == [guid |-> nextGuid, char |-> c, sess |-> s] IN
     \/ /\ Expired(s)
        /\ UNCHANGED <<io, simVars>>
     \/ /\ ~Expired(s)                         \* the saved zone does not exist
        /\ Post(s, [type |-> "spawned", ok |-> FALSE, guid |-> 0])
        /\ UNCHANGED simVars
     \/ /\ ~Expired(s) /\ charIdToGuid[c] # 0  \* RegisterPlayer refuses
        /\ GetNextGUID
        /\ zone' = RemoveEntityFromZone(AddEntityToZone(zone, e), {e})
        /\ Post(s, [type |-> "spawned", ok |-> FALSE, guid |-> nextGuid])
        /\ UNCHANGED <<players, charIdToGuid>>
     \/ /\ ~Expired(s) /\ charIdToGuid[c] = 0
        /\ GetNextGUID
        /\ zone' = AddEntityToZone(zone, e)
        /\ players' = players \cup {e}
        /\ charIdToGuid' = [charIdToGuid EXCEPT ![c] = nextGuid]
        /\ Post(s, [type |-> "spawned", ok |-> TRUE, guid |-> nextGuid])
  /\ UNCHANGED <<netVars, packets, requests, regVars, asked>>

\* WorldCmd_TryToDespawnPlayerCharacter with UnregisterPlayer
Despawn(g) ==
  LET gone == {p \in players : p.guid = g /\ charIdToGuid[p.char] = g} IN
  /\ players' = players \ gone
  /\ charIdToGuid' = [c \in Chars |-> IF \E p \in gone : p.char = c THEN 0 ELSE charIdToGuid[c]]
  /\ zone' = RemoveEntityFromZone(zone, gone)

\* EXIT_WORLD: save, despawn, report: the handler runs only on a live session.
ExecExit ==
  /\ CmdHead("exit")
  /\ cmds' = Tail(cmds)
  /\ Despawn(Head(cmds).guid)
  /\ Post(Head(cmds).sess, [type |-> "left"])
  /\ UNCHANGED <<netVars, packets, requests, regVars, nextGuid, asked>>

\* Posted by the destructor (after a save) or by PostSpawnRollback.
ExecDespawn ==
  /\ CmdHead("leave") \/ CmdHead("rollback")
  /\ cmds' = Tail(cmds)
  /\ Despawn(Head(cmds).guid)
  /\ UNCHANGED <<netVars, packets, requests, io, regVars, nextGuid, asked>>

\* SendMovementCorrection of an entity: dropped when its queue is full.
SendMovementCorrection(p) ==
  packets' = IF Len(packets[p.sess]) < MaxQueue
             THEN [packets EXCEPT ![p.sess] = Append(@, p.guid)]
             ELSE packets

\* A movement update is applied, found stale, or corrected.
ExecMove ==
  /\ CmdHead("move")
  /\ cmds' = Tail(cmds)
  /\ LET s == Head(cmds).sess
         moved == {p \in players : p.guid = Head(cmds).guid} IN
     \/ UNCHANGED packets
     \/ ~Expired(s) /\ \E p \in moved : SendMovementCorrection(p)
  /\ UNCHANGED <<netVars, requests, io, regVars, simVars, asked>>

\* Zone::Update moves the entities: one that ends outside is corrected.
ZoneUpdate ==
  /\ \E p \in zone : SendMovementCorrection(p)
  /\ UNCHANGED <<netVars, requests, io, regVars, cmds, simVars, asked>>

ExecuteWorldCmd == ExecSpawn \/ ExecExit \/ ExecDespawn \/ ExecMove

------------------------------------------------------------------------------
ServeIo(s) ==
  \/ ServeKick(s)
  \/ ServeGreetcode(s)
  \/ ServeEnum(s)
  \/ ServeEnter(s)
  \/ ServeSpawned(s)
  \/ ServeLeft(s)

ReadPackets(s) ==
  \/ HandleGreetcode(s)
  \/ HandleGreetPacket(s)
  \/ HandleEnumCharacter(s)
  \/ \E c \in Chars : HandleEnterWorld(s, c)
  \/ HandleExitWorld(s)
  \/ HandlePlayerMovementUpdate(s)

Next ==
  \/ \E s \in Sessions :
       \/ Accept(s)
       \/ Disconnect(s)
       \/ ReadPackets(s)
       \/ EndLateRead(s)
       \/ ProcessPlayerPacketsQueue(s)
       \/ ServeIo(s)
       \/ BeginDestroy(s)
       \/ FinishDestroy(s)
       \/ \E r \in requests[s] : Respond(s, r)
  \/ ExecuteWorldCmd
  \/ ZoneUpdate

Spec == Init /\ [][Next]_vars

\* The io_context of a running NetworkThread runs what was posted to it, its
\* timer calls Update every millisecond, the DB worker and the simulation
\* take their queues in order.  Clients owe nothing.
Fairness ==
  /\ \A s \in Sessions :
       /\ WF_vars(ServeIo(s))
       /\ WF_vars(EndLateRead(s))
       /\ WF_vars(BeginDestroy(s))
       /\ WF_vars(FinishDestroy(s))
       /\ WF_vars(\E r \in requests[s] : Respond(s, r))
  /\ WF_vars(ExecuteWorldCmd)

FairSpec == Spec /\ Fairness

------------------------------------------------------------------------------
(* Properties.                                                             *)

SessionsTypeOK ==
  /\ life \in [Sessions -> Lives]
  /\ lateRead \in [Sessions -> BOOLEAN]
  /\ status \in [Sessions -> WorldSocketStatus]
  /\ account \in [Sessions -> Accounts \cup {NoAccount}]
  /\ serial \in [Sessions -> Nat]
  /\ hasRegistered \in [Sessions -> BOOLEAN]
  /\ playerGUID \in [Sessions -> Nat]

QueuesTypeOK ==
  /\ packets \in [Sessions -> Seq(Nat)]
  /\ requests \in [Sessions -> SUBSET Requests]
  /\ io \in [Sessions -> Seq(IoMsgs)]
  /\ cmds \in Seq(WorldCmds)
  /\ asked \in Nat

RegistryTypeOK ==
  /\ sessions \in [Accounts -> Slots \cup {NoSlot}]
  /\ playerCount \in Int
  /\ nextSerial \in Nat \ {0}

SimulationTypeOK ==
  /\ players \in SUBSET Entities
  /\ charIdToGuid \in [Chars -> Nat]
  /\ zone \in SUBSET Entities
  /\ nextGuid \in Nat \ {0}

\* Every variable has its type; GUIDs and serials are never 0, which means
\* "none" wherever they are stored.
TypeOK == SessionsTypeOK /\ QueuesTypeOK /\ RegistryTypeOK /\ SimulationTypeOK

\* The simulation's three indexes agree: a character is in the world at most
\* once, charIdToGuid finds exactly the registered players, and the zones own
\* no entity that is not registered (it could never be despawned).
IndexesAgree ==
  /\ \A p, q \in players : p.char = q.char \/ p.guid = q.guid => p = q
  /\ \A c \in Chars : charIdToGuid[c] # 0 =>
        \E p \in players : p.char = c /\ p.guid = charIdToGuid[c]
  /\ \A p \in players : charIdToGuid[p.char] = p.guid
  /\ zone = players

Holds(q, M) == \E i \in DOMAIN q : q[i] \in M

Despawns(g) == [type : {"exit"}, sess : Sessions, guid : {g}]
                 \cup [type : {"leave", "rollback"}, guid : {g}]

DespawnPending(g) == Holds(cmds, Despawns(g))

SpawnResultPending(s, g) == Holds(io[s], {[type |-> "spawned", ok |-> TRUE, guid |-> g]})

\* A session that will despawn entity g when it is destroyed, if not before.
WillLeave(s, g) ==
  life[s] # "dead" /\ playerGUID[s] = g /\ status[s] # "AUTHED"

\* No player entity is ever orphaned: whatever races between a spawn, a kick, a
\* disconnection and the destruction of the session, somebody still holds the
\* duty to despawn it - its session, the spawn result on its way to the
\* session, or a despawn command already posted.
NoOrphanedPlayer ==
  \A p \in players :
    WillLeave(p.sess, p.guid) \/ SpawnResultPending(p.sess, p.guid) \/ DespawnPending(p.guid)

\* An open session that is in world owns an entity that is there, and that
\* nothing is about to take away: no stale rollback or despawn hits it.
InWorldHasPlayer ==
  \A s \in Sessions : life[s] = "open" /\ status[s] = "IN_WORLD" =>
    /\ \E p \in players : p.guid = playerGUID[s] /\ p.sess = s
    /\ ~DespawnPending(playerGUID[s])

\* A player entity belongs to the account of the session that spawned it.
PlayerOfOwnAccount ==
  \A p \in players : Owner[p.char] = account[p.sess]

\* The packets an in-world session will send were all issued by the entity it
\* owns now, never by the entity of an earlier stay in the world.
PacketsOfThisStay ==
  \A s \in Sessions : life[s] = "open" /\ status[s] = "IN_WORLD" =>
    \A i \in DOMAIN packets[s] : packets[s][i] = playerGUID[s]

\* An account has one usable session: an authenticated open session either
\* holds the account's slot or has been told to close.
OneSessionPerAccount ==
  \A s \in Sessions : life[s] = "open" /\ hasRegistered[s] =>
    \/ sessions[account[s]] = [serial |-> serial[s], sess |-> s]
    \/ [type |-> "kick"] \in ToSet(io[s])

\* The registry never points at a destroyed session, and m_playerCount is the
\* number of its slots.
RegistrySound ==
  /\ \A a \in Accounts : sessions[a] # NoSlot =>
        LET s == sessions[a].sess IN
        /\ ~Expired(s) /\ account[s] = a /\ serial[s] = sessions[a].serial
        /\ status[s] \notin {"GATHER_SESSIONKEY", "GATHER_SESSIONKEY_PENDING",
                              "SESSIONKEY_GATHERED", "SELECTING_CHARACTERS"}
  /\ playerCount = Cardinality({a \in Accounts : sessions[a] # NoSlot})

\* The entity of a session whose connection is gone leaves the world.
LostPlayerLeaves ==
  \A s \in Sessions : life[s] = "closed" ~> \A p \in players : p.sess # s

\* A client that asked to enter or to leave the world is answered, or its
\* session closes: no thread of the three it needs drops it without a word.
RequestsAnswered ==
  \A s \in Sessions :
    /\ status[s] = "ENTERING_WORLD" ~> status[s] # "ENTERING_WORLD" \/ life[s] # "open"
    /\ status[s] = "LEAVING_WORLD" ~> status[s] = "AUTHED" \/ life[s] # "open"

------------------------------------------------------------------------------
(* The promise of WorldPresence, and the state of it that a state of the   *)
(* world server stands for.                                                *)

Phase(s) ==
  CASE life[s] \notin {"none", "open"} -> "gone"
    [] OTHER -> CASE status[s] = "ENTERING_WORLD" -> "entering"
                  [] status[s] = "IN_WORLD" -> "in"
                  [] status[s] = "LEAVING_WORLD" -> "leaving"
                  [] OTHER -> "out"

AvatarOf(c) ==
  LET here == {p \in players : p.char = c /\ p.guid = charIdToGuid[c]} IN
  IF here = {} THEN Nobody ELSE (CHOOSE p \in here : TRUE).sess

Presence == INSTANCE WorldPresence WITH
  phase  <- [s \in Sessions |-> Phase(s)],
  avatar <- [c \in Chars |-> AvatarOf(c)]

\* Every step of the world server is a step of WorldPresence, or changes
\* nothing that a client could tell.
ImplementsPresence == Presence!Spec
==============================================================================
