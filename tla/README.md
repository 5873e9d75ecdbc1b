# NECRO-MMO: specifications

TLA+ specifications of the servers of NECRO-MMO, their TLC instances and TLAPS proofs.
Paths below are relative to the repository (`src/` in `PROJECT.json`'s paths stands before them).

## 1. The system

| Part | State it keeps | Operations | Hard because |
|---|---|---|---|
| World session `NECROWorld/Server/Sockets/WorldSession.cpp`, `Handlers/PlayerHandlers.cpp` | status, account, serial, GUID of the player it owns, packet queue shared with it | packet handlers, DB callbacks, results of world commands, kick, destructor | each step runs on the session's network thread, but a request waits for a DB worker or the simulation; the session may close or die in every gap |
| Session manager `Managers/SessionManager.h` | one slot (serial, session) per account, player count | register (kicks), unregister | called from any network thread; a kicked session's destructor comes late |
| World simulation `Simulation/WorldSimulation.cpp`, `WorldCmds/` | command queue, `m_players`, `m_charIdToGuid` | execute commands in order, spawn, despawn, move, save | indexes must agree whatever the order of spawn and despawn |
| Zones, cells, entities `Simulation/Maps`, `Simulation/Entities` | owned entities, cells, pending transfers, correction epoch | add, remove, transfer, correct | pointers between zone, cell and entity; transfers are delayed to the end of the tick |
| TCP socket, network thread, acceptor `shared/Sockets` | open / closing / closed, queued handlers, socket list and count | accept, read, write, close, update | a handler queued before the close still runs after it; TLS shutdown has a deadline |
| Database worker and pool `database/DB` | external and internal queue, count, running flag | enqueue, try to enqueue, execute, respond, stop, join | several producers, limits, errors, cancel tokens, lost wake-ups |
| Character and login rows `database/DB/Implementation` | rows | select, insert, update, delete | check and act are different requests |
| Auth server `NECROAuth/Server` | login status, session key, greetcode, realm list | gather, proof, password hash on crypto threads, realm list | handshake timeout, hash result after the close, the greetcode's row is written after the answer |
| World server process `NECROWorld/Server/NECROWorld.cpp`, `Sockets/SocketManager.cpp`, `shared/AsioThreads` | accept loop, socket counts, requests per address, pools and threads that run | boot, accept, admit, clean up, keep alive, shut down | counts are read on one thread and written on two others; every path must continue the loop; the order of the shutdown |
| Wire format `shared/Packets`, `shared/Encryption` | stream buffer, IV counters | write, read, compact, encrypt, decrypt | short receives, counters that must stay in step |
| Client `NECROClient/Client/Online` | connection state, sequence and epoch of movement | handlers, polling | acknowledges corrections with packets under way |
| Load generator `NECROHammer` | bots of seven kinds per thread, the count of each thread | distribute, resolve, connect, handshake, log in, die | completions after a close, timers, a count shared by two threads |
| Static data, logging, rendering | local | - | not modelled, see section 7 |

How they interact: the network thread of a session calls a handler; the handler enqueues a
`DBRequest` (a worker executes it and posts the callback to the session's `io_context`) or posts
a world command (the simulation executes it and posts the result to the same `io_context`). The
simulation hands packets to a session through a mutex-guarded queue that both own. Sessions meet
only in the session manager. The two servers meet only in the login database: the auth server
stores the session key under a greetcode meant for one use, the world server reads and invalidates it.

What makes each part correct: a client is never told something untrue about its presence; an
account has one usable session; no entity is orphaned, doubled, or removed under a session that
plays it; progress is never lost; a request is answered or its connection closes; queues and
counters return to zero; limits hold. `PROJECT.json` lists the hazards by line.

## 2. Modules

| Module | Contents |
|---|---|
| `WorldSessions` | the core: sessions, session manager, DB requests, simulation and their interleavings |
| `WorldPresence` | abstract specification: who is in the world, and what each client was told |
| `WorldSaves` | `WorldSessions` composed with the characters database: saved progress |
| `DbWorkers` | a pool of database workers: threads, locks, condition variables, counts, Stop and Join |
| `RequestQueues` | abstract specification of that pool: requests served once, in order |
| `CharacterRows` | creating and deleting characters: check and act as separate requests, answers, limit |
| `PlayerMovement` | the movement of a player: client, server, zone and the corrections between them |
| `AuthLogin` | logging in: TLS sockets, timers, packets, the check of the password, the greetcode's way to the world server |
| `WorldServer` | the process of the world server: boot, accept loop, network threads and their counts, keep-alive, shutdown |
| `WorldWire` | the bytes of a world connection: encryption, framing, buffers, short reads and writes |
| `LoadGenerator` | NECROHammer: its distributor, its threads and their bots |
| `WorldSessionsInvariant` | the inductive invariants `WorldInv`, `RegistryInv` and `OwnershipInv` |
| `WorldSavesInvariant` | the inductive invariant `SavesInv` |
| `WorldProofs` | theorems about the core: indexes, players, packets, registry, ownership, refinement; and the saved progress |
| `DbWorkersProofs`, `CharacterRowsProofs`, `PlayerMovementProofs`, `AuthLoginProofs`, `WorldServerProofs`, `WorldWireProofs`, `LoadGeneratorProofs` | theorems about the module each is named after |
| `MCWorldSessions`, `MCWorldSaves`, `MCDbWorkers`, `MCCharacterRows`, `MCPlayerMovement`, `MCAuthLogin`, `MCWorldServer`, `MCWorldWire`, `MCLoadGenerator` | instances for TLC |

`WorldSessions` implements `WorldPresence`, and `DbWorkers` implements `RequestQueues`, each by an
`INSTANCE` with a refinement mapping. What `WorldSessions` assumes of the workers (a request is
answered at most once, or dropped when its session expired) is what `RequestQueues` promises.

### State of `WorldSessions` and the code

A session object serves one connection, so `Sessions` is the set of connections of a behaviour;
a reconnecting player uses another one. `life` is the object's lifetime: `none`, `open`
(`IsOpen()`), `closed` (`m_Closed`, still referenced), `dying` (no strong reference, the destructor
runs), `dead`. `expired()` is `dying` or `dead`. `lateRead` says that a read had completed when
the socket was force closed: its handler still runs. `status`, `account`, `serial`,
`hasRegistered`, `playerGUID` and `packets` are the members of the session. `requests` are its
DB requests under way, `io` the handlers posted to its `io_context` that concern it, in order.
`sessions`, `playerCount`, `nextSerial` are the session manager's. `cmds`, `players`,
`charIdToGuid`, `zone`, `nextGuid` are the simulation's.

### Actions

- Socket: `Accept`, `Disconnect`, `EndLateRead`. Sockets of the world server do not use TLS, so
  `CloseSocket` is `ForceCloseSocket`.
- Packets: `HandleGreetcode`, `HandleGreetPacket`, `HandleEnumCharacter`, `HandleEnterWorld`,
  `HandleExitWorld`, `HandlePlayerMovementUpdate`; their guard on the status is the handler
  table's. A packet in another status closes the connection (`Disconnect`, `EndLateRead`).
- `Respond`: the worker executes one request; a request whose session expired is dropped.
- Posted handlers: `ServeKick`, `ServeGreetcode`, `ServeEnum`, `ServeEnter`, `ServeSpawned`,
  `ServeLeft`. Each takes the head of `io[s]` and has one disjunct per path of the code.
- Destruction: `BeginDestroy` (`UnregisterSession`) and `FinishDestroy` (`DoExitWorld(false)`);
  they take different mutexes, so other threads may run between them.
- Simulation: `ExecSpawn`, `ExecExit`, `ExecDespawn`, `ExecMove`, `ZoneUpdate`.

### Why a step is a step

All handlers of a session run on one `io_context` that one thread runs, and a handler touches
shared state through at most one mutex-guarded operation after its reads of session state; so a
whole handler is one action. A simulation command reads session state only through `expired()`.
The command checks it first and spawns later; a session that dies in between is
indistinguishable from one that dies just after the spawn, so check and spawn are one action.
`ExecuteWorldCmds` swaps the vector of pending commands and runs the batch; order is the order of
posting and a batch may end after any command, so one queue stands for both vectors. Requests of
one session are answered in any order in `WorldSessions` (several workers, two databases);
`WorldSaves` orders those of the characters database.

### Abstractions, named

- Encrypting an answer may fail. At the end of a handler that is a `Disconnect` right after it;
  before any other effect it is the same as a failed request; in
  `WorldCmdCallback_OnExitWorld` it lies between two assignments and is a disjunct of its own.
- Calling `AsyncReadCallback` from the greetcode's callback is reading enabled as the next step.
- The account a greetcode leads to is any account. Rows that have the wrong column types (an
  exception in a callback) are out of the model. A session is not accepted while the server stops.
- All zones are one set. A saved position outside the map is moved to its centre by the code
  before the entity is added, so adding fails only when the zone does not exist.
- Identical list requests under way are one request: their answers do the same.
- `HandleExitWorld`'s branch for a GUID of 0 cannot be reached (`OwnsInside`); a result of
  EXIT_WORLD is posted for every session and its handler runs only while the session lives.
- Creating and deleting characters are in `CharacterRows`; they change no state these modules read.

### `WorldSaves`

The progress of a character is a version number. A single FIFO of the characters database holds
the SELECT of ENTER_WORLD and the UPDATE of `SavePlayerOnDatabase`; requests of the login database
and lists are answered as in `WorldSessions`. `Progress` is a movement command that the
simulation applies. The worker does not fail on saves here.

### `DbWorkers`

`database/DB/DatabaseWorker.h` and `DatabaseWorkerPool.h`. `external`, `internal`, `count` and
`running` are `m_externalQueue`, `m_internalQueue`, `m_requestsSize` and `m_running`; `pc` is the
place of `ThreadRoutine`; `stage` and `scan` are the local variables of a call of the pool's
`TryEnqueue` or `Enqueue`, `keep` those of `KeepDatabasesAliveHandler` and `EnqueueInAll`.

- Callers: `Scan` reads the count of one worker, without its mutex; `Accept` and `Refuse` test the
  count again under the mutex of the chosen worker, and only for `TryEnqueue` (`Limited`);
  `KeepAlive` gives the next worker its copy; `Notify` is the `notify_one` after the unlock.
- `ThreadRoutine`: `Check` and `Wait` are the two halves of `m_cond.wait`, which keeps the mutex in
  between; a thread that wakes up, by `Notify` or `Spurious`, tests what a thread at the top of the
  loop tests. `Swap`, `End`, `Skip` (cancel token expired), `Execute`, `Post`, `Complete` follow.
- `Stop` and `Join` are the pool's, one worker after the other. The timer that runs the keep-alive
  has ended when `Stop` begins.

The mutex is not a variable: only the worker holds it across a step (`pc = "checked"`), so `Free`
is the guard of everybody else. `late` is history: the requests a worker took after its `Stop`.
Reading or decrementing the atomic count is a step of its own where another thread can tell.

Left out: the statements and transactions of a request and its reconnection (it succeeds or fails,
as the database decides; either way the callback is posted), `DirectExecute` (used before the
threads start), a `Start` that fails, closing the connection, and `m_noticeFunc`, which nothing in
the servers sets.

### `CharacterRows`

`Handle_SPacketCreateNewChar`, `Handle_SPacketDeleteCharacter` and their callbacks in
`WorldSession.cpp`. A job is one request of a client from packet to answer; `stage` is how far it
has come, and its content (`Name`, `Target`, `Typed`) is constant. `rows` is the table, a character
being named by the creation that inserted it, because ids are never reused.

- `HandleCreateNewChar`, `HandleDeleteCharacter`: the packet, with `TryEnqueue` of the checks.
- `CheckCreate`, `Insert`, `CheckDelete`, `Remove`, `Skip`, `Fail`: a worker. `Insert` and `Remove`
  may take effect and still be answered as failed (the connection is lost after the commit; a
  UNIQUE key on the name, which the repository's SQL does not show, is a failure too).
- `CreateChecks`, `DeleteChecks`, `Final`, `CallbackError`, `Unheard`: the callbacks, with one
  disjunct per path, the full queue and the failed encryption included.
- `Disconnect`, `Destroy`: for any reason; a packet whose read completed before the close is still
  handled on the closed session.

The callbacks do not look at the session's status, so entering the world meanwhile changes nothing
here. Requests execute in any order, which one worker's FIFO is a case of.

### `PlayerMovement`

One player of one connection, from the client's input to the zone: `NECROClient` (`Player`,
`WorldManager`, its `WorldSession`), the server's session, and the simulation with its entity. The
client moves first and tells the server later (`Frame`); the server applies a move, or refuses it
and begins a new epoch by a correction (`UpdatePlayerMovement`, `Correct`), or ignores a move of an
earlier epoch (`Stale`); at the end of a tick the zone takes a player outside the map back to the
middle of its cell and corrects it too (`ZoneUpdate`).

- `client` is the client's `OnlineData` and `Player`: `place` is its status with `isInWorld` and
  `isLeavingWorld`, `dirty`, `previous` and `acked` are `m_isMovementDirty`, `m_previousPosX` and
  `m_curretnAckedCorrectionID`. `told` is history.
- `up` and `down` are the connection, with the sockets' buffers; `queue` is the `PlayerPacketQueue`,
  `cmds` the pending world commands, `results` what was posted back, `player` the `PlayerEntity`.
- Client: `Frame` (movement and `GameUpdate`), `TeleportToGrid`, `EnterWorld`, `ExitWorld`, `Receive`
  (`Handle_EnterWorldResponse`, `Handle_ExitWorldResponse`, `Handle_PlayerMovementCorrection`, or a
  packet its status does not expect).
- Session: `Read`, `ProcessPlayerPacketsQueue`, `ServeResult`; `Lose` is any other end.
- Simulation: `ExecuteWorldCmd` (`Spawn`, `SaveAndDespawn`, `UpdatePlayerMovement`) and `ZoneUpdate`,
  in any order, of which the tick (all commands, then all zones) is one.

Abstractions: players do not affect each other's movement, so there is one; both axes are treated
alike, so there is one; height and direction are accepted as they come, and a value that is not
finite or no direction is refused like a move that is too far; collisions only shorten a step. The
client waits for the answer to ENTER_WORLD. The request of the row, its callback and the spawn
command are one step, and the save is a step of the command: `WorldSessions` and `WorldSaves` have
them apart. The packet's own sequence number is only echoed in the log.

### `AuthLogin`

A login is one connection of a client to the auth server, from `ConnectToAuthServer` to the greeting
that the world server accepts. Its session's handlers run on one network thread; the check of its
password goes through a database worker and a crypto thread and back; its row is written by another
request; the world server reads that row. The clients of a behaviour meet in the table
`active_sessions`, which has one row per account.

- `sock` is the `TCPSocketBoost` with the session's handshake: `state` is `m_UnderlyingState`, `listed`
  the reference in the network thread's list, `closing` and `closed` are `m_Closing` and `m_Closed`;
  `shake`, `read` and `write` are the operations under way (a `ready` read has its handler queued, a
  `dead` write never completes, so that `m_AsyncWriting` stays set), `timer` and `timedOut` the
  handshake's. `auth` is `m_status`, `m_closeAfterSend` and `m_packetsProcessed`; `out` is `m_outQueue`.
- `work` is where the check of the password is, `store` the transaction that stores the login. `rows`
  and `codes` are the table: whose login an account's row is, and which rows still have a greetcode.
- `place`, `up` and `down` are the client and its connection. A visit is one connection to the world
  server: `guest` is the login whose client made it, `world` its `WorldSession`, `look` where the lookup
  of its greetcode is; `found` is history.
- Socket: `ReadCompletes`, `ReadFails`, `InternalWriteCallback`, `WriteFails`, `ShutdownEnds`,
  `Deadline`. Session: `StartHandshake`, `HandshakeHandler`, `HandshakeFails`, `TimerExpires`,
  `HandshakeTimeoutHandler`, `StartReading`, `IdleTimeout`, `Remove`.
- Packets: `AsyncReadCallback` with its three handlers. Check: `ExecuteCheck`,
  `DBCallback_AuthLoginProofPacket`, `VerifyHash`, `HashResult`, `ExecuteStore`.
- Client and world server: `ConnectToAuthServer`, `TLSPerformHandshake`, `ClientReceives`,
  `OnDisconnect`, `ConnectToWorldServer`, `DBCallback_GreetcodeLookup`, `LeaveWorldServer`. Login
  workers: `LookupSelect`, `LookupCommit`, `LookupFails`, `LookupSkipped`.

A worker executes the statements of the lookup one by one. SEL_SESSIONKEY_BY_GREETCODE takes no lock and
reads what is committed (`LookupSelect`); what INVALIDATE_GREETCODE changes others see when it is
committed, and nobody asks how many rows it changed (`LookupCommit`). So two lookups that different workers
execute may both read the row before either of them commits. Nothing keeps a client from connecting
again with the same greetcode: it drops its connection and connects, and the server may still hold
the earlier session, or be looking its greetcode up.

Abstractions: times are not modelled; a timer that runs may expire, and a row may be too old
(`GREETCODE_VALIDITY_TIME_WINDOW_SECONDS`) when it is looked up. A handshake timer whose handler is
queued when the handshake completes does nothing, whether cancelled or not. Packets are sent and read
whole; two that arrive together are two reads. Operations under way on a socket end at
`ForceCloseSocket`; what finds its `weak_ptr` expired is dropped, and such a session's socket is
closed. A network thread is done with a session when its list has dropped it and no read handler is
queued. The client is `NECROClient`: it sends nothing out of order, but may disappear at any moment. The log of wrong passwords changes nothing. The fake
hash of an unknown account does not verify. The realm list may have any size in `RealmCounts`
whenever it is sent.

### `WorldServer`

One process from `Server::Init` to the end of `Server::Shutdown`. `phase` is where its main thread
is. `chain` is the accept loop: at most one `async_accept` is outstanding, so the handlers follow
one another, on whatever thread of the `AsioThreadPool` is free (`CanStart`). `conn`, `home` and
`number` are the connections, the network thread each was given to, and `m_socketsNumber`. `tries` is
`m_ipRequestMap`, `admitted` is history: the sessions made for an address since the map was cleared. `pool` and `direct` are the two worker pools and their
persistent direct connections; `up` is the database server.

- Boot: `LoadConfig`, `SetupPool`, `StartPool`, `LoadStores`, `MakeSocketManager`, `StartAsio`,
  `StartThreads`, in the order of the code and each with its failure, where it has one.
- Accepting: `ScanThread` and `RereadThread` (the count of a thread is read for the comparison and
  read again for the minimum), `AcceptConn`, `AcceptFails`, `CheckLimit`, `DoIPSpamPrevention` (under the
  mutex of the map, and only if `ENABLE_SPAM_PREVENTION`), `QueueNewSocket` and `CountNewSocket` (the session
  is made, pushed and counted, under the mutex of the queue).
- Network threads: `Update`, `CountErased`, and once stopped `ClearSockets`, `ClearQueuedSockets`.
- Timers: `IPRequestMapCleanup`, `KeepDatabasesAliveHandler` (one pool after the other).
- Shutdown: `Stop`, `StopAsio`, `JoinAsio`, `StopPool`, `ClosePool`, `StopThreads`, `JoinThreads`.

What a session does while it is held is in `WorldSessions`, what a worker does in `DbWorkers`. Each
pool has one direct connection that stands for those of all its workers, which the keep-alive visits
in the same way. The timer of the keep-alive is long against a ping, so one instance of its handler runs at a time.
`m_acceptSocket` of a thread is the acceptor's until the session took it.

Nothing in the repository calls `Server::Stop` or `Client::Stop`; they are taken as the operator's entry points.
The result of `TCPAcceptor::Bind` is not looked at, so a port in use is not a failure of the boot.
A boot that fails after the login pool started returns from `main` with its threads joinable. The
sessions destroyed by the shutdown post their despawns to a simulation that no longer
runs, so the last progress of players in the world is not saved.

### `WorldWire`

One connection of a client to the world server, its bytes counted in units of at least four: a packet is a unit with
the header (`PCKT_SIZE | IV`) and units with the rest, and a read or a write may end between any two.
`out` is the send queue of each side with its messages one after the other, `stream` what the kernels
hold, `in` each side's `NetworkMessage` with its cursors and what its reader expects, `iv` and `key`
what each side encrypts with. `made`, `used` and `in.handled` are history.

- Client (one thread): `CheckIfWorldConnected`, `ClientPacket`, `NetworkUpdate` (poll, `Send` and the
  `recv` of `Receive`, or the disconnection), `ClientReadCallback` (a turn of the packet loop), `Quit`;
  `armed` is POLLOUT in its `pollfd`.
- Server (the session's network thread): `InternalReadCallback` (bytes, or an error), `AsyncReadCallback` (a
  turn of the packet loop, after the last of which it reads again), `InternalWriteCallback`,
  `DBCallback_GreetcodeLookup`, `ServerPacket`, `Drop`; `reading` and `writing` are its two operations.
- `SendLoginProof` and `LoginProofResponse`: a second login of the same client, which the console allows
  while it is connected to the world. It replaces the prefix and the key that the world session uses.

A packet loop is a step per packet, so that the other side's program runs between them. The thread that is
in the loop does nothing else meanwhile (`Busy` stands in the guards of its other actions), except that a
handler may answer, which is `ClientPacket` or `ServerPacket`, or refuse (`Drop`). `LoopTurn` is the turn
that both loops share.

The cipher is what AES-GCM promises: a packet opens under the key and the IV it was made with, whole
and in order. Where a read ends inside four bytes is not told apart from before or after them: both sides wait for
the rest alike. A receive of 0 bytes is not an end for the client, whose poll reports POLLHUP; data that
arrived before it is then dropped. Two draws of the client's prefix differ (`RandomizePrefix` does not look at the
last). Packets are as long as the programs make them: below 512 bytes as long as names have at
most 10 characters.

### `LoadGenerator`

`phase` is the main thread of NECROHammer, `turn` the static `curSocketType`, `number` and `erased` the
count of each thread and what it has not yet subtracted, `bot` the sockets.

- Main thread: `Boot`, `DistributeNewSocketsHandler`, `Stop`, `Join`.
- Network thread: `Update`, `Uncount`, `End`.
- A bot: `ConnectHandler` (the end of resolve, connect or handshake), `DeathTimer`, `ShutdownHandler`,
  `ReadHandler`; `UpdateBot` is its part of `Update`.

The search of the proof of work is one step with the answer that asks for it. The server answers
or closes the connection; which logins it may accept is `MayGrant`. A completion that was queued before a close still
writes the state of the closed socket: a CONNECT_AND_HANG bot whose handshake completes after its
death timer closed it is `Revived`, waits for nothing and holds its place until the program ends.

## 3. Runs and bounds

| Run | Instance | Shows |
|---|---|---|
| `sessions` | 2 sessions, 2 accounts with a character each, 2 requests, 1 pending move, packet queue of 1 | `TypeOK`, `IndexesAgree`, `NoOrphanedPlayer`, `InWorldHasPlayer`, `PacketsOfThisStay`, `OneSessionPerAccount`, `RegistrySound`, `PlayerOfOwnAccount`, `ImplementsPresence` |
| `live` | 2 sessions, 1 account, no symmetry | `LostPlayerLeaves`, `RequestsAnswered` |
| `saves_stay` | 2 sessions of one account, 3 requests, progress up to 2, states with `NoOverlap` only | `NoProgressLost` when a player comes back only once its earlier session is through |
| `saves_reconnect` | 2 sessions of one account | `NoProgressLost` is violated, see section 5 |
| `workers` | 2 workers, limit 1, 2 limited requests (one fire-and-forget, one with a token), 1 keep-alive | `CountExact`, `LimitHolds`, `StopDrains`, `ImplementsQueues` |
| `workers_live` | 2 workers, 2 requests, one of them unlimited | `TakenAreServed`, `ShutdownEnds` |
| `rows` | 2 sessions of one account, 3 creations, 2 deletions, limit 1, 2 creations under way | `OverrunBounded`, `AnswersTrue`, `JobsEnd` |
| `movement` | 2 cells of 2 positions, moves of at most 1 accepted, packet queue of 1, 4 steps or teleports, 2 visits | `FewCorrections`, `Agreement`, `ClientExpects`, `OnlyCurrentMoves`, `CatchesUp` |
| `logins` | 1 client, at most 1 realm and a table of 1 or 2, 3 connections to a world server with 2 login workers | `InStep`, `UsesBounded`, `ClosedForGood`, `SocketsReleased` |
| `world_server` | 2 network threads with room for 1 session each, 2 asio threads, 3 connections from 2 addresses, 1 attempt each, room for 1 address, 1 outage | `SocketsCounted`, `AdmissionsBounded`, `ShutdownOrdered`, `ArrivalsHandled`, `ConnectionsHeal` |
| `wire` | greetcode of 2 units, packets of 2 or 3, buffers of 4 growing to 6, 3 units in the kernel, 2 packets of each side, 2 prefixes | `HonestAccepted`, `IVOnce`, `AllDelivered` |
| `hammer` | 1 network thread with 2 places, all seven kinds of bots | `SocketsWithinLimit`, `PlacesFreed` |

The inductive invariants of the proofs hold on these instances too: `WorldInv`, `RegistryInv`,
`OwnershipInv`, `SavesInv` (under `NoOverlap`), `WorkerInv`, `LimitInv`, `RowsInv`, `MovementInv`, `LoginInv`,
`TurnInv`, `ServerInv`, `WireInv` and `LoadInv`, with the type invariants of the modules with proofs. TLC
agreed before they were proved; being proved, they are not in the cfgs.

Why the bounds are enough for the interesting cases: two sessions are a kick and a reconnect of one
account, with the old session in every stage of its life, or two accounts that ask for each other's
character. Two requests let a session enter, leave and enter again, or enter while a list is under
way, or two sessions of an account enter; one pending move and one
packet are enough for a stale packet and for a full queue (`MaxQueue` 0 refuses every packet).
Requests beyond the bound are refused by the guard, nothing else is. Two workers and two callers
with a limit of one are the least in which a stale count sends both callers to a worker that can
take one of them; the keep-alive, which no limit holds back, fills a queue beyond the limit and
puts two requests in one batch. With a limit of one, two creations under way and a third of the same
name, every outcome of the checks happens with every other; `Depth` bounds what a client sends
without waiting and is a parameter of the theorem. Four steps on a map of four positions let a client
walk out of the map, teleport too far, do both in one tick and go on; a queue of one drops the second
correction, so that the code's case of a full queue happens; a second visit begins with whatever the
first left behind. With two workers, three connections to the world server are one more than may find the greetcode:
two lookups overlap in every way while the third waits, before the row is stored and after. Logins
share nothing but the table, where all that a second login of the account can do to the first is to
take its row away; the run has one login, the theorems have any number. Three connections, the last two of
one address, with room for one session per thread, one attempt per address and one address in the map: a thread is full when the
second arrives, an address is refused, a new one finds the map full, and a cleanup lets it in, also between the check
of the first connection and its session, which is then one more than the window of the other two counts. The run has the check
of addresses on; with it off `AdmissionsBounded` says nothing, the run passes too and the theorems hold. One
outage meets the keep-alive at each of its two places. In `wire` a buffer of 4 units
does not hold the greetcode with the first packet, or two packets of 3, so reads end in the middle of packets
and the buffer is compacted around what is left; a stream of 3 makes writes stop inside a packet; the second packet of each side is the first
whose IV is not the first. Two places let a bot of each kind run beside one of each other. In `saves_stay` the
constraint cuts a behaviour where a second session logs in before the first is through; with three
requests the second session enters, leaves and enters again after the first has played and gone.
Symmetry permutes the
sessions, which the abstract specification treats alike, and is not used with liveness. The abstract
specifications `WorldPresence` and `RequestQueues` have no run of their own: theorems show what they
promise, and the runs above that they are implemented. Deadlock is not checked: the
server may rest when every connection is dead and no client returns, and a pool that was joined
has ended.

## 4. Fairness

`FairSpec` assumes weak fairness of what the server's own threads do: the `io_context` of a
running network thread serves what was posted, its millisecond timer drops closed sockets, the
DB worker and the simulation loop take their queues. Each action only becomes disabled by being
taken (or by a step that makes it needless), so weak fairness is enough. Nothing is assumed of
clients: no fairness of packets, connections or disconnections.

`DbWorkers!FairSpec`: weak fairness of each worker's thread, of a caller that owes a `notify_one`,
and of `Join`; strong fairness of `Stop` of the second and later workers. A worker that is woken
again and again, spuriously, takes and releases its mutex for ever, so `Stop` is not continuously
enabled; that a mutex which is free again and again is got at last is what the strong fairness
says. Nothing is assumed of callers, of expiry, of spurious wake-ups, or that `Stop` ever begins.

`CharacterRows!FairSpec`: weak fairness of the workers and of the network thread that runs what was
posted, per job.

`PlayerMovement!FairSpec`: weak fairness of the client's frames (in some of which its timer has
elapsed), of its socket, of the session's network thread and of the simulation's commands and zone
update. Nothing is assumed of what the user does (moving, teleporting, entering, leaving) or of the
loss of the connection.

`AuthLogin!FairSpec`: weak fairness of what the network thread does: the updates of its sockets, its
timers (a timer that was started expires), the handler of the handshake, and the removal of dead
sockets. Nothing is assumed of clients, of the peer's part in the TLS shutdown, of reads and writes,
of the database or of the crypto threads: a session is released without them.

`WorldServer!FairSpec`: weak fairness of the main thread, the accept handlers and each network thread; strong
fairness of the acceptance of a waiting connection and of the keep-alive. The threads of the asio
pool may be busy again and again, and its queue of ready handlers is a FIFO: a handler that is ready whenever a
thread gets free is run in the end. That accept errors do not go on for ever while a connection waits is
assumed with it. Nothing is assumed of clients, of the operator, or that the database ever comes back.

`WorldWire!FairSpec`: weak fairness of the client's frames, of the reads and writes of the server's
network thread, of the turns of both packet loops, and of the answer of the login database. Nothing is assumed of how many bytes a
read or a write takes beyond one unit, or of what the player does.

`LoadGenerator!FairSpec`: weak fairness of each thread's updates, strong fairness of each socket's handlers: an
operation on a socket ends or fails, and a handler that is posted between the updates of its
thread is run. The server answers a request or closes the connection, as `AuthLogin` shows of it.

## 5. Findings

The first has a run that shows it. The others are properties that the modules define and that do
not hold: put the definition as an INVARIANT, if nothing else is said, into the cfg of the run named with it, and
TLC shows the counterexample.

The comment above `SavePlayerOnDatabase` (`WorldSimulation.cpp:117-119`) says that with one DB worker
the FIFO makes the save run before the SELECT of a player who reconnects quickly. It does
as long as the session the player had is through, its despawn executed, before the next one
authenticates (`NoOverlap`; run `saves_stay`, theorem `ProgressKept`). Without that it does not: a kicked or lost session is
saved when the simulation executes the command its destructor posts, while the new session may
already have enqueued its SELECT. Its spawn may then execute after the despawn, with the older
row (`saves_reconnect`), and the next save overwrites the newer progress.

`MAX_CHARACTERS_N_PER_ACCOUNT` (`WorldCodes.h:102`) does not hold: the check for it
(`WorldSession.cpp:557`, `604`) and the INSERT are two requests, so creations sent without waiting
for an answer all pass the check
(`CharactersLimit`, run `rows`). The client then refuses the account's list
(`NECROClient/Client/Online/World/WorldSession.cpp:182`). What does hold is `OverrunBounded`.

A player that leaves the world right after a refused move may be disconnected. The client sends no
movement while it leaves (`WorldManager.cpp:273`), but `Handle_PlayerMovementCorrection` acknowledges
a correction with a movement update without that check. When the correction crosses EXIT_WORLD, the
server gets the update in a status that does not allow it and closes the connection
(`WorldSession.cpp:209`), where `WorldCodes.h:190` says that it accepts or corrects
(`ClientKept`, run `movement`). Nothing is lost: the session has posted its save.

The success of a login is sent before its row is stored. `HandlePasswordHashResult` enqueues the
transaction with the greetcode and queues the answer at once (`NECROAuth/Server/Auth/AuthSession.cpp:552`,
`566`). A client that authenticated and goes on to the world server at once may find no row
and is dropped, where the comment there says that such a client "never authenticated or replay"
(`NECROWorld/Server/Sockets/WorldSession.cpp:283`; `MissMeansReplay`, run `logins`).

A greetcode is meant for "ONE USE! Server will clear it after first usage" (`NECROAuth/Server/Auth/AuthSession.cpp:540`).
With `LOGIN_DATABASE_THREADS_COUNT` above 1 (`NECROWorld.cpp:35`) it may let in as many connections as there are login
workers: the SELECT does not lock the row (`LoginDatabase.h:56`), the steps of the transaction are separate
statements (`DatabaseWorker.h:183-192`), and `DBCallback_GreetcodeLookup` does not look at how many rows the UPDATE
changed (`OneUse`, run `logins`). What does hold is that it is never more than the workers (`UsesBounded`), so
one with one worker, which is the default.

The sessions made for an address in one window may be one more than `MAX_CONNECTION_ATTEMPTS_PER_INTERVAL`,
or for one address more than the map may hold: with two asio threads the map may be cleared after a check has
released its mutex and before the session is made (`SocketManager.cpp:57`, `62`, `135`; `NoLateSession`, run
`world_server`). No comment promises otherwise; what does hold is that it is one session in all (`AdmissionsBounded`).

The death timer of a bot, "if set will kill the socket indiscriminately" (`NECROHammer/Manager/HammerSocket.h:79`).
It does not kill a CONNECT_AND_HANG bot whose handler of the handshake, or of an earlier step, is queued when the
timer closes the socket: the handler overwrites the state of the dead socket, and the bot holds its place
until the program ends (`DeathTimerKills`, as a PROPERTY in the run `hammer`). What does hold is `PlacesFreed`, which
excepts it.

## 6. Plan

Done since the first plan: the accept loop, counts and shutdown (`WorldServer`, in place of the
`AcceptLimits` and `ServerShutdown` planned), the framing (`WorldWire`), and the load generator. Left, in this order:

1. `CharacterRows` composed with the enter path of `WorldSaves`: a character deleted while it enters.
2. The auth server's process: its accept loop is the world server's, and what differs is the timer
   of the realm list and the crypto threads in its shutdown.
3. `WorldSaves` with several workers, of which no order is promised between the save and the next
   load (`CHARACTERS_DATABASE_THREADS_COUNT` is 1 by default). That the order is needed is what the mutant of `saves_stay` shows, a worker that takes a load first.

## 7. What is proved, what is only checked, what is left out

TLAPS proves, for every set of sessions, accounts and characters and all bounds, from the
named assumptions on the constants (`OwnerAssumption`, `NoAccountAssumption`, `NobodyAssumption`,
`BoundsAssumption`):

- `TypeCorrect` and `IndexesCorrect` (`WorldProofs`, as this whole list): type correctness, and the agreement of
  `m_players`, `m_charIdToGuid` and the zones, which with types and the fact that all GUIDs in use
  are below the counter is inductive.
- `WorldCorrect`: `WorldInv` is an invariant. `NoOrphans`, `PlayerStays` and
  `NoStalePackets` follow from it.
- `RegistryCorrect`: `RegistryInv` is an invariant;
  `OneUsableSession` (an account has one session that is open and was not told to go) and `RegistryIsSound`
  (slots and player count) follow.
- `OwnershipCorrect` and `OwnCharactersOnly`: no session ever has a player that is not its account's.
- `PresenceImplemented`: `WorldSessions` implements `WorldPresence`; every step maps to a step of
  one session there, or to a stutter. `ClientKnowledge`: hence what a client was told of its
  presence is true.
- `ProgressKept` (with `MaxProgressAssumption`): `SavesSpec /\ []NoOverlap => []NoProgressLost`. The
  hypothesis is about the players, who must not be faster than the simulation; the run `saves_stay`
  explores the states that satisfy it, and `saves_reconnect` shows that it cannot be dropped.

And for every number of workers, every set of requests of each kind and every limit, from
`WorkersAssumption`, `KindsAssumption`, `KeepsAssumption` and `LimitAssumption` (`DbWorkersProofs`):

- `TypeCorrect`, `CountCorrect`, `StopCorrect`: types, the exact count, and that
  a worker ends only when it has served what it took before its `Stop`.
- `PoolImplementsQueues`: `DbWorkers` implements `RequestQueues`; each action maps to an action of it
  or to a stutter, with the request between its answer and its count as already served.
- `CallbackOnce`: what the abstract queues promise (`QueuesPromise`) holds of the pool through the
  refinement: no callback is posted twice.
- `LimitCorrect`: a worker holds no more requests of `TryEnqueue` than the limit, whatever `Enqueue`
  and the keep-alive add.

For every set of sessions, accounts and requests, every limit and every `Depth`, from
`JobsAssumption`, `ContentAssumption` and `LimitAssumption` (`CharacterRowsProofs`):

- `RowsCorrect`: the inductive invariant `RowsInv`.
- `OverrunIsBounded`: an account has fewer than `Limit + Depth` characters. The limit alone is not
  inductive, and neither is the sum: it needs that creations past the check count like characters
  (`Counts`), and that there are never more of them than `Depth`.
- `AnswersAreTrue`: `AnswersTrue`, for creations and for deletions.

For every width and number of cells, every `MaxDiff`, `QueueSize`, set of strides and number of
visits, from `MapAssumption`, `RulesAssumption` and `StridesAssumption` (`PlayerMovementProofs`):

- `TypeCorrect` and `MovementCorrect`: types, and the inductive invariant `MovementInv`.
- `CorrectionsAreFew`, `ClientNeverDrops`, `PositionsAgree` and `OldMovesIgnored` follow from it, the
  last with each step. The instance's `QueueSize` of 1 would bound the corrections by itself; the
  theorem holds for every size, so the bound of 2 comes from the epochs and not from the queue.

For any set of logins and accounts, any `MaxRealms` and `RealmCounts`, any number of login workers and of
connections to the world server, from `AccountsAssumption`, `NoLoginAssumption`, `CountsAssumption` and
`WorkersAssumption` (`AuthLoginProofs`):

- `LoginCorrect` and `TypeCorrect`: the inductive invariant `LoginInv`, types included.
- `GreetcodeUses`: a greetcode is found by no more lookups than there are workers (`UsesBounded`), and
  `OneWorkerOneUse`: with one worker it is found once (`OneUse`).
- `ClosingIsFinal`: a step from a session that closes neither authenticates it nor stores its login,
  and a closed socket stays `CRITICAL_ERROR`.
- `TurnsCorrect` and `ClientsInStep`: the exchange has one packet, check or answer under way at a
  time, and it fits the states of both ends; so neither side of an honest login closes for a packet out of order.

For any number of network and asio threads, connections, addresses and limits, from
`ThreadsAssumption`, `ConnsAssumption` and `LimitsAssumption` (`WorldServerProofs`):

- `ServerCorrect` and `ServerTypes`: the inductive invariant `ServerInv`, types included.
- `SocketsAreCounted`, `AdmissionsAreBounded` and `ShutdownIsOrdered`: the count of each thread is
  what it holds but for the update under way, and no thread gets more than it may; of the sessions made
  since the map was cleared all but at most one are within its limits; no accept handler and no
  keep-alive runs once a pool or a network thread is stopped. The network threads still run when the pools
  and the simulation have stopped, and may still give them requests and commands: what a pool does with those
  is in `DbWorkers` (`late`), the simulation's are never executed.

For packets of any lengths, a greetcode and buffers of any sizes, any stream, any number of packets and any
prefixes, from `LengthsAssumption` (`WorldWireProofs`), which says that a packet has a header and more,
that the buffer is longer than the longest packet and as long as the greetcode, and that prefixes are
numbered from 1, as 0 stands for one that is not known yet (`m_clientPrefixKnown` in the code):

- `WireCorrect` and `WireTypes`: the inductive invariant `WireInv`, types included.
- `HonestIsAccepted`: packets are handled once and in order, and neither side refuses the other.
- `IVsAreFresh`: no IV goes out twice. Both hold for any number of packets; the counter has 64 bits
  in the code and is a natural number here.
- The lemma `RoomForRecv`, on which they rest: a reader that keeps less than a packet when it goes back to
  `recv` always has room, so `EnlargeBufferIfNeeded` neither enlarges the buffer nor fails.

For any number of threads and any room per thread, from `SizesAssumption` (`LoadGeneratorProofs`):

- `LoadWithinLimit`: no thread has more sockets than it may, though the distributor reads the
  count on another thread.

Why `WorldInv` is needed: that no player is orphaned is not inductive, because it says nothing of
messages that could break it in the next step: a second spawn under way for a session that
already has a player, an EXIT result for a session that has entered again, a rollback of a GUID
that another session owns. `WorldInv` says what the queues may hold. `OneEntry`: a session has at
most one request, response or command that makes it enter, and only while it is
`ENTERING_WORLD`. `OneExit`: likewise for leaving. `OwnsInside`: a GUID is owned only inside.
`InCustody`: every player is in the custody of its session, of the result on its way, or of a
posted despawn. `Confirmed` and `CleanPackets`: what a pending success will find. The proof takes
one step per action; actions that touch none of this (`Quiet`) share a lemma.

`RegistryInv`: that an account has one usable session needs that the slot points at a registered,
living session of the account with the slot's serial (`SlotHeld`), that a session registers once, with
a serial nobody else has (`OneRegistration`), and for the count that it is the number of slots taken, of
which there are finitely many.

`OwnershipInv`: a row is asked for by the session's account, so it is needed that the account is
set before anything is asked and does not change later, and that no foreign row or spawn is
under way, in `io` or in `cmds`.

`SavesInv` follows the progress of a character on its way out and back. `AllSaved`: what an absent
character achieved is what its row will be when the queue is executed (`Lasting`). `LoadsLast`: behind a
SELECT whose row will be used no save of the character is written, which is where `NoOverlap` is
needed, as the despawn of another session would post one. No fetched row and no spawn command is old.
Only players whose session was told of them progress (`EarlyMoves`), so that the removal of a
player without a save concerns only players that did nothing (`LateRollbacks`).

`WorkerInv` is the inductive invariant of the pool: types, the exact count, `StopDrains`, and
`ThreadInv`, which says what a thread's place tells of its queue: it is among requests exactly when
the internal queue is not empty, it posts only what has a callback, it ended only when stopped.
Without it a `Complete` might decrement a count of 0, and a `Swap` might hand back served requests.
`LimitInv` adds that the requests of `TryEnqueue` that a worker holds are a finite set within the limit.
With the exact count they are never more than the count, which is decremented only after the request
is done: it is not too low when `Accept` tests it under the mutex.

`MovementInv` names the phases of a visit (`Asking`, `Loaded`, ..., `Released`), and says of each what
may be in `up`, `cmds`, `results`, `queue` and `down`. That few corrections are under way is not
inductive alone. It needs that corrections are numbered on from the client's epoch without a gap
(`Numbered`), so that a move of the current epoch proves that nothing is under way; that no move is
of a later epoch than its client's (`AcksKnown`); and that with two under way the player is inside the
map, so that the zone adds no third. `Told` is what agreement needs: the last thing the client said
is the last move in the queues, or the server's position. The proof takes one step per action and,
for an action that several phases allow, one lemma per phase.

`LoginInv` is what `UsesBounded` and `ClosedForGood` need. Who has used a greetcode is not inductive: the
lookups that have read the row and not yet committed count too (`Holders`). While the greetcode is there none
has committed, so the holders are all among the lookups under way, of which there are no more than
workers; once one has committed no SELECT finds it again (`CodesFresh`), because `ExecuteStore` happens
once per login (`OneCheck`: a check and a transaction exclude each other, and before the proof was taken
there is neither, except for destroyed sessions whose members were reset). A closed socket is not revived because only the
expired timer closes a socket whose handshake is not over, and it sets `m_handshakeTimedout` first
(`SocketStates`). `HandlersReady` makes a handler's `Head` exist.

`TurnInv` is what `InStep` needs: it speaks of both ends only, and the step that breaks it is the arrival
of something that was sent earlier. So `InTurn` says of each client's packet, of the check and of the
answer in the send queue or on its way that at most one of them exists, and which state of the session
and of the client it fits. A session whose socket is closed is exempt: it may still handle a packet it
had read, and its answer goes nowhere.

`ServerInv` has the types; what each phase of the main thread has created and not yet stopped
(`PhaseInv`); what a step of the accept loop knows of the connection and the thread it chose (`ChainInv`);
where a connection can be (`PlacesInv`); the counts (`CountInv`); and who was admitted (`AdmitInv`: the sessions made for an address, with the
one its check has let through, are the attempts noted since the map was cleared, but for at most one of a check
before that; one accept is under way at a time). A
count may be stale when it is compared, but only one accept is under way, and only a
connection it queued raises a count: a stale one is too high. `LoadInv` is the same for the load generator:
types, bots have kinds (`BotsHaveKinds`), no thread runs before the start (`NotStarted`), and the limit.

`WireInv` speaks of the bytes wherever they are. `Pipe(s)` is what the other side has not consumed of what `s`
encrypted: what is active in the buffer, what is in the stream, and the send queue, one behind the other.
Reads, writes and compaction move units along it and leave it as it is; only encryption adds at its end and
the loop takes a packet from its front. So it is always what is left of the greetcode and then whole
packets, numbered from the first that was not handled (`Framed`) to the last that was made
(`Whole`); the end may be missing only after its sender has gone. `Sealed` says that these packets
are under the key, counter and prefix that the other side will expect when their turn comes, which is what
`HonestAccepted` alone does not say. `StatusInv` tells what each status leaves empty: nothing was
read before the connection, a session that waits for the greetcode's row has handled nothing, a closed one has
no operation. `HandledInv` ties the expected counter to the packets handled, and `LoginInv`, which a second
login ends, ties the counters of `iv` and `used` to the packets made, each side with a prefix of its own
once the server draws its own.

Only model-checked: the liveness properties, because TLAPS reasons neither about fairness nor
about ENABLED. Every invariant and action property of a passing run has a theorem.

Not modelled: the cipher, name and input validation, logging, file readers and rendering; they keep
no state that these properties are about. Bind, Listen and Accept of `TCPSocket` have no caller. The parts of section 6 are
not modelled yet.
