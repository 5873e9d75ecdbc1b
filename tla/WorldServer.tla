----------------------------- MODULE WorldServer -----------------------------
(***************************************************************************)
(* The process of the world server: its boot, the accept loop, the network *)
(* threads that take the accepted connections, the periodic handlers of    *)
(* the AsioThreadPool and the shutdown.                                    *)
(*                                                                         *)
(*   - the main thread boots (Server::Init, Start), updates the simulation *)
(*     until Server::Stop, then runs Shutdown;                             *)
(*   - the threads of the AsioThreadPool run the accept loop (at most one  *)
(*     async_accept is outstanding), the cleanup of the IP map and the     *)
(*     keepalive of the databases;                                         *)
(*   - each NetworkThread moves queued sockets to its own list, drops the  *)
(*     closed ones and clears both when its io_context was stopped.        *)
(*                                                                         *)
(* Here a session is only a socket that is held and at some time returns   *)
(* -1 from Update; what it does until then is in WorldSessions, and what   *)
(* the workers of a pool do is in DbWorkers.                               *)
(***************************************************************************)
EXTENDS Integers, FiniteSets

CONSTANTS
  N,           \* m_networkThreadsCount
  MaxConns,    \* bound: connections that clients open
  IPs,         \* their addresses
  IPOf,        \* IPOf[c]: the remote address of the c-th connection
  AsioThreads, \* threads of the AsioThreadPool
  MaxClients,  \* MAX_CONNECTED_CLIENTS_PER_THREAD, -1 for no limit
  SpamPrevention, \* ENABLE_SPAM_PREVENTION
  MaxAttempts, \* MAX_CONNECTION_ATTEMPTS_PER_INTERVAL
  MapMax,      \* IP_REQUEST_MAP_MAX_SIZE
  MaxOutages   \* bound: times the database server goes away

ASSUME ThreadsAssumption == N \in Nat \ {0} /\ AsioThreads \in Nat \ {0}
ASSUME ConnsAssumption   == MaxConns \in Nat /\ IPOf \in [1 .. MaxConns -> IPs]
ASSUME LimitsAssumption  == /\ MaxClients \in Nat \cup {-1} /\ SpamPrevention \in BOOLEAN
                            /\ MaxAttempts \in Nat /\ MapMax \in Nat /\ MaxOutages \in Nat

Threads == 1 .. N
Conns   == 1 .. MaxConns   \* in the order of the backlog
Pools   == {"login", "characters"}

VARIABLES
  phase,    \* where the main thread is, see Phases
  asio,     \* the pool's io_context: off, running, stopped, joined
  chain,    \* the accept loop, see Chains
  conn,     \* conn[c]: where the connection is, see Places
  home,     \* home[c]: the network thread it was given to, 0 before
  number,   \* number[t]: m_socketsNumber
  net,      \* net[t]: where the network thread is
  stopped,  \* stopped[t]: m_stopped, and its io_context is stopped
  tries,    \* m_ipRequestMap: tries[ip], 0 when it is not in the map
  admitted, \* sessions made for each address since the last cleanup (history)
  keep,     \* KeepDatabasesAliveHandler: idle, or at the pool that is left
  pool,     \* pool[d]: the workers of a DatabaseWorkerPool
  direct,   \* direct[d]: m_directPersistentMysqlSession
  up,       \* the database server answers
  outages   \* times it went away (bound only)

chainVars == <<chain, conn, home, tries, admitted>>
netVars   == <<number, net, stopped>>
dbVars    == <<keep, pool, direct>>
vars == <<phase, asio, chainVars, netVars, dbVars, up, outages>>

------------------------------------------------------------------------------
(* Values.                                                                 *)

SetupOf == [login |-> "setupLogin", characters |-> "setupCharacters"]
StartOf == [login |-> "startLogin", characters |-> "startCharacters"]
StopOf  == [login |-> "stopLogin",  characters |-> "stopCharacters"]
CloseOf == [login |-> "closeLogin", characters |-> "closeCharacters"]

\* The steps of Init and Start, the simulation's loop, the steps of Shutdown.
Phases ==
       {"config", "stores", "manager", "asio", "threads", "accept", "update"}
  \cup {"stopAsio", "joinAsio", "stopThreads", "joinThreads", "done", "failed"}
  \cup UNION {{SetupOf[d], StartOf[d], StopOf[d], CloseOf[d]} : d \in Pools}

\* backlog: offered by the kernel, now or later; chain: being accepted; queued: m_queuedSockets;
\* listed: m_sockets; erased: out of the list and not yet subtracted.
Places == {"backlog", "chain", "queued", "listed", "erased", "closed"}

\* off: not started.  scan, reread: in SocketManagerHandler at thread i.
\* accepting: an async_accept is outstanding.  limit, spam, push, count: in
\* AsyncAcceptCallback, the last two with m_queuedSocketsMutex of tid held.
ChainSteps == {"off", "scan", "reread", "accepting", "limit", "spam", "push", "count"}

Chains == [at : ChainSteps, i : Threads, tid : 0 .. N, min : Int, sock : 0 .. MaxConns]

\* Greater than every count, as std::numeric_limits<int>::max() is.
Infinity == MaxConns + 1

Scan == [at |-> "scan", i |-> 1, tid |-> 0, min |-> Infinity, sock |-> 0]

Init ==
  /\ phase = "config"
  /\ asio = "off"
  /\ chain = [Scan EXCEPT !.at = "off"]
  /\ conn = [c \in Conns |-> "backlog"]
  /\ home = [c \in Conns |-> 0]
  /\ number = [t \in Threads |-> 0]
  /\ net = [t \in Threads |-> "off"]
  /\ stopped = [t \in Threads |-> FALSE]
  /\ tries = [a \in IPs |-> 0]
  /\ admitted = [a \in IPs |-> 0]
  /\ keep = "idle"
  /\ pool = [d \in Pools |-> "none"]
  /\ direct = [d \in Pools |-> "none"]
  /\ up = TRUE
  /\ outages = 0

------------------------------------------------------------------------------
(* Boot: Server::Init and Server::Start.  A step of Init that fails makes  *)
(* main return, with whatever it started so far still running.             *)

LoadConfig ==
  /\ phase = "config"
  /\ phase' \in {"setupLogin", "failed"}
  /\ UNCHANGED <<asio, chainVars, netVars, dbVars, up, outages>>

\* DatabaseWorkerPool::Setup makes the workers and their client pools.
SetupPool(d) ==
  /\ phase = SetupOf[d]
  /\ \/ phase' = StartOf[d] /\ pool' = [pool EXCEPT ![d] = "ready"]
     \/ phase' = "failed" /\ UNCHANGED pool
  /\ UNCHANGED <<asio, chainVars, netVars, keep, direct, up, outages>>

AfterStart(d) == IF d = "login" THEN "setupCharacters" ELSE "stores"

\* DatabaseWorker::Start opens both sessions of a worker before its thread.
StartPool(d) ==
  /\ phase = StartOf[d]
  /\ IF up
     THEN /\ phase' = AfterStart(d)
          /\ pool' = [pool EXCEPT ![d] = "running"]
          /\ direct' = [direct EXCEPT ![d] = "alive"]
     ELSE phase' = "failed" /\ UNCHANGED <<pool, direct>>
  /\ UNCHANGED <<asio, chainVars, netVars, keep, up, outages>>

LoadStores ==
  /\ phase = "stores"
  /\ phase' \in {"manager", "failed"}
  /\ UNCHANGED <<asio, chainVars, netVars, dbVars, up, outages>>

\* The SocketManager makes its threads' objects and binds the acceptor.
MakeSocketManager ==
  /\ phase = "manager"
  /\ phase' \in {"asio", "failed"}
  /\ UNCHANGED <<asio, chainVars, netVars, dbVars, up, outages>>

\* AsioThreadPool::Start; the two periodic handlers are posted at once.
StartAsio ==
  /\ phase = "asio"
  /\ phase' = "threads"
  /\ asio' = "running"
  /\ UNCHANGED <<chainVars, netVars, dbVars, up, outages>>

StartThreads ==
  /\ phase = "threads"
  /\ phase' = "accept"
  /\ net' = [t \in Threads |-> "idle"]
  /\ chain' = Scan
  /\ UNCHANGED <<asio, conn, home, tries, admitted, number, stopped, dbVars, up, outages>>

------------------------------------------------------------------------------
(* The accept loop.  Its handlers run on the threads of the asio pool, the *)
(* first SocketManagerHandler on the main thread.                          *)

OnMain == phase = "accept"

ChainRuns == ~ OnMain /\ chain.at \notin {"off", "accepting"}

Busy == (IF ChainRuns THEN 1 ELSE 0) + (IF keep = "idle" THEN 0 ELSE 1)

CanStart == asio = "running" /\ Busy < AsioThreads   \* a thread takes a ready handler

\* SocketManagerHandler at thread i: the count is read for the comparison and
\* read again for the new minimum.
NextThread(ch) == IF ch.i < N THEN [ch EXCEPT !.at = "scan", !.i = ch.i + 1]
                  ELSE [ch EXCEPT !.at = "accepting", !.i = 1, !.min = Infinity]

ScanThread ==
  /\ chain.at = "scan"
  /\ chain' = IF chain.min > number[chain.i]
              THEN [chain EXCEPT !.at = "reread", !.tid = chain.i]
              ELSE NextThread(chain)
  /\ phase' = IF OnMain /\ chain'.at = "accepting" THEN "update" ELSE phase
  /\ UNCHANGED <<asio, conn, home, tries, admitted, netVars, dbVars, up, outages>>

RereadThread ==
  /\ chain.at = "reread"
  /\ chain' = NextThread([chain EXCEPT !.min = number[chain.i]])
  /\ phase' = IF OnMain /\ chain'.at = "accepting" THEN "update" ELSE phase
  /\ UNCHANGED <<asio, conn, home, tries, admitted, netVars, dbVars, up, outages>>

\* async_accept completes with the next connection of the backlog.
AcceptConn(c) ==
  /\ chain.at = "accepting" /\ CanStart
  /\ conn[c] = "backlog" /\ \A b \in 1 .. c - 1 : conn[b] # "backlog"
  /\ chain' = [chain EXCEPT !.at = "limit", !.sock = c]
  /\ conn' = [conn EXCEPT ![c] = "chain"]
  /\ UNCHANGED <<phase, asio, home, tries, admitted, netVars, dbVars, up, outages>>

\* async_accept fails; OnAcceptError continues the loop.
AcceptFails ==
  /\ chain.at = "accepting" /\ CanStart
  /\ chain' = Scan
  /\ UNCHANGED <<phase, asio, conn, home, tries, admitted, netVars, dbVars, up, outages>>

HasRoom(t) == MaxClients = -1 \/ number[t] < MaxClients

\* Slip: the connection is closed and the loop not continued.
RefuseAndReturn == /\ conn' = [conn EXCEPT ![chain.sock] = "closed"]
                   /\ chain' = [Scan EXCEPT !.at = "off"]

\* The connection is closed and SocketManagerHandler called.
Refuse == /\ conn' = [conn EXCEPT ![chain.sock] = "closed"]
          /\ chain' = Scan

\* The limit of the thread, then remote_endpoint, which fails when the client
\* is already gone.
AfterLimit == IF SpamPrevention THEN "spam" ELSE "push"

CheckLimit ==
  /\ chain.at = "limit"
  /\ \/ HasRoom(chain.tid) /\ chain' = [chain EXCEPT !.at = AfterLimit] /\ UNCHANGED conn
     \/ Refuse
  /\ UNCHANGED <<phase, asio, home, tries, admitted, netVars, dbVars, up, outages>>

MapSize == Cardinality({a \in IPs : tries[a] > 0})

\* Slip: one attempt more than the maximum.
IsSpamLate(a) == IF tries[a] > 0 THEN tries[a] > MaxAttempts ELSE MapSize >= MapMax

IsSpam(a) == IF tries[a] > 0 THEN tries[a] >= MaxAttempts ELSE MapSize >= MapMax

\* Its mutex, which the cleanup takes too, is released with this step.
DoIPSpamPrevention ==
  /\ chain.at = "spam"
  /\ LET a == IPOf[chain.sock] IN
     IF IsSpam(a)
     THEN Refuse /\ UNCHANGED tries
     ELSE /\ tries' = [tries EXCEPT ![a] = @ + 1]
          /\ chain' = [chain EXCEPT !.at = "push"]
          /\ UNCHANGED conn
  /\ UNCHANGED <<phase, asio, home, admitted, netVars, dbVars, up, outages>>

\* The session is made; QueueNewSocket takes its thread's mutex, pushes, then
\* increments the count.
QueueNewSocket ==
  /\ chain.at = "push"
  /\ admitted' = [admitted EXCEPT ![IPOf[chain.sock]] = @ + 1]
  /\ chain' = [chain EXCEPT !.at = "count"]
  /\ conn' = [conn EXCEPT ![chain.sock] = "queued"]
  /\ home' = [home EXCEPT ![chain.sock] = chain.tid]
  /\ UNCHANGED <<phase, asio, tries, netVars, dbVars, up, outages>>

\* Slip: the count is left to the thread that lists the socket.
CountUpForgotten == number

CountUp == [number EXCEPT ![chain.tid] = @ + 1]

CountNewSocket ==
  /\ chain.at = "count"
  /\ number' = CountUp
  /\ chain' = Scan
  /\ UNCHANGED <<phase, asio, conn, home, tries, admitted, net, stopped, dbVars, up, outages>>

IPRequestMapCleanup ==
  /\ CanStart
  /\ tries' = [a \in IPs |-> 0]
  /\ admitted' = [a \in IPs |-> 0]
  /\ UNCHANGED <<phase, asio, chain, conn, home, netVars, dbVars, up, outages>>

------------------------------------------------------------------------------
(* NetworkThread::Run and Update of thread t.                              *)

On(t, place) == {c \in Conns : home[c] = t /\ conn[c] = place}

MoveAll(t, from, to) ==
  conn' = [c \in Conns |-> IF c \in On(t, from) THEN to ELSE conn[c]]

\* Slip: the queue is read without its mutex.
QueueMutexIgnored(t) == TRUE

QueueMutexFree(t) == ~ (chain.at = "count" /\ chain.tid = t)

\* Update re-arms its timer, lists the queued sockets with the mutex, and
\* drops from the list the sockets whose Update returns -1.
Update(t) ==
  /\ net[t] = "idle" /\ ~ stopped[t] /\ QueueMutexFree(t)
  /\ \E gone \in SUBSET (On(t, "queued") \cup On(t, "listed")) :
       /\ net' = [net EXCEPT ![t] = IF gone = {} THEN "idle" ELSE "erased"]
       /\ conn' = [c \in Conns |-> IF c \in gone THEN "erased"
                                   ELSE IF c \in On(t, "queued") THEN "listed" ELSE conn[c]]
  /\ UNCHANGED <<phase, asio, chain, home, tries, admitted, number, stopped, dbVars, up, outages>>

\* fetch_sub of the difference of the list's length.
CountErased(t) ==
  /\ net[t] = "erased"
  /\ net' = [net EXCEPT ![t] = "idle"]
  /\ number' = [number EXCEPT ![t] = @ - Cardinality(On(t, "erased"))]
  /\ MoveAll(t, "erased", "closed")
  /\ UNCHANGED <<phase, asio, chain, home, tries, admitted, stopped, dbVars, up, outages>>

\* The io_context returned: the lists are cleared, without the mutex.  The
\* destructors of the sessions post their despawns to a simulation that does
\* not run any more.
ClearSockets(t) ==
  /\ net[t] = "idle" /\ stopped[t]
  /\ net' = [net EXCEPT ![t] = "clearing"]
  /\ MoveAll(t, "listed", "closed")
  /\ UNCHANGED <<phase, asio, chain, home, tries, admitted, number, stopped, dbVars, up, outages>>

ClearQueuedSockets(t) ==
  /\ net[t] = "clearing"
  /\ net' = [net EXCEPT ![t] = "ended"]
  /\ MoveAll(t, "queued", "closed")
  /\ UNCHANGED <<phase, asio, chain, home, tries, admitted, number, stopped, dbVars, up, outages>>

------------------------------------------------------------------------------
(* The database server, and KeepDatabasesAliveHandler on the asio pool.    *)
(* Its timer's interval is long against a ping: one instance runs at a     *)
(* time.                                                                   *)

Outage ==
  /\ up /\ outages < MaxOutages
  /\ up' = FALSE
  /\ outages' = outages + 1
  /\ direct' = [d \in Pools |-> IF direct[d] = "alive" THEN "dead" ELSE direct[d]]
  /\ UNCHANGED <<phase, asio, chainVars, netVars, keep, pool>>

Recover ==
  /\ ~ up
  /\ up' = TRUE
  /\ UNCHANGED <<phase, asio, chainVars, netVars, dbVars, outages>>

\* CreateDirectPersistentMySQLSession, after a dead session was closed.
Recreate == IF up THEN "alive" ELSE "null"

\* Slip: the failed statement is reported and the dead session kept.
DirectExecuteOnly(d) == IF direct[d] \in {"alive", "dead"} THEN direct[d] ELSE Recreate

\* DirectExecute: a missing session is made first; a failed statement on a
\* dead session makes a new one for the next call.
DirectExecute(d) == IF direct[d] = "alive" THEN "alive" ELSE Recreate

KeepDatabasesAliveHandler ==
  \/ /\ keep = "idle" /\ CanStart
     /\ keep' = "characters"
     /\ direct' = [direct EXCEPT !["login"] = DirectExecute("login")]
     /\ UNCHANGED <<phase, asio, chainVars, netVars, pool, up, outages>>
  \/ /\ keep = "characters"
     /\ keep' = "idle"
     /\ direct' = [direct EXCEPT !["characters"] = DirectExecute("characters")]
     /\ UNCHANGED <<phase, asio, chainVars, netVars, pool, up, outages>>

------------------------------------------------------------------------------
(* Server::Stop, and Server::Shutdown on the main thread.                  *)

Stop ==
  /\ phase = "update"
  /\ phase' = "stopAsio"
  /\ UNCHANGED <<asio, chainVars, netVars, dbVars, up, outages>>

StopAsio ==
  /\ phase = "stopAsio"
  /\ phase' = "joinAsio"
  /\ asio' = "stopped"
  /\ UNCHANGED <<chainVars, netVars, dbVars, up, outages>>

\* Slip: the threads are stopped and not joined.
NotJoined == TRUE

NoHandlerRuns == Busy = 0

\* A thread leaves run() when the handler it is in returned.
JoinAsio ==
  /\ phase = "joinAsio" /\ NoHandlerRuns
  /\ phase' = "stopLogin"
  /\ asio' = "joined"
  /\ UNCHANGED <<chainVars, netVars, dbVars, up, outages>>

StopPool(d) ==
  /\ phase = StopOf[d]
  /\ phase' = CloseOf[d]
  /\ pool' = [pool EXCEPT ![d] = "stopped"]
  /\ UNCHANGED <<asio, chainVars, netVars, keep, direct, up, outages>>

AfterClose(d) == IF d = "login" THEN "stopCharacters" ELSE "stopThreads"

\* Join waits for the workers (DbWorkers), closes both sessions of each; then
\* CloseDBs closes the clients.
ClosePool(d) ==
  /\ phase = CloseOf[d]
  /\ phase' = AfterClose(d)
  /\ pool' = [pool EXCEPT ![d] = "closed"]
  /\ direct' = [direct EXCEPT ![d] = "null"]
  /\ UNCHANGED <<asio, chainVars, netVars, keep, up, outages>>

StopThreads ==
  /\ phase = "stopThreads"
  /\ phase' = "joinThreads"
  /\ stopped' = [t \in Threads |-> TRUE]
  /\ UNCHANGED <<asio, chainVars, number, net, dbVars, up, outages>>

\* The SocketManager is destroyed, and with its acceptor what the kernel had
\* accepted for it.
JoinThreads ==
  /\ phase = "joinThreads" /\ \A t \in Threads : net[t] = "ended"
  /\ phase' = "done"
  /\ conn' = [c \in Conns |-> IF conn[c] = "backlog" THEN "closed" ELSE conn[c]]
  /\ UNCHANGED <<asio, chain, home, tries, admitted, netVars, dbVars, up, outages>>

------------------------------------------------------------------------------

Boot ==
  \/ LoadConfig \/ LoadStores \/ MakeSocketManager \/ StartAsio \/ StartThreads
  \/ \E d \in Pools : SetupPool(d) \/ StartPool(d)

Shutdown ==
  \/ StopAsio \/ JoinAsio \/ StopThreads \/ JoinThreads
  \/ \E d \in Pools : StopPool(d) \/ ClosePool(d)

AcceptHandlers ==
  \/ ScanThread \/ RereadThread \/ CheckLimit \/ DoIPSpamPrevention
  \/ QueueNewSocket \/ CountNewSocket

NetworkThread(t) ==
  Update(t) \/ CountErased(t) \/ ClearSockets(t) \/ ClearQueuedSockets(t)

Next ==
  \/ Boot \/ Stop \/ Shutdown
  \/ AcceptHandlers \/ AcceptFails \/ \E c \in Conns : AcceptConn(c)
  \/ IPRequestMapCleanup \/ KeepDatabasesAliveHandler
  \/ \E t \in Threads : NetworkThread(t)
  \/ Outage \/ Recover

Spec == Init /\ [][Next]_vars

\* The running threads go on.  An asio thread that becomes free again and
\* again takes a ready handler in the end (the io_context's queue is a FIFO),
\* and accept errors are not for ever.
Fairness ==
  /\ WF_vars(Boot \/ Shutdown)
  /\ WF_vars(AcceptHandlers)
  /\ SF_vars(\E c \in Conns : AcceptConn(c))
  /\ SF_vars(KeepDatabasesAliveHandler)
  /\ \A t \in Threads : WF_vars(NetworkThread(t))

FairSpec == Spec /\ Fairness

------------------------------------------------------------------------------
(* Properties.                                                             *)

TypeOK ==
  /\ phase \in Phases
  /\ asio \in {"off", "running", "stopped", "joined"}
  /\ chain \in Chains
  /\ conn \in [Conns -> Places]
  /\ home \in [Conns -> 0 .. N]
  /\ number \in [Threads -> Int]
  /\ net \in [Threads -> {"off", "idle", "erased", "clearing", "ended"}]
  /\ stopped \in [Threads -> BOOLEAN]
  /\ tries \in [IPs -> Nat] /\ admitted \in [IPs -> Nat]
  /\ keep \in {"idle", "characters"}
  /\ pool \in [Pools -> {"none", "ready", "running", "stopped", "closed"}]
  /\ direct \in [Pools -> {"none", "null", "dead", "alive"}]
  /\ up \in BOOLEAN
  /\ outages \in 0 .. MaxOutages

Held(t) == On(t, "queued") \cup On(t, "listed") \cup On(t, "erased")

\* m_socketsNumber is unsigned and shared by two threads.  Until the thread is
\* stopped it counts the sockets it queued and holds, but for the one just
\* pushed, and with those already out of the list; so it never wraps below 0.
\* And no thread holds more than MAX_CONNECTED_CLIENTS_PER_THREAD, although it
\* was chosen from counts that were read before its connection came.
SocketsCounted ==
  \A t \in Threads :
    /\ net[t] \in {"idle", "erased"} =>
         number[t] = Cardinality(Held(t)) - (IF chain.at = "count" /\ chain.tid = t THEN 1 ELSE 0)
    /\ net[t] \in {"idle", "erased"} => number[t] >= 0
    /\ MaxClients # -1 => Cardinality(Held(t)) <= MaxClients

\* At most MAX_CONNECTION_ATTEMPTS sessions for an address (one, if the setting
\* is 0), and for no more addresses than the map may hold.
WithinLimits(made) ==
  /\ \A a \in IPs : made[a] <= (IF MaxAttempts = 0 THEN 1 ELSE MaxAttempts)
  /\ Cardinality({a \in IPs : made[a] > 0}) <= MapMax

\* The check counts an attempt in the map, the session is made after the
\* mutex of the map is released, and another asio thread may clear the map in
\* between: the sessions made since a cleanup may be one more than were counted
\* since.  It is one in all, not one of every address, since one accept is
\* under way at a time: all but one session are within both limits.
AdmissionsBounded ==
  SpamPrevention =>
    \/ WithinLimits(admitted)
    \/ \E late \in IPs :
         admitted[late] > 0 /\ WithinLimits([admitted EXCEPT ![late] = @ - 1])

\* Does not hold: no cleanup comes between a check and its session.
NoLateSession == SpamPrevention => WithinLimits(admitted)

\* The order of Shutdown: when a thread clears its queue without the mutex
\* nobody can be in QueueNewSocket, no keepalive uses the connection of a
\* closed pool, and in the end no socket is held by anyone.
ShutdownOrdered ==
  /\ \A t \in Threads : net[t] \in {"clearing", "ended"} =>
       asio = "joined" /\ chain.at \in {"off", "accepting"}
  /\ \A d \in Pools : pool[d] \in {"stopped", "closed"} => keep = "idle"
  /\ phase = "done" =>
       \A c \in Conns : conn[c] = "closed"

\* The accept loop goes on after every refusal and error: the connections of
\* the backlog are all taken, or the shutdown comes to its end.
ArrivalsHandled ==
  phase = "update" ~> (phase = "done" \/ \A c \in Conns : conn[c] # "backlog")

\* A direct connection that was lost while the database was away is there
\* again, without anyone asking, once it stays back.
ConnectionsHeal ==
  <>[](up /\ phase = "update") => <>[](\A d \in Pools : direct[d] = "alive")
==============================================================================
