-------------------------- MODULE WorldServerProofs --------------------------
(***************************************************************************)
(* Theorems of WorldServer, for any number of network threads, of asio     *)
(* threads, of connections and addresses, and any limits.                  *)
(***************************************************************************)
EXTENDS WorldServer, FiniteSetTheorems, TLAPS

------------------------------------------------------------------------------
(* The inductive invariant.                                                *)

\* Before the accept loop begins, and after the asio threads were joined.
Early == {"config", "stores", "manager", "asio", "threads", "failed"}
           \cup UNION {{SetupOf[d], StartOf[d]} : d \in Pools}
Late  == {"stopThreads", "joinThreads", "done"} \cup UNION {{StopOf[d], CloseOf[d]} : d \in Pools}

ChainRests == chain.at \in {"off", "accepting"}

\* What the main thread has done is done: no handler runs any more once it
\* joined the asio threads, and only then it stops pools and network threads.
PhaseInv ==
  /\ phase \in Early => chain.at = "off" /\ \A t \in Threads : net[t] = "off"
  /\ phase \in Late => asio = "joined" /\ keep = "idle" /\ ChainRests
  /\ \A d \in Pools : pool[d] \in {"stopped", "closed"} => phase \in Late
  /\ \A t \in Threads : stopped[t] => phase \in {"joinThreads", "done"}
  /\ \A t \in Threads : net[t] \in {"clearing", "ended"} => stopped[t]

\* The accept loop holds one connection at most, for a thread that it found.
ChainInv ==
  /\ chain.at = "scan" /\ chain.i = 1 => chain.min = Infinity
  /\ (chain.at = "scan" /\ chain.i # 1) \/ chain.at \notin {"off", "scan"} => chain.tid \in Threads
  /\ chain.at \in {"limit", "spam", "push"} => chain.sock \in Conns /\ conn[chain.sock] = "chain"
  /\ chain.at \in {"spam", "push"} => HasRoom(chain.tid)
  /\ chain.at = "count" =>
       chain.sock \in Conns /\ conn[chain.sock] = "queued" /\ home[chain.sock] = chain.tid
  /\ \A c \in Conns : conn[c] = "chain" => chain.at \in {"limit", "spam", "push"} /\ c = chain.sock

\* Where a thread keeps no socket any more.
PlacesInv ==
  /\ \A c \in Conns : conn[c] \in {"queued", "listed", "erased"} => home[c] \in Threads
  /\ \A t \in Threads :
       /\ net[t] # "erased" => On(t, "erased") = {}
       /\ net[t] \in {"clearing", "ended"} => On(t, "listed") = {}
       /\ net[t] = "ended" => On(t, "queued") = {}
  /\ phase = "done" => \A c \in Conns : conn[c] = "closed"

\* The socket that was pushed and is not yet counted.
Uncounted(t) == IF chain.at = "count" /\ chain.tid = t THEN 1 ELSE 0

CountInv ==
  \A t \in Threads :
    /\ net[t] \notin {"clearing", "ended"} => number[t] = Cardinality(Held(t)) - Uncounted(t)
    /\ MaxClients # -1 => Cardinality(Held(t)) <= MaxClients

Tried == {a \in IPs : tries[a] > 0}

\* The attempt that passed the check and has no session yet.
Pending(a) == IF chain.at = "push" /\ IPOf[chain.sock] = a THEN 1 ELSE 0

AtMostOne(S) == \A x, y \in S : x = y

\* Every session made is an attempt noted, but for one that was noted before
\* the map was cleared.
Noted ==
  \E late \in SUBSET IPs :
    /\ AtMostOne(late)
    /\ \A a \in IPs :
         admitted[a] + Pending(a) = tries[a] + (IF a \in late THEN 1 ELSE 0)

AdmitInv ==
  /\ SpamPrevention => Noted
  /\ \A a \in IPs : tries[a] <= (IF MaxAttempts = 0 THEN 1 ELSE MaxAttempts)
  /\ IsFiniteSet(Tried) /\ Cardinality(Tried) <= MapMax

ServerInv == TypeOK /\ PhaseInv /\ ChainInv /\ PlacesInv /\ CountInv /\ AdmitInv

------------------------------------------------------------------------------
(* The main thread, and who may still run.                                 *)

LEMMA PhasesAre ==
  /\ Early = {"config", "stores", "manager", "asio", "threads", "failed",
              "setupLogin", "startLogin", "setupCharacters", "startCharacters"}
  /\ Late = {"stopThreads", "joinThreads", "done",
             "stopLogin", "closeLogin", "stopCharacters", "closeCharacters"}
  /\ Phases = Early \cup Late \cup {"accept", "update", "stopAsio", "joinAsio"}
  /\ SetupOf["login"] = "setupLogin" /\ SetupOf["characters"] = "setupCharacters"
  /\ StartOf["login"] = "startLogin" /\ StartOf["characters"] = "startCharacters"
  /\ StopOf["login"] = "stopLogin" /\ StopOf["characters"] = "stopCharacters"
  /\ CloseOf["login"] = "closeLogin" /\ CloseOf["characters"] = "closeCharacters"
  BY DEF Early, Late, Phases, Pools, SetupOf, StartOf, StopOf, CloseOf

LEMMA BootKeepsPhase ==
  ASSUME ServerInv, Boot \/ Stop
  PROVE  TypeOK' /\ PhaseInv' /\ phase' # "done"
<1>1. TypeOK /\ PhaseInv
  BY DEF ServerInv
<1>2. CASE LoadConfig \/ LoadStores \/ MakeSocketManager \/ StartAsio \/ Stop
  BY <1>1, <1>2, PhasesAre DEF TypeOK, PhaseInv, ChainRests, LoadConfig, LoadStores,
     MakeSocketManager, StartAsio, Stop, chainVars, netVars, dbVars
<1>3. CASE \E d \in Pools : SetupPool(d) \/ StartPool(d)
  BY <1>1, <1>3, PhasesAre DEF TypeOK, PhaseInv, ChainRests, SetupPool, StartPool, AfterStart,
     Pools, chainVars, netVars, dbVars
<1>4. CASE StartThreads
  <2>1. Scan \in Chains
    BY ThreadsAssumption, ConnsAssumption DEF Scan, Chains, ChainSteps, Threads, Infinity
  <2> QED
    BY <1>1, <1>4, <2>1, PhasesAre DEF TypeOK, PhaseInv, ChainRests, StartThreads, dbVars
<1> QED
  BY <1>2, <1>3, <1>4 DEF Boot

LEMMA ShutdownKeepsPhase ==
  ASSUME ServerInv, Shutdown
  PROVE  TypeOK' /\ PhaseInv'
<1>1. TypeOK /\ PhaseInv
  BY DEF ServerInv
<1>2. CASE StopAsio
  BY <1>1, <1>2, PhasesAre DEF TypeOK, PhaseInv, ChainRests, StopAsio,
     chainVars, netVars, dbVars
<1>3. CASE JoinAsio
  <2>1. keep = "idle" /\ ChainRests
    <3>1. Busy = 0 /\ ~OnMain
      BY <1>3 DEF JoinAsio, NoHandlerRuns, OnMain
    <3>2. ~ChainRuns /\ keep = "idle"
      BY <3>1 DEF Busy
    <3> QED
      BY <3>1, <3>2 DEF ChainRuns, ChainRests
  <2> QED
    BY <1>1, <1>3, <2>1, PhasesAre DEF TypeOK, PhaseInv, ChainRests, JoinAsio,
       chainVars, netVars, dbVars
<1>4. CASE JoinThreads
  BY <1>1, <1>4, PhasesAre DEF TypeOK, PhaseInv, ChainRests, JoinThreads, Places, netVars, dbVars
<1>5. CASE \E d \in Pools : StopPool(d) \/ ClosePool(d)
  BY <1>1, <1>5, PhasesAre DEF TypeOK, PhaseInv, ChainRests, StopPool, ClosePool, AfterClose,
     Pools, chainVars, netVars, dbVars
<1>6. CASE StopThreads
  <2>1. UNCHANGED <<asio, chain, conn, home, tries, admitted, number, net, keep, pool, direct, up, outages>>
        /\ phase = "stopThreads" /\ phase' = "joinThreads" /\ stopped' = [t \in Threads |-> TRUE]
    BY <1>6 DEF StopThreads, chainVars, dbVars
  <2>2. TypeOK'
    BY <1>1, <2>1, PhasesAre DEF TypeOK
  <2>3. PhaseInv'
    BY <1>1, <2>1, PhasesAre DEF PhaseInv, ChainRests
  <2> QED
    BY <2>2, <2>3
<1> QED
  BY <1>2, <1>3, <1>4, <1>5, <1>6 DEF Shutdown

LEMMA DatabaseKeepsPhase ==
  ASSUME ServerInv, IPRequestMapCleanup \/ KeepDatabasesAliveHandler \/ Outage \/ Recover
  PROVE  TypeOK' /\ PhaseInv'
<1>1. TypeOK /\ PhaseInv
  BY DEF ServerInv
<1>2. CASE IPRequestMapCleanup
  BY <1>1, <1>2 DEF TypeOK, PhaseInv, ChainRests, IPRequestMapCleanup, netVars, dbVars
<1>3. CASE Recover \/ Outage
  <2>1. UNCHANGED <<phase, asio, chainVars, netVars, keep, pool>>
    BY <1>3 DEF Outage, Recover, dbVars
  <2>2. direct' \in [Pools -> {"none", "null", "dead", "alive"}] /\ up' \in BOOLEAN
    BY <1>1, <1>3 DEF TypeOK, Outage, Recover, dbVars
  <2>3. outages' \in 0 .. MaxOutages
    BY <1>1, <1>3, LimitsAssumption DEF TypeOK, Outage, Recover
  <2> QED
    BY <1>1, <2>1, <2>2, <2>3 DEF TypeOK, PhaseInv, ChainRests, chainVars, netVars
<1>4. CASE KeepDatabasesAliveHandler
  BY <1>1, <1>4 DEF TypeOK, PhaseInv, ChainRests, KeepDatabasesAliveHandler, CanStart,
     DirectExecute, Recreate, Pools, chainVars, netVars
<1> QED
  BY <1>2, <1>3, <1>4

LEMMA ThreadKeepsPhase ==
  ASSUME ServerInv, NEW t \in Threads, NetworkThread(t)
  PROVE  TypeOK' /\ PhaseInv' /\ UNCHANGED <<phase, chain, home>>
<1>1. TypeOK /\ PhaseInv
  BY DEF ServerInv
<1>2. UNCHANGED <<phase, asio, chain, home, tries, admitted, stopped, dbVars, up, outages>>
  BY DEF NetworkThread, Update, CountErased, ClearSockets, ClearQueuedSockets
<1>3. conn' \in [Conns -> Places]
  BY <1>1 DEF TypeOK, NetworkThread, Update, CountErased, ClearSockets, ClearQueuedSockets,
     MoveAll, Places
<1>4. /\ net' \in [Threads -> {"off", "idle", "erased", "clearing", "ended"}]
      /\ \A u \in Threads : net'[u] \in {"clearing", "ended"} => stopped[u]
  BY <1>1 DEF TypeOK, PhaseInv, NetworkThread, Update, CountErased, ClearSockets, ClearQueuedSockets
<1>5. number' \in [Threads -> Int]
  <2>1. CASE CountErased(t)
    <3>1. IsFiniteSet(On(t, "erased")) /\ Cardinality(On(t, "erased")) \in Nat
      <4>1. IsFiniteSet(Conns) /\ On(t, "erased") \subseteq Conns
        BY ConnsAssumption, FS_Interval DEF Conns, On
      <4> QED
        BY <4>1, FS_Subset, FS_CardinalityType
    <3> QED
      BY <1>1, <2>1, <3>1 DEF TypeOK, CountErased
  <2>2. CASE ~CountErased(t)
    BY <1>1, <2>2 DEF TypeOK, NetworkThread, Update, ClearSockets, ClearQueuedSockets
  <2> QED
    BY <2>1, <2>2
<1>6. phase \notin Early
  BY <1>1 DEF PhaseInv, NetworkThread, Update, CountErased, ClearSockets, ClearQueuedSockets
<1>7. TypeOK'
  BY <1>1, <1>2, <1>3, <1>4, <1>5 DEF TypeOK, dbVars
<1>8. PhaseInv'
  BY <1>1, <1>2, <1>4, <1>6 DEF PhaseInv, ChainRests, dbVars
<1> QED
  BY <1>2, <1>7, <1>8

------------------------------------------------------------------------------
(* The sockets of a thread.                                                *)

HeldPlaces == {"queued", "listed", "erased"}

LEMMA HeldIs ==
  ASSUME NEW t \in Threads
  PROVE  Held(t) = {c \in Conns : home[c] = t /\ conn[c] \in HeldPlaces}
  BY DEF Held, On, HeldPlaces

LEMMA ConnsFinite ==
  ASSUME NEW S, S \subseteq Conns
  PROVE  IsFiniteSet(S) /\ Cardinality(S) \in 0 .. MaxConns
<1>1. IsFiniteSet(Conns) /\ Cardinality(Conns) = MaxConns
  <2>1. IsFiniteSet(1 .. MaxConns) /\ Cardinality(1 .. MaxConns) = IF 1 > MaxConns THEN 0 ELSE MaxConns - 1 + 1
    BY ConnsAssumption, FS_Interval
  <2> QED
    BY <2>1, ConnsAssumption DEF Conns
<1>2. IsFiniteSet(S) /\ Cardinality(S) \in Nat /\ Cardinality(S) <= Cardinality(Conns)
  BY <1>1, FS_Subset, FS_CardinalityType
<1> QED
  BY <1>1, <1>2, ConnsAssumption

LEMMA HeldFinite ==
  ASSUME NEW t \in Threads
  PROVE  /\ IsFiniteSet(Held(t)) /\ Cardinality(Held(t)) \in 0 .. MaxConns
         /\ Uncounted(t) \in {0, 1}
<1>1. Held(t) \subseteq Conns
  BY HeldIs
<1> QED
  BY <1>1, ConnsFinite DEF Uncounted

LEMMA HeldFiniteNext ==
  ASSUME NEW t \in Threads
  PROVE  IsFiniteSet(Held(t)') /\ Cardinality(Held(t)') \in 0 .. MaxConns
<1>1. Held(t)' \subseteq Conns
  BY DEF Held, On
<1> QED
  BY <1>1, ConnsFinite

\* A step that moves no socket and does not count, and lets the accept loop go
\* on to no other connection, keeps the counts.
LEMMA NothingMoved ==
  ASSUME ServerInv, UNCHANGED <<conn, home, number, net>>,
         \A t \in Threads : Uncounted(t)' = Uncounted(t), phase' = "done" => phase = "done"
  PROVE  PlacesInv' /\ CountInv'
<1>1. \A t \in Threads : Held(t)' = Held(t)
  BY DEF Held, On
<1>2. CountInv'
  BY <1>1 DEF ServerInv, CountInv
<1> QED
  BY <1>2 DEF ServerInv, PlacesInv, On

------------------------------------------------------------------------------
(* The accept loop.                                                        *)

\* While one of its handlers is on, no thread is being cleared.
LEMMA LoopRuns ==
  ASSUME ServerInv, chain.at \notin {"off", "accepting"}
  PROVE  /\ phase \in {"accept", "update", "stopAsio", "joinAsio"}
         /\ \A t \in Threads : net[t] \notin {"clearing", "ended"} /\ ~stopped[t]
  BY PhasesAre DEF ServerInv, TypeOK, PhaseInv, ChainRests

LEMMA ScanIsChain == Scan \in Chains /\ Scan.at = "scan" /\ Scan.i = 1 /\ Scan.min = Infinity
  BY ThreadsAssumption, ConnsAssumption DEF Scan, Chains, ChainSteps, Threads, Infinity

LEMMA NextThreadFacts ==
  ASSUME NEW ch \in Chains
  PROVE  /\ NextThread(ch) \in Chains /\ NextThread(ch).at \in {"scan", "accepting"}
         /\ NextThread(ch).tid = ch.tid /\ NextThread(ch).sock = ch.sock
         /\ NextThread(ch).at = "scan" => NextThread(ch).i # 1
<1>1. ch.i \in 1 .. N /\ N \in Nat \ {0}
  BY ThreadsAssumption DEF Chains, Threads
<1>2. CASE ch.i < N
  <2>1. ch.i + 1 \in 1 .. N /\ ch.i + 1 # 1
    BY <1>1, <1>2
  <2> QED
    BY <1>2, <2>1 DEF NextThread, Chains, ChainSteps, Threads
<1>3. CASE ~(ch.i < N)
  <2>1. 1 \in 1 .. N /\ Infinity \in Int
    BY <1>1, ConnsAssumption DEF Infinity
  <2> QED
    BY <1>3, <2>1 DEF NextThread, Chains, ChainSteps, Threads
<1> QED
  BY <1>2, <1>3

\* The first count is always smaller than the maximum: a thread is found.
LEMMA FirstIsBetter ==
  ASSUME ServerInv, chain.at = "scan", chain.i = 1
  PROVE  chain.min > number[chain.i]
<1>1. 1 \in Threads /\ chain.min = Infinity
  BY ThreadsAssumption DEF Threads, ServerInv, ChainInv
<1>2. number[1] = Cardinality(Held(1)) - Uncounted(1)
  BY <1>1, LoopRuns DEF ServerInv, CountInv
<1>3. Cardinality(Held(1)) \in 0 .. MaxConns /\ Uncounted(1) \in {0, 1}
  BY <1>1, HeldFinite
<1> QED
  BY <1>1, <1>2, <1>3, ConnsAssumption DEF Infinity

LEMMA ScanningKeepsChain ==
  ASSUME ServerInv, ScanThread \/ RereadThread
  PROVE  /\ chain' \in Chains /\ ChainInv'
         /\ chain'.at \in {"scan", "reread", "accepting"}
<1>1. chain \in Chains /\ conn' = conn /\ chain.i \in Threads /\ number \in [Threads -> Int]
  BY DEF ServerInv, TypeOK, ScanThread, RereadThread, Chains
<1>2. \A c \in Conns : conn[c] # "chain"
  BY DEF ServerInv, ChainInv, ScanThread, RereadThread
<1>3. CASE ScanThread /\ chain.min > number[chain.i]
  <2>1. chain' = [chain EXCEPT !.at = "reread", !.tid = chain.i]
    BY <1>3 DEF ScanThread
  <2>2. chain.i \in 0 .. N
    BY <1>1, ThreadsAssumption DEF Threads
  <2>3. chain' \in Chains /\ chain'.at = "reread" /\ chain'.tid \in Threads
    BY <1>1, <2>1, <2>2 DEF Chains, ChainSteps
  <2> QED
    BY <1>1, <1>2, <2>3 DEF ChainInv
<1>4. ASSUME NEW ch \in Chains, ch.tid \in Threads, chain' = NextThread(ch)
      PROVE  /\ chain' \in Chains /\ ChainInv'
             /\ chain'.at \in {"scan", "reread", "accepting"}
  BY <1>1, <1>2, <1>4, NextThreadFacts DEF ChainInv
<1>5. CASE ScanThread /\ ~(chain.min > number[chain.i])
  <2>1. chain.tid \in Threads
    BY <1>5, FirstIsBetter DEF ScanThread, ServerInv, ChainInv
  <2> QED
    BY <1>1, <1>4, <1>5, <2>1 DEF ScanThread
<1>6. CASE RereadThread
  <2> DEFINE ch == [chain EXCEPT !.min = number[chain.i]]
  <2>1. chain.tid \in Threads
    BY <1>6 DEF RereadThread, ServerInv, ChainInv
  <2>2. ch \in Chains /\ ch.tid = chain.tid
    BY <1>1 DEF Chains
  <2>3. chain' = NextThread(ch)
    BY <1>6 DEF RereadThread
  <2> HIDE DEF ch
  <2> QED
    BY <1>4, <2>1, <2>2, <2>3
<1> QED
  BY <1>3, <1>5, <1>6

\* A step that notes no attempt and makes no session.
LEMMA AdmitSame ==
  ASSUME ServerInv, UNCHANGED <<tries, admitted>>,
         chain' = chain \/ (SpamPrevention => chain.at # "push" /\ chain'.at # "push")
  PROVE  AdmitInv'
<1>1. SpamPrevention => \A a \in IPs : Pending(a)' = Pending(a)
  BY DEF Pending
<1>2. SpamPrevention => Noted'
  BY <1>1 DEF Noted, ServerInv, AdmitInv
<1> QED
  BY <1>2 DEF ServerInv, AdmitInv, Tried

LEMMA ScanningKeepsServer ==
  ASSUME ServerInv, ScanThread \/ RereadThread
  PROVE  ServerInv'
<1>1. UNCHANGED <<asio, conn, home, tries, admitted, netVars, dbVars, up, outages>>
  BY DEF ScanThread, RereadThread
<1>2. chain' \in Chains /\ ChainInv' /\ chain'.at \in {"scan", "reread", "accepting"}
  BY ScanningKeepsChain
<1>3. phase \in {"accept", "update", "stopAsio", "joinAsio"} /\ phase' \in {phase, "update"}
  BY LoopRuns DEF ScanThread, RereadThread
<1>4. TypeOK' /\ PhaseInv'
  BY <1>1, <1>2, <1>3, PhasesAre DEF ServerInv, TypeOK, PhaseInv, netVars, dbVars
<1>5. PlacesInv' /\ CountInv'
  <2>1. \A t \in Threads : Uncounted(t)' = Uncounted(t)
    BY <1>2 DEF Uncounted, ScanThread, RereadThread
  <2> QED
    BY <1>1, <1>3, <2>1, NothingMoved DEF netVars
<1> QED
  <2>1. AdmitInv'
    BY <1>1, <1>2, AdmitSame DEF ScanThread, RereadThread
  <2> QED
    BY <1>2, <1>4, <1>5, <2>1 DEF ServerInv

\* What a handler that takes, checks or hands over a connection leaves alone.
LEMMA LoopKeepsPhase ==
  ASSUME ServerInv, phase \in {"accept", "update", "stopAsio", "joinAsio"},
         chain' \in Chains, conn' \in [Conns -> Places], home' \in [Conns -> 0 .. N],
         number' \in [Threads -> Int], tries' \in [IPs -> Nat], admitted' \in [IPs -> Nat],
         UNCHANGED <<phase, asio, net, stopped, dbVars, up, outages>>
  PROVE  TypeOK' /\ PhaseInv'
  BY PhasesAre DEF ServerInv, TypeOK, PhaseInv, dbVars

\* A connection that no thread holds goes elsewhere, but to a thread.
LEMMA NotOfThreads ==
  ASSUME ServerInv, NEW c \in Conns, conn[c] \in {"backlog", "chain"},
         conn' \in {[conn EXCEPT ![c] = "chain"], [conn EXCEPT ![c] = "closed"]},
         UNCHANGED <<phase, home, number, net>>, phase # "done",
         \A t \in Threads : Uncounted(t)' = Uncounted(t)
  PROVE  PlacesInv' /\ CountInv'
<1>1. conn \in [Conns -> Places]
  BY DEF ServerInv, TypeOK
<1>2. \A d \in Conns, p \in HeldPlaces : conn'[d] = p <=> conn[d] = p
  BY <1>1 DEF HeldPlaces
<1>3. \A t \in Threads : Held(t)' = Held(t)
  BY <1>2 DEF Held, On, HeldPlaces
<1>4. CountInv'
  BY <1>3 DEF ServerInv, CountInv
<1>5. PlacesInv'
  BY <1>2 DEF ServerInv, PlacesInv, On, HeldPlaces
<1> QED
  BY <1>4, <1>5

LEMMA AcceptingIsUp ==
  ASSUME ServerInv, chain.at = "accepting", CanStart
  PROVE  phase \in {"accept", "update", "stopAsio", "joinAsio"}
  BY PhasesAre DEF ServerInv, TypeOK, PhaseInv, CanStart

LEMMA AcceptingKeepsServer ==
  ASSUME ServerInv, AcceptFails \/ \E c \in Conns : AcceptConn(c)
  PROVE  ServerInv'
<1>1. chain.at = "accepting" /\ phase \in {"accept", "update", "stopAsio", "joinAsio"}
  BY AcceptingIsUp DEF AcceptFails, AcceptConn
<1>2. UNCHANGED <<phase, asio, home, tries, admitted, netVars, dbVars, up, outages>>
  BY DEF AcceptFails, AcceptConn
<1>3. \A c \in Conns : conn[c] # "chain"
  BY <1>1 DEF ServerInv, ChainInv
<1>4. CASE AcceptFails
  <2>1. chain' = Scan /\ conn' = conn
    BY <1>4 DEF AcceptFails
  <2>2. TypeOK' /\ PhaseInv'
    BY <1>1, <1>2, <2>1, ScanIsChain, LoopKeepsPhase DEF ServerInv, TypeOK, netVars
  <2>3. ChainInv'
    BY <1>3, <2>1, ScanIsChain DEF ChainInv
  <2>4. \A t \in Threads : Uncounted(t)' = Uncounted(t)
    BY <1>1, <2>1, ScanIsChain DEF Uncounted
  <2>5. PlacesInv' /\ CountInv'
    BY <1>1, <1>2, <2>1, <2>4, NothingMoved DEF netVars
  <2>6. AdmitInv'
    BY <1>1, <1>2, <2>1, ScanIsChain, AdmitSame
  <2> QED
    BY <2>2, <2>3, <2>5, <2>6 DEF ServerInv
<1>5. ASSUME NEW c \in Conns, AcceptConn(c)
      PROVE  ServerInv'
  <2>1. /\ chain' = [chain EXCEPT !.at = "limit", !.sock = c] /\ conn[c] = "backlog"
        /\ conn' = [conn EXCEPT ![c] = "chain"]
    BY <1>5 DEF AcceptConn
  <2>2. chain \in Chains /\ conn \in [Conns -> Places] /\ c \in 0 .. MaxConns
    BY ConnsAssumption DEF ServerInv, TypeOK, Conns
  <2>3. chain' \in Chains /\ chain'.at = "limit" /\ chain'.sock = c /\ chain'.tid = chain.tid
    BY <2>1, <2>2 DEF Chains, ChainSteps
  <2>4. conn' \in [Conns -> Places]
    BY <2>1, <2>2 DEF Places
  <2>5. TypeOK' /\ PhaseInv'
    BY <1>1, <1>2, <2>3, <2>4, LoopKeepsPhase DEF ServerInv, TypeOK, netVars
  <2>6. ChainInv'
    BY <1>1, <1>3, <2>1, <2>2, <2>3 DEF ServerInv, ChainInv
  <2>7. \A t \in Threads : Uncounted(t)' = Uncounted(t)
    BY <1>1, <2>3 DEF Uncounted
  <2>8. PlacesInv' /\ CountInv'
    BY <1>1, <1>2, <2>1, <2>7, NotOfThreads DEF netVars
  <2>9. AdmitInv'
    BY <1>1, <1>2, <2>3, AdmitSame
  <2> QED
    BY <2>5, <2>6, <2>8, <2>9 DEF ServerInv
<1> QED
  BY <1>4, <1>5

\* A refusal closes the connection and looks for a thread again.
LEMMA RefusingKeeps ==
  ASSUME ServerInv, chain.at \in {"limit", "spam"}, Refuse,
         UNCHANGED <<phase, asio, home, tries, admitted, netVars, dbVars, up, outages>>
  PROVE  ServerInv'
<1>1. phase \in {"accept", "update", "stopAsio", "joinAsio"}
  BY LoopRuns
<1>2. /\ conn' = [conn EXCEPT ![chain.sock] = "closed"] /\ chain' = Scan
      /\ chain.sock \in Conns /\ conn[chain.sock] = "chain"
      /\ conn \in [Conns -> Places]
  BY DEF Refuse, ServerInv, ChainInv, TypeOK
<1>3. conn' \in [Conns -> Places]
  BY <1>2 DEF Places
<1>4. TypeOK' /\ PhaseInv'
  BY <1>1, <1>2, <1>3, ScanIsChain, LoopKeepsPhase DEF ServerInv, TypeOK, netVars
<1>5. ChainInv'
  BY <1>2, ScanIsChain DEF ServerInv, ChainInv
<1>6. \A t \in Threads : Uncounted(t)' = Uncounted(t)
  BY <1>2, ScanIsChain DEF Uncounted
<1>7. PlacesInv' /\ CountInv'
  BY <1>1, <1>2, <1>6, NotOfThreads DEF netVars
<1>8. AdmitInv'
  BY <1>2, ScanIsChain, AdmitSame
<1> QED
  BY <1>4, <1>5, <1>7, <1>8 DEF ServerInv

\* A check that is passed, or the connection refused.
LEMMA LimitKeepsServer ==
  ASSUME ServerInv, CheckLimit
  PROVE  ServerInv'
<1>1. UNCHANGED <<phase, asio, home, tries, admitted, netVars, dbVars, up, outages>>
  BY DEF CheckLimit
<1>2. CASE HasRoom(chain.tid) /\ chain' = [chain EXCEPT !.at = AfterLimit] /\ UNCHANGED conn
  <2>1. phase \in {"accept", "update", "stopAsio", "joinAsio"} /\ chain.at = "limit"
    BY LoopRuns DEF CheckLimit
  <2>2. /\ chain' \in Chains /\ chain'.at \in {"spam", "push"} /\ chain'.sock = chain.sock
        /\ chain'.tid = chain.tid /\ (SpamPrevention => chain'.at = "spam")
    BY <1>2 DEF AfterLimit, ServerInv, TypeOK, Chains, ChainSteps
  <2>3. TypeOK' /\ PhaseInv'
    BY <1>1, <1>2, <2>1, <2>2, LoopKeepsPhase DEF ServerInv, TypeOK, netVars
  <2>4. ChainInv'
    BY <1>1, <1>2, <2>1, <2>2 DEF ServerInv, ChainInv, HasRoom, netVars
  <2>5. \A t \in Threads : Uncounted(t)' = Uncounted(t)
    BY <2>1, <2>2 DEF Uncounted
  <2>6. PlacesInv' /\ CountInv'
    BY <1>1, <1>2, <2>1, <2>5, NothingMoved DEF netVars
  <2>7. AdmitInv'
    BY <1>1, <2>1, <2>2, AdmitSame
  <2> QED
    BY <2>3, <2>4, <2>6, <2>7 DEF ServerInv
<1> QED
  BY <1>1, <1>2, RefusingKeeps DEF CheckLimit

\* One more attempt stays within both limits: IsSpam was false.
LEMMA OneMoreAttempt ==
  ASSUME ServerInv, NEW a \in IPs, ~ IsSpam(a), a = IPOf[chain.sock],
         tries' = [tries EXCEPT ![a] = @ + 1], UNCHANGED admitted,
         chain.at = "spam", chain'.at = "push", chain'.sock = chain.sock
  PROVE  tries' \in [IPs -> Nat] /\ AdmitInv'
<1>1. tries \in [IPs -> Nat] /\ admitted \in [IPs -> Nat]
  BY DEF ServerInv, TypeOK
<1>2. tries' \in [IPs -> Nat] /\ tries'[a] = tries[a] + 1
      /\ \A b \in IPs : b # a => tries'[b] = tries[b]
  BY <1>1
<1>3. tries[a] > 0 => tries[a] < MaxAttempts
  BY <1>1, LimitsAssumption DEF IsSpam
<1>4. \A b \in IPs : tries'[b] <= (IF MaxAttempts = 0 THEN 1 ELSE MaxAttempts)
  BY <1>1, <1>2, <1>3, LimitsAssumption DEF ServerInv, AdmitInv
<1>5. Tried' = Tried \cup {a}
  BY <1>1, <1>2 DEF Tried
<1>6. IsFiniteSet(Tried) /\ Cardinality(Tried) \in Nat /\ Cardinality(Tried) <= MapMax
  BY FS_CardinalityType DEF ServerInv, AdmitInv
<1>7. IsFiniteSet(Tried')
      /\ Cardinality(Tried') = IF a \in Tried THEN Cardinality(Tried) ELSE Cardinality(Tried) + 1
  BY <1>5, <1>6, FS_AddElement
<1>8. a \notin Tried => Cardinality(Tried) < MapMax
  BY <1>1, <1>6, LimitsAssumption DEF IsSpam, MapSize, Tried
<1>9. Cardinality(Tried') <= MapMax
  BY <1>6, <1>7, <1>8, LimitsAssumption
<1>10. \A b \in IPs : Pending(b) = 0 /\ Pending(b)' = IF b = a THEN 1 ELSE 0
  BY DEF Pending
<1>11. SpamPrevention => Noted'
  <2> SUFFICES ASSUME SpamPrevention
               PROVE  Noted'
    OBVIOUS
  <2>1. PICK late \in SUBSET IPs :
          /\ AtMostOne(late)
          /\ \A b \in IPs :
               admitted[b] + Pending(b) = tries[b] + (IF b \in late THEN 1 ELSE 0)
    BY DEF ServerInv, AdmitInv, Noted
  <2>2. ASSUME NEW b \in IPs
        PROVE  admitted'[b] + Pending(b)' = tries'[b] + (IF b \in late THEN 1 ELSE 0)
    BY <1>1, <1>2, <1>10, <2>1
  <2> QED
    BY <2>1, <2>2 DEF Noted
<1> QED
  BY <1>2, <1>4, <1>7, <1>9, <1>11 DEF AdmitInv

LEMMA SpamKeepsServer ==
  ASSUME ServerInv, DoIPSpamPrevention
  PROVE  ServerInv'
<1>1. /\ UNCHANGED <<phase, asio, home, netVars, dbVars, up, outages>>
      /\ chain.at = "spam" /\ chain.sock \in Conns
  BY DEF DoIPSpamPrevention, ServerInv, ChainInv
<1>2. IPOf[chain.sock] \in IPs
  BY <1>1, ConnsAssumption DEF Conns
<1>3. CASE IsSpam(IPOf[chain.sock])
  BY <1>1, <1>3, RefusingKeeps DEF DoIPSpamPrevention
<1>4. CASE ~ IsSpam(IPOf[chain.sock])
  <2>1. /\ tries' = [tries EXCEPT ![IPOf[chain.sock]] = @ + 1]
        /\ chain' = [chain EXCEPT !.at = "push"] /\ UNCHANGED <<conn, admitted>>
    BY <1>4 DEF DoIPSpamPrevention
  <2>2. /\ chain' \in Chains /\ chain'.at = "push" /\ chain'.sock = chain.sock
        /\ chain'.tid = chain.tid
    BY <2>1 DEF ServerInv, TypeOK, Chains, ChainSteps
  <2>3. phase \in {"accept", "update", "stopAsio", "joinAsio"}
    BY <1>1, LoopRuns
  <2>4. tries' \in [IPs -> Nat] /\ admitted' \in [IPs -> Nat] /\ AdmitInv'
    BY <1>1, <1>2, <1>4, <2>1, <2>2, OneMoreAttempt DEF ServerInv, TypeOK
  <2>5. TypeOK' /\ PhaseInv'
    BY <1>1, <2>1, <2>2, <2>3, <2>4, LoopKeepsPhase DEF ServerInv, TypeOK, netVars
  <2>6. ChainInv'
    BY <1>1, <2>1, <2>2 DEF ServerInv, ChainInv, HasRoom, netVars
  <2>7. \A t \in Threads : Uncounted(t)' = Uncounted(t)
    BY <1>1, <2>2 DEF Uncounted
  <2>8. PlacesInv' /\ CountInv'
    BY <1>1, <2>1, <2>3, <2>7, NothingMoved DEF netVars
  <2> QED
    BY <2>4, <2>5, <2>6, <2>8 DEF ServerInv
<1> QED
  BY <1>3, <1>4

\* The socket is pushed: its thread holds one more, not yet counted.
LEMMA QueueingKeepsServer ==
  ASSUME ServerInv, QueueNewSocket
  PROVE  ServerInv'
<1> SUFFICES ASSUME NEW s, s = chain.sock, NEW u, u = chain.tid
             PROVE  ServerInv'
  OBVIOUS
<1>1. /\ chain' = [chain EXCEPT !.at = "count"] /\ conn' = [conn EXCEPT ![s] = "queued"]
      /\ home' = [home EXCEPT ![s] = u]
      /\ admitted' = [admitted EXCEPT ![IPOf[s]] = @ + 1]
      /\ UNCHANGED <<phase, asio, tries, netVars, dbVars, up, outages>>
      /\ chain.at = "push"
  BY DEF QueueNewSocket
<1>2. s \in Conns /\ conn[s] = "chain" /\ u \in Threads /\ HasRoom(u)
  BY <1>1 DEF ServerInv, ChainInv
<1>3. /\ conn \in [Conns -> Places] /\ home \in [Conns -> 0 .. N] /\ chain \in Chains
      /\ number \in [Threads -> Int] /\ admitted \in [IPs -> Nat] /\ tries \in [IPs -> Nat]
  BY DEF ServerInv, TypeOK
<1>4. phase \in {"accept", "update", "stopAsio", "joinAsio"}
      /\ \A t \in Threads : net[t] \notin {"clearing", "ended"}
  BY <1>1, LoopRuns
<1>5. /\ chain' \in Chains /\ chain'.at = "count" /\ chain'.sock = s /\ chain'.tid = u
  BY <1>1, <1>3 DEF Chains, ChainSteps
<1>6. conn' \in [Conns -> Places] /\ home' \in [Conns -> 0 .. N]
  <2>1. u \in 0 .. N
    BY <1>3 DEF Chains
  <2> QED
    BY <1>1, <1>3, <2>1 DEF Places
<1>7. TypeOK' /\ PhaseInv'
  <2>1. admitted' \in [IPs -> Nat]
    <3>1. IPOf[s] \in IPs
      BY <1>2, ConnsAssumption DEF Conns
    <3>2. admitted' = [admitted EXCEPT ![IPOf[s]] = @ + 1] /\ admitted \in [IPs -> Nat]
      BY <1>1, <1>3
    <3> QED
      BY <3>1, <3>2
  <2> QED
    BY <1>1, <1>3, <1>4, <1>5, <1>6, <2>1, LoopKeepsPhase DEF netVars
<1>8. ChainInv'
  <2>1. conn'[s] = "queued" /\ home'[s] = u
    BY <1>1, <1>2, <1>3
  <2>2. \A c \in Conns : conn'[c] # "chain"
    BY <1>1, <1>2, <1>3 DEF ServerInv, ChainInv
  <2> QED
    BY <1>2, <1>5, <2>1, <2>2 DEF ChainInv
<1>9. PlacesInv'
  <2>1. \A c \in Conns : conn'[c] \in {"queued", "listed", "erased"} => home'[c] \in Threads
    BY <1>1, <1>2, <1>3 DEF ServerInv, PlacesInv
  <2>2. \A t \in Threads : On(t, "erased")' \subseteq On(t, "erased")
    BY <1>1, <1>2, <1>3 DEF On
  <2> QED
    BY <1>1, <1>4, <2>1, <2>2 DEF ServerInv, PlacesInv, netVars
<1>10. CountInv'
  <2>1. \A t \in Threads : Held(t)' = IF t = u THEN Held(t) \cup {s} ELSE Held(t)
    BY <1>1, <1>2, <1>3 DEF Held, On
  <2>2. s \notin Held(u)
    BY <1>2 DEF Held, On
  <2>3. \A t \in Threads : Uncounted(t) = 0 /\ Uncounted(t)' = IF t = u THEN 1 ELSE 0
    BY <1>1, <1>5 DEF Uncounted
  <2>4. Cardinality(Held(u)') = Cardinality(Held(u)) + 1 /\ Cardinality(Held(u)) \in Nat
    <3>1. IsFiniteSet(Held(u)) /\ Cardinality(Held(u)) \in Nat
      BY <1>2, HeldFinite
    <3> QED
      BY <1>2, <2>1, <2>2, <3>1, FS_AddElement
  <2>5. number[u] = Cardinality(Held(u))
    BY <1>2, <1>4, <2>3, <2>4 DEF ServerInv, CountInv
  <2>6. number' = number /\ net' = net
    BY <1>1 DEF netVars
  <2>7. /\ number'[u] = Cardinality(Held(u)') - Uncounted(u)'
        /\ MaxClients # -1 => Cardinality(Held(u)') <= MaxClients
    BY <1>2, <2>3, <2>4, <2>5, <2>6, LimitsAssumption DEF HasRoom
  <2>8. ASSUME NEW t \in Threads, t # u
        PROVE  /\ net'[t] \notin {"clearing", "ended"} =>
                    number'[t] = Cardinality(Held(t)') - Uncounted(t)'
               /\ MaxClients # -1 => Cardinality(Held(t)') <= MaxClients
    BY <2>1, <2>3, <2>6, <2>8 DEF ServerInv, CountInv
  <2> QED
    BY <2>7, <2>8 DEF CountInv
<1>11. AdmitInv'
  <2>1. \A a \in IPs : /\ Pending(a) = (IF a = IPOf[s] THEN 1 ELSE 0)
                      /\ Pending(a)' = 0
                      /\ admitted'[a] = admitted[a] + Pending(a)
    BY <1>1, <1>3, <1>5 DEF Pending
  <2>2. \A a \in IPs : admitted'[a] + Pending(a)' = admitted[a] + Pending(a)
    BY <1>3, <2>1
  <2>3. SpamPrevention => Noted'
    BY <1>1, <2>2 DEF Noted, ServerInv, AdmitInv
  <2> QED
    BY <1>1, <2>3 DEF ServerInv, AdmitInv, Tried
<1> QED
  BY <1>7, <1>8, <1>9, <1>10, <1>11 DEF ServerInv

\* And now it is counted.
LEMMA CountingKeepsServer ==
  ASSUME ServerInv, CountNewSocket
  PROVE  ServerInv'
<1> SUFFICES ASSUME NEW u, u = chain.tid
             PROVE  ServerInv'
  OBVIOUS
<1>1. /\ chain' = Scan /\ number' = [number EXCEPT ![u] = @ + 1] /\ chain.at = "count"
      /\ UNCHANGED <<phase, asio, conn, home, tries, admitted, net, stopped, dbVars, up, outages>>
  BY DEF CountNewSocket, CountUp
<1>2. u \in Threads /\ number \in [Threads -> Int]
  BY <1>1 DEF ServerInv, ChainInv, TypeOK
<1>3. phase \in {"accept", "update", "stopAsio", "joinAsio"}
      /\ \A t \in Threads : net[t] \notin {"clearing", "ended"}
  BY <1>1, LoopRuns
<1>4. TypeOK' /\ PhaseInv'
  BY <1>1, <1>2, <1>3, ScanIsChain, LoopKeepsPhase DEF ServerInv, TypeOK
<1>5. ChainInv'
  BY <1>1, ScanIsChain DEF ServerInv, ChainInv
<1>6. PlacesInv'
  BY <1>1 DEF ServerInv, PlacesInv, On
<1>7. CountInv'
  <2>1. \A t \in Threads : Held(t)' = Held(t)
    BY <1>1 DEF Held, On
  <2>2. \A t \in Threads : Uncounted(t)' = 0 /\ Uncounted(t) = IF t = u THEN 1 ELSE 0
    BY <1>1, ScanIsChain DEF Uncounted
  <2>3. ASSUME NEW t \in Threads
        PROVE  number'[t] = Cardinality(Held(t)) /\ Cardinality(Held(t)) \in Nat
    <3>1. Cardinality(Held(t)) \in Nat
      BY HeldFinite
    <3>2. number[t] = Cardinality(Held(t)) - Uncounted(t)
      BY <1>3 DEF ServerInv, CountInv
    <3> QED
      BY <1>1, <1>2, <2>2, <3>1, <3>2
  <2> QED
    BY <2>1, <2>2, <2>3 DEF ServerInv, CountInv
<1>8. AdmitInv'
  BY <1>1, ScanIsChain, AdmitSame
<1> QED
  BY <1>4, <1>5, <1>6, <1>7, <1>8 DEF ServerInv

LEMMA AcceptKeepsServer ==
  ASSUME ServerInv, AcceptHandlers \/ AcceptFails \/ \E c \in Conns : AcceptConn(c)
  PROVE  ServerInv'
  BY ScanningKeepsServer, AcceptingKeepsServer, LimitKeepsServer, SpamKeepsServer,
     QueueingKeepsServer, CountingKeepsServer DEF AcceptHandlers

------------------------------------------------------------------------------
(* The network threads.                                                    *)

\* The step of a thread concerns its own sockets and never the connection that
\* is being accepted.
LEMMA ThreadKeepsOthers ==
  ASSUME ServerInv, NEW t \in Threads, NetworkThread(t)
  PROVE  /\ \A u \in Threads \ {t} :
              /\ net'[u] = net[u] /\ number'[u] = number[u]
              /\ \A p \in HeldPlaces : On(u, p)' = On(u, p)
         /\ \A c \in Conns :
              /\ conn'[c] \in {"queued", "listed", "erased"} => c \in Held(t) \/ conn'[c] = conn[c]
              /\ (conn'[c] = "chain") <=> (conn[c] = "chain")
              /\ conn[c] \in {"backlog", "closed"} => conn'[c] = conn[c]
<1>1. /\ conn \in [Conns -> Places] /\ net \in [Threads -> {"off", "idle", "erased", "clearing", "ended"}]
      /\ number \in [Threads -> Int]
  BY DEF ServerInv, TypeOK
<1>2. /\ home' = home
      /\ \A c \in Conns : c \notin Held(t) => conn'[c] = conn[c]
      /\ \A c \in Conns : c \in Held(t) => conn'[c] \in {"queued", "listed", "erased", "closed"}
  BY <1>1 DEF NetworkThread, Update, CountErased, ClearSockets, ClearQueuedSockets, MoveAll, Held, On
<1>3. \A u \in Threads : u # t => net'[u] = net[u] /\ number'[u] = number[u]
  BY <1>1 DEF NetworkThread, Update, CountErased, ClearSockets, ClearQueuedSockets
<1>4. \A u \in Threads, p \in HeldPlaces : u # t => On(u, p)' = On(u, p)
  BY <1>2 DEF On, Held, HeldPlaces
<1>5. ASSUME NEW c \in Conns
      PROVE  /\ conn'[c] \in {"queued", "listed", "erased"} => c \in Held(t) \/ conn'[c] = conn[c]
             /\ (conn'[c] = "chain") <=> (conn[c] = "chain")
             /\ conn[c] \in {"backlog", "closed"} => conn'[c] = conn[c]
  <2>1. c \in Held(t) => conn[c] \in {"queued", "listed", "erased"}
    BY DEF Held, On
  <2> QED
    BY <1>2, <2>1
<1> QED
  BY <1>3, <1>4, <1>5

\* Where the sockets of thread t are after each of its steps.
LEMMA ThreadMoves ==
  ASSUME ServerInv, NEW t \in Threads
  PROVE  /\ Update(t) =>
              /\ net'[t] \in {"idle", "erased"} /\ net[t] = "idle" /\ Held(t)' = Held(t)
              /\ net'[t] = "idle" => On(t, "erased")' = {}
              /\ number' = number
         /\ CountErased(t) =>
              /\ net'[t] = "idle" /\ net[t] = "erased" /\ On(t, "erased")' = {}
              /\ Held(t)' = Held(t) \ On(t, "erased")
              /\ number'[t] = number[t] - Cardinality(On(t, "erased"))
         /\ ClearSockets(t) =>
              /\ net'[t] = "clearing" /\ On(t, "erased")' = {} /\ On(t, "listed")' = {}
              /\ Held(t)' \subseteq Held(t)
         /\ ClearQueuedSockets(t) =>
              /\ net'[t] = "ended" /\ On(t, "erased")' = {} /\ On(t, "listed")' = {}
              /\ On(t, "queued")' = {} /\ Held(t)' \subseteq Held(t)
<1>1. /\ conn \in [Conns -> Places] /\ net \in [Threads -> {"off", "idle", "erased", "clearing", "ended"}]
      /\ number \in [Threads -> Int]
      /\ net[t] # "erased" => On(t, "erased") = {}
      /\ net[t] = "clearing" => On(t, "listed") = {}
  BY DEF ServerInv, TypeOK, PlacesInv
<1>2. ASSUME Update(t)
      PROVE  /\ net'[t] \in {"idle", "erased"} /\ net[t] = "idle" /\ Held(t)' = Held(t)
             /\ net'[t] = "idle" => On(t, "erased")' = {}
             /\ number' = number
  <2>1. PICK gone \in SUBSET (On(t, "queued") \cup On(t, "listed")) :
          /\ net' = [net EXCEPT ![t] = IF gone = {} THEN "idle" ELSE "erased"]
          /\ conn' = [c \in Conns |-> IF c \in gone THEN "erased"
                                      ELSE IF c \in On(t, "queued") THEN "listed" ELSE conn[c]]
    BY <1>2 DEF Update
  <2>2. home' = home /\ net[t] = "idle" /\ number' = number
    BY <1>2 DEF Update
  <2>3. On(t, "erased")' = gone
    BY <1>1, <2>1, <2>2 DEF On
  <2>4. Held(t)' = Held(t)
    BY <1>1, <2>1, <2>2 DEF Held, On
  <2> QED
    BY <1>1, <2>1, <2>2, <2>3, <2>4
<1>3. ASSUME CountErased(t)
      PROVE  /\ net'[t] = "idle" /\ net[t] = "erased" /\ On(t, "erased")' = {}
             /\ Held(t)' = Held(t) \ On(t, "erased")
             /\ number'[t] = number[t] - Cardinality(On(t, "erased"))
  <2>1. home' = home /\ net'[t] = "idle" /\ net[t] = "erased"
        /\ number'[t] = number[t] - Cardinality(On(t, "erased"))
    BY <1>1, <1>3 DEF CountErased
  <2>2. On(t, "erased")' = {} /\ Held(t)' = Held(t) \ On(t, "erased")
    BY <1>1, <1>3 DEF CountErased, MoveAll, Held, On
  <2> QED
    BY <2>1, <2>2
<1>4. ASSUME ClearSockets(t)
      PROVE  /\ net'[t] = "clearing" /\ On(t, "erased")' = {} /\ On(t, "listed")' = {}
             /\ Held(t)' \subseteq Held(t)
  BY <1>1, <1>4 DEF ClearSockets, MoveAll, Held, On
<1>5. ASSUME ClearQueuedSockets(t)
      PROVE  /\ net'[t] = "ended" /\ On(t, "erased")' = {} /\ On(t, "listed")' = {}
             /\ On(t, "queued")' = {} /\ Held(t)' \subseteq Held(t)
  BY <1>1, <1>5 DEF ClearQueuedSockets, MoveAll, Held, On
<1> QED
  BY <1>2, <1>3, <1>4, <1>5

LEMMA ThreadKeepsPlaces ==
  ASSUME ServerInv, NEW t \in Threads, NetworkThread(t)
  PROVE  PlacesInv'
<1>1. UNCHANGED <<phase, chain, home>>
  BY ThreadKeepsPhase
<1>2. \A c \in Conns : conn'[c] \in {"queued", "listed", "erased"} => home'[c] \in Threads
  BY <1>1, ThreadKeepsOthers, HeldIs DEF ServerInv, PlacesInv
<1>3. /\ net'[t] # "erased" => On(t, "erased")' = {}
      /\ net'[t] \in {"clearing", "ended"} => On(t, "listed")' = {}
      /\ net'[t] = "ended" => On(t, "queued")' = {}
  BY ThreadMoves DEF NetworkThread
<1>4. ASSUME NEW u \in Threads \ {t}
      PROVE  /\ net'[u] # "erased" => On(u, "erased")' = {}
             /\ net'[u] \in {"clearing", "ended"} => On(u, "listed")' = {}
             /\ net'[u] = "ended" => On(u, "queued")' = {}
  BY ThreadKeepsOthers DEF ServerInv, PlacesInv, HeldPlaces
<1>5. phase' = "done" => \A c \in Conns : conn'[c] = "closed"
  BY <1>1, ThreadKeepsOthers DEF ServerInv, PlacesInv
<1> QED
  BY <1>2, <1>3, <1>4, <1>5 DEF PlacesInv

LEMMA ThreadKeepsCount ==
  ASSUME ServerInv, NEW t \in Threads, NetworkThread(t)
  PROVE  CountInv'
<1>1. \A u \in Threads : Uncounted(u)' = Uncounted(u)
  BY ThreadKeepsPhase DEF Uncounted
<1>2. ASSUME NEW u \in Threads \ {t}
      PROVE  /\ net'[u] \notin {"clearing", "ended"} =>
                  number'[u] = Cardinality(Held(u)') - Uncounted(u)'
             /\ MaxClients # -1 => Cardinality(Held(u)') <= MaxClients
  <2>1. Held(u)' = Held(u) /\ number'[u] = number[u] /\ net'[u] = net[u]
    BY ThreadKeepsOthers DEF Held, HeldPlaces
  <2> QED
    BY <1>1, <2>1 DEF ServerInv, CountInv
<1>3. ASSUME Held(t)' \subseteq Held(t)
      PROVE  MaxClients # -1 => Cardinality(Held(t)') <= MaxClients
  <2>1. IsFiniteSet(Held(t)) /\ Cardinality(Held(t)) \in Nat
    BY HeldFinite
  <2>2. Cardinality(Held(t)') \in Nat /\ Cardinality(Held(t)') <= Cardinality(Held(t))
    BY <1>3, <2>1, FS_Subset, HeldFiniteNext
  <2>3. MaxClients # -1 => Cardinality(Held(t)) <= MaxClients
    BY DEF ServerInv, CountInv
  <2> QED
    BY <2>1, <2>2, <2>3, LimitsAssumption
<1>4. /\ net'[t] \notin {"clearing", "ended"} =>
           number'[t] = Cardinality(Held(t)') - Uncounted(t)'
      /\ MaxClients # -1 => Cardinality(Held(t)') <= MaxClients
  <2>1. CASE Update(t)
    BY <1>1, <2>1, ThreadMoves DEF ServerInv, CountInv
  <2>2. CASE CountErased(t)
    <3> SUFFICES ASSUME NEW E, E = On(t, "erased"), NEW H, H = Held(t)
                 PROVE  /\ net'[t] \notin {"clearing", "ended"} =>
                             number'[t] = Cardinality(Held(t)') - Uncounted(t)'
                        /\ MaxClients # -1 => Cardinality(Held(t)') <= MaxClients
      OBVIOUS
    <3>1. /\ E \subseteq H /\ Held(t)' = H \ E
          /\ number'[t] = number[t] - Cardinality(E) /\ net[t] = "erased"
      BY <2>2, ThreadMoves DEF Held
    <3>2. /\ IsFiniteSet(H) /\ Cardinality(H) \in Nat /\ IsFiniteSet(E) /\ Cardinality(E) \in Nat
          /\ Uncounted(t) \in {0, 1}
      BY <3>1, HeldFinite, FS_Subset, FS_CardinalityType
    <3>3. Cardinality(H \ E) = Cardinality(H) - Cardinality(E)
      <4>1. H \cap E = E /\ IsFiniteSet(H)
        BY <3>1, <3>2
      <4>2. Cardinality(H \ E) = Cardinality(H) - Cardinality(H \cap E)
        BY <4>1, FS_Difference, Zenon
      <4> QED
        BY <4>1, <4>2
    <3>4. number[t] = Cardinality(H) - Uncounted(t)
      BY <3>1 DEF ServerInv, CountInv
    <3>5. number'[t] = Cardinality(Held(t)') - Uncounted(t)'
      BY <1>1, <3>1, <3>2, <3>3, <3>4
    <3>6. Held(t)' \subseteq Held(t)
      BY <3>1
    <3> QED
      BY <1>3, <3>5, <3>6
  <2>3. CASE ClearSockets(t) \/ ClearQueuedSockets(t)
    BY <1>3, <2>3, ThreadMoves
  <2> QED
    BY <2>1, <2>2, <2>3 DEF NetworkThread
<1> QED
  BY <1>2, <1>4 DEF CountInv

LEMMA ThreadKeepsServer ==
  ASSUME ServerInv, NEW t \in Threads, NetworkThread(t)
  PROVE  ServerInv'
<1>1. TypeOK' /\ PhaseInv' /\ UNCHANGED <<phase, chain, home>> /\ PlacesInv' /\ CountInv'
  BY ThreadKeepsPhase, ThreadKeepsPlaces, ThreadKeepsCount
<1>2. tries' = tries /\ admitted' = admitted
  BY DEF NetworkThread, Update, CountErased, ClearSockets, ClearQueuedSockets
<1>3. ChainInv'
  <2>1. chain.at = "count" => conn'[chain.sock] = "queued"
    <3>1. ASSUME chain.at = "count"
          PROVE  QueueMutexFree(chain.tid) = FALSE /\ net[chain.tid] \in {"off", "idle", "erased"}
                 /\ ~ stopped[chain.tid] /\ chain.sock \in Conns /\ conn[chain.sock] = "queued"
                 /\ home[chain.sock] = chain.tid /\ chain.tid \in Threads
      BY <3>1, LoopRuns DEF QueueMutexFree, ServerInv, ChainInv, TypeOK
    <3> QED
      BY <3>1 DEF NetworkThread, Update, CountErased, ClearSockets, ClearQueuedSockets,
         MoveAll, On
  <2>2. chain.at \in {"spam", "push"} => HasRoom(chain.tid)'
    <3>1. ASSUME chain.at \in {"spam", "push"}, MaxClients # -1
          PROVE  number'[chain.tid] < MaxClients
      <4>1. number[chain.tid] < MaxClients /\ chain.tid \in Threads
        BY <3>1 DEF ServerInv, ChainInv, HasRoom
      <4>2. number'[chain.tid] <= number[chain.tid]
        <5>1. CASE CountErased(t)
          <6>1. Cardinality(On(t, "erased")) \in Nat
            <7>1. On(t, "erased") \subseteq Conns
              BY DEF On
            <7> QED
              BY <7>1, ConnsFinite
          <6>2. number \in [Threads -> Int]
            BY DEF ServerInv, TypeOK
          <6> QED
            BY <4>1, <5>1, <6>1, <6>2 DEF CountErased
        <5>2. CASE ~ CountErased(t)
          BY <4>1, <5>2 DEF NetworkThread, Update, ClearSockets, ClearQueuedSockets, ServerInv, TypeOK
        <5> QED
          BY <5>1, <5>2
      <4>3. number[chain.tid] \in Int /\ number'[chain.tid] \in Int
        BY <1>1, <4>1 DEF ServerInv, TypeOK
      <4> QED
        BY <4>1, <4>2, <4>3, LimitsAssumption
    <3> QED
      BY <1>1, <3>1 DEF HasRoom
  <2>3. \A c \in Conns : (conn'[c] = "chain") <=> (conn[c] = "chain")
    BY ThreadKeepsOthers
  <2>4. /\ chain.at = "scan" /\ chain.i = 1 => chain.min = Infinity
        /\ (chain.at = "scan" /\ chain.i # 1) \/ chain.at \notin {"off", "scan"} => chain.tid \in Threads
        /\ chain.at \in {"limit", "spam", "push"} => chain.sock \in Conns /\ conn[chain.sock] = "chain"
        /\ chain.at = "count" => chain.sock \in Conns /\ home[chain.sock] = chain.tid
        /\ \A c \in Conns : conn[c] = "chain" => chain.at \in {"limit", "spam", "push"} /\ c = chain.sock
    BY DEF ServerInv, ChainInv
  <2> QED
    BY <1>1, <2>1, <2>2, <2>3, <2>4 DEF ChainInv
<1>4. AdmitInv'
  BY <1>1, <1>2, AdmitSame
<1> QED
  BY <1>1, <1>3, <1>4 DEF ServerInv

------------------------------------------------------------------------------
(* The main thread and the other handlers.                                 *)

LEMMA DatabaseKeepsServer ==
  ASSUME ServerInv, IPRequestMapCleanup \/ KeepDatabasesAliveHandler \/ Outage \/ Recover
  PROVE  ServerInv'
<1>1. TypeOK' /\ PhaseInv'
  BY DatabaseKeepsPhase
<1>2. UNCHANGED <<phase, chain, conn, home, netVars>>
  BY DEF IPRequestMapCleanup, KeepDatabasesAliveHandler, Outage, Recover, chainVars
<1>3. PlacesInv' /\ CountInv'
  BY <1>2, NothingMoved DEF netVars, Uncounted
<1>4. ChainInv'
  BY <1>2 DEF ServerInv, ChainInv, HasRoom, netVars
<1>5. AdmitInv'
  <2>1. CASE IPRequestMapCleanup
    <3>1. tries' = [a \in IPs |-> 0] /\ admitted' = [a \in IPs |-> 0]
      BY <2>1 DEF IPRequestMapCleanup
    <3>2. Tried' = {}
      BY <3>1 DEF Tried
    <3>3. IsFiniteSet(Tried') /\ Cardinality(Tried') = 0
      BY <3>2, FS_EmptySet
    <3>4. \A a \in IPs : tries'[a] <= (IF MaxAttempts = 0 THEN 1 ELSE MaxAttempts)
      BY <3>1, LimitsAssumption
    <3>5. Noted'
      <4> DEFINE late == {a \in IPs : Pending(a) = 1}
      <4>1. AtMostOne(late)
        BY DEF AtMostOne, Pending
      <4>2. ASSUME NEW a \in IPs
            PROVE  admitted'[a] + Pending(a)' = tries'[a] + (IF a \in late THEN 1 ELSE 0)
        BY <1>2, <3>1 DEF Pending
      <4> QED
        BY <4>1, <4>2 DEF Noted
    <3> QED
      BY <3>3, <3>4, <3>5, LimitsAssumption DEF AdmitInv
  <2>2. CASE KeepDatabasesAliveHandler \/ Outage \/ Recover
    <3>1. tries' = tries /\ admitted' = admitted
      BY <2>2 DEF KeepDatabasesAliveHandler, Outage, Recover, chainVars
    <3> QED
      BY <1>2, <3>1, AdmitSame
  <2> QED
    BY <2>1, <2>2
<1> QED
  BY <1>1, <1>3, <1>4, <1>5 DEF ServerInv

LEMMA BootKeepsServer ==
  ASSUME ServerInv, Boot \/ Stop
  PROVE  ServerInv'
<1>1. TypeOK' /\ PhaseInv' /\ phase' # "done"
  BY BootKeepsPhase
<1>2. UNCHANGED <<conn, home, tries, admitted, number>>
  BY DEF Boot, Stop, LoadConfig, LoadStores, MakeSocketManager, StartAsio, StartThreads,
     SetupPool, StartPool, chainVars, netVars
<1>3. AdmitInv'
  <2>1. chain' = chain \/ (chain.at = "off" /\ chain' = Scan)
    BY PhasesAre DEF Boot, Stop, LoadConfig, LoadStores, MakeSocketManager, StartAsio, StartThreads,
       SetupPool, StartPool, chainVars, ServerInv, PhaseInv
  <2> QED
    BY <1>2, <2>1, ScanIsChain, AdmitSame
<1>4. CASE StartThreads
  <2>1. chain.at = "off" /\ chain' = Scan /\ net' = [t \in Threads |-> "idle"]
    BY <1>4, PhasesAre DEF StartThreads, ServerInv, PhaseInv
  <2>2. \A t \in Threads : net[t] \notin {"clearing", "ended"}
    BY <1>4, PhasesAre DEF StartThreads, ServerInv, PhaseInv
  <2>3. ChainInv'
    BY <1>2, <2>1, ScanIsChain DEF ServerInv, ChainInv
  <2>4. \A t \in Threads : Uncounted(t)' = Uncounted(t) /\ Held(t)' = Held(t)
    BY <1>2, <2>1, ScanIsChain DEF Uncounted, Held, On
  <2>5. CountInv'
    BY <1>2, <2>2, <2>4 DEF ServerInv, CountInv
  <2>6. \A t \in Threads : On(t, "erased") = {}
    <3>1. ASSUME NEW t \in Threads
          PROVE  net[t] # "erased"
      BY <1>4, PhasesAre DEF StartThreads, ServerInv, PhaseInv
    <3> QED
      BY <3>1 DEF ServerInv, PlacesInv
  <2>7. PlacesInv'
    BY <1>1, <1>2, <2>1, <2>6 DEF ServerInv, PlacesInv, On
  <2> QED
    BY <1>1, <1>3, <2>3, <2>5, <2>7 DEF ServerInv
<1>5. CASE ~ StartThreads
  <2>1. UNCHANGED <<chain, net>>
    BY <1>5 DEF Boot, Stop, LoadConfig, LoadStores, MakeSocketManager, StartAsio,
       SetupPool, StartPool, chainVars, netVars
  <2>2. PlacesInv' /\ CountInv'
    BY <1>1, <1>2, <2>1, NothingMoved DEF Uncounted
  <2>3. ChainInv'
    BY <1>2, <2>1 DEF ServerInv, ChainInv, HasRoom
  <2> QED
    BY <1>1, <1>3, <2>2, <2>3 DEF ServerInv
<1> QED
  BY <1>4, <1>5

LEMMA ShutdownKeepsServer ==
  ASSUME ServerInv, Shutdown
  PROVE  ServerInv'
<1>1. TypeOK' /\ PhaseInv'
  BY ShutdownKeepsPhase
<1>2. UNCHANGED <<chain, home, tries, admitted, number, net>>
  BY DEF Shutdown, StopAsio, JoinAsio, StopThreads, JoinThreads, StopPool, ClosePool,
     chainVars, netVars
<1>3. AdmitInv'
  BY <1>2, AdmitSame
<1>4. CASE JoinThreads
  <2>1. /\ conn' = [c \in Conns |-> IF conn[c] = "backlog" THEN "closed" ELSE conn[c]]
        /\ phase = "joinThreads" /\ \A t \in Threads : net[t] = "ended"
        /\ conn \in [Conns -> Places]
    BY <1>4 DEF JoinThreads, ServerInv, TypeOK
  <2>2. \A c \in Conns : conn[c] \in {"backlog", "closed"}
    <3>1. \A c \in Conns : conn[c] # "chain"
      BY <2>1, PhasesAre DEF ServerInv, PhaseInv, ChainInv, ChainRests
    <3>2. ASSUME NEW c \in Conns
          PROVE  conn[c] \notin {"queued", "listed", "erased"}
      BY <2>1 DEF ServerInv, PlacesInv, On
    <3> QED
      BY <2>1, <3>1, <3>2 DEF Places
  <2>3. \A c \in Conns : conn'[c] = "closed"
    BY <2>1, <2>2
  <2>4. \A t \in Threads, p \in HeldPlaces : On(t, p) = {} /\ On(t, p)' = {}
    BY <2>2, <2>3 DEF On, HeldPlaces
  <2>5. \A t \in Threads : Held(t)' = Held(t) /\ Uncounted(t)' = Uncounted(t)
    BY <1>2, <2>4 DEF Held, HeldPlaces, Uncounted
  <2>6. CountInv'
    BY <1>2, <2>5 DEF ServerInv, CountInv
  <2>7. PlacesInv'
    BY <2>3, <2>4 DEF PlacesInv, HeldPlaces
  <2>8. ChainInv'
    BY <1>2, <2>1, <2>3, PhasesAre DEF ServerInv, ChainInv, PhaseInv, ChainRests
  <2> QED
    BY <1>1, <1>3, <2>6, <2>7, <2>8 DEF ServerInv
<1>5. CASE ~ JoinThreads
  <2>1. conn' = conn /\ (phase' = "done" => phase = "done")
    BY <1>5, PhasesAre DEF Shutdown, StopAsio, JoinAsio, StopThreads, StopPool, ClosePool,
       AfterClose, Pools, chainVars
  <2>2. PlacesInv' /\ CountInv'
    BY <1>2, <2>1, NothingMoved DEF Uncounted
  <2>3. ChainInv'
    BY <1>2, <2>1 DEF ServerInv, ChainInv, HasRoom
  <2> QED
    BY <1>1, <1>3, <2>2, <2>3 DEF ServerInv
<1> QED
  BY <1>4, <1>5

------------------------------------------------------------------------------
(* The theorems.                                                           *)

LEMMA InitServerInv == Init => ServerInv
<1> SUFFICES ASSUME Init
             PROVE  ServerInv
  OBVIOUS
<1>1. TypeOK
  <2>1. chain \in Chains
    <3>1. Scan \in Chains
      BY ScanIsChain
    <3> QED
      BY <3>1 DEF Init, Chains, ChainSteps
  <2> QED
    BY <2>1, ThreadsAssumption, LimitsAssumption, PhasesAre DEF Init, TypeOK, Places
<1>2. chain.at = "off"
  BY ScanIsChain DEF Init, Chains
<1>3. PhaseInv
  BY <1>2, PhasesAre DEF Init, PhaseInv, ChainRests
<1>4. ChainInv
  BY <1>2 DEF Init, ChainInv
<1>5. \A t \in Threads, p \in HeldPlaces : On(t, p) = {}
  BY DEF Init, On, HeldPlaces
<1>6. PlacesInv
  BY <1>5, PhasesAre DEF Init, PlacesInv, HeldPlaces
<1>7. CountInv
  <2>1. \A t \in Threads : Held(t) = {} /\ number[t] = 0 /\ Uncounted(t) = 0
    BY <1>2, <1>5 DEF Init, Held, HeldPlaces, Uncounted
  <2>2. Cardinality({}) = 0
    BY FS_EmptySet
  <2> QED
    BY <2>1, <2>2, LimitsAssumption DEF CountInv
<1>8. AdmitInv
  <2>1. Tried = {} /\ \A a \in IPs : tries[a] = 0 /\ admitted[a] = 0 /\ Pending(a) = 0
    BY <1>2 DEF Init, Tried, Pending
  <2>2. IsFiniteSet({}) /\ Cardinality({}) = 0
    BY FS_EmptySet
  <2>3. Noted
    BY <2>1 DEF Noted, AtMostOne
  <2> QED
    BY <2>1, <2>2, <2>3, LimitsAssumption DEF AdmitInv
<1> QED
  BY <1>1, <1>3, <1>4, <1>6, <1>7, <1>8 DEF ServerInv

LEMMA StepKeepsServerInv == ServerInv /\ [Next]_vars => ServerInv'
<1>1. ASSUME ServerInv, Next
      PROVE  ServerInv'
  BY <1>1, BootKeepsServer, ShutdownKeepsServer, AcceptKeepsServer, DatabaseKeepsServer,
     ThreadKeepsServer DEF Next
<1>2. ASSUME ServerInv, UNCHANGED vars
      PROVE  ServerInv'
  BY <1>2 DEF vars, chainVars, netVars, dbVars, ServerInv, TypeOK, PhaseInv, ChainRests, ChainInv,
     HasRoom, PlacesInv, CountInv, AdmitInv, Noted, Pending, Tried, Uncounted, Held, On
<1> QED
  BY <1>1, <1>2

\* The process is always in a state of the invariant.
THEOREM ServerCorrect == Spec => []ServerInv
<1>1. Init => ServerInv
  BY InitServerInv
<1>2. ServerInv /\ [Next]_vars => ServerInv'
  BY StepKeepsServerInv
<1> QED
  BY <1>1, <1>2, PTL DEF Spec

\* The value of every variable of the process has its type, m_socketsNumber an
\* integer.
THEOREM ServerTypes == Spec => []TypeOK
<1>1. ServerInv => TypeOK
  BY DEF ServerInv
<1> QED
  BY <1>1, ServerCorrect, PTL

\* For any number of threads, connections and clients: the unsigned counter of a
\* thread is what the thread holds, but for the socket just pushed, never below
\* zero, and never over the maximum.
THEOREM SocketsAreCounted == Spec => []SocketsCounted
<1>1. ServerInv => SocketsCounted
  <2> SUFFICES ASSUME ServerInv, NEW t \in Threads
               PROVE  /\ net[t] \in {"idle", "erased"} => number[t] = Cardinality(Held(t)) - Uncounted(t)
                      /\ net[t] \in {"idle", "erased"} => number[t] >= 0
                      /\ MaxClients # -1 => Cardinality(Held(t)) <= MaxClients
    BY DEF SocketsCounted, Uncounted
  <2>1. /\ net[t] \in {"idle", "erased"} => number[t] = Cardinality(Held(t)) - Uncounted(t)
        /\ MaxClients # -1 => Cardinality(Held(t)) <= MaxClients
    BY DEF ServerInv, CountInv
  <2>2. IsFiniteSet(Held(t)) /\ Cardinality(Held(t)) \in Nat /\ Uncounted(t) \in {0, 1}
    BY HeldFinite
  <2>3. Uncounted(t) = 1 => Cardinality(Held(t)) # 0
    <3>1. Uncounted(t) = 1 => chain.sock \in Held(t)
      BY DEF Uncounted, ServerInv, ChainInv, Held, On
    <3> QED
      BY <2>2, <3>1, FS_EmptySet
  <2>4. Cardinality(Held(t)) - Uncounted(t) >= 0
    BY <2>2, <2>3
  <2> QED
    BY <2>1, <2>4
<1> QED
  BY <1>1, ServerCorrect, PTL

\* Fewer sessions than attempts noted are within the limits.
LEMMA FewerAreWithin ==
  ASSUME ServerInv, NEW made \in [IPs -> Nat], \A a \in IPs : made[a] <= tries[a]
  PROVE  WithinLimits(made)
<1>1. tries \in [IPs -> Nat]
  BY DEF ServerInv, TypeOK
<1>2. \A a \in IPs : made[a] <= (IF MaxAttempts = 0 THEN 1 ELSE MaxAttempts)
  BY <1>1, LimitsAssumption DEF ServerInv, AdmitInv
<1>3. {a \in IPs : made[a] > 0} \subseteq Tried
  BY <1>1 DEF Tried
<1>4. /\ Cardinality({a \in IPs : made[a] > 0}) <= Cardinality(Tried)
      /\ Cardinality(Tried) <= MapMax
      /\ Cardinality({a \in IPs : made[a] > 0}) \in Nat /\ Cardinality(Tried) \in Nat
  BY <1>3, FS_Subset, FS_CardinalityType DEF ServerInv, AdmitInv
<1>5. Cardinality({a \in IPs : made[a] > 0}) <= MapMax
  BY <1>4, LimitsAssumption
<1> QED
  BY <1>2, <1>5 DEF WithinLimits

\* For any addresses and limits, and any number of asio threads: the sessions
\* made since the last cleanup of the map, all but one, keep each address and
\* the map within their limits, however the cleanup falls between the check of
\* an accept and the session that is made for it.
THEOREM AdmissionsAreBounded == Spec => []AdmissionsBounded
<1>1. ServerInv => AdmissionsBounded
  <2> SUFFICES ASSUME ServerInv, SpamPrevention
               PROVE  \/ WithinLimits(admitted)
                      \/ \E late \in IPs :
                           admitted[late] > 0 /\ WithinLimits([admitted EXCEPT ![late] = @ - 1])
    BY DEF AdmissionsBounded
  <2>1. tries \in [IPs -> Nat] /\ admitted \in [IPs -> Nat]
    BY DEF ServerInv, TypeOK
  <2>2. PICK late \in SUBSET IPs :
          /\ AtMostOne(late)
          /\ \A a \in IPs :
               admitted[a] + Pending(a) = tries[a] + (IF a \in late THEN 1 ELSE 0)
    BY DEF ServerInv, AdmitInv, Noted
  <2>3. \A a \in IPs : admitted[a] <= tries[a] + (IF a \in late THEN 1 ELSE 0)
    BY <2>1, <2>2 DEF Pending
  <2>4. CASE \A a \in IPs : admitted[a] <= tries[a]
    BY <2>1, <2>4, FewerAreWithin
  <2>5. CASE \E a \in IPs : ~ (admitted[a] <= tries[a])
    <3>1. PICK x \in IPs : ~ (admitted[x] <= tries[x])
      BY <2>5
    <3>2. x \in late /\ admitted[x] > 0 /\ admitted[x] - 1 \in Nat /\ admitted[x] - 1 <= tries[x]
      BY <2>1, <2>3, <3>1
    <3>3. \A a \in IPs : a # x => admitted[a] <= tries[a]
      <4>1. \A a \in IPs : a # x => a \notin late
        BY <2>2, <3>2 DEF AtMostOne
      <4> QED
        BY <2>1, <2>3, <4>1
    <3>4. /\ [admitted EXCEPT ![x] = @ - 1] \in [IPs -> Nat]
          /\ \A a \in IPs : [admitted EXCEPT ![x] = @ - 1][a] <= tries[a]
      BY <2>1, <3>2, <3>3
    <3>5. WithinLimits([admitted EXCEPT ![x] = @ - 1])
      BY <3>4, FewerAreWithin
    <3> QED
      BY <3>2, <3>5
  <2> QED
    BY <2>4, <2>5
<1> QED
  BY <1>1, ServerCorrect, PTL

\* Server::Shutdown joins the asio threads before it stops a pool or a network
\* thread, so no accept handler or keep-alive meets a stopped one, and in the
\* end no socket is left.
THEOREM ShutdownIsOrdered == Spec => []ShutdownOrdered
<1>1. ServerInv => ShutdownOrdered
  BY PhasesAre DEF ServerInv, PhaseInv, PlacesInv, ChainRests, ShutdownOrdered
<1> QED
  BY <1>1, ServerCorrect, PTL
==============================================================================
