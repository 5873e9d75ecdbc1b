---------------------------- MODULE LoadGenerator ----------------------------
(***************************************************************************)
(* NECROHammer, the load generator of the auth server: one distributor on  *)
(* the main thread makes sockets of every kind in turn, as long as a       *)
(* NetworkThread has room, and each thread drives its own until they are   *)
(* dead.                                                                   *)
(*                                                                         *)
(* A bot is a HammerSocket on a TCPSocketBoost with TLS: resolve, connect, *)
(* handshake, the packets of a login, and the ends of it: a refusal, the   *)
(* realm list, the server closing, or the death timer of the kinds that    *)
(* would hang.  Short reads and writes are in WorldWire, the server's side *)
(* in AuthLogin: here the server answers, or closes.                       *)
(***************************************************************************)
EXTENDS Integers, Sequences, FiniteSets

CONSTANTS
  N,  \* m_networkThreadsCount
  Max \* MAX_SOCKETS_PER_THREAD; a thread never has more, so these are its slots

ASSUME SizesAssumption == N \in Nat \ {0} /\ Max \in Nat \ {0}

Threads == 1 .. N
Slots   == Threads \X (1 .. Max)

HammerSocketTypes ==
  <<"WRONG_PASSWORD", "USERNAME_DOESNT_EXIST", "FAIL_PROOF_OF_WORK", "CONNECT_AND_HANG",
    "CONNECT_AND_DONT_RESOLVE", "HANG_MID_AUTHENTICATION", "SUCCESSFUL_AUTHENTICATION">>

\* curSocketType, as its place in the sequence above: SUCCESSFUL is number 0.
Turns == 1 .. Len(HammerSocketTypes)

VARIABLES
  phase,   \* the main thread: init, run, stopped, done, failed
  turn,    \* curSocketType
  number,  \* number[t]: m_socketsNumber
  erased,  \* erased[t]: sockets out of the list and not yet subtracted
  net,     \* net[t]: the thread: off, running, ended
  bot      \* bot[k]: the socket at slot k, or NoBot

vars == <<phase, turn, number, erased, net, bot>>

------------------------------------------------------------------------------
(* Values.                                                                 *)

NoBot == [type |-> "none", listed |-> FALSE, state |-> "DEFAULT", op |-> "none",
          status |-> "GATHER_INFO", asked |-> "none", reading |-> FALSE,
          death |-> "off", life |-> "open"]

\* listed: in m_sockets, else in m_queuedSockets; op: the outstanding connect
\* operation; asked: the request the server has; life: m_Closing, m_Closed.
NewBot(type) == [NoBot EXCEPT !.type = type]

Bots == [type : {"none"} \cup {HammerSocketTypes[i] : i \in Turns}, listed : BOOLEAN,
         state : {"DEFAULT", "RESOLVING", "CONNECTING", "HANDSHAKING",
                  "JUST_CONNECTED", "CONNECTED", "CRITICAL_ERROR"},
         op : {"none", "resolve", "connect", "handshake"},
         status : {"GATHER_INFO", "LOGIN_ATTEMPT", "AUTHED", "GATHER_REALMLIST_PENDING"},
         asked : {"none", "info", "proof", "realms"}, reading : BOOLEAN,
         death : {"off", "armed", "fired"}, life : {"open", "closing", "closed"}]

\* Slip: only the kind that never resolves gets a timer.
OneTimer == {"CONNECT_AND_DONT_RESOLVE"}

\* The kinds whose constructor sets m_deathTimerMs.
DeathTimers == {"CONNECT_AND_HANG", "CONNECT_AND_DONT_RESOLVE"}

Init ==
  /\ phase = "init"
  /\ turn = Len(HammerSocketTypes)
  /\ number = [t \in Threads |-> 0]
  /\ erased = [t \in Threads |-> 0]
  /\ net = [t \in Threads |-> "off"]
  /\ bot = [k \in Slots |-> NoBot]

------------------------------------------------------------------------------
(* The main thread.                                                        *)

\* Client::Init and Start; the configuration may be missing.
Boot ==
  /\ phase = "init"
  /\ \/ phase' = "run" /\ net' = [t \in Threads |-> "running"]
     \/ phase' = "failed" /\ UNCHANGED net
  /\ UNCHANGED <<turn, number, erased, bot>>

\* Slip: one socket more than the maximum.
HasRoomLate(t) == number[t] <= Max

HasRoom(t) == number[t] < Max

\* The type after i more turns; it advances for full threads too.
TurnAt(i) == 1 + ((turn - 1 + i) % Len(HammerSocketTypes))

FreeSlot(t) == CHOOSE k \in {t} \X (1 .. Max) : bot[k] = NoBot

IsFree(t) == \E k \in {t} \X (1 .. Max) : bot[k] = NoBot

\* DistributeNewSocketsHandler: at most one new socket for each thread, pushed
\* and counted under the mutex of its queue.
DistributeNewSocketsHandler ==
  /\ phase = "run"
  /\ turn' = TurnAt(N)
  /\ number' = [t \in Threads |-> IF HasRoom(t) THEN number[t] + 1 ELSE number[t]]
  /\ bot' = [k \in Slots |->
               IF HasRoom(k[1]) /\ IsFree(k[1]) /\ k = FreeSlot(k[1])
               THEN NewBot(HammerSocketTypes[TurnAt(k[1])]) ELSE bot[k]]
  /\ UNCHANGED <<phase, erased, net>>

\* Client::Stop; io_context::run returns and Shutdown stops the threads.
Stop ==
  /\ phase = "run"
  /\ phase' = "stopped"
  /\ UNCHANGED <<turn, number, erased, net, bot>>

\* JoinThreads.
Join ==
  /\ phase = "stopped" /\ \A t \in Threads : net[t] = "ended"
  /\ phase' = "done"
  /\ UNCHANGED <<turn, number, erased, net, bot>>

------------------------------------------------------------------------------
(* HammerSocket and TCPSocketBoost, each an operator on one bot.           *)

IsOpen(b) == b.life = "open"

\* CloseSocket begins the TLS shutdown.
CloseSocket(b) == IF IsOpen(b) THEN [b EXCEPT !.life = "closing"] ELSE b

\* ForceCloseSocket, at the end of the TLS shutdown or at its deadline.
ForceCloseSocket(b) ==
  [b EXCEPT !.life = "closed", !.state = "CRITICAL_ERROR", !.reading = FALSE]

\* HammerSocket::Update while the state is not CRITICAL_ERROR.
AtDefault(b) ==
  LET d == IF b.type \in DeathTimers /\ b.death = "off" THEN [b EXCEPT !.death = "armed"] ELSE b
  IN IF b.type = "CONNECT_AND_DONT_RESOLVE" THEN d
     ELSE [d EXCEPT !.state = "RESOLVING", !.op = "resolve"]

\* AsyncRead and the first packet.
AtJustConnected(b) ==
  IF b.type = "CONNECT_AND_HANG" THEN b
  ELSE [b EXCEPT !.state = "CONNECTED", !.reading = IsOpen(b),
                 !.asked = IF IsOpen(b) THEN "info" ELSE "none"]

UpdateBot(b) ==
  IF b.state = "DEFAULT" THEN AtDefault(b)
  ELSE IF b.state = "JUST_CONNECTED" THEN AtJustConnected(b)
  ELSE b

\* The completions of OnResolve, OnConnected and the handshake.  They write
\* the state even when the socket was closed meanwhile: a handler with success
\* may be queued before the close, and async_connect opens the socket again.
Failed(b) == [b EXCEPT !.state = "CRITICAL_ERROR", !.op = "none"]

Completed(b) ==
  CASE b.op = "resolve"   -> [b EXCEPT !.state = "CONNECTING", !.op = "connect"]
    [] b.op = "connect"   -> [b EXCEPT !.state = "HANDSHAKING", !.op = "handshake"]
    [] b.op = "handshake" -> [b EXCEPT !.state = "JUST_CONNECTED", !.op = "none"]

\* AsyncReadCallback with a whole answer; a refusal closes.
Refused(b) == [CloseSocket(b) EXCEPT !.reading = FALSE, !.asked = "none"]

\* AsyncRead at the end, unless the socket is being closed.
Next3(b, status, asked) == [b EXCEPT !.status = status, !.asked = asked, !.reading = IsOpen(b)]

\* The login's kind that stays silent never sends its proof.
GatherInfoResponse(b) ==
  Next3(b, "LOGIN_ATTEMPT", IF b.type = "HANG_MID_AUTHENTICATION" THEN "none" ELSE "proof")

LoginProofResponse(b) == Next3(b, "AUTHED", "realms")

GatherRealmsResponse(b) == Next3(CloseSocket(b), "GATHER_REALMLIST_PENDING", "none")

Granted(b) ==
  CASE b.asked = "info"   -> GatherInfoResponse(b)
    [] b.asked = "proof"  -> LoginProofResponse(b)
    [] b.asked = "realms" -> GatherRealmsResponse(b)

\* The auth server may say yes.
MayGrant(b) ==
  CASE b.asked = "info"   -> b.type # "USERNAME_DOESNT_EXIST"
    [] b.asked = "proof"  -> b.type \notin {"WRONG_PASSWORD", "FAIL_PROOF_OF_WORK"}
    [] b.asked = "realms" -> TRUE

------------------------------------------------------------------------------
(* A network thread.                                                       *)

Dead(b) == b # NoBot /\ b.state = "CRITICAL_ERROR"

OnThread(t) == {k \in Slots : k[1] = t /\ bot[k] # NoBot}

\* Update: lists what is queued, updates all, erases what returned -1.
Update(t) ==
  /\ net[t] = "running" /\ phase = "run" /\ erased[t] = 0
  /\ erased' = [erased EXCEPT ![t] = Cardinality({k \in OnThread(t) : Dead(bot[k])})]
  /\ bot' = [k \in Slots |-> IF k \notin OnThread(t) THEN bot[k]
                             ELSE IF Dead(bot[k]) THEN NoBot
                             ELSE UpdateBot([bot[k] EXCEPT !.listed = TRUE])]
  /\ UNCHANGED <<phase, turn, number, net>>

\* Slip: every Update takes the length of the whole list.
CountAll(t) == number[t] - Cardinality(OnThread(t))

CountErased(t) == number[t] - erased[t]

\* fetch_sub with the difference of the list's length.
Uncount(t) ==
  /\ erased[t] > 0
  /\ number' = [number EXCEPT ![t] = CountErased(t)]
  /\ erased' = [erased EXCEPT ![t] = 0]
  /\ UNCHANGED <<phase, turn, net, bot>>

\* The io_context was stopped: Run clears both lists.
End(t) ==
  /\ net[t] = "running" /\ phase = "stopped" /\ erased[t] = 0
  /\ net' = [net EXCEPT ![t] = "ended"]
  /\ bot' = [k \in Slots |-> IF k[1] = t THEN NoBot ELSE bot[k]]
  /\ UNCHANGED <<phase, turn, number, erased>>

\* A handler of the socket at slot k, which runs while the thread does.
Becomes(k, b) ==
  /\ net[k[1]] = "running" /\ phase = "run" /\ erased[k[1]] = 0
  /\ bot' = [bot EXCEPT ![k] = b]
  /\ UNCHANGED <<phase, turn, number, erased, net>>

ConnectHandler(k) ==
  /\ bot[k].op # "none"
  /\ Becomes(k, Completed(bot[k])) \/ Becomes(k, Failed(bot[k]))

DeathTimer(k) ==
  /\ bot[k].death = "armed"
  /\ Becomes(k, CloseSocket([bot[k] EXCEPT !.death = "fired"]))

ShutdownHandler(k) ==
  /\ bot[k].life = "closing"
  /\ Becomes(k, ForceCloseSocket(bot[k]))

\* The server answers, or the connection ends.
ReadHandler(k) ==
  /\ bot[k].reading
  /\ \/ bot[k].asked # "none" /\ MayGrant(bot[k]) /\ Becomes(k, Granted(bot[k]))
     \/ Becomes(k, Refused(bot[k]))

Socket(k) == ConnectHandler(k) \/ DeathTimer(k) \/ ShutdownHandler(k) \/ ReadHandler(k)

Thread(t) == Update(t) \/ Uncount(t) \/ End(t)

Next ==
  \/ Boot \/ DistributeNewSocketsHandler \/ Stop \/ Join
  \/ \E t \in Threads : Thread(t)
  \/ \E k \in Slots : Socket(k)

Spec == Init /\ [][Next]_vars

\* The threads go on; resolving, connecting and the handshake end; the auth
\* server answers a request or closes the connection (AuthLogin).
Fairness ==
  /\ \A t \in Threads : WF_vars(Thread(t))
  /\ \A k \in Slots : SF_vars(Socket(k))

FairSpec == Spec /\ Fairness

------------------------------------------------------------------------------
(* Properties.                                                             *)

TypeOK ==
  /\ phase \in {"init", "run", "stopped", "done", "failed"}
  /\ turn \in Turns
  /\ number \in [Threads -> Int]
  /\ erased \in [Threads -> 0 .. Max]
  /\ net \in [Threads -> {"off", "running", "ended"}]
  /\ bot \in [Slots -> Bots]

\* While a thread runs its m_socketsNumber counts the sockets it holds, with
\* those just erased, and stays within MAX_SOCKETS_PER_THREAD: the distributor
\* reads it while the thread subtracts.
SocketsWithinLimit ==
  \A t \in Threads : net[t] # "ended" =>
    /\ number[t] = Cardinality(OnThread(t)) + erased[t]
    /\ number[t] \in 0 .. Max

\* The one kind of bot that a completion after its close can bring back for
\* good: it waits for nothing and its death timer is spent.
Revived(b) ==
  b.type = "CONNECT_AND_HANG" /\ b.life = "closed" /\ b.state = "JUST_CONNECTED"

\* The load goes on: whatever its kind and whatever the server does, a bot
\* frees its place in the end, but for one that is revived.
PlacesFreed ==
  \A k \in Slots : bot[k] # NoBot ~> (bot[k] = NoBot \/ Revived(bot[k]))

\* "This death timer, if set will kill the socket indiscriminately."  This does
\* not hold (README, section 5): not for a bot that is revived.
DeathTimerKills ==
  \A k \in Slots : bot[k].death = "fired" ~> bot[k] = NoBot
==============================================================================
