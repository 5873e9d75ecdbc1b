------------------------------ MODULE AuthLogin ------------------------------
(***************************************************************************)
(* Logging in: clients that connect to the auth server over TLS, its       *)
(* sessions with their timers and the closing of their sockets, the check  *)
(* of the password by a database worker and a crypto thread, the row that  *)
(* hands a login over to the world server, and its lookup there.           *)
(*                                                                         *)
(* A step is a handler of the session's network thread, a request that a   *)
(* worker executes, a hash, or a step of a client.  Times are not          *)
(* modelled: a timer that runs may expire.                                 *)
(***************************************************************************)
EXTENDS Naturals, Sequences, FiniteSets

CONSTANTS
  Logins,       \* connections to the auth server, each of a client that logs in
  Accounts,
  AccountOf,    \* the account whose name the client of a login gives
  NoLogin,
  MaxRealms,    \* MAX_REALMS_N
  RealmCounts,  \* how many valid rows the table of realms may have
  LoginWorkers, \* the world server's LOGIN_DATABASE_THREADS_COUNT
  MaxVisits     \* bound: connections to the world server

ASSUME AccountsAssumption == AccountOf \in [Logins -> Accounts]
ASSUME NoLoginAssumption == NoLogin \notin Logins
ASSUME CountsAssumption == MaxRealms \in Nat /\ RealmCounts \subseteq Nat /\ MaxVisits \in Nat
ASSUME WorkersAssumption == LoginWorkers \in Nat \ {0}

Visits == 1 .. MaxVisits   \* connections to the world server, in the order they are made

VARIABLES
  place,   \* where a client is with the auth server
  up,      \* packets to the session, in order
  down,    \* packets to the client, in order
  sock,    \* the TCPSocketBoost of a session
  auth,    \* the rest of the AuthSession
  out,     \* m_outQueue
  work,    \* where the check of the session's proof is
  store,   \* the transaction that stores the login
  rows,    \* active_sessions: the login of an account's row
  codes,   \* logins whose row still has its greetcode
  guest,   \* guest[v]: the login whose client made the visit, or NoLogin
  world,   \* world[v]: its WorldSession
  look,    \* look[v]: the lookup of its greetcode, see Lookups
  found    \* history: visits whose lookup found the greetcode

link == <<up, down>>
session == <<sock, auth, out>>
database == <<store, rows, codes>>
game == <<guest, world, look, found>>
vars == <<place, link, session, work, database, game>>

MaxPackets == 3    \* MAX_PACKETS_EXCHANGE_PER_CLIENT

Unused ==
  [state |-> "none", listed |-> FALSE, closing |-> FALSE, closed |-> FALSE,
   shake |-> "none", timer |-> "off", timedOut |-> FALSE,
   read |-> "none", write |-> "idle"]

New == [status |-> "gatherInfo", closeAfterSend |-> FALSE, packets |-> 0]

Init ==
  /\ place = [l \in Logins |-> "off"]
  /\ up = [l \in Logins |-> <<>>] /\ down = [l \in Logins |-> <<>>]
  /\ sock = [l \in Logins |-> Unused]
  /\ auth = [l \in Logins |-> New]
  /\ out = [l \in Logins |-> <<>>]
  /\ work = [l \in Logins |-> "none"]
  /\ store = [l \in Logins |-> "none"]
  /\ rows = [a \in Accounts |-> NoLogin] /\ codes = {}
  /\ guest = [v \in Visits |-> NoLogin] /\ world = [v \in Visits |-> "none"]
  /\ look = [v \in Visits |-> "none"] /\ found = {}

Statuses == {"gatherInfo", "loginAttempt", "pending", "authed", "realmPending"}
Requests == {"info", "proof", "realms"}
Packets == {"challenge", "wrongVersion", "success", "failed", "list", "longList"}
Works ==
  {"none", "query", "error", "noRow", "row", "hash", "fakeHash", "refused", "accepted"}
\* read, empty: the SELECT found a row, or none, and the UPDATE is to come.
Lookups == {"none", "queued", "read", "empty", "found", "missing", "error"}
Sockets ==
  [state : {"none", "default", "handshaking", "justConnected", "connected", "critical"},
   listed : BOOLEAN, closing : BOOLEAN, closed : BOOLEAN,
   shake : {"none", "pending", "done"}, timer : {"off", "armed", "due"},
   timedOut : BOOLEAN, read : {"none", "pending", "ready"},
   write : {"idle", "busy", "dead"}]

Gone(l) == place[l] \in {"lost", "done"}

------------------------------------------------------------------------------
(* The socket (TCPSocketBoost).                                            *)

IsOpen(s) == ~s.closed /\ ~s.closing

\* Starts the TLS shutdown and its deadline.
CloseSocket(s) == [s EXCEPT !.closing = TRUE]

\* Operations under way are aborted, but for a read whose handler is queued.
ForceCloseSocket(s) ==
  [s EXCEPT !.closed = TRUE, !.state = "critical",
            !.shake = IF @ = "pending" THEN "none" ELSE @,
            !.read = IF @ = "pending" THEN "none" ELSE @,
            !.write = IF @ = "busy" THEN "dead" ELSE @]

AsyncRead(s) == IF IsOpen(s) THEN [s EXCEPT !.read = "pending"] ELSE s

\* A write on a socket whose shutdown has begun fails, which changes no more
\* than that m_AsyncWriting stays set.
AsyncWrite(s) ==
  IF s.write # "idle" THEN s
  ELSE [s EXCEPT !.write = IF IsOpen(s) THEN "busy" ELSE "dead"]

\* For the socket s that the handler leaves.
QueuePacket(l, kind, s) ==
  /\ out' = [out EXCEPT ![l] = Append(@, kind)]
  /\ sock' = [sock EXCEPT ![l] = AsyncWrite(s)]

\* The exchange of close_notify ends, or fails; or the peer takes too long.
Closes(l) ==
  /\ sock[l].closing /\ ~sock[l].closed
  /\ sock' = [sock EXCEPT ![l] = ForceCloseSocket(@)]
  /\ UNCHANGED <<place, link, auth, out, work, database, game>>
ShutdownEnds(l) == Closes(l)
Deadline(l) == Closes(l)

\* The packet at the head of the queue was sent.
InternalWriteCallback(l) ==
  LET rest == Tail(out[l])
      sent == [sock[l] EXCEPT !.write = "idle"]
  IN /\ sock[l].write = "busy"
     /\ out' = [out EXCEPT ![l] = rest]
     /\ down' = IF Gone(l) THEN down ELSE [down EXCEPT ![l] = Append(@, Head(out[l]))]
     /\ sock' = [sock EXCEPT ![l] = IF rest # <<>> THEN AsyncWrite(sent)
                                  ELSE IF auth[l].closeAfterSend THEN CloseSocket(sent)
                                  ELSE sent]
     /\ UNCHANGED <<place, up, auth, work, database, game>>
WriteFails(l) ==
  /\ sock[l].write = "busy"
  /\ Gone(l) /\ ~sock[l].closing
  /\ sock' = [sock EXCEPT ![l] = CloseSocket([@ EXCEPT !.write = "dead"])]
  /\ UNCHANGED <<place, link, auth, out, work, database, game>>

\* A read completes; its handler runs later, even on a socket closed meanwhile.
ReadCompletes(l) ==
  /\ sock[l].read = "pending" /\ ~sock[l].closed
  /\ up[l] # <<>>
  /\ sock' = [sock EXCEPT ![l].read = "ready"]
  /\ UNCHANGED <<place, link, auth, out, work, database, game>>
ReadFails(l) ==
  /\ sock[l].read = "pending"
  /\ Gone(l) /\ ~sock[l].closing
  /\ sock' = [sock EXCEPT ![l] = CloseSocket([@ EXCEPT !.read = "none"])]
  /\ UNCHANGED <<place, link, auth, out, work, database, game>>

------------------------------------------------------------------------------
(* AuthSession::Update, in its network thread, and the handshake.          *)

\* The first update: start the handshake and its timer.
StartHandshake(l) ==
  /\ sock[l].listed /\ sock[l].state = "default"
  /\ sock' = [sock EXCEPT ![l].state = "handshaking", ![l].timer = "armed",
                          ![l].shake = "pending"]
  /\ UNCHANGED <<place, link, auth, out, work, database, game>>

\* The handler of a handshake that succeeded.  cancel() comes too late for a
\* timer whose handler is queued; that one finds another state and does nothing.
HandshakeHandler(l) ==
  LET s == [sock[l] EXCEPT !.shake = "none"]
      connected == [s EXCEPT !.state = "justConnected", !.timer = "off"]
  IN /\ sock[l].shake = "done"
     /\ sock' = [sock EXCEPT ![l] = IF s.timedOut THEN CloseSocket(s) ELSE connected]
     /\ UNCHANGED <<place, link, auth, out, work, database, game>>
HandshakeFails(l) ==
  /\ sock[l].shake = "pending"
  /\ Gone(l) /\ ~sock[l].closing
  /\ sock' = [sock EXCEPT ![l] = CloseSocket([@ EXCEPT !.shake = "none"])]
  /\ UNCHANGED <<place, link, auth, out, work, database, game>>

TimerExpires(l) ==
  /\ sock[l].timer = "armed"
  /\ sock' = [sock EXCEPT ![l].timer = "due"]
  /\ UNCHANGED <<place, link, auth, out, work, database, game>>
HandshakeTimeoutHandler(l) ==
  LET s == [sock[l] EXCEPT !.timer = "off"]
  IN /\ sock[l].timer = "due"
     /\ sock' = [sock EXCEPT ![l] =
                   IF s.state = "handshaking"
                   THEN CloseSocket([s EXCEPT !.timedOut = TRUE]) ELSE s]
     /\ UNCHANGED <<place, link, auth, out, work, database, game>>

StartReading(l) ==
  /\ sock[l].listed /\ sock[l].state = "justConnected"
  /\ sock' = [sock EXCEPT ![l] = [AsyncRead(@) EXCEPT !.state = "connected"]]
  /\ UNCHANGED <<place, link, auth, out, work, database, game>>

\* Slip: a session that checks a password or is authenticated never times out.
IdleTimeoutBeforeProof(l) ==
  /\ sock[l].listed /\ sock[l].state = "connected" /\ ~sock[l].closing
  /\ auth[l].status \in {"gatherInfo", "loginAttempt"}
  /\ sock' = [sock EXCEPT ![l] = CloseSocket(@)]
  /\ UNCHANGED <<place, link, auth, out, work, database, game>>

\* CONNECTED_AND_IDLE_TIMEOUT_MS without activity.
IdleTimeout(l) ==
  /\ sock[l].listed /\ sock[l].state = "connected" /\ ~sock[l].closing
  /\ sock' = [sock EXCEPT ![l] = CloseSocket(@)]
  /\ UNCHANGED <<place, link, auth, out, work, database, game>>

\* The network thread drops its reference to a dead socket; the session goes
\* with it, unless a read has still to be handled.
Remove(l) ==
  /\ sock[l].listed /\ sock[l].state = "critical"
  /\ sock' = [sock EXCEPT ![l].listed = FALSE]
  /\ \/ sock[l].read = "ready" /\ UNCHANGED <<up, auth, out>>
     \/ /\ sock[l].read # "ready"
        /\ up' = [up EXCEPT ![l] = <<>>]
        /\ auth' = [auth EXCEPT ![l] = New]
        /\ out' = [out EXCEPT ![l] = <<>>]
  /\ UNCHANGED <<place, down, work, database, game>>

------------------------------------------------------------------------------
(* Packets of the client (AsyncReadCallback).                              *)

Expected(kind) ==
  CASE kind = "info" -> "gatherInfo"
    [] kind = "proof" -> "loginAttempt"
    [] kind = "realms" -> "authed"

\* The session when its handler has returned true: it reads on.
Reading(l) == AsyncRead([sock[l] EXCEPT !.read = "none"])

\* A handler returns false, or throws; or the packet is not even handled.
Reject(l) ==
  /\ sock' = [sock EXCEPT ![l] = CloseSocket([@ EXCEPT !.read = "none"])]
  /\ UNCHANGED <<out, work>>

HandleAuthLoginGatherInfoPacket(l, a) ==
  \/ \* wrong size or name; or no random bytes, found when the status has changed
     /\ Reject(l)
     /\ \E s \in {a.status, "loginAttempt"} : auth' = [auth EXCEPT ![l] = [a EXCEPT !.status = s]]
  \/ \* the client's version is not the server's
     /\ auth' = [auth EXCEPT ![l] = [a EXCEPT !.closeAfterSend = TRUE]]
     /\ QueuePacket(l, "wrongVersion", Reading(l))
     /\ UNCHANGED work
  \/ /\ auth' = [auth EXCEPT ![l] = [a EXCEPT !.status = "loginAttempt"]]
     /\ QueuePacket(l, "challenge", Reading(l))
     /\ UNCHANGED work

HandleAuthLoginProofPacket(l, a) ==
  \/ \* wrong size or password
     Reject(l) /\ auth' = [auth EXCEPT ![l] = a]
  \/ \* the proof of work cannot be verified
     /\ auth' = [auth EXCEPT ![l] = [a EXCEPT !.status = "pending", !.closeAfterSend = TRUE]]
     /\ QueuePacket(l, "failed", Reading(l))
     /\ UNCHANGED work
  \/ \* the database pool takes the credentials check
     /\ auth' = [auth EXCEPT ![l] = [a EXCEPT !.status = "pending"]]
     /\ work' = [work EXCEPT ![l] = "query"]
     /\ sock' = [sock EXCEPT ![l] = Reading(l)]
     /\ UNCHANGED out
  \/ \* it is full
     Reject(l) /\ auth' = [auth EXCEPT ![l] = [a EXCEPT !.status = "pending"]]

\* The RealmList is read again every now and then, so it may have any size; the
\* loop that writes it stops only above MAX_REALMS_N.
ListSize(n) == IF n <= MaxRealms THEN n ELSE MaxRealms + 1

HandleGatherRealmlistPacket(l, a) ==
  /\ auth' = [auth EXCEPT ![l] = [a EXCEPT !.status = "realmPending", !.closeAfterSend = TRUE]]
  /\ \E n \in RealmCounts :
       QueuePacket(l, IF ListSize(n) <= MaxRealms THEN "list" ELSE "longList", Reading(l))
  /\ UNCHANGED work

AsyncReadCallback(l) ==
  LET m == Head(up[l])
      a == [auth[l] EXCEPT !.packets = @ + 1]
  IN /\ sock[l].read = "ready"
     /\ up' = [up EXCEPT ![l] = Tail(@)]
     /\ \/ /\ auth[l].status # Expected(m) \/ a.packets > MaxPackets
           /\ Reject(l) /\ UNCHANGED auth
        \/ /\ auth[l].status = Expected(m) /\ a.packets <= MaxPackets
           /\ \/ m = "info" /\ HandleAuthLoginGatherInfoPacket(l, a)
              \/ m = "proof" /\ HandleAuthLoginProofPacket(l, a)
              \/ m = "realms" /\ HandleGatherRealmlistPacket(l, a)
     /\ UNCHANGED <<place, down, database, game>>

------------------------------------------------------------------------------
(* The check of the password: request, response, hash, result.  What finds *)
(* its session destroyed is dropped; such a session's socket is closed.    *)

\* A worker of the login database executes CREDENTIALS_CHECK.
ExecuteCheck(l) ==
  /\ work[l] = "query"
  /\ \/ \E r \in {"error", "noRow", "row"} : work' = [work EXCEPT ![l] = r]
     \/ sock[l].closed /\ work' = [work EXCEPT ![l] = "none"]
  /\ UNCHANGED <<place, link, session, database, game>>

DBCallback_AuthLoginProofPacket(l) ==
  /\ work[l] \in {"error", "noRow", "row"}
  /\ \/ ~IsOpen(sock[l]) /\ work' = [work EXCEPT ![l] = "none"] /\ UNCHANGED sock
     \/ /\ IsOpen(sock[l]) /\ work[l] = "error"
        /\ work' = [work EXCEPT ![l] = "none"]
        /\ sock' = [sock EXCEPT ![l] = CloseSocket(@)]
     \/ /\ IsOpen(sock[l]) /\ work[l] # "error"
        /\ work' = [work EXCEPT ![l] = IF @ = "row" THEN "hash" ELSE "fakeHash"]
        /\ UNCHANGED sock
  /\ UNCHANGED <<place, link, auth, out, database, game>>

\* A crypto thread verifies the password, or a fake one, and posts the result.
VerifyHash(l) ==
  /\ work[l] \in {"hash", "fakeHash"}
  /\ \/ work' = [work EXCEPT ![l] = "refused"]
     \/ work[l] = "hash" /\ work' = [work EXCEPT ![l] = "accepted"]
     \/ sock[l].closed /\ work' = [work EXCEPT ![l] = "none"]
  /\ UNCHANGED <<place, link, session, database, game>>

\* Slip: the success is sent but the session does not become authenticated.
HandlePasswordHashResultPending(l) ==
  \/ /\ work[l] = "refused"
     /\ auth' = [auth EXCEPT ![l].closeAfterSend = TRUE]
     /\ QueuePacket(l, "failed", sock[l])
     /\ UNCHANGED store
  \/ /\ work[l] = "accepted"
     /\ store' = [store EXCEPT ![l] = "queued"]
     /\ QueuePacket(l, "success", sock[l])
     /\ UNCHANGED auth

\* The success is queued right after the transaction, which is not awaited.
HandlePasswordHashResult(l) ==
  \/ /\ work[l] = "refused"
     /\ auth' = [auth EXCEPT ![l].closeAfterSend = TRUE]
     /\ QueuePacket(l, "failed", sock[l])
     /\ UNCHANGED store
  \/ /\ work[l] = "accepted"
     /\ auth' = [auth EXCEPT ![l].status = "authed"]
     /\ \/ /\ store' = [store EXCEPT ![l] = "queued"]
           /\ QueuePacket(l, "success", sock[l])
        \/ \* the pool is full
           /\ sock' = [sock EXCEPT ![l] = CloseSocket(@)]
           /\ UNCHANGED <<out, store>>

\* Slip: the result is not asked whether the socket is still open.
HashResultUnchecked(l) ==
  /\ work[l] \in {"refused", "accepted"}
  /\ work' = [work EXCEPT ![l] = "none"]
  /\ HandlePasswordHashResult(l)
  /\ UNCHANGED <<place, link, rows, codes, game>>

HashResult(l) ==
  /\ work[l] \in {"refused", "accepted"}
  /\ work' = [work EXCEPT ![l] = "none"]
  /\ \/ ~IsOpen(sock[l]) /\ UNCHANGED <<session, store>>
     \/ IsOpen(sock[l]) /\ HandlePasswordHashResult(l)
  /\ UNCHANGED <<place, link, rows, codes, game>>

\* DEL_PREV_SESSIONS, INS_NEW_SESSION and UPD_ON_LOGIN in one transaction, by
\* any worker: transactions of two logins execute in any order.
ExecuteStore(l) ==
  LET a == AccountOf[l]
  IN /\ store[l] = "queued"
     /\ \/ /\ store' = [store EXCEPT ![l] = "stored"]
           /\ rows' = [rows EXCEPT ![a] = l]
           /\ codes' = (codes \ {rows[a]}) \cup {l}
        \/ store' = [store EXCEPT ![l] = "failed"] /\ UNCHANGED <<rows, codes>>
     /\ UNCHANGED <<place, link, session, work, game>>

------------------------------------------------------------------------------
(* The client's AuthManager and AuthSession.  place: "shaking" in the      *)
(* blocking handshake, then its m_status; "done" when it knows the realms, *)
(* "lost" when it has no connection.                                       *)

\* ConnectToAuthServer; the server accepts and queues the new socket.
ConnectToAuthServer(l) ==
  /\ place[l] = "off"
  /\ place' = [place EXCEPT ![l] = "shaking"]
  /\ sock' = [sock EXCEPT ![l].state = "default", ![l].listed = TRUE]
  /\ UNCHANGED <<link, auth, out, work, database, game>>

\* What is sent to a closed socket is lost.
Send(l, kind) == up' = IF sock[l].closed THEN up ELSE [up EXCEPT ![l] = Append(@, kind)]

\* In TLS 1.3 the client is done first; it sends its greeting at once.
TLSPerformHandshake(l) ==
  /\ place[l] = "shaking"
  /\ sock[l].shake = "pending" /\ ~sock[l].closed
  /\ sock' = [sock EXCEPT ![l].shake = "done"]
  /\ place' = [place EXCEPT ![l] = "gatherInfo"]
  /\ Send(l, "info")
  /\ UNCHANGED <<down, auth, out, work, database, game>>

Answers == [gatherInfo |-> {"challenge", "wrongVersion"},
            loginAttempt |-> {"success", "failed"},
            authed |-> {"list", "longList"}]

\* ReadCallback: a failure, or what the client does not expect, ends it.
ClientReceives(l) ==
  LET m == Head(down[l])
      Go(p, kind) == /\ place' = [place EXCEPT ![l] = p]
                     /\ Send(l, kind)
                     /\ down' = [down EXCEPT ![l] = Tail(@)]
      End(p) == /\ place' = [place EXCEPT ![l] = p]
                /\ down' = [down EXCEPT ![l] = <<>>]
                /\ UNCHANGED up
  IN /\ place[l] \in DOMAIN Answers
     /\ down[l] # <<>>
     /\ \/ place[l] = "gatherInfo" /\ m = "challenge" /\ Go("loginAttempt", "proof")
        \/ place[l] = "loginAttempt" /\ m = "success" /\ Go("authed", "realms")
        \/ place[l] = "authed" /\ m = "list" /\ End("done")
        \/ /\ m \in {"wrongVersion", "failed", "longList"} \/ m \notin Answers[place[l]]
           /\ End("lost")
     /\ UNCHANGED <<session, work, database, game>>

\* The client notices that the connection ended, or ends itself.
OnDisconnect(l) ==
  /\ place[l] \in {"shaking"} \cup DOMAIN Answers
  /\ place' = [place EXCEPT ![l] = "lost"]
  /\ down' = [down EXCEPT ![l] = <<>>]
  /\ UNCHANGED <<up, session, work, database, game>>

------------------------------------------------------------------------------
(* The world server (WorldSession, up to the greeting that it accepts).    *)

\* The client sends its greetcode.  It keeps it, and may come again while the
\* server still holds its earlier connections and looks them up.
ConnectToWorldServer(l, v) ==
  /\ place[l] = "done"
  /\ guest[v] = NoLogin /\ \A u \in 1 .. v - 1 : guest[u] # NoLogin
  /\ guest' = [guest EXCEPT ![v] = l]
  /\ world' = [world EXCEPT ![v] = "asked"]
  /\ look' = [look EXCEPT ![v] = "queued"]
  /\ UNCHANGED <<place, link, session, work, database, found>>

\* What a worker has begun and not ended.
Executing == {v \in Visits : look[v] \in {"read", "empty"}}

\* A worker that is free begins the transaction.  SEL_SESSIONKEY_BY_GREETCODE
\* locks nothing: it reads what is committed.
LookupSelect(v) ==
  /\ look[v] = "queued" /\ Cardinality(Executing) < LoginWorkers
  /\ look' = [look EXCEPT ![v] = IF guest[v] \in codes THEN "read" ELSE "empty"]
  /\ UNCHANGED <<place, link, session, work, database, guest, world, found>>

\* Slip: of the steps only the SELECT is executed.
CommitReadOnly(v) ==
  /\ look' = [look EXCEPT ![v] = IF @ = "read" THEN "found" ELSE "missing"]
  /\ found' = IF look[v] = "read" THEN found \cup {v} ELSE found
  /\ UNCHANGED codes

\* INVALIDATE_GREETCODE and the commit.  How many rows the UPDATE changed is
\* never asked.  What it does is seen by others only when it is committed.
Commit(v) ==
  /\ look' = [look EXCEPT ![v] = IF @ = "read" THEN "found" ELSE "missing"]
  /\ found' = IF look[v] = "read" THEN found \cup {v} ELSE found
  /\ codes' = codes \ {guest[v]}

LookupCommit(v) ==
  /\ v \in Executing
  /\ Commit(v)
  /\ UNCHANGED <<place, link, session, work, store, rows, guest, world>>

\* A step fails; or the connection is lost, maybe after the commit.
LookupFails(v) ==
  /\ v \in Executing
  /\ look' = [look EXCEPT ![v] = "error"]
  /\ codes' \in {codes, codes \ {guest[v]}}
  /\ UNCHANGED <<place, link, session, work, store, rows, guest, world, found>>

\* The worker skips the request of a session that was destroyed.
LookupSkipped(v) ==
  /\ look[v] = "queued" /\ world[v] = "gone"
  /\ look' = [look EXCEPT ![v] = "none"]
  /\ UNCHANGED <<place, link, session, work, database, guest, world, found>>

\* The row may be too old (GREETCODE_VALIDITY_TIME_WINDOW_SECONDS).
DBCallback_GreetcodeLookup(v) ==
  /\ look[v] \in {"found", "missing", "error"}
  /\ look' = [look EXCEPT ![v] = "none"]
  /\ \/ world[v] = "gone" /\ UNCHANGED world
     \/ world[v] = "asked" /\ look[v] = "found" /\ world' = [world EXCEPT ![v] = "in"]
     \/ world[v] = "asked" /\ world' = [world EXCEPT ![v] = "gone"]
  /\ UNCHANGED <<place, link, session, work, database, guest, found>>

\* The session learns that its connection has ended.
LeaveWorldServer(v) ==
  /\ world[v] \in {"asked", "in"}
  /\ world' = [world EXCEPT ![v] = "gone"]
  /\ UNCHANGED <<place, link, session, work, database, guest, look, found>>

------------------------------------------------------------------------------
Socket(l) ==
  \/ ShutdownEnds(l) \/ Deadline(l) \/ InternalWriteCallback(l) \/ WriteFails(l)
  \/ ReadCompletes(l) \/ ReadFails(l)
Update(l) ==
  \/ StartHandshake(l) \/ HandshakeHandler(l) \/ HandshakeFails(l)
  \/ TimerExpires(l) \/ HandshakeTimeoutHandler(l)
  \/ StartReading(l) \/ IdleTimeout(l) \/ Remove(l)
Check(l) ==
  \/ ExecuteCheck(l) \/ DBCallback_AuthLoginProofPacket(l) \/ VerifyHash(l)
  \/ HashResult(l) \/ ExecuteStore(l)
Client(l) ==
  \/ ConnectToAuthServer(l) \/ TLSPerformHandshake(l) \/ ClientReceives(l) \/ OnDisconnect(l)
World(v) ==
  \/ LookupSelect(v) \/ LookupCommit(v) \/ LookupFails(v) \/ LookupSkipped(v)
  \/ DBCallback_GreetcodeLookup(v) \/ LeaveWorldServer(v)

Next ==
  \/ \E l \in Logins : \/ Socket(l) \/ Update(l) \/ AsyncReadCallback(l)
                       \/ Check(l) \/ Client(l)
                       \/ \E v \in Visits : ConnectToWorldServer(l, v)
  \/ \E v \in Visits : World(v)

Spec == Init /\ [][Next]_vars

\* The network thread calls Update and runs its handlers and timers.
FairSpec ==
  /\ Spec
  /\ \A l \in Logins :
       /\ WF_vars(StartHandshake(l)) /\ WF_vars(HandshakeHandler(l))
       /\ WF_vars(TimerExpires(l)) /\ WF_vars(HandshakeTimeoutHandler(l))
       /\ WF_vars(StartReading(l)) /\ WF_vars(IdleTimeout(l))
       /\ WF_vars(Deadline(l)) /\ WF_vars(Remove(l))

------------------------------------------------------------------------------
(* Properties.                                                             *)

\* Every variable keeps its type (AuthSession, TCPSocketBoost, their database
\* rows and the clients).
TypeOK ==
  /\ place \in [Logins -> {"off", "shaking", "lost", "done"} \cup DOMAIN Answers]
  /\ up \in [Logins -> Seq(Requests)]
  /\ down \in [Logins -> Seq(Packets)] /\ out \in [Logins -> Seq(Packets)]
  /\ sock \in [Logins -> Sockets]
  /\ auth \in [Logins -> [status : Statuses, closeAfterSend : BOOLEAN, packets : Nat]]
  /\ work \in [Logins -> Works]
  /\ store \in [Logins -> {"none", "queued", "stored", "failed"}]
  /\ rows \in [Accounts -> Logins \cup {NoLogin}] /\ codes \subseteq Logins
  /\ guest \in [Visits -> Logins \cup {NoLogin}]
  /\ world \in [Visits -> {"none", "asked", "in", "gone"}]
  /\ look \in [Visits -> Lookups] /\ found \subseteq Visits

\* NECROClient and the server never refuse each other for a packet out of its
\* status, nor for the number of packets: the answer to a packet is queued
\* only when the session expects the next one.
InStep ==
  \A l \in Logins :
    /\ up[l] # <<>> => Expected(Head(up[l])) = auth[l].status /\ auth[l].packets < MaxPackets
    /\ down[l] # <<>> /\ place[l] \in DOMAIN Answers => Head(down[l]) \in Answers[place[l]]

\* A handler that runs has something to handle.
HandlersReady ==
  \A l \in Logins :
    /\ sock[l].read = "ready" => up[l] # <<>>
    /\ sock[l].write = "busy" => out[l] # <<>> /\ ~sock[l].closed

\* Nothing has happened to the socket of a session that shakes hands.
Untouched(l) ==
  /\ ~sock[l].closing /\ sock[l].read = "none" /\ sock[l].write = "idle"
  /\ work[l] = "none"

\* The states of a socket: a closed one is CRITICAL_ERROR, and only the expired
\* timer closes one whose handshake is not over.
SocketStates ==
  \A l \in Logins :
    /\ sock[l].closed = (sock[l].state = "critical")
    /\ sock[l].closed => sock[l].closing /\ sock[l].read # "pending"
    /\ place[l] = "off" => sock[l].state = "none"
    /\ sock[l].state \in {"none", "default"} =>
         Untouched(l) /\ sock[l].shake = "none" /\ ~sock[l].timedOut
    /\ sock[l].shake # "none" /\ ~sock[l].timedOut =>
         Untouched(l) /\ sock[l].state = "handshaking"

\* Before its proof was taken a session has no check and no row, unless it is
\* destroyed; a check excludes the transaction that only its success starts.
OneCheck ==
  \A l \in Logins :
    /\ /\ work[l] # "none" \/ store[l] # "none"
       /\ auth[l].status \in {"gatherInfo", "loginAttempt"}
       => sock[l].closed /\ sock[l].read = "none"
    /\ work[l] # "none" => store[l] = "none"

\* The visits that l's greetcode has let in, or will when their lookup commits.
Holders(l) == {v \in Visits : guest[v] = l /\ (v \in found \/ look[v] = "read")}

\* What a row and its greetcode say of their login and its lookups.
CodesFresh ==
  /\ \A l \in Logins : l \in codes => store[l] = "stored"
  /\ \A v \in found : guest[v] \in Logins \ codes /\ store[guest[v]] = "stored"
  /\ \A v \in Visits :
       /\ look[v] # "none" => guest[v] \in Logins
       /\ look[v] = "read" => store[guest[v]] = "stored"
       /\ look[v] = "found" \/ world[v] = "in" => v \in found

\* A greetcode is good for as many uses as the world server has workers that
\* look it up at the same time, and not for one more: a lookup that begins when
\* one has committed does not find it.  With one worker, the default, that is
\* one use.  Nobody is in the world without it.
UsesBounded ==
  /\ \A l \in Logins : Cardinality({v \in found : guest[v] = l}) <= LoginWorkers
  /\ \A v \in Visits : world[v] = "in" => v \in found /\ store[guest[v]] = "stored"

\* The inductive invariant of the proofs: a login's greetcode is found only by
\* lookups that were under way together, because its one check stores it at most
\* once; and a closed socket stays closed because of what a handshake under way
\* excludes.
LoginInv ==
  /\ TypeOK /\ HandlersReady /\ SocketStates /\ OneCheck /\ CodesFresh
  /\ Cardinality(Executing) <= LoginWorkers
  /\ \A l \in Logins : Cardinality(Holders(l)) <= LoginWorkers

\* A session that closes is not authenticated any more, though its check may
\* still be on three threads; a closed socket is never revived, though the
\* handshake and its timer race.
ClosedForGood ==
  [][\A l \in Logins :
       /\ sock[l].closing =>
            /\ auth'[l].status = "authed" => auth[l].status = "authed"
            /\ store'[l] = "queued" => store[l] = "queued"
       /\ sock[l].closed => sock'[l].state = "critical"]_vars

\* Every accepted socket is removed, whatever its peer does.
SocketsReleased == \A l \in Logins : sock[l].listed ~> ~sock[l].listed

\* "No session matches this greetcode, client never authenticated or replay."
\* This does not hold (README, section 5): the row may still be on its way.
MissMeansReplay ==
  \A v \in Visits : look[v] = "missing" => \E u \in found : guest[u] = guest[v]

\* "ONE USE! Server will clear it after first usage."  With several workers this
\* does not hold (README, section 5), with one it does (AuthLoginProofs).
OneUse == \A u, v \in found : guest[u] = guest[v] => u = v
==============================================================================
