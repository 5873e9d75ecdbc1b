--------------------------- MODULE AuthLoginProofs ---------------------------
(***************************************************************************)
(* Theorems of AuthLogin, for any logins, accounts and realms.             *)
(***************************************************************************)
EXTENDS AuthLogin, SequenceTheorems, FiniteSetTheorems, TLAPS

------------------------------------------------------------------------------
(* Queues and sockets.                                                     *)

\* The first of a queue and the rest.
LEMMA Taken ==
  ASSUME NEW S, NEW s \in Seq(S), s # <<>>
  PROVE  Tail(s) \in Seq(S) /\ Head(s) \in S
<1>1. Len(s) \in Nat \ {0}
  OBVIOUS
<1> QED
  BY <1>1

\* A queue with one more at its end.
LEMMA Added ==
  ASSUME NEW S, NEW s \in Seq(S), NEW e \in S
  PROVE  Append(s, e) \in Seq(S) /\ Append(s, e) # <<>>
<1>1. Len(Append(s, e)) = Len(s) + 1 /\ Append(s, e) \in Seq(S) /\ Len(s) \in Nat
  OBVIOUS
<1> QED
  BY <1>1, EmptySeq

\* What CloseSocket, ForceCloseSocket, AsyncRead and AsyncWrite make of a socket.
LEMMA Closing ==
  ASSUME NEW s \in Sockets
  PROVE  /\ CloseSocket(s) \in Sockets
         /\ CloseSocket(s) = [s EXCEPT !.closing = TRUE]
  BY DEF CloseSocket, Sockets

LEMMA Forcing ==
  ASSUME NEW s \in Sockets
  PROVE  /\ ForceCloseSocket(s) \in Sockets
         /\ ForceCloseSocket(s).closed /\ ForceCloseSocket(s).state = "critical"
         /\ ForceCloseSocket(s).closing = s.closing
         /\ ForceCloseSocket(s).timedOut = s.timedOut
         /\ ForceCloseSocket(s).shake \in {"none", "done"}
         /\ ForceCloseSocket(s).shake = "done" => s.shake = "done"
         /\ ForceCloseSocket(s).read \in {"none", "ready"}
         /\ ForceCloseSocket(s).read = "ready" => s.read = "ready"
         /\ ForceCloseSocket(s).write # "busy"
<1> DEFINE t == ForceCloseSocket(s)
<1>1. /\ t.closed = TRUE /\ t.state = "critical" /\ t.closing = s.closing
      /\ t.timedOut = s.timedOut /\ t.listed = s.listed /\ t.timer = s.timer
  BY DEF ForceCloseSocket, Sockets
<1>2. /\ t.shake = IF s.shake = "pending" THEN "none" ELSE s.shake
      /\ t.read = IF s.read = "pending" THEN "none" ELSE s.read
      /\ t.write = IF s.write = "busy" THEN "dead" ELSE s.write
  BY DEF ForceCloseSocket, Sockets
<1>3. t \in Sockets
  <2>1. PICK h \in {"none", "done"}, r \in {"none", "ready"}, w \in {"idle", "dead"} :
          t = [s EXCEPT !.closed = TRUE, !.state = "critical",
                        !.shake = h, !.read = r, !.write = w]
    BY DEF ForceCloseSocket, Sockets
  <2> QED
    BY <2>1, ZenonT(30) DEF Sockets
<1> HIDE DEF t
<1>4. s.shake \in {"none", "pending", "done"} /\ s.read \in {"none", "pending", "ready"}
  BY DEF Sockets
<1> QED
  BY <1>1, <1>2, <1>3, <1>4 DEF t

LEMMA ReadingSocket ==
  ASSUME NEW s \in Sockets
  PROVE  /\ AsyncRead(s) \in Sockets
         /\ AsyncRead(s) = IF s.closed \/ s.closing THEN s ELSE [s EXCEPT !.read = "pending"]
  BY DEF AsyncRead, IsOpen, Sockets

LEMMA WritingSocket ==
  ASSUME NEW s \in Sockets
  PROVE  /\ AsyncWrite(s) \in Sockets
         /\ \E w \in {"idle", "busy", "dead"} : AsyncWrite(s) = [s EXCEPT !.write = w]
         /\ AsyncWrite(s).write = "busy" => s.write = "busy" \/ ~s.closed
  BY DEF AsyncWrite, IsOpen, Sockets

------------------------------------------------------------------------------
(* The invariant at one login.                                             *)

\* What LoginInv says of a socket t, with the queues u and o to and from its
\* client, the check w, the client at p, the status q and the transaction x.
Fits(t, u, o, w, p, q, x) ==
  /\ t.read = "ready" => u # <<>>
  /\ t.write = "busy" => o # <<>> /\ ~t.closed
  /\ t.closed = (t.state = "critical")
  /\ t.closed => t.closing /\ t.read # "pending"
  /\ p = "off" => t.state = "none"
  /\ t.state \in {"none", "default"} =>
       /\ ~t.closing /\ t.read = "none" /\ t.write = "idle" /\ w = "none"
       /\ t.shake = "none" /\ ~t.timedOut
  /\ t.shake # "none" /\ ~t.timedOut =>
       /\ ~t.closing /\ t.read = "none" /\ t.write = "idle" /\ w = "none"
       /\ t.state = "handshaking"
  /\ (w # "none" \/ x # "none") /\ q \in {"gatherInfo", "loginAttempt"} =>
       t.closed /\ t.read = "none"
  /\ w # "none" => x = "none"

FitsAt(l) == Fits(sock[l], up[l], out[l], work[l], place[l], auth[l].status, store[l])

Used ==
  /\ Cardinality(Executing) <= LoginWorkers
  /\ \A l \in Logins : Cardinality(Holders(l)) <= LoginWorkers

LEMMA InvParts == LoginInv <=> TypeOK /\ (\A l \in Logins : FitsAt(l)) /\ CodesFresh /\ Used
  BY DEF LoginInv, HandlersReady, SocketStates, Untouched, OneCheck, FitsAt, Fits, Used

LEMMA InvPartsNext ==
  TypeOK' /\ (\A l \in Logins : FitsAt(l)') /\ CodesFresh' /\ Used' => LoginInv'
  BY DEF LoginInv, HandlersReady, SocketStates, Untouched, OneCheck, FitsAt, Fits, Used

\* A step of the socket t of login l alone.
LEMMA SocketStep ==
  ASSUME LoginInv, NEW l \in Logins, NEW t \in Sockets,
         sock' = [sock EXCEPT ![l] = t],
         UNCHANGED <<place, link, auth, out, work, database, game>>,
         Fits(t, up[l], out[l], work[l], place[l], auth[l].status, store[l])
  PROVE  LoginInv'
<1> USE DEF link, database, game
<1>1. TypeOK'
  BY DEF LoginInv, TypeOK
<1>2. ASSUME NEW k \in Logins PROVE FitsAt(k)'
  <2>1. CASE k = l
    BY <2>1 DEF FitsAt, LoginInv, TypeOK
  <2>2. CASE k # l
    BY <2>2, InvParts DEF FitsAt, LoginInv, TypeOK
  <2> QED
    BY <2>1, <2>2
<1>3. CodesFresh' /\ Used'
  BY InvParts DEF CodesFresh, Used, Executing, Holders
<1> QED
  BY <1>1, <1>2, <1>3, InvPartsNext

------------------------------------------------------------------------------
(* The socket, Update and the handshake.                                   *)

LEMMA ClosesKeeps ==
  ASSUME LoginInv, NEW l \in Logins, Closes(l)
  PROVE  LoginInv'
<1>1. sock[l] \in Sockets /\ FitsAt(l)
  BY InvParts DEF TypeOK
<1>2. LET t == ForceCloseSocket(sock[l])
      IN  Fits(t, up[l], out[l], work[l], place[l], auth[l].status, store[l])
  BY <1>1, Forcing DEF Closes, FitsAt, Fits
<1> QED
  BY <1>1, <1>2, Forcing, SocketStep DEF Closes

\* The handlers that only change the socket.
LEMMA SocketHandlersKeep ==
  ASSUME LoginInv, NEW l \in Logins,
         \/ WriteFails(l) \/ ReadCompletes(l) \/ ReadFails(l)
         \/ StartHandshake(l) \/ HandshakeHandler(l) \/ HandshakeFails(l)
         \/ TimerExpires(l) \/ HandshakeTimeoutHandler(l) \/ IdleTimeout(l)
  PROVE  LoginInv'
<1>1. sock[l] \in Sockets /\ FitsAt(l)
  BY InvParts DEF TypeOK
<1> DEFINE Good(t) == /\ t \in Sockets
                      /\ Fits(t, up[l], out[l], work[l], place[l], auth[l].status, store[l])
<1> SUFFICES ASSUME UNCHANGED <<place, link, auth, out, work, database, game>>
             PROVE  \E t \in Sockets : Good(t) /\ sock' = [sock EXCEPT ![l] = t]
  BY SocketStep DEF WriteFails, ReadCompletes, ReadFails, StartHandshake, HandshakeHandler,
       HandshakeFails, TimerExpires, HandshakeTimeoutHandler, IdleTimeout
<1>2. CASE WriteFails(l)
  <2>1. Good(CloseSocket([sock[l] EXCEPT !.write = "dead"]))
    <3>1. CloseSocket([sock[l] EXCEPT !.write = "dead"])
            = [sock[l] EXCEPT !.write = "dead", !.closing = TRUE]
      BY <1>1 DEF CloseSocket, Sockets
    <3> QED
      BY <1>1, <1>2, <3>1 DEF WriteFails, FitsAt, Fits, Sockets
  <2> QED
    BY <2>1, <1>2 DEF WriteFails
<1>3. CASE ReadCompletes(l)
  <2>1. Good([sock[l] EXCEPT !.read = "ready"])
    BY <1>1, <1>3 DEF ReadCompletes, CloseSocket, FitsAt, Fits, Sockets
  <2> QED
    BY <2>1, <1>3 DEF ReadCompletes
<1>4. CASE ReadFails(l)
  <2>1. Good(CloseSocket([sock[l] EXCEPT !.read = "none"]))
    BY <1>1, <1>4 DEF ReadFails, CloseSocket, FitsAt, Fits, Sockets
  <2> QED
    BY <2>1, <1>4 DEF ReadFails
<1>5. CASE StartHandshake(l)
  <2>1. Good([sock[l] EXCEPT !.state = "handshaking", !.timer = "armed", !.shake = "pending"])
    BY <1>1, <1>5 DEF StartHandshake, CloseSocket, FitsAt, Fits, Sockets
  <2> QED
    BY <2>1, <1>5 DEF StartHandshake
<1>6. CASE HandshakeHandler(l)
  <2> DEFINE s == [sock[l] EXCEPT !.shake = "none"]
  <2>1. CASE s.timedOut
    <3>1. Good(CloseSocket(s))
      <4>1. CloseSocket(s) = [sock[l] EXCEPT !.shake = "none", !.closing = TRUE]
        BY <1>1 DEF CloseSocket, Sockets
      <4>2. sock[l].timedOut /\ sock[l].shake = "done"
        BY <1>1, <1>6, <2>1 DEF HandshakeHandler, Sockets
      <4> HIDE DEF s
      <4> QED
        BY ZenonT(30), <1>1, <4>1, <4>2 DEF FitsAt, Fits, Sockets
    <3> QED
      BY <3>1, <1>6, <2>1 DEF HandshakeHandler
  <2>2. CASE ~s.timedOut
    <3>1. Good([s EXCEPT !.state = "justConnected", !.timer = "off"])
      BY <1>1, <1>6, <2>2 DEF HandshakeHandler, FitsAt, Fits, Sockets
    <3> QED
      BY <3>1, <1>6, <2>2 DEF HandshakeHandler
  <2> QED
    BY <2>1, <2>2
<1>7. CASE HandshakeFails(l)
  <2>1. Good(CloseSocket([sock[l] EXCEPT !.shake = "none"]))
    BY <1>1, <1>7 DEF HandshakeFails, CloseSocket, FitsAt, Fits, Sockets
  <2> QED
    BY <2>1, <1>7 DEF HandshakeFails
<1>8. CASE TimerExpires(l)
  <2>1. Good([sock[l] EXCEPT !.timer = "due"])
    BY <1>1, <1>8 DEF TimerExpires, CloseSocket, FitsAt, Fits, Sockets
  <2> QED
    BY <2>1, <1>8 DEF TimerExpires
<1>9. CASE HandshakeTimeoutHandler(l)
  <2> DEFINE s == [sock[l] EXCEPT !.timer = "off"]
  <2>1. CASE s.state = "handshaking"
    <3>1. Good(CloseSocket([s EXCEPT !.timedOut = TRUE]))
      <4>1. CloseSocket([s EXCEPT !.timedOut = TRUE])
              = [sock[l] EXCEPT !.timer = "off", !.timedOut = TRUE, !.closing = TRUE]
        BY <1>1 DEF CloseSocket, Sockets
      <4>2. sock[l].state = "handshaking"
        BY <1>1, <2>1 DEF Sockets
      <4> HIDE DEF s
      <4> QED
        BY ZenonT(30), <1>1, <4>1, <4>2 DEF FitsAt, Fits, Sockets
    <3> QED
      BY <3>1, <1>9, <2>1 DEF HandshakeTimeoutHandler
  <2>2. CASE s.state # "handshaking"
    <3>1. Good(s)
      BY <1>1, <1>9, <2>2 DEF HandshakeTimeoutHandler, FitsAt, Fits, Sockets
    <3> QED
      BY <3>1, <1>9, <2>2 DEF HandshakeTimeoutHandler
  <2> QED
    BY <2>1, <2>2
<1>10. CASE IdleTimeout(l)
  <2>1. Good(CloseSocket(sock[l]))
    BY <1>1, <1>10 DEF IdleTimeout, CloseSocket, FitsAt, Fits, Sockets
  <2> QED
    BY <2>1, <1>10 DEF IdleTimeout
<1> QED
  BY <1>2, <1>3, <1>4, <1>5, <1>6, <1>7, <1>8, <1>9, <1>10

LEMMA StartReadingKeeps ==
  ASSUME LoginInv, NEW l \in Logins, StartReading(l)
  PROVE  LoginInv'
<1> DEFINE t == [AsyncRead(sock[l]) EXCEPT !.state = "connected"]
<1>1. sock[l] \in Sockets /\ FitsAt(l)
  BY InvParts DEF TypeOK
<1>2. t \in Sockets /\ Fits(t, up[l], out[l], work[l], place[l], auth[l].status, store[l])
  BY <1>1, ReadingSocket DEF StartReading, FitsAt, Fits, Sockets
<1> QED
  BY <1>1, <1>2, SocketStep DEF StartReading

------------------------------------------------------------------------------
(* Steps of more than the socket.                                          *)

\* What no step of login l changes: the other logins.
OthersSame(l) ==
  \A k \in Logins \ {l} :
    /\ sock'[k] = sock[k] /\ up'[k] = up[k] /\ out'[k] = out[k] /\ work'[k] = work[k]
    /\ place'[k] = place[k] /\ auth'[k] = auth[k] /\ store'[k] = store[k]

\* A step of login l that leaves the rows and the world server alone.
LEMMA LoginStep ==
  ASSUME LoginInv, NEW l \in Logins, TypeOK', OthersSame(l), FitsAt(l)',
         UNCHANGED <<codes, game>>,
         store'[l] # store[l] => store[l] = "none"
  PROVE  LoginInv'
<1>1. ASSUME NEW k \in Logins PROVE FitsAt(k)'
  <2>1. CASE k = l
    BY <2>1
  <2>2. CASE k # l
    BY <2>2, InvParts DEF FitsAt, OthersSame
  <2> QED
    BY <2>1, <2>2
<1>2. CodesFresh'
  <2>1. \A k \in Logins : store[k] = "stored" => store'[k] = "stored"
    BY DEF OthersSame
  <2> QED
    BY <2>1, InvParts DEF CodesFresh, game
<1>3. Used'
  BY InvParts DEF Used, Executing, Holders, game
<1> QED
  BY <1>1, <1>2, <1>3, InvPartsNext

LEMMA WriteCallbackKeeps ==
  ASSUME LoginInv, NEW l \in Logins, InternalWriteCallback(l)
  PROVE  LoginInv'
<1> DEFINE rest == Tail(out[l])
           sent == [sock[l] EXCEPT !.write = "idle"]
           t == IF rest # <<>> THEN AsyncWrite(sent)
                ELSE IF auth[l].closeAfterSend THEN CloseSocket(sent) ELSE sent
<1>1. sock[l] \in Sockets /\ FitsAt(l) /\ TypeOK /\ sock[l].write = "busy"
  BY InvParts DEF TypeOK, InternalWriteCallback
<1>2. out[l] \in Seq(Packets) /\ out[l] # <<>> /\ down[l] \in Seq(Packets)
  BY <1>1 DEF TypeOK, FitsAt, Fits
<1>3. rest \in Seq(Packets) /\ Append(down[l], Head(out[l])) \in Seq(Packets)
  BY <1>2, Taken, Added
<1>4. sent \in Sockets
  BY <1>1 DEF Sockets
<1>5. t \in Sockets /\ Fits(t, up[l], rest, work[l], place[l], auth[l].status, store[l])
  <2>1. CASE rest # <<>>
    <3>1. PICK w \in {"idle", "busy", "dead"} : AsyncWrite(sent) = [sent EXCEPT !.write = w]
      BY <1>4, WritingSocket
    <3> QED
      BY <1>1, <1>4, <2>1, <3>1, WritingSocket DEF FitsAt, Fits, Sockets
  <2>2. CASE rest = <<>>
    BY <1>1, <1>4, <2>2, Closing DEF FitsAt, Fits, Sockets
  <2> QED
    BY <2>1, <2>2
<1>6. /\ sock' = [sock EXCEPT ![l] = t] /\ out' = [out EXCEPT ![l] = rest]
      /\ down' \in {down, [down EXCEPT ![l] = Append(@, Head(out[l]))]}
      /\ UNCHANGED <<place, up, auth, work, database, game>>
  BY DEF InternalWriteCallback
<1> HIDE DEF rest, t
<1>7. TypeOK'
  BY <1>1, <1>3, <1>5, <1>6 DEF TypeOK, database, game
<1>8. FitsAt(l)' /\ OthersSame(l)
  BY <1>1, <1>5, <1>6 DEF FitsAt, TypeOK, database, game, OthersSame
<1> QED
  BY <1>6, <1>7, <1>8, LoginStep DEF database, game

LEMMA RemoveKeeps ==
  ASSUME LoginInv, NEW l \in Logins, Remove(l)
  PROVE  LoginInv'
<1> DEFINE t == [sock[l] EXCEPT !.listed = FALSE]
<1>1. sock[l] \in Sockets /\ FitsAt(l) /\ TypeOK /\ sock[l].state = "critical"
  BY InvParts DEF TypeOK, Remove
<1>2. t \in Sockets /\ sock' = [sock EXCEPT ![l] = t]
  BY <1>1 DEF Sockets, Remove
<1>3. New \in [status : Statuses, closeAfterSend : BOOLEAN, packets : Nat]
  BY DEF New, Statuses
<1>4. TypeOK'
  <2>1. up' \in [Logins -> Seq(Requests)] /\ out' \in [Logins -> Seq(Packets)]
    <3>1. <<>> \in Seq(Requests) /\ <<>> \in Seq(Packets)
      OBVIOUS
    <3>2. up' \in {up, [up EXCEPT ![l] = <<>>]} /\ out' \in {out, [out EXCEPT ![l] = <<>>]}
      BY DEF Remove
    <3>3. [up EXCEPT ![l] = <<>>] \in [Logins -> Seq(Requests)]
      BY <1>1, <3>1 DEF TypeOK
    <3>4. [out EXCEPT ![l] = <<>>] \in [Logins -> Seq(Packets)]
      BY <1>1, <3>1 DEF TypeOK
    <3> QED
      BY <1>1, <3>2, <3>3, <3>4 DEF TypeOK
  <2>2. auth' \in [Logins -> [status : Statuses, closeAfterSend : BOOLEAN, packets : Nat]]
    BY <1>1, <1>3 DEF Remove, TypeOK
  <2> QED
    <3>1. sock' \in [Logins -> Sockets] /\ UNCHANGED <<place, down, work, database, game>>
      BY <1>1, <1>2 DEF Remove, TypeOK
    <3> QED
      BY <1>1, <2>1, <2>2, <3>1 DEF TypeOK, database, game
<1>5. OthersSame(l) /\ UNCHANGED <<place, work, store>>
  BY <1>1, <1>2 DEF Remove, TypeOK, OthersSame, database
<1>6. FitsAt(l)'
  <2>1. sock'[l] = t /\ place'[l] = place[l] /\ work'[l] = work[l] /\ store'[l] = store[l]
    BY <1>1, <1>2, <1>5 DEF TypeOK
  <2>2. sock[l].closed /\ sock[l].write # "busy"
    BY <1>1 DEF FitsAt, Fits
  <2>3. CASE sock[l].read = "ready"
    <3>1. up'[l] = up[l] /\ out'[l] = out[l] /\ auth'[l] = auth[l]
      BY <2>3 DEF Remove
    <3> QED
      BY <1>1, <2>1, <3>1 DEF FitsAt, Fits, Sockets
  <2>4. CASE sock[l].read # "ready"
    BY <1>1, <2>1, <2>2, <2>4 DEF FitsAt, Fits, Sockets
  <2> QED
    BY <2>3, <2>4
<1> QED
  BY <1>4, <1>5, <1>6, LoginStep DEF Remove, database, game

------------------------------------------------------------------------------
(* Packets of the client.                                                  *)

Auths == [status : Statuses, closeAfterSend : BOOLEAN, packets : Nat]

\* A packet of login l leaves the socket t, the queue o, the check w and the
\* session a: the socket is not reopened, and reads on only if it is open.
Handled(l, t, o, w, a) ==
  /\ t \in Sockets /\ o \in Seq(Packets) /\ w \in Works /\ a \in Auths
  /\ sock' = [sock EXCEPT ![l] = t] /\ out' = [out EXCEPT ![l] = o]
  /\ work' = [work EXCEPT ![l] = w] /\ auth' = [auth EXCEPT ![l] = a]
  /\ t.closed = sock[l].closed /\ t.state = sock[l].state
  /\ t.shake = sock[l].shake /\ t.timedOut = sock[l].timedOut
  /\ sock[l].closing => t.closing
  /\ t.read = "none" \/ (t.read = "pending" /\ ~t.closed)
  /\ t.write = "busy" => o # <<>> /\ ~t.closed
  /\ a.status \in {"gatherInfo", "loginAttempt"} =>
       auth[l].status \in {"gatherInfo", "loginAttempt"} /\ w = work[l]
  /\ w = work[l] \/ auth[l].status \in {"gatherInfo", "loginAttempt"}
  /\ a.status = "authed" => auth[l].status = "authed"

LEMMA Same ==
  ASSUME NEW S, NEW T, NEW f \in [S -> T], NEW x \in S
  PROVE  [f EXCEPT ![x] = f[x]] = f
  OBVIOUS

\* The session that reads on.
LEMMA ReadingOn ==
  ASSUME NEW l \in Logins, sock[l] \in Sockets
  PROVE  LET r == Reading(l)
         IN  /\ r \in Sockets /\ r.closed = sock[l].closed /\ r.closing = sock[l].closing
             /\ r.state = sock[l].state /\ r.shake = sock[l].shake
             /\ r.timedOut = sock[l].timedOut /\ r.write = sock[l].write
             /\ r.read = "none" \/ (r.read = "pending" /\ ~r.closed)
<1>1. [sock[l] EXCEPT !.read = "none"] \in Sockets
  BY DEF Sockets
<1> QED
  BY <1>1, ReadingSocket DEF Reading, Sockets

LEMMA RejectHandled ==
  ASSUME LoginInv, NEW l \in Logins, NEW a \in Auths, Reject(l),
         auth' = [auth EXCEPT ![l] = a],
         a.status = "authed" => auth[l].status = "authed",
         a.status \in {"gatherInfo", "loginAttempt"} =>
           auth[l].status \in {"gatherInfo", "loginAttempt"}
  PROVE  \E t, o, w : Handled(l, t, o, w, a)
<1> DEFINE t == CloseSocket([sock[l] EXCEPT !.read = "none"])
<1>1. TypeOK /\ sock[l] \in Sockets /\ FitsAt(l) /\ out[l] \in Seq(Packets) /\ work[l] \in Works
  BY InvParts DEF TypeOK
<1>2. [out EXCEPT ![l] = out[l]] = out /\ [work EXCEPT ![l] = work[l]] = work
  BY <1>1, Same DEF TypeOK
<1>3. /\ t \in Sockets /\ t.closing /\ t.read = "none" /\ t.closed = sock[l].closed
      /\ t.state = sock[l].state /\ t.shake = sock[l].shake
      /\ t.timedOut = sock[l].timedOut /\ t.write = sock[l].write
  BY <1>1 DEF CloseSocket, Sockets
<1>4. sock' = [sock EXCEPT ![l] = t] /\ out' = out /\ work' = work
  BY DEF Reject
<1> HIDE DEF t
<1>5. Handled(l, t, out[l], work[l], a)
  BY <1>1, <1>2, <1>3, <1>4 DEF Handled, FitsAt, Fits
<1> QED
  BY <1>5

LEMMA QueueHandled ==
  ASSUME LoginInv, NEW l \in Logins, NEW a \in Auths, NEW kind \in Packets,
         QueuePacket(l, kind, Reading(l)), UNCHANGED work,
         auth' = [auth EXCEPT ![l] = a],
         a.status = "authed" => auth[l].status = "authed",
         a.status \in {"gatherInfo", "loginAttempt"} =>
           auth[l].status \in {"gatherInfo", "loginAttempt"}
  PROVE  \E t, o, w : Handled(l, t, o, w, a)
<1> DEFINE r == Reading(l)
           o == Append(out[l], kind)
<1>1. TypeOK /\ sock[l] \in Sockets /\ FitsAt(l) /\ out[l] \in Seq(Packets) /\ work[l] \in Works
  BY InvParts DEF TypeOK
<1>2. [work EXCEPT ![l] = work[l]] = work
  BY <1>1, Same DEF TypeOK
<1>3. o \in Seq(Packets) /\ o # <<>>
  BY <1>1, Added
<1>4. /\ r \in Sockets /\ r.closed = sock[l].closed /\ r.closing = sock[l].closing
      /\ r.state = sock[l].state /\ r.shake = sock[l].shake
      /\ r.timedOut = sock[l].timedOut /\ r.write = sock[l].write
      /\ r.read = "none" \/ (r.read = "pending" /\ ~r.closed)
  BY <1>1, ReadingOn
<1>5. sock' = [sock EXCEPT ![l] = AsyncWrite(r)] /\ out' = [out EXCEPT ![l] = o]
  BY DEF QueuePacket
<1> HIDE DEF r, o
<1>6. PICK w \in {"idle", "busy", "dead"} : AsyncWrite(r) = [r EXCEPT !.write = w]
  BY <1>4, WritingSocket
<1>7. AsyncWrite(r) \in Sockets /\ (AsyncWrite(r).write = "busy" => ~r.closed)
  BY <1>1, <1>4, WritingSocket DEF FitsAt, Fits
<1>8. Handled(l, AsyncWrite(r), o, work[l], a)
  BY <1>1, <1>2, <1>3, <1>4, <1>5, <1>6, <1>7 DEF Handled, Sockets
<1> QED
  BY <1>8

LEMMA PacketHandled ==
  ASSUME LoginInv, NEW l \in Logins, sock[l].read = "ready", AsyncReadCallback(l)
  PROVE  \E t, o, w, b : Handled(l, t, o, w, b)
<1> DEFINE a == [auth[l] EXCEPT !.packets = @ + 1]
<1>1. /\ TypeOK /\ auth[l] \in Auths /\ work[l] \in Works /\ sock[l] \in Sockets
      /\ out[l] \in Seq(Packets) /\ FitsAt(l)
  BY InvParts DEF TypeOK, Auths
<1>2. a \in Auths /\ a.status = auth[l].status
  BY <1>1 DEF Auths
<1>3. CASE Reject(l) /\ UNCHANGED auth
  <2>1. auth' = [auth EXCEPT ![l] = auth[l]]
    BY <1>1, <1>3, Same DEF TypeOK
  <2> QED
    BY <1>1, <1>3, <2>1, RejectHandled
<1>4. CASE HandleAuthLoginGatherInfoPacket(l, a) /\ auth[l].status = "gatherInfo"
  <2>1. ASSUME NEW s \in {a.status, "loginAttempt"}
        PROVE  [a EXCEPT !.status = s] \in Auths /\ [a EXCEPT !.status = s].status = s
    BY <1>2 DEF Auths, Statuses
  <2>2. /\ [a EXCEPT !.closeAfterSend = TRUE] \in Auths
        /\ [a EXCEPT !.closeAfterSend = TRUE].status = a.status
    BY <1>2 DEF Auths
  <2>3. "wrongVersion" \in Packets /\ "challenge" \in Packets
    BY DEF Packets
  <2> HIDE DEF a
  <2>4. CASE /\ Reject(l)
             /\ \E s \in {a.status, "loginAttempt"} :
                  auth' = [auth EXCEPT ![l] = [a EXCEPT !.status = s]]
    BY <1>2, <1>4, <2>1, <2>4, RejectHandled
  <2>5. CASE /\ auth' = [auth EXCEPT ![l] = [a EXCEPT !.closeAfterSend = TRUE]]
             /\ QueuePacket(l, "wrongVersion", Reading(l)) /\ UNCHANGED work
    BY <1>2, <1>4, <2>2, <2>3, <2>5, QueueHandled
  <2>6. CASE /\ auth' = [auth EXCEPT ![l] = [a EXCEPT !.status = "loginAttempt"]]
             /\ QueuePacket(l, "challenge", Reading(l)) /\ UNCHANGED work
    BY <1>4, <2>1, <2>3, <2>6, QueueHandled
  <2> QED
    BY <1>4, <2>4, <2>5, <2>6 DEF HandleAuthLoginGatherInfoPacket
<1>5. CASE HandleAuthLoginProofPacket(l, a) /\ auth[l].status = "loginAttempt"
  <2> DEFINE p == [a EXCEPT !.status = "pending"]
             q == [a EXCEPT !.status = "pending", !.closeAfterSend = TRUE]
  <2>1. p \in Auths /\ q \in Auths /\ p.status = "pending" /\ q.status = "pending"
    BY <1>2 DEF Auths, Statuses
  <2>2. CASE Reject(l) /\ auth' = [auth EXCEPT ![l] = a]
    BY <1>2, <1>5, <2>2, RejectHandled
  <2>3. CASE /\ auth' = [auth EXCEPT ![l] = q]
             /\ QueuePacket(l, "failed", Reading(l)) /\ UNCHANGED work
    <3>1. "failed" \in Packets
      BY DEF Packets
    <3> QED
      BY <1>5, <2>1, <2>3, <3>1, QueueHandled
  <2>4. CASE /\ auth' = [auth EXCEPT ![l] = p] /\ work' = [work EXCEPT ![l] = "query"]
             /\ sock' = [sock EXCEPT ![l] = Reading(l)] /\ UNCHANGED out
    <3>1. out' = [out EXCEPT ![l] = out[l]] /\ "query" \in Works
      BY <1>1, <2>4, Same DEF TypeOK, Works
    <3>2. Handled(l, Reading(l), out[l], "query", p)
      BY <1>1, <1>5, <2>1, <2>4, <3>1, ReadingOn DEF Handled, FitsAt, Fits
    <3> QED
      BY <3>2
  <2>5. CASE Reject(l) /\ auth' = [auth EXCEPT ![l] = p]
    BY <1>5, <2>1, <2>5, RejectHandled
  <2> QED
    BY <1>5, <2>2, <2>3, <2>4, <2>5 DEF HandleAuthLoginProofPacket
<1>6. CASE HandleGatherRealmlistPacket(l, a)
  <2> DEFINE b == [a EXCEPT !.status = "realmPending", !.closeAfterSend = TRUE]
  <2>1. b \in Auths /\ b.status = "realmPending"
    BY <1>2 DEF Auths, Statuses
  <2>2. PICK kind \in Packets : QueuePacket(l, kind, Reading(l))
    BY <1>6 DEF HandleGatherRealmlistPacket, Packets
  <2>3. auth' = [auth EXCEPT ![l] = b] /\ UNCHANGED work
    BY <1>6 DEF HandleGatherRealmlistPacket
  <2> QED
    BY <2>1, <2>2, <2>3, QueueHandled
<1> QED
  BY <1>3, <1>4, <1>5, <1>6 DEF AsyncReadCallback, Expected

LEMMA ReadCallbackKeeps ==
  ASSUME LoginInv, NEW l \in Logins, AsyncReadCallback(l)
  PROVE  LoginInv'
<1>1. TypeOK /\ FitsAt(l) /\ sock[l].read = "ready" /\ up[l] # <<>>
  BY InvParts DEF FitsAt, Fits, AsyncReadCallback
<1>2. PICK t, o, w, b : Handled(l, t, o, w, b)
  BY <1>1, PacketHandled
<1>3. /\ up' = [up EXCEPT ![l] = Tail(up[l])]
      /\ UNCHANGED <<place, down, database, game>>
  BY DEF AsyncReadCallback
<1>4. Tail(up[l]) \in Seq(Requests)
  BY <1>1, Taken DEF TypeOK
<1>5. TypeOK'
  BY <1>1, <1>2, <1>3, <1>4 DEF TypeOK, Handled, Auths, database, game
<1>6. OthersSame(l)
  BY <1>1, <1>2, <1>3 DEF TypeOK, Handled, OthersSame, database
<1>7. Fits(t, Tail(up[l]), o, w, place[l], b.status, store[l])
  BY <1>1, <1>2 DEF Handled, FitsAt, Fits
<1>8. FitsAt(l)'
  <2>1. /\ sock'[l] = t /\ up'[l] = Tail(up[l]) /\ out'[l] = o /\ work'[l] = w
        /\ place'[l] = place[l] /\ auth'[l] = b /\ store'[l] = store[l]
    BY <1>1, <1>2, <1>3 DEF TypeOK, Handled, database
  <2> QED
    BY <1>7, <2>1 DEF FitsAt
<1> QED
  BY <1>3, <1>5, <1>6, <1>8, LoginStep DEF database, game

------------------------------------------------------------------------------
(* The check of the password and the stored login.                         *)

LEMMA WorkKeeps ==
  ASSUME LoginInv, NEW l \in Logins, ExecuteCheck(l) \/ VerifyHash(l)
  PROVE  LoginInv'
<1>1. TypeOK /\ FitsAt(l) /\ work[l] # "none"
  BY InvParts DEF ExecuteCheck, VerifyHash
<1>2. PICK w \in Works : work' = [work EXCEPT ![l] = w]
  BY DEF ExecuteCheck, VerifyHash, Works
<1>3. UNCHANGED <<place, link, session, database, game>>
  BY DEF ExecuteCheck, VerifyHash
<1>4. TypeOK'
  BY <1>1, <1>2, <1>3 DEF TypeOK, link, session, database, game
<1>5. OthersSame(l) /\ FitsAt(l)'
  BY <1>1, <1>2, <1>3 DEF TypeOK, OthersSame, FitsAt, Fits, link, session, database
<1> QED
  BY <1>3, <1>4, <1>5, LoginStep DEF database, game

LEMMA CheckCallbackKeeps ==
  ASSUME LoginInv, NEW l \in Logins, DBCallback_AuthLoginProofPacket(l)
  PROVE  LoginInv'
<1>1. TypeOK /\ FitsAt(l) /\ work[l] # "none" /\ sock[l] \in Sockets
  BY InvParts DEF DBCallback_AuthLoginProofPacket, TypeOK
<1>2. PICK w \in Works : work' = [work EXCEPT ![l] = w]
  BY DEF DBCallback_AuthLoginProofPacket, Works
<1>3. UNCHANGED <<place, link, auth, out, database, game>>
  BY DEF DBCallback_AuthLoginProofPacket
<1>4. PICK t \in {sock[l], CloseSocket(sock[l])} : sock' = [sock EXCEPT ![l] = t]
  BY <1>1, Same DEF DBCallback_AuthLoginProofPacket, TypeOK
<1>5. t \in Sockets /\ (t = sock[l] \/ t = [sock[l] EXCEPT !.closing = TRUE])
  BY <1>1, Closing
<1>6. TypeOK'
  BY <1>1, <1>2, <1>3, <1>4, <1>5 DEF TypeOK, link, database, game
<1>7. Fits(t, up[l], out[l], w, place[l], auth[l].status, store[l])
  BY <1>1, <1>5 DEF FitsAt, Fits, Sockets
<1>8. OthersSame(l) /\ FitsAt(l)'
  BY <1>1, <1>2, <1>3, <1>4, <1>7 DEF TypeOK, OthersSame, FitsAt, link, database
<1> QED
  BY <1>3, <1>6, <1>8, LoginStep DEF database, game

\* The result of a hash leaves the socket t, the queue o, the session b and the
\* transaction x.
Resulted(l, t, o, b, x) ==
  /\ t \in Sockets /\ o \in Seq(Packets) /\ b \in Auths
  /\ x \in {"none", "queued", "stored", "failed"}
  /\ sock' = [sock EXCEPT ![l] = t] /\ out' = [out EXCEPT ![l] = o]
  /\ auth' = [auth EXCEPT ![l] = b] /\ store' = [store EXCEPT ![l] = x]
  /\ Fits(t, up[l], o, "none", place[l], b.status, x)

LEMMA ResultQueued ==
  ASSUME LoginInv, NEW l \in Logins, work[l] # "none", IsOpen(sock[l]),
         NEW kind \in Packets, NEW b \in Auths, NEW x \in {"none", "queued"},
         QueuePacket(l, kind, sock[l]), auth' = [auth EXCEPT ![l] = b],
         store' = [store EXCEPT ![l] = x],
         b.status \notin {"gatherInfo", "loginAttempt"}
  PROVE  \E t, o, d, y : Resulted(l, t, o, d, y)
<1> DEFINE o == Append(out[l], kind)
<1>1. sock[l] \in Sockets /\ FitsAt(l) /\ out[l] \in Seq(Packets)
  BY InvParts DEF TypeOK
<1>2. o \in Seq(Packets) /\ o # <<>>
  BY <1>1, Added
<1>3. sock' = [sock EXCEPT ![l] = AsyncWrite(sock[l])] /\ out' = [out EXCEPT ![l] = o]
  BY DEF QueuePacket
<1>4. PICK w \in {"idle", "busy", "dead"} : AsyncWrite(sock[l]) = [sock[l] EXCEPT !.write = w]
  BY <1>1, WritingSocket
<1>5. AsyncWrite(sock[l]) \in Sockets /\ ~sock[l].closed
  BY <1>1, WritingSocket DEF IsOpen
<1> HIDE DEF o
<1>6. Fits(AsyncWrite(sock[l]), up[l], o, "none", place[l], b.status, x)
  BY <1>1, <1>2, <1>4, <1>5 DEF FitsAt, Fits, Sockets
<1>7. Resulted(l, AsyncWrite(sock[l]), o, b, x)
  BY <1>2, <1>3, <1>5, <1>6 DEF Resulted
<1> QED
  BY <1>7

LEMMA HashResultKeeps ==
  ASSUME LoginInv, NEW l \in Logins, HashResult(l)
  PROVE  LoginInv'
<1>1. TypeOK /\ FitsAt(l) /\ work[l] # "none" /\ sock[l] \in Sockets /\ auth[l] \in Auths
  BY InvParts DEF HashResult, TypeOK, Auths
<1>2. out[l] \in Seq(Packets) /\ store[l] = "none"
  BY <1>1 DEF TypeOK, FitsAt, Fits
<1>3. /\ work' = [work EXCEPT ![l] = "none"] /\ "none" \in Works
      /\ UNCHANGED <<place, link, rows, codes, game>>
  BY DEF HashResult, Works
<1>4. CASE ~IsOpen(sock[l]) /\ UNCHANGED <<session, store>>
  <2>1. TypeOK'
    BY <1>1, <1>3, <1>4 DEF TypeOK, link, session, game
  <2>2. OthersSame(l) /\ FitsAt(l)'
    BY <1>1, <1>3, <1>4 DEF TypeOK, OthersSame, FitsAt, Fits, link, session
  <2> QED
    BY <1>3, <1>4, <2>1, <2>2, LoginStep DEF game
<1>5. CASE IsOpen(sock[l]) /\ HandlePasswordHashResult(l)
  <2> DEFINE b == [auth[l] EXCEPT !.status = "authed"]
             c == [auth[l] EXCEPT !.closeAfterSend = TRUE]
             t == CloseSocket(sock[l])
  <2>1. /\ "failed" \in Packets /\ "success" \in Packets
        /\ b \in Auths /\ b.status = "authed" /\ c \in Auths /\ c.status = auth[l].status
    BY <1>1 DEF Packets, Auths, Statuses
  <2>2. auth[l].status \notin {"gatherInfo", "loginAttempt"}
    BY <1>1, <1>5 DEF FitsAt, Fits, IsOpen
  <2>3. store = [store EXCEPT ![l] = "none"] /\ out = [out EXCEPT ![l] = out[l]]
    BY <1>1, <1>2 DEF TypeOK
  <2>4. t \in Sockets /\ Fits(t, up[l], out[l], "none", place[l], "authed", "none")
    BY <1>1, <1>5, Closing DEF FitsAt, Fits, Sockets, IsOpen
  <2>5. \/ QueuePacket(l, "failed", sock[l]) /\ auth' = [auth EXCEPT ![l] = c] /\ store' = store
        \/ /\ QueuePacket(l, "success", sock[l]) /\ auth' = [auth EXCEPT ![l] = b]
           /\ store' = [store EXCEPT ![l] = "queued"]
        \/ /\ sock' = [sock EXCEPT ![l] = t] /\ auth' = [auth EXCEPT ![l] = b]
           /\ out' = out /\ store' = store
    BY <1>5 DEF HandlePasswordHashResult
  <2> HIDE DEF b, c, t
  <2>6. ASSUME QueuePacket(l, "failed", sock[l]), auth' = [auth EXCEPT ![l] = c],
               store' = store
        PROVE  \E s, o, d, x : Resulted(l, s, o, d, x)
    BY <1>1, <1>5, <2>1, <2>2, <2>3, <2>6, ResultQueued
  <2>7. ASSUME QueuePacket(l, "success", sock[l]), auth' = [auth EXCEPT ![l] = b],
               store' = [store EXCEPT ![l] = "queued"]
        PROVE  \E s, o, d, x : Resulted(l, s, o, d, x)
    BY <1>1, <1>5, <2>1, <2>7, ResultQueued
  <2>8. ASSUME sock' = [sock EXCEPT ![l] = t], auth' = [auth EXCEPT ![l] = b],
               out' = out, store' = store
        PROVE  \E s, o, d, x : Resulted(l, s, o, d, x)
    <3>1. Resulted(l, t, out[l], b, "none")
      BY <1>2, <2>1, <2>3, <2>4, <2>8 DEF Resulted
    <3> QED
      BY <3>1
  <2>9. PICK s, o, d, x : Resulted(l, s, o, d, x)
    BY <2>5, <2>6, <2>7, <2>8
  <2>10. TypeOK'
    BY <1>1, <1>3, <2>9 DEF Resulted, TypeOK, Auths, link, game
  <2>11. OthersSame(l) /\ FitsAt(l)'
    BY <1>1, <1>3, <2>9 DEF Resulted, TypeOK, OthersSame, FitsAt, link
  <2> QED
    BY <1>2, <1>3, <2>10, <2>11, LoginStep DEF game
<1> QED
  BY <1>4, <1>5 DEF HashResult

\* The transaction makes a greetcode that nobody has looked up.
LEMMA StoreKeeps ==
  ASSUME LoginInv, NEW l \in Logins, ExecuteStore(l)
  PROVE  LoginInv'
<1>1. TypeOK /\ store[l] = "queued" /\ UNCHANGED <<place, link, session, work, game>>
  BY InvParts DEF ExecuteStore
<1>2. PICK x \in {"stored", "failed"} :
        /\ store' = [store EXCEPT ![l] = x]
        /\ x = "stored" => /\ rows' = [rows EXCEPT ![AccountOf[l]] = l]
                           /\ codes' = (codes \ {rows[AccountOf[l]]}) \cup {l}
        /\ x = "failed" => UNCHANGED <<rows, codes>>
  BY DEF ExecuteStore
<1>3. TypeOK'
  BY <1>1, <1>2 DEF TypeOK, link, session, game
<1>4. ASSUME NEW k \in Logins PROVE FitsAt(k)'
  BY <1>1, <1>2, InvParts DEF TypeOK, FitsAt, Fits, link, session
<1>5. l \notin codes /\ \A v \in found : guest[v] # l
  BY <1>1, InvParts DEF CodesFresh
<1>6. /\ \A k \in Logins : store[k] = "stored" => store'[k] = "stored"
      /\ store'[l] = x /\ codes' \subseteq codes \cup {l}
      /\ l \in codes' => x = "stored"
  BY <1>1, <1>2, <1>5 DEF TypeOK
<1>7. CodesFresh'
  BY <1>1, <1>5, <1>6, InvParts DEF CodesFresh, game
<1>8. Used'
  BY <1>1, InvParts DEF Used, Executing, Holders, game
<1> QED
  BY <1>3, <1>4, <1>7, <1>8, InvPartsNext

------------------------------------------------------------------------------
(* The client and the world server.                                        *)

LEMMA SentType ==
  ASSUME TypeOK, NEW l \in Logins, NEW kind \in Requests, Send(l, kind)
  PROVE  /\ up' \in [Logins -> Seq(Requests)] /\ \A k \in Logins \ {l} : up'[k] = up[k]
         /\ up[l] # <<>> => up'[l] # <<>>
<1>1. up[l] \in Seq(Requests) /\ up \in [Logins -> Seq(Requests)]
  BY DEF TypeOK
<1>2. Append(up[l], kind) \in Seq(Requests) /\ Append(up[l], kind) # <<>>
  BY <1>1, Added
<1> QED
  BY <1>1, <1>2 DEF Send

LEMMA ConnectKeeps ==
  ASSUME LoginInv, NEW l \in Logins, ConnectToAuthServer(l)
  PROVE  LoginInv'
<1> DEFINE t == [sock[l] EXCEPT !.state = "default", !.listed = TRUE]
<1>1. TypeOK /\ FitsAt(l) /\ sock[l] \in Sockets /\ sock[l].state = "none"
  BY InvParts DEF TypeOK, FitsAt, Fits, ConnectToAuthServer
<1>2. t \in Sockets /\ Fits(t, up[l], out[l], work[l], "shaking", auth[l].status, store[l])
  BY <1>1 DEF FitsAt, Fits, Sockets
<1>3. /\ sock' = [sock EXCEPT ![l] = t] /\ place' = [place EXCEPT ![l] = "shaking"]
      /\ UNCHANGED <<link, auth, out, work, database, game>>
  BY DEF ConnectToAuthServer
<1> HIDE DEF t
<1>4. TypeOK'
  BY <1>1, <1>2, <1>3 DEF TypeOK, link, database, game
<1>5. OthersSame(l) /\ FitsAt(l)'
  BY <1>1, <1>2, <1>3 DEF TypeOK, OthersSame, FitsAt, link, database
<1> QED
  BY <1>3, <1>4, <1>5, LoginStep DEF database, game

LEMMA HandshakeKeeps ==
  ASSUME LoginInv, NEW l \in Logins, TLSPerformHandshake(l)
  PROVE  LoginInv'
<1> DEFINE t == [sock[l] EXCEPT !.shake = "done"]
<1>1. TypeOK /\ FitsAt(l) /\ sock[l] \in Sockets /\ sock[l].shake = "pending" /\ place[l] # "off"
  BY InvParts DEF TypeOK, TLSPerformHandshake
<1>2. t \in Sockets
  BY <1>1 DEF Sockets
<1>3. /\ sock' = [sock EXCEPT ![l] = t] /\ place' = [place EXCEPT ![l] = "gatherInfo"]
      /\ Send(l, "info") /\ UNCHANGED <<down, auth, out, work, database, game>>
  BY DEF TLSPerformHandshake
<1>4. /\ up' \in [Logins -> Seq(Requests)] /\ (\A k \in Logins \ {l} : up'[k] = up[k])
      /\ (up[l] # <<>> => up'[l] # <<>>)
  BY <1>1, <1>3, SentType DEF Requests
<1>5. Fits(t, up'[l], out[l], work[l], "gatherInfo", auth[l].status, store[l])
  BY <1>1, <1>4 DEF FitsAt, Fits, Sockets
<1>6. TypeOK'
  BY <1>1, <1>2, <1>3, <1>4 DEF TypeOK, Answers, database, game
<1> HIDE DEF t
<1>7. OthersSame(l) /\ FitsAt(l)'
  BY <1>1, <1>3, <1>4, <1>5 DEF TypeOK, OthersSame, FitsAt, database
<1> QED
  BY <1>3, <1>6, <1>7, LoginStep DEF database, game

LEMMA ClientKeeps ==
  ASSUME LoginInv, NEW l \in Logins, ClientReceives(l) \/ OnDisconnect(l)
  PROVE  LoginInv'
<1>1. TypeOK /\ FitsAt(l) /\ place[l] # "off"
  BY InvParts DEF ClientReceives, OnDisconnect, Answers
<1>2. UNCHANGED <<session, work, database, game>>
  BY DEF ClientReceives, OnDisconnect
<1>3. PICK p \in {"loginAttempt", "authed", "done", "lost"} : place' = [place EXCEPT ![l] = p]
  BY DEF ClientReceives, OnDisconnect
<1>4. /\ up' \in [Logins -> Seq(Requests)] /\ (\A k \in Logins \ {l} : up'[k] = up[k])
      /\ (up[l] # <<>> => up'[l] # <<>>)
  <2>1. up' = up \/ Send(l, "proof") \/ Send(l, "realms")
    BY DEF ClientReceives, OnDisconnect
  <2>2. "proof" \in Requests /\ "realms" \in Requests
    BY DEF Requests
  <2>3. CASE up' = up
    BY <1>1, <2>3 DEF TypeOK
  <2> QED
    BY <1>1, <2>1, <2>2, <2>3, SentType
<1>5. down' \in [Logins -> Seq(Packets)]
  <2>1. \/ down' = [down EXCEPT ![l] = <<>>]
        \/ down[l] # <<>> /\ down' = [down EXCEPT ![l] = Tail(@)]
    BY DEF ClientReceives, OnDisconnect
  <2>2. down \in [Logins -> Seq(Packets)] /\ down[l] \in Seq(Packets) /\ <<>> \in Seq(Packets)
    BY <1>1 DEF TypeOK
  <2>3. down[l] # <<>> => Tail(down[l]) \in Seq(Packets)
    BY <2>2, Taken
  <2> QED
    BY <2>1, <2>2, <2>3
<1>6. TypeOK'
  BY <1>1, <1>2, <1>3, <1>4, <1>5 DEF TypeOK, Answers, session, database, game
<1>7. OthersSame(l) /\ FitsAt(l)'
  BY <1>1, <1>2, <1>3, <1>4 DEF TypeOK, OthersSame, FitsAt, Fits, session, database
<1> QED
  BY <1>2, <1>6, <1>7, LoginStep DEF database, game

\* The visits are finitely many, and so are those of each kind.
LEMMA FiniteVisits ==
  ASSUME NEW S \in SUBSET Visits, NEW T \in SUBSET S
  PROVE  IsFiniteSet(S) /\ Cardinality(S) \in Nat /\ Cardinality(T) <= Cardinality(S)
<1>1. IsFiniteSet(Visits)
  BY CountsAssumption, FS_Interval DEF Visits
<1> QED
  BY <1>1, FS_Subset, FS_CardinalityType

\* A step that changes only what is known of visits.
OfVisits == UNCHANGED <<place, link, session, work, store, rows>>

LEMMA VisitsApart ==
  ASSUME NEW v \in Visits, World(v) \/ \E l \in Logins : ConnectToWorldServer(l, v)
  PROVE  OfVisits
  BY DEF World, LookupSelect, LookupCommit, Commit, LookupFails, LookupSkipped,
     DBCallback_GreetcodeLookup, LeaveWorldServer, ConnectToWorldServer, OfVisits, database

LEMMA VisitStep ==
  ASSUME LoginInv, OfVisits, CodesFresh', Used',
         guest' \in [Visits -> Logins \cup {NoLogin}],
         world' \in [Visits -> {"none", "asked", "in", "gone"}],
         look' \in [Visits -> Lookups], found' \subseteq Visits, codes' \subseteq Logins
  PROVE  LoginInv'
<1>1. TypeOK'
  BY InvParts DEF TypeOK, OfVisits, link, session
<1>2. ASSUME NEW k \in Logins PROVE FitsAt(k)'
  BY InvParts DEF FitsAt, OfVisits, link, session
<1> QED
  BY <1>1, <1>2, InvPartsNext

\* A new visit holds nothing yet.
LEMMA VisitKeeps ==
  ASSUME LoginInv, NEW l \in Logins, NEW v \in Visits, ConnectToWorldServer(l, v)
  PROVE  LoginInv'
<1>1. TypeOK /\ CodesFresh /\ Used
  BY InvParts
<1>2. guest[v] = NoLogin /\ OfVisits /\ UNCHANGED <<codes, found>>
  BY DEF ConnectToWorldServer, OfVisits, database
<1>3. v \notin found /\ look[v] = "none"
  BY <1>1, <1>2, NoLoginAssumption DEF CodesFresh
<1>4. /\ guest' = [guest EXCEPT ![v] = l] /\ world' = [world EXCEPT ![v] = "asked"]
      /\ look' = [look EXCEPT ![v] = "queued"] /\ "queued" \in Lookups
  BY DEF ConnectToWorldServer, Lookups
<1>5. CodesFresh'
  BY <1>1, <1>2, <1>3, <1>4 DEF CodesFresh, TypeOK, OfVisits
<1>6. Executing' = Executing /\ \A k \in Logins : Holders(k)' = Holders(k)
  BY <1>1, <1>2, <1>3, <1>4 DEF Executing, Holders, TypeOK
<1>7. Used'
  BY <1>1, <1>6 DEF Used
<1> QED
  BY <1>1, <1>2, <1>4, <1>5, <1>7, VisitStep DEF TypeOK

\* One element more than fewer than n.
LEMMA OneMore ==
  ASSUME NEW S, NEW x, IsFiniteSet(S), NEW n \in Nat, Cardinality(S) < n
  PROVE  Cardinality(S \cup {x}) <= n
<1>1. Cardinality(S) \in Nat
  BY FS_CardinalityType
<1>2. Cardinality(S \cup {x}) \in {Cardinality(S), Cardinality(S) + 1}
  BY FS_AddElement
<1> QED
  BY <1>1, <1>2

\* A SELECT that finds the greetcode finds nobody who has used it: all that
\* hold it are under way, each with a worker.
LEMMA SelectKeeps ==
  ASSUME LoginInv, NEW v \in Visits, LookupSelect(v)
  PROVE  LoginInv'
<1>1. TypeOK /\ CodesFresh /\ Used
  BY InvParts
<1>2. /\ look[v] = "queued" /\ Cardinality(Executing) < LoginWorkers
      /\ OfVisits /\ UNCHANGED <<codes, guest, world, found>>
  BY DEF LookupSelect, OfVisits, database
<1>3. PICK x \in {"read", "empty"} :
        look' = [look EXCEPT ![v] = x] /\ (x = "read" => guest[v] \in codes)
  BY DEF LookupSelect
<1>4. look' \in [Visits -> Lookups]
  BY <1>1, <1>3 DEF TypeOK, Lookups
<1>5. CodesFresh'
  BY <1>1, <1>2, <1>3 DEF CodesFresh, TypeOK, OfVisits
<1>6. Executing' = Executing \cup {v} /\ Executing \subseteq Visits
  BY <1>1, <1>3 DEF Executing, TypeOK
<1>7. IsFiniteSet(Executing) /\ Cardinality(Executing) \in Nat
  BY <1>6, FiniteVisits
<1>8. Cardinality(Executing') <= LoginWorkers
  <2>1. Cardinality(Executing \cup {v}) <= LoginWorkers
    BY <1>2, <1>7, OneMore, WorkersAssumption
  <2> QED
    BY <1>6, <2>1
<1>9. ASSUME NEW k \in Logins PROVE Cardinality(Holders(k)') <= LoginWorkers
  <2>1. CASE x = "read" /\ guest[v] = k
    <3>1. Holders(k)' \subseteq Executing' /\ Executing' \subseteq Visits
      BY <1>1, <1>2, <1>3, <2>1 DEF Holders, Executing, CodesFresh, TypeOK
    <3> QED
      BY <1>8, <3>1, FiniteVisits, WorkersAssumption
  <2>2. CASE ~ (x = "read" /\ guest[v] = k)
    <3>1. Holders(k)' = Holders(k)
      BY <1>1, <1>2, <1>3, <2>2 DEF Holders, TypeOK
    <3> QED
      BY <1>1, <3>1 DEF Used
  <2> QED
    BY <2>1, <2>2
<1>10. Used'
  BY <1>8, <1>9 DEF Used
<1> QED
  BY <1>1, <1>2, <1>4, <1>5, <1>10, VisitStep DEF TypeOK

\* A step that lets nobody hold a greetcode who did not, and begins no lookup.
LEMMA FewerHold ==
  ASSUME LoginInv, UNCHANGED guest, NEW y \in Lookups, NEW v \in Visits,
         look' = [look EXCEPT ![v] = y], y \notin {"read", "empty"},
         found' \subseteq found \cup (IF look[v] = "read" THEN {v} ELSE {})
  PROVE  Used'
<1>1. TypeOK /\ Used
  BY InvParts
<1>2. Executing' \subseteq Executing /\ Executing \subseteq Visits
  BY <1>1 DEF Executing, TypeOK
<1>3. Cardinality(Executing') <= LoginWorkers
  BY <1>1, <1>2, FiniteVisits, WorkersAssumption DEF Used
<1>4. ASSUME NEW k \in Logins PROVE Cardinality(Holders(k)') <= LoginWorkers
  <2>1. Holders(k)' \subseteq Holders(k) /\ Holders(k) \subseteq Visits
    BY <1>1 DEF Holders, TypeOK
  <2> QED
    BY <1>1, <2>1, FiniteVisits, WorkersAssumption DEF Used
<1> QED
  BY <1>3, <1>4 DEF Used

LEMMA LookupEndKeeps ==
  ASSUME LoginInv, NEW v \in Visits, LookupCommit(v) \/ LookupFails(v) \/ LookupSkipped(v)
  PROVE  LoginInv'
<1>1. TypeOK /\ CodesFresh
  BY InvParts
<1>2. OfVisits /\ UNCHANGED <<guest, world>>
  BY DEF LookupCommit, Commit, LookupFails, LookupSkipped, OfVisits, database
<1>3. look[v] \in {"queued", "read", "empty"} /\ guest[v] \in Logins
  BY <1>1 DEF LookupCommit, LookupFails, LookupSkipped, Executing, CodesFresh
<1>4. PICK y \in {"found", "missing", "error", "none"} :
        /\ look' = [look EXCEPT ![v] = y]
        /\ codes' \in {codes, codes \ {guest[v]}}
        /\ \/ y # "found" /\ found' = found
           \/ /\ y = "found" /\ look[v] = "read" /\ found' = found \cup {v}
              /\ codes' = codes \ {guest[v]}
  BY <1>3 DEF LookupCommit, Commit, LookupFails, LookupSkipped, Executing, database
<1>5. y \in Lookups /\ y \notin {"read", "empty"}
  BY DEF Lookups
<1>6. look' \in [Visits -> Lookups] /\ found' \subseteq Visits /\ codes' \subseteq Logins
  BY <1>1, <1>4, <1>5 DEF TypeOK
<1>7. Used'
  BY <1>2, <1>4, <1>5, FewerHold
<1>8. CodesFresh'
  BY <1>1, <1>2, <1>3, <1>4 DEF CodesFresh, TypeOK, OfVisits
<1> QED
  BY <1>1, <1>2, <1>6, <1>7, <1>8, VisitStep DEF TypeOK

LEMMA VisitEndKeeps ==
  ASSUME LoginInv, NEW v \in Visits, DBCallback_GreetcodeLookup(v) \/ LeaveWorldServer(v)
  PROVE  LoginInv'
<1>1. TypeOK /\ CodesFresh
  BY InvParts
<1>2. OfVisits /\ UNCHANGED <<guest, found, codes>>
  BY DEF DBCallback_GreetcodeLookup, LeaveWorldServer, OfVisits, database
<1>3. PICK w \in {"in", "gone"} :
        /\ world' = world \/ world' = [world EXCEPT ![v] = w]
        /\ w = "in" => look[v] = "found"
  BY DEF DBCallback_GreetcodeLookup, LeaveWorldServer
<1>4. PICK y \in {look[v], "none"} : look' = [look EXCEPT ![v] = y]
  BY <1>1 DEF DBCallback_GreetcodeLookup, LeaveWorldServer, TypeOK
<1>5. world' \in [Visits -> {"none", "asked", "in", "gone"}] /\ look' \in [Visits -> Lookups]
  BY <1>1, <1>3, <1>4 DEF TypeOK, Lookups
<1>6. CodesFresh'
  BY <1>1, <1>2, <1>3, <1>4 DEF CodesFresh, TypeOK, OfVisits
<1>7. Used'
  <2>1. CASE y = "none"
    BY <1>2, <1>4, <2>1, FewerHold DEF Lookups
  <2>2. CASE y = look[v]
    <3>1. look' = look
      BY <1>1, <1>4, <2>2 DEF TypeOK
    <3> QED
      BY <1>2, <3>1, InvParts DEF Used, Executing, Holders
  <2> QED
    BY <2>1, <2>2
<1> QED
  BY <1>1, <1>2, <1>5, <1>6, <1>7, VisitStep DEF TypeOK

------------------------------------------------------------------------------
(* The theorems.                                                           *)

LEMMA InitLogin == Init => LoginInv
<1> SUFFICES ASSUME Init PROVE LoginInv
  OBVIOUS
<1>1. TypeOK
  BY DEF Init, TypeOK, Unused, New, Sockets, Statuses, Works, Lookups
<1>2. \A l \in Logins : FitsAt(l)
  BY DEF Init, FitsAt, Fits, Unused
<1>3. CodesFresh
  BY DEF Init, CodesFresh
<1>4. Used
  <2>1. Executing = {} /\ \A l \in Logins : Holders(l) = {}
    BY DEF Init, Executing, Holders
  <2> QED
    BY <2>1, FS_EmptySet, WorkersAssumption DEF Used
<1> QED
  BY <1>1, <1>2, <1>3, <1>4, InvParts

LEMMA NextLogin == LoginInv /\ [Next]_vars => LoginInv'
<1> SUFFICES ASSUME LoginInv, [Next]_vars PROVE LoginInv'
  OBVIOUS
<1>1. CASE UNCHANGED vars
  BY <1>1 DEF vars, link, session, database, game, LoginInv, TypeOK, HandlersReady,
              SocketStates, Untouched, OneCheck, CodesFresh, Executing, Holders
<1>2. ASSUME NEW l \in Logins, Socket(l) PROVE LoginInv'
  BY <1>2, ClosesKeeps, WriteCallbackKeeps, SocketHandlersKeep DEF Socket, ShutdownEnds, Deadline
<1>3. ASSUME NEW l \in Logins, Update(l) PROVE LoginInv'
  BY <1>3, SocketHandlersKeep, StartReadingKeeps, RemoveKeeps DEF Update
<1>4. ASSUME NEW l \in Logins, Check(l) PROVE LoginInv'
  BY <1>4, WorkKeeps, CheckCallbackKeeps, HashResultKeeps, StoreKeeps DEF Check
<1>5. ASSUME NEW l \in Logins, Client(l) PROVE LoginInv'
  BY <1>5, ConnectKeeps, HandshakeKeeps, ClientKeeps DEF Client
<1>6. ASSUME NEW v \in Visits, World(v) PROVE LoginInv'
  BY <1>6, SelectKeeps, LookupEndKeeps, VisitEndKeeps DEF World
<1> QED
  BY <1>1, <1>2, <1>3, <1>4, <1>5, <1>6, ReadCallbackKeeps, VisitKeeps DEF Next

\* LoginInv is an invariant of the logins.
THEOREM LoginCorrect == Spec => []LoginInv
  BY InitLogin, NextLogin, PTL DEF Spec

\* Every variable of AuthLogin keeps its type.
THEOREM TypeCorrect == Spec => []TypeOK
<1>1. LoginInv => TypeOK
  BY DEF LoginInv
<1> QED
  BY <1>1, LoginCorrect, PTL

\* For any number of logins, visits and workers: a greetcode is found by no more
\* lookups than the world server's pool has workers, however they overlap; and
\* nobody is in the world whose login was not stored.
THEOREM GreetcodeUses == Spec => []UsesBounded
<1>1. LoginInv => UsesBounded
  <2> SUFFICES ASSUME LoginInv PROVE UsesBounded
    OBVIOUS
  <2>1. TypeOK /\ CodesFresh /\ Used
    BY InvParts
  <2>2. ASSUME NEW l \in Logins
        PROVE  Cardinality({v \in found : guest[v] = l}) <= LoginWorkers
    <3>1. {v \in found : guest[v] = l} \subseteq Holders(l) /\ Holders(l) \subseteq Visits
      BY <2>1 DEF Holders, TypeOK
    <3> HIDE DEF Holders
    <3> QED
      BY <2>1, <3>1, FiniteVisits, WorkersAssumption DEF Used
  <2> QED
    BY <2>1, <2>2 DEF CodesFresh, UsesBounded
<1> QED
  BY <1>1, LoginCorrect, PTL

\* In its default configuration the world server has one worker for the login
\* database: there, "ONE USE!" holds.
THEOREM OneWorkerOneUse == LoginWorkers = 1 => (Spec => []OneUse)
<1> SUFFICES ASSUME LoginWorkers = 1 PROVE Spec => []OneUse
  OBVIOUS
<1>1. LoginInv => OneUse
  <2> SUFFICES ASSUME LoginInv, NEW u \in found, NEW v \in found, guest[u] = guest[v], u # v
               PROVE  FALSE
    BY DEF OneUse
  <2>1. TypeOK /\ CodesFresh /\ Used
    BY InvParts
  <2> DEFINE l == guest[u]
             H == Holders(l)
  <2>2. l \in Logins /\ {u, v} \subseteq H /\ H \subseteq Visits
    BY <2>1 DEF CodesFresh, TypeOK, Holders
  <2>3. IsFiniteSet({u}) /\ Cardinality({u}) = 1
    BY FS_Singleton
  <2>4. Cardinality({u} \cup {v}) = 2
    BY <2>3, FS_AddElement
  <2>5. Cardinality({u, v}) = 2
    <3>1. {u, v} = {u} \cup {v}
      OBVIOUS
    <3> QED
      BY <2>4, <3>1
  <2>6. Cardinality(H) <= 1
    BY <2>1, <2>2 DEF Used
  <2> HIDE DEF H, l
  <2>7. Cardinality({u, v}) <= Cardinality(H) /\ Cardinality(H) \in Nat
    BY <2>2, FiniteVisits
  <2> QED
    BY <2>5, <2>6, <2>7
<1> QED
  BY <1>1, LoginCorrect, PTL

\* What a step may never do to the session and the socket of login l.
StaysClosed(l) ==
  /\ sock[l].closing =>
       /\ auth'[l].status = "authed" => auth[l].status = "authed"
       /\ store'[l] = "queued" => store[l] = "queued"
  /\ sock[l].closed => sock'[l].state = "critical"

\* Only HandlePasswordHashResult makes a session authenticated or stores it.
LEMMA NotAuthed ==
  ASSUME LoginInv, [Next]_vars, NEW l \in Logins, sock[l].closing
  PROVE  /\ auth'[l].status = "authed" => auth[l].status = "authed"
         /\ store'[l] = "queued" => store[l] = "queued"
<1>1. TypeOK
  BY InvParts
<1>2. CASE UNCHANGED vars
  BY <1>2 DEF vars, session, database
<1>3. ASSUME NEW k \in Logins, Socket(k) \/ Client(k)
      PROVE  UNCHANGED <<auth, store>>
  BY <1>3 DEF Socket, ShutdownEnds, Deadline, Closes, InternalWriteCallback, WriteFails,
     ReadCompletes, ReadFails, Client, ConnectToAuthServer, TLSPerformHandshake,
     ClientReceives, OnDisconnect, session, database
<1>8. ASSUME NEW v \in Visits, World(v) \/ \E k \in Logins : ConnectToWorldServer(k, v)
      PROVE  UNCHANGED <<auth, store>>
  BY <1>8, VisitsApart DEF OfVisits, session
<1>4. ASSUME NEW k \in Logins, Update(k)
      PROVE  UNCHANGED store /\ (auth' = auth \/ auth' = [auth EXCEPT ![k] = New])
  BY <1>4 DEF Update, StartHandshake, HandshakeHandler, HandshakeFails, TimerExpires,
     HandshakeTimeoutHandler, StartReading, IdleTimeout, Remove, database
<1>5. ASSUME NEW k \in Logins, AsyncReadCallback(k)
      PROVE  /\ UNCHANGED store
             /\ auth'[l].status = "authed" => auth[l].status = "authed"
  <2>1. sock[k].read = "ready" /\ UNCHANGED store
    BY <1>5 DEF AsyncReadCallback, database
  <2>2. PICK t, o, w, a : Handled(k, t, o, w, a)
    BY <1>5, <2>1, PacketHandled
  <2> QED
    BY <1>1, <2>1, <2>2 DEF TypeOK, Handled
<1>6. ASSUME NEW k \in Logins, Check(k)
      PROVE  /\ auth'[l].status = "authed" => auth[l].status = "authed"
             /\ store'[l] = "queued" => store[l] = "queued"
  <2>1. CASE ExecuteCheck(k) \/ DBCallback_AuthLoginProofPacket(k) \/ VerifyHash(k)
    BY <2>1 DEF ExecuteCheck, DBCallback_AuthLoginProofPacket, VerifyHash, session, database
  <2>2. CASE HashResult(k)
    BY <1>1, <2>2 DEF HashResult, IsOpen, HandlePasswordHashResult, session, TypeOK
  <2>3. CASE ExecuteStore(k)
    BY <1>1, <2>3 DEF ExecuteStore, session, TypeOK
  <2> QED
    BY <1>6, <2>1, <2>2, <2>3 DEF Check
<1>7. ASSUME NEW k \in Logins, Update(k)
      PROVE  /\ auth'[l].status = "authed" => auth[l].status = "authed"
             /\ store'[l] = "queued" => store[l] = "queued"
  <2>1. CASE auth' = auth
    BY <1>4, <1>7, <2>1
  <2>2. CASE auth' = [auth EXCEPT ![k] = New]
    <3>1. New.status = "gatherInfo"
      BY DEF New
    <3>2. auth'[l] = New \/ auth'[l] = auth[l]
      BY <1>1, <2>2 DEF TypeOK
    <3> QED
      BY <1>4, <1>7, <3>1, <3>2
  <2> QED
    BY <1>4, <1>7, <2>1, <2>2
<1> QED
  BY <1>2, <1>3, <1>5, <1>6, <1>7, <1>8 DEF Next

\* A closed socket is CRITICAL_ERROR and stays closed.
LEMMA NotRevived ==
  ASSUME LoginInv, [Next]_vars, NEW l \in Logins, sock[l].closed
  PROVE  sock'[l].state = "critical"
<1>1. LoginInv'
  BY NextLogin
<1>2. sock'[l].closed => sock'[l].state = "critical"
  BY <1>1 DEF LoginInv, SocketStates
<1>3. TypeOK /\ \A k \in Logins : sock[k] \in Sockets
  BY InvParts DEF TypeOK
<1>4. ASSUME NEW k \in Logins, NEW t \in Sockets, sock' = [sock EXCEPT ![k] = t],
             sock[k].closed => t.closed
      PROVE  sock'[l].closed
  BY <1>3, <1>4 DEF TypeOK
<1>5. ASSUME UNCHANGED sock PROVE sock'[l].closed
  BY <1>5
<1>6. ASSUME NEW k \in Logins, Socket(k) PROVE sock'[l].closed
  <2>1. CASE Closes(k)
    BY <1>3, <1>4, <2>1, Forcing DEF Closes
  <2>2. CASE InternalWriteCallback(k)
    BY <1>3, <2>2, InvParts DEF InternalWriteCallback, AsyncWrite, CloseSocket, Sockets, TypeOK, IsOpen
  <2>3. CASE WriteFails(k)
    BY <1>3, <2>3 DEF WriteFails, CloseSocket, Sockets, TypeOK
  <2>4. CASE ReadCompletes(k)
    BY <1>3, <2>4 DEF ReadCompletes, CloseSocket, Sockets, TypeOK
  <2>5. CASE ReadFails(k)
    BY <1>3, <2>5 DEF ReadFails, CloseSocket, Sockets, TypeOK
  <2> QED
    BY <1>6, <2>1, <2>2, <2>3, <2>4, <2>5 DEF Socket, ShutdownEnds, Deadline
<1>7. ASSUME NEW k \in Logins, Update(k) PROVE sock'[l].closed
  <2>1. CASE StartHandshake(k)
    BY <1>3, <2>1 DEF StartHandshake, CloseSocket, Sockets, TypeOK
  <2>2. CASE HandshakeHandler(k)
    BY <1>3, <2>2 DEF HandshakeHandler, CloseSocket, Sockets, TypeOK
  <2>3. CASE HandshakeFails(k)
    BY <1>3, <2>3 DEF HandshakeFails, CloseSocket, Sockets, TypeOK
  <2>4. CASE TimerExpires(k)
    BY <1>3, <2>4 DEF TimerExpires, CloseSocket, Sockets, TypeOK
  <2>5. CASE HandshakeTimeoutHandler(k)
    BY <1>3, <2>5 DEF HandshakeTimeoutHandler, CloseSocket, Sockets, TypeOK
  <2>6. CASE IdleTimeout(k)
    BY <1>3, <2>6 DEF IdleTimeout, CloseSocket, Sockets, TypeOK
  <2>7. CASE Remove(k)
    BY <1>3, <2>7 DEF Remove, CloseSocket, Sockets, TypeOK
  <2>8. CASE StartReading(k)
    BY <1>3, <2>8 DEF StartReading, AsyncRead, IsOpen, Sockets, TypeOK
  <2> QED
    BY <1>7, <2>1, <2>2, <2>3, <2>4, <2>5, <2>6, <2>7, <2>8 DEF Update
<1>8. ASSUME NEW k \in Logins, AsyncReadCallback(k) PROVE sock'[l].closed
  <2>1. PICK t, o, w, a : Handled(k, t, o, w, a)
    BY <1>8, PacketHandled DEF AsyncReadCallback
  <2> QED
    BY <1>4, <2>1 DEF Handled
<1>9. ASSUME NEW k \in Logins, Check(k) PROVE sock'[l].closed
  <2>1. CASE ExecuteCheck(k) \/ VerifyHash(k) \/ ExecuteStore(k)
    BY <2>1 DEF ExecuteCheck, VerifyHash, ExecuteStore, session
  <2>2. sock[k] \in Sockets /\ CloseSocket(sock[k]).closed = sock[k].closed
    BY <1>3 DEF CloseSocket, Sockets
  <2>3. CASE DBCallback_AuthLoginProofPacket(k)
    BY <1>3, <1>4, <1>5, <2>2, <2>3, Closing DEF DBCallback_AuthLoginProofPacket
  <2>4. CASE HashResult(k)
    <3>1. AsyncWrite(sock[k]).closed = sock[k].closed
      BY <2>2 DEF AsyncWrite, Sockets
    <3>2. CASE UNCHANGED session
      BY <1>5, <3>2 DEF session
    <3>3. CASE HandlePasswordHashResult(k)
      BY <1>4, <2>2, <3>1, <3>3, Closing, WritingSocket DEF HandlePasswordHashResult, QueuePacket
    <3> QED
      BY <2>4, <3>2, <3>3 DEF HashResult
  <2> QED
    BY <1>9, <2>1, <2>3, <2>4 DEF Check
<1>10. ASSUME NEW k \in Logins, Client(k) PROVE sock'[l].closed
  <2>1. CASE ConnectToAuthServer(k)
    BY <1>3, <2>1 DEF ConnectToAuthServer, Sockets, TypeOK
  <2>2. CASE TLSPerformHandshake(k)
    BY <1>3, <2>2 DEF TLSPerformHandshake, Sockets, TypeOK
  <2>3. CASE ClientReceives(k) \/ OnDisconnect(k)
    BY <1>5, <2>3 DEF ClientReceives, OnDisconnect, session
  <2> QED
    BY <1>10, <2>1, <2>2, <2>3 DEF Client
<1>11. ASSUME NEW v \in Visits, World(v) \/ \E k \in Logins : ConnectToWorldServer(k, v)
       PROVE  UNCHANGED sock
  BY <1>11, VisitsApart DEF OfVisits, session
<1> QED
  BY <1>2, <1>5, <1>6, <1>7, <1>8, <1>9, <1>10, <1>11 DEF Next, vars, session

\* A socket that closes has no successful login any more, and a closed one is
\* never revived, whatever its handlers, timers and checks still do.
THEOREM ClosingIsFinal == Spec => ClosedForGood
<1>1. LoginInv /\ [Next]_vars => [\A l \in Logins : StaysClosed(l)]_vars
  BY NotAuthed, NotRevived DEF StaysClosed
<1> QED
  BY <1>1, LoginCorrect, PTL DEF Spec, ClosedForGood, StaysClosed

------------------------------------------------------------------------------
(* The turns of a client and its session.                                  *)

One(q) == q = <<>> \/ q = <<Head(q)>>

\* How many packets the session took before this one.
Turn == [info |-> 0, proof |-> 1, realms |-> 2]

\* The session that has queued the answer m.
After(m, a) ==
  /\ m = "challenge" => a.status = "loginAttempt" /\ a.packets = 1
  /\ m = "success" => a.status = "authed" /\ a.packets = 2

Playing(p) == p \in {"gatherInfo", "loginAttempt", "authed"}

\* At most one of the client's packet u, the check w and the answer, in o or
\* in d, is under way, for a client at p and a session a whose socket is closed
\* or not, and it is the one that p and a are at.  A session whose socket is
\* closed may handle a packet that was read before; its answer goes nowhere.
InTurn(p, u, d, o, w, a, closed) ==
  /\ One(u) /\ One(d)
  /\ u # <<>> => Expected(Head(u)) = a.status /\ a.packets = Turn[Head(u)]
  /\ p \in {"off", "shaking"} => u = <<>> /\ d = <<>> /\ o = <<>> /\ w = "none" /\ a = New
  /\ d # <<>> => Playing(p) /\ Head(d) \in Answers[p] /\ u = <<>>
  /\ ~ closed =>
       /\ One(o)
       /\ u # <<>> =>
            /\ o = <<>> /\ w = "none"
            /\ Playing(p) => p = Expected(Head(u))
       /\ o # <<>> =>
            /\ d = <<>> /\ w = "none" /\ After(Head(o), a)
            /\ Playing(p) => Head(o) \in Answers[p]
       /\ d # <<>> => w = "none" /\ After(Head(d), a)
       /\ w # "none" =>
            /\ a.status = "pending" /\ a.packets = 2
            /\ Playing(p) => p = "loginAttempt"

TurnAt(l) == InTurn(place[l], up[l], down[l], out[l], work[l], auth[l], sock[l].closed)

TurnInv == \A l \in Logins : TurnAt(l)

LEMMA Single ==
  ASSUME NEW m
  PROVE  /\ Append(<<>>, m) = <<m>> /\ Head(<<m>>) = m /\ Tail(<<m>>) = <<>> /\ <<m>> # <<>>
         /\ One(<<>>) /\ One(<<m>>)
  BY DEF One

LEMMA ExpectedIs ==
  /\ Expected("info") = "gatherInfo" /\ Expected("proof") = "loginAttempt"
  /\ Expected("realms") = "authed"
  /\ Turn["info"] = 0 /\ Turn["proof"] = 1 /\ Turn["realms"] = 2
  BY DEF Expected, Turn

LEMMA AnswersAre ==
  /\ DOMAIN Answers = {"gatherInfo", "loginAttempt", "authed"}
  /\ Answers["gatherInfo"] = {"challenge", "wrongVersion"}
  /\ Answers["loginAttempt"] = {"success", "failed"} /\ Answers["authed"] = {"list", "longList"}
  BY DEF Answers

\* A step of login l touches no other login's conversation.
OneLogin(l) ==
  \A k \in Logins \ {l} :
    /\ place'[k] = place[k] /\ up'[k] = up[k] /\ down'[k] = down[k] /\ out'[k] = out[k]
    /\ work'[k] = work[k] /\ auth'[k] = auth[k] /\ sock'[k] = sock[k]

LEMMA TurnStep ==
  ASSUME TurnInv, NEW l \in Logins, OneLogin(l), TurnAt(l)'
  PROVE  TurnInv'
  BY DEF TurnInv, TurnAt, OneLogin

\* Nothing but the socket changes, or the check is dropped or goes on.
LEMMA QuietTurn ==
  ASSUME NEW p, NEW u, NEW d, NEW o, NEW w, NEW x, NEW a, NEW c \in BOOLEAN, NEW e \in BOOLEAN,
         InTurn(p, u, d, o, w, a, c), c => e, x \in {w, "none"} \/ w # "none"
  PROVE  InTurn(p, u, d, o, x, a, e)
  BY DEF InTurn

LEMMA SocketTurn ==
  ASSUME LoginInv, TurnInv, NEW l \in Logins,
         UNCHANGED <<place, link, auth, out, database, game>>, OneLogin(l),
         work'[l] \in {work[l], "none"} \/ work[l] # "none",
         sock[l].closed => sock'[l].closed, sock'[l].closed \in BOOLEAN
  PROVE  TurnInv'
<1>1. sock[l].closed \in BOOLEAN
  BY DEF LoginInv, TypeOK, Sockets
<1>2. TurnAt(l)'
  BY <1>1, QuietTurn DEF TurnInv, TurnAt, link
<1> QED
  BY <1>2, TurnStep

------------------------------------------------------------------------------
(* The steps.                                                              *)

LEMMA ClosedStays ==
  ASSUME LoginInv, [Next]_vars, NEW l \in Logins
  PROVE  /\ sock[l].closed => sock'[l].closed
         /\ sock[l].closed \in BOOLEAN /\ sock'[l].closed \in BOOLEAN
<1>1. LoginInv'
  BY NextLogin
<1>2. sock'[l].closed = (sock'[l].state = "critical") /\ sock'[l].closed \in BOOLEAN
  BY <1>1 DEF LoginInv, SocketStates, TypeOK, Sockets
<1>3. sock[l].closed \in BOOLEAN
  BY DEF LoginInv, TypeOK, Sockets
<1> QED
  BY <1>2, <1>3, NotRevived

LEMMA SocketsTurn ==
  ASSUME LoginInv, TurnInv, [Next]_vars, NEW l \in Logins,
         \/ Closes(l) \/ WriteFails(l) \/ ReadCompletes(l) \/ ReadFails(l)
         \/ StartHandshake(l) \/ HandshakeHandler(l) \/ HandshakeFails(l)
         \/ TimerExpires(l) \/ HandshakeTimeoutHandler(l) \/ IdleTimeout(l) \/ StartReading(l)
  PROVE  TurnInv'
<1>1. UNCHANGED <<place, link, auth, out, work, database, game>>
  BY DEF Closes, WriteFails, ReadCompletes, ReadFails, StartHandshake, HandshakeHandler,
     HandshakeFails, TimerExpires, HandshakeTimeoutHandler, IdleTimeout, StartReading
<1>2. \A k \in Logins \ {l} : sock'[k] = sock[k]
  BY DEF Closes, WriteFails, ReadCompletes, ReadFails, StartHandshake, HandshakeHandler,
     HandshakeFails, TimerExpires, HandshakeTimeoutHandler, IdleTimeout, StartReading,
     LoginInv, TypeOK
<1>3. OneLogin(l)
  BY <1>1, <1>2 DEF OneLogin, link
<1> QED
  BY <1>1, <1>3, SocketTurn, ClosedStays

\* The packet at the head of the queue reaches the client, if that is there.
LEMMA WriteTurn ==
  ASSUME LoginInv, TurnInv, NEW l \in Logins, InternalWriteCallback(l)
  PROVE  TurnInv'
<1>1. /\ ~ sock[l].closed /\ out[l] # <<>> /\ sock[l] \in Sockets
      /\ down \in [Logins -> Seq(Packets)] /\ out \in [Logins -> Seq(Packets)]
      /\ sock \in [Logins -> Sockets]
  BY DEF LoginInv, TypeOK, HandlersReady, InternalWriteCallback
<1>2. /\ UNCHANGED <<place, up, auth, work>> /\ out' = [out EXCEPT ![l] = Tail(out[l])]
      /\ down' = IF Gone(l) THEN down ELSE [down EXCEPT ![l] = Append(@, Head(out[l]))]
      /\ \A k \in Logins \ {l} : sock'[k] = sock[k]
  BY <1>1 DEF InternalWriteCallback
<1>3. OneLogin(l)
  BY <1>1, <1>2 DEF OneLogin
<1>4. InTurn(place[l], up[l], down[l], out[l], work[l], auth[l], FALSE)
  BY <1>1 DEF TurnInv, TurnAt, Sockets
<1>5. PICK m : out[l] = <<m>> /\ down[l] = <<>> /\ m = Head(out[l])
  BY <1>1, <1>4 DEF InTurn, One
<1>6. out'[l] = <<>> /\ down'[l] = IF Gone(l) THEN <<>> ELSE <<m>>
  BY <1>1, <1>2, <1>5, Single
<1>7. place[l] \in {"off", "shaking", "lost", "done", "gatherInfo", "loginAttempt", "authed"}
  BY AnswersAre DEF LoginInv, TypeOK
<1>8. \A c \in BOOLEAN :
        InTurn(place[l], up[l], IF Gone(l) THEN <<>> ELSE <<m>>, <<>>, work[l], auth[l], c)
  BY <1>4, <1>5, <1>7, Single DEF InTurn, Gone, Playing
<1>9. sock'[l].closed \in BOOLEAN
  <2>1. sock'[l] \in Sockets
    <3>1. LoginInv'
      BY WriteCallbackKeeps
    <3> QED
      BY <3>1 DEF LoginInv, TypeOK
  <2> QED
    BY <2>1 DEF Sockets
<1>10. TurnAt(l)'
  BY <1>2, <1>6, <1>8, <1>9 DEF TurnAt
<1> QED
  BY <1>3, <1>10, TurnStep

\* The session of a closed socket is destroyed, with what it had read.
LEMMA RemoveTurn ==
  ASSUME LoginInv, TurnInv, NEW l \in Logins, Remove(l)
  PROVE  TurnInv'
<1>1. /\ sock[l].closed = TRUE /\ sock \in [Logins -> Sockets] /\ up \in [Logins -> Seq(Requests)]
      /\ out \in [Logins -> Seq(Packets)] /\ DOMAIN auth = Logins
      /\ auth = [k \in Logins |-> auth[k]]
  BY DEF LoginInv, TypeOK, SocketStates, Remove, Sockets
<1>2. OneLogin(l) /\ UNCHANGED <<place, down, work>>
  BY <1>1 DEF Remove, OneLogin
<1>3. sock'[l].closed = TRUE
  BY <1>1 DEF Remove, Sockets
<1>4. InTurn(place[l], up[l], down[l], out[l], work[l], auth[l], TRUE)
  BY <1>1 DEF TurnInv, TurnAt
<1>5. InTurn(place[l], <<>>, down[l], <<>>, work[l], New, TRUE)
  BY <1>4, Single DEF InTurn
<1>6. \/ up'[l] = up[l] /\ out'[l] = out[l] /\ auth'[l] = auth[l]
      \/ up'[l] = <<>> /\ out'[l] = <<>> /\ auth'[l] = New
  BY <1>1 DEF Remove
<1>7. TurnAt(l)'
  BY <1>2, <1>3, <1>4, <1>5, <1>6 DEF TurnAt
<1> QED
  BY <1>2, <1>7, TurnStep

\* What the handler of packet m makes of the session a: it answers, starts a
\* check, or neither.
Answered(l, m, a) ==
  \/ out'[l] = out[l] /\ work'[l] = work[l]
  \/ /\ \E k \in Answers[Expected(m)] : out'[l] = Append(out[l], k) /\ After(k, a)
     /\ work'[l] = work[l]
  \/ /\ out'[l] = out[l] /\ work'[l] # "none"
     /\ m = "proof" /\ a.status = "pending" /\ a.packets = 2

LEMMA PacketAnswered ==
  ASSUME LoginInv, TurnInv, NEW l \in Logins, AsyncReadCallback(l), NEW m, up[l] = <<m>>
  PROVE  Answered(l, m, auth'[l])
<1> DEFINE a == [auth[l] EXCEPT !.packets = @ + 1]
<1>1. /\ auth[l] \in Auths /\ auth \in [Logins -> Auths] /\ out \in [Logins -> Seq(Packets)]
      /\ work \in [Logins -> Works] /\ m \in Requests /\ Head(up[l]) = m
  <2>1. up[l] \in Seq(Requests) /\ up[l] # <<>> /\ Head(up[l]) = m
    BY Single DEF LoginInv, TypeOK
  <2> QED
    BY <2>1, Taken DEF LoginInv, TypeOK, Auths
<1>2. auth[l].status = Expected(m) /\ auth[l].packets = Turn[m]
  BY <1>1, Single DEF TurnInv, TurnAt, InTurn
<1>3. Turn[m] \in 0 .. 2 /\ (m = "info" => Turn[m] = 0) /\ (m = "proof" => Turn[m] = 1)
  BY <1>1, ExpectedIs DEF Requests
<1>4. a \in Auths /\ a.status = auth[l].status /\ a.packets = Turn[m] + 1
  <2>1. auth[l].packets \in Nat /\ auth[l].packets + 1 \in Nat
    BY <1>1 DEF Auths
  <2>2. a \in Auths /\ a.status = auth[l].status /\ a.packets = auth[l].packets + 1
    BY <1>1, <2>1 DEF Auths
  <2> QED
    BY <1>2, <2>2
<1>5. \/ m = "info" /\ HandleAuthLoginGatherInfoPacket(l, a)
      \/ m = "proof" /\ HandleAuthLoginProofPacket(l, a)
      \/ m = "realms" /\ HandleGatherRealmlistPacket(l, a)
  <2>1. ~ (a.packets > MaxPackets)
    BY <1>3, <1>4 DEF MaxPackets
  <2> QED
    BY <1>1, <1>2, <2>1 DEF AsyncReadCallback
<1> HIDE DEF a
<1>6. ASSUME NEW k, NEW t, QueuePacket(l, k, t)
      PROVE  out'[l] = Append(out[l], k)
  BY <1>1, <1>6 DEF QueuePacket
<1>7. ASSUME Reject(l)
      PROVE  out'[l] = out[l] /\ work'[l] = work[l]
  BY <1>7 DEF Reject
<1>8. CASE m = "info" /\ HandleAuthLoginGatherInfoPacket(l, a)
  <2>1. CASE Reject(l)
    BY <1>7, <2>1 DEF Answered
  <2>2. CASE QueuePacket(l, "wrongVersion", Reading(l)) /\ UNCHANGED work
    <3>1. "wrongVersion" \in Answers[Expected(m)] /\ After("wrongVersion", auth'[l])
      BY <1>8, AnswersAre, ExpectedIs DEF After
    <3> QED
      BY <1>6, <2>2, <3>1 DEF Answered
  <2>3. CASE /\ auth' = [auth EXCEPT ![l] = [a EXCEPT !.status = "loginAttempt"]]
             /\ QueuePacket(l, "challenge", Reading(l)) /\ UNCHANGED work
    <3>1. auth'[l] = [a EXCEPT !.status = "loginAttempt"]
      BY <1>1, <2>3
    <3>2. auth'[l].status = "loginAttempt" /\ auth'[l].packets = 1
      BY <1>3, <1>4, <1>8, <3>1 DEF Auths
    <3>3. "challenge" \in Answers[Expected(m)] /\ After("challenge", auth'[l])
      BY <1>8, <3>2, AnswersAre, ExpectedIs DEF After
    <3> QED
      BY <1>6, <2>3, <3>3 DEF Answered
  <2> QED
    BY <1>8, <2>1, <2>2, <2>3 DEF HandleAuthLoginGatherInfoPacket
<1>9. CASE m = "proof" /\ HandleAuthLoginProofPacket(l, a)
  <2>1. CASE Reject(l)
    BY <1>7, <2>1 DEF Answered
  <2>2. CASE QueuePacket(l, "failed", Reading(l)) /\ UNCHANGED work
    <3>1. "failed" \in Answers[Expected(m)] /\ After("failed", auth'[l])
      BY <1>9, AnswersAre, ExpectedIs DEF After
    <3> QED
      BY <1>6, <2>2, <3>1 DEF Answered
  <2>3. CASE /\ auth' = [auth EXCEPT ![l] = [a EXCEPT !.status = "pending"]]
             /\ work' = [work EXCEPT ![l] = "query"] /\ UNCHANGED out
    <3>1. auth'[l] = [a EXCEPT !.status = "pending"] /\ work'[l] = "query"
      BY <1>1, <2>3
    <3>2. auth'[l].status = "pending" /\ auth'[l].packets = 2
      BY <1>3, <1>4, <1>9, <3>1 DEF Auths
    <3> QED
      BY <1>9, <2>3, <3>1, <3>2 DEF Answered
  <2> QED
    BY <1>9, <2>1, <2>2, <2>3 DEF HandleAuthLoginProofPacket
<1>10. CASE m = "realms" /\ HandleGatherRealmlistPacket(l, a)
  <2>1. PICK k \in {"list", "longList"} : QueuePacket(l, k, Reading(l)) /\ UNCHANGED work
    BY <1>10 DEF HandleGatherRealmlistPacket
  <2>2. k \in Answers[Expected(m)] /\ After(k, auth'[l])
    BY <1>10, AnswersAre, ExpectedIs DEF After
  <2> QED
    BY <1>6, <2>1, <2>2 DEF Answered
<1> QED
  BY <1>5, <1>8, <1>9, <1>10

\* A packet is the one that the session waits for, so it is never refused for
\* its turn; its answer, or its check, is the only thing under way.
LEMMA PacketTurn ==
  ASSUME LoginInv, TurnInv, [Next]_vars, NEW l \in Logins, AsyncReadCallback(l)
  PROVE  TurnInv'
<1>1. /\ up[l] # <<>> /\ sock[l] \in Sockets /\ sock \in [Logins -> Sockets]
      /\ up \in [Logins -> Seq(Requests)] /\ up[l] \in Seq(Requests)
      /\ sock[l].closed \in BOOLEAN
  BY DEF LoginInv, TypeOK, HandlersReady, AsyncReadCallback, Sockets
<1>2. InTurn(place[l], up[l], down[l], out[l], work[l], auth[l], sock[l].closed)
  BY DEF TurnInv, TurnAt
<1>3. PICK m : up[l] = <<m>> /\ m = Head(up[l])
  BY <1>1, <1>2 DEF InTurn, One
<1>4. down[l] = <<>> /\ place[l] \notin {"off", "shaking"}
  BY <1>1, <1>2 DEF InTurn
<1>5. up' = [up EXCEPT ![l] = Tail(@)] /\ UNCHANGED <<place, down>> /\ up'[l] = <<>>
  BY <1>1, <1>3, Single DEF AsyncReadCallback
<1>6. PICK t, o, w, b : Handled(l, t, o, w, b)
  BY PacketHandled DEF AsyncReadCallback
<1>7. OneLogin(l)
  BY <1>1, <1>5, <1>6 DEF Handled, OneLogin, LoginInv, TypeOK
<1>8. Answered(l, m, auth'[l])
  BY <1>3, PacketAnswered
<1>9. CASE sock[l].closed
  <2>1. sock'[l].closed = TRUE
    BY <1>9, ClosedStays
  <2> QED
    BY <1>4, <1>5, <1>7, <2>1, TurnStep, Single DEF TurnAt, InTurn
<1>10. CASE ~ sock[l].closed
  <2>1. out[l] = <<>> /\ work[l] = "none" /\ (Playing(place[l]) => place[l] = Expected(m))
    BY <1>1, <1>2, <1>3, <1>10 DEF InTurn
  <2>2. m \in {"info", "proof", "realms"}
    BY <1>1, <1>3, Taken DEF Requests
  <2>3. \A c \in BOOLEAN : InTurn(place[l], <<>>, <<>>, out'[l], work'[l], auth'[l], c)
    <3>1. CASE out'[l] = <<>> /\ work'[l] = "none"
      BY <1>4, <3>1, Single DEF InTurn
    <3>2. ASSUME NEW k \in Answers[Expected(m)], out'[l] = <<k>>, After(k, auth'[l]),
                 work'[l] = "none"
          PROVE  \A c \in BOOLEAN : InTurn(place[l], <<>>, <<>>, <<k>>, "none", auth'[l], c)
      BY <1>4, <2>1, <3>2, Single DEF InTurn
    <3>3. CASE /\ out'[l] = <<>> /\ m = "proof"
               /\ auth'[l].status = "pending" /\ auth'[l].packets = 2
      BY <1>4, <2>1, <3>3, Single, ExpectedIs DEF InTurn
    <3> QED
      BY <1>8, <2>1, <3>1, <3>2, <3>3, Single DEF Answered
  <2>4. sock'[l].closed \in BOOLEAN
    BY ClosedStays
  <2> QED
    BY <1>5, <1>4, <1>7, <2>3, <2>4, TurnStep DEF TurnAt
<1> QED
  BY <1>9, <1>10

\* A check whose session is open ends with an answer, or none.
LEMMA CheckTurn ==
  ASSUME LoginInv, TurnInv, [Next]_vars, NEW l \in Logins, Check(l)
  PROVE  TurnInv'
<1>1. CASE ExecuteCheck(l) \/ DBCallback_AuthLoginProofPacket(l) \/ VerifyHash(l)
  <2>1. UNCHANGED <<place, link, auth, out, database, game>> /\ work[l] # "none"
    BY <1>1 DEF ExecuteCheck, DBCallback_AuthLoginProofPacket, VerifyHash, session
  <2>2. \A k \in Logins \ {l} : sock'[k] = sock[k] /\ work'[k] = work[k]
    BY <1>1 DEF ExecuteCheck, DBCallback_AuthLoginProofPacket, VerifyHash, session, LoginInv, TypeOK
  <2>3. OneLogin(l)
    BY <2>1, <2>2 DEF OneLogin, link
  <2> QED
    BY <2>1, <2>3, SocketTurn, ClosedStays
<1>2. CASE ExecuteStore(l)
  BY <1>2 DEF ExecuteStore, link, session, TurnInv, TurnAt
<1>3. CASE HashResult(l)
  <2>1. /\ UNCHANGED <<place, link, rows, codes, game>> /\ work[l] # "none" /\ work'[l] = "none"
        /\ \A k \in Logins \ {l} : work'[k] = work[k]
    BY <1>3 DEF HashResult, LoginInv, TypeOK
  <2>2. CASE ~IsOpen(sock[l]) /\ UNCHANGED <<session, store>>
    <3>1. OneLogin(l)
      BY <2>1, <2>2 DEF OneLogin, session, link
    <3>2. TurnAt(l)'
      <4>1. TurnAt(l) /\ sock[l].closed \in BOOLEAN
        BY ClosedStays DEF TurnInv
      <4> QED
        BY <2>1, <2>2, <4>1, QuietTurn DEF TurnAt, session, link
    <3> QED
      BY <3>1, <3>2, TurnStep
  <2>3. CASE IsOpen(sock[l]) /\ HandlePasswordHashResult(l)
    <3>1. ~ sock[l].closed /\ InTurn(place[l], up[l], down[l], out[l], work[l], auth[l], FALSE)
      <4>1. sock[l].closed = FALSE
        BY <2>3, ClosedStays DEF IsOpen
      <4> QED
        BY <4>1 DEF TurnInv, TurnAt
    <3>2. /\ up[l] = <<>> /\ down[l] = <<>> /\ out[l] = <<>>
          /\ auth[l].status = "pending" /\ auth[l].packets = 2
          /\ Playing(place[l]) => place[l] = "loginAttempt"
          /\ place[l] \notin {"off", "shaking"}
      BY <2>1, <3>1 DEF InTurn
    <3>3. /\ auth[l] \in Auths /\ auth \in [Logins -> Auths] /\ out \in [Logins -> Seq(Packets)]
          /\ sock \in [Logins -> Sockets]
      BY DEF LoginInv, TypeOK, Auths
    <3>4. OneLogin(l)
      <4>1. \A k \in Logins \ {l} : auth'[k] = auth[k] /\ out'[k] = out[k] /\ sock'[k] = sock[k]
        BY <2>3, <3>3 DEF HandlePasswordHashResult, QueuePacket
      <4> QED
        BY <2>1, <4>1 DEF OneLogin, link
    <3>5. \/ out'[l] = <<>>
          \/ out'[l] = <<"failed">>
          \/ out'[l] = <<"success">> /\ auth'[l].status = "authed" /\ auth'[l].packets = 2
      <4>1. CASE QueuePacket(l, "failed", sock[l])
        BY <3>2, <3>3, <4>1, Single DEF QueuePacket
      <4>2. CASE QueuePacket(l, "success", sock[l]) /\ auth' = [auth EXCEPT ![l].status = "authed"]
        <5>1. out'[l] = <<"success">>
          BY <3>2, <3>3, <4>2, Single DEF QueuePacket
        <5>2. auth'[l].status = "authed" /\ auth'[l].packets = 2
          BY <3>2, <3>3, <4>2 DEF Auths
        <5> QED
          BY <5>1, <5>2
      <4>3. CASE UNCHANGED out
        BY <3>2, <4>3
      <4> QED
        BY <2>3, <4>1, <4>2, <4>3 DEF HandlePasswordHashResult
    <3>6. \A c \in BOOLEAN : InTurn(place[l], <<>>, <<>>, out'[l], "none", auth'[l], c)
      <4>1. ASSUME NEW m \in {"failed", "success"}, After(m, auth'[l])
            PROVE  \A c \in BOOLEAN : InTurn(place[l], <<>>, <<>>, <<m>>, "none", auth'[l], c)
        BY <3>2, <4>1, AnswersAre, Single DEF InTurn
      <4>2. \A c \in BOOLEAN : InTurn(place[l], <<>>, <<>>, <<>>, "none", auth'[l], c)
        BY <3>2, Single DEF InTurn
      <4>3. After("failed", auth'[l])
        BY DEF After
      <4>4. auth'[l].status = "authed" /\ auth'[l].packets = 2 => After("success", auth'[l])
        BY DEF After
      <4> QED
        BY <3>5, <4>1, <4>2, <4>3, <4>4
    <3>7. TurnAt(l)'
      <4>1. sock'[l].closed \in BOOLEAN
        BY ClosedStays
      <4> QED
        BY <2>1, <3>2, <3>6, <4>1 DEF TurnAt, link
    <3> QED
      BY <3>4, <3>7, TurnStep
  <2> QED
    BY <1>3, <2>2, <2>3 DEF HashResult
<1> QED
  BY <1>1, <1>2, <1>3 DEF Check

LEMMA ConnectTurn ==
  ASSUME LoginInv, TurnInv, [Next]_vars, NEW l \in Logins, ConnectToAuthServer(l)
  PROVE  TurnInv'
<1>1. /\ place \in [Logins -> {"off", "shaking", "lost", "done"} \cup DOMAIN Answers]
      /\ sock \in [Logins -> Sockets]
  BY DEF LoginInv, TypeOK
<1>2. OneLogin(l) /\ UNCHANGED <<link, auth, out, work>> /\ place'[l] = "shaking" /\ place[l] = "off"
  BY <1>1 DEF ConnectToAuthServer, OneLogin, link
<1>3. up[l] = <<>> /\ down[l] = <<>> /\ out[l] = <<>> /\ work[l] = "none" /\ auth[l] = New
  BY <1>2 DEF TurnInv, TurnAt, InTurn
<1>4. \A c \in BOOLEAN : InTurn("shaking", <<>>, <<>>, <<>>, "none", New, c)
  BY Single DEF InTurn, Playing
<1>5. TurnAt(l)'
  BY <1>2, <1>3, <1>4, ClosedStays DEF TurnAt, link
<1> QED
  BY <1>2, <1>5, TurnStep

\* The client goes on to p and sends the packet m, if the socket is open.
LEMMA SendTurn ==
  ASSUME LoginInv, TurnInv, [Next]_vars, NEW l \in Logins, NEW m \in Requests,
         Send(l, m), place' = [place EXCEPT ![l] = Expected(m)], down'[l] = <<>>,
         up[l] = <<>>, UNCHANGED <<auth, out, work>>, sock'[l].closed = sock[l].closed,
         \A k \in Logins \ {l} : down'[k] = down[k] /\ sock'[k] = sock[k],
         ~ sock[l].closed =>
           /\ out[l] = <<>> /\ work[l] = "none"
           /\ auth[l].status = Expected(m) /\ auth[l].packets = Turn[m]
  PROVE  TurnInv'
<1>1. /\ place \in [Logins -> {"off", "shaking", "lost", "done"} \cup DOMAIN Answers]
      /\ up \in [Logins -> Seq(Requests)] /\ sock[l].closed \in BOOLEAN
  BY ClosedStays DEF LoginInv, TypeOK
<1>2. OneLogin(l) /\ place'[l] = Expected(m)
  BY <1>1 DEF OneLogin, Send
<1>3. up'[l] = IF sock[l].closed THEN <<>> ELSE <<m>>
  BY <1>1, Single DEF Send
<1>4. Expected(m) \in {"gatherInfo", "loginAttempt", "authed"}
  BY ExpectedIs DEF Requests
<1>5. CASE sock[l].closed = TRUE
  <2>1. InTurn(Expected(m), <<>>, <<>>, out[l], work[l], auth[l], TRUE)
    BY <1>4, Single DEF InTurn
  <2> QED
    BY <1>2, <1>3, <1>5, <2>1, TurnStep DEF TurnAt
<1>6. CASE sock[l].closed = FALSE
  <2>1. InTurn(Expected(m), <<m>>, <<>>, <<>>, "none", auth[l], FALSE)
    BY <1>4, <1>6, Single DEF InTurn
  <2> QED
    BY <1>2, <1>3, <1>6, <2>1, TurnStep DEF TurnAt
<1> QED
  BY <1>1, <1>5, <1>6

LEMMA HandshakeTurn ==
  ASSUME LoginInv, TurnInv, [Next]_vars, NEW l \in Logins, TLSPerformHandshake(l)
  PROVE  TurnInv'
<1>1. /\ sock \in [Logins -> Sockets] /\ sock[l] \in Sockets
      /\ place[l] = "shaking" /\ ~ sock[l].closed
  BY DEF LoginInv, TypeOK, TLSPerformHandshake
<1>2. /\ up[l] = <<>> /\ down[l] = <<>> /\ out[l] = <<>> /\ work[l] = "none" /\ auth[l] = New
  BY <1>1 DEF TurnInv, TurnAt, InTurn
<1>3. auth[l].status = Expected("info") /\ auth[l].packets = Turn["info"] /\ "info" \in Requests
  BY <1>2, ExpectedIs DEF New, Requests
<1>4. sock' = [sock EXCEPT ![l].shake = "done"] /\ Send(l, "info") /\ UNCHANGED <<down, auth, out, work>>
      /\ place' = [place EXCEPT ![l] = Expected("info")]
  BY ExpectedIs DEF TLSPerformHandshake
<1>5. sock'[l].closed = sock[l].closed /\ \A k \in Logins \ {l} : sock'[k] = sock[k]
  BY <1>1, <1>4 DEF Sockets
<1> QED
  BY <1>2, <1>3, <1>4, <1>5, SendTurn

\* The client takes the answer it waits for, and goes on or is done.
LEMMA ClientTurn ==
  ASSUME LoginInv, TurnInv, [Next]_vars, NEW l \in Logins, ClientReceives(l) \/ OnDisconnect(l)
  PROVE  TurnInv'
<1>1. /\ place \in [Logins -> {"off", "shaking", "lost", "done"} \cup DOMAIN Answers]
      /\ down \in [Logins -> Seq(Packets)] /\ sock[l].closed \in BOOLEAN
  BY ClosedStays DEF LoginInv, TypeOK
<1>2. UNCHANGED <<session, work>>
  BY DEF ClientReceives, OnDisconnect
<1>3. InTurn(place[l], up[l], down[l], out[l], work[l], auth[l], sock[l].closed)
  BY DEF TurnInv, TurnAt
<1>4. ASSUME NEW p \in {"done", "lost"}, place' = [place EXCEPT ![l] = p],
             down' = [down EXCEPT ![l] = <<>>], UNCHANGED up, place[l] \notin {"off"}
      PROVE  TurnInv'
  <2>1. OneLogin(l) /\ place'[l] = p /\ down'[l] = <<>>
    BY <1>1, <1>2, <1>4 DEF OneLogin, session
  <2>2. InTurn(p, up[l], <<>>, out[l], work[l], auth[l], sock[l].closed)
    BY <1>3, Single DEF InTurn, Playing
  <2> QED
    BY <1>2, <1>4, <2>1, <2>2, TurnStep DEF TurnAt, session
<1>5. CASE OnDisconnect(l)
  <2>1. place[l] # "off"
    BY <1>5, AnswersAre DEF OnDisconnect
  <2> QED
    BY <1>4, <1>5, <2>1 DEF OnDisconnect
<1>6. CASE ClientReceives(l)
  <2>1. down[l] # <<>> /\ place[l] # "off"
    BY <1>6, AnswersAre DEF ClientReceives
  <2>2. PICK m : down[l] = <<m>> /\ m = Head(down[l])
    BY <1>3, <2>1 DEF InTurn, One
  <2>3. m \in Answers[place[l]] /\ up[l] = <<>>
    BY <1>3, <2>1, <2>2 DEF InTurn
  <2>4. ~ sock[l].closed => out[l] = <<>> /\ work[l] = "none" /\ After(m, auth[l])
    BY <1>3, <2>1, <2>2 DEF InTurn
  <2>5. ASSUME NEW r \in Requests, Send(l, r), place' = [place EXCEPT ![l] = Expected(r)],
               down' = [down EXCEPT ![l] = Tail(@)],
               After(m, auth[l]) => auth[l].status = Expected(r) /\ auth[l].packets = Turn[r]
        PROVE  TurnInv'
    <3>1. down'[l] = <<>> /\ \A k \in Logins \ {l} : down'[k] = down[k]
      BY <1>1, <2>2, <2>5, Single
    <3>2. UNCHANGED <<auth, out, work, sock>>
      BY <1>2 DEF session
    <3> QED
      BY <2>3, <2>4, <2>5, <3>1, <3>2, SendTurn
  <2>6. ASSUME m = "challenge" /\ Send(l, "proof") /\ place' = [place EXCEPT ![l] = "loginAttempt"],
               down' = [down EXCEPT ![l] = Tail(@)]
        PROVE  TurnInv'
    BY <2>5, <2>6, ExpectedIs DEF Requests, After
  <2>7. ASSUME m = "success" /\ Send(l, "realms") /\ place' = [place EXCEPT ![l] = "authed"],
               down' = [down EXCEPT ![l] = Tail(@)]
        PROVE  TurnInv'
    BY <2>5, <2>7, ExpectedIs DEF Requests, After
  <2>8. ASSUME NEW p \in {"done", "lost"}, place' = [place EXCEPT ![l] = p],
               down' = [down EXCEPT ![l] = <<>>], UNCHANGED up
        PROVE  TurnInv'
    BY <1>4, <2>1, <2>8
  <2> QED
    BY <1>6, <2>2, <2>6, <2>7, <2>8 DEF ClientReceives
<1> QED
  BY <1>5, <1>6

------------------------------------------------------------------------------
(* The theorem.                                                            *)

LEMMA InitTurn == Init => TurnInv
<1> SUFFICES ASSUME Init, NEW l \in Logins PROVE TurnAt(l)
  BY DEF TurnInv
<1>1. /\ place[l] = "off" /\ up[l] = <<>> /\ down[l] = <<>> /\ out[l] = <<>>
      /\ work[l] = "none" /\ auth[l] = New /\ sock[l].closed = FALSE
  BY DEF Init, Unused
<1>2. InTurn("off", <<>>, <<>>, <<>>, "none", New, FALSE)
  BY Single DEF InTurn, Playing
<1> QED
  BY <1>1, <1>2 DEF TurnAt

LEMMA NextTurn == LoginInv /\ TurnInv /\ [Next]_vars => TurnInv'
<1> SUFFICES ASSUME LoginInv, TurnInv, [Next]_vars PROVE TurnInv'
  OBVIOUS
<1>1. CASE UNCHANGED vars
  BY <1>1 DEF vars, link, session, TurnInv, TurnAt
<1>2. ASSUME NEW l \in Logins, Socket(l) \/ Update(l) PROVE TurnInv'
  BY <1>2, SocketsTurn, WriteTurn, RemoveTurn DEF Socket, Update, ShutdownEnds, Deadline
<1>3. ASSUME NEW l \in Logins, Client(l) PROVE TurnInv'
  BY <1>3, ConnectTurn, HandshakeTurn, ClientTurn DEF Client
<1>4. ASSUME NEW v \in Visits, World(v) \/ \E l \in Logins : ConnectToWorldServer(l, v)
      PROVE  TurnInv'
  BY <1>4, VisitsApart DEF OfVisits, link, session, TurnInv, TurnAt
<1> QED
  BY <1>1, <1>2, <1>3, <1>4, PacketTurn, CheckTurn DEF Next

\* The lock-step of a login: TurnInv is an invariant of the logins.
THEOREM TurnsCorrect == Spec => [](LoginInv /\ TurnInv)
<1>1. Init => LoginInv /\ TurnInv
  BY InitLogin, InitTurn
<1>2. LoginInv /\ TurnInv /\ [Next]_vars => (LoginInv /\ TurnInv)'
  BY NextLogin, NextTurn
<1> QED
  BY <1>1, <1>2, PTL DEF Spec

\* For any number of logins, NECROClient and the auth server never refuse each
\* other for a packet out of its status, nor for the number of packets, whatever
\* their timers, their checks and the closing of their sockets do.
THEOREM ClientsInStep == Spec => []InStep
<1>1. LoginInv /\ TurnInv => InStep
  <2> SUFFICES ASSUME LoginInv, TurnInv, NEW l \in Logins
               PROVE  /\ up[l] # <<>> => /\ Expected(Head(up[l])) = auth[l].status
                                         /\ auth[l].packets < MaxPackets
                      /\ down[l] # <<>> /\ place[l] \in DOMAIN Answers =>
                           Head(down[l]) \in Answers[place[l]]
    BY DEF InStep
  <2>1. InTurn(place[l], up[l], down[l], out[l], work[l], auth[l], sock[l].closed)
    BY DEF TurnInv, TurnAt
  <2>2. ASSUME up[l] # <<>>
        PROVE  Expected(Head(up[l])) = auth[l].status /\ auth[l].packets < MaxPackets
    <3>1. Head(up[l]) \in Requests
      <4>1. up[l] \in Seq(Requests)
        BY DEF LoginInv, TypeOK
      <4> QED
        BY <2>2, <4>1, Taken
    <3>2. Turn[Head(up[l])] \in {0, 1, 2}
      BY <3>1, ExpectedIs DEF Requests
    <3>3. Expected(Head(up[l])) = auth[l].status /\ auth[l].packets = Turn[Head(up[l])]
      BY <2>1, <2>2 DEF InTurn
    <3> QED
      BY <3>2, <3>3 DEF MaxPackets
  <2> QED
    BY <2>1, <2>2 DEF InTurn
<1> QED
  BY <1>1, TurnsCorrect, PTL
==============================================================================
