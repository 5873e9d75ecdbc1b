------------------------------ MODULE WorldWire ------------------------------
(***************************************************************************)
(* The bytes of one world connection: encryption, framing, the two send    *)
(* queues, the two receive buffers and the stream between them.            *)
(*                                                                         *)
(*   client  one thread: console commands queue packets, NetworkUpdate     *)
(*           polls the socket, sends what fits and reads what came         *)
(*           (WorldManager, WorldSession of the client, TCPSocket)         *)
(*   server  the handlers of one session, on its network thread: at most   *)
(*           one read and one write are outstanding (WorldSession,         *)
(*           TCPSocketBoost)                                               *)
(*                                                                         *)
(* A unit stands for four bytes or more: a packet is a unit with the       *)
(* header PCKT_SIZE | IV and units with the rest, and a short read or      *)
(* write ends between any two of them.  What the packets ask for is in     *)
(* WorldSessions and PlayerMovement.                                       *)
(***************************************************************************)
EXTENDS Integers, Sequences, FiniteSets

CONSTANTS
  GreetLen,   \* units of the greetcode, AES_128_KEY_SIZE
  Lens,       \* lengths of encrypted packets, in units
  MaxPacket,  \* MAX_PACKET_SIZE_AES_DECRYPT, in units
  BufSize,    \* DEFAULT_PCKT_SIZE, in units
  BufMax,     \* NETWORK_MESSAGE_ENLARGE_MAX_SIZE, in units
  StreamSize, \* what the kernels hold of one direction
  MaxPackets, \* bound: packets each side encrypts
  Prefixes    \* values of the random IV prefix

ASSUME LengthsAssumption ==
  /\ GreetLen \in Nat \ {0} /\ StreamSize \in Nat \ {0} /\ MaxPackets \in Nat \ {0}
  /\ MaxPacket \in Nat /\ BufSize \in Nat /\ BufMax \in Nat
  /\ Lens \subseteq 2 .. MaxPacket /\ MaxPacket < BufSize /\ BufSize <= BufMax
  /\ GreetLen <= BufSize
  /\ Prefixes \subseteq Nat \ {0}

Sides == {"client", "server"}
Other(s) == IF s = "client" THEN "server" ELSE "client"

VARIABLES
  client,   \* connecting, connected, gone
  server,   \* the WorldSocketStatus: greet, pending, gathered, authed; or closed
  out,      \* m_outQueue of each side, its messages one after the other
  armed,    \* POLLOUT is in the events of the client's pollfd
  writing,  \* m_AsyncWriting of the server
  reading,  \* an async_read_some of the server is outstanding
  stream,   \* stream[s]: sent by s and not yet received
  in,       \* m_inBuffer of each side and its reader's state, see Reader
  iv,       \* the IV of each side: prefix and counter
  key,      \* the session key each side uses
  made,     \* packets each side has encrypted
  used,     \* the IVs they went out with, in order (history)
  relogin   \* a second login of the client's AuthManager: no, sent, done

vars == <<client, server, out, armed, writing, reading, stream, in, iv, key, made, used, relogin>>

------------------------------------------------------------------------------
(* NetworkMessage and AES.                                                 *)

Smaller(i, j) == IF i < j THEN i ELSE j

\* data: the bytes before m_wpos; rpos: those consumed; size: of the vector.
\* expected: the next counter; prefix: the peer's, 0 until it is known (the
\* client never checks it); handled: the packets given to handlers (history);
\* code: "busy" in the loop of ReadCallback, else what it or Receive returned.
Reader == [data |-> <<>>, rpos |-> 0, size |-> BufSize, expected |-> 0, prefix |-> 0,
           handled |-> <<>>, code |-> "ok"]

Active(b) == SubSeq(b.data, b.rpos + 1, Len(b.data))

\* Slip: consumed bytes are never given back.
CompactNothing(b) == b

CompactData(b) == [b EXCEPT !.data = Active(b), !.rpos = 0]

Room(b) == b.size - Len(b.data)

EnlargeBufferIfNeeded(b) ==
  IF Room(b) > 0 THEN b
  ELSE IF b.size + b.size \div 2 > BufMax THEN [b EXCEPT !.code = "full"]
  ELSE [b EXCEPT !.size = @ + @ \div 2]

Greetcode == [i \in 1 .. GreetLen |->
                [msg |-> 0, part |-> 0, len |-> 0, prefix |-> 0, counter |-> 0, key |-> 0]]

\* AESEncrypt: the n-th packet of a side, in l units.
AESEncrypt(n, l, v, k) ==
  [i \in 1 .. l |-> [msg |-> n, part |-> i, len |-> l,
                     prefix |-> v.prefix, counter |-> v.counter, key |-> k]]

\* Slip: the counter is left as it is.
CounterKept(v) == v

IncrementCounter(v) == [v EXCEPT !.counter = @ + 1]

\* AESDecrypt on what is active, by its checks in their order.
DecryptCode(s, b) ==
  LET u == Active(b) h == u[1] IN
  IF u = <<>> THEN "short"
  ELSE IF h.part # 1 \/ h.len > MaxPacket THEN "malformed"
  ELSE IF Len(u) < h.len THEN "short"
  ELSE IF s = "server" /\ b.prefix # 0 /\ h.prefix # b.prefix THEN "prefix"
  ELSE IF h.counter # b.expected THEN "counter"
  ELSE IF \E i \in 1 .. h.len : u[i] # [h EXCEPT !.part = i] \/ h.key # key[s] THEN "tag"
  ELSE "ok"

\* The packet is consumed and handled.  The server's first packet is
\* AUTH_SESSION, which tells it the client's prefix.
AfterPacket(s, b) ==
  LET h == Active(b)[1] IN
  [b EXCEPT !.rpos = @ + h.len, !.expected = @ + 1, !.handled = Append(@, h.msg),
            !.prefix = IF s = "server" /\ @ = 0 THEN h.prefix ELSE @]

\* One turn of the loop of both ReadCallbacks.
LoopTurn(s, b) ==
  CASE DecryptCode(s, b) = "short" -> [b EXCEPT !.code = "ok"]
    [] DecryptCode(s, b) = "ok"    -> AfterPacket(s, b)
    [] OTHER                       -> [b EXCEPT !.code = DecryptCode(s, b)]

\* The thread of side s is in the loop: it does nothing else meanwhile.
Busy(s) == in[s].code = "busy"

\* recv of the first r units of the stream from the other side.
Received(s, b, r) == [b EXCEPT !.data = @ \o SubSeq(stream[Other(s)], 1, r)]

Free(s) == StreamSize - Len(stream[s])

------------------------------------------------------------------------------

Init ==
  /\ client = "connecting"
  /\ server = "greet"
  /\ out = [s \in Sides |-> <<>>]
  /\ armed = FALSE
  /\ writing = FALSE
  /\ reading = TRUE
  /\ stream = [s \in Sides |-> <<>>]
  /\ in = [s \in Sides |-> Reader]
  /\ \E p, q \in Prefixes : iv = [client |-> [prefix |-> p, counter |-> 0],
                                  server |-> [prefix |-> q, counter |-> 0]]
  /\ key = [s \in Sides |-> 1]
  /\ made = [s \in Sides |-> 0]
  /\ used = <<>>
  /\ relogin = "no"

Encrypted(s, l, v) ==
  /\ made' = [made EXCEPT ![s] = @ + 1]
  /\ used' = Append(used, v)

------------------------------------------------------------------------------
(* The client.                                                             *)

\* WorldManager::OnDisconnect: the socket is closed and made anew.
OnDisconnect ==
  /\ client' = "gone"
  /\ out' = [out EXCEPT !["client"] = <<>>]
  /\ armed' = FALSE

\* OnConnectedCallback: a fresh prefix, counter 0, and one message with the
\* greetcode and the encrypted AUTH_SESSION.
CheckIfWorldConnected ==
  /\ client = "connecting"
  /\ \/ OnDisconnect /\ UNCHANGED <<iv, made, used>>
     \/ \E p \in Prefixes, l \in Lens :
          LET v == [prefix |-> p, counter |-> 0] IN
          /\ client' = "connected"
          /\ out' = [out EXCEPT !["client"] = @ \o Greetcode \o AESEncrypt(1, l, v, key["client"])]
          /\ armed' = TRUE
          /\ iv' = [iv EXCEPT !["client"] = IncrementCounter(v)]
          /\ Encrypted("client", l, v)
  /\ UNCHANGED <<server, writing, reading, stream, in, key, relogin>>

\* Slip: the events are left to the next Send.
ArmNothing == armed

\* TCPSocket::QueuePacket sets POLLOUT.
ArmPoll == TRUE

\* A command, for which isAuthed is set by the server's first packet; or a
\* handler in the loop that answers (Handle_PlayerMovementCorrection).
ClientPacket ==
  /\ client = "connected" /\ in["client"].handled # <<>>
  /\ made["client"] < MaxPackets
  /\ \E l \in Lens :
       /\ out' = [out EXCEPT !["client"] =
                    @ \o AESEncrypt(made["client"] + 1, l, iv["client"], key["client"])]
       /\ Encrypted("client", l, iv["client"])
  /\ iv' = [iv EXCEPT !["client"] = IncrementCounter(@)]
  /\ armed' = ArmPoll
  /\ UNCHANGED <<client, server, writing, reading, stream, in, key, relogin>>

\* Slip: a message is popped when a part of it was sent.
PopFront(q, k) == IF k = 0 THEN q ELSE SelectSeq(q, LAMBDA u : u.msg > q[k].msg)

\* ReadCompleted of k units; a message that was sent whole is popped.
Sent(q, k) == SubSeq(q, k + 1, Len(q))

\* TCPSocket::Send: one message after the other until the kernel takes no more.
SendCount == IF armed THEN Smaller(Len(out["client"]), Free("client")) ELSE 0

\* The buffer as Receive and AsyncRead hand it to recv.
ForRecv(b) == EnlargeBufferIfNeeded(CompactData(b))

\* How many of r units TCPSocket::Receive takes; none when the buffer is full.
Taken(r) == LET b == ForRecv(in["client"]) IN
            IF r = 0 \/ b.code # "ok" THEN 0 ELSE Smaller(r, Room(b))

\* TCPSocket::Receive of r units, up to the loop; no data is reported for 0.
Receive(r) ==
  LET b == ForRecv(in["client"]) IN
  IF r = 0 THEN in["client"]
  ELSE IF b.code # "ok" THEN b
  ELSE [Received("client", b, Taken(r)) EXCEPT !.code = "busy"]

\* A poll and, in CheckForIncomingData, the disconnection at POLLHUP, or Send
\* and Receive with what has arrived by now.
NetworkUpdate ==
  /\ client = "connected" /\ ~Busy("client")
  /\ \/ server = "closed" /\ OnDisconnect /\ UNCHANGED <<stream, in>>
     \/ \E r \in 0 .. Len(stream["server"]) :
          LET k == SendCount
              n == Taken(r)
          IN
          /\ in' = [in EXCEPT !["client"] = Receive(r)]
          /\ stream' = [client |-> stream["client"] \o SubSeq(out["client"], 1, k),
                        server |-> SubSeq(stream["server"], n + 1, Len(stream["server"]))]
          /\ IF Receive(r).code = "full" THEN OnDisconnect
             ELSE /\ out' = [out EXCEPT !["client"] = Sent(@, k)]
                  /\ armed' = (armed /\ out'["client"] # <<>>)
                  /\ UNCHANGED client
  /\ UNCHANGED <<server, writing, reading, iv, key, made, used, relogin>>

\* ReadCallback of the client: a packet, the end of the loop, or a refusal.
ClientReadCallback ==
  /\ client = "connected" /\ Busy("client")
  /\ in' = [in EXCEPT !["client"] = LoopTurn("client", @)]
  /\ IF in'["client"].code \in {"ok", "busy"} THEN UNCHANGED <<client, out, armed>>
     ELSE OnDisconnect
  /\ UNCHANGED <<server, writing, reading, stream, iv, key, made, used, relogin>>

\* The player quits, or the connection is lost.
Quit ==
  /\ client = "connected" /\ ~Busy("client")
  /\ OnDisconnect
  /\ UNCHANGED <<server, writing, reading, stream, in, iv, key, made, used, relogin>>

\* The console's authconnect does not ask whether a world connection is up.
\* Its login draws a new prefix for the IV, which the AuthManager owns and the
\* world session uses, and later replaces the session key.
SendLoginProof ==
  /\ relogin = "no" /\ ~Busy("client")
  /\ relogin' = "sent"
  /\ \E p \in Prefixes \ {iv["client"].prefix} :
       iv' = [iv EXCEPT !["client"] = [prefix |-> p, counter |-> 0]]
  /\ UNCHANGED <<client, server, out, armed, writing, reading, stream, in, key, made, used>>

LoginProofResponse ==
  /\ relogin = "sent" /\ ~Busy("client")
  /\ relogin' = "done"
  /\ key' = [key EXCEPT !["client"] = 2]
  /\ UNCHANGED <<client, server, out, armed, writing, reading, stream, in, iv, made, used>>

------------------------------------------------------------------------------
(* The server.                                                             *)

IsOpen == server # "closed"

\* CloseSocket of a plain socket; the operations are aborted and the session
\* goes with its queue.
CloseSocket ==
  /\ server' = "closed"
  /\ reading' = FALSE
  /\ writing' = FALSE
  /\ out' = [out EXCEPT !["server"] = <<>>]

\* AsyncRead with the buffer as b, in status st.
AsyncRead(b, st) ==
  LET e == ForRecv(b) IN
  /\ in' = [in EXCEPT !["server"] = e]
  /\ IF e.code = "ok"
     THEN server' = st /\ reading' = TRUE /\ UNCHANGED <<out, writing>>
     ELSE CloseSocket

\* Slip: the server's prefix is drawn once.
AnyPrefix(p) == Prefixes

\* HandleGreetPacket draws until the prefix is not the client's.
OwnPrefix(p) == Prefixes \ {p}

\* AsyncReadCallback after the greetcode begins its loop.
BeginPackets(b) ==
  /\ in' = [in EXCEPT !["server"] = [b EXCEPT !.code = "busy"]]
  /\ reading' = FALSE
  /\ UNCHANGED <<out, writing, iv>>

\* A turn of it: a packet, of which the first makes the session authed with a
\* prefix of its own; the end of the loop and AsyncRead; or a refusal.
AsyncReadCallback ==
  /\ IsOpen /\ Busy("server")
  /\ LET b == LoopTurn("server", in["server"]) IN
     \/ /\ b.code = "busy"
        /\ in' = [in EXCEPT !["server"] = b]
        /\ server' = "authed"
        /\ IF server = "authed" THEN UNCHANGED iv
           ELSE \E p \in OwnPrefix(b.prefix) :
                  iv' = [iv EXCEPT !["server"] = [prefix |-> p, counter |-> 0]]
        /\ UNCHANGED <<out, writing, reading>>
     \/ b.code = "ok" /\ AsyncRead(b, server) /\ UNCHANGED iv
     \/ /\ b.code \notin {"ok", "busy"}
        /\ in' = [in EXCEPT !["server"] = b]
        /\ CloseSocket
        /\ UNCHANGED iv
  /\ UNCHANGED <<client, armed, stream, key, made, used, relogin>>

\* AsyncReadCallback while the greetcode is awaited; once it is there nothing
\* is read before the database's answer.
ReadGreetcode(b) ==
  /\ IF Len(Active(b)) < GreetLen
     THEN AsyncRead(b, "greet")
     ELSE /\ in' = [in EXCEPT !["server"] = [b EXCEPT !.rpos = @ + GreetLen]]
          /\ server' = "pending"
          /\ reading' = FALSE
          /\ UNCHANGED <<out, writing>>
  /\ UNCHANGED iv

\* InternalReadCallback with r units, or with an error.
InternalReadCallback ==
  /\ reading
  /\ \/ \E r \in 1 .. Smaller(Room(in["server"]), Len(stream["client"])) :
          \E b \in {Received("server", in["server"], r)} :
          /\ stream' = [stream EXCEPT !["client"] = SubSeq(@, r + 1, Len(@))]
          /\ IF server = "greet" THEN ReadGreetcode(b)
             ELSE BeginPackets(b) /\ UNCHANGED server
     \/ /\ client = "gone" /\ stream["client"] = <<>>
        /\ CloseSocket
        /\ UNCHANGED <<stream, in, iv>>
  /\ UNCHANGED <<client, armed, key, made, used, relogin>>

\* The greetcode's row is there and recent, or not.
DBCallback_GreetcodeLookup ==
  /\ server = "pending"
  /\ \/ server' = "gathered" /\ BeginPackets(in["server"])
     \/ CloseSocket /\ UNCHANGED <<in, iv>>
  /\ UNCHANGED <<client, armed, stream, key, made, used, relogin>>

\* A handler or ProcessPlayerPacketsQueue encrypts a packet and queues it.
ServerPacket ==
  /\ server = "authed" /\ made["server"] < MaxPackets
  /\ \E l \in Lens :
       /\ out' = [out EXCEPT !["server"] =
                    @ \o AESEncrypt(made["server"] + 1, l, iv["server"], key["server"])]
       /\ Encrypted("server", l, iv["server"])
  /\ iv' = [iv EXCEPT !["server"] = IncrementCounter(@)]
  /\ writing' = TRUE    \* AsyncWrite, unless a write is outstanding
  /\ UNCHANGED <<client, server, armed, reading, stream, in, key, relogin>>

\* What is left of the message at the front.
FrontLen(q) == Cardinality({i \in 1 .. Len(q) : q[i].msg = q[1].msg})

\* async_write_some took k units of the message at the front, or failed.
InternalWriteCallback ==
  /\ writing /\ ~Busy("server")
  /\ \/ \E k \in 1 .. Smaller(FrontLen(out["server"]), Free("server")) :
          /\ stream' = [stream EXCEPT !["server"] = @ \o SubSeq(out["server"], 1, k)]
          /\ out' = [out EXCEPT !["server"] = Sent(@, k)]
          /\ writing' = (out'["server"] # <<>>)
          /\ UNCHANGED <<server, reading>>
     \/ client = "gone" /\ CloseSocket /\ UNCHANGED stream
  /\ UNCHANGED <<client, armed, in, iv, key, made, used, relogin>>

\* A timeout, a kick, a handler that refuses a packet.
Drop ==
  /\ IsOpen
  /\ CloseSocket
  /\ UNCHANGED <<client, armed, stream, in, iv, key, made, used, relogin>>

------------------------------------------------------------------------------

Client == CheckIfWorldConnected \/ ClientPacket \/ NetworkUpdate \/ ClientReadCallback \/ Quit

Server == InternalReadCallback \/ AsyncReadCallback \/ InternalWriteCallback
            \/ DBCallback_GreetcodeLookup \/ ServerPacket \/ Drop

Next == Client \/ Server \/ SendLoginProof \/ LoginProofResponse

Spec == Init /\ [][Next]_vars

\* The client's frames and the network thread go on; the database answers.
Fairness ==
  /\ WF_vars(CheckIfWorldConnected) /\ WF_vars(NetworkUpdate) /\ WF_vars(ClientReadCallback)
  /\ WF_vars(InternalReadCallback) /\ WF_vars(AsyncReadCallback)
  /\ WF_vars(InternalWriteCallback) /\ WF_vars(DBCallback_GreetcodeLookup)

FairSpec == Spec /\ Fairness

------------------------------------------------------------------------------
(* Properties.                                                             *)

Units == [msg : 0 .. MaxPackets, part : 0 .. MaxPacket, len : {0} \cup Lens,
          prefix : {0} \cup Prefixes, counter : Nat, key : 0 .. 2]

Readers == [data : Seq(Units), rpos : Nat, size : BufSize .. BufMax, expected : Nat,
            prefix : {0} \cup Prefixes, handled : Seq(Nat),
            code : {"ok", "busy", "full", "malformed", "prefix", "counter", "tag"}]

IVs == [prefix : Prefixes, counter : Nat]

TypeOK ==
  /\ client \in {"connecting", "connected", "gone"}
  /\ server \in {"greet", "pending", "gathered", "authed", "closed"}
  /\ armed \in BOOLEAN /\ writing \in BOOLEAN /\ reading \in BOOLEAN
  /\ out \in [Sides -> Seq(Units)] /\ stream \in [Sides -> Seq(Units)]
  /\ in \in [Sides -> Readers]
  /\ \A s \in Sides : /\ Len(stream[s]) <= StreamSize
                      /\ Len(in[s].data) <= in[s].size /\ in[s].rpos <= Len(in[s].data)
  /\ iv \in [Sides -> IVs] /\ used \in Seq(IVs)
  /\ key \in [Sides -> 1 .. 2] /\ made \in [Sides -> 0 .. MaxPackets]
  /\ relogin \in {"no", "sent", "done"}

\* However the bytes are cut on their way, each side hands to its handlers
\* the packets the other side encrypted, once and in their order; and two
\* unmodified programs never refuse each other: no read finds its buffer full
\* and no packet fails a check of AESDecrypt, as long as the client does not
\* log in again while it is connected to the world.
HonestAccepted ==
  \A s \in Sides :
    /\ Len(in[s].handled) <= made[Other(s)]
    /\ \A i \in DOMAIN in[s].handled : in[s].handled[i] = i
    /\ relogin = "no" => in[s].code \in {"ok", "busy"}

\* No IV goes out twice under the session key, from either side, as long as
\* the client does not log in again.
IVOnce ==
  relogin = "no" => \A i, j \in DOMAIN used : i # j => used[i] # used[j]

\* A packet that was queued is handled by the peer, without another packet or
\* event to push it, unless the connection ends.
AllDelivered ==
  \A s \in Sides, n \in 1 .. MaxPackets :
    made[s] >= n ~> \/ n <= Len(in[Other(s)].handled)
                    \/ server = "closed" \/ client = "gone"
==============================================================================
