------------------------- MODULE LoadGeneratorProofs -------------------------
(***************************************************************************)
(* Theorems of LoadGenerator, for any number of threads and of sockets a   *)
(* thread may have.                                                        *)
(***************************************************************************)
EXTENDS LoadGenerator, FiniteSetTheorems, TLAPS

------------------------------------------------------------------------------
(* A bot: its handlers keep its kind, so that none makes a place free.     *)

BotTypes == {HammerSocketTypes[i] : i \in Turns}

\* What a handler makes of a bot.
SameKind(b, c) == c \in Bots /\ c.type = b.type

LEMMA TypesAreNames == \A x \in BotTypes : x # "none"
<1>1. Turns = 1 .. 7
  BY DEF Turns, HammerSocketTypes
<1>2. \A i \in 1 .. 7 : i \in {1, 2, 3, 4, 5, 6, 7}
  OBVIOUS
<1> QED
  BY <1>1, <1>2 DEF BotTypes, HammerSocketTypes

LEMMA BotsAre ==
  Bots = [type : {"none"} \cup BotTypes, listed : BOOLEAN,
          state : {"DEFAULT", "RESOLVING", "CONNECTING", "HANDSHAKING",
                   "JUST_CONNECTED", "CONNECTED", "CRITICAL_ERROR"},
          op : {"none", "resolve", "connect", "handshake"},
          status : {"GATHER_INFO", "LOGIN_ATTEMPT", "AUTHED", "GATHER_REALMLIST_PENDING"},
          asked : {"none", "info", "proof", "realms"}, reading : BOOLEAN,
          death : {"off", "armed", "fired"}, life : {"open", "closing", "closed"}]
  BY DEF Bots, BotTypes

LEMMA ClosingKeepsKind ==
  ASSUME NEW b \in Bots
  PROVE  /\ SameKind(b, CloseSocket(b)) /\ SameKind(b, ForceCloseSocket(b))
         /\ SameKind(b, Refused(b)) /\ SameKind(b, CloseSocket([b EXCEPT !.death = "fired"]))
<1>1. ASSUME NEW c \in Bots
      PROVE  SameKind(c, CloseSocket(c)) /\ SameKind(c, ForceCloseSocket(c))
  <2>1. SameKind(c, [c EXCEPT !.life = "closing"])
    BY BotsAre DEF SameKind
  <2>2. SameKind(c, [c EXCEPT !.life = "closed", !.state = "CRITICAL_ERROR", !.reading = FALSE])
    BY BotsAre DEF SameKind
  <2> QED
    BY <2>1, <2>2 DEF SameKind, CloseSocket, ForceCloseSocket
<1>2. ASSUME NEW c \in Bots
      PROVE  /\ SameKind(c, [c EXCEPT !.reading = FALSE, !.asked = "none"])
             /\ SameKind(c, [c EXCEPT !.death = "fired"])
  BY BotsAre DEF SameKind
<1>3. SameKind(b, Refused(b))
  BY <1>1, <1>2 DEF SameKind, Refused
<1>4. SameKind(b, CloseSocket([b EXCEPT !.death = "fired"]))
  BY <1>1, <1>2 DEF SameKind
<1> QED
  BY <1>1, <1>3, <1>4

LEMMA ConnectingKeepsKind ==
  ASSUME NEW b \in Bots
  PROVE  /\ SameKind(b, UpdateBot([b EXCEPT !.listed = TRUE]))
         /\ SameKind(b, Failed(b))
         /\ b.op # "none" => SameKind(b, Completed(b))
<1>1. SameKind(b, Failed(b))
  BY BotsAre DEF SameKind, Failed
<1>2. b.op # "none" => SameKind(b, Completed(b))
  BY BotsAre DEF SameKind, Completed
<1>3. ASSUME NEW c \in Bots
      PROVE  SameKind(c, AtDefault(c)) /\ SameKind(c, AtJustConnected(c))
  <2>1. ASSUME NEW d \in Bots
        PROVE  /\ SameKind(d, [d EXCEPT !.death = "armed"])
               /\ SameKind(d, [d EXCEPT !.state = "RESOLVING", !.op = "resolve"])
    <3>1. SameKind(d, [d EXCEPT !.death = "armed"])
      BY BotsAre DEF SameKind
    <3>2. SameKind(d, [d EXCEPT !.state = "RESOLVING", !.op = "resolve"])
      BY BotsAre DEF SameKind
    <3> QED
      BY <3>1, <3>2
  <2>2. SameKind(c, AtDefault(c))
    BY <2>1 DEF SameKind, AtDefault
  <2>3. \A r \in BOOLEAN, a \in {"none", "info"} :
          SameKind(c, [c EXCEPT !.state = "CONNECTED", !.reading = r, !.asked = a])
    BY BotsAre DEF SameKind
  <2>4. IsOpen(c) \in BOOLEAN
    BY DEF IsOpen
  <2>5. SameKind(c, AtJustConnected(c))
    BY <2>3, <2>4 DEF SameKind, AtJustConnected
  <2> QED
    BY <2>2, <2>5
<1>4. [b EXCEPT !.listed = TRUE] \in Bots /\ [b EXCEPT !.listed = TRUE].type = b.type
  BY BotsAre
<1> QED
  BY <1>1, <1>2, <1>3, <1>4 DEF UpdateBot, SameKind

LEMMA AnswersKeepKind ==
  ASSUME NEW b \in Bots, b.asked # "none"
  PROVE  SameKind(b, Granted(b))
<1>1. ASSUME NEW c \in Bots, NEW st \in {"GATHER_INFO", "LOGIN_ATTEMPT", "AUTHED", "GATHER_REALMLIST_PENDING"},
             NEW a \in {"none", "info", "proof", "realms"}
      PROVE  SameKind(c, Next3(c, st, a))
  <2>1. \A r \in BOOLEAN : SameKind(c, [c EXCEPT !.status = st, !.asked = a, !.reading = r])
    BY BotsAre DEF SameKind
  <2>2. IsOpen(c) \in BOOLEAN
    BY DEF IsOpen
  <2> QED
    BY <2>1, <2>2 DEF Next3
<1>2. b.asked \in {"info", "proof", "realms"}
  BY BotsAre
<1>3. CASE b.asked = "info"
  BY <1>1, <1>3 DEF Granted, GatherInfoResponse
<1>4. CASE b.asked = "proof"
  BY <1>1, <1>4 DEF Granted, LoginProofResponse
<1>5. CASE b.asked = "realms"
  BY <1>1, <1>5, ClosingKeepsKind DEF Granted, GatherRealmsResponse, SameKind
<1> QED
  BY <1>2, <1>3, <1>4, <1>5

------------------------------------------------------------------------------
(* The places of a thread.                                                 *)

SlotsOf(t) == {t} \X (1 .. Max)

LEMMA PlacesOfThread ==
  ASSUME NEW t \in Threads
  PROVE  /\ IsFiniteSet(SlotsOf(t)) /\ Cardinality(SlotsOf(t)) = Max
         /\ SlotsOf(t) = {k \in Slots : k[1] = t}
<1>1. Max \in Nat /\ ~(1 > Max)
  BY SizesAssumption
<1>2. IsFiniteSet(1 .. Max) /\ Cardinality(1 .. Max) = Max
  <2>1. IsFiniteSet(1 .. Max) /\ Cardinality(1 .. Max) = IF 1 > Max THEN 0 ELSE Max - 1 + 1
    BY <1>1, FS_Interval
  <2> QED
    BY <1>1, <2>1
<1>3. [i \in 1 .. Max |-> <<t, i>>] \in Bijection(1 .. Max, SlotsOf(t))
  <2> DEFINE f == [i \in 1 .. Max |-> <<t, i>>]
  <2>1. f \in [1 .. Max -> SlotsOf(t)] /\ \A i \in 1 .. Max : f[i] = <<t, i>>
    BY DEF SlotsOf
  <2>2. \A i, j \in 1 .. Max : f[i] = f[j] => i = j
    BY <2>1
  <2>3. \A k \in SlotsOf(t) : \E i \in 1 .. Max : f[i] = k
    <3> SUFFICES ASSUME NEW k \in SlotsOf(t) PROVE \E i \in 1 .. Max : f[i] = k
      OBVIOUS
    <3>1. k[2] \in 1 .. Max /\ k = <<t, k[2]>>
      BY DEF SlotsOf
    <3> QED
      BY <2>1, <3>1
  <2> HIDE DEF f
  <2>4. f \in Bijection(1 .. Max, SlotsOf(t))
    BY <2>1, <2>2, <2>3 DEF Bijection, Injection, IsInjective, Surjection
  <2> QED
    BY <2>4 DEF f
<1>4. IsFiniteSet(SlotsOf(t)) /\ Cardinality(SlotsOf(t)) = Cardinality(1 .. Max)
  BY <1>2, <1>3, FS_Bijection DEF ExistsBijection
<1> QED
  BY <1>2, <1>4 DEF SlotsOf, Slots

\* The sockets of a thread are finitely many, at most Max; and a thread with
\* fewer has a free place.
LEMMA OnThreadFinite ==
  ASSUME NEW t \in Threads
  PROVE  /\ IsFiniteSet(OnThread(t)) /\ Cardinality(OnThread(t)) \in 0 .. Max
         /\ Cardinality(OnThread(t)) < Max => IsFree(t)
<1>1. OnThread(t) \subseteq SlotsOf(t)
  BY PlacesOfThread DEF OnThread
<1>2. IsFiniteSet(OnThread(t)) /\ Cardinality(OnThread(t)) <= Max /\ Cardinality(OnThread(t)) \in Nat
  BY <1>1, PlacesOfThread, FS_Subset, FS_CardinalityType
<1>3. ASSUME ~IsFree(t)
      PROVE  Cardinality(OnThread(t)) = Max
  <2>1. SlotsOf(t) \subseteq OnThread(t)
    BY <1>3, PlacesOfThread DEF IsFree, OnThread, SlotsOf
  <2> QED
    BY <1>1, <2>1, PlacesOfThread
<1> QED
  BY <1>2, <1>3, SizesAssumption

------------------------------------------------------------------------------
(* The inductive invariant.  A place is free only by Update, which counts  *)
(* it: no handler of a socket makes NoBot of it, since a bot has a kind.   *)

BotsHaveKinds == \A k \in Slots : bot[k] # NoBot => bot[k].type \in BotTypes

NotStarted == phase = "init" => \A t \in Threads : net[t] = "off"

LoadInv == TypeOK /\ BotsHaveKinds /\ NotStarted /\ SocketsWithinLimit

LEMMA NoBotType == NoBot \in Bots /\ NoBot.type = "none"
  BY BotsAre DEF NoBot

LEMMA InitLoadInv == Init => LoadInv
<1> SUFFICES ASSUME Init PROVE LoadInv
  OBVIOUS
<1>1. TypeOK
  BY NoBotType, SizesAssumption DEF Init, TypeOK, Turns, HammerSocketTypes
<1>2. \A t \in Threads : OnThread(t) = {}
  BY DEF Init, OnThread
<1>3. \A t \in Threads : Cardinality(OnThread(t)) = 0
  BY <1>2, FS_EmptySet
<1>4. SocketsWithinLimit
  BY <1>3, SizesAssumption DEF Init, SocketsWithinLimit
<1> QED
  BY <1>1, <1>4 DEF Init, LoadInv, BotsHaveKinds, NotStarted

\* A handler replaces a bot by one of its kind: nothing to count.
LEMMA HandlerKeepsLoadInv ==
  ASSUME LoadInv, NEW k \in Slots, NEW b, bot[k] # NoBot, SameKind(bot[k], b), Becomes(k, b)
  PROVE  LoadInv'
<1>1. /\ bot \in [Slots -> Bots] /\ b \in Bots /\ b.type = bot[k].type /\ bot' = [bot EXCEPT ![k] = b]
      /\ UNCHANGED <<phase, turn, number, erased, net>>
  BY DEF LoadInv, TypeOK, SameKind, Becomes
<1>2. b # NoBot /\ b.type \in BotTypes
  BY <1>1, TypesAreNames, NoBotType DEF LoadInv, BotsHaveKinds
<1>3. \A t \in Threads : OnThread(t)' = OnThread(t)
  BY <1>1, <1>2 DEF OnThread
<1>4. TypeOK' /\ BotsHaveKinds'
  BY <1>1, <1>2 DEF LoadInv, TypeOK, BotsHaveKinds
<1>5. SocketsWithinLimit'
  BY <1>1, <1>3 DEF LoadInv, SocketsWithinLimit
<1> QED
  BY <1>1, <1>4, <1>5 DEF LoadInv, NotStarted

LEMMA SocketKeepsLoadInv ==
  ASSUME LoadInv, NEW k \in Slots, Socket(k)
  PROVE  LoadInv'
<1>1. bot[k] \in Bots
  BY DEF LoadInv, TypeOK
<1>2. bot[k] # NoBot
  BY DEF Socket, ConnectHandler, DeathTimer, ShutdownHandler, ReadHandler, NoBot
<1>3. CASE ConnectHandler(k)
  BY <1>1, <1>2, <1>3, ConnectingKeepsKind, HandlerKeepsLoadInv DEF ConnectHandler
<1>4. CASE DeathTimer(k) \/ ShutdownHandler(k)
  BY <1>1, <1>2, <1>4, ClosingKeepsKind, HandlerKeepsLoadInv DEF DeathTimer, ShutdownHandler
<1>5. CASE ReadHandler(k)
  BY <1>1, <1>2, <1>5, ClosingKeepsKind, AnswersKeepKind, HandlerKeepsLoadInv DEF ReadHandler
<1> QED
  BY <1>3, <1>4, <1>5 DEF Socket

\* A thread erases its dead sockets and keeps their number for the count.
LEMMA UpdateKeepsLoadInv ==
  ASSUME LoadInv, NEW t \in Threads, Update(t)
  PROVE  LoadInv'
<1> DEFINE D == {k \in OnThread(t) : Dead(bot[k])}
<1>1. /\ bot \in [Slots -> Bots] /\ number \in [Threads -> Int] /\ erased \in [Threads -> 0 .. Max]
      /\ erased' = [erased EXCEPT ![t] = Cardinality(D)] /\ erased[t] = 0
      /\ UNCHANGED <<phase, turn, number, net>> /\ net[t] # "ended"
  BY DEF LoadInv, TypeOK, Update
<1>2. \A k \in Slots : bot'[k] = IF k \notin OnThread(t) THEN bot[k]
                                 ELSE IF Dead(bot[k]) THEN NoBot
                                 ELSE UpdateBot([bot[k] EXCEPT !.listed = TRUE])
  BY DEF Update
<1>3. \A k \in Slots : SameKind(bot[k], UpdateBot([bot[k] EXCEPT !.listed = TRUE]))
  BY <1>1, ConnectingKeepsKind
<1>4. bot' \in [Slots -> Bots]
  <2>1. bot' = [k \in Slots |-> bot'[k]]
    BY DEF Update
  <2> QED
    BY <1>1, <1>2, <1>3, <2>1, NoBotType DEF SameKind
<1>5. \A k \in OnThread(t) \ D : bot'[k] # NoBot /\ bot'[k].type = bot[k].type
  BY <1>2, <1>3, TypesAreNames, NoBotType DEF OnThread, SameKind, LoadInv, BotsHaveKinds
<1>6. OnThread(t)' = OnThread(t) \ D
  <2>1. \A k \in D : bot'[k] = NoBot
    BY <1>2 DEF OnThread
  <2>2. \A k \in Slots : k \notin OnThread(t) => bot'[k] = bot[k]
    BY <1>2
  <2> QED
    BY <1>5, <2>1, <2>2 DEF OnThread
<1>7. \A u \in Threads : u # t => OnThread(u)' = OnThread(u)
  <2>1. \A k \in Slots : k[1] # t => bot'[k] = bot[k]
    BY <1>2 DEF OnThread
  <2> QED
    BY <2>1 DEF OnThread
<1> HIDE DEF D
<1>8. /\ IsFiniteSet(OnThread(t)) /\ Cardinality(OnThread(t)) \in 0 .. Max
      /\ IsFiniteSet(D) /\ Cardinality(D) \in 0 .. Max
      /\ Cardinality(OnThread(t) \ D) = Cardinality(OnThread(t)) - Cardinality(D)
  <2>1. IsFiniteSet(OnThread(t)) /\ Cardinality(OnThread(t)) \in 0 .. Max
    BY OnThreadFinite
  <2>2. D \subseteq OnThread(t)
    BY DEF D
  <2>3. IsFiniteSet(D) /\ Cardinality(D) \in Nat /\ Cardinality(D) <= Cardinality(OnThread(t))
    BY <2>1, <2>2, FS_Subset, FS_CardinalityType
  <2>4. Cardinality(OnThread(t) \ D) = Cardinality(OnThread(t)) - Cardinality(OnThread(t) \cap D)
    BY <2>1, FS_Difference
  <2>5. OnThread(t) \cap D = D
    BY <2>2
  <2> QED
    BY <2>1, <2>3, <2>4, <2>5, SizesAssumption
<1>9. TypeOK'
  BY <1>1, <1>4, <1>8 DEF LoadInv, TypeOK
<1>10. BotsHaveKinds'
  <2>1. \A k \in OnThread(t) : bot'[k] = NoBot \/ bot'[k].type = bot[k].type
    BY <1>2, <1>5 DEF D, OnThread
  <2> QED
    BY <1>2, <2>1 DEF LoadInv, BotsHaveKinds, OnThread
<1>11. SocketsWithinLimit'
  <2> SUFFICES ASSUME NEW u \in Threads, net[u] # "ended"
               PROVE  number[u] = Cardinality(OnThread(u)') + erased'[u] /\ number[u] \in 0 .. Max
    BY <1>1 DEF SocketsWithinLimit
  <2>1. number[u] = Cardinality(OnThread(u)) + erased[u] /\ number[u] \in 0 .. Max
    BY DEF LoadInv, SocketsWithinLimit
  <2>2. CASE u # t
    BY <1>1, <1>7, <2>1, <2>2
  <2>3. CASE u = t
    <3>1. Cardinality(OnThread(t)') = Cardinality(OnThread(t)) - Cardinality(D) /\ erased'[t] = Cardinality(D)
      BY <1>1, <1>6, <1>8
    <3> QED
      BY <1>1, <1>8, <2>1, <2>3, <3>1
  <2> QED
    BY <2>2, <2>3
<1> QED
  BY <1>1, <1>9, <1>10, <1>11 DEF LoadInv, NotStarted

\* One new socket at a free place of each thread that has room.
LEMMA DistributingKeepsLoadInv ==
  ASSUME LoadInv, DistributeNewSocketsHandler
  PROVE  LoadInv'
<1>1. /\ bot \in [Slots -> Bots] /\ number \in [Threads -> Int] /\ turn \in Turns
      /\ UNCHANGED <<phase, erased, net>> /\ turn' = TurnAt(N)
      /\ \A t \in Threads : number'[t] = IF HasRoom(t) THEN number[t] + 1 ELSE number[t]
      /\ number' \in [Threads -> Int]
  BY DEF LoadInv, TypeOK, DistributeNewSocketsHandler
<1>2. \A i \in Nat : TurnAt(i) \in Turns
  <2>1. Turns = 1 .. 7 /\ Len(HammerSocketTypes) = 7
    BY DEF Turns, HammerSocketTypes
  <2>2. \A n \in Nat : n % 7 \in 0 .. 6
    OBVIOUS
  <2>3. turn \in 1 .. 7
    BY <1>1, <2>1
  <2>4. \A i \in Nat : TurnAt(i) = 1 + ((turn - 1 + i) % 7)
    BY <2>1 DEF TurnAt
  <2>5. ASSUME NEW i \in Nat
        PROVE  TurnAt(i) \in 1 .. 7
    <3>1. turn - 1 + i \in Nat
      BY <2>3
    <3>2. (turn - 1 + i) % 7 \in 0 .. 6
      BY <2>2, <3>1
    <3> QED
      BY <2>4, <3>2
  <2> QED
    BY <2>1, <2>5
<1> DEFINE new(t) == NewBot(HammerSocketTypes[TurnAt(t)])
<1>3. \A t \in Threads : new(t) \in Bots /\ new(t).type \in BotTypes /\ new(t) # NoBot
  <2>1. \A t \in Threads : HammerSocketTypes[TurnAt(t)] \in BotTypes
    BY <1>2, SizesAssumption DEF BotTypes, Threads
  <2>2. \A x \in BotTypes : NewBot(x) \in Bots /\ NewBot(x).type = x
    BY BotsAre DEF NewBot, NoBot
  <2> QED
    BY <2>1, <2>2, TypesAreNames, NoBotType
<1>4. \A k \in Slots : bot'[k] = IF HasRoom(k[1]) /\ IsFree(k[1]) /\ k = FreeSlot(k[1])
                                 THEN new(k[1]) ELSE bot[k]
  BY DEF DistributeNewSocketsHandler
<1>5. \A k \in Slots : k[1] \in Threads
  BY DEF Slots
<1>6. bot' \in [Slots -> Bots]
  <2>1. bot' = [k \in Slots |-> bot'[k]]
    BY DEF DistributeNewSocketsHandler
  <2> QED
    BY <1>1, <1>3, <1>4, <1>5, <2>1
<1> HIDE DEF new
<1>7. \A k \in Slots : bot'[k] = bot[k] \/ (bot'[k].type \in BotTypes /\ bot'[k] # NoBot)
  BY <1>3, <1>4, <1>5
<1>8. TypeOK'
  BY <1>1, <1>2, <1>6, SizesAssumption DEF LoadInv, TypeOK
<1>9. BotsHaveKinds'
  BY <1>7 DEF LoadInv, BotsHaveKinds
<1>10. ASSUME NEW t \in Threads, HasRoom(t), IsFree(t)
       PROVE  /\ FreeSlot(t) \notin OnThread(t)
              /\ OnThread(t)' = OnThread(t) \cup {FreeSlot(t)}
  <2>1. FreeSlot(t) \in SlotsOf(t) /\ bot[FreeSlot(t)] = NoBot
    BY <1>10 DEF IsFree, FreeSlot, SlotsOf
  <2>2. FreeSlot(t) \in Slots /\ FreeSlot(t)[1] = t
    BY <2>1, PlacesOfThread
  <2>3. bot'[FreeSlot(t)] = new(t) /\ \A k \in Slots : k[1] = t /\ k # FreeSlot(t) => bot'[k] = bot[k]
    BY <1>4, <1>10, <2>2
  <2> HIDE DEF FreeSlot
  <2> QED
    BY <1>3, <2>1, <2>2, <2>3 DEF OnThread
<1>11. ASSUME NEW t \in Threads, ~(HasRoom(t) /\ IsFree(t))
       PROVE  OnThread(t)' = OnThread(t)
  BY <1>4, <1>11 DEF OnThread
<1>12. SocketsWithinLimit'
  <2> SUFFICES ASSUME NEW t \in Threads, net[t] # "ended"
               PROVE  number'[t] = Cardinality(OnThread(t)') + erased[t] /\ number'[t] \in 0 .. Max
    BY <1>1 DEF SocketsWithinLimit
  <2>1. /\ number[t] = Cardinality(OnThread(t)) + erased[t] /\ number[t] \in 0 .. Max
        /\ erased[t] \in Nat
    BY DEF LoadInv, SocketsWithinLimit, TypeOK
  <2>2. IsFiniteSet(OnThread(t)) /\ Cardinality(OnThread(t)) \in Nat
    BY OnThreadFinite, SizesAssumption
  <2>3. CASE HasRoom(t)
    <3>1. number[t] < Max /\ number'[t] = number[t] + 1
      BY <1>1, <2>3 DEF HasRoom
    <3>2. IsFree(t)
      BY <2>1, <2>2, <3>1, OnThreadFinite, SizesAssumption
    <3>3. Cardinality(OnThread(t)') = Cardinality(OnThread(t)) + 1
      BY <1>10, <2>2, <2>3, <3>2, FS_AddElement
    <3> QED
      BY <2>1, <2>2, <3>1, <3>3, SizesAssumption
  <2>4. CASE ~HasRoom(t)
    BY <1>1, <1>11, <2>1, <2>4
  <2> QED
    BY <2>3, <2>4
<1> QED
  BY <1>1, <1>8, <1>9, <1>12 DEF LoadInv, NotStarted

LEMMA StepKeepsLoadInv == LoadInv /\ [Next]_vars => LoadInv'
<1> SUFFICES ASSUME LoadInv, [Next]_vars PROVE LoadInv'
  OBVIOUS
<1>1. CASE Boot \/ Stop \/ Join \/ UNCHANGED vars
  <2>1. /\ UNCHANGED <<turn, number, erased, bot>> /\ TypeOK'
        /\ \A t \in Threads : net'[t] # "ended" => net[t] # "ended"
        /\ NotStarted'
    BY <1>1 DEF LoadInv, TypeOK, NotStarted, Boot, Stop, Join, vars
  <2> QED
    BY <2>1 DEF LoadInv, BotsHaveKinds, SocketsWithinLimit, OnThread
<1>2. ASSUME NEW t \in Threads, Uncount(t)
      PROVE  LoadInv'
  <2>1. /\ number' = [number EXCEPT ![t] = number[t] - erased[t]] /\ erased' = [erased EXCEPT ![t] = 0]
        /\ UNCHANGED <<phase, turn, net, bot>>
        /\ number \in [Threads -> Int] /\ erased \in [Threads -> 0 .. Max]
    BY <1>2 DEF LoadInv, TypeOK, Uncount, CountErased
  <2>2. TypeOK' /\ BotsHaveKinds'
    BY <2>1, SizesAssumption DEF LoadInv, TypeOK, BotsHaveKinds
  <2>3. SocketsWithinLimit'
    <3> SUFFICES ASSUME NEW u \in Threads, net[u] # "ended"
                 PROVE  number'[u] = Cardinality(OnThread(u)) + erased'[u] /\ number'[u] \in 0 .. Max
      BY <2>1 DEF SocketsWithinLimit, OnThread
    <3>1. number[u] = Cardinality(OnThread(u)) + erased[u] /\ Cardinality(OnThread(u)) \in 0 .. Max
          /\ number[u] \in 0 .. Max
      BY OnThreadFinite DEF LoadInv, SocketsWithinLimit
    <3> QED
      BY <2>1, <3>1, SizesAssumption
  <2> QED
    BY <2>1, <2>2, <2>3 DEF LoadInv, NotStarted
<1>3. ASSUME NEW t \in Threads, End(t)
      PROVE  LoadInv'
  <2>1. /\ bot' = [k \in Slots |-> IF k[1] = t THEN NoBot ELSE bot[k]] /\ bot \in [Slots -> Bots]
        /\ net' = [net EXCEPT ![t] = "ended"] /\ UNCHANGED <<phase, turn, number, erased>>
        /\ net \in [Threads -> {"off", "running", "ended"}]
    BY <1>3 DEF LoadInv, TypeOK, End
  <2>2. TypeOK' /\ BotsHaveKinds'
    BY <2>1, NoBotType DEF LoadInv, TypeOK, BotsHaveKinds
  <2>3. \A u \in Threads : u # t => OnThread(u)' = OnThread(u)
    BY <2>1 DEF OnThread
  <2> QED
    BY <1>3, <2>1, <2>2, <2>3 DEF LoadInv, SocketsWithinLimit, NotStarted, End
<1> QED
  BY <1>1, <1>2, <1>3, SocketKeepsLoadInv, UpdateKeepsLoadInv, DistributingKeepsLoadInv DEF Next, Thread

\* While a thread of the load generator runs, its m_socketsNumber is the number
\* of sockets it holds, with those just erased, and never above
\* MAX_SOCKETS_PER_THREAD: for any number of threads and any such maximum.
THEOREM LoadWithinLimit == Spec => []SocketsWithinLimit
<1>1. LoadInv => SocketsWithinLimit
  BY DEF LoadInv
<1> QED
  BY <1>1, InitLoadInv, StepKeepsLoadInv, PTL DEF Spec
==============================================================================
