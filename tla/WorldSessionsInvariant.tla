------------------------ MODULE WorldSessionsInvariant ------------------------
(***************************************************************************)
(* The inductive invariant of WorldSessions.  The safety properties speak  *)
(* of players, sessions and statuses; they hold because of what may be in  *)
(* the queues between the threads: at any time a session has at most one   *)
(* request, response or command under way that makes it enter the world,   *)
(* or one that makes it leave, and none that does not fit its status.      *)
(***************************************************************************)
EXTENDS WorldSessions

\* Among the elements of a queue at most one is in M.
Once(q, M) == \A i, j \in DOMAIN q : q[i] \in M /\ q[j] \in M => i = j

GreetMsgs   == {m \in IoMsgs : m.type = "greetcode"}
EnterMsgs   == {m \in IoMsgs : m.type \in {"enter", "spawned"}}
LeftMsgs    == {m \in IoMsgs : m.type = "left"}
SpawnsOf(s) == {c \in WorldCmds : c.type = "spawn" /\ c.sess = s}
ExitsOf(s)  == {c \in WorldCmds : c.type = "exit" /\ c.sess = s}

Spawned     == {m \in IoMsgs : m.type = "spawned" /\ m.ok}
AllDespawns == {c \in WorldCmds : c.type \in {"exit", "leave", "rollback"}}

Issued == 1..(nextGuid - 1)   \* the GUIDs given out so far

ExitPending(s, g) == Holds(cmds, {[type |-> "exit", sess |-> s, guid |-> g]})

EnterRequests(s) == {r \in requests[s] : r.type = "enter"}

Entering(s) == status[s] = "ENTERING_WORLD"
Inside(s)   == status[s] \in {"IN_WORLD", "LEAVING_WORLD"}

\* The session key is asked for once, before anything else happens; after that
\* the session has an account, which does not change.
OneGreeting(s) ==
  /\ Once(io[s], GreetMsgs)
  /\ [type |-> "greetcode"] \in requests[s] => ~Holds(io[s], GreetMsgs)
  /\ status[s] # "GATHER_SESSIONKEY_PENDING" =>
        [type |-> "greetcode"] \notin requests[s] /\ ~Holds(io[s], GreetMsgs)
  /\ status[s] \notin {"GATHER_SESSIONKEY", "GATHER_SESSIONKEY_PENDING"} => account[s] \in Accounts

GreetInv == TypeOK /\ \A s \in Sessions : OneGreeting(s)

\* A session enters once at a time: from its request until its result was
\* served there is one request, response or command, in one place.
OneEntry(s) ==
  /\ \A q, r \in EnterRequests(s) : q = r
  /\ Once(io[s], EnterMsgs)
  /\ Once(cmds, SpawnsOf(s))
  /\ EnterRequests(s) # {} => ~Holds(io[s], EnterMsgs) /\ ~Holds(cmds, SpawnsOf(s))
  /\ Holds(io[s], EnterMsgs) => ~Holds(cmds, SpawnsOf(s))
  /\ ~Entering(s) =>
        EnterRequests(s) = {} /\ ~Holds(io[s], EnterMsgs) /\ ~Holds(cmds, SpawnsOf(s))

\* A session leaves once at a time, with the entity it owns.
OneExit(s) ==
  /\ Once(io[s], LeftMsgs)
  /\ Once(cmds, ExitsOf(s))
  /\ Holds(io[s], LeftMsgs) => ~Holds(cmds, ExitsOf(s))
  /\ status[s] # "LEAVING_WORLD" => ~Holds(io[s], LeftMsgs) /\ ~Holds(cmds, ExitsOf(s))
  /\ \A g \in Issued : ExitPending(s, g) => g = playerGUID[s]

\* GUIDs name entities that were created; 0 names none.
GuidsIssued ==
  /\ \A p \in players : p.guid \in Issued
  /\ \A s \in Sessions : playerGUID[s] < nextGuid
  /\ ~Holds(cmds, {c \in AllDespawns : c.guid \notin Issued})
  /\ \A s \in Sessions : ~Holds(io[s], {m \in Spawned : m.guid \notin Issued})

\* A session owns an entity only while it is inside, its own; while it is in
\* the world it owns one.
OwnsInside ==
  \A s \in Sessions :
    /\ playerGUID[s] # 0 => Inside(s)
    /\ status[s] = "IN_WORLD" => playerGUID[s] # 0
    /\ \A p \in players : playerGUID[s] = p.guid => p.sess = s
    /\ life[s] = "none" => ~Entering(s) /\ ~Inside(s)

\* Who will take player p out of the world: its session, once it has the
\* result of the spawn; or the rollback, when the session closed before.
InCustody(p) ==
  \/ Entering(p.sess) /\ SpawnResultPending(p.sess, p.guid)
  \/ /\ Inside(p.sess) /\ playerGUID[p.sess] = p.guid
     /\ ~Holds(io[p.sess], LeftMsgs)
     /\ life[p.sess] = "dead" => DespawnPending(p.guid)
  \/ /\ Entering(p.sess) /\ life[p.sess] # "open"
     /\ DespawnPending(p.guid)
     /\ EnterRequests(p.sess) = {}
     /\ ~Holds(io[p.sess], EnterMsgs)
     /\ ~Holds(cmds, SpawnsOf(p.sess))

\* Player g of session s is there, and stays.
Settled(s, g) ==
  /\ \E p \in players : p.guid = g /\ p.sess = s
  /\ ~DespawnPending(g)

\* A session that is in the world, or will be told so, has its player.
Confirmed(s) ==
  /\ status[s] = "IN_WORLD" => Settled(s, playerGUID[s])
  /\ \A g \in Issued : SpawnResultPending(s, g) => Settled(s, g)

\* The packets of a session that is in the world, or will be, are its player's.
CleanPackets(s) ==
  /\ Holds(cmds, SpawnsOf(s)) => packets[s] = <<>>
  /\ \A i \in DOMAIN packets[s] :
       /\ status[s] = "IN_WORLD" => packets[s][i] = playerGUID[s]
       /\ \A g \in Issued : SpawnResultPending(s, g) => packets[s][i] = g

\* The inductive invariant of a session's way into the world and out of it.
WorldInv ==
  /\ GreetInv
  /\ IndexesAgree
  /\ GuidsIssued
  /\ OwnsInside
  /\ \A s \in Sessions : OneEntry(s) /\ OneExit(s) /\ Confirmed(s) /\ CleanPackets(s)
  /\ \A p \in players : InCustody(p)

------------------------------------------------------------------------------
(* Whose account a session is of, and which session holds the account.     *)

\* The session key is still to be asked for, looked up or answered.
GreetingDue(s) ==
  \/ status[s] = "GATHER_SESSIONKEY"
  \/ [type |-> "greetcode"] \in requests[s]
  \/ Holds(io[s], GreetMsgs)

\* What DBCallback_HandleEnterWorldChecks is there to keep out: the row of
\* another character than the one asked for, a spawn of a foreign one.
ForeignRows   == {m \in IoMsgs : m.type = "enter" /\ m.row \notin {Owner[m.char], NoAccount}}
ForeignSpawns == {c \in WorldCmds : c.type = "spawn" /\ Owner[c.char] # account[c.sess]}

\* The account of a session is set once, before it asks for anything else; so
\* what was checked against it stays true on the way into the world.
OwnershipInv ==
  /\ \A s \in Sessions : GreetingDue(s) => account[s] = NoAccount
  /\ \A s \in Sessions : ~Holds(io[s], ForeignRows)
  /\ ~Holds(cmds, ForeignSpawns)
  /\ PlayerOfOwnAccount

Taken == {a \in Accounts : sessions[a] # NoSlot}

AuthedStatus == {"AUTHED", "ENTERING_WORLD", "IN_WORLD", "LEAVING_WORLD"}

\* A session registers once, when it is authenticated, with a new serial.
OneRegistration(s) ==
  hasRegistered[s] =>
    /\ status[s] \in AuthedStatus
    /\ life[s] # "none"
    /\ serial[s] \in 1..(nextSerial - 1)
    /\ \A t \in Sessions : hasRegistered[t] /\ serial[t] = serial[s] => t = s

\* The slot of account a is that of a session which will free it.
SlotHeld(a) ==
  LET s == sessions[a].sess IN
  /\ hasRegistered[s] /\ ~Expired(s)
  /\ account[s] = a /\ serial[s] = sessions[a].serial

\* The inductive invariant of the registry.
RegistryInv ==
  /\ \A s \in Sessions : OneRegistration(s)
  /\ \A a \in Taken : SlotHeld(a)
  /\ OneSessionPerAccount
  /\ IsFiniteSet(Taken) /\ playerCount = Cardinality(Taken)
==============================================================================
