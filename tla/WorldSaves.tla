------------------------------ MODULE WorldSaves ------------------------------
(***************************************************************************)
(* What happens to the progress of a character between two stays in the    *)
(* world.  WorldSessions is composed with the characters database: the     *)
(* simulation saves a leaving character with a fire-and-forget UPDATE, and *)
(* a session that enters the world spawns the row its SELECT returned.     *)
(*                                                                         *)
(* One DB worker executes the requests in the order they were enqueued.    *)
(* The progress of a character (level, xp, position) is a version number   *)
(* that grows when the character does something in the world.              *)
(***************************************************************************)
EXTENDS WorldSessions

CONSTANT MaxProgress   \* bound: how often a character progresses

ASSUME MaxProgressAssumption == MaxProgress \in Nat

VARIABLES
  dbQueue,   \* the characters DB worker's queue, in order
  row,       \* the character's row in the database
  fetched,   \* the row a session's last SELECT returned (CharacterData)
  live,      \* the character's data in its player entity
  latest     \* history: the furthest the character ever got in the world

dbVars == <<dbQueue, row, fetched, live, latest>>
savesVars == <<vars, dbVars>>

SavesInit ==
  /\ Init
  /\ dbQueue = <<>>
  /\ row = [c \in Chars |-> 0]
  /\ fetched = [s \in Sessions |-> 0]
  /\ live = [c \in Chars |-> 0]
  /\ latest = [c \in Chars |-> 0]

\* SavePlayerOnDatabase: nothing to save when the entity is gone.
Save(g) ==
  LET here == {p \in players : p.guid = g} IN
  \/ /\ here = {}
     /\ UNCHANGED dbQueue
  \/ \E p \in here :
       dbQueue' = Append(dbQueue, [type |-> "save", char |-> p.char, data |-> live[p.char]])

\* The SELECT of ENTER_WORLD goes through the same queue.
EnterWorld(s, c) ==
  /\ HandleEnterWorld(s, c)
  /\ dbQueue' = IF requests' = requests THEN dbQueue
                ELSE Append(dbQueue, [type |-> "load", sess |-> s, char |-> c])
  /\ UNCHANGED <<row, fetched, live, latest>>

\* Slip: the SELECT overtakes the saves that are waiting, as it may when there
\* are several workers.
ExecuteLoadFirst ==
  /\ \E i \in DOMAIN dbQueue :
       /\ dbQueue[i].type = "load"
       /\ LET s == dbQueue[i].sess
              c == dbQueue[i].char IN
            /\ Respond(s, [type |-> "enter", char |-> c])
            /\ fetched' = [fetched EXCEPT ![s] = row[c]]
       /\ dbQueue' = RemoveAt(dbQueue, i)
  /\ UNCHANGED <<row, live, latest>>

ExecuteLoad ==
  /\ dbQueue # <<>> /\ Head(dbQueue).type = "load"
  /\ LET s == Head(dbQueue).sess
         c == Head(dbQueue).char IN
       /\ Respond(s, [type |-> "enter", char |-> c])
       /\ fetched' = [fetched EXCEPT ![s] = row[c]]
  /\ dbQueue' = Tail(dbQueue)
  /\ UNCHANGED <<row, live, latest>>

ExecuteSave ==
  /\ dbQueue # <<>> /\ Head(dbQueue).type = "save"
  /\ row' = [row EXCEPT ![Head(dbQueue).char] = Head(dbQueue).data]
  /\ dbQueue' = Tail(dbQueue)
  /\ UNCHANGED <<vars, fetched, live, latest>>

\* The requests of the other databases and handlers.
RespondOther ==
  /\ \E s \in Sessions : \E r \in requests[s] : r.type # "enter" /\ Respond(s, r)
  /\ UNCHANGED dbVars

\* The entity is created with the data the session's SELECT returned.
SpawnFetched ==
  /\ ExecSpawn
  /\ live' = IF players' = players THEN live
             ELSE [live EXCEPT ![Head(cmds).char] = fetched[Head(cmds).sess]]
  /\ UNCHANGED <<dbQueue, row, fetched, latest>>

\* EXIT_WORLD, or the destructor of the session: save, then despawn.
SaveAndDespawn ==
  /\ ExecExit \/ (CmdHead("leave") /\ ExecDespawn)
  /\ Save(Head(cmds).guid)
  /\ UNCHANGED <<row, fetched, live, latest>>

\* A rolled back spawn is not saved.
Rollback ==
  /\ CmdHead("rollback") /\ ExecDespawn
  /\ UNCHANGED dbVars

\* A movement command that changes the entity's data.
Progress ==
  /\ ExecMove
  /\ UNCHANGED packets
  /\ ~Expired(Head(cmds).sess)
  /\ \E p \in players :
       /\ p.guid = Head(cmds).guid
       /\ latest[p.char] < MaxProgress
       /\ live' = [live EXCEPT ![p.char] = @ + 1]
       /\ latest' = [latest EXCEPT ![p.char] = IF live[p.char] + 1 > @ THEN live[p.char] + 1 ELSE @]
  /\ UNCHANGED <<dbQueue, row, fetched>>

OtherNetwork(s) ==
  \/ Accept(s)
  \/ Disconnect(s)
  \/ HandleGreetcode(s)
  \/ HandleGreetPacket(s)
  \/ HandleEnumCharacter(s)
  \/ HandleExitWorld(s)
  \/ HandlePlayerMovementUpdate(s)
  \/ EndLateRead(s)
  \/ ProcessPlayerPacketsQueue(s)
  \/ ServeIo(s)
  \/ BeginDestroy(s)
  \/ FinishDestroy(s)

SavesNext ==
  \/ \E s \in Sessions :
       \/ \E c \in Chars : EnterWorld(s, c)
       \/ OtherNetwork(s) /\ UNCHANGED dbVars
  \/ RespondOther
  \/ ExecuteLoad
  \/ ExecuteSave
  \/ SpawnFetched
  \/ SaveAndDespawn
  \/ Rollback
  \/ Progress
  \/ (ExecMove \/ ZoneUpdate) /\ UNCHANGED dbVars

SavesSpec == SavesInit /\ [][SavesNext]_savesVars

------------------------------------------------------------------------------
SavesTypeOK ==
  /\ dbQueue \in Seq([type : {"load"}, sess : Sessions, char : Chars]
                     \cup [type : {"save"}, char : Chars, data : 0..MaxProgress])
  /\ row \in [Chars -> 0..MaxProgress]
  /\ fetched \in [Sessions -> 0..MaxProgress]
  /\ live \in [Chars -> 0..MaxProgress]
  /\ latest \in [Chars -> 0..MaxProgress]

\* Nothing of session s can reach the world any more: what it did is saved or
\* waits in the worker's queue to be.
Through(s) == life[s] = "dead" /\ \A p \in players : p.sess # s

\* A player comes back only when the session it had is through.
NoOverlap ==
  \A s, t \in Sessions :
    s # t /\ account[s] = account[t] /\ account[s] \in Accounts => Through(s) \/ Through(t)

\* A character that is in the world has everything it ever achieved: it was
\* spawned from the row its last stay saved, not from an older one.
NoProgressLost == \A p \in players : live[p.char] = latest[p.char]
==============================================================================
