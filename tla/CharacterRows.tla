---------------------------- MODULE CharacterRows ----------------------------
(***************************************************************************)
(* Creating and deleting characters.  Each takes two requests to the       *)
(* characters database, one that checks and one that acts, with a callback *)
(* on the session's network thread after each.  Between them other         *)
(* requests execute, of the same session or of another, and the session    *)
(* may close or die.                                                       *)
(*                                                                         *)
(* The sessions are those that have become AUTHED; one that is in the      *)
(* world sends nothing meanwhile, and the callbacks do not look at its     *)
(* status.  A request is a job with a fixed content, sent at most once.    *)
(* A character is named by the creation that inserted its row: the ids of  *)
(* the table are never used twice.                                         *)
(***************************************************************************)
EXTENDS Naturals, FiniteSets

CONSTANTS
  Sessions, Creates, Deletes,
  By,        \* the session that sends a job
  Account,   \* a session's account
  Name,      \* the name a creation asks for
  Target,    \* the character a deletion names by its id,
  Typed,     \* and the name the player typed to confirm it
  Limit,     \* MAX_CHARACTERS_N_PER_ACCOUNT
  Depth      \* bound: creations of one account under way at a time

Jobs == Creates \cup Deletes

ASSUME JobsAssumption == Creates \cap Deletes = {} /\ IsFiniteSet(Creates)
ASSUME ContentAssumption ==
  /\ By \in [Jobs -> Sessions]
  /\ DOMAIN Account = Sessions
  /\ DOMAIN Name = Creates
  /\ Target \in [Deletes -> Creates]
  /\ DOMAIN Typed = Deletes
ASSUME LimitAssumption == Limit \in Nat /\ Depth \in Nat \ {0}

VARIABLES
  life,      \* open, closed (somebody still refers to it) or gone
  stage,     \* how far a job has come, see Stages
  rows,      \* the table: the creations whose character exists
  inserted,  \* history: creations that ever inserted their row
  removed    \* history: <<deletion, character>> of every row removed

vars == <<life, stage, rows, inserted, removed>>

Results  == {"full", "inUse", "absent", "passed", "done", "failed"}  \* posted
Ends     == {"success", "refused", "dropped"}  \* told the client, or never answered
Stages   == {"new", "checking", "acting"} \cup Results \cup Ends

Init ==
  /\ life = [s \in Sessions |-> "open"]
  /\ stage = [j \in Jobs |-> "new"]
  /\ rows = {}
  /\ inserted = {}
  /\ removed = {}

AccountOf(j)  == Account[By[j]]
CharsOf(a)    == {c \in rows : AccountOf(c) = a}
Goto(j, to)   == stage' = [stage EXCEPT ![j] = to]
Close(s)      == life' = [life EXCEPT ![s] = IF @ = "open" THEN "closed" ELSE @]

\* An end without an answer closes the connection.
Drop(j) == Goto(j, "dropped") /\ Close(By[j])

------------------------------------------------------------------------------
(* The packets.  A read that completed before the close is still handled.  *)

UnderWay(a) ==
  {k \in Creates : AccountOf(k) = a /\ stage[k] \notin {"new"} \cup Ends}

\* TryEnqueue of the checks; a handler that returns false closes the socket.
EnqueueChecks(j) ==
  /\ stage[j] = "new"
  /\ life[By[j]] # "gone"
  /\ \/ Goto(j, "checking") /\ UNCHANGED life
     \/ Drop(j)
  /\ UNCHANGED <<rows, inserted, removed>>

HandleCreateNewChar(k) ==
  /\ Cardinality(UnderWay(AccountOf(k))) < Depth
  /\ EnqueueChecks(k)

HandleDeleteCharacter(d) == EnqueueChecks(d)

------------------------------------------------------------------------------
(* The workers: requests of several workers execute in any order.  A       *)
(* request whose session is gone is skipped; one that fails has had its    *)
(* effect or not.                                                          *)

Runs(j, at) == stage[j] = at /\ life[By[j]] # "gone"

Skip(j) ==
  /\ stage[j] \in {"checking", "acting"}
  /\ life[By[j]] = "gone"
  /\ Goto(j, "dropped")
  /\ UNCHANGED <<life, rows, inserted, removed>>

\* A failed request, an INSERT or a DELETE that was executed included.
Answered(j, result) == \E r \in {result, "failed"} : Goto(j, r)

Fail(j) ==
  /\ Runs(j, "checking") \/ Runs(j, "acting")
  /\ Goto(j, "failed")
  /\ UNCHANGED <<life, rows, inserted, removed>>

\* Slip: the limit is exceeded by one.
HasRoomForOne(a) == Cardinality(CharsOf(a)) <= Limit

HasRoom(a) == Cardinality(CharsOf(a)) < Limit

NameInUse(k) == \E c \in rows : Name[c] = Name[k]

\* Both SELECTs of the checks are one transaction.
CheckCreate(k) ==
  /\ Runs(k, "checking")
  /\ Goto(k, IF ~HasRoom(AccountOf(k)) THEN "full" ELSE IF NameInUse(k) THEN "inUse" ELSE "passed")
  /\ UNCHANGED <<life, rows, inserted, removed>>

Insert(k) ==
  /\ Runs(k, "acting")
  /\ rows' = rows \cup {k}
  /\ inserted' = inserted \cup {k}
  /\ Answered(k, "done")
  /\ UNCHANGED <<life, removed>>

\* The row of the id and of the account: what the SELECT of the check, and
\* with the row's own name the DELETE, match.
Matches(d, c) == c = Target[d] /\ AccountOf(c) = AccountOf(d)

CheckDelete(d) ==
  /\ Runs(d, "checking")
  /\ Goto(d, IF \E c \in rows : Matches(d, c) THEN "passed" ELSE "absent")
  /\ UNCHANGED <<life, rows, inserted, removed>>

Remove(d) ==
  LET gone == {c \in rows : Matches(d, c)}
  IN /\ Runs(d, "acting")
     /\ rows' = rows \ gone
     /\ removed' = removed \cup {<<d, c>> : c \in gone}
     /\ Answered(d, "done")
     /\ UNCHANGED <<life, inserted>>

------------------------------------------------------------------------------
(* The callbacks.                                                          *)

Open(j) == life[By[j]] = "open"

\* The session is gone or closed: its lock or IsOpen stops the callback.
Unheard(j) ==
  /\ stage[j] \in Results
  /\ ~Open(j)
  /\ Goto(j, "dropped")
  /\ UNCHANGED <<life, rows, inserted, removed>>

CallbackError(j) ==
  /\ stage[j] = "failed"
  /\ Open(j)
  /\ Drop(j)
  /\ UNCHANGED <<rows, inserted, removed>>

\* Slip: a full queue is reported by the return value only, which nobody
\* reads in a callback.
ActOrReturnFalse(j) ==
  /\ \/ Goto(j, "acting")
     \/ Goto(j, "dropped")
  /\ UNCHANGED life

\* TryEnqueue of the INSERT or DELETE; a full queue closes the socket.
Act(j) ==
  \/ Goto(j, "acting") /\ UNCHANGED life
  \/ Drop(j)

\* The answer is sent, unless it cannot be encrypted.
Tell(j, end) ==
  \/ Goto(j, end) /\ UNCHANGED life
  \/ Drop(j)

CreateChecks(k) ==
  /\ Open(k)
  /\ \/ stage[k] \in {"full", "inUse"} /\ Tell(k, "refused")
     \/ stage[k] = "passed" /\ Act(k)
  /\ UNCHANGED <<rows, inserted, removed>>

\* Slip: any name confirms.
ConfirmsAny(d) == TRUE

\* What the player typed is the name the check has read.
Confirms(d) == Typed[d] = Name[Target[d]]

DeleteChecks(d) ==
  /\ Open(d)
  /\ \/ stage[d] = "absent" /\ Tell(d, "refused")
     \/ stage[d] = "passed" /\ ~Confirms(d) /\ Tell(d, "refused")
     \/ stage[d] = "passed" /\ Confirms(d) /\ Act(d)
  /\ UNCHANGED <<rows, inserted, removed>>

\* Slip: the last callback does not look at the error code.
FinalWhatever(j) ==
  /\ stage[j] \in {"done", "failed"}
  /\ Open(j)
  /\ Tell(j, "success")
  /\ UNCHANGED <<rows, inserted, removed>>

Final(j) ==
  /\ stage[j] = "done"
  /\ Open(j)
  /\ Tell(j, "success")
  /\ UNCHANGED <<rows, inserted, removed>>

------------------------------------------------------------------------------
\* The session closes for any reason, then nobody refers to it any more.
Disconnect(s) ==
  /\ life[s] = "open"
  /\ Close(s)
  /\ UNCHANGED <<stage, rows, inserted, removed>>

Destroy(s) ==
  /\ life[s] = "closed"
  /\ life' = [life EXCEPT ![s] = "gone"]
  /\ UNCHANGED <<stage, rows, inserted, removed>>

Execute(j) ==
  \/ Skip(j) \/ Fail(j)
  \/ j \in Creates /\ (CheckCreate(j) \/ Insert(j))
  \/ j \in Deletes /\ (CheckDelete(j) \/ Remove(j))

Callback(j) ==
  \/ Unheard(j) \/ CallbackError(j) \/ Final(j)
  \/ j \in Creates /\ CreateChecks(j)
  \/ j \in Deletes /\ DeleteChecks(j)

Next ==
  \/ \E k \in Creates : HandleCreateNewChar(k)
  \/ \E d \in Deletes : HandleDeleteCharacter(d)
  \/ \E j \in Jobs : Execute(j) \/ Callback(j)
  \/ \E s \in Sessions : Disconnect(s) \/ Destroy(s)

Spec == Init /\ [][Next]_vars

\* The workers take their queues, and the network thread runs what is posted.
FairSpec == Spec /\ \A j \in Jobs : WF_vars(Execute(j)) /\ WF_vars(Callback(j))

------------------------------------------------------------------------------
(* Properties.                                                             *)

\* Every variable has its type.
TypeOK ==
  /\ life \in [Sessions -> {"open", "closed", "gone"}]
  /\ stage \in [Jobs -> Stages]
  /\ rows \subseteq inserted
  /\ inserted \subseteq Creates
  /\ removed \subseteq Deletes \X Creates

\* The limit of characters of an account (MAX_CHARACTERS_N_PER_ACCOUNT).  This
\* does not hold (README, section 5) when creations are under way together.
CharactersLimit ==
  \A s \in Sessions : Cardinality(CharsOf(Account[s])) <= Limit

\* What the check achieves: an account goes over the limit by no more than
\* the creations that were under way at a time, less one; it is exact for an
\* account that waits for each answer.
OverrunBounded ==
  \A s \in Sessions : Cardinality(CharsOf(Account[s])) < Limit + Depth

\* A player told that the character was created has it, until it is deleted;
\* one told that it was not never finds it in the list.
CreateAnswersTrue ==
  \A k \in Creates :
    /\ stage[k] = "success" => k \in inserted
    /\ stage[k] = "refused" => k \notin inserted

\* A row is removed only by a deletion that confirmed its name; after a
\* successful answer it is gone for good, and a refused deletion has removed
\* nothing, whatever else was asked of the row meanwhile.
DeleteAnswersTrue ==
  /\ \A e \in removed : Typed[e[1]] = Name[e[2]] /\ stage[e[1]] # "refused"
  /\ \A d \in Deletes : stage[d] = "success" => Target[d] \notin rows

\* What players are told of their characters is true, of creations and of
\* deletions.
AnswersTrue == CreateAnswersTrue /\ DeleteAnswersTrue

Pending(a) == {k \in UnderWay(a) : stage[k] \in {"passed", "acting"}}

\* What a creation's stage says of its row, and a deletion's of its target's.
CreateStages ==
  \A k \in Creates :
    /\ stage[k] \in {"done", "success"} => k \in inserted
    /\ stage[k] \notin {"done", "success", "failed", "dropped"} => k \notin inserted

DeleteStages ==
  \A d \in Deletes :
    /\ stage[d] \in {"passed", "acting", "done", "success"} =>
         Target[d] \in inserted /\ AccountOf(Target[d]) = AccountOf(d)
    /\ stage[d] = "acting" => Confirms(d)
    /\ stage[d] \in {"done", "success"} => Target[d] \notin rows

Removals ==
  \A e \in removed : /\ e[2] = Target[e[1]]
                     /\ Confirms(e[1])
                     /\ stage[e[1]] \in {"done", "success", "failed", "dropped"}

\* Creations that passed the check count like characters.
Counts ==
  \A s \in Sessions :
    /\ Cardinality(UnderWay(Account[s])) <= Depth
    /\ Cardinality(CharsOf(Account[s])) + Cardinality(Pending(Account[s])) < Limit + Depth

\* The inductive invariant.
RowsInv == TypeOK /\ CreateStages /\ DeleteStages /\ Removals /\ Counts

\* A request that was taken is answered or its connection is closed, though
\* the answer needs two requests and either may fail or be refused.  Taken,
\* answered and closed are for good, so eventually always says it.
JobsEnd ==
  <>[](\A j \in Jobs : stage[j] \in {"new", "success", "refused"} \/ ~Open(j))
==============================================================================
