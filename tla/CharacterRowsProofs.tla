------------------------- MODULE CharacterRowsProofs -------------------------
(***************************************************************************)
(* Theorems of CharacterRows, for any sessions and accounts, any requests  *)
(* of theirs, any limit and any order of the workers.                      *)
(***************************************************************************)
EXTENDS CharacterRows, FiniteSetTheorems, TLAPS

Lives == [Sessions -> {"open", "closed", "gone"}]
Away  == {"new"} \cup Ends          \* the stages that are not under way
Past  == {"passed", "acting"}       \* the creations that count already
Acted == {"done", "success", "failed", "dropped"}

------------------------------------------------------------------------------
(* Counting.                                                               *)

\* The sets that are counted are finite.
LEMMA Finite ==
  ASSUME TypeOK, NEW a
  PROVE  /\ CharsOf(a) \subseteq Creates
         /\ UnderWay(a) \subseteq Creates
         /\ Pending(a) \subseteq UnderWay(a)
         /\ IsFiniteSet(CharsOf(a)) /\ IsFiniteSet(UnderWay(a)) /\ IsFiniteSet(Pending(a))
<1>1. /\ CharsOf(a) \in SUBSET Creates
      /\ UnderWay(a) \in SUBSET Creates
      /\ Pending(a) \in SUBSET UnderWay(a)
  BY DEF CharsOf, UnderWay, Pending, TypeOK
<1>2. IsFiniteSet(CharsOf(a)) /\ IsFiniteSet(UnderWay(a))
  BY <1>1, FS_Subset, JobsAssumption
<1> QED
  BY <1>1, <1>2, FS_Subset

\* A part of a finite set has no more elements.
LEMMA Part ==
  ASSUME NEW T, IsFiniteSet(T), NEW S \in SUBSET T
  PROVE  Cardinality(S) \in Nat /\ Cardinality(T) \in Nat /\ Cardinality(S) <= Cardinality(T)
  BY FS_Subset, FS_CardinalityType

\* A step that adds no row and lets no creation begin or pass keeps the counts.
LEMMA CountsShrink ==
  ASSUME TypeOK, Counts, rows' \subseteq rows,
         \A k \in Creates :
           /\ stage'[k] \notin Away => stage[k] \notin Away
           /\ stage'[k] \in Past => stage[k] \in Past
  PROVE  Counts'
<1> SUFFICES ASSUME NEW s \in Sessions
             PROVE  /\ Cardinality(UnderWay(Account[s])') <= Depth
                    /\ Cardinality(CharsOf(Account[s])') + Cardinality(Pending(Account[s])')
                         < Limit + Depth
  BY DEF Counts
<1> DEFINE a == Account[s]
<1>1. /\ CharsOf(a)' \in SUBSET CharsOf(a)
      /\ UnderWay(a)' \in SUBSET UnderWay(a)
      /\ Pending(a)' \in SUBSET Pending(a)
  BY DEF CharsOf, UnderWay, Pending, AccountOf, Away, Past
<1>2. /\ Cardinality(UnderWay(a)) <= Depth
      /\ Cardinality(CharsOf(a)) + Cardinality(Pending(a)) < Limit + Depth
  BY DEF Counts
<1>3. IsFiniteSet(CharsOf(a)) /\ IsFiniteSet(UnderWay(a)) /\ IsFiniteSet(Pending(a))
  BY Finite
<1> HIDE DEF a
<1>4. /\ Cardinality(CharsOf(a)') \in Nat /\ Cardinality(CharsOf(a)) \in Nat
      /\ Cardinality(CharsOf(a)') <= Cardinality(CharsOf(a))
  BY <1>1, <1>3, Part
<1>5. /\ Cardinality(UnderWay(a)') \in Nat /\ Cardinality(UnderWay(a)) \in Nat
      /\ Cardinality(UnderWay(a)') <= Cardinality(UnderWay(a))
  BY <1>1, <1>3, Part
<1>6. /\ Cardinality(Pending(a)') \in Nat /\ Cardinality(Pending(a)) \in Nat
      /\ Cardinality(Pending(a)') <= Cardinality(Pending(a))
  BY <1>1, <1>3, Part
<1> QED
  BY <1>2, <1>4, <1>5, <1>6, LimitAssumption DEF a

------------------------------------------------------------------------------
(* A job that only changes its stage.                                      *)

\* Closing a session, or not, keeps the type of life.
LEMMA CloseType ==
  ASSUME TypeOK, NEW s \in Sessions, Close(s) \/ UNCHANGED life
  PROVE  life' \in Lives
  BY DEF TypeOK, Close, Lives

\* The session of a job.
LEMMA Sender ==
  ASSUME NEW j \in Jobs
  PROVE  By[j] \in Sessions
  BY ContentAssumption

LEMMA MovedStages ==
  ASSUME TypeOK, NEW j \in Jobs, NEW to \in Stages, Goto(j, to)
  PROVE  /\ stage'[j] = to
         /\ \A i \in Jobs \ {j} : stage'[i] = stage[i]
         /\ stage' \in [Jobs -> Stages]
  BY DEF TypeOK, Goto

\* What the change of stage must respect for a creation.
CreateMove(j, to) ==
  /\ to \in {"done", "success"} => stage[j] \in {"done", "success"}
  /\ to \notin Acted => stage[j] \notin Acted

\* And for a deletion.
DeleteMove(j, to) ==
  /\ to \in {"passed", "acting", "done", "success"} =>
       Target[j] \in inserted /\ AccountOf(Target[j]) = AccountOf(j)
  /\ to = "acting" => Confirms(j)
  /\ to \in {"done", "success"} => Target[j] \notin rows
  /\ stage[j] \in Acted => to \in Acted

LEMMA MoveKeeps ==
  ASSUME RowsInv, NEW j \in Jobs, NEW to \in Stages, Goto(j, to), life' \in Lives,
         UNCHANGED <<rows, inserted, removed>>,
         j \in Creates => CreateMove(j, to),
         j \in Deletes => DeleteMove(j, to)
  PROVE  TypeOK' /\ CreateStages' /\ DeleteStages' /\ Removals'
<1> USE DEF RowsInv
<1>0. /\ stage'[j] = to
      /\ \A i \in Jobs \ {j} : stage'[i] = stage[i]
      /\ stage' \in [Jobs -> Stages]
  BY MovedStages
<1>1. TypeOK'
  BY <1>0 DEF TypeOK, Lives
<1>2. CreateStages'
  BY <1>0 DEF CreateStages, CreateMove, Acted, Jobs
<1>3. DeleteStages'
  <2> SUFFICES ASSUME NEW d \in Deletes
               PROVE  /\ stage'[d] \in {"passed", "acting", "done", "success"} =>
                           Target[d] \in inserted /\ AccountOf(Target[d]) = AccountOf(d)
                      /\ stage'[d] = "acting" => Confirms(d)
                      /\ stage'[d] \in {"done", "success"} => Target[d] \notin rows
    BY DEF DeleteStages, AccountOf, Confirms
  <2>1. CASE d = j
    BY <1>0, <2>1 DEF DeleteMove
  <2>2. CASE d # j
    <3>1. stage'[d] = stage[d]
      BY <1>0, <2>2 DEF Jobs
    <3> QED
      BY <3>1 DEF DeleteStages
  <2> QED
    BY <2>1, <2>2
<1>4. Removals'
  <2> SUFFICES ASSUME NEW e \in removed
               PROVE  e[2] = Target[e[1]] /\ Confirms(e[1]) /\ stage'[e[1]] \in Acted
    BY DEF Removals, Confirms, Acted
  <2>1. e[1] \in Deletes /\ e[1] \in Jobs
    BY DEF TypeOK, Jobs
  <2>2. e[2] = Target[e[1]] /\ Confirms(e[1]) /\ stage[e[1]] \in Acted
    BY DEF Removals, Acted
  <2>3. CASE e[1] = j
    BY <1>0, <2>1, <2>2, <2>3 DEF DeleteMove
  <2>4. CASE e[1] # j
    <3>1. stage'[e[1]] = stage[e[1]]
      BY <1>0, <2>1, <2>4
    <3> QED
      BY <2>2, <3>1
  <2> QED
    BY <2>3, <2>4
<1> QED
  BY <1>1, <1>2, <1>3, <1>4

\* A move that neither begins a creation nor lets one pass.
LEMMA PlainMove ==
  ASSUME RowsInv, NEW j \in Jobs, NEW to \in Stages, Goto(j, to), life' \in Lives,
         UNCHANGED <<rows, inserted, removed>>,
         j \in Creates => /\ CreateMove(j, to)
                          /\ to \notin Away => stage[j] \notin Away
                          /\ to \in Past => stage[j] \in Past,
         j \in Deletes => DeleteMove(j, to)
  PROVE  RowsInv'
<1>1. TypeOK' /\ CreateStages' /\ DeleteStages' /\ Removals'
  BY MoveKeeps
<1>2. \A k \in Creates : /\ stage'[k] \notin Away => stage[k] \notin Away
                         /\ stage'[k] \in Past => stage[k] \in Past
  BY MovedStages DEF RowsInv, Jobs
<1>3. Counts'
  BY <1>2, CountsShrink DEF RowsInv
<1> QED
  BY <1>1, <1>3 DEF RowsInv

\* Every job may be dropped, with or without closing its connection.
LEMMA DropKeeps ==
  ASSUME RowsInv, NEW j \in Jobs, Goto(j, "dropped"), life' \in Lives,
         UNCHANGED <<rows, inserted, removed>>
  PROVE  RowsInv'
  BY PlainMove DEF Stages, Ends, CreateMove, DeleteMove, Acted, Away, Past

------------------------------------------------------------------------------
(* The actions.                                                            *)

LEMMA HandleKeeps ==
  ASSUME RowsInv, NEW j \in Jobs, EnqueueChecks(j),
         j \in Creates => HandleCreateNewChar(j)
  PROVE  RowsInv'
<1>0. life' \in Lives
  BY Sender, CloseType DEF RowsInv, EnqueueChecks, Drop
<1>1. CASE Goto(j, "dropped")
  BY <1>0, <1>1, DropKeeps DEF EnqueueChecks
<1>2. CASE Goto(j, "checking")
  <2>1. TypeOK' /\ CreateStages' /\ DeleteStages' /\ Removals'
    BY <1>0, <1>2, MoveKeeps DEF EnqueueChecks, Stages, CreateMove, DeleteMove, Acted
  <2>2. /\ stage'[j] = "checking" /\ stage[j] = "new" /\ UNCHANGED rows
        /\ \A i \in Jobs \ {j} : stage'[i] = stage[i]
    BY <1>2, MovedStages DEF RowsInv, EnqueueChecks, Stages
  <2>3. CASE j \in Deletes
    <3>1. \A k \in Creates : stage'[k] = stage[k]
      BY <2>2, <2>3, JobsAssumption DEF Jobs
    <3> QED
      BY <2>1, <2>2, <3>1, CountsShrink DEF RowsInv
  <2>4. CASE j \in Creates
    <3> SUFFICES ASSUME NEW s \in Sessions
                 PROVE  /\ Cardinality(UnderWay(Account[s])') <= Depth
                        /\ Cardinality(CharsOf(Account[s])') + Cardinality(Pending(Account[s])')
                             < Limit + Depth
      BY <2>1 DEF Counts, RowsInv
    <3> DEFINE a == Account[s]
    <3>1. CharsOf(a)' = CharsOf(a)
      BY <2>2 DEF CharsOf, AccountOf
    <3>2. Pending(a)' = Pending(a)
      BY <2>2 DEF Pending, UnderWay, AccountOf, Jobs, Ends
    <3>3. /\ Cardinality(UnderWay(a)) <= Depth
          /\ Cardinality(CharsOf(a)) + Cardinality(Pending(a)) < Limit + Depth
      BY DEF RowsInv, Counts
    <3>4. IsFiniteSet(UnderWay(a)) /\ Cardinality(UnderWay(a)) \in Nat
      BY Finite, FS_CardinalityType DEF RowsInv
    <3>5. CASE a = AccountOf(j)
      <4>1. UnderWay(a)' = UnderWay(a) \cup {j} /\ j \notin UnderWay(a)
        BY <2>2, <2>4, <3>5 DEF UnderWay, AccountOf, Jobs, Ends, Results
      <4>2. Cardinality(UnderWay(a)) < Depth
        BY <2>4, <3>5 DEF HandleCreateNewChar
      <4>3. Cardinality(UnderWay(a)') = Cardinality(UnderWay(a)) + 1
        <5> HIDE DEF a
        <5> QED
          BY <4>1, <3>4, FS_AddElement
      <4> QED
        BY <3>1, <3>2, <3>3, <3>4, <4>2, <4>3, LimitAssumption
    <3>6. CASE a # AccountOf(j)
      <4>1. UnderWay(a)' = UnderWay(a)
        BY <2>2, <3>6 DEF UnderWay, AccountOf, Jobs
      <4> QED
        BY <3>1, <3>2, <3>3, <4>1
    <3> QED
      BY <3>5, <3>6
  <2> QED
    BY <2>3, <2>4 DEF Jobs
<1> QED
  BY <1>1, <1>2 DEF EnqueueChecks, Drop

LEMMA FailKeeps ==
  ASSUME RowsInv, NEW j \in Jobs, Fail(j)
  PROVE  RowsInv'
<1>1. life' \in Lives /\ stage[j] \in {"checking", "acting"}
  BY DEF RowsInv, TypeOK, Lives, Fail, Runs
<1> QED
  BY <1>1, PlainMove
  DEF Fail, Stages, Results, Ends, CreateMove, DeleteMove, Acted, Away, Past

LEMMA SkipKeeps ==
  ASSUME RowsInv, NEW j \in Jobs, Skip(j) \/ Unheard(j) \/ CallbackError(j)
  PROVE  RowsInv'
<1>1. life' \in Lives
  BY Sender, CloseType DEF RowsInv, Skip, Unheard, CallbackError, Drop
<1> QED
  BY <1>1, DropKeeps DEF Skip, Unheard, CallbackError, Drop

\* Passing the check needs room, and the creations that pass are under way.
LEMMA CheckCreateKeeps ==
  ASSUME RowsInv, NEW k \in Creates, CheckCreate(k)
  PROVE  RowsInv'
<1> DEFINE to == IF ~HasRoom(AccountOf(k)) THEN "full"
                 ELSE IF NameInUse(k) THEN "inUse" ELSE "passed"
<1>1. /\ k \in Jobs /\ Goto(k, to) /\ stage[k] = "checking"
      /\ UNCHANGED <<rows, inserted, removed>> /\ life' \in Lives
      /\ to \in {"full", "inUse", "passed"}
      /\ to = "passed" => HasRoom(AccountOf(k))
  BY DEF CheckCreate, Runs, Jobs, RowsInv, TypeOK, Lives
<1>2. k \notin Deletes /\ CreateMove(k, to) /\ to \in Stages
  BY <1>1, JobsAssumption DEF CreateMove, Acted, Stages, Results
<1> HIDE DEF to
<1>3. CASE to # "passed"
  BY <1>1, <1>2, <1>3, PlainMove DEF Away, Ends, Past
<1>4. CASE to = "passed"
  <2>1. TypeOK' /\ CreateStages' /\ DeleteStages' /\ Removals'
    BY <1>1, <1>2, MoveKeeps
  <2>2. /\ stage'[k] = "passed"
        /\ \A i \in Jobs \ {k} : stage'[i] = stage[i]
    BY <1>1, <1>2, <1>4, MovedStages DEF RowsInv
  <2> SUFFICES ASSUME NEW s \in Sessions
               PROVE  /\ Cardinality(UnderWay(Account[s])') <= Depth
                      /\ Cardinality(CharsOf(Account[s])') + Cardinality(Pending(Account[s])')
                           < Limit + Depth
    BY <2>1 DEF Counts, RowsInv
  <2> DEFINE a == Account[s]
  <2>3. UnderWay(a)' = UnderWay(a) /\ CharsOf(a)' = CharsOf(a)
    BY <1>1, <2>2 DEF UnderWay, CharsOf, AccountOf, Jobs, Ends
  <2>4. /\ Cardinality(UnderWay(a)) <= Depth
        /\ Cardinality(CharsOf(a)) + Cardinality(Pending(a)) < Limit + Depth
    BY DEF RowsInv, Counts
  <2>5. IsFiniteSet(UnderWay(a)) /\ Pending(a)' \in SUBSET UnderWay(a)
    BY <2>3, Finite DEF RowsInv, Pending
  <2>6. Cardinality(CharsOf(a)) \in Nat
    BY Finite, FS_CardinalityType DEF RowsInv
  <2>7. CASE a = AccountOf(k)
    <3>1. Cardinality(CharsOf(a)) < Limit
      BY <1>1, <1>4, <2>7 DEF HasRoom
    <3>2. /\ Cardinality(Pending(a)') \in Nat /\ Cardinality(UnderWay(a)) \in Nat
          /\ Cardinality(Pending(a)') <= Cardinality(UnderWay(a))
      <4> HIDE DEF a
      <4> QED
        BY <2>5, Part
    <3> QED
      BY <2>3, <2>4, <2>6, <3>1, <3>2, LimitAssumption
  <2>8. CASE a # AccountOf(k)
    <3>1. Pending(a)' = Pending(a)
      BY <2>2, <2>8 DEF Pending, UnderWay, AccountOf, Jobs
    <3> QED
      BY <2>3, <2>4, <3>1
  <2> QED
    BY <2>7, <2>8
<1> QED
  BY <1>3, <1>4

\* The inserted row takes the place of the creation that passed.
LEMMA InsertKeeps ==
  ASSUME RowsInv, NEW k \in Creates, Insert(k)
  PROVE  RowsInv'
<1> USE DEF RowsInv
<1>1. k \in Jobs /\ k \notin Deletes
  BY JobsAssumption DEF Jobs
<1>2. PICK to \in {"done", "failed"} : Goto(k, to)
  BY DEF Insert, Answered
<1>3. /\ stage[k] = "acting" /\ stage'[k] = to
      /\ \A i \in Jobs \ {k} : stage'[i] = stage[i]
      /\ stage' \in [Jobs -> Stages]
      /\ rows' = rows \cup {k} /\ inserted' = inserted \cup {k}
      /\ UNCHANGED <<life, removed>>
  BY <1>1, <1>2, MovedStages DEF Insert, Runs, Stages, Results
<1>4. TypeOK'
  BY <1>3 DEF TypeOK
<1>5. CreateStages'
  BY <1>3 DEF CreateStages, Jobs
<1>6. k \notin inserted
  BY <1>3 DEF CreateStages
<1>7. DeleteStages'
  <2> SUFFICES ASSUME NEW d \in Deletes
               PROVE  /\ stage'[d] \in {"passed", "acting", "done", "success"} =>
                           Target[d] \in inserted' /\ AccountOf(Target[d]) = AccountOf(d)
                      /\ stage'[d] = "acting" => Confirms(d)
                      /\ stage'[d] \in {"done", "success"} => Target[d] \notin rows'
    BY DEF DeleteStages, AccountOf, Confirms
  <2>1. stage'[d] = stage[d]
    BY <1>1, <1>3 DEF Jobs
  <2> QED
    BY <1>3, <1>6, <2>1 DEF DeleteStages
<1>8. Removals'
  <2> SUFFICES ASSUME NEW e \in removed
               PROVE  e[2] = Target[e[1]] /\ Confirms(e[1]) /\ stage'[e[1]] \in Acted
    BY <1>3 DEF Removals, Confirms, Acted
  <2>1. stage'[e[1]] = stage[e[1]]
    BY <1>1, <1>3 DEF TypeOK, Jobs
  <2> QED
    BY <2>1 DEF Removals, Acted
<1>9. Counts'
  <2> SUFFICES ASSUME NEW s \in Sessions
               PROVE  /\ Cardinality(UnderWay(Account[s])') <= Depth
                      /\ Cardinality(CharsOf(Account[s])') + Cardinality(Pending(Account[s])')
                           < Limit + Depth
    BY DEF Counts
  <2> DEFINE a == Account[s]
  <2>1. UnderWay(a)' = UnderWay(a)
    BY <1>3 DEF UnderWay, AccountOf, Jobs, Ends
  <2>2. /\ Cardinality(UnderWay(a)) <= Depth
        /\ Cardinality(CharsOf(a)) + Cardinality(Pending(a)) < Limit + Depth
    BY DEF Counts
  <2>3. IsFiniteSet(CharsOf(a)) /\ IsFiniteSet(Pending(a))
    BY Finite
  <2>4. CASE a = AccountOf(k)
    <3>1. CharsOf(a)' = CharsOf(a) \cup {k} /\ k \notin CharsOf(a)
      BY <1>3, <1>6, <2>4 DEF CharsOf, AccountOf, TypeOK
    <3>2. Pending(a)' = Pending(a) \ {k} /\ k \in Pending(a)
      BY <1>3, <2>4 DEF Pending, UnderWay, AccountOf, Jobs, Ends
    <3> HIDE DEF a
    <3>3. Cardinality(CharsOf(a)') = Cardinality(CharsOf(a)) + 1
      BY <2>3, <3>1, FS_AddElement
    <3>4. Cardinality(Pending(a)') = Cardinality(Pending(a)) - 1
      BY <2>3, <3>2, FS_RemoveElement
    <3>5. Cardinality(CharsOf(a)) \in Nat /\ Cardinality(Pending(a)) \in Nat
      BY <2>3, FS_CardinalityType
    <3> QED
      BY <2>1, <2>2, <3>3, <3>4, <3>5, LimitAssumption DEF a
  <2>5. CASE a # AccountOf(k)
    <3>1. CharsOf(a)' = CharsOf(a)
      BY <1>3, <2>5 DEF CharsOf, AccountOf
    <3>2. Pending(a)' = Pending(a)
      BY <1>3, <2>5 DEF Pending, UnderWay, AccountOf, Jobs
    <3> QED
      BY <2>1, <2>2, <3>1, <3>2
  <2> QED
    BY <2>4, <2>5
<1> QED
  BY <1>4, <1>5, <1>7, <1>8, <1>9

LEMMA CheckDeleteKeeps ==
  ASSUME RowsInv, NEW d \in Deletes, CheckDelete(d)
  PROVE  RowsInv'
<1> DEFINE to == IF \E c \in rows : Matches(d, c) THEN "passed" ELSE "absent"
<1>1. /\ d \in Jobs /\ d \notin Creates /\ Goto(d, to) /\ stage[d] = "checking"
      /\ UNCHANGED <<rows, inserted, removed>> /\ life' \in Lives
      /\ to \in Stages /\ to \in {"passed", "absent"}
  BY JobsAssumption DEF CheckDelete, Runs, Jobs, RowsInv, TypeOK, Lives, Stages, Results
<1>2. to = "passed" => Target[d] \in inserted /\ AccountOf(Target[d]) = AccountOf(d)
  BY DEF RowsInv, TypeOK, Matches
<1> HIDE DEF to
<1>3. DeleteMove(d, to)
  BY <1>1, <1>2 DEF DeleteMove, Acted
<1> QED
  BY <1>1, <1>3, PlainMove

LEMMA RemoveKeeps ==
  ASSUME RowsInv, NEW d \in Deletes, Remove(d)
  PROVE  RowsInv'
<1> USE DEF RowsInv
<1> DEFINE gone == {c \in rows : Matches(d, c)}
<1>1. d \in Jobs /\ d \notin Creates
  BY JobsAssumption DEF Jobs
<1>2. PICK to \in {"done", "failed"} : Goto(d, to)
  BY DEF Remove, Answered
<1>3. /\ stage[d] = "acting" /\ stage'[d] = to
      /\ \A i \in Jobs \ {d} : stage'[i] = stage[i]
      /\ stage' \in [Jobs -> Stages]
      /\ rows' = rows \ gone
      /\ removed' = removed \cup {<<d, c>> : c \in gone}
      /\ UNCHANGED <<life, inserted>>
  BY <1>1, <1>2, MovedStages DEF Remove, Runs, Stages, Results
<1>4. TypeOK'
  BY <1>3 DEF TypeOK
<1>5. \A k \in Creates : stage'[k] = stage[k]
  BY <1>1, <1>3 DEF Jobs
<1>6. CreateStages'
  BY <1>3, <1>5 DEF CreateStages
<1>7. /\ Target[d] \in inserted /\ AccountOf(Target[d]) = AccountOf(d)
      /\ Confirms(d)
      /\ Target[d] \notin rows'
  BY <1>3 DEF DeleteStages, Matches
<1>8. DeleteStages'
  <2> SUFFICES ASSUME NEW e \in Deletes
               PROVE  /\ stage'[e] \in {"passed", "acting", "done", "success"} =>
                           Target[e] \in inserted /\ AccountOf(Target[e]) = AccountOf(e)
                      /\ stage'[e] = "acting" => Confirms(e)
                      /\ stage'[e] \in {"done", "success"} => Target[e] \notin rows'
    BY <1>3 DEF DeleteStages, AccountOf, Confirms
  <2>1. CASE e = d
    BY <1>3, <1>7, <2>1
  <2>2. CASE e # d
    <3>1. stage'[e] = stage[e]
      BY <1>3, <2>2 DEF Jobs
    <3> QED
      BY <1>3, <3>1 DEF DeleteStages
  <2> QED
    BY <2>1, <2>2
<1>9. Removals'
  <2> SUFFICES ASSUME NEW e \in removed'
               PROVE  e[2] = Target[e[1]] /\ Confirms(e[1]) /\ stage'[e[1]] \in Acted
    BY DEF Removals, Confirms, Acted
  <2>1. CASE e \in removed
    <3>1. e[1] \in Jobs
      BY <2>1 DEF TypeOK, Jobs
    <3>2. e[2] = Target[e[1]] /\ Confirms(e[1]) /\ stage[e[1]] \in Acted
      BY <2>1 DEF Removals, Acted
    <3>3. e[1] # d
      BY <1>3, <3>2 DEF Acted
    <3> QED
      BY <1>3, <3>1, <3>2, <3>3
  <2>2. CASE e \notin removed
    <3>1. PICK c \in gone : e = <<d, c>>
      BY <1>3, <2>2
    <3> QED
      BY <1>3, <1>7, <3>1 DEF Matches, Acted
  <2> QED
    BY <2>1, <2>2
<1>10. Counts'
  BY <1>3, <1>5, CountsShrink
<1> QED
  BY <1>4, <1>6, <1>8, <1>9, <1>10

\* The callbacks answer, or enqueue the request that acts.
LEMMA CallbackKeeps ==
  ASSUME RowsInv, NEW j \in Jobs,
         \/ Final(j)
         \/ j \in Creates /\ CreateChecks(j)
         \/ j \in Deletes /\ DeleteChecks(j)
  PROVE  RowsInv'
<1>1. /\ UNCHANGED <<rows, inserted, removed>>
      /\ life' \in Lives
  BY Sender, CloseType DEF RowsInv, Final, CreateChecks, DeleteChecks, Tell, Act, Drop
<1>2. \/ Goto(j, "dropped")
      \/ stage[j] = "done" /\ Goto(j, "success")
      \/ stage[j] \in {"full", "inUse", "absent", "passed"} /\ Goto(j, "refused")
      \/ /\ stage[j] = "passed" /\ Goto(j, "acting")
         /\ j \in Deletes => Confirms(j)
  BY JobsAssumption DEF Final, CreateChecks, DeleteChecks, Tell, Act, Drop
<1>3. CASE Goto(j, "dropped")
  BY <1>1, <1>3, DropKeeps
<1>4. CASE stage[j] = "done" /\ Goto(j, "success")
  <2>1. DeleteMove(j, "success") \/ j \notin Deletes
    BY <1>4 DEF RowsInv, DeleteStages, DeleteMove, Acted
  <2> QED
    BY <1>1, <1>4, <2>1, PlainMove DEF Stages, Ends, CreateMove, Acted, Away, Past
<1>5. CASE stage[j] \in {"full", "inUse", "absent", "passed"} /\ Goto(j, "refused")
  BY <1>1, <1>5, PlainMove DEF Stages, Ends, CreateMove, DeleteMove, Acted, Away, Past
<1>6. CASE stage[j] = "passed" /\ Goto(j, "acting") /\ (j \in Deletes => Confirms(j))
  <2>1. DeleteMove(j, "acting") \/ j \notin Deletes
    BY <1>6 DEF RowsInv, DeleteStages, DeleteMove, Acted
  <2> QED
    BY <1>1, <1>6, <2>1, PlainMove DEF Stages, CreateMove, Acted, Away, Ends, Past
<1> QED
  BY <1>2, <1>3, <1>4, <1>5, <1>6

------------------------------------------------------------------------------
(* The invariant and what follows from it.                                 *)

LEMMA InitRows == Init => RowsInv
<1> SUFFICES ASSUME Init PROVE RowsInv
  OBVIOUS
<1>1. TypeOK /\ CreateStages /\ DeleteStages /\ Removals
  BY DEF Init, TypeOK, CreateStages, DeleteStages, Removals, Stages, Jobs
<1>2. Counts
  <2> SUFFICES ASSUME NEW a
               PROVE  /\ Cardinality(UnderWay(a)) <= Depth
                      /\ Cardinality(CharsOf(a)) + Cardinality(Pending(a)) < Limit + Depth
    BY DEF Counts
  <2>1. UnderWay(a) = {} /\ CharsOf(a) = {} /\ Pending(a) = {}
    BY DEF Init, UnderWay, CharsOf, Pending, Jobs
  <2> QED
    BY <2>1, FS_EmptySet, LimitAssumption
<1> QED
  BY <1>1, <1>2 DEF RowsInv

LEMMA NextRows == RowsInv /\ [Next]_vars => RowsInv'
<1> SUFFICES ASSUME RowsInv, [Next]_vars PROVE RowsInv'
  OBVIOUS
<1>1. ASSUME NEW k \in Creates, HandleCreateNewChar(k) PROVE RowsInv'
  BY <1>1, HandleKeeps DEF HandleCreateNewChar, Jobs
<1>2. ASSUME NEW d \in Deletes, HandleDeleteCharacter(d) PROVE RowsInv'
  BY <1>2, HandleKeeps, JobsAssumption DEF HandleDeleteCharacter, Jobs
<1>3. ASSUME NEW j \in Jobs, Execute(j) PROVE RowsInv'
  BY <1>3, SkipKeeps, FailKeeps, CheckCreateKeeps, InsertKeeps, CheckDeleteKeeps, RemoveKeeps
  DEF Execute
<1>4. ASSUME NEW j \in Jobs, Callback(j) PROVE RowsInv'
  BY <1>4, SkipKeeps, CallbackKeeps DEF Callback
<1>5. ASSUME NEW s \in Sessions, Disconnect(s) \/ Destroy(s) PROVE RowsInv'
  <2>1. life' \in Lives /\ UNCHANGED <<stage, rows, inserted, removed>>
    BY <1>5, CloseType DEF RowsInv, TypeOK, Lives, Disconnect, Destroy
  <2>2. Counts'
    BY <2>1, CountsShrink DEF RowsInv
  <2> QED
    BY <2>1, <2>2
    DEF RowsInv, TypeOK, Lives, CreateStages, DeleteStages, Removals, AccountOf, Confirms
<1>6. CASE UNCHANGED vars
  <2>1. UNCHANGED <<life, stage, rows, inserted, removed>>
    BY <1>6 DEF vars
  <2>2. Counts'
    BY <2>1, CountsShrink DEF RowsInv
  <2> QED
    BY <2>1, <2>2
    DEF RowsInv, TypeOK, CreateStages, DeleteStages, Removals, AccountOf, Confirms
<1> QED
  BY <1>1, <1>2, <1>3, <1>4, <1>5, <1>6 DEF Next

\* RowsInv is an invariant of the creations and deletions.
THEOREM RowsCorrect == Spec => []RowsInv
  BY InitRows, NextRows, PTL DEF Spec

\* The checks of DBCallback_HandleCreateNewCharChecks keep an account below
\* the limit plus the creations it has under way at a time.
THEOREM OverrunIsBounded == Spec => []OverrunBounded
<1>1. RowsInv => OverrunBounded
  <2> SUFFICES ASSUME RowsInv, NEW s \in Sessions
               PROVE  Cardinality(CharsOf(Account[s])) < Limit + Depth
    BY DEF OverrunBounded
  <2>1. Cardinality(CharsOf(Account[s])) + Cardinality(Pending(Account[s])) < Limit + Depth
    BY DEF RowsInv, Counts
  <2>2. Cardinality(CharsOf(Account[s])) \in Nat /\ Cardinality(Pending(Account[s])) \in Nat
    BY Finite, FS_CardinalityType DEF RowsInv
  <2> QED
    BY <2>1, <2>2, LimitAssumption
<1> QED
  BY <1>1, RowsCorrect, PTL

\* What players are told of their characters is true, however the requests
\* of their sessions interleave.
THEOREM AnswersAreTrue == Spec => []AnswersTrue
<1>1. RowsInv => AnswersTrue
  <2> SUFFICES ASSUME RowsInv PROVE AnswersTrue
    OBVIOUS
  <2>1. CreateAnswersTrue
    BY DEF RowsInv, CreateStages, CreateAnswersTrue
  <2>2. \A e \in removed : Typed[e[1]] = Name[e[2]] /\ stage[e[1]] # "refused"
    BY DEF RowsInv, Removals, Confirms
  <2>3. \A d \in Deletes : stage[d] = "success" => Target[d] \notin rows
    BY DEF RowsInv, DeleteStages
  <2> QED
    BY <2>1, <2>2, <2>3 DEF AnswersTrue, DeleteAnswersTrue
<1> QED
  BY <1>1, RowsCorrect, PTL
==============================================================================
