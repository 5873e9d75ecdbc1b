------------------------------ MODULE DbWorkers ------------------------------
(***************************************************************************)
(* A DatabaseWorkerPool: N DatabaseWorkers, each a thread with an external *)
(* queue that any thread fills under a mutex and an internal one that the  *)
(* worker empties.                                                         *)
(*                                                                         *)
(* The mutex of a worker is held across a step only by the worker itself,  *)
(* between the test of its wait's predicate and the wait that releases it  *)
(* (pc = "checked").  Everything else under the mutex is one step that     *)
(* needs it free.  notify_one comes after the unlock, as a step of its own.*)
(* The count of requests is read and decremented without the mutex.        *)
(*                                                                         *)
(* A request fails or succeeds as the database decides, whether or not the *)
(* worker had to connect again first.                                      *)
(***************************************************************************)
EXTENDS Integers, Sequences, FiniteSets

CONSTANTS
  N,         \* workers of the pool
  Asks,      \* requests given with TryEnqueue or Enqueue
  Limited,   \* those given with TryEnqueue
  Fire,      \* those that are m_fireAndForget: they have no callback
  Tokened,   \* those with an m_cancelToken
  MaxKeeps,  \* bound: runs of KeepDatabasesAliveHandler
  Limit      \* DB_QUEUE_MAX_SIZE

Workers    == 1 .. N
KeepAlives == (1 .. MaxKeeps) \X Workers   \* the copies EnqueueInAll makes
Requests   == Asks \cup KeepAlives
Callbacks  == Asks \ Fire

ASSUME WorkersAssumption == N \in Nat \ {0}
ASSUME KindsAssumption == Limited \subseteq Asks /\ Fire \subseteq Asks /\ Tokened \subseteq Asks
ASSUME KeepsAssumption == MaxKeeps \in Nat /\ Asks \cap KeepAlives = {}
ASSUME LimitAssumption == Limit \in Nat

VARIABLES
  stage,     \* how far the call that gives request r has come
  scan,      \* the pool's search for the least busy worker, per call
  keep,      \* KeepDatabasesAliveHandler: the run, and the worker to be served next
  running,   \* m_running
  pc,        \* where the worker's thread is, see Places
  external,  \* m_externalQueue
  internal,  \* m_internalQueue, from the request the for loop is at
  count,     \* m_requestsSize
  notifies,  \* calls of notify_one that are still to come
  expired,   \* requests whose session was destroyed
  replies,   \* how often the callback of r was posted
  stopped,   \* workers that DatabaseWorkerPool::Stop has stopped
  joined,    \* workers that DatabaseWorkerPool::Join has joined
  late       \* history: requests given to a worker after its Stop

callVars   == <<stage, scan, keep>>
queueVars  == <<external, internal, count>>
threadVars == <<running, pc, notifies>>
endVars    == <<stopped, joined>>
vars == <<callVars, threadVars, queueVars, expired, replies, endVars, late>>

\* top: about to lock at the start of the loop (a thread that wakes up tests
\* the same conditions).  checked: holds the mutex, found nothing, about to
\* wait.  exec: at the first request of the internal queue.  post: it has
\* been executed.  posted: it is answered, but still counted.
Places == {"top", "checked", "waiting", "exec", "post", "posted", "ended"}

NoScan == [next |-> 1, best |-> 0, least |-> 0]

Init ==
  /\ stage = [r \in Asks |-> "new"]
  /\ scan = [r \in Asks |-> NoScan]
  /\ keep = [run |-> 1, next |-> 1]
  /\ running = [w \in Workers |-> TRUE]
  /\ pc = [w \in Workers |-> "top"]
  /\ external = [w \in Workers |-> <<>>]
  /\ internal = [w \in Workers |-> <<>>]
  /\ count = [w \in Workers |-> 0]
  /\ notifies = [w \in Workers |-> 0]
  /\ expired = {}
  /\ replies = [r \in Requests |-> 0]
  /\ stopped = 0
  /\ joined = 0
  /\ late = {}

------------------------------------------------------------------------------
(* Giving a request.                                                       *)

\* A caller asks the pool; the search reads one worker's count at a time.
Scan(r) ==
  LET w == scan[r].next
      better == scan[r].best = 0 \/ count[w] < scan[r].least
  IN /\ stage[r] \in {"new", "scanning"}
     /\ w \in Workers
     /\ stage' = [stage EXCEPT ![r] = "scanning"]
     /\ scan' = [scan EXCEPT ![r] =
          [next  |-> w + 1,
           best  |-> IF better THEN w ELSE @.best,
           least |-> IF better THEN count[w] ELSE @.least]]
     /\ UNCHANGED <<keep, threadVars, queueVars, expired, replies, endVars, late>>

Free(w) == pc[w] # "checked"   \* nobody holds m_externalQueueMutex

\* Slip: push_back without notify_one.
PushSilently(w, r) ==
  /\ Free(w)
  /\ external' = [external EXCEPT ![w] = Append(@, r)]
  /\ count' = [count EXCEPT ![w] = @ + 1]
  /\ late' = IF running[w] THEN late ELSE late \cup {r}
  /\ UNCHANGED <<internal, running, pc, notifies>>

\* push_back and the count, under the mutex; then the notification is due.
Push(w, r) ==
  /\ Free(w)
  /\ external' = [external EXCEPT ![w] = Append(@, r)]
  /\ count' = [count EXCEPT ![w] = @ + 1]
  /\ notifies' = [notifies EXCEPT ![w] = @ + 1]
  /\ late' = IF running[w] THEN late ELSE late \cup {r}
  /\ UNCHANGED <<internal, running, pc>>

Chosen(r, w) ==
  /\ stage[r] = "scanning"
  /\ scan[r].next = N + 1
  /\ w = scan[r].best

\* Slip: the caller relies on the count the search read.
AcceptOnScan(r, w) ==
  /\ Chosen(r, w)
  /\ r \in Limited => scan[r].least < Limit
  /\ Push(w, r)
  /\ stage' = [stage EXCEPT ![r] = "taken"]
  /\ UNCHANGED <<scan, keep, expired, replies, endVars>>

\* The count is tested again under the mutex.
Accept(r, w) ==
  /\ Chosen(r, w)
  /\ r \in Limited => count[w] < Limit
  /\ Push(w, r)
  /\ stage' = [stage EXCEPT ![r] = "taken"]
  /\ UNCHANGED <<scan, keep, expired, replies, endVars>>

Refuse(r, w) ==
  /\ Chosen(r, w)
  /\ r \in Limited
  /\ count[w] >= Limit
  /\ Free(w)
  /\ stage' = [stage EXCEPT ![r] = "refused"]
  /\ UNCHANGED <<scan, keep, threadVars, queueVars, expired, replies, endVars, late>>

\* EnqueueInAll: a copy for each worker in turn.  The handler does not run any
\* more when the pool is stopped.
KeepAlive ==
  LET w == keep.next
  IN /\ keep.run <= MaxKeeps
     /\ stopped = 0
     /\ Push(w, <<keep.run, w>>)
     /\ keep' = IF w = N THEN [run |-> keep.run + 1, next |-> 1]
                         ELSE [keep EXCEPT !.next = @ + 1]
     /\ UNCHANGED <<stage, scan, expired, replies, endVars>>

\* The last owner of the session is gone: its weak_ptr expires.
Expire(r) ==
  /\ r \in Tokened \ expired
  /\ stage[r] = "taken"
  /\ expired' = expired \cup {r}
  /\ UNCHANGED <<callVars, threadVars, queueVars, replies, endVars, late>>

\* notify_one, by a thread that has released the mutex.
Notify(w) ==
  /\ notifies[w] > 0
  /\ notifies' = [notifies EXCEPT ![w] = @ - 1]
  /\ pc' = IF pc[w] = "waiting" THEN [pc EXCEPT ![w] = "top"] ELSE pc
  /\ UNCHANGED <<running, callVars, queueVars, expired, replies, endVars, late>>

------------------------------------------------------------------------------
(* ThreadRoutine.                                                          *)

Goto(w, from, to) == pc[w] = from /\ pc' = [pc EXCEPT ![w] = to]

\* Slip: a stopped thread does not look at its queue.
EndAtOnce(w) ==
  /\ Goto(w, "top", "ended")
  /\ ~running[w]
  /\ UNCHANGED <<running, notifies, callVars, queueVars, expired, replies, endVars, late>>

End(w) ==
  /\ Goto(w, "top", "ended")
  /\ ~running[w]
  /\ external[w] = <<>>
  /\ UNCHANGED <<running, notifies, callVars, queueVars, expired, replies, endVars, late>>

Check(w) ==
  /\ Goto(w, "top", "checked")
  /\ running[w]
  /\ external[w] = <<>>
  /\ UNCHANGED <<running, notifies, callVars, queueVars, expired, replies, endVars, late>>

Wait(w) ==
  /\ Goto(w, "checked", "waiting")
  /\ UNCHANGED <<running, notifies, callVars, queueVars, expired, replies, endVars, late>>

Spurious(w) ==
  /\ Goto(w, "waiting", "top")
  /\ UNCHANGED <<running, notifies, callVars, queueVars, expired, replies, endVars, late>>

Swap(w) ==
  /\ Goto(w, "top", "exec")
  /\ external[w] # <<>>
  /\ internal' = [internal EXCEPT ![w] = external[w]]
  /\ external' = [external EXCEPT ![w] = internal[w]]
  /\ UNCHANGED <<running, notifies, count, callVars, expired, replies, endVars, late>>

\* The loop goes on behind the first request, or clears the queue.
Advance(w) ==
  /\ pc' = [pc EXCEPT ![w] = IF Len(internal[w]) = 1 THEN "top" ELSE "exec"]
  /\ internal' = [internal EXCEPT ![w] = Tail(@)]
  /\ count' = [count EXCEPT ![w] = @ - 1]
  /\ UNCHANGED external

Dropped(w) == Head(internal[w]) \in expired

\* Slip: a skipped request is still counted.
SkipUncounted(w) ==
  /\ pc[w] = "exec"
  /\ Dropped(w)
  /\ pc' = [pc EXCEPT ![w] = IF Len(internal[w]) = 1 THEN "top" ELSE "exec"]
  /\ internal' = [internal EXCEPT ![w] = Tail(@)]
  /\ UNCHANGED <<external, count, running, notifies, callVars, expired, replies, endVars, late>>

Skip(w) ==
  /\ pc[w] = "exec"
  /\ Dropped(w)
  /\ Advance(w)
  /\ UNCHANGED <<running, notifies, callVars, expired, replies, endVars, late>>

\* The database executes the request or not; a failed one is answered too.
Execute(w) ==
  /\ pc[w] = "exec"
  /\ ~Dropped(w)
  /\ pc' = [pc EXCEPT ![w] = IF Head(internal[w]) \in Callbacks THEN "post" ELSE "posted"]
  /\ UNCHANGED <<running, notifies, callVars, queueVars, expired, replies, endVars, late>>

\* Slip: the answered request is served a second time.
PostTwice(w) ==
  /\ Goto(w, "post", "exec")
  /\ replies' = [replies EXCEPT ![Head(internal[w])] = @ + 1]
  /\ replies[Head(internal[w])] < 2
  /\ UNCHANGED <<running, notifies, callVars, queueVars, expired, endVars, late>>

\* ThreadPostResponse posts the callback.
Post(w) ==
  /\ Goto(w, "post", "posted")
  /\ replies' = [replies EXCEPT ![Head(internal[w])] = @ + 1]
  /\ UNCHANGED <<running, notifies, callVars, queueVars, expired, endVars, late>>

\* fetch_sub, at the end of ThreadPostResponse or for a request to forget.
Complete(w) ==
  /\ pc[w] = "posted"
  /\ Advance(w)
  /\ UNCHANGED <<running, notifies, callVars, expired, replies, endVars, late>>

------------------------------------------------------------------------------
(* DatabaseWorkerPool::Stop and Join, by the main thread.                  *)

\* Slip: Stop does not take the mutex, since m_running is atomic.
StopUnlocked(w) ==
  /\ stopped = w - 1
  /\ keep.next = 1
  /\ running' = [running EXCEPT ![w] = FALSE]
  /\ notifies' = [notifies EXCEPT ![w] = @ + 1]
  /\ stopped' = w
  /\ UNCHANGED <<pc, joined, callVars, queueVars, expired, replies, late>>

Stop(w) ==
  /\ stopped = w - 1
  /\ keep.next = 1
  /\ Free(w)
  /\ running' = [running EXCEPT ![w] = FALSE]
  /\ notifies' = [notifies EXCEPT ![w] = @ + 1]
  /\ stopped' = w
  /\ UNCHANGED <<pc, joined, callVars, queueVars, expired, replies, late>>

Join(w) ==
  /\ stopped = N
  /\ joined = w - 1
  /\ pc[w] = "ended"
  /\ joined' = w
  /\ UNCHANGED <<stopped, threadVars, callVars, queueVars, expired, replies, late>>

------------------------------------------------------------------------------
Thread(w) ==
  End(w) \/ Check(w) \/ Wait(w) \/ Swap(w) \/ Skip(w) \/ Execute(w) \/ Post(w) \/ Complete(w)

Next ==
  \/ \E r \in Asks :
       \/ Scan(r) \/ Expire(r)
       \/ \E w \in Workers : Accept(r, w) \/ Refuse(r, w)
  \/ KeepAlive
  \/ \E w \in Workers :
       \/ Thread(w) \/ Spurious(w) \/ Notify(w) \/ Stop(w) \/ Join(w)

Spec == Init /\ [][Next]_vars

(***************************************************************************)
(* The worker's thread runs, a thread that owes a notification gives it,   *)
(* and the main thread goes through Stop and Join once it has begun.  Stop *)
(* needs a mutex that a worker woken spuriously takes again and again: a   *)
(* mutex that is free again and again is got at last, hence SF.            *)
(***************************************************************************)
Fairness ==
  \A w \in Workers :
    /\ WF_vars(Thread(w))
    /\ WF_vars(Notify(w))
    /\ w > 1 => SF_vars(Stop(w))
    /\ WF_vars(Join(w))

FairSpec == Spec /\ Fairness

------------------------------------------------------------------------------
(* Properties.                                                             *)

Stages == {"new", "scanning", "taken", "refused"}

\* Every variable has its type; the search is at a worker or past the last.
TypeOK ==
  /\ stage \in [Asks -> Stages]
  /\ scan \in [Asks -> [next : 1 .. N + 1, best : 0 .. N, least : Nat]]
  /\ keep \in [run : Nat \ {0}, next : Workers]
  /\ running \in [Workers -> BOOLEAN]
  /\ pc \in [Workers -> Places]
  /\ external \in [Workers -> Seq(Requests)]
  /\ internal \in [Workers -> Seq(Requests)]
  /\ count \in [Workers -> Nat]
  /\ notifies \in [Workers -> Nat]
  /\ expired \subseteq Requests
  /\ replies \in [Requests -> Nat]
  /\ stopped \in 0 .. N
  /\ joined \in 0 .. N
  /\ late \subseteq Requests

\* m_requestsSize is the number of requests the worker holds, the one that is
\* answered and not yet counted off included: it neither leaks, which would
\* make TryEnqueue refuse for ever, nor wraps below 0.
CountExact ==
  \A w \in Workers : count[w] = Len(external[w]) + Len(internal[w])

Holds(w, r) ==
  \/ \E i \in 1 .. Len(external[w]) : external[w][i] = r
  \/ \E i \in 1 .. Len(internal[w]) : internal[w][i] = r

\* TryEnqueue's limit is one of the queue: however stale the counts that the
\* callers of a pool have read, a worker holds no more than DB_QUEUE_MAX_SIZE
\* requests of those that can be refused.
LimitHolds ==
  \A w \in Workers : Cardinality({r \in Limited : Holds(w, r)}) <= Limit

\* "Stops the ThreadRoutine when the queue will empty out": what a worker has
\* taken before its Stop is served before it ends.
StopDrains ==
  \A w \in Workers :
    pc[w] = "ended" =>
      /\ internal[w] = <<>>
      /\ \A i \in 1 .. Len(external[w]) : external[w][i] \in late

\* What the thread's place says about its queue, and about the request it is
\* at: with the above, an inductive invariant.
ThreadInv ==
  \A w \in Workers :
    /\ pc[w] \in {"exec", "post", "posted"} <=> internal[w] # <<>>
    /\ pc[w] = "post" => Head(internal[w]) \in Callbacks
    /\ pc[w] = "ended" => ~running[w]

WorkerInv == TypeOK /\ CountExact /\ ThreadInv /\ StopDrains

\* A request taken before Stop leaves the worker: the thread never sleeps on
\* a queue that is not empty.
TakenAreServed ==
  \A w \in Workers, r \in Requests :
    (Holds(w, r) /\ r \notin late) ~> ~Holds(w, r)

\* Once the pool is being stopped, every thread ends and is joined, whatever
\* callers still enqueue: no lost wake-up between the test and the wait.
ShutdownEnds == (stopped > 0) ~> (joined = N)

------------------------------------------------------------------------------
(* What the pool implements.                                               *)

Given(r) == IF r \in Asks THEN stage[r] \notin {"new", "scanning"}
                          ELSE r[1] < keep.run \/ (r[1] = keep.run /\ r[2] < keep.next)

Unserved(w) == IF pc[w] = "posted" THEN Tail(internal[w]) ELSE internal[w]

Fresh   == {r \in Requests : ~Given(r)}
Waiting == [w \in Workers |-> Unserved(w) \o external[w]]
Ended   == {w \in Workers : pc[w] = "ended"}

Queues == INSTANCE RequestQueues WITH
  fresh <- Fresh, queue <- Waiting, dead <- expired, closed <- Ended

\* Requests are answered once, in order, and only those of lost sessions are
\* dropped.
ImplementsQueues == Queues!Spec
==============================================================================
