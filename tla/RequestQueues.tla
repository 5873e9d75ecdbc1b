---------------------------- MODULE RequestQueues ----------------------------
(***************************************************************************)
(* What a pool of database workers promises to the code that gives it      *)
(* requests, without threads, locks, condition variables and counters:     *)
(*   - a request is taken by one worker or refused;                        *)
(*   - a worker serves its requests in the order it took them, and the     *)
(*     callback of a request is called once;                               *)
(*   - only a request whose session is gone is dropped;                    *)
(*   - a worker closes only when it has served all it has taken.           *)
(* DbWorkers implements it: see DbWorkers!Queues.                          *)
(***************************************************************************)
EXTENDS Naturals, Sequences

CONSTANTS
  Workers,
  Requests,
  Callbacks   \* the requests that have a callback

VARIABLES
  fresh,    \* requests nobody has taken or refused yet
  queue,    \* queue[w]: the requests worker w has taken and not served
  dead,     \* requests whose session is gone
  closed,   \* workers that serve nothing any more
  replies   \* replies[r]: how often the callback of r was called

vars == <<fresh, queue, dead, closed, replies>>

Init ==
  /\ fresh = Requests
  /\ queue = [w \in Workers |-> <<>>]
  /\ dead = {}
  /\ closed = {}
  /\ replies = [r \in Requests |-> 0]

Take(w, r) ==
  /\ r \in fresh
  /\ fresh' = fresh \ {r}
  /\ queue' = [queue EXCEPT ![w] = Append(@, r)]
  /\ UNCHANGED <<dead, closed, replies>>

Refuse(r) ==
  /\ r \in fresh
  /\ fresh' = fresh \ {r}
  /\ UNCHANGED <<queue, dead, closed, replies>>

Lose(r) ==
  /\ dead' = dead \cup {r}
  /\ UNCHANGED <<fresh, queue, closed, replies>>

Leaves(w) ==
  /\ w \notin closed
  /\ queue[w] # <<>>
  /\ queue' = [queue EXCEPT ![w] = Tail(@)]
  /\ UNCHANGED <<fresh, dead, closed>>

Serve(w) ==
  /\ Leaves(w)
  /\ replies' = IF Head(queue[w]) \in Callbacks
                  THEN [replies EXCEPT ![Head(queue[w])] = @ + 1]
                  ELSE replies

Drop(w) ==
  /\ Leaves(w)
  /\ Head(queue[w]) \in dead
  /\ UNCHANGED replies

Close(w) ==
  /\ queue[w] = <<>>
  /\ closed' = closed \cup {w}
  /\ UNCHANGED <<fresh, queue, dead, replies>>

Next ==
  \/ \E r \in Requests :
       \/ Refuse(r) \/ Lose(r)
       \/ \E w \in Workers : Take(w, r)
  \/ \E w \in Workers : Serve(w) \/ Drop(w) \/ Close(w)

Spec == Init /\ [][Next]_vars

------------------------------------------------------------------------------
\* Every variable has its type.
TypeOK ==
  /\ fresh \subseteq Requests
  /\ queue \in [Workers -> Seq(Requests)]
  /\ dead \subseteq Requests
  /\ closed \subseteq Workers
  /\ replies \in [Requests -> Nat]

\* A request waits in at most one place of one queue.
OnePlace ==
  \A v, w \in Workers : \A i \in 1 .. Len(queue[v]), j \in 1 .. Len(queue[w]) :
    queue[v][i] = queue[w][j] => v = w /\ i = j

\* The callback of a request (ThreadPostResponse) is called at most once, and
\* not while the request is still to be taken or served.
AnsweredOnce ==
  /\ OnePlace
  /\ \A r \in Requests :
       /\ replies[r] <= 1
       /\ r \in fresh => replies[r] = 0
  /\ \A w \in Workers : \A i \in 1 .. Len(queue[w]) :
       /\ queue[w][i] \notin fresh
       /\ replies[queue[w][i]] = 0
==============================================================================
