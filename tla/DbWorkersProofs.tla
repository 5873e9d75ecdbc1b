--------------------------- MODULE DbWorkersProofs ---------------------------
(***************************************************************************)
(* Theorems of DbWorkers, for any number of workers, any requests and any  *)
(* interleaving of callers, workers and shutdown.                          *)
(***************************************************************************)
EXTENDS DbWorkers, FiniteSetTheorems, TLAPS

------------------------------------------------------------------------------
(* The queues of a worker.                                                 *)

\* The tail of a sequence that has an element.
LEMMA TailFacts ==
  ASSUME NEW S, NEW q \in Seq(S), q # <<>>
  PROVE  /\ Head(q) \in S
         /\ Tail(q) \in Seq(S)
         /\ Len(q) \in Nat \ {0}
         /\ Len(Tail(q)) = Len(q) - 1
         /\ Len(q) = 1 <=> Tail(q) = <<>>
<1>1. Head(q) \in S /\ Tail(q) \in Seq(S) /\ Len(q) \in Nat \ {0}
  OBVIOUS
<1>2. Len(Tail(q)) = Len(q) - 1
  OBVIOUS
<1>3. Len(q) = 1 <=> Tail(q) = <<>>
  <2> DEFINE t == Tail(q)
  <2>1. t \in Seq(S)
    BY <1>1
  <2> HIDE DEF t
  <2>2. t = <<>> <=> Len(t) = 0
    BY <2>1
  <2> QED
    BY <1>1, <1>2, <2>2 DEF t
<1> QED
  BY <1>1, <1>2, <1>3

\* A worker that is at a request has one; there is one fewer behind it.
LEMMA AtRequest ==
  ASSUME WorkerInv, NEW w \in Workers, pc[w] \in {"exec", "post", "posted"}
  PROVE  /\ internal[w] # <<>>
         /\ internal[w] \in Seq(Requests)
         /\ Head(internal[w]) \in Requests
         /\ Tail(internal[w]) \in Seq(Requests)
         /\ Len(internal[w]) \in Nat \ {0}
         /\ Len(Tail(internal[w])) = Len(internal[w]) - 1
         /\ Len(internal[w]) = 1 <=> Tail(internal[w]) = <<>>
         /\ count[w] = Len(external[w]) + Len(internal[w])
         /\ Len(external[w]) \in Nat
<1>1. internal[w] \in Seq(Requests) /\ internal[w] # <<>> /\ external[w] \in Seq(Requests)
  BY DEF WorkerInv, TypeOK, ThreadInv
<1>2. count[w] = Len(external[w]) + Len(internal[w])
  BY DEF WorkerInv, CountExact
<1>3. Len(external[w]) \in Nat
  BY <1>1
<1> QED
  BY <1>1, <1>2, <1>3, TailFacts

------------------------------------------------------------------------------
(* Every step keeps WorkerInv.                                             *)

LEMMA InitInv == Init => WorkerInv
<1> SUFFICES ASSUME Init PROVE WorkerInv
  OBVIOUS
<1>1. TypeOK
  <2>1. 1 \in Workers /\ 1 \in 1 .. N + 1 /\ 0 \in 0 .. N
    BY WorkersAssumption DEF Workers
  <2> QED
    BY <2>1 DEF Init, TypeOK, Stages, NoScan, Places
<1>2. CountExact /\ ThreadInv /\ StopDrains
  BY DEF Init, CountExact, ThreadInv, StopDrains
<1> QED
  BY <1>1, <1>2 DEF WorkerInv

\* A caller and a session that dies do not touch the workers.
LEMMA CallerKeepsInv ==
  ASSUME WorkerInv, NEW r \in Asks, NEW w \in Workers,
         Scan(r) \/ Refuse(r, w) \/ Expire(r)
  PROVE  WorkerInv'
<1> USE DEF WorkerInv
<1>1. UNCHANGED <<keep, threadVars, queueVars, replies, endVars, late>>
  BY DEF Scan, Refuse, Expire, callVars
<1>2. CountExact' /\ ThreadInv' /\ StopDrains'
  BY <1>1 DEF CountExact, ThreadInv, StopDrains, threadVars, queueVars
<1>3. stage' \in [Asks -> Stages]
  BY DEF TypeOK, Scan, Refuse, Expire, Stages, callVars
<1>4. scan' \in [Asks -> [next : 1 .. N + 1, best : 0 .. N, least : Nat]]
  <2>1. CASE Scan(r)
    <3> DEFINE u == scan[r].next
               better == scan[r].best = 0 \/ count[u] < scan[r].least
               e == [next |-> u + 1, best |-> IF better THEN u ELSE scan[r].best,
                     least |-> IF better THEN count[u] ELSE scan[r].least]
    <3>1. u \in Workers /\ scan' = [scan EXCEPT ![r] = e]
      BY <2>1 DEF Scan
    <3>2. scan[r] \in [next : 1 .. N + 1, best : 0 .. N, least : Nat]
      BY DEF TypeOK
    <3>3. u \in 1 .. N /\ count[u] \in Nat
      BY <3>1 DEF TypeOK, Workers
    <3>4. e \in [next : 1 .. N + 1, best : 0 .. N, least : Nat]
      BY <3>2, <3>3, WorkersAssumption
    <3> QED
      BY <3>1, <3>4 DEF TypeOK
  <2>2. CASE ~Scan(r)
    BY <2>2 DEF TypeOK, Refuse, Expire, callVars
  <2> QED
    BY <2>1, <2>2
<1>5. expired' \subseteq Requests
  BY KindsAssumption DEF TypeOK, Scan, Refuse, Expire, Requests
<1> QED
  BY <1>1, <1>2, <1>3, <1>4, <1>5
     DEF TypeOK, threadVars, queueVars, endVars

\* A request that is pushed is counted; if the worker has ended, it is late.
LEMMA PushKeepsInv ==
  ASSUME WorkerInv, NEW w \in Workers, NEW r \in Requests, Push(w, r),
         stage' \in [Asks -> Stages], scan' = scan,
         keep' \in [run : Nat \ {0}, next : Workers],
         UNCHANGED <<expired, replies, endVars>>
  PROVE  WorkerInv'
<1> USE DEF WorkerInv
<1> DEFINE q == external[w]
<1>1. /\ external' = [external EXCEPT ![w] = Append(q, r)]
      /\ external \in [Workers -> Seq(Requests)] /\ q \in Seq(Requests)
      /\ UNCHANGED <<internal, running, pc>>
  BY DEF Push, TypeOK
<1>2. /\ external' \in [Workers -> Seq(Requests)]
      /\ external'[w] = Append(q, r)
      /\ \A v \in Workers \ {w} : external'[v] = external[v]
  BY <1>1
<1>3. /\ Len(external'[w]) = Len(q) + 1 /\ Len(q) \in Nat
      /\ external'[w][Len(q) + 1] = r
      /\ \A i \in 1 .. Len(q) : external'[w][i] = q[i]
  BY <1>1, <1>2
<1>4. /\ count' \in [Workers -> Nat] /\ count'[w] = count[w] + 1
      /\ \A v \in Workers \ {w} : count'[v] = count[v]
      /\ notifies' \in [Workers -> Nat]
      /\ late' \subseteq Requests /\ late \subseteq late'
      /\ ~running[w] => r \in late'
  <2>1. late' \subseteq Requests /\ late \subseteq late' /\ (~running[w] => r \in late')
    BY DEF Push, TypeOK
  <2>2. count \in [Workers -> Nat] /\ count' = [count EXCEPT ![w] = count[w] + 1]
    BY DEF Push, TypeOK
  <2>3. notifies \in [Workers -> Nat] /\ notifies' = [notifies EXCEPT ![w] = notifies[w] + 1]
    BY DEF Push, TypeOK
  <2>4. count[w] + 1 \in Nat /\ notifies[w] + 1 \in Nat
    BY <2>2, <2>3
  <2> QED
    BY <2>1, <2>2, <2>3, <2>4
<1>5. TypeOK'
  BY <1>1, <1>2, <1>4 DEF TypeOK, endVars
<1>6. CountExact'
  <2> SUFFICES ASSUME NEW v \in Workers
               PROVE  count'[v] = Len(external'[v]) + Len(internal[v])
    BY <1>1 DEF CountExact
  <2>1. count[v] = Len(external[v]) + Len(internal[v])
    BY DEF CountExact
  <2>2. Len(internal[v]) \in Nat
    BY DEF TypeOK
  <2>3. CASE v = w
    <3> DEFINE m == Len(q)
               n == Len(internal[w])
               c == count[w]
    <3>1. /\ c = m + n /\ m \in Nat /\ n \in Nat
          /\ count'[w] = c + 1 /\ Len(external'[w]) = m + 1
      BY <1>3, <1>4, <2>1, <2>2, <2>3
    <3> HIDE DEF m, n, c
    <3>2. c + 1 = (m + 1) + n
      BY <3>1
    <3> QED
      BY <2>3, <3>1, <3>2 DEF n
  <2>4. CASE v # w
    BY <1>2, <1>4, <2>1, <2>4
  <2> QED
    BY <2>3, <2>4
<1>7. ThreadInv'
  BY <1>1 DEF ThreadInv
<1>8. StopDrains'
  <2> SUFFICES ASSUME NEW v \in Workers, pc[v] = "ended", NEW i \in 1 .. Len(external'[v])
               PROVE  external'[v][i] \in late'
    BY <1>1 DEF StopDrains
  <2>1. ~running[v]
    BY DEF ThreadInv
  <2>2. CASE v = w /\ i = Len(q) + 1
    BY <2>1, <2>2, <1>3, <1>4
  <2>3. CASE ~(v = w /\ i = Len(q) + 1)
    <3>1. i \in 1 .. Len(external[v]) /\ external'[v][i] = external[v][i]
      BY <2>3, <1>2, <1>3
    <3> QED
      BY <3>1, <1>4 DEF StopDrains
  <2> QED
    BY <2>2, <2>3
<1> QED
  BY <1>5, <1>6, <1>7, <1>8

LEMMA AcceptKeepsInv ==
  ASSUME WorkerInv, NEW r \in Asks, NEW w \in Workers, Accept(r, w)
  PROVE  WorkerInv'
<1>1. stage' \in [Asks -> Stages]
  BY DEF WorkerInv, TypeOK, Accept, Stages
<1> QED
  BY <1>1, PushKeepsInv DEF Accept, Requests, WorkerInv, TypeOK

LEMMA KeepAliveKeepsInv ==
  ASSUME WorkerInv, KeepAlive
  PROVE  WorkerInv'
<1> DEFINE w == keep.next
<1>1. keep \in [run : Nat \ {0}, next : Workers] /\ keep.run <= MaxKeeps
  BY DEF WorkerInv, TypeOK, KeepAlive
<1>2. w \in Workers /\ <<keep.run, w>> \in Requests
  BY <1>1, KeepsAssumption DEF Requests, KeepAlives
<1>3. keep' \in [run : Nat \ {0}, next : Workers]
  <2>1. CASE w = N
    BY <1>1, <2>1, WorkersAssumption DEF KeepAlive, Workers
  <2>2. CASE w # N
    <3>1. keep' = [keep EXCEPT !.next = @ + 1] /\ w + 1 \in Workers
      BY <1>1, <2>2, WorkersAssumption DEF KeepAlive, Workers
    <3> QED
      BY <1>1, <3>1
  <2> QED
    BY <2>1, <2>2
<1>4. stage' \in [Asks -> Stages]
  BY DEF WorkerInv, TypeOK, KeepAlive
<1> QED
  BY <1>2, <1>3, <1>4, PushKeepsInv DEF KeepAlive

\* A step that moves the thread between places at which it has no request.
LEMMA IdleKeepsInv ==
  ASSUME WorkerInv, NEW w \in Workers,
         End(w) \/ Check(w) \/ Wait(w) \/ Spurious(w) \/ Notify(w)
  PROVE  WorkerInv'
<1> USE DEF WorkerInv
<1>1. UNCHANGED <<running, callVars, queueVars, expired, replies, endVars, late>>
  BY DEF End, Check, Wait, Spurious, Notify
<1>2. notifies' \in [Workers -> Nat]
  <2>1. CASE Notify(w)
    <3>1. notifies[w] \in Nat /\ notifies[w] > 0 /\ notifies' = [notifies EXCEPT ![w] = notifies[w] - 1]
      BY <2>1 DEF TypeOK, Notify
    <3>2. notifies[w] - 1 \in Nat
      BY <3>1
    <3> QED
      BY <3>1, <3>2 DEF TypeOK
  <2>2. CASE ~Notify(w)
    BY <2>2 DEF TypeOK, End, Check, Wait, Spurious
  <2> QED
    BY <2>1, <2>2
<1>3. PICK to \in {"top", "checked", "waiting", "ended"} :
        /\ pc' = pc \/ pc' = [pc EXCEPT ![w] = to]
        /\ pc' # pc => pc[w] \in {"top", "checked", "waiting"}
        /\ to = "ended" => ~running[w] /\ external[w] = <<>>
  <2>1. CASE End(w)
    BY <2>1 DEF End, Goto
  <2>2. CASE Check(w)
    BY <2>2 DEF Check, Goto
  <2>3. CASE Wait(w)
    BY <2>3 DEF Wait, Goto
  <2>4. CASE Spurious(w) \/ Notify(w)
    BY <2>4 DEF Spurious, Notify, Goto
  <2> QED
    BY <2>1, <2>2, <2>3, <2>4
<1>4. pc' \in [Workers -> Places]
  BY <1>3 DEF TypeOK, Places
<1>5. TypeOK'
  BY <1>1, <1>2, <1>4 DEF TypeOK, callVars, queueVars, endVars
<1>6. CountExact'
  BY <1>1 DEF CountExact, queueVars
<1>7. \A v \in Workers : pc'[v] = pc[v] \/ (v = w /\ pc'[v] = to /\ pc[v] \in {"top", "checked", "waiting"})
  BY <1>3 DEF TypeOK
<1>8. ThreadInv'
  BY <1>1, <1>3, <1>7 DEF ThreadInv, queueVars
<1>9. StopDrains'
  <2> SUFFICES ASSUME NEW v \in Workers, pc'[v] = "ended"
               PROVE  /\ internal[v] = <<>>
                      /\ \A i \in 1 .. Len(external[v]) : external[v][i] \in late
    BY <1>1 DEF StopDrains, queueVars
  <2>1. CASE pc[v] = "ended"
    BY <2>1 DEF StopDrains
  <2>2. CASE pc[v] # "ended"
    <3>1. v = w /\ external[v] = <<>> /\ pc[v] \in {"top", "checked", "waiting"}
      BY <1>3, <1>7, <2>2
    <3> QED
      BY <3>1 DEF ThreadInv
  <2> QED
    BY <2>1, <2>2
<1> QED
  BY <1>5, <1>6, <1>8, <1>9

LEMMA SwapKeepsInv ==
  ASSUME WorkerInv, NEW w \in Workers, Swap(w)
  PROVE  WorkerInv'
<1> USE DEF WorkerInv
<1>1. /\ pc[w] = "top" /\ internal[w] = <<>> /\ external[w] # <<>>
      /\ pc' = [pc EXCEPT ![w] = "exec"]
      /\ internal' = [internal EXCEPT ![w] = external[w]]
      /\ external' = [external EXCEPT ![w] = internal[w]]
      /\ UNCHANGED <<running, notifies, count, callVars, expired, replies, endVars, late>>
  BY DEF Swap, Goto, ThreadInv
<1>2. TypeOK'
  BY <1>1 DEF TypeOK, Places, callVars, endVars
<1>3. \A v \in Workers :
        IF v = w THEN pc'[v] = "exec" /\ internal'[v] = external[v] /\ external'[v] = <<>>
                 ELSE pc'[v] = pc[v] /\ internal'[v] = internal[v] /\ external'[v] = external[v]
  BY <1>1 DEF TypeOK
<1>4. CountExact'
  <2> SUFFICES ASSUME NEW v \in Workers
               PROVE  count[v] = Len(external'[v]) + Len(internal'[v])
    BY <1>1 DEF CountExact
  <2>1. count[v] = Len(external[v]) + Len(internal[v])
    BY DEF CountExact
  <2>2. Len(external[v]) \in Nat /\ Len(internal[v]) \in Nat
    BY DEF TypeOK
  <2>3. CASE v = w
    <3>1. internal'[v] = external[v] /\ external'[v] = internal[v]
      BY <1>1, <1>3, <2>3
    <3> DEFINE m == Len(external[v])
               n == Len(internal[v])
    <3>2. count[v] = m + n /\ m \in Nat /\ n \in Nat
      BY <2>1, <2>2
    <3> HIDE DEF m, n
    <3>3. count[v] = n + m
      BY <3>2
    <3> QED
      BY <3>1, <3>3 DEF m, n
  <2>4. CASE v # w
    BY <1>3, <2>1, <2>4
  <2> QED
    BY <2>3, <2>4
<1>5. ThreadInv'
  BY <1>1, <1>3 DEF ThreadInv
<1>6. StopDrains'
  BY <1>1, <1>3 DEF StopDrains
<1> QED
  BY <1>2, <1>4, <1>5, <1>6

\* The request at which the worker was is counted off.
LEMMA AdvanceKeepsInv ==
  ASSUME WorkerInv, NEW w \in Workers, Skip(w) \/ Complete(w)
  PROVE  WorkerInv'
<1> USE DEF WorkerInv
<1> DEFINE to == IF Len(internal[w]) = 1 THEN "top" ELSE "exec"
<1>1. /\ pc[w] \in {"exec", "posted"}
      /\ pc' = [pc EXCEPT ![w] = to]
      /\ internal' = [internal EXCEPT ![w] = Tail(internal[w])]
      /\ count' = [count EXCEPT ![w] = count[w] - 1]
      /\ UNCHANGED <<external, running, notifies, callVars, expired, replies, endVars, late>>
  BY DEF Skip, Complete, Advance
<1>2. /\ Tail(internal[w]) \in Seq(Requests)
      /\ Len(internal[w]) \in Nat \ {0}
      /\ Len(Tail(internal[w])) = Len(internal[w]) - 1
      /\ Len(internal[w]) = 1 <=> Tail(internal[w]) = <<>>
      /\ count[w] = Len(external[w]) + Len(internal[w])
      /\ Len(external[w]) \in Nat
  BY <1>1, AtRequest
<1>3. count[w] - 1 \in Nat /\ count[w] - 1 = Len(external[w]) + Len(Tail(internal[w]))
  <2> DEFINE m == Len(internal[w])
             n == Len(external[w])
             k == Len(Tail(internal[w]))
             c == count[w]
  <2>1. m \in Nat \ {0} /\ n \in Nat /\ k = m - 1 /\ c = n + m
    BY <1>2
  <2> HIDE DEF m, n, k, c
  <2>2. c - 1 \in Nat /\ c - 1 = n + k
    BY <2>1
  <2> QED
    BY <2>2 DEF m, n, k, c
<1>4. \A v \in Workers :
        IF v = w THEN /\ pc'[v] = to /\ internal'[v] = Tail(internal[w])
                      /\ count'[v] = count[w] - 1
                 ELSE pc'[v] = pc[v] /\ internal'[v] = internal[v] /\ count'[v] = count[v]
  BY <1>1 DEF TypeOK
<1>5. TypeOK'
  <2>1. /\ pc' \in [Workers -> Places]
        /\ internal' \in [Workers -> Seq(Requests)]
        /\ count' \in [Workers -> Nat]
    BY <1>1, <1>2, <1>3 DEF TypeOK, Places
  <2> QED
    BY <1>1, <2>1 DEF TypeOK, callVars, endVars
<1>6. CountExact'
  BY <1>1, <1>3, <1>4 DEF CountExact
<1>7. ThreadInv'
  <2> SUFFICES ASSUME NEW v \in Workers
               PROVE  /\ pc'[v] \in {"exec", "post", "posted"} <=> internal'[v] # <<>>
                      /\ pc'[v] = "post" => Head(internal'[v]) \in Callbacks
                      /\ pc'[v] = "ended" => ~running[v]
    BY <1>1 DEF ThreadInv
  <2>1. CASE v = w
    <3>1. pc'[v] = "top" <=> internal'[v] = <<>>
      BY <1>2, <1>4, <2>1
    <3>2. pc'[v] \in {"top", "exec"}
      BY <1>4, <2>1
    <3> QED
      BY <3>1, <3>2
  <2>2. CASE v # w
    BY <1>4, <2>2 DEF ThreadInv
  <2> QED
    BY <2>1, <2>2
<1>8. StopDrains'
  BY <1>1, <1>4 DEF StopDrains
<1> QED
  BY <1>5, <1>6, <1>7, <1>8

LEMMA ServeKeepsInv ==
  ASSUME WorkerInv, NEW w \in Workers, Execute(w) \/ Post(w)
  PROVE  WorkerInv'
<1> USE DEF WorkerInv
<1>1. /\ pc[w] \in {"exec", "post"}
      /\ UNCHANGED <<running, notifies, callVars, queueVars, expired, endVars, late>>
  BY DEF Execute, Post, Goto
<1>2. PICK to \in {"post", "posted"} :
        /\ pc' = [pc EXCEPT ![w] = to]
        /\ to = "post" => Head(internal[w]) \in Callbacks
  BY DEF Execute, Post, Goto
<1>3. Head(internal[w]) \in Requests
  BY <1>1, AtRequest
<1>4. replies' \in [Requests -> Nat]
  <2> DEFINE h == Head(internal[w])
  <2>1. replies \in [Requests -> Nat] /\ replies[h] + 1 \in Nat
    <3>1. replies \in [Requests -> Nat] /\ h \in Requests
      BY <1>3 DEF TypeOK
    <3> HIDE DEF h
    <3> QED
      BY <3>1
  <2>2. CASE Execute(w)
    BY <2>1, <2>2 DEF Execute
  <2>3. CASE Post(w)
    <3>1. replies' = [replies EXCEPT ![h] = replies[h] + 1]
      BY <2>3 DEF Post
    <3> HIDE DEF h
    <3> QED
      BY <2>1, <3>1
  <2> QED
    BY <2>2, <2>3
<1>5. TypeOK'
  BY <1>1, <1>2, <1>4 DEF TypeOK, Places, callVars, queueVars, endVars
<1>6. \A v \in Workers : pc'[v] = IF v = w THEN to ELSE pc[v]
  BY <1>2 DEF TypeOK
<1>7. CountExact'
  BY <1>1 DEF CountExact, queueVars
<1>8. ThreadInv'
  BY <1>1, <1>2, <1>6 DEF ThreadInv, queueVars
<1>9. StopDrains'
  BY <1>1, <1>2, <1>6 DEF StopDrains, queueVars
<1> QED
  BY <1>5, <1>7, <1>8, <1>9

LEMMA EndKeepsInv ==
  ASSUME WorkerInv, NEW w \in Workers, Stop(w) \/ Join(w)
  PROVE  WorkerInv'
<1> USE DEF WorkerInv
<1>1. UNCHANGED <<pc, callVars, queueVars, expired, replies, late>>
  BY DEF Stop, Join, threadVars
<1>2. /\ running' \in [Workers -> BOOLEAN]
      /\ notifies' \in [Workers -> Nat]
      /\ \A v \in Workers : running'[v] => running[v]
  <2>1. running \in [Workers -> BOOLEAN] /\ notifies \in [Workers -> Nat]
    BY DEF TypeOK
  <2>2. CASE Join(w)
    BY <2>1, <2>2 DEF Join, threadVars
  <2>3. CASE Stop(w)
    <3>1. /\ running' = [running EXCEPT ![w] = FALSE]
          /\ notifies' = [notifies EXCEPT ![w] = notifies[w] + 1]
      BY <2>3 DEF Stop
    <3>2. notifies[w] + 1 \in Nat
      BY <2>1
    <3> QED
      BY <2>1, <3>1, <3>2
  <2> QED
    BY <2>2, <2>3
<1>3. stopped' \in 0 .. N /\ joined' \in 0 .. N
  <2>1. w \in 0 .. N /\ stopped \in 0 .. N /\ joined \in 0 .. N
    BY WorkersAssumption DEF TypeOK, Workers
  <2> QED
    BY <2>1 DEF Stop, Join
<1>4. TypeOK'
  BY <1>1, <1>2, <1>3 DEF TypeOK, callVars, queueVars
<1>5. CountExact' /\ ThreadInv' /\ StopDrains'
  BY <1>1, <1>2 DEF CountExact, ThreadInv, StopDrains, queueVars
<1> QED
  BY <1>4, <1>5

LEMMA NextInv == WorkerInv /\ [Next]_vars => WorkerInv'
<1> SUFFICES ASSUME WorkerInv, [Next]_vars PROVE WorkerInv'
  OBVIOUS
<1>1. CASE UNCHANGED vars
  BY <1>1 DEF WorkerInv, TypeOK, CountExact, ThreadInv, StopDrains,
              vars, callVars, threadVars, queueVars, endVars
<1>2. ASSUME NEW r \in Asks, Scan(r) \/ Expire(r) PROVE WorkerInv'
  <2>1. 1 \in Workers
    BY WorkersAssumption DEF Workers
  <2> QED
    BY <1>2, <2>1, CallerKeepsInv
<1>3. ASSUME NEW r \in Asks, NEW w \in Workers, Accept(r, w) \/ Refuse(r, w) PROVE WorkerInv'
  BY <1>3, CallerKeepsInv, AcceptKeepsInv
<1>4. CASE KeepAlive
  BY <1>4, KeepAliveKeepsInv
<1>5. ASSUME NEW w \in Workers, Thread(w) PROVE WorkerInv'
  BY <1>5, IdleKeepsInv, SwapKeepsInv, AdvanceKeepsInv, ServeKeepsInv DEF Thread
<1>6. ASSUME NEW w \in Workers, Spurious(w) \/ Notify(w) \/ Stop(w) \/ Join(w) PROVE WorkerInv'
  BY <1>6, IdleKeepsInv, EndKeepsInv
<1> QED
  BY <1>1, <1>2, <1>3, <1>4, <1>5, <1>6 DEF Next

\* Every variable of a pool of workers keeps its type: no count falls below 0.
THEOREM TypeCorrect == Spec => []TypeOK
<1>1. WorkerInv => TypeOK
  BY DEF WorkerInv
<1> QED
  BY <1>1, InitInv, NextInv, PTL DEF Spec

\* m_requestsSize counts the requests a worker holds, whatever fails, expires
\* or is enqueued meanwhile.
THEOREM CountCorrect == Spec => []CountExact
<1>1. WorkerInv => CountExact
  BY DEF WorkerInv
<1> QED
  BY <1>1, InitInv, NextInv, PTL DEF Spec

\* A worker that ends has served everything it took before its Stop.
THEOREM StopCorrect == Spec => []StopDrains
<1>1. WorkerInv => StopDrains
  BY DEF WorkerInv
<1> QED
  BY <1>1, InitInv, NextInv, PTL DEF Spec

------------------------------------------------------------------------------
(* A pool of workers implements RequestQueues.                             *)

\* Sequences: what joins at the end and what leaves at the front.
LEMMA ConcatAppend ==
  ASSUME NEW S, NEW p \in Seq(S), NEW q \in Seq(S), NEW e \in S
  PROVE  p \o Append(q, e) = Append(p \o q, e)
  OBVIOUS

LEMMA ConcatTail ==
  ASSUME NEW S, NEW p \in Seq(S), NEW q \in Seq(S), p # <<>>
  PROVE  /\ p \o q # <<>>
         /\ Head(p \o q) = Head(p)
         /\ Tail(p \o q) = Tail(p) \o q
  OBVIOUS

\* The queues that requests wait in are sequences of requests.
LEMMA WaitingType ==
  ASSUME WorkerInv
  PROVE  /\ Waiting \in [Workers -> Seq(Requests)]
         /\ \A w \in Workers :
              /\ Unserved(w) \in Seq(Requests)
              /\ external[w] \in Seq(Requests)
              /\ Waiting[w] = Unserved(w) \o external[w]
<1>1. ASSUME NEW w \in Workers
      PROVE  Unserved(w) \in Seq(Requests) /\ external[w] \in Seq(Requests)
  <2>1. external[w] \in Seq(Requests) /\ internal[w] \in Seq(Requests)
    BY DEF WorkerInv, TypeOK
  <2>2. CASE pc[w] = "posted"
    BY <2>2, AtRequest, <2>1 DEF Unserved
  <2>3. CASE pc[w] # "posted"
    BY <2>1, <2>3 DEF Unserved
  <2> QED
    BY <2>1, <2>2, <2>3
<1> QED
  BY <1>1 DEF Waiting

\* Steps of the threads that no caller sees.
LEMMA SameWaiting ==
  ASSUME WorkerInv, \A w \in Workers : Unserved(w)' \o external'[w] = Unserved(w) \o external[w]
  PROVE  Waiting' = Waiting
  BY DEF Waiting

LEMMA SameFresh ==
  ASSUME UNCHANGED <<stage, keep>>
  PROVE  Fresh' = Fresh
  BY DEF Fresh, Given

LEMMA PushTakes ==
  ASSUME WorkerInv, NEW w \in Workers, NEW r \in Requests, Push(w, r),
         r \in Fresh, Fresh' = Fresh \ {r}, UNCHANGED <<expired, replies>>
  PROVE  Queues!Take(w, r)
<1>1. /\ external' = [external EXCEPT ![w] = Append(external[w], r)]
      /\ external \in [Workers -> Seq(Requests)]
      /\ UNCHANGED <<internal, pc>>
  BY DEF Push, WorkerInv, TypeOK
<1>2. \A v \in Workers : Unserved(v)' = Unserved(v)
  BY <1>1 DEF Unserved
<1>3. Unserved(w) \o external'[w] = Append(Waiting[w], r)
  <2>1. external'[w] = Append(external[w], r)
    BY <1>1
  <2>2. Unserved(w) \in Seq(Requests) /\ external[w] \in Seq(Requests)
    BY WaitingType
  <2>3. Unserved(w) \o Append(external[w], r) = Append(Unserved(w) \o external[w], r)
    BY <2>2, ConcatAppend
  <2> QED
    BY <2>1, <2>3, WaitingType
<1>4. Waiting' = [Waiting EXCEPT ![w] = Append(Waiting[w], r)]
  BY <1>1, <1>2, <1>3, WaitingType DEF Waiting
<1>5. Ended' = Ended
  BY <1>1 DEF Ended
<1> QED
  BY <1>4, <1>5 DEF Queues!Take

LEMMA AcceptTakes ==
  ASSUME WorkerInv, NEW r \in Asks, NEW w \in Workers, Accept(r, w)
  PROVE  Queues!Take(w, r)
<1>1. /\ stage[r] = "scanning" /\ stage \in [Asks -> Stages]
      /\ stage' = [stage EXCEPT ![r] = "taken"]
      /\ UNCHANGED <<keep, expired, replies>>
      /\ r \in Requests /\ Push(w, r)
  BY DEF Accept, Chosen, WorkerInv, TypeOK, Requests
<1>2. \A x \in Asks : stage'[x] = IF x = r THEN "taken" ELSE stage[x]
  BY <1>1
<1>3. r \in Fresh /\ Fresh' = Fresh \ {r}
  BY <1>1, <1>2 DEF Fresh, Given
<1> QED
  BY <1>1, <1>3, PushTakes

LEMMA RefuseRefuses ==
  ASSUME WorkerInv, NEW r \in Asks, NEW w \in Workers, Refuse(r, w)
  PROVE  Queues!Refuse(r)
<1>1. /\ stage[r] = "scanning" /\ stage \in [Asks -> Stages]
      /\ stage' = [stage EXCEPT ![r] = "refused"]
      /\ UNCHANGED <<keep, pc, internal, external, expired, replies>>
      /\ r \in Requests
  BY DEF Refuse, Chosen, WorkerInv, TypeOK, Requests, threadVars, queueVars
<1>2. \A x \in Asks : stage'[x] = IF x = r THEN "refused" ELSE stage[x]
  BY <1>1
<1>3. r \in Fresh /\ Fresh' = Fresh \ {r}
  BY <1>1, <1>2 DEF Fresh, Given
<1>4. Waiting' = Waiting /\ Ended' = Ended
  BY <1>1 DEF Waiting, Unserved, Ended
<1> QED
  BY <1>1, <1>3, <1>4 DEF Queues!Refuse

LEMMA KeepAliveTakes ==
  ASSUME WorkerInv, KeepAlive
  PROVE  \E w \in Workers, r \in Requests : Queues!Take(w, r)
<1> DEFINE w == keep.next
           n == keep.run
           k == <<n, w>>
<1>1. /\ keep \in [run : Nat \ {0}, next : Workers] /\ n <= MaxKeeps
      /\ Push(w, k) /\ UNCHANGED <<stage, expired, replies>>
  BY DEF WorkerInv, TypeOK, KeepAlive
<1>2. w \in Workers /\ n \in Nat \ {0} /\ k \in KeepAlives /\ k \in Requests /\ k \notin Asks
  BY <1>1, KeepsAssumption DEF Requests, KeepAlives
<1>3. \/ keep'.run = n + 1 /\ keep'.next = 1 /\ w = N
      \/ keep'.run = n /\ keep'.next = w + 1 /\ w # N
  BY <1>1 DEF KeepAlive
<1>4. ASSUME NEW x \in KeepAlives
      PROVE  Given(x)' <=> Given(x) \/ x = k
  <2>1. x = <<x[1], x[2]>> /\ x[1] \in 1 .. MaxKeeps /\ x[2] \in 1 .. N /\ x \notin Asks
    BY KeepsAssumption DEF KeepAlives, Workers
  <2>2. w \in 1 .. N /\ N \in Nat /\ MaxKeeps \in Nat
    BY <1>2, WorkersAssumption, KeepsAssumption DEF Workers
  <2>3. Given(x) <=> x[1] < n \/ (x[1] = n /\ x[2] < w)
    BY <2>1 DEF Given
  <2>4. Given(x)' <=> x[1] < keep'.run \/ (x[1] = keep'.run /\ x[2] < keep'.next)
    BY <2>1 DEF Given
  <2>5. x = k <=> x[1] = n /\ x[2] = w
    BY <2>1
  <2>6. Given(x)' <=> x[1] < n \/ (x[1] = n /\ x[2] <= w)
    BY <1>2, <1>3, <2>1, <2>2, <2>4
  <2> QED
    BY <1>2, <2>1, <2>2, <2>3, <2>5, <2>6
<1>5. \A x \in Asks : Given(x)' = Given(x)
  BY <1>1 DEF Given
<1>6. ~Given(k)
  BY <1>2 DEF Given, Workers
<1>7. k \in Fresh /\ Fresh' = Fresh \ {k}
  BY <1>2, <1>4, <1>5, <1>6 DEF Fresh, Requests
<1>8. Queues!Take(w, k)
  BY <1>1, <1>2, <1>7, PushTakes
<1> QED
  BY <1>2, <1>8

LEMMA EndCloses ==
  ASSUME WorkerInv, NEW w \in Workers, End(w)
  PROVE  Queues!Close(w)
<1>1. /\ pc[w] = "top" /\ pc \in [Workers -> Places] /\ pc' = [pc EXCEPT ![w] = "ended"]
      /\ internal[w] = <<>> /\ external[w] = <<>>
      /\ UNCHANGED <<stage, keep, internal, external, expired, replies>>
  BY DEF End, Goto, WorkerInv, TypeOK, ThreadInv, callVars, queueVars
<1>2. \A v \in Workers : pc'[v] = IF v = w THEN "ended" ELSE pc[v]
  BY <1>1
<1>3. Waiting[w] = <<>> /\ Waiting' = Waiting
  <2>1. \A v \in Workers : Unserved(v)' = Unserved(v)
    BY <1>1, <1>2 DEF Unserved
  <2>2. Waiting' = Waiting
    BY <1>1, <2>1 DEF Waiting
  <2>3. Waiting[w] = <<>> \o <<>>
    BY <1>1 DEF Waiting, Unserved
  <2>4. <<>> \o <<>> = <<>>
    OBVIOUS
  <2> QED
    BY <2>2, <2>3, <2>4
<1>4. Ended' = Ended \cup {w}
  BY <1>1, <1>2 DEF Ended
<1> QED
  BY <1>1, <1>3, <1>4, SameFresh DEF Queues!Close

\* The first request leaves: the thread skips it, forgets it or posts it.
LEMMA FirstLeaves ==
  ASSUME WorkerInv, NEW w \in Workers, pc[w] \in {"exec", "post"},
         Unserved(w)' = Tail(internal[w]), external' = external,
         \A v \in Workers \ {w} : Unserved(v)' = Unserved(v),
         \A v \in Workers : pc'[v] = "ended" <=> pc[v] = "ended",
         UNCHANGED <<stage, keep, expired>>
  PROVE  Queues!Leaves(w) /\ Head(Waiting[w]) = Head(internal[w])
<1>1. Unserved(w) = internal[w] /\ internal[w] # <<>> /\ internal[w] \in Seq(Requests)
  BY AtRequest DEF Unserved
<1>2. /\ Waiting[w] # <<>> /\ Head(Waiting[w]) = Head(internal[w])
      /\ Tail(Waiting[w]) = Tail(internal[w]) \o external[w]
  <2>1. Waiting[w] = internal[w] \o external[w] /\ external[w] \in Seq(Requests)
    BY <1>1, WaitingType
  <2> DEFINE p == internal[w]
             q == external[w]
  <2>2. p \in Seq(Requests) /\ q \in Seq(Requests) /\ p # <<>> /\ Waiting[w] = p \o q
    BY <1>1, <2>1
  <2> HIDE DEF p, q
  <2>3. p \o q # <<>> /\ Head(p \o q) = Head(p) /\ Tail(p \o q) = Tail(p) \o q
    BY <2>2, ConcatTail
  <2> QED
    BY <2>2, <2>3 DEF p, q
<1>3. Waiting' = [Waiting EXCEPT ![w] = Tail(Waiting[w])]
  BY <1>2, WaitingType DEF Waiting
<1>4. Ended' = Ended /\ w \notin Ended
  BY DEF Ended
<1> QED
  BY <1>2, <1>3, <1>4, SameFresh DEF Queues!Leaves

LEMMA SkipDrops ==
  ASSUME WorkerInv, NEW w \in Workers, Skip(w)
  PROVE  Queues!Drop(w)
<1> DEFINE to == IF Len(internal[w]) = 1 THEN "top" ELSE "exec"
<1>1. /\ pc[w] = "exec" /\ Head(internal[w]) \in expired
      /\ pc' = [pc EXCEPT ![w] = to]
      /\ internal' = [internal EXCEPT ![w] = Tail(internal[w])]
      /\ UNCHANGED <<external, stage, keep, expired, replies>>
      /\ pc \in [Workers -> Places] /\ internal \in [Workers -> Seq(Requests)]
  BY DEF Skip, Dropped, Advance, callVars, WorkerInv, TypeOK
<1>2. to # "posted" /\ to # "ended"
  OBVIOUS
<1>3. \A v \in Workers : /\ pc'[v] = IF v = w THEN to ELSE pc[v]
                         /\ internal'[v] = IF v = w THEN Tail(internal[w]) ELSE internal[v]
  <2> DEFINE t == Tail(internal[w])
  <2>1. /\ pc' = [pc EXCEPT ![w] = to] /\ pc \in [Workers -> Places]
        /\ internal' = [internal EXCEPT ![w] = t] /\ internal \in [Workers -> Seq(Requests)]
    BY <1>1
  <2> HIDE DEF to, t
  <2>2. \A v \in Workers : /\ pc'[v] = IF v = w THEN to ELSE pc[v]
                           /\ internal'[v] = IF v = w THEN t ELSE internal[v]
    BY <2>1
  <2> QED
    BY <2>2 DEF t
<1>4. /\ Unserved(w)' = Tail(internal[w])
      /\ \A v \in Workers \ {w} : Unserved(v)' = Unserved(v)
      /\ \A v \in Workers : pc'[v] = "ended" <=> pc[v] = "ended"
  BY <1>1, <1>2, <1>3 DEF Unserved
<1>5. Queues!Leaves(w) /\ Head(Waiting[w]) = Head(internal[w])
  BY <1>1, <1>4, FirstLeaves
<1> QED
  BY <1>1, <1>5 DEF Queues!Drop

\* A request without a callback is served when it was executed, another when
\* its callback is posted.
LEMMA ServeServes ==
  ASSUME WorkerInv, NEW w \in Workers,
         Post(w) \/ (Execute(w) /\ Head(internal[w]) \notin Callbacks)
  PROVE  Queues!Serve(w)
<1>1. /\ pc[w] \in {"exec", "post"}
      /\ pc' = [pc EXCEPT ![w] = "posted"]
      /\ UNCHANGED <<internal, external, stage, keep, expired>>
      /\ pc \in [Workers -> Places]
  BY DEF Post, Execute, Goto, callVars, queueVars, WorkerInv, TypeOK
<1>2. \A v \in Workers : pc'[v] = IF v = w THEN "posted" ELSE pc[v]
  BY <1>1
<1>3. /\ Unserved(w)' = Tail(internal[w])
      /\ \A v \in Workers \ {w} : Unserved(v)' = Unserved(v)
      /\ \A v \in Workers : pc'[v] = "ended" <=> pc[v] = "ended"
  BY <1>1, <1>2 DEF Unserved
<1>4. Queues!Leaves(w) /\ Head(Waiting[w]) = Head(internal[w])
  BY <1>1, <1>3, FirstLeaves
<1>5. replies' = IF Head(internal[w]) \in Callbacks
                   THEN [replies EXCEPT ![Head(internal[w])] = @ + 1] ELSE replies
  <2>1. CASE Post(w)
    BY <2>1 DEF Post, Goto, WorkerInv, ThreadInv
  <2>2. CASE Execute(w) /\ Head(internal[w]) \notin Callbacks
    BY <2>2 DEF Execute
  <2> QED
    BY <2>1, <2>2
<1> QED
  BY <1>4, <1>5 DEF Queues!Serve

\* The remaining steps change nothing that a caller sees.
LEMMA HiddenStep ==
  ASSUME WorkerInv, NEW w \in Workers,
         \/ Check(w) \/ Wait(w) \/ Spurious(w) \/ Notify(w)
         \/ Swap(w) \/ Complete(w) \/ Stop(w) \/ Join(w)
         \/ (Execute(w) /\ Head(internal[w]) \in Callbacks)
         \/ \E r \in Asks : Scan(r)
  PROVE  UNCHANGED Queues!vars
<1>1. UNCHANGED <<keep, expired, replies>>
  BY DEF Check, Wait, Spurious, Notify, Swap, Complete, Advance, Stop, Join, Execute, Scan, callVars
<1>2. Fresh' = Fresh
  <2>1. CASE \E r \in Asks : Scan(r)
    <3>1. PICK r \in Asks : Scan(r)
      BY <2>1
    <3>2. /\ stage[r] \in {"new", "scanning"} /\ stage \in [Asks -> Stages]
          /\ stage' = [stage EXCEPT ![r] = "scanning"]
      BY <3>1 DEF Scan, WorkerInv, TypeOK
    <3>3. \A x \in Asks : stage'[x] = IF x = r THEN "scanning" ELSE stage[x]
      BY <3>2
    <3>4. \A x \in Requests : Given(x)' = Given(x)
      BY <1>1, <3>2, <3>3 DEF Given
    <3> QED
      BY <3>4 DEF Fresh
  <2>2. CASE ~\E r \in Asks : Scan(r)
    <3>1. UNCHANGED stage
      BY <2>2 DEF Check, Wait, Spurious, Notify, Swap, Complete, Advance, Stop, Join, Execute, callVars
    <3> QED
      BY <1>1, <3>1, SameFresh
  <2> QED
    BY <2>1, <2>2
<1> DEFINE Same == /\ \A v \in Workers : Unserved(v)' \o external'[v] = Unserved(v) \o external[v]
                   /\ \A v \in Workers : pc'[v] = "ended" <=> pc[v] = "ended"
<1>3. pc \in [Workers -> Places] /\ internal \in [Workers -> Seq(Requests)]
      /\ external \in [Workers -> Seq(Requests)]
  BY DEF WorkerInv, TypeOK
<1>4. Same
  <2>1. CASE Check(w) \/ Wait(w) \/ Spurious(w) \/ Notify(w)
    <3>1. PICK to \in {"top", "checked", "waiting"} :
            /\ pc' = pc \/ (pc' = [pc EXCEPT ![w] = to] /\ pc[w] \in {"top", "checked", "waiting"})
            /\ UNCHANGED <<internal, external>>
      BY <2>1 DEF Check, Wait, Spurious, Notify, Goto, queueVars
    <3>2. \A v \in Workers : \/ pc'[v] = pc[v]
                             \/ pc'[v] \in {"top", "checked", "waiting"} /\ pc[v] \in {"top", "checked", "waiting"}
      BY <1>3, <3>1
    <3>3. Same
      BY <3>1, <3>2 DEF Unserved
    <3> QED
      BY <3>3
  <2>2. CASE Swap(w)
    <3>1. /\ internal[w] = <<>> /\ pc[w] = "top" /\ pc' = [pc EXCEPT ![w] = "exec"]
          /\ internal' = [internal EXCEPT ![w] = external[w]]
          /\ external' = [external EXCEPT ![w] = internal[w]]
      BY <2>2 DEF Swap, Goto, WorkerInv, ThreadInv
    <3>2. /\ Unserved(w)' = external[w] /\ external'[w] = <<>> /\ Unserved(w) = <<>>
          /\ \A v \in Workers \ {w} : Unserved(v)' = Unserved(v) /\ external'[v] = external[v]
          /\ \A v \in Workers : pc'[v] = "ended" <=> pc[v] = "ended"
      BY <1>3, <3>1 DEF Unserved
    <3>3. external[w] \o <<>> = <<>> \o external[w]
      BY <1>3
    <3>4. Same
      BY <3>2, <3>3
    <3> QED
      BY <3>4
  <2>3. CASE Complete(w)
    <3> DEFINE to == IF Len(internal[w]) = 1 THEN "top" ELSE "exec"
    <3>1. /\ pc[w] = "posted" /\ pc' = [pc EXCEPT ![w] = to]
          /\ internal' = [internal EXCEPT ![w] = Tail(internal[w])]
          /\ UNCHANGED external
      BY <2>3 DEF Complete, Advance
    <3>2. to # "posted" /\ to # "ended"
      OBVIOUS
    <3>3. \A v \in Workers : /\ pc'[v] = IF v = w THEN to ELSE pc[v]
                             /\ internal'[v] = IF v = w THEN Tail(internal[w]) ELSE internal[v]
      <4> DEFINE t == Tail(internal[w])
      <4>1. /\ pc' = [pc EXCEPT ![w] = to] /\ internal' = [internal EXCEPT ![w] = t]
        BY <3>1
      <4> HIDE DEF to, t
      <4>2. \A v \in Workers : /\ pc'[v] = IF v = w THEN to ELSE pc[v]
                               /\ internal'[v] = IF v = w THEN t ELSE internal[v]
        BY <1>3, <4>1
      <4> QED
        BY <4>2 DEF t
    <3>4. ASSUME NEW v \in Workers
          PROVE  Unserved(v)' = Unserved(v) /\ (pc'[v] = "ended" <=> pc[v] = "ended")
      <4>1. CASE v = w
        <5>1. pc'[v] # "posted" /\ pc'[v] # "ended" /\ internal'[v] = Tail(internal[w])
          BY <3>2, <3>3, <4>1
        <5> QED
          BY <3>1, <4>1, <5>1 DEF Unserved
      <4>2. CASE v # w
        <5>1. pc'[v] = pc[v] /\ internal'[v] = internal[v]
          BY <3>3, <4>2
        <5> QED
          BY <5>1 DEF Unserved
      <4> QED
        BY <4>1, <4>2
    <3>5. Same
      BY <3>1, <3>4
    <3> QED
      BY <3>5
  <2>4. CASE Execute(w) /\ Head(internal[w]) \in Callbacks
    <3>1. /\ pc[w] = "exec" /\ pc' = [pc EXCEPT ![w] = "post"]
          /\ UNCHANGED <<internal, external>>
      BY <2>4 DEF Execute, queueVars
    <3>2. \A v \in Workers : pc'[v] = IF v = w THEN "post" ELSE pc[v]
      BY <1>3, <3>1
    <3>3. ASSUME NEW v \in Workers
          PROVE  Unserved(v)' = Unserved(v) /\ (pc'[v] = "ended" <=> pc[v] = "ended")
      <4>1. CASE v = w
        BY <3>1, <3>2, <4>1 DEF Unserved
      <4>2. CASE v # w
        BY <3>1, <3>2, <4>2 DEF Unserved
      <4> QED
        BY <4>1, <4>2
    <3>4. Same
      BY <3>1, <3>3
    <3> QED
      BY <3>4
  <2>5. CASE Stop(w) \/ Join(w) \/ \E r \in Asks : Scan(r)
    BY <2>5 DEF Stop, Join, Scan, threadVars, queueVars, Unserved
  <2> QED
    BY <2>1, <2>2, <2>3, <2>4, <2>5
<1>5. Waiting' = Waiting /\ Ended' = Ended
  BY <1>4, SameWaiting DEF Ended
<1> QED
  BY <1>1, <1>2, <1>5 DEF Queues!vars

LEMMA InitQueues == Init => Queues!Init
<1> SUFFICES ASSUME Init PROVE Queues!Init
  OBVIOUS
<1>1. ASSUME NEW r \in Requests PROVE ~Given(r)
  <2>1. CASE r \in Asks
    BY <2>1 DEF Init, Given
  <2>2. CASE r \notin Asks
    <3>1. r \in KeepAlives
      BY <2>2 DEF Requests
    <3>2. r[1] \in 1 .. MaxKeeps /\ r[2] \in 1 .. N
      BY <3>1 DEF KeepAlives, Workers
    <3>3. keep.run = 1 /\ keep.next = 1 /\ N \in Nat /\ MaxKeeps \in Nat
      BY WorkersAssumption, KeepsAssumption DEF Init
    <3> QED
      BY <2>2, <3>2, <3>3 DEF Given
  <2> QED
    BY <2>1, <2>2
<1>2. Fresh = Requests
  BY <1>1 DEF Fresh
<1>3. Waiting = [w \in Workers |-> <<>>]
  BY DEF Init, Waiting, Unserved
<1>4. Ended = {}
  BY DEF Init, Ended
<1> QED
  BY <1>2, <1>3, <1>4 DEF Init, Queues!Init

LEMMA StepQueues == WorkerInv /\ [Next]_vars => [Queues!Next]_(Queues!vars)
<1> SUFFICES ASSUME WorkerInv, [Next]_vars PROVE [Queues!Next]_(Queues!vars)
  OBVIOUS
<1>1. CASE UNCHANGED vars
  BY <1>1 DEF vars, callVars, threadVars, queueVars, Queues!vars,
              Fresh, Given, Waiting, Unserved, Ended
<1>2. ASSUME NEW r \in Asks, Scan(r) PROVE UNCHANGED Queues!vars
  <2>1. 1 \in Workers
    BY WorkersAssumption DEF Workers
  <2> QED
    BY <1>2, <2>1, HiddenStep
<1>3. ASSUME NEW r \in Asks, Expire(r) PROVE Queues!Next
  <2>1. UNCHANGED <<stage, keep, pc, internal, external, replies>> /\ expired' = expired \cup {r}
    BY <1>3 DEF Expire, callVars, threadVars, queueVars
  <2>2. Waiting' = Waiting /\ Ended' = Ended /\ Fresh' = Fresh
    BY <2>1, SameFresh DEF Waiting, Unserved, Ended
  <2>3. Queues!Lose(r)
    BY <2>1, <2>2 DEF Queues!Lose
  <2> QED
    BY <2>3 DEF Queues!Next, Requests
<1>4. ASSUME NEW r \in Asks, NEW w \in Workers, Accept(r, w) \/ Refuse(r, w) PROVE Queues!Next
  BY <1>4, AcceptTakes, RefuseRefuses DEF Queues!Next, Requests
<1>5. CASE KeepAlive
  BY <1>5, KeepAliveTakes DEF Queues!Next
<1>6. ASSUME NEW w \in Workers, End(w) \/ Skip(w) \/ Post(w) PROVE Queues!Next
  BY <1>6, EndCloses, SkipDrops, ServeServes DEF Queues!Next
<1>7. ASSUME NEW w \in Workers, Execute(w) PROVE [Queues!Next]_(Queues!vars)
  <2>1. CASE Head(internal[w]) \in Callbacks
    BY <1>7, <2>1, HiddenStep
  <2>2. CASE Head(internal[w]) \notin Callbacks
    BY <1>7, <2>2, ServeServes DEF Queues!Next
  <2> QED
    BY <2>1, <2>2
<1>8. ASSUME NEW w \in Workers,
             \/ Check(w) \/ Wait(w) \/ Spurious(w) \/ Notify(w)
             \/ Swap(w) \/ Complete(w) \/ Stop(w) \/ Join(w)
      PROVE  UNCHANGED Queues!vars
  BY <1>8, HiddenStep
<1> QED
  BY <1>1, <1>2, <1>3, <1>4, <1>5, <1>6, <1>7, <1>8 DEF Next, Thread

\* DatabaseWorkerPool implements RequestQueues: every step of callers, workers
\* and shutdown is one of its steps or is not seen.
THEOREM PoolImplementsQueues == Spec => ImplementsQueues
  BY InitInv, NextInv, InitQueues, StepQueues, PTL DEF Spec, ImplementsQueues, Queues!Spec

------------------------------------------------------------------------------
(* What RequestQueues promises, for the queues of this pool.               *)

PromiseInv == Queues!TypeOK /\ Queues!AnsweredOnce

\* Serving or dropping: the queue of w without its first request.
LEMMA LeavesQueue ==
  ASSUME Queues!TypeOK, NEW w \in Workers, Queues!Leaves(w)
  PROVE  /\ Head(Waiting[w]) \in Requests
         /\ Head(Waiting[w]) = Waiting[w][1]
         /\ Len(Waiting[w]) \in Nat \ {0}
         /\ Waiting'[w] = Tail(Waiting[w])
         /\ Waiting' \in [Workers -> Seq(Requests)]
         /\ Len(Waiting'[w]) = Len(Waiting[w]) - 1
         /\ \A i \in 1 .. Len(Waiting'[w]) : Waiting'[w][i] = Waiting[w][i + 1]
         /\ \A v \in Workers \ {w} : Waiting'[v] = Waiting[v]
<1> DEFINE q == Waiting[w]
<1>1. q \in Seq(Requests) /\ q # <<>> /\ Waiting \in [Workers -> Seq(Requests)]
  BY DEF Queues!TypeOK, Queues!Leaves
<1>2. Waiting' = [Waiting EXCEPT ![w] = Tail(q)]
  BY DEF Queues!Leaves
<1>3. Waiting'[w] = Tail(q)
  BY <1>1, <1>2
<1> QED
  BY <1>1, <1>2, <1>3

\* A request that leaves has no other place, and the others keep theirs.
LEMMA LeavesKeepsPromise ==
  ASSUME PromiseInv, NEW w \in Workers, Queues!Leaves(w)
  PROVE  /\ Queues!OnePlace'
         /\ \A v \in Workers : \A i \in 1 .. Len(Waiting'[v]) :
              /\ Waiting'[v][i] # Head(Waiting[w])
              /\ Waiting'[v][i] \in Requests
              /\ Waiting'[v][i] \notin Fresh
              /\ replies[Waiting'[v][i]] = 0
<1> USE DEF PromiseInv
<1> DEFINE place(v, i) == IF v = w THEN i + 1 ELSE i
<1>1. \A v \in Workers : \A i \in 1 .. Len(Waiting'[v]) :
        place(v, i) \in 1 .. Len(Waiting[v]) /\ Waiting'[v][i] = Waiting[v][place(v, i)]
  <2> SUFFICES ASSUME NEW v \in Workers, NEW i \in 1 .. Len(Waiting'[v])
               PROVE  place(v, i) \in 1 .. Len(Waiting[v]) /\ Waiting'[v][i] = Waiting[v][place(v, i)]
    OBVIOUS
  <2>1. CASE v = w
    <3>1. /\ Len(Waiting[w]) \in Nat \ {0} /\ Len(Waiting'[w]) = Len(Waiting[w]) - 1
          /\ Waiting'[w][i] = Waiting[w][i + 1]
      BY <2>1, LeavesQueue
    <3> QED
      BY <2>1, <3>1
  <2>2. CASE v # w
    BY <2>2, LeavesQueue
  <2> QED
    BY <2>1, <2>2
<1>2. Queues!OnePlace
  BY DEF Queues!AnsweredOnce
<1>3. Queues!OnePlace'
  <2> SUFFICES ASSUME NEW v \in Workers, NEW u \in Workers,
                      NEW i \in 1 .. Len(Waiting'[v]), NEW j \in 1 .. Len(Waiting'[u]),
                      Waiting'[v][i] = Waiting'[u][j]
               PROVE  v = u /\ i = j
    BY DEF Queues!OnePlace
  <2> DEFINE k == place(v, i)
             l == place(u, j)
  <2>1. k \in 1 .. Len(Waiting[v]) /\ l \in 1 .. Len(Waiting[u]) /\ Waiting[v][k] = Waiting[u][l]
    BY <1>1
  <2>2. v = u /\ k = l
    <3> HIDE DEF k, l
    <3> QED
      BY <2>1, <1>2 DEF Queues!OnePlace
  <2> QED
    BY <2>2
<1>4. ASSUME NEW v \in Workers, NEW i \in 1 .. Len(Waiting'[v])
      PROVE  /\ Waiting'[v][i] # Head(Waiting[w])
             /\ Waiting'[v][i] \in Requests
             /\ Waiting'[v][i] \notin Fresh
             /\ replies[Waiting'[v][i]] = 0
  <2>1. v # w \/ place(v, i) # 1
    OBVIOUS
  <2>2. Head(Waiting[w]) = Waiting[w][1] /\ 1 \in 1 .. Len(Waiting[w])
    BY LeavesQueue
  <2>3. Waiting'[v][i] # Head(Waiting[w])
    <3> DEFINE k == place(v, i)
    <3>1. k \in 1 .. Len(Waiting[v]) /\ Waiting'[v][i] = Waiting[v][k] /\ (v # w \/ k # 1)
      BY <1>1, <2>1
    <3> HIDE DEF k
    <3> QED
      BY <1>2, <2>2, <3>1 DEF Queues!OnePlace
  <2>4. Waiting'[v][i] \in Requests
    BY LeavesQueue
  <2> DEFINE k == place(v, i)
  <2>5. k \in 1 .. Len(Waiting[v]) /\ Waiting'[v][i] = Waiting[v][k]
    BY <1>1
  <2> HIDE DEF k
  <2>6. Waiting[v][k] \notin Fresh /\ replies[Waiting[v][k]] = 0
    BY <2>5 DEF Queues!AnsweredOnce
  <2> QED
    BY <2>3, <2>4, <2>5, <2>6
<1> QED
  BY <1>3, <1>4

LEMMA TakeKeepsPromise ==
  ASSUME PromiseInv, NEW w \in Workers, NEW r \in Requests, Queues!Take(w, r)
  PROVE  PromiseInv'
<1> DEFINE q == Waiting[w]
<1>1. /\ q \in Seq(Requests) /\ Waiting' = [Waiting EXCEPT ![w] = Append(q, r)]
      /\ Waiting \in [Workers -> Seq(Requests)]
      /\ r \in Fresh /\ Fresh' = Fresh \ {r}
      /\ UNCHANGED <<expired, Ended, replies>>
  BY DEF PromiseInv, Queues!TypeOK, Queues!Take
<1>2. /\ Waiting'[w] = Append(q, r) /\ \A v \in Workers \ {w} : Waiting'[v] = Waiting[v]
      /\ Waiting' \in [Workers -> Seq(Requests)]
  BY <1>1
<1>3. /\ Len(Waiting'[w]) = Len(q) + 1 /\ Waiting'[w][Len(q) + 1] = r
      /\ \A i \in 1 .. Len(q) : Waiting'[w][i] = q[i]
  BY <1>1, <1>2
<1>4. Queues!TypeOK'
  BY <1>1, <1>2 DEF PromiseInv, Queues!TypeOK
<1>5. \A v \in Workers : \A i \in 1 .. Len(Waiting'[v]) :
        \/ v = w /\ i = Len(q) + 1 /\ Waiting'[v][i] = r
        \/ i \in 1 .. Len(Waiting[v]) /\ Waiting'[v][i] = Waiting[v][i]
  <2>1. ASSUME NEW i \in 1 .. Len(Waiting'[w])
        PROVE  i = Len(q) + 1 \/ i \in 1 .. Len(q)
    BY <1>1, <1>3
  <2> QED
    BY <1>2, <1>3, <2>1
<1>6. \A v \in Workers : \A i \in 1 .. Len(Waiting[v]) : Waiting[v][i] # r
  BY <1>1 DEF PromiseInv, Queues!AnsweredOnce
<1>7. Queues!OnePlace'
  <2> SUFFICES ASSUME NEW v \in Workers, NEW u \in Workers,
                      NEW i \in 1 .. Len(Waiting'[v]), NEW j \in 1 .. Len(Waiting'[u]),
                      Waiting'[v][i] = Waiting'[u][j]
               PROVE  v = u /\ i = j
    BY DEF Queues!OnePlace
  <2>1. CASE v = w /\ i = Len(q) + 1 /\ Waiting'[v][i] = r
    BY <1>5, <1>6, <2>1
  <2>2. CASE u = w /\ j = Len(q) + 1 /\ Waiting'[u][j] = r
    BY <1>5, <1>6, <2>2
  <2>3. CASE /\ i \in 1 .. Len(Waiting[v]) /\ Waiting'[v][i] = Waiting[v][i]
             /\ j \in 1 .. Len(Waiting[u]) /\ Waiting'[u][j] = Waiting[u][j]
    <3>1. Queues!OnePlace
      BY DEF PromiseInv, Queues!AnsweredOnce
    <3>2. Waiting[v][i] = Waiting[u][j]
      BY <2>3
    <3> QED
      BY <2>3, <3>1, <3>2 DEF Queues!OnePlace
  <2> QED
    BY <1>5, <2>1, <2>2, <2>3
<1>8. Queues!AnsweredOnce'
  BY <1>1, <1>5, <1>6, <1>7 DEF PromiseInv, Queues!AnsweredOnce
<1> QED
  BY <1>4, <1>8 DEF PromiseInv

LEMMA ServeKeepsPromise ==
  ASSUME PromiseInv, NEW w \in Workers, Queues!Serve(w) \/ Queues!Drop(w)
  PROVE  PromiseInv'
<1> DEFINE h == Head(Waiting[w])
<1>1. Queues!Leaves(w) /\ UNCHANGED <<Fresh, expired, Ended>>
  BY DEF Queues!Serve, Queues!Drop, Queues!Leaves
<1>2. h \in Requests /\ h = Waiting[w][1] /\ 1 \in 1 .. Len(Waiting[w])
  BY <1>1, LeavesQueue DEF PromiseInv
<1>3. h \notin Fresh /\ replies[h] = 0
  BY <1>2 DEF PromiseInv, Queues!AnsweredOnce
<1>4. replies' = replies \/ replies' = [replies EXCEPT ![h] = @ + 1]
  BY DEF Queues!Serve, Queues!Drop
<1>5. /\ replies' \in [Requests -> Nat]
      /\ replies'[h] <= 1
      /\ \A r \in Requests \ {h} : replies'[r] = replies[r]
  <2>1. replies \in [Requests -> Nat] /\ replies[h] \in {0, 1}
    BY <1>3 DEF PromiseInv, Queues!TypeOK
  <2>2. CASE replies' = replies
    BY <2>1, <2>2 DEF PromiseInv, Queues!AnsweredOnce
  <2>3. CASE replies' = [replies EXCEPT ![h] = @ + 1]
    BY <2>1, <2>3, <1>2, <1>3
  <2> QED
    BY <1>4, <2>2, <2>3
<1>6. Queues!TypeOK'
  BY <1>1, <1>5, LeavesQueue DEF PromiseInv, Queues!TypeOK
<1>7. /\ Queues!OnePlace'
      /\ \A v \in Workers : \A i \in 1 .. Len(Waiting'[v]) :
           /\ Waiting'[v][i] # h
           /\ Waiting'[v][i] \in Requests
           /\ Waiting'[v][i] \notin Fresh
           /\ replies[Waiting'[v][i]] = 0
  BY <1>1, LeavesKeepsPromise
<1>8. Queues!AnsweredOnce'
  BY <1>1, <1>3, <1>5, <1>7 DEF PromiseInv, Queues!AnsweredOnce
<1> QED
  BY <1>6, <1>8 DEF PromiseInv

\* RequestQueues keeps the promise, whatever refuses, loses and drops requests.
LEMMA QueuesPromise == Queues!Spec => []Queues!AnsweredOnce
<1>1. Queues!Init => PromiseInv
  BY DEF Queues!Init, PromiseInv, Queues!TypeOK, Queues!AnsweredOnce, Queues!OnePlace
<1>2. PromiseInv /\ [Queues!Next]_(Queues!vars) => PromiseInv'
  <2> SUFFICES ASSUME PromiseInv, [Queues!Next]_(Queues!vars) PROVE PromiseInv'
    OBVIOUS
  <2>1. ASSUME NEW r \in Requests, Queues!Refuse(r) \/ Queues!Lose(r) PROVE PromiseInv'
    BY <2>1 DEF PromiseInv, Queues!TypeOK, Queues!AnsweredOnce, Queues!OnePlace, Queues!Refuse, Queues!Lose
  <2>2. ASSUME NEW r \in Requests, NEW w \in Workers, Queues!Take(w, r) PROVE PromiseInv'
    BY <2>2, TakeKeepsPromise
  <2>3. ASSUME NEW w \in Workers, Queues!Serve(w) \/ Queues!Drop(w) PROVE PromiseInv'
    BY <2>3, ServeKeepsPromise
  <2>4. ASSUME NEW w \in Workers, Queues!Close(w) PROVE PromiseInv'
    BY <2>4 DEF PromiseInv, Queues!TypeOK, Queues!AnsweredOnce, Queues!OnePlace, Queues!Close
  <2>5. CASE UNCHANGED Queues!vars
    BY <2>5 DEF PromiseInv, Queues!TypeOK, Queues!AnsweredOnce, Queues!OnePlace, Queues!vars
  <2> QED
    BY <2>1, <2>2, <2>3, <2>4, <2>5 DEF Queues!Next
<1>3. PromiseInv => Queues!AnsweredOnce
  BY DEF PromiseInv
<1> QED
  BY <1>1, <1>2, <1>3, PTL DEF Queues!Spec

\* ThreadPostResponse posts the callback of a request at most once, and no
\* request is in two queues: whatever the workers promise, the pool keeps.
THEOREM CallbackOnce == Spec => []Queues!AnsweredOnce
  BY QueuesPromise, PoolImplementsQueues, PTL DEF ImplementsQueues

------------------------------------------------------------------------------
(* The limit of TryEnqueue is one of the queue.                            *)

\* The requests of worker w that could have been refused.
Held(w) == {r \in Limited : Holds(w, r)}

LimitInv == \A w \in Workers : IsFiniteSet(Held(w)) /\ Cardinality(Held(w)) <= Limit

\* A sequence has no more different elements than places.
LEMMA ElementsBounded ==
  ASSUME NEW S, NEW q \in Seq(S)
  PROVE  LET E == {q[i] : i \in 1 .. Len(q)}
         IN IsFiniteSet(E) /\ Cardinality(E) \in Nat /\ Cardinality(E) <= Len(q)
<1> DEFINE E == {q[i] : i \in 1 .. Len(q)}
<1>1. Len(q) \in Nat /\ q \in Surjection(1 .. Len(q), E)
  BY DEF Surjection
<1>2. IsFiniteSet(1 .. Len(q)) /\ Cardinality(1 .. Len(q)) = Len(q)
  <2>1. ASSUME NEW n \in Nat
        PROVE  IsFiniteSet(1 .. n) /\ Cardinality(1 .. n) = n
    <3>1. IsFiniteSet(1 .. n) /\ Cardinality(1 .. n) = IF 1 > n THEN 0 ELSE n - 1 + 1
      BY FS_Interval
    <3> QED
      BY <3>1
  <2> QED
    BY <1>1, <2>1
<1> HIDE DEF E
<1>3. IsFiniteSet(E) /\ Cardinality(E) <= Cardinality(1 .. Len(q))
  BY <1>1, <1>2, FS_Surjection
<1>4. IsFiniteSet(E) /\ Cardinality(E) \in Nat /\ Cardinality(E) <= Len(q)
  BY <1>2, <1>3, FS_CardinalityType
<1> QED
  BY <1>4 DEF E

\* The count that Accept tests bounds what the worker holds.
LEMMA CountBoundsHeld ==
  ASSUME WorkerInv, NEW w \in Workers
  PROVE  IsFiniteSet(Held(w)) /\ Cardinality(Held(w)) \in Nat /\ Cardinality(Held(w)) <= count[w]
<1> DEFINE E == {external[w][i] : i \in 1 .. Len(external[w])}
           I == {internal[w][i] : i \in 1 .. Len(internal[w])}
<1>1. external[w] \in Seq(Requests) /\ internal[w] \in Seq(Requests)
  BY DEF WorkerInv, TypeOK
<1>2. /\ IsFiniteSet(E) /\ Cardinality(E) \in Nat /\ Cardinality(E) <= Len(external[w])
      /\ IsFiniteSet(I) /\ Cardinality(I) \in Nat /\ Cardinality(I) <= Len(internal[w])
  BY <1>1, ElementsBounded
<1>3. Held(w) \subseteq E \cup I
  BY DEF Held, Holds
<1> HIDE DEF E, I
<1>4. IsFiniteSet(E \cap I) /\ Cardinality(E \cap I) \in Nat
  BY <1>2, FS_Intersection, FS_CardinalityType
<1>5. IsFiniteSet(E \cup I) /\ Cardinality(E \cup I) = Cardinality(E) + Cardinality(I) - Cardinality(E \cap I)
  BY <1>2, FS_Union
<1>6. /\ IsFiniteSet(Held(w)) /\ Cardinality(Held(w)) <= Cardinality(E \cup I)
      /\ Cardinality(Held(w)) \in Nat
  BY <1>3, <1>5, FS_Subset, FS_CardinalityType
<1>7. count[w] = Len(external[w]) + Len(internal[w])
  BY DEF WorkerInv, CountExact
<1>8. Len(external[w]) \in Nat /\ Len(internal[w]) \in Nat
  BY <1>1
<1>9. ASSUME NEW e \in Nat, NEW i \in Nat, NEW both \in Nat, NEW x \in Nat, NEW y \in Nat,
             e <= x, i <= y
      PROVE  e + i - both <= x + y
  BY <1>9
<1>10. Cardinality(Held(w)) <= Cardinality(E) + Cardinality(I) - Cardinality(E \cap I)
  BY <1>5, <1>6
<1>11. Cardinality(E) + Cardinality(I) - Cardinality(E \cap I) <= count[w]
  BY <1>2, <1>4, <1>7, <1>8, <1>9
<1>12. ASSUME NEW h \in Nat, NEW m \in Int, NEW k \in Int, h <= m, m <= k
       PROVE  h <= k
  BY <1>12
<1> QED
  <2> DEFINE m == Cardinality(E) + Cardinality(I) - Cardinality(E \cap I)
             h == Cardinality(Held(w))
  <2>1. m \in Int /\ h \in Nat /\ count[w] \in Int
    BY <1>2, <1>4, <1>6, <1>7, <1>8
  <2>2. h <= m /\ m <= count[w]
    BY <1>10, <1>11
  <2> HIDE DEF m, h
  <2>3. h <= count[w]
    BY <1>12, <2>1, <2>2
  <2> QED
    BY <1>6, <2>3 DEF h

\* A worker that holds nothing new holds no more.
LEMMA NoneNewKeepsLimit ==
  ASSUME WorkerInv, LimitInv, \A w \in Workers : Held(w)' \subseteq Held(w)
  PROVE  LimitInv'
<1> SUFFICES ASSUME NEW w \in Workers
             PROVE  IsFiniteSet(Held(w)') /\ Cardinality(Held(w)') <= Limit
  BY DEF LimitInv
<1>1. IsFiniteSet(Held(w)) /\ Cardinality(Held(w)) \in Nat /\ Cardinality(Held(w)) <= Limit
  BY CountBoundsHeld DEF LimitInv
<1>2. Held(w)' \subseteq Held(w)
  OBVIOUS
<1>3. IsFiniteSet(Held(w)') /\ Cardinality(Held(w)') <= Cardinality(Held(w)) /\ Cardinality(Held(w)') \in Nat
  BY <1>1, <1>2, FS_Subset, FS_CardinalityType
<1> QED
  BY <1>1, <1>3, LimitAssumption

\* Push adds one request to one worker.
LEMMA PushHolds ==
  ASSUME WorkerInv, NEW w \in Workers, NEW x \in Requests, Push(w, x)
  PROVE  \A v \in Workers : Held(v)' \subseteq (IF v = w /\ x \in Limited THEN Held(v) \cup {x} ELSE Held(v))
<1>1. external[w] \in Seq(Requests) /\ internal' = internal
      /\ external' = [external EXCEPT ![w] = Append(external[w], x)]
      /\ external \in [Workers -> Seq(Requests)]
  BY DEF WorkerInv, TypeOK, Push
<1>2. \A v \in Workers : v # w => external'[v] = external[v]
  BY <1>1
<1>3. ASSUME NEW r, NEW i \in 1 .. Len(external'[w]), external'[w][i] = r
      PROVE  r = x \/ \E j \in 1 .. Len(external[w]) : external[w][j] = r
  <2>1. external'[w] = Append(external[w], x)
    BY <1>1
  <2> QED
    BY <1>1, <1>3, <2>1
<1>4. \A v \in Workers, r \in Limited : Holds(v, r)' => Holds(v, r) \/ (v = w /\ r = x)
  BY <1>1, <1>2, <1>3 DEF Holds
<1> QED
  BY <1>4 DEF Held

LEMMA AcceptKeepsLimit ==
  ASSUME WorkerInv, LimitInv, NEW w \in Workers, NEW r \in Asks, Accept(r, w)
  PROVE  LimitInv'
<1>1. r \in Requests /\ Push(w, r) /\ (r \in Limited => count[w] < Limit)
  BY DEF Accept, Requests
<1>2. CASE r \notin Limited
  BY <1>1, <1>2, PushHolds, NoneNewKeepsLimit
<1>3. CASE r \in Limited
  <2> SUFFICES ASSUME NEW v \in Workers
               PROVE  IsFiniteSet(Held(v)') /\ Cardinality(Held(v)') <= Limit
    BY DEF LimitInv
  <2>1. IsFiniteSet(Held(v)) /\ Cardinality(Held(v)) \in Nat
        /\ Cardinality(Held(v)) <= count[v] /\ Cardinality(Held(v)) <= Limit /\ count[v] \in Nat
    BY CountBoundsHeld DEF LimitInv, WorkerInv, TypeOK
  <2> DEFINE B == IF v = w THEN Held(v) \cup {r} ELSE Held(v)
  <2>2. Held(v)' \subseteq B
    BY <1>1, <1>3, PushHolds
  <2>3. IsFiniteSet(B) /\ Cardinality(B) \in Nat /\ Cardinality(B) <= Limit
    <3>1. CASE v # w
      BY <2>1, <3>1
    <3>2. CASE v = w
      <4>1. /\ IsFiniteSet(Held(v) \cup {r})
            /\ Cardinality(Held(v) \cup {r}) \in Nat
            /\ Cardinality(Held(v) \cup {r}) <= Cardinality(Held(v)) + 1
        BY <2>1, FS_AddElement
      <4>2. count[v] < Limit
        BY <1>1, <1>3, <3>2
      <4>3. Cardinality(Held(v) \cup {r}) <= Limit
        BY <2>1, <4>1, <4>2, LimitAssumption
      <4> QED
        BY <3>2, <4>1, <4>3
    <3> QED
      BY <3>1, <3>2
  <2> HIDE DEF B
  <2>4. IsFiniteSet(Held(v)') /\ Cardinality(Held(v)') <= Cardinality(B) /\ Cardinality(Held(v)') \in Nat
    BY <2>2, <2>3, FS_Subset, FS_CardinalityType
  <2> QED
    BY <2>3, <2>4, LimitAssumption
<1> QED
  BY <1>2, <1>3

\* A worker takes the requests it holds over, or is done with one of them.
LEMMA ServingHoldsNoMore ==
  ASSUME WorkerInv, NEW w \in Workers, Swap(w) \/ Skip(w) \/ Complete(w)
  PROVE  \A v \in Workers : Held(v)' \subseteq Held(v)
<1>1. /\ external \in [Workers -> Seq(Requests)] /\ internal \in [Workers -> Seq(Requests)]
  BY DEF WorkerInv, TypeOK
<1>2. CASE Swap(w)
  <2>1. internal' = [internal EXCEPT ![w] = external[w]] /\ external' = [external EXCEPT ![w] = internal[w]]
    BY <1>2 DEF Swap
  <2>2. \A v \in Workers, r \in Limited : Holds(v, r)' => Holds(v, r)
    BY <1>1, <2>1 DEF Holds
  <2> QED
    BY <2>2 DEF Held
<1>3. CASE Skip(w) \/ Complete(w)
  <2>1. external' = external /\ internal' = [internal EXCEPT ![w] = Tail(internal[w])]
    BY <1>3 DEF Skip, Complete, Advance
  <2>2. internal[w] \in Seq(Requests) /\ internal[w] # <<>>
    BY <1>1, <1>3 DEF WorkerInv, ThreadInv, Skip, Complete
  <2>3. internal'[w] = Tail(internal[w]) /\ \A v \in Workers : v # w => internal'[v] = internal[v]
    BY <1>1, <2>1
  <2>4. ASSUME NEW i \in 1 .. Len(internal'[w])
        PROVE  i + 1 \in 1 .. Len(internal[w]) /\ internal'[w][i] = internal[w][i + 1]
    BY <2>2, <2>3
  <2>5. \A v \in Workers, r \in Limited : Holds(v, r)' => Holds(v, r)
    BY <2>1, <2>3, <2>4 DEF Holds
  <2> QED
    BY <2>5 DEF Held
<1> QED
  BY <1>2, <1>3

\* However stale the counts the callers read, a worker never holds more than
\* DB_QUEUE_MAX_SIZE requests of those that TryEnqueue may refuse: it tests the
\* count again with the mutex held.
THEOREM LimitCorrect == Spec => []LimitHolds
<1>1. Init => LimitInv
  <2> SUFFICES ASSUME Init, NEW w \in Workers
               PROVE  IsFiniteSet(Held(w)) /\ Cardinality(Held(w)) <= Limit
    BY DEF LimitInv
  <2>1. Held(w) = {}
    BY DEF Init, Held, Holds
  <2> QED
    BY <2>1, FS_EmptySet, LimitAssumption
<1>2. WorkerInv /\ LimitInv /\ [Next]_vars => LimitInv'
  <2> SUFFICES ASSUME WorkerInv, LimitInv, [Next]_vars PROVE LimitInv'
    OBVIOUS
  <2>1. CASE \E r \in Asks, w \in Workers : Accept(r, w)
    BY <2>1, AcceptKeepsLimit
  <2>2. CASE KeepAlive
    <3>1. keep.next \in Workers /\ <<keep.run, keep.next>> \in KeepAlives
      BY <2>2 DEF KeepAlive, WorkerInv, TypeOK, KeepAlives
    <3>2. <<keep.run, keep.next>> \in Requests \ Limited
      BY <3>1, KeepsAssumption, KindsAssumption DEF Requests
    <3> QED
      BY <2>2, <3>1, <3>2, PushHolds, NoneNewKeepsLimit DEF KeepAlive
  <2>3. CASE \E w \in Workers : Swap(w) \/ Skip(w) \/ Complete(w)
    BY <2>3, ServingHoldsNoMore, NoneNewKeepsLimit
  <2>4. CASE UNCHANGED <<external, internal>>
    BY <2>4, NoneNewKeepsLimit DEF Held, Holds
  <2>5. \/ \E r \in Asks, w \in Workers : Accept(r, w)
        \/ KeepAlive
        \/ \E w \in Workers : Swap(w) \/ Skip(w) \/ Complete(w)
        \/ UNCHANGED <<external, internal>>
    BY DEF Next, Thread, Scan, Expire, Refuse, End, Check, Wait, Execute, Post, Spurious, Notify,
       Stop, Join, vars, queueVars
  <2> QED
    BY <2>1, <2>2, <2>3, <2>4, <2>5
<1>3. LimitInv => LimitHolds
  BY DEF LimitInv, LimitHolds, Held
<1> QED
  BY <1>1, <1>2, <1>3, InitInv, NextInv, PTL DEF Spec
==============================================================================
