---------------------------- MODULE WorldWireProofs ----------------------------
(***************************************************************************)
(* Theorems of WorldWire, for packets of any lengths, buffers of any size  *)
(* that holds a packet, streams of any size and any number of packets:     *)
(* however the bytes are cut, packets are handled once and in order, two   *)
(* unmodified programs never refuse each other, and no IV is used twice.   *)
(***************************************************************************)
EXTENDS WorldWire, FiniteSetTheorems, SequenceTheorems, TLAPS

------------------------------------------------------------------------------
(* The inductive invariant.                                                *)

GreetUnit == [msg |-> 0, part |-> 0, len |-> 0, prefix |-> 0, counter |-> 0, key |-> 0]

\* Unit i of q, of which the first g are the greetcode's, is one of a packet
\* that is whole in q but for what is cut off at the end, and which the next
\* packet follows.  The last packet encrypted is m.
InPacket(q, g, i, m) ==
  LET u == q[i] IN
  /\ u.msg \in 1 .. m /\ u.len \in Lens /\ u.part \in 1 .. u.len
  /\ g <= i - u.part
  /\ \A j \in 1 .. u.len : i - u.part + j <= Len(q) => q[i - u.part + j] = [u EXCEPT !.part = j]
  /\ u.part = u.len /\ i < Len(q) => q[i + 1].part = 1 /\ q[i + 1].msg = u.msg + 1

\* q holds what is left of the greetcode, g units, and the packets from n on.
Framed(q, g, n, m) ==
  /\ \A i \in 1 .. Len(q) : IF i <= g THEN q[i] = GreetUnit ELSE InPacket(q, g, i, m)
  /\ g < Len(q) => q[g + 1].part = 1 /\ q[g + 1].msg = n

\* Nothing is cut off: q ends with the last packet m.
Whole(q, g, n, m) ==
  IF g < Len(q) THEN q[Len(q)].part = q[Len(q)].len /\ q[Len(q)].msg = m ELSE m = n - 1

\* What the other side has not consumed yet of what s sent and will send.
Pipe(s) == (Active(in[Other(s)]) \o stream[s]) \o out[s]

\* The units of the greetcode that the server still waits for.
Waiting(s) == IF s = "client" /\ server = "greet" THEN GreetLen ELSE 0

\* Side s still handles what arrives, and sends what it queued.
Up(s) == IF s = "client" THEN client # "gone" ELSE server # "closed"

PipeInv(s) ==
  /\ Framed(Pipe(s), Waiting(s), Len(in[Other(s)].handled) + 1, made[s])
  /\ Up(s) => Whole(Pipe(s), Waiting(s), Len(in[Other(s)].handled) + 1, made[s])

\* What has not begun has left nothing, and what is closed waits for nothing.
StatusInv ==
  /\ client = "connecting" =>
       /\ server \in {"greet", "closed"} /\ in["server"].prefix = 0 /\ in["server"].data = <<>>
       /\ stream["client"] = <<>> /\ made["client"] = 0 /\ made["server"] = 0
  /\ client # "connected" => out["client"] = <<>>
  /\ server \in {"greet", "pending", "gathered"} =>
       in["server"].handled = <<>> /\ made["server"] = 0
  /\ server = "closed" => out["server"] = <<>> /\ ~reading /\ ~writing
  /\ reading => server \in {"greet", "gathered", "authed"} /\ in["server"].code = "ok"
  /\ Busy("server") => server \in {"gathered", "authed", "closed"}
  /\ \A s \in Sides : Up(s) => in[s].code \in {"ok", "busy"}
  /\ Up("client") /\ ~Busy("client") => Len(Active(in["client"])) < BufSize

\* What was handled is what was made, in its order.
HandledInv ==
  \A s \in Sides :
    /\ Len(in[s].handled) <= made[Other(s)]
    /\ \A i \in 1 .. Len(in[s].handled) : in[s].handled[i] = i
    /\ in[s].expected = Len(in[s].handled)

\* The packets of q will be accepted: numbered from 0 and under the first key.
Sealed(q, g, P) ==
  \A i \in 1 .. Len(q) : i > g => q[i].counter = q[i].msg - 1 /\ q[i].key = 1 /\ q[i].prefix \in P

\* The prefixes that the other side accepts: the client never checks.
Expect(s) == IF s = "client" THEN {iv["client"].prefix} ELSE Prefixes

\* Without a second login both sides keep their key and count their packets.
LoginInv ==
  /\ \A s \in Sides :
       /\ key[s] = 1 /\ iv[s].counter = made[s]
       /\ in[s].code \in {"ok", "busy"}
       /\ Up(Other(s)) => Sealed(Pipe(s), Waiting(s), Expect(s))
  /\ in["server"].prefix \in {0, iv["client"].prefix}
  /\ server = "authed" \/ made["server"] > 0 => iv["client"].prefix # iv["server"].prefix
  /\ \A i \in 1 .. Len(used) :
       \E s \in Sides : used[i].prefix = iv[s].prefix /\ used[i].counter < made[s]
  /\ \A i, j \in 1 .. Len(used) : i # j => used[i] # used[j]

WireInv ==
  /\ TypeOK /\ StatusInv /\ HandledInv
  /\ \A s \in Sides : Up(Other(s)) => PipeInv(s)
  /\ relogin = "no" => LoginInv

------------------------------------------------------------------------------
(* Sequences: what moves from one to the next stays where it is in both.   *)

LEMMA ConcatAt ==
  ASSUME NEW S, NEW p \in Seq(S), NEW q \in Seq(S)
  PROVE  /\ p \o q \in Seq(S) /\ Len(p \o q) = Len(p) + Len(q)
         /\ \A i \in 1 .. Len(p) : (p \o q)[i] = p[i]
         /\ \A i \in 1 .. Len(q) : (p \o q)[Len(p) + i] = q[i]
<1>1. /\ p \o q \in Seq(S) /\ Len(p \o q) = Len(p) + Len(q)
      /\ \A i \in 1 .. Len(p) + Len(q) : (p \o q)[i] = IF i <= Len(p) THEN p[i] ELSE q[i - Len(p)]
  BY ConcatProperties
<1>2. Len(p) \in Nat /\ Len(q) \in Nat
  BY LenProperties
<1>3. \A i \in 1 .. Len(q) : (p \o q)[Len(p) + i] = q[i]
  <2> SUFFICES ASSUME NEW i \in 1 .. Len(q)
               PROVE  (p \o q)[Len(p) + i] = q[i]
    OBVIOUS
  <2>1. Len(p) + i \in 1 .. Len(p) + Len(q) /\ ~(Len(p) + i <= Len(p)) /\ (Len(p) + i) - Len(p) = i
    BY <1>2
  <2> QED
    BY <1>1, <2>1
<1> QED
  BY <1>1, <1>2, <1>3

LEMMA SumIsLonger ==
  ASSUME NEW i \in Nat, NEW j \in Nat, NEW k, k = i + j
  PROVE  k \in Nat /\ i <= k /\ j <= k
  OBVIOUS

LEMMA Regroup ==
  \A a, b, c \in Seq(Units) : (a \o b) \o c = a \o (b \o c)
  BY ConcatAssociative

LEMMA ConcatLen ==
  \A p, q \in Seq(Units) : p \o q \in Seq(Units) /\ Len(p \o q) = Len(p) + Len(q)
  BY ConcatAt

\* The rest of q after its first k units.
LEMMA RestAt ==
  ASSUME NEW S, NEW q \in Seq(S), NEW k \in 0 .. Len(q)
  PROVE  /\ SubSeq(q, k + 1, Len(q)) \in Seq(S)
         /\ Len(SubSeq(q, k + 1, Len(q))) = Len(q) - k
         /\ \A i \in 1 .. Len(q) - k : SubSeq(q, k + 1, Len(q))[i] = q[k + i]
<1>1. Len(q) \in Nat /\ \A i \in 1 .. Len(q) : q[i] \in S
  BY LenProperties, ElementOfSeq
<1>2. /\ SubSeq(q, k + 1, Len(q)) \in Seq(S)
      /\ Len(SubSeq(q, k + 1, Len(q))) = IF k + 1 <= Len(q) THEN Len(q) - (k + 1) + 1 ELSE 0
      /\ \A i \in 1 .. Len(q) - (k + 1) + 1 : SubSeq(q, k + 1, Len(q))[i] = q[(k + 1) + i - 1]
  <2>1. k + 1 \in Int /\ Len(q) \in Int /\ \A i \in k + 1 .. Len(q) : q[i] \in S
    BY <1>1
  <2> QED
    BY <2>1, SubSeqProperties
<1>3. \A i \in 1 .. Len(q) - k : (k + 1) + i - 1 = k + i /\ i \in 1 .. Len(q) - (k + 1) + 1
  BY <1>1
<1> QED
  BY <1>1, <1>2, <1>3

LEMMA FirstAt ==
  ASSUME NEW S, NEW q \in Seq(S), NEW k \in 0 .. Len(q)
  PROVE  /\ SubSeq(q, 1, k) \in Seq(S) /\ Len(SubSeq(q, 1, k)) = k
         /\ \A i \in 1 .. k : SubSeq(q, 1, k)[i] = q[i]
<1>1. Len(q) \in Nat /\ \A i \in 1 .. Len(q) : q[i] \in S
  BY LenProperties, ElementOfSeq
<1>2. \A i \in 1 .. k : q[i] \in S
  BY <1>1
<1>3. /\ SubSeq(q, 1, k) \in Seq(S)
      /\ Len(SubSeq(q, 1, k)) = IF 1 <= k THEN k - 1 + 1 ELSE 0
      /\ \A i \in 1 .. k - 1 + 1 : SubSeq(q, 1, k)[i] = q[1 + i - 1]
  BY <1>1, <1>2, SubSeqProperties
<1> QED
  BY <1>1, <1>3

\* The first k units of q are moved behind p.
LEMMA MoveFront ==
  ASSUME NEW S, NEW p \in Seq(S), NEW q \in Seq(S), NEW k \in 0 .. Len(q)
  PROVE  (p \o SubSeq(q, 1, k)) \o SubSeq(q, k + 1, Len(q)) = p \o q
<1>1. SubSeq(q, 1, k) \in Seq(S) /\ SubSeq(q, k + 1, Len(q)) \in Seq(S)
  BY FirstAt, RestAt
<1>2. SubSeq(q, 1, k) \o SubSeq(q, k + 1, Len(q)) = q
  <2>1. Len(q) \in Nat
    BY LenProperties
  <2>2. /\ 1 \in 1 .. Len(q) + 1 /\ k \in 1 - 1 .. Len(q) /\ Len(q) \in k .. Len(q)
    BY <2>1
  <2>3. SubSeq(q, 1, k) \o SubSeq(q, k + 1, Len(q)) = SubSeq(q, 1, Len(q))
    BY <2>2, ConcatAdjacentSubSeq
  <2> QED
    BY <2>3, SubSeqFull
<1> DEFINE x == SubSeq(q, 1, k)
           y == SubSeq(q, k + 1, Len(q))
<1> HIDE DEF x, y
<1>3. x \in Seq(S) /\ y \in Seq(S)
  BY <1>1 DEF x, y
<1>4. (p \o x) \o y = p \o (x \o y)
  BY <1>3, ConcatAssociative, SMTT(30)
<1> QED
  BY <1>2, <1>4 DEF x, y

\* Dropping the first units of p drops them from what p begins.
LEMMA RestOfConcat ==
  ASSUME NEW S, NEW p \in Seq(S), NEW q \in Seq(S), NEW k \in 0 .. Len(p)
  PROVE  SubSeq(p, k + 1, Len(p)) \o q = SubSeq(p \o q, k + 1, Len(p \o q))
<1> DEFINE r == SubSeq(p, k + 1, Len(p))
           w == SubSeq(p \o q, k + 1, Len(p \o q))
<1>1. Len(p) \in Nat /\ Len(q) \in Nat /\ p \o q \in Seq(S) /\ Len(p \o q) = Len(p) + Len(q)
  BY LenProperties, ConcatAt
<1>2. /\ r \in Seq(S) /\ Len(r) = Len(p) - k
      /\ \A i \in 1 .. Len(p) - k : r[i] = p[k + i]
  BY RestAt
<1>3. /\ w \in Seq(S) /\ Len(w) = (Len(p) + Len(q)) - k
      /\ \A i \in 1 .. (Len(p) + Len(q)) - k : w[i] = (p \o q)[k + i]
  <2>1. k \in 0 .. Len(p \o q)
    BY <1>1
  <2> QED
    BY <1>1, <2>1, RestAt
<1>4. /\ r \o q \in Seq(S) /\ Len(r \o q) = (Len(p) - k) + Len(q)
      /\ \A i \in 1 .. Len(p) - k : (r \o q)[i] = r[i]
      /\ \A i \in 1 .. Len(q) : (r \o q)[(Len(p) - k) + i] = q[i]
  <2>0. r \in Seq(S)
    BY <1>2
  <2> HIDE DEF r
  <2>1. /\ r \o q \in Seq(S) /\ Len(r \o q) = Len(r) + Len(q)
        /\ \A i \in 1 .. Len(r) : (r \o q)[i] = r[i]
        /\ \A i \in 1 .. Len(q) : (r \o q)[Len(r) + i] = q[i]
    BY <2>0, ConcatAt
  <2> QED
    BY <1>2, <2>1
<1> HIDE DEF r, w
<1>5. \A i \in 1 .. Len(r \o q) : (r \o q)[i] = w[i]
  <2> SUFFICES ASSUME NEW i \in 1 .. Len(r \o q)
               PROVE  (r \o q)[i] = w[i]
    OBVIOUS
  <2>1. CASE i <= Len(p) - k
    <3>1. i \in 1 .. Len(p) - k /\ k + i \in 1 .. Len(p) /\ i \in 1 .. (Len(p) + Len(q)) - k
      BY <1>1, <1>4, <2>1
    <3>2. (p \o q)[k + i] = p[k + i]
      BY <3>1, ConcatAt
    <3> QED
      BY <1>2, <1>3, <1>4, <3>1, <3>2
  <2>2. CASE i > Len(p) - k
    <3> DEFINE j == i - (Len(p) - k)
    <3>1. j \in 1 .. Len(q) /\ (Len(p) - k) + j = i /\ Len(p) + j = k + i
          /\ i \in 1 .. (Len(p) + Len(q)) - k
      BY <1>1, <1>4, <2>2
    <3>2. (p \o q)[Len(p) + j] = q[j]
      BY <3>1, ConcatAt
    <3>3. (r \o q)[(Len(p) - k) + j] = q[j]
      BY <1>4, <3>1
    <3> QED
      BY <1>3, <3>1, <3>2, <3>3
  <2> QED
    BY <1>1, <1>4, <2>1, <2>2
<1>6. Len(r \o q) = Len(w)
  BY <1>1, <1>3, <1>4
<1>7. r \o q = w
  BY <1>3, <1>4, <1>5, <1>6, SeqEqual
<1> QED
  BY <1>7 DEF r, w

------------------------------------------------------------------------------
(* Packets in a sequence of units.                                         *)

LEMMA LensAreNats ==
  \A l \in Lens : l \in Nat /\ 2 <= l /\ l <= MaxPacket
  BY LengthsAssumption

\* What the numbers of a packet are.
LEMMA PartsAreNats ==
  ASSUME NEW q, NEW g, NEW i, NEW m, InPacket(q, g, i, m)
  PROVE  q[i].len \in Nat /\ q[i].part \in Nat /\ 1 <= q[i].part /\ q[i].part <= q[i].len
<1>1. q[i].len \in Lens /\ q[i].part \in 1 .. q[i].len
  BY DEF InPacket
<1>2. q[i].len \in Nat
  BY <1>1, LensAreNats
<1> QED
  BY <1>1, <1>2

LEMMA UnitsAt ==
  ASSUME NEW q \in Seq(Units), NEW i \in 1 .. Len(q)
  PROVE  q[i] \in Units
  BY ElementOfSeq

\* What is cut off at the end takes nothing from what is left.
LEMMA CutFramed ==
  ASSUME NEW p \in Seq(Units), NEW q \in Seq(Units), NEW g \in Nat, NEW n \in Nat, NEW m \in Nat,
         Framed(p \o q, g, n, m)
  PROVE  Framed(p, g, n, m)
<1> DEFINE w == p \o q
<1>1. /\ Len(p) \in Nat /\ Len(q) \in Nat /\ Len(w) = Len(p) + Len(q)
      /\ \A i \in 1 .. Len(p) : w[i] = p[i]
  BY LenProperties, ConcatAt
<1>2. Framed(w, g, n, m)
  OBVIOUS
<1> HIDE DEF w
<1>3. \A i \in 1 .. Len(p) : i > g => InPacket(p, g, i, m)
  <2> SUFFICES ASSUME NEW i \in 1 .. Len(p), i > g
               PROVE  InPacket(p, g, i, m)
    OBVIOUS
  <2> DEFINE u == p[i]
  <2>1. i \in 1 .. Len(w) /\ w[i] = u /\ ~(i <= g)
    BY <1>1
  <2>2. InPacket(w, g, i, m)
    BY <1>2, <2>1 DEF Framed
  <2>3. /\ u.msg \in 1 .. m /\ u.len \in Lens /\ u.part \in 1 .. u.len /\ g <= i - u.part
        /\ \A j \in 1 .. u.len : i - u.part + j <= Len(w) => w[i - u.part + j] = [u EXCEPT !.part = j]
        /\ u.part = u.len /\ i < Len(w) => w[i + 1].part = 1 /\ w[i + 1].msg = u.msg + 1
    BY <2>1, <2>2 DEF InPacket
  <2>4. u.len \in Nat /\ u.part \in Nat
    BY <2>1, <2>2, PartsAreNats
  <2> HIDE DEF u
  <2>5. ASSUME NEW j \in 1 .. u.len, i - u.part + j <= Len(p)
        PROVE  p[i - u.part + j] = [u EXCEPT !.part = j]
    <3>1. i - u.part + j \in 1 .. Len(p) /\ i - u.part + j <= Len(w)
      BY <1>1, <2>3, <2>4, <2>5
    <3> QED
      BY <1>1, <2>3, <3>1
  <2>6. u.part = u.len /\ i < Len(p) => p[i + 1].part = 1 /\ p[i + 1].msg = u.msg + 1
    <3>1. i < Len(p) => i < Len(w) /\ i + 1 \in 1 .. Len(p)
      BY <1>1
    <3> QED
      BY <1>1, <2>3, <3>1
  <2> QED
    BY <2>3, <2>5, <2>6 DEF InPacket, u
<1>4. \A i \in 1 .. Len(p) : i <= g => p[i] = GreetUnit
  <2>1. \A i \in 1 .. Len(p) : i \in 1 .. Len(w)
    BY <1>1
  <2> QED
    BY <1>1, <1>2, <2>1 DEF Framed
<1>5. g < Len(p) => p[g + 1].part = 1 /\ p[g + 1].msg = n
  <2>1. g < Len(p) => g < Len(w) /\ g + 1 \in 1 .. Len(p)
    BY <1>1
  <2> QED
    BY <1>1, <1>2, <2>1 DEF Framed
<1>6. \A i \in 1 .. Len(p) : ~(i <= g) => i > g
  BY <1>1
<1> QED
  BY <1>3, <1>4, <1>5, <1>6 DEF Framed

\* When the first k units end with a packet, the rest begins with the next.
LEMMA ShiftFramed ==
  ASSUME NEW q \in Seq(Units), NEW k \in 0 .. Len(q), NEW n \in Nat, NEW m \in Nat,
         \A i \in 1 .. Len(q) : k < i => InPacket(q, k, i, m),
         k < Len(q) => q[k + 1].part = 1 /\ q[k + 1].msg = n
  PROVE  Framed(SubSeq(q, k + 1, Len(q)), 0, n, m)
<1> DEFINE r == SubSeq(q, k + 1, Len(q))
<1>0. Len(q) \in Nat /\ Len(r) = Len(q) - k /\ k \in Nat /\ k <= Len(q)
  BY LenProperties, RestAt
<1>1. \A i \in 1 .. Len(r) : r[i] = q[k + i]
  BY <1>0, RestAt
<1> HIDE DEF r
<1>2. \A i \in 1 .. Len(r) : InPacket(r, 0, i, m)
  <2> SUFFICES ASSUME NEW i \in 1 .. Len(r)
               PROVE  InPacket(r, 0, i, m)
    OBVIOUS
  <2> DEFINE u == q[k + i]
  <2>1. k + i \in 1 .. Len(q) /\ k < k + i /\ r[i] = u
    BY <1>0, <1>1
  <2>2. InPacket(q, k, k + i, m)
    BY <2>1
  <2>3. /\ u.msg \in 1 .. m /\ u.len \in Lens /\ u.part \in 1 .. u.len /\ k <= (k + i) - u.part
        /\ \A j \in 1 .. u.len :
             (k + i) - u.part + j <= Len(q) => q[(k + i) - u.part + j] = [u EXCEPT !.part = j]
        /\ u.part = u.len /\ k + i < Len(q) => q[(k + i) + 1].part = 1 /\ q[(k + i) + 1].msg = u.msg + 1
    BY <2>2 DEF InPacket
  <2>4. u.len \in Nat /\ u.part \in Nat
    BY <2>2, PartsAreNats
  <2> HIDE DEF u
  <2>7. 0 <= i - u.part
    BY <1>0, <2>3, <2>4
  <2>5. ASSUME NEW j \in 1 .. u.len, i - u.part + j <= Len(r)
        PROVE  r[i - u.part + j] = [u EXCEPT !.part = j]
    <3>1. /\ i - u.part + j \in 1 .. Len(r) /\ k + (i - u.part + j) = (k + i) - u.part + j
          /\ (k + i) - u.part + j <= Len(q)
      <4>1. i \in Nat /\ i <= Len(r) /\ j \in Nat /\ 1 <= j
        BY <1>0, <2>4, <2>5
      <4> QED
        BY <1>0, <2>4, <2>5, <2>7, <4>1, SMTT(30)
    <3>2. r[i - u.part + j] = q[(k + i) - u.part + j]
      BY <1>1, <3>1
    <3> QED
      BY <2>3, <3>1, <3>2
  <2>6. u.part = u.len /\ i < Len(r) => r[i + 1].part = 1 /\ r[i + 1].msg = u.msg + 1
    <3>1. i < Len(r) => k + i < Len(q) /\ i + 1 \in 1 .. Len(r) /\ k + (i + 1) = (k + i) + 1
      BY <1>0
    <3>2. i < Len(r) => r[i + 1] = q[(k + i) + 1]
      <4> SUFFICES ASSUME i < Len(r)
                   PROVE  r[i + 1] = q[(k + i) + 1]
        OBVIOUS
      <4>1. i + 1 \in 1 .. Len(r) /\ k + (i + 1) = (k + i) + 1
        BY <3>1
      <4>2. r[i + 1] = q[k + (i + 1)]
        BY <1>1, <4>1
      <4> QED
        BY <4>1, <4>2
    <3> QED
      BY <2>3, <3>1, <3>2
  <2>8. r[i] = u
    BY <2>1 DEF u
  <2> QED
    BY <2>3, <2>5, <2>6, <2>7, <2>8 DEF InPacket
<1>3. 0 < Len(r) => r[0 + 1].part = 1 /\ r[0 + 1].msg = n
  <2>1. 0 < Len(r) => k < Len(q) /\ 1 \in 1 .. Len(r)
    BY <1>0
  <2> QED
    BY <1>1, <2>1
<1>4. \A i \in 1 .. Len(r) : ~(i <= 0)
  BY <1>0
<1>5. Framed(r, 0, n, m)
  BY <1>2, <1>3, <1>4 DEF Framed
<1> QED
  BY <1>5 DEF r

\* The greetcode is consumed.
LEMMA GreetDone ==
  ASSUME NEW q \in Seq(Units), NEW g \in 0 .. Len(q), NEW n \in Nat, NEW m \in Nat, Framed(q, g, n, m)
  PROVE  /\ Framed(SubSeq(q, g + 1, Len(q)), 0, n, m)
         /\ Whole(q, g, n, m) => Whole(SubSeq(q, g + 1, Len(q)), 0, n, m)
<1>1. Len(q) \in Nat
  BY LenProperties
<1>2. \A i \in 1 .. Len(q) : g < i => InPacket(q, g, i, m)
  <2>1. \A i \in 1 .. Len(q) : g < i => ~(i <= g)
    BY <1>1
  <2> QED
    BY <2>1 DEF Framed
<1>3. g < Len(q) => q[g + 1].part = 1 /\ q[g + 1].msg = n
  BY DEF Framed
<1>4. Framed(SubSeq(q, g + 1, Len(q)), 0, n, m)
  BY <1>2, <1>3, ShiftFramed
<1> DEFINE r == SubSeq(q, g + 1, Len(q))
<1>5. Len(r) = Len(q) - g /\ \A i \in 1 .. Len(q) - g : r[i] = q[g + i]
  BY RestAt
<1> HIDE DEF r
<1>6. /\ 0 < Len(r) <=> g < Len(q)
      /\ 0 < Len(r) => r[Len(r)] = q[Len(q)]
  <2>1. /\ 0 < Len(r) <=> g < Len(q)
        /\ 0 < Len(r) => Len(r) \in 1 .. Len(q) - g /\ g + Len(r) = Len(q)
    BY <1>1, <1>5
  <2> QED
    BY <1>5, <2>1
<1>7. Whole(q, g, n, m) => Whole(r, 0, n, m)
  BY <1>6 DEF Whole
<1> QED
  BY <1>4, <1>7 DEF r

\* The packet at the front, as far as it has come.
LEMMA FirstPacket ==
  ASSUME NEW q \in Seq(Units), NEW n \in Nat, NEW m \in Nat, Framed(q, 0, n, m), q # <<>>
  PROVE  /\ q[1].part = 1 /\ q[1].msg = n /\ n \in 1 .. m /\ q[1].len \in Lens
         /\ \A j \in 1 .. q[1].len : j <= Len(q) => q[j] = [q[1] EXCEPT !.part = j]
<1>1. Len(q) \in Nat \ {0}
  BY EmptySeq
<1>2. q[1].part = 1 /\ q[1].msg = n
  BY <1>1 DEF Framed
<1>3. InPacket(q, 0, 1, m)
  <2>1. 1 \in 1 .. Len(q) /\ ~(1 <= 0)
    BY <1>1
  <2> QED
    BY <2>1 DEF Framed
<1>4. \A j \in 1 .. q[1].len : j <= Len(q) => q[j] = [q[1] EXCEPT !.part = j]
  <2> SUFFICES ASSUME NEW j \in 1 .. q[1].len, j <= Len(q)
               PROVE  q[j] = [q[1] EXCEPT !.part = j]
    OBVIOUS
  <2>1. q[1].len \in Nat
    BY <1>3, PartsAreNats
  <2>2. 1 - q[1].part + j = j
    BY <1>2, <2>1
  <2> QED
    BY <1>3, <2>2 DEF InPacket
<1> QED
  BY <1>2, <1>3, <1>4 DEF InPacket

\* It is consumed when it is there, and the next one is at the front.
LEMMA PacketDone ==
  ASSUME NEW q \in Seq(Units), NEW n \in Nat, NEW m \in Nat, Framed(q, 0, n, m), q # <<>>,
         q[1].len <= Len(q)
  PROVE  LET r == SubSeq(q, q[1].len + 1, Len(q)) IN
         Framed(r, 0, n + 1, m) /\ (Whole(q, 0, n, m) => Whole(r, 0, n + 1, m))
<1> DEFINE l == q[1].len
           r == SubSeq(q, l + 1, Len(q))
<1>1. /\ Len(q) \in Nat \ {0} /\ l \in Lens /\ l \in Nat /\ 2 <= l /\ q[1].msg = n
      /\ \A j \in 1 .. l : j <= Len(q) => q[j] = [q[1] EXCEPT !.part = j]
  BY EmptySeq, FirstPacket, LensAreNats
<1>2. l \in 1 .. Len(q) /\ l \in 0 .. Len(q)
  BY <1>1
<1>3. q[l].part = l /\ q[l].len = l /\ q[l].msg = n
  <2>1. q[l] = [q[1] EXCEPT !.part = l]
    BY <1>1, <1>2
  <2>2. q[1] \in Units
    BY <1>1, UnitsAt
  <2> QED
    BY <1>1, <2>1, <2>2 DEF Units
<1>4. \A i \in 1 .. Len(q) : InPacket(q, 0, i, m)
  <2>1. \A i \in 1 .. Len(q) : ~(i <= 0)
    BY <1>1
  <2> QED
    BY <2>1 DEF Framed
<1>5. l < Len(q) => q[l + 1].part = 1 /\ q[l + 1].msg = n + 1
  BY <1>2, <1>3, <1>4 DEF InPacket
<1>6. \A i \in 1 .. Len(q) : l < i => InPacket(q, l, i, m)
  <2> SUFFICES ASSUME NEW i \in 1 .. Len(q), l < i
               PROVE  InPacket(q, l, i, m)
    OBVIOUS
  <2> DEFINE u == q[i]
  <2>1. InPacket(q, 0, i, m)
    BY <1>4
  <2>2. /\ u.msg \in 1 .. m /\ u.len \in Lens /\ u.part \in 1 .. u.len /\ 0 <= i - u.part
        /\ \A j \in 1 .. u.len : i - u.part + j <= Len(q) => q[i - u.part + j] = [u EXCEPT !.part = j]
        /\ u.part = u.len /\ i < Len(q) => q[i + 1].part = 1 /\ q[i + 1].msg = u.msg + 1
    BY <2>1 DEF InPacket
  <2>4. u.len \in Nat /\ u.part \in Nat /\ u \in Units
    BY <2>1, PartsAreNats, UnitsAt
  <2> HIDE DEF u, l
  <2>3. ASSUME i - u.part < l
        PROVE  FALSE
    <3> DEFINE j == l - (i - u.part)
    <3>0. l \in Nat /\ l <= Len(q) /\ i \in Nat /\ u.part <= u.len /\ 0 <= i - u.part
      BY <1>1, <1>2, <2>2, <2>4
    <3>1. j \in 1 .. u.len /\ j < u.part /\ i - u.part + j = l /\ l <= Len(q)
      BY <2>3, <2>4, <3>0, SMTT(30)
    <3>2. q[l] = [u EXCEPT !.part = j]
      <4> HIDE DEF j
      <4> QED
        BY <2>2, <3>1
    <3>4. q[l].part = j /\ q[l].len = u.len
      <4> HIDE DEF j
      <4> QED
        BY <2>4, <3>2 DEF Units
    <3> QED
      BY <1>3, <2>2, <2>4, <3>1, <3>4
  <2>5. l <= i - u.part
    BY <1>1, <2>3, <2>4
  <2> QED
    BY <2>2, <2>5 DEF InPacket, u
<1>7. Framed(r, 0, n + 1, m)
  <2>1. n + 1 \in Nat
    OBVIOUS
  <2> HIDE DEF l
  <2>2. Framed(SubSeq(q, l + 1, Len(q)), 0, n + 1, m)
    BY <1>2, <1>5, <1>6, <2>1, ShiftFramed
  <2> QED
    BY <2>2
<1>8. Len(r) = Len(q) - l /\ \A i \in 1 .. Len(q) - l : r[i] = q[l + i]
  BY <1>2, RestAt
<1> HIDE DEF r
<1>9. ASSUME Whole(q, 0, n, m)
      PROVE  Whole(r, 0, n + 1, m)
  <2>1. q[Len(q)].msg = m /\ q[Len(q)].part = q[Len(q)].len
    BY <1>1, <1>9 DEF Whole
  <2>2. CASE 0 < Len(r)
    <3>1. Len(r) \in 1 .. Len(q) - l /\ l + Len(r) = Len(q)
      BY <1>1, <1>8, <2>2
    <3> QED
      BY <1>8, <2>1, <2>2, <3>1 DEF Whole
  <2>3. CASE ~(0 < Len(r))
    <3>1. Len(q) = l
      BY <1>1, <1>2, <1>8, <2>3
    <3>2. m = (n + 1) - 1
      BY <1>3, <2>1, <3>1
    <3> QED
      BY <2>3, <3>2 DEF Whole
  <2> QED
    BY <2>2, <2>3
<1> QED
  BY <1>7, <1>9 DEF r

\* p is the packet numbered m, in l units.
IsPacket(p, l, m) ==
  /\ Len(p) = l
  /\ \A i \in 1 .. l : /\ p[i].msg = m /\ p[i].part = i /\ p[i].len = l
                        /\ \A j \in 1 .. l : p[j] = [p[i] EXCEPT !.part = j]

\* The next packet m + 1 is queued behind what is whole.
LEMMA AddPacket ==
  ASSUME NEW q \in Seq(Units), NEW g \in 0 .. Len(q), NEW n \in Nat, NEW m \in Nat,
         Framed(q, g, n, m), Whole(q, g, n, m),
         NEW p \in Seq(Units), NEW l \in Lens, IsPacket(p, l, m + 1)
  PROVE  Framed(q \o p, g, n, m + 1) /\ Whole(q \o p, g, n, m + 1)
<1> DEFINE w == q \o p
<1> USE DEF IsPacket
<1>1. Len(q) \in Nat /\ l \in Nat /\ 2 <= l
  BY LenProperties, LensAreNats
<1>2. Len(w) = Len(q) + l
  <2>1. Len(q \o p) = Len(q) + Len(p)
    BY ConcatLen
  <2> QED
    BY <2>1
<1>3. \A i \in 1 .. Len(q) : w[i] = q[i]
  BY ConcatAt
<1>4. \A i \in 1 .. l : w[Len(q) + i] = p[i]
  BY ConcatAt
<1> HIDE DEF w
<1>5. ASSUME NEW i \in 1 .. Len(q), g < i
      PROVE  InPacket(w, g, i, m + 1)
  <2> DEFINE u == q[i]
  <2>1. InPacket(q, g, i, m)
    <3>1. ~(i <= g)
      BY <1>1, <1>5
    <3> QED
      BY <3>1 DEF Framed
  <2>2. /\ u.msg \in 1 .. m /\ u.len \in Lens /\ u.part \in 1 .. u.len /\ g <= i - u.part
        /\ \A j \in 1 .. u.len : i - u.part + j <= Len(q) => q[i - u.part + j] = [u EXCEPT !.part = j]
        /\ u.part = u.len /\ i < Len(q) => q[i + 1].part = 1 /\ q[i + 1].msg = u.msg + 1
    BY <2>1 DEF InPacket
  <2>3. u.len \in Nat /\ u.part \in Nat /\ u \in Units /\ w[i] = u
    BY <1>3, <2>1, PartsAreNats, UnitsAt
  <2>4. g < Len(q) /\ q[Len(q)].part = q[Len(q)].len /\ q[Len(q)].msg = m
    <3>1. g < Len(q)
      BY <1>1, <1>5
    <3> QED
      BY <3>1 DEF Whole
  <2> HIDE DEF u
  <2>5. (i - u.part) + u.len <= Len(q)
    <3> SUFFICES ASSUME Len(q) < (i - u.part) + u.len
                 PROVE  FALSE
      BY <1>1, <2>3
    <3> DEFINE j == Len(q) - (i - u.part)
    <3>1. j \in 1 .. u.len /\ j < u.len /\ i - u.part + j = Len(q)
      <4>1. i \in Nat /\ i <= Len(q) /\ 1 <= u.part
        BY <1>1, <2>2, <2>3
      <4> QED
        BY <1>1, <2>3, <4>1, SMTT(30)
    <3> HIDE DEF j
    <3>4. i - u.part + j <= Len(q)
      BY <1>1, <3>1
    <3>5. q[i - u.part + j] = [u EXCEPT !.part = j]
      BY <2>2, <3>1, <3>4
    <3>2. q[Len(q)] = [u EXCEPT !.part = j]
      BY <3>1, <3>5
    <3>3. q[Len(q)].part = j /\ q[Len(q)].len = u.len
      BY <2>3, <3>2 DEF Units
    <3>6. j = u.len
      BY <2>4, <3>3
    <3>7. ~(u.len < u.len)
      BY <2>3
    <3> QED
      BY <3>1, <3>6, <3>7
  <2>6. ASSUME NEW j \in 1 .. u.len, i - u.part + j <= Len(w)
        PROVE  w[i - u.part + j] = [u EXCEPT !.part = j]
    <3>0. i \in Nat /\ j \in Nat /\ 1 <= j /\ j <= u.len /\ 0 <= i - u.part
      BY <1>1, <2>2, <2>3
    <3>1. i - u.part + j \in 1 .. Len(q) /\ i - u.part + j <= Len(q)
      BY <1>1, <2>3, <2>5, <3>0, SMTT(30)
    <3> QED
      BY <1>3, <2>2, <3>1
  <2>7. ASSUME u.part = u.len, i < Len(w)
        PROVE  w[i + 1].part = 1 /\ w[i + 1].msg = u.msg + 1
    <3>1. CASE i < Len(q)
      <4>1. i + 1 \in 1 .. Len(q)
        BY <1>1, <3>1
      <4> QED
        BY <1>3, <2>2, <2>7, <3>1, <4>1
    <3>2. CASE ~(i < Len(q))
      <4>1. i = Len(q) /\ 1 \in 1 .. l
        BY <1>1, <3>2
      <4>2. w[i + 1] = p[1] /\ u.msg = m
        BY <1>4, <2>4, <4>1 DEF u
      <4> QED
        BY <4>1, <4>2
    <3> QED
      BY <3>1, <3>2
  <2>8. u.msg \in 1 .. m + 1
    BY <2>2
  <2> QED
    BY <2>2, <2>3, <2>6, <2>7, <2>8 DEF InPacket
<1>6. ASSUME NEW a \in 1 .. l
      PROVE  InPacket(w, g, Len(q) + a, m + 1)
  <2> DEFINE u == p[a]
  <2>1. /\ w[Len(q) + a] = u /\ u.msg = m + 1 /\ u.part = a /\ u.len = l
        /\ (Len(q) + a) - u.part = Len(q) /\ g <= Len(q)
    BY <1>1, <1>4
  <2>2. \A j \in 1 .. u.len : w[(Len(q) + a) - u.part + j] = [u EXCEPT !.part = j]
    BY <1>4, <2>1
  <2>3. ~(u.part = u.len /\ Len(q) + a < Len(w))
    BY <1>1, <1>2, <2>1
  <2>4. u.msg \in 1 .. m + 1 /\ u.part \in 1 .. u.len
    BY <2>1
  <2> QED
    BY <2>1, <2>2, <2>3, <2>4 DEF InPacket
<1>7. ASSUME NEW i \in 1 .. Len(w)
      PROVE  IF i <= g THEN w[i] = GreetUnit ELSE InPacket(w, g, i, m + 1)
  <2>1. CASE i <= Len(q)
    <3>1. i \in 1 .. Len(q) /\ (~(i <= g) => g < i)
      BY <1>1, <2>1
    <3> QED
      BY <1>3, <1>5, <3>1 DEF Framed
  <2>2. CASE ~(i <= Len(q))
    <3> DEFINE a == i - Len(q)
    <3>1. a \in 1 .. l /\ Len(q) + a = i /\ ~(i <= g)
      BY <1>1, <1>2, <2>2
    <3>2. InPacket(w, g, Len(q) + a, m + 1)
      BY <1>6, <3>1
    <3> QED
      BY <3>1, <3>2
  <2> QED
    BY <2>1, <2>2
<1>8. ASSUME g < Len(w)
      PROVE  w[g + 1].part = 1 /\ w[g + 1].msg = n
  <2>1. CASE g < Len(q)
    <3>1. g + 1 \in 1 .. Len(q)
      BY <1>1, <2>1
    <3> QED
      BY <1>3, <2>1, <3>1 DEF Framed
  <2>2. CASE ~(g < Len(q))
    <3>1. g = Len(q) /\ 1 \in 1 .. l /\ m = n - 1
      BY <1>1, <2>2 DEF Whole
    <3>2. w[g + 1] = p[1] /\ m + 1 = n
      BY <1>4, <3>1
    <3> QED
      BY <3>1, <3>2
  <2> QED
    BY <2>1, <2>2
<1>9. Framed(w, g, n, m + 1)
  BY <1>7, <1>8 DEF Framed
<1>10. Whole(w, g, n, m + 1)
  <2>1. l \in 1 .. l /\ g < Len(w) /\ w[Len(w)] = p[l]
    BY <1>1, <1>2, <1>4
  <2> QED
    BY <2>1 DEF Whole
<1> QED
  BY <1>9, <1>10 DEF w

\* What AESEncrypt makes is such a packet.
LEMMA EncryptedPacket ==
  ASSUME NEW m \in Nat, m < MaxPackets, NEW l \in Lens, NEW v \in IVs, NEW k \in 1 .. 2
  PROVE  /\ AESEncrypt(m + 1, l, v, k) \in Seq(Units) /\ Len(AESEncrypt(m + 1, l, v, k)) = l
         /\ \A i \in 1 .. l :
              /\ AESEncrypt(m + 1, l, v, k)[i].msg = m + 1
              /\ AESEncrypt(m + 1, l, v, k)[i].part = i /\ AESEncrypt(m + 1, l, v, k)[i].len = l
              /\ AESEncrypt(m + 1, l, v, k)[i].prefix = v.prefix
              /\ AESEncrypt(m + 1, l, v, k)[i].counter = v.counter
              /\ AESEncrypt(m + 1, l, v, k)[i].key = k
<1> DEFINE U(i) == [msg |-> m + 1, part |-> i, len |-> l,
                    prefix |-> v.prefix, counter |-> v.counter, key |-> k]
           p == [i \in 1 .. l |-> U(i)]
<1>1. l \in Nat /\ l <= MaxPacket /\ MaxPacket \in Nat /\ MaxPackets \in Nat
  BY LensAreNats, LengthsAssumption
<1>2. \A i \in 1 .. l : U(i) \in Units
  BY <1>1 DEF Units, IVs
<1>3. p \in Seq(Units) /\ Len(p) = l
  <2> HIDE DEF U
  <2> QED
    BY <1>1, <1>2, IsASeq, LenProperties
<1>5. AESEncrypt(m + 1, l, v, k) = p
  BY DEF AESEncrypt
<1>6. ASSUME NEW i \in 1 .. l
      PROVE  /\ p[i].msg = m + 1 /\ p[i].part = i /\ p[i].len = l
             /\ p[i].prefix = v.prefix /\ p[i].counter = v.counter /\ p[i].key = k
  OBVIOUS
<1> HIDE DEF p
<1> QED
  BY <1>3, <1>5, <1>6

LEMMA EncryptedParts ==
  ASSUME NEW n, NEW l, NEW v, NEW k, NEW i \in 1 .. l, NEW j \in 1 .. l
  PROVE  AESEncrypt(n, l, v, k)[j] = [AESEncrypt(n, l, v, k)[i] EXCEPT !.part = j]
  BY DEF AESEncrypt

\* What is cut off at the end, or consumed at the front, unseals nothing.
LEMMA CutSealed ==
  ASSUME NEW p \in Seq(Units), NEW q \in Seq(Units), NEW g \in Nat, NEW P, Sealed(p \o q, g, P)
  PROVE  Sealed(p, g, P)
<1>1. /\ Len(p) \in Nat /\ Len(q) \in Nat /\ Len(p \o q) = Len(p) + Len(q)
      /\ \A i \in 1 .. Len(p) : (p \o q)[i] = p[i]
  BY LenProperties, ConcatAt
<1>2. \A i \in 1 .. Len(p) : i \in 1 .. Len(p \o q)
  BY <1>1
<1> QED
  BY <1>1, <1>2 DEF Sealed

LEMMA RestSealed ==
  ASSUME NEW q \in Seq(Units), NEW g \in Nat, NEW k \in 0 .. Len(q), g <= k, NEW P, Sealed(q, g, P)
  PROVE  Sealed(SubSeq(q, k + 1, Len(q)), 0, P)
<1> DEFINE r == SubSeq(q, k + 1, Len(q))
<1>1. /\ Len(q) \in Nat /\ Len(r) = Len(q) - k
      /\ \A i \in 1 .. Len(q) - k : r[i] = q[k + i]
  BY LenProperties, RestAt
<1>2. \A i \in 1 .. Len(q) - k : k + i \in 1 .. Len(q) /\ k + i > g
  BY <1>1
<1> HIDE DEF r
<1>3. Sealed(r, 0, P)
  BY <1>1, <1>2 DEF Sealed
<1> QED
  BY <1>3 DEF r

LEMMA AddSealed ==
  ASSUME NEW q \in Seq(Units), NEW g \in Nat, NEW P, Sealed(q, g, P),
         NEW m \in Nat, m < MaxPackets, NEW l \in Lens, NEW v \in IVs,
         v.counter = m, v.prefix \in P
  PROVE  Sealed(q \o AESEncrypt(m + 1, l, v, 1), g, P)
<1> DEFINE p == AESEncrypt(m + 1, l, v, 1)
           w == q \o p
<1>1. 1 \in 1 .. 2
  OBVIOUS
<1>2. /\ p \in Seq(Units) /\ Len(p) = l
      /\ \A i \in 1 .. l : p[i].counter = m /\ p[i].msg - 1 = m /\ p[i].key = 1 /\ p[i].prefix \in P
  <2>1. /\ p \in Seq(Units) /\ Len(p) = l
        /\ \A i \in 1 .. l : /\ p[i].msg = m + 1 /\ p[i].prefix = v.prefix
                             /\ p[i].counter = v.counter /\ p[i].key = 1
    BY <1>1, EncryptedPacket
  <2> HIDE DEF p
  <2>2. (m + 1) - 1 = m
    OBVIOUS
  <2> QED
    BY <2>1, <2>2
<1>3. l \in Nat /\ Len(q) \in Nat
  BY LensAreNats, LenProperties
<1> HIDE DEF p
<1>4. /\ Len(w) = Len(q) + Len(p)
      /\ \A i \in 1 .. Len(q) : w[i] = q[i]
      /\ \A i \in 1 .. Len(p) : w[Len(q) + i] = p[i]
  <2>1. p \in Seq(Units)
    BY <1>2
  <2> QED
    BY <2>1, ConcatAt
<1> HIDE DEF w
<1>5. ASSUME NEW i \in 1 .. Len(w), i > g
      PROVE  w[i].counter = w[i].msg - 1 /\ w[i].key = 1 /\ w[i].prefix \in P
  <2>1. CASE i <= Len(q)
    <3>1. i \in 1 .. Len(q)
      BY <1>3, <2>1
    <3> QED
      BY <1>4, <1>5, <3>1 DEF Sealed
  <2>2. CASE ~(i <= Len(q))
    <3> DEFINE a == i - Len(q)
    <3>1. a \in 1 .. l /\ Len(q) + a = i
      BY <1>2, <1>3, <1>4, <2>2
    <3> HIDE DEF a
    <3>2. w[Len(q) + a] = p[a]
      BY <1>2, <1>4, <3>1
    <3> QED
      BY <1>2, <3>1, <3>2
  <2> QED
    BY <2>1, <2>2
<1>6. Sealed(w, g, P)
  BY <1>5 DEF Sealed
<1> QED
  BY <1>6 DEF w, p

------------------------------------------------------------------------------
(* The buffers.                                                            *)

LEMMA ActiveAt ==
  ASSUME NEW b \in Readers, b.rpos <= Len(b.data)
  PROVE  /\ b.data \in Seq(Units) /\ b.rpos \in 0 .. Len(b.data)
         /\ Active(b) \in Seq(Units) /\ Len(Active(b)) = Len(b.data) - b.rpos
<1>1. b.data \in Seq(Units) /\ b.rpos \in 0 .. Len(b.data)
  <2>1. b.data \in Seq(Units) /\ b.rpos \in Nat
    BY DEF Readers
  <2> QED
    BY <2>1, LenProperties
<1> QED
  BY <1>1, RestAt DEF Active

\* What is received is active behind what was.
LEMMA ActiveReceived ==
  ASSUME NEW b \in Readers, b.rpos <= Len(b.data), NEW x \in Seq(Units)
  PROVE  Active([b EXCEPT !.data = @ \o x]) = Active(b) \o x
<1>1. b.data \in Seq(Units) /\ b.rpos \in 0 .. Len(b.data)
  BY ActiveAt
<1>2. SubSeq(b.data, b.rpos + 1, Len(b.data)) \o x
        = SubSeq(b.data \o x, b.rpos + 1, Len(b.data \o x))
  BY <1>1, RestOfConcat
<1>3. /\ [b EXCEPT !.data = @ \o x].data = b.data \o x
      /\ [b EXCEPT !.data = @ \o x].rpos = b.rpos
  BY DEF Readers
<1> QED
  BY <1>2, <1>3 DEF Active

\* What is consumed is active no more.
LEMMA ActiveSkipped ==
  ASSUME NEW b \in Readers, b.rpos <= Len(b.data), NEW l \in 0 .. Len(Active(b))
  PROVE  SubSeq(b.data, b.rpos + l + 1, Len(b.data)) = SubSeq(Active(b), l + 1, Len(Active(b)))
<1> DEFINE a == Active(b)
           x == SubSeq(b.data, (b.rpos + l) + 1, Len(b.data))
           y == SubSeq(a, l + 1, Len(a))
<1>1. /\ b.data \in Seq(Units) /\ b.rpos \in 0 .. Len(b.data) /\ Len(b.data) \in Nat
      /\ a \in Seq(Units) /\ Len(a) = Len(b.data) - b.rpos
  BY ActiveAt, LenProperties
<1>2. \A i \in 1 .. Len(b.data) - b.rpos : a[i] = b.data[b.rpos + i]
  BY <1>1, RestAt DEF Active
<1> HIDE DEF a
<1>3. b.rpos + l \in 0 .. Len(b.data) /\ l \in 0 .. Len(a)
  BY <1>1 DEF a
<1>4. /\ x \in Seq(Units) /\ Len(x) = Len(b.data) - (b.rpos + l)
      /\ \A i \in 1 .. Len(b.data) - (b.rpos + l) : x[i] = b.data[(b.rpos + l) + i]
  BY <1>1, <1>3, RestAt
<1>5. /\ y \in Seq(Units) /\ Len(y) = Len(a) - l
      /\ \A i \in 1 .. Len(a) - l : y[i] = a[l + i]
  BY <1>1, <1>3, RestAt
<1> HIDE DEF x, y
<1>6. Len(x) = Len(y)
  <2>1. Len(x) = Len(b.data) - (b.rpos + l) /\ Len(y) = (Len(b.data) - b.rpos) - l
    BY <1>1, <1>4, <1>5
  <2>2. b.rpos \in Nat /\ l \in Nat
    BY <1>1, <1>3
  <2> QED
    BY <1>1, <2>1, <2>2
<1>7. ASSUME NEW i \in 1 .. Len(x)
      PROVE  x[i] = y[i]
  <2>1. /\ i \in 1 .. Len(b.data) - (b.rpos + l) /\ i \in 1 .. Len(a) - l
        /\ l + i \in 1 .. Len(b.data) - b.rpos /\ b.rpos + (l + i) = (b.rpos + l) + i
    <3>1. /\ b.rpos \in Nat /\ l \in Nat /\ l <= Len(a) /\ i \in Nat /\ 1 <= i
          /\ i <= Len(b.data) - (b.rpos + l) /\ Len(a) = Len(b.data) - b.rpos
      BY <1>1, <1>3, <1>4
    <3> QED
      BY <1>1, <3>1
  <2>2. x[i] = b.data[(b.rpos + l) + i] /\ y[i] = a[l + i] /\ a[l + i] = b.data[b.rpos + (l + i)]
    BY <1>2, <1>4, <1>5, <2>1
  <2> QED
    BY <2>1, <2>2
<1>8. x = y
  BY <1>4, <1>5, <1>6, <1>7, SeqEqual
<1> QED
  BY <1>8 DEF x, y, a

\* The buffer always has room: less than a packet is left in it when it is
\* handed to recv, so it is only compacted, and never enlarged nor found full.
LEMMA RoomForRecv ==
  ASSUME NEW b \in Readers, b.rpos <= Len(b.data), Len(Active(b)) < BufSize
  PROVE  /\ ForRecv(b) = [b EXCEPT !.data = Active(b), !.rpos = 0]
         /\ ForRecv(b) \in Readers /\ Active(ForRecv(b)) = Active(b)
         /\ Room(ForRecv(b)) \in Nat \ {0}
<1> DEFINE a == Active(b)
           c == [b EXCEPT !.data = a, !.rpos = 0]
<1>1. a \in Seq(Units) /\ Len(a) \in Nat /\ Len(a) < BufSize
  BY ActiveAt, LenProperties
<1> HIDE DEF a
<1>2. c \in Readers /\ c.data = a /\ c.rpos = 0 /\ c.size = b.size
  BY <1>1 DEF Readers
<1>3. b.size \in Nat /\ BufSize <= b.size
  BY LengthsAssumption DEF Readers
<1>4. Active(c) = a
  BY <1>1, <1>2, SubSeqFull DEF Active
<1>5. Room(c) \in Nat \ {0}
  BY <1>1, <1>2, <1>3, LengthsAssumption DEF Room
<1>6. CompactData(b) = c
  BY DEF CompactData, a
<1>7. ForRecv(b) = c
  BY <1>5, <1>6 DEF ForRecv, EnlargeBufferIfNeeded
<1> QED
  BY <1>2, <1>4, <1>5, <1>7 DEF a

------------------------------------------------------------------------------
(* States of the specification.                                            *)

LEMMA OtherSides ==
  \A s \in Sides : Other(s) \in Sides /\ Other(Other(s)) = s /\ Other(s) # s
  BY DEF Sides, Other

LEMMA Typed ==
  ASSUME TypeOK, NEW s \in Sides
  PROVE  /\ in[s] \in Readers /\ in[s].rpos <= Len(in[s].data)
         /\ Active(in[s]) \in Seq(Units) /\ stream[s] \in Seq(Units) /\ out[s] \in Seq(Units)
         /\ in[s].handled \in Seq(Nat) /\ Len(in[s].handled) \in Nat
         /\ made[s] \in Nat /\ made[s] <= MaxPackets /\ key[s] \in 1 .. 2 /\ iv[s] \in IVs
         /\ Waiting(s) \in Nat
<1>1. in[s] \in Readers /\ in[s].rpos <= Len(in[s].data)
  BY DEF TypeOK
<1>2. in[s].handled \in Seq(Nat)
  BY <1>1 DEF Readers
<1>3. stream[s] \in Seq(Units) /\ out[s] \in Seq(Units) /\ key[s] \in 1 .. 2 /\ iv[s] \in IVs
  BY DEF TypeOK
<1>4. made[s] \in Nat /\ made[s] <= MaxPackets
  BY LengthsAssumption DEF TypeOK
<1>5. Waiting(s) \in Nat
  BY LengthsAssumption DEF Waiting
<1>6. Len(in[s].handled) \in Nat
  BY <1>2, LenProperties
<1>7. Active(in[s]) \in Seq(Units)
  BY <1>1, ActiveAt
<1> QED
  BY <1>1, <1>2, <1>3, <1>4, <1>5, <1>6, <1>7

LEMMA PipeTyped ==
  ASSUME TypeOK, NEW s \in Sides
  PROVE  /\ Active(in[Other(s)]) \o stream[s] \in Seq(Units)
         /\ Pipe(s) \in Seq(Units)
<1>1. Active(in[Other(s)]) \in Seq(Units) /\ stream[s] \in Seq(Units) /\ out[s] \in Seq(Units)
  BY Typed, OtherSides
<1> DEFINE a == Active(in[Other(s)])
<1> HIDE DEF a
<1>2. a \o stream[s] \in Seq(Units)
  BY <1>1, ConcatAt DEF a
<1>3. (a \o stream[s]) \o out[s] \in Seq(Units)
  BY <1>1, <1>2, ConcatAt
<1> QED
  BY <1>2, <1>3 DEF a, Pipe

\* The packet at the front of what is active, as far as it has come.
LEMMA ActiveFront ==
  ASSUME WireInv, NEW s \in Sides, Up(s), Waiting(Other(s)) = 0, Active(in[s]) # <<>>
  PROVE  LET a == Active(in[s]) o == Other(s) IN
         /\ a[1].part = 1 /\ a[1].msg = Len(in[s].handled) + 1 /\ a[1].msg <= made[o]
         /\ a[1].len \in Lens /\ a[1] \in Units
         /\ \A j \in 1 .. a[1].len : j <= Len(a) => a[j] = [a[1] EXCEPT !.part = j]
         /\ relogin = "no" =>
              a[1].counter = a[1].msg - 1 /\ a[1].key = 1 /\ a[1].prefix \in Expect(o)
<1> DEFINE a == Active(in[s])
           o == Other(s)
           n == Len(in[s].handled) + 1
<1>0. TypeOK
  BY DEF WireInv
<1>1. /\ o \in Sides /\ Other(o) = s /\ a \in Seq(Units) /\ stream[o] \in Seq(Units)
      /\ out[o] \in Seq(Units) /\ n \in Nat /\ made[o] \in Nat /\ a \o stream[o] \in Seq(Units)
  BY <1>0, OtherSides, Typed, PipeTyped
<1>2. Framed(Pipe(o), 0, n, made[o])
  BY <1>1 DEF WireInv, PipeInv
<1>3. Pipe(o) = (a \o stream[o]) \o out[o]
  BY <1>1 DEF Pipe
<1>4. relogin = "no" => Sealed(Pipe(o), 0, Expect(o))
  BY <1>1 DEF WireInv, LoginInv
<1>5. 0 \in Nat
  OBVIOUS
<1> HIDE DEF a, o, n
<1>6. Framed(a, 0, n, made[o])
  <2>1. Framed(a \o stream[o], 0, n, made[o])
    BY <1>1, <1>2, <1>3, <1>5, CutFramed
  <2> QED
    BY <1>1, <1>5, <2>1, CutFramed
<1>7. relogin = "no" => Sealed(a, 0, Expect(o))
  <2> SUFFICES ASSUME relogin = "no"
               PROVE  Sealed(a, 0, Expect(o))
    OBVIOUS
  <2>1. Sealed(a \o stream[o], 0, Expect(o))
    BY <1>1, <1>3, <1>4, <1>5, CutSealed
  <2> QED
    BY <1>1, <1>5, <2>1, CutSealed
<1>8. a # <<>>
  BY DEF a
<1>9. /\ a[1].part = 1 /\ a[1].msg = n /\ n \in 1 .. made[o] /\ a[1].len \in Lens
      /\ \A j \in 1 .. a[1].len : j <= Len(a) => a[j] = [a[1] EXCEPT !.part = j]
  BY <1>1, <1>6, <1>8, FirstPacket
<1>10. 1 \in 1 .. Len(a) /\ 1 > 0
  BY <1>1, <1>8, EmptySeq
<1>11. a[1] \in Units
  BY <1>1, <1>10, UnitsAt
<1>12. relogin = "no" => a[1].counter = a[1].msg - 1 /\ a[1].key = 1 /\ a[1].prefix \in Expect(o)
  BY <1>7, <1>10 DEF Sealed
<1>13. a[1].msg <= made[o]
  BY <1>1, <1>9
<1> QED
  BY <1>9, <1>11, <1>12, <1>13 DEF a, o, n

\* What AESDecrypt says of it: without a second login it refuses nothing.
LEMMA Decrypted ==
  ASSUME WireInv, NEW s \in Sides, Up(s), Waiting(Other(s)) = 0
  PROVE  LET a == Active(in[s]) c == DecryptCode(s, in[s]) IN
         /\ c \in {"short", "malformed", "prefix", "counter", "tag", "ok"}
         /\ c = "short" => Len(a) < BufSize
         /\ c = "ok" => a # <<>> /\ a[1].len <= Len(a)
         /\ relogin = "no" => c \in {"short", "ok"}
<1> DEFINE a == Active(in[s])
           c == DecryptCode(s, in[s])
<1>0. TypeOK /\ a \in Seq(Units) /\ Len(a) \in Nat
  BY Typed, LenProperties DEF WireInv
<1>1. MaxPacket \in Nat /\ BufSize \in Nat /\ MaxPacket < BufSize
  BY LengthsAssumption
<1>2. CASE a = <<>>
  <2>1. c = "short"
    BY <1>2 DEF DecryptCode
  <2>2. Len(a) = 0
    BY <1>2, EmptySeq
  <2> HIDE DEF c
  <2> QED
    BY <1>1, <2>1, <2>2 DEF c
<1>3. CASE a # <<>>
  <2> DEFINE h == a[1]
  <2>1. /\ h.part = 1 /\ h.msg = Len(in[s].handled) + 1 /\ h.len \in Lens
        /\ \A j \in 1 .. h.len : j <= Len(a) => a[j] = [h EXCEPT !.part = j]
        /\ relogin = "no" => h.counter = h.msg - 1 /\ h.key = 1 /\ h.prefix \in Expect(Other(s))
    BY <1>3, ActiveFront
  <2>2. h.len \in Nat /\ h.len <= MaxPacket
    BY <2>1, LensAreNats
  <2>3. c = IF Len(a) < h.len THEN "short"
            ELSE IF s = "server" /\ in[s].prefix # 0 /\ h.prefix # in[s].prefix THEN "prefix"
            ELSE IF h.counter # in[s].expected THEN "counter"
            ELSE IF \E i \in 1 .. h.len : a[i] # [h EXCEPT !.part = i] \/ h.key # key[s] THEN "tag"
            ELSE "ok"
    <3>1. ~(h.part # 1 \/ h.len > MaxPacket)
      BY <1>1, <2>1, <2>2
    <3> QED
      BY <1>3, <3>1 DEF DecryptCode
  <2>4. ASSUME relogin = "no", ~(Len(a) < h.len)
        PROVE  c = "ok"
    <3>1. h.counter = in[s].expected
      <4>1. in[s].expected = Len(in[s].handled) /\ Len(in[s].handled) \in Nat
        BY <1>0, Typed DEF WireInv, HandledInv
      <4> QED
        BY <2>1, <2>4, <4>1
    <3>2. key[s] = 1
      BY <2>4 DEF WireInv, LoginInv
    <3>3. ~(s = "server" /\ in[s].prefix # 0 /\ h.prefix # in[s].prefix)
      <4>1. s = "server" => Expect(Other(s)) = {iv["client"].prefix}
        BY DEF Other, Expect
      <4>2. in["server"].prefix \in {0, iv["client"].prefix}
        BY <2>4 DEF WireInv, LoginInv
      <4> QED
        BY <2>1, <2>4, <4>1, <4>2
    <3>4. \A i \in 1 .. h.len : a[i] = [h EXCEPT !.part = i]
      <4>1. \A i \in 1 .. h.len : i <= Len(a)
        BY <1>0, <2>2, <2>4
      <4> QED
        BY <2>1, <4>1
    <3> HIDE DEF c
    <3> QED
      BY <2>1, <2>3, <2>4, <3>1, <3>2, <3>3, <3>4
  <2>5. c = "short" => Len(a) < h.len
    <3> HIDE DEF a, h, c
    <3> QED
      BY <2>3
  <2>6. Len(a) < h.len => c = "short" /\ Len(a) < BufSize
    <3>1. Len(a) < h.len => Len(a) < BufSize
      BY <1>0, <1>1, <2>2
    <3> HIDE DEF a, h, c
    <3> QED
      BY <2>3, <3>1
  <2>7. c \in {"short", "malformed", "prefix", "counter", "tag", "ok"}
    <3> HIDE DEF a, h, c
    <3> QED
      BY <2>3
  <2>8. ~(Len(a) < h.len) => h.len <= Len(a)
    BY <1>0, <2>2
  <2> HIDE DEF a, c
  <2> QED
    BY <1>3, <2>4, <2>5, <2>6, <2>7, <2>8 DEF a, c
<1> QED
  BY <1>2, <1>3

\* A turn of the loop ends it, refuses the packet, or consumes and handles it.
LEMMA Turn ==
  ASSUME WireInv, NEW s \in Sides, Up(s), Busy(s), Waiting(Other(s)) = 0
  PROVE  LET r == in[s] a == Active(r) b == LoopTurn(s, r) IN
         /\ b \in Readers /\ b.data = r.data /\ b.size = r.size /\ b.rpos <= Len(b.data)
         /\ \/ b = [r EXCEPT !.code = "ok"] /\ Len(a) < BufSize
            \/ /\ b = [r EXCEPT !.code = DecryptCode(s, r)] /\ relogin # "no"
               /\ b.code \notin {"ok", "busy"}
            \/ /\ b.code = "busy" /\ a # <<>> /\ a[1].len <= Len(a)
               /\ Active(b) = SubSeq(a, a[1].len + 1, Len(a))
               /\ b.handled = Append(r.handled, Len(r.handled) + 1)
               /\ Len(r.handled) + 1 <= made[Other(s)]
               /\ b.expected = r.expected + 1
               /\ b.prefix = IF s = "server" /\ r.prefix = 0 THEN a[1].prefix ELSE r.prefix
<1> DEFINE r == in[s]
           a == Active(r)
           b == LoopTurn(s, r)
           c == DecryptCode(s, r)
<1>0. TypeOK
  BY DEF WireInv
<1>1. /\ r \in Readers /\ r.rpos <= Len(r.data) /\ a \in Seq(Units) /\ Len(a) \in Nat
      /\ r.data \in Seq(Units) /\ Len(r.data) \in Nat
      /\ r.handled \in Seq(Nat) /\ Len(r.handled) \in Nat /\ r.code = "busy"
      /\ Len(a) = Len(r.data) - r.rpos /\ r.rpos \in Nat
  <2>1. r \in Readers /\ r.rpos <= Len(r.data) /\ r.handled \in Seq(Nat) /\ Len(r.handled) \in Nat
    BY <1>0, Typed
  <2>2. /\ r.data \in Seq(Units) /\ a \in Seq(Units) /\ Len(a) = Len(r.data) - r.rpos
        /\ r.rpos \in 0 .. Len(r.data)
    BY <2>1, ActiveAt
  <2>3. r.code = "busy"
    BY DEF Busy
  <2> QED
    BY <2>1, <2>2, <2>3, LenProperties
<1>2. /\ c \in {"short", "malformed", "prefix", "counter", "tag", "ok"}
      /\ c = "short" => Len(a) < BufSize
      /\ c = "ok" => a # <<>> /\ a[1].len <= Len(a)
      /\ relogin = "no" => c \in {"short", "ok"}
  BY Decrypted
<1>3. b = CASE c = "short" -> [r EXCEPT !.code = "ok"]
            [] c = "ok"    -> AfterPacket(s, r)
            [] OTHER       -> [r EXCEPT !.code = c]
  BY DEF LoopTurn
<1>4. CASE c = "short"
  <2> HIDE DEF r, a, c
  <2>1. b = [r EXCEPT !.code = "ok"]
    BY <1>3, <1>4
  <2>2. b \in Readers /\ b.data = r.data /\ b.size = r.size /\ b.rpos = r.rpos
    BY <1>1, <2>1 DEF Readers
  <2> QED
    BY <1>1, <1>2, <1>4, <2>1, <2>2 DEF r, a
<1>5. CASE c \notin {"short", "ok"}
  <2> HIDE DEF r, a, c
  <2>1. b = [r EXCEPT !.code = c]
    BY <1>3, <1>5
  <2>2. b \in Readers /\ b.data = r.data /\ b.size = r.size /\ b.rpos = r.rpos /\ b.code = c
    BY <1>1, <1>2, <1>5, <2>1 DEF Readers
  <2>3. c \notin {"ok", "busy"}
    BY <1>2, <1>5
  <2> QED
    BY <1>1, <1>2, <1>5, <2>1, <2>2, <2>3 DEF r, a, c
<1>6. CASE c = "ok"
  <2> DEFINE h == a[1]
  <2>1. /\ a # <<>> /\ h.len <= Len(a)
        /\ h.msg = Len(r.handled) + 1 /\ h.msg <= made[Other(s)] /\ h.len \in Lens /\ h \in Units
    BY <1>2, <1>6, ActiveFront
  <2>2. h.len \in Nat
    BY <2>1, LensAreNats
  <2> HIDE DEF c, b
  <2>3. b = [r EXCEPT !.rpos = @ + h.len, !.expected = @ + 1, !.handled = Append(@, h.msg),
                      !.prefix = IF s = "server" /\ @ = 0 THEN h.prefix ELSE @]
    BY <1>3, <1>6 DEF AfterPacket
  <2>4. SubSeq(r.data, r.rpos + h.len + 1, Len(r.data)) = SubSeq(a, h.len + 1, Len(a))
    <3>1. h.len \in 0 .. Len(a)
      BY <1>1, <2>1, <2>2
    <3> QED
      BY <1>1, <3>1, ActiveSkipped
  <2> HIDE DEF r, a, h
  <2>5. Append(r.handled, h.msg) \in Seq(Nat)
    <3>1. h.msg \in Nat
      BY <1>1, <2>1
    <3> QED
      BY <1>1, <3>1, AppendProperties
  <2>6. /\ b \in Readers /\ b.data = r.data /\ b.size = r.size /\ b.rpos = r.rpos + h.len
        /\ b.code = "busy" /\ b.handled = Append(r.handled, h.msg) /\ b.expected = r.expected + 1
        /\ b.prefix = IF s = "server" /\ r.prefix = 0 THEN h.prefix ELSE r.prefix
    <3> DEFINE x == IF s = "server" /\ r.prefix = 0 THEN h.prefix ELSE r.prefix
               y == Append(r.handled, h.msg)
    <3>1. x \in {0} \cup Prefixes
      BY <1>1, <2>1 DEF Units, Readers
    <3>2. b = [r EXCEPT !.rpos = @ + h.len, !.expected = @ + 1, !.handled = y, !.prefix = x]
      BY <2>3
    <3>3. y \in Seq(Nat) /\ r.rpos + h.len \in Nat
      BY <1>1, <2>2, <2>5
    <3> HIDE DEF x, y
    <3>4. /\ b.data = r.data /\ b.size = r.size /\ b.rpos = r.rpos + h.len
          /\ b.code = "busy" /\ b.handled = y /\ b.expected = r.expected + 1 /\ b.prefix = x
      BY <1>1, <3>2 DEF Readers
    <3>5. b \in Readers
      <4>1. b = [data |-> r.data, rpos |-> r.rpos + h.len, size |-> r.size,
                 expected |-> r.expected + 1, prefix |-> x, handled |-> y, code |-> r.code]
        BY <1>1, <3>2 DEF Readers
      <4>2. r.expected + 1 \in Nat /\ r.size \in BufSize .. BufMax
        BY <1>1 DEF Readers
      <4> QED
        BY <1>1, <3>1, <3>3, <4>1, <4>2 DEF Readers
    <3> QED
      BY <3>4, <3>5 DEF x, y
  <2>7. b.rpos <= Len(b.data)
    BY <1>1, <2>1, <2>2, <2>6
  <2>8. Active(b) = SubSeq(a, h.len + 1, Len(a))
    BY <2>4, <2>6 DEF Active
  <2> QED
    BY <2>1, <2>6, <2>7, <2>8 DEF r, a, b, h
<1> QED
  BY <1>2, <1>4, <1>5, <1>6

\* The pipe after the packet at the front is consumed.
LEMMA TurnPipe ==
  ASSUME WireInv, NEW s \in Sides, Up(s), Waiting(Other(s)) = 0,
         Active(in[s]) # <<>>, Active(in[s])[1].len <= Len(Active(in[s]))
  PROVE  LET a == Active(in[s])
             o == Other(s)
             q == (SubSeq(a, a[1].len + 1, Len(a)) \o stream[o]) \o out[o]
         IN
         /\ Framed(q, 0, Len(in[s].handled) + 2, made[o])
         /\ Up(o) => Whole(q, 0, Len(in[s].handled) + 2, made[o])
         /\ relogin = "no" => Sealed(q, 0, Expect(o))
<1> DEFINE a == Active(in[s])
           o == Other(s)
           n == Len(in[s].handled) + 1
           l == a[1].len
           p == Pipe(o)
           x == a \o stream[o]
           q == (SubSeq(a, l + 1, Len(a)) \o stream[o]) \o out[o]
<1>0. TypeOK
  BY DEF WireInv
<1>1. /\ o \in Sides /\ Other(o) = s /\ a \in Seq(Units) /\ stream[o] \in Seq(Units)
      /\ out[o] \in Seq(Units) /\ n \in Nat /\ made[o] \in Nat /\ x \in Seq(Units)
      /\ p \in Seq(Units)
  BY <1>0, OtherSides, Typed, PipeTyped
<1>2. /\ Framed(p, 0, n, made[o])
      /\ Up(o) => Whole(p, 0, n, made[o])
  BY <1>1 DEF WireInv, PipeInv
<1>3. p = x \o out[o]
  BY <1>1 DEF Pipe
<1>4. relogin = "no" => Sealed(p, 0, Expect(o))
  BY <1>1 DEF WireInv, LoginInv
<1>5. n \in Nat /\ n + 1 = Len(in[s].handled) + 2
  BY <1>0, Typed
<1>6. l \in Lens /\ l \in Nat /\ a # <<>> /\ l <= Len(a)
  BY ActiveFront, LensAreNats
<1> HIDE DEF a, o, n, p
<1>7. /\ Len(a) \in Nat /\ Len(a) > 0 /\ 1 \in 1 .. Len(a)
      /\ Len(stream[o]) \in Nat /\ Len(out[o]) \in Nat
  BY <1>1, <1>6, EmptySeq, LenProperties
<1>8. Len(x) = Len(a) + Len(stream[o]) /\ x[1] = a[1]
  BY <1>1, <1>7, ConcatAt
<1> HIDE DEF x
<1>14. Len(p) = Len(x) + Len(out[o]) /\ p[1] = x[1]
  <2>1. 1 \in 1 .. Len(x)
    BY <1>7, <1>8
  <2> QED
    BY <1>1, <1>3, <2>1, ConcatAt
<1>9. l \in 0 .. Len(a)
  BY <1>6, <1>7
<1>10. l \in 0 .. Len(p) /\ q = SubSeq(p, l + 1, Len(p))
  <2> HIDE DEF l
  <2>1. SubSeq(a, l + 1, Len(a)) \o stream[o] = SubSeq(x, l + 1, Len(x))
    BY <1>1, <1>9, RestOfConcat DEF x
  <2>2. Len(a) <= Len(x) /\ Len(x) <= Len(p) /\ Len(x) \in Nat /\ Len(p) \in Nat
    <3>1. Len(a) <= Len(x)
      BY <1>7, <1>8, SumIsLonger, Zenon
    <3>2. Len(x) \in Nat /\ Len(p) \in Nat
      BY <1>1, LenProperties
    <3>3. Len(x) <= Len(p)
      BY <1>7, <1>14, <3>2, SumIsLonger, Zenon
    <3> QED
      BY <3>1, <3>2, <3>3
  <2>3. l \in 0 .. Len(x) /\ l \in 0 .. Len(p)
    BY <1>7, <1>9, <2>2
  <2>4. SubSeq(x, l + 1, Len(x)) \o out[o] = SubSeq(x \o out[o], l + 1, Len(x \o out[o]))
    BY <1>1, <2>3, RestOfConcat
  <2> QED
    BY <1>3, <2>1, <2>3, <2>4
<1>15. l <= Len(p) /\ p # <<>>
  <2> HIDE DEF l
  <2>1. l \in Nat /\ 2 <= l /\ Len(p) \in Nat /\ Len(<<>>) = 0
    BY <1>1, <1>6, LensAreNats, LenProperties, EmptySeq
  <2> QED
    BY <1>10, <2>1
<1>11. p[1].len = l
  BY <1>8, <1>14
<1> HIDE DEF l, q
<1>12. Framed(q, 0, n + 1, made[o]) /\ (Whole(p, 0, n, made[o]) => Whole(q, 0, n + 1, made[o]))
  <2>1. p[1].len <= Len(p)
    BY <1>11, <1>15
  <2>2. LET r == SubSeq(p, p[1].len + 1, Len(p)) IN
        Framed(r, 0, n + 1, made[o]) /\ (Whole(p, 0, n, made[o]) => Whole(r, 0, n + 1, made[o]))
    BY <1>1, <1>2, <1>15, <2>1, PacketDone
  <2> QED
    BY <1>10, <1>11, <2>2
<1>13. relogin = "no" => Sealed(q, 0, Expect(o))
  <2> SUFFICES ASSUME relogin = "no"
               PROVE  Sealed(q, 0, Expect(o))
    OBVIOUS
  <2>1. 0 \in Nat /\ l \in 0 .. Len(p) /\ 0 <= l
    BY <1>6, <1>10
  <2>2. Sealed(SubSeq(p, l + 1, Len(p)), 0, Expect(o))
    BY <1>1, <1>4, <2>1, RestSealed
  <2> QED
    BY <1>10, <2>2
<1> QED
  BY <1>2, <1>5, <1>12, <1>13 DEF a, o, n, l, q

------------------------------------------------------------------------------
(* What a step may do to what one side sends the other.                    *)

Flow(s) == PipeInv(s) /\ (relogin = "no" => Sealed(Pipe(s), Waiting(s), Expect(s)))

LEMMA Flows ==
  ASSUME WireInv, NEW s \in Sides, Up(Other(s))
  PROVE  Flow(s)
  BY DEF WireInv, LoginInv, Flow

\* It is moved on, and nothing is added or taken.
LEMMA KeepFlow ==
  ASSUME NEW s \in Sides, Flow(s), Pipe(s)' = Pipe(s), Waiting(s)' = Waiting(s),
         in'[Other(s)].handled = in[Other(s)].handled, made'[s] = made[s], Up(s)' => Up(s),
         relogin' = "no" => /\ relogin = "no"
                            /\ s = "client" => iv'["client"].prefix = iv["client"].prefix
  PROVE  Flow(s)'
<1>1. PipeInv(s)'
  BY DEF Flow, PipeInv
<1>2. relogin' = "no" => Expect(s)' = Expect(s)
  BY DEF Expect
<1>3. relogin' = "no" => Sealed(Pipe(s)', Waiting(s)', Expect(s)')
  BY <1>2 DEF Flow
<1> QED
  BY <1>1, <1>3 DEF Flow

LEMMA SamePipe ==
  ASSUME NEW s \in Sides, Active(in'[Other(s)]) = Active(in[Other(s)]),
         stream'[s] = stream[s], out'[s] = out[s]
  PROVE  Pipe(s)' = Pipe(s)
  BY DEF Pipe

\* The side that sends stops, and its queue is lost.
LEMMA CutFlow ==
  ASSUME TypeOK, NEW s \in Sides, Flow(s), Active(in'[Other(s)]) = Active(in[Other(s)]),
         stream'[s] = stream[s], out'[s] = <<>>, Waiting(s)' = Waiting(s),
         in'[Other(s)].handled = in[Other(s)].handled, made'[s] = made[s], ~Up(s)',
         relogin' = "no" => relogin = "no" /\ iv'["client"].prefix = iv["client"].prefix
  PROVE  Flow(s)'
<1> DEFINE p == Active(in[Other(s)]) \o stream[s]
           n == Len(in[Other(s)].handled) + 1
<1>1. /\ p \in Seq(Units) /\ out[s] \in Seq(Units) /\ Waiting(s) \in Nat /\ n \in Nat /\ made[s] \in Nat
  BY OtherSides, Typed, PipeTyped
<1>2. Framed(p \o out[s], Waiting(s), n, made[s])
  BY DEF Flow, PipeInv, Pipe
<1>3. Pipe(s)' = p \o <<>>
  BY DEF Pipe
<1>4. relogin' = "no" => Sealed(p \o out[s], Waiting(s), Expect(s)) /\ Expect(s)' = Expect(s)
  BY DEF Flow, Pipe, Expect
<1>9. PipeInv(s)' <=> Framed(Pipe(s)', Waiting(s), n, made[s])
  BY DEF PipeInv
<1> HIDE DEF p, n
<1>5. p \o <<>> = p
  BY <1>1, ConcatEmptySeq
<1>6. Framed(p, Waiting(s), n, made[s])
  BY <1>1, <1>2, CutFramed
<1>7. relogin' = "no" => Sealed(p, Waiting(s), Expect(s))
  <2> SUFFICES ASSUME relogin' = "no"
               PROVE  Sealed(p, Waiting(s), Expect(s))
    OBVIOUS
  <2> QED
    BY <1>1, <1>4, CutSealed
<1>8. PipeInv(s)'
  BY <1>3, <1>5, <1>6, <1>9
<1> QED
  BY <1>3, <1>4, <1>5, <1>7, <1>8 DEF Flow

\* A step that encrypts and handles nothing.
LEMMA QuietStep ==
  ASSUME WireInv, TypeOK', StatusInv', UNCHANGED <<iv, key, made, used, relogin>>,
         \A s \in Sides : /\ in'[s].handled = in[s].handled /\ in'[s].expected = in[s].expected
                          /\ in'[s].prefix = in[s].prefix
                          /\ relogin = "no" => in'[s].code \in {"ok", "busy"},
         server' = "authed" => server = "authed",
         \A s \in Sides : Up(Other(s))' => Flow(s)'
  PROVE  WireInv'
<1>1. HandledInv'
  BY DEF WireInv, HandledInv
<1>2. \A s \in Sides : Up(Other(s))' => PipeInv(s)'
  BY DEF Flow
<1>3. ASSUME relogin' = "no"
      PROVE  LoginInv'
  <2>1. LoginInv /\ relogin = "no"
    BY <1>3 DEF WireInv
  <2>2. \A s \in Sides : Up(Other(s))' => Sealed(Pipe(s)', Waiting(s)', Expect(s)')
    BY <1>3 DEF Flow
  <2>3. \A s \in Sides : key'[s] = 1 /\ iv'[s].counter = made'[s] /\ in'[s].code \in {"ok", "busy"}
    BY <2>1 DEF LoginInv
  <2>4. /\ in'["server"].prefix \in {0, iv'["client"].prefix}
        /\ server' = "authed" \/ made'["server"] > 0 => iv'["client"].prefix # iv'["server"].prefix
    BY <2>1 DEF LoginInv, Sides
  <2>5. /\ \A i \in 1 .. Len(used') :
             \E s \in Sides : used'[i].prefix = iv'[s].prefix /\ used'[i].counter < made'[s]
        /\ \A i, j \in 1 .. Len(used') : i # j => used'[i] # used'[j]
    BY <2>1 DEF LoginInv
  <2> QED
    BY <2>2, <2>3, <2>4, <2>5 DEF LoginInv
<1> QED
  BY <1>1, <1>2, <1>3 DEF WireInv

------------------------------------------------------------------------------
(* The steps.                                                              *)

\* The server's end of the connection closes, at whatever it does.
LEMMA CloseKeeps ==
  ASSUME WireInv, CloseSocket, UNCHANGED <<client, armed, stream, iv, key, made, used, relogin>>,
         in'["client"] = in["client"], in'["server"] \in Readers, in' \in [Sides -> Readers],
         in'["server"].data = in["server"].data, in'["server"].size = in["server"].size,
         in'["server"].rpos <= Len(in["server"].data),
         in'["server"].handled = in["server"].handled,
         in'["server"].expected = in["server"].expected,
         in'["server"].prefix = in["server"].prefix,
         relogin = "no" => in'["server"].code \in {"ok", "busy"}
  PROVE  WireInv'
<1>0. TypeOK /\ StatusInv
  BY DEF WireInv
<1>1. /\ server' = "closed" /\ reading' = FALSE /\ writing' = FALSE
      /\ out' = [out EXCEPT !["server"] = <<>>]
  BY DEF CloseSocket
<1>2. /\ out'["server"] = <<>> /\ out'["client"] = out["client"] /\ out' \in [Sides -> Seq(Units)]
  BY <1>0, <1>1, EmptySeq DEF TypeOK, Sides
<1>3. TypeOK'
  BY <1>0, <1>1, <1>2 DEF TypeOK, Sides
<1>4. ~Up("server")' /\ (Up("client")' <=> Up("client"))
  BY <1>1 DEF Up
<1>5. StatusInv'
  BY <1>0, <1>1, <1>2, <1>4 DEF StatusInv, Sides, Busy, Up
<1>6. ASSUME NEW s \in Sides, Up(Other(s))'
      PROVE  Flow(s)'
  <2>1. s = "server" /\ Other(s) = "client" /\ Up("client")
    BY <1>4, <1>6 DEF Sides, Other
  <2>2. Flow(s)
    BY <2>1, Flows
  <2>3. Waiting(s)' = Waiting(s)
    BY <2>1 DEF Waiting
  <2> QED
    BY <1>0, <1>1, <1>2, <1>4, <2>1, <2>2, <2>3, CutFlow
<1>7. \A s \in Sides : /\ in'[s].handled = in[s].handled /\ in'[s].expected = in[s].expected
                       /\ in'[s].prefix = in[s].prefix
                       /\ relogin = "no" => in'[s].code \in {"ok", "busy"}
  BY DEF WireInv, LoginInv, Sides
<1> QED
  BY <1>1, <1>3, <1>5, <1>6, <1>7, QuietStep

\* The client's end of the connection closes.
LEMMA DisconnectKeeps ==
  ASSUME WireInv, OnDisconnect,
         UNCHANGED <<server, writing, reading, stream, iv, key, made, used, relogin>>,
         in'["server"] = in["server"], in'["client"] \in Readers, in' \in [Sides -> Readers],
         in'["client"].data = in["client"].data, in'["client"].size = in["client"].size,
         in'["client"].rpos <= Len(in["client"].data),
         in'["client"].handled = in["client"].handled,
         in'["client"].expected = in["client"].expected,
         in'["client"].prefix = in["client"].prefix,
         relogin = "no" => in'["client"].code \in {"ok", "busy"}
  PROVE  WireInv'
<1>0. TypeOK /\ StatusInv
  BY DEF WireInv
<1>1. client' = "gone" /\ armed' = FALSE /\ out' = [out EXCEPT !["client"] = <<>>]
  BY DEF OnDisconnect
<1>2. /\ out'["client"] = <<>> /\ out'["server"] = out["server"] /\ out' \in [Sides -> Seq(Units)]
  BY <1>0, <1>1, EmptySeq DEF TypeOK, Sides
<1>3. TypeOK'
  BY <1>0, <1>1, <1>2 DEF TypeOK, Sides
<1>4. ~Up("client")' /\ (Up("server")' <=> Up("server"))
  BY <1>1 DEF Up
<1>5. StatusInv'
  BY <1>0, <1>1, <1>2, <1>4 DEF StatusInv, Sides, Busy, Up
<1>6. ASSUME NEW s \in Sides, Up(Other(s))'
      PROVE  Flow(s)'
  <2>1. s = "client" /\ Other(s) = "server" /\ Up("server")
    BY <1>4, <1>6 DEF Sides, Other
  <2>2. Flow(s)
    BY <2>1, Flows
  <2>3. Waiting(s)' = Waiting(s)
    BY DEF Waiting
  <2> QED
    BY <1>0, <1>1, <1>2, <1>4, <2>1, <2>2, <2>3, CutFlow
<1>7. \A s \in Sides : /\ in'[s].handled = in[s].handled /\ in'[s].expected = in[s].expected
                       /\ in'[s].prefix = in[s].prefix
                       /\ relogin = "no" => in'[s].code \in {"ok", "busy"}
  BY DEF WireInv, LoginInv, Sides
<1> QED
  BY <1>1, <1>3, <1>5, <1>6, <1>7, QuietStep

LEMMA QuitKeeps ==
  ASSUME WireInv, Quit
  PROVE  WireInv'
<1>1. in["client"] \in Readers /\ in["client"].rpos <= Len(in["client"].data) /\ in \in [Sides -> Readers]
  BY DEF WireInv, TypeOK, Sides
<1>2. relogin = "no" => in["client"].code \in {"ok", "busy"}
  BY DEF WireInv, LoginInv, Sides
<1> QED
  BY <1>1, <1>2, DisconnectKeeps DEF Quit

LEMMA DropKeeps ==
  ASSUME WireInv, Drop
  PROVE  WireInv'
<1>1. in["server"] \in Readers /\ in["server"].rpos <= Len(in["server"].data) /\ in \in [Sides -> Readers]
  BY DEF WireInv, TypeOK, Sides
<1>2. relogin = "no" => in["server"].code \in {"ok", "busy"}
  BY DEF WireInv, LoginInv, Sides
<1> QED
  BY <1>1, <1>2, CloseKeeps DEF Drop

\* Another login of the client's AuthManager, which LoginInv says nothing of.
LEMMA LoginKeeps ==
  ASSUME WireInv, SendLoginProof \/ LoginProofResponse
  PROVE  WireInv'
<1>0. TypeOK /\ StatusInv /\ HandledInv
  BY DEF WireInv
<1>1. /\ UNCHANGED <<client, server, out, armed, writing, reading, stream, in, made, used>>
      /\ relogin' \in {"sent", "done"}
  BY DEF SendLoginProof, LoginProofResponse
<1>2. iv' \in [Sides -> IVs] /\ key' \in [Sides -> 1 .. 2]
  <2>1. CASE SendLoginProof
    <3>1. PICK p \in Prefixes : iv' = [iv EXCEPT !["client"] = [prefix |-> p, counter |-> 0]]
      BY <2>1 DEF SendLoginProof
    <3>2. [prefix |-> p, counter |-> 0] \in IVs
      BY DEF IVs
    <3> QED
      BY <1>0, <2>1, <3>1, <3>2 DEF SendLoginProof, TypeOK
  <2>2. CASE LoginProofResponse
    <3>1. iv' = iv /\ key' = [key EXCEPT !["client"] = 2] /\ 2 \in 1 .. 2
      BY <2>2 DEF LoginProofResponse
    <3>2. iv \in [Sides -> IVs] /\ key \in [Sides -> 1 .. 2]
      BY <1>0 DEF TypeOK
    <3> QED
      BY <3>1, <3>2
  <2> QED
    BY <2>1, <2>2
<1>3. TypeOK'
  BY <1>0, <1>1, <1>2 DEF TypeOK
<1>4. StatusInv' /\ HandledInv'
  BY <1>0, <1>1 DEF StatusInv, HandledInv, Busy, Up
<1>5. ASSUME NEW s \in Sides, Up(Other(s))'
      PROVE  PipeInv(s)'
  <2>1. Up(Other(s)) /\ (Up(s)' => Up(s))
    BY <1>1, <1>5 DEF Up
  <2>2. Pipe(s)' = Pipe(s) /\ Waiting(s)' = Waiting(s)
    BY <1>1 DEF Pipe, Waiting
  <2>3. Flow(s)
    BY <2>1, Flows
  <2>4. Flow(s)'
    BY <1>1, <2>1, <2>2, <2>3, KeepFlow
  <2> QED
    BY <2>4 DEF Flow
<1> QED
  BY <1>1, <1>3, <1>4, <1>5 DEF WireInv

\* A side queues its next packet.
LEMMA AddFlow ==
  ASSUME TypeOK, NEW s \in Sides, Up(s), Waiting(s) = 0, Flow(s),
         relogin = "no" => LoginInv,
         made[s] < MaxPackets, NEW l \in Lens,
         UNCHANGED <<in, stream, relogin>>, Waiting(s)' = Waiting(s),
         out'[s] = out[s] \o AESEncrypt(made[s] + 1, l, iv[s], key[s]), made'[s] = made[s] + 1,
         iv'["client"].prefix = iv["client"].prefix
  PROVE  Flow(s)'
<1> DEFINE E == AESEncrypt(made[s] + 1, l, iv[s], key[s])
           p == Active(in[Other(s)]) \o stream[s]
           n == Len(in[Other(s)].handled) + 1
           m == made[s]
<1>1. /\ p \in Seq(Units) /\ out[s] \in Seq(Units) /\ n \in Nat /\ m \in Nat
      /\ Pipe(s) \in Seq(Units) /\ iv[s] \in IVs /\ key[s] \in 1 .. 2
  BY OtherSides, Typed, PipeTyped
<1>2. E \in Seq(Units)
  BY <1>1, EncryptedPacket
<1>3. Pipe(s) = p \o out[s] /\ Pipe(s)' = p \o (out[s] \o E)
  BY DEF Pipe
<1>4. Framed(Pipe(s), 0, n, m) /\ Whole(Pipe(s), 0, n, m)
  BY DEF Flow, PipeInv
<1>5. PipeInv(s)' <=> Framed(Pipe(s)', 0, n, m + 1) /\ (Up(s)' => Whole(Pipe(s)', 0, n, m + 1))
  BY DEF PipeInv
<1> HIDE DEF p, n
<1>6. Pipe(s)' = Pipe(s) \o E
  <2>1. E \in Seq(Units) /\ p \in Seq(Units) /\ out[s] \in Seq(Units)
    BY <1>1, <1>2
  <2> HIDE DEF E
  <2>2. (p \o out[s]) \o E = p \o (out[s] \o E)
    BY <2>1, Regroup
  <2> QED
    BY <1>3, <2>2
<1>7. Framed(Pipe(s) \o E, 0, n, m + 1) /\ Whole(Pipe(s) \o E, 0, n, m + 1)
  <2>1. 0 \in 0 .. Len(Pipe(s))
    BY <1>1, LenProperties
  <2>2. Len(E) = l
    BY <1>1, EncryptedPacket
  <2>3. \A i \in 1 .. l : E[i].msg = m + 1 /\ E[i].part = i /\ E[i].len = l
    BY <1>1, EncryptedPacket
  <2>4. \A i, j \in 1 .. l : E[j] = [E[i] EXCEPT !.part = j]
    BY EncryptedParts
  <2> HIDE DEF E, m
  <2>5. IsPacket(E, l, m + 1)
    BY <2>2, <2>3, <2>4 DEF IsPacket
  <2>6. Pipe(s) \in Seq(Units) /\ n \in Nat /\ m \in Nat /\ E \in Seq(Units)
    BY <1>1, <1>2
  <2> DEFINE w == Pipe(s)
  <2> HIDE DEF w
  <2>7. w \in Seq(Units) /\ 0 \in 0 .. Len(w) /\ Framed(w, 0, n, m) /\ Whole(w, 0, n, m)
    BY <1>4, <2>1, <2>6 DEF w
  <2>8. Framed(w \o E, 0, n, m + 1) /\ Whole(w \o E, 0, n, m + 1)
    BY <2>5, <2>6, <2>7, AddPacket
  <2> QED
    BY <2>8 DEF w
<1>8. ASSUME relogin = "no"
      PROVE  Sealed(Pipe(s) \o E, 0, Expect(s))
  <2>1. key[s] = 1 /\ iv[s].counter = made[s] /\ Sealed(Pipe(s), 0, Expect(s))
    BY <1>8 DEF LoginInv, Flow
  <2>2. iv[s].prefix \in Expect(s)
    BY <1>1 DEF Expect, Sides, IVs
  <2>3. 0 \in Nat
    OBVIOUS
  <2> QED
    BY <1>1, <2>1, <2>2, <2>3, AddSealed
<1>9. Expect(s)' = Expect(s)
  BY DEF Expect
<1> HIDE DEF E
<1> QED
  BY <1>5, <1>6, <1>7, <1>8, <1>9 DEF Flow

\* Its IV is new.
LEMMA AddIV ==
  ASSUME TypeOK, LoginInv, NEW s \in Sides,
         iv["client"].prefix # iv["server"].prefix,
         used' = Append(used, iv[s]), made' = [made EXCEPT ![s] = @ + 1],
         iv' = [iv EXCEPT ![s] = IncrementCounter(@)]
  PROVE  /\ \A i \in 1 .. Len(used') :
              \E x \in Sides : used'[i].prefix = iv'[x].prefix /\ used'[i].counter < made'[x]
         /\ \A i, j \in 1 .. Len(used') : i # j => used'[i] # used'[j]
<1>1. /\ used \in Seq(IVs) /\ Len(used) \in Nat
      /\ \A x \in Sides : iv[x] \in IVs /\ made[x] \in Nat /\ iv[x].counter = made[x]
  <2>1. used \in Seq(IVs)
    BY DEF TypeOK
  <2>2. \A x \in Sides : iv[x] \in IVs /\ made[x] \in Nat /\ iv[x].counter = made[x]
    BY Typed DEF LoginInv
  <2> QED
    BY <2>1, <2>2, LenProperties
<1>2. /\ Len(used') = Len(used) + 1 /\ used'[Len(used) + 1] = iv[s]
      /\ \A i \in 1 .. Len(used) : used'[i] = used[i]
  <2>1. iv[s] \in IVs
    BY <1>1
  <2> QED
    BY <1>1, <2>1, AppendProperties
<1>3. \A x \in Sides : iv'[x].prefix = iv[x].prefix /\ made'[x] >= made[x]
  BY <1>1 DEF IncrementCounter, IVs, TypeOK
<1>4. made'[s] = made[s] + 1
  BY DEF TypeOK
<1>5. ASSUME NEW i \in 1 .. Len(used')
      PROVE  \E x \in Sides : used'[i].prefix = iv'[x].prefix /\ used'[i].counter < made'[x]
  <2>1. CASE i = Len(used) + 1
    BY <1>1, <1>2, <1>3, <1>4, <2>1
  <2>2. CASE i # Len(used) + 1
    <3>1. i \in 1 .. Len(used)
      BY <1>1, <1>2, <2>2
    <3>2. PICK x \in Sides : used[i].prefix = iv[x].prefix /\ used[i].counter < made[x]
      BY <3>1 DEF LoginInv
    <3>3. used[i].counter \in Nat /\ made'[x] \in Nat
      <4>1. used[i] \in IVs
        BY <1>1, <3>1, ElementOfSeq
      <4>2. made'[x] \in Nat
        BY <1>1 DEF TypeOK
      <4> QED
        BY <4>1, <4>2 DEF IVs
    <3>4. used'[i].prefix = iv'[x].prefix /\ used'[i].counter < made'[x]
      BY <1>1, <1>2, <1>3, <3>1, <3>2, <3>3
    <3> QED
      BY <3>4
  <2> QED
    BY <2>1, <2>2
<1>6. ASSUME NEW i \in 1 .. Len(used)
      PROVE  used[i] # iv[s]
  <2>1. PICK x \in Sides : used[i].prefix = iv[x].prefix /\ used[i].counter < made[x]
    BY <1>6 DEF LoginInv
  <2>2. CASE x = s
    BY <1>1, <2>1, <2>2
  <2>3. CASE x # s
    BY <2>1, <2>3 DEF Sides
  <2> QED
    BY <2>2, <2>3
<1>7. ASSUME NEW i \in 1 .. Len(used'), NEW j \in 1 .. Len(used'), i # j
      PROVE  used'[i] # used'[j]
  <2>1. \A k \in 1 .. Len(used') : k \in 1 .. Len(used) \/ k = Len(used) + 1
    BY <1>1, <1>2
  <2>2. CASE i \in 1 .. Len(used) /\ j \in 1 .. Len(used)
    BY <1>2, <1>7, <2>2 DEF LoginInv
  <2>3. CASE i = Len(used) + 1 \/ j = Len(used) + 1
    BY <1>2, <1>6, <1>7, <2>1, <2>3
  <2> QED
    BY <2>1, <2>2, <2>3
<1> QED
  BY <1>5, <1>7

\* A side that is up encrypts and queues a packet.
LEMMA QueueKeeps ==
  ASSUME WireInv, StatusInv', NEW s \in Sides, Up(s), Waiting("client") = 0,
         relogin = "no" => iv["client"].prefix # iv["server"].prefix,
         made[s] < MaxPackets, NEW l \in Lens,
         UNCHANGED <<client, server, reading, stream, in, key, relogin>>,
         armed' \in BOOLEAN, writing' \in BOOLEAN,
         out' = [out EXCEPT ![s] = @ \o AESEncrypt(made[s] + 1, l, iv[s], key[s])],
         Encrypted(s, l, iv[s]),
         iv' = [iv EXCEPT ![s] = IncrementCounter(@)]
  PROVE  WireInv'
<1> DEFINE E == AESEncrypt(made[s] + 1, l, iv[s], key[s])
<1>0. TypeOK /\ StatusInv /\ HandledInv
  BY DEF WireInv
<1>1. /\ out[s] \in Seq(Units) /\ made[s] \in Nat /\ iv[s] \in IVs /\ key[s] \in 1 .. 2
      /\ used \in Seq(IVs) /\ MaxPackets \in Nat
  BY <1>0, Typed, LengthsAssumption DEF TypeOK
<1>2. E \in Seq(Units)
  BY <1>1, EncryptedPacket
<1> HIDE DEF E
<1>3. out[s] \o E \in Seq(Units)
  BY <1>1, <1>2, ConcatAt
<1>4. /\ out' = [out EXCEPT ![s] = out[s] \o E] /\ out' \in [Sides -> Seq(Units)]
      /\ out'[s] = out[s] \o E /\ \A x \in Sides : x # s => out'[x] = out[x]
  BY <1>0, <1>3 DEF TypeOK, E
<1>5. made' = [made EXCEPT ![s] = @ + 1] /\ used' = Append(used, iv[s])
  BY DEF Encrypted
<1>6. /\ made' \in [Sides -> 0 .. MaxPackets] /\ made'[s] = made[s] + 1
      /\ \A x \in Sides : x # s => made'[x] = made[x]
  BY <1>0, <1>1, <1>5 DEF TypeOK
<1>7. IncrementCounter(iv[s]) \in IVs /\ IncrementCounter(iv[s]).prefix = iv[s].prefix
      /\ IncrementCounter(iv[s]).counter = iv[s].counter + 1
  BY <1>1 DEF IncrementCounter, IVs
<1>8. /\ iv' \in [Sides -> IVs]
      /\ \A x \in Sides : iv'[x].prefix = iv[x].prefix
      /\ \A x \in Sides : iv'[x].counter = IF x = s THEN iv[x].counter + 1 ELSE iv[x].counter
  <2>1. iv \in [Sides -> IVs] /\ iv' = [iv EXCEPT ![s] = IncrementCounter(iv[s])]
    BY <1>0 DEF TypeOK
  <2> QED
    BY <1>7, <2>1
<1>9. used' \in Seq(IVs)
  BY <1>1, <1>5, AppendProperties
<1>10. TypeOK'
  BY <1>0, <1>4, <1>6, <1>8, <1>9 DEF TypeOK
<1>11. HandledInv'
  <2>1. \A x \in Sides : /\ made[x] \in Nat /\ made'[x] \in Nat /\ made[x] <= made'[x]
                         /\ Len(in[x].handled) \in Nat /\ Other(x) \in Sides
    BY <1>0, <1>6, Typed, OtherSides
  <2>2. \A x \in Sides : Len(in'[x].handled) <= made'[Other(x)]
    BY <1>0, <2>1 DEF HandledInv
  <2> QED
    BY <1>0, <2>2 DEF HandledInv
<1>12. \A x \in Sides : (Up(x)' <=> Up(x)) /\ Waiting(x)' = Waiting(x)
  BY DEF Up, Waiting
<1>13. iv'["client"].prefix = iv["client"].prefix
  BY <1>8 DEF Sides
<1>14. ASSUME NEW x \in Sides, Up(Other(x))'
       PROVE  Flow(x)'
  <2>1. Flow(x) /\ Up(Other(x))
    BY <1>12, <1>14, Flows, OtherSides
  <2>2. CASE x = s
    <3>1. Waiting(s) = 0
      BY DEF Waiting
    <3>2. relogin = "no" => LoginInv
      BY DEF WireInv
    <3> QED
      BY <1>0, <1>4, <1>6, <1>12, <1>13, <2>1, <2>2, <3>1, <3>2, AddFlow DEF E
  <2>3. CASE x # s
    <3>1. Pipe(x)' = Pipe(x)
      BY <1>4, <2>3, SamePipe
    <3> QED
      BY <1>6, <1>12, <1>13, <2>1, <2>3, <3>1, KeepFlow
  <2> QED
    BY <2>2, <2>3
<1>15. ASSUME relogin' = "no"
       PROVE  LoginInv'
  <2>1. LoginInv /\ relogin = "no"
    BY <1>15 DEF WireInv
  <2>2. \A x \in Sides : Up(Other(x))' => Sealed(Pipe(x)', Waiting(x)', Expect(x)')
    BY <1>14, <1>15 DEF Flow
  <2>3. \A x \in Sides : key'[x] = 1 /\ iv'[x].counter = made'[x] /\ in'[x].code \in {"ok", "busy"}
    BY <1>6, <1>8, <2>1 DEF LoginInv
  <2>4. in'["server"].prefix \in {0, iv'["client"].prefix}
    BY <1>13, <2>1 DEF LoginInv
  <2>5. iv'["client"].prefix # iv'["server"].prefix
    BY <1>8, <2>1 DEF Sides
  <2>6. /\ \A i \in 1 .. Len(used') :
             \E x \in Sides : used'[i].prefix = iv'[x].prefix /\ used'[i].counter < made'[x]
        /\ \A i, j \in 1 .. Len(used') : i # j => used'[i] # used'[j]
    BY <1>0, <1>5, <2>1, AddIV
  <2> QED
    BY <2>2, <2>3, <2>4, <2>5, <2>6 DEF LoginInv
<1>16. \A x \in Sides : Up(Other(x))' => PipeInv(x)'
  BY <1>14 DEF Flow
<1> QED
  BY <1>10, <1>11, <1>15, <1>16 DEF WireInv

\* The client sends nothing before the session is authed.
LEMMA ClientPacketKeeps ==
  ASSUME WireInv, ClientPacket
  PROVE  WireInv'
<1>0. TypeOK /\ StatusInv /\ HandledInv
  BY DEF WireInv
<1>1. /\ client = "connected" /\ in["client"].handled # <<>> /\ made["client"] < MaxPackets
      /\ UNCHANGED <<client, server, writing, reading, stream, in, key, relogin>>
      /\ armed' = TRUE
      /\ iv' = [iv EXCEPT !["client"] = IncrementCounter(@)]
  BY DEF ClientPacket, ArmPoll
<1>2. PICK l \in Lens :
         /\ out' = [out EXCEPT !["client"] =
                      @ \o AESEncrypt(made["client"] + 1, l, iv["client"], key["client"])]
         /\ Encrypted("client", l, iv["client"])
  BY DEF ClientPacket
<1>3. made["server"] > 0
  <2>1. /\ in["client"].handled \in Seq(Nat) /\ made["server"] \in Nat
        /\ Len(in["client"].handled) <= made["server"]
    BY <1>0, Typed DEF HandledInv, Sides, Other
  <2>2. Len(in["client"].handled) \in Nat \ {0}
    BY <1>1, <2>1, EmptySeq
  <2> QED
    BY <2>1, <2>2
<1>4. server \in {"authed", "closed"} /\ Waiting("client") = 0 /\ Up("client")
  BY <1>0, <1>1, <1>3 DEF StatusInv, TypeOK, Waiting, Up
<1>5. out'["server"] = out["server"]
  BY <1>0, <1>2 DEF TypeOK, Sides
<1>6. StatusInv'
  BY <1>0, <1>1, <1>4, <1>5 DEF StatusInv, Busy, Up
<1>7. relogin = "no" => iv["client"].prefix # iv["server"].prefix
  BY <1>3 DEF WireInv, LoginInv
<1>8. "client" \in Sides /\ armed' \in BOOLEAN /\ writing' \in BOOLEAN
  BY <1>0, <1>1 DEF Sides, TypeOK
<1> QED
  BY <1>1, <1>2, <1>4, <1>6, <1>7, <1>8, QueueKeeps

LEMMA ServerPacketKeeps ==
  ASSUME WireInv, ServerPacket
  PROVE  WireInv'
<1>0. TypeOK /\ StatusInv /\ HandledInv
  BY DEF WireInv
<1>1. /\ server = "authed" /\ made["server"] < MaxPackets /\ writing' = TRUE
      /\ UNCHANGED <<client, server, armed, reading, stream, in, key, relogin>>
      /\ iv' = [iv EXCEPT !["server"] = IncrementCounter(@)]
  BY DEF ServerPacket
<1>2. PICK l \in Lens :
         /\ out' = [out EXCEPT !["server"] =
                      @ \o AESEncrypt(made["server"] + 1, l, iv["server"], key["server"])]
         /\ Encrypted("server", l, iv["server"])
  BY DEF ServerPacket
<1>4. Waiting("client") = 0 /\ Up("server")
  BY <1>1 DEF Waiting, Up
<1>5. out'["client"] = out["client"] /\ client # "connecting"
  BY <1>0, <1>1, <1>2 DEF TypeOK, Sides, StatusInv
<1>6. StatusInv'
  BY <1>0, <1>1, <1>5 DEF StatusInv, Busy, Up
<1>7. relogin = "no" => iv["client"].prefix # iv["server"].prefix
  BY <1>1 DEF WireInv, LoginInv
<1>8. "server" \in Sides /\ armed' \in BOOLEAN /\ writing' \in BOOLEAN
  BY <1>0, <1>1 DEF Sides, TypeOK
<1> QED
  BY <1>1, <1>2, <1>4, <1>6, <1>7, <1>8, QueueKeeps

LEMMA GreetcodeAt ==
  /\ Greetcode \in Seq(Units) /\ Len(Greetcode) = GreetLen
  /\ \A i \in 1 .. GreetLen : Greetcode[i] = GreetUnit
<1>1. GreetLen \in Nat
  BY LengthsAssumption
<1>2. GreetUnit \in Units
  BY LengthsAssumption DEF GreetUnit, Units
<1>3. Greetcode = [i \in 1 .. GreetLen |-> GreetUnit]
  BY DEF Greetcode, GreetUnit
<1>4. [i \in 1 .. GreetLen |-> GreetUnit] \in Seq(Units)
  BY <1>1, <1>2, IsASeq
<1>5. Len(Greetcode) = GreetLen
  BY <1>1, <1>3
<1> QED
  BY <1>3, <1>4, <1>5

\* What the client sends first: the greetcode and its first packet.
LEMMA FirstMessage ==
  ASSUME NEW p \in Prefixes, NEW l \in Lens, NEW k \in 1 .. 2
  PROVE  LET v == [prefix |-> p, counter |-> 0] w == Greetcode \o AESEncrypt(1, l, v, k) IN
         /\ w \in Seq(Units)
         /\ Framed(w, GreetLen, 1, 1) /\ Whole(w, GreetLen, 1, 1)
         /\ k = 1 => Sealed(w, GreetLen, {p})
<1> DEFINE v == [prefix |-> p, counter |-> 0]
           E == AESEncrypt(0 + 1, l, v, k)
           G == Greetcode
<1>1. G \in Seq(Units) /\ Len(G) = GreetLen /\ GreetLen \in Nat /\ \A i \in 1 .. GreetLen : G[i] = GreetUnit
  BY GreetcodeAt, LengthsAssumption
<1>2. v \in IVs /\ 0 \in Nat /\ 0 < MaxPackets /\ v.counter = 0 /\ v.prefix = p
  BY LengthsAssumption DEF IVs
<1> HIDE DEF v, G
<1>3. E \in Seq(Units) /\ Len(E) = l
  BY <1>2, EncryptedPacket
<1>4. \A i \in 1 .. l : E[i].msg = 0 + 1 /\ E[i].part = i /\ E[i].len = l
  BY <1>2, EncryptedPacket
<1>5. \A i, j \in 1 .. l : E[j] = [E[i] EXCEPT !.part = j]
  BY EncryptedParts
<1>6. k = 1 => Sealed(G \o E, GreetLen, {p})
  <2> SUFFICES ASSUME k = 1
               PROVE  Sealed(G \o E, GreetLen, {p})
    OBVIOUS
  <2>1. Sealed(G, GreetLen, {p})
    <3>1. \A i \in 1 .. Len(G) : ~(i > GreetLen)
      BY <1>1
    <3> QED
      BY <3>1 DEF Sealed
  <2>2. p \in {p}
    OBVIOUS
  <2>3. Sealed(G \o AESEncrypt(0 + 1, l, v, 1), GreetLen, {p})
    BY <1>1, <1>2, <2>1, <2>2, AddSealed
  <2> QED
    BY <2>3
<1> HIDE DEF E
<1>7. Framed(G, GreetLen, 1, 0) /\ Whole(G, GreetLen, 1, 0)
  <2>1. \A i \in 1 .. Len(G) : i <= GreetLen /\ G[i] = GreetUnit
    BY <1>1
  <2>2. ~(GreetLen < Len(G))
    BY <1>1
  <2> QED
    BY <2>1, <2>2 DEF Framed, Whole
<1>8. Framed(G \o E, GreetLen, 1, 0 + 1) /\ Whole(G \o E, GreetLen, 1, 0 + 1)
  <2>1. IsPacket(E, l, 0 + 1)
    BY <1>3, <1>4, <1>5 DEF IsPacket
  <2> DEFINE m == 0
             n == 1
             g == GreetLen
  <2>2. g \in 0 .. Len(G) /\ n \in Nat /\ m \in Nat
    BY <1>1
  <2>3. IsPacket(E, l, m + 1)
    BY <2>1
  <2>4. Framed(G, g, n, m) /\ Whole(G, g, n, m)
    BY <1>7
  <2> HIDE DEF m, n, g
  <2>5. Framed(G \o E, g, n, m + 1) /\ Whole(G \o E, g, n, m + 1)
    BY <1>1, <1>3, <2>2, <2>3, <2>4, AddPacket
  <2> QED
    BY <2>5 DEF m, n, g
<1>9. G \o E \in Seq(Units)
  BY <1>1, <1>3, ConcatAt
<1>10. 0 + 1 = 1
  OBVIOUS
<1> QED
  BY <1>6, <1>8, <1>9, <1>10 DEF v, E, G

LEMMA ConnectKeeps ==
  ASSUME WireInv, CheckIfWorldConnected
  PROVE  WireInv'
<1>0. TypeOK /\ StatusInv /\ HandledInv
  BY DEF WireInv
<1>1. /\ client = "connecting"
      /\ UNCHANGED <<server, writing, reading, stream, in, key, relogin>>
  BY DEF CheckIfWorldConnected
<1>2. CASE OnDisconnect /\ UNCHANGED <<iv, made, used>>
  <2>1. in["client"] \in Readers /\ in["client"].rpos <= Len(in["client"].data) /\ in \in [Sides -> Readers]
    BY <1>0 DEF TypeOK, Sides
  <2>2. relogin = "no" => in["client"].code \in {"ok", "busy"}
    BY DEF WireInv, LoginInv, Sides
  <2> QED
    BY <1>1, <1>2, <2>1, <2>2, DisconnectKeeps
<1>3. ASSUME NEW p \in Prefixes, NEW l \in Lens,
             client' = "connected",
             out' = [out EXCEPT !["client"] =
                       @ \o Greetcode \o AESEncrypt(1, l, [prefix |-> p, counter |-> 0], key["client"])],
             armed' = TRUE,
             iv' = [iv EXCEPT !["client"] = IncrementCounter([prefix |-> p, counter |-> 0])],
             Encrypted("client", l, [prefix |-> p, counter |-> 0])
      PROVE  WireInv'
  <2> DEFINE v == [prefix |-> p, counter |-> 0]
             E == AESEncrypt(1, l, v, key["client"])
             w == Greetcode \o E
  <2>1. v \in IVs /\ IncrementCounter(v) = [prefix |-> p, counter |-> 1] /\ IncrementCounter(v) \in IVs
    BY DEF IVs, IncrementCounter
  <2>2. /\ server \in {"greet", "closed"} /\ in["server"].prefix = 0 /\ in["server"].data = <<>>
        /\ stream["client"] = <<>> /\ made["client"] = 0 /\ made["server"] = 0
        /\ out["client"] = <<>> /\ key["client"] \in 1 .. 2
    BY <1>0, <1>1 DEF StatusInv, TypeOK, Sides
  <2>3. /\ w \in Seq(Units) /\ Framed(w, GreetLen, 1, 1) /\ Whole(w, GreetLen, 1, 1)
        /\ key["client"] = 1 => Sealed(w, GreetLen, {p})
    BY <2>2, FirstMessage
  <2>4. out'["client"] = w /\ out'["server"] = out["server"] /\ out' \in [Sides -> Seq(Units)]
    <3>1. <<>> \o Greetcode = Greetcode
      BY GreetcodeAt, ConcatEmptySeq
    <3>2. out' = [out EXCEPT !["client"] = w]
      BY <1>3, <2>2, <3>1
    <3> HIDE DEF w
    <3> QED
      BY <1>0, <2>3, <3>2 DEF TypeOK, Sides
  <2> HIDE DEF w, v, E
  <2>5. /\ made' = [made EXCEPT !["client"] = @ + 1] /\ used' = Append(used, v)
    BY <1>3 DEF Encrypted, v
  <2>6. /\ made' \in [Sides -> 0 .. MaxPackets] /\ made'["client"] = 1 /\ made'["server"] = 0
    BY <1>0, <2>2, <2>5, LengthsAssumption DEF TypeOK, Sides
  <2>7. /\ iv' \in [Sides -> IVs] /\ iv'["client"] = [prefix |-> p, counter |-> 1]
        /\ iv'["server"] = iv["server"]
    BY <1>0, <1>3, <2>1 DEF TypeOK, Sides, v
  <2>8. used \in Seq(IVs) /\ used' \in Seq(IVs)
    <3>1. used \in Seq(IVs)
      BY <1>0 DEF TypeOK
    <3> QED
      BY <2>1, <2>5, <3>1, AppendProperties
  <2>9. TypeOK'
    BY <1>0, <1>1, <1>3, <2>4, <2>6, <2>7, <2>8 DEF TypeOK
  <2>10. StatusInv'
    BY <1>0, <1>1, <1>3, <2>4, <2>6 DEF StatusInv, Busy, Up
  <2>11. HandledInv'
    <3>1. \A x \in Sides : /\ made[x] \in Nat /\ made'[x] \in Nat /\ made[x] <= made'[x]
                           /\ Len(in[x].handled) \in Nat /\ Other(x) \in Sides
      BY <1>0, <2>2, <2>6, Typed, OtherSides DEF Sides
    <3>2. \A x \in Sides : Len(in'[x].handled) <= made'[Other(x)]
      BY <1>0, <1>1, <3>1 DEF HandledInv
    <3> QED
      BY <1>0, <1>1, <3>2 DEF HandledInv
  <2>12. ASSUME Up("server")'
         PROVE  PipeInv("client")' /\ (relogin' = "no" => Sealed(Pipe("client")', Waiting("client")', {p}))
    <3>1. server = "greet" /\ server' = "greet"
      BY <1>1, <2>2, <2>12 DEF Up
    <3>2. Len(in'["server"].handled) + 1 = 1
      <4>1. in["server"].handled = <<>> /\ in' = in
        BY <1>0, <1>1, <3>1 DEF StatusInv
      <4> QED
        BY <4>1, EmptySeq
    <3>3. Active(in'["server"]) = <<>>
      <4>1. /\ in["server"] \in Readers /\ in["server"].rpos <= Len(in["server"].data) /\ in' = in
            /\ Len(in["server"].data) = 0
        BY <1>0, <1>1, <2>2, Typed, EmptySeq DEF Sides
      <4>2. Len(Active(in["server"])) = 0 /\ Active(in["server"]) \in Seq(Units)
        <5>1. in["server"].rpos = 0
          BY <4>1 DEF Readers
        <5> QED
          BY <4>1, <5>1, ActiveAt
      <4> QED
        BY <4>1, <4>2, EmptySeq
    <3>4. (<<>> \o <<>>) \o w = w
      BY <2>3, ConcatEmptySeq, EmptySeq
    <3>5. Pipe("client")' = w
      BY <1>1, <2>2, <2>4, <3>3, <3>4 DEF Pipe, Other
    <3>6. Waiting("client")' = GreetLen
      BY <3>1 DEF Waiting
    <3>7. relogin' = "no" => key["client"] = 1
      BY <1>1 DEF WireInv, LoginInv, Sides
    <3> QED
      BY <2>3, <2>6, <3>2, <3>5, <3>6, <3>7 DEF PipeInv, Other
  <2>13. Flow("server")'
    <3>1. Flow("server")
      BY <1>1, Flows DEF Sides, Up, Other
    <3>2. Pipe("server")' = Pipe("server") /\ Waiting("server")' = Waiting("server")
      BY <1>1, <2>4 DEF Pipe, Waiting
    <3>3. Up("server")' => Up("server")
      BY <1>1 DEF Up
    <3>4. made'["server"] = made["server"]
      BY <2>2, <2>6
    <3> QED
      BY <1>1, <3>1, <3>2, <3>3, <3>4, KeepFlow DEF Sides
  <2>14. ASSUME NEW s \in Sides, Up(Other(s))'
         PROVE  Flow(s)'
    <3>1. CASE s = "server"
      BY <2>13, <3>1
    <3>2. CASE s = "client"
      <4>1. Up("server")' /\ Expect("client")' = {p}
        BY <2>7, <2>14, <3>2 DEF Other, Expect
      <4> QED
        BY <2>12, <3>2, <4>1 DEF Flow
    <3> QED
      BY <3>1, <3>2 DEF Sides
  <2>15. ASSUME relogin' = "no"
         PROVE  LoginInv'
    <3>1. LoginInv /\ relogin = "no"
      BY <1>1, <2>15 DEF WireInv
    <3>2. \A s \in Sides : Up(Other(s))' => Sealed(Pipe(s)', Waiting(s)', Expect(s)')
      BY <2>14, <2>15 DEF Flow
    <3>3. \A s \in Sides : key'[s] = 1 /\ iv'[s].counter = made'[s] /\ in'[s].code \in {"ok", "busy"}
      BY <1>1, <2>2, <2>6, <2>7, <3>1 DEF LoginInv, Sides
    <3>4. in'["server"].prefix = 0 /\ server' # "authed" /\ ~(made'["server"] > 0)
      BY <1>1, <2>2, <2>6
    <3>5. Len(used) = 0
      <4>1. Len(used) \in Nat
        BY <2>8, LenProperties
      <4>2. ASSUME NEW i \in 1 .. Len(used)
            PROVE  FALSE
        <5>1. PICK s \in Sides : used[i].counter < made[s]
          BY <3>1, <4>2 DEF LoginInv
        <5>2. made[s] = 0
          BY <2>2 DEF Sides
        <5>3. used[i].counter \in Nat
          <6>1. used[i] \in IVs
            BY <2>8, <4>2, ElementOfSeq
          <6> QED
            BY <6>1 DEF IVs
        <5> QED
          BY <5>1, <5>2, <5>3
      <4> QED
        BY <4>1, <4>2
    <3>6. Len(used') = 1 /\ used'[1] = v
      BY <2>1, <2>5, <2>8, <3>5, AppendProperties
    <3>7. v.prefix = iv'["client"].prefix /\ v.counter < made'["client"]
      BY <2>6, <2>7 DEF v
    <3>8. /\ \A i \in 1 .. Len(used') :
               \E s \in Sides : used'[i].prefix = iv'[s].prefix /\ used'[i].counter < made'[s]
          /\ \A i, j \in 1 .. Len(used') : i # j => used'[i] # used'[j]
      BY <3>6, <3>7 DEF Sides
    <3> QED
      BY <3>2, <3>3, <3>4, <3>8 DEF LoginInv
  <2>16. \A s \in Sides : Up(Other(s))' => PipeInv(s)'
    BY <2>14 DEF Flow
  <2> QED
    BY <2>9, <2>10, <2>11, <2>15, <2>16 DEF WireInv
<1> QED
  BY <1>1, <1>2, <1>3 DEF CheckIfWorldConnected

\* Units move from the queue to the stream, or from the stream to the buffer.
LEMMA SentPipe ==
  ASSUME TypeOK, NEW s \in Sides, NEW k \in 0 .. Len(out[s]),
         Active(in'[Other(s)]) = Active(in[Other(s)]),
         stream'[s] = stream[s] \o SubSeq(out[s], 1, k), out'[s] = SubSeq(out[s], k + 1, Len(out[s]))
  PROVE  /\ Pipe(s)' = Pipe(s)
         /\ stream'[s] \in Seq(Units) /\ Len(stream'[s]) = Len(stream[s]) + k
         /\ out'[s] \in Seq(Units)
<1> DEFINE a == Active(in[Other(s)])
           x == SubSeq(out[s], 1, k)
           y == SubSeq(out[s], k + 1, Len(out[s]))
<1>1. a \in Seq(Units) /\ stream[s] \in Seq(Units) /\ out[s] \in Seq(Units)
  BY Typed, OtherSides
<1>2. x \in Seq(Units) /\ Len(x) = k /\ y \in Seq(Units)
  BY <1>1, FirstAt, RestAt
<1>3. Pipe(s) = (a \o stream[s]) \o out[s] /\ Pipe(s)' = (a \o (stream[s] \o x)) \o y
  BY DEF Pipe
<1> HIDE DEF a
<1>4. a \o stream[s] \in Seq(Units)
  BY <1>1, ConcatAt
<1>5. ((a \o stream[s]) \o x) \o y = (a \o stream[s]) \o out[s]
  BY <1>1, <1>4, MoveFront
<1>6. stream'[s] = stream[s] \o x /\ out'[s] = y
  OBVIOUS
<1> HIDE DEF x, y
<1>7. (a \o stream[s]) \o x = a \o (stream[s] \o x)
  BY <1>1, <1>2, Regroup
<1>8. stream[s] \o x \in Seq(Units) /\ Len(stream[s] \o x) = Len(stream[s]) + Len(x)
  BY <1>1, <1>2, ConcatLen
<1> QED
  BY <1>2, <1>3, <1>5, <1>6, <1>7, <1>8

LEMMA ReceivedPipe ==
  ASSUME TypeOK, NEW s \in Sides, NEW k \in 0 .. Len(stream[s]),
         Active(in'[Other(s)]) = Active(in[Other(s)]) \o SubSeq(stream[s], 1, k),
         stream'[s] = SubSeq(stream[s], k + 1, Len(stream[s])), out'[s] = out[s]
  PROVE  /\ Pipe(s)' = Pipe(s)
         /\ stream'[s] \in Seq(Units) /\ Len(stream'[s]) = Len(stream[s]) - k
<1>1. Active(in[Other(s)]) \in Seq(Units) /\ stream[s] \in Seq(Units)
  BY Typed, OtherSides
<1>2. (Active(in[Other(s)]) \o SubSeq(stream[s], 1, k)) \o SubSeq(stream[s], k + 1, Len(stream[s]))
        = Active(in[Other(s)]) \o stream[s]
  BY <1>1, MoveFront
<1>3. Pipe(s)' = Pipe(s)
  BY <1>2 DEF Pipe
<1> QED
  BY <1>1, <1>3, RestAt

\* The buffer that receives them.
LEMMA ReceivedReader ==
  ASSUME NEW b \in Readers, b.rpos <= Len(b.data), NEW st \in Seq(Units), NEW k \in 0 .. Len(st)
  PROVE  LET c == [b EXCEPT !.data = @ \o SubSeq(st, 1, k)] IN
         /\ c \in Readers /\ c.rpos <= Len(c.data) /\ Len(c.data) = Len(b.data) + k
         /\ Active(c) = Active(b) \o SubSeq(st, 1, k) /\ Active(c) \in Seq(Units)
         /\ c.rpos = b.rpos /\ c.size = b.size /\ c.expected = b.expected /\ c.prefix = b.prefix
         /\ c.handled = b.handled /\ c.code = b.code
<1> DEFINE x == SubSeq(st, 1, k)
           c == [b EXCEPT !.data = @ \o x]
<1>1. x \in Seq(Units) /\ Len(x) = k
  BY FirstAt
<1> HIDE DEF x
<1>2. b.data \in Seq(Units) /\ b.rpos \in Nat /\ Len(b.data) \in Nat /\ k \in Nat
  <2>1. Len(st) \in Nat
    BY LenProperties
  <2> QED
    BY <2>1, LenProperties DEF Readers
<1>3. b.data \o x \in Seq(Units) /\ Len(b.data \o x) = Len(b.data) + Len(x)
  BY <1>1, <1>2, ConcatAt
<1>4. Active(c) = Active(b) \o x
  BY <1>1, ActiveReceived
<1>5. /\ c \in Readers /\ c.data = b.data \o x
      /\ c.rpos = b.rpos /\ c.size = b.size /\ c.expected = b.expected /\ c.prefix = b.prefix
      /\ c.handled = b.handled /\ c.code = b.code
  BY <1>3 DEF Readers
<1> HIDE DEF c
<1>6. Len(c.data) = Len(b.data) + k /\ c.rpos <= Len(c.data)
  BY <1>1, <1>2, <1>3, <1>5
<1>7. Active(c) \in Seq(Units)
  BY <1>5, <1>6, ActiveAt
<1> QED
  BY <1>4, <1>5, <1>6, <1>7 DEF c, x

\* One code of a reader for another.
LEMMA CodeSet ==
  ASSUME NEW b \in Readers,
         NEW c \in {"ok", "busy", "full", "malformed", "prefix", "counter", "tag"}
  PROVE  LET d == [b EXCEPT !.code = c] IN
         /\ d \in Readers /\ Active(d) = Active(b)
         /\ d.data = b.data /\ d.rpos = b.rpos /\ d.size = b.size /\ d.expected = b.expected
         /\ d.prefix = b.prefix /\ d.handled = b.handled /\ d.code = c
  BY DEF Readers, Active

LEMMA FrontIsShorter ==
  ASSUME NEW q \in Seq(Units)
  PROVE  FrontLen(q) \in Nat /\ FrontLen(q) <= Len(q)
<1> DEFINE F == {i \in 1 .. Len(q) : q[i].msg = q[1].msg}
<1>1. Len(q) \in Nat /\ 1 \in Int
  BY LenProperties
<1>2. IsFiniteSet(1 .. Len(q)) /\ Cardinality(1 .. Len(q)) = Len(q)
  <2>1. IsFiniteSet(1 .. Len(q)) /\ Cardinality(1 .. Len(q)) = IF 1 > Len(q) THEN 0 ELSE Len(q) - 1 + 1
    BY <1>1, FS_Interval
  <2> QED
    BY <1>1, <2>1
<1>3. F \subseteq 1 .. Len(q)
  OBVIOUS
<1> HIDE DEF F
<1>4. IsFiniteSet(F) /\ Cardinality(F) <= Cardinality(1 .. Len(q))
  BY <1>2, <1>3, FS_Subset
<1>5. Cardinality(F) \in Nat
  BY <1>4, FS_CardinalityType
<1> QED
  BY <1>2, <1>4, <1>5 DEF FrontLen, F

\* The server's write took a part of the message at the front.
LEMMA WriteKeeps ==
  ASSUME WireInv, InternalWriteCallback
  PROVE  WireInv'
<1>0. TypeOK /\ StatusInv
  BY DEF WireInv
<1>1. writing /\ ~Busy("server") /\ UNCHANGED <<client, armed, in, iv, key, made, used, relogin>>
  BY DEF InternalWriteCallback
<1>2. CASE client = "gone" /\ CloseSocket /\ UNCHANGED stream
  <2>1. in["server"] \in Readers /\ in["server"].rpos <= Len(in["server"].data) /\ in \in [Sides -> Readers]
    BY <1>0 DEF TypeOK, Sides
  <2>2. relogin = "no" => in["server"].code \in {"ok", "busy"}
    BY DEF WireInv, LoginInv, Sides
  <2> QED
    BY <1>1, <1>2, <2>1, <2>2, CloseKeeps
<1>3. ASSUME NEW k \in 1 .. Smaller(FrontLen(out["server"]), Free("server")),
             stream' = [stream EXCEPT !["server"] = @ \o SubSeq(out["server"], 1, k)],
             out' = [out EXCEPT !["server"] = Sent(@, k)],
             writing' = (out'["server"] # <<>>), UNCHANGED <<server, reading>>
      PROVE  WireInv'
  <2>1. /\ out["server"] \in Seq(Units) /\ stream["server"] \in Seq(Units) /\ "server" \in Sides
        /\ Len(stream["server"]) \in Nat /\ StreamSize \in Nat
    BY <1>0, Typed, LenProperties, LengthsAssumption DEF Sides
  <2>2. k \in 0 .. Len(out["server"]) /\ k \in Nat /\ Len(stream["server"]) + k <= StreamSize
    <3>1. FrontLen(out["server"]) \in Nat /\ FrontLen(out["server"]) <= Len(out["server"])
      BY <2>1, FrontIsShorter
    <3>2. Len(out["server"]) \in Nat /\ Free("server") \in Int
      BY <2>1, LenProperties DEF Free
    <3>3. k \in Nat /\ k <= FrontLen(out["server"]) /\ k <= Free("server")
      BY <3>1, <3>2 DEF Smaller
    <3> QED
      BY <2>1, <3>1, <3>2, <3>3 DEF Free
  <2>3. /\ stream'["server"] = stream["server"] \o SubSeq(out["server"], 1, k)
        /\ out'["server"] = SubSeq(out["server"], k + 1, Len(out["server"]))
        /\ stream'["client"] = stream["client"] /\ out'["client"] = out["client"]
    BY <1>0, <1>3 DEF TypeOK, Sides, Sent
  <2>4. /\ Pipe("server")' = Pipe("server")
        /\ stream'["server"] \in Seq(Units) /\ Len(stream'["server"]) = Len(stream["server"]) + k
        /\ out'["server"] \in Seq(Units)
    BY <1>0, <1>1, <2>1, <2>2, <2>3, SentPipe
  <2>5. out' \in [Sides -> Seq(Units)] /\ stream' \in [Sides -> Seq(Units)]
    BY <1>0, <1>3, <2>3, <2>4 DEF TypeOK, Sides
  <2>6. \A s \in Sides : Len(stream'[s]) <= StreamSize
    BY <1>0, <2>2, <2>3, <2>4 DEF TypeOK, Sides
  <2>7. TypeOK'
    BY <1>0, <1>1, <1>3, <2>5, <2>6 DEF TypeOK
  <2>8. StatusInv'
    BY <1>0, <1>1, <1>3, <2>3 DEF StatusInv, Busy, Up
  <2>9. Pipe("client")' = Pipe("client")
    BY <1>1, <2>3 DEF Pipe
  <2>10. ASSUME NEW s \in Sides, Up(Other(s))'
         PROVE  Flow(s)'
    <3>1. Flow(s) /\ (Up(s)' => Up(s)) /\ Waiting(s)' = Waiting(s)
      <4>1. Up(Other(s)) /\ (Up(s)' => Up(s))
        BY <1>1, <1>3, <2>10 DEF Up
      <4> QED
        BY <1>3, <4>1, Flows DEF Waiting
    <3>2. Pipe(s)' = Pipe(s)
      BY <2>4, <2>9 DEF Sides
    <3> QED
      BY <1>1, <3>1, <3>2, KeepFlow
  <2>11. \A s \in Sides : relogin = "no" => in'[s].code \in {"ok", "busy"}
    BY <1>1 DEF WireInv, LoginInv
  <2> QED
    BY <1>1, <1>3, <2>7, <2>8, <2>10, <2>11, QuietStep
<1> QED
  BY <1>1, <1>2, <1>3 DEF InternalWriteCallback

\* What Receive of r units leaves, with the n units it takes.
LEMMA ReceiveAt ==
  ASSUME WireInv, Up("client"), ~Busy("client"), NEW r \in 0 .. Len(stream["server"])
  PROVE  LET b == in["client"] c == Receive(r) n == Taken(r) IN
         /\ n \in 0 .. Len(stream["server"])
         /\ c \in Readers /\ c.rpos <= Len(c.data) /\ Len(c.data) <= c.size
         /\ Active(c) = Active(b) \o SubSeq(stream["server"], 1, n)
         /\ c.handled = b.handled /\ c.expected = b.expected /\ c.prefix = b.prefix
         /\ c.code \in {"ok", "busy"} /\ (c.code = "ok" => c = b)
<1> DEFINE b == in["client"]
           st == stream["server"]
           n == Taken(r)
<1>0. TypeOK /\ StatusInv /\ "client" \in Sides /\ "server" \in Sides
  BY DEF WireInv, Sides
<1>1. /\ b \in Readers /\ b.rpos <= Len(b.data) /\ Len(b.data) <= b.size
      /\ Active(b) \in Seq(Units) /\ st \in Seq(Units) /\ Len(st) \in Nat
  <2>1. b \in Readers /\ b.rpos <= Len(b.data) /\ Active(b) \in Seq(Units) /\ st \in Seq(Units)
    BY <1>0, Typed
  <2>2. Len(b.data) <= b.size
    BY <1>0 DEF TypeOK
  <2> QED
    BY <2>1, <2>2, LenProperties
<1>2. b.code = "ok" /\ Len(Active(b)) < BufSize
  BY <1>0 DEF StatusInv, Busy
<1>3. CASE r = 0
  <2>1. n = 0 /\ Receive(r) = b
    BY <1>3 DEF Taken, Receive
  <2>2. SubSeq(st, 1, 0) = <<>>
    <3>1. 0 \in 0 .. Len(st)
      BY <1>1
    <3>2. SubSeq(st, 1, 0) \in Seq(Units) /\ Len(SubSeq(st, 1, 0)) = 0
      BY <1>1, <3>1, FirstAt
    <3> QED
      BY <3>2, EmptySeq
  <2>3. Active(b) \o <<>> = Active(b)
    BY <1>1, ConcatEmptySeq
  <2>4. n \in 0 .. Len(st)
    BY <1>1, <2>1
  <2> QED
    BY <1>1, <1>2, <2>1, <2>2, <2>3, <2>4
<1>4. CASE r # 0
  <2> DEFINE e == ForRecv(b)
  <2> HIDE DEF b, st
  <2>1. /\ e = [b EXCEPT !.data = Active(b), !.rpos = 0]
        /\ e \in Readers /\ Active(e) = Active(b) /\ Room(e) \in Nat \ {0}
    BY <1>1, <1>2, RoomForRecv
  <2>2. /\ e.data = Active(b) /\ e.rpos = 0 /\ e.code = "ok" /\ e.size = b.size
        /\ e.handled = b.handled /\ e.expected = b.expected /\ e.prefix = b.prefix
    BY <1>1, <1>2, <2>1 DEF Readers
  <2> HIDE DEF e
  <2>3. n = Smaller(r, Room(e))
    BY <1>4, <2>2 DEF Taken, e, b
  <2>4. n \in 0 .. Len(st) /\ n <= Room(e) /\ n \in Nat
    <3>1. r \in Nat /\ r <= Len(st)
      BY <1>1 DEF st
    <3> QED
      BY <1>1, <2>1, <2>3, <3>1 DEF Smaller
  <2> DEFINE c == [e EXCEPT !.data = @ \o SubSeq(st, 1, n)]
             d == [c EXCEPT !.code = "busy"]
  <2>5. e.rpos <= Len(e.data)
    BY <1>1, <2>2, LenProperties
  <2> HIDE DEF n
  <2>6. /\ c \in Readers /\ c.rpos <= Len(c.data) /\ Len(c.data) = Len(e.data) + n
        /\ Active(c) = Active(e) \o SubSeq(st, 1, n)
        /\ c.size = e.size /\ c.expected = e.expected /\ c.prefix = e.prefix
        /\ c.handled = e.handled
    <3>1. e \in Readers /\ st \in Seq(Units) /\ n \in 0 .. Len(st)
      BY <1>1, <2>1, <2>4
    <3> QED
      BY <2>5, <3>1, ReceivedReader
  <2>7. Receive(r) = d
    BY <1>4, <2>2 DEF Receive, Received, Other, e, b, st, n
  <2> HIDE DEF c
  <2>8. /\ d \in Readers /\ Active(d) = Active(c) /\ d.data = c.data /\ d.rpos = c.rpos
        /\ d.size = c.size /\ d.expected = c.expected /\ d.prefix = c.prefix
        /\ d.handled = c.handled /\ d.code = "busy"
    BY <2>6, CodeSet
  <2>9. Len(d.data) <= d.size
    <3>1. Len(e.data) \in Nat /\ e.size \in Nat /\ Room(e) = e.size - Len(e.data)
      <4>1. Len(e.data) \in Nat
        BY <1>1, <2>2, LenProperties
      <4>2. e.size \in BufSize .. BufMax
        BY <2>1 DEF Readers
      <4> QED
        BY <4>1, <4>2, LengthsAssumption DEF Room
    <3> QED
      BY <2>4, <2>6, <2>8, <3>1
  <2> HIDE DEF d
  <2>10. /\ d.rpos <= Len(d.data)
         /\ Active(d) = Active(b) \o SubSeq(st, 1, n)
         /\ d.handled = b.handled /\ d.expected = b.expected /\ d.prefix = b.prefix
    BY <2>1, <2>2, <2>6, <2>8
  <2> QED
    BY <2>4, <2>7, <2>8, <2>9, <2>10 DEF b, st, n
<1> QED
  BY <1>3, <1>4

\* The client sends what fits and receives what came.
LEMMA NetworkKeeps ==
  ASSUME WireInv, NetworkUpdate
  PROVE  WireInv'
<1>0. TypeOK /\ StatusInv /\ "client" \in Sides /\ "server" \in Sides
  BY DEF WireInv, Sides
<1>1. /\ client = "connected" /\ ~Busy("client") /\ Up("client")
      /\ UNCHANGED <<server, writing, reading, iv, key, made, used, relogin>>
  BY DEF NetworkUpdate, Up
<1>2. CASE server = "closed" /\ OnDisconnect /\ UNCHANGED <<stream, in>>
  <2>1. in["client"] \in Readers /\ in["client"].rpos <= Len(in["client"].data) /\ in \in [Sides -> Readers]
    BY <1>0 DEF TypeOK
  <2>2. relogin = "no" => in["client"].code \in {"ok", "busy"}
    BY <1>0 DEF WireInv, LoginInv
  <2> QED
    BY <1>1, <1>2, <2>1, <2>2, DisconnectKeeps
<1>3. ASSUME NEW r \in 0 .. Len(stream["server"]),
             in' = [in EXCEPT !["client"] = Receive(r)],
             stream' = [client |-> stream["client"] \o SubSeq(out["client"], 1, SendCount),
                        server |-> SubSeq(stream["server"], Taken(r) + 1, Len(stream["server"]))],
             IF Receive(r).code = "full" THEN OnDisconnect
             ELSE /\ out' = [out EXCEPT !["client"] = Sent(@, SendCount)]
                  /\ armed' = (armed /\ out'["client"] # <<>>)
                  /\ UNCHANGED client
      PROVE  WireInv'
  <2> DEFINE b == in["client"]
             c == Receive(r)
             n == Taken(r)
             k == SendCount
  <2>1. /\ n \in 0 .. Len(stream["server"])
        /\ c \in Readers /\ c.rpos <= Len(c.data) /\ Len(c.data) <= c.size
        /\ Active(c) = Active(b) \o SubSeq(stream["server"], 1, n)
        /\ c.handled = b.handled /\ c.expected = b.expected /\ c.prefix = b.prefix
        /\ c.code \in {"ok", "busy"} /\ (c.code = "ok" => c = b)
    BY <1>1, ReceiveAt
  <2>2. /\ out["client"] \in Seq(Units) /\ stream["client"] \in Seq(Units)
        /\ Len(stream["client"]) \in Nat /\ StreamSize \in Nat /\ Len(out["client"]) \in Nat
        /\ Len(stream["client"]) <= StreamSize
        /\ stream["server"] \in Seq(Units) /\ Len(stream["server"]) \in Nat
        /\ Len(stream["server"]) <= StreamSize
    <3>1. out["client"] \in Seq(Units) /\ stream["client"] \in Seq(Units) /\ stream["server"] \in Seq(Units)
      BY <1>0, Typed
    <3>2. Len(stream["client"]) <= StreamSize /\ Len(stream["server"]) <= StreamSize
      BY <1>0 DEF TypeOK
    <3> QED
      BY <3>1, <3>2, LenProperties, LengthsAssumption
  <2>3. k \in 0 .. Len(out["client"]) /\ k \in Nat /\ Len(stream["client"]) + k <= StreamSize
    <3>1. Free("client") = StreamSize - Len(stream["client"])
      BY DEF Free
    <3> QED
      BY <2>2, <3>1 DEF SendCount, Smaller
  <2>4. /\ out' = [out EXCEPT !["client"] = Sent(@, k)]
        /\ armed' = (armed /\ out'["client"] # <<>>) /\ client' = client
    <3>1. Receive(r).code # "full"
      BY <2>1
    <3> QED
      BY <1>3, <3>1
  <2> HIDE DEF c, n, k
  <2>5. /\ in'["client"] = c /\ in'["server"] = in["server"] /\ in' \in [Sides -> Readers]
    BY <1>0, <1>3, <2>1 DEF TypeOK, c
  <2>6. /\ stream'["client"] = stream["client"] \o SubSeq(out["client"], 1, k)
        /\ stream'["server"] = SubSeq(stream["server"], n + 1, Len(stream["server"]))
        /\ out'["client"] = SubSeq(out["client"], k + 1, Len(out["client"]))
        /\ out'["server"] = out["server"]
    BY <1>0, <1>3, <2>4 DEF TypeOK, Sent, n, k
  <2>7. /\ Pipe("client")' = Pipe("client")
        /\ stream'["client"] \in Seq(Units) /\ Len(stream'["client"]) = Len(stream["client"]) + k
        /\ out'["client"] \in Seq(Units)
    <3>1. Active(in'[Other("client")]) = Active(in[Other("client")])
      BY <2>5 DEF Other
    <3> QED
      BY <1>0, <2>3, <2>6, <3>1, SentPipe
  <2>8. /\ Pipe("server")' = Pipe("server")
        /\ stream'["server"] \in Seq(Units) /\ Len(stream'["server"]) = Len(stream["server"]) - n
    <3>1. Active(in'[Other("server")]) = Active(in[Other("server")]) \o SubSeq(stream["server"], 1, n)
      BY <2>1, <2>5 DEF Other
    <3> QED
      BY <1>0, <2>1, <2>6, <3>1, ReceivedPipe
  <2>9. /\ stream' \in [Sides -> Seq(Units)] /\ out' \in [Sides -> Seq(Units)]
        /\ \A s \in Sides : Len(stream'[s]) <= StreamSize
    <3>1. stream' \in [Sides -> Seq(Units)]
      <4>1. stream' = [client |-> stream'["client"], server |-> stream'["server"]]
        BY <1>3
      <4>2. DOMAIN stream' = Sides /\ stream' = [s \in Sides |-> stream'[s]]
        BY <4>1 DEF Sides
      <4> QED
        BY <2>7, <2>8, <4>2 DEF Sides
    <3>2. out' \in [Sides -> Seq(Units)]
      BY <1>0, <2>4, <2>6, <2>7 DEF TypeOK, Sides
    <3>3. Len(stream'["client"]) <= StreamSize /\ Len(stream'["server"]) <= StreamSize
      BY <2>1, <2>2, <2>3, <2>7, <2>8
    <3> QED
      BY <3>1, <3>2, <3>3 DEF Sides
  <2>10. \A s \in Sides : /\ Len(in'[s].data) <= in'[s].size /\ in'[s].rpos <= Len(in'[s].data)
    BY <1>0, <2>1, <2>5 DEF TypeOK, Sides
  <2>11. TypeOK'
    <3>1. armed' \in BOOLEAN
      BY <2>4
    <3> QED
      BY <1>0, <1>1, <2>4, <2>5, <2>9, <2>10, <3>1 DEF TypeOK
  <2>12. StatusInv'
    <3>1. Up("client")' /\ ~Busy("client")' => Len(Active(in'["client"])) < BufSize
      <4>1. ~Busy("client")' => c = b
        BY <2>1, <2>5 DEF Busy
      <4> QED
        BY <1>0, <1>1, <2>5, <4>1 DEF StatusInv
    <3>2. \A s \in Sides : Up(s)' => in'[s].code \in {"ok", "busy"}
      BY <1>0, <1>1, <2>1, <2>4, <2>5 DEF StatusInv, Sides, Up
    <3>3. Busy("server")' <=> Busy("server")
      BY <2>5 DEF Busy
    <3> QED
      BY <1>0, <1>1, <2>4, <2>5, <2>6, <3>1, <3>2, <3>3 DEF StatusInv
  <2>13. \A s \in Sides : /\ in'[s].handled = in[s].handled /\ in'[s].expected = in[s].expected
                          /\ in'[s].prefix = in[s].prefix
                          /\ relogin = "no" => in'[s].code \in {"ok", "busy"}
    BY <2>1, <2>5 DEF WireInv, LoginInv, Sides
  <2>14. ASSUME NEW s \in Sides, Up(Other(s))'
         PROVE  Flow(s)'
    <3>1. Flow(s) /\ (Up(s)' => Up(s)) /\ Waiting(s)' = Waiting(s)
      <4>1. Up(Other(s)) /\ (Up(s)' => Up(s))
        BY <1>1, <2>4, <2>14 DEF Up
      <4> QED
        BY <1>1, <4>1, Flows DEF Waiting
    <3>2. Pipe(s)' = Pipe(s)
      BY <2>7, <2>8 DEF Sides
    <3>3. in'[Other(s)].handled = in[Other(s)].handled
      BY <2>13, OtherSides
    <3> QED
      BY <1>1, <3>1, <3>2, <3>3, KeepFlow
  <2> QED
    BY <1>1, <2>11, <2>12, <2>13, <2>14, QuietStep
<1> QED
  BY <1>1, <1>2, <1>3 DEF NetworkUpdate

\* A packet is handled by side s.
LEMMA HandleFlow ==
  ASSUME WireInv, NEW s \in Sides, Up(s), Waiting(Other(s)) = 0,
         Active(in[s]) # <<>>, Active(in[s])[1].len <= Len(Active(in[s])),
         Active(in'[s]) = SubSeq(Active(in[s]), Active(in[s])[1].len + 1, Len(Active(in[s]))),
         in'[s].handled = Append(in[s].handled, Len(in[s].handled) + 1),
         Len(in[s].handled) + 1 <= made[Other(s)],
         in'[s].expected = in[s].expected + 1,
         in'[Other(s)] = in[Other(s)], UNCHANGED <<out, stream, made, relogin>>,
         \A x \in Sides : (Up(x)' <=> Up(x)) /\ Waiting(x)' = Waiting(x),
         iv'["client"] = iv["client"]
  PROVE  HandledInv' /\ \A x \in Sides : Up(Other(x))' => Flow(x)'
<1> DEFINE h == in[s].handled
           o == Other(s)
<1>0. TypeOK /\ HandledInv
  BY DEF WireInv
<1>1. /\ o \in Sides /\ Other(o) = s /\ o # s /\ \A x \in Sides : x = s \/ x = o
  BY OtherSides DEF Other, Sides
<1>2. /\ h \in Seq(Nat) /\ Len(h) \in Nat /\ Len(h) + 1 \in Nat
      /\ \A i \in 1 .. Len(h) : h[i] = i
      /\ in[s].expected = Len(h)
  <2>1. h \in Seq(Nat) /\ Len(h) \in Nat
    BY <1>0, Typed
  <2> QED
    BY <1>0, <2>1 DEF HandledInv
<1> HIDE DEF h, o
<1>3. /\ Len(in'[s].handled) = Len(h) + 1
      /\ \A i \in 1 .. Len(h) + 1 : in'[s].handled[i] = i
  <2>1. /\ Len(Append(h, Len(h) + 1)) = Len(h) + 1
        /\ Append(h, Len(h) + 1)[Len(h) + 1] = Len(h) + 1
        /\ \A i \in 1 .. Len(h) : Append(h, Len(h) + 1)[i] = h[i]
    BY <1>2, AppendProperties
  <2>2. \A i \in 1 .. Len(h) + 1 : i \in 1 .. Len(h) \/ i = Len(h) + 1
    BY <1>2
  <2>3. in'[s].handled = Append(h, Len(h) + 1)
    BY DEF h
  <2> QED
    BY <1>2, <2>1, <2>2, <2>3
<1>4. HandledInv'
  <2>1. /\ Len(in'[s].handled) <= made'[Other(s)]
        /\ \A i \in 1 .. Len(in'[s].handled) : in'[s].handled[i] = i
        /\ in'[s].expected = Len(in'[s].handled)
    BY <1>2, <1>3 DEF h
  <2>2. /\ Len(in'[o].handled) <= made'[Other(o)]
        /\ \A i \in 1 .. Len(in'[o].handled) : in'[o].handled[i] = i
        /\ in'[o].expected = Len(in'[o].handled)
    BY <1>0, <1>1 DEF HandledInv, o
  <2> QED
    BY <1>1, <2>1, <2>2 DEF HandledInv
<1>5. ASSUME Up(Other(o))'
      PROVE  Flow(o)'
  <2> DEFINE a == Active(in[s])
             q == (SubSeq(a, a[1].len + 1, Len(a)) \o stream[o]) \o out[o]
  <2>1. /\ Framed(q, 0, Len(h) + 2, made[o])
        /\ Up(o) => Whole(q, 0, Len(h) + 2, made[o])
        /\ relogin = "no" => Sealed(q, 0, Expect(o))
    BY TurnPipe DEF h, o
  <2>2. Pipe(o)' = q
    BY <1>1 DEF Pipe
  <2>3. Len(in'[Other(o)].handled) + 1 = Len(h) + 2
    BY <1>1, <1>2, <1>3
  <2>4. Waiting(o)' = 0 /\ (Up(o)' <=> Up(o)) /\ made'[o] = made[o]
    BY <1>1 DEF o
  <2>5. Expect(o)' = Expect(o)
    BY DEF Expect
  <2> HIDE DEF q
  <2>6. PipeInv(o)'
    BY <2>1, <2>2, <2>3, <2>4 DEF PipeInv
  <2>7. relogin' = "no" => Sealed(Pipe(o)', Waiting(o)', Expect(o)')
    BY <2>1, <2>2, <2>4, <2>5
  <2> QED
    BY <2>6, <2>7 DEF Flow
<1>6. ASSUME Up(Other(s))'
      PROVE  Flow(s)'
  <2>1. Up(Other(s)) /\ (Up(s)' => Up(s)) /\ Waiting(s)' = Waiting(s)
    BY <1>1, <1>6 DEF o
  <2>2. Flow(s)
    BY <2>1, Flows
  <2>3. Pipe(s)' = Pipe(s)
    BY <1>1 DEF Pipe, o
  <2> QED
    BY <2>1, <2>2, <2>3, KeepFlow
<1> QED
  BY <1>1, <1>4, <1>5, <1>6

\* The client's loop.
LEMMA ClientReadKeeps ==
  ASSUME WireInv, ClientReadCallback
  PROVE  WireInv'
<1> DEFINE r == in["client"]
           b == LoopTurn("client", r)
<1>0. TypeOK /\ StatusInv /\ "client" \in Sides /\ "server" \in Sides
  BY DEF WireInv, Sides
<1>1. /\ client = "connected" /\ Busy("client") /\ Up("client")
      /\ Waiting(Other("client")) = 0 /\ Other("client") = "server" /\ Other("server") = "client"
  BY DEF ClientReadCallback, Up, Waiting, Other
<1>2. /\ in' = [in EXCEPT !["client"] = b]
      /\ IF in'["client"].code \in {"ok", "busy"} THEN UNCHANGED <<client, out, armed>>
         ELSE OnDisconnect
      /\ UNCHANGED <<server, writing, reading, stream, iv, key, made, used, relogin>>
  BY DEF ClientReadCallback
<1>3. /\ b \in Readers /\ b.data = r.data /\ b.size = r.size /\ b.rpos <= Len(b.data)
      /\ \/ b = [r EXCEPT !.code = "ok"] /\ Len(Active(r)) < BufSize
         \/ /\ b = [r EXCEPT !.code = DecryptCode("client", r)] /\ relogin # "no"
            /\ b.code \notin {"ok", "busy"}
         \/ /\ b.code = "busy" /\ Active(r) # <<>> /\ Active(r)[1].len <= Len(Active(r))
            /\ Active(b) = SubSeq(Active(r), Active(r)[1].len + 1, Len(Active(r)))
            /\ b.handled = Append(r.handled, Len(r.handled) + 1)
            /\ Len(r.handled) + 1 <= made["server"]
            /\ b.expected = r.expected + 1
            /\ b.prefix = IF "client" = "server" /\ r.prefix = 0 THEN Active(r)[1].prefix ELSE r.prefix
  BY <1>0, <1>1, Turn
<1>4. r \in Readers /\ r.code = "busy"
  BY <1>0, <1>1, Typed DEF Busy
<1> HIDE DEF b
<1>5. in'["client"] = b /\ in'["server"] = in["server"] /\ in' \in [Sides -> Readers]
  BY <1>0, <1>2, <1>3 DEF TypeOK, Sides
<1>6. ASSUME UNCHANGED <<client, out, armed>>, b.code \in {"ok", "busy"},
             b.code = "ok" => Len(Active(b)) < BufSize
      PROVE  TypeOK' /\ StatusInv'
  <2>1. TypeOK'
    BY <1>0, <1>2, <1>3, <1>5, <1>6 DEF TypeOK, Sides
  <2>2. StatusInv'
    <3>1. Up("client")' /\ ~Busy("client")' => Len(Active(in'["client"])) < BufSize
      BY <1>5, <1>6 DEF Busy
    <3>2. \A s \in Sides : Up(s)' => in'[s].code \in {"ok", "busy"}
      BY <1>0, <1>2, <1>5, <1>6 DEF StatusInv, Sides, Up
    <3>3. Busy("server")' <=> Busy("server")
      BY <1>5 DEF Busy
    <3> QED
      BY <1>0, <1>2, <1>5, <1>6, <3>1, <3>2, <3>3 DEF StatusInv
  <2> QED
    BY <2>1, <2>2
<1>7. CASE b = [r EXCEPT !.code = "ok"] /\ Len(Active(r)) < BufSize
  <2> HIDE DEF r
  <2>1. /\ b.code = "ok" /\ Active(b) = Active(r)
        /\ b.handled = r.handled /\ b.expected = r.expected /\ b.prefix = r.prefix
    BY <1>4, <1>7, CodeSet
  <2>2. UNCHANGED <<client, out, armed>>
    BY <1>2, <1>5, <2>1
  <2>3. TypeOK' /\ StatusInv'
    BY <1>6, <1>7, <2>1, <2>2
  <2>4. \A s \in Sides : /\ in'[s].handled = in[s].handled /\ in'[s].expected = in[s].expected
                         /\ in'[s].prefix = in[s].prefix /\ Active(in'[s]) = Active(in[s])
                         /\ relogin = "no" => in'[s].code \in {"ok", "busy"}
    BY <1>5, <2>1 DEF WireInv, LoginInv, Sides, r
  <2>5. ASSUME NEW s \in Sides, Up(Other(s))'
        PROVE  Flow(s)'
    <3>1. Up(Other(s)) /\ (Up(s)' => Up(s)) /\ Waiting(s)' = Waiting(s)
      BY <1>2, <2>2, <2>5 DEF Up, Waiting
    <3>2. Pipe(s)' = Pipe(s) /\ in'[Other(s)].handled = in[Other(s)].handled
      BY <1>2, <2>2, <2>4, SamePipe, OtherSides
    <3>3. Flow(s)
      BY <3>1, Flows
    <3> QED
      BY <1>2, <3>1, <3>2, <3>3, KeepFlow
  <2> QED
    BY <1>2, <2>3, <2>4, <2>5, QuietStep
<1>8. CASE /\ b = [r EXCEPT !.code = DecryptCode("client", r)] /\ relogin # "no"
           /\ b.code \notin {"ok", "busy"}
  <2>1. OnDisconnect
    BY <1>2, <1>5, <1>8
  <2>2. b.handled = r.handled /\ b.expected = r.expected /\ b.prefix = r.prefix
    BY <1>4, <1>8 DEF Readers
  <2>3. b.rpos <= Len(r.data)
    BY <1>3
  <2> QED
    BY <1>2, <1>3, <1>5, <1>8, <2>1, <2>2, <2>3, DisconnectKeeps
<1>9. CASE /\ b.code = "busy" /\ Active(r) # <<>> /\ Active(r)[1].len <= Len(Active(r))
           /\ Active(b) = SubSeq(Active(r), Active(r)[1].len + 1, Len(Active(r)))
           /\ b.handled = Append(r.handled, Len(r.handled) + 1)
           /\ Len(r.handled) + 1 <= made["server"]
           /\ b.expected = r.expected + 1
           /\ b.prefix = IF "client" = "server" /\ r.prefix = 0 THEN Active(r)[1].prefix ELSE r.prefix
  <2>1. UNCHANGED <<client, out, armed>>
    BY <1>2, <1>5, <1>9
  <2>2. TypeOK' /\ StatusInv'
    BY <1>6, <1>9, <2>1
  <2>3. \A x \in Sides : (Up(x)' <=> Up(x)) /\ Waiting(x)' = Waiting(x)
    BY <1>2, <2>1 DEF Up, Waiting
  <2>4. HandledInv' /\ \A x \in Sides : Up(Other(x))' => Flow(x)'
    BY <1>0, <1>1, <1>2, <1>5, <1>9, <2>1, <2>3, HandleFlow
  <2>5. \A x \in Sides : Up(Other(x))' => PipeInv(x)'
    BY <2>4 DEF Flow
  <2>6. ASSUME relogin' = "no"
        PROVE  LoginInv'
    <3>1. LoginInv /\ relogin = "no"
      BY <1>2, <2>6 DEF WireInv
    <3>2. \A x \in Sides : Up(Other(x))' => Sealed(Pipe(x)', Waiting(x)', Expect(x)')
      BY <2>4, <2>6 DEF Flow
    <3>3. \A x \in Sides : key'[x] = 1 /\ iv'[x].counter = made'[x] /\ in'[x].code \in {"ok", "busy"}
      BY <1>2, <1>5, <1>9, <3>1 DEF LoginInv, Sides
    <3> QED
      BY <1>2, <1>5, <3>1, <3>2, <3>3 DEF LoginInv
  <2> QED
    BY <2>2, <2>4, <2>5, <2>6 DEF WireInv
<1> QED
  BY <1>3, <1>7, <1>8, <1>9

\* The server's buffer b after a read or the end of the loop, in status st,
\* with the pipe of the client as it was.
LEMMA AsyncReadKeeps ==
  ASSUME WireInv, NEW b \in Readers, b.rpos <= Len(b.data), Len(Active(b)) < BufSize,
         b.code = "ok", server \in {"greet", "gathered", "authed"}, client # "connecting",
         AsyncRead(b, server),
         b.handled = in["server"].handled, b.expected = in["server"].expected,
         b.prefix = in["server"].prefix,
         UNCHANGED <<client, armed, iv, key, made, used, relogin>>,
         stream' \in [Sides -> Seq(Units)], \A s \in Sides : Len(stream'[s]) <= StreamSize,
         stream'["server"] = stream["server"],
         (Active(b) \o stream'["client"]) \o out["client"] = Pipe("client")
  PROVE  WireInv'
<1> DEFINE e == ForRecv(b)
<1>0. TypeOK /\ StatusInv /\ "client" \in Sides /\ "server" \in Sides
  BY DEF WireInv, Sides
<1>1. /\ e = [b EXCEPT !.data = Active(b), !.rpos = 0]
      /\ e \in Readers /\ Active(e) = Active(b) /\ Room(e) \in Nat \ {0}
  BY RoomForRecv
<1>2. /\ e.data = Active(b) /\ e.rpos = 0 /\ e.code = "ok" /\ e.size = b.size
      /\ e.handled = b.handled /\ e.expected = b.expected /\ e.prefix = b.prefix
  BY <1>1 DEF Readers
<1>3. /\ in' = [in EXCEPT !["server"] = e] /\ server' = server /\ reading' = TRUE
      /\ UNCHANGED <<out, writing>>
  BY <1>2 DEF AsyncRead
<1>4. Len(e.data) <= e.size /\ e.rpos <= Len(e.data)
  <2>1. e.data \in Seq(Units) /\ e.size \in BufSize .. BufMax
    BY <1>1 DEF Readers
  <2>2. Len(e.data) \in Nat
    BY <2>1, LenProperties
  <2> HIDE DEF e
  <2> QED
    BY <1>2, <2>1, <2>2, LengthsAssumption
<1> HIDE DEF e
<1>5. in'["server"] = e /\ in'["client"] = in["client"] /\ in' \in [Sides -> Readers]
  BY <1>0, <1>1, <1>3 DEF TypeOK, Sides
<1>6. TypeOK'
  <2>1. \A s \in Sides : Len(in'[s].data) <= in'[s].size /\ in'[s].rpos <= Len(in'[s].data)
    BY <1>0, <1>4, <1>5 DEF TypeOK, Sides
  <2> QED
    BY <1>0, <1>3, <1>5, <2>1 DEF TypeOK
<1>7. StatusInv'
  <2>1. ~Busy("server")' /\ (Busy("client")' <=> Busy("client"))
    BY <1>2, <1>5 DEF Busy
  <2>2. \A s \in Sides : Up(s)' => in'[s].code \in {"ok", "busy"}
    BY <1>0, <1>2, <1>3, <1>5 DEF StatusInv, Sides, Up
  <2>3. Up("client")' /\ ~Busy("client")' => Len(Active(in'["client"])) < BufSize
    BY <1>0, <1>5, <2>1 DEF StatusInv, Up
  <2>4. in'["server"].handled = in["server"].handled /\ in'["server"].code = "ok"
    BY <1>2, <1>5
  <2> QED
    BY <1>0, <1>3, <2>1, <2>2, <2>3, <2>4 DEF StatusInv
<1>8. \A s \in Sides : /\ in'[s].handled = in[s].handled /\ in'[s].expected = in[s].expected
                       /\ in'[s].prefix = in[s].prefix
                       /\ relogin = "no" => in'[s].code \in {"ok", "busy"}
  BY <1>2, <1>5 DEF WireInv, LoginInv, Sides
<1>9. Pipe("client")' = Pipe("client") /\ Pipe("server")' = Pipe("server")
  BY <1>1, <1>3, <1>5 DEF Pipe, Other
<1>10. ASSUME NEW s \in Sides, Up(Other(s))'
       PROVE  Flow(s)'
  <2>1. Up(Other(s)) /\ (Up(s)' => Up(s)) /\ Waiting(s)' = Waiting(s)
    BY <1>3, <1>10 DEF Up, Waiting
  <2>2. Pipe(s)' = Pipe(s) /\ in'[Other(s)].handled = in[Other(s)].handled
    BY <1>8, <1>9, OtherSides DEF Sides
  <2>3. Flow(s)
    BY <2>1, Flows
  <2> QED
    BY <2>1, <2>2, <2>3, KeepFlow
<1> QED
  BY <1>3, <1>6, <1>7, <1>8, <1>10, QuietStep

\* The loop begins with the buffer as b, in status st.
LEMMA BeginKeeps ==
  ASSUME WireInv, NEW b \in Readers, b.rpos <= Len(b.data), Len(b.data) <= b.size,
         BeginPackets(b), server \in {"pending", "gathered", "authed"},
         server' = IF server = "pending" THEN "gathered" ELSE server,
         b.handled = in["server"].handled, b.expected = in["server"].expected,
         b.prefix = in["server"].prefix,
         UNCHANGED <<client, armed, key, made, used, relogin>>,
         stream' \in [Sides -> Seq(Units)], \A s \in Sides : Len(stream'[s]) <= StreamSize,
         stream'["server"] = stream["server"],
         (Active(b) \o stream'["client"]) \o out["client"] = Pipe("client")
  PROVE  WireInv'
<1> DEFINE e == [b EXCEPT !.code = "busy"]
<1>0. TypeOK /\ StatusInv /\ "client" \in Sides /\ "server" \in Sides
  BY DEF WireInv, Sides
<1>1. in' = [in EXCEPT !["server"] = e] /\ reading' = FALSE /\ UNCHANGED <<out, writing, iv>>
  BY DEF BeginPackets
<1>2. /\ e \in Readers /\ Active(e) = Active(b)
      /\ e.data = b.data /\ e.rpos = b.rpos /\ e.size = b.size /\ e.expected = b.expected
      /\ e.prefix = b.prefix /\ e.handled = b.handled /\ e.code = "busy"
  BY CodeSet
<1> HIDE DEF e
<1>5. in'["server"] = e /\ in'["client"] = in["client"] /\ in' \in [Sides -> Readers]
  BY <1>0, <1>1, <1>2 DEF TypeOK, Sides
<1>6. TypeOK'
  <2>1. \A s \in Sides : Len(in'[s].data) <= in'[s].size /\ in'[s].rpos <= Len(in'[s].data)
    BY <1>0, <1>2, <1>5 DEF TypeOK, Sides
  <2> QED
    BY <1>0, <1>1, <1>5, <2>1 DEF TypeOK
<1>7. StatusInv'
  <2>1. Busy("server")' /\ (Busy("client")' <=> Busy("client")) /\ server' \in {"gathered", "authed"}
    BY <1>2, <1>5 DEF Busy
  <2>2. \A s \in Sides : Up(s)' => in'[s].code \in {"ok", "busy"}
    BY <1>0, <1>1, <1>2, <1>5 DEF StatusInv, Sides, Up
  <2>3. Up("client")' /\ ~Busy("client")' => Len(Active(in'["client"])) < BufSize
    BY <1>0, <1>5, <2>1 DEF StatusInv, Up
  <2>4. in'["server"].handled = in["server"].handled /\ client # "connecting"
    BY <1>0, <1>2, <1>5 DEF StatusInv
  <2>5. server' = "gathered" => server \in {"pending", "gathered"}
    OBVIOUS
  <2> QED
    BY <1>0, <1>1, <2>1, <2>2, <2>3, <2>4, <2>5 DEF StatusInv
<1>8. \A s \in Sides : /\ in'[s].handled = in[s].handled /\ in'[s].expected = in[s].expected
                       /\ in'[s].prefix = in[s].prefix
                       /\ relogin = "no" => in'[s].code \in {"ok", "busy"}
  BY <1>2, <1>5 DEF WireInv, LoginInv, Sides
<1>9. Pipe("client")' = Pipe("client") /\ Pipe("server")' = Pipe("server")
  BY <1>1, <1>2, <1>5 DEF Pipe, Other
<1>10. ASSUME NEW s \in Sides, Up(Other(s))'
       PROVE  Flow(s)'
  <2>1. Up(Other(s)) /\ (Up(s)' => Up(s)) /\ Waiting(s)' = Waiting(s)
    BY <1>10 DEF Up, Waiting
  <2>2. Pipe(s)' = Pipe(s) /\ in'[Other(s)].handled = in[Other(s)].handled
    BY <1>8, <1>9, OtherSides DEF Sides
  <2>3. Flow(s)
    BY <2>1, Flows
  <2> QED
    BY <1>1, <2>1, <2>2, <2>3, KeepFlow
<1>11. server' = "authed" => server = "authed"
  OBVIOUS
<1> QED
  BY <1>1, <1>6, <1>7, <1>8, <1>10, <1>11, QuietStep

LEMMA GreetcodeLookupKeeps ==
  ASSUME WireInv, DBCallback_GreetcodeLookup
  PROVE  WireInv'
<1>0. TypeOK /\ "server" \in Sides /\ "client" \in Sides
  BY DEF WireInv, Sides
<1>1. server = "pending" /\ UNCHANGED <<client, armed, stream, key, made, used, relogin>>
  BY DEF DBCallback_GreetcodeLookup
<1>2. /\ in["server"] \in Readers /\ in["server"].rpos <= Len(in["server"].data)
      /\ Len(in["server"].data) <= in["server"].size /\ in \in [Sides -> Readers]
      /\ stream \in [Sides -> Seq(Units)] /\ \A s \in Sides : Len(stream[s]) <= StreamSize
  BY <1>0 DEF TypeOK
<1>3. CASE server' = "gathered" /\ BeginPackets(in["server"])
  <2>1. (Active(in["server"]) \o stream'["client"]) \o out["client"] = Pipe("client")
    BY <1>1 DEF Pipe, Other
  <2> QED
    BY <1>1, <1>2, <1>3, <2>1, BeginKeeps
<1>4. CASE CloseSocket /\ UNCHANGED <<in, iv>>
  <2>1. relogin = "no" => in["server"].code \in {"ok", "busy"}
    BY <1>0 DEF WireInv, LoginInv
  <2> QED
    BY <1>1, <1>2, <1>4, <2>1, CloseKeeps
<1> QED
  BY <1>3, <1>4 DEF DBCallback_GreetcodeLookup

\* The greetcode is there, and its row is looked up.
LEMMA GreetcodeReadKeeps ==
  ASSUME WireInv, NEW b \in Readers, b.rpos <= Len(b.data), Len(b.data) <= b.size,
         server = "greet", server' = "pending", client # "connecting",
         b.code = in["server"].code, GreetLen <= Len(Active(b)),
         in' = [in EXCEPT !["server"] = [b EXCEPT !.rpos = @ + GreetLen]], reading' = FALSE,
         b.handled = in["server"].handled, b.expected = in["server"].expected,
         b.prefix = in["server"].prefix,
         UNCHANGED <<client, armed, out, writing, iv, key, made, used, relogin>>,
         stream' \in [Sides -> Seq(Units)], \A s \in Sides : Len(stream'[s]) <= StreamSize,
         stream'["server"] = stream["server"],
         (Active(b) \o stream'["client"]) \o out["client"] = Pipe("client")
  PROVE  WireInv'
<1> DEFINE e == [b EXCEPT !.rpos = @ + GreetLen]
           a == Active(b)
           q == Pipe("client")
           n == Len(in["server"].handled) + 1
           m == made["client"]
<1>0. TypeOK /\ StatusInv /\ "client" \in Sides /\ "server" \in Sides
  BY DEF WireInv, Sides
<1>1. /\ b.data \in Seq(Units) /\ b.rpos \in Nat /\ Len(b.data) \in Nat /\ GreetLen \in Nat
      /\ a \in Seq(Units) /\ Len(a) = Len(b.data) - b.rpos
  BY ActiveAt, LenProperties, LengthsAssumption
<1>2. /\ e \in Readers /\ e.data = b.data /\ e.rpos = b.rpos + GreetLen /\ e.size = b.size
      /\ e.expected = b.expected /\ e.prefix = b.prefix /\ e.handled = b.handled /\ e.code = b.code
  <2>1. b.rpos + GreetLen \in Nat
    BY <1>1
  <2> DEFINE k == b.rpos + GreetLen
  <2>2. e = [b EXCEPT !.rpos = k]
    BY DEF Readers
  <2> HIDE DEF e, k
  <2>3. k \in Nat
    BY <2>1 DEF k
  <2>4. /\ e \in Readers /\ e.data = b.data /\ e.rpos = k /\ e.size = b.size
        /\ e.expected = b.expected /\ e.prefix = b.prefix /\ e.handled = b.handled /\ e.code = b.code
    BY <2>2, <2>3 DEF Readers
  <2> QED
    BY <2>4 DEF k
<1> HIDE DEF e
<1>3. e.rpos <= Len(e.data)
  <2> HIDE DEF a
  <2>1. GreetLen <= Len(a)
    BY DEF a
  <2> QED
    BY <1>1, <1>2, <2>1
<1>4. GreetLen \in 0 .. Len(a)
  BY <1>1
<1>5. Active(e) = SubSeq(a, GreetLen + 1, Len(a))
  BY <1>2, <1>4, ActiveSkipped DEF Active
<1>6. in'["server"] = e /\ in'["client"] = in["client"] /\ in' \in [Sides -> Readers]
  BY <1>0, <1>2 DEF TypeOK, Sides, e
<1>7. TypeOK'
  <2>1. \A s \in Sides : Len(in'[s].data) <= in'[s].size /\ in'[s].rpos <= Len(in'[s].data)
    BY <1>0, <1>2, <1>3, <1>6 DEF TypeOK, Sides
  <2> QED
    BY <1>0, <1>6, <2>1 DEF TypeOK
<1>8. StatusInv'
  <2>1. (Busy("server")' => Busy("server")) /\ (Busy("client")' <=> Busy("client"))
    BY <1>2, <1>6 DEF Busy
  <2>2. \A s \in Sides : Up(s)' => in'[s].code \in {"ok", "busy"}
    BY <1>0, <1>2, <1>6 DEF StatusInv, Sides, Up
  <2>3. Up("client")' /\ ~Busy("client")' => Len(Active(in'["client"])) < BufSize
    BY <1>0, <1>6, <2>1 DEF StatusInv, Up
  <2>4. in'["server"].handled = in["server"].handled /\ ~Busy("server")
    BY <1>0, <1>2, <1>6 DEF StatusInv
  <2> QED
    BY <1>0, <2>1, <2>2, <2>3, <2>4 DEF StatusInv
<1>9. \A s \in Sides : /\ in'[s].handled = in[s].handled /\ in'[s].expected = in[s].expected
                       /\ in'[s].prefix = in[s].prefix
                       /\ relogin = "no" => in'[s].code \in {"ok", "busy"}
  BY <1>2, <1>6 DEF WireInv, LoginInv, Sides
<1>10. Flow("client")'
  <2>1. Flow("client") /\ Waiting("client") = GreetLen /\ Waiting("client")' = 0
    BY <1>0, Flows DEF Up, Other, Waiting
  <2>2. stream'["client"] \in Seq(Units) /\ out["client"] \in Seq(Units)
    BY <1>0, Typed
  <2>3. /\ q \in Seq(Units) /\ GreetLen \in 0 .. Len(q)
        /\ Pipe("client")' = SubSeq(q, GreetLen + 1, Len(q))
    <3>1. LET p == (a \o stream'["client"]) \o out["client"] IN
          /\ p \in Seq(Units) /\ GreetLen \in 0 .. Len(p)
          /\ (SubSeq(a, GreetLen + 1, Len(a)) \o stream'["client"]) \o out["client"]
               = SubSeq(p, GreetLen + 1, Len(p))
      <4> DEFINE x == stream'["client"]
                 y == out["client"]
      <4>1. a \in Seq(Units) /\ x \in Seq(Units) /\ y \in Seq(Units)
        BY <1>1, <2>2
      <4> HIDE DEF a, q, n, m, x, y
      <4> DEFINE w == a \o x
      <4>2. w \in Seq(Units) /\ GreetLen \in 0 .. Len(w)
        <5>1. w \in Seq(Units) /\ Len(w) = Len(a) + Len(x)
          BY <4>1, ConcatLen
        <5> QED
          BY <1>1, <1>4, <4>1, <5>1, LenProperties
      <4>3. SubSeq(a, GreetLen + 1, Len(a)) \o x = SubSeq(w, GreetLen + 1, Len(w))
        BY <1>4, <4>1, RestOfConcat
      <4> HIDE DEF w
      <4>4. w \o y \in Seq(Units) /\ GreetLen \in 0 .. Len(w \o y)
        <5>1. w \o y \in Seq(Units) /\ Len(w \o y) = Len(w) + Len(y)
          BY <4>1, <4>2, ConcatLen
        <5> QED
          BY <4>1, <4>2, <5>1, LenProperties
      <4>5. SubSeq(w, GreetLen + 1, Len(w)) \o y = SubSeq(w \o y, GreetLen + 1, Len(w \o y))
        BY <4>1, <4>2, RestOfConcat
      <4> QED
        BY <4>3, <4>4, <4>5 DEF w, x, y
    <3>2. Pipe("client")' = (SubSeq(a, GreetLen + 1, Len(a)) \o stream'["client"]) \o out["client"]
      BY <1>5, <1>6 DEF Pipe, Other
    <3> QED
      BY <3>1, <3>2
  <2>4. /\ Framed(q, GreetLen, n, m) /\ (Up("client") => Whole(q, GreetLen, n, m))
        /\ relogin = "no" => Sealed(q, GreetLen, Expect("client"))
    BY <2>1 DEF Flow, PipeInv, Other
  <2>5. n \in Nat /\ m \in Nat
    BY <1>0, Typed
  <2> DEFINE r == SubSeq(q, GreetLen + 1, Len(q))
  <2>6. Len(in'["server"].handled) + 1 = n /\ made'["client"] = m /\ (Up("client")' <=> Up("client"))
    BY <1>9 DEF Up
  <2>7. Expect("client")' = Expect("client")
    BY DEF Expect
  <2> HIDE DEF q, n, m
  <2>8. Framed(r, 0, n, m) /\ (Whole(q, GreetLen, n, m) => Whole(r, 0, n, m))
    BY <2>3, <2>4, <2>5, GreetDone
  <2>9. relogin = "no" => Sealed(r, 0, Expect("client"))
    <3>1. GreetLen <= GreetLen
      BY <1>1
    <3> QED
      BY <1>1, <2>3, <2>4, <3>1, RestSealed
  <2> HIDE DEF r
  <2>10. Pipe("client")' = r
    BY <2>3 DEF r
  <2>11. PipeInv("client")'
    BY <2>1, <2>4, <2>6, <2>8, <2>10 DEF PipeInv, Other
  <2> QED
    BY <2>1, <2>7, <2>9, <2>10, <2>11 DEF Flow
<1>11. ASSUME Up(Other("server"))'
       PROVE  Flow("server")'
  <2>1. Up(Other("server")) /\ (Up("server")' => Up("server"))
        /\ Waiting("server")' = Waiting("server")
    BY <1>11 DEF Up, Waiting, Other
  <2>2. Pipe("server")' = Pipe("server") /\ in'[Other("server")].handled = in[Other("server")].handled
    BY <1>6 DEF Pipe, Other
  <2>3. Flow("server")
    BY <1>0, <2>1, Flows
  <2> QED
    BY <1>0, <2>1, <2>2, <2>3, KeepFlow
<1>12. \A s \in Sides : Up(Other(s))' => Flow(s)'
  BY <1>10, <1>11 DEF Sides
<1> QED
  BY <1>7, <1>8, <1>9, <1>12, QuietStep

\* The server's read.
LEMMA ReadKeeps ==
  ASSUME WireInv, InternalReadCallback
  PROVE  WireInv'
<1>0. TypeOK /\ StatusInv /\ "server" \in Sides /\ "client" \in Sides
  BY DEF WireInv, Sides
<1>1. reading /\ UNCHANGED <<client, armed, key, made, used, relogin>>
  BY DEF InternalReadCallback
<1>2. /\ in["server"] \in Readers /\ in["server"].rpos <= Len(in["server"].data)
      /\ Len(in["server"].data) <= in["server"].size /\ in \in [Sides -> Readers]
      /\ stream \in [Sides -> Seq(Units)] /\ \A s \in Sides : Len(stream[s]) <= StreamSize
  BY <1>0 DEF TypeOK
<1>3. server \in {"greet", "gathered", "authed"} /\ in["server"].code = "ok"
  BY <1>0, <1>1 DEF StatusInv
<1>4. CASE /\ client = "gone" /\ stream["client"] = <<>>
           /\ CloseSocket
           /\ UNCHANGED <<stream, in, iv>>
  <2>1. relogin = "no" => in["server"].code \in {"ok", "busy"}
    BY <1>3
  <2> QED
    BY <1>1, <1>2, <1>4, <2>1, CloseKeeps
<1>5. ASSUME NEW r \in 1 .. Smaller(Room(in["server"]), Len(stream["client"])),
             stream' = [stream EXCEPT !["client"] = SubSeq(@, r + 1, Len(@))],
             IF server = "greet" THEN ReadGreetcode(Received("server", in["server"], r))
             ELSE BeginPackets(Received("server", in["server"], r)) /\ UNCHANGED server
      PROVE  WireInv'
  <2> DEFINE b == Received("server", in["server"], r)
             st == stream["client"]
  <2>1. st \in Seq(Units) /\ Len(st) \in Nat /\ out["client"] \in Seq(Units)
    BY <1>0, Typed, LenProperties
  <2>2. Len(in["server"].data) \in Nat /\ in["server"].size \in Nat
    <3>1. in["server"].data \in Seq(Units) /\ in["server"].size \in BufSize .. BufMax
      BY <1>2 DEF Readers
    <3> QED
      BY <3>1, LenProperties, LengthsAssumption
  <2>3. r \in 0 .. Len(st) /\ r \in Nat /\ r >= 1 /\ Len(in["server"].data) + r <= in["server"].size
    <3>1. Room(in["server"]) = in["server"].size - Len(in["server"].data)
      BY DEF Room
    <3>2. r \in Nat /\ 1 <= r /\ r <= Room(in["server"]) /\ r <= Len(st)
      <4> HIDE DEF st
      <4>1. r \in 1 .. Smaller(Room(in["server"]), Len(st))
        BY DEF st
      <4>2. Room(in["server"]) \in Int
        BY <2>2, <3>1
      <4> QED
        BY <2>1, <4>1, <4>2 DEF Smaller
    <3> QED
      BY <2>1, <2>2, <3>1, <3>2
  <2>4. b = [in["server"] EXCEPT !.data = @ \o SubSeq(st, 1, r)]
    BY DEF Received, Other
  <2> HIDE DEF b
  <2>5. /\ b \in Readers /\ b.rpos <= Len(b.data) /\ Len(b.data) = Len(in["server"].data) + r
        /\ Active(b) = Active(in["server"]) \o SubSeq(st, 1, r) /\ Active(b) \in Seq(Units)
        /\ b.size = in["server"].size /\ b.expected = in["server"].expected
        /\ b.prefix = in["server"].prefix /\ b.handled = in["server"].handled /\ b.code = "ok"
    <3>1. LET c == [in["server"] EXCEPT !.data = @ \o SubSeq(st, 1, r)] IN
          /\ c \in Readers /\ c.rpos <= Len(c.data) /\ Len(c.data) = Len(in["server"].data) + r
          /\ Active(c) = Active(in["server"]) \o SubSeq(st, 1, r) /\ Active(c) \in Seq(Units)
          /\ c.rpos = in["server"].rpos /\ c.size = in["server"].size
          /\ c.expected = in["server"].expected /\ c.prefix = in["server"].prefix
          /\ c.handled = in["server"].handled /\ c.code = in["server"].code
      <4> DEFINE d == in["server"]
      <4>1. d \in Readers /\ d.rpos <= Len(d.data) /\ st \in Seq(Units) /\ r \in 0 .. Len(st)
        BY <1>2, <2>1, <2>3
      <4> HIDE DEF d, st
      <4>2. LET c == [d EXCEPT !.data = @ \o SubSeq(st, 1, r)] IN
            /\ c \in Readers /\ c.rpos <= Len(c.data) /\ Len(c.data) = Len(d.data) + r
            /\ Active(c) = Active(d) \o SubSeq(st, 1, r) /\ Active(c) \in Seq(Units)
            /\ c.rpos = d.rpos /\ c.size = d.size /\ c.expected = d.expected
            /\ c.prefix = d.prefix /\ c.handled = d.handled /\ c.code = d.code
        BY <4>1, ReceivedReader
      <4> QED
        BY <4>2 DEF d
    <3> QED
      BY <1>3, <2>4, <3>1
  <2>6. Len(b.data) <= b.size
    BY <2>3, <2>5
  <2>7. stream'["client"] = SubSeq(st, r + 1, Len(st)) /\ stream'["server"] = stream["server"]
    BY <1>2, <1>5 DEF Sides
  <2>8. /\ SubSeq(st, r + 1, Len(st)) \in Seq(Units)
        /\ Len(SubSeq(st, r + 1, Len(st))) = Len(st) - r
    BY <2>1, <2>3, RestAt
  <2>9. stream' \in [Sides -> Seq(Units)] /\ \A s \in Sides : Len(stream'[s]) <= StreamSize
    <3>1. Len(stream'["client"]) <= StreamSize /\ Len(stream'["server"]) <= StreamSize
      <4>1. Len(st) <= StreamSize /\ Len(stream["server"]) <= StreamSize /\ StreamSize \in Nat
        BY <1>0, <1>2, LengthsAssumption
      <4> HIDE DEF st
      <4> QED
        BY <2>1, <2>3, <2>7, <2>8, <4>1
    <3>2. stream' = [stream EXCEPT !["client"] = SubSeq(st, r + 1, Len(st))]
      BY <1>5
    <3>3. stream' \in [Sides -> Seq(Units)]
      BY <1>0, <1>2, <2>8, <3>2
    <3> QED
      BY <3>1, <3>3 DEF Sides
  <2>10. (Active(b) \o stream'["client"]) \o out["client"] = Pipe("client")
    <3>1. Active(in["server"]) \in Seq(Units)
      BY <1>0, Typed
    <3>2. (Active(in["server"]) \o SubSeq(st, 1, r)) \o SubSeq(st, r + 1, Len(st))
            = Active(in["server"]) \o st
      BY <2>1, <2>3, <3>1, MoveFront
    <3> QED
      BY <2>5, <2>7, <3>2 DEF Pipe, Other
  <2>11. client # "connecting"
    <3>1. st # <<>>
      BY <2>1, <2>3, EmptySeq
    <3> QED
      BY <1>0, <3>1 DEF StatusInv
  <2>12. CASE server = "greet" /\ Len(Active(b)) < GreetLen
    <3>1. AsyncRead(b, server) /\ UNCHANGED iv
      BY <1>5, <2>12 DEF ReadGreetcode, b
    <3>2. Len(Active(b)) < BufSize
      <4>1. Len(Active(b)) \in Nat
        BY <2>5, LenProperties
      <4> QED
        BY <2>12, <4>1, LengthsAssumption
    <3> QED
      BY <1>1, <1>3, <2>5, <2>7, <2>9, <2>10, <2>11, <3>1, <3>2, AsyncReadKeeps
  <2>13. CASE server = "greet" /\ ~(Len(Active(b)) < GreetLen)
    <3>1. /\ in' = [in EXCEPT !["server"] = [b EXCEPT !.rpos = @ + GreetLen]]
          /\ server' = "pending" /\ reading' = FALSE /\ UNCHANGED <<out, writing, iv>>
      BY <1>5, <2>13 DEF ReadGreetcode, b
    <3>2. GreetLen <= Len(Active(b))
      <4>1. Len(Active(b)) \in Nat
        BY <2>5, LenProperties
      <4> QED
        BY <2>13, <4>1, LengthsAssumption
    <3> QED
      BY <1>1, <1>3, <2>5, <2>6, <2>7, <2>9, <2>10, <2>11, <2>13, <3>1, <3>2, GreetcodeReadKeeps
  <2>14. CASE server # "greet"
    <3>1. BeginPackets(b) /\ server' = server
      BY <1>5, <2>14 DEF b
    <3> QED
      BY <1>1, <1>3, <2>5, <2>6, <2>7, <2>9, <2>10, <2>14, <3>1, BeginKeeps
  <2> QED
    BY <2>12, <2>13, <2>14
<1> QED
  BY <1>4, <1>5 DEF InternalReadCallback

\* The server's loop.
LEMMA AsyncReadCallbackKeeps ==
  ASSUME WireInv, AsyncReadCallback
  PROVE  WireInv'
<1> DEFINE r == in["server"]
           b == LoopTurn("server", r)
<1>0. TypeOK /\ StatusInv /\ "client" \in Sides /\ "server" \in Sides
  BY DEF WireInv, Sides
<1>1. /\ IsOpen /\ Busy("server") /\ UNCHANGED <<client, armed, stream, key, made, used, relogin>>
      /\ server \in {"gathered", "authed"} /\ Up("server")
      /\ Waiting(Other("server")) = 0 /\ Other("client") = "server" /\ Other("server") = "client"
  BY <1>0 DEF AsyncReadCallback, IsOpen, StatusInv, Up, Waiting, Other
<1>2. /\ b \in Readers /\ b.data = r.data /\ b.size = r.size /\ b.rpos <= Len(b.data)
      /\ \/ b = [r EXCEPT !.code = "ok"] /\ Len(Active(r)) < BufSize
         \/ /\ b = [r EXCEPT !.code = DecryptCode("server", r)] /\ relogin # "no"
            /\ b.code \notin {"ok", "busy"}
         \/ /\ b.code = "busy" /\ Active(r) # <<>> /\ Active(r)[1].len <= Len(Active(r))
            /\ Active(b) = SubSeq(Active(r), Active(r)[1].len + 1, Len(Active(r)))
            /\ b.handled = Append(r.handled, Len(r.handled) + 1)
            /\ Len(r.handled) + 1 <= made["client"]
            /\ b.expected = r.expected + 1
            /\ b.prefix = IF "server" = "server" /\ r.prefix = 0 THEN Active(r)[1].prefix ELSE r.prefix
  BY <1>0, <1>1, Turn
<1>3. /\ r \in Readers /\ r.code = "busy" /\ in \in [Sides -> Readers] /\ client # "connecting"
      /\ stream \in [Sides -> Seq(Units)] /\ \A s \in Sides : Len(stream[s]) <= StreamSize
  BY <1>0, <1>1 DEF Busy, TypeOK, StatusInv
<1>4. relogin = "no" /\ Active(r) # <<>> => Active(r)[1].prefix = iv["client"].prefix
  <2>1. relogin = "no" /\ Active(r) # <<>> => Active(r)[1].prefix \in Expect("client")
    BY <1>0, <1>1, ActiveFront
  <2> QED
    BY <2>1 DEF Expect
<1>5. CASE /\ b.code = "busy"
           /\ in' = [in EXCEPT !["server"] = b]
           /\ server' = "authed"
           /\ IF server = "authed" THEN UNCHANGED iv
              ELSE \E p \in OwnPrefix(b.prefix) :
                     iv' = [iv EXCEPT !["server"] = [prefix |-> p, counter |-> 0]]
           /\ UNCHANGED <<out, writing, reading>>
  <2> HIDE DEF b
  <2>1. in'["server"] = b /\ in'["client"] = in["client"] /\ in' \in [Sides -> Readers]
    BY <1>2, <1>3, <1>5 DEF Sides
  <2>2. /\ Active(r) # <<>> /\ Active(r)[1].len <= Len(Active(r))
        /\ Active(b) = SubSeq(Active(r), Active(r)[1].len + 1, Len(Active(r)))
        /\ b.handled = Append(r.handled, Len(r.handled) + 1)
        /\ Len(r.handled) + 1 <= made["client"]
        /\ b.expected = r.expected + 1
        /\ b.prefix = IF r.prefix = 0 THEN Active(r)[1].prefix ELSE r.prefix
    <3>1. ~(b = [r EXCEPT !.code = "ok"])
      BY <1>3, <1>5 DEF Readers
    <3> QED
      BY <1>2, <1>5, <3>1
  <2>3. /\ iv' \in [Sides -> IVs] /\ iv'["client"] = iv["client"]
        /\ server = "authed" => iv' = iv
        /\ server # "authed" => iv'["server"].counter = 0 /\ iv'["server"].prefix # b.prefix
    <3>1. CASE server = "authed"
      BY <1>0, <1>5, <3>1 DEF TypeOK
    <3>2. CASE server # "authed"
      <4>1. PICK p \in OwnPrefix(b.prefix) : iv' = [iv EXCEPT !["server"] = [prefix |-> p, counter |-> 0]]
        BY <1>5, <3>2
      <4>2. p \in Prefixes /\ p # b.prefix /\ [prefix |-> p, counter |-> 0] \in IVs
        BY <4>1 DEF OwnPrefix, IVs
      <4>3. iv \in [Sides -> IVs]
        BY <1>0 DEF TypeOK
      <4> QED
        BY <3>2, <4>1, <4>2, <4>3 DEF Sides
    <3> QED
      BY <3>1, <3>2
  <2>4. TypeOK'
    <3>1. \A s \in Sides : Len(in'[s].data) <= in'[s].size /\ in'[s].rpos <= Len(in'[s].data)
      BY <1>0, <1>2, <2>1 DEF TypeOK, Sides
    <3> QED
      BY <1>0, <1>1, <1>5, <2>1, <2>3, <3>1 DEF TypeOK
  <2>5. StatusInv'
    <3>1. Busy("server")' /\ (Busy("client")' <=> Busy("client"))
      BY <1>5, <2>1 DEF Busy
    <3>2. \A s \in Sides : Up(s)' => in'[s].code \in {"ok", "busy"}
      BY <1>0, <1>1, <1>5, <2>1 DEF StatusInv, Sides, Up
    <3>3. Up("client")' /\ ~Busy("client")' => Len(Active(in'["client"])) < BufSize
      BY <1>0, <1>1, <2>1, <3>1 DEF StatusInv, Up
    <3>4. ~reading
      BY <1>0, <1>3 DEF StatusInv
    <3> QED
      BY <1>0, <1>1, <1>3, <1>5, <3>1, <3>2, <3>3, <3>4 DEF StatusInv
  <2>6. \A x \in Sides : (Up(x)' <=> Up(x)) /\ Waiting(x)' = Waiting(x)
    BY <1>1, <1>5 DEF Up, Waiting
  <2>7. HandledInv' /\ \A x \in Sides : Up(Other(x))' => Flow(x)'
    BY <1>0, <1>1, <1>5, <2>1, <2>2, <2>3, <2>6, HandleFlow
  <2>8. \A x \in Sides : Up(Other(x))' => PipeInv(x)'
    BY <2>7 DEF Flow
  <2>9. ASSUME relogin' = "no"
        PROVE  LoginInv'
    <3>1. LoginInv /\ relogin = "no"
      BY <1>1, <2>9 DEF WireInv
    <3>2. \A x \in Sides : Up(Other(x))' => Sealed(Pipe(x)', Waiting(x)', Expect(x)')
      BY <2>7, <2>9 DEF Flow
    <3>3. b.prefix = iv["client"].prefix
      BY <1>4, <2>2, <3>1 DEF LoginInv
    <3>4. iv'["client"].prefix # iv'["server"].prefix
      BY <2>3, <3>1, <3>3 DEF LoginInv
    <3>5. server # "authed" => made["server"] = 0
      BY <1>0, <1>1 DEF StatusInv
    <3>6. \A x \in Sides : key'[x] = 1 /\ iv'[x].counter = made'[x] /\ in'[x].code \in {"ok", "busy"}
      BY <1>1, <1>5, <2>1, <2>3, <3>1, <3>5 DEF LoginInv, Sides
    <3>7. ASSUME NEW i \in 1 .. Len(used')
          PROVE  \E x \in Sides : used'[i].prefix = iv'[x].prefix /\ used'[i].counter < made'[x]
      <4>1. used' = used /\ made' = made
        BY <1>1
      <4>2. PICK x \in Sides : used[i].prefix = iv[x].prefix /\ used[i].counter < made[x]
        BY <3>1, <3>7, <4>1 DEF LoginInv
      <4>3. iv'[x].prefix = iv[x].prefix
        <5>1. CASE x = "client" \/ server = "authed"
          BY <2>3, <5>1
        <5>2. CASE x = "server" /\ server # "authed"
          <6>1. used[i].counter \in Nat
            <7>1. used \in Seq(IVs) /\ i \in 1 .. Len(used)
              BY <1>0, <4>1 DEF TypeOK
            <7>2. used[i] \in IVs
              BY <7>1, ElementOfSeq
            <7> QED
              BY <7>2 DEF IVs
          <6> QED
            BY <3>5, <4>2, <5>2, <6>1
        <5> QED
          BY <5>1, <5>2 DEF Sides
      <4> QED
        BY <4>1, <4>2, <4>3
    <3>8. \A i, j \in 1 .. Len(used') : i # j => used'[i] # used'[j]
      BY <1>1, <3>1 DEF LoginInv
    <3>9. in'["server"].prefix \in {0, iv'["client"].prefix}
      BY <2>1, <2>3, <3>3
    <3> QED
      BY <3>2, <3>4, <3>6, <3>7, <3>8, <3>9 DEF LoginInv
  <2> QED
    BY <2>4, <2>5, <2>7, <2>8, <2>9 DEF WireInv
<1>6. CASE b.code = "ok" /\ AsyncRead(b, server) /\ UNCHANGED iv
  <2> HIDE DEF b
  <2>1. b = [r EXCEPT !.code = "ok"] /\ Len(Active(r)) < BufSize
    BY <1>2, <1>6
  <2>2. /\ Active(b) = Active(r) /\ b.handled = r.handled /\ b.expected = r.expected
        /\ b.prefix = r.prefix
    <3> HIDE DEF r
    <3> QED
      BY <1>3, <2>1, CodeSet
  <2>3. (Active(b) \o stream'["client"]) \o out["client"] = Pipe("client")
    BY <1>1, <2>2 DEF Pipe
  <2> QED
    BY <1>1, <1>2, <1>3, <1>6, <2>1, <2>2, <2>3, AsyncReadKeeps
<1>7. CASE /\ b.code \notin {"ok", "busy"}
           /\ in' = [in EXCEPT !["server"] = b]
           /\ CloseSocket
           /\ UNCHANGED iv
  <2> HIDE DEF b
  <2>1. b = [r EXCEPT !.code = DecryptCode("server", r)] /\ relogin # "no"
    <3>1. ~(b = [r EXCEPT !.code = "ok"])
      BY <1>3, <1>7 DEF Readers
    <3> QED
      BY <1>2, <1>7, <3>1
  <2>2. b.handled = r.handled /\ b.expected = r.expected /\ b.prefix = r.prefix
    BY <1>3, <2>1 DEF Readers
  <2>3. in'["server"] = b /\ in'["client"] = in["client"] /\ in' \in [Sides -> Readers]
    BY <1>2, <1>3, <1>7 DEF Sides
  <2>4. b.rpos <= Len(r.data)
    BY <1>2
  <2> QED
    BY <1>1, <1>2, <1>7, <2>1, <2>2, <2>3, <2>4, CloseKeeps
<1> QED
  BY <1>5, <1>6, <1>7 DEF AsyncReadCallback

------------------------------------------------------------------------------
(* The theorems.                                                           *)

LEMMA InitWire ==
  ASSUME Init
  PROVE  WireInv
<1>1. PICK p \in Prefixes, q \in Prefixes :
         iv = [client |-> [prefix |-> p, counter |-> 0], server |-> [prefix |-> q, counter |-> 0]]
  BY DEF Init
<1>2. /\ Reader \in Readers /\ Reader.data = <<>> /\ Reader.rpos = 0 /\ Reader.prefix = 0
      /\ Reader.handled = <<>> /\ Reader.code = "ok" /\ Reader.expected = 0 /\ Reader.size = BufSize
  <2>1. <<>> \in Seq(Units) /\ <<>> \in Seq(Nat) /\ BufSize \in BufSize .. BufMax
    BY EmptySeq, LengthsAssumption
  <2> QED
    BY <2>1 DEF Reader, Readers
<1> HIDE DEF Reader
<1>3. Len(<<>>) = 0 /\ <<>> \in Seq(Units) /\ <<>> \in Seq(IVs)
  BY EmptySeq
<1>4. TypeOK
  <2>1. iv \in [Sides -> IVs]
    <3>1. iv = [s \in Sides |-> IF s = "client" THEN [prefix |-> p, counter |-> 0]
                               ELSE [prefix |-> q, counter |-> 0]]
      BY <1>1 DEF Sides
    <3> QED
      BY <3>1 DEF IVs
  <2>2. \A s \in Sides : Len(stream[s]) <= StreamSize
    BY <1>3, LengthsAssumption DEF Init
  <2>3. \A s \in Sides : Len(in[s].data) <= in[s].size /\ in[s].rpos <= Len(in[s].data)
    BY <1>2, <1>3, LengthsAssumption DEF Init
  <2>4. made \in [Sides -> 0 .. MaxPackets] /\ key \in [Sides -> 1 .. 2]
    BY LengthsAssumption DEF Init
  <2> QED
    BY <1>2, <1>3, <2>1, <2>2, <2>3, <2>4 DEF Init, TypeOK
<1>5. \A s \in Sides : Active(in[s]) = <<>>
  <2>1. \A s \in Sides : in[s] = Reader
    BY DEF Init
  <2>2. Active(Reader) \in Seq(Units) /\ Len(Active(Reader)) = 0
    BY <1>2, <1>3, ActiveAt
  <2> QED
    BY <2>1, <2>2, EmptySeq
<1>6. StatusInv
  <2>1. Len(Active(in["client"])) < BufSize
    BY <1>3, <1>5, LengthsAssumption DEF Sides
  <2> QED
    BY <1>2, <2>1 DEF Init, StatusInv, Sides, Busy, Up
<1>7. HandledInv
  <2>1. \A s \in Sides : Other(s) \in Sides
    BY OtherSides
  <2> QED
    BY <1>2, <1>3, <2>1 DEF Init, HandledInv
<1>8. \A s \in Sides : Pipe(s) = <<>>
  <2>1. (<<>> \o <<>>) \o <<>> = <<>>
    BY <1>3, ConcatEmptySeq
  <2>2. \A s \in Sides : Active(in[Other(s)]) = <<>> /\ stream[s] = <<>> /\ out[s] = <<>>
    BY <1>5, OtherSides DEF Init
  <2> QED
    BY <2>1, <2>2 DEF Pipe
<1>9. \A s \in Sides : PipeInv(s)
  <2> SUFFICES ASSUME NEW s \in Sides
               PROVE  PipeInv(s)
    OBVIOUS
  <2>1. Len(in[Other(s)].handled) + 1 = 1 /\ made[s] = 0 /\ Waiting(s) \in Nat
    BY <1>2, <1>3, <1>4, OtherSides, Typed DEF Init
  <2>2. Framed(<<>>, Waiting(s), 1, 0) /\ Whole(<<>>, Waiting(s), 1, 0)
    BY <1>3, <2>1 DEF Framed, Whole
  <2> QED
    BY <1>8, <2>1, <2>2 DEF PipeInv
<1>10. LoginInv
  <2>1. \A s \in Sides : Sealed(Pipe(s), Waiting(s), Expect(s))
    <3>1. \A g, P : Sealed(<<>>, g, P)
      BY <1>3 DEF Sealed
    <3> QED
      BY <1>8, <3>1
  <2>2. \A s \in Sides : iv[s].counter = 0
    BY <1>1 DEF Sides
  <2>3. \A s \in Sides : in[s] = Reader /\ made[s] = 0 /\ key[s] = 1
    BY DEF Init
  <2>4. used = <<>> /\ server = "greet" /\ made["server"] = 0 /\ in["server"].prefix = 0
    BY <1>2 DEF Init, Sides
  <2> QED
    BY <1>2, <1>3, <2>1, <2>2, <2>3, <2>4 DEF LoginInv
<1> QED
  BY <1>4, <1>6, <1>7, <1>9, <1>10 DEF WireInv

LEMMA StutterKeepsWire ==
  ASSUME WireInv, UNCHANGED vars
  PROVE  WireInv'
<1>1. TypeOK' /\ StatusInv' /\ HandledInv'
  BY DEF vars, WireInv, TypeOK, StatusInv, HandledInv, Busy, Up
<1>2. ASSUME NEW s \in Sides, Up(Other(s))'
      PROVE  Flow(s)'
  <2>1. Up(Other(s)) /\ (Up(s)' => Up(s)) /\ Waiting(s)' = Waiting(s) /\ Pipe(s)' = Pipe(s)
    BY <1>2 DEF vars, Up, Waiting, Pipe
  <2>2. Flow(s)
    BY <2>1, Flows
  <2> QED
    BY <2>1, <2>2, KeepFlow DEF vars
<1>3. \A s \in Sides : relogin = "no" => in'[s].code \in {"ok", "busy"}
  BY DEF vars, WireInv, LoginInv
<1> QED
  BY <1>1, <1>2, <1>3, QuietStep DEF vars

LEMMA StepKeepsWire ==
  ASSUME WireInv, [Next]_vars
  PROVE  WireInv'
<1>1. CASE Client
  BY <1>1, ConnectKeeps, ClientPacketKeeps, NetworkKeeps, ClientReadKeeps, QuitKeeps DEF Client
<1>2. CASE Server
  BY <1>2, ReadKeeps, AsyncReadCallbackKeeps, WriteKeeps, GreetcodeLookupKeeps,
     ServerPacketKeeps, DropKeeps DEF Server
<1>3. CASE SendLoginProof \/ LoginProofResponse
  BY <1>3, LoginKeeps
<1>4. CASE UNCHANGED vars
  BY <1>4, StutterKeepsWire
<1> QED
  BY <1>1, <1>2, <1>3, <1>4 DEF Next

\* In every state, what one side has sent and the other has not consumed is
\* the packets after those it handled, one after the other, on whatever parts
\* of their way they are; and as long as the client does not log in again, they
\* are under the key, the prefix and the counter that the other side expects.
THEOREM WireCorrect == Spec => []WireInv
<1>1. Init => WireInv
  BY InitWire
<1>2. WireInv /\ [Next]_vars => WireInv'
  BY StepKeepsWire
<1> QED
  BY <1>1, <1>2, PTL DEF Spec

\* The buffers hold at most what they were enlarged to, and the streams what
\* the kernels hold.
THEOREM WireTypes == Spec => []TypeOK
<1>1. WireInv => TypeOK
  BY DEF WireInv
<1> QED
  BY <1>1, WireCorrect, PTL

\* Each side hands to its handlers the packets the other encrypted, once and in
\* order, and refuses none of them unless the client logs in again.
THEOREM HonestIsAccepted == Spec => []HonestAccepted
<1>1. WireInv => HonestAccepted
  <2> SUFFICES ASSUME WireInv, NEW s \in Sides
               PROVE  /\ Len(in[s].handled) <= made[Other(s)]
                      /\ \A i \in DOMAIN in[s].handled : in[s].handled[i] = i
                      /\ relogin = "no" => in[s].code \in {"ok", "busy"}
    BY DEF HonestAccepted
  <2>1. in[s].handled \in Seq(Nat)
    BY Typed DEF WireInv
  <2>2. DOMAIN in[s].handled = 1 .. Len(in[s].handled)
    BY <2>1, LenProperties
  <2>3. Len(in[s].handled) <= made[Other(s)] /\ \A i \in 1 .. Len(in[s].handled) : in[s].handled[i] = i
    BY DEF WireInv, HandledInv
  <2>4. relogin = "no" => in[s].code \in {"ok", "busy"}
    BY DEF WireInv, LoginInv
  <2> QED
    BY <2>2, <2>3, <2>4
<1> QED
  BY <1>1, WireCorrect, PTL

\* No two packets go out under the same IV, from whichever side, as long as the
\* client does not log in again.
THEOREM IVsAreFresh == Spec => []IVOnce
<1>1. WireInv => IVOnce
  <2> SUFFICES ASSUME WireInv, relogin = "no"
               PROVE  \A i, j \in DOMAIN used : i # j => used[i] # used[j]
    BY DEF IVOnce
  <2>1. used \in Seq(IVs)
    BY DEF WireInv, TypeOK
  <2>2. DOMAIN used = 1 .. Len(used)
    BY <2>1, LenProperties
  <2> QED
    BY <2>2 DEF WireInv, LoginInv
<1> QED
  BY <1>1, WireCorrect, PTL

==============================================================================
