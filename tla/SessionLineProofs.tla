------------------------- MODULE SessionLineProofs --------------------------
(***************************************************************************)
(* Proofs about Session on a line that is not clean.                       *)
(*                                                                         *)
(* info and health never put an answer together from pieces, be the line as*)
(* disturbed by late answers as it may.  The device sends whole messages   *)
(* and nothing is lost while the port is open, so what is ahead of the     *)
(* reader is unbroken: each part is followed by the rest of what it was    *)
(* sent with.  A query that has read a descriptor of its kind therefore has*)
(* the payload of that very answer ahead.                                  *)
(*                                                                         *)
(* And start_scan needs no stop before it.  On a line that was quiet when  *)
(* it began nothing but what its own flush removes can disturb it: at every*)
(* point of its program the line is calm, or its request is on its way, or *)
(* the scan's descriptor is first in the buffer.  And until a part is lost,*)
(* what follows the descriptor is nodes, whole and in order.               *)
(***************************************************************************)
EXTENDS SessionProofs

-----------------------------------------------------------------------------
(* What is ahead of the reader is unbroken.                                *)

(* What is ahead of the reader.                                            *)
Ahead == input \o wire

(* What the device sends in one go, by the kind of its first part.         *)
Unit(k, c) ==
  IF k = "info descriptor" THEN Answer("info", c)
  ELSE IF k = "health descriptor" THEN Answer("health", c) ELSE Message(k, c)

(* A part is followed by the rest of what it was sent with.                *)
Follows(s, i) ==
  \A j \in s[i].part .. Len(Unit(s[i].kind, s[i].call)) :
    /\ i + (j - s[i].part) <= Len(s)
    /\ s[i + (j - s[i].part)] = Unit(s[i].kind, s[i].call)[j]

Linked(s) == \A i \in 1..Len(s) : s[i].part >= 1 /\ Follows(s, i)

Starts(s, t) == Len(s) >= Len(t) /\ \A j \in 1..Len(t) : s[j] = t[j]

(* Unless something was cut, what was sent is unbroken, on the line and, in*)
(* an open Lidar, ahead of the reader; a query that waits for its payload  *)
(* has one ahead; and what it has returned is whole.                       *)
Unbroken ==
  ~torn =>
    /\ Linked(wire)
    /\ up /\ (op = "open" => prog = <<>>) => Linked(Ahead)
    /\ op \in Queries /\ Len(prog) = 1 =>
         \E c \in 0..MaxCalls : Starts(Ahead, Message(op, c))
    /\ op \in Queries /\ ret = "Ok" => Whole(got, op)

-----------------------------------------------------------------------------
(* Sequences and units.                                                    *)

(* Dropping from the front of two sequences.                               *)
LEMMA DropConcat ==
  ASSUME NEW S, NEW s \in Seq(S), NEW t \in Seq(S), NEW n \in Nat, n <= Len(s)
  PROVE  /\ s \o t \in Seq(S) /\ n <= Len(s \o t)
         /\ Drop(s, n) \o t = Drop(s \o t, n)
<1>1. /\ s \o t \in Seq(S) /\ Len(s \o t) = Len(s) + Len(t)
      /\ Len(s) \in Nat /\ Len(t) \in Nat
      /\ \A i \in 1 .. Len(s) + Len(t) :
           (s \o t)[i] = IF i <= Len(s) THEN s[i] ELSE t[i - Len(s)]
  BY ConcatProperties, LenProperties
<1>2. n <= Len(s \o t)
  BY <1>1
<1> DEFINE d == Drop(s, n)
           e == Drop(s \o t, n)
<1>3. d \in Seq(S) /\ Len(d) = Len(s) - n /\ \A i \in 1 .. Len(s) - n : d[i] = s[i + n]
  BY <1>1, SubSeqProperties, ElementOfSeq DEF Drop
<1>4. /\ e \in Seq(S) /\ Len(e) = Len(s \o t) - n
      /\ \A i \in 1 .. Len(s \o t) - n : e[i] = (s \o t)[i + n]
  BY <1>1, <1>2, SubSeqProperties, ElementOfSeq DEF Drop
<1> HIDE DEF d, e
<1>5. /\ d \o t \in Seq(S) /\ Len(d \o t) = Len(d) + Len(t)
      /\ \A i \in 1 .. Len(d) + Len(t) :
           (d \o t)[i] = IF i <= Len(d) THEN d[i] ELSE t[i - Len(d)]
  <2>1. d \in Seq(S)
    BY <1>3
  <2> QED BY <2>1, ConcatProperties
<1>6. Len(d \o t) = Len(e)
  BY <1>1, <1>3, <1>4, <1>5
<1>7. \A i \in 1 .. Len(e) : (d \o t)[i] = e[i]
  <2> TAKE i \in 1 .. Len(e)
  <2>1. i + n \in 1 .. Len(s) + Len(t) /\ e[i] = (s \o t)[i + n]
    BY <1>1, <1>4
  <2>2. CASE i <= Len(s) - n
    BY <1>1, <1>3, <1>4, <1>5, <2>1, <2>2
  <2>3. CASE ~(i <= Len(s) - n)
    <3>1. i \in 1 .. Len(d) + Len(t) /\ ~(i <= Len(d)) /\ i - Len(d) = i + n - Len(s)
      BY <1>1, <1>3, <1>4, <2>3
    <3>2. ~(i + n <= Len(s))
      BY <1>1, <2>3
    <3>3. (d \o t)[i] = t[i - Len(d)]
      BY <1>5, <3>1
    <3>4. (s \o t)[i + n] = t[i + n - Len(s)]
      BY <1>1, <2>1, <3>2
    <3> QED BY <2>1, <3>1, <3>3, <3>4
  <2> QED BY <2>2, <2>3
<1>8. d \o t = e
  BY <1>4, <1>5, <1>6, <1>7, SeqEqual
<1> QED BY <1>1, <1>2, <1>8 DEF d, e

(* What is left after n parts, part by part.                               *)
LEMMA Dropped ==
  ASSUME NEW S, NEW s \in Seq(S), NEW n \in Nat, n <= Len(s)
  PROVE  /\ Drop(s, n) \in Seq(S) /\ Len(Drop(s, n)) = Len(s) - n
         /\ \A i \in 1 .. Len(s) - n : Drop(s, n)[i] = s[i + n]
BY SubSeqProperties, ElementOfSeq, LenProperties DEF Drop

(* Units are sequences of parts.                                           *)
LEMMA UnitType ==
  ASSUME NEW k \in Kinds, NEW c \in 0..MaxCalls
  PROVE  /\ Unit(k, c) \in Seq(Part)
         /\ k \notin {"info descriptor", "health descriptor"} => Unit(k, c) = Message(k, c)
         /\ Unit("info descriptor", c) = Answer("info", c)
         /\ Unit("health descriptor", c) = Answer("health", c)
<1>1. \A q \in {"info", "health"} : Answer(q, c) \in Seq(Part)
  <2>1. {"info", "health", "info descriptor", "health descriptor"} \subseteq Kinds
    BY DEF Kinds, Sizes, Descriptors
  <2>2. \A x \in Kinds : Message(x, c) \in Seq(Part)
    BY MessageType
  <2> QED BY <2>1, <2>2, ConcatProperties DEF Answer
<1>2. Message(k, c) \in Seq(Part)
  BY MessageType
<1> QED BY <1>1, <1>2 DEF Unit

(* What is left of an unbroken stream is unbroken.                         *)
LEMMA LinkedDrop ==
  ASSUME NEW s \in Seq(Part), Linked(s), NEW n \in Nat, n <= Len(s)
  PROVE  Linked(Drop(s, n))
<1> DEFINE d == Drop(s, n)
<1>1. /\ d \in Seq(Part) /\ Len(d) = Len(s) - n /\ Len(s) \in Nat
      /\ \A i \in 1 .. Len(s) - n : d[i] = s[i + n]
  BY Dropped, LenProperties
<1> HIDE DEF d
<1>2. ASSUME NEW i \in 1..Len(d) PROVE d[i].part >= 1 /\ Follows(d, i)
  <2>1. i + n \in 1..Len(s) /\ d[i] = s[i + n]
    BY <1>1
  <2> DEFINE p == s[i + n].part
             u == Unit(s[i + n].kind, s[i + n].call)
  <2>2. s[i + n] \in Part
    BY <2>1, ElementOfSeq
  <2>3. /\ p \in Nat /\ p >= 1 /\ Len(u) \in Nat
        /\ \A j \in p .. Len(u) : (i + n) + (j - p) <= Len(s) /\ s[(i + n) + (j - p)] = u[j]
    <3>1. p \in Nat /\ u \in Seq(Part)
      BY <2>2, UnitType DEF Part
    <3> QED BY <2>1, <3>1, LenProperties DEF Linked, Follows
  <2> HIDE DEF p, u
  <2>4. \A j \in p .. Len(u) : i + (j - p) <= Len(d) /\ d[i + (j - p)] = u[j]
    <3> TAKE j \in p .. Len(u)
    <3>1. /\ i + (j - p) \in 1 .. Len(s) - n /\ (i + (j - p)) + n = (i + n) + (j - p)
          /\ (i + n) + (j - p) <= Len(s) /\ s[(i + n) + (j - p)] = u[j]
      BY <1>1, <2>1, <2>3
    <3> QED BY <1>1, <3>1
  <2> QED BY <2>1, <2>3, <2>4 DEF Follows, p, u
<1> QED BY <1>2 DEF Linked, d

(* So are two, one after the other,                                        *)
LEMMA LinkedConcat ==
  ASSUME NEW s \in Seq(Part), NEW t \in Seq(Part), Linked(s), Linked(t)
  PROVE  Linked(s \o t)
<1> DEFINE a == s \o t
<1>1. /\ a \in Seq(Part) /\ Len(a) = Len(s) + Len(t) /\ Len(s) \in Nat /\ Len(t) \in Nat
      /\ \A i \in 1 .. Len(s) + Len(t) : a[i] = IF i <= Len(s) THEN s[i] ELSE t[i - Len(s)]
  BY ConcatProperties, LenProperties
<1> HIDE DEF a
<1>2. ASSUME NEW i \in 1..Len(s) PROVE a[i].part >= 1 /\ Follows(a, i)
  <2> DEFINE p == s[i].part
             u == Unit(s[i].kind, s[i].call)
  <2>1. /\ p \in Nat /\ p >= 1 /\ Len(u) \in Nat
        /\ \A j \in p .. Len(u) : i + (j - p) <= Len(s) /\ s[i + (j - p)] = u[j]
    <3>1. s[i] \in Part
      BY ElementOfSeq
    <3>2. p \in Nat /\ u \in Seq(Part)
      BY <3>1, UnitType DEF Part
    <3> QED BY <3>2, LenProperties DEF Linked, Follows
  <2>2. a[i] = s[i]
    BY <1>1
  <2> HIDE DEF p, u
  <2>3. \A j \in p .. Len(u) : i + (j - p) <= Len(a) /\ a[i + (j - p)] = u[j]
    <3> TAKE j \in p .. Len(u)
    <3>1. i + (j - p) \in 1 .. Len(s) + Len(t) /\ i + (j - p) <= Len(s)
      BY <1>1, <2>1
    <3> QED BY <1>1, <2>1, <3>1
  <2> QED BY <2>1, <2>2, <2>3 DEF Follows, p, u
<1>3. ASSUME NEW i \in 1..Len(t) PROVE a[i + Len(s)].part >= 1 /\ Follows(a, i + Len(s))
  <2> DEFINE p == t[i].part
             u == Unit(t[i].kind, t[i].call)
  <2>1. /\ p \in Nat /\ p >= 1 /\ Len(u) \in Nat
        /\ \A j \in p .. Len(u) : i + (j - p) <= Len(t) /\ t[i + (j - p)] = u[j]
    <3>1. t[i] \in Part
      BY ElementOfSeq
    <3>2. p \in Nat /\ u \in Seq(Part)
      BY <3>1, UnitType DEF Part
    <3> QED BY <3>2, LenProperties DEF Linked, Follows
  <2>2. a[i + Len(s)] = t[i]
    <3>1. /\ i + Len(s) \in 1 .. Len(s) + Len(t) /\ ~(i + Len(s) <= Len(s))
          /\ (i + Len(s)) - Len(s) = i
      BY <1>1
    <3> QED BY <1>1, <3>1
  <2> HIDE DEF p, u
  <2>3. \A j \in p .. Len(u) :
          (i + Len(s)) + (j - p) <= Len(a) /\ a[(i + Len(s)) + (j - p)] = u[j]
    <3> TAKE j \in p .. Len(u)
    <3>1. /\ (i + Len(s)) + (j - p) \in 1 .. Len(s) + Len(t)
          /\ ~((i + Len(s)) + (j - p) <= Len(s))
          /\ ((i + Len(s)) + (j - p)) - Len(s) = i + (j - p)
      BY <1>1, <2>1
    <3>2. a[(i + Len(s)) + (j - p)] = t[i + (j - p)]
      BY <1>1, <3>1
    <3>3. (i + Len(s)) + (j - p) <= Len(a)
      BY <1>1, <3>1
    <3> QED BY <2>1, <3>2, <3>3
  <2> QED BY <2>1, <2>2, <2>3 DEF Follows, p, u
<1>4. \A i \in 1..Len(a) : i \in 1..Len(s) \/ (i - Len(s) \in 1..Len(t) /\ (i - Len(s)) + Len(s) = i)
  BY <1>1
<1>5. \A i \in 1..Len(a) : a[i].part >= 1 /\ Follows(a, i)
  <2> TAKE i \in 1..Len(a)
  <2>1. CASE i - Len(s) \in 1..Len(t) /\ (i - Len(s)) + Len(s) = i
    BY <1>3, <2>1
  <2> QED BY <1>2, <1>4, <2>1
<1> QED BY <1>5 DEF Linked, a

(* and all that the device sends in one go.                                *)
LEMMA UnitLinked ==
  ASSUME NEW k \in Kinds, NEW c \in 0..MaxCalls
  PROVE  Linked(Unit(k, c))
<1>1. \A x \in Kinds : /\ Message(x, c) \in Seq(Part) /\ Len(Message(x, c)) = Size(x)
                       /\ Size(x) \in Nat
                       /\ \A i \in 1..Size(x) :
                            Message(x, c)[i] = [kind |-> x, call |-> c, part |-> i]
  BY MessageType, SizeType DEF Message
<1>2. CASE k \notin {"info descriptor", "health descriptor"}
  <2>1. Unit(k, c) = Message(k, c)
    BY <1>2, UnitType
  <2>2. ASSUME NEW i \in 1..Size(k)
        PROVE  Message(k, c)[i].part >= 1 /\ Follows(Message(k, c), i)
    <3>1. Message(k, c)[i] = [kind |-> k, call |-> c, part |-> i]
      BY <1>1
    <3>2. /\ Message(k, c)[i].part = i
          /\ Unit(Message(k, c)[i].kind, Message(k, c)[i].call) = Message(k, c)
      BY <2>1, <3>1
    <3>3. \A j \in i .. Size(k) : i + (j - i) = j
      BY <1>1
    <3> QED BY <1>1, <3>2, <3>3 DEF Follows
  <2> QED BY <1>1, <2>1, <2>2 DEF Linked
<1>3. ASSUME NEW q \in {"info", "health"},
             k = IF q = "info" THEN "info descriptor" ELSE "health descriptor"
      PROVE  Linked(Unit(k, c))
  <2> DEFINE m == Message(k, c)
             n == Message(q, c)
             u == m \o n
  <2>1. q \in Kinds /\ q \notin {"info descriptor", "health descriptor"}
    BY DEF Kinds, Sizes
  <2>2. Unit(k, c) = u /\ Unit(q, c) = n
    BY <1>3, <2>1 DEF Unit, Answer
  <2>3. /\ Len(m) = Size(k) /\ Len(n) = Size(q) /\ Size(k) \in Nat /\ Size(q) \in Nat
        /\ u \in Seq(Part) /\ Len(u) = Size(k) + Size(q)
        /\ \A i \in 1 .. Size(k) + Size(q) :
             u[i] = IF i <= Size(k) THEN m[i] ELSE n[i - Size(k)]
    <3>1. /\ m \in Seq(Part) /\ n \in Seq(Part) /\ Len(m) = Size(k) /\ Len(n) = Size(q)
          /\ Size(k) \in Nat /\ Size(q) \in Nat
      BY <1>1, <2>1
    <3> HIDE DEF m, n
    <3>2. /\ u \in Seq(Part) /\ Len(u) = Len(m) + Len(n)
          /\ \A i \in 1 .. Len(m) + Len(n) :
               u[i] = IF i <= Len(m) THEN m[i] ELSE n[i - Len(m)]
      <4>1. m \in Seq(Part) /\ n \in Seq(Part)
        BY <3>1
      <4> QED BY <4>1, ConcatProperties
    <3> QED BY <3>1, <3>2
  <2>4. /\ \A i \in 1..Size(k) : m[i] = [kind |-> k, call |-> c, part |-> i]
        /\ \A i \in 1..Size(q) : n[i] = [kind |-> q, call |-> c, part |-> i]
    BY <1>1, <2>1
  <2> HIDE DEF m, n, u
  <2>5. ASSUME NEW i \in 1 .. Size(k) + Size(q), i <= Size(k)
        PROVE  u[i].part >= 1 /\ Follows(u, i)
    <3>1. u[i] = [kind |-> k, call |-> c, part |-> i]
      BY <2>3, <2>4, <2>5
    <3>2. u[i].part = i /\ Unit(u[i].kind, u[i].call) = u
      BY <2>2, <3>1
    <3>3. \A j \in i .. Len(u) : i + (j - i) = j
      BY <2>3
    <3> QED BY <2>3, <3>2, <3>3 DEF Follows
  <2>6. ASSUME NEW i \in 1 .. Size(k) + Size(q), ~(i <= Size(k))
        PROVE  u[i].part >= 1 /\ Follows(u, i)
    <3>1. i - Size(k) \in 1..Size(q) /\ u[i] = n[i - Size(k)]
      BY <2>3, <2>6
    <3>2. u[i] = [kind |-> q, call |-> c, part |-> i - Size(k)]
      BY <2>4, <3>1
    <3>3. u[i].part = i - Size(k) /\ Unit(u[i].kind, u[i].call) = n
      BY <2>2, <3>2
    <3>4. \A j \in i - Size(k) .. Size(q) :
            i + (j - (i - Size(k))) <= Len(u) /\ u[i + (j - (i - Size(k)))] = n[j]
      <4> TAKE j \in i - Size(k) .. Size(q)
      <4>1. /\ i \in Int /\ j \in Int /\ i - Size(k) >= 1 /\ j >= i - Size(k) /\ j <= Size(q)
            /\ Size(k) \in Nat
        BY <2>3, <2>6, <3>1
      <4>2. i + (j - (i - Size(k))) = j + Size(k)
        BY <4>1
      <4>3. /\ j + Size(k) \in 1 .. Size(k) + Size(q)
            /\ ~(j + Size(k) <= Size(k)) /\ (j + Size(k)) - Size(k) = j
        BY <2>3, <4>1
      <4> QED BY <2>3, <4>2, <4>3
    <3> QED BY <2>3, <3>1, <3>3, <3>4 DEF Follows
  <2> QED BY <2>2, <2>3, <2>5, <2>6 DEF Linked
<1> QED BY <1>2, <1>3

(* What starts a stream starts any continuation of it.                     *)
LEMMA StartsConcat ==
  ASSUME NEW s \in Seq(Part), NEW t \in Seq(Part), NEW m \in Seq(Part), Starts(s, m)
  PROVE  Starts(s \o t, m)
<1>1. /\ Len(s \o t) = Len(s) + Len(t) /\ Len(s) \in Nat /\ Len(t) \in Nat /\ Len(m) \in Nat
      /\ \A i \in 1 .. Len(s) + Len(t) :
           (s \o t)[i] = IF i <= Len(s) THEN s[i] ELSE t[i - Len(s)]
  BY ConcatProperties, LenProperties
<1> QED BY <1>1 DEF Starts

(* What a read of a started message takes.                                 *)
LEMMA TakeStart ==
  ASSUME NEW s \in Seq(Part), NEW t \in Seq(Part), NEW m \in Seq(Part), Starts(s \o t, m),
         Len(s) >= Len(m)
  PROVE  SubSeq(s, 1, Len(m)) = m
<1>1. /\ Len(s \o t) = Len(s) + Len(t) /\ Len(s) \in Nat /\ Len(t) \in Nat /\ Len(m) \in Nat
      /\ \A i \in 1 .. Len(s) + Len(t) :
           (s \o t)[i] = IF i <= Len(s) THEN s[i] ELSE t[i - Len(s)]
  BY ConcatProperties, LenProperties
<1>2. \A i \in 1 .. Len(m) : s[i] = m[i]
  BY <1>1 DEF Starts
<1>3. \A i \in 1 .. Len(m) : s[i] \in Part
  BY <1>1, ElementOfSeq
<1>4. /\ SubSeq(s, 1, Len(m)) \in Seq(Part) /\ Len(SubSeq(s, 1, Len(m))) = Len(m)
      /\ \A i \in 1 .. Len(m) : SubSeq(s, 1, Len(m))[i] = s[i]
  BY <1>1, <1>3, SubSeqProperties
<1> QED BY <1>2, <1>4, SeqEqual

(* What comes after m where m and n start together.                        *)
LEMMA RestStarts ==
  ASSUME NEW s \in Seq(Part), NEW m \in Seq(Part), NEW n \in Seq(Part), Starts(s, m \o n)
  PROVE  Starts(Drop(s, Len(m)), n)
<1>1. /\ Len(m \o n) = Len(m) + Len(n) /\ Len(s) \in Nat /\ Len(m) \in Nat /\ Len(n) \in Nat
      /\ \A i \in 1 .. Len(m) + Len(n) :
           (m \o n)[i] = IF i <= Len(m) THEN m[i] ELSE n[i - Len(m)]
  BY ConcatProperties, LenProperties
<1>2. Len(s) >= Len(m) + Len(n) /\ \A j \in 1 .. Len(m) + Len(n) : s[j] = (m \o n)[j]
  BY <1>1 DEF Starts
<1>3. /\ Len(Drop(s, Len(m))) = Len(s) - Len(m)
      /\ \A i \in 1 .. Len(s) - Len(m) : Drop(s, Len(m))[i] = s[i + Len(m)]
  <2>1. Len(m) \in Nat /\ Len(m) <= Len(s)
    BY <1>1, <1>2
  <2> QED BY <2>1, Dropped
<1>4. \A i \in 1 .. Len(n) : Drop(s, Len(m))[i] = n[i]
  <2> TAKE i \in 1 .. Len(n)
  <2>1. /\ i + Len(m) \in 1 .. Len(m) + Len(n) /\ ~(i + Len(m) <= Len(m))
        /\ (i + Len(m)) - Len(m) = i /\ i \in 1 .. Len(s) - Len(m)
    BY <1>1, <1>2
  <2> QED BY <1>1, <1>2, <1>3, <2>1
<1> QED BY <1>1, <1>2, <1>3, <1>4 DEF Starts

(* A descriptor that is read is followed by its payload.                   *)
LEMMA PayloadFollows ==
  ASSUME NEW s \in Seq(Part), Linked(s), NEW c \in 0..MaxCalls, NEW q \in Kinds, NEW k \in Kinds,
         Unit(k, c) = Message(k, c) \o Message(q, c), Starts(s, Message(k, c))
  PROVE  Starts(Drop(s, Size(k)), Message(q, c))
<1> DEFINE m == Message(k, c)
           n == Message(q, c)
           u == m \o n
<1>1. m \in Seq(Part) /\ n \in Seq(Part) /\ Len(m) = Size(k)
  BY MessageType
<1>2. Size(k) \in Nat \ {0} /\ m[1] = [kind |-> k, call |-> c, part |-> 1]
  <2>1. Size(k) \in Nat \ {0}
    BY SizeType
  <2>2. 1 \in 1..Size(k)
    BY <2>1
  <2> QED BY <2>1, <2>2 DEF Message
<1>3. Unit(k, c) = u
  OBVIOUS
<1>4. 1 \in 1..Len(s) /\ s[1] = m[1]
  <2>1. Len(s) \in Nat /\ Len(s) >= Len(m) /\ \A j \in 1..Len(m) : s[j] = m[j]
    BY LenProperties DEF Starts
  <2>2. 1 \in 1..Len(m) /\ Len(m) >= 1
    BY <1>1, <1>2
  <2> QED BY <1>1, <1>2, <2>1, <2>2
<1> HIDE DEF m, n
<1>5. u \in Seq(Part) /\ Len(u) \in Nat
  BY <1>1, ConcatProperties, LenProperties
<1> HIDE DEF u
<1>6. \A j \in 1 .. Len(u) : 1 + (j - 1) <= Len(s) /\ s[1 + (j - 1)] = u[j]
  <2>1. s[1].part = 1 /\ Unit(s[1].kind, s[1].call) = u
    BY <1>2, <1>3, <1>4
  <2> QED BY <1>4, <2>1 DEF Linked, Follows
<1>7. \A j \in 1 .. Len(u) : j <= Len(s) /\ s[j] = u[j]
  <2> TAKE j \in 1 .. Len(u)
  <2>1. 1 + (j - 1) = j
    BY <1>5
  <2> QED BY <1>6, <2>1
<1>8. Len(s) >= Len(u)
  <2>1. CASE Len(u) = 0
    BY <2>1, LenProperties
  <2>2. CASE Len(u) # 0
    <3>1. Len(u) \in 1..Len(u)
      BY <1>5, <2>2
    <3>2. Len(u) <= Len(s) /\ Len(s) \in Nat
      BY <1>7, <3>1, LenProperties
    <3> QED BY <1>5, <3>2
  <2> QED BY <2>1, <2>2
<1>9. Starts(s, m \o n)
  BY <1>7, <1>8 DEF Starts, u
<1>10. Starts(Drop(s, Len(m)), n)
  BY <1>1, <1>9, RestStarts
<1> QED BY <1>1, <1>10 DEF m, n

-----------------------------------------------------------------------------
(* The host and the device.                                                *)

(* Reads leave whole what they do not take.                                *)
LEMMA AheadDrop ==
  ASSUME TypeOK, NEW n \in Nat, n <= Len(input), Linked(Ahead),
         input' = Drop(input, n), wire' = wire
  PROVE  Linked(Ahead') /\ Ahead' = Drop(Ahead, n)
<1>1. input \in Seq(Part) /\ wire \in Seq(Part)
  BY DEF TypeOK, DeviceTypeOK
<1>2. /\ Ahead \in Seq(Part) /\ n <= Len(Ahead)
      /\ Drop(input, n) \o wire = Drop(Ahead, n)
  BY <1>1, DropConcat DEF Ahead
<1> QED BY <1>2, LinkedDrop DEF Ahead

(* What the device does next follows what it did before.                   *)
LEMMA DeviceLinks ==
  ASSUME TypeOK, NEW open \in BOOLEAN, DeviceNext(open), ~torn', Linked(wire)
  PROVE  /\ ~torn /\ Linked(wire')
         /\ open =>
              /\ Linked(Ahead) => Linked(Ahead')
              /\ \A m \in Seq(Part) : Starts(Ahead, m) => Starts(Ahead', m)
<1>0. /\ input \in Seq(Part) /\ wire \in Seq(Part) /\ Ahead \in Seq(Part)
      /\ cmds \in Seq([cmd : Commands, call : 0..MaxCalls])
  BY ConcatProperties DEF TypeOK, DeviceTypeOK, Ahead
<1>1. ASSUME NEW k \in Kinds, NEW c \in 0..MaxCalls,
             input' = input, wire' = wire \o Unit(k, c)
      PROVE  /\ Linked(wire') /\ (Linked(Ahead) => Linked(Ahead'))
             /\ \A m \in Seq(Part) : Starts(Ahead, m) => Starts(Ahead', m)
  <2>1. Unit(k, c) \in Seq(Part) /\ Linked(Unit(k, c))
    BY UnitType, UnitLinked
  <2>2. Ahead' = Ahead \o Unit(k, c)
    BY <1>0, <1>1, <2>1, ConcatAssociative DEF Ahead
  <2> QED BY <1>0, <1>1, <2>1, <2>2, LinkedConcat, StartsConcat
<1>2. ASSUME input' = input, wire' = wire
      PROVE  /\ Linked(wire') /\ (Linked(Ahead) => Linked(Ahead'))
             /\ \A m \in Seq(Part) : Starts(Ahead, m) => Starts(Ahead', m)
  BY <1>2 DEF Ahead
<1>3. /\ {"info descriptor", "health descriptor", "scan descriptor", "node", "banner"}
           \subseteq Kinds
      /\ 0 \in 0..MaxCalls
  BY DeviceAssumption DEF Kinds, Sizes, Descriptors
<1>4. /\ \A c : /\ Unit("info descriptor", c) = Answer("info", c)
                /\ Unit("health descriptor", c) = Answer("health", c)
      /\ \A c : /\ Unit("scan descriptor", c) = Message("scan descriptor", c)
                /\ Unit("node", c) = Message("node", c)
                /\ Unit("banner", c) = Message("banner", c)
  BY DEF Unit
<1>5. CASE Hear
  <2>1. ~torn /\ input' = input
    <3>1. input' = input
      BY <1>5, Zenon DEF Hear
    <3>2. torn => torn'
      BY <1>5 DEF Hear
    <3> QED BY <3>1, <3>2
  <2>2. Head(cmds).call \in 0..MaxCalls
    <3>1. Head(cmds) \in [cmd : Commands, call : 0..MaxCalls]
      BY <1>0, <1>5, HeadTailProperties DEF Hear
    <3> QED BY <3>1
  <2>3. \/ wire' = wire
        \/ \E k \in {"info", "health"} : wire' = wire \o Answer(k, Head(cmds).call)
        \/ wire' = wire \o Message("scan descriptor", Head(cmds).call)
    BY <1>5 DEF Hear
  <2>4. \/ wire' = wire
        \/ \E k \in Kinds : wire' = wire \o Unit(k, Head(cmds).call)
    BY <1>3, <1>4, <2>3
  <2> QED BY <1>1, <1>2, <2>1, <2>2, <2>4
<1>6. CASE Stream \/ Boot
  <2>1. /\ ~torn /\ input' = input
        /\ wire' = wire \o Message("node", 0) \/ wire' = wire \o Message("banner", 0)
    <3>1. CASE Stream
      BY <3>1 DEF Stream
    <3>2. CASE Boot
      BY <3>2 DEF Boot
    <3> QED BY <1>6, <3>1, <3>2
  <2>2. \E k \in Kinds : wire' = wire \o Unit(k, 0)
    BY <1>3, <1>4, <2>1, Zenon
  <2> QED BY <1>1, <1>3, <2>1, <2>2
<1>7. CASE Arrive(open)
  <2>1. wire # <<>> /\ wire' = Tail(wire) /\ ~torn
    BY <1>7 DEF Arrive
  <2>2. Linked(wire')
    <3>1. 1 \in Nat /\ 1 <= Len(wire) /\ Tail(wire) = Drop(wire, 1)
      <4>1. Len(wire) \in Nat \ {0}
        BY <1>0, <2>1, EmptySeq, LenProperties
      <4>2. Tail(wire) = Drop(wire, 1)
        <5>1. /\ Tail(wire) \in Seq(Part) /\ Len(Tail(wire)) = Len(wire) - 1
              /\ \A i \in 1..Len(Tail(wire)) : Tail(wire)[i] = wire[i + 1]
          BY <1>0, <2>1, HeadTailProperties
        <5>2. /\ Drop(wire, 1) \in Seq(Part) /\ Len(Drop(wire, 1)) = Len(wire) - 1
              /\ \A i \in 1 .. Len(wire) - 1 : Drop(wire, 1)[i] = wire[i + 1]
          <6>1. 1 \in Nat /\ 1 <= Len(wire)
            BY <4>1
          <6> QED BY <1>0, <6>1, Dropped
        <5> QED BY <5>1, <5>2, SeqEqual
      <4> QED BY <4>1, <4>2
    <3> QED BY <1>0, <2>1, <3>1, LinkedDrop
  <2>3. open => Ahead' = Ahead
    BY <1>0, <1>7, <2>1, ShiftPart DEF Arrive, Ahead
  <2> QED BY <2>1, <2>2, <2>3
<1> QED BY <1>5, <1>6, <1>7 DEF DeviceNext

(* What is read from the front was at the front.                           *)
LEMMA TakenStarts ==
  ASSUME NEW s \in Seq(Part), NEW t \in Seq(Part), NEW m \in Seq(Part),
         Len(s) >= Len(m), SubSeq(s, 1, Len(m)) = m
  PROVE  Starts(s \o t, m)
<1>1. /\ Len(s \o t) = Len(s) + Len(t) /\ Len(s) \in Nat /\ Len(t) \in Nat /\ Len(m) \in Nat
      /\ \A i \in 1 .. Len(s) + Len(t) :
           (s \o t)[i] = IF i <= Len(s) THEN s[i] ELSE t[i - Len(s)]
  BY ConcatProperties, LenProperties
<1>2. \A i \in 1 .. Len(m) : s[i] = m[i]
  <2>1. \A i \in 1 .. Len(m) : s[i] \in Part
    BY <1>1, ElementOfSeq
  <2> QED BY <1>1, <2>1, SubSeqProperties
<1> QED BY <1>1, <1>2 DEF Starts

(* No read or flush of the host breaks what is ahead.                      *)
LEMMA HostLinks ==
  ASSUME TypeOK, Linked(wire), wire' = wire,
         \/ input' = input /\ Linked(Ahead)
         \/ input' = <<>>
         \/ Linked(Ahead) /\ \E n \in Nat : n <= Len(input) /\ input' = Drop(input, n)
  PROVE  Linked(Ahead')
<1>1. input \in Seq(Part) /\ wire \in Seq(Part)
  BY DEF TypeOK, DeviceTypeOK
<1>2. CASE input' = input /\ Linked(Ahead)
  BY <1>2 DEF Ahead
<1>3. CASE input' = <<>>
  BY <1>1, <1>3, ConcatEmptySeq DEF Ahead
<1>4. CASE Linked(Ahead) /\ \E n \in Nat : n <= Len(input) /\ input' = Drop(input, n)
  BY <1>4, AheadDrop
<1> QED BY <1>2, <1>3, <1>4

(* A query that has read a descriptor has its payload ahead.               *)
LEMMA DescriptorTaken ==
  ASSUME TypeOK, Underway, op \in Queries, Linked(Ahead), read_descriptor, Advance(settled)
  PROVE  \E c \in 0..MaxCalls : Starts(Ahead', Message(op, c))
<1>1. prog # <<>> /\ Head(prog).what = DescriptorFor
  BY Doings DEF read_descriptor, Doing
<1>2. /\ op \in Kinds /\ DescriptorFor \in Kinds
      /\ \A c : Unit(DescriptorFor, c) = Message(DescriptorFor, c) \o Message(op, c)
  <2>1. op \in Kinds /\ DescriptorFor \in Kinds
    BY AnswerType
  <2>2. \A c : Unit(DescriptorFor, c) = Answer(op, c)
    BY DEF Unit, DescriptorFor, Queries
  <2>3. \A c : Answer(op, c) = Message(DescriptorFor, c) \o Message(op, c)
    BY DEF Answer, DescriptorFor, Queries
  <2> QED BY <2>1, <2>2, <2>3
<1>3. /\ Wanted = Size(DescriptorFor) /\ Wanted \in Nat
      /\ Len(input) >= Wanted /\ input' = Drop(input, Wanted) /\ wire' = wire
  BY <1>1, <1>2, SizeType DEF Wanted, read_descriptor, ReadExact, device
<1>4. Whole(Taken, DescriptorFor)
  <2>1. ~Fail("Protocol")
    <3>1. Len(prog) = 2 /\ prog \in Seq(Steps)
      BY Doings DEF read_descriptor, Doing, TypeOK
    <3>2. Len(Tail(prog)) = 1 /\ Len(<<>>) = 0
      BY <1>1, <3>1, HeadTailProperties
    <3>3. Tail(prog) # <<>>
      <4>1. 1 # 0
        OBVIOUS
      <4> QED BY <3>2, <4>1, Zenon
    <3> QED BY <3>3 DEF Advance, Fail
  <2> QED BY <1>1, <2>1 DEF read_descriptor
<1>5. PICK c \in 0..MaxCalls : Taken = Message(DescriptorFor, c)
  BY <1>4 DEF Whole
<1>6. Starts(Ahead, Message(DescriptorFor, c))
  <2>1. input \in Seq(Part) /\ wire \in Seq(Part)
    BY DEF TypeOK, DeviceTypeOK
  <2>2. Message(DescriptorFor, c) \in Seq(Part) /\ Len(Message(DescriptorFor, c)) = Wanted
    BY <1>2, <1>3, MessageType
  <2> QED BY <1>3, <1>5, <2>1, <2>2, TakenStarts DEF Taken, Ahead
<1>7. Ahead \in Seq(Part)
  BY ConcatType DEF Ahead, TypeOK
<1>8. Starts(Drop(Ahead, Size(DescriptorFor)), Message(op, c))
  BY <1>2, <1>6, <1>7, PayloadFollows
<1>9. Ahead' = Drop(Ahead, Wanted)
  BY <1>3, AheadDrop
<1> QED BY <1>3, <1>8, <1>9

(* The payload it reads is the one that was ahead.                         *)
LEMMA PayloadTaken ==
  ASSUME TypeOK, Underway, op \in Queries, read_payload, Advance(settled), got' = Taken,
         NEW c \in 0..MaxCalls, Starts(Ahead, Message(op, c))
  PROVE  got' = Message(op, c)
<1>1. prog # <<>> /\ Head(prog).what = op
  BY Doings DEF read_payload, Doing
<1>2. Wanted = Size(op) /\ Len(input) >= Wanted
  BY <1>1 DEF Wanted, read_payload, ReadExact
<1>3. op \in Kinds
  BY AnswerType
<1>4. Message(op, c) \in Seq(Part) /\ Len(Message(op, c)) = Wanted
  BY <1>2, <1>3, MessageType
<1>5. input \in Seq(Part) /\ wire \in Seq(Part)
  BY DEF TypeOK, DeviceTypeOK
<1> QED BY <1>2, <1>4, <1>5, TakeStart DEF Taken, Ahead

-----------------------------------------------------------------------------
(* The steps together.                                                     *)

(* Every step keeps the stream unbroken.                                   *)
LEMMA UnbrokenStep ==
  ASSUME TypeOK, Underway, Unbroken, [Next]_vars
  PROVE  Unbroken'
<1> DEFINE Whence == up' /\ (op' = "open" => prog' = <<>>) => Linked(Ahead')
           Payloads == op' \in Queries /\ Len(prog') = 1 =>
                         \E c \in 0..MaxCalls : Starts(Ahead', Message(op', c))
           Answers == op' \in Queries /\ ret' = "Ok" => Whole(got', op')
<1>0. Unbroken' <=> (~torn' => Linked(wire') /\ Whence /\ Payloads /\ Answers)
  BY DEF Unbroken, Linked, Follows, Starts, Unit, Answer, Message, Size, Sizes, Whole, Ahead,
         Queries, Descriptors
<1> SUFFICES ASSUME ~torn' PROVE Linked(wire') /\ Whence /\ Payloads /\ Answers
  BY <1>0
<1>1. ASSUME torn' = torn
      PROVE  /\ Linked(wire)
             /\ up /\ (op = "open" => prog = <<>>) => Linked(Ahead)
             /\ op \in Queries /\ Len(prog) = 1 =>
                  \E c \in 0..MaxCalls : Starts(Ahead, Message(op, c))
             /\ op \in Queries /\ ret = "Ok" => Whole(got, op)
  BY <1>1 DEF Unbroken
<1>2. /\ Len(<<>>) = 0 /\ prog \in Seq(Steps)
      /\ prog # <<>> => up
      /\ "open" \notin Queries /\ "next_node" \notin Queries /\ Queries \cap Recoveries = {}
  BY DEF TypeOK, Underway, Queries, Recoveries
<1>3. ASSUME NEW e \in {"Failed", "Protocol"}, Fail(e), prog # <<>>, torn' = torn,
             wire' = wire,
             \/ input' = input \/ input' = <<>>
             \/ \E n \in Nat : n <= Len(input) /\ input' = Drop(input, n)
      PROVE  Linked(wire') /\ Whence /\ Payloads /\ Answers
  <2>1. prog' = <<>> /\ ret' = e /\ op' = op /\ up' = (op # "open")
    BY <1>3 DEF Fail
  <2>2. up' => Linked(Ahead)
    BY <1>1, <1>2, <1>3, <2>1
  <2>3. up' => Linked(Ahead')
    BY <1>1, <1>3, <2>2, HostLinks
  <2> QED BY <1>1, <1>2, <1>3, <2>1, <2>3
<1>4. ASSUME NEW lull, Advance(lull), prog # <<>>
      PROVE  /\ up' = up /\ op' = op /\ prog' = Tail(prog)
             /\ Len(prog') = Len(prog) - 1 /\ Len(prog) \in Nat
             /\ Len(prog) # 1 => ret' = ret
  BY <1>2, <1>4, HeadTailProperties, LenProperties DEF Advance
<1>5. ASSUME NEW lull, Advance(lull), prog # <<>>, torn' = torn, wire' = wire, input' = input,
             got' = got, op \in Queries => Len(prog) = 3, op = "open" => prog' # <<>>
      PROVE  Linked(wire') /\ Whence /\ Payloads /\ Answers
  <2>1. /\ up' = up /\ op' = op
        /\ op \in Queries => Len(prog') = 2 /\ ret' = ret
    <3>1. /\ up' = up /\ op' = op /\ Len(prog') = Len(prog) - 1
          /\ Len(prog) # 1 => ret' = ret
      BY <1>4, <1>5
    <3>2. op \in Queries => Len(prog) # 1 /\ Len(prog) - 1 = 2
      BY <1>5
    <3> QED BY <3>1, <3>2
  <2>2. Whence
    BY <1>1, <1>2, <1>5, <2>1 DEF Ahead
  <2> QED BY <1>1, <1>5, <2>1, <2>2
<1>6. CASE Begin
  <2>1. PICK o \in IF up THEN Operations ELSE {"open"} : Call(o, Program(o))
    BY <1>6 DEF Begin
  <2>2. /\ op' = o /\ prog' = Program(o) /\ ret' = "none" /\ prog = <<>>
        /\ wire' = wire /\ input' = input /\ torn' = torn
    BY <2>1 DEF Call, device
  <2>3. o = "open" \/ (up /\ o # "open")
    BY SessionAssumption
  <2>4. Whence
    <3>1. CASE o = "open"
      <4>1. stop # <<>>
        <5>1. Len(stop) = 3
          BY DEF stop
        <5> QED BY <1>2, <5>1
      <4> QED BY <2>2, <3>1, <4>1, ProgramTypes
    <3>2. CASE up /\ o # "open"
      BY <1>1, <2>2, <3>2 DEF Ahead
    <3> QED BY <2>3, <3>1, <3>2
  <2>5. op' \in Queries => Len(prog') = 3
    <3>1. Len(info) = 3 /\ Len(health) = 3
      BY DEF info, health
    <3> QED BY <2>2, <3>1, ProgramTypes DEF Queries
  <2> QED BY <1>1, <2>2, <2>4, <2>5
<1>7. CASE request
  <2>1. /\ Doing("write") /\ prog # <<>>
        /\ Advance(settled) \/ Fail("Failed")
        /\ UNCHANGED <<got, wire, torn, input>>
    BY <1>7 DEF request, Doing
  <2>2. /\ op \in Queries => Len(prog) = 3
        /\ op = "open" => prog \in {stop, reset}
    <3>1. Head(prog).do = "write"
      BY <2>1 DEF Doing
    <3>2. op = "open" => op \in Recoveries
      BY DEF Recoveries
    <3> QED BY <2>1, <3>1, <3>2, Doings
  <2>3. Advance(settled) /\ op = "open" => prog' # <<>>
    <3>1. Tail(stop) = <<Sleep, Flush>> /\ Tail(reset) = <<Sleep, Flush>>
      BY Tails, Zenon DEF stop, reset
    <3>2. <<Sleep, Flush>> # <<>>
      OBVIOUS
    <3> QED BY <2>2, <3>1, <3>2 DEF Advance
  <2> QED BY <1>3, <1>5, <2>1, <2>2, <2>3
<1>8. CASE sleep
  <2>1. /\ Doing("sleep") /\ prog # <<>> /\ Advance(Quiet)
        /\ UNCHANGED <<got, wire, torn, input>>
    BY <1>8 DEF sleep, Doing, device
  <2>2. op \notin Queries /\ (op = "open" => prog = <<Sleep, Flush>>)
    BY <2>1, Doings DEF Doing, Recoveries
  <2>3. op = "open" => prog' # <<>>
    <3>1. Tail(<<Sleep, Flush>>) = <<Flush>> /\ <<Flush>> # <<>>
      BY Tails
    <3> QED BY <2>1, <2>2, <3>1 DEF Advance
  <2> QED BY <1>5, <2>1, <2>2, <2>3
<1>9. CASE discard_input
  <2>1. /\ Doing("flush") /\ prog # <<>> /\ UNCHANGED <<wire, torn>>
        /\ \/ Advance(settled) /\ input' = <<>>
           \/ Fail("Failed") /\ input' = input
    BY <1>9 DEF discard_input, Doing, device
  <2>2. op \notin Queries
    BY <2>1, Doings DEF Doing
  <2>3. CASE Advance(settled) /\ input' = <<>>
    <3>1. op' = op
      BY <2>3 DEF Advance
    <3> QED BY <1>1, <2>1, <2>2, <2>3, <3>1, HostLinks
  <2> QED BY <1>3, <2>1, <2>3
<1>10. CASE read_descriptor
  <2>1. /\ Doing("descriptor") /\ prog # <<>> /\ UNCHANGED <<got, wire, torn>>
        /\ Advance(settled) \/ Fail("Protocol")
        /\ Wanted <= Len(input) /\ input' = Drop(input, Wanted) /\ Wanted \in Nat
    <3>1. Wanted \in Nat
      BY <1>10, WantedType DEF read_descriptor
    <3>2. Len(input) \in Nat
      BY LenProperties DEF TypeOK, DeviceTypeOK
    <3> QED BY <1>10, <3>1, <3>2 DEF read_descriptor, ReadExact, Doing, device
  <2>2. op \notin Recoveries /\ (op \in Queries => Len(prog) = 2)
    BY <2>1, Doings DEF Doing
  <2>3. CASE Advance(settled)
    <3>1. Linked(Ahead) /\ Linked(Ahead')
      <4>1. op # "open"
        BY <2>2 DEF Recoveries
      <4>2. Linked(Ahead) /\ Linked(wire)
        BY <1>1, <1>2, <2>1, <4>1
      <4> QED BY <2>1, <4>2, HostLinks
    <3>2. op' = op /\ (op \in Queries => Len(prog') = 1 /\ ret' = ret)
      <4>1. /\ op' = op /\ Len(prog') = Len(prog) - 1
            /\ Len(prog) # 1 => ret' = ret
        BY <1>4, <2>1, <2>3
      <4>2. op \in Queries => Len(prog) # 1 /\ Len(prog) - 1 = 1
        BY <2>2
      <4> QED BY <4>1, <4>2
    <3>3. op \in Queries => \E c \in 0..MaxCalls : Starts(Ahead', Message(op, c))
      BY <1>10, <2>3, <3>1, DescriptorTaken
    <3> QED BY <1>1, <2>1, <3>1, <3>2, <3>3
  <2> QED BY <1>3, <2>1, <2>3
<1>11. CASE read_payload
  <2>1. /\ Doing("payload") /\ prog # <<>> /\ UNCHANGED <<wire, torn>>
        /\ (Advance(settled) /\ got' = Taken) \/ Fail("Protocol")
        /\ Wanted <= Len(input) /\ input' = Drop(input, Wanted) /\ Wanted \in Nat
    <3>1. Wanted \in Nat
      BY <1>11, WantedType DEF read_payload
    <3>2. Len(input) \in Nat
      BY LenProperties DEF TypeOK, DeviceTypeOK
    <3> QED BY <1>11, <3>1, <3>2 DEF read_payload, ReadExact, Doing, device
  <2>2. op \notin Recoveries /\ (op \in Queries => Len(prog) = 1)
    BY <2>1, Doings DEF Doing
  <2>3. CASE Advance(settled) /\ got' = Taken
    <3>1. Linked(Ahead')
      <4>1. op # "open"
        BY <2>2 DEF Recoveries
      <4>2. Linked(Ahead) /\ Linked(wire)
        BY <1>1, <1>2, <2>1, <4>1
      <4> QED BY <2>1, <4>2, HostLinks
    <3>2. op' = op /\ (op \in Queries => Len(prog') # 1)
      BY <1>4, <2>1, <2>2, <2>3
    <3>3. op \in Queries => Whole(got', op)
      <4> SUFFICES ASSUME op \in Queries PROVE Whole(got', op)
        OBVIOUS
      <4>1. PICK c \in 0..MaxCalls : Starts(Ahead, Message(op, c))
        BY <1>1, <2>1, <2>2
      <4>2. got' = Message(op, c)
        BY <1>11, <2>3, <4>1, PayloadTaken
      <4> QED BY <4>2 DEF Whole
    <3> QED BY <1>1, <2>1, <3>1, <3>2, <3>3
  <2> QED BY <1>3, <2>1, <2>3
<1>12. CASE ReadFails
  <2>1. prog # <<>> /\ Fail("Failed") /\ UNCHANGED <<wire, torn>>
    BY <1>12 DEF ReadFails, Doing, device
  <2>2. \E n \in Nat : n <= Len(input) /\ input' = Drop(input, n)
    <3>1. Wanted \in Nat
      BY <1>12, WantedType DEF ReadFails
    <3> QED BY <1>12, <3>1 DEF ReadFails
  <2> QED BY <1>3, <2>1, <2>2
<1>13. CASE next_node
  <2>1. /\ up /\ prog = <<>> /\ op' = "next_node" /\ UNCHANGED <<wire, torn>>
        /\ \E n \in 1..Len(input) : input' = Drop(input, n)
    BY <1>13 DEF next_node, device
  <2>2. \E n \in Nat : n <= Len(input) /\ input' = Drop(input, n)
    <3>1. Len(input) \in Nat
      BY LenProperties DEF TypeOK, DeviceTypeOK
    <3> QED BY <2>1, <3>1
  <2>3. Linked(Ahead')
    BY <1>1, <2>1, <2>2, HostLinks
  <2> QED BY <1>1, <1>2, <2>1, <2>3
<1>14. CASE Crash
  <2>1. ~up' /\ op' = "open" /\ UNCHANGED <<wire, torn>>
    BY <1>14 DEF Crash, Close, device
  <2> QED BY <1>1, <1>2, <2>1
<1>15. CASE DeviceNext(up) /\ UNCHANGED host
  <2>1. UNCHANGED <<up, op, prog, ret, got>> /\ up \in BOOLEAN
    BY <1>15 DEF host, TypeOK
  <2>2. ~torn /\ Linked(wire)
    <3>1. torn => torn'
      BY <1>15 DEF DeviceNext, Hear, Stream, Boot, Arrive
    <3> QED BY <3>1 DEF Unbroken
  <2>3. /\ Linked(wire')
        /\ up => /\ Linked(Ahead) => Linked(Ahead')
                 /\ \A m \in Seq(Part) : Starts(Ahead, m) => Starts(Ahead', m)
    BY <1>15, <2>1, <2>2, DeviceLinks
  <2>4. Whence
    BY <2>1, <2>2, <2>3 DEF Unbroken
  <2>5. Payloads
    <3> SUFFICES ASSUME op \in Queries, Len(prog) = 1
                 PROVE  \E c \in 0..MaxCalls : Starts(Ahead', Message(op, c))
      BY <2>1
    <3>1. up /\ op \in Kinds
      <4>1. prog # <<>>
        BY <1>2
      <4> QED BY <1>2, <4>1, AnswerType
    <3>2. PICK c \in 0..MaxCalls : Starts(Ahead, Message(op, c))
      BY <2>2 DEF Unbroken
    <3>3. Message(op, c) \in Seq(Part)
      BY <3>1, MessageType
    <3> QED BY <2>3, <3>1, <3>2, <3>3
  <2>6. Answers
    BY <2>1, <2>2 DEF Unbroken
  <2> QED BY <2>3, <2>4, <2>5, <2>6
<1>16. CASE UNCHANGED vars
  BY <1>1, <1>16 DEF vars, host, device, Ahead
<1> QED
  BY <1>6, <1>7, <1>8, <1>9, <1>10, <1>11, <1>12, <1>13, <1>14, <1>15, <1>16 DEF Next, Run

(* At first nothing has been sent.                                         *)
LEMMA InitUnbroken == Init => Unbroken
<1> SUFFICES ASSUME Init PROVE Unbroken
  OBVIOUS
<1>1. input = <<>> /\ wire = <<>> /\ prog = <<>> /\ ret = "none"
  BY DEF Init, DeviceInit
<1>2. Ahead = <<>> /\ Len(<<>>) = 0
  BY <1>1, ConcatEmptySeq DEF Ahead
<1>3. Linked(<<>>)
  BY <1>2 DEF Linked
<1> QED BY <1>1, <1>2, <1>3 DEF Unbroken

(* For every length of the messages and size of the buffer, and however    *)
(* late answers are: what info and health return is one whole answer of    *)
(* their kind, unless a reboot or a full buffer cut one short and no       *)
(* recovery followed (device.rs:133-162, 282-330).                         *)
THEOREM WholeAnswers == Spec => []NoMixedAnswer
<1>1. IInv /\ Unbroken => NoMixedAnswer
  <2> SUFFICES ASSUME TypeOK, OwnAnswer, Unbroken, ret = "Ok", op \in {"info", "health"},
                      fresh \/ ~torn
               PROVE  Whole(got, op)
    BY DEF IInv, NoMixedAnswer
  <2>1. CASE fresh
    <3>1. got = Message(op, call) /\ call \in 0..MaxCalls
      BY <2>1 DEF OwnAnswer, TypeOK
    <3> QED BY <3>1 DEF Whole
  <2>2. CASE ~torn
    BY <2>2 DEF Unbroken, Queries
  <2> QED BY <2>1, <2>2
<1>2. IInv /\ Unbroken /\ [Next]_vars => Unbroken'
  BY UnbrokenStep DEF IInv
<1> QED BY <1>1, <1>2, InitUnbroken, Invariance, PTL DEF Spec

-----------------------------------------------------------------------------
(* What a scan that begins on a quiet line finds there.                    *)

(* What start_scan has left to do, after each of its steps.                *)
FromMotor == <<Write("SetMotorPwm"), Sleep, Write("Scan"), Descriptor("scan descriptor")>>
FromSleep == <<Sleep, Write("Scan"), Descriptor("scan descriptor")>>
FromScan  == <<Write("Scan"), Descriptor("scan descriptor")>>
LastRead  == <<Descriptor("scan descriptor")>>

(* A running start_scan has done the beginning of its program.             *)
ScanUnderway ==
  op = "start_scan" =>
    /\ prog \in {start_scan, FromMotor, FromSleep, FromScan, LastRead, <<>>}
    /\ up

(* The scan is asked for, or its descriptor is first on the line, with     *)
(* nodes behind it.                                                        *)
ScanCommand == [cmd |-> "Scan", call |-> call]

ScanAsked ==
  /\ mode = "idle" /\ wire = <<>> /\ input = <<>> /\ cmds # <<>>
  /\ \A i \in 1 .. Len(cmds) - 1 : cmds[i].cmd = "SetMotorPwm"
  /\ cmds[Len(cmds)] = ScanCommand

ScanHeard ==
  /\ mode = "scanning" /\ cmds = <<>>
  /\ Starts(Ahead, Message("scan descriptor", call))
  /\ ~spilled => NodesAhead(Drop(Ahead, DESCRIPTOR_LEN))

(* Its descriptor has been read.                                           *)
Streaming == mode = "scanning" /\ cmds = <<>> /\ (~spilled => NodesAhead(Ahead))

(* The line at each point of a start_scan that began on a quiet one.       *)
Starting ==
  op = "start_scan" /\ quiet =>
    /\ ret # "Protocol"
    /\ ret = "Ok" => Streaming
    /\ prog # <<>> => ret = "none"
    /\ prog = start_scan => Quiet
    /\ prog \in {FromMotor, FromSleep, FromScan} => Calm
    /\ prog = LastRead => ScanAsked \/ ScanHeard

-----------------------------------------------------------------------------
(* The program.                                                            *)

(* A step before a program.                                                *)
LEMMA Prefixed ==
  ASSUME NEW S, NEW a \in S, NEW t \in Seq(S)
  PROVE  /\ <<a>> \o t # <<>> /\ Head(<<a>> \o t) = a /\ Tail(<<a>> \o t) = t
         /\ t # <<>> => Len(<<a>> \o t) # 1
<1> DEFINE s == <<a>> \o t
<1>1. <<a>> \in Seq(S) /\ Len(<<a>>) = 1 /\ <<a>>[1] = a
  OBVIOUS
<1>2. /\ s \in Seq(S) /\ Len(s) = 1 + Len(t) /\ Len(t) \in Nat
      /\ \A i \in 1 .. 1 + Len(t) : s[i] = IF i <= 1 THEN a ELSE t[i - 1]
  <2>1. /\ s \in Seq(S) /\ Len(s) = Len(<<a>>) + Len(t)
        /\ \A i \in 1 .. Len(<<a>>) + Len(t) :
             s[i] = IF i <= Len(<<a>>) THEN <<a>>[i] ELSE t[i - Len(<<a>>)]
    BY <1>1, ConcatProperties
  <2>2. \A i \in 1 .. 1 + Len(t) : i <= 1 => <<a>>[i] = a
    BY <1>1, LenProperties
  <2> QED BY <1>1, <2>1, <2>2, LenProperties
<1> HIDE DEF s
<1>3. s # <<>> /\ (t # <<>> => Len(s) # 1)
  BY <1>2, EmptySeq
<1>4. Head(s) = a
  <2>1. 1 \in 1 .. 1 + Len(t) /\ 1 <= 1
    BY <1>2
  <2>2. Head(s) = s[1]
    BY <1>2, <1>3
  <2> QED BY <1>2, <2>1, <2>2
<1>5. Tail(s) = t
  <2>1. /\ Tail(s) \in Seq(S) /\ Len(Tail(s)) = Len(t)
        /\ \A i \in 1 .. Len(t) : Tail(s)[i] = s[i + 1]
    BY <1>2, <1>3, HeadTailProperties
  <2>2. \A i \in 1 .. Len(t) : s[i + 1] = t[i]
    BY <1>2
  <2> QED BY <2>1, <2>2, SeqEqual
<1> QED BY <1>3, <1>4, <1>5 DEF s

(* Two programs of two steps.                                              *)
LEMMA Joined ==
  ASSUME NEW S, NEW a \in S, NEW b \in S, NEW c \in S, NEW d \in S
  PROVE  <<a, b>> \o <<c, d>> = <<a, b, c, d>>
<1> DEFINE s == <<a, b>> \o <<c, d>>
           t == <<a, b, c, d>>
<1>1. /\ <<a, b>> \in Seq(S) /\ Len(<<a, b>>) = 2
      /\ <<a, b>>[1] = a /\ <<a, b>>[2] = b
  OBVIOUS
<1>2. /\ <<c, d>> \in Seq(S) /\ Len(<<c, d>>) = 2
      /\ <<c, d>>[1] = c /\ <<c, d>>[2] = d
  OBVIOUS
<1>3. t \in Seq(S) /\ Len(t) = 4 /\ t[1] = a /\ t[2] = b /\ t[3] = c /\ t[4] = d
  OBVIOUS
<1>4. /\ s \in Seq(S) /\ Len(s) = 2 + 2
      /\ \A i \in 1 .. 2 + 2 : s[i] = IF i <= 2 THEN <<a, b>>[i] ELSE <<c, d>>[i - 2]
  BY <1>1, <1>2, ConcatProperties
<1>5. s[1] = a /\ s[2] = b /\ s[3] = c /\ s[4] = d
  BY <1>1, <1>2, <1>4
<1> HIDE DEF s, t
<1>6. \A i \in 1 .. 4 : s[i] = t[i]
  <2>1. \A i \in 1 .. 4 : i = 1 \/ i = 2 \/ i = 3 \/ i = 4
    OBVIOUS
  <2> QED BY <1>3, <1>5, <2>1
<1>7. Len(s) = Len(t)
  BY <1>3, <1>4
<1>8. s = t
  BY <1>3, <1>4, <1>6, <1>7, SeqEqual
<1> QED BY <1>8 DEF s, t

(* Every point of start_scan: its next step and what is left after it.     *)
LEMMA ScanShapes ==
  /\ start_scan # <<>> /\ FromMotor # <<>> /\ FromSleep # <<>> /\ FromScan # <<>>
  /\ LastRead # <<>>
  /\ Head(start_scan) = Flush /\ Tail(start_scan) \in {FromMotor, FromScan}
  /\ Head(FromMotor) = Write("SetMotorPwm") /\ Tail(FromMotor) = FromSleep
  /\ Head(FromSleep) = Sleep /\ Tail(FromSleep) = FromScan
  /\ Head(FromScan) = Write("Scan") /\ Tail(FromScan) = LastRead
  /\ Head(LastRead) = Descriptor("scan descriptor") /\ Tail(LastRead) = <<>>
  /\ Len(start_scan) # 1 /\ Len(FromMotor) # 1 /\ Len(FromSleep) # 1 /\ Len(FromScan) # 1
  /\ Len(LastRead) = 1
<1>1. /\ FromMotor # <<>> /\ FromSleep # <<>> /\ FromScan # <<>> /\ LastRead # <<>>
      /\ Len(FromMotor) # 1 /\ Len(FromSleep) # 1 /\ Len(FromScan) # 1 /\ Len(LastRead) = 1
  <2>1. \A a, b, c, d : <<a, b, c, d>> # <<>> /\ Len(<<a, b, c, d>>) # 1
    OBVIOUS
  <2>2. \A b, c, d : <<b, c, d>> # <<>> /\ Len(<<b, c, d>>) # 1
    OBVIOUS
  <2>3. \A c, d : <<c, d>> # <<>> /\ Len(<<c, d>>) # 1
    OBVIOUS
  <2>4. \A d : <<d>> # <<>> /\ Len(<<d>>) = 1
    OBVIOUS
  <2> QED BY <2>1, <2>2, <2>3, <2>4 DEF FromMotor, FromSleep, FromScan, LastRead
<1>2. /\ Head(FromMotor) = Write("SetMotorPwm") /\ Tail(FromMotor) = FromSleep
      /\ Head(FromSleep) = Sleep /\ Tail(FromSleep) = FromScan
      /\ Head(FromScan) = Write("Scan") /\ Tail(FromScan) = LastRead
      /\ Head(LastRead) = Descriptor("scan descriptor") /\ Tail(LastRead) = <<>>
  <2>1. \A a, b, c, d : Head(<<a, b, c, d>>) = a /\ Tail(<<a, b, c, d>>) = <<b, c, d>>
    OBVIOUS
  <2>2. /\ \A a, b, c : Head(<<a, b, c>>) = a
        /\ \A b, c : Head(<<b, c>>) = b
        /\ \A c : Head(<<c>>) = c
    OBVIOUS
  <2>3. Head(FromMotor) = Write("SetMotorPwm") /\ Tail(FromMotor) = FromSleep
    BY <2>1, Zenon DEF FromMotor, FromSleep
  <2>4. Head(FromSleep) = Sleep /\ Tail(FromSleep) = FromScan
    BY <2>2, Tails, Zenon DEF FromSleep, FromScan
  <2>5. Head(FromScan) = Write("Scan") /\ Tail(FromScan) = LastRead
    BY <2>2, Tails, Zenon DEF FromScan, LastRead
  <2>6. Head(LastRead) = Descriptor("scan descriptor") /\ Tail(LastRead) = <<>>
    BY <2>2, Tails, Zenon DEF LastRead
  <2> QED BY <2>3, <2>4, <2>5, <2>6
<1>3. /\ FromMotor \in Seq(Steps) /\ FromScan \in Seq(Steps) /\ set_motor_pwm \in Seq(Steps)
      /\ <<Flush>> \in Seq(Steps) /\ Flush \in Steps
  <2>1. /\ Write("SetMotorPwm") \in Steps /\ Write("Scan") \in Steps /\ Sleep \in Steps
        /\ Flush \in Steps /\ Descriptor("scan descriptor") \in Steps
    BY StepTypes DEF Commands, Descriptors
  <2>2. \A a, b, c, d \in Steps : <<a, b, c, d>> \in Seq(Steps)
    OBVIOUS
  <2>3. \A a, b \in Steps : <<a, b>> \in Seq(Steps) /\ <<a>> \in Seq(Steps)
    OBVIOUS
  <2>4. FromMotor \in Seq(Steps)
    BY <2>1, <2>2 DEF FromMotor
  <2>5. FromScan \in Seq(Steps)
    BY <2>1, <2>3 DEF FromScan
  <2> QED BY <2>1, <2>3, <2>4, <2>5, Shapes
<1>4. start_scan \in {<<Flush>> \o FromMotor, <<Flush>> \o FromScan}
  <2>1. CASE motor_pwm > 0
    <3>1. start_scan = (<<Flush>> \o set_motor_pwm) \o FromScan
      BY <2>1 DEF start_scan, FromScan
    <3>2. start_scan = <<Flush>> \o (set_motor_pwm \o FromScan)
      BY <1>3, <3>1, ConcatAssociative
    <3>3. set_motor_pwm \o FromScan = FromMotor
      <4>1. /\ Write("SetMotorPwm") \in Steps /\ Write("Scan") \in Steps /\ Sleep \in Steps
            /\ Descriptor("scan descriptor") \in Steps
        BY StepTypes DEF Commands, Descriptors
      <4> QED BY <4>1, Joined, Zenon DEF set_motor_pwm, FromScan, FromMotor
    <3> QED BY <3>2, <3>3
  <2>2. CASE ~(motor_pwm > 0)
    <3>1. start_scan = (<<Flush>> \o <<>>) \o FromScan
      BY <2>2 DEF start_scan, FromScan
    <3> QED BY <1>3, <3>1, ConcatEmptySeq
  <2> QED BY <2>1, <2>2
<1>7. /\ start_scan # <<>> /\ Head(start_scan) = Flush /\ Len(start_scan) # 1
      /\ Tail(start_scan) \in {FromMotor, FromScan}
  <2>1. ASSUME NEW p \in Seq(Steps), start_scan = <<Flush>> \o p, p # <<>>
        PROVE  /\ start_scan # <<>> /\ Head(start_scan) = Flush /\ Len(start_scan) # 1
               /\ Tail(start_scan) = p
    BY <1>3, <2>1, Prefixed
  <2> QED BY <1>1, <1>3, <1>4, <2>1
<1> QED BY <1>1, <1>2, <1>7

(* What a running start_scan does next.                                    *)
LEMMA ScanDoings ==
  ASSUME ScanUnderway, op = "start_scan", prog # <<>>
  PROVE  \/ Head(prog).do = "flush" /\ prog = start_scan
         \/ /\ Head(prog).do = "write" /\ Head(prog).what = "SetMotorPwm"
            /\ prog = FromMotor
         \/ Head(prog).do = "sleep" /\ prog = FromSleep
         \/ Head(prog).do = "write" /\ Head(prog).what = "Scan" /\ prog = FromScan
         \/ /\ Head(prog).do = "descriptor" /\ Head(prog).what = "scan descriptor"
            /\ prog = LastRead
<1>1. /\ \A c : Write(c).do = "write" /\ Write(c).what = c
      /\ Sleep.do = "sleep" /\ Flush.do = "flush"
      /\ \A k : Descriptor(k).do = "descriptor" /\ Descriptor(k).what = k
  BY DEF Write, Sleep, Flush, Descriptor
<1>2. prog \in {start_scan, FromMotor, FromSleep, FromScan, LastRead}
  BY DEF ScanUnderway
<1>3. CASE prog = start_scan
  BY <1>1, <1>3, ScanShapes
<1>4. CASE prog = FromMotor
  BY <1>1, <1>4, ScanShapes
<1>5. CASE prog = FromSleep
  BY <1>1, <1>5, ScanShapes
<1>6. CASE prog = FromScan
  BY <1>1, <1>6, ScanShapes
<1>7. CASE prog = LastRead
  BY <1>1, <1>7, ScanShapes
<1> QED BY <1>2, <1>3, <1>4, <1>5, <1>6, <1>7

(* No two points of the program are the same.                              *)
LEMMA ScanPoints ==
  /\ start_scan \notin {FromMotor, FromSleep, FromScan, LastRead}
  /\ LastRead \notin {FromMotor, FromSleep, FromScan}
<1>1. /\ \A c : Write(c).do = "write" /\ Sleep.do = "sleep" /\ Flush.do = "flush"
      /\ \A k : Descriptor(k).do = "descriptor"
  BY DEF Write, Sleep, Flush, Descriptor
<1> QED BY <1>1, ScanShapes

-----------------------------------------------------------------------------
(* Nodes and the device.                                                   *)

(* Another node after nodes.                                               *)
LEMMA AnotherNode ==
  ASSUME NEW s \in Seq(Part), NodesAhead(s)
  PROVE  NodesAhead(s \o Message("node", 0))
<1> DEFINE m == Message("node", 0)
           a == s \o m
<1>1. SCAN_NODE_LEN \in Nat \ {0}
  BY DeviceAssumption
<1>2. /\ m \in Seq(Part) /\ Len(m) = SCAN_NODE_LEN
      /\ \A i \in 1..SCAN_NODE_LEN : m[i] = [kind |-> "node", call |-> 0, part |-> i]
  <2>1. "node" \in Kinds /\ 0 \in 0..MaxCalls /\ Size("node") = SCAN_NODE_LEN
    BY DeviceAssumption DEF Kinds, Sizes, Descriptors, Size
  <2> QED BY <2>1, MessageType DEF Message
<1> HIDE DEF m
<1>3. /\ Len(a) = Len(s) + SCAN_NODE_LEN /\ Len(s) \in Nat
      /\ \A i \in 1 .. Len(s) + SCAN_NODE_LEN :
           a[i] = IF i <= Len(s) THEN s[i] ELSE m[i - Len(s)]
  <2>1. /\ Len(a) = Len(s) + Len(m)
        /\ \A i \in 1 .. Len(s) + Len(m) :
             a[i] = IF i <= Len(s) THEN s[i] ELSE m[i - Len(s)]
    <3>1. m \in Seq(Part)
      BY <1>2
    <3> QED BY <3>1, ConcatProperties
  <2> QED BY <1>2, <2>1, LenProperties
<1>4. \A i \in 1..Len(s) : a[i] = s[i]
  BY <1>1, <1>3
<1>5. \A i \in 1..SCAN_NODE_LEN :
        a[i + Len(s)] = [kind |-> "node", call |-> 0, part |-> i]
  <2> TAKE i \in 1..SCAN_NODE_LEN
  <2>1. /\ i + Len(s) \in 1 .. Len(s) + SCAN_NODE_LEN /\ ~(i + Len(s) <= Len(s))
        /\ (i + Len(s)) - Len(s) = i
    BY <1>1, <1>3
  <2> QED BY <1>2, <1>3, <2>1
<1> HIDE DEF a
<1>6. \A i \in 1..Len(s) :
        a[i] = [ kind |-> "node", call |-> 0,
                 part |-> IF i = 1 \/ a[i - 1].part = SCAN_NODE_LEN THEN 1
                                                                  ELSE a[i - 1].part + 1 ]
  <2> TAKE i \in 1..Len(s)
  <2>1. i = 1 \/ i - 1 \in 1..Len(s)
    BY <1>3
  <2>2. s[i] = [ kind |-> "node", call |-> 0,
                 part |-> IF i = 1 \/ s[i - 1].part = SCAN_NODE_LEN THEN 1
                                                                  ELSE s[i - 1].part + 1 ]
    BY DEF NodesAhead
  <2> QED BY <1>4, <2>1, <2>2
<1>7. \A i \in 1..SCAN_NODE_LEN :
        a[i + Len(s)] =
          [ kind |-> "node", call |-> 0,
            part |-> IF i + Len(s) = 1 \/ a[(i + Len(s)) - 1].part = SCAN_NODE_LEN
                     THEN 1 ELSE a[(i + Len(s)) - 1].part + 1 ]
  <2> TAKE i \in 1..SCAN_NODE_LEN
  <2>1. CASE i = 1
    <3>1. a[i + Len(s)] = [kind |-> "node", call |-> 0, part |-> 1]
      BY <1>5, <2>1
    <3>2. i + Len(s) = 1 \/ a[(i + Len(s)) - 1].part = SCAN_NODE_LEN
      <4>1. CASE Len(s) = 0
        BY <2>1, <4>1
      <4>2. CASE Len(s) # 0
        <5>1. (i + Len(s)) - 1 = Len(s) /\ Len(s) \in 1..Len(s)
          BY <1>3, <2>1, <4>2
        <5>2. s # <<>>
          BY <4>2
        <5>3. s[Len(s)].part = SCAN_NODE_LEN
          BY <5>2 DEF NodesAhead
        <5> QED BY <1>4, <5>1, <5>3
      <4> QED BY <4>1, <4>2
    <3> QED BY <3>1, <3>2
  <2>2. CASE i # 1
    <3>1. /\ i - 1 \in 1..SCAN_NODE_LEN /\ (i - 1) + Len(s) = (i + Len(s)) - 1
          /\ i + Len(s) # 1 /\ i - 1 # SCAN_NODE_LEN /\ (i - 1) + 1 = i
      BY <1>1, <1>3, <2>2
    <3>2. a[(i + Len(s)) - 1] = [kind |-> "node", call |-> 0, part |-> i - 1]
      BY <1>5, <3>1
    <3>3. a[(i + Len(s)) - 1].part = i - 1
      BY <3>2
    <3> QED BY <1>5, <3>1, <3>3
  <2> QED BY <2>1, <2>2
<1>8. \A i \in 1..Len(a) :
        a[i] = [ kind |-> "node", call |-> 0,
                 part |-> IF i = 1 \/ a[i - 1].part = SCAN_NODE_LEN THEN 1
                                                                  ELSE a[i - 1].part + 1 ]
  <2> TAKE i \in 1..Len(a)
  <2>1. CASE i \in 1..Len(s)
    BY <1>6, <2>1
  <2>2. CASE i \notin 1..Len(s)
    <3>1. i - Len(s) \in 1..SCAN_NODE_LEN /\ (i - Len(s)) + Len(s) = i
      BY <1>1, <1>3, <2>2
    <3> QED BY <1>7, <3>1
  <2> QED BY <2>1, <2>2
<1>9. a[Len(a)].part = SCAN_NODE_LEN
  <2>1. SCAN_NODE_LEN \in 1..SCAN_NODE_LEN /\ Len(a) = SCAN_NODE_LEN + Len(s)
    BY <1>1, <1>3
  <2>2. a[Len(a)] = [kind |-> "node", call |-> 0, part |-> SCAN_NODE_LEN]
    BY <1>5, <2>1
  <2> QED BY <2>2
<1>10. NodesAhead(a)
  BY <1>8, <1>9 DEF NodesAhead
<1> QED BY <1>10 DEF a, m

(* Nothing is no nodes.                                                    *)
LEMMA NoNodes == NodesAhead(<<>>)
<1>1. Len(<<>>) = 0
  OBVIOUS
<1> QED BY <1>1 DEF NodesAhead

(* Ahead of the reader is the scan's descriptor, and it fits the buffer.   *)
LEMMA ScanMessage ==
  ASSUME TypeOK
  PROVE  /\ "scan descriptor" \in Kinds /\ Size("scan descriptor") = DESCRIPTOR_LEN
         /\ Message("scan descriptor", call) \in Seq(Part)
         /\ Len(Message("scan descriptor", call)) = DESCRIPTOR_LEN
         /\ DESCRIPTOR_LEN \in Nat \ {0} /\ InputSize \in Nat /\ DESCRIPTOR_LEN <= InputSize
         /\ Message("node", 0) \in Seq(Part)
         /\ input \in Seq(Part) /\ wire \in Seq(Part) /\ Ahead \in Seq(Part)
<1>1. /\ "scan descriptor" \in Kinds /\ Size("scan descriptor") = DESCRIPTOR_LEN
      /\ "node" \in Kinds /\ 0 \in 0..MaxCalls
  BY DeviceAssumption DEF Kinds, Sizes, Descriptors, Size
<1>2. /\ DESCRIPTOR_LEN \in Nat \ {0} /\ InputSize \in Nat /\ DESCRIPTOR_LEN <= InputSize
  BY DeviceAssumption
<1>3. input \in Seq(Part) /\ wire \in Seq(Part)
  BY DEF TypeOK, DeviceTypeOK
<1>4. Ahead \in Seq(Part)
  BY <1>3, ConcatProperties DEF Ahead
<1> QED BY <1>1, <1>2, <1>3, <1>4, MessageType DEF TypeOK

(* The device hears the motor command, and then that it is to scan.        *)
LEMMA ScanAskedDevice ==
  ASSUME TypeOK, ScanAsked, DeviceNext(up), UNCHANGED host
  PROVE  \/ ScanAsked'
         \/ /\ mode' = "scanning" /\ cmds' = <<>>
            /\ Ahead' = Message("scan descriptor", call)
<1>1. call' = call /\ ScanCommand' = ScanCommand
  BY DEF host, ScanCommand
<1>2. Hear
  BY DEF ScanAsked, DeviceNext, Stream, Boot, Arrive
<1>3. cmds # <<>> /\ cmds \in Seq([cmd : Commands, call : 0..MaxCalls])
  BY DEF ScanAsked, TypeOK, DeviceTypeOK
<1>4. /\ Head(cmds) = cmds[1] /\ Len(cmds) \in Nat \ {0}
      /\ Len(Tail(cmds)) = Len(cmds) - 1
      /\ \A i \in 1 .. Len(Tail(cmds)) : Tail(cmds)[i] = cmds[i + 1]
      /\ Tail(cmds) \in Seq([cmd : Commands, call : 0..MaxCalls])
  BY <1>3, HeadTailProperties, EmptySeq
<1>5. CASE Len(cmds) > 1
  <2>1. Head(cmds).cmd = "SetMotorPwm"
    BY <1>4, <1>5 DEF ScanAsked
  <2>2. UNCHANGED <<mode, wire, input>> /\ cmds' = Tail(cmds)
    BY <1>2, <2>1, HearsMotor DEF ScanAsked
  <2>3. /\ \A i \in 1 .. Len(cmds') - 1 : cmds'[i].cmd = "SetMotorPwm"
        /\ cmds'[Len(cmds')] = ScanCommand /\ Len(cmds') > 0
    BY <1>4, <1>5, <2>2 DEF ScanAsked
  <2>4. cmds' # <<>>
    BY <2>3
  <2> QED BY <1>1, <2>2, <2>3, <2>4 DEF ScanAsked
<1>6. CASE Len(cmds) = 1
  <2>1. Head(cmds) = ScanCommand
    BY <1>4, <1>6 DEF ScanAsked
  <2>2. Head(cmds).cmd = "Scan" /\ Head(cmds).call = call
    BY <2>1 DEF ScanCommand
  <2>3. /\ wire' = wire \o Message("scan descriptor", call)
        /\ mode' = "scanning" /\ input' = input /\ cmds' = Tail(cmds)
    BY <1>2, <2>2 DEF Hear, ScanAsked
  <2>4. cmds' = <<>>
    <3>1. Len(Tail(cmds)) = 0
      BY <1>4, <1>6
    <3>2. Tail(cmds) = <<>>
      BY <1>4, <3>1, EmptySeq
    <3> QED BY <2>3, <3>2
  <2>5. Ahead' = Message("scan descriptor", call)
    BY <2>3, ScanMessage, ConcatEmptySeq DEF ScanAsked, Ahead
  <2> QED BY <2>3, <2>4, <2>5
<1>7. Len(cmds) > 1 \/ Len(cmds) = 1
  BY <1>4
<1> QED BY <1>5, <1>6, <1>7, Zenon

(* What the device does while it scans and nothing is asked.               *)
LEMMA ScanningDevice ==
  ASSUME TypeOK, up, mode = "scanning", cmds = <<>>, DeviceNext(up)
  PROVE  /\ mode' = mode /\ cmds' = cmds
         /\ \/ Ahead' = Ahead \o Message("node", 0) /\ spilled' = spilled
            \/ Ahead' = Ahead /\ spilled' = spilled
            \/ /\ spilled' /\ Len(input) = InputSize /\ input' = input
               /\ wire' \in Seq(Part)
<1>1. CASE Stream
  <2>1. input' = input /\ wire' = wire \o Message("node", 0) /\ UNCHANGED <<mode, cmds, spilled>>
    BY <1>1 DEF Stream
  <2>2. Ahead' = Ahead \o Message("node", 0)
    <3>1. (input \o wire) \o Message("node", 0) = input \o (wire \o Message("node", 0))
      <4>1. input \in Seq(Part) /\ wire \in Seq(Part) /\ Message("node", 0) \in Seq(Part)
        BY ScanMessage
      <4> QED BY <4>1, ConcatAssociative
    <3> QED BY <2>1, <3>1 DEF Ahead
  <2> QED BY <2>1, <2>2
<1>2. CASE Arrive(up)
  <2>1. /\ wire # <<>> /\ wire' = Tail(wire) /\ UNCHANGED <<mode, cmds>>
        /\ \/ input' = Append(input, Head(wire)) /\ spilled' = spilled
           \/ Len(input) = InputSize /\ spilled' /\ input' = input
    BY <1>2 DEF Arrive
  <2>2. Tail(wire) \in Seq(Part)
    BY <2>1, ScanMessage, HeadTailProperties
  <2>3. input' = Append(input, Head(wire)) => Ahead' = Ahead
    BY <2>1, ScanMessage, ShiftPart DEF Ahead
  <2> QED BY <2>1, <2>2, <2>3
<1> QED BY <1>1, <1>2 DEF DeviceNext, Hear, Boot

(* The parts of the invariant in the next state.                           *)
LEMMA ScanHeardNext ==
  ScanHeard' <=> /\ mode' = "scanning" /\ cmds' = <<>>
                 /\ Starts(Ahead', Message("scan descriptor", call'))
                 /\ ~spilled' => NodesAhead(Drop(Ahead', DESCRIPTOR_LEN))
BY DEF ScanHeard, Starts, Message, Size, Sizes, Descriptors, NodesAhead, Drop, Ahead

(* The same of a stream.                                                   *)
LEMMA StreamingNext ==
  Streaming' <=> mode' = "scanning" /\ cmds' = <<>> /\ (~spilled' => NodesAhead(Ahead'))
BY DEF Streaming, NodesAhead, Ahead

(* Nodes follow the descriptor.                                            *)
LEMMA ScanHeardDevice ==
  ASSUME TypeOK, up, ScanHeard, DeviceNext(up), UNCHANGED host
  PROVE  ScanHeard'
<1> DEFINE m == Message("scan descriptor", call)
           n == Message("node", 0)
<1>1. /\ m \in Seq(Part) /\ Len(m) = DESCRIPTOR_LEN /\ n \in Seq(Part)
      /\ DESCRIPTOR_LEN \in Nat /\ InputSize \in Nat /\ DESCRIPTOR_LEN <= InputSize
      /\ input \in Seq(Part) /\ wire \in Seq(Part) /\ Ahead \in Seq(Part)
  BY ScanMessage
<1>2. call' = call
  BY DEF host
<1>3. mode = "scanning" /\ cmds = <<>> /\ Starts(Ahead, m)
  BY DEF ScanHeard
<1>4. DESCRIPTOR_LEN <= Len(Ahead)
  <2>1. Len(Ahead) \in Nat /\ Len(Ahead) >= Len(m)
    BY <1>1, <1>3, LenProperties DEF Starts
  <2> QED BY <1>1, <2>1
<1> HIDE DEF m, n
<1>5. CASE Ahead' = Ahead \o n /\ spilled' = spilled
  <2>1. Starts(Ahead', m)
    BY <1>1, <1>3, <1>5, StartsConcat
  <2>2. Drop(Ahead, DESCRIPTOR_LEN) \in Seq(Part)
    BY <1>1, <1>4, Dropped
  <2>3. Drop(Ahead', DESCRIPTOR_LEN) = Drop(Ahead, DESCRIPTOR_LEN) \o n
    BY <1>1, <1>4, <1>5, DropConcat
  <2>4. ~spilled' => NodesAhead(Drop(Ahead', DESCRIPTOR_LEN))
    BY <1>5, <2>2, <2>3, AnotherNode DEF n, ScanHeard
  <2> QED BY <1>2, <1>3, <2>1, <2>4, ScanningDevice, ScanHeardNext DEF m
<1>6. CASE Ahead' = Ahead /\ spilled' = spilled
  BY <1>2, <1>3, <1>6, ScanningDevice, ScanHeardNext DEF m, ScanHeard
<1>7. CASE /\ spilled' /\ Len(input) = InputSize /\ input' = input
           /\ wire' \in Seq(Part)
  <2>1. Len(input) >= Len(m)
    BY <1>1, <1>7
  <2>2. SubSeq(input, 1, Len(m)) = m
    BY <1>1, <1>3, <2>1, TakeStart DEF Ahead
  <2>3. Starts(input \o wire', m)
    BY <1>1, <1>7, <2>1, <2>2, TakenStarts
  <2>4. Ahead' = input \o wire'
    BY <1>7 DEF Ahead
  <2> QED BY <1>2, <1>3, <1>7, <2>3, <2>4, ScanningDevice, ScanHeardNext DEF m
<1> QED BY <1>3, <1>5, <1>6, <1>7, ScanningDevice DEF n

(* More nodes arrive, or a full buffer drops some.                         *)
LEMMA StreamingDevice ==
  ASSUME TypeOK, up, Streaming, DeviceNext(up)
  PROVE  Streaming'
<1>1. mode = "scanning" /\ cmds = <<>> /\ Ahead \in Seq(Part)
  BY ScanMessage DEF Streaming
<1>2. CASE Ahead' = Ahead \o Message("node", 0) /\ spilled' = spilled
  BY <1>1, <1>2, ScanningDevice, StreamingNext, AnotherNode DEF Streaming
<1>3. CASE Ahead' = Ahead /\ spilled' = spilled
  BY <1>1, <1>3, ScanningDevice, StreamingNext DEF Streaming
<1>4. CASE spilled'
  BY <1>1, <1>4, ScanningDevice, StreamingNext
<1> QED BY <1>1, <1>2, <1>3, <1>4, ScanningDevice

(* The descriptor that start_scan reads is its own, and nodes are left     *)
(* (device.rs:227-231).                                                    *)
LEMMA ScanRead ==
  ASSUME TypeOK, ScanAsked \/ ScanHeard, read_descriptor, prog = LastRead
  PROVE  Advance(settled) /\ Streaming'
<1> DEFINE m == Message("scan descriptor", call)
<1>1. Head(prog).what = "scan descriptor"
  <2>1. Head(LastRead) = Descriptor("scan descriptor")
    BY ScanShapes
  <2>2. Head(prog) = Descriptor("scan descriptor")
    BY <2>1, Zenon
  <2>3. Descriptor("scan descriptor").what = "scan descriptor"
    BY DEF Descriptor
  <2> QED BY <2>2, <2>3, Zenon
<1>2. /\ m \in Seq(Part) /\ Len(m) = DESCRIPTOR_LEN
      /\ DESCRIPTOR_LEN \in Nat \ {0}
      /\ input \in Seq(Part) /\ wire \in Seq(Part) /\ Ahead \in Seq(Part)
      /\ Wanted = DESCRIPTOR_LEN
  BY <1>1, ScanMessage DEF Wanted
<1>3. /\ Len(input) >= DESCRIPTOR_LEN /\ input' = Drop(input, DESCRIPTOR_LEN)
      /\ UNCHANGED <<cmds, mode, wire, spilled>> /\ Len(input) \in Nat
  BY <1>2, LenProperties DEF read_descriptor, ReadExact, device
<1>4. ScanHeard
  <2>1. input # <<>>
    <3>1. Len(<<>>) = 0
      OBVIOUS
    <3>2. Len(input) # 0
      <4>1. DESCRIPTOR_LEN \in Nat \ {0}
        BY <1>2
      <4>2. Len(input) >= DESCRIPTOR_LEN /\ Len(input) \in Nat
        BY <1>3
      <4> QED BY <4>1, <4>2
    <3> QED BY <3>1, <3>2, Zenon
  <2> QED BY <2>1 DEF ScanAsked
<1> HIDE DEF m
<1>5. Taken = m
  <2>1. Starts(input \o wire, m)
    BY <1>4 DEF ScanHeard, Ahead, m
  <2>2. Len(input) >= Len(m)
    BY <1>2, <1>3
  <2> QED BY <1>2, <2>1, <2>2, TakeStart DEF Taken
<1>6. Advance(settled)
  <2>1. Whole(Taken, "scan descriptor")
    BY <1>5 DEF Whole, TypeOK, m
  <2> QED BY <1>1, <2>1 DEF read_descriptor
<1>7. Ahead' = Drop(Ahead, DESCRIPTOR_LEN)
  <2>1. DESCRIPTOR_LEN \in Nat /\ DESCRIPTOR_LEN <= Len(input)
    BY <1>2, <1>3
  <2> QED BY <1>2, <1>3, <2>1, DropConcat DEF Ahead
<1> QED BY <1>3, <1>4, <1>6, <1>7, StreamingNext DEF ScanHeard

-----------------------------------------------------------------------------
(* The steps together.                                                     *)

(* Every step of start_scan does the next thing of its program.            *)
LEMMA ScanUnderwayStep ==
  ASSUME TypeOK, Underway, ScanUnderway, [Next]_vars
  PROVE  ScanUnderway'
<1> DEFINE Points(p) == p \in {start_scan, FromMotor, FromSleep, FromScan, LastRead, <<>>}
<1>0. (op' = "start_scan" => Points(prog') /\ up') => ScanUnderway'
  BY DEF ScanUnderway, start_scan, set_motor_pwm, FromMotor, FromSleep, FromScan, LastRead,
         Write, Sleep, Flush, Descriptor
<1>1. ScanUnderway <=> (op = "start_scan" => Points(prog) /\ up)
  BY DEF ScanUnderway
<1>2. CASE Begin
  <2>1. PICK o : op' = o /\ prog' = Program(o) /\ up' = TRUE
    BY <1>2 DEF Begin, Call
  <2>2. Program("start_scan") = start_scan
    BY DEF Program
  <2>3. op' = "start_scan" => Points(prog') /\ up'
    BY <2>1, <2>2
  <2> QED BY <1>0, <2>3
<1>3. CASE Run
  <2>1. prog # <<>>
    BY <1>3 DEF Run, request, sleep, discard_input, read_descriptor, read_payload,
                ReadFails, Doing
  <2>2. (\E e : Fail(e)) \/ (\E lull : Advance(lull))
    BY <1>3 DEF Run, request, sleep, discard_input, read_descriptor, read_payload,
                ReadFails
  <2>3. ASSUME NEW e, Fail(e) PROVE op' = "start_scan" => Points(prog') /\ up'
    BY <2>3 DEF Fail
  <2>4. ASSUME NEW lull, Advance(lull) PROVE op' = "start_scan" => Points(prog') /\ up'
    <3>1. op' = op /\ up' = up /\ prog' = Tail(prog)
      BY <2>4 DEF Advance
    <3> SUFFICES ASSUME op = "start_scan" PROVE Points(Tail(prog)) /\ up
      BY <3>1
    <3>2. up /\ prog \in {start_scan, FromMotor, FromSleep, FromScan, LastRead}
      BY <1>1, <2>1
    <3> QED BY <3>2, ScanShapes
  <2> QED BY <1>0, <2>2, <2>3, <2>4
<1>4. CASE next_node \/ Crash
  <2>1. op' # "start_scan"
    BY <1>4 DEF next_node, Crash, Close
  <2> QED BY <1>0, <2>1
<1>5. CASE UNCHANGED host
  <2>1. op' = "start_scan" => Points(prog') /\ up'
    BY <1>1, <1>5 DEF host
  <2> QED BY <1>0, <2>1
<1> QED BY <1>2, <1>3, <1>4, <1>5 DEF Next, vars

(* Every step of start_scan from a quiet line leaves it as it should be.   *)
LEMMA StartingStep ==
  ASSUME TypeOK, Underway, ScanUnderway, Starting, [Next]_vars
  PROVE  Starting'
<1> DEFINE Calls(p) == p \in {FromMotor, FromSleep, FromScan}
           Next1 == /\ ret' # "Protocol"
                    /\ ret' = "Ok" => Streaming'
                    /\ prog' # <<>> => ret' = "none"
                    /\ prog' = start_scan => Quiet'
                    /\ Calls(prog') => Calm'
                    /\ prog' = LastRead => ScanAsked' \/ ScanHeard'
<1>0. (op' = "start_scan" /\ quiet' => Next1) => Starting'
  BY DEF Starting, start_scan, set_motor_pwm, FromMotor, FromSleep, FromScan, LastRead,
         Write, Sleep, Flush, Descriptor
<1> SUFFICES ASSUME op' = "start_scan", quiet' PROVE Next1
  BY <1>0
<1>1. ASSUME op = "start_scan", quiet
      PROVE  /\ ret # "Protocol" /\ up
             /\ ret = "Ok" => Streaming
             /\ prog # <<>> => ret = "none"
             /\ prog = start_scan => Quiet
             /\ Calls(prog) => Calm
             /\ prog = LastRead => ScanAsked \/ ScanHeard
             /\ prog \in {start_scan, FromMotor, FromSleep, FromScan, LastRead, <<>>}
  BY <1>1 DEF Starting, ScanUnderway
<1>2. /\ start_scan # <<>> /\ start_scan # LastRead /\ ~Calls(start_scan)
      /\ LastRead # <<>> /\ ~Calls(LastRead)
      /\ ~Calls(<<>>)
  BY ScanShapes, ScanPoints
<1>3. ASSUME Fail("Failed") PROVE Next1
  BY <1>2, <1>3 DEF Fail
<1>4. ASSUME NEW lull, Advance(lull)
      PROVE  /\ op = "start_scan" /\ quiet /\ call' = call /\ prog' = Tail(prog)
             /\ Len(prog) # 1 => ret' = ret
             /\ Len(prog) = 1 => ret' = "Ok"
  BY <1>4 DEF Advance
<1>5. CASE Begin
  <2>1. /\ prog' = Program("start_scan") /\ ret' = "none" /\ quiet' = Quiet
        /\ UNCHANGED <<cmds, wire, mode>>
    BY <1>5 DEF Begin, Call, device
  <2>2. prog' = start_scan
    BY <2>1 DEF Program
  <2>3. Quiet'
    BY <2>1 DEF Quiet
  <2> QED BY <1>2, <2>1, <2>2, <2>3
<1>6. CASE Run
  <2>1. prog # <<>> /\ op = "start_scan" /\ quiet
    BY <1>6 DEF Run, request, sleep, discard_input, read_descriptor, read_payload,
                ReadFails, Doing, Fail, Advance
  <2>2. CASE discard_input
    <3>1. SUFFICES ASSUME Advance(settled), input' = <<>>, UNCHANGED device PROVE Next1
      BY <1>3, <2>2 DEF discard_input
    <3>2. prog = start_scan
      BY <2>1, <2>2, ScanDoings DEF discard_input, Doing
    <3>3. prog' \in {FromMotor, FromScan} /\ ret' = "none"
      BY <1>1, <1>4, <2>1, <3>1, <3>2, ScanShapes
    <3>4. Calm'
      <4>1. Quiet
        BY <1>1, <2>1, <3>2
      <4>2. Len(<<>>) = 0
        OBVIOUS
      <4> QED BY <3>1, <4>1, <4>2 DEF Quiet, Calm, device
    <3> QED BY <1>2, <3>3, <3>4, ScanPoints
  <2>3. CASE request
    <3> DEFINE sent == Append(cmds, [cmd |-> Head(prog).what, call |-> call])
    <3>1. SUFFICES ASSUME Advance(settled), cmds' = sent, UNCHANGED <<mode, wire, input>>
                   PROVE  Next1
      BY <1>3, <2>3 DEF request
    <3>2. \/ prog = FromMotor /\ Head(prog).what = "SetMotorPwm"
          \/ prog = FromScan /\ Head(prog).what = "Scan"
      BY <2>1, <2>3, ScanDoings DEF request, Doing
    <3>3. Calm /\ ret = "none"
      BY <1>1, <2>1, <3>2
    <3>4. CASE prog = FromMotor /\ Head(prog).what = "SetMotorPwm"
      <4>1. prog' = FromSleep /\ ret' = "none"
        BY <1>4, <3>1, <3>3, <3>4, ScanShapes
      <4>2. Calm'
        BY <3>1, <3>3, <3>4, CalmAppend DEF TypeOK
      <4> QED BY <1>2, <4>1, <4>2, ScanPoints
    <3>5. CASE prog = FromScan /\ Head(prog).what = "Scan"
      <4>1. prog' = LastRead /\ ret' = "none" /\ call' = call
        BY <1>4, <3>1, <3>3, <3>5, ScanShapes
      <4>2. ScanAsked'
        <5>1. /\ Len(cmds') = Len(cmds) + 1 /\ Len(cmds) \in Nat
              /\ \A i \in 1 .. Len(cmds) : cmds'[i] = cmds[i]
              /\ cmds'[Len(cmds) + 1] = [cmd |-> "Scan", call |-> call]
          BY <3>1, <3>5 DEF TypeOK, DeviceTypeOK
        <5>2. \A i \in 1 .. Len(cmds') - 1 : cmds'[i].cmd = "SetMotorPwm"
          BY <3>3, <5>1 DEF Calm
        <5>3. cmds'[Len(cmds')] = ScanCommand' /\ cmds' # <<>>
          BY <4>1, <5>1 DEF ScanCommand
        <5> QED BY <3>1, <3>3, <5>2, <5>3 DEF Calm, ScanAsked
      <4> QED BY <1>2, <4>1, <4>2
    <3> QED BY <3>2, <3>4, <3>5
  <2>4. CASE sleep
    <3>1. Advance(Quiet) /\ UNCHANGED <<device, input>>
      BY <2>4 DEF sleep
    <3>2. prog = FromSleep
      BY <2>1, <2>4, ScanDoings DEF sleep, Doing
    <3>3. prog' = FromScan /\ ret' = "none" /\ Calm
      BY <1>1, <1>4, <2>1, <3>1, <3>2, ScanShapes
    <3>4. Calm'
      BY <3>1, <3>3 DEF Calm, device
    <3> QED BY <1>2, <3>3, <3>4, ScanPoints
  <2>5. CASE read_descriptor
    <3>1. prog = LastRead
      BY <2>1, <2>5, ScanDoings DEF read_descriptor, Doing
    <3>2. Advance(settled) /\ Streaming'
      BY <1>1, <2>1, <2>5, <3>1, ScanRead
    <3>3. prog' = <<>> /\ ret' = "Ok"
      BY <1>4, <3>1, <3>2, ScanShapes
    <3> QED BY <1>2, <3>2, <3>3
  <2>6. ~read_payload
    BY <2>1, ScanDoings DEF read_payload, Doing
  <2>7. CASE ReadFails
    BY <1>3, <2>7 DEF ReadFails
  <2> QED BY <1>6, <2>2, <2>3, <2>4, <2>5, <2>6, <2>7 DEF Run
<1>7. CASE next_node \/ Crash
  BY <1>7 DEF next_node, Crash, Close
<1>8. CASE DeviceNext(up) /\ UNCHANGED host
  <2>1. op = "start_scan" /\ quiet /\ prog' = prog /\ ret' = ret
    BY <1>8 DEF host
  <2>2. ~Quiet
    BY <1>8 DEF DeviceNext, Hear, Stream, Boot, Arrive, Quiet
  <2>3. ret' = "Ok" => Streaming'
    BY <1>1, <1>8, <2>1, StreamingDevice
  <2>4. Calls(prog') => Calm'
    BY <1>1, <1>8, <2>1, CalmDevice DEF TypeOK
  <2>5. prog' = LastRead => ScanAsked' \/ ScanHeard'
    <3>1. ASSUME ScanAsked PROVE ScanAsked' \/ ScanHeard'
      <4>1. CASE /\ mode' = "scanning" /\ cmds' = <<>>
                 /\ Ahead' = Message("scan descriptor", call)
        <5> DEFINE m == Message("scan descriptor", call)
        <5>1. m \in Seq(Part) /\ Len(m) = DESCRIPTOR_LEN /\ call' = call
          BY <1>8, ScanMessage DEF host
        <5> HIDE DEF m
        <5>2. Len(m) \in Nat /\ DESCRIPTOR_LEN \in Nat /\ DESCRIPTOR_LEN + 1 \in Int
              /\ Len(m) < DESCRIPTOR_LEN + 1
          BY <5>1, LenProperties
        <5>3. Starts(m, m)
          BY <5>2 DEF Starts
        <5>4. Drop(m, DESCRIPTOR_LEN) = <<>>
          BY <5>1, <5>2, SubSeqEmpty DEF Drop
        <5> QED BY <4>1, <5>1, <5>3, <5>4, NoNodes, ScanHeardNext DEF m
      <4> QED BY <1>8, <3>1, <4>1, ScanAskedDevice
    <3>2. ASSUME ScanHeard PROVE ScanHeard'
      BY <1>1, <1>8, <2>1, <3>2, ScanHeardDevice
    <3> QED BY <1>1, <2>1, <3>1, <3>2
  <2> QED BY <1>1, <2>1, <2>2, <2>3, <2>4, <2>5
<1>9. CASE UNCHANGED vars
  <2>1. /\ UNCHANGED <<op, call, prog, quiet, ret, cmds, mode, wire, input, spilled>>
        /\ ScanCommand' = ScanCommand
    BY <1>9 DEF vars, host, device, ScanCommand
  <2>2. /\ Quiet' <=> Quiet
        /\ Calm' <=> Calm
        /\ ScanAsked' <=> ScanAsked
    BY <2>1 DEF Quiet, Calm, ScanAsked
  <2>3. (Streaming => Streaming') /\ (ScanHeard => ScanHeard')
    <3>1. Ahead' = Ahead
      BY <2>1 DEF Ahead
    <3> QED BY <2>1, <3>1, StreamingNext, ScanHeardNext DEF Streaming, ScanHeard
  <2> QED BY <1>1, <2>1, <2>2, <2>3
<1> QED BY <1>5, <1>6, <1>7, <1>8, <1>9 DEF Next

(* For every length of the messages and size of the buffer: on a quiet     *)
(* line, whatever failed before, start_scan reports no protocol error, and *)
(* what it leaves to read begins with a node unless the buffer overflowed, *)
(* so that no stop is needed before (device.rs:219-232).                   *)
THEOREM ScanRecovers == Spec => []ScanFromQuiet
<1>1. Init => ScanUnderway /\ Starting
  BY DEF Init, ScanUnderway, Starting
<1>2. /\ IInv /\ ScanUnderway /\ [Next]_vars => ScanUnderway'
      /\ IInv /\ ScanUnderway /\ Starting /\ [Next]_vars => Starting'
  BY ScanUnderwayStep, StartingStep DEF IInv
<1>3. Starting => ScanFromQuiet
  BY DEF Starting, ScanFromQuiet, Streaming, Ahead
<1> QED BY <1>1, <1>2, <1>3, Invariance, PTL DEF Spec

=============================================================================
