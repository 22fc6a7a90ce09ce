----------------------- MODULE BufferTransportProofs ------------------------
(***************************************************************************)
(* Proofs about BufferTransport, for every buffer and every size of read.  *)
(* The order of delivery is inductive given the types; the refinement      *)
(* needs both, to know that a short read takes less than a buffer.         *)
(***************************************************************************)
EXTENDS BufferTransport, SequenceTheorems, TLAPS

IInv == TypeOK /\ DeliveredInOrder

Answers == [op : {"none", "read_exact", "read"}, want : 0..MaxWant,
            result : {"none", "Ok"} \cup Trait!Failures, got : 0..MaxWant]

(* What a concatenation with the bytes ahead holds.                        *)
LEMMA Appended ==
  ASSUME out \in Seq(Nat), pos \in Nat, NEW n \in Nat
  PROVE  /\ out \o Ahead(n) \in Seq(Nat)
         /\ Len(out \o Ahead(n)) = Len(out) + n
         /\ \A i \in 1 .. Len(out) + n :
              (out \o Ahead(n))[i] = IF i <= Len(out) THEN out[i] ELSE pos + (i - Len(out))
<1>1. Ahead(n) \in Seq(Nat) /\ Len(Ahead(n)) = n
  BY SMT DEF Ahead
<1>2. \A i \in 1..n : Ahead(n)[i] = pos + i
  BY SMT DEF Ahead
<1>3. \A i \in 1 .. Len(out) + n :
        (out \o Ahead(n))[i] = IF i <= Len(out) THEN out[i] ELSE Ahead(n)[i - Len(out)]
  BY <1>1, ConcatProperties
<1>4. \A i \in 1 .. Len(out) + n : i > Len(out) => i - Len(out) \in 1..n
  BY SMT
<1>5. \A i \in 1 .. Len(out) + n : i <= Len(out) \/ i > Len(out)
  BY SMT
<1> QED BY <1>1, <1>2, <1>3, <1>4, <1>5, ConcatProperties

(* s continues the m numbers of o, none above p, with the n after p.       *)
Continues(m, n, p, o, s) ==
  /\ \A i \in 1..m : o[i] \in Nat /\ o[i] <= p
  /\ \A i, j \in 1..m : i < j => o[i] < o[j]
  /\ \A i \in 1 .. m + n : s[i] = IF i <= m THEN o[i] ELSE p + (i - m)

Continued(m, n, p, o, s) ==
  /\ \A i, j \in 1 .. m + n : i < j => s[i] < s[j]
  /\ \A i \in 1 .. m + n : s[i] \in Nat /\ s[i] <= p + n
  /\ \A i \in 1 .. m + n : \/ i \in 1..m /\ s[i] = o[i]
                           \/ s[i] \in p + 1 .. p + n
  /\ \A b \in p + 1 .. p + n : \E i \in 1 .. m + n : s[i] = b

(* It is then in order, bounded and complete.                              *)
LEMMA InOrder ==
  ASSUME NEW m \in Nat, NEW n \in Nat, NEW p \in Nat, NEW o, NEW s,
         Continues(m, n, p, o, s)
  PROVE  Continued(m, n, p, o, s)
<1> USE DEF Continues
<1>1. \A i \in 1 .. m + n : i \in 1..m \/ i \in m + 1 .. m + n
  BY SMT
<1>2. \A i \in 1..m : i \in 1 .. m + n /\ i <= m
  BY SMT
<1>3. \A i \in m + 1 .. m + n : i \in 1 .. m + n /\ ~(i <= m) /\ i \in Int
  BY SMT
<1>4. \A i \in 1..m : s[i] = o[i]
  BY <1>2
<1>5. \A i \in m + 1 .. m + n : s[i] = p + (i - m)
  BY <1>3
<1>6. \A i \in m + 1 .. m + n : s[i] \in p + 1 .. p + n
  <2> TAKE i \in m + 1 .. m + n
  <2>1. p + (i - m) \in p + 1 .. p + n
    BY SMT
  <2> QED BY <1>5, <2>1
<1>7. \A i \in 1 .. m + n : \/ i \in 1..m /\ s[i] = o[i] /\ o[i] \in Nat /\ o[i] <= p
                            \/ s[i] \in p + 1 .. p + n
  BY <1>1, <1>4, <1>6
<1>8. \A i \in 1 .. m + n : s[i] \in Nat /\ s[i] <= p + n
  <2> SUFFICES ASSUME NEW i \in 1 .. m + n PROVE s[i] \in Nat /\ s[i] <= p + n
    OBVIOUS
  <2>1. CASE i \in 1..m /\ s[i] = o[i] /\ o[i] \in Nat /\ o[i] <= p
    <3>1. \A v \in Nat : v <= p => v <= p + n
      BY SMT
    <3> QED BY <2>1, <3>1
  <2>2. CASE s[i] \in p + 1 .. p + n
    <3>1. \A v \in p + 1 .. p + n : v \in Nat /\ v <= p + n
      BY SMT
    <3> QED BY <2>2, <3>1
  <2> QED BY <1>7, <2>1, <2>2
<1>9. \A i, j \in 1 .. m + n : i < j => s[i] < s[j]
  <2> SUFFICES ASSUME NEW i \in 1 .. m + n, NEW j \in 1 .. m + n, i < j
               PROVE  s[i] < s[j]
    OBVIOUS
  <2>1. CASE j \in 1..m
    <3>1. i \in 1..m
      BY <2>1, SMT
    <3> QED BY <1>4, <2>1, <3>1
  <2>2. CASE j \in m + 1 .. m + n /\ i \in 1..m
    <3>1. \A v \in Nat, w \in p + 1 .. p + n : v <= p => v < w
      BY SMT
    <3> QED BY <1>4, <1>6, <2>2, <3>1
  <2>3. CASE j \in m + 1 .. m + n /\ i \in m + 1 .. m + n
    <3>1. p + (i - m) < p + (j - m)
      BY SMT
    <3> QED BY <1>5, <2>3, <3>1
  <2> QED BY <1>1, <2>1, <2>2, <2>3
<1>10. \A b \in p + 1 .. p + n : \E i \in 1 .. m + n : s[i] = b
  <2> SUFFICES ASSUME NEW b \in p + 1 .. p + n PROVE \E i \in 1 .. m + n : s[i] = b
    OBVIOUS
  <2>1. m + (b - p) \in m + 1 .. m + n /\ p + ((m + (b - p)) - m) = b
    BY SMT
  <2> QED BY <1>3, <1>5, <2>1
<1> QED BY <1>7, <1>8, <1>9, <1>10 DEF Continued

LEMMA DeliverKeeps ==
  ASSUME IInv, NEW op \in {"read_exact", "read"}, NEW want \in 1..MaxWant,
         NEW n \in Nat, n <= remaining, n <= want, Deliver(op, want, n)
  PROVE  IInv'
<1> DEFINE s == out \o Ahead(n)
<1>1. /\ out \in Seq(Nat) /\ pos \in Nat /\ size \in Nat /\ pos + n <= size
      /\ lost \subseteq Nat
  BY SMT DEF IInv, TypeOK, remaining
<1>2. /\ s \in Seq(Nat)
      /\ Len(s) = Len(out) + n
      /\ \A i \in 1 .. Len(out) + n :
           s[i] = IF i <= Len(out) THEN out[i] ELSE pos + (i - Len(out))
  BY <1>1, Appended
<1>3. /\ out' = s /\ pos' = pos + n
      /\ UNCHANGED <<kind, size, written, discards, lost, ended>>
  BY DEF Deliver
<1> HIDE DEF s
<1>4. ret' \in Answers
  BY BufferAssumption, SMT DEF Deliver, Trait!Answer, Answers
<1>5. TypeOK'
  BY <1>1, <1>2, <1>3, <1>4, SMT DEF IInv, TypeOK, Answers
<1>6. \A i \in 1..Len(out) : out[i] <= pos /\ out[i] \notin lost /\ out[i] \in Nat
  BY <1>1, SMT DEF IInv, DeliveredInOrder
<1>12. Len(out) \in Nat /\ \A i, j \in 1..Len(out) : i < j => out[i] < out[j]
  BY <1>1 DEF IInv, DeliveredInOrder
<1>7. /\ \A i, j \in 1..Len(s) : i < j => s[i] < s[j]
      /\ \A i \in 1..Len(s) : s[i] \in Nat /\ s[i] <= pos + n
      /\ \A i \in 1..Len(s) : \/ i \in 1..Len(out) /\ s[i] = out[i]
                              \/ s[i] \in pos + 1 .. pos + n
      /\ \A b \in pos + 1 .. pos + n : \E i \in 1..Len(s) : s[i] = b
  <2>1. /\ \A i \in 1..Len(out) : out[i] \in Nat /\ out[i] <= pos
        /\ \A i \in 1 .. Len(out) + n :
             s[i] = IF i <= Len(out) THEN out[i] ELSE pos + (i - Len(out))
    BY <1>2, <1>6
  <2> DEFINE m == Len(out)
  <2>2. /\ m \in Nat
        /\ \A i, j \in 1..m : i < j => out[i] < out[j]
        /\ \A i \in 1..m : out[i] \in Nat /\ out[i] <= pos
        /\ \A i \in 1 .. m + n : s[i] = IF i <= m THEN out[i] ELSE pos + (i - m)
    BY <1>12, <2>1
  <2>3. Len(s) = m + n
    BY <1>2
  <2> HIDE DEF m
  <2>4. /\ \A i, j \in 1 .. m + n : i < j => s[i] < s[j]
        /\ \A i \in 1 .. m + n : s[i] \in Nat /\ s[i] <= pos + n
        /\ \A i \in 1 .. m + n : \/ i \in 1..m /\ s[i] = out[i]
                                 \/ s[i] \in pos + 1 .. pos + n
        /\ \A b \in pos + 1 .. pos + n : \E i \in 1 .. m + n : s[i] = b
    <3>1. Continues(m, n, pos, out, s)
      BY <2>2 DEF Continues
    <3>2. Continued(m, n, pos, out, s)
      BY <1>1, <2>2, <3>1, InOrder
    <3> QED BY <3>2 DEF Continued
  <2> QED BY <2>3, <2>4 DEF m
<1>8. \A b \in 1..pos + n : b \in lost \/ \E i \in 1..Len(s) : s[i] = b
  <2>1. \A b \in 1..pos + n : b \in 1..pos \/ b \in pos + 1 .. pos + n
    BY <1>1, SMT
  <2>2. \A b \in 1..pos : b \in lost \/ \E i \in 1..Len(out) : out[i] = b
    BY DEF IInv, DeliveredInOrder
  <2>3. \A i \in 1..Len(out) : i \in 1..Len(s) /\ s[i] = out[i]
    <3>1. \A i \in 1..Len(out) : i \in 1 .. Len(out) + n /\ i <= Len(out)
      BY <1>12, SMT
    <3> QED BY <1>2, <3>1
  <2> QED BY <1>7, <2>1, <2>2, <2>3
<1>9. \A i \in 1..Len(s) : s[i] <= pos + n /\ s[i] \notin lost
  <2>1. \A b \in pos + 1 .. pos + n : b \notin lost
    BY <1>1, SMT DEF IInv, DeliveredInOrder
  <2> QED BY <1>6, <1>7, <2>1
<1>10. lost \subseteq 1 .. pos + n
  BY <1>1, SMT DEF IInv, DeliveredInOrder
<1>11. lost # {} => IF kind = "mock" THEN discards > 0 ELSE ended /\ pos + n = size
  BY <1>1, SMT DEF IInv, DeliveredInOrder, remaining
<1> QED BY <1>3, <1>5, <1>7, <1>8, <1>9, <1>10, <1>11 DEF IInv, DeliveredInOrder

-----------------------------------------------------------------------------
(* A read that fails, or an operation that is no read.                     *)
LEMMA OtherKeeps ==
  ASSUME IInv, ret' \in Answers, UNCHANGED <<kind, out>>,
         written' \in Nat, discards' \in Nat, discards' >= discards,
         ended' \in BOOLEAN, ended => ended', size' \in Nat,
         \/ /\ UNCHANGED <<pos, lost>> /\ size' >= size
            /\ kind = "replay" => size' = size
         \/ /\ pos' = size /\ size' = size /\ lost' = lost \cup (pos + 1 .. size)
            /\ IF kind = "mock" THEN discards' > 0 ELSE ended'
  PROVE  IInv'
<1>1. /\ out \in Seq(Nat) /\ pos \in Nat /\ size \in Nat /\ pos <= size
      /\ lost \subseteq 1..pos /\ discards \in Nat /\ kind \in Kinds
  BY SMT DEF IInv, TypeOK, DeliveredInOrder
<1>2. TypeOK'
  <2>1. pos' \in 0..size'
    BY <1>1, SMT
  <2>2. \A b \in pos + 1 .. size : b \in Nat
    BY <1>1, SMT
  <2>3. lost' \subseteq Nat
    BY <2>2 DEF IInv, TypeOK
  <2> QED BY <1>1, <2>1, <2>3 DEF TypeOK, Answers
<1>3. CASE UNCHANGED <<pos, lost>> /\ size' >= size /\ (kind = "replay" => size' = size)
  <2>1. kind # "mock" => kind = "replay"
    BY <1>1, BufferAssumption
  <2>2. (lost # {} => IF kind = "mock" THEN discards > 0 ELSE ended /\ pos = size)'
    BY <1>1, <1>3, <2>1, SMT DEF IInv, DeliveredInOrder
  <2> QED BY <1>2, <1>3, <2>2 DEF IInv, DeliveredInOrder
<1>4. CASE /\ pos' = size /\ size' = size /\ lost' = lost \cup (pos + 1 .. size)
           /\ IF kind = "mock" THEN discards' > 0 ELSE ended'
  <2>1. \A i \in 1..Len(out) : out[i] <= pos /\ out[i] \notin lost /\ out[i] \in Nat
    BY <1>1, SMT DEF IInv, DeliveredInOrder
  <2>2. \A i \in 1..Len(out) : out[i] <= size /\ out[i] \notin lost'
    BY <1>1, <1>4, <2>1, SMT
  <2>3. \A b \in 1..size : b \in lost' \/ \E i \in 1..Len(out) : out[i] = b
    <3>1. \A b \in 1..size : b \in 1..pos \/ b \in pos + 1 .. size
      BY <1>1, SMT
    <3> QED BY <1>4, <3>1 DEF IInv, DeliveredInOrder
  <2>4. lost' \subseteq 1..size
    BY <1>1, <1>4, SMT
  <2>5. (\A i, j \in 1..Len(out) : i < j => out[i] < out[j])'
    BY DEF IInv, DeliveredInOrder
  <2> QED BY <1>2, <1>4, <2>2, <2>3, <2>4, <2>5 DEF IInv, DeliveredInOrder
<1> QED BY <1>3, <1>4

LEMMA InitIInv == Init => IInv
<1> SUFFICES ASSUME Init PROVE IInv
  OBVIOUS
<1>1. size \in Nat /\ kind \in Kinds
  BY BufferAssumption, SMT DEF Init
<1>2. pos \in 0..size /\ written \in Nat /\ discards \in Nat
  BY <1>1, SMT DEF Init
<1>3. ret \in Answers
  BY BufferAssumption, SMT DEF Init, Trait!NoAnswer, Trait!Answer, Answers
<1>4. TypeOK
  <2>1. out \in Seq(Nat) /\ lost \subseteq Nat /\ ended \in BOOLEAN
    <3>1. <<>> \in Seq(Nat)
      BY SMT
    <3> QED BY <3>1 DEF Init
  <2> QED BY <1>1, <1>2, <1>3, <2>1 DEF TypeOK, Answers
<1>5. 1..pos = {} /\ 1..Len(out) = {}
  BY SMT DEF Init
<1> QED BY <1>4, <1>5 DEF Init, IInv, DeliveredInOrder

(* What a failed read returns.                                             *)
LEMMA FailedAnswer ==
  ASSUME NEW want \in 1..MaxWant, NEW op \in {"read_exact", "read"},
         NEW f \in {"Timeout", "Eof"}
  PROVE  Trait!Answer(op, want, f, 0) \in Answers
  BY BufferAssumption, SMT DEF Trait!Answer, Trait!Failures, Answers

LEMMA IInvStep == IInv /\ [Next]_vars => IInv'
<1> SUFFICES ASSUME IInv, [Next]_vars PROVE IInv'
  OBVIOUS
<1>1. /\ pos \in Nat /\ size \in Nat /\ pos <= size
      /\ ret \in Answers /\ written \in Nat /\ discards \in Nat /\ ended \in BOOLEAN
  BY SMT DEF IInv, TypeOK, Answers
<1>2. remaining \in Nat
  BY <1>1, SMT DEF remaining
<1>3. ASSUME NEW want \in 1..MaxWant, read_exact(want) PROVE IInv'
  <2>1. want \in Nat /\ want <= remaining /\ want <= want
    BY <1>2, <1>3, BufferAssumption, SMT DEF read_exact
  <2> QED BY <1>3, <2>1, DeliverKeeps DEF read_exact
<1>4. ASSUME NEW want \in 1..MaxWant, ReplayShort(want) PROVE IInv'
  <2>1. ret' \in Answers
    BY <1>4, FailedAnswer DEF ReplayShort
  <2>2. discards' >= discards
    BY <1>1, <1>4, SMT DEF ReplayShort
  <2>3. ended' = TRUE /\ ~(kind = "mock")
    BY <1>4 DEF ReplayShort
  <2> QED BY <1>1, <1>4, <2>1, <2>2, <2>3, OtherKeeps DEF ReplayShort
<1>5. ASSUME NEW want \in 1..MaxWant, MockShort(want) PROVE IInv'
  <2>1. ret' \in Answers
    BY <1>5, FailedAnswer DEF MockShort
  <2>2. discards' >= discards /\ size' >= size
    BY <1>1, <1>5, SMT DEF MockShort
  <2> QED BY <1>1, <1>5, <2>1, <2>2, OtherKeeps DEF MockShort
<1>6. ASSUME NEW want \in 1..MaxWant, read(want) PROVE IInv'
  <2> DEFINE n == Smaller(want, remaining)
  <2>1. n \in Nat /\ n <= remaining /\ n <= want
    BY <1>2, BufferAssumption, SMT DEF Smaller
  <2>2. Deliver("read", want, n)
    BY <1>6 DEF read
  <2> HIDE DEF n
  <2> QED BY <2>1, <2>2, DeliverKeeps
<1>7. ASSUME NEW want \in 1..MaxWant, ReadExhausted(want) PROVE IInv'
  <2>1. ret' \in Answers
    <3>1. CASE kind = "replay"
      BY <1>7, <3>1, FailedAnswer DEF ReadExhausted
    <3>2. CASE kind # "replay"
      BY <1>7, <3>2, FailedAnswer DEF ReadExhausted
    <3> QED BY <3>1, <3>2
  <2>2. discards' >= discards /\ size' >= size
    BY <1>1, <1>7, SMT DEF ReadExhausted
  <2>3. ended' \in BOOLEAN /\ (ended => ended')
    BY <1>1, <1>7 DEF ReadExhausted
  <2> QED BY <1>1, <1>7, <2>1, <2>2, <2>3, OtherKeeps DEF ReadExhausted
<1>8. CASE write_all
  <2>1. written' \in Nat /\ discards' >= discards /\ size' >= size
    BY <1>1, <1>8, SMT DEF write_all
  <2> QED BY <1>1, <1>8, <2>1, OtherKeeps DEF write_all
<1>9. CASE discard_input
  <2>1. CASE kind = "replay" /\ UNCHANGED <<pos, lost, discards>>
    <3>1. discards' >= discards /\ size' >= size
      BY <1>1, <1>9, <2>1, SMT DEF discard_input
    <3> QED BY <1>1, <1>9, <2>1, <3>1, OtherKeeps DEF discard_input
  <2>2. CASE /\ kind = "mock" /\ pos' = size /\ lost' = lost \cup (pos + 1 .. size)
             /\ discards' = discards + 1
    <3>1. discards' \in Nat /\ discards' >= discards /\ discards' > 0
      BY <1>1, <2>2, SMT
    <3> QED BY <1>1, <1>9, <2>2, <3>1, OtherKeeps DEF discard_input
  <2> QED BY <1>9, <2>1, <2>2 DEF discard_input
<1>10. CASE queue_input
  <2>1. size' \in Nat /\ size' >= size /\ discards' >= discards /\ kind # "replay"
    BY <1>1, <1>10, BufferAssumption, SMT DEF queue_input
  <2> QED BY <1>1, <1>10, <2>1, OtherKeeps DEF queue_input
<1>11. CASE UNCHANGED vars
  <2>1. discards' >= discards /\ size' >= size
    BY <1>1, <1>11, SMT DEF vars
  <2> QED BY <1>1, <1>11, <2>1, OtherKeeps DEF vars
<1> QED BY <1>3, <1>4, <1>5, <1>6, <1>7, <1>8, <1>9, <1>10, <1>11 DEF Next

(* The inductive invariant of the two buffers (replay.rs, mock.rs).        *)
THEOREM Invariance == Spec => []IInv
  BY InitIInv, IInvStep, PTL DEF Spec

(* For every buffer and read size, the position stays within the buffer, so*)
(* that remaining() never underflows (replay.rs:56-58, mock.rs:59-61).     *)
THEOREM BufferTypes == Spec => []TypeOK
<1>1. IInv => TypeOK
  BY DEF IInv
<1> QED BY <1>1, Invariance, PTL

(* Bytes are delivered in order, once, and given up only by a flush of a   *)
(* mock or after the end of a recording (replay.rs:62-92, mock.rs:65-94).  *)
THEOREM BuffersDeliverInOrder == Spec => []DeliveredInOrder
<1>1. IInv => DeliveredInOrder
  BY DEF IInv
<1> QED BY <1>1, Invariance, PTL

-----------------------------------------------------------------------------
(* Bytes used up, as the trait counts them.                                *)
used == IF kind = "replay" THEN pos ELSE Len(out)

LEMMA StepIsTransport ==
  ASSUME IInv, IInv', [Next]_vars
  PROVE  [Trait!Next]_<<used, ret>>
<1>1. /\ pos \in Nat /\ size \in Nat /\ pos <= size /\ out \in Seq(Nat)
      /\ Len(out) \in Nat /\ used \in Nat
  BY SMT DEF IInv, TypeOK, used
<1>2. ASSUME NEW op, NEW want \in 1..MaxWant, NEW n \in Nat, Deliver(op, want, n)
      PROVE  used' = used + n
  <2>1. Len(out') = Len(out) + n
    BY <1>1, <1>2, Appended DEF Deliver
  <2> QED BY <1>2, <2>1 DEF Deliver, used
<1>3. ASSUME NEW want \in 1..MaxWant, read_exact(want) PROVE Trait!Next
  <2>1. want \in Nat
    BY BufferAssumption, SMT
  <2>2. used' = used + want
    BY <1>2, <1>3, <2>1 DEF read_exact
  <2>3. Trait!read_exact(want)
    BY <1>3, <2>2 DEF read_exact, Deliver, Trait!read_exact, used
  <2> QED BY <2>3 DEF Trait!Next
<1>4. ASSUME NEW want \in 1..MaxWant, ReplayShort(want) PROVE Trait!Next
  <2>1. used = pos /\ used' = size
    BY <1>4 DEF ReplayShort, used
  <2>2. used' \in used .. used + want - 1
    BY <1>1, <1>4, <2>1, BufferAssumption, SMT DEF ReplayShort, remaining
  <2>3. Trait!read_exact(want)
    BY <1>4, <2>2 DEF ReplayShort, Trait!read_exact, Trait!Failures, used
  <2> QED BY <2>3 DEF Trait!Next
<1>5. ASSUME NEW want \in 1..MaxWant, MockShort(want) PROVE Trait!Next
  <2>1. used' = used
    BY <1>5 DEF MockShort, used
  <2>2. used' \in used .. used + want - 1
    BY <1>1, <2>1, BufferAssumption, SMT
  <2>3. Trait!read_exact(want)
    BY <1>5, <2>2 DEF MockShort, Trait!read_exact, Trait!Failures, used
  <2> QED BY <2>3 DEF Trait!Next
<1>6. ASSUME NEW want \in 1..MaxWant, read(want) PROVE Trait!Next
  <2> DEFINE n == Smaller(want, remaining)
  <2>1. n \in Nat /\ n \in 1..want
    BY <1>1, <1>6, BufferAssumption, SMT DEF Smaller, remaining, read
  <2>2. Deliver("read", want, n)
    BY <1>6 DEF read
  <2> HIDE DEF n
  <2>3. used' = used + n
    BY <1>2, <2>1, <2>2
  <2>4. Trait!read(want)
    BY <2>1, <2>2, <2>3 DEF Deliver, Trait!read, used
  <2> QED BY <2>4 DEF Trait!Next
<1>7. ASSUME NEW want \in 1..MaxWant, ReadExhausted(want) PROVE Trait!Next
  <2>1. used' = used
    BY <1>7 DEF ReadExhausted, used
  <2>2. Trait!read(want)
    <3>1. CASE kind = "replay"
      BY <1>7, <2>1, <3>1 DEF ReadExhausted, Trait!read, Trait!Failures, used
    <3>2. CASE kind # "replay"
      BY <1>7, <2>1, <3>2 DEF ReadExhausted, Trait!read, Trait!Failures, used
    <3> QED BY <3>1, <3>2
  <2> QED BY <2>2 DEF Trait!Next
<1>8. CASE write_all
  BY <1>8 DEF write_all, used
<1>9. CASE discard_input
  BY <1>9 DEF discard_input, used
<1>10. CASE queue_input
  BY <1>10 DEF queue_input, used
<1>11. CASE UNCHANGED vars
  BY <1>11 DEF vars, used
<1> QED BY <1>3, <1>4, <1>5, <1>6, <1>7, <1>8, <1>9, <1>10, <1>11 DEF Next

(* Both buffers keep the promise of the Transport trait (mod.rs:57-75).    *)
THEOREM BuffersAreTransports == Spec => ImplementsTrait
<1>1. Init => Trait!Init
  BY DEF Init, Trait!Init
<1>2. IInv /\ IInv' /\ [Next]_vars => [Trait!Next]_<<used, ret>>
  BY StepIsTransport
<1>3. IInv /\ IInv' /\ [Next]_vars
        => [Trait!Next]_<<IF kind = "replay" THEN pos ELSE Len(out), ret>>
  BY <1>2 DEF used
<1> QED BY <1>1, <1>3, Invariance, PTL DEF Spec, ImplementsTrait, Trait!Spec

=============================================================================
