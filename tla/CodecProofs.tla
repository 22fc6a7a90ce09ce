---------------------------- MODULE CodecProofs -----------------------------
(***************************************************************************)
(* What the parsers do with every byte, and not only with those at the     *)
(* edges of a field; and what the checksum, the coverage of a rotation and *)
(* the search for a port come to after any number of rounds.               *)
(***************************************************************************)
EXTENDS Codec, SequenceTheorems, WellFoundedInduction, TLAPS

-----------------------------------------------------------------------------
(* Induction over the natural numbers, as a fact about a set.              *)

(* Some numbers, the least of them.                                        *)
LEMMA Least ==
  ASSUME NEW T, T \subseteq Nat, T # {}
  PROVE  \E x \in T : \A y \in T : ~ (y < x)
<1> DEFINE R == {ss \in Nat \X Nat : ss[1] < ss[2]}
<1>1. IsWellFoundedOn(R, Nat)
  BY NatLessThanWellFounded, Zenon DEF OpToRel
<1>2. \A x, y \in Nat : y < x => <<y, x>> \in R
  OBVIOUS
<1> HIDE DEF R
<1>3. \E x \in T : \A y \in T : ~ (<<y, x>> \in R)
  BY <1>1, WFMin
<1> QED
  BY <1>2, <1>3

(* A set with 0 that is closed under adding 1.                             *)
LEMMA Induction ==
  ASSUME NEW T, 0 \in T, \A n \in Nat : n \in T => n + 1 \in T
  PROVE  Nat \subseteq T
<1> SUFFICES ASSUME ~ (Nat \subseteq T) PROVE FALSE
  OBVIOUS
<1>1. PICK x \in Nat \ T : \A y \in Nat \ T : ~ (y < x)
  BY Least
<1>2. x # 0 /\ x - 1 \in Nat /\ x - 1 < x /\ (x - 1) + 1 = x
  BY <1>1
<1> QED
  BY <1>1, <1>2

-----------------------------------------------------------------------------
(* Folds over a sequence.  FoldLeft takes the largest index of a set first and*)
(* folds the rest before it; only the sets 1..k ever matter.               *)

(* The largest of some numbers up to n.                                    *)
LEMMA MaxIsLargest ==
  ASSUME NEW n \in Nat, NEW s \in SUBSET (1..n), s # {}
  PROVE  Max(s) \in s /\ \A y \in s : Max(s) >= y
<1> DEFINE T == {m \in Nat : \E x \in s : m = n - x}
<1>1. T \subseteq Nat /\ T # {}
  <2>1. PICK x \in s : TRUE OBVIOUS
  <2>2. n - x \in Nat OBVIOUS
  <2> QED
    BY <2>1, <2>2
<1>2. PICK m \in T : \A y \in T : ~ (y < m)
  BY <1>1, Least
<1>3. PICK x \in s : m = n - x
  BY <1>2
<1>4. ASSUME NEW y \in s PROVE x >= y
  <2>1. n - y \in T /\ x \in Int /\ y \in Int
    OBVIOUS
  <2>2. ~ (n - y < n - x)
    BY <1>2, <1>3, <2>1
  <2> QED
    BY <2>1, <2>2
<1>5. \E z \in s : \A y \in s : z >= y
  BY <1>4
<1> QED
  BY <1>5, Zenon DEF Max

LEMMA MaxIs ==
  ASSUME NEW n \in Nat, NEW s \in SUBSET (1..n), NEW x \in s, \A y \in s : x >= y
  PROVE  Max(s) = x
<1>1. Max(s) \in s /\ \A y \in s : Max(s) >= y
  BY MaxIsLargest
<1>2. PICK m : m = Max(s)
  OBVIOUS
<1>3. m \in s
  BY <1>1, <1>2
<1>4. m >= x
  BY <1>1, <1>2
<1>5. x >= m
  BY <1>3
<1>6. m \in Int /\ x \in Int
  BY <1>3
<1> QED
  BY <1>2, <1>4, <1>5, <1>6

(* F folds each set of indices: G is told what came before and the index.  *)
Folding(F, G, base, n) ==
  F = [s \in SUBSET (1..n) |-> IF s = {} THEN base ELSE G[<<F[s \ {Max(s)}], Max(s)>>]]

Foldable(V, G, base, n) == \E F \in [SUBSET (1..n) -> V] : Folding(F, G, base, n)

(* There is such a function for every G that stays in its set of values.   *)
LEMMA FoldExists ==
  ASSUME NEW V, NEW base \in V, NEW n \in Nat, NEW G \in [V \X (1..n) -> V]
  PROVE  Foldable(V, G, base, n)
<1> DEFINE T == {k \in Nat : k <= n => Foldable(V, G, base, k)}
<1>1. 0 \in T
  <2> DEFINE F == [s \in SUBSET (1..0) |-> base]
  <2>1. 1..0 = {} /\ SUBSET (1..0) = {{}}
    OBVIOUS
  <2>2. F \in [SUBSET (1..0) -> V] /\ Folding(F, G, base, 0)
    BY <2>1 DEF Folding
  <2>3. Foldable(V, G, base, 0)
    BY <2>2 DEF Foldable
  <2> QED
    BY <2>3
<1>2. ASSUME NEW k \in Nat, k \in T PROVE k + 1 \in T
  <2> SUFFICES ASSUME k + 1 <= n
               PROVE  Foldable(V, G, base, k + 1)
    OBVIOUS
  <2>1. PICK F \in [SUBSET (1..k) -> V] : Folding(F, G, base, k)
    <3>1. k <= n
      OBVIOUS
    <3>2. Foldable(V, G, base, k)
      BY <1>2, <3>1
    <3> QED
      BY <3>2 DEF Foldable
  <2> DEFINE E == [s \in SUBSET (1 .. k + 1) |->
                     IF k + 1 \in s THEN G[<<F[s \ {k + 1}], k + 1>>] ELSE F[s]]
  <2>2. \A s \in SUBSET (1 .. k + 1) : k + 1 \in s => s \ {k + 1} \in SUBSET (1..k)
    OBVIOUS
  <2>3. \A s \in SUBSET (1 .. k + 1) : k + 1 \notin s => s \in SUBSET (1..k)
    OBVIOUS
  <2>4. E \in [SUBSET (1 .. k + 1) -> V]
    <3> SUFFICES ASSUME NEW s \in SUBSET (1 .. k + 1) PROVE E[s] \in V
      OBVIOUS
    <3>1. CASE k + 1 \in s
      <4>1. F[s \ {k + 1}] \in V /\ k + 1 \in 1..n
        BY <2>2, <3>1
      <4> QED
        BY <3>1, <4>1
    <3>2. CASE k + 1 \notin s
      BY <2>3, <3>2
    <3> QED
      BY <3>1, <3>2
  <2>5. ASSUME NEW s \in SUBSET (1 .. k + 1)
        PROVE  E[s] = IF s = {} THEN base ELSE G[<<E[s \ {Max(s)}], Max(s)>>]
    <3>1. CASE s = {}
      BY <2>1, <3>1 DEF Folding
    <3>2. CASE k + 1 \in s
      <4>1. Max(s) = k + 1
        <5>1. \A y \in s : k + 1 >= y
          OBVIOUS
        <5>2. k + 1 \in Nat /\ s \in SUBSET (1 .. k + 1)
          OBVIOUS
        <5> QED
          BY <3>2, <5>1, <5>2, MaxIs
      <4>2. E[s \ {k + 1}] = F[s \ {k + 1}]
        BY <2>2, <3>2
      <4> QED
        BY <3>2, <4>1, <4>2
    <3>3. CASE k + 1 \notin s /\ s # {}
      <4>1. s \in SUBSET (1..k)
        BY <2>3, <3>3
      <4>2. s \ {Max(s)} \in SUBSET (1..k)
        BY <4>1
      <4>3. E[s \ {Max(s)}] = F[s \ {Max(s)}] /\ E[s] = F[s]
        BY <4>1, <4>2, <3>3
      <4>4. F[s] = G[<<F[s \ {Max(s)}], Max(s)>>]
        BY <2>1, <3>3, <4>1, Zenon DEF Folding
      <4> QED
        BY <3>3, <4>3, <4>4
    <3> QED
      BY <3>1, <3>2, <3>3
  <2> HIDE DEF E
  <2>6. E = [s \in SUBSET (1 .. k + 1) |-> E[s]]
    BY <2>4
  <2>7. Folding(E, G, base, k + 1)
    BY <2>5, <2>6, Zenon DEF Folding
  <2> QED
    BY <2>4, <2>7 DEF Foldable
<1>3. n \in T
  <2> HIDE DEF T
  <2> QED
    BY <1>1, <1>2, Induction
<1> QED
  BY <1>3

(* The fold proceeds from 1..k - 1 to 1..k.                                *)
LEMMA PrefixMax ==
  ASSUME NEW n \in Nat, NEW k \in 1..n
  PROVE  /\ 1..k \in SUBSET (1..n) /\ 1..k # {}
         /\ Max(1..k) = k /\ (1..k) \ {k} = 1 .. k - 1
<1>1. /\ 1..k \in SUBSET (1..n) /\ 1..k # {} /\ k \in 1..k
      /\ \A y \in 1..k : k >= y
      /\ (1..k) \ {k} = 1 .. k - 1
  OBVIOUS
<1> QED
  BY <1>1, MaxIs

(* What one step of a fold preserves, all of them do.                      *)
LEMMA FoldedWithin ==
  ASSUME NEW V, NEW n \in Nat, NEW it, it[{}] \in V,
         \A k \in 1..n : it[1 .. k - 1] \in V => it[1..k] \in V
  PROVE  \A k \in 0..n : it[1..k] \in V
<1> DEFINE T == {k \in Nat : k <= n => it[1..k] \in V}
<1>1. 0 \in T
  <2>1. 1..0 = {}
    OBVIOUS
  <2> QED
    BY <2>1
<1>2. ASSUME NEW k \in Nat, k \in T PROVE k + 1 \in T
  <2> SUFFICES ASSUME k + 1 <= n PROVE it[1 .. k + 1] \in V
    OBVIOUS
  <2>1. it[1..k] \in V /\ k + 1 \in 1..n /\ (k + 1) - 1 = k
    BY <1>2
  <2> QED
    BY <2>1
<1>3. Nat \subseteq T
  <2> HIDE DEF T
  <2> QED
    BY <1>1, <1>2, Induction
<1> QED
  <2> SUFFICES ASSUME NEW k \in 0..n PROVE it[1..k] \in V
    OBVIOUS
  <2>1. k \in T
    <3>1. k \in Nat
      OBVIOUS
    <3> HIDE DEF T
    <3> QED
      BY <1>3, <3>1
  <2> QED
    BY <2>1

-----------------------------------------------------------------------------
(* A byte is its eight bits.                                               *)

Eight(b0, b1, b2, b3, b4, b5, b6, b7) ==
  b0 + 2 * b1 + 4 * b2 + 8 * b3 + 16 * b4 + 32 * b5 + 64 * b6 + 128 * b7

HasBits(c, b0, b1, b2, b3, b4, b5, b6, b7) ==
  /\ c % 2 = b0 /\ (c \div 2) % 2 = b1 /\ (c \div 4) % 2 = b2 /\ (c \div 8) % 2 = b3
  /\ (c \div 16) % 2 = b4 /\ (c \div 32) % 2 = b5 /\ (c \div 64) % 2 = b6
  /\ (c \div 128) % 2 = b7

LEMMA Weights ==
  /\ 2^0 = 1 /\ 2^1 = 2 /\ 2^2 = 4 /\ 2^3 = 8
  /\ 2^4 = 16 /\ 2^5 = 32 /\ 2^6 = 64 /\ 2^7 = 128
OBVIOUS

LEMMA EachBit ==
  \A k \in 0..7 :
    k = 0 \/ k = 1 \/ k = 2 \/ k = 3 \/ k = 4 \/ k = 5 \/ k = 6 \/ k = 7
OBVIOUS

LEMMA BitNames ==
  /\ 0 \in 0..7 /\ 1 \in 0..7 /\ 2 \in 0..7 /\ 3 \in 0..7
  /\ 4 \in 0..7 /\ 5 \in 0..7 /\ 6 \in 0..7 /\ 7 \in 0..7
OBVIOUS

LEMMA BitsOf ==
  ASSUME NEW a \in Byte
  PROVE  HasBits(a, Bit(a, 0), Bit(a, 1), Bit(a, 2), Bit(a, 3),
                    Bit(a, 4), Bit(a, 5), Bit(a, 6), Bit(a, 7))
<1>1. a \div 1 = a
  BY DEF Byte
<1> QED
  BY <1>1, Weights DEF Bit, HasBits

LEMMA BitType ==
  ASSUME NEW a \in Byte
  PROVE  \A k \in 0..7 : Bit(a, k) \in {0, 1}
<1>1. a \in 0..255
  BY DEF Byte
<1>2. /\ a % 2 \in {0, 1} /\ (a \div 2) % 2 \in {0, 1} /\ (a \div 4) % 2 \in {0, 1}
      /\ (a \div 8) % 2 \in {0, 1} /\ (a \div 16) % 2 \in {0, 1}
      /\ (a \div 32) % 2 \in {0, 1} /\ (a \div 64) % 2 \in {0, 1}
      /\ (a \div 128) % 2 \in {0, 1}
  BY <1>1
<1>3. /\ Bit(a, 0) \in {0, 1} /\ Bit(a, 1) \in {0, 1} /\ Bit(a, 2) \in {0, 1}
      /\ Bit(a, 3) \in {0, 1} /\ Bit(a, 4) \in {0, 1} /\ Bit(a, 5) \in {0, 1}
      /\ Bit(a, 6) \in {0, 1} /\ Bit(a, 7) \in {0, 1}
  <2>1. HasBits(a, Bit(a, 0), Bit(a, 1), Bit(a, 2), Bit(a, 3),
                   Bit(a, 4), Bit(a, 5), Bit(a, 6), Bit(a, 7))
    BY BitsOf, Zenon
  <2> QED
    BY <1>2, <2>1 DEF HasBits
<1> QED
  BY <1>3, EachBit, Zenon

(* No other byte has those bits.                                           *)
LEMMA SplitByte ==
  ASSUME NEW a \in 0..255, NEW b0, NEW b1, NEW b2, NEW b3, NEW b4, NEW b5, NEW b6, NEW b7,
         HasBits(a, b0, b1, b2, b3, b4, b5, b6, b7)
  PROVE  a = Eight(b0, b1, b2, b3, b4, b5, b6, b7)
<1>1. a = Eight(a % 2, (a \div 2) % 2, (a \div 4) % 2, (a \div 8) % 2,
                (a \div 16) % 2, (a \div 32) % 2, (a \div 64) % 2, (a \div 128) % 2)
  BY SMTT(60) DEF Eight
<1> QED
  BY <1>1, Zenon DEF HasBits

(* The bits of an exclusive or. *)
LEMMA XorBits ==
  ASSUME NEW a \in Byte, NEW b \in Byte
  PROVE  /\ Xor(a, b) \in Byte
         /\ \A k \in 0..7 : Bit(Xor(a, b), k) = (Bit(a, k) + Bit(b, k)) % 2
<1> DEFINE x(k) == (Bit(a, k) + Bit(b, k)) % 2
<1>1. \A k \in 0..7 : x(k) \in {0, 1}
  <2> TAKE k \in 0..7
  <2>1. Bit(a, k) \in {0, 1} /\ Bit(b, k) \in {0, 1}
    BY BitType
  <2> QED
    BY <2>1
<1>2. /\ x(0) \in {0, 1} /\ x(1) \in {0, 1} /\ x(2) \in {0, 1} /\ x(3) \in {0, 1}
      /\ x(4) \in {0, 1} /\ x(5) \in {0, 1} /\ x(6) \in {0, 1} /\ x(7) \in {0, 1}
  BY <1>1
<1> HIDE DEF x
<1>3. PICK y0 \in {0, 1}, y1 \in {0, 1}, y2 \in {0, 1}, y3 \in {0, 1},
           y4 \in {0, 1}, y5 \in {0, 1}, y6 \in {0, 1}, y7 \in {0, 1} :
        /\ y0 = x(0) /\ y1 = x(1) /\ y2 = x(2) /\ y3 = x(3)
        /\ y4 = x(4) /\ y5 = x(5) /\ y6 = x(6) /\ y7 = x(7)
  BY <1>2
<1>4. PICK c \in 0..255 : HasBits(c, x(0), x(1), x(2), x(3), x(4), x(5), x(6), x(7))
  <2>1. /\ Eight(y0, y1, y2, y3, y4, y5, y6, y7) \in 0..255
        /\ HasBits(Eight(y0, y1, y2, y3, y4, y5, y6, y7), y0, y1, y2, y3, y4, y5, y6, y7)
    BY SMTT(60) DEF Eight, HasBits
  <2> QED
    BY <1>3, <2>1
<1>5. c \in Byte
  BY <1>4 DEF Byte
<1>6. /\ Bit(c, 0) = x(0) /\ Bit(c, 1) = x(1) /\ Bit(c, 2) = x(2) /\ Bit(c, 3) = x(3)
      /\ Bit(c, 4) = x(4) /\ Bit(c, 5) = x(5) /\ Bit(c, 6) = x(6) /\ Bit(c, 7) = x(7)
  BY <1>4, <1>5, BitsOf, Zenon DEF HasBits
<1>7. \A k \in 0..7 : Bit(c, k) = x(k)
  BY <1>6, EachBit, Zenon
<1>8. \E d \in Byte : \A k \in 0..7 : Bit(d, k) = (Bit(a, k) + Bit(b, k)) % 2
  BY <1>5, <1>7, Zenon DEF x
<1> QED
  BY <1>8, Zenon DEF Xor

(* Bits tell bytes apart. *)
LEMMA SameBits ==
  ASSUME NEW a \in Byte, NEW b \in Byte, \A k \in 0..7 : Bit(a, k) = Bit(b, k)
  PROVE  a = b
<1>1. a \in 0..255 /\ b \in 0..255
  BY DEF Byte
<1>2. /\ Bit(a, 0) = Bit(b, 0) /\ Bit(a, 1) = Bit(b, 1) /\ Bit(a, 2) = Bit(b, 2)
      /\ Bit(a, 3) = Bit(b, 3) /\ Bit(a, 4) = Bit(b, 4) /\ Bit(a, 5) = Bit(b, 5)
      /\ Bit(a, 6) = Bit(b, 6) /\ Bit(a, 7) = Bit(b, 7)
  BY BitNames, Zenon
<1>3. a = Eight(Bit(a, 0), Bit(a, 1), Bit(a, 2), Bit(a, 3),
                Bit(a, 4), Bit(a, 5), Bit(a, 6), Bit(a, 7))
  <2>1. HasBits(a, Bit(a, 0), Bit(a, 1), Bit(a, 2), Bit(a, 3),
                   Bit(a, 4), Bit(a, 5), Bit(a, 6), Bit(a, 7))
    BY BitsOf, Zenon
  <2> QED
    BY <1>1, <2>1, SplitByte
<1>4. b = Eight(Bit(b, 0), Bit(b, 1), Bit(b, 2), Bit(b, 3),
                Bit(b, 4), Bit(b, 5), Bit(b, 6), Bit(b, 7))
  <2>1. HasBits(b, Bit(b, 0), Bit(b, 1), Bit(b, 2), Bit(b, 3),
                   Bit(b, 4), Bit(b, 5), Bit(b, 6), Bit(b, 7))
    BY BitsOf, Zenon
  <2> QED
    BY <1>1, <2>1, SplitByte
<1> QED
  BY <1>2, <1>3, <1>4, Zenon

(* What a sum modulo 2 does not hide. *)
LEMMA Parity ==
  \A x, y, z \in {0, 1} :
    /\ (x + y) % 2 = (x + z) % 2 => y = z
    /\ (y + x) % 2 = (z + x) % 2 => y = z
    /\ (x + x) % 2 = 0
OBVIOUS

LEMMA XorCancels ==
  ASSUME NEW a \in Byte, NEW b \in Byte, NEW c \in Byte
  PROVE  /\ Xor(a, b) = Xor(a, c) => b = c
         /\ Xor(b, a) = Xor(c, a) => b = c
<1>1. ASSUME NEW k \in 0..7
      PROVE  /\ Bit(Xor(a, b), k) = Bit(Xor(a, c), k) => Bit(b, k) = Bit(c, k)
             /\ Bit(Xor(b, a), k) = Bit(Xor(c, a), k) => Bit(b, k) = Bit(c, k)
  <2>1. Bit(a, k) \in {0, 1} /\ Bit(b, k) \in {0, 1} /\ Bit(c, k) \in {0, 1}
    BY BitType
  <2>2. /\ Bit(Xor(a, b), k) = (Bit(a, k) + Bit(b, k)) % 2
        /\ Bit(Xor(a, c), k) = (Bit(a, k) + Bit(c, k)) % 2
        /\ Bit(Xor(b, a), k) = (Bit(b, k) + Bit(a, k)) % 2
        /\ Bit(Xor(c, a), k) = (Bit(c, k) + Bit(a, k)) % 2
    BY XorBits, Zenon
  <2> QED
    BY <2>1, <2>2, Parity
<1> QED
  BY <1>1, SameBits, Zenon

LEMMA XorSelf ==
  ASSUME NEW a \in Byte
  PROVE  Xor(a, a) = 0
<1>1. 0 \in Byte
  BY DEF Byte
<1>2. HasBits(0, 0, 0, 0, 0, 0, 0, 0, 0)
  BY DEF HasBits
<1>3. /\ Bit(0, 0) = 0 /\ Bit(0, 1) = 0 /\ Bit(0, 2) = 0 /\ Bit(0, 3) = 0
      /\ Bit(0, 4) = 0 /\ Bit(0, 5) = 0 /\ Bit(0, 6) = 0 /\ Bit(0, 7) = 0
  BY <1>1, <1>2, BitsOf, Zenon DEF HasBits
<1>4. ASSUME NEW k \in 0..7 PROVE Bit(Xor(a, a), k) = Bit(0, k)
  <2>1. Bit(a, k) \in {0, 1} /\ Bit(Xor(a, a), k) = (Bit(a, k) + Bit(a, k)) % 2
    BY BitType, XorBits
  <2>2. Bit(Xor(a, a), k) = 0
    BY <2>1, Parity, Zenon
  <2>3. Bit(0, k) = 0
    BY <1>3, EachBit, Zenon
  <2> QED
    BY <2>2, <2>3
<1>5. Xor(a, a) \in Byte
  BY XorBits
<1> QED
  BY <1>1, <1>4, <1>5, SameBits, Zenon

(* A flipped bit makes another byte. *)
LEMMA Flipped ==
  ASSUME NEW a \in Byte, NEW k \in 0..7
  PROVE  Xor(a, 2^k) \in Byte /\ Xor(a, 2^k) # a
<1>1. {1, 2, 4, 8, 16, 32, 64, 128} \subseteq Byte
  BY DEF Byte
<1>2. 2^k \in Byte
  <2>1. 2^k \in {1, 2, 4, 8, 16, 32, 64, 128}
    BY EachBit, Weights
  <2> QED
    BY <1>1, <2>1
<1>3. Bit(2^k, k) = 1
  <2>1. \A m \in {1, 2, 4, 8, 16, 32, 64, 128} : (m \div m) % 2 = 1
    OBVIOUS
  <2>2. 2^k \in {1, 2, 4, 8, 16, 32, 64, 128}
    BY EachBit, Weights
  <2> QED
    BY <2>1, <2>2 DEF Bit
<1>4. /\ Xor(a, 2^k) \in Byte
      /\ Bit(Xor(a, 2^k), k) = (Bit(a, k) + Bit(2^k, k)) % 2
  BY <1>2, XorBits, Zenon
<1>5. Bit(a, k) \in {0, 1}
  BY BitType
<1>6. \A x \in {0, 1} : (x + 1) % 2 # x
  OBVIOUS
<1> QED
  BY <1>3, <1>4, <1>5, <1>6, Zenon

-----------------------------------------------------------------------------
(* Checksums.                                                              *)

(* xor_checksum goes through the bytes one by one.                         *)
LEMMA XorFold ==
  ASSUME NEW n \in Nat, NEW bytes \in [1..n -> Byte]
  PROVE  \E h \in [0..n -> Byte] :
           /\ h[0] = 0
           /\ \A k \in 1..n : h[k] = Xor(h[k - 1], bytes[k])
           /\ xor_checksum(bytes) = h[n]
<1> DEFINE G == [p \in Byte \X (1..n) |-> Xor(p[1], bytes[p[2]])]
           XorFolding(f) ==
             f = [s \in SUBSET (1..n) |->
                    IF s = {} THEN 0 ELSE Xor(f[s \ {Max(s)}], bytes[Max(s)])]
           it == CHOOSE f : XorFolding(f)
<1>1. G \in [Byte \X (1..n) -> Byte]
  <2>1. \A p \in Byte \X (1..n) : Xor(p[1], bytes[p[2]]) \in Byte
    BY XorBits
  <2> QED
    BY <2>1
<1>2. 0 \in Byte
  BY DEF Byte
<1>3. PICK F \in [SUBSET (1..n) -> Byte] : Folding(F, G, 0, n)
  BY <1>1, <1>2, FoldExists DEF Foldable
<1>4. XorFolding(F)
  <2>1. ASSUME NEW s \in SUBSET (1..n)
        PROVE  F[s] = IF s = {} THEN 0 ELSE Xor(F[s \ {Max(s)}], bytes[Max(s)])
    <3>1. F[s] = IF s = {} THEN 0 ELSE G[<<F[s \ {Max(s)}], Max(s)>>]
      BY <1>3, Zenon DEF Folding
    <3>2. CASE s # {}
      <4>1. Max(s) \in 1..n /\ F[s \ {Max(s)}] \in Byte
        BY <3>2, MaxIsLargest
      <4> QED
        BY <3>1, <3>2, <4>1
    <3> QED
      BY <3>1, <3>2
  <2>2. F = [s \in SUBSET (1..n) |-> F[s]]
    OBVIOUS
  <2> QED
    BY <2>1, <2>2, Zenon
<1>5. XorFolding(it)
  BY <1>4, Zenon
<1>6. DOMAIN bytes = 1..n
  OBVIOUS
<1>7. xor_checksum(bytes) = it[1..n]
  BY <1>6, Zenon DEF xor_checksum, FoldLeft, MapThenFoldSet
<1> HIDE DEF it
<1>8. it[{}] = 0
  BY <1>5
<1>9. ASSUME NEW k \in 1..n
      PROVE  it[1..k] = Xor(it[1 .. k - 1], bytes[k])
  <2>1. /\ 1..k \in SUBSET (1..n) /\ 1..k # {}
        /\ Max(1..k) = k /\ (1..k) \ {k} = 1 .. k - 1
    BY PrefixMax
  <2>2. it[1..k] = Xor(it[(1..k) \ {Max(1..k)}], bytes[Max(1..k)])
    BY <1>5, <2>1, Zenon
  <2> QED
    BY <2>1, <2>2
<1> HIDE DEF XorFolding
<1>10. 1..0 = {}
  OBVIOUS
<1>11. \A k \in 0..n : it[1..k] \in Byte
  <2>1. ASSUME NEW k \in 1..n, it[1 .. k - 1] \in Byte PROVE it[1..k] \in Byte
    BY <1>9, <2>1, XorBits
  <2>2. it[{}] \in Byte
    BY <1>2, <1>8
  <2> QED
    BY <2>1, <2>2, FoldedWithin
<1> DEFINE h == [k \in 0..n |-> it[1..k]]
<1>12. h \in [0..n -> Byte]
  BY <1>11
<1>13. h[0] = 0
  BY <1>8, <1>10
<1>14. \A k \in 1..n : h[k] = Xor(h[k - 1], bytes[k])
  <2> TAKE k \in 1..n
  <2>1. k \in 0..n /\ k - 1 \in 0..n
    OBVIOUS
  <2> QED
    BY <1>9, <2>1
<1>15. xor_checksum(bytes) = h[n]
  BY <1>7
<1> HIDE DEF h
<1> QED
  BY <1>12, <1>13, <1>14, <1>15

(* The checksum of one byte more. *)
LEMMA ChecksumOfMore ==
  ASSUME NEW n \in Nat, NEW b \in [1..n -> Byte], NEW m \in [1 .. n + 1 -> Byte],
         \A i \in 1..n : m[i] = b[i]
  PROVE  /\ xor_checksum(b) \in Byte
         /\ xor_checksum(m) = Xor(xor_checksum(b), m[n + 1])
<1>1. PICK h \in [0..n -> Byte] :
        /\ h[0] = 0 /\ \A k \in 1..n : h[k] = Xor(h[k - 1], b[k])
        /\ xor_checksum(b) = h[n]
  BY XorFold
<1>2. n + 1 \in Nat
  OBVIOUS
<1>3. PICK g \in [0 .. n + 1 -> Byte] :
        /\ g[0] = 0 /\ \A k \in 1 .. n + 1 : g[k] = Xor(g[k - 1], m[k])
        /\ xor_checksum(m) = g[n + 1]
  BY <1>2, XorFold
<1> DEFINE T == {k \in Nat : k <= n => g[k] = h[k]}
<1>4. 0 \in T
  BY <1>1, <1>3
<1>5. ASSUME NEW k \in Nat, k \in T PROVE k + 1 \in T
  <2> SUFFICES ASSUME k + 1 <= n PROVE g[k + 1] = h[k + 1]
    OBVIOUS
  <2>1. /\ g[k] = h[k] /\ k + 1 \in 1..n /\ k + 1 \in 1 .. n + 1 /\ (k + 1) - 1 = k
    BY <1>5
  <2>2. m[k + 1] = b[k + 1]
    BY <2>1
  <2> QED
    BY <1>1, <1>3, <2>1, <2>2
<1>6. n \in T
  <2> HIDE DEF T
  <2> QED
    BY <1>4, <1>5, Induction
<1>7. g[n] = h[n] /\ n + 1 \in 1 .. n + 1 /\ (n + 1) - 1 = n
  BY <1>6
<1>8. g[n + 1] = Xor(g[n], m[n + 1])
  BY <1>3, <1>7
<1> QED
  BY <1>1, <1>3, <1>7, <1>8

(* Frames of n bytes, and two of them that differ in one byte.             *)
Frames(n) == [1..n -> Byte]
OnlyAt(i, n, b, d) == b[i] # d[i] /\ \A j \in 1..n : j # i => d[j] = b[j]

(* Their checksums differ.                                                 *)
LEMMA DamageShows ==
  ASSUME NEW n \in Nat, NEW b \in Frames(n), NEW d \in Frames(n),
         NEW i \in 1..n, OnlyAt(i, n, b, d)
  PROVE  xor_checksum(d) # xor_checksum(b)
<1>0. /\ b \in [1..n -> Byte] /\ d \in [1..n -> Byte]
      /\ b[i] # d[i] /\ \A j \in 1..n : j # i => d[j] = b[j]
  BY DEF OnlyAt, Frames
<1>1. PICK h \in [0..n -> Byte] :
        /\ h[0] = 0 /\ \A k \in 1..n : h[k] = Xor(h[k - 1], b[k])
        /\ xor_checksum(b) = h[n]
  BY <1>0, XorFold
<1>2. PICK g \in [0..n -> Byte] :
        /\ g[0] = 0 /\ \A k \in 1..n : g[k] = Xor(g[k - 1], d[k])
        /\ xor_checksum(d) = g[n]
  BY <1>0, XorFold
<1> DEFINE T == {k \in Nat : k <= n => (k < i <=> g[k] = h[k])}
<1>3. 0 \in T
  BY <1>1, <1>2
<1>4. ASSUME NEW k \in Nat, k \in T PROVE k + 1 \in T
  <2> SUFFICES ASSUME k + 1 <= n PROVE k + 1 < i <=> g[k + 1] = h[k + 1]
    OBVIOUS
  <2>1. /\ k < i <=> g[k] = h[k]
        /\ k + 1 \in 1..n /\ (k + 1) - 1 = k /\ k \in 0..n
    BY <1>4
  <2>2. /\ g[k + 1] = Xor(g[k], d[k + 1]) /\ h[k + 1] = Xor(h[k], b[k + 1])
        /\ g[k] \in Byte /\ h[k] \in Byte /\ d[k + 1] \in Byte /\ b[k + 1] \in Byte
    BY <1>0, <1>1, <1>2, <2>1
  <2>3. CASE k + 1 = i
    <3>1. g[k] = h[k] /\ d[k + 1] # b[k + 1] /\ ~ (k + 1 < i)
      BY <1>0, <2>1, <2>3
    <3>2. g[k + 1] # h[k + 1]
      BY <2>2, <3>1, XorCancels, Zenon
    <3> QED
      BY <3>1, <3>2
  <2>4. CASE k + 1 # i
    <3>1. d[k + 1] = b[k + 1] /\ (k + 1 < i <=> k < i)
      BY <1>0, <2>1, <2>4
    <3>2. g[k + 1] = Xor(g[k], b[k + 1])
      BY <2>2, <3>1, Zenon
    <3>3. g[k + 1] = h[k + 1] => g[k] = h[k]
      <4>1. Xor(g[k], b[k + 1]) = Xor(h[k], b[k + 1]) => g[k] = h[k]
        BY <2>2, XorCancels
      <4> QED
        BY <2>2, <3>2, <4>1, Zenon
    <3>4. g[k] = h[k] => g[k + 1] = h[k + 1]
      BY <2>2, <3>2, Zenon
    <3> QED
      BY <2>1, <3>1, <3>3, <3>4, Zenon
  <2> QED
    BY <2>3, <2>4
<1>5. n \in T
  <2> HIDE DEF T
  <2> QED
    BY <1>3, <1>4, Induction
<1>6. g[n] # h[n]
  BY <1>5
<1> QED
  BY <1>1, <1>2, <1>6

-----------------------------------------------------------------------------
(* Requests.                                                               *)

(* Sequences that are put together in two ways.                            *)
LEMMA Concat ==
  ASSUME NEW p, NEW q, NEW r, NEW lo, NEW hi
  PROVE  <<p, q>> \o <<r, lo, hi>> = <<p, q, r, lo, hi>>
<1> DEFINE S == {p, q, r, lo, hi}
           a == <<p, q>>
           b == <<r, lo, hi>>
           c == <<p, q, r, lo, hi>>
<1>1. a \in Seq(S) /\ b \in Seq(S) /\ Len(a) = 2 /\ Len(b) = 3
  OBVIOUS
<1>2. c \in Seq(S) /\ Len(c) = 5
  OBVIOUS
<1>3. a \o b \in Seq(S) /\ Len(a \o b) = 5
  BY <1>1, ConcatProperties
<1>4. \A i \in 1..5 : (a \o b)[i] = c[i]
  <2> HIDE DEF a, b
  <2>1. \A i \in 1..5 : (a \o b)[i] = IF i <= 2 THEN a[i] ELSE b[i - 2]
    <3>1. \A i \in 1 .. Len(a) + Len(b) :
            (a \o b)[i] = IF i <= Len(a) THEN a[i] ELSE b[i - Len(a)]
      BY <1>1, ConcatProperties, Zenon
    <3>2. Len(a) + Len(b) = 5
      BY <1>1
    <3> QED
      BY <1>1, <3>1, <3>2, Zenon
  <2>2. \A i \in 1..5 : (IF i <= 2 THEN a[i] ELSE b[i - 2]) = c[i]
    BY DEF a, b
  <2> QED
    BY <2>1, <2>2
<1> QED
  BY <1>2, <1>3, <1>4, SeqEqual
(* Append keeps what was there.                                            *)
LEMMA Appended ==
  ASSUME NEW S, NEW q \in Seq(S), NEW e \in S
  PROVE  \A i \in 1..Len(q) : Append(q, e)[i] = q[i]
OBVIOUS

LEMMA App ==
  ASSUME NEW p, NEW q, NEW r, NEW lo, NEW hi, NEW s
  PROVE  Append(<<p, q, r, lo, hi>>, s) = <<p, q, r, lo, hi, s>>
<1> DEFINE S == {p, q, r, lo, hi, s}
           a == <<p, q, r, lo, hi>>
           c == <<p, q, r, lo, hi, s>>
<1>1. a \in Seq(S) /\ Len(a) = 5 /\ c \in Seq(S) /\ Len(c) = 6 /\ s \in S
  OBVIOUS
<1> HIDE DEF S
<1>2. Append(a, s) \in Seq(S) /\ Len(Append(a, s)) = 6
  BY <1>1, AppendProperties
<1>3. \A i \in 1..6 : Append(a, s)[i] = c[i]
  <2> HIDE DEF a
  <2>1. \A i \in 1..5 : Append(a, s)[i] = a[i]
    <3>1. \A i \in 1..Len(a) : Append(a, s)[i] = a[i]
      BY <1>1, Appended
    <3> QED
      BY <1>1, <3>1, Zenon
  <2>2. Append(a, s)[6] = s
    <3>1. Append(a, s)[Len(a) + 1] = s
      BY <1>1, AppendProperties, Zenon
    <3>2. Len(a) + 1 = 6
      BY <1>1
    <3> QED
      BY <3>1, <3>2, Zenon
  <2> QED
    BY <2>1, <2>2 DEF a
<1> QED
  BY <1>1, <1>2, <1>3, SeqEqual
(* A duty is passed on as two bytes.                                       *)
LEMMA TwoBytes ==
  ASSUME NEW x \in 0..MOTOR_PWM_MAX
  PROVE  /\ x % 256 \in Byte /\ x \div 256 \in Byte
         /\ (x % 256) + 256 * (x \div 256) = x
<1>1. PICK max \in Nat : max = MOTOR_PWM_MAX /\ max < 65536
  BY DEF MOTOR_PWM_MAX
<1>2. x \in Nat /\ x < 65536
  BY <1>1
<1>3. x % 256 \in 0..255 /\ x \div 256 \in 0..255 /\ (x % 256) + 256 * (x \div 256) = x
  BY <1>2
<1> QED
  BY <1>3 DEF Byte

(* No duty exceeds the largest.                                            *)
LEMMA Clamped ==
  ASSUME NEW pwm \in Nat
  PROVE  Duty(pwm) \in 0..MOTOR_PWM_MAX
<1>1. PICK max \in Nat : max = MOTOR_PWM_MAX
  BY DEF MOTOR_PWM_MAX
<1> QED
  BY <1>1 DEF Duty

(* The frame that sets the duty x.                                         *)
Unsealed(x) == <<SYNC_BYTE, 240, 2, x % 256, x \div 256>>
Sealed(x)   == <<SYNC_BYTE, 240, 2, x % 256, x \div 256, xor_checksum(Unsealed(x))>>

LEMMA EncodedDuty ==
  ASSUME NEW c \in Command, c.name = "SetMotorPwm"
  PROVE  encode(c) = Sealed(Duty(c.pwm))
<1> DEFINE lo == Duty(c.pwm) % 256
           hi == Duty(c.pwm) \div 256
<1>1. Header(c) = <<SYNC_BYTE, 240>>
  BY DEF Header, opcode, Opcodes
<1> HIDE DEF lo, hi
<1>2. Header(c) \o <<2, lo, hi>> = <<SYNC_BYTE, 240, 2, lo, hi>>
  BY <1>1, Concat
<1> DEFINE sum == xor_checksum(<<SYNC_BYTE, 240, 2, lo, hi>>)
<1> HIDE DEF sum
<1>3. Append(<<SYNC_BYTE, 240, 2, lo, hi>>, sum) = <<SYNC_BYTE, 240, 2, lo, hi, sum>>
  BY App
<1>4. encode(c) = Append(<<SYNC_BYTE, 240, 2, lo, hi>>, sum)
  BY <1>2, Zenon DEF encode, lo, hi, sum
<1>5. encode(c) = <<SYNC_BYTE, 240, 2, lo, hi, sum>>
  BY <1>3, <1>4, Zenon
<1> QED
  BY <1>5, Zenon DEF lo, hi, sum, Sealed, Unsealed

(* Its bytes, and what they add up to.                                     *)
LEMMA SealedBytes ==
  ASSUME NEW x \in 0..MOTOR_PWM_MAX
  PROVE  /\ Sealed(x) \in [1..6 -> Byte]
         /\ Sealed(x)[1] = SYNC_BYTE /\ Sealed(x)[2] = 240 /\ Sealed(x)[3] = 2
         /\ Sealed(x)[4] = x % 256 /\ Sealed(x)[5] = x \div 256
         /\ Len(Sealed(x)) = 6
         /\ xor_checksum(Sealed(x)) = 0
<1> DEFINE lo == x % 256
           hi == x \div 256
           b  == <<SYNC_BYTE, 240, 2, lo, hi>>
           m  == <<SYNC_BYTE, 240, 2, lo, hi, xor_checksum(b)>>
<1>1. lo \in Byte /\ hi \in Byte /\ SYNC_BYTE \in Byte /\ 240 \in Byte /\ 2 \in Byte
  BY TwoBytes DEF Byte, SYNC_BYTE
<1>2. Sealed(x) = m
  BY DEF Sealed, Unsealed
<1> HIDE DEF lo, hi
<1>3. b \in [1..5 -> Byte]
  BY <1>1
<1>4. xor_checksum(b) \in Byte
  <2>1. 5 \in Nat
    OBVIOUS
  <2> HIDE DEF b
  <2>2. PICK h \in [0..5 -> Byte] : xor_checksum(b) = h[5]
    BY <1>3, <2>1, XorFold
  <2> QED
    BY <2>2
<1>5. /\ m \in [1..6 -> Byte] /\ Len(m) = 6
      /\ m[1] = SYNC_BYTE /\ m[2] = 240 /\ m[3] = 2 /\ m[4] = lo /\ m[5] = hi
  BY <1>1, <1>4
<1>6. xor_checksum(m) = 0
  <2>1. /\ 5 \in Nat /\ 5 + 1 = 6 /\ m[6] = xor_checksum(b)
        /\ \A i \in 1..5 : m[i] = b[i]
    OBVIOUS
  <2> HIDE DEF b, m
  <2>2. m \in [1 .. 5 + 1 -> Byte] /\ m[5 + 1] = xor_checksum(b)
    BY <1>5, <2>1
  <2>3. xor_checksum(m) = Xor(xor_checksum(b), m[5 + 1])
    BY <1>3, <2>1, <2>2, ChecksumOfMore
  <2> QED
    BY <1>4, <2>2, <2>3, XorSelf
<1>7. Sealed(x)[4] = lo /\ Sealed(x)[5] = hi
  BY <1>2, <1>5, Zenon
<1> HIDE DEF m
<1> QED
  BY <1>2, <1>5, <1>6, <1>7, Zenon DEF lo, hi

(* No two commands have an opcode in common.                               *)
LEMMA OwnOpcode ==
  \A p, q \in DOMAIN Opcodes : Opcodes[p] = Opcodes[q] => p = q
BY DEF Opcodes

(* A request without a payload.                                            *)
LEMMA ShortUnderstood ==
  ASSUME NEW c \in Command, c.name # "SetMotorPwm"
  PROVE  /\ Understood(encode(c)) = {[c EXCEPT !.pwm = Duty(c.pwm)]}
         /\ Len(encode(c)) = 2
<1>1. /\ c = [name |-> c.name, pwm |-> 0] /\ c.pwm = 0
      /\ c.name \in DOMAIN Opcodes
  BY DEF Command
<1>2. Duty(c.pwm) = 0
  BY <1>1 DEF Duty, MOTOR_PWM_MAX
<1>3. encode(c) = <<SYNC_BYTE, Opcodes[c.name]>>
  BY DEF encode, Header, opcode
<1>4. ASSUME NEW d \in Understood(encode(c)) PROVE d = c
  <2>1. /\ d \in [name : DOMAIN Opcodes, pwm : 0..MOTOR_PWM_MAX]
        /\ encode(c)[2] = Opcodes[d.name]
        /\ IF d.name = "SetMotorPwm" THEN Len(encode(c)) = 6 ELSE d.pwm = 0
    BY Zenon DEF Understood, opcode
  <2>2. d.name = c.name
    BY <1>1, <1>3, <2>1, OwnOpcode
  <2>3. d.pwm = 0
    BY <2>1, <2>2
  <2>4. d = [name |-> d.name, pwm |-> d.pwm]
    BY <2>1
  <2> QED
    BY <1>1, <2>2, <2>3, <2>4
<1>5. c \in Understood(encode(c))
  <2>1. c \in [name : DOMAIN Opcodes, pwm : 0..MOTOR_PWM_MAX]
    BY <1>1 DEF MOTOR_PWM_MAX
  <2>2. /\ Len(encode(c)) = 2 /\ encode(c)[1] = SYNC_BYTE
        /\ encode(c)[2] = opcode(c)
    BY <1>3 DEF opcode
  <2> QED
    BY <1>1, <2>1, <2>2 DEF Understood
<1>6. [c EXCEPT !.pwm = Duty(c.pwm)] = c
  BY <1>1, <1>2
<1>7. Len(encode(c)) = 2
  BY <1>3
<1> QED
  BY <1>4, <1>5, <1>6, <1>7, Zenon

(* A duty, of a caller that passes any.                                    *)
LEMMA DutyCommand ==
  ASSUME NEW c \in Command, c.name = "SetMotorPwm"
  PROVE  /\ c = [name |-> "SetMotorPwm", pwm |-> c.pwm]
         /\ Duty(c.pwm) \in 0..MOTOR_PWM_MAX
         /\ (Duty(c.pwm) % 256) + 256 * (Duty(c.pwm) \div 256) = Duty(c.pwm)
<1>1. c \in [name : {"SetMotorPwm"}, pwm : Pwms]
  BY DEF Command
<1>2. c = [name |-> "SetMotorPwm", pwm |-> c.pwm] /\ c.pwm \in Pwms
  BY <1>1
<1>3. c.pwm \in Nat
  <2>1. \A p \in 0 .. 2^16 - 1 : p \in Nat
    OBVIOUS
  <2> QED
    BY <1>2, <2>1, CodecAssumption
<1> QED
  BY <1>2, <1>3, Clamped, TwoBytes, Zenon

(* The device reads the duty that was meant.                               *)
LEMMA DutyUnderstood ==
  ASSUME NEW c \in Command, c.name = "SetMotorPwm"
  PROVE  Understood(encode(c)) = {[c EXCEPT !.pwm = Duty(c.pwm)]}
<1> DEFINE x == Duty(c.pwm)
           m == Sealed(x)
           e == [c EXCEPT !.pwm = x]
<1>2. x \in 0..MOTOR_PWM_MAX /\ (x % 256) + 256 * (x \div 256) = x
  BY DutyCommand, Zenon
<1>3. encode(c) = m
  BY EncodedDuty
<1> HIDE DEF x
<1>4. /\ m[1] = SYNC_BYTE /\ m[2] = 240 /\ m[3] = 2 /\ Len(m) = 6
      /\ m[4] + 256 * m[5] = x /\ xor_checksum(m) = 0
  BY <1>2, SealedBytes
<1> HIDE DEF m
<1>5. e = [name |-> "SetMotorPwm", pwm |-> x]
  BY DutyCommand
<1>6. ASSUME NEW d \in Understood(m) PROVE d = e
  <2>1. /\ d \in [name : DOMAIN Opcodes, pwm : 0..MOTOR_PWM_MAX]
        /\ m[2] = Opcodes[d.name]
        /\ d.name = "SetMotorPwm" => m[4] + 256 * m[5] = d.pwm
    BY Zenon DEF Understood, opcode
  <2>2. d.name = "SetMotorPwm"
    <3>1. Opcodes["SetMotorPwm"] = 240 /\ "SetMotorPwm" \in DOMAIN Opcodes
      BY DEF Opcodes
    <3> QED
      BY <1>4, <2>1, <3>1, OwnOpcode
  <2>3. d.pwm = x
    BY <1>4, <2>1, <2>2
  <2>4. d = [name |-> d.name, pwm |-> d.pwm]
    BY <2>1
  <2> QED
    BY <1>5, <2>2, <2>3, <2>4
<1>7. e \in Understood(m)
  <2>1. /\ e \in [name : DOMAIN Opcodes, pwm : 0..MOTOR_PWM_MAX]
        /\ opcode(e) = 240 /\ e.name = "SetMotorPwm" /\ e.pwm = x
    BY <1>2, <1>5 DEF opcode, Opcodes
  <2>2. Len(m) >= 2
    BY <1>4
  <2> HIDE DEF e
  <2> QED
    BY <1>4, <2>1, <2>2, Zenon DEF Understood
<1> QED
  BY <1>3, <1>6, <1>7, Zenon DEF e, x

(* One changed byte after the opcode, and the frame is not understood.     *)
LEMMA DamageRejected ==
  ASSUME NEW c \in Command, c.name = "SetMotorPwm",
         NEW i \in 3..Len(encode(c)), NEW k \in 0..7
  PROVE  Understood([encode(c) EXCEPT ![i] = Xor(@, 2^k)]) = {}
<1> DEFINE x == Duty(c.pwm)
           m == Sealed(x)
           d == [m EXCEPT ![i] = Xor(m[i], 2^k)]
<1>1. x \in 0..MOTOR_PWM_MAX
  BY DutyCommand, Zenon
<1>2. encode(c) = m
  BY EncodedDuty
<1> HIDE DEF x
<1>3. m \in [1..6 -> Byte] /\ Len(m) = 6 /\ m[2] = 240 /\ xor_checksum(m) = 0
  BY <1>1, SealedBytes
<1> HIDE DEF m
<1>4. i \in 3..6
  BY <1>2, <1>3, Zenon
<1>5. i \in 1..6 /\ i # 2
  BY <1>4
<1>6. Xor(m[i], 2^k) \in Byte /\ Xor(m[i], 2^k) # m[i]
  <2>1. m[i] \in Byte
    BY <1>3, <1>5
  <2> QED
    BY <2>1, Flipped
<1>7. PICK y : y = Xor(m[i], 2^k)
  OBVIOUS
<1>8. d = [m EXCEPT ![i] = y] /\ y \in Byte /\ y # m[i]
  BY <1>6, <1>7, Zenon
<1>9. /\ d \in [1..6 -> Byte] /\ d[2] = 240
      /\ OnlyAt(i, 6, m, d)
  BY <1>3, <1>5, <1>8 DEF OnlyAt
<1> HIDE DEF d
<1>10. xor_checksum(d) # 0
  <2>1. 6 \in Nat
    OBVIOUS
  <2>2. xor_checksum(d) # xor_checksum(m)
    <3>1. m \in Frames(6) /\ d \in Frames(6)
      BY <1>3, <1>9 DEF Frames
    <3> QED
      BY <1>5, <1>9, <2>1, <3>1, DamageShows
  <2> QED
    BY <1>3, <2>2
<1>11. ASSUME NEW e \in Understood(d) PROVE FALSE
  <2>1. /\ e \in [name : DOMAIN Opcodes, pwm : 0..MOTOR_PWM_MAX]
        /\ d[2] = Opcodes[e.name]
        /\ e.name = "SetMotorPwm" => xor_checksum(d) = 0
    BY Zenon DEF Understood, opcode
  <2>2. e.name = "SetMotorPwm"
    <3>1. Opcodes["SetMotorPwm"] = 240 /\ "SetMotorPwm" \in DOMAIN Opcodes
      BY DEF Opcodes
    <3> QED
      BY <1>9, <2>1, <3>1, OwnOpcode
  <2> QED
    BY <1>10, <2>1, <2>2
<1> QED
  BY <1>2, <1>11, Zenon DEF d

(* For every duty: the device reads each request as it was meant, and      *)
(* drops one with a flipped bit after the opcode (command.rs:76-96).       *)
LEMMA Requests ==
  ASSUME NEW c \in Command
  PROVE  /\ Understood(encode(c)) = {[c EXCEPT !.pwm = Duty(c.pwm)]}
         /\ \A i \in 3..Len(encode(c)) : \A k \in 0..7 :
              Understood([encode(c) EXCEPT ![i] = Xor(@, 2^k)]) = {}
<1>1. CASE c.name = "SetMotorPwm"
  BY <1>1, DutyUnderstood, DamageRejected, Zenon
<1>2. CASE c.name # "SetMotorPwm"
  <2>1. 3..2 = {}
    OBVIOUS
  <2> QED
    BY <1>2, <2>1, ShortUnderstood, Zenon
<1> QED
  BY <1>1, <1>2

-----------------------------------------------------------------------------
(* Fields that share a byte or a number.                                   *)

(* A byte is put together from its field and its redundant low bits.       *)
LEMMA Bits ==
  \A a \in 0..255 :
    /\ a \div 2 \in 0..127 /\ a \div 4 < 64
    /\ a % 2 = 1 => 2 * (a \div 2) + 1 = a
    /\ a % 2 # (a \div 2) % 2 => 4 * (a \div 4) + (IF a % 2 = 1 THEN 1 ELSE 2) = a
<1>1. \A a \in 0..255 : a \div 2 \in 0..127 /\ a \div 4 < 64
  BY SMT
<1>2. \A a \in 0..255 : a % 2 = 1 => 2 * (a \div 2) + 1 = a
  BY SMT
<1>3. \A a \in 0..255 : a % 2 # (a \div 2) % 2 =>
                          4 * (a \div 4) + (IF a % 2 = 1 THEN 1 ELSE 2) = a
  BY SMT
<1> QED
  BY <1>1, <1>2, <1>3

(* The numbers that a node spreads over two bytes: x has the parts lo, hi. *)
AngleOf(x, lo, hi)    == x < AngleLimit /\ x % 128 = lo /\ x \div 128 = hi
DistanceOf(x, lo, hi) == x < DistanceLimit /\ x % 256 = lo /\ x \div 256 = hi

(* The parts do not overlap.                                               *)
LEMMA JoinAngle ==
  ASSUME NEW lo \in 0..127, NEW hi \in 0..255
  PROVE  AngleOf(hi * 128 + lo, lo, hi)
<1>1. hi * 128 + lo < AngleLimit
  BY SMT DEF AngleLimit
<1>2. (hi * 128 + lo) % 128 = lo
  BY SMT
<1>3. (hi * 128 + lo) \div 128 = hi
  BY SMT
<1> QED
  BY <1>1, <1>2, <1>3, Zenon DEF AngleOf

LEMMA JoinDistance ==
  ASSUME NEW lo \in 0..255, NEW hi \in 0..255
  PROVE  DistanceOf(hi * 256 + lo, lo, hi)
<1>1. hi * 256 + lo < DistanceLimit
  BY SMT DEF DistanceLimit
<1>2. (hi * 256 + lo) % 256 = lo
  BY SMT
<1>3. (hi * 256 + lo) \div 256 = hi
  BY SMT
<1> QED
  BY <1>1, <1>2, <1>3, Zenon DEF DistanceOf

-----------------------------------------------------------------------------
(* Nodes.                                                                  *)

LEMMA NodeRoundTrip ==
  ASSUME NEW w \in Window, IsNode(w)
  PROVE  Lossless(w)
<1>1. w \in [1..5 -> 0..255]
  BY LenAssumption DEF Window, Byte
<1>2. /\ w[1] \in 0..255 /\ w[2] \in 0..255 /\ w[3] \in 0..255
      /\ w[4] \in 0..255 /\ w[5] \in 0..255
  BY <1>1
<1>3. PICK n : n = parse_scan_node(w)
  OBVIOUS
<1>4. /\ n.start_flag = (w[1] % 2 = 1) /\ n.quality = w[1] \div 4
      /\ n.angle_q6 = w[3] * 128 + w[2] \div 2
      /\ n.distance_q2 = w[5] * 256 + w[4]
  BY <1>3 DEF parse_scan_node, StartFlag
<1>5. w[2] \div 2 \in 0..127 /\ n.quality < 64
  BY <1>2, <1>4, Bits
<1>6. AngleOf(n.angle_q6, w[2] \div 2, w[3])
  <2>1. AngleOf(w[3] * 128 + w[2] \div 2, w[2] \div 2, w[3])
    BY <1>2, <1>5, JoinAngle, Zenon
  <2> QED
    BY <1>4, <2>1, Zenon
<1>7. DistanceOf(n.distance_q2, w[4], w[5])
  <2>1. DistanceOf(w[5] * 256 + w[4], w[4], w[5])
    BY <1>2, JoinDistance, Zenon
  <2> QED
    BY <1>4, <2>1, Zenon
<1>8. 4 * n.quality + (IF n.start_flag THEN 1 ELSE 2) = w[1]
  <2>1. 4 * (w[1] \div 4) + (IF w[1] % 2 = 1 THEN 1 ELSE 2) = w[1]
    BY <1>2, Bits, Zenon DEF IsNode, could_start_node
  <2> QED
    BY <1>4, <2>1, Zenon
<1>9. 2 * (w[2] \div 2) + 1 = w[2]
  BY <1>2, Bits DEF IsNode
<1>10. NodeOf(n) = <<w[1], w[2], w[3], w[4], w[5]>>
  BY <1>6, <1>7, <1>8, <1>9, Zenon DEF NodeOf, AngleOf, DistanceOf
<1>11. w = <<w[1], w[2], w[3], w[4], w[5]>>
  BY <1>1
<1> QED
  BY <1>3, <1>5, <1>6, <1>7, <1>10, <1>11, Zenon
  DEF Lossless, AngleOf, DistanceOf

-----------------------------------------------------------------------------
(* Descriptors.                                                            *)

LEMMA OneDescriptor ==
  ASSUME NEW b \in [1..7 -> Byte], NEW want \in Expected
  PROVE  expect(b, want) <=> b = DescriptorOf(want)
<1>1. PICK b1 \in Byte, b2 \in Byte, b3 \in Byte, b4 \in Byte, b5 \in Byte,
           b6 \in Byte, b7 \in Byte : b = <<b1, b2, b3, b4, b5, b6, b7>>
  <2>1. b = <<b[1], b[2], b[3], b[4], b[5], b[6], b[7]>>
    OBVIOUS
  <2> QED
    BY <2>1
<1>2. PICK type \in {4, 6, 129}, len \in 0..255, m \in {0, 1} :
        want = [ data_type |-> type, len |-> len,
                 send_mode |-> IF m = 0 THEN "Single" ELSE "Multi" ]
  BY DEF Expected
<1>3. parse_descriptor(b) =
        [ len       |-> b3 + 256 * b4 + 65536 * b5 + 16777216 * (b6 % 64),
          send_mode |-> IF b6 \div 64 = 0 THEN "Single" ELSE "Multi",
          data_type |-> b7 ]
  BY <1>1 DEF parse_descriptor
<1>4. expect(b, want)
        <=> /\ b1 = SYNC_BYTE /\ b2 = RESP_SYNC_BYTE /\ b7 = type
            /\ b3 + 256 * b4 + 65536 * b5 + 16777216 * (b6 % 64) = len
            /\ b6 \div 64 = m
  BY <1>1, <1>2, <1>3 DEF expect
<1>5. b3 + 256 * b4 + 65536 * b5 + 16777216 * (b6 % 64) = len /\ b6 \div 64 = m
        <=> b3 = len /\ b4 = 0 /\ b5 = 0 /\ b6 = 64 * m
  BY SMT DEF Byte
<1>6. DescriptorOf(want) = <<SYNC_BYTE, RESP_SYNC_BYTE, len, 0, 0, 64 * m, type>>
  BY <1>2 DEF DescriptorOf
<1> QED
  BY <1>1, <1>4, <1>5, <1>6

-----------------------------------------------------------------------------
(* Payloads.                                                               *)

Identity == [model : Byte, minor : Byte, major : Byte, hardware : Byte,
             serial : [1..16 -> Byte]]

(* Two hexadecimal digits make a byte.                                     *)
LEMMA Digits ==
  \A a \in 0..255 : /\ a \div 16 \in 0..15 /\ a % 16 \in 0..15
                   /\ 16 * (a \div 16) + (a % 16) = a
  BY SMT

(* Where InfoOf puts the fields of an identity.                            *)
LEMMA InfoBytes ==
  ASSUME NEW d \in Identity
  PROVE  /\ InfoOf(d)[1] = d.model /\ InfoOf(d)[2] = d.minor
         /\ InfoOf(d)[3] = d.major /\ InfoOf(d)[4] = d.hardware
         /\ \A i \in 1..16 : InfoOf(d)[i + 4] = d.serial[i]
<1> DEFINE head == <<d.model, d.minor, d.major, d.hardware>>
<1>1. head \in Seq(Byte) /\ Len(head) = 4
  BY SMT DEF Identity
<1>2. d.serial \in Seq(Byte) /\ Len(d.serial) = 16
  <2>1. d.serial \in [1..16 -> Byte]
    BY DEF Identity
  <2>2. \A T, f : f \in [1..16 -> T] => f \in Seq(T)
    <3>1. 16 \in Nat
      BY SMT
    <3> QED
      BY <3>1, SeqDef, Zenon
  <2>3. d.serial \in Seq(Byte)
    BY <2>1, <2>2, Zenon
  <2>4. Len(d.serial) = 16
    <3>1. DOMAIN d.serial = 1..16
      BY <2>1
    <3>2. Len(d.serial) \in Nat /\ DOMAIN d.serial = 1..Len(d.serial)
      BY <2>3, LenProperties
    <3>3. \A k \in Nat : 1..16 = 1..k => k = 16
      <4> SUFFICES ASSUME NEW k \in Nat, 1..16 = 1..k PROVE k = 16
        OBVIOUS
      <4>1. 16 \in 1..k
        BY SMT
      <4>2. k > 16 => 17 \in 1..k /\ 17 \notin 1..16
        BY SMT
      <4> QED
        BY <4>1, <4>2, SMT
    <3> QED
      BY <3>1, <3>2, <3>3, Zenon
  <2> QED
    BY <2>3, <2>4
<1>3. \A i \in 1..20 : InfoOf(d)[i] = IF i <= 4 THEN head[i] ELSE d.serial[i - 4]
  <2> DEFINE tail == d.serial
  <2> HIDE DEF head, tail
  <2>1. \A i \in 1 .. Len(head) + Len(tail) :
          (head \o tail)[i] = IF i <= Len(head) THEN head[i] ELSE tail[i - Len(head)]
    BY <1>1, <1>2, ConcatProperties DEF tail
  <2>2. Len(head) + Len(tail) = 20
    BY <1>1, <1>2 DEF tail
  <2>3. InfoOf(d) = head \o tail
    BY DEF InfoOf, head, tail
  <2> QED
    BY <1>1, <2>1, <2>2, <2>3 DEF tail
<1>4. \A i \in 1..16 : i + 4 \in 1..20 /\ ~(i + 4 <= 4) /\ (i + 4) - 4 = i
  BY SMT
<1>5. \A i \in 1..16 : InfoOf(d)[i + 4] = d.serial[i]
  BY <1>3, <1>4
<1>6. /\ InfoOf(d)[1] = head[1] /\ InfoOf(d)[2] = head[2]
      /\ InfoOf(d)[3] = head[3] /\ InfoOf(d)[4] = head[4]
  BY <1>3, SMT
<1> QED
  BY <1>5, <1>6

LEMMA IdentityRoundTrip ==
  ASSUME NEW d \in Identity
  PROVE  IdentityDecoded(d)
<1>1. PICK got : got = parse_device_info(InfoOf(d))
  OBVIOUS
<1>2. /\ got.model = d.model /\ got.hardware_version = d.hardware
      /\ got.firmware_version = <<d.major, d.minor>>
      /\ got.serial_number = [i \in 1..16 |-> d.serial[i]]
  BY <1>1, InfoBytes DEF parse_device_info
<1>3. got.serial_number = d.serial /\ d.serial \in [1..16 -> 0..255]
  BY <1>2 DEF Identity, Byte
<1>4. PICK s \in [1..16 -> 0..255] : s = d.serial
  BY <1>3
<1>5. \A i \in 1..32 : SerialNumberHex(s)[i] \in 0..15
  <2> SUFFICES ASSUME NEW i \in 1..32 PROVE SerialNumberHex(s)[i] \in 0..15
    OBVIOUS
  <2>1. CASE i % 2 = 1
    <3>1. (i + 1) \div 2 \in 1..16
      BY <2>1, SMT
    <3> QED
      BY <2>1, <3>1, Digits DEF SerialNumberHex
  <2>2. CASE i % 2 # 1
    <3>1. i \div 2 \in 1..16
      BY <2>2, SMT
    <3> QED
      BY <2>2, <3>1, Digits DEF SerialNumberHex
  <2> QED
    BY <2>1, <2>2
<1>6. ASSUME NEW i \in 1..16
      PROVE  16 * SerialNumberHex(s)[2 * i - 1] + SerialNumberHex(s)[2 * i] = s[i]
  <2>1. /\ 2 * i - 1 \in 1..32 /\ 2 * i \in 1..32
        /\ (2 * i - 1) % 2 = 1 /\ (2 * i) % 2 # 1
        /\ ((2 * i - 1) + 1) \div 2 = i /\ (2 * i) \div 2 = i
    BY SMT
  <2>2. /\ SerialNumberHex(s)[2 * i - 1] = s[i] \div 16
        /\ SerialNumberHex(s)[2 * i] = s[i] % 16
    BY <2>1, Zenon DEF SerialNumberHex
  <2> QED
    BY <2>2, Digits
<1>7. [i \in 1..16 |-> 16 * SerialNumberHex(s)[2 * i - 1] + SerialNumberHex(s)[2 * i]] = s
  BY <1>6
<1> QED
  BY <1>1, <1>2, <1>3, <1>4, <1>5, <1>7, Zenon DEF IdentityDecoded

LEMMA HealthRoundTrip ==
  ASSUME NEW b \in [1..3 -> Byte]
  PROVE  HealthDecoded(b)
<1>1. b[1] \in 0..255 /\ b[2] \in 0..255 /\ b[3] \in 0..255
  BY DEF Byte
<1>2. PICK code : code = b[2] + 256 * b[3]
  OBVIOUS
<1>3. code % 256 = b[2] /\ code \div 256 = b[3]
  <2>1. \A lo, hi \in 0..255 : (lo + 256 * hi) % 256 = lo /\ (lo + 256 * hi) \div 256 = hi
    <3>1. \A lo, hi \in 0..255 : (lo + 256 * hi) % 256 = lo
      BY SMT
    <3>2. \A lo, hi \in 0..255 : (lo + 256 * hi) \div 256 = hi
      BY SMT
    <3> QED
      BY <3>1, <3>2
  <2>2. PICK lo \in 0..255, hi \in 0..255 : lo = b[2] /\ hi = b[3]
    BY <1>1
  <2>3. code = lo + 256 * hi
    BY <1>2, <2>2
  <2>4. (lo + 256 * hi) % 256 = lo /\ (lo + 256 * hi) \div 256 = hi
    BY <2>1
  <2> QED
    BY <2>2, <2>3, <2>4
<1>4. b = <<b[1], code % 256, code \div 256>>
  <2>1. b = <<b[1], b[2], b[3]>>
    OBVIOUS
  <2> QED
    BY <1>3, <2>1, Zenon
<1>5. b[1] = 0 \/ b[1] = 1 \/ b[1] = 2 \/ b[1] > 2
  BY <1>1, SMT
<1>6. CASE b[1] = 0
  <2>1. parse_health(b).status = "Good"
    BY <1>6 DEF parse_health
  <2> QED
    BY <1>2, <1>4, <1>6, <2>1 DEF HealthDecoded, HealthOf
<1>7. CASE b[1] = 1
  <2>1. parse_health(b).status = "Warning" /\ parse_health(b).code = code
    BY <1>2, <1>7 DEF parse_health
  <2> QED
    BY <1>2, <1>4, <1>7, <2>1 DEF HealthDecoded, HealthOf
<1>8. CASE b[1] = 2
  <2>1. parse_health(b).status = "Error" /\ parse_health(b).code = code
    BY <1>2, <1>8 DEF parse_health
  <2> QED
    BY <1>2, <1>4, <1>8, <2>1 DEF HealthDecoded, HealthOf
<1>9. CASE b[1] > 2
  <2>1. parse_health(b).status = "InvalidHealthStatus"
    BY <1>1, <1>9, SMT DEF parse_health
  <2>2. b[1] \notin 0..2
    BY <1>9, SMT
  <2> QED
    BY <2>1, <2>2 DEF HealthDecoded
<1> QED
  BY <1>5, <1>6, <1>7, <1>8, <1>9

-----------------------------------------------------------------------------
(* Coverage.                                                               *)

(* The sum of some steps, one after the other.                             *)
Total(steps) == FoldLeft(+, 0, steps)

LEMMA RunningTotal ==
  ASSUME NEW n \in Nat, NEW steps \in [1..n -> Int]
  PROVE  \E h \in [0..n -> Int] :
           /\ h[0] = 0
           /\ \A k \in 1..n : h[k] = h[k - 1] + steps[k]
           /\ Total(steps) = h[n]
<1> DEFINE G == [p \in Int \X (1..n) |-> p[1] + steps[p[2]]]
           Summing(f) ==
             f = [s \in SUBSET (1..n) |->
                    IF s = {} THEN 0 ELSE f[s \ {Max(s)}] + steps[Max(s)]]
           it == CHOOSE f : Summing(f)
<1>1. G \in [Int \X (1..n) -> Int] /\ 0 \in Int
  OBVIOUS
<1>2. PICK F \in [SUBSET (1..n) -> Int] : Folding(F, G, 0, n)
  BY <1>1, FoldExists DEF Foldable
<1>3. Summing(F)
  <2>1. ASSUME NEW s \in SUBSET (1..n)
        PROVE  F[s] = IF s = {} THEN 0 ELSE F[s \ {Max(s)}] + steps[Max(s)]
    <3>1. F[s] = IF s = {} THEN 0 ELSE G[<<F[s \ {Max(s)}], Max(s)>>]
      BY <1>2, Zenon DEF Folding
    <3>2. CASE s # {}
      <4>1. Max(s) \in 1..n /\ F[s \ {Max(s)}] \in Int
        BY <3>2, MaxIsLargest
      <4> QED
        BY <3>1, <3>2, <4>1
    <3> QED
      BY <3>1, <3>2
  <2>2. F = [s \in SUBSET (1..n) |-> F[s]]
    OBVIOUS
  <2> QED
    BY <2>1, <2>2, Zenon
<1>4. Summing(it)
  BY <1>3, Zenon
<1>5. DOMAIN steps = 1..n
  OBVIOUS
<1>6. Total(steps) = it[1..n]
  BY <1>5, Zenon DEF Total, FoldLeft, MapThenFoldSet
<1> HIDE DEF it
<1>7. it[{}] = 0
  BY <1>4
<1>8. ASSUME NEW k \in 1..n
      PROVE  it[1..k] = it[1 .. k - 1] + steps[k]
  <2>1. /\ 1..k \in SUBSET (1..n) /\ 1..k # {}
        /\ Max(1..k) = k /\ (1..k) \ {k} = 1 .. k - 1
    BY PrefixMax
  <2>2. it[1..k] = it[(1..k) \ {Max(1..k)}] + steps[Max(1..k)]
    BY <1>4, <2>1, Zenon
  <2> QED
    BY <2>1, <2>2
<1> HIDE DEF Summing
<1>9. \A k \in 0..n : it[1..k] \in Int
  <2>1. \A k \in 1..n : it[1 .. k - 1] \in Int => it[1..k] \in Int
    BY <1>8
  <2>2. it[{}] \in Int
    BY <1>7
  <2> QED
    BY <2>1, <2>2, FoldedWithin
<1> DEFINE h == [k \in 0..n |-> it[1..k]]
<1>10. h \in [0..n -> Int]
  BY <1>9
<1>11. h[0] = 0
  <2>1. 1..0 = {}
    OBVIOUS
  <2> QED
    BY <1>7, <2>1
<1>12. \A k \in 1..n : h[k] = h[k - 1] + steps[k]
  <2> TAKE k \in 1..n
  <2>1. k \in 0..n /\ k - 1 \in 0..n
    OBVIOUS
  <2> QED
    BY <1>8, <2>1
<1>13. Total(steps) = h[n]
  BY <1>6
<1> HIDE DEF h
<1> QED
  BY <1>10, <1>11, <1>12, <1>13

(* The step from the i-th point passes north; one of the first k does.     *)
Down(r, i)   == r[i + 1] < r[i]
Passed(r, k) == \E i \in 1..k : Down(r, i)

LEMMA PassedMore ==
  ASSUME NEW r, NEW k \in Nat
  PROVE  Passed(r, k + 1) <=> Passed(r, k) \/ Down(r, k + 1)
<1>1. \A i : i \in 1 .. k + 1 <=> i \in 1..k \/ i = k + 1
  OBVIOUS
<1> QED
  BY <1>1, Zenon DEF Passed

(* A turn passes north at most once.                                       *)
LEMMA OneDescent ==
  ASSUME NEW r \in Seq(Nat), OneTurn(r), NEW n, n = Len(r) - 1
  PROVE  /\ \A i \in DOMAIN r : r[i] < FullTurn
         /\ \A i, j \in 1..n : Down(r, i) /\ Down(r, j) => i = j
         /\ Passed(r, n) => r[Len(r)] <= r[1]
<1> DEFINE D == {i \in 1..n : Down(r, i)}
<1>1. /\ \A i \in DOMAIN r : r[i] < FullTurn
      /\ D = {} \/ \E i \in D : D = {i} /\ r[Len(r)] <= r[1]
  BY Zenon DEF OneTurn, Down
<1>2. \A i, j \in D : i = j
  <2> HIDE DEF D
  <2> QED
    BY <1>1
<1>3. Passed(r, n) => D # {}
  BY DEF Passed
<1>4. Passed(r, n) => r[Len(r)] <= r[1]
  <2> HIDE DEF D
  <2> QED
    BY <1>1, <1>3
<1> QED
  BY <1>1, <1>2, <1>4

(* The sum of the steps of a turn telescopes to the angle it spans.        *)
LEMMA Unwound ==
  ASSUME NEW r \in Seq(Nat), r # <<>>, OneTurn(r)
  PROVE  angular_coverage(r) =
           r[Len(r)] - r[1] + (IF \E i \in 1 .. Len(r) - 1 : r[i + 1] < r[i]
                               THEN FullTurn ELSE 0)
<1> DEFINE n == Len(r) - 1
           steps == [i \in 1..n |-> AngleStep(r[i], r[i + 1])]
<1>1. n \in Nat /\ n + 1 = Len(r)
  BY EmptySeq, LenProperties
<1>2. \A i \in 1 .. n + 1 : r[i] \in Nat
  BY <1>1, ElementOfSeq
<1>3. FullTurn \in Nat
  BY DEF FullTurn
<1> HIDE DEF n
<1>4. steps \in [1..n -> Int]
  <2> SUFFICES ASSUME NEW i \in 1..n PROVE AngleStep(r[i], r[i + 1]) \in Int
    OBVIOUS
  <2>1. r[i] \in Nat /\ r[i + 1] \in Nat
    BY <1>1, <1>2
  <2> QED
    BY <1>3, <2>1 DEF AngleStep
<1>5. PICK h \in [0..n -> Int] :
        /\ h[0] = 0 /\ \A k \in 1..n : h[k] = h[k - 1] + steps[k]
        /\ Total(steps) = h[n]
  <2> HIDE DEF steps
  <2> QED
    BY <1>1, <1>4, RunningTotal
<1>6. /\ \A i \in 1 .. n + 1 : r[i] < FullTurn
      /\ \A i, j \in 1..n : Down(r, i) /\ Down(r, j) => i = j
      /\ Passed(r, n) => r[n + 1] <= r[1]
  <2>1. DOMAIN r = 1 .. n + 1
    BY <1>1, LenProperties
  <2> QED
    BY <1>1, <2>1, OneDescent, Zenon DEF n
<1> DEFINE Wound(k) == r[k + 1] - r[1] + (IF Passed(r, k) THEN FullTurn ELSE 0)
           T == {k \in Nat : k <= n => h[k] = Wound(k)}
<1>7. 0 \in T
  BY <1>1, <1>2, <1>5 DEF Passed
<1>8. ASSUME NEW k \in Nat, k \in T PROVE k + 1 \in T
  <2> SUFFICES ASSUME k + 1 <= n PROVE h[k + 1] = Wound(k + 1)
    OBVIOUS
  <2>1. /\ h[k] = Wound(k) /\ k + 1 \in 1..n /\ (k + 1) - 1 = k
        /\ r[1] \in Nat /\ r[k + 1] \in Nat /\ r[(k + 1) + 1] \in Nat
    BY <1>1, <1>2, <1>8
  <2>2. h[k + 1] = h[k] + AngleStep(r[k + 1], r[(k + 1) + 1])
    BY <1>5, <2>1
  <2>3. Passed(r, k + 1) <=> Passed(r, k) \/ Down(r, k + 1)
    BY PassedMore
  <2>4. ~ (Passed(r, k) /\ Down(r, k + 1))
    <3>1. ASSUME NEW i \in 1..k, Down(r, i), Down(r, k + 1) PROVE FALSE
      <4>1. i \in 1..n /\ i # k + 1
        BY <1>1
      <4> QED
        BY <1>6, <2>1, <3>1, <4>1, Zenon
    <3> QED
      BY <3>1, Zenon DEF Passed
  <2>5. Down(r, k + 1) <=> r[(k + 1) + 1] - r[k + 1] < 0
    BY <2>1 DEF Down
  <2>6. AngleStep(r[k + 1], r[(k + 1) + 1])
          = r[(k + 1) + 1] - r[k + 1] + (IF Down(r, k + 1) THEN FullTurn ELSE 0)
    BY <1>3, <2>1, <2>5 DEF AngleStep
  <2>7. Wound(k) \in Int /\ Wound(k + 1) = Wound(k) + AngleStep(r[k + 1], r[(k + 1) + 1])
    <3>1. PICK x \in Nat, y \in Nat, z \in Nat, f \in Nat :
            x = r[1] /\ y = r[k + 1] /\ z = r[(k + 1) + 1] /\ f = FullTurn
      BY <1>3, <2>1
    <3>2. CASE Down(r, k + 1)
      <4>1. /\ Wound(k) = y - x + 0 /\ Wound(k + 1) = z - x + f
            /\ AngleStep(r[k + 1], r[(k + 1) + 1]) = z - y + f
        BY <2>3, <2>4, <2>6, <3>1, <3>2, Zenon
      <4> QED
        BY <4>1
    <3>3. CASE ~ Down(r, k + 1) /\ Passed(r, k)
      <4>1. /\ Wound(k) = y - x + f /\ Wound(k + 1) = z - x + f
            /\ AngleStep(r[k + 1], r[(k + 1) + 1]) = z - y + 0
        BY <2>3, <2>6, <3>1, <3>3, Zenon
      <4> QED
        BY <4>1
    <3>4. CASE ~ Down(r, k + 1) /\ ~ Passed(r, k)
      <4>1. /\ Wound(k) = y - x + 0 /\ Wound(k + 1) = z - x + 0
            /\ AngleStep(r[k + 1], r[(k + 1) + 1]) = z - y + 0
        BY <2>3, <2>6, <3>1, <3>4, Zenon
      <4> QED
        BY <4>1
    <3> QED
      BY <3>2, <3>3, <3>4, Zenon
  <2> HIDE DEF T
  <2> QED
    BY <2>1, <2>2, <2>7, Zenon
<1>9. h[n] = Wound(n)
  <2>1. n \in T
    <3> HIDE DEF T
    <3> QED
      BY <1>1, <1>7, <1>8, Induction
  <2> QED
    BY <1>1, <2>1
<1>10. Wound(n) <= FullTurn /\ Wound(n) \in Int
  <2>1. r[1] \in Nat /\ r[n + 1] \in Nat /\ r[n + 1] < FullTurn
    BY <1>1, <1>2, <1>6
  <2> QED
    BY <1>3, <1>6, <2>1
<1>11. angular_coverage(r) = IF Total(steps) > FullTurn THEN FullTurn ELSE Total(steps)
  BY Zenon DEF angular_coverage, Total, n
<1>12. angular_coverage(r) = Wound(n)
  BY <1>3, <1>5, <1>9, <1>10, <1>11
<1> QED
  BY <1>1, <1>12 DEF Passed, Down, n

(* The range that the documentation gives it, for angles below a turn.     *)
LEMMA CoverageBelowATurn ==
  ASSUME NEW r \in Seq(Nat), \A i \in DOMAIN r : r[i] < FullTurn
  PROVE  angular_coverage(r) \in 0..FullTurn
<1> DEFINE m == Len(r) - 1
           n == IF r = <<>> THEN 0 ELSE m
           steps == [i \in 1..n |-> AngleStep(r[i], r[i + 1])]
<1>1. n \in Nat /\ 1..n = 1..m
  BY EmptySeq, LenProperties
<1>2. \A i \in 1 .. n : r[i] \in Nat /\ r[i + 1] \in Nat /\ r[i] < FullTurn
  <2> SUFFICES ASSUME NEW i \in 1..n
               PROVE  r[i] \in Nat /\ r[i + 1] \in Nat /\ r[i] < FullTurn
    OBVIOUS
  <2>1. i \in DOMAIN r /\ i + 1 \in DOMAIN r
    BY LenProperties
  <2> QED
    BY <2>1, ElementOfSeq, LenProperties
<1>3. FullTurn \in Nat
  BY DEF FullTurn
<1> HIDE DEF n, m
<1>4. \A i \in 1..n : AngleStep(r[i], r[i + 1]) \in Nat
  <2> SUFFICES ASSUME NEW i \in 1..n PROVE AngleStep(r[i], r[i + 1]) \in Nat
    OBVIOUS
  <2>1. r[i] \in Nat /\ r[i + 1] \in Nat /\ r[i] < FullTurn
    BY <1>1, <1>2
  <2> QED
    BY <1>3, <2>1 DEF AngleStep
<1>5. PICK h \in [0..n -> Int] :
        /\ h[0] = 0 /\ \A k \in 1..n : h[k] = h[k - 1] + steps[k]
        /\ Total(steps) = h[n]
  <2>1. steps \in [1..n -> Int]
    BY <1>4
  <2> HIDE DEF steps
  <2> QED
    BY <1>1, <2>1, RunningTotal
<1> DEFINE T == {k \in Nat : k <= n => h[k] \in Nat}
<1>6. 0 \in T
  BY <1>5
<1>7. ASSUME NEW k \in Nat, k \in T PROVE k + 1 \in T
  <2> SUFFICES ASSUME k + 1 <= n PROVE h[k + 1] \in Nat
    OBVIOUS
  <2>1. h[k] \in Nat /\ k + 1 \in 1..n /\ (k + 1) - 1 = k
    BY <1>1, <1>7
  <2>2. h[k + 1] = h[k] + steps[k + 1] /\ steps[k + 1] \in Nat
    BY <1>4, <1>5, <2>1
  <2> QED
    BY <2>1, <2>2
<1>8. n \in T
  <2> HIDE DEF T
  <2> QED
    BY <1>1, <1>6, <1>7, Induction
<1>9. Total(steps) \in Nat
  BY <1>1, <1>5, <1>8
<1>10. angular_coverage(r) = IF Total(steps) > FullTurn THEN FullTurn ELSE Total(steps)
  BY <1>1, Zenon DEF angular_coverage, Total, m
<1> QED
  BY <1>3, <1>9, <1>10

(* Angles are numbers.                                                     *)
LEMMA RotationAngles == \A r \in Rotation : r \in Seq(Nat)
<1> SUFFICES ASSUME NEW r \in Rotation PROVE r \in Seq(Nat)
  OBVIOUS
<1> DEFINE A == 0 .. 2^15 - 1
<1>1. r \in Seq(A)
  BY CodecAssumption
<1>2. A \subseteq Nat
  OBVIOUS
<1> HIDE DEF A
<1>3. \A i \in 1..Len(r) : r[i] \in Nat
  BY <1>1, <1>2, ElementOfSeq, LenProperties
<1>4. r = [i \in 1..Len(r) |-> r[i]] /\ Len(r) \in Nat
  BY <1>1, LenProperties
<1> QED
  BY <1>3, <1>4

-----------------------------------------------------------------------------
(* Ports.                                                                  *)

(* Where a port is noted, and under which name.                            *)
Classes == {"bridge", "usb", "name", "ignored"}

NameOf(ports, macos, i) == prefer_callout_device(ports[i].name, macos)
Noted(ports, macos, i)  == Class(ports[i], macos)

Names(ports, macos) == {NoPort} \cup {NameOf(ports, macos, i) : i \in DOMAIN ports}

(* x is the name of the first of the first k ports in class c.             *)
FirstIn(ports, macos, c, k, x) ==
  \/ /\ x = NoPort
     /\ \A i \in 1..k : Noted(ports, macos, i) # c
  \/ \E i \in 1..k :
       /\ Noted(ports, macos, i) = c /\ x = NameOf(ports, macos, i)
       /\ \A j \in 1..k : Noted(ports, macos, j) = c => i <= j

(* What is noted after k ports: once a bridge is, the rest is of no use.   *)
FoundIn(ports, macos, k, found) ==
  /\ FirstIn(ports, macos, "bridge", k, found["bridge"])
  /\ found["bridge"] = NoPort =>
       \A c \in Classes : FirstIn(ports, macos, c, k, found[c])

(* No port is called what stands for none.                                 *)
AreNames(ports, macos) ==
  /\ DOMAIN ports = 1..Len(ports) /\ Len(ports) \in Nat
  /\ \A i \in DOMAIN ports : NameOf(ports, macos, i) # NoPort

(* Each port belongs to one class.                                         *)
LEMMA OneClass == \A p, m : Class(p, m) \in Classes
BY DEF Class, Classes

(* A further port that is of another class or comes too late, or that counts.*)
LEMMA FirstInMore ==
  ASSUME NEW ports, NEW macos, NEW c, NEW k \in Nat, NEW x,
         FirstIn(ports, macos, c, k, x),
         x # NoPort \/ Noted(ports, macos, k + 1) # c
  PROVE  FirstIn(ports, macos, c, k + 1, x)
<1>1. \A i : i \in 1 .. k + 1 <=> i \in 1..k \/ i = k + 1
  OBVIOUS
<1>2. \A i \in 1..k : i <= k + 1
  OBVIOUS
<1> QED
  BY <1>1, <1>2, Zenon DEF FirstIn

LEMMA FirstInNow ==
  ASSUME NEW ports, NEW macos, NEW c, NEW k \in Nat,
         FirstIn(ports, macos, c, k, NoPort), AreNames(ports, macos),
         k + 1 \in DOMAIN ports, Noted(ports, macos, k + 1) = c
  PROVE  FirstIn(ports, macos, c, k + 1, NameOf(ports, macos, k + 1))
<1>1. /\ \A i : i \in 1 .. k + 1 <=> i \in 1..k \/ i = k + 1
      /\ k + 1 <= k + 1
  OBVIOUS
<1>2. \A i \in 1..k : Noted(ports, macos, i) # c
  <2>1. \A i \in 1..k : i \in DOMAIN ports
    BY DEF AreNames
  <2> QED
    BY <2>1, Zenon DEF FirstIn, AreNames
<1>3. \A j \in 1 .. k + 1 : Noted(ports, macos, j) = c => k + 1 <= j
  BY <1>1, <1>2, Zenon
<1>4. k + 1 \in 1 .. k + 1
  BY <1>1, Zenon
<1> QED
  BY <1>3, <1>4, Zenon DEF FirstIn

(* One round of the loop.                                                  *)
LEMMA LookOnce ==
  ASSUME NEW ports, NEW macos, AreNames(ports, macos),
         NEW k \in Nat, k + 1 \in DOMAIN ports,
         NEW found \in [Classes -> Names(ports, macos)],
         FoundIn(ports, macos, k, found)
  PROVE  FoundIn(ports, macos, k + 1, Look(found, ports[k + 1], macos))
<1> DEFINE c == Noted(ports, macos, k + 1)
           name == NameOf(ports, macos, k + 1)
           more == Look(found, ports[k + 1], macos)
<1>1. CASE found["bridge"] # NoPort
  <2>1. more = found
    BY <1>1 DEF Look
  <2> QED
    BY <1>1, <2>1, FirstInMore, Zenon DEF FoundIn
<1>2. CASE found["bridge"] = NoPort
  <2>1. more = [found EXCEPT ![c] = IF found[c] = NoPort THEN name ELSE found[c]]
    BY <1>2, Zenon DEF Look, FirstOf, Noted, NameOf
  <2>2. c \in Classes
    BY OneClass DEF Noted
  <2>3. name # NoPort
    BY DEF AreNames
  <2>4. \A d \in Classes : FirstIn(ports, macos, d, k, found[d])
    BY <1>2, Zenon DEF FoundIn
  <2> HIDE DEF more, c, name
  <2>5. /\ more[c] = IF found[c] = NoPort THEN name ELSE found[c]
        /\ \A d \in Classes : d # c => more[d] = found[d]
    BY <2>1, <2>2
  <2>6. ASSUME NEW d \in Classes PROVE FirstIn(ports, macos, d, k + 1, more[d])
    <3>1. CASE d # c
      BY <2>4, <2>5, <3>1, FirstInMore, Zenon DEF c
    <3>2. CASE d = c /\ found[c] # NoPort
      BY <2>4, <2>5, <3>2, FirstInMore, Zenon
    <3>3. CASE d = c /\ found[c] = NoPort
      <4>1. FirstIn(ports, macos, c, k, NoPort)
        BY <2>2, <2>4, <3>3, Zenon
      <4> QED
        BY <2>5, <3>3, <4>1, FirstInNow, Zenon DEF c, name
    <3> QED
      BY <3>1, <3>2, <3>3, Zenon
  <2>7. "bridge" \in Classes
    BY DEF Classes
  <2> QED
    BY <2>6, <2>7, Zenon DEF FoundIn, more
<1> QED
  BY <1>1, <1>2

LEMMA LookType ==
  ASSUME NEW ports, NEW macos, NEW i \in DOMAIN ports,
         NEW found \in [Classes -> Names(ports, macos)]
  PROVE  Look(found, ports[i], macos) \in [Classes -> Names(ports, macos)]
<1>1. NameOf(ports, macos, i) \in Names(ports, macos)
  BY DEF Names
<1>2. Class(ports[i], macos) \in Classes
  BY OneClass
<1> QED
  BY <1>1, <1>2 DEF Look, FirstOf, NameOf

(* The loop over all ports.                                                *)
Detected(ports, macos) ==
  FoldLeft(LAMBDA f, p : Look(f, p, macos),
           [c \in {"bridge", "usb", "name", "ignored"} |-> NoPort], ports)

LEMMA DetectedAll ==
  ASSUME NEW ports, NEW macos, AreNames(ports, macos)
  PROVE  FoundIn(ports, macos, Len(ports), Detected(ports, macos))
<1> DEFINE n == Len(ports)
           V == [Classes -> Names(ports, macos)]
           base == [c \in {"bridge", "usb", "name", "ignored"} |-> NoPort]
           G == [p \in V \X (1..n) |-> Look(p[1], ports[p[2]], macos)]
           Looking(f) ==
             f = [s \in SUBSET (1..n) |->
                    IF s = {} THEN base ELSE Look(f[s \ {Max(s)}], ports[Max(s)], macos)]
           it == CHOOSE f : Looking(f)
<1>1. n \in Nat /\ DOMAIN ports = 1..n
  BY DEF AreNames
<1>2. base \in V /\ G \in [V \X (1..n) -> V]
  <2>1. base \in V
    BY DEF Classes, Names
  <2>2. \A p \in V \X (1..n) : p[1] \in V /\ p[2] \in DOMAIN ports
    BY <1>1
  <2>3. \A p \in V \X (1..n) : Look(p[1], ports[p[2]], macos) \in V
    BY <2>2, LookType, Zenon
  <2> QED
    BY <2>1, <2>3, Zenon
<1> HIDE DEF V
<1>3. PICK F \in [SUBSET (1..n) -> V] : Folding(F, G, base, n)
  BY <1>1, <1>2, FoldExists DEF Foldable
<1> HIDE DEF n, base
<1>4. Looking(F)
  <2>1. ASSUME NEW s \in SUBSET (1..n)
        PROVE  F[s] = IF s = {} THEN base ELSE Look(F[s \ {Max(s)}], ports[Max(s)], macos)
    <3>1. F[s] = IF s = {} THEN base ELSE G[<<F[s \ {Max(s)}], Max(s)>>]
      BY <1>3, Zenon DEF Folding
    <3>2. CASE s # {}
      <4>1. Max(s) \in 1..n /\ F[s \ {Max(s)}] \in V
        BY <1>1, <3>2, MaxIsLargest
      <4> QED
        BY <3>1, <3>2, <4>1
    <3> QED
      BY <3>1, <3>2
  <2>2. F = [s \in SUBSET (1..n) |-> F[s]]
    OBVIOUS
  <2> QED
    BY <2>1, <2>2, Zenon
<1>5. Looking(it)
  BY <1>4, Zenon
<1>6. Detected(ports, macos) = it[1..n]
  BY <1>1, Zenon DEF Detected, FoldLeft, MapThenFoldSet, base
<1> HIDE DEF it
<1>7. it[{}] = base
  BY <1>5
<1>8. ASSUME NEW k \in 1..n
      PROVE  it[1..k] = Look(it[1 .. k - 1], ports[k], macos)
  <2>1. /\ 1..k \in SUBSET (1..n) /\ 1..k # {}
        /\ Max(1..k) = k /\ (1..k) \ {k} = 1 .. k - 1
    BY <1>1, PrefixMax
  <2>2. it[1..k] = Look(it[(1..k) \ {Max(1..k)}], ports[Max(1..k)], macos)
    BY <1>5, <2>1, Zenon
  <2> QED
    BY <2>1, <2>2
<1> HIDE DEF Looking
<1> DEFINE T == {k \in Nat : k <= n => it[1..k] \in V /\ FoundIn(ports, macos, k, it[1..k])}
<1>9. 0 \in T
  <2>1. 1..0 = {}
    OBVIOUS
  <2>2. FoundIn(ports, macos, 0, base)
    BY <2>1 DEF FoundIn, FirstIn, base, Classes
  <2>3. it[1..0] = base
    BY <1>7, <2>1, Zenon
  <2> QED
    BY <1>2, <2>2, <2>3
<1>10. ASSUME NEW k \in Nat, k \in T PROVE k + 1 \in T
  <2> SUFFICES ASSUME k + 1 <= n
               PROVE  it[1 .. k + 1] \in V /\ FoundIn(ports, macos, k + 1, it[1 .. k + 1])
    OBVIOUS
  <2>1. /\ it[1..k] \in V /\ FoundIn(ports, macos, k, it[1..k])
        /\ k + 1 \in 1..n /\ (k + 1) - 1 = k
    BY <1>1, <1>10
  <2>2. it[1 .. k + 1] = Look(it[1..k], ports[k + 1], macos)
    BY <1>8, <2>1
  <2>3. k + 1 \in DOMAIN ports
    BY <1>1, <2>1
  <2> HIDE DEF T
  <2> DEFINE now == it[1..k]
  <2>4. now \in [Classes -> Names(ports, macos)]
    BY <2>1 DEF V
  <2>5. FoundIn(ports, macos, k, now)
    BY <2>1
  <2> HIDE DEF now
  <2>6. FoundIn(ports, macos, k + 1, Look(now, ports[k + 1], macos))
    BY <2>3, <2>4, <2>5, LookOnce
  <2>7. Look(now, ports[k + 1], macos) \in [Classes -> Names(ports, macos)]
    BY <2>3, <2>4, LookType
  <2> QED
    BY <2>2, <2>6, <2>7, Zenon DEF V, now
<1>11. n \in T
  <2> HIDE DEF T
  <2> QED
    BY <1>1, <1>9, <1>10, Induction
<1>12. FoundIn(ports, macos, n, it[1..n])
  BY <1>1, <1>11
<1> QED
  BY <1>6, <1>12, Zenon DEF n

(* What is noted decides as the order of the documentation does.           *)
LEMMA PreferredFound ==
  ASSUME NEW ports, NEW macos, AreNames(ports, macos)
  PROVE  Preferred(ports, macos, auto_detect_port(ports, macos))
<1> DEFINE f == Detected(ports, macos)
           n == Len(ports)
           best == FirstOf(f["bridge"], FirstOf(f["usb"], f["name"]))
<1>1. auto_detect_port(ports, macos) = best
  BY Zenon DEF auto_detect_port, Detected
<1>2. FoundIn(ports, macos, n, f)
  BY DetectedAll
<1>3. /\ DOMAIN ports = 1..n
      /\ \A i \in 1..n : NameOf(ports, macos, i) # NoPort
  BY DEF AreNames
<1> HIDE DEF f, n
<1>4. /\ "bridge" \in Classes /\ "usb" \in Classes
      /\ "name" \in Classes /\ "ignored" \in Classes
  BY DEF Classes
<1>5. \A i \in 1..n : Noted(ports, macos, i) \in Classes
  BY OneClass DEF Noted
<1>6. /\ Rank["bridge"] = 1 /\ Rank["usb"] = 2 /\ Rank["name"] = 3 /\ Rank["ignored"] = 4
  BY DEF Rank
<1> DEFINE Wanted(c) == \A j \in 1..n : Noted(ports, macos, j) # c
           Choice(c, x) ==
             \E i \in 1..n :
               /\ Noted(ports, macos, i) = c /\ x = NameOf(ports, macos, i)
               /\ \A j \in 1..n : Noted(ports, macos, j) = c => i <= j
<1>7. \A c \in Classes :
        FirstIn(ports, macos, c, n, f[c]) => \/ f[c] = NoPort /\ Wanted(c)
                                             \/ f[c] # NoPort /\ Choice(c, f[c])
  BY <1>3, Zenon DEF FirstIn
<1>8. \/ f["bridge"] # NoPort /\ Choice("bridge", best)
      \/ Wanted("bridge") /\ Choice("usb", best)
      \/ Wanted("bridge") /\ Wanted("usb") /\ Choice("name", best)
      \/ Wanted("bridge") /\ Wanted("usb") /\ Wanted("name") /\ best = NoPort
  <2> HIDE DEF Wanted, Choice
  <2> QED
    BY <1>2, <1>4, <1>7, Zenon DEF FoundIn, FirstOf
<1>9. Preferred(ports, macos, best)
        <=> \/ /\ best = NoPort
               /\ \A i \in 1..n : Rank[Noted(ports, macos, i)] = 4
            \/ \E i \in 1..n :
                 /\ Rank[Noted(ports, macos, i)] < 4
                 /\ \A j \in 1..n :
                      \/ Rank[Noted(ports, macos, i)] < Rank[Noted(ports, macos, j)]
                      \/ /\ Rank[Noted(ports, macos, i)] = Rank[Noted(ports, macos, j)]
                         /\ i <= j
                 /\ best = NameOf(ports, macos, i)
  <2> HIDE DEF best
  <2> QED
    BY <1>3, Zenon DEF Preferred, Noted, NameOf
<1> HIDE DEF best
<1>10. \A j \in 1..n : \/ Noted(ports, macos, j) = "bridge"
                       \/ Noted(ports, macos, j) = "usb"
                       \/ Noted(ports, macos, j) = "name"
                       \/ Noted(ports, macos, j) = "ignored"
  BY <1>5, Zenon DEF Classes
<1>11. CASE Choice("bridge", best)
  BY <1>1, <1>6, <1>9, <1>10, <1>11
<1>12. CASE Wanted("bridge") /\ Choice("usb", best)
  BY <1>1, <1>6, <1>9, <1>10, <1>12
<1>13. CASE Wanted("bridge") /\ Wanted("usb") /\ Choice("name", best)
  BY <1>1, <1>6, <1>9, <1>10, <1>13
<1>14. CASE Wanted("bridge") /\ Wanted("usb") /\ Wanted("name") /\ best = NoPort
  BY <1>1, <1>6, <1>9, <1>10, <1>14
<1> QED
  BY <1>1, <1>8, <1>11, <1>12, <1>13, <1>14, Zenon

(* Names that an operating system gives.                                   *)
LEMMA PortNames ==
  ASSUME NEW ports \in PortLists, NEW macos \in BOOLEAN
  PROVE  AreNames(ports, macos)
<1>1. /\ ports \in Seq([name : [prefix : STRING, rest : STRING], usb : Seq(Nat)])
      /\ \A i \in DOMAIN ports : ports[i].name # NoPort
  BY PortsAssumption
<1>2. DOMAIN ports = 1..Len(ports) /\ Len(ports) \in Nat
  BY <1>1, LenProperties
<1>3. ASSUME NEW i \in DOMAIN ports PROVE NameOf(ports, macos, i) # NoPort
  <2>1. ports[i] \in [name : [prefix : STRING, rest : STRING], usb : Seq(Nat)]
    <3> DEFINE P == [name : [prefix : STRING, rest : STRING], usb : Seq(Nat)]
    <3>1. ports \in Seq(P)
      BY <1>1
    <3> HIDE DEF P
    <3>2. ports[i] \in P
      BY <1>2, <3>1, ElementOfSeq
    <3> QED
      BY <3>2 DEF P
  <2>2. PICK name \in [prefix : STRING, rest : STRING] :
          name = ports[i].name /\ name # NoPort
    BY <1>1, <2>1
  <2> QED
    BY <2>2 DEF NameOf, prefer_callout_device, NoPort
<1> QED
  BY <1>2, <1>3 DEF AreNames

-----------------------------------------------------------------------------
(* What crosses the line is what Init and the steps put there.             *)
Items ==
  {[kind |-> "nothing"]}
    \cup [kind : {"request"}, of : Command]
    \cup [kind : {"descriptor"}, of : DescriptorBytes]
    \cup [kind : {"node"}, of : NodeWindows]
    \cup [kind : {"info"}, of : Identities]
    \cup [kind : {"health"}, of : HealthBytes]
    \cup [kind : {"turn"}, of : Rotation]
    \cup [kind : {"ports"}, of : PortLists, macos : BOOLEAN]

(* The item on the line stays one of those the constants allow.            *)
THEOREM ItemsInvariant == Spec => [](item \in Items)
<1>1. Init => item \in Items
  BY DEF Init, Items
<1>2. item \in Items /\ [Next]_item => (item \in Items)'
  <2> SUFFICES ASSUME item \in Items, [Next]_item
               PROVE  item' \in Items
    OBVIOUS
  <2>1. CASE Request
    BY <2>1 DEF Request, Items
  <2>2. CASE Response
    BY <2>2 DEF Response, Items
  <2>3. CASE Node
    BY <2>3 DEF Node, Items
  <2>4. CASE Turn
    BY <2>4 DEF Turn, Items
  <2>5. CASE Info
    BY <2>5 DEF Info, Items
  <2>6. CASE Health
    BY <2>6 DEF Health, Items
  <2>7. CASE Ports
    BY <2>7 DEF Ports, Items
  <2>8. CASE UNCHANGED item
    BY <2>8
  <2> QED
    BY <2>1, <2>2, <2>3, <2>4, <2>5, <2>6, <2>7, <2>8 DEF Next
<1> QED
  BY <1>1, <1>2, PTL DEF Spec

(* Decoding any window of bytes that passes for a node loses nothing but   *)
(* the redundant bits (scan_node.rs:78-92).                                *)
THEOREM NodesDecoded == Spec => []NodesLossless
<1>1. item \in Items => NodesLossless
  <2> SUFFICES ASSUME item \in Items, item.kind = "node", IsNode(item.of)
               PROVE  Lossless(item.of)
    BY DEF NodesLossless
  <2>1. item.of \in NodeWindows
    BY DEF Items
  <2> QED
    BY <2>1, WindowsAssumption, NodeRoundTrip, Zenon
<1> QED
  BY <1>1, ItemsInvariant, PTL

(* Of all seven-byte strings each request accepts exactly one: neither a   *)
(* stream out of step nor another request's answer passes for its own      *)
(* (descriptor.rs:71-119).                                                 *)
THEOREM DescriptorsTold == Spec => []OneDescriptorPerRequest
<1>1. item \in Items => OneDescriptorPerRequest
  <2> SUFFICES ASSUME item \in Items, item.kind = "descriptor", NEW want \in Expected
               PROVE  expect(item.of, want) <=> item.of = DescriptorOf(want)
    BY DEF OneDescriptorPerRequest
  <2>1. item.of \in [1..7 -> Byte]
    BY DescriptorAssumption DEF Items
  <2> QED
    BY <2>1, OneDescriptor
<1> QED
  BY <1>1, ItemsInvariant, PTL

(* For every identity and every three bytes: info reports each field the   *)
(* device sent, and health the status and code, or rejects the status      *)
(* (info.rs:53-122).                                                       *)
THEOREM AnswersDecoded == Spec => []PayloadsDecoded
<1>1. item \in Items => PayloadsDecoded
  <2> SUFFICES ASSUME item \in Items PROVE PayloadsDecoded
    OBVIOUS
  <2>1. ASSUME item.kind = "info" PROVE IdentityDecoded(item.of)
    <3>1. item.of \in Identities
      BY <2>1 DEF Items
    <3> QED
      BY <3>1, PayloadAssumption, IdentityRoundTrip DEF Identity
  <2>2. ASSUME item.kind = "health" PROVE HealthDecoded(item.of)
    <3>1. item.of \in HealthBytes
      BY <2>2 DEF Items
    <3> QED
      BY <3>1, PayloadAssumption, HealthRoundTrip
  <2> QED
    BY <2>1, <2>2 DEF PayloadsDecoded
<1> QED
  BY <1>1, ItemsInvariant, PTL

(* For every duty a caller may pass, and each other command: a device      *)
(* understands the request as it was meant, and drops a duty with any one  *)
(* bit after the opcode flipped (command.rs:76-96).                        *)
THEOREM RequestsArrive == Spec => []RequestsUnderstood
<1>1. item \in Items => RequestsUnderstood
  <2> SUFFICES ASSUME item \in Items, item.kind = "request"
               PROVE  /\ Understood(encode(item.of))
                           = {[item.of EXCEPT !.pwm = Duty(item.of.pwm)]}
                      /\ \A i \in 3..Len(encode(item.of)) : \A k \in 0..7 :
                           Understood([encode(item.of) EXCEPT ![i] = Xor(@, 2^k)]) = {}
    BY Zenon DEF RequestsUnderstood
  <2>1. item.of \in Command
    BY DEF Items
  <2> QED
    BY <2>1, Requests, Zenon
<1> QED
  BY <1>1, ItemsInvariant, PTL

(* For rotations of any length: the wrapped steps from point to point add  *)
(* up to the angle from the first point of a turn to its last, and the cap *)
(* at 360 degrees cuts nothing off (types.rs:106-116).                     *)
THEOREM TurnsMeasured == Spec => []CoverageOfATurn
<1>1. item \in Items => CoverageOfATurn
  <2> SUFFICES ASSUME item \in Items, item.kind = "turn", item.of # <<>>, OneTurn(item.of)
               PROVE  angular_coverage(item.of) =
                        item.of[Len(item.of)] - item.of[1]
                          + (IF \E i \in 1 .. Len(item.of) - 1 : item.of[i + 1] < item.of[i]
                             THEN FullTurn ELSE 0)
    BY Zenon DEF CoverageOfATurn
  <2>1. item.of \in Rotation
    BY DEF Items
  <2>2. item.of \in Seq(Nat)
    BY <2>1, RotationAngles
  <2> QED
    BY <2>2, Unwound, Zenon
<1> QED
  BY <1>1, ItemsInvariant, PTL

(* What the range of the documentation needs: every angle below a turn.    *)
(* The run coverage shows that the wire format carries larger ones         *)
(* (types.rs:103-116).                                                     *)
RangeBelowATurn ==
  item.kind = "turn" /\ (\A i \in DOMAIN item.of : item.of[i] < FullTurn)
    => CoverageInRange

(* Where every angle is below a turn the coverage is one of 0 to 360       *)
(* degrees, for rotations of any length (types.rs:103-116).                *)
THEOREM CoverageBounded == Spec => []RangeBelowATurn
<1>1. item \in Items => RangeBelowATurn
  <2> SUFFICES ASSUME item \in Items, item.kind = "turn",
                      \A i \in DOMAIN item.of : item.of[i] < FullTurn
               PROVE  angular_coverage(item.of) \in 0..FullTurn
    BY Zenon DEF RangeBelowATurn, CoverageInRange
  <2>1. item.of \in Rotation
    BY DEF Items
  <2>2. item.of \in Seq(Nat)
    BY <2>1, RotationAngles
  <2> QED
    BY <2>2, CoverageBelowATurn
<1> QED
  BY <1>1, ItemsInvariant, PTL

(* For ports of any number, in any order: the port chosen is the first one *)
(* of the best class, and none is chosen only if none is plausible         *)
(* (serial.rs:136-167).                                                    *)
THEOREM BestPortChosen == Spec => []PreferredPort
<1>1. item \in Items => PreferredPort
  <2> SUFFICES ASSUME item \in Items, item.kind = "ports"
               PROVE  Preferred(item.of, item.macos, auto_detect_port(item.of, item.macos))
    BY Zenon DEF PreferredPort
  <2>1. item.of \in PortLists /\ item.macos \in BOOLEAN
    BY DEF Items
  <2> QED
    BY <2>1, PortNames, PreferredFound, Zenon
<1> QED
  BY <1>1, ItemsInvariant, PTL

=============================================================================
