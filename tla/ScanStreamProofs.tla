-------------------------- MODULE ScanStreamProofs --------------------------
(***************************************************************************)
(* Proofs about ScanStream, for every node length, desync budget, stream,  *)
(* transport and timeout.                                                  *)
(***************************************************************************)
EXTENDS ScanStream, SequenceTheorems, TLAPS

-----------------------------------------------------------------------------
(* Windows and sequences.                                                  *)

(* A window inside the stream is a window of bytes.                        *)
LEMMA WindowAtType ==
  ASSUME NEW s \in Seq(Byte), NEW at \in Nat, at + SCAN_NODE_LEN <= Len(s)
  PROVE  WindowAt(s, at) \in Window
<1>1. \A k \in 1..SCAN_NODE_LEN : s[at + k] \in Byte
  BY NodeLenAssumption
<1> QED  BY <1>1 DEF WindowAt, Window

(* Sliding the window at `at` by the next byte gives the window at at + 1. *)
LEMMA SlideWindowAt ==
  ASSUME NEW s \in Seq(Byte), NEW at \in Nat, at + SCAN_NODE_LEN + 1 <= Len(s)
  PROVE  Slide(WindowAt(s, at), s[at + SCAN_NODE_LEN + 1]) = WindowAt(s, at + 1)
<1> DEFINE b == s[at + SCAN_NODE_LEN + 1]
<1>1. ASSUME NEW k \in 1..SCAN_NODE_LEN
      PROVE  (IF k < SCAN_NODE_LEN THEN WindowAt(s, at)[k + 1] ELSE b) = s[at + 1 + k]
  <2>1. CASE k < SCAN_NODE_LEN
    <3>1. k + 1 \in 1..SCAN_NODE_LEN  BY <2>1, NodeLenAssumption
    <3>2. at + (k + 1) = at + 1 + k  OBVIOUS
    <3> QED  BY <2>1, <3>1, <3>2 DEF WindowAt
  <2>2. CASE ~(k < SCAN_NODE_LEN)
    <3>1. k = SCAN_NODE_LEN  BY <2>2, NodeLenAssumption
    <3>2. at + 1 + k = at + SCAN_NODE_LEN + 1  BY <3>1, NodeLenAssumption
    <3> QED  BY <2>2, <3>2
  <2> QED  BY <2>1, <2>2
<1>2. [k \in 1..SCAN_NODE_LEN |-> IF k < SCAN_NODE_LEN THEN WindowAt(s, at)[k + 1] ELSE b]
        = [k \in 1..SCAN_NODE_LEN |-> s[at + 1 + k]]
  BY <1>1
<1> QED  BY <1>2 DEF Slide, WindowAt

(* What an appended element does to the subsequences the assembly keeps.   *)
LEMMA SubSeqAppend ==
  ASSUME NEW S, NEW s \in Seq(S), NEW e \in S
  PROVE  /\ SubSeq(Append(s, e), Len(s) + 1, Len(s) + 1) = <<e>>
         /\ \A i \in 1..Len(s) :
              /\ SubSeq(Append(s, e), i, Len(s)) = SubSeq(s, i, Len(s))
              /\ SubSeq(Append(s, e), i, Len(s) + 1) = Append(SubSeq(s, i, Len(s)), e)
<1> DEFINE t == Append(s, e)
<1>1. t \in Seq(S) /\ Len(t) = Len(s) + 1 /\ t[Len(s) + 1] = e
  BY AppendProperties
<1>2. t = s \o <<e>> /\ <<e>> \in Seq(S)
  BY AppendIsConcat
<1> HIDE DEF t
<1>3. ASSUME NEW i \in 1..Len(s)
      PROVE  SubSeq(t, i, Len(s)) = SubSeq(s, i, Len(s))
  BY <1>2, SubSeqOfConcat1
<1>4. ASSUME NEW i \in 1..Len(s)
      PROVE  SubSeq(t, i, Len(s) + 1) = Append(SubSeq(s, i, Len(s)), e)
  <2>1. SubSeq(t, i, Len(s) + 1) = SubSeq(t, i, Len(s) + 1 - 1) \o <<t[Len(s) + 1]>>
    BY <1>1, SubSeqRecursiveSecond, LenProperties
  <2> Len(s) + 1 - 1 = Len(s)
    BY LenProperties
  <2>2. \A k \in i..Len(s) : s[k] \in S
    BY ElementOfSeq, LenProperties
  <2>3. SubSeq(s, i, Len(s)) \in Seq(S)
    BY <2>2, SubSeqProperties, LenProperties
  <2>4. Append(SubSeq(s, i, Len(s)), e) = SubSeq(s, i, Len(s)) \o <<e>>
    BY <2>3, AppendIsConcat
  <2> QED  BY <1>1, <1>3, <2>1, <2>4, LenProperties
<1>5. SubSeq(t, Len(s) + 1, Len(s) + 1) = <<e>>
  <2>1. SubSeq(t, Len(s) + 1, Len(s) + 1) = SubSeq(<<e>>, 1, 1)
    BY <1>2, SubSeqOfConcat2, LenProperties
  <2> QED  BY <1>2, <2>1, SubSeqFull
<1> QED  BY <1>3, <1>4, <1>5 DEF t

-----------------------------------------------------------------------------
(* The inductive invariant.                                                *)

(* The longest a single read may take.                                     *)
MaxBudget == IF scan_startup_timeout > response_timeout
             THEN scan_startup_timeout ELSE response_timeout

(* What the named properties leave out: a finished iterator reads nothing, *)
(* a running call has returned nothing yet, the search for a node begins   *)
(* where the last node ended, and each read so far has cost one budget.    *)
Bookkeeping ==
  /\ pc # "idle" => ~done /\ ret = Nothing
  /\ pc # "resync" => discarded = 0
  /\ ~done /\ seen # <<>> => Base = seen[Len(seen)].at + SCAN_NODE_LEN
  /\ pc = "resync" => waited <= discarded * MaxBudget

IInv ==
  /\ TypeOK
  /\ NoNodeSkipped
  /\ NodesFirstFit
  /\ RotationsAssembled
  /\ Bookkeeping
  /\ BlockingBound

(* A read that succeeds completes the window that ends where it ends.      *)
LEMMA FetchedWindow ==
  ASSUME TypeOK, NoNodeSkipped, Bookkeeping, Reading, ~Short
  PROVE  /\ Need \in Nat /\ Base \in Nat
         /\ pos + Need - SCAN_NODE_LEN \in Nat
         /\ pos + Need <= Len(stream)
         /\ pos + Need - SCAN_NODE_LEN = Base + discarded
         /\ Fetched = WindowAt(stream, pos + Need - SCAN_NODE_LEN)
         /\ Fetched \in Window
         /\ NewPoint \in Point
         /\ \A o \in Base .. pos + Need - SCAN_NODE_LEN - 1 : ~IsNode(WindowAt(stream, o))
<1> DEFINE o == pos + Need - SCAN_NODE_LEN
<1>1. /\ Need \in Nat /\ pos \in Nat /\ Len(stream) \in Nat
      /\ discarded \in Nat /\ stream \in Seq(Byte)
      /\ pos + Need <= Len(stream)
  BY NodeLenAssumption, ScanStreamAssumption, LenProperties DEF TypeOK, Need, Short
<1>2. CASE pc = "node"
  <2>1. Need = SCAN_NODE_LEN /\ o = pos /\ Base = pos /\ discarded = 0
    BY <1>1, <1>2, NodeLenAssumption DEF Need, Base, Bookkeeping
  <2>2. Fetched = WindowAt(stream, o)
    BY <1>2, <2>1 DEF Fetched
  <2>3. Fetched \in Window
    BY <1>1, <2>1, <2>2, WindowAtType
  <2> QED
    BY <1>1, <2>1, <2>2, <2>3 DEF NewPoint, Point
<1>3. CASE pc = "resync"
  <2>1. /\ Need = 1 /\ Base = pos - SCAN_NODE_LEN - discarded + 1
        /\ Base >= 0 /\ discarded >= 1
        /\ buf = WindowAt(stream, pos - SCAN_NODE_LEN)
    BY <1>3 DEF Need, Base, NoNodeSkipped
  <2>2. /\ pos - SCAN_NODE_LEN \in Nat /\ o = pos - SCAN_NODE_LEN + 1
        /\ o \in Nat /\ o = Base + discarded
        /\ pos - SCAN_NODE_LEN + SCAN_NODE_LEN + 1 = pos + 1
        /\ o + SCAN_NODE_LEN <= Len(stream)
        /\ o - 1 = pos - SCAN_NODE_LEN
    BY <1>1, <2>1, NodeLenAssumption
  <2>3. Fetched = WindowAt(stream, o)
    <3>1. Fetched = Slide(WindowAt(stream, pos - SCAN_NODE_LEN), stream[pos + 1])
      BY <1>3, <2>1 DEF Fetched
    <3>2. pos - SCAN_NODE_LEN + SCAN_NODE_LEN + 1 <= Len(stream)
      BY <1>1, <2>1, <2>2
    <3> QED  BY <1>1, <2>2, <3>1, <3>2, SlideWindowAt
  <2>4. Fetched \in Window
    BY <1>1, <2>2, <2>3, WindowAtType
  <2>5. ASSUME NEW p \in Base .. o - 1  PROVE ~IsNode(WindowAt(stream, p))
    BY <1>3, <2>2 DEF NoNodeSkipped
  <2>6. NewPoint \in Point
    BY <2>2, <2>4 DEF NewPoint, Point
  <2> QED
    BY <1>1, <2>1, <2>2, <2>3, <2>4, <2>5, <2>6, NodeLenAssumption
<1> QED  BY <1>2, <1>3 DEF Reading

(* The budgets are natural numbers no greater than MaxBudget.              *)
LEMMA BudgetType ==
  /\ MaxBudget \in Nat
  /\ Budget \in 0..MaxBudget
BY ScanStreamAssumption DEF MaxBudget, Budget

(* Whatever one read costs, the call has spent one budget per read.        *)
LEMMA SpendStep ==
  ASSUME TypeOK, Bookkeeping, Reading,
         NEW ticks \in SUBSET (0..MaxBudget), Spend(ticks)
  PROVE  /\ waited' \in Nat
         /\ waited' <= (discarded + 1) * MaxBudget
         /\ waited' <= (MAX_DESYNC_DISCARD + 1) * MaxBudget
<1>1. /\ MaxBudget \in Nat /\ discarded \in Nat /\ waited \in Nat
      /\ MAX_DESYNC_DISCARD \in Nat /\ discarded <= MAX_DESYNC_DISCARD
  BY BudgetType, ScanStreamAssumption DEF TypeOK
<1>2. PICK t \in 0..MaxBudget : waited' = IF pc = "node" THEN t ELSE waited + t
  BY <1>1 DEF Spend
<1>3. waited' \in Nat /\ waited' <= (discarded + 1) * MaxBudget
  <2>1. CASE pc = "node"
    <3>1. discarded = 0  BY <2>1 DEF Bookkeeping
    <3>2. (discarded + 1) * MaxBudget = MaxBudget  BY <1>1, <3>1
    <3> QED  BY <1>1, <1>2, <2>1, <3>2
  <2>2. CASE pc = "resync"
    <3>1. waited <= discarded * MaxBudget  BY <2>2 DEF Bookkeeping
    <3>2. (discarded + 1) * MaxBudget = discarded * MaxBudget + MaxBudget
      BY <1>1
    <3>3. discarded * MaxBudget \in Nat  BY <1>1
    <3> QED  BY <1>1, <1>2, <2>2, <3>1, <3>2, <3>3
  <2> QED  BY <2>1, <2>2 DEF Reading
<1>4. (discarded + 1) * MaxBudget <= (MAX_DESYNC_DISCARD + 1) * MaxBudget
  <2>1. PICK d \in Nat : MAX_DESYNC_DISCARD = discarded + d
    <3>1. MAX_DESYNC_DISCARD - discarded \in Nat  BY <1>1
    <3>2. MAX_DESYNC_DISCARD = discarded + (MAX_DESYNC_DISCARD - discarded)  BY <1>1
    <3> QED  BY <3>1, <3>2
  <2>2. (MAX_DESYNC_DISCARD + 1) * MaxBudget = (discarded + 1) * MaxBudget + d * MaxBudget
    BY <1>1, <2>1
  <2>3. d * MaxBudget \in Nat /\ (discarded + 1) * MaxBudget \in Nat
    BY <1>1, <2>1
  <2> QED  BY <2>2, <2>3
<1>5. (discarded + 1) * MaxBudget \in Nat /\ (MAX_DESYNC_DISCARD + 1) * MaxBudget \in Nat
  BY <1>1
<1> QED  BY <1>3, <1>4, <1>5

(* The same for a successful read, and for each of the failing ones.       *)
LEMMA ReadSpends ==
  ASSUME TypeOK, Bookkeeping, Reading
  PROVE  /\ Spend(0..Budget) =>
              /\ waited' \in Nat
              /\ waited' <= (discarded + 1) * MaxBudget
              /\ waited' <= (MAX_DESYNC_DISCARD + 1) * MaxBudget
         /\ \A fault, lost :
              SerialFails(fault, lost) \/ ReplayFails(fault, lost) \/ MockFails(fault, lost)
              => waited' \in Nat /\ waited' <= (MAX_DESYNC_DISCARD + 1) * MaxBudget
<1>1. /\ 0..Budget \in SUBSET (0..MaxBudget)
      /\ {Budget} \in SUBSET (0..MaxBudget)
      /\ {0} \in SUBSET (0..MaxBudget)
  BY BudgetType
<1>2. ASSUME NEW fault, NEW lost, SerialFails(fault, lost)
      PROVE  Spend({Budget}) \/ Spend(0..Budget)
  BY <1>2 DEF SerialFails
<1>3. ASSUME NEW fault, NEW lost, ReplayFails(fault, lost) \/ MockFails(fault, lost)
      PROVE  Spend({0})
  BY <1>3 DEF ReplayFails, MockFails
<1> QED  BY <1>1, <1>2, <1>3, SpendStep

(* A failed read has taken less than it was asked for, and no more than    *)
(* there is.                                                               *)
LEMMA FailedReadLoses ==
  ASSUME TypeOK, Reading, NEW fault, NEW lost \in 0..Len(stream),
         SerialFails(fault, lost) \/ ReplayFails(fault, lost) \/ MockFails(fault, lost)
  PROVE  lost < Need /\ pos + lost <= Len(stream)
<1>1. /\ pos \in Nat /\ Len(stream) \in Nat /\ pos <= Len(stream)
      /\ Need \in Nat /\ Need >= 1
  BY NodeLenAssumption, LenProperties DEF TypeOK, Need
<1>2. CASE SerialFails(fault, lost)
  BY <1>2 DEF SerialFails
<1>3. CASE ReplayFails(fault, lost)
  <2>1. pos + Need > Len(stream) /\ lost = Len(stream) - pos
    BY <1>3 DEF ReplayFails, Short
  <2> QED  BY <1>1, <2>1
<1>4. CASE MockFails(fault, lost)
  <2>1. lost = 0  BY <1>4 DEF MockFails
  <2> QED  BY <1>1, <2>1
<1> QED  BY <1>2, <1>3, <1>4

(* Decoding a node: what all four ways of using it have in common.         *)
LEMMA DecodeStep ==
  ASSUME IInv, Decode, pc' \in {"idle", "node"}
  PROVE  LET o == pos + Need - SCAN_NODE_LEN IN
         /\ o \in Nat /\ o = Base + discarded /\ Base \in Nat
         /\ NewPoint \in Point
         /\ NewPoint.at = o /\ NewPoint.node = Fetched
         /\ Fetched = WindowAt(stream, o) /\ IsNode(Fetched)
         /\ pos' = o + SCAN_NODE_LEN /\ Base' = pos' /\ pos' \in 0..Len(stream)
         /\ Len(seen) \in Nat /\ seen' \in Seq(Point)
         /\ Len(seen') = Len(seen) + 1
         /\ seen'[Len(seen) + 1] = NewPoint
         /\ \A k \in 1..Len(seen) : seen'[k] = seen[k]
<1> DEFINE o == pos + Need - SCAN_NODE_LEN
<1>1. TypeOK /\ NoNodeSkipped /\ Bookkeeping /\ Reading /\ ~Short
  BY DEF IInv, Decode, ReadExact
<1>2. /\ Need \in Nat /\ o \in Nat /\ pos + Need <= Len(stream)
      /\ o = Base + discarded
      /\ Fetched = WindowAt(stream, o) /\ NewPoint \in Point
  BY <1>1, FetchedWindow
<1>3. pos \in Nat /\ discarded \in Nat /\ Len(stream) \in Nat /\ seen \in Seq(Point)
  BY <1>1, ScanStreamAssumption, LenProperties DEF TypeOK
<1>4. Base \in Nat
  BY <1>1, <1>3, NodeLenAssumption DEF Base, NoNodeSkipped, Reading
<1>5. /\ Len(seen) \in Nat /\ seen' \in Seq(Point) /\ Len(seen') = Len(seen) + 1
      /\ seen'[Len(seen) + 1] = NewPoint
      /\ \A k \in 1..Len(seen) : seen'[k] = seen[k]
  <2>1. seen' = Append(seen, NewPoint)  BY DEF Decode
  <2> HIDE DEF o
  <2> QED  BY <1>2, <1>3, <2>1, AppendProperties, LenProperties
<1>6. NewPoint.at = o /\ NewPoint.node = Fetched
  BY DEF NewPoint
<1>7. pos' = o + SCAN_NODE_LEN /\ pos' \in 0..Len(stream)
  <2>1. pos' = pos + Need  BY DEF Decode, ReadExact
  <2> QED  BY <1>2, <1>3, <2>1, NodeLenAssumption
<1>8. Base' = pos'  BY DEF Base
<1>9. IsNode(Fetched)  BY DEF Decode
<1> QED  BY <1>2, <1>4, <1>5, <1>6, <1>7, <1>8, <1>9

-----------------------------------------------------------------------------
(* The invariant holds initially, whatever bytes there are to read.        *)
LEMMA InitIInv ==
  ASSUME ReaderInit, stream \in Seq(Byte)
  PROVE  IInv
<1> USE DEF ReaderInit
<1>1. Len(stream) \in Nat
  BY LenProperties
<1>2. Zeros \in Window
  BY DEF Zeros, Window, Byte
<1>3. seen = <<>> /\ current = <<>> /\ seen \in Seq(Point) /\ Len(seen) = 0
  BY EmptySeq
<1>4. ret = Nothing /\ Nothing \in Outcome /\ ret.kind = "nothing"
  BY DEF Outcome, Nothing
<1>5. TypeOK
  <2>1. pos \in 0..Len(stream) /\ discarded \in 0..MAX_DESYNC_DISCARD /\ waited \in Nat
    BY <1>1, ScanStreamAssumption
  <2>2. buf \in Window /\ ret \in Outcome /\ current \in Seq(Point)
    BY <1>2, <1>3, <1>4
  <2>3. /\ transport \in Transports /\ pc \in {"idle", "node", "resync"}
        /\ primed \in BOOLEAN /\ started \in BOOLEAN /\ done \in BOOLEAN
    OBVIOUS
  <2> QED  BY <1>1, <1>3, <2>1, <2>2, <2>3 DEF TypeOK
<1>6. NoNodeSkipped
  BY DEF NoNodeSkipped
<1>7. NodesFirstFit
  BY <1>3 DEF NodesFirstFit
<1>8. RotationsAssembled
  BY <1>3, <1>4 DEF RotationsAssembled
<1>9. Bookkeeping
  BY <1>3 DEF Bookkeeping
<1>10. BlockingBound
  <2>1. MaxBudget \in Nat /\ MAX_DESYNC_DISCARD + 1 \in Nat
    BY BudgetType, ScanStreamAssumption
  <2>2. (MAX_DESYNC_DISCARD + 1) * MaxBudget \in Nat
    BY <2>1
  <2> QED  BY <2>2 DEF BlockingBound, MaxBudget
<1> QED  BY <1>5, <1>6, <1>7, <1>8, <1>9, <1>10 DEF IInv

(* A rotation being assembled is a sequence of points, so is a scan.       *)
LEMMA OutcomeTypes ==
  /\ Nothing \in Outcome /\ End \in Outcome /\ Error("Desync") \in Outcome
  /\ \A fault : Error(lift(fault)) \in Outcome
  /\ \A pts \in Seq(Point) : Scan(pts) \in Outcome
  /\ Nothing.kind # "scan" /\ End.kind # "scan"
  /\ \A e : Error(e).kind # "scan"
  /\ \A pts : Scan(pts).kind = "scan" /\ Scan(pts).points = pts
BY DEF Outcome, Nothing, End, Error, Scan, lift, ReadErrors

(* Types are kept by every step.                                           *)
LEMMA TypeOKStep ==
  ASSUME IInv, [Next]_vars
  PROVE  TypeOK'
<1> USE DEF TypeOK
<1>1. TypeOK /\ NoNodeSkipped /\ Bookkeeping
  BY DEF IInv
<1>2. Zeros \in Window /\ 0 \in 0..MAX_DESYNC_DISCARD /\ Len(stream) \in Nat
  BY <1>1, ScanStreamAssumption, LenProperties DEF Zeros, Window, Byte
<1>3. <<>> \in Seq(Point)
  BY EmptySeq
<1>4. CASE UNCHANGED vars
  BY <1>1, <1>4 DEF vars, iter
<1>5. CASE next
  BY <1>1, <1>5, OutcomeTypes DEF next, iter
<1>6. CASE nextDone
  BY <1>1, <1>6, OutcomeTypes DEF nextDone, iter
<1>7. CASE scans
  BY <1>1, <1>3, <1>7, OutcomeTypes DEF scans
<1>8. ASSUME ReadExact
      PROVE  waited' \in Nat
  BY <1>1, <1>8, ReadSpends DEF ReadExact
<1>9. ASSUME Decode, pc' \in {"idle", "node"}
      PROVE  /\ transport' \in Transports /\ stream' \in Seq(Byte)
             /\ pos' \in 0..Len(stream') /\ pc' \in {"idle", "node", "resync"}
             /\ buf' \in Window /\ discarded' \in 0..MAX_DESYNC_DISCARD
             /\ seen' \in Seq(Point) /\ started' \in BOOLEAN
             /\ done' \in BOOLEAN /\ waited' \in Nat
             /\ NewPoint \in Point /\ <<NewPoint>> \in Seq(Point)
  <2>1. NewPoint \in Point /\ pos' \in 0..Len(stream) /\ seen' \in Seq(Point)
    BY <1>9, DecodeStep
  <2>2. waited' \in Nat
    BY <1>8, <1>9 DEF Decode
  <2>3. <<NewPoint>> \in Seq(Point)
    BY <2>1
  <2> QED  BY <1>1, <1>2, <1>9, <2>1, <2>2, <2>3 DEF Decode
<1>10. CASE CloseRotation
  <2>1. Decode /\ pc' \in {"idle", "node"}  BY <1>10 DEF CloseRotation
  <2>2. ret' \in Outcome  BY <1>1, <1>10, OutcomeTypes DEF CloseRotation
  <2> QED  BY <1>9, <1>10, <2>1, <2>2 DEF CloseRotation
<1>11. CASE OpenRotation
  <2>1. Decode /\ pc' \in {"idle", "node"}  BY <1>11 DEF OpenRotation
  <2> QED  BY <1>1, <1>9, <1>11, <2>1 DEF OpenRotation
<1>12. CASE ExtendRotation
  <2>1. Decode /\ pc' \in {"idle", "node"}  BY <1>12 DEF ExtendRotation
  <2>2. NewPoint \in Point  BY <1>9, <2>1
  <2>3. current' \in Seq(Point)
    BY <1>1, <1>12, <2>2, AppendProperties DEF ExtendRotation
  <2> QED  BY <1>1, <1>9, <1>12, <2>1, <2>3 DEF ExtendRotation
<1>13. CASE DropPartial
  <2>1. Decode /\ pc' \in {"idle", "node"}  BY <1>13 DEF DropPartial
  <2> QED  BY <1>1, <1>9, <1>13, <2>1 DEF DropPartial
<1>14. ASSUME ReadExact
       PROVE  Fetched \in Window /\ pos + Need \in 0..Len(stream)
  <2>1. Fetched \in Window /\ Need \in Nat /\ pos + Need <= Len(stream)
    BY <1>1, <1>14, FetchedWindow DEF ReadExact
  <2> QED  BY <1>1, <1>2, <2>1
<1>15. CASE SlideWindow
  <2>1. ReadExact /\ waited' \in Nat /\ Fetched \in Window /\ pos' \in 0..Len(stream)
    BY <1>8, <1>14, <1>15 DEF SlideWindow, ReadExact
  <2>2. discarded' \in 0..MAX_DESYNC_DISCARD
    BY <1>1, <1>15, ScanStreamAssumption DEF SlideWindow
  <2> QED  BY <1>1, <1>15, <2>1, <2>2 DEF SlideWindow, iter
<1>16. CASE Desync
  <2>1. waited' \in Nat /\ pos' \in 0..Len(stream)
    BY <1>8, <1>14, <1>16 DEF Desync, ReadExact
  <2> QED  BY <1>1, <1>2, <1>16, <2>1, OutcomeTypes DEF Desync, Return
<1>17. CASE FailRead
  <2>1. Reading
    BY <1>17 DEF FailRead
  <2>2. PICK fault \in {"Timeout", "Eof", "Io", "Serial"}, lost \in 0..Len(stream) :
          /\ SerialFails(fault, lost) \/ ReplayFails(fault, lost) \/ MockFails(fault, lost)
          /\ pos' = pos + lost
          /\ Return(IF fault = "Eof" THEN End ELSE Error(lift(fault)))
    BY <1>17 DEF FailRead
  <2>3. waited' \in Nat
    BY <1>1, <2>1, <2>2, ReadSpends
  <2>4. pos' \in 0..Len(stream)
    BY <1>1, <1>2, <2>1, <2>2, FailedReadLoses
  <2>5. ret' \in Outcome
    BY <2>2, OutcomeTypes DEF Return
  <2> QED  BY <1>1, <1>2, <2>2, <2>3, <2>4, <2>5 DEF Return
<1> QED
  BY <1>4, <1>5, <1>6, <1>7, <1>10, <1>11, <1>12, <1>13, <1>15, <1>16, <1>17
     DEF Next, Step

(* Sliding the window: where it now is, and what has been ruled out.       *)
LEMMA SlideStep ==
  ASSUME IInv, SlideWindow
  PROVE  /\ Base \in Nat /\ Base' = Base
         /\ discarded' = discarded + 1 /\ discarded \in Nat
         /\ pos' - SCAN_NODE_LEN = Base + discarded
         /\ pos' \in Nat
         /\ buf' = WindowAt(stream, pos' - SCAN_NODE_LEN)
         /\ \A o \in Base .. pos' - SCAN_NODE_LEN : ~IsNode(WindowAt(stream, o))
<1> DEFINE o == pos + Need - SCAN_NODE_LEN
<1>1. TypeOK /\ NoNodeSkipped /\ Bookkeeping /\ Reading /\ ~Short
  BY DEF IInv, SlideWindow, ReadExact
<1>2. pos \in Nat /\ discarded \in Nat
  BY <1>1, ScanStreamAssumption, LenProperties DEF TypeOK
<1>3. /\ Need \in Nat /\ o \in Nat /\ o = Base + discarded
      /\ Fetched = WindowAt(stream, o) /\ Base \in Nat
      /\ \A p \in Base .. o - 1 : ~IsNode(WindowAt(stream, p))
  BY <1>1, <1>2, FetchedWindow, NodeLenAssumption
<1>4. Base \in Nat
  BY <1>3
<1>5. /\ pos' = pos + Need /\ pos' \in Nat /\ pos' - SCAN_NODE_LEN = o
      /\ pc' = "resync" /\ discarded' = discarded + 1
      /\ buf' = Fetched /\ ~IsNode(Fetched)
  BY <1>3, <1>2, NodeLenAssumption DEF SlideWindow, ReadExact
<1>6. Base' = Base
  <2>1. Base' = pos' - SCAN_NODE_LEN - discarded' + 1
    BY <1>5 DEF Base
  <2> HIDE DEF o
  <2> QED  BY <1>3, <1>2, <1>4, <1>5, <2>1
<1>7. ASSUME NEW p \in Base .. pos' - SCAN_NODE_LEN
      PROVE  ~IsNode(WindowAt(stream, p))
  <2> HIDE DEF o
  <2>1. p \in Base .. o - 1 \/ p = o
    BY <1>3, <1>4, <1>5
  <2> QED  BY <1>3, <1>5, <2>1
<1> QED  BY <1>3, <1>2, <1>4, <1>5, <1>6, <1>7

(* A step that neither decodes nor slides leaves no window behind.         *)
LEMMA QuietStep ==
  ASSUME IInv, next \/ nextDone \/ scans \/ Desync \/ FailRead
  PROVE  /\ stream' = stream /\ pc' # "resync" /\ discarded' = 0
         /\ Base \in Nat /\ Base' = pos' /\ Base' >= Base
<1>1. TypeOK /\ NoNodeSkipped /\ Bookkeeping
  BY DEF IInv
<1>2. /\ stream' = stream /\ pc' # "resync" /\ discarded' = 0
  BY <1>1 DEF Bookkeeping, next, nextDone, scans, Desync, FailRead, Return
<1>3. pos \in Nat /\ discarded \in Nat /\ Len(stream) \in Nat
  BY <1>1, ScanStreamAssumption, LenProperties DEF TypeOK
<1>4. Base \in Nat /\ Base <= pos
  BY <1>1, <1>3, NodeLenAssumption DEF Base, NoNodeSkipped
<1>5. pos' >= pos /\ pos' \in Nat
  <2>1. CASE next \/ nextDone \/ scans
    BY <1>3, <2>1 DEF next, nextDone, scans
  <2>2. CASE Desync
    <3>1. Need \in Nat
      BY NodeLenAssumption DEF Need
    <3> QED  BY <1>3, <2>2, <3>1 DEF Desync, ReadExact
  <2>3. CASE FailRead
    <3>1. PICK lost \in 0..Len(stream) : pos' = pos + lost
      BY <2>3 DEF FailRead
    <3> QED  BY <1>3, <3>1
  <2> QED  BY <2>1, <2>2, <2>3
<1>6. Base' = pos'
  BY <1>2 DEF Base
<1> QED  BY <1>2, <1>3, <1>4, <1>5, <1>6

(* The four steps that decode a node share DecodeStep.                     *)
LEMMA DecodingSteps ==
  ASSUME CloseRotation \/ OpenRotation \/ ExtendRotation \/ DropPartial
  PROVE  Decode /\ pc' \in {"idle", "node"}
BY DEF CloseRotation, OpenRotation, ExtendRotation, DropPartial

LEMMA NoNodeSkippedStep ==
  ASSUME IInv, [Next]_vars
  PROVE  NoNodeSkipped'
<1>1. CASE UNCHANGED vars
  BY <1>1 DEF IInv, NoNodeSkipped, vars, iter, Base
<1>2. CASE next \/ nextDone \/ scans \/ Desync \/ FailRead
  <2>1. pc' # "resync"  BY <1>2, QuietStep
  <2> QED  BY <2>1 DEF NoNodeSkipped
<1>3. CASE CloseRotation \/ OpenRotation \/ ExtendRotation \/ DropPartial
  <2>1. pc' # "resync"  BY <1>3, DecodingSteps
  <2> QED  BY <2>1 DEF NoNodeSkipped
<1>4. CASE SlideWindow
  <2>1. stream' = stream  BY <1>4 DEF SlideWindow
  <2>2. Base' >= 0 /\ discarded' >= 1
    BY <1>4, SlideStep
  <2>3. buf' = WindowAt(stream', pos' - SCAN_NODE_LEN)
    BY <1>4, <2>1, SlideStep
  <2>4. \A o \in Base' .. pos' - SCAN_NODE_LEN : ~IsNode(WindowAt(stream', o))
    BY <1>4, <2>1, SlideStep
  <2> QED  BY <2>2, <2>3, <2>4 DEF NoNodeSkipped
<1> QED  BY <1>1, <1>2, <1>3, <1>4 DEF Next, Step

LEMMA NodesFirstFitStep ==
  ASSUME IInv, [Next]_vars
  PROVE  NodesFirstFit'
<1>1. TypeOK /\ NodesFirstFit /\ Bookkeeping
  BY DEF IInv
<1>2. /\ seen \in Seq(Point) /\ Len(seen) \in Nat
      /\ \A i \in 1..Len(seen) : seen[i] \in Point /\ seen[i].at \in Nat
  <2>1. \A i \in 1..Len(seen) : seen[i] \in Point
    BY <1>1, ElementOfSeq DEF TypeOK
  <2> QED  BY <1>1, <2>1, LenProperties DEF TypeOK, Point
<1>3. CASE UNCHANGED vars
  BY <1>1, <1>3 DEF NodesFirstFit, vars, iter, Base
<1>4. ASSUME seen' = seen, stream' = stream, Base \in Nat, Base' \in Int, Base' >= Base
      PROVE  NodesFirstFit'
  <2>1. \A i \in 1..Len(seen) :
          /\ seen[i].at + SCAN_NODE_LEN <= Base'
          /\ seen[i].node = WindowAt(stream, seen[i].at)
          /\ IsNode(seen[i].node)
    BY <1>1, <1>2, <1>4, NodeLenAssumption DEF NodesFirstFit
  <2> QED  BY <1>1, <1>4, <2>1 DEF NodesFirstFit
<1>5. CASE next \/ nextDone \/ Desync \/ FailRead
  <2>1. seen' = seen
    BY <1>5 DEF next, nextDone, Desync, FailRead, Return, iter
  <2>2. pos' \in Nat
    BY TypeOKStep, LenProperties DEF TypeOK
  <2> QED  BY <1>4, <1>5, <2>1, <2>2, QuietStep
<1>6. CASE scans
  <2>1. seen' = <<>> /\ Len(seen') = 0
    BY <1>6, EmptySeq DEF scans
  <2> QED  BY <2>1 DEF NodesFirstFit
<1>7. CASE SlideWindow
  BY <1>4, <1>7, SlideStep DEF SlideWindow, iter
<1>8. CASE CloseRotation \/ OpenRotation \/ ExtendRotation \/ DropPartial
  <2> DEFINE o == pos + Need - SCAN_NODE_LEN
             n == Len(seen)
  <2>1. Decode /\ pc' \in {"idle", "node"}
    BY <1>8, DecodingSteps
  <2>2. /\ o \in Nat /\ o = Base + discarded /\ Base \in Nat
        /\ NewPoint.at = o /\ NewPoint.node = WindowAt(stream, o) /\ IsNode(NewPoint.node)
        /\ Base' = o + SCAN_NODE_LEN /\ stream' = stream
        /\ Len(seen') = n + 1 /\ seen'[n + 1] = NewPoint
        /\ \A k \in 1..n : seen'[k] = seen[k]
    BY <2>1, DecodeStep DEF Decode
  <2>3. discarded \in 0..MAX_DESYNC_DISCARD /\ pos \in Nat /\ Need \in Nat
    BY <1>1, NodeLenAssumption, LenProperties DEF TypeOK, Need
  <2>4. ASSUME NEW p \in Base .. o - 1  PROVE ~IsNode(WindowAt(stream, p))
    <3>1. NoNodeSkipped /\ Reading /\ ~Short
      BY <2>1 DEF IInv, Decode, ReadExact
    <3> QED  BY <1>1, <2>2, <2>3, <3>1, FetchedWindow, NodeLenAssumption
  <2> HIDE DEF o
  <2>5. ASSUME NEW i \in 1..n + 1
        PROVE  /\ seen'[i].at + SCAN_NODE_LEN <= Base'
               /\ seen'[i].node = WindowAt(stream, seen'[i].at)
               /\ IsNode(seen'[i].node)
    <3>1. CASE i \in 1..n
      <4>1. seen'[i] = seen[i] /\ seen[i].at \in Nat
        BY <1>2, <2>2, <3>1
      <4>2. /\ seen[i].at + SCAN_NODE_LEN <= Base
            /\ seen[i].node = WindowAt(stream, seen[i].at)
            /\ IsNode(seen[i].node)
        BY <1>1, <3>1 DEF NodesFirstFit
      <4>3. Base <= Base'
        BY <2>2, <2>3, NodeLenAssumption, ScanStreamAssumption
      <4>4. seen[i].at + SCAN_NODE_LEN <= Base'
        BY <2>2, <4>1, <4>2, <4>3, NodeLenAssumption
      <4> QED  BY <4>1, <4>2, <4>4
    <3>2. CASE i = n + 1
      BY <2>2, <3>2, NodeLenAssumption
    <3> QED  BY <1>2, <3>1, <3>2
  <2>6. ASSUME NEW i \in 1..n + 1, NEW j \in 1..n + 1, i < j
        PROVE  seen'[i].at + SCAN_NODE_LEN <= seen'[j].at
    <3>1. i \in 1..n /\ seen'[i] = seen[i] /\ seen[i].at \in Nat
      BY <1>2, <2>2, <2>6
    <3>2. CASE j \in 1..n
      BY <1>1, <2>2, <2>6, <3>1, <3>2 DEF NodesFirstFit
    <3>3. CASE j = n + 1
      <4>1. seen[i].at + SCAN_NODE_LEN <= Base
        BY <1>1, <3>1 DEF NodesFirstFit
      <4>2. seen'[j].at = o /\ Base <= o
        BY <2>2, <2>3, <3>3
      <4> QED  BY <2>2, <3>1, <4>1, <4>2, NodeLenAssumption
    <3> QED  BY <1>2, <3>2, <3>3
  <2>7. ASSUME seen # <<>>
        PROVE  n \in 1..n /\ seen[n].at \in Nat /\ Base = seen[n].at + SCAN_NODE_LEN
    <3>1. ~done
      BY <1>1, <2>1 DEF Decode, ReadExact, Reading, Bookkeeping
    <3>2. n \in 1..n
      BY <1>2, <2>7, EmptySeq
    <3> QED  BY <1>1, <1>2, <2>7, <3>1, <3>2 DEF Bookkeeping
  <2>8. ASSUME NEW i \in 1..n
        PROVE  seen'[i + 1].at <= seen'[i].at + SCAN_NODE_LEN + MAX_DESYNC_DISCARD
    <3>1. seen'[i] = seen[i]
      BY <2>2
    <3>2. CASE i \in 1..n - 1
      <4>1. seen'[i + 1] = seen[i + 1]
        BY <1>2, <2>2, <3>2
      <4> QED  BY <1>1, <3>1, <3>2, <4>1 DEF NodesFirstFit
    <3>3. CASE i = n
      <4>1. seen # <<>>
        BY <1>2, <3>3, EmptySeq
      <4>2. seen'[i + 1].at = o
        BY <2>2, <3>3
      <4> QED  BY <2>2, <2>3, <2>7, <3>1, <3>3, <4>1, <4>2, ScanStreamAssumption, NodeLenAssumption
    <3> QED  BY <1>2, <3>2, <3>3
  <2>9. ASSUME NEW p \in seen'[1].at .. seen'[n + 1].at, IsNode(WindowAt(stream, p))
        PROVE  \E i \in 1..n + 1 : p \in seen'[i].at .. seen'[i].at + SCAN_NODE_LEN - 1
    <3>1. seen'[n + 1].at = o /\ n + 1 \in 1..n + 1
      BY <1>2, <2>2
    <3>2. CASE p = o
      BY <2>2, <3>1, <3>2, NodeLenAssumption
    <3>3. CASE p # o /\ seen = <<>>
      <4>1. n = 0
        BY <3>3, EmptySeq
      <4> QED  BY <2>2, <3>1, <3>3, <4>1
    <3>4. CASE p # o /\ seen # <<>>
      <4>1. /\ n \in 1..n /\ 1 \in 1..n
            /\ seen'[n] = seen[n] /\ seen'[1] = seen[1]
            /\ seen[n].at \in Nat /\ seen[1].at \in Nat
        BY <1>2, <2>2, <2>7, <3>4
      <4>2. p \in Int /\ p < o /\ seen[1].at <= p
        BY <2>2, <3>1, <3>4, <4>1
      <4>3. CASE p <= seen[n].at
        <5>1. p \in seen[1].at .. seen[n].at
          BY <4>1, <4>2, <4>3
        <5>2. PICK i \in 1..n : p \in seen[i].at .. seen[i].at + SCAN_NODE_LEN - 1
          BY <1>1, <2>9, <3>4, <5>1 DEF NodesFirstFit
        <5>3. i \in 1..n + 1 /\ seen'[i] = seen[i]
          BY <1>2, <2>2
        <5> QED  BY <5>2, <5>3
      <4>4. CASE ~(p <= seen[n].at)
        <5>1. p < Base
          <6>1. CASE p >= Base
            BY <2>2, <2>4, <2>9, <4>2, <6>1
          <6> QED  BY <2>2, <4>2, <6>1
        <5>2. p \in seen'[n].at .. seen'[n].at + SCAN_NODE_LEN - 1
          BY <2>7, <3>4, <4>1, <4>2, <4>4, <5>1, NodeLenAssumption
        <5>3. n \in 1..n + 1
          BY <1>2, <4>1
        <5> QED  BY <5>2, <5>3
      <4> QED  BY <4>3, <4>4
    <3> QED  BY <3>2, <3>3, <3>4
  <2>10. Len(seen') - 1 = n
    BY <1>2, <2>2
  <2> QED  BY <2>2, <2>5, <2>6, <2>8, <2>9, <2>10 DEF NodesFirstFit
<1> QED
  BY <1>3, <1>5, <1>6, <1>7, <1>8 DEF Next, Step

(* A primed iterator holds at least the node that primed it.               *)
LEMMA PrimedHolds ==
  ASSUME TypeOK, RotationsAssembled, primed
  PROVE  current # <<>>
<1>1. PICK i \in 1..Len(seen) : current = SubSeq(seen, i, Len(seen))
  BY DEF RotationsAssembled
<1>2. seen \in Seq(Point) /\ Len(seen) \in Nat
  BY LenProperties DEF TypeOK
<1>3. \A k \in i..Len(seen) : seen[k] \in Point
  BY <1>2, ElementOfSeq
<1>4. Len(current) = Len(seen) - i + 1
  BY <1>1, <1>2, <1>3, SubSeqProperties
<1> QED  BY <1>2, <1>4, EmptySeq

LEMMA RotationsAssembledStep ==
  ASSUME IInv, [Next]_vars
  PROVE  RotationsAssembled'
<1>1. TypeOK /\ RotationsAssembled /\ Bookkeeping
  BY DEF IInv
<1>2. seen \in Seq(Point) /\ Len(seen) \in Nat /\ primed \in BOOLEAN
  BY <1>1, LenProperties DEF TypeOK
<1>3. CASE UNCHANGED vars
  BY <1>1, <1>3 DEF RotationsAssembled, RotationFrom, vars, iter
<1>4. ASSUME UNCHANGED <<seen, current, primed>>, ret'.kind # "scan"
      PROVE  RotationsAssembled'
  BY <1>1, <1>4 DEF RotationsAssembled, RotationFrom
<1>5. CASE next \/ nextDone \/ SlideWindow \/ Desync \/ FailRead
  <2>1. UNCHANGED <<seen, current, primed>>
    BY <1>5 DEF next, nextDone, SlideWindow, Desync, FailRead, Return, iter
  <2>2. ret'.kind # "scan"
    <3>1. CASE next \/ nextDone
      BY <3>1, OutcomeTypes DEF next, nextDone
    <3>2. CASE SlideWindow
      BY <1>1, <3>2, OutcomeTypes DEF SlideWindow, ReadExact, Reading, Bookkeeping
    <3>3. CASE Desync \/ FailRead
      BY <3>3, OutcomeTypes DEF Desync, FailRead, Return
    <3> QED  BY <1>5, <3>1, <3>2, <3>3
  <2> QED  BY <1>4, <2>1, <2>2
<1>6. CASE scans
  <2>1. /\ seen' = <<>> /\ Len(seen') = 0 /\ current' = <<>> /\ primed' = FALSE
        /\ ret'.kind # "scan"
    BY <1>6, EmptySeq, OutcomeTypes DEF scans
  <2> QED  BY <2>1 DEF RotationsAssembled
<1>7. ASSUME Decode, pc' \in {"idle", "node"}
      PROVE  /\ NewPoint \in Point /\ NewPoint.node = Fetched
             /\ seen' = Append(seen, NewPoint)
             /\ Len(seen') = Len(seen) + 1 /\ seen'[Len(seen) + 1] = NewPoint
             /\ \A k \in 1..Len(seen) : seen'[k] = seen[k]
             /\ ret = Nothing
  <2>1. ret = Nothing
    BY <1>1, <1>7 DEF Decode, ReadExact, Reading, Bookkeeping
  <2> QED  BY <1>7, <2>1, DecodeStep DEF Decode
<1>8. ASSUME Decode, pc' \in {"idle", "node"}, StartFlag(Fetched),
             current' = <<NewPoint>>, primed'
      PROVE  \E i \in 1..Len(seen') :
               /\ StartFlag(seen'[i].node)
               /\ \A k \in i + 1 .. Len(seen') : ~StartFlag(seen'[k].node)
               /\ current' = SubSeq(seen', i, Len(seen'))
  <2>1. Len(seen) + 1 \in 1..Len(seen') /\ StartFlag(seen'[Len(seen) + 1].node)
    BY <1>2, <1>7, <1>8
  <2>2. current' = SubSeq(seen', Len(seen) + 1, Len(seen'))
    BY <1>2, <1>7, <1>8, SubSeqAppend
  <2>3. \A k \in (Len(seen) + 1) + 1 .. Len(seen') : FALSE
    BY <1>2, <1>7, <1>8
  <2> QED  BY <2>1, <2>2, <2>3
<1>9. CASE CloseRotation
  <2> USE <1>9 DEF CloseRotation
  <2>1. Decode /\ pc' \in {"idle", "node"}
    BY DecodingSteps
  <2>2. PICK i \in 1..Len(seen) :
          /\ StartFlag(seen[i].node)
          /\ \A k \in i + 1 .. Len(seen) : ~StartFlag(seen[k].node)
          /\ current = SubSeq(seen, i, Len(seen))
    BY <1>1 DEF RotationsAssembled, RotationFrom
  <2>3. ret' = Scan(SubSeq(seen', i, Len(seen)))
    BY <1>2, <1>7, <2>1, <2>2, SubSeqAppend
  <2>4. i \in 1 .. Len(seen') - 1 /\ Len(seen') - 1 = Len(seen)
    BY <1>2, <1>7, <2>1
  <2>5. /\ StartFlag(seen'[i].node)
        /\ \A k \in i + 1 .. Len(seen) : ~StartFlag(seen'[k].node)
    <3>1. \A k \in i + 1 .. Len(seen) : k \in 1..Len(seen)
      BY <1>2
    <3> QED  BY <1>7, <2>1, <2>2, <3>1
  <2>6. StartFlag(seen'[Len(seen')].node)
    BY <1>7, <2>1
  <2>7. /\ StartFlag(seen'[Len(seen')].node)
        /\ \E j \in 1 .. Len(seen') - 1 :
             /\ StartFlag(seen'[j].node)
             /\ \A k \in j + 1 .. Len(seen') - 1 : ~StartFlag(seen'[k].node)
             /\ ret'.points = SubSeq(seen', j, Len(seen') - 1)
    <3>1. ret'.points = SubSeq(seen', i, Len(seen') - 1)
      BY <2>3, <2>4, OutcomeTypes
    <3>2. \A k \in i + 1 .. Len(seen') - 1 : ~StartFlag(seen'[k].node)
      BY <2>4, <2>5
    <3> QED  BY <2>4, <2>5, <2>6, <3>1, <3>2
  <2>8. primed' = TRUE
    OBVIOUS
  <2> QED  BY <1>8, <2>1, <2>7, <2>8 DEF RotationsAssembled, RotationFrom
<1>10. CASE OpenRotation
  <2> USE <1>10 DEF OpenRotation
  <2>1. Decode /\ pc' \in {"idle", "node"}
    BY DecodingSteps
  <2>2. ret' = Nothing /\ primed' = TRUE
    BY <1>7, <2>1
  <2> QED  BY <1>8, <2>1, <2>2, OutcomeTypes DEF RotationsAssembled, RotationFrom
<1>11. CASE ExtendRotation
  <2> USE <1>11 DEF ExtendRotation
  <2>1. Decode /\ pc' \in {"idle", "node"}
    BY DecodingSteps
  <2>2. PICK i \in 1..Len(seen) :
          /\ StartFlag(seen[i].node)
          /\ \A k \in i + 1 .. Len(seen) : ~StartFlag(seen[k].node)
          /\ current = SubSeq(seen, i, Len(seen))
    BY <1>1 DEF RotationsAssembled, RotationFrom
  <2>3. current' = SubSeq(seen', i, Len(seen'))
    BY <1>2, <1>7, <2>1, <2>2, SubSeqAppend
  <2>4. i \in 1..Len(seen') /\ StartFlag(seen'[i].node)
    BY <1>2, <1>7, <2>1, <2>2
  <2>5. ASSUME NEW k \in i + 1 .. Len(seen')
        PROVE  ~StartFlag(seen'[k].node)
    <3>1. k \in i + 1 .. Len(seen) \/ k = Len(seen) + 1
      BY <1>2, <1>7, <2>1
    <3>2. k \in i + 1 .. Len(seen) => k \in 1..Len(seen)
      BY <1>2
    <3> QED  BY <1>7, <2>1, <2>2, <3>1, <3>2
  <2>6. ret' = Nothing /\ primed'
    BY <1>7, <2>1
  <2> QED
    BY <2>3, <2>4, <2>5, <2>6, OutcomeTypes DEF RotationsAssembled, RotationFrom
<1>12. CASE DropPartial
  <2> USE <1>12 DEF DropPartial
  <2>1. Decode /\ pc' \in {"idle", "node"}
    BY DecodingSteps
  <2>2. current' = <<>> /\ ~primed' /\ ret' = Nothing
    BY <1>1, <1>7, <2>1 DEF RotationsAssembled
  <2>3. ASSUME NEW k \in 1..Len(seen')
        PROVE  ~StartFlag(seen'[k].node)
    <3>1. k \in 1..Len(seen) \/ k = Len(seen) + 1
      BY <1>2, <1>7, <2>1
    <3> QED  BY <1>1, <1>7, <2>1, <3>1 DEF RotationsAssembled
  <2> QED  BY <2>2, <2>3, OutcomeTypes DEF RotationsAssembled
<1> QED
  BY <1>3, <1>5, <1>6, <1>9, <1>10, <1>11, <1>12 DEF Next, Step

LEMMA BookkeepingStep ==
  ASSUME IInv, [Next]_vars
  PROVE  Bookkeeping'
<1>1. TypeOK /\ Bookkeeping
  BY DEF IInv
<1>2. CASE UNCHANGED vars
  BY <1>1, <1>2 DEF Bookkeeping, MaxBudget, vars, iter, Base
<1>3. CASE next \/ nextDone
  <2>1. /\ pc = "idle" /\ UNCHANGED <<pos, discarded, done, seen>>
        /\ pc' # "resync"
        /\ pc' # "idle" => ~done' /\ ret' = Nothing
    BY <1>3 DEF next, nextDone, iter
  <2>2. Base' = Base
    BY <2>1 DEF Base
  <2> QED  BY <1>1, <2>1, <2>2 DEF Bookkeeping
<1>4. CASE scans
  BY <1>1, <1>4 DEF scans, Bookkeeping
<1>5. CASE Desync \/ FailRead
  <2>1. pc' = "idle" /\ done' = TRUE /\ discarded' = 0
    BY <1>5 DEF Desync, FailRead, Return
  <2> QED  BY <2>1 DEF Bookkeeping
<1>6. CASE SlideWindow
  <2> USE <1>6 DEF SlideWindow
  <2>1. Reading /\ ReadExact /\ UNCHANGED <<done, seen, ret>> /\ pc' = "resync"
    BY DEF ReadExact, iter
  <2>2. ~done /\ ret = Nothing
    BY <1>1, <2>1 DEF Reading, Bookkeeping
  <2>3. seen # <<>> => Base' = seen[Len(seen)].at + SCAN_NODE_LEN
    BY <1>1, <2>2, SlideStep DEF Bookkeeping
  <2>4. waited' <= discarded' * MaxBudget'
    <3>1. waited' <= (discarded + 1) * MaxBudget
      BY <1>1, <2>1, ReadSpends DEF ReadExact
    <3> QED  BY <3>1, SlideStep DEF MaxBudget
  <2> QED  BY <2>1, <2>2, <2>3, <2>4 DEF Bookkeeping
<1>7. CASE CloseRotation \/ OpenRotation \/ ExtendRotation \/ DropPartial
  <2>1. Decode /\ pc' \in {"idle", "node"}
    BY <1>7, DecodingSteps
  <2>2. ~done' /\ ret = Nothing
    BY <1>1, <2>1 DEF Decode, ReadExact, Reading, Bookkeeping
  <2>3. pc' # "idle" => ret' = Nothing
    BY <1>7, <2>2 DEF CloseRotation, OpenRotation, ExtendRotation, DropPartial
  <2>4. Base' = seen'[Len(seen')].at + SCAN_NODE_LEN
    BY <2>1, DecodeStep
  <2>5. discarded' = 0
    BY <2>1 DEF Decode
  <2> QED  BY <2>1, <2>2, <2>3, <2>4, <2>5 DEF Bookkeeping
<1> QED
  BY <1>2, <1>3, <1>4, <1>5, <1>6, <1>7 DEF Next, Step

LEMMA BlockingBoundStep ==
  ASSUME IInv, [Next]_vars
  PROVE  BlockingBound'
<1>1. TypeOK /\ Bookkeeping /\ BlockingBound
  BY DEF IInv
<1>2. CASE UNCHANGED waited
  BY <1>1, <1>2 DEF BlockingBound
<1>3. ASSUME Reading, waited' <= (MAX_DESYNC_DISCARD + 1) * MaxBudget
      PROVE  BlockingBound'
  BY <1>3 DEF BlockingBound, MaxBudget
<1>4. ASSUME ReadExact
      PROVE  BlockingBound'
  BY <1>1, <1>3, <1>4, ReadSpends DEF ReadExact
<1>5. CASE FailRead
  <2>1. Reading /\ \E fault, lost :
          SerialFails(fault, lost) \/ ReplayFails(fault, lost) \/ MockFails(fault, lost)
    BY <1>5 DEF FailRead
  <2> QED  BY <1>1, <1>3, <2>1, ReadSpends
<1>6. CASE Step
  BY <1>4, <1>5, <1>6
     DEF Step, CloseRotation, OpenRotation, ExtendRotation, DropPartial, Decode,
         SlideWindow, Desync
<1>7. CASE ~Step
  BY <1>2, <1>7 DEF Next, next, nextDone, scans, vars
<1> QED  BY <1>6, <1>7

-----------------------------------------------------------------------------
(* The theorems.                                                           *)

(* The invariant is inductive.                                             *)
LEMMA IInvStep == IInv /\ [Next]_vars => IInv'
<1> SUFFICES ASSUME IInv, [Next]_vars PROVE IInv'
  OBVIOUS
<1> QED
  BY TypeOKStep, NoNodeSkippedStep, NodesFirstFitStep, RotationsAssembledStep,
     BookkeepingStep, BlockingBoundStep DEF IInv

(* Every reachable state satisfies the inductive invariant.                *)
THEOREM Invariance == Spec => []IInv
<1>1. IInv /\ [Next]_vars => IInv'
  BY IInvStep
<1>2. Init => IInv
  BY InitIInv, ScanStreamAssumption DEF Init
<1> QED  BY <1>1, <1>2, PTL DEF Spec

(* The variables of the reader keep their types.                           *)
THEOREM TypeCorrect == Spec => []TypeOK
<1>1. IInv => TypeOK  BY DEF IInv
<1> QED  BY <1>1, Invariance, PTL

(* Resynchronization (device.rs:311-331) never slides past a node, for any *)
(* node length, desync budget and stream.                                  *)
THEOREM ResyncSkipsNoNode == Spec => []NoNodeSkipped
<1>1. IInv => NoNodeSkipped  BY DEF IInv
<1> QED  BY <1>1, Invariance, PTL

(* What an iterator decodes is a first-fit reading of the stream.          *)
THEOREM FirstFit == Spec => []NodesFirstFit
<1>1. IInv => NodesFirstFit  BY DEF IInv
<1> QED  BY <1>1, Invariance, PTL

(* Scans (device.rs:380-394) are the nodes from one start flag to the next.*)
THEOREM ScansAreRotations == Spec => []RotationsAssembled
<1>1. IInv => RotationsAssembled  BY DEF IInv
<1> QED  BY <1>1, Invariance, PTL

(* A call of next_node blocks for at most one read budget for each byte it *)
(* may discard and one for its first window.                               *)
THEOREM BoundedBlocking == Spec => []BlockingBound
<1>1. IInv => BlockingBound  BY DEF IInv
<1> QED  BY <1>1, Invariance, PTL

-----------------------------------------------------------------------------
(* ScanStream implements Rotations.                                        *)

(* At most one node of a sequence is the last to start a rotation.         *)
LEMMA LastStartUnprimed ==
  ASSUME TypeOK, RotationsAssembled
  PROVE  /\ ~primed => \A i \in 1..Len(seen) : ~Promised!LastStart(seen, i)
         /\ primed => \E i \in 1..Len(seen) :
                        /\ Promised!LastStart(seen, i)
                        /\ current = SubSeq(seen, i, Len(seen))
<1>1. ASSUME ~primed, NEW i \in 1..Len(seen)
      PROVE  ~Promised!LastStart(seen, i)
  BY <1>1 DEF RotationsAssembled, Promised!LastStart, Promised!StartFlag, StartFlag
<1>2. ASSUME primed
      PROVE  \E i \in 1..Len(seen) : Promised!LastStart(seen, i) /\ current = SubSeq(seen, i, Len(seen))
  BY <1>2 DEF RotationsAssembled, RotationFrom, Promised!LastStart, Promised!StartFlag, StartFlag
<1> QED  BY <1>1, <1>2

(* The definitions Rotations shares with ScanStream mean the same there.   *)
LEMMA SameDefinitions ==
  /\ \A s, at : Promised!WindowAt(s, at) = WindowAt(s, at)
  /\ \A w : Promised!IsNode(w) = IsNode(w)
  /\ \A w : Promised!StartFlag(w) = StartFlag(w)
  /\ Promised!Nothing = Nothing /\ Promised!End = End
  /\ \A e : Promised!Error(e) = Error(e)
  /\ \A pts : Promised!Scan(pts) = Scan(pts)
  /\ Promised!ReadErrors = ReadErrors
BY DEF Promised!WindowAt, WindowAt, Promised!IsNode, IsNode, Promised!could_start_node,
       could_start_node, Promised!StartFlag, StartFlag, Promised!Nothing, Nothing,
       Promised!End, End, Promised!Error, Error, Promised!Scan, Scan,
       Promised!ReadErrors, ReadErrors

(* The calls map to the calls.                                             *)
LEMMA CallsRefine ==
  ASSUME IInv
  PROVE  /\ next => Promised!Call
         /\ nextDone => Promised!CallOver
         /\ scans => Promised!Restart
<1>1. ASSUME next  PROVE Promised!Call
  BY <1>1, SameDefinitions DEF next, iter, Base, Promised!Call
<1>2. ASSUME nextDone  PROVE Promised!CallOver
  BY <1>2, SameDefinitions DEF nextDone, iter, Base, Promised!CallOver
<1>3. ASSUME scans  PROVE Promised!Restart
  BY <1>3, SameDefinitions DEF scans, Base, Promised!Restart
<1> QED  BY <1>1, <1>2, <1>3

(* Decoding a node takes the first one in reach.                           *)
LEMMA DecodeRefines ==
  ASSUME IInv, CloseRotation \/ OpenRotation \/ ExtendRotation \/ DropPartial
  PROVE  Promised!Take
<1> DEFINE o == pos + Need - SCAN_NODE_LEN
<1>1. TypeOK /\ NoNodeSkipped /\ RotationsAssembled /\ Bookkeeping
  BY DEF IInv
<1>2. Decode /\ pc' \in {"idle", "node"} /\ Reading /\ ~Short
  BY DecodingSteps DEF Decode, ReadExact
<1>3. /\ o \in Nat /\ o = Base + discarded /\ Base \in Nat
      /\ Fetched = WindowAt(stream, o) /\ IsNode(Fetched)
      /\ pos' = o + SCAN_NODE_LEN /\ Base' = pos' /\ pos' \in 0..Len(stream)
  BY <1>2, DecodeStep
<1>4. /\ discarded \in 0..MAX_DESYNC_DISCARD /\ pos \in Nat /\ Need \in Nat
      /\ Len(stream) \in Nat
  BY <1>1, NodeLenAssumption, LenProperties DEF TypeOK, Need
<1>5. \A p \in Base .. o - 1 : ~IsNode(WindowAt(stream, p))
  BY <1>1, <1>2, <1>3, <1>4, FetchedWindow, NodeLenAssumption
<1>6. seen' = Append(seen, [at |-> o, node |-> WindowAt(stream, o)])
  BY <1>2, <1>3 DEF Decode, NewPoint
<1>7. UNCHANGED <<stream, done>> /\ pc # "idle"
  BY <1>2 DEF Decode, Reading
<1> HIDE DEF o
<1>8. o \in Base .. Base + MAX_DESYNC_DISCARD
  BY <1>3, <1>4, ScanStreamAssumption
<1>9. o + SCAN_NODE_LEN <= Len(stream)
  BY <1>3, <1>4
<1>10. IF StartFlag(Fetched) /\ \E i \in 1..Len(seen) : Promised!LastStart(seen, i)
       THEN /\ \E i \in 1..Len(seen) :
                 /\ Promised!LastStart(seen, i)
                 /\ ret' = Scan(SubSeq(seen, i, Len(seen)))
            /\ pc' = "idle"
       ELSE ret' = ret /\ pc' = "node"
  <2>1. CASE CloseRotation
    BY <1>1, <2>1, LastStartUnprimed DEF CloseRotation
  <2>2. CASE OpenRotation
    BY <1>1, <2>2, LastStartUnprimed, PrimedHolds DEF OpenRotation, TypeOK
  <2>3. CASE ExtendRotation
    BY <2>3 DEF ExtendRotation
  <2>4. CASE DropPartial
    BY <2>4 DEF DropPartial
  <2> QED  BY <2>1, <2>2, <2>3, <2>4
<1>11. IF StartFlag(WindowAt(stream, o)) /\ \E i \in 1..Len(seen) : Promised!LastStart(seen, i)
       THEN /\ \E i \in 1..Len(seen) :
                 /\ Promised!LastStart(seen, i)
                 /\ ret' = Scan(SubSeq(seen, i, Len(seen)))
            /\ (pc' # "idle") = FALSE
       ELSE ret' = ret /\ (pc' # "idle") = (pc # "idle")
  BY <1>3, <1>7, <1>10
<1>12. Base' = o + SCAN_NODE_LEN /\ IsNode(WindowAt(stream, o))
  BY <1>3
<1> QED
  BY <1>5, <1>6, <1>7, <1>8, <1>9, <1>11, <1>12, SameDefinitions
     DEF Promised!Take, Promised!Received

(* A search that ends without a node has looked everywhere in reach.       *)
LEMMA DesyncRefines ==
  ASSUME IInv, Desync
  PROVE  Promised!GiveUp
<1> DEFINE o == pos + Need - SCAN_NODE_LEN
<1>1. TypeOK /\ NoNodeSkipped /\ Bookkeeping /\ Reading /\ ~Short
  BY DEF IInv, Desync, ReadExact
<1>2. /\ discarded \in 0..MAX_DESYNC_DISCARD /\ pos \in Nat /\ Need \in Nat
      /\ Len(stream) \in Nat /\ MAX_DESYNC_DISCARD \in Nat
  BY <1>1, NodeLenAssumption, ScanStreamAssumption, LenProperties DEF TypeOK, Need
<1>3. /\ o \in Nat /\ Base \in Nat /\ o = Base + discarded /\ pos + Need <= Len(stream)
      /\ Fetched = WindowAt(stream, o)
      /\ \A p \in Base .. o - 1 : ~IsNode(WindowAt(stream, p))
  BY <1>1, <1>2, FetchedWindow, NodeLenAssumption
<1>4. discarded = MAX_DESYNC_DISCARD /\ o = Base + MAX_DESYNC_DISCARD
  BY <1>2, <1>3 DEF Desync
<1>5. pos' = o + SCAN_NODE_LEN /\ o + SCAN_NODE_LEN <= Len(stream)
  BY <1>2, <1>3, NodeLenAssumption DEF Desync, ReadExact
<1> HIDE DEF o
<1>6. ASSUME NEW p \in Base .. Base + MAX_DESYNC_DISCARD
      PROVE  ~IsNode(WindowAt(stream, p))
  <2>1. p \in Base .. o - 1 \/ p = o
    BY <1>2, <1>3, <1>4
  <2>2. ~IsNode(Fetched)
    BY DEF Desync
  <2> QED  BY <1>3, <2>1, <2>2
<1>7. Base' = Base + MAX_DESYNC_DISCARD + SCAN_NODE_LEN
  <2>1. Base' = pos'
    BY DEF Base, Desync, Return
  <2> QED  BY <2>1, <1>4, <1>5
<1>8. Base + MAX_DESYNC_DISCARD + SCAN_NODE_LEN <= Len(stream)
  BY <1>4, <1>5
<1>9. /\ (pc # "idle") /\ (pc' # "idle") = FALSE
      /\ done' = TRUE /\ ret' = Error("Desync") /\ UNCHANGED <<stream, seen>>
  BY <1>1 DEF Desync, Return, Reading
<1> QED
  BY <1>6, <1>7, <1>8, <1>9, SameDefinitions DEF Promised!GiveUp, Promised!Received

(* A failed read loses no node that was there completely.                  *)
LEMMA FailRefines ==
  ASSUME IInv, FailRead
  PROVE  Promised!Fail
<1>1. TypeOK /\ NoNodeSkipped /\ Bookkeeping /\ Reading
  BY DEF IInv, FailRead
<1>2. /\ pos \in Nat /\ Len(stream) \in Nat /\ discarded \in Nat
  BY <1>1, ScanStreamAssumption, LenProperties DEF TypeOK
<1>3. PICK fault \in {"Timeout", "Eof", "Io", "Serial"}, lost \in 0..Len(stream) :
        /\ SerialFails(fault, lost) \/ ReplayFails(fault, lost) \/ MockFails(fault, lost)
        /\ pos' = pos + lost
        /\ Return(IF fault = "Eof" THEN End ELSE Error(lift(fault)))
  BY DEF FailRead
<1>4. lost < Need /\ pos + lost <= Len(stream)
  BY <1>1, <1>3, FailedReadLoses
<1>5. /\ (pc # "idle") /\ (pc' # "idle") = FALSE
      /\ done' = TRUE /\ UNCHANGED <<stream, seen>>
      /\ ret' \in {End} \cup {Error(e) : e \in ReadErrors}
  BY <1>1, <1>3 DEF Return, Reading, lift, ReadErrors
<1>6. Base' = pos + lost
  BY <1>3 DEF Base, Return
<1>7. Base \in Nat /\ Base <= pos
  BY <1>1, <1>2, NodeLenAssumption DEF Base, NoNodeSkipped
<1>8. pos + lost \in Base .. Len(stream)
  BY <1>2, <1>4, <1>7
<1>9. ASSUME NEW p \in Base .. pos + lost - SCAN_NODE_LEN
      PROVE  ~IsNode(WindowAt(stream, p))
  <2>1. CASE pc = "node"
    <3>1. Need = SCAN_NODE_LEN /\ Base = pos
      BY <2>1 DEF Need, Base
    <3> QED  BY <1>2, <1>4, <3>1, NodeLenAssumption
  <2>2. CASE pc = "resync"
    <3>1. lost = 0
      BY <1>4, <2>2 DEF Need
    <3>2. p \in Base .. pos - SCAN_NODE_LEN
      BY <1>2, <3>1, NodeLenAssumption
    <3> QED  BY <1>1, <2>2, <3>2 DEF NoNodeSkipped
  <2> QED  BY <1>1, <2>1, <2>2 DEF Reading
<1>10. ret' \in {Promised!End} \cup {Promised!Error(e) : e \in Promised!ReadErrors}
  BY <1>5, SameDefinitions
<1>11. \E new \in Base .. Len(stream) :
         /\ \A p \in Base .. new - SCAN_NODE_LEN : ~Promised!IsNode(Promised!WindowAt(stream, p))
         /\ Base' = new
  <2> DEFINE new == pos + lost
  <2>1. new \in Base .. Len(stream) /\ Base' = new
    BY <1>6, <1>8
  <2>2. ASSUME NEW p \in Base .. new - SCAN_NODE_LEN
        PROVE  ~Promised!IsNode(Promised!WindowAt(stream, p))
    <3>1. ~IsNode(WindowAt(stream, p))
      BY <1>2, <1>7, <1>9, NodeLenAssumption
    <3> QED  BY <3>1, SameDefinitions
  <2> HIDE DEF new
  <2> QED  BY <2>1, <2>2
<1> QED
  BY <1>5, <1>10, <1>11 DEF Promised!Fail

(* The iterator of device.rs yields the rotations of a first-fit reading   *)
(* of its byte stream, gives up only when no node is in reach, loses no    *)
(* complete node to a failing source and stays over once it has ended.     *)
THEOREM Refinement == Spec => ImplementsRotations
<1>1. Init => Promised!Init
  BY SameDefinitions DEF Init, ReaderInit, Base, Promised!Init
<1>2. IInv /\ [Next]_vars => [Promised!Next]_Promised!vars
  <2> SUFFICES ASSUME IInv, [Next]_vars
               PROVE  Promised!Next \/ UNCHANGED Promised!vars
    OBVIOUS
  <2>1. CASE UNCHANGED vars
    BY <2>1 DEF vars, iter, Base, Promised!vars
  <2>2. CASE next \/ nextDone \/ scans
    BY <2>2, CallsRefine DEF Promised!Next
  <2>3. CASE CloseRotation \/ OpenRotation \/ ExtendRotation \/ DropPartial
    BY <2>3, DecodeRefines DEF Promised!Next
  <2>4. CASE SlideWindow
    <3>1. pc # "idle" /\ pc' # "idle" /\ UNCHANGED <<stream, seen, done, ret>>
      BY <2>4 DEF SlideWindow, ReadExact, Reading, iter
    <3>2. Base' = Base
      BY <2>4, SlideStep
    <3> QED  BY <3>1, <3>2 DEF Promised!vars
  <2>5. CASE Desync
    BY <2>5, DesyncRefines DEF Promised!Next
  <2>6. CASE FailRead
    BY <2>6, FailRefines DEF Promised!Next
  <2> QED  BY <2>1, <2>2, <2>3, <2>4, <2>5, <2>6 DEF Next, Step
<1> QED  BY <1>1, <1>2, Invariance, PTL DEF Spec, ImplementsRotations, Promised!Spec

=============================================================================
