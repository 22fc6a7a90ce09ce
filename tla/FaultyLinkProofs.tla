-------------------------- MODULE FaultyLinkProofs --------------------------
(***************************************************************************)
(* The reader on a faulty line, for every line and every fault: as long as *)
(* nothing on the line looks like a node, a fault costs what it destroys.  *)
(***************************************************************************)
EXTENDS FaultyLink, ScanStreamProofs

(* What the line carried does not change, and its nodes are apart.         *)
NodesApart ==
  \A p, q \in DOMAIN sent : p \in Nat /\ (p < q => p + SCAN_NODE_LEN <= q)

(* Nor do the rotations of the device, each of which a start node begins.  *)
RotationsInOrder ==
  \A p, q \in DOMAIN sent :
    /\ sent[p] \in Nat
    /\ p < q => /\ sent[p] <= sent[q]
                /\ StartFlag(WindowAt(stream, q)) => sent[p] < sent[q]

LineOK == NodesApart /\ RotationsInOrder

(* No step changes what the line carries.                                  *)
LEMMA StreamKept == [Next]_vars => stream' = stream
BY DEF Next, Step, next, nextDone, scans, CloseRotation, OpenRotation, ExtendRotation,
       DropPartial, Decode, SlideWindow, Desync, FailRead, Return, vars

(* The reader on the line is the reader of ScanStream.                     *)
LEMMA LinkInvariance == LinkSpec => [](IInv /\ LineOK)
<1>1. LinkInit => IInv /\ LineOK
  BY InitIInv, LinksAssumption DEF LinkInit, LineOK, NodesApart, RotationsInOrder
<1>2. IInv /\ LineOK /\ [LinkNext]_<<vars, sent>> => (IInv /\ LineOK)'
  <2> SUFFICES ASSUME IInv, LineOK, [LinkNext]_<<vars, sent>>
               PROVE  IInv' /\ LineOK'
    OBVIOUS
  <2>1. [Next]_vars /\ sent' = sent
    BY DEF LinkNext
  <2>2. IInv' /\ stream' = stream
    BY <2>1, IInvStep, StreamKept
  <2>3. LineOK'
    BY <2>1, <2>2 DEF LineOK, NodesApart, RotationsInOrder, WindowAt
  <2> QED  BY <2>2, <2>3
<1> QED  BY <1>1, <1>2, PTL DEF LinkSpec

(* Every decoded node lies inside the stream.                              *)
LEMMA SeenInStream ==
  ASSUME IInv, NEW i \in 1..Len(seen)
  PROVE  /\ seen[i].at \in Nat
         /\ seen[i].at \in 0 .. Len(stream) - SCAN_NODE_LEN
         /\ IsNode(WindowAt(stream, seen[i].at))
<1>1. TypeOK /\ NoNodeSkipped /\ NodesFirstFit
  BY DEF IInv
<1>2. seen[i] \in Point /\ seen[i].at \in Nat
  <2>1. seen[i] \in Point
    BY <1>1, ElementOfSeq DEF TypeOK
  <2> QED  BY <2>1 DEF Point
<1>3. /\ seen[i].at + SCAN_NODE_LEN <= Base
      /\ IsNode(WindowAt(stream, seen[i].at))
  BY <1>1 DEF NodesFirstFit
<1>4. Base \in Int /\ Base <= Len(stream) /\ Len(stream) \in Nat
  <2>1. /\ pos \in Nat /\ Len(stream) \in Nat /\ pos <= Len(stream) /\ discarded \in Nat
    BY <1>1, ScanStreamAssumption, LenProperties DEF TypeOK
  <2>2. pc = "resync" => discarded >= 1
    BY <1>1 DEF NoNodeSkipped
  <2> QED  BY <2>1, <2>2, NodeLenAssumption DEF Base
<1> QED  BY <1>2, <1>3, <1>4, NodeLenAssumption

(* Without lookalikes every decoded node is an undamaged node.             *)
LEMMA DecodedGenuine ==
  ASSUME IInv, NoLookalikes
  PROVE  \A i \in 1..Len(seen) : seen[i].at \in DOMAIN sent
BY SeenInStream DEF NoLookalikes

(* Without lookalikes no undamaged node is missing between two decoded.    *)
LEMMA GenuineDecoded ==
  ASSUME IInv, NodesApart, NoLookalikes, seen # <<>>,
         NEW o \in DOMAIN sent, seen[1].at <= o, o <= seen[Len(seen)].at
  PROVE  \E i \in 1..Len(seen) : seen[i].at = o
<1>1. TypeOK /\ NodesFirstFit
  BY DEF IInv
<1>2. o \in Nat
  BY DEF NodesApart
<1>3. 1 \in 1..Len(seen) /\ Len(seen) \in 1..Len(seen) /\ Len(stream) \in Nat
  BY <1>1, EmptySeq, LenProperties DEF TypeOK
<1>4. /\ seen[1].at \in Nat /\ seen[Len(seen)].at \in Nat
      /\ seen[Len(seen)].at <= Len(stream) - SCAN_NODE_LEN
  BY <1>3, SeenInStream, NodeLenAssumption
<1>5. o \in seen[1].at .. seen[Len(seen)].at /\ o \in 0 .. Len(stream) - SCAN_NODE_LEN
  BY <1>2, <1>3, <1>4, NodeLenAssumption
<1>6. IsNode(WindowAt(stream, o))
  BY <1>5 DEF NoLookalikes
<1>7. PICK i \in 1..Len(seen) : o \in seen[i].at .. seen[i].at + SCAN_NODE_LEN - 1
  BY <1>1, <1>5, <1>6 DEF NodesFirstFit
<1>8. seen[i].at \in DOMAIN sent /\ seen[i].at \in Nat
  BY DecodedGenuine, SeenInStream
<1>9. seen[i].at = o
  <2>1. CASE seen[i].at < o
    <3>1. seen[i].at + SCAN_NODE_LEN <= o
      BY <1>8, <2>1 DEF NodesApart
    <3> QED  BY <1>2, <1>7, <1>8, <3>1, NodeLenAssumption
  <2> QED  BY <1>2, <1>7, <1>8, <2>1
<1> QED  BY <1>9

(* Decoded nodes are the device's own, after any fault, lost read and      *)
(* restart of the iterator, where nothing else looks like a node.          *)
THEOREM GenuineNodes == LinkSpec => []OnlyGenuineNodes
<1>1. IInv => OnlyGenuineNodes
  <2> SUFFICES ASSUME IInv, NoLookalikes PROVE Offsets(seen) \subseteq DOMAIN sent
    BY DEF OnlyGenuineNodes
  <2>1. DOMAIN seen = 1..Len(seen)
    BY LenProperties DEF IInv, TypeOK
  <2> QED  BY <2>1, DecodedGenuine DEF Offsets
<1> QED  BY <1>1, LinkInvariance, PTL

(* What FaultCost says of one state.                                       *)
LEMMA ScanGenuine ==
  ASSUME IInv, NodesApart
  PROVE  FaultsCostOnlyThemselvesUnlessDeceived
<1> SUFFICES ASSUME IInv, NodesApart, NoLookalikes, ret.kind = "scan"
             PROVE  Offsets(ret.points)
                      = { o \in DOMAIN sent : ret.points[1].at <= o /\ o < seen[Len(seen)].at }
  BY DEF FaultsCostOnlyThemselvesUnlessDeceived, FaultsCostOnlyThemselves
<1> DEFINE n == Len(seen)
<1>1. TypeOK /\ NodesFirstFit /\ RotationsAssembled
  BY DEF IInv
<1>2. n \in Nat /\ seen \in Seq(Point)
  BY <1>1, LenProperties DEF TypeOK
<1>3. PICK i \in 1 .. n - 1 : ret.points = SubSeq(seen, i, n - 1)
  BY <1>1 DEF RotationsAssembled
<1>4. \A k \in i .. n - 1 : seen[k] \in Point
  BY <1>2, ElementOfSeq
<1>5. /\ ret.points \in Seq(Point) /\ Len(ret.points) = n - i
      /\ \A k \in 1 .. n - i : ret.points[k] = seen[i + k - 1]
  BY <1>2, <1>3, <1>4, SubSeqProperties
<1>6. DOMAIN ret.points = 1 .. n - i
  BY <1>5, LenProperties
<1>7. ret.points[1].at = seen[i].at
  BY <1>2, <1>5
<1>8. \A j, k \in 1..n : j < k => seen[j].at + SCAN_NODE_LEN <= seen[k].at
  BY <1>1 DEF NodesFirstFit
<1>9. \A j \in 1..n : seen[j].at \in Nat /\ seen[j].at \in DOMAIN sent
  BY SeenInStream, DecodedGenuine
<1>10. ASSUME NEW j \in i .. n - 1
       PROVE  seen[i].at <= seen[j].at /\ seen[j].at < seen[n].at
  <2>1. i \in 1..n /\ j \in 1..n /\ n \in 1..n /\ j < n /\ (i < j \/ i = j)
    BY <1>2
  <2>2. seen[i].at \in Nat /\ seen[j].at \in Nat /\ seen[n].at \in Nat
    BY <1>9, <2>1
  <2>3. seen[j].at + SCAN_NODE_LEN <= seen[n].at
    BY <1>8, <2>1
  <2>4. i < j => seen[i].at + SCAN_NODE_LEN <= seen[j].at
    BY <1>8, <2>1
  <2> HIDE DEF n
  <2> QED  BY <2>1, <2>2, <2>3, <2>4, NodeLenAssumption
<1>11. ASSUME NEW k \in 1 .. n - i
       PROVE  /\ ret.points[k].at \in DOMAIN sent
              /\ seen[i].at <= ret.points[k].at /\ ret.points[k].at < seen[n].at
  <2>1. i + k - 1 \in i .. n - 1 /\ i + k - 1 \in 1..n
    BY <1>2
  <2> QED  BY <1>5, <1>9, <1>10, <2>1
<1>12. ASSUME NEW o \in DOMAIN sent, seen[i].at <= o, o < seen[n].at
       PROVE  \E k \in 1 .. n - i : ret.points[k].at = o
  <2>1. o \in Nat
    BY DEF NodesApart
  <2>2. seen # <<>> /\ 1 \in 1..n /\ n \in 1..n /\ i \in 1..n
    BY <1>2, EmptySeq
  <2>3. seen[1].at <= seen[i].at
    BY <1>8, <1>9, <2>2, NodeLenAssumption
  <2>4. seen[1].at <= o /\ o <= seen[n].at
    BY <1>9, <1>12, <2>1, <2>2, <2>3
  <2>5. PICK j \in 1..n : seen[j].at = o
    BY <2>2, <2>4, GenuineDecoded
  <2>6. j >= i
    <3>1. CASE j < i
      BY <1>8, <1>9, <1>12, <2>1, <2>2, <2>5, <3>1, NodeLenAssumption
    <3> QED  BY <3>1
  <2>7. j < n
    <3>1. CASE j = n
      BY <1>12, <2>1, <2>5, <3>1
    <3> QED  BY <1>2, <3>1
  <2>8. j - i + 1 \in 1 .. n - i /\ i + (j - i + 1) - 1 = j
    BY <1>2, <2>6, <2>7
  <2>9. ret.points[j - i + 1] = seen[j]
    BY <1>5, <2>8
  <2> QED  BY <2>5, <2>8, <2>9
<1> HIDE DEF n
<1>13. Offsets(ret.points) = { o \in DOMAIN sent : seen[i].at <= o /\ o < seen[n].at }
  BY <1>6, <1>11, <1>12 DEF Offsets
<1> QED  BY <1>7, <1>13 DEF n

(* Stray bytes cost no node and a damaged node only itself: every scan is  *)
(* all the undamaged nodes between two undamaged start flags, where nothing*)
(* else on the line looks like a node.                                     *)
THEOREM FaultCost == LinkSpec => []FaultsCostOnlyThemselvesUnlessDeceived
BY ScanGenuine, LinkInvariance, PTL DEF LineOK

(* Of the nodes of a scan only the first has the start flag.               *)
LEMMA OneStart ==
  ASSUME IInv, ret.kind = "scan", NEW k \in DOMAIN ret.points, k # 1
  PROVE  ~StartFlag(WindowAt(stream, ret.points[k].at))
<1>1. TypeOK /\ NodesFirstFit /\ RotationsAssembled
  BY DEF IInv
<1>2. Len(seen) \in Nat /\ seen \in Seq(Point)
  BY <1>1, LenProperties DEF TypeOK
<1>3. PICK i \in 1 .. Len(seen) - 1 : /\ RotationFrom(i, Len(seen) - 1)
                                     /\ ret.points = SubSeq(seen, i, Len(seen) - 1)
  BY <1>1 DEF RotationsAssembled
<1>4. k \in 1 .. Len(seen) - i /\ ret.points[k] = seen[i + k - 1]
  BY <1>2, <1>3
<1>5. i + k - 1 \in i + 1 .. Len(seen) - 1 /\ i + k - 1 \in 1..Len(seen)
  BY <1>2, <1>4
<1>6. ~StartFlag(seen[i + k - 1].node)
  BY <1>3, <1>5 DEF RotationFrom
<1>7. seen[i + k - 1].node = WindowAt(stream, seen[i + k - 1].at)
  BY <1>1, <1>5 DEF NodesFirstFit
<1> QED  BY <1>4, <1>6, <1>7

(* A scan holds two rotations of the device only if the start node of the  *)
(* later one was destroyed, where nothing else looks like a node.          *)
THEOREM MergedOnlyByDamage == LinkSpec => []RotationsKeptApart
<1>1. IInv /\ LineOK => RotationsKeptApart
  <2> SUFFICES ASSUME IInv, NodesApart, RotationsInOrder, NoLookalikes, ret.kind = "scan",
                      NEW p \in Offsets(ret.points), NEW q \in Offsets(ret.points),
                      sent[p] < sent[q],
                      NEW o \in DOMAIN sent, sent[o] = sent[q],
                      StartFlag(WindowAt(stream, o))
               PROVE  FALSE
    BY DEF RotationsKeptApart, LineOK
  <2> DEFINE first == ret.points[1].at
             last  == seen[Len(seen)].at
  <2>1. Offsets(ret.points) = { x \in DOMAIN sent : first <= x /\ x < last }
    BY ScanGenuine DEF FaultsCostOnlyThemselvesUnlessDeceived, FaultsCostOnlyThemselves
  <2>2. p \in DOMAIN sent /\ q \in DOMAIN sent
    BY <2>1
  <2>3. p \in Nat /\ q \in Nat /\ o \in Nat
    BY <2>2 DEF NodesApart
  <2>4. sent[p] \in Nat /\ sent[q] \in Nat
    BY <2>2 DEF RotationsInOrder
  <2>5. p < o
    <3>1. o < p => sent[o] <= sent[p]
      BY <2>2 DEF RotationsInOrder
    <3> QED  BY <2>3, <2>4, <3>1
  <2>6. o <= q
    <3>1. q < o => sent[q] < sent[o]
      BY <2>2 DEF RotationsInOrder
    <3> QED  BY <2>3, <2>4, <3>1
  <2>7. first \in Int /\ last \in Int
    <3>1. Len(seen) \in Nat /\ seen \in Seq(Point) /\ RotationsAssembled
      BY LenProperties DEF IInv, TypeOK
    <3>2. PICK i \in 1 .. Len(seen) - 1 : ret.points = SubSeq(seen, i, Len(seen) - 1)
      BY <3>1 DEF RotationsAssembled
    <3>3. ret.points[1] = seen[i]
      BY <3>1, <3>2
    <3>4. i \in 1..Len(seen) /\ Len(seen) \in 1..Len(seen)
      BY <3>1, <3>2
    <3> QED  BY <3>3, <3>4, SeenInStream
  <2>8. o \in Offsets(ret.points) /\ o # first
    BY <2>1, <2>3, <2>5, <2>6, <2>7
  <2>9. PICK k \in DOMAIN ret.points : ret.points[k].at = o
    BY <2>8 DEF Offsets
  <2> QED  BY <2>8, <2>9, OneStart
<1> QED  BY <1>1, LinkInvariance, PTL

=============================================================================
