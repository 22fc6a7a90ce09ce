----------------------------- MODULE FaultyLink -----------------------------
(***************************************************************************)
(* The reader of ScanStream at the end of a line that adds and destroys    *)
(* bytes.  The device sends whole nodes; the line inserts stray bytes      *)
(* between nodes and overwrites bytes inside them, as                      *)
(* tests/protocol_tests.rs does.  `sent` remembers what the reader cannot  *)
(* know: where the undamaged nodes are and which rotation of the device    *)
(* each belongs to.                                                        *)
(***************************************************************************)
EXTENDS ScanStream, SequencesExt

CONSTANT Links      \* what the line may carry: sequences of Chunk

(* A node as sent, a node damaged on the way, or stray bytes.  `start` is  *)
(* the flag the device sent, whether or not it survived.                   *)
Chunk == [kind : {"node", "damaged", "stray"}, bytes : Seq(Byte), start : BOOLEAN]

VARIABLE sent       \* offset of an undamaged node |-> its rotation

Bytes(chunks) == FlattenSeq([i \in DOMAIN chunks |-> chunks[i].bytes])

OffsetOf(link, i) == Len(Bytes(SubSeq(link, 1, i - 1)))

RotationOf(link, i) == Len(SelectSeq(SubSeq(link, 1, i), LAMBDA c : c.start))

SentOver(link) ==
  LET intact == { i \in DOMAIN link : link[i].kind = "node" } IN
  [ o \in { OffsetOf(link, i) : i \in intact } |->
      RotationOf(link, CHOOSE i \in intact : OffsetOf(link, i) = o) ]

(* The line carries bytes, the nodes the device sent do not overlap, and an*)
(* undamaged start node is the first node of its rotation.                 *)
ASSUME LinksAssumption ==
  \A link \in Links :
    /\ Bytes(link) \in Seq(Byte)
    /\ \A p, q \in DOMAIN SentOver(link) :
         /\ p \in Nat /\ SentOver(link)[p] \in Nat
         /\ p < q => /\ p + SCAN_NODE_LEN <= q
                     /\ SentOver(link)[p] <= SentOver(link)[q]
                     /\ StartFlag(WindowAt(Bytes(link), q)) =>
                          SentOver(link)[p] < SentOver(link)[q]

-----------------------------------------------------------------------------
LinkInit ==
  /\ \E link \in Links : stream = Bytes(link) /\ sent = SentOver(link)
  /\ ReaderInit

LinkNext == Next /\ UNCHANGED sent

LinkSpec == LinkInit /\ [][LinkNext]_<<vars, sent>>

-----------------------------------------------------------------------------
Offsets(points) == { points[i].at : i \in DOMAIN points }

(* No byte that could begin a node is anywhere but at the beginning of one:*)
(* the condition under which the two tests of tests/protocol_tests.rs      *)
(* (lines 113-141) speak for every position of the fault.                  *)
NoLookalikes ==
  \A o \in 0 .. Len(stream) - SCAN_NODE_LEN :
    IsNode(WindowAt(stream, o)) <=> o \in DOMAIN sent

(* Without lookalikes every decoded node is one the device sent and the    *)
(* line left alone, after damage, lost bytes and restarted iterators too.  *)
OnlyGenuineNodes == NoLookalikes => Offsets(seen) \subseteq DOMAIN sent

(* documentation/02-architecture.md:152-155: stray bytes between nodes cost*)
(* nothing and a damaged node costs itself only.  A scan is exactly the    *)
(* undamaged nodes the device sent between two undamaged start flags.      *)
FaultsCostOnlyThemselves ==
  ret.kind = "scan" =>
    LET first == ret.points[1].at
        last  == seen[Len(seen)].at
    IN  Offsets(ret.points) = { o \in DOMAIN sent : first <= o /\ o < last }

(* The same, where nothing on the line looks like a node.                  *)
FaultsCostOnlyThemselvesUnlessDeceived ==
  NoLookalikes => FaultsCostOnlyThemselves

(* types.rs:60 calls a Scan one rotation.  It holds two of the device's    *)
(* only if the start node of the later one was destroyed on the way        *)
(* (device.rs:380-394), not after lost bytes, errors or a new iterator.    *)
RotationsKeptApart ==
  NoLookalikes /\ ret.kind = "scan" =>
    \A p, q \in Offsets(ret.points) :
      sent[p] < sent[q] =>
        \A o \in DOMAIN sent : sent[o] = sent[q] => ~StartFlag(WindowAt(stream, o))

=============================================================================
