------------------------------ MODULE ScanNode ------------------------------
(***************************************************************************)
(* The standard scan node of protocol/scan_node.rs: what the frame checks  *)
(* accept, and the views of a byte stream that the reader works with.      *)
(*                                                                         *)
(* A window is a function on 1..SCAN_NODE_LEN, byte k of the source being  *)
(* w[k + 1].  Resynchronization looks at bits 0 and 1 of the first byte    *)
(* and bit 0 of the second only, so a reader can be modelled with any      *)
(* SCAN_NODE_LEN of at least 2 (the code's is 5).                          *)
(***************************************************************************)
EXTENDS Integers, Sequences

CONSTANT SCAN_NODE_LEN     \* bytes of one node

ASSUME NodeLenAssumption == SCAN_NODE_LEN \in Nat /\ SCAN_NODE_LEN >= 2

Byte   == 0..255
Window == [1..SCAN_NODE_LEN -> Byte]

(* The start flag (bit 0) and its inverse (bit 1) must differ.             *)
could_start_node(byte0) == byte0 % 2 # (byte0 \div 2) % 2

(* parse_scan_node succeeds on w.                                          *)
IsNode(w) == could_start_node(w[1]) /\ w[2] % 2 = 1

StartFlag(w) == w[1] % 2 = 1

-----------------------------------------------------------------------------
(* The window that follows the first `at` bytes of the stream s.           *)
WindowAt(s, at) == [k \in 1..SCAN_NODE_LEN |-> s[at + k]]

(* Mutant: the shift stops one byte early.                                 *)
SlideShort(buf, b) ==
  [k \in 1..SCAN_NODE_LEN |-> IF k < SCAN_NODE_LEN - 1 THEN buf[k + 1] ELSE b]

(* buf.copy_within(1.., 0), with b read into the last place.               *)
Slide(buf, b) ==
  [k \in 1..SCAN_NODE_LEN |-> IF k < SCAN_NODE_LEN THEN buf[k + 1] ELSE b]

(* A node decoded from the stream, with the offset it was read from.       *)
Point == [at : Nat, node : Window]

-----------------------------------------------------------------------------
(* What Scans::next returns: Option<Result<Scan, LidarError>>; Nothing     *)
(* stands for no value yet.                                                *)
Nothing   == [kind |-> "nothing"]
End       == [kind |-> "end"]
Error(e)  == [kind |-> "error", why |-> e]
Scan(pts) == [kind |-> "scan", points |-> pts]

ReadErrors == {"Timeout", "Serial", "Transport"}

Outcome ==
  {Nothing, End} \cup {Error(e) : e \in ReadErrors \cup {"Desync"}}
                 \cup [kind : {"scan"}, points : Seq(Point)]

=============================================================================
