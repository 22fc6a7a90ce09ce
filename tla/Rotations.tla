----------------------------- MODULE Rotations ------------------------------
(***************************************************************************)
(* What Lidar::scans promises, with no window, no resynchronization loop   *)
(* and no partially assembled rotation:                                    *)
(*                                                                         *)
(*   - the nodes taken from the stream are the ones a first-fit reader     *)
(*     finds, each within MaxDiscard bytes of the end of the previous one; *)
(*   - a scan is exactly the nodes from one start flag to the next;        *)
(*   - the iterator ends when no node is in reach, or when the source      *)
(*     fails, which costs no node that had been received completely;       *)
(*   - once over it stays over, until the caller makes a new iterator.     *)
(***************************************************************************)
EXTENDS ScanNode

CONSTANTS MaxDiscard,   \* bytes that may be skipped in search of a node
          Streams       \* what the device may send

VARIABLES stream,       \* everything the device sends to this reader
          at,           \* bytes of it that are used up
          seen,         \* the nodes this iterator has taken, oldest first
          over,         \* the iterator has reported its end or an error
          calling,      \* a call of next() is running
          ret           \* what the last call of next() returned

vars == <<stream, at, seen, over, calling, ret>>

(* Node i of s is the last one that starts a rotation.                     *)
LastStart(s, i) ==
  /\ i \in 1..Len(s)
  /\ StartFlag(s[i].node)
  /\ \A j \in i + 1 .. Len(s) : ~StartFlag(s[j].node)

Received(o) == o + SCAN_NODE_LEN <= Len(stream)

-----------------------------------------------------------------------------
Init ==
  /\ stream \in Streams
  /\ at = 0
  /\ seen = <<>>
  /\ over = FALSE
  /\ calling = FALSE
  /\ ret = Nothing

Call ==
  /\ ~calling /\ ~over
  /\ calling' = TRUE
  /\ ret' = Nothing
  /\ UNCHANGED <<stream, at, seen, over>>

CallOver ==
  /\ ~calling /\ over
  /\ ret' = End
  /\ UNCHANGED <<stream, at, seen, over, calling>>

(* The first node within MaxDiscard bytes.  A start flag ends the rotation *)
(* before it, which the call returns.                                      *)
Take ==
  /\ calling
  /\ \E o \in at .. at + MaxDiscard :
       /\ Received(o)
       /\ IsNode(WindowAt(stream, o))
       /\ \A p \in at .. o - 1 : ~IsNode(WindowAt(stream, p))
       /\ at' = o + SCAN_NODE_LEN
       /\ seen' = Append(seen, [at |-> o, node |-> WindowAt(stream, o)])
       /\ IF StartFlag(WindowAt(stream, o)) /\ \E i \in 1..Len(seen) : LastStart(seen, i)
          THEN /\ \E i \in 1..Len(seen) :
                    /\ LastStart(seen, i)
                    /\ ret' = Scan(SubSeq(seen, i, Len(seen)))
               /\ calling' = FALSE
          ELSE UNCHANGED <<ret, calling>>
  /\ UNCHANGED <<stream, over>>

(* No node begins anywhere within reach.                                   *)
GiveUp ==
  /\ calling
  /\ Received(at + MaxDiscard)
  /\ \A o \in at .. at + MaxDiscard : ~IsNode(WindowAt(stream, o))
  /\ at' = at + MaxDiscard + SCAN_NODE_LEN
  /\ over' = TRUE
  /\ calling' = FALSE
  /\ ret' = Error("Desync")
  /\ UNCHANGED <<stream, seen>>

(* The source fails: bytes may be lost, but never a complete node.         *)
Fail ==
  /\ calling
  /\ \E new \in at .. Len(stream) :
       /\ \A o \in at .. new - SCAN_NODE_LEN : ~IsNode(WindowAt(stream, o))
       /\ at' = new
  /\ over' = TRUE
  /\ calling' = FALSE
  /\ ret' \in {End} \cup {Error(e) : e \in ReadErrors}
  /\ UNCHANGED <<stream, seen>>

(* The caller drops the iterator and makes another.                        *)
Restart ==
  /\ ~calling
  /\ seen' = <<>>
  /\ over' = FALSE
  /\ ret' = Nothing
  /\ UNCHANGED <<stream, at, calling>>

Next == Call \/ CallOver \/ Take \/ GiveUp \/ Fail \/ Restart

Spec == Init /\ [][Next]_vars

=============================================================================
