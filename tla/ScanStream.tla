----------------------------- MODULE ScanStream -----------------------------
(***************************************************************************)
(* Lidar::next_node and the Scans iterator of device.rs, reading a stream  *)
(* of bytes through one of the three transports.                           *)
(*                                                                         *)
(* One step is one read_exact with everything the program does until its   *)
(* next read_exact or the return of next(); the program is alone between   *)
(* two reads.  What varies from outside is the stream (any bytes the       *)
(* device and the line produce), how long a read takes and, on the serial  *)
(* port, when a read fails and how many bytes it had already taken.        *)
(***************************************************************************)
EXTENDS ScanNode

CONSTANTS MAX_DESYNC_DISCARD,
          Streams,                \* what the device may send
          Transports,             \* subset of {"serial", "replay", "mock"}
          scan_startup_timeout,   \* LidarConfig, in ticks
          response_timeout

ASSUME ScanStreamAssumption ==
  /\ MAX_DESYNC_DISCARD \in Nat
  /\ Streams \subseteq Seq(Byte)
  /\ Transports \subseteq {"serial", "replay", "mock"}
  /\ scan_startup_timeout \in Nat
  /\ response_timeout \in Nat

VARIABLES
  transport,    \* the T of Lidar<T>
  stream,       \* everything the device sends to this reader
  pos,          \* bytes the transport has consumed
  pc,           \* "idle": no call of next(); "node", "resync": in read_exact
  buf,          \* next_node: the window
  discarded,    \* next_node: bytes skipped so far
  current,      \* Scans: the rotation being assembled
  primed, started, done,
  ret,          \* what the last call of next() returned
  seen,         \* history: the nodes this iterator has decoded
  waited        \* history: ticks since the current next_node call began

iter == <<current, primed, started, done, seen>>
vars == <<transport, stream, pos, pc, buf, discarded, iter, ret, waited>>

Zeros == [k \in 1..SCAN_NODE_LEN |-> 0]

-----------------------------------------------------------------------------
(* The transports' read_exact, called for Need bytes with a budget.        *)

Reading == pc \in {"node", "resync"}
NeedWhole == SCAN_NODE_LEN      \* mutant: resynchronization reads a whole node
Need    == IF pc = "node" THEN SCAN_NODE_LEN ELSE 1
Budget  == IF started THEN response_timeout ELSE scan_startup_timeout
Short   == pos + Need > Len(stream)

(* Only the serial port makes the reader wait.                             *)
Spend(ticks) ==
  \E t \in IF transport = "serial" THEN ticks ELSE {0} :
    waited' = IF pc = "node" THEN t ELSE waited + t

ReadExact ==
  /\ Reading /\ ~Short
  /\ pos' = pos + Need
  /\ Spend(0..Budget)

(* A failed read, having consumed `lost` bytes: on the serial port at any  *)
(* moment, with what had arrived; a recording fails at its end and drops   *)
(* the tail; a mock consumes nothing.                                      *)
SerialFails(fault, lost) ==
  /\ transport = "serial"
  /\ lost < Need /\ pos + lost <= Len(stream)
  /\ Spend(IF fault = "Timeout" THEN {Budget} ELSE 0..Budget)

ReplayFails(fault, lost) ==
  /\ transport = "replay" /\ Short
  /\ fault = "Eof" /\ lost = Len(stream) - pos
  /\ Spend({0})

MockFails(fault, lost) ==
  /\ transport = "mock" /\ Short
  /\ fault = "Timeout" /\ lost = 0
  /\ Spend({0})

(* lift: the transport errors a caller can tell apart.                     *)
lift(fault) == IF fault \in {"Timeout", "Serial"} THEN fault ELSE "Transport"

-----------------------------------------------------------------------------
(* next_node: the window a successful read completes, and the two ways of  *)
(* leaving its loop.                                                       *)

Fetched == IF pc = "node" THEN WindowAt(stream, pos)
                          ELSE Slide(buf, stream[pos + 1])

NewPoint == [at |-> pos + Need - SCAN_NODE_LEN, node |-> Fetched]

Decode ==
  /\ ReadExact
  /\ IsNode(Fetched)
  /\ buf' = Zeros /\ discarded' = 0
  /\ started' = TRUE
  /\ seen' = Append(seen, NewPoint)
  /\ UNCHANGED <<transport, stream, done>>

(* Mutants of SlideWindow: the budget is one too large; it is not counted; *)
(* the whole window is thrown away.                                        *)
SlideWrong(limit, cost, to) ==
  /\ ReadExact /\ ~IsNode(Fetched) /\ discarded < limit
  /\ discarded' = discarded + cost /\ buf' = Fetched /\ pc' = to
  /\ UNCHANGED <<transport, stream, iter, ret>>

SlideTooOften  == SlideWrong(MAX_DESYNC_DISCARD + 1, 1, "resync")
SlideUncounted == SlideWrong(MAX_DESYNC_DISCARD, 0, "resync")
SlideWhole     == SlideWrong(MAX_DESYNC_DISCARD, 1, "node")

SlideWindow ==
  /\ ReadExact
  /\ ~IsNode(Fetched)
  /\ discarded < MAX_DESYNC_DISCARD
  /\ discarded' = discarded + 1
  /\ buf' = Fetched
  /\ pc' = "resync"
  /\ UNCHANGED <<transport, stream, iter, ret>>

(* Mutants of Return: an error does not end the iterator; a failed read is *)
(* tried again.                                                            *)
ReturnUnfused(outcome) ==
  /\ ret' = outcome /\ pc' = "idle" /\ buf' = Zeros /\ discarded' = 0
  /\ UNCHANGED <<transport, stream, iter>>

ReturnRetry(outcome) ==
  /\ pc' = "node" /\ buf' = Zeros /\ discarded' = 0
  /\ UNCHANGED <<transport, stream, iter, ret>>

Return(outcome) ==
  /\ done' = TRUE
  /\ ret' = outcome
  /\ pc' = "idle"
  /\ buf' = Zeros /\ discarded' = 0
  /\ UNCHANGED <<transport, stream, current, primed, started, seen>>

Desync ==
  /\ ReadExact
  /\ ~IsNode(Fetched)
  /\ discarded >= MAX_DESYNC_DISCARD
  /\ Return(Error("Desync"))

FailRead ==
  /\ Reading
  /\ \E fault \in {"Timeout", "Eof", "Io", "Serial"}, lost \in 0..Len(stream) :
       /\ \/ SerialFails(fault, lost)
          \/ ReplayFails(fault, lost)
          \/ MockFails(fault, lost)
       /\ pos' = pos + lost
       /\ Return(IF fault = "Eof" THEN End ELSE Error(lift(fault)))

-----------------------------------------------------------------------------
(* Scans::next.                                                            *)

next ==
  /\ pc = "idle" /\ ~done
  /\ pc' = "node"
  /\ ret' = Nothing
  /\ UNCHANGED <<transport, stream, pos, buf, discarded, iter, waited>>

nextDone ==
  /\ pc = "idle" /\ done
  /\ ret' = End
  /\ UNCHANGED <<transport, stream, pos, pc, buf, discarded, iter, waited>>

(* Mutant: the finished rotation is not taken out of `current`.            *)
CloseKeeping ==
  /\ Decode
  /\ StartFlag(Fetched) /\ primed /\ current # <<>>
  /\ current' = Append(current, NewPoint) /\ primed' = TRUE
  /\ ret' = Scan(current) /\ pc' = "idle"

CloseRotation ==
  /\ Decode
  /\ StartFlag(Fetched)
  /\ primed /\ current # <<>>
  /\ current' = <<NewPoint>>
  /\ primed' = TRUE
  /\ ret' = Scan(current)
  /\ pc' = "idle"

OpenRotation ==
  /\ Decode
  /\ StartFlag(Fetched)
  /\ ~(primed /\ current # <<>>)
  /\ current' = <<NewPoint>>
  /\ primed' = TRUE
  /\ pc' = "node"
  /\ UNCHANGED ret

ExtendRotation ==
  /\ Decode
  /\ ~StartFlag(Fetched)
  /\ primed
  /\ current' = Append(current, NewPoint)
  /\ pc' = "node"
  /\ UNCHANGED <<primed, ret>>

DropPartial ==
  /\ Decode
  /\ ~StartFlag(Fetched)
  /\ ~primed
  /\ pc' = "node"
  /\ UNCHANGED <<current, primed, ret>>

(* Lidar::scans, once the previous iterator has been dropped.              *)
scans ==
  /\ pc = "idle"
  /\ current' = <<>> /\ seen' = <<>>
  /\ primed' = FALSE /\ started' = FALSE /\ done' = FALSE
  /\ ret' = Nothing
  /\ UNCHANGED <<transport, stream, pos, pc, buf, discarded, waited>>

-----------------------------------------------------------------------------
ReaderInit ==
  /\ transport \in Transports
  /\ pos = 0
  /\ pc = "idle"
  /\ buf = Zeros /\ discarded = 0
  /\ current = <<>> /\ seen = <<>>
  /\ primed = FALSE /\ started = FALSE /\ done = FALSE
  /\ ret = Nothing
  /\ waited = 0

Init == stream \in Streams /\ ReaderInit

(* The steps of a running call of next().                                  *)
Step == \/ CloseRotation \/ OpenRotation \/ ExtendRotation \/ DropPartial
        \/ SlideWindow \/ Desync \/ FailRead

Next == next \/ nextDone \/ scans \/ Step

Spec == Init /\ [][Next]_vars

(* A running call is scheduled, and each of its reads comes back: it has a *)
(* deadline, or does not wait at all.  The caller need not call again.     *)
FairSpec == Spec /\ WF_vars(Step)

-----------------------------------------------------------------------------
(* Properties.                                                             *)

(* The offset at which the running call of next_node began to look; outside*)
(* of resynchronization, where the next one will.                          *)
Base == IF pc = "resync" THEN pos - SCAN_NODE_LEN - discarded + 1 ELSE pos

(* The types of all variables.                                             *)
TypeOK ==
  /\ transport \in Transports
  /\ stream \in Seq(Byte)
  /\ pos \in 0..Len(stream)
  /\ pc \in {"idle", "node", "resync"}
  /\ buf \in Window
  /\ discarded \in 0..MAX_DESYNC_DISCARD
  /\ current \in Seq(Point) /\ seen \in Seq(Point)
  /\ primed \in BOOLEAN /\ started \in BOOLEAN /\ done \in BOOLEAN
  /\ ret \in Outcome
  /\ waited \in Nat

(* Resynchronization (device.rs:311-331) keeps the window equal to the last*)
(* bytes consumed and has never slid past a window that is a node.         *)
NoNodeSkipped ==
  pc = "resync" =>
    /\ Base >= 0 /\ discarded >= 1
    /\ buf = WindowAt(stream, pos - SCAN_NODE_LEN)
    /\ \A o \in Base .. pos - SCAN_NODE_LEN : ~IsNode(WindowAt(stream, o))

(* One iterator's nodes are in the stream where they claim to be, in order *)
(* and apart, none further from the last than the desync budget, and no    *)
(* node begins in the bytes skipped between them (device.rs:304-333).      *)
NodesFirstFit ==
  /\ \A i \in 1..Len(seen) :
       /\ seen[i].at + SCAN_NODE_LEN <= Base
       /\ seen[i].node = WindowAt(stream, seen[i].at)
       /\ IsNode(seen[i].node)
  /\ \A i, j \in 1..Len(seen) : i < j => seen[i].at + SCAN_NODE_LEN <= seen[j].at
  /\ \A i \in 1..Len(seen) - 1 :
       seen[i + 1].at <= seen[i].at + SCAN_NODE_LEN + MAX_DESYNC_DISCARD
  /\ seen # <<>> =>
       \A o \in seen[1].at .. seen[Len(seen)].at :
         IsNode(WindowAt(stream, o)) =>
           \E i \in 1..Len(seen) : o \in seen[i].at .. seen[i].at + SCAN_NODE_LEN - 1

(* Node i starts a rotation that runs to node j: no later node up to j does*)
RotationFrom(i, j) ==
  /\ StartFlag(seen[i].node)
  /\ \A k \in i + 1 .. j : ~StartFlag(seen[k].node)

(* The assembly of device.rs:380-394: nothing is kept before the first     *)
(* start flag; `current` is every node since the last one, and a scan is   *)
(* every node from one start flag up to the next.                          *)
RotationsAssembled ==
  /\ ~primed => /\ current = <<>>
                /\ \A i \in 1..Len(seen) : ~StartFlag(seen[i].node)
  /\ primed => \E i \in 1..Len(seen) :
                 /\ RotationFrom(i, Len(seen))
                 /\ current = SubSeq(seen, i, Len(seen))
  /\ ret.kind = "scan" =>
       /\ StartFlag(seen[Len(seen)].node)
       /\ \E i \in 1 .. Len(seen) - 1 :
            /\ RotationFrom(i, Len(seen) - 1)
            /\ ret.points = SubSeq(seen, i, Len(seen) - 1)

(* One call of next_node comes back after at most one budget per byte it   *)
(* may discard, and one for the window it starts with.                     *)
BlockingBound ==
  waited <= (MAX_DESYNC_DISCARD + 1)
              * (IF scan_startup_timeout > response_timeout
                 THEN scan_startup_timeout ELSE response_timeout)

(* The iterator yields the rotations of a first-fit reading of the stream, *)
(* and a failing read costs no complete node (see module Rotations).       *)
Promised == INSTANCE Rotations WITH MaxDiscard <- MAX_DESYNC_DISCARD,
                                    at <- Base, over <- done,
                                    calling <- pc # "idle"
ImplementsRotations == Promised!Spec

(* device.rs:44 calls scan_startup_timeout the budget for the first node.  *)
FirstNodeBudget == pc = "resync" /\ ~started => waited <= scan_startup_timeout

(* device.rs:237-238: the iterator does not end on live hardware, where    *)
(* failures surface as errors.                                             *)
NoEndOnLiveHardware ==
  [][transport = "serial" /\ pc # "idle" => ret' # End]_vars

(* Every call of next() returns, whatever a finite source delivers.        *)
EveryCallReturns == pc # "idle" ~> pc = "idle"

=============================================================================
