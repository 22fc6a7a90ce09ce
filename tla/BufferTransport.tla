-------------------------- MODULE BufferTransport ---------------------------
(***************************************************************************)
(* The two transports without hardware: ReplayTransport (a recording) and  *)
(* MockTransport (a queue that a test fills).  Each is a buffer and a      *)
(* position in it; they differ in what an exhausted buffer, a write and a  *)
(* flush mean.                                                             *)
(*                                                                         *)
(* A byte is its position in the buffer, so that a byte delivered twice,   *)
(* skipped or out of order can be told.                                    *)
(***************************************************************************)
EXTENDS Integers, Sequences

CONSTANTS Kinds,       \* subset of {"replay", "mock"}
          MaxWant,     \* the largest buffer a caller passes
          MaxSize,     \* bound: bytes ever recorded or queued
          MaxOther     \* bound: writes, and flushes of a mock

ASSUME BufferAssumption ==
  /\ Kinds \subseteq {"replay", "mock"}
  /\ MaxWant \in Nat \ {0} /\ MaxSize \in Nat /\ MaxOther \in Nat

VARIABLES
  kind,       \* which of the two
  size, pos,  \* data.len() or input.len(), and pos
  written,    \* writes a mock has captured
  discards,   \* and flushes it has counted
  out,        \* history: the bytes handed to callers, in order
  lost,       \* history: those passed over without being handed out
  ended,      \* history: an end of stream has been reported
  ret         \* the last read and what it returned

vars == <<kind, size, pos, written, discards, out, lost, ended, ret>>

Trait == INSTANCE Transport WITH
           taken <- IF kind = "replay" THEN pos ELSE Len(out)

(* usize in the code: it must not fall below zero.                         *)
remaining == size - pos

Ahead(n) == [i \in 1..n |-> pos + i]

-----------------------------------------------------------------------------
(* Reads.                                                                  *)

(* The next n bytes are copied out.                                        *)
Deliver(op, want, n) ==
  /\ out' = out \o Ahead(n)
  /\ pos' = pos + n
  /\ ret' = Trait!Answer(op, want, "Ok", n)
  /\ UNCHANGED <<kind, size, written, discards, lost, ended>>

(* Mutant: the end of a recording is noticed one byte late.                *)
ExactOffByOne(want) ==
  /\ remaining + 1 >= want
  /\ Deliver("read_exact", want, want)

read_exact(want) ==
  /\ remaining >= want
  /\ Deliver("read_exact", want, want)

(* A recording too short for the buffer is over, and its tail is dropped.  *)
ReplayShort(want) ==
  /\ kind = "replay" /\ remaining < want
  /\ pos' = size
  /\ lost' = lost \cup (pos + 1 .. size)
  /\ ended' = TRUE
  /\ ret' = Trait!Answer("read_exact", want, "Eof", 0)
  /\ UNCHANGED <<kind, size, written, discards, out>>

(* A queue too short is a silent device; what there is stays.              *)
MockShort(want) ==
  /\ kind = "mock" /\ remaining < want
  /\ ret' = Trait!Answer("read_exact", want, "Timeout", 0)
  /\ UNCHANGED <<kind, size, pos, written, discards, out, lost, ended>>

Smaller(a, b) == IF a < b THEN a ELSE b

(* Mutant: at the end nothing is left to read, and that is no error.       *)
ReadNothing(want) == Deliver("read", want, Smaller(want, remaining))

read(want) ==
  /\ remaining > 0
  /\ Deliver("read", want, Smaller(want, remaining))

ReadExhausted(want) ==
  /\ remaining = 0
  /\ ended' = (ended \/ kind = "replay")
  /\ ret' = Trait!Answer("read", want, IF kind = "replay" THEN "Eof" ELSE "Timeout", 0)
  /\ UNCHANGED <<kind, size, pos, written, discards, out, lost>>

-----------------------------------------------------------------------------
(* The other operations.                                                   *)

(* write_all: a recording cannot answer.                                   *)
write_all ==
  /\ written < MaxOther
  /\ written' = written + (IF kind = "mock" THEN 1 ELSE 0)
  /\ UNCHANGED <<kind, size, pos, discards, out, lost, ended, ret>>

(* Mutant: a flush consumes the recording.                                 *)
FlushAll ==
  /\ discards < MaxOther
  /\ pos' = size /\ lost' = lost \cup (pos + 1 .. size)
  /\ discards' = discards + 1
  /\ UNCHANGED <<kind, size, written, out, ended, ret>>

(* discard_input: pending bytes of a mock are gone; a recording has none.  *)
discard_input ==
  /\ discards < MaxOther
  /\ \/ kind = "replay" /\ UNCHANGED <<pos, lost, discards>>
     \/ /\ kind = "mock"
        /\ pos' = size /\ lost' = lost \cup (pos + 1 .. size)
        /\ discards' = discards + 1
  /\ UNCHANGED <<kind, size, written, out, ended, ret>>

queue_input ==
  /\ kind = "mock"
  /\ size' \in size .. MaxSize
  /\ UNCHANGED <<kind, pos, written, discards, out, lost, ended, ret>>

-----------------------------------------------------------------------------
(* from_bytes, and MockTransport::new.                                     *)
Init ==
  /\ kind \in Kinds
  /\ size \in IF kind = "replay" THEN 0..MaxSize ELSE {0}
  /\ pos = 0 /\ written = 0 /\ discards = 0
  /\ out = <<>> /\ lost = {} /\ ended = FALSE
  /\ ret = Trait!NoAnswer

Next ==
  \/ \E want \in 1..MaxWant : \/ read_exact(want) \/ ReplayShort(want) \/ MockShort(want)
                              \/ read(want) \/ ReadExhausted(want)
  \/ write_all \/ discard_input \/ queue_input

Spec == Init /\ [][Next]_vars

-----------------------------------------------------------------------------
(* Properties.                                                             *)

(* The types of all variables.  The position never passes the end, so that *)
(* remaining() cannot underflow (replay.rs:56-58, mock.rs:59-61).          *)
TypeOK ==
  /\ kind \in Kinds
  /\ size \in Nat /\ pos \in 0..size
  /\ written \in Nat /\ discards \in Nat
  /\ out \in Seq(Nat) /\ lost \subseteq Nat
  /\ ended \in BOOLEAN
  /\ ret \in [op : {"none", "read_exact", "read"}, want : 0..MaxWant,
              result : {"none", "Ok"} \cup Trait!Failures, got : 0..MaxWant]

(* Callers get the bytes in order, each at most once, and every byte before*)
(* the position was handed out or knowingly given up: by a mock in a flush,*)
(* by a recording only once it has reported its end, so that no flush or   *)
(* write of the driver costs recorded bytes (replay.rs:62-92, mock.rs:65-94).*)
DeliveredInOrder ==
  /\ \A i, j \in 1..Len(out) : i < j => out[i] < out[j]
  /\ \A b \in 1..pos : b \in lost \/ \E i \in 1..Len(out) : out[i] = b
  /\ \A i \in 1..Len(out) : out[i] <= pos /\ out[i] \notin lost
  /\ lost \subseteq 1..pos
  /\ lost # {} => IF kind = "mock" THEN discards > 0 ELSE ended /\ pos = size

(* Both keep the promise of the Transport trait (mod.rs:57-75).            *)
ImplementsTrait == Trait!Spec

=============================================================================
