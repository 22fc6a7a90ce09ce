----------------------------- MODULE Transport ------------------------------
(***************************************************************************)
(* The reading half of the Transport trait (transport/mod.rs): what a      *)
(* caller may assume of read_exact and read, however long they take and    *)
(* however they work.                                                      *)
(***************************************************************************)
EXTENDS Integers

CONSTANT MaxWant      \* the largest buffer a caller passes

VARIABLES taken,      \* bytes of the source that are used up
          ret         \* the last call and what it returned

Failures == {"Timeout", "Eof", "Io", "Serial"}

Answer(op, want, result, got) ==
  [op |-> op, want |-> want, result |-> result, got |-> got]

NoAnswer == Answer("none", 0, "none", 0)

-----------------------------------------------------------------------------
Init == taken = 0 /\ ret = NoAnswer

(* read_exact fills the buffer or fails; a failure may have used up some   *)
(* bytes the caller never sees, but never as many as were asked for.       *)
read_exact(want) ==
  \/ /\ taken' = taken + want
     /\ ret' = Answer("read_exact", want, "Ok", want)
  \/ /\ taken' \in taken .. taken + want - 1
     /\ \E f \in Failures : ret' = Answer("read_exact", want, f, 0)

(* read returns at least one byte, never Ok(0); a failure uses up nothing. *)
read(want) ==
  \/ \E got \in 1..want :
       /\ taken' = taken + got
       /\ ret' = Answer("read", want, "Ok", got)
  \/ /\ taken' = taken
     /\ \E f \in Failures : ret' = Answer("read", want, f, 0)

Next == \E want \in 1..MaxWant : read_exact(want) \/ read(want)

Spec == Init /\ [][Next]_<<taken, ret>>

=============================================================================
