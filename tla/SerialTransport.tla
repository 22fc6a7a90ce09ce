-------------------------- MODULE SerialTransport ---------------------------
(***************************************************************************)
(* read_exact and read of transport/serial.rs: a loop of port reads under  *)
(* one deadline, with the port's own timeout set lazily through a cache.   *)
(*                                                                         *)
(* The environment is the operating system and the port: bytes arrive, the *)
(* clock ticks, the process is kept from running (at most MaxLag ticks in  *)
(* one call), and a port read returns data, nothing, EINTR, an error, or,  *)
(* once its timeout has run down, a timeout.                               *)
(***************************************************************************)
EXTENDS Integers

CONSTANTS Budgets,           \* the timeouts callers pass, in ticks
          MaxWant,           \* the largest buffer a caller passes
          MaxBytes,          \* bound: bytes that ever arrive
          MaxLag,            \* bound: ticks one call loses to scheduling
          MinTimeout,        \* the 1 ms below which no timeout is set
          INITIAL_TIMEOUT

ASSUME SerialAssumption ==
  /\ Budgets \subseteq Nat
  /\ MaxWant \in Nat \ {0} /\ MaxBytes \in Nat /\ MaxLag \in Nat
  /\ MinTimeout \in Nat \ {0} /\ INITIAL_TIMEOUT \in Nat
  /\ INITIAL_TIMEOUT >= MinTimeout

VARIABLES
  pc,               \* "idle", "check" (top of the loop), "wait" (in port.read)
  op, want,         \* the call: which method, for how many bytes
  filled,           \* bytes put into the caller's buffer
  left,             \* deadline - now; negative once it has passed
  current_timeout,  \* the struct's cache
  port_timeout,     \* the timeout the port really has
  port_left,        \* what is left of it in this port.read
  lag,              \* ticks this call has lost to scheduling
  avail,            \* bytes received by the operating system, not yet read
  taken,            \* history: bytes read from the port
  ret               \* the last call and what it returned

call == <<op, want, filled>>
port == <<current_timeout, port_timeout>>
vars == <<pc, call, left, port, port_left, lag, avail, taken, ret>>

Trait == INSTANCE Transport WITH
           taken <- IF pc = "idle" THEN taken ELSE taken - filled

Smaller(a, b) == IF a < b THEN a ELSE b
Larger(a, b)  == IF a > b THEN a ELSE b

-----------------------------------------------------------------------------
(* A call returns.                                                         *)
Return(result, got) ==
  /\ pc' = "idle"
  /\ ret' = Trait!Answer(op, want, result, got)

(* read_exact, read: up to the first look at the clock.                    *)
Call ==
  /\ pc = "idle"
  /\ op' \in {"read_exact", "read"}
  /\ want' \in 1..MaxWant
  /\ left' \in Budgets
  /\ filled' = 0 /\ lag' = 0 /\ port_left' = 0
  /\ pc' = "check"
  /\ UNCHANGED <<port, avail, taken, ret>>

(* Mutant: the deadline is not looked at again once bytes have come.       *)
ExpiredOnlyAtFirst ==
  /\ pc = "check" /\ left <= 0 /\ filled = 0
  /\ Return("Timeout", 0)
  /\ UNCHANGED <<call, left, port, port_left, lag, avail, taken>>

(* No time remains: checked_duration_since is None, or zero.               *)
Expired ==
  /\ pc = "check" /\ left <= 0
  /\ Return("Timeout", 0)
  /\ UNCHANGED <<call, left, port, port_left, lag, avail, taken>>

(* set_timeout: clamp up, and touch the port only when the value changes.  *)
clamped == Larger(left, MinTimeout)

(* Mutant: the cache is compared with and updated to the unclamped value.  *)
SetTimeoutUnclamped ==
  /\ pc = "check" /\ left > 0
  /\ port_timeout' = IF left # current_timeout THEN left ELSE port_timeout
  /\ current_timeout' = left
  /\ port_left' = port_timeout'
  /\ pc' = "wait"
  /\ UNCHANGED <<call, left, lag, avail, taken, ret>>

SetTimeout ==
  /\ pc = "check" /\ left > 0
  /\ IF clamped # current_timeout
     THEN port_timeout' = clamped /\ current_timeout' = clamped
     ELSE UNCHANGED port
  /\ port_left' = port_timeout'
  /\ pc' = "wait"
  /\ UNCHANGED <<call, left, lag, avail, taken, ret>>

(* Mutant: the cache is updated before the port is asked.                  *)
SetTimeoutFailsCached ==
  /\ pc = "check" /\ left > 0
  /\ clamped # current_timeout
  /\ current_timeout' = clamped
  /\ Return("Serial", 0)
  /\ UNCHANGED <<call, left, port_timeout, port_left, lag, avail, taken>>

(* port.set_timeout fails; the cache is left alone.                        *)
SetTimeoutFails ==
  /\ pc = "check" /\ left > 0
  /\ clamped # current_timeout
  /\ Return("Serial", 0)
  /\ UNCHANGED <<call, left, port, port_left, lag, avail, taken>>

-----------------------------------------------------------------------------
(* port.read returns.                                                      *)

(* Mutant: what a timed-out read_exact had collected counts as a success.  *)
PortDataShort ==
  /\ pc = "wait" /\ avail > 0
  /\ \E n \in 1 .. Smaller(avail, want - filled) :
       /\ filled' = filled + n
       /\ avail' = avail - n
       /\ taken' = taken + n
       /\ Return("Ok", filled + n)
  /\ UNCHANGED <<op, want, left, port, port_left, lag>>

(* Ok(n): read is done, read_exact when the buffer is full.                *)
PortData ==
  /\ pc = "wait" /\ avail > 0
  /\ \E n \in 1 .. Smaller(avail, want - filled) :
       /\ filled' = filled + n
       /\ avail' = avail - n
       /\ taken' = taken + n
       /\ IF op = "read" \/ filled + n = want
          THEN Return("Ok", filled + n)
          ELSE pc' = "check" /\ UNCHANGED ret
  /\ UNCHANGED <<op, want, left, port, port_left, lag>>

(* Err(TimedOut | WouldBlock).                                             *)
PortTimeout ==
  /\ pc = "wait" /\ port_left = 0
  /\ Return("Timeout", 0)
  /\ UNCHANGED <<call, left, port, port_left, lag, avail, taken>>

(* Ok(0), or any other error: the line is gone.                            *)
PortFails ==
  /\ pc = "wait"
  /\ \E f \in {"Eof", "Io"} : Return(f, 0)
  /\ UNCHANGED <<call, left, port, port_left, lag, avail, taken>>

(* Mutant: an interrupted read gives up.                                   *)
GiveUpWhenInterrupted ==
  /\ pc = "wait"
  /\ Return("Timeout", 0)
  /\ UNCHANGED <<call, left, port, port_left, lag, avail, taken>>

(* Err(Interrupted): once more around the loop.                            *)
PortInterrupted ==
  /\ pc = "wait"
  /\ pc' = "check"
  /\ UNCHANGED <<call, left, port, port_left, lag, avail, taken, ret>>

-----------------------------------------------------------------------------
(* discard_input.                                                          *)
discard_input ==
  /\ pc = "idle"
  /\ avail' = 0
  /\ UNCHANGED <<pc, call, left, port, port_left, lag, taken, ret>>

(* A byte arrives.                                                         *)
Arrive ==
  /\ taken + avail < MaxBytes
  /\ avail' = avail + 1
  /\ UNCHANGED <<pc, call, left, port, port_left, lag, taken, ret>>

(* The clock, while the port waits or the process does not run.            *)
Tick ==
  /\ pc # "idle"
  /\ left' = left - 1
  /\ \/ /\ pc = "wait" /\ port_left > 0
        /\ port_left' = port_left - 1
        /\ UNCHANGED lag
     \/ /\ lag < MaxLag
        /\ lag' = lag + 1
        /\ UNCHANGED port_left
  /\ UNCHANGED <<pc, call, port, avail, taken, ret>>

-----------------------------------------------------------------------------
Init ==
  /\ pc = "idle"
  /\ op = "read" /\ want = 1 /\ filled = 0
  /\ left = 0 /\ lag = 0 /\ port_left = 0
  /\ current_timeout = INITIAL_TIMEOUT /\ port_timeout = INITIAL_TIMEOUT
  /\ avail = 0 /\ taken = 0
  /\ ret = Trait!NoAnswer

Loop == Expired \/ SetTimeout \/ SetTimeoutFails

PortReturns == PortData \/ PortTimeout \/ PortFails \/ PortInterrupted

Next == Call \/ Loop \/ PortReturns \/ discard_input \/ Arrive \/ Tick

Spec == Init /\ [][Next]_vars

(* The program runs on; a port read whose timeout has run down returns; and*)
(* the clock does not stop for a call that keeps being interrupted.        *)
FairSpec == Spec /\ WF_vars(Loop) /\ WF_vars(PortTimeout) /\ SF_vars(Tick)

-----------------------------------------------------------------------------
(* Properties.                                                             *)

(* The types of all variables; the port never has a timeout below the 1 ms *)
(* that set_timeout clamps to (serial.rs:66-67).                           *)
TypeOK ==
  /\ pc \in {"idle", "check", "wait"}
  /\ op \in {"read_exact", "read"}
  /\ want \in 1..MaxWant
  /\ filled \in 0..MaxWant
  /\ left \in Int
  /\ current_timeout \in Nat /\ current_timeout >= MinTimeout
  /\ port_timeout \in Nat /\ port_timeout >= MinTimeout
  /\ port_left \in Nat
  /\ lag \in 0..MaxLag
  /\ avail \in Nat /\ taken \in Nat
  /\ ret \in [op : {"none", "read_exact", "read"}, want : 0..MaxWant,
              result : {"none", "Ok"} \cup Trait!Failures, got : 0..MaxWant]

(* A call that reports a timeout has used up all the time it was given,    *)
(* even when an earlier set_timeout failed: the wait of the port was not   *)
(* shortened by a stale cache (serial.rs:68-71, 96, 117).                  *)
NeverEarly == pc = "idle" /\ ret.result = "Timeout" => left <= 0

(* However the reads are chopped up by data and signals, a call outlasts   *)
(* its deadline by less than the clamped minimum, apart from the time the  *)
(* process did not run (serial.rs:84-90).                                  *)
NotLate == left + lag + MinTimeout > 0

(* What callers are promised of read_exact and read (transport/mod.rs):    *)
(* Ok means a full buffer, or for read at least a byte, and a failed read  *)
(* has lost nothing, a failed read_exact less than a buffer.               *)
ImplementsTrait == Trait!Spec

(* Every call returns, signals and a trickle of bytes notwithstanding.     *)
EveryReadReturns == pc # "idle" ~> pc = "idle"

=============================================================================
