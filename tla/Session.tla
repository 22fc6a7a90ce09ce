------------------------------ MODULE Session -------------------------------
(***************************************************************************)
(* The request/response half of device.rs: every operation of a Lidar is a *)
(* short program of writes, sleeps, flushes and reads against a device     *)
(* that takes its time.  What a program reads may be late: the answer to a *)
(* request that was given up, nodes of a scan nobody stopped, the banner   *)
(* of a reboot.                                                            *)
(***************************************************************************)
EXTENDS Device

CONSTANTS motor_pwm,     \* LidarConfig
          Operations     \* the methods the caller uses, besides opening

ASSUME SessionAssumption ==
  /\ motor_pwm \in Nat
  /\ Operations \subseteq {"info", "health", "stop", "reset", "set_motor_pwm",
                           "start_scan"}

VARIABLES
  up,          \* a Lidar exists, or is being opened
  op,          \* the last call
  prog,        \* what the running call still has to do
  got,         \* the payload it has returned
  call,        \* history: calls begun so far; a request's answer carries it
  settled,     \* history: the line was quiet when this call's sleep ended
  quiet,       \* history: it was when the call began
  clean,       \* history: and no failure or scan since the last recovery
  fresh,       \* history: `clean` when the last call began
  ret          \* "none", "Ok", "Protocol", or "Failed": any other error

host == <<up, op, prog, got, call, settled, quiet, clean, fresh, ret>>
vars == <<host, device, input, spilled>>

Drop(s, n) == SubSeq(s, n + 1, Len(s))

-----------------------------------------------------------------------------
(* The programs of the operations.                                         *)

Steps == [do : {"write"}, what : Commands]
           \cup [do : {"sleep"}, what : {"settle"}]
           \cup [do : {"flush"}, what : {"input"}]
           \cup [do : {"descriptor"}, what : Descriptors]
           \cup [do : {"payload"}, what : {"info", "health"}]

Write(c)      == [do |-> "write", what |-> c]
Sleep         == [do |-> "sleep", what |-> "settle"]
Flush         == [do |-> "flush", what |-> "input"]
Descriptor(k) == [do |-> "descriptor", what |-> k]
Payload(k)    == [do |-> "payload", what |-> k]

info   == <<Write("GetInfo"), Descriptor("info descriptor"), Payload("info")>>

(* Mutant: the descriptor is read with the length of the payload.          *)
HealthHeaderless == <<Write("GetHealth"), Descriptor("health"), Payload("health")>>
health == <<Write("GetHealth"), Descriptor("health descriptor"), Payload("health")>>

(* Mutant: the flush comes before the wait.                                *)
StopFlushFirst == <<Write("Stop"), Flush, Sleep>>
stop  == <<Write("Stop"), Sleep, Flush>>
reset == <<Write("Reset"), Sleep, Flush>>

set_motor_pwm == <<Write("SetMotorPwm"), Sleep>>

(* Mutant: no flush.                                                       *)
StartScanUnflushed ==
  (IF motor_pwm > 0 THEN set_motor_pwm ELSE <<>>)
    \o <<Write("Scan"), Descriptor("scan descriptor")>>

start_scan ==
  <<Flush>>
    \o (IF motor_pwm > 0 THEN set_motor_pwm ELSE <<>>)
    \o <<Write("Scan"), Descriptor("scan descriptor")>>

Program(o) ==
  CASE o \in {"open", "stop"} -> stop
    [] o = "reset"            -> reset
    [] o = "info"             -> info
    [] o = "health"           -> health
    [] o = "set_motor_pwm"    -> set_motor_pwm
    [] o = "start_scan"       -> start_scan

-----------------------------------------------------------------------------
(* The host.                                                               *)

(* An operation begins.                                                    *)
Call(o, program) ==
  /\ prog = <<>> /\ call < MaxCalls
  /\ op' = o
  /\ prog' = program
  /\ up' = TRUE
  /\ call' = call + 1
  /\ got' = <<>> /\ settled' = FALSE
  /\ quiet' = Quiet /\ fresh' = clean
  /\ ret' = "none"
  /\ spilled' = FALSE
  /\ UNCHANGED <<clean, device, input>>

(* A method is called; `open` makes the Lidar.                             *)
Begin == \E o \in IF up THEN Operations ELSE {"open"} : Call(o, Program(o))

Doing(step) == prog # <<>> /\ Head(prog).do = step

(* The call fails: `?`.  A Lidar that failed to open is dropped.           *)
Fail(error) ==
  /\ prog' = <<>>
  /\ ret' = error
  /\ up' = (op # "open")
  /\ clean' = FALSE /\ settled' = FALSE
  /\ UNCHANGED <<op, call, quiet, fresh>>

(* Its next step succeeds, and with the last one the call.  A recovery     *)
(* that waited long enough leaves nothing behind; a scan starts a stream.  *)
Advance(lull) ==
  /\ prog' = Tail(prog)
  /\ settled' = (lull /\ Len(prog) > 1)
  /\ IF Len(prog) = 1
     THEN /\ ret' = "Ok"
          /\ clean' = IF op \in {"open", "stop", "reset"}
                      THEN lull ELSE clean /\ op # "start_scan"
     ELSE UNCHANGED <<ret, clean>>
  /\ UNCHANGED <<up, op, call, quiet, fresh>>

(* request: write_all may fail with the request sent all the same.         *)
request ==
  /\ Doing("write")
  /\ LET sent == Append(cmds, [cmd |-> Head(prog).what, call |-> call])
     IN \/ Advance(settled) /\ cmds' = sent
        \/ /\ Fail("Failed")
           /\ cmds' \in {cmds, sent}
  /\ UNCHANGED <<got, mode, wire, torn, input, spilled>>

(* thread::sleep, for long enough or not.                                  *)
sleep ==
  /\ Doing("sleep")
  /\ Advance(Quiet)
  /\ UNCHANGED <<got, device, input, spilled>>

discard_input ==
  /\ Doing("flush")
  /\ \/ Advance(settled) /\ input' = <<>>
     \/ Fail("Failed") /\ UNCHANGED input
  /\ UNCHANGED <<got, device, spilled>>

(* read_payload, for a descriptor too: one read_exact, or its failure,     *)
(* which may have used up some of the bytes.                               *)
Wanted == Size(Head(prog).what)
Taken  == SubSeq(input, 1, Wanted)

ReadExact == Len(input) >= Wanted /\ input' = Drop(input, Wanted)

ReadFails ==
  /\ Doing("descriptor") \/ Doing("payload")
  /\ \E lost \in 0 .. Wanted - 1 : lost <= Len(input) /\ input' = Drop(input, lost)
  /\ Fail("Failed")
  /\ UNCHANGED <<got, device, spilled>>

(* Mutant: any descriptor will do.                                         *)
DescriptorUnchecked ==
  /\ Doing("descriptor")
  /\ ReadExact
  /\ IF \E k \in Descriptors : Whole(Taken, k)
     THEN Advance(settled)
     ELSE Fail("Protocol")
  /\ UNCHANGED <<got, device, spilled>>

(* read_descriptor, parse_descriptor and ResponseDescriptor::expect.       *)
read_descriptor ==
  /\ Doing("descriptor")
  /\ ReadExact
  /\ IF Whole(Taken, Head(prog).what)
     THEN Advance(settled)
     ELSE Fail("Protocol")
  /\ UNCHANGED <<got, device, spilled>>

(* parse_device_info accepts any bytes; parse_health, any with a good first*)
(* byte.                                                                   *)
read_payload ==
  /\ Doing("payload")
  /\ ReadExact
  /\ \/ Advance(settled) /\ got' = Taken
     \/ /\ Head(prog).what = "health" /\ ~Whole(Taken, "health")
        /\ Fail("Protocol") /\ UNCHANGED got
  /\ UNCHANGED <<device, spilled>>

(* The last call and what it knew do not matter any more.                  *)
Forget ==
  /\ ret' = "none" /\ got' = <<>>
  /\ settled' = FALSE /\ quiet' = FALSE /\ clean' = FALSE /\ fresh' = FALSE
  /\ spilled' = FALSE

(* scans, next_node (see ScanStream): some bytes are read.                 *)
next_node ==
  /\ up /\ prog = <<>> /\ "start_scan" \in Operations
  /\ \E n \in 1..Len(input) : input' = Drop(input, n)
  /\ op' = "next_node" /\ Forget
  /\ UNCHANGED <<up, prog, call, device>>

(* The port is closed; what was received may or may not be there when it is*)
(* opened again.                                                           *)
Close ==
  /\ up' = FALSE /\ prog' = <<>> /\ op' = "open" /\ Forget
  /\ input' \in {input, <<>>}
  /\ UNCHANGED <<call, device>>

(* The process dies or drops the Lidar, at any moment.                     *)
Crash == up /\ Close

-----------------------------------------------------------------------------
(* A Lidar made by with_transport, without a handshake, or none yet.       *)
Init ==
  /\ up \in BOOLEAN /\ op = "open" /\ prog = <<>> /\ got = <<>> /\ call = 0
  /\ settled = FALSE /\ quiet = FALSE /\ clean = FALSE /\ fresh = FALSE
  /\ ret = "none"
  /\ DeviceInit

Run == request \/ sleep \/ discard_input \/ read_descriptor \/ read_payload \/ ReadFails

Next ==
  \/ Begin \/ Run \/ next_node \/ Crash
  \/ DeviceNext(up) /\ UNCHANGED host

Spec == Init /\ [][Next]_vars

-----------------------------------------------------------------------------
(* Properties.                                                             *)

(* The types of all variables.                                             *)
TypeOK ==
  /\ up \in BOOLEAN
  /\ op \in Operations \cup {"open", "next_node"}
  /\ prog \in Seq(Steps)
  /\ call \in 0..MaxCalls
  /\ {settled, quiet, clean, fresh} \subseteq BOOLEAN
  /\ ret \in {"none", "Ok", "Failed", "Protocol"}
  /\ got \in Seq(Part)
  /\ DeviceTypeOK

(* info and health never put an answer together from pieces of two, or from*)
(* anything but an answer of their kind, however late things arrive, unless*)
(* a reboot cut an answer short (device.rs:133-162).                       *)
NoMixedAnswer ==
  ret = "Ok" /\ op \in {"info", "health"} /\ (fresh \/ ~torn) => Whole(got, op)

(* After a recovery that waited long enough (open, stop, reset), and until *)
(* something fails or scans, a query gets the answer to itself and never a *)
(* protocol error (device.rs:99-108, 171-187).                             *)
OwnAnswer ==
  op \in {"info", "health"} /\ fresh =>
    /\ ret = "Ok" => got = Message(op, call)
    /\ ret # "Protocol"

(* What is left to read is whole nodes, one after another.                 *)
NodesAhead(s) ==
  /\ \A i \in 1..Len(s) :
       s[i] = [ kind |-> "node", call |-> 0,
                part |-> IF i = 1 \/ s[i - 1].part = SCAN_NODE_LEN THEN 1
                                                                 ELSE s[i - 1].part + 1 ]
  /\ s # <<>> => s[Len(s)].part = SCAN_NODE_LEN

(* start_scan recovers from earlier failures by itself when the line is    *)
(* quiet: no protocol error, and the stream begins with a node unless the  *)
(* buffer overflowed; no stop is needed before (device.rs:219-232).        *)
ScanFromQuiet ==
  op = "start_scan" /\ quiet =>
    /\ ret # "Protocol"
    /\ ret = "Ok" /\ ~spilled => NodesAhead(input \o wire)

(* device.rs documents LidarError::Protocol as a response that does not    *)
(* match the wire format (info) or is malformed (health); this device only *)
(* ever sends well-formed responses.                                       *)
ProtocolErrorMeansMalformed == ret # "Protocol"

=============================================================================
