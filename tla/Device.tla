------------------------------- MODULE Device -------------------------------
(***************************************************************************)
(* What is at the other end of the port, as the code counts on it: a       *)
(* device that takes its time, the line, and the operating system's input  *)
(* buffer.  It is the environment of Session and Examples.                 *)
(*                                                                         *)
(* Bytes are grouped into parts of messages, and a message has as many     *)
(* parts as its length constant says.  A part carries the number of the    *)
(* call it answers, which the code cannot see.  Assumed: the line loses and*)
(* corrupts nothing while the port is open, and no bytes but a             *)
(* descriptor's parse as one.                                              *)
(***************************************************************************)
EXTENDS Integers, Sequences

CONSTANTS DESCRIPTOR_LEN, DEVINFO_LEN, DEVHEALTH_LEN, SCAN_NODE_LEN, BannerLen,
          InitialModes,  \* how the device may have been left
          InputSize,     \* parts the operating system buffers
          MaxCalls,      \* bound: calls made
          MaxInFlight    \* bound: the device streams up to this many parts ahead

ASSUME DeviceAssumption ==
  /\ {DESCRIPTOR_LEN, DEVINFO_LEN, DEVHEALTH_LEN, SCAN_NODE_LEN, BannerLen}
       \subseteq Nat \ {0}
  /\ InitialModes \subseteq {"idle", "scanning"}
  /\ MaxCalls \in Nat /\ MaxInFlight \in Nat
  /\ InputSize \in Nat
  /\ InputSize >= DESCRIPTOR_LEN + DEVINFO_LEN
  /\ InputSize >= DESCRIPTOR_LEN + DEVHEALTH_LEN

VARIABLES
  cmds,        \* requests on their way to the device
  mode,        \* the device: "idle", "scanning", "booting"
  wire,        \* parts on their way from the device
  input,       \* parts received, not yet read
  torn,        \* history: a reboot or a full buffer cut a message short
  spilled      \* history: the buffer was full since the last call began

device == <<cmds, mode, wire, torn>>

-----------------------------------------------------------------------------
(* Messages.                                                               *)

Sizes == [ info |-> DEVINFO_LEN, health |-> DEVHEALTH_LEN,
           node |-> SCAN_NODE_LEN, banner |-> BannerLen ]

Commands == {"Stop", "Reset", "Scan", "GetInfo", "GetHealth", "SetMotorPwm"}

Descriptors == {"info descriptor", "health descriptor", "scan descriptor"}
Kinds == DOMAIN Sizes \cup Descriptors

Size(kind) == IF kind \in Descriptors THEN DESCRIPTOR_LEN ELSE Sizes[kind]

Part == [kind : Kinds, call : 0..MaxCalls, part : Nat]

Message(kind, c) ==
  [i \in 1..Size(kind) |-> [kind |-> kind, call |-> c, part |-> i]]

(* s is one whole message of this kind.                                    *)
Whole(s, kind) == \E c \in 0..MaxCalls : s = Message(kind, c)

(* Nothing is on its way, and the device sends nothing by itself.          *)
Quiet == cmds = <<>> /\ wire = <<>> /\ mode = "idle"

-----------------------------------------------------------------------------
(* It takes a request; while it scans it may ignore a query, and while it  *)
(* boots it hears nothing.                                                 *)
Answer(kind, c) ==
  Message(IF kind = "info" THEN "info descriptor" ELSE "health descriptor", c)
    \o Message(kind, c)

Hear ==
  /\ cmds # <<>>
  /\ cmds' = Tail(cmds)
  /\ LET cmd == Head(cmds).cmd
         c   == Head(cmds).call
         Ignore == UNCHANGED <<mode, wire, torn>>
     IN \/ mode = "booting" /\ Ignore
        \/ /\ mode # "booting"
           /\ \/ /\ cmd \in {"GetInfo", "GetHealth"}
                 /\ wire' = wire \o Answer(IF cmd = "GetInfo" THEN "info" ELSE "health", c)
                 /\ UNCHANGED <<mode, torn>>
              \/ cmd \in {"GetInfo", "GetHealth"} /\ mode = "scanning" /\ Ignore
              \/ /\ cmd = "Scan"
                 /\ mode' = "scanning"
                 /\ wire' = wire \o Message("scan descriptor", c)
                 /\ UNCHANGED torn
              \/ cmd = "Stop" /\ mode' = "idle" /\ UNCHANGED <<wire, torn>>
              \/ cmd = "SetMotorPwm" /\ Ignore
              \/ /\ cmd = "Reset"
                 /\ mode' = "booting"
                 /\ \E n \in 0..Len(wire) : wire' = SubSeq(wire, 1, n)
                 /\ torn' = (torn \/ wire' # wire)
  /\ UNCHANGED <<input, spilled>>

Stream ==
  /\ mode = "scanning"
  /\ Len(wire) + Len(input) + SCAN_NODE_LEN <= MaxInFlight
  /\ wire' = wire \o Message("node", 0)
  /\ UNCHANGED <<cmds, mode, torn, input, spilled>>

Boot ==
  /\ mode = "booting"
  /\ mode' = "idle"
  /\ wire' = wire \o Message("banner", 0)
  /\ UNCHANGED <<cmds, torn, input, spilled>>

(* A part arrives.  A full buffer has no room for it, and with the port    *)
(* closed it may be lost.                                                  *)
Arrive(open) ==
  /\ wire # <<>>
  /\ wire' = Tail(wire)
  /\ \/ /\ Len(input) < InputSize
        /\ input' = Append(input, Head(wire))
        /\ UNCHANGED <<torn, spilled>>
     \/ /\ Len(input) = InputSize
        /\ torn' = TRUE /\ spilled' = TRUE
        /\ UNCHANGED input
     \/ ~open /\ UNCHANGED <<input, torn, spilled>>
  /\ UNCHANGED <<cmds, mode>>

DeviceInit ==
  /\ mode \in InitialModes
  /\ cmds = <<>> /\ wire = <<>> /\ input = <<>>
  /\ torn = FALSE /\ spilled = FALSE

DeviceNext(open) == Hear \/ Stream \/ Boot \/ Arrive(open)

DeviceTypeOK ==
  /\ cmds \in Seq([cmd : Commands, call : 0..MaxCalls])
  /\ mode \in {"idle", "scanning", "booting"}
  /\ {wire, input} \subseteq Seq(Part)
  /\ Len(input) <= InputSize
  /\ {torn, spilled} \subseteq BOOLEAN

=============================================================================
