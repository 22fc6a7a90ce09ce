------------------------------- MODULE Detect --------------------------------
(***************************************************************************)
(* Port detection of serial.rs: which of the enumerated ports a lidar is   *)
(* most likely attached to.  A name is its directory prefix and the rest;  *)
(* usb is the VID/PID of a USB port, NotUsb for any other.                 *)
(***************************************************************************)
EXTENDS Integers, SequencesExt

NotUsb == <<>>

(* CP210x 10C4:EA60 and CH340 1A86:7523.                                   *)
KNOWN_BRIDGES == {<<4292, 60000>>, <<6790, 29987>>}

prefer_callout_device(name, macos) ==
  IF macos /\ name.prefix = "/dev/tty." THEN [name EXCEPT !.prefix = "/dev/cu."]
                                        ELSE name

looks_like_usb_serial(name) ==
  \/ /\ name.prefix = "/dev/cu."
     /\ name.rest \in {"usbserial", "SLAB_USBtoUART", "wchusbserial"}
  \/ name.prefix \in {"/dev/ttyUSB", "/dev/ttyACM"}

NoPort == [prefix |-> "none", rest |-> "none"]

FirstOf(kept, name) == IF kept = NoPort THEN name ELSE kept

(* Where a port is noted.                                                  *)
Class(port, macos) ==
  IF port.usb \in KNOWN_BRIDGES THEN "bridge"
  ELSE IF port.usb # NotUsb THEN "usb"
  ELSE IF looks_like_usb_serial(prefer_callout_device(port.name, macos)) THEN "name"
  ELSE "ignored"

(* Mutant: a later fallback replaces an earlier one.                       *)
LookLast(found, port, macos) ==
  IF found["bridge"] # NoPort THEN found
  ELSE [found EXCEPT ![Class(port, macos)] = prefer_callout_device(port.name, macos)]

(* One round of the loop, which a known bridge has ended.                  *)
Look(found, port, macos) ==
  IF found["bridge"] # NoPort THEN found
  ELSE [found EXCEPT ![Class(port, macos)] =
          FirstOf(@, prefer_callout_device(port.name, macos))]

auto_detect_port(ports, macos) ==
  LET nothing == [c \in {"bridge", "usb", "name", "ignored"} |-> NoPort]
      found   == FoldLeft(LAMBDA f, p : Look(f, p, macos), nothing, ports)
  IN  FirstOf(found["bridge"], FirstOf(found["usb"], found["name"]))

-----------------------------------------------------------------------------
(* The order of the documentation: 1 is best, 4 is implausible.            *)
Rank == [bridge |-> 1, usb |-> 2, name |-> 3, ignored |-> 4]

(* The first of the ports of the best rank, by its call-out name.          *)
Preferred(ports, macos, chosen) ==
  LET rank == [i \in DOMAIN ports |-> Rank[Class(ports[i], macos)]]
  IN  \/ /\ chosen = NoPort
         /\ \A i \in DOMAIN ports : rank[i] = 4
      \/ \E i \in DOMAIN ports :
           /\ rank[i] < 4
           /\ \A j \in DOMAIN ports : rank[i] < rank[j] \/ (rank[i] = rank[j] /\ i <= j)
           /\ chosen = prefer_callout_device(ports[i].name, macos)

=============================================================================
