------------------------------ MODULE Examples -------------------------------
(***************************************************************************)
(* The four example programs, as clients of the library: each is a script  *)
(* of operations, and the first that fails ends the process, whatever the  *)
(* device is doing.  One process after another meets what the last one     *)
(* left behind.                                                            *)
(*                                                                         *)
(* record.rs drives the transport itself; its operations are programs of   *)
(* the steps of Session and of three of its own.                           *)
(***************************************************************************)
EXTENDS Session

CONSTANTS Mains,     \* the examples that are run
          nodes      \* --nodes of record

ASSUME ExamplesAssumption ==
  /\ Mains \subseteq {"info", "basic_scan", "rerun_viz", "record"}
  /\ nodes \in Nat \ {0}

VARIABLES
  example,     \* the program that runs, or "none"
  script,      \* the operations it has still to begin
  expired,     \* --seconds have passed since its stream began
  fixtures,    \* what this run of record has written
  verdict      \* how the program ended, or what record has printed

process  == <<example, script, expired, fixtures, verdict>>
allVars  == <<vars, process>>

-----------------------------------------------------------------------------
(* The scripts.                                                            *)

InfoMain      == <<"open", "info", "health">>
BasicScanMain == <<"open", "info", "health", "start_scan", "scans", "stop">>
RerunVizMain  == <<"open", "info", "health", "start_scan", "scans", "stop">>
RecordMain    == <<"open", "capture info", "capture health", "capture scan">>

Script == [ info |-> InfoMain, basic_scan |-> BasicScanMain,
            rerun_viz |-> RerunVizMain, record |-> RecordMain ]

Do(what)   == [do |-> what, what |-> "input"]
Capture(k) == [do |-> "capture", what |-> k]
Store(k)   == [do |-> "store", what |-> k]

(* A request of record, not through a Lidar.                               *)
send(command) == Write(command)

(* Mutant: what came before is not flushed.                                *)
CaptureUnflushed(command, k) == <<send(command), Capture(k), Store(k)>>

(* capture_single and write_fixture.                                       *)
capture_single(command, k) == <<Flush, send(command), Capture(k), Store(k)>>

(* Mutant: the device is left streaming.                                   *)
CaptureScanUnstopped ==
  <<Flush, send("SetMotorPwm"), Sleep, send("Scan"), Do("stream"),
    send("SetMotorPwm"), Do("flush anyway"), Store("scan")>>

capture_scan ==
  <<Flush, send("SetMotorPwm"), Sleep, send("Scan"), Do("stream"),
    send("Stop"), Sleep, send("SetMotorPwm"), Do("flush anyway"), Store("scan")>>

Operation(o) ==
  CASE o = "capture info"   -> capture_single("GetInfo", "info")
    [] o = "capture health" -> capture_single("GetHealth", "health")
    [] o = "capture scan"   -> capture_scan
    [] o = "scans"          -> <<Do("scans")>>
    [] OTHER                -> Program(o)

-----------------------------------------------------------------------------
(* record's own steps.                                                     *)

StartsWithDescriptor(s) ==
  Len(s) >= DESCRIPTOR_LEN
    /\ \E k \in Descriptors : Whole(SubSeq(s, 1, DESCRIPTOR_LEN), k)

(* One read_exact of descriptor and payload.                               *)
CaptureLen == DESCRIPTOR_LEN + Size(Head(prog).what)

capture ==
  /\ Doing("capture")
  /\ Len(input) >= CaptureLen
  /\ input' = Drop(input, CaptureLen)
  /\ got' = SubSeq(input, 1, CaptureLen)
  /\ IF StartsWithDescriptor(got') THEN Advance(settled) ELSE Fail("Protocol")
  /\ UNCHANGED <<device, spilled, process>>

CaptureFails ==
  /\ Doing("capture")
  /\ \E lost \in 0 .. CaptureLen - 1 : lost <= Len(input) /\ input' = Drop(input, lost)
  /\ Fail("Failed")
  /\ UNCHANGED <<got, device, spilled, process>>

(* The capture loop reads what there is; a stalled read changes nothing.   *)
Target == DESCRIPTOR_LEN + nodes * SCAN_NODE_LEN

(* Mutant: only the deadline ends the loop.                                *)
ReadPastTarget ==
  /\ Doing("stream") /\ ~expired
  /\ \E n \in 1..Len(input) : got' = got \o SubSeq(input, 1, n) /\ input' = Drop(input, n)
  /\ UNCHANGED <<up, op, prog, call, settled, quiet, clean, fresh, ret>>
  /\ UNCHANGED <<device, spilled, process>>

Read ==
  /\ Doing("stream") /\ Len(got) < Target /\ ~expired
  /\ \E n \in 1..Len(input) : got' = got \o SubSeq(input, 1, n) /\ input' = Drop(input, n)
  /\ UNCHANGED <<up, op, prog, call, settled, quiet, clean, fresh, ret>>
  /\ UNCHANGED <<device, spilled, process>>

(* Mutant: the loop runs until it has enough.                              *)
StreamEndsFull ==
  /\ Doing("stream") /\ Len(got) >= Target
  /\ Advance(settled)
  /\ UNCHANGED <<got, device, input, spilled, process>>

StreamEnds ==
  /\ Doing("stream") /\ (Len(got) >= Target \/ expired)
  /\ Advance(settled)
  /\ UNCHANGED <<got, device, input, spilled, process>>

FlushAnyway ==
  /\ Doing("flush anyway")
  /\ Advance(settled)
  /\ input' \in {input, <<>>}
  /\ UNCHANGED <<got, device, spilled, process>>

(* The last check of a scan capture fails.                                 *)
Unusable ==
  /\ Doing("store") /\ Head(prog).what = "scan" /\ ~StartsWithDescriptor(got)
  /\ Fail("Failed")
  /\ verdict' = "unusable"
  /\ UNCHANGED <<got, device, input, spilled, example, script, expired, fixtures>>

(* write_fixture, and what record says of a scan.                          *)
NodesCaptured == (Len(got) - DESCRIPTOR_LEN) \div SCAN_NODE_LEN

write_fixture ==
  /\ Doing("store")
  /\ LET k == Head(prog).what
     IN  /\ k = "scan" => StartsWithDescriptor(got)
         /\ \/ /\ Advance(settled)
               /\ fixtures' = [fixtures EXCEPT ![k] = got]
               /\ verdict' = IF k # "scan" THEN verdict
                             ELSE IF NodesCaptured >= nodes THEN "OK" ELSE "PARTIAL"
            \/ Fail("Failed") /\ UNCHANGED <<fixtures, verdict>>
  /\ UNCHANGED <<got, device, input, spilled, example, script, expired>>

-----------------------------------------------------------------------------
(* The loop over scans() in basic_scan and rerun_viz (see ScanStream).     *)

(* Bytes are read; when they complete a scan and the time is over, that is *)
(* the end of it.                                                          *)
Scanning ==
  /\ Doing("scans")
  /\ \E n \in 1..Len(input) : input' = Drop(input, n)
  /\ \/ UNCHANGED <<up, op, prog, call, settled, quiet, clean, fresh, ret>>
     \/ expired /\ Advance(settled)
  /\ UNCHANGED <<got, device, spilled, process>>

(* The iterator ends without an error.                                     *)
ScansEnd ==
  /\ Doing("scans")
  /\ Advance(settled)
  /\ UNCHANGED <<got, device, input, spilled, process>>

(* It ends with one, or a scan cannot be logged.                           *)
ScansFail ==
  /\ Doing("scans")
  /\ \E n \in 0..Len(input) : input' = Drop(input, n)
  /\ Fail("Failed")
  /\ UNCHANGED <<got, device, spilled, process>>

-----------------------------------------------------------------------------
(* Processes.                                                              *)

NoFixtures == [k \in {"info", "health", "scan"} |-> <<>>]

(* main: a port has been found, and is opened.                             *)
Start ==
  /\ example = "none"
  /\ \E m \in Mains :
       /\ call + Len(Script[m]) <= MaxCalls
       /\ example' = m
       /\ script' = Tail(Script[m])
  /\ Call("open", Program("open"))
  /\ expired' = FALSE /\ fixtures' = NoFixtures /\ verdict' = "none"

(* The next operation.                                                     *)
Continue ==
  /\ example # "none" /\ up /\ ret = "Ok" /\ script # <<>>
  /\ Call(Head(script), Operation(Head(script)))
  /\ script' = Tail(script)
  /\ UNCHANGED <<example, expired, fixtures, verdict>>

Leave(v) ==
  /\ Close
  /\ example' = "none" /\ script' = <<>>
  /\ expired' = FALSE /\ verdict' = v
  /\ UNCHANGED fixtures

(* main returns: at its end, by `?`, or because the device is not healthy. *)
Exit ==
  /\ example # "none" /\ prog = <<>>
  /\ \/ ret = "Ok" /\ script = <<>>
        /\ Leave(IF verdict = "none" THEN "done" ELSE verdict)
     \/ ret # "Ok" /\ Leave(IF verdict = "none" THEN "failed" ELSE verdict)
     \/ /\ ret = "Ok" /\ op = "health" /\ example \in {"basic_scan", "rerun_viz"}
        /\ Leave("failed")

Kill == example # "none" /\ up /\ Leave("failed")

(* Time passes.                                                            *)
Tick ==
  /\ Doing("stream") \/ Doing("scans")
  /\ ~expired /\ expired' = TRUE
  /\ UNCHANGED <<vars, example, script, fixtures, verdict>>

-----------------------------------------------------------------------------
ExamplesInit ==
  /\ Init /\ ~up
  /\ example = "none" /\ script = <<>> /\ expired = FALSE
  /\ fixtures = NoFixtures /\ verdict = "none"

ScanLoop == Scanning \/ ScansEnd \/ ScansFail

RecordStep ==
  \/ capture \/ CaptureFails \/ Read \/ StreamEnds \/ FlushAnyway
  \/ Unusable \/ write_fixture

ProgramStep ==
  \/ Run /\ UNCHANGED process
  \/ RecordStep \/ ScanLoop \/ Continue \/ Exit

ExamplesNext ==
  \/ Start \/ ProgramStep \/ Kill \/ Tick
  \/ DeviceNext(up) /\ UNCHANGED <<host, process>>

ExamplesSpec == ExamplesInit /\ [][ExamplesNext]_allVars

(* A running process is scheduled, its reads have deadlines, and the clock *)
(* goes on; the device owes nothing.                                       *)
FairExamples == ExamplesSpec /\ WF_allVars(ProgramStep) /\ WF_allVars(Tick)

-----------------------------------------------------------------------------
(* Properties.                                                             *)

(* The types of the variables of a process, and what must agree with them. *)
ProcessTypeOK ==
  /\ example \in Mains \cup {"none"}
  /\ expired \in BOOLEAN
  /\ \A k \in {"info", "health", "scan"} : fixtures[k] \in Seq(Part)
  /\ verdict \in {"none", "done", "failed", "OK", "PARTIAL", "unusable"}
  /\ example = "none" => script = <<>> /\ prog = <<>> /\ ~up
  /\ Len(got) <= Target + InputSize - 1
  /\ DeviceTypeOK

(* s is the start of what a device sends after Scan.                       *)
StreamFrom(s, c) ==
  \A i \in 1..Len(s) :
    s[i] = IF i <= DESCRIPTOR_LEN
           THEN Message("scan descriptor", c)[i]
           ELSE Message("node", 0)[((i - DESCRIPTOR_LEN - 1) % SCAN_NODE_LEN) + 1]

(* What a recording stores is authentic.  A capture that begins on a quiet *)
(* line gets the whole answer to its own request, or the stream from its   *)
(* descriptor on in one piece unless the buffer overflowed, whatever was   *)
(* left to read before; and once the handshake waited long enough, that is *)
(* so for every fixture of the run.  "OK" means enough nodes               *)
(* (record.rs:67-89, 116-183).                                             *)
FixturesAuthentic ==
  ret = "Ok" =>
    /\ op = "capture info" /\ quiet => fixtures["info"] = Answer("info", call)
    /\ op = "capture health" /\ quiet => fixtures["health"] = Answer("health", call)
    /\ op = "capture scan" =>
         /\ quiet /\ ~spilled => StreamFrom(fixtures["scan"], call)
         /\ fresh => /\ quiet
                     /\ fixtures["info"] = Answer("info", call - 2)
                     /\ fixtures["health"] = Answer("health", call - 1)
         /\ verdict = "OK" => Len(fixtures["scan"]) >= Target

(* Once it has heard what is on its way, the device does not scan.         *)
WillBeIdle ==
  \/ mode # "scanning" /\ \A i \in DOMAIN cmds : cmds[i].cmd # "Scan"
  \/ \E i \in DOMAIN cmds :
       cmds[i].cmd = "Stop" /\ \A j \in i + 1 .. Len(cmds) : cmds[j].cmd # "Scan"

(* Whatever it was doing before, the device is left idle by an example that*)
(* ends well, and by a recording that turns out partial or unusable        *)
(* (record.rs:153-157, basic_scan.rs:78).                                  *)
LeftIdle ==
  verdict \in {"done", "OK", "PARTIAL", "unusable"} => WillBeIdle

(* info and record end even if the device never answers or streams; the    *)
(* capture loop has a deadline of its own (record.rs:134-150).  No such    *)
(* promise is made of a loop over scans().                                 *)
InfoAndRecordEnd ==
  example \in {"info", "record"} ~> example = "none"

=============================================================================
