--------------------------- MODULE ExamplesProofs ---------------------------
(***************************************************************************)
(* Proofs about Examples.  A running operation has done the first steps of *)
(* its program and a running example the first operations of its script,   *)
(* so the invariants say of each point, counted by the steps still to do,  *)
(* what is between the host and the device there.                          *)
(***************************************************************************)
EXTENDS Examples, SessionProofs

-----------------------------------------------------------------------------
(* The invariants.                                                         *)

(* The operations of the scripts, and what their programs are made of.     *)
Calls == {"open", "info", "health", "start_scan", "scans", "stop",
          "capture info", "capture health", "capture scan"}

Moves == Steps
           \cup [do : {"capture"}, what : {"info", "health"}]
           \cup [do : {"store"}, what : {"info", "health", "scan"}]
           \cup [do : {"stream", "flush anyway", "scans"}, what : {"input"}]

(* The types.                                                              *)
HostTypes ==
  /\ up \in BOOLEAN /\ call \in 0..MaxCalls
  /\ {settled, quiet, clean, fresh} \subseteq BOOLEAN
  /\ ret \in {"none", "Ok", "Failed", "Protocol"}

Verdicts == {"none", "done", "failed", "OK", "PARTIAL", "unusable"}

ProcessTypes ==
  /\ example \in Mains \cup {"none"} /\ expired \in BOOLEAN /\ verdict \in Verdicts
  /\ fixtures \in [{"info", "health", "scan"} -> Seq(Part)]

Types == HostTypes /\ got \in Seq(Part) /\ ProcessTypes /\ DeviceTypeOK

(* The call that runs, or was the last, has done the beginning of its      *)
(* program.                                                                *)
InProgram ==
  /\ op \in Calls
  /\ \E n \in 0..Len(Operation(op)) : prog = Drop(Operation(op), n)
  /\ prog # <<>> => up /\ fresh = clean /\ ret = "none"

(* A running example has begun the first operations of its script.         *)
InScript ==
  IF example = "none" THEN script = <<>> /\ prog = <<>> /\ ~up /\ ret = "none"
  ELSE \E n \in 1..Len(Script[example]) :
         op = Script[example][n] /\ script = Drop(Script[example], n)

(* The capture loop stops at its target.                                   *)
GotBounded == Len(got) <= Target + InputSize - 1

Shape == Types /\ InProgram /\ InScript /\ GotBounded

(* Only the end of a recording, or of a process, is a verdict.             *)
Judged ==
  /\ example # "none" /\ verdict # "none" => op = "capture scan" /\ prog = <<>>
  /\ verdict = "OK" => Len(fixtures["scan"]) >= Target

(* From the Stop of a handshake on, until a scan is asked for, and from the*)
(* Stop of the recording on.                                               *)
Stopped ==
  example # "none" =>
    /\ op \in {"open", "stop"} => (Len(prog) \in {1, 2} \/ ret = "Ok" => WillBeIdle)
    /\ op \in {"info", "health", "capture info", "capture health"} => WillBeIdle
    /\ op = "capture scan" => (Len(prog) \in {1, 2, 3, 4, 7, 8, 9, 10} \/ ret = "Ok" => WillBeIdle)

(* A handshake that waited long enough leaves a quiet line.                *)
Handshake ==
  op = "open" =>
    /\ settled => Quiet /\ Len(prog) = 1
    /\ prog = <<>> /\ clean => Quiet

(* The line while info or health are captured, when it was quiet.          *)
CaptureOf(k) == IF k = "info" THEN "capture info" ELSE "capture health"

Query(k) == [cmd |-> IF k = "info" THEN "GetInfo" ELSE "GetHealth", call |-> call]

Querying(k) ==
  /\ mode = "idle"
  /\ \/ cmds = <<Query(k)>> /\ wire = <<>> /\ input = <<>>
     \/ cmds = <<>> /\ input \o wire = Answer(k, call)

Capturing(k) ==
  op = CaptureOf(k) /\ quiet =>
    /\ Len(prog) = 4 => Quiet
    /\ Len(prog) = 3 => Quiet /\ input = <<>>
    /\ Len(prog) = 2 => Querying(k)
    /\ Len(prog) = 1 => Quiet /\ got = Answer(k, call)
    /\ ret = "Ok" => Quiet /\ fixtures[k] = Answer(k, call)

(* The line while a scan is captured, when it was quiet.                   *)
ScanQuery == [cmd |-> "Scan", call |-> call]

AskedToScan ==
  /\ mode = "idle" /\ wire = <<>> /\ input = <<>> /\ got = <<>> /\ cmds # <<>>
  /\ \A i \in 1 .. Len(cmds) - 1 : cmds[i].cmd = "SetMotorPwm"
  /\ cmds[Len(cmds)] = ScanQuery

StreamOf(s, c) ==
  /\ StreamFrom(s, c)
  /\ \E m \in Nat : Len(s) = DESCRIPTOR_LEN + m * SCAN_NODE_LEN

Received == got \o (input \o wire)

Streams ==
  /\ mode = "scanning" /\ cmds = <<>>
  /\ ~spilled => StreamOf(Received, call)

Recording ==
  op = "capture scan" /\ quiet =>
    /\ Len(prog) = 10 => Quiet /\ got = <<>>
    /\ Len(prog) = 9 => Quiet /\ input = <<>> /\ got = <<>>
    /\ Len(prog) \in {7, 8} => Calm /\ got = <<>>
    /\ Len(prog) = 6 => AskedToScan \/ Streams
    /\ Len(prog) \in {1, 2, 3, 4, 5} /\ ~spilled => StreamFrom(got, call)
    /\ ret = "Ok" /\ ~spilled => StreamFrom(fixtures["scan"], call)

(* After such a handshake every capture begins on a quiet line.            *)
Kept ==
  /\ op \in {"capture info", "capture health", "capture scan"} =>
       (clean => fresh) /\ (fresh => quiet)
  /\ op = "capture health" /\ fresh => fixtures["info"] = Answer("info", call - 1)
  /\ op = "capture scan" /\ fresh =>
       /\ fixtures["info"] = Answer("info", call - 2)
       /\ fixtures["health"] = Answer("health", call - 1)

Authentic ==
  /\ Shape /\ Judged /\ Handshake /\ Capturing("info") /\ Capturing("health")
  /\ Recording /\ Kept

-----------------------------------------------------------------------------
(* The programs.                                                           *)

(* What each step of a program says.                                       *)
LEMMA Fields ==
  /\ \A c : Write(c).do = "write" /\ Write(c).what = c
  /\ Sleep.do = "sleep" /\ Flush.do = "flush"
  /\ \A k : Descriptor(k).do = "descriptor" /\ Descriptor(k).what = k
  /\ \A k : Payload(k).do = "payload" /\ Payload(k).what = k
  /\ \A w : Do(w).do = w /\ Do(w).what = "input"
  /\ \A k : Capture(k).do = "capture" /\ Capture(k).what = k
  /\ \A k : Store(k).do = "store" /\ Store(k).what = k
BY DEF Write, Sleep, Flush, Descriptor, Payload, Do, Capture, Store

(* The program of each operation.                                          *)
LEMMA OperationPrograms ==
  /\ Operation("open") = stop /\ Operation("stop") = stop
  /\ Operation("info") = info /\ Operation("health") = health
  /\ Operation("start_scan") = start_scan /\ Operation("scans") = <<Do("scans")>>
  /\ Operation("capture info") = capture_single("GetInfo", "info")
  /\ Operation("capture health") = capture_single("GetHealth", "health")
  /\ Operation("capture scan") = capture_scan
BY DEF Operation, Program

(* The programs are made of the steps of Moves.                            *)
LEMMA MoveTypes ==
  /\ \A c \in Commands : Write(c) \in Moves
  /\ Sleep \in Moves /\ Flush \in Moves
  /\ \A k \in {"info", "health"} : Capture(k) \in Moves
  /\ \A k \in {"info", "health", "scan"} : Store(k) \in Moves
  /\ \A w \in {"stream", "flush anyway", "scans"} : Do(w) \in Moves
<1>1. Steps \subseteq Moves
  BY DEF Moves
<1>2. /\ \A k \in {"info", "health"} : Capture(k) \in Moves
      /\ \A k \in {"info", "health", "scan"} : Store(k) \in Moves
      /\ \A w \in {"stream", "flush anyway", "scans"} : Do(w) \in Moves
  BY DEF Moves, Capture, Store, Do
<1> QED BY <1>1, <1>2, StepTypes

(* Every program is a sequence of them.                                    *)
LEMMA OperationTypes == \A o \in Calls : Operation(o) \in Seq(Moves)
<1>1. \A p \in Seq(Steps) : p \in Seq(Moves)
  <2>1. \A s \in Steps : s \in Moves
    BY DEF Moves
  <2> QED BY <2>1
<1>2. /\ Operation("open") \in Seq(Moves) /\ Operation("stop") \in Seq(Moves)
      /\ Operation("info") \in Seq(Moves) /\ Operation("health") \in Seq(Moves)
      /\ Operation("start_scan") \in Seq(Moves)
  BY <1>1, Shapes, OperationPrograms
<1>3. Operation("scans") \in Seq(Moves)
  <2>1. Do("scans") \in Moves
    BY MoveTypes
  <2>2. \A a \in Moves : <<a>> \in Seq(Moves)
    OBVIOUS
  <2> QED BY <2>1, <2>2, OperationPrograms
<1>4. \A a, b, c, d \in Moves : <<a, b, c, d>> \in Seq(Moves)
  OBVIOUS
<1>5. /\ Operation("capture info") \in Seq(Moves)
      /\ Operation("capture health") \in Seq(Moves)
  <2>1. Write("GetInfo") \in Moves /\ Write("GetHealth") \in Moves
    BY MoveTypes DEF Commands
  <2>2. /\ Capture("info") \in Moves /\ Store("info") \in Moves
        /\ Capture("health") \in Moves /\ Store("health") \in Moves
        /\ Flush \in Moves
    BY MoveTypes
  <2>3. /\ capture_single("GetInfo", "info") \in Seq(Moves)
        /\ capture_single("GetHealth", "health") \in Seq(Moves)
    BY <1>4, <2>1, <2>2 DEF capture_single, send
  <2> QED BY <2>3, OperationPrograms
<1>6. Operation("capture scan") \in Seq(Moves)
  <2>1. /\ Write("SetMotorPwm") \in Moves /\ Write("Scan") \in Moves
        /\ Write("Stop") \in Moves
    BY MoveTypes DEF Commands
  <2>2. \A a, b, c, d, e, f, g, h, i, j \in Moves :
          <<a, b, c, d, e, f, g, h, i, j>> \in Seq(Moves)
    OBVIOUS
  <2>3. capture_scan \in Seq(Moves)
    BY <2>1, <2>2, MoveTypes DEF capture_scan, send
  <2> QED BY <2>3, OperationPrograms
<1> QED BY <1>2, <1>3, <1>5, <1>6 DEF Calls

(* What is left after n parts, part by part.                               *)
LEMMA Dropping ==
  ASSUME NEW S, NEW p \in Seq(S), NEW n \in 0..Len(p)
  PROVE  /\ Drop(p, n) \in Seq(S) /\ Len(Drop(p, n)) = Len(p) - n
         /\ Drop(p, n) # <<>> =>
              /\ n < Len(p) /\ n + 1 \in 1..Len(p)
              /\ Head(Drop(p, n)) = p[n + 1]
              /\ Tail(Drop(p, n)) = Drop(p, n + 1)
<1> DEFINE d == Drop(p, n)
<1>1. n \in Nat /\ Len(p) \in Nat /\ n <= Len(p)
  BY LenProperties
<1>2. d \in Seq(S) /\ Len(d) = Len(p) - n
  BY <1>1, DropType
<1>3. ASSUME d # <<>>
      PROVE  /\ n < Len(p) /\ Head(d) = p[n + 1]
             /\ Tail(d) = Drop(p, n + 1)
  <2>1. /\ Len(d) > 0 /\ Head(d) = d[1] /\ Tail(d) \in Seq(S)
        /\ Len(Tail(d)) = Len(d) - 1
        /\ \A i \in 1..Len(Tail(d)) : Tail(d)[i] = d[i + 1]
    BY <1>2, <1>3, HeadTailProperties, EmptySeq, LenProperties
  <2>2. n + 1 \in Nat /\ n + 1 <= Len(p)
    BY <1>1, <1>2, <2>1
  <2>3. /\ Drop(p, n + 1) \in Seq(S) /\ Len(Drop(p, n + 1)) = Len(p) - (n + 1)
    BY <2>2, DropType
  <2>4. /\ \A i \in 1 .. Len(p) - n : d[i] = p[n + i]
        /\ \A i \in 1 .. Len(p) - (n + 1) : Drop(p, n + 1)[i] = p[n + 1 + i]
    BY <1>1, <2>2 DEF Drop
  <2>5. \A i \in 1..Len(Tail(d)) : Tail(d)[i] = Drop(p, n + 1)[i]
    <3> TAKE i \in 1..Len(Tail(d))
    <3>1. i \in 1 .. Len(p) - (n + 1) /\ i + 1 \in 1 .. Len(p) - n
      BY <1>1, <1>2, <2>1
    <3>2. Tail(d)[i] = p[n + (i + 1)] /\ Drop(p, n + 1)[i] = p[n + 1 + i]
      BY <2>1, <2>4, <3>1
    <3> QED BY <1>1, <3>1, <3>2
  <2>6. Tail(d) = Drop(p, n + 1)
    BY <1>1, <1>2, <2>1, <2>3, <2>5, SeqEqual
  <2> QED BY <1>1, <1>2, <2>1, <2>2, <2>4, <2>6
<1> QED BY <1>1, <1>2, <1>3

(* The next step of a running call, counted by the steps to do.            *)
LEMMA Point ==
  ASSUME InProgram, prog # <<>>
  PROVE  /\ op \in Calls /\ up /\ fresh = clean /\ ret = "none"
         /\ Len(prog) \in 1..Len(Operation(op))
         /\ Head(prog) = Operation(op)[Len(Operation(op)) - Len(prog) + 1]
         /\ Head(prog) \in Moves
         /\ Len(Tail(prog)) = Len(prog) - 1
         /\ \E n \in 0..Len(Operation(op)) : Tail(prog) = Drop(Operation(op), n)
<1> DEFINE P == Operation(op)
<1>1. PICK n \in 0..Len(P) : prog = Drop(P, n)
  BY DEF InProgram
<1>2. P \in Seq(Moves) /\ Len(P) \in Nat
  BY OperationTypes, LenProperties DEF InProgram
<1>3. /\ prog \in Seq(Moves) /\ Len(prog) = Len(P) - n
      /\ n < Len(P) /\ n + 1 \in 1..Len(P)
      /\ Head(prog) = P[n + 1] /\ Tail(prog) = Drop(P, n + 1)
  BY <1>1, <1>2, Dropping
<1>4. Len(P) - Len(prog) + 1 = n + 1 /\ n + 1 \in 0..Len(P)
  BY <1>2, <1>3
<1>5. P[n + 1] \in Moves
  BY <1>2, <1>3, ElementOfSeq
<1>6. Len(Tail(prog)) = Len(prog) - 1
  BY <1>3, HeadTailProperties
<1> QED BY <1>2, <1>3, <1>4, <1>5, <1>6 DEF InProgram

(* The step at each point, counted back from the end of a program.         *)
LEMMA CountBackThree ==
  ASSUME NEW P, Len(P) = 3, NEW n, n \in 1..Len(P), NEW x, x = P[Len(P) - n + 1]
  PROVE  /\ n \in 1..3
         /\ n = 3 => x = P[1]
         /\ n = 2 => x = P[2]
         /\ n = 1 => x = P[3]
<1>1. n \in Nat \ {0} /\ n <= 3 /\ x = P[3 - n + 1]
  OBVIOUS
<1> QED BY <1>1

LEMMA CountBackFour ==
  ASSUME NEW P, Len(P) = 4, NEW n, n \in 1..Len(P), NEW x, x = P[Len(P) - n + 1]
  PROVE  /\ n \in 1..4
         /\ n = 4 => x = P[1]
         /\ n = 3 => x = P[2]
         /\ n = 2 => x = P[3]
         /\ n = 1 => x = P[4]
<1>1. n \in Nat \ {0} /\ n <= 4 /\ x = P[4 - n + 1]
  OBVIOUS
<1> QED BY <1>1

LEMMA Within ==
  ASSUME NEW m \in Nat, NEW n \in 1..m
  PROVE  n \in Nat /\ 0 < n /\ n <= m /\ n \in Nat \ {0}
OBVIOUS

(* What each operation does at each of its points.                         *)
LEMMA HandshakeProgram ==
  ASSUME InProgram, prog # <<>>, op \in {"open", "stop"}
  PROVE  /\ Len(prog) \in 1..3
         /\ Len(prog) = 3 => Head(prog).do = "write" /\ Head(prog).what = "Stop"
         /\ Len(prog) = 2 => Head(prog).do = "sleep"
         /\ Len(prog) = 1 => Head(prog).do = "flush"
<1>1. /\ Len(stop) = 3
      /\ stop[1] = Write("Stop") /\ stop[2] = Sleep /\ stop[3] = Flush
  BY DEF stop
<1>2. Operation(op) = stop
  BY OperationPrograms
<1>3. /\ Len(prog) \in 1..Len(stop) /\ Head(prog) = stop[Len(stop) - Len(prog) + 1]
  BY <1>2, Point
<1>4. /\ Len(prog) \in 1..3
      /\ Len(prog) = 3 => Head(prog) = stop[1]
      /\ Len(prog) = 2 => Head(prog) = stop[2]
      /\ Len(prog) = 1 => Head(prog) = stop[3]
  BY <1>1, <1>3, CountBackThree
<1> QED BY <1>1, <1>4, Fields

LEMMA QueryProgram ==
  ASSUME InProgram, prog # <<>>, op \in {"info", "health"}
  PROVE  /\ Len(prog) \in 1..3
         /\ Len(prog) = 3 => /\ Head(prog).do = "write"
                             /\ Head(prog).what \in {"GetInfo", "GetHealth"}
         /\ Len(prog) = 2 => Head(prog).do = "descriptor"
         /\ Len(prog) = 1 => Head(prog).do = "payload"
<1>1. CASE op = "info"
  <2>1. /\ Len(info) = 3
        /\ info[1] = Write("GetInfo") /\ info[2] = Descriptor("info descriptor")
        /\ info[3] = Payload("info")
    BY DEF info
  <2>2. Operation(op) = info
    BY <1>1, OperationPrograms
  <2>3. /\ Len(prog) \in 1..Len(info) /\ Head(prog) = info[Len(info) - Len(prog) + 1]
    BY <2>2, Point
  <2>4. /\ Len(prog) \in 1..3
        /\ Len(prog) = 3 => Head(prog) = info[1]
        /\ Len(prog) = 2 => Head(prog) = info[2]
        /\ Len(prog) = 1 => Head(prog) = info[3]
    BY <2>1, <2>3, CountBackThree
  <2>5. /\ Len(prog) = 3 => Head(prog) = Write("GetInfo")
        /\ Len(prog) = 2 => Head(prog) = Descriptor("info descriptor")
        /\ Len(prog) = 1 => Head(prog) = Payload("info")
    BY <2>1, <2>4
  <2>6. /\ Write("GetInfo").do = "write" /\ Write("GetInfo").what = "GetInfo"
        /\ Descriptor("info descriptor").do = "descriptor" /\ Payload("info").do = "payload"
    BY Fields
  <2> QED BY <2>4, <2>5, <2>6, Zenon
<1>2. CASE op = "health"
  <2>1. /\ Len(health) = 3
        /\ health[1] = Write("GetHealth") /\ health[2] = Descriptor("health descriptor")
        /\ health[3] = Payload("health")
    BY DEF health
  <2>2. Operation(op) = health
    BY <1>2, OperationPrograms
  <2>3. /\ Len(prog) \in 1..Len(health) /\ Head(prog) = health[Len(health) - Len(prog) + 1]
    BY <2>2, Point
  <2>4. /\ Len(prog) \in 1..3
        /\ Len(prog) = 3 => Head(prog) = health[1]
        /\ Len(prog) = 2 => Head(prog) = health[2]
        /\ Len(prog) = 1 => Head(prog) = health[3]
    BY <2>1, <2>3, CountBackThree
  <2>5. /\ Len(prog) = 3 => Head(prog) = Write("GetHealth")
        /\ Len(prog) = 2 => Head(prog) = Descriptor("health descriptor")
        /\ Len(prog) = 1 => Head(prog) = Payload("health")
    BY <2>1, <2>4
  <2>6. /\ Write("GetHealth").do = "write" /\ Write("GetHealth").what = "GetHealth"
        /\ Descriptor("health descriptor").do = "descriptor" /\ Payload("health").do = "payload"
    BY Fields
  <2> QED BY <2>4, <2>5, <2>6, Zenon
<1> QED BY <1>1, <1>2

LEMMA CaptureProgram ==
  ASSUME InProgram, prog # <<>>, NEW k \in {"info", "health"}, op = CaptureOf(k)
  PROVE  /\ Len(prog) \in 1..4
         /\ Len(prog) = 4 => Head(prog).do = "flush"
         /\ Len(prog) = 3 => Head(prog).do = "write" /\ Head(prog).what = Query(k).cmd
         /\ Len(prog) = 2 => Head(prog).do = "capture" /\ Head(prog).what = k
         /\ Len(prog) = 1 => Head(prog).do = "store" /\ Head(prog).what = k
<1> DEFINE P == capture_single(Query(k).cmd, k)
<1>1. /\ Len(P) = 4
      /\ P[1] = Flush /\ P[2] = Write(Query(k).cmd) /\ P[3] = Capture(k)
      /\ P[4] = Store(k)
  BY DEF capture_single, send
<1>2. Operation(op) = P
  BY OperationPrograms DEF CaptureOf, Query
<1> HIDE DEF P
<1>3. Len(prog) \in 1..Len(P) /\ Head(prog) = P[Len(P) - Len(prog) + 1]
  BY <1>2, Point
<1>4. /\ Len(prog) \in 1..4
      /\ Len(prog) = 4 => Head(prog) = P[1]
      /\ Len(prog) = 3 => Head(prog) = P[2]
      /\ Len(prog) = 2 => Head(prog) = P[3]
      /\ Len(prog) = 1 => Head(prog) = P[4]
  BY <1>1, <1>3, CountBackFour
<1> QED BY <1>1, <1>4, Fields

(* The step of a scan's recording with n to go.                            *)
RecordingStep(n, s) ==
  /\ n \in Nat /\ 0 < n /\ n <= 10
  /\ n = 10 => s.do = "flush"
  /\ n = 9 => s.do = "write" /\ s.what = "SetMotorPwm"
  /\ n = 8 => s.do = "sleep"
  /\ n = 7 => s.do = "write" /\ s.what = "Scan"
  /\ n = 6 => s.do = "stream"
  /\ n = 5 => s.do = "write" /\ s.what = "Stop"
  /\ n = 4 => s.do = "sleep"
  /\ n = 3 => s.do = "write" /\ s.what = "SetMotorPwm"
  /\ n = 2 => s.do = "flush anyway"
  /\ n = 1 => s.do = "store" /\ s.what = "scan"

LEMMA RecordingSteps ==
  ASSUME NEW n \in Nat, 0 < n, n <= 10, NEW s, s = capture_scan[10 - n + 1]
  PROVE  RecordingStep(n, s)
<1>1. /\ capture_scan[1] = Flush /\ capture_scan[2] = Write("SetMotorPwm")
      /\ capture_scan[3] = Sleep /\ capture_scan[4] = Write("Scan")
      /\ capture_scan[5] = Do("stream") /\ capture_scan[6] = Write("Stop")
      /\ capture_scan[7] = Sleep /\ capture_scan[8] = Write("SetMotorPwm")
      /\ capture_scan[9] = Do("flush anyway") /\ capture_scan[10] = Store("scan")
  BY DEF capture_scan, send
<1>2. /\ (n = 10 => s = capture_scan[1]) /\ (n = 9 => s = capture_scan[2])
      /\ (n = 8 => s = capture_scan[3]) /\ (n = 7 => s = capture_scan[4])
      /\ (n = 6 => s = capture_scan[5]) /\ (n = 5 => s = capture_scan[6])
      /\ (n = 4 => s = capture_scan[7]) /\ (n = 3 => s = capture_scan[8])
      /\ (n = 2 => s = capture_scan[9]) /\ (n = 1 => s = capture_scan[10])
  OBVIOUS
<1>3. /\ Write("SetMotorPwm").do = "write" /\ Write("SetMotorPwm").what = "SetMotorPwm"
      /\ Write("Scan").do = "write" /\ Write("Scan").what = "Scan"
      /\ Write("Stop").do = "write" /\ Write("Stop").what = "Stop"
      /\ Flush.do = "flush" /\ Sleep.do = "sleep" /\ Do("stream").do = "stream"
      /\ Do("flush anyway").do = "flush anyway"
      /\ Store("scan").do = "store" /\ Store("scan").what = "scan"
  BY Fields
<1> QED BY <1>1, <1>2, <1>3, Zenon DEF RecordingStep

LEMMA RecordingProgram ==
  ASSUME InProgram, prog # <<>>, op = "capture scan"
  PROVE  RecordingStep(Len(prog), Head(prog))
<1>1. Len(capture_scan) = 10
  BY DEF capture_scan
<1>2. /\ Len(prog) \in 1..Len(capture_scan)
      /\ Head(prog) = capture_scan[Len(capture_scan) - Len(prog) + 1]
  BY OperationPrograms, Point
<1>3. PICK m \in Nat : m = Len(capture_scan) /\ m = 10
  BY <1>1
<1>4. Len(prog) \in 1..m /\ Head(prog) = capture_scan[m - Len(prog) + 1]
  BY <1>2, <1>3
<1>5. Len(prog) \in Nat /\ 0 < Len(prog) /\ Len(prog) <= m
  BY <1>4, Within, Zenon
<1> QED BY <1>3, <1>4, <1>5, RecordingSteps, Zenon

(* A new call has its whole program to do.                                 *)
LEMMA Lengths ==
  /\ Len(Operation("open")) = 3 /\ Len(Operation("stop")) = 3
  /\ Len(Operation("info")) = 3 /\ Len(Operation("health")) = 3
  /\ \A k \in {"info", "health"} : Len(Operation(CaptureOf(k))) = 4
  /\ Len(Operation("capture scan")) = 10
<1>1. Len(stop) = 3 /\ Len(info) = 3 /\ Len(health) = 3
  BY DEF stop, info, health
<1>3. Len(capture_scan) = 10
  BY DEF capture_scan
<1>2. \A c, k : Len(capture_single(c, k)) = 4
  BY DEF capture_single
<1> QED BY <1>1, <1>2, <1>3, OperationPrograms DEF CaptureOf

(* Only a few operations do what these do.                                 *)
LEMMA WhoDoes ==
  ASSUME InProgram, prog # <<>>
  PROVE  /\ op = "start_scan" => Head(prog).do \in {"flush", "write", "sleep", "descriptor"}
         /\ op = "scans" => Head(prog).do = "scans" /\ Len(prog) = 1
<1>1. CASE op = "start_scan"
  <2> DEFINE M == {s \in Steps : s.do \in {"flush", "write", "sleep", "descriptor"}}
  <2>1. /\ Write("SetMotorPwm") \in M /\ Sleep \in M /\ Flush \in M
        /\ Write("Scan") \in M /\ Descriptor("scan descriptor") \in M
    BY StepTypes, Fields DEF Commands, Descriptors
  <2> HIDE DEF M
  <2>12. /\ \A a, b \in M : <<a, b>> \in Seq(M)
         /\ \A a \in M : <<a>> \in Seq(M)
         /\ <<>> \in Seq(M)
    OBVIOUS
  <2>2. <<Flush>> \in Seq(M)
    BY <2>1, <2>12
  <2>3. set_motor_pwm \in Seq(M)
    BY <2>1, <2>12 DEF set_motor_pwm
  <2>4. <<Write("Scan"), Descriptor("scan descriptor")>> \in Seq(M)
    BY <2>1, <2>12
  <2>5. <<Flush>> \o (IF motor_pwm > 0 THEN set_motor_pwm ELSE <<>>) \in Seq(M)
    BY <2>2, <2>3, <2>12, ConcatProperties
  <2>6. start_scan \in Seq(M)
    BY <2>4, <2>5, ConcatProperties DEF start_scan
  <2>7. Operation(op) = start_scan
    BY <1>1, OperationPrograms
  <2>8. /\ Len(prog) \in 1..Len(start_scan)
        /\ Head(prog) = start_scan[Len(start_scan) - Len(prog) + 1]
    BY <2>7, Point
  <2>9. Len(start_scan) \in Nat
    BY <2>6, LenProperties
  <2>10. Len(start_scan) - Len(prog) + 1 \in 1..Len(start_scan)
    BY <2>8, <2>9
  <2>11. Head(prog) \in M
    BY <2>6, <2>8, <2>10, ElementOfSeq
  <2> QED BY <1>1, <2>11 DEF M
<1>2. CASE op = "scans"
  <2>1. Len(<<Do("scans")>>) = 1 /\ <<Do("scans")>>[1] = Do("scans")
    OBVIOUS
  <2>2. Len(prog) \in 1..1 /\ Head(prog) = <<Do("scans")>>[1 - Len(prog) + 1]
    BY <1>2, <2>1, OperationPrograms, Point
  <2>3. Len(prog) = 1 /\ 1 - Len(prog) + 1 = 1
    BY <2>2
  <2>4. Head(prog) = Do("scans")
    BY <2>1, <2>2, <2>3
  <2> QED BY <1>2, <2>3, <2>4, Fields
<1> QED BY <1>1, <1>2

-----------------------------------------------------------------------------
(* Types, and the place in the program and the script.                     *)

(* A program is over when nothing is left of it.                           *)
LEMMA Over ==
  ASSUME NEW o \in Calls
  PROVE  /\ <<>> = Drop(Operation(o), Len(Operation(o)))
         /\ Operation(o) = Drop(Operation(o), 0)
         /\ Len(Operation(o)) \in Nat /\ 0 \in 0..Len(Operation(o))
         /\ Len(Operation(o)) \in 0..Len(Operation(o))
<1>1. Operation(o) \in Seq(Moves) /\ Len(Operation(o)) \in Nat
  BY OperationTypes, LenProperties
<1>2. /\ Drop(Operation(o), Len(Operation(o))) \in Seq(Moves)
      /\ Len(Drop(Operation(o), Len(Operation(o)))) = 0
  BY <1>1, DropType
<1>3. Operation(o) = Drop(Operation(o), 0)
  BY <1>1, SubSeqFull DEF Drop
<1> QED BY <1>1, <1>2, <1>3, EmptySeq

(* A call that begins.                                                     *)
LEMMA CallShape ==
  ASSUME Types, NEW o \in Calls, Call(o, Operation(o))
  PROVE  /\ HostTypes' /\ InProgram'
         /\ op' = o /\ prog' = Operation(o) /\ up' /\ call' = call + 1 /\ got' = <<>>
         /\ ~settled' /\ quiet' = Quiet /\ fresh' = clean /\ clean' = clean
         /\ ret' = "none" /\ ~spilled' /\ UNCHANGED <<cmds, mode, wire, torn, input>>
<1>1. call' \in 0..MaxCalls
  BY DeviceAssumption DEF Types, HostTypes, Call
<1>2. HostTypes'
  BY <1>1 DEF Types, HostTypes, Call, Quiet
<1>3. InProgram'
  BY Over DEF Call, InProgram
<1> QED BY <1>2, <1>3 DEF Call, device

(* A call that fails.                                                      *)
LEMMA FailShape ==
  ASSUME Types, InProgram, NEW e \in {"Failed", "Protocol"}, Fail(e)
  PROVE  /\ HostTypes' /\ InProgram'
         /\ prog' = <<>> /\ ret' = e /\ ~clean' /\ ~settled'
         /\ UNCHANGED <<op, call, quiet, fresh>>
<1>1. HostTypes'
  BY DEF Types, HostTypes, Fail
<1>2. InProgram'
  BY Over DEF Fail, InProgram
<1> QED BY <1>1, <1>2 DEF Fail

(* A step of a call that succeeds.                                         *)
LEMMA AdvanceShape ==
  ASSUME Types, InProgram, prog # <<>>, NEW lull \in BOOLEAN, Advance(lull)
  PROVE  /\ HostTypes' /\ InProgram'
         /\ Len(prog) \in Nat /\ Len(prog) >= 1 /\ Len(prog') = Len(prog) - 1
         /\ prog' = <<>> <=> Len(prog) = 1
         /\ Len(prog) = 1 =>
              /\ ret' = "Ok" /\ ~settled'
              /\ clean' = IF op \in {"open", "stop", "reset"}
                          THEN lull ELSE clean /\ op # "start_scan"
         /\ Len(prog) # 1 => ret' = "none" /\ clean' = clean /\ settled' = lull
         /\ UNCHANGED <<up, op, call, quiet, fresh>>
<1>1. /\ Len(prog) \in 1..Len(Operation(op)) /\ Len(Tail(prog)) = Len(prog) - 1
      /\ \E n \in 0..Len(Operation(op)) : Tail(prog) = Drop(Operation(op), n)
      /\ ret = "none" /\ up /\ fresh = clean /\ op \in Calls
      /\ Len(Operation(op)) \in Nat
  BY Point, Over
<1>2. prog' = Tail(prog)
  BY DEF Advance
<1>3. Len(prog) \in Nat /\ 0 < Len(prog)
  BY <1>1, Within, Zenon
<1>4. prog' \in Seq(Moves)
  BY <1>1, <1>2, OperationTypes, Dropping
<1>5. prog' = <<>> <=> Len(prog) = 1
  <2>1. prog' = <<>> <=> Len(prog') = 0
    BY <1>4, EmptySeq
  <2>2. PICK n \in Nat : n = Len(prog) /\ Len(prog') = n - 1
    BY <1>1, <1>2, <1>3
  <2> QED BY <2>1, <2>2
<1>6. Len(prog) > 1 <=> Len(prog) # 1
  <2>1. PICK n \in Nat : n = Len(prog) /\ 0 < n
    BY <1>3
  <2> QED BY <2>1
<1>7. /\ Len(prog) = 1 =>
           /\ ret' = "Ok" /\ ~settled'
           /\ clean' = IF op \in {"open", "stop", "reset"}
                       THEN lull ELSE clean /\ op # "start_scan"
      /\ Len(prog) # 1 => ret' = ret /\ clean' = clean /\ settled' = lull
  BY <1>6, Zenon DEF Advance
<1>8. UNCHANGED <<up, op, call, quiet, fresh>>
  BY DEF Advance
<1>9. clean' \in BOOLEAN /\ settled' \in BOOLEAN
  BY DEF Types, HostTypes, Advance
<1>10. HostTypes'
  BY <1>7, <1>8, <1>9 DEF Types, HostTypes
<1>11. InProgram'
  <2>1. prog' # <<>> => up' /\ fresh' = clean' /\ ret' = "none"
    BY <1>1, <1>5, <1>7, <1>8
  <2> QED BY <1>1, <1>2, <1>8, <2>1 DEF InProgram
<1>12. Len(prog) >= 1
  <2>1. PICK n \in Nat : n = Len(prog) /\ 0 < n
    BY <1>3
  <2> QED BY <2>1
<1> QED BY <1>1, <1>2, <1>3, <1>5, <1>7, <1>8, <1>10, <1>11, <1>12

(* The end of a process.                                                   *)
LEMMA LeaveShape ==
  ASSUME Types, NEW v, Leave(v)
  PROVE  /\ HostTypes' /\ InProgram'
         /\ example' = "none" /\ script' = <<>> /\ prog' = <<>> /\ ~up' /\ op' = "open"
         /\ ret' = "none" /\ got' = <<>> /\ ~clean' /\ ~fresh' /\ ~quiet' /\ ~settled'
         /\ verdict' = v /\ expired' = FALSE /\ fixtures' = fixtures /\ ~spilled'
         /\ UNCHANGED <<cmds, mode, wire, torn>> /\ input' \in {input, <<>>}
<1>1. /\ up' = FALSE /\ prog' = <<>> /\ op' = "open" /\ ret' = "none" /\ call' = call
      /\ ~clean' /\ ~fresh' /\ ~quiet' /\ ~settled'
      /\ {settled', quiet', clean', fresh'} \subseteq BOOLEAN
  BY DEF Leave, Close, Forget
<1>2. HostTypes'
  BY <1>1 DEF Types, HostTypes
<1>3. InProgram'
  BY <1>1, Over DEF InProgram, Calls
<1> QED BY <1>1, <1>2, <1>3 DEF Leave, Close, Forget, device

(* What the host does to the line.                                         *)
LEMMA LineTypes ==
  ASSUME DeviceTypeOK, UNCHANGED <<mode, wire, torn>>, spilled' \in BOOLEAN,
         cmds' \in Seq([cmd : Commands, call : 0..MaxCalls]),
         input' \in {input, <<>>} \/ \E n \in Nat : n <= Len(input) /\ input' = Drop(input, n)
  PROVE  DeviceTypeOK'
<1>1. input \in Seq(Part) /\ Len(input) \in Nat /\ Len(input) <= InputSize /\ InputSize \in Nat
  BY LenProperties, DeviceAssumption DEF DeviceTypeOK
<1>2. input' \in Seq(Part) /\ Len(input') <= InputSize
  <2>1. CASE input' = <<>>
    <3>1. <<>> \in Seq(Part) /\ Len(<<>>) = 0
      OBVIOUS
    <3>2. 0 <= InputSize
      BY <1>1
    <3> QED BY <2>1, <3>1, <3>2, Zenon
  <2>2. CASE input' = input
    BY <1>1, <2>2
  <2>3. ASSUME NEW n \in Nat, n <= Len(input), input' = Drop(input, n)
        PROVE  input' \in Seq(Part) /\ Len(input') <= InputSize
    <3>1. input' \in Seq(Part) /\ Len(input') = Len(input) - n
      BY <1>1, <2>3, DropType
    <3> QED BY <1>1, <3>1
  <2> QED BY <2>1, <2>2, <2>3
<1> QED BY <1>2 DEF DeviceTypeOK

(* What the steps of a program are about.                                  *)
LEMMA MoveFields ==
  ASSUME NEW s \in Moves
  PROVE  /\ s.do = "write" => s.what \in Commands
         /\ s.do = "descriptor" => s.what \in Kinds
         /\ s.do = "payload" => s.what \in {"info", "health"}
         /\ s.do = "capture" => s.what \in {"info", "health"}
         /\ s.do = "store" => s.what \in {"info", "health", "scan"}
BY DEF Moves, Steps, Kinds

(* A running call goes on, fails, or reads without an end.                 *)
Goes ==
  \/ \E e \in {"Failed", "Protocol"} : Fail(e)
  \/ prog # <<>> /\ \E lull \in BOOLEAN : Advance(lull)
  \/ /\ Doing("stream") \/ Doing("scans")
     /\ UNCHANGED <<up, op, prog, call, settled, quiet, clean, fresh, ret>>

LEMMA GoesShape ==
  ASSUME Types, InProgram, Goes
  PROVE  HostTypes' /\ InProgram' /\ UNCHANGED <<op, call, quiet, fresh>>
<1>1. ASSUME UNCHANGED <<up, op, prog, call, settled, quiet, clean, fresh, ret>>
      PROVE  HostTypes' /\ InProgram'
  BY <1>1 DEF Types, HostTypes, InProgram
<1> QED BY <1>1, FailShape, AdvanceShape DEF Goes

(* What is read is part of what was received.                              *)
LEMMA TakeType ==
  ASSUME DeviceTypeOK, NEW n \in Nat, n <= Len(input)
  PROVE  /\ SubSeq(input, 1, n) \in Seq(Part) /\ Len(SubSeq(input, 1, n)) = n
         /\ Len(input) \in Nat /\ n <= InputSize /\ InputSize \in Nat
<1>1. input \in Seq(Part) /\ Len(input) \in Nat /\ Len(input) <= InputSize /\ InputSize \in Nat
  BY LenProperties, DeviceAssumption DEF DeviceTypeOK
<1>2. \A i \in 1..n : input[i] \in Part
  BY <1>1, ElementOfSeq
<1> QED BY <1>1, <1>2, SubSeqProperties

(* The target of a recording is more than nothing.                         *)
LEMMA TargetType ==
  /\ Target \in Nat \ {0}
  /\ DESCRIPTOR_LEN \in Nat \ {0} /\ SCAN_NODE_LEN \in Nat \ {0} /\ nodes \in Nat \ {0}
<1>1. DESCRIPTOR_LEN \in Nat \ {0} /\ SCAN_NODE_LEN \in Nat \ {0} /\ nodes \in Nat \ {0}
  BY DeviceAssumption, ExamplesAssumption
<1>2. nodes * SCAN_NODE_LEN \in Nat
  BY <1>1
<1> QED BY <1>1, <1>2 DEF Target

(* The reads of a single capture and of a query ask for something.         *)
LEMMA ReadLengths ==
  ASSUME InProgram
  PROVE  /\ Doing("capture") => CaptureLen \in Nat \ {0}
         /\ Doing("descriptor") \/ Doing("payload") => Wanted \in Nat \ {0}
<1>1. ASSUME prog # <<>>, Head(prog).do \in {"capture", "descriptor", "payload"}
      PROVE  Size(Head(prog).what) \in Nat \ {0}
  <2>1. Head(prog) \in Moves
    BY <1>1, Point
  <2>2. Head(prog).what \in Kinds
    <3>1. {"info", "health"} \subseteq Kinds
      BY DEF Kinds, Sizes
    <3> QED BY <1>1, <2>1, <3>1, MoveFields
  <2> QED BY <2>2, SizeType
<1>2. ASSUME Doing("capture") PROVE CaptureLen \in Nat \ {0}
  <2>1. Size(Head(prog).what) \in Nat \ {0}
    BY <1>1, <1>2 DEF Doing
  <2> QED BY <2>1, TargetType DEF CaptureLen
<1>3. ASSUME Doing("descriptor") \/ Doing("payload") PROVE Wanted \in Nat \ {0}
  BY <1>1, <1>3 DEF Doing, Wanted
<1> QED BY <1>2, <1>3

(* What the steps of a call do, all together.                              *)
Parts == /\ got' \in Seq(Part) /\ Len(got') <= Target + InputSize - 1
         /\ fixtures' \in [{"info", "health", "scan"} -> Seq(Part)]
         /\ verdict' \in Verdicts
         /\ DeviceTypeOK'

CallStep == (Run /\ UNCHANGED process) \/ RecordStep \/ ScanLoop

LEMMA CallStepGoes ==
  ASSUME Types, InProgram, CallStep
  PROVE  Goes /\ prog # <<>> /\ UNCHANGED <<mode, wire, torn, spilled, example, script, expired>>
<1>1. settled \in BOOLEAN /\ Quiet \in BOOLEAN
  BY DEF Types, HostTypes, Quiet
<1>2. CASE Run /\ UNCHANGED process
  BY <1>1, <1>2 DEF Run, request, sleep, discard_input, read_descriptor, read_payload,
                    ReadFails, Goes, Doing, device, process
<1>3. CASE RecordStep
  BY <1>1, <1>3 DEF RecordStep, capture, CaptureFails, Read, StreamEnds, FlushAnyway,
                    Unusable, write_fixture, Goes, Doing, device, process
<1>4. CASE ScanLoop
  BY <1>1, <1>4 DEF ScanLoop, Scanning, ScansEnd, ScansFail, Goes, Doing, device, process
<1> QED BY <1>2, <1>3, <1>4 DEF CallStep

(* It keeps the types.                                                     *)
LEMMA CallStepTypes ==
  ASSUME Types, InProgram, GotBounded, CallStep
  PROVE  Parts
<1>0. /\ DeviceTypeOK /\ got \in Seq(Part) /\ Len(got) <= Target + InputSize - 1
      /\ fixtures \in [{"info", "health", "scan"} -> Seq(Part)] /\ verdict \in Verdicts
      /\ cmds \in Seq([cmd : Commands, call : 0..MaxCalls]) /\ spilled \in BOOLEAN
  BY DEF Types, ProcessTypes, GotBounded, DeviceTypeOK
<1>1. UNCHANGED <<mode, wire, torn>> /\ spilled' \in BOOLEAN /\ prog # <<>>
  BY <1>0, CallStepGoes
<1>2. Head(prog) \in Moves
  BY <1>1, Point
<1>3. ASSUME cmds' \in Seq([cmd : Commands, call : 0..MaxCalls]),
             input' \in {input, <<>>}
               \/ \E n \in Nat : n <= Len(input) /\ input' = Drop(input, n),
             got' \in Seq(Part) /\ Len(got') <= Target + InputSize - 1,
             UNCHANGED <<fixtures, verdict>>
      PROVE  Parts
  <2>1. DeviceTypeOK'
    BY <1>0, <1>1, <1>3, LineTypes
  <2> QED BY <1>0, <1>3, <2>1 DEF Parts
<1>4. ASSUME NEW m \in Nat, m > 0, \E lost \in 0 .. m - 1 : lost <= Len(input) /\ input' = Drop(input, lost)
      PROVE  \E n \in Nat : n <= Len(input) /\ input' = Drop(input, n)
  BY <1>4
<1>5. ASSUME NEW n \in Nat, n <= Len(input), got' = SubSeq(input, 1, n)
      PROVE  got' \in Seq(Part) /\ Len(got') <= Target + InputSize - 1
  <2>1. /\ got' \in Seq(Part) /\ Len(got') = n /\ n <= InputSize /\ InputSize \in Nat
    BY <1>0, <1>5, TakeType
  <2>2. Target \in Nat \ {0}
    BY TargetType
  <2> QED BY <2>1, <2>2
<1>6. ASSUME NEW n, n \in 1..Len(input)
      PROVE  n \in Nat /\ n <= Len(input)
  <2>1. Len(input) \in Nat
    BY <1>0, LenProperties DEF DeviceTypeOK
  <2> QED BY <1>6, <2>1
<1>7. CASE Run /\ UNCHANGED process
  <2>0. UNCHANGED <<fixtures, verdict>>
    BY <1>7 DEF process
  <2>1. CASE request
    <3> DEFINE sent == Append(cmds, [cmd |-> Head(prog).what, call |-> call])
    <3>1. Head(prog).what \in Commands
      BY <1>2, <2>1, MoveFields DEF request, Doing
    <3>2. sent \in Seq([cmd : Commands, call : 0..MaxCalls])
      BY <1>0, <3>1 DEF Types, HostTypes
    <3>3. cmds' \in {cmds, sent} /\ got' = got /\ input' = input
      BY <2>1 DEF request
    <3> QED BY <1>0, <1>3, <2>0, <3>2, <3>3
  <2>2. CASE sleep \/ discard_input
    <3>1. cmds' = cmds /\ got' = got /\ input' \in {input, <<>>}
      BY <2>2 DEF sleep, discard_input, device
    <3> QED BY <1>0, <1>3, <2>0, <3>1
  <2>3. CASE read_descriptor \/ read_payload
    <3>1. Wanted \in Nat \ {0} /\ Len(input) >= Wanted /\ input' = Drop(input, Wanted)
          /\ cmds' = cmds /\ (got' = got \/ got' = SubSeq(input, 1, Wanted))
      BY <2>3, ReadLengths DEF read_descriptor, read_payload, ReadExact, Taken, device
    <3>2. Wanted \in Nat /\ Wanted <= Len(input)
      <4>1. Len(input) \in Nat
        BY <1>0, LenProperties DEF DeviceTypeOK
      <4> QED BY <3>1, <4>1
    <3>3. got' \in Seq(Part) /\ Len(got') <= Target + InputSize - 1
      BY <1>0, <1>5, <3>1, <3>2
    <3> QED BY <1>0, <1>3, <2>0, <3>1, <3>2, <3>3
  <2>4. CASE ReadFails
    <3>1. Wanted \in Nat /\ Wanted > 0 /\ cmds' = cmds /\ got' = got
          /\ \E lost \in 0 .. Wanted - 1 : lost <= Len(input) /\ input' = Drop(input, lost)
      BY <2>4, ReadLengths DEF ReadFails, device
    <3> QED BY <1>0, <1>3, <1>4, <2>0, <3>1
  <2> QED BY <1>7, <2>1, <2>2, <2>3, <2>4 DEF Run
<1>8. CASE RecordStep
  <2>1. CASE capture
    <3>1. CaptureLen \in Nat \ {0} /\ Len(input) >= CaptureLen
          /\ input' = Drop(input, CaptureLen) /\ cmds' = cmds
          /\ got' = SubSeq(input, 1, CaptureLen) /\ UNCHANGED <<fixtures, verdict>>
      BY <2>1, ReadLengths DEF capture, device, process
    <3>2. CaptureLen \in Nat /\ CaptureLen <= Len(input)
      <4>1. Len(input) \in Nat
        BY <1>0, LenProperties DEF DeviceTypeOK
      <4> QED BY <3>1, <4>1
    <3>3. got' \in Seq(Part) /\ Len(got') <= Target + InputSize - 1
      BY <1>5, <3>1, <3>2
    <3> QED BY <1>0, <1>3, <3>1, <3>2, <3>3
  <2>2. CASE CaptureFails
    <3>1. CaptureLen \in Nat /\ CaptureLen > 0 /\ cmds' = cmds /\ got' = got
          /\ \E lost \in 0 .. CaptureLen - 1 : lost <= Len(input) /\ input' = Drop(input, lost)
          /\ UNCHANGED <<fixtures, verdict>>
      BY <2>2, ReadLengths DEF CaptureFails, device, process
    <3> QED BY <1>0, <1>3, <1>4, <3>1
  <2>3. CASE Read
    <3>1. PICK n \in 1..Len(input) : got' = got \o SubSeq(input, 1, n) /\ input' = Drop(input, n)
      BY <2>3 DEF Read
    <3>2. n \in Nat /\ n <= Len(input)
      BY <1>6
    <3>3. /\ SubSeq(input, 1, n) \in Seq(Part) /\ Len(SubSeq(input, 1, n)) = n
          /\ n <= InputSize /\ InputSize \in Nat
      BY <1>0, <3>2, TakeType
    <3>4. got' \in Seq(Part) /\ Len(got') = Len(got) + n
      BY <1>0, <3>1, <3>3, ConcatProperties
    <3>5. Len(got) < Target /\ UNCHANGED <<fixtures, verdict>> /\ cmds' = cmds
      BY <2>3 DEF Read, device, process
    <3>6. Len(got') <= Target + InputSize - 1
      <4>1. Len(got) \in Nat /\ Target \in Nat
        BY <1>0, LenProperties, TargetType
      <4> QED BY <3>2, <3>3, <3>4, <3>5, <4>1
    <3> QED BY <1>0, <1>3, <3>1, <3>2, <3>4, <3>5, <3>6
  <2>4. CASE StreamEnds \/ FlushAnyway
    <3>1. cmds' = cmds /\ got' = got /\ input' \in {input, <<>>} /\ UNCHANGED <<fixtures, verdict>>
      BY <2>4 DEF StreamEnds, FlushAnyway, device, process
    <3> QED BY <1>0, <1>3, <3>1
  <2>5. CASE Unusable \/ write_fixture
    <3>1. cmds' = cmds /\ got' = got /\ input' = input
      BY <2>5 DEF Unusable, write_fixture, device
    <3>2. DeviceTypeOK'
      BY <1>0, <1>1, <3>1, LineTypes
    <3>3. Head(prog).what \in {"info", "health", "scan"}
      BY <1>2, <2>5, MoveFields DEF Unusable, write_fixture, Doing
    <3>4. fixtures' \in [{"info", "health", "scan"} -> Seq(Part)]
      BY <1>0, <2>5, <3>3 DEF Unusable, write_fixture
    <3>5. verdict' \in Verdicts
      BY <1>0, <2>5 DEF Unusable, write_fixture, Verdicts
    <3> QED BY <1>0, <3>1, <3>2, <3>4, <3>5 DEF Parts
  <2> QED BY <1>8, <2>1, <2>2, <2>3, <2>4, <2>5 DEF RecordStep
<1>9. CASE ScanLoop
  <2>1. cmds' = cmds /\ got' = got /\ UNCHANGED <<fixtures, verdict>>
    BY <1>9 DEF ScanLoop, Scanning, ScansEnd, ScansFail, device, process
  <2>2. \/ input' = input
        \/ \E n \in 1..Len(input) : input' = Drop(input, n)
        \/ \E n \in 0..Len(input) : input' = Drop(input, n)
    <3>1. CASE Scanning
      BY <3>1, Zenon DEF Scanning
    <3>2. CASE ScansEnd
      BY <3>2 DEF ScansEnd
    <3>3. CASE ScansFail
      BY <3>3, Zenon DEF ScansFail
    <3> QED BY <1>9, <3>1, <3>2, <3>3 DEF ScanLoop
  <2>3. Len(input) \in Nat
    BY <1>0, LenProperties DEF DeviceTypeOK
  <2>4. input' = input \/ \E n \in Nat : n <= Len(input) /\ input' = Drop(input, n)
    BY <2>2, <2>3
  <2> QED BY <1>0, <1>3, <2>1, <2>4
<1> QED BY <1>7, <1>8, <1>9 DEF CallStep

(* The scripts.                                                            *)
LEMMA ScriptTypes ==
  ASSUME NEW m \in Mains
  PROVE  /\ Script[m] \in Seq(Calls) /\ Len(Script[m]) \in Nat /\ 1 \in 1..Len(Script[m])
         /\ Script[m][1] = "open" /\ m # "none"
         /\ Tail(Script[m]) = Drop(Script[m], 1)
<1>1. /\ InfoMain \in Seq(Calls) /\ BasicScanMain \in Seq(Calls)
      /\ RerunVizMain \in Seq(Calls) /\ RecordMain \in Seq(Calls)
  BY DEF InfoMain, BasicScanMain, RerunVizMain, RecordMain, Calls
<1>2. /\ Len(InfoMain) = 3 /\ Len(BasicScanMain) = 6 /\ Len(RerunVizMain) = 6
      /\ Len(RecordMain) = 4
      /\ InfoMain[1] = "open" /\ BasicScanMain[1] = "open" /\ RerunVizMain[1] = "open"
      /\ RecordMain[1] = "open"
  BY DEF InfoMain, BasicScanMain, RerunVizMain, RecordMain
<1>3. m \in {"info", "basic_scan", "rerun_viz", "record"}
  BY ExamplesAssumption
<1>4. Script[m] \in {InfoMain, BasicScanMain, RerunVizMain, RecordMain}
  BY <1>3 DEF Script
<1>5. /\ Script[m] \in Seq(Calls) /\ Script[m][1] = "open"
      /\ Len(Script[m]) \in Nat /\ Len(Script[m]) > 0
  <2> DEFINE Good(p) == p \in Seq(Calls) /\ p[1] = "open" /\ Len(p) \in Nat /\ Len(p) > 0
  <2>1. Good(InfoMain) /\ Good(BasicScanMain) /\ Good(RerunVizMain) /\ Good(RecordMain)
    BY <1>1, <1>2
  <2> HIDE DEF Good
  <2>2. Good(Script[m])
    BY <1>4, <2>1
  <2> QED BY <2>2 DEF Good
<1>6. Tail(Script[m]) = Drop(Script[m], 1)
  <2>1. Script[m] = Drop(Script[m], 0) /\ 0 \in 0..Len(Script[m]) /\ 0 + 1 = 1
    BY <1>5, SubSeqFull DEF Drop
  <2>2. Script[m] # <<>>
    BY <1>5, EmptySeq
  <2>3. Tail(Drop(Script[m], 0)) = Drop(Script[m], 0 + 1)
    BY <1>5, <2>1, <2>2, Dropping
  <2> QED BY <2>1, <2>3, Zenon
<1> QED BY <1>3, <1>5, <1>6

(* A call that begins in a running example.                                *)
LEMMA CallStarts ==
  ASSUME Shape, NEW o \in Calls, Call(o, Operation(o)), ProcessTypes', InScript'
  PROVE  Shape'
<1>1. HostTypes' /\ InProgram' /\ got' = <<>> /\ spilled' = FALSE
      /\ UNCHANGED <<cmds, mode, wire, torn, input>>
  BY CallShape DEF Shape
<1>2. DeviceTypeOK'
  BY <1>1 DEF Shape, Types, DeviceTypeOK
<1>3. got' \in Seq(Part) /\ GotBounded'
  <2>1. InputSize \in Nat /\ Target \in Nat \ {0}
    BY DeviceAssumption, TargetType
  <2>2. 0 <= Target + InputSize - 1
    BY <2>1
  <2>3. Len(<<>>) = 0
    OBVIOUS
  <2>4. Target' = Target
    BY DEF Target
  <2> QED BY <1>1, <2>2, <2>3, <2>4 DEF GotBounded
<1> QED BY <1>1, <1>2, <1>3 DEF Shape, Types

LEMMA StartShape ==
  ASSUME Shape, Start
  PROVE  Shape'
<1>1. PICK m \in Mains : example' = m /\ script' = Tail(Script[m])
  BY DEF Start
<1>2. "open" \in Calls /\ Call("open", Operation("open"))
  BY OperationPrograms, ProgramTypes DEF Start, Calls
<1>3. op' = "open" /\ prog' = Operation("open")
  BY <1>2 DEF Call
<1>4. ProcessTypes'
  <2>1. fixtures' \in [{"info", "health", "scan"} -> Seq(Part)]
    BY DEF Start, NoFixtures
  <2> QED BY <1>1, <2>1 DEF Start, ProcessTypes, Verdicts
<1>5. InScript'
  BY <1>1, <1>3, ScriptTypes DEF InScript
<1> QED BY <1>2, <1>4, <1>5, CallStarts

(* The next operation is one of the script's.                              *)
LEMMA NextOperation ==
  ASSUME InScript, ProcessTypes, example # "none", script # <<>>
  PROVE  /\ example \in Mains /\ Head(script) \in Calls
         /\ \E n \in 1..Len(Script[example]) :
              /\ n + 1 \in 1..Len(Script[example]) /\ op = Script[example][n]
              /\ Head(script) = Script[example][n + 1]
              /\ Tail(script) = Drop(Script[example], n + 1)
<1> DEFINE p == Script[example]
<1>1. example \in Mains
  BY DEF ProcessTypes
<1>2. PICK n \in 1..Len(p) : op = p[n] /\ script = Drop(p, n)
  BY DEF InScript
<1>3. p \in Seq(Calls) /\ Len(p) \in Nat
  BY <1>1, ScriptTypes
<1>4. n \in 0..Len(p)
  BY <1>2, <1>3
<1>5. /\ n + 1 \in 1..Len(p) /\ Head(script) = p[n + 1] /\ Tail(script) = Drop(p, n + 1)
  BY <1>2, <1>3, <1>4, Dropping
<1>6. Head(script) \in Calls
  BY <1>3, <1>5, ElementOfSeq
<1> QED BY <1>1, <1>2, <1>5, <1>6

LEMMA ContinueShape ==
  ASSUME Shape, Continue
  PROVE  Shape'
<1>0. InScript /\ ProcessTypes /\ example # "none" /\ script # <<>>
  BY DEF Shape, Types, Continue
<1>1. Head(script) \in Calls /\ Call(Head(script), Operation(Head(script)))
  BY <1>0, NextOperation DEF Continue
<1>2. op' = Head(script) /\ script' = Tail(script) /\ UNCHANGED <<example, expired, fixtures, verdict>>
  BY DEF Continue, Call
<1>3. ProcessTypes'
  BY <1>0, <1>2 DEF ProcessTypes
<1>4. InScript'
  BY <1>0, <1>2, NextOperation DEF InScript
<1> QED BY <1>1, <1>3, <1>4, CallStarts

LEMMA CallStepShape ==
  ASSUME Shape, CallStep
  PROVE  Shape'
<1>1. Types /\ InProgram /\ InScript /\ GotBounded
  BY DEF Shape
<1>2. HostTypes' /\ InProgram' /\ op' = op
  BY <1>1, CallStepGoes, GoesShape
<1>3. prog # <<>> /\ UNCHANGED <<example, script, expired>>
  BY <1>1, CallStepGoes
<1>4. Parts
  BY <1>1, CallStepTypes
<1>5. Types'
  BY <1>1, <1>2, <1>3, <1>4 DEF Types, ProcessTypes, Parts
<1>6. InScript'
  BY <1>1, <1>2, <1>3 DEF InScript
<1>7. GotBounded'
  BY <1>4 DEF GotBounded, Parts, Target
<1> QED BY <1>2, <1>5, <1>6, <1>7 DEF Shape

LEMMA LeavingShape ==
  ASSUME Shape, NEW v \in Verdicts, Leave(v)
  PROVE  Shape'
<1>1. /\ HostTypes' /\ InProgram' /\ prog' = <<>> /\ ~up' /\ ret' = "none" /\ got' = <<>>
      /\ example' = "none" /\ script' = <<>> /\ verdict' = v /\ expired' = FALSE
      /\ fixtures' = fixtures /\ spilled' = FALSE
      /\ UNCHANGED <<cmds, mode, wire, torn>> /\ input' \in {input, <<>>}
  <2>1. Types
    BY DEF Shape
  <2>2. spilled' = FALSE
    BY DEF Leave, Close, Forget
  <2> QED BY <2>1, <2>2, LeaveShape
<1>2. DeviceTypeOK'
  BY <1>1, LineTypes DEF Shape, Types, DeviceTypeOK
<1>3. got' \in Seq(Part) /\ GotBounded'
  <2>1. InputSize \in Nat /\ Target \in Nat \ {0}
    BY DeviceAssumption, TargetType
  <2>2. 0 <= Target + InputSize - 1
    BY <2>1
  <2>3. Len(<<>>) = 0
    OBVIOUS
  <2>4. Target' = Target
    BY DEF Target
  <2> QED BY <1>1, <2>2, <2>3, <2>4 DEF GotBounded
<1>4. ProcessTypes' /\ InScript'
  BY <1>1 DEF Shape, Types, ProcessTypes, InScript
<1> QED BY <1>1, <1>2, <1>3, <1>4 DEF Shape, Types

(* The verdict of a process that ends.                                     *)
LEMMA Leaving ==
  ASSUME ProcessTypes, Exit \/ Kill
  PROVE  \E v \in Verdicts : Leave(v)
BY DEF Exit, Kill, ProcessTypes, Verdicts

(* The steps of ExamplesNext, one by one.                                  *)
LEMMA StepByStep ==
  ASSUME [ExamplesNext]_allVars
  PROVE  \/ Start \/ Continue \/ CallStep \/ Exit \/ Kill \/ Tick
         \/ DeviceNext(up) /\ UNCHANGED <<host, process>>
         \/ UNCHANGED allVars
BY DEF ExamplesNext, ProgramStep, CallStep

LEMMA ShapeStep ==
  ASSUME Shape, [ExamplesNext]_allVars
  PROVE  Shape'
<1>1. CASE Start
  BY <1>1, StartShape
<1>2. CASE Continue
  BY <1>2, ContinueShape
<1>3. CASE CallStep
  BY <1>3, CallStepShape
<1>4. CASE Exit \/ Kill
  BY <1>4, Leaving, LeavingShape DEF Shape, Types
<1>5. CASE Tick
  BY <1>5 DEF Tick, vars, host, device, Shape, Types, HostTypes, ProcessTypes, DeviceTypeOK,
              InProgram, InScript, GotBounded, Target
<1>6. CASE DeviceNext(up) /\ UNCHANGED <<host, process>>
  <2>1. DeviceTypeOK'
    BY <1>6, DeviceTypes DEF Shape, Types
  <2> QED BY <1>6, <2>1 DEF host, process, Shape, Types, HostTypes, ProcessTypes,
                            InProgram, InScript, GotBounded, Target
<1>7. CASE UNCHANGED allVars
  BY <1>7 DEF allVars, vars, host, device, process, Shape, Types, HostTypes, ProcessTypes,
              DeviceTypeOK, InProgram, InScript, GotBounded, Target
<1> QED BY <1>1, <1>2, <1>3, <1>4, <1>5, <1>6, <1>7, StepByStep

LEMMA ShapeInit ==
  ASSUME ExamplesInit
  PROVE  Shape
<1>1. HostTypes
  <2>1. 0 \in 0..MaxCalls
    BY DeviceAssumption
  <2> QED BY <2>1 DEF ExamplesInit, Init, HostTypes
<1>2. DeviceTypeOK
  <2>1. 0 <= InputSize /\ InitialModes \subseteq {"idle", "scanning"}
    BY DeviceAssumption
  <2>2. Len(<<>>) = 0 /\ <<>> \in Seq(Part)
        /\ <<>> \in Seq([cmd : Commands, call : 0..MaxCalls])
    OBVIOUS
  <2> QED BY <2>1, <2>2 DEF ExamplesInit, Init, DeviceInit, DeviceTypeOK
<1>3. ProcessTypes
  <2>1. NoFixtures \in [{"info", "health", "scan"} -> Seq(Part)]
    BY DEF NoFixtures
  <2> QED BY <2>1 DEF ExamplesInit, ProcessTypes, Verdicts
<1>4. got \in Seq(Part) /\ GotBounded
  <2>1. InputSize \in Nat /\ Target \in Nat \ {0}
    BY DeviceAssumption, TargetType
  <2>2. 0 <= Target + InputSize - 1
    BY <2>1
  <2>3. Len(<<>>) = 0 /\ got = <<>>
    BY DEF ExamplesInit, Init
  <2> QED BY <2>2, <2>3 DEF GotBounded
<1>5. InProgram
  <2>1. "open" \in Calls
    BY DEF Calls
  <2> QED BY <2>1, Over DEF InProgram, ExamplesInit, Init
<1>6. InScript
  BY DEF InScript, ExamplesInit, Init
<1> QED BY <1>1, <1>2, <1>3, <1>4, <1>5, <1>6 DEF Shape, Types

(* Whatever the examples do, every operation of theirs is at a point of    *)
(* its program and every process at one of its script, and the capture loop*)
(* of record takes at most one buffer beyond its target                    *)
(* (record.rs:134-150).                                                    *)
THEOREM ExamplesShape == ExamplesSpec => []Shape
BY ShapeInit, ShapeStep, PTL DEF ExamplesSpec

(* The variables of the example programs keep their types, and no program  *)
(* that has ended leaves an operation or an open port behind.              *)
THEOREM ProcessesTyped == ExamplesSpec => []ProcessTypeOK
<1>1. Shape => ProcessTypeOK
  BY DEF Shape, Types, ProcessTypes, ProcessTypeOK, InScript, GotBounded, Verdicts
<1> QED BY <1>1, ExamplesShape, PTL

-----------------------------------------------------------------------------
(* Verdicts, and a device that is left idle.                               *)

(* A step of a call is the one its program says.                           *)
LEMMA Deed ==
  ASSUME CallStep
  PROVE  /\ Doing("write") => request
         /\ Doing("sleep") => sleep
         /\ Doing("flush") => discard_input
         /\ Doing("capture") => capture \/ CaptureFails
         /\ Doing("stream") => Read \/ StreamEnds
         /\ Doing("flush anyway") => FlushAnyway
         /\ Doing("store") => Unusable \/ write_fixture
         /\ ~Doing("store") => UNCHANGED <<fixtures, verdict>>
         /\ ~Doing("write") => UNCHANGED cmds
         /\ ~(Doing("payload") \/ Doing("capture") \/ Doing("stream")) => UNCHANGED got
BY DEF CallStep, Run, request, sleep, discard_input, read_descriptor, read_payload, ReadFails,
       RecordStep, capture, CaptureFails, Read, StreamEnds, FlushAnyway, Unusable, write_fixture,
       ScanLoop, Scanning, ScansEnd, ScansFail, Doing, device, process

(* How far it gets.                                                        *)
LEMMA Counts ==
  ASSUME Types, InProgram, CallStep
  PROVE  /\ Len(prog) \in Nat /\ Len(prog) >= 1 /\ ret = "none" /\ op' = op
         /\ \/ prog' = <<>> /\ Len(prog') = 0 /\ ret' \in {"Failed", "Protocol"} /\ ~clean'
            \/ /\ Len(prog') = Len(prog) - 1
               /\ Len(prog) = 1 => prog' = <<>> /\ ret' = "Ok"
               /\ Len(prog) # 1 => ret' = "none"
            \/ prog' = prog /\ ret' = "none" /\ (Doing("stream") \/ Doing("scans"))
<1>1. Goes /\ prog # <<>>
  BY CallStepGoes
<1>2. ret = "none" /\ Len(prog) \in 1..Len(Operation(op)) /\ Len(Operation(op)) \in Nat
  BY <1>1, Point, Over
<1>3. Len(prog) \in Nat /\ 0 < Len(prog)
  BY <1>2, Within, Zenon
<1>4. Len(prog) >= 1
  <2>1. PICK n \in Nat : n = Len(prog) /\ 0 < n
    BY <1>3
  <2> QED BY <2>1
<1>5. CASE \E e \in {"Failed", "Protocol"} : Fail(e)
  <2>1. /\ prog' = <<>> /\ ret' \in {"Failed", "Protocol"} /\ ~clean' /\ op' = op
    BY <1>5, FailShape
  <2>2. Len(<<>>) = 0
    OBVIOUS
  <2> QED BY <1>2, <1>3, <1>4, <2>1, <2>2, Zenon
<1>6. CASE \E lull \in BOOLEAN : Advance(lull)
  <2>1. /\ Len(prog') = Len(prog) - 1 /\ op' = op
        /\ Len(prog) = 1 => prog' = <<>> /\ ret' = "Ok"
        /\ Len(prog) # 1 => ret' = "none"
    BY <1>1, <1>6, AdvanceShape
  <2> QED BY <1>2, <1>3, <1>4, <2>1, Zenon
<1>7. CASE /\ Doing("stream") \/ Doing("scans")
           /\ UNCHANGED <<up, op, prog, call, settled, quiet, clean, fresh, ret>>
  BY <1>2, <1>3, <1>4, <1>7
<1> QED BY <1>1, <1>5, <1>6, <1>7 DEF Goes

(* The points of a program.                                                *)
LEMMA UpTo ==
  /\ \A n \in 1..3 : n = 1 \/ n = 2 \/ n = 3
  /\ \A n \in 1..4 : n = 1 \/ n = 2 \/ n = 3 \/ n = 4
  /\ \A n \in 1..6 : n = 1 \/ n = 2 \/ n = 3 \/ n = 4 \/ n = 5 \/ n = 6
OBVIOUS

LEMMA Backwards ==
  ASSUME NEW n, NEW m, m = n - 1
  PROVE  /\ (n = 10 => m = 9) /\ (n = 9 => m = 8) /\ (n = 8 => m = 7) /\ (n = 7 => m = 6)
         /\ (n = 6 => m = 5) /\ (n = 5 => m = 4) /\ (n = 4 => m = 3) /\ (n = 3 => m = 2)
         /\ (n = 2 => m = 1)
OBVIOUS

LEMMA RecordingPoints ==
  ASSUME NEW n, NEW s, RecordingStep(n, s)
  PROVE  \/ n = 1 /\ s.do = "store" /\ s.what = "scan"
         \/ n = 2 /\ s.do = "flush anyway"
         \/ n = 3 /\ s.do = "write" /\ s.what = "SetMotorPwm"
         \/ n = 4 /\ s.do = "sleep"
         \/ n = 5 /\ s.do = "write" /\ s.what = "Stop"
         \/ n = 6 /\ s.do = "stream"
         \/ n = 7 /\ s.do = "write" /\ s.what = "Scan"
         \/ n = 8 /\ s.do = "sleep"
         \/ n = 9 /\ s.do = "write" /\ s.what = "SetMotorPwm"
         \/ n = 10 /\ s.do = "flush"
<1>1. n \in Nat /\ 0 < n /\ n <= 10
  BY Zenon DEF RecordingStep
<1>2. \/ n = 1 \/ n = 2 \/ n = 3 \/ n = 4 \/ n = 5
      \/ n = 6 \/ n = 7 \/ n = 8 \/ n = 9 \/ n = 10
  BY <1>1
<1> QED BY <1>2, Zenon DEF RecordingStep

(* Where a fixture is stored.                                              *)
LEMMA Storing ==
  ASSUME InProgram, Doing("store")
  PROVE  /\ Len(prog) = 1
         /\ \/ op = "capture scan" /\ Head(prog).what = "scan"
            \/ op = "capture info" /\ Head(prog).what = "info"
            \/ op = "capture health" /\ Head(prog).what = "health"
<1>1. prog # <<>> /\ Head(prog).do = "store" /\ op \in Calls
  BY DEF Doing, InProgram
<1>2. op \notin {"open", "stop"}
  <2> SUFFICES ASSUME op \in {"open", "stop"} PROVE FALSE
    OBVIOUS
  <2>1. /\ Len(prog) = 3 \/ Len(prog) = 2 \/ Len(prog) = 1
        /\ Len(prog) = 3 => Head(prog).do = "write"
        /\ Len(prog) = 2 => Head(prog).do = "sleep"
        /\ Len(prog) = 1 => Head(prog).do = "flush"
    BY <1>1, HandshakeProgram, UpTo, Zenon
  <2> QED BY <1>1, <2>1, Zenon
<1>3. op \notin {"info", "health"}
  <2> SUFFICES ASSUME op \in {"info", "health"} PROVE FALSE
    OBVIOUS
  <2>1. /\ Len(prog) = 3 \/ Len(prog) = 2 \/ Len(prog) = 1
        /\ Len(prog) = 3 => Head(prog).do = "write"
        /\ Len(prog) = 2 => Head(prog).do = "descriptor"
        /\ Len(prog) = 1 => Head(prog).do = "payload"
    BY <1>1, QueryProgram, UpTo, Zenon
  <2> QED BY <1>1, <2>1, Zenon
<1>4. op \notin {"start_scan", "scans"}
  BY <1>1, WhoDoes
<1>5. ASSUME NEW k \in {"info", "health"}, op = CaptureOf(k)
      PROVE  Len(prog) = 1 /\ Head(prog).what = k
  <2>1. /\ Len(prog) = 4 \/ Len(prog) = 3 \/ Len(prog) = 2 \/ Len(prog) = 1
        /\ Len(prog) = 4 => Head(prog).do = "flush"
        /\ Len(prog) = 3 => Head(prog).do = "write"
        /\ Len(prog) = 2 => Head(prog).do = "capture"
        /\ Len(prog) = 1 => Head(prog).what = k
    BY <1>1, <1>5, CaptureProgram, UpTo, Zenon
  <2> QED BY <1>1, <2>1, Zenon
<1>6. op = "capture scan" => Len(prog) = 1 /\ Head(prog).what = "scan"
  <2> SUFFICES ASSUME op = "capture scan" PROVE Len(prog) = 1 /\ Head(prog).what = "scan"
    OBVIOUS
  <2>1. RecordingStep(Len(prog), Head(prog))
    BY <1>1, RecordingProgram
  <2> QED BY <1>1, <2>1, RecordingPoints, Zenon
<1>7. /\ op = "capture info" => Len(prog) = 1 /\ Head(prog).what = "info"
      /\ op = "capture health" => Len(prog) = 1 /\ Head(prog).what = "health"
  BY <1>5 DEF CaptureOf
<1> QED BY <1>1, <1>2, <1>3, <1>4, <1>6, <1>7 DEF Calls

(* What comes before what in a script, and last.                           *)
InOrder(before, after) ==
  /\ before # "capture scan" /\ after # "open"
  /\ after \in {"info", "capture info"} => before = "open"
  /\ after = "health" => before = "info"
  /\ after = "capture health" => before = "capture info"
  /\ after = "capture scan" => before = "capture health"

(* The nth operation of a script of so many.                               *)
Placed(p, len, n) ==
  /\ n + 1 \in 1..len => InOrder(p[n], p[n + 1])
  /\ n = len => p[n] \in {"health", "stop", "capture scan"}

(* The numbers of the operations.                                          *)
LEMMA Numbers ==
  /\ {1, 2, 3, 4, 5, 6} \subseteq Nat
  /\ 2 = 1 + 1 /\ 3 = 2 + 1 /\ 4 = 3 + 1 /\ 5 = 4 + 1 /\ 6 = 5 + 1
  /\ \A len \in {3, 4, 6} : 1 < len /\ 2 < len
  /\ \A len \in {4, 6} : 3 < len
  /\ 4 < 6 /\ 5 < 6
  /\ \A len \in Nat : len + 1 \notin 1..len
OBVIOUS

LEMMA PlacedBefore ==
  ASSUME NEW p, NEW len \in Nat, NEW i \in Nat, i < len, NEW j, j = i + 1, InOrder(p[i], p[j])
  PROVE  Placed(p, len, i)
<1>1. i # len
  OBVIOUS
<1> QED BY <1>1, Zenon DEF Placed

LEMMA PlacedLast ==
  ASSUME NEW p, NEW len \in Nat, p[len] \in {"health", "stop", "capture scan"}
  PROVE  Placed(p, len, len)
BY Numbers, Zenon DEF Placed

LEMMA PlacedInfo == \A n \in 1..3 : Placed(InfoMain, 3, n)
<1> DEFINE p == InfoMain
<1>1. /\ InOrder(p[1], p[2]) /\ InOrder(p[2], p[3])
      /\ p[3] \in {"health", "stop", "capture scan"}
  BY DEF InfoMain, InOrder
<1> HIDE DEF p
<1>2. Placed(p, 3, 1) /\ Placed(p, 3, 2) /\ Placed(p, 3, 3)
  BY <1>1, PlacedBefore, PlacedLast, Numbers, Zenon
<1> QED BY <1>2, UpTo DEF p

LEMMA PlacedBasicScan == \A n \in 1..6 : Placed(BasicScanMain, 6, n)
<1> DEFINE p == BasicScanMain
<1>1. /\ InOrder(p[1], p[2]) /\ InOrder(p[2], p[3]) /\ InOrder(p[3], p[4])
      /\ InOrder(p[4], p[5]) /\ InOrder(p[5], p[6])
      /\ p[6] \in {"health", "stop", "capture scan"}
  BY DEF BasicScanMain, InOrder
<1> HIDE DEF p
<1>2. /\ Placed(p, 6, 1) /\ Placed(p, 6, 2) /\ Placed(p, 6, 3) /\ Placed(p, 6, 4)
      /\ Placed(p, 6, 5) /\ Placed(p, 6, 6)
  BY <1>1, PlacedBefore, PlacedLast, Numbers, Zenon
<1> QED BY <1>2, UpTo DEF p

LEMMA PlacedRecord == \A n \in 1..4 : Placed(RecordMain, 4, n)
<1> DEFINE p == RecordMain
<1>1. /\ InOrder(p[1], p[2]) /\ InOrder(p[2], p[3]) /\ InOrder(p[3], p[4])
      /\ p[4] \in {"health", "stop", "capture scan"}
  BY DEF RecordMain, InOrder
<1> HIDE DEF p
<1>2. Placed(p, 4, 1) /\ Placed(p, 4, 2) /\ Placed(p, 4, 3) /\ Placed(p, 4, 4)
  BY <1>1, PlacedBefore, PlacedLast, Numbers, Zenon
<1> QED BY <1>2, UpTo DEF p

LEMMA ScriptOrder ==
  ASSUME NEW m \in Mains
  PROVE  \A n \in 1..Len(Script[m]) : Placed(Script[m], Len(Script[m]), n)
<1>1. m \in {"info", "basic_scan", "rerun_viz", "record"}
  BY ExamplesAssumption
<1>2. /\ Len(InfoMain) = 3 /\ Len(BasicScanMain) = 6 /\ RerunVizMain = BasicScanMain
      /\ Len(RecordMain) = 4
  BY DEF InfoMain, BasicScanMain, RerunVizMain, RecordMain
<1>3. Script[m] \in {InfoMain, BasicScanMain, RecordMain}
  BY <1>1, <1>2 DEF Script
<1> QED BY <1>2, <1>3, PlacedInfo, PlacedBasicScan, PlacedRecord

(* The next operation, and the last.                                       *)
LEMMA NextInOrder ==
  ASSUME InScript, ProcessTypes, example # "none", script # <<>>
  PROVE  Head(script) \in Calls /\ InOrder(op, Head(script))
BY NextOperation, ScriptOrder DEF Placed

LEMMA LastOperation ==
  ASSUME InScript, ProcessTypes, example # "none", script = <<>>
  PROVE  op \in {"health", "stop", "capture scan"}
<1> DEFINE p == Script[example]
<1>1. example \in Mains
  BY DEF ProcessTypes
<1>2. PICK n \in 1..Len(p) : op = p[n] /\ script = Drop(p, n)
  BY DEF InScript
<1>3. p \in Seq(Calls) /\ Len(p) \in Nat /\ n \in 0..Len(p)
  BY <1>1, <1>2, ScriptTypes
<1>4. Len(script) = Len(p) - n /\ Len(<<>>) = 0
  BY <1>2, <1>3, Dropping
<1>5. n = Len(p)
  BY <1>3, <1>4
<1> QED BY <1>1, <1>2, <1>5, ScriptOrder DEF Placed

(* What idle means to the requests on their way.                           *)
LEMMA IdleAppend ==
  ASSUME DeviceTypeOK, WillBeIdle, mode' = mode, NEW q, cmds' = Append(cmds, q), q.cmd # "Scan"
  PROVE  WillBeIdle'
<1>1. PICK n \in Nat : n = Len(cmds) /\ cmds \in Seq([cmd : Commands, call : 0..MaxCalls])
  BY LenProperties DEF DeviceTypeOK
<1>2. /\ Len(cmds') = n + 1 /\ cmds'[n + 1] = q /\ DOMAIN cmds' = 1 .. n + 1
      /\ DOMAIN cmds = 1..n
      /\ \A i \in 1..n : cmds'[i] = cmds[i]
  BY <1>1, AppendProperties, LenProperties
<1>3. CASE mode # "scanning" /\ \A i \in DOMAIN cmds : cmds[i].cmd # "Scan"
  BY <1>2, <1>3 DEF WillBeIdle
<1>4. ASSUME NEW i \in DOMAIN cmds, cmds[i].cmd = "Stop",
             \A j \in i + 1 .. Len(cmds) : cmds[j].cmd # "Scan"
      PROVE  WillBeIdle'
  <2>1. i \in DOMAIN cmds' /\ cmds'[i].cmd = "Stop"
    BY <1>2, <1>4
  <2>2. \A j \in i + 1 .. Len(cmds') : cmds'[j].cmd # "Scan"
    <3> TAKE j \in i + 1 .. Len(cmds')
    <3>1. j = n + 1 \/ (j \in 1..n /\ j \in i + 1 .. n)
      BY <1>2, <1>4
    <3> QED BY <1>1, <1>2, <1>4, <3>1
  <2> QED BY <2>1, <2>2 DEF WillBeIdle
<1> QED BY <1>3, <1>4 DEF WillBeIdle

LEMMA StopAppend ==
  ASSUME DeviceTypeOK, NEW q, cmds' = Append(cmds, q), q.cmd = "Stop"
  PROVE  WillBeIdle'
<1>1. PICK n \in Nat : n = Len(cmds) /\ cmds \in Seq([cmd : Commands, call : 0..MaxCalls])
  BY LenProperties DEF DeviceTypeOK
<1>2. Len(cmds') = n + 1 /\ cmds'[n + 1] = q /\ DOMAIN cmds' = 1 .. n + 1
  BY <1>1, AppendProperties, LenProperties
<1>3. n + 1 \in DOMAIN cmds' /\ cmds'[n + 1].cmd = "Stop"
  BY <1>2
<1>4. \A j \in (n + 1) + 1 .. Len(cmds') : cmds'[j].cmd # "Scan"
  BY <1>2
<1> QED BY <1>3, <1>4 DEF WillBeIdle

LEMMA IdleDevice ==
  ASSUME DeviceTypeOK, WillBeIdle, NEW open, DeviceNext(open)
  PROVE  WillBeIdle'
<1>1. PICK n \in Nat : n = Len(cmds) /\ cmds \in Seq([cmd : Commands, call : 0..MaxCalls])
  BY LenProperties DEF DeviceTypeOK
<1>2. DOMAIN cmds = 1..n
  BY <1>1
<1>3. CASE Hear
  <2>1. cmds # <<>> /\ cmds' = Tail(cmds)
    BY <1>3 DEF Hear
  <2>2. /\ n \in Nat \ {0} /\ Len(cmds') = n - 1 /\ DOMAIN cmds' = 1 .. n - 1
        /\ Head(cmds) = cmds[1]
        /\ \A i \in 1 .. n - 1 : cmds'[i] = cmds[i + 1]
    BY <1>1, <2>1, HeadTailProperties, EmptySeq, LenProperties
  <2>3. CASE mode # "scanning" /\ \A i \in DOMAIN cmds : cmds[i].cmd # "Scan"
    <3>1. Head(cmds).cmd # "Scan"
      BY <1>2, <2>2, <2>3
    <3>2. mode' # "scanning"
      BY <1>3, <2>3, <3>1 DEF Hear
    <3>3. \A i \in DOMAIN cmds' : cmds'[i].cmd # "Scan"
      <4> TAKE i \in DOMAIN cmds'
      <4>1. i \in 1 .. n - 1 /\ i + 1 \in 1..n
        BY <2>2
      <4> QED BY <1>2, <2>2, <2>3, <4>1
    <3> QED BY <3>2, <3>3 DEF WillBeIdle
  <2>4. ASSUME NEW i \in DOMAIN cmds, cmds[i].cmd = "Stop",
               \A j \in i + 1 .. Len(cmds) : cmds[j].cmd # "Scan"
        PROVE  WillBeIdle'
    <3>0. i \in Nat /\ 0 < i /\ i <= n
      BY <1>2, <2>4
    <3>1. CASE i = 1
      <4>1. Head(cmds).cmd = "Stop"
        BY <2>2, <2>4, <3>1
      <4>2. mode' \in {"idle", "booting"}
        BY <1>3, <4>1 DEF Hear
      <4>3. \A j \in DOMAIN cmds' : cmds'[j].cmd # "Scan"
        <5> TAKE j \in DOMAIN cmds'
        <5>1. j \in 1 .. n - 1 /\ j + 1 \in i + 1 .. n
          BY <2>2, <3>1
        <5> QED BY <1>1, <2>2, <2>4, <5>1
      <4> QED BY <4>2, <4>3 DEF WillBeIdle
    <3>2. CASE i # 1
      <4>1. PICK k \in Nat : k = i - 1 /\ k + 1 = i /\ k \in 1 .. n - 1
        BY <2>2, <3>0, <3>2
      <4>2. k \in DOMAIN cmds' /\ cmds'[k].cmd = "Stop"
        BY <2>2, <2>4, <4>1
      <4>3. \A j \in k + 1 .. Len(cmds') : cmds'[j].cmd # "Scan"
        <5> TAKE j \in k + 1 .. Len(cmds')
        <5>1. j \in 1 .. n - 1 /\ j + 1 \in i + 1 .. n
          BY <2>2, <4>1
        <5> QED BY <1>1, <2>2, <2>4, <5>1
      <4> QED BY <4>2, <4>3 DEF WillBeIdle
    <3> QED BY <3>1, <3>2
  <2> QED BY <2>3, <2>4 DEF WillBeIdle
<1>4. CASE Stream \/ Boot \/ Arrive(open)
  <2>1. cmds' = cmds /\ mode' \in {mode, "idle"}
    BY <1>4 DEF Stream, Boot, Arrive
  <2> QED BY <2>1 DEF WillBeIdle
<1> QED BY <1>3, <1>4 DEF DeviceNext

(* A recording that is OK has enough nodes.                                *)
LEMMA EnoughNodes ==
  ASSUME NEW l \in Nat, NEW d \in Nat, NEW s \in Nat \ {0}, NEW n \in Nat,
         l >= d, (l - d) \div s >= n
  PROVE  l >= d + n * s
<1> DEFINE x == l - d
<1>1. x \in Nat
  OBVIOUS
<1>2. /\ x = s * (x \div s) + (x % s) /\ x % s \in Nat /\ x \div s \in Nat
      /\ x \div s >= n
  BY <1>1
<1>3. PICK q \in Nat, r \in Nat : x = s * q + r /\ q >= n
  BY <1>2
<1>4. s * q >= s * n /\ s * n = n * s
  BY <1>3
<1>5. x >= n * s /\ n * s \in Nat
  BY <1>3, <1>4
<1> QED BY <1>1, <1>5

(* A verdict is the end of a recording, and stays.                         *)
LEMMA JudgedCallStep ==
  ASSUME Shape, Judged, CallStep
  PROVE  /\ Judged' /\ verdict = "none"
         /\ verdict' # "none" => Doing("store") /\ op = "capture scan" /\ Len(prog) = 1
<1>1. Types /\ InProgram /\ InScript
  BY DEF Shape
<1>2. prog # <<>> /\ op' = op /\ example' = example
  BY <1>1, CallStepGoes, Counts
<1>3. verdict = "none"
  BY <1>1, <1>2 DEF InScript, Judged
<1>4. CASE ~Doing("store")
  BY <1>3, <1>4, Deed DEF Judged
<1>5. CASE Doing("store")
  <2>1. /\ Len(prog) = 1
        /\ \/ op = "capture scan" /\ Head(prog).what = "scan"
           \/ op # "capture scan" /\ Head(prog).what # "scan"
    BY <1>1, <1>5, Storing
  <2>2. CASE Unusable
    <3>1. verdict' = "unusable" /\ prog' = <<>> /\ op = "capture scan"
      BY <2>1, <2>2 DEF Unusable, Fail
    <3> QED BY <1>2, <1>3, <1>5, <2>1, <3>1 DEF Judged
  <2>3. CASE write_fixture
    <3>1. CASE UNCHANGED <<fixtures, verdict>>
      BY <1>3, <1>5, <3>1 DEF Judged
    <3>2. CASE Advance(settled)
      <4>1. prog' = <<>>
        BY <1>1, <1>2, <2>1, <3>2, AdvanceShape DEF Types, HostTypes
      <4>2. CASE Head(prog).what # "scan"
        BY <1>3, <2>3, <4>2 DEF write_fixture, Judged
      <4>3. CASE Head(prog).what = "scan"
        <5>1. op = "capture scan"
          BY <2>1, <4>3
        <5>2. CASE verdict' = "OK"
          <6>1. StartsWithDescriptor(got) /\ NodesCaptured >= nodes
            BY <1>3, <2>3, <4>3, <5>2 DEF write_fixture
          <6>2. fixtures'["scan"] = got
            BY <1>1, <1>3, <2>3, <4>3, <5>2 DEF write_fixture, Types, ProcessTypes
          <6>3. Len(got) \in Nat /\ Len(got) >= DESCRIPTOR_LEN
            BY <1>1, <6>1, LenProperties DEF Types, StartsWithDescriptor
          <6>4. (Len(got) - DESCRIPTOR_LEN) \div SCAN_NODE_LEN >= nodes
            BY <6>1 DEF NodesCaptured
          <6>5. /\ DESCRIPTOR_LEN \in Nat /\ SCAN_NODE_LEN \in Nat \ {0} /\ nodes \in Nat
            BY TargetType
          <6>6. Len(got) >= DESCRIPTOR_LEN + nodes * SCAN_NODE_LEN
            BY <6>3, <6>4, <6>5, EnoughNodes
          <6>7. Target' = DESCRIPTOR_LEN + nodes * SCAN_NODE_LEN
            BY DEF Target
          <6> QED BY <1>2, <1>3, <1>5, <2>1, <4>1, <5>1, <6>2, <6>6, <6>7 DEF Judged
        <5>3. CASE verdict' # "OK"
          BY <1>2, <1>3, <1>5, <2>1, <4>1, <5>1, <5>3 DEF Judged
        <5> QED BY <5>2, <5>3
      <4> QED BY <4>2, <4>3
    <3> QED BY <2>3, <3>1, <3>2 DEF write_fixture
  <2> QED BY <1>5, <2>2, <2>3, Deed
<1> QED BY <1>4, <1>5

LEMMA JudgedStep ==
  ASSUME Shape, Judged, [ExamplesNext]_allVars
  PROVE  Judged'
<1>1. CASE Start
  BY <1>1 DEF Start, Judged
<1>2. CASE Continue
  <2>1. InOrder(op, Head(script)) /\ UNCHANGED <<example, fixtures, verdict>> /\ example # "none"
    BY <1>2, NextInOrder DEF Shape, Types, Continue
  <2>2. verdict = "none"
    BY <2>1 DEF Judged, InOrder
  <2> QED BY <2>1, <2>2 DEF Judged
<1>3. CASE CallStep
  BY <1>3, JudgedCallStep
<1>4. CASE Exit
  <2>1. example' = "none" /\ fixtures' = fixtures /\ (verdict' = "OK" => verdict = "OK")
    BY <1>4 DEF Exit, Leave
  <2> QED BY <2>1 DEF Judged, Target
<1>5. CASE Kill
  BY <1>5 DEF Kill, Leave, Judged
<1>6. CASE Tick
  BY <1>6 DEF Tick, vars, host, Judged, Target
<1>7. CASE UNCHANGED <<host, process>>
  BY <1>7 DEF host, process, Judged, Target
<1>8. CASE UNCHANGED allVars
  BY <1>8 DEF allVars, vars, host, process, Judged, Target
<1> QED BY <1>1, <1>2, <1>3, <1>4, <1>5, <1>6, <1>7, <1>8, StepByStep

(* Outside a scan nothing asks for one.                                    *)
LEMMA NotScan ==
  ASSUME InProgram, Doing("write"), op \in {"info", "health", "capture info", "capture health"}
  PROVE  Head(prog).what # "Scan"
<1>1. prog # <<>> /\ Head(prog).do = "write"
  BY DEF Doing
<1>2. CASE op \in {"info", "health"}
  <2>1. /\ Len(prog) = 3 \/ Len(prog) = 2 \/ Len(prog) = 1
        /\ Len(prog) = 3 => Head(prog).what \in {"GetInfo", "GetHealth"}
        /\ Len(prog) = 2 => Head(prog).do = "descriptor"
        /\ Len(prog) = 1 => Head(prog).do = "payload"
    BY <1>1, <1>2, QueryProgram, UpTo, Zenon
  <2>2. Head(prog).what \in {"GetInfo", "GetHealth"}
    BY <1>1, <2>1, Zenon
  <2> QED BY <2>2
<1>3. ASSUME NEW k \in {"info", "health"}, op = CaptureOf(k)
      PROVE  Head(prog).what # "Scan"
  <2>1. /\ Len(prog) = 4 \/ Len(prog) = 3 \/ Len(prog) = 2 \/ Len(prog) = 1
        /\ Len(prog) = 4 => Head(prog).do = "flush"
        /\ Len(prog) = 3 => Head(prog).what = Query(k).cmd
        /\ Len(prog) = 2 => Head(prog).do = "capture"
        /\ Len(prog) = 1 => Head(prog).do = "store"
    BY <1>1, <1>3, CaptureProgram, UpTo, Zenon
  <2>2. Head(prog).what = Query(k).cmd
    BY <1>1, <2>1, Zenon
  <2> QED BY <2>2 DEF Query
<1> QED BY <1>2, <1>3 DEF CaptureOf

LEMMA IdleSame ==
  ASSUME WillBeIdle, UNCHANGED <<cmds, mode>>
  PROVE  WillBeIdle'
BY DEF WillBeIdle

(* A request is sent, or the call is over.                                 *)
LEMMA Wrote ==
  ASSUME request
  PROVE  LET sent == Append(cmds, [cmd |-> Head(prog).what, call |-> call])
         IN  /\ UNCHANGED <<mode, wire, input>> /\ cmds' \in {cmds, sent}
             /\ (prog' = <<>> /\ ret' = "Failed") \/ cmds' = sent
BY DEF request, Fail

(* Where nothing is owed.                                                  *)
LEMMA Elsewhere ==
  /\ \A n : n = 0 => n \notin {1, 2}
  /\ \A n : n = 0 \/ n = 5 \/ n = 6 => n \notin {1, 2, 3, 4, 7, 8, 9, 10}
OBVIOUS

LEMMA StoppedElsewhere ==
  ASSUME op' \notin {"info", "health", "capture info", "capture health"},
         op' \in {"open", "stop"} => Len(prog') \notin {1, 2} /\ ret' # "Ok",
         op' = "capture scan" =>
           Len(prog') \notin {1, 2, 3, 4, 7, 8, 9, 10} /\ ret' # "Ok"
  PROVE  Stopped'
BY Zenon DEF Stopped

(* A call keeps the device stopped.                                        *)
LEMMA StoppedCallStep ==
  ASSUME Shape, Judged, Stopped, CallStep
  PROVE  Stopped' /\ LeftIdle'
<1> DEFINE sent == Append(cmds, [cmd |-> Head(prog).what, call |-> call])
<1>1. Types /\ InProgram /\ InScript /\ DeviceTypeOK
  BY DEF Shape, Types
<1>2. prog # <<>> /\ op' = op /\ example' = example /\ mode' = mode /\ example # "none"
  BY <1>1, CallStepGoes, Counts DEF InScript
<1>3. /\ ret = "none"
      /\ \/ prog' = <<>> /\ Len(prog') = 0 /\ ret' \in {"Failed", "Protocol"}
         \/ Len(prog') = Len(prog) - 1 /\ (Len(prog) # 1 => ret' = "none")
         \/ prog' = prog /\ ret' = "none" /\ (Doing("stream") \/ Doing("scans"))
  BY <1>1, Counts
<1>4. ~Doing("write") => cmds' = cmds
  BY Deed
<1>5. WillBeIdle' => Stopped'
  BY DEF Stopped
<1>6. ASSUME prog' = <<>>, ret' = "Failed",
             op \notin {"info", "health", "capture info", "capture health"}
      PROVE  Stopped'
  <2>1. Len(<<>>) = 0
    OBVIOUS
  <2>2. Len(prog') = 0
    BY <1>6, <2>1, Zenon
  <2>3. Len(prog') \notin {1, 2} /\ Len(prog') \notin {1, 2, 3, 4, 7, 8, 9, 10} /\ ret' # "Ok"
    BY <1>6, <2>2, Elsewhere, Zenon
  <2>4. op' \notin {"info", "health", "capture info", "capture health"}
    BY <1>2, <1>6
  <2> QED BY <2>3, <2>4, StoppedElsewhere
<1>7. ASSUME WillBeIdle, Doing("write") => Head(prog).what # "Scan"
      PROVE  WillBeIdle'
  <2>1. CASE cmds' = cmds
    BY <1>2, <1>7, <2>1, IdleSame
  <2>2. CASE Doing("write") /\ cmds' = sent
    BY <1>1, <1>2, <1>7, <2>2, IdleAppend
  <2> QED BY <1>4, <2>1, <2>2, Deed, Wrote
<1>8. ASSUME Doing("write"), Head(prog).what = "Stop",
             op \notin {"info", "health", "capture info", "capture health"}
      PROVE  Stopped'
  <2>1. CASE cmds' = sent
    BY <1>1, <1>5, <1>8, <2>1, StopAppend
  <2> QED BY <1>6, <1>8, <2>1, Deed, Wrote
<1>9. Stopped'
  <2>1. CASE op \in {"open", "stop"}
    <3>1. /\ Len(prog) = 3 \/ Len(prog) = 2 \/ Len(prog) = 1
          /\ Len(prog) = 3 => Head(prog).do = "write" /\ Head(prog).what = "Stop"
          /\ Len(prog) = 2 => Head(prog).do = "sleep"
          /\ Len(prog) = 1 => Head(prog).do = "flush"
      BY <1>1, <1>2, <2>1, HandshakeProgram, UpTo, Zenon
    <3>2. CASE Len(prog) = 3
      BY <1>2, <1>8, <2>1, <3>1, <3>2 DEF Doing
    <3>3. CASE Len(prog) \in {1, 2}
      <4>1. WillBeIdle
        BY <1>2, <2>1, <3>3 DEF Stopped
      <4>2. ~Doing("write")
        BY <3>1, <3>3 DEF Doing
      <4> QED BY <1>5, <1>7, <4>1, <4>2
    <3> QED BY <3>1, <3>2, <3>3
  <2>2. CASE op \in {"info", "health", "capture info", "capture health"}
    <3>1. WillBeIdle
      BY <1>2, <2>2 DEF Stopped
    <3> QED BY <1>1, <1>5, <1>7, <2>2, <3>1, NotScan
  <2>3. CASE op = "capture scan"
    <3>1. RecordingStep(Len(prog), Head(prog))
      BY <1>1, <1>2, <2>3, RecordingProgram
    <3>2. CASE Len(prog) = 7
      <4>1. ~(Doing("stream") \/ Doing("scans"))
        <5>1. Head(prog).do = "write"
          BY <3>1, <3>2, Zenon DEF RecordingStep
        <5> QED BY <5>1 DEF Doing
      <4>2. \/ Len(prog') = 0 /\ ret' \in {"Failed", "Protocol"}
            \/ Len(prog') = 6 /\ ret' = "none"
        BY <1>3, <3>2, <4>1, Backwards
      <4>3. Len(prog') \notin {1, 2, 3, 4, 7, 8, 9, 10} /\ ret' # "Ok"
        BY <4>2, Elsewhere, Zenon
      <4> QED BY <1>2, <2>3, <4>3, StoppedElsewhere
    <3>3. CASE Len(prog) = 6
      <4>1. \/ Len(prog') = 0 /\ ret' \in {"Failed", "Protocol"}
            \/ (Len(prog') = 5 \/ Len(prog') = 6) /\ ret' = "none"
        BY <1>3, <3>3, Backwards
      <4>2. Len(prog') \notin {1, 2, 3, 4, 7, 8, 9, 10} /\ ret' # "Ok"
        BY <4>1, Elsewhere, Zenon
      <4> QED BY <1>2, <2>3, <4>2, StoppedElsewhere
    <3>4. CASE Len(prog) = 5
      <4>1. Doing("write") /\ Head(prog).what = "Stop"
        <5>1. Head(prog).do = "write" /\ Head(prog).what = "Stop"
          BY <3>1, <3>4, Zenon DEF RecordingStep
        <5> QED BY <1>2, <5>1 DEF Doing
      <4> QED BY <1>8, <2>3, <4>1
    <3>5. CASE Len(prog) \in {1, 2, 3, 4, 8, 9, 10}
      <4>1. WillBeIdle
        BY <1>2, <2>3, <3>5 DEF Stopped
      <4>2. Doing("write") => Head(prog).what # "Scan"
        <5>1. \/ Head(prog).do # "write" \/ Head(prog).what # "Scan" \/ Len(prog) \in {5, 7}
          BY <3>1, RecordingPoints
        <5>2. Len(prog) \notin {5, 7}
          BY <3>5
        <5> QED BY <5>1, <5>2, Zenon DEF Doing
      <4> QED BY <1>5, <1>7, <4>1, <4>2
    <3>6. Len(prog) \in {1, 2, 3, 4, 5, 6, 7, 8, 9, 10}
      BY <3>1, RecordingPoints
    <3> QED BY <3>2, <3>3, <3>4, <3>5, <3>6
  <2>4. CASE op \in {"start_scan", "scans"}
    BY <1>2, <2>4 DEF Stopped
  <2> QED BY <1>1, <2>1, <2>2, <2>3, <2>4 DEF InProgram, Calls
<1>10. LeftIdle'
  <2>1. CASE verdict' = "none"
    BY <2>1 DEF LeftIdle
  <2>2. CASE verdict' # "none"
    <3>1. Doing("store") /\ op = "capture scan" /\ Len(prog) = 1
      BY <2>2, JudgedCallStep
    <3>2. WillBeIdle /\ ~Doing("write")
      BY <1>2, <3>1 DEF Stopped, Doing
    <3> QED BY <1>2, <1>4, <3>2, IdleSame DEF LeftIdle
  <2> QED BY <2>1, <2>2
<1> QED BY <1>9, <1>10

LEMMA StoppedStep ==
  ASSUME Shape, Judged, Stopped, LeftIdle, [ExamplesNext]_allVars
  PROVE  Stopped' /\ LeftIdle'
<1>0. Types /\ InProgram /\ InScript /\ ProcessTypes /\ DeviceTypeOK
  BY DEF Shape, Types
<1>1. CASE Start
  <2>1. op' = "open" /\ verdict' = "none" /\ Len(prog') = 3 /\ ret' = "none"
    BY <1>1, Lengths, OperationPrograms, ProgramTypes DEF Start, Call
  <2>2. Stopped'
    <3>1. Len(prog') \notin {1, 2} /\ ret' # "Ok"
      BY <2>1
    <3> QED BY <2>1, <3>1, StoppedElsewhere
  <2>3. LeftIdle'
    BY <2>1 DEF LeftIdle
  <2> QED BY <2>2, <2>3
<1>2. CASE Continue
  <2>1. /\ InOrder(op, Head(script)) /\ op' = Head(script) /\ verdict' = verdict
        /\ prog' = Operation(Head(script)) /\ ret' = "none" /\ ret = "Ok"
        /\ example # "none" /\ UNCHANGED <<cmds, mode>>
    BY <1>0, <1>2, NextInOrder DEF Continue, Call, device
  <2>2. LeftIdle'
    BY <2>1 DEF LeftIdle, Judged, InOrder
  <2>3. CASE op' \in {"open", "stop"}
    <3>1. Len(prog') = 3
      BY <2>1, <2>3, Lengths
    <3>2. Len(prog') \notin {1, 2} /\ ret' # "Ok"
      BY <2>1, <3>1
    <3>3. Stopped'
      BY <2>3, <3>2, StoppedElsewhere
    <3> QED BY <2>2, <3>3
  <2>4. CASE op' \in {"info", "health", "capture info", "capture health", "capture scan"}
    <3>1. WillBeIdle
      BY <2>1, <2>4 DEF InOrder, Stopped
    <3>2. Stopped'
      BY <2>1, <3>1, IdleSame DEF Stopped
    <3> QED BY <2>2, <3>2
  <2>5. CASE op' \in {"start_scan", "scans"}
    <3>1. Stopped'
      BY <2>5 DEF Stopped
    <3> QED BY <2>2, <3>1
  <2>6. op' \in Calls
    BY <1>0, <1>2, <2>1, NextInOrder DEF Continue
  <2> QED BY <2>2, <2>3, <2>4, <2>5, <2>6 DEF Calls
<1>3. CASE CallStep
  BY <1>3, StoppedCallStep
<1>4. CASE Exit
  <2>1. example' = "none" /\ UNCHANGED <<cmds, mode>> /\ example # "none"
    BY <1>4 DEF Exit, Leave, Close, device
  <2>2. Stopped'
    BY <2>1 DEF Stopped
  <2>3. ASSUME verdict' \in {"done", "OK", "PARTIAL", "unusable"} PROVE WillBeIdle
    <3>1. CASE ret = "Ok" /\ script = <<>>
      <4>1. op \in {"health", "stop", "capture scan"}
        BY <1>0, <2>1, <3>1, LastOperation
      <4> QED BY <2>1, <3>1, <4>1 DEF Stopped
    <3>2. CASE verdict' = IF verdict = "none" THEN "failed" ELSE verdict
      BY <2>3, <3>2 DEF LeftIdle
    <3>3. CASE verdict' = "failed"
      BY <2>3, <3>3
    <3> QED BY <1>4, <3>1, <3>2, <3>3 DEF Exit, Leave
  <2> QED BY <2>1, <2>2, <2>3, IdleSame DEF LeftIdle
<1>5. CASE Kill
  BY <1>5 DEF Kill, Leave, Stopped, LeftIdle
<1>6. CASE UNCHANGED <<cmds, mode, op, prog, ret, example, verdict>>
  BY <1>6 DEF Stopped, LeftIdle, WillBeIdle
<1>7. CASE DeviceNext(up) /\ UNCHANGED <<host, process>>
  <2>1. WillBeIdle => WillBeIdle'
    BY <1>0, <1>7, IdleDevice
  <2> QED BY <1>7, <2>1 DEF host, process, Stopped, LeftIdle
<1>8. CASE Tick \/ UNCHANGED allVars
  BY <1>6, <1>8 DEF Tick, allVars, vars, host, device, process
<1> QED BY <1>1, <1>2, <1>3, <1>4, <1>5, <1>7, <1>8, StepByStep

(* Whatever it was doing before, the device is left idle by an example     *)
(* that ends well, and by a recording that turns out partial or unusable   *)
(* (record.rs:153-157, basic_scan.rs:78).                                  *)
THEOREM DeviceLeftIdle == ExamplesSpec => []LeftIdle
<1> DEFINE I == Shape /\ Judged /\ Stopped /\ LeftIdle
<1>1. ExamplesInit => I
  BY ShapeInit DEF ExamplesInit, NoFixtures, Judged, Stopped, LeftIdle
<1>2. I /\ [ExamplesNext]_allVars => I'
  BY ShapeStep, JudgedStep, StoppedStep
<1>3. I => LeftIdle
  OBVIOUS
<1> QED BY <1>1, <1>2, <1>3, PTL DEF ExamplesSpec

-----------------------------------------------------------------------------
(* The stream.                                                             *)

(* What has been received of a stream so far is the beginning of it.       *)
LEMMA StreamPrefix ==
  ASSUME NEW s \in Seq(Part), NEW t \in Seq(Part), NEW c, StreamFrom(s \o t, c)
  PROVE  StreamFrom(s, c)
<1>1. /\ Len(s) \in Nat /\ Len(t) \in Nat /\ Len(s \o t) = Len(s) + Len(t)
      /\ \A i \in 1..Len(s) + Len(t) : i <= Len(s) => (s \o t)[i] = s[i]
  BY ConcatProperties, LenProperties
<1> SUFFICES ASSUME NEW i \in 1..Len(s)
             PROVE  s[i] = IF i <= DESCRIPTOR_LEN THEN Message("scan descriptor", c)[i]
                           ELSE Message("node", 0)[((i - DESCRIPTOR_LEN - 1) % SCAN_NODE_LEN) + 1]
  BY DEF StreamFrom
<1>2. i \in 1..Len(s \o t) /\ i \in 1..Len(s) + Len(t) /\ i <= Len(s)
  BY <1>1
<1>3. (s \o t)[i] = s[i]
  BY <1>1, <1>2
<1>4. (s \o t)[i] = IF i <= DESCRIPTOR_LEN THEN Message("scan descriptor", c)[i]
                    ELSE Message("node", 0)[((i - DESCRIPTOR_LEN - 1) % SCAN_NODE_LEN) + 1]
  BY <1>2 DEF StreamFrom
<1> QED BY <1>3, <1>4, Zenon

LEMMA StreamEmpty == \A c : StreamFrom(<<>>, c)
<1>1. Len(<<>>) = 0 /\ \A i : i \notin 1..0
  OBVIOUS
<1> QED BY <1>1, Zenon DEF StreamFrom

(* The sizes of its messages.                                              *)
LEMMA StreamSizes ==
  ASSUME NEW c \in 0..MaxCalls
  PROVE  /\ Message("scan descriptor", c) \in Seq(Part)
         /\ Len(Message("scan descriptor", c)) = DESCRIPTOR_LEN
         /\ Message("node", 0) \in Seq(Part) /\ Len(Message("node", 0)) = SCAN_NODE_LEN
<1>1. "scan descriptor" \in Kinds /\ "node" \in Kinds /\ 0 \in 0..MaxCalls
  BY DeviceAssumption DEF Kinds, Sizes, Descriptors
<1>2. Size("scan descriptor") = DESCRIPTOR_LEN /\ Size("node") = SCAN_NODE_LEN
  BY DEF Size, Sizes, Descriptors
<1> QED BY <1>1, <1>2, MessageType

(* It begins with its descriptor, and goes on by a node.                   *)
LEMMA StreamBegins ==
  ASSUME NEW c \in 0..MaxCalls
  PROVE  StreamOf(Message("scan descriptor", c), c)
<1> DEFINE s == Message("scan descriptor", c)
<1>1. s \in Seq(Part) /\ Len(s) = DESCRIPTOR_LEN /\ DESCRIPTOR_LEN \in Nat /\ SCAN_NODE_LEN \in Nat
  BY StreamSizes, TargetType
<1>2. 0 \in Nat /\ Len(s) = DESCRIPTOR_LEN + 0 * SCAN_NODE_LEN
  <2>1. 0 \in Nat /\ \A l \in Nat, n \in Nat : l = l + 0 * n
    OBVIOUS
  <2> QED BY <1>1, <2>1, Zenon
<1>3. \A i \in 1..Len(s) : i <= DESCRIPTOR_LEN
  <2>1. \A l \in Nat : \A i \in 1..l : i <= l
    OBVIOUS
  <2> QED BY <1>1, <2>1, Zenon
<1>4. StreamFrom(s, c)
  BY <1>3 DEF StreamFrom
<1> QED BY <1>2, <1>4 DEF StreamOf

(* Where a part of a new node is.                                          *)
LEMMA NodeIndex ==
  ASSUME NEW d \in Nat, NEW n \in Nat \ {0}, NEW m \in Nat, NEW j \in 1..n
  PROVE  /\ ~(d + m * n + j <= d)
         /\ ((d + m * n + j - d - 1) % n) + 1 = j
<1>1. PICK r \in Nat : r = j - 1 /\ r < n
  OBVIOUS
<1>2. m * n \in Nat
  OBVIOUS
<1>3. (m * n + r) % n = r
  BY <1>1
<1>4. d + m * n + j - d - 1 = m * n + r /\ ~(d + m * n + j <= d)
  BY <1>1, <1>2
<1> QED BY <1>1, <1>3, <1>4

LEMMA StreamGoesOn ==
  ASSUME NEW s \in Seq(Part), NEW c, StreamOf(s, c), 0 \in 0..MaxCalls
  PROVE  StreamOf(s \o Message("node", 0), c)
<1> DEFINE D == DESCRIPTOR_LEN
           N == SCAN_NODE_LEN
           node == Message("node", 0)
           t == s \o node
<1>1. PICK m \in Nat : Len(s) = D + m * N
  BY DEF StreamOf
<1>2. D \in Nat /\ N \in Nat \ {0} /\ m * N \in Nat /\ Len(s) \in Nat
  BY TargetType, LenProperties
<1>3. node \in Seq(Part) /\ Len(node) = N
  BY StreamSizes
<1>4. /\ Len(t) = Len(s) + N
      /\ \A i \in 1 .. Len(s) + N : t[i] = IF i <= Len(s) THEN s[i] ELSE node[i - Len(s)]
  BY <1>3, ConcatProperties
<1>5. m + 1 \in Nat /\ Len(t) = D + (m + 1) * N
  BY <1>1, <1>2, <1>4
<1>6. StreamFrom(t, c)
  <2> DEFINE At(i) == IF i <= D THEN Message("scan descriptor", c)[i]
                      ELSE Message("node", 0)[((i - D - 1) % N) + 1]
  <2>1. ASSUME NEW i \in 1..Len(t), i <= Len(s)
        PROVE  t[i] = At(i)
    <3>1. i \in 1..Len(s) /\ i \in 1 .. Len(s) + N
      BY <1>2, <1>4, <2>1
    <3>2. s[i] = At(i)
      BY <3>1 DEF StreamOf, StreamFrom
    <3> QED BY <1>4, <2>1, <3>1, <3>2
  <2>2. ASSUME NEW i \in 1..Len(t), ~(i <= Len(s))
        PROVE  t[i] = At(i)
    <3>1. PICK j \in 1..N : i = Len(s) + j /\ j = i - Len(s)
      BY <1>2, <1>4, <2>2
    <3>2. i = D + m * N + j
      BY <1>1, <3>1
    <3>3. ~(i <= D) /\ ((i - D - 1) % N) + 1 = j
      BY <1>2, <3>2, NodeIndex
    <3>4. t[i] = node[j]
      BY <1>4, <2>2, <3>1
    <3>5. At(i) = node[j]
      BY <3>3
    <3> QED BY <3>4, <3>5
  <2> QED BY <2>1, <2>2 DEF StreamFrom
<1> QED BY <1>5, <1>6 DEF StreamOf

LEMMA Regroup ==
  ASSUME NEW p \in Seq(Part), NEW q \in Seq(Part), NEW r \in Seq(Part)
  PROVE  (p \o q) \o r = p \o (q \o r)
BY ConcatAssociative

(* Reading moves nothing but the border between what is read and what not. *)
LEMMA ReadKeeps ==
  ASSUME NEW g \in Seq(Part), NEW b \in Seq(Part), NEW w \in Seq(Part), NEW n \in 1..Len(b)
  PROVE  (g \o SubSeq(b, 1, n)) \o (Drop(b, n) \o w) = g \o (b \o w)
<1>1. Len(b) \in Nat /\ n \in Nat /\ n <= Len(b)
  BY LenProperties
<1>2. SubSeq(b, 1, n) \in Seq(Part) /\ Drop(b, n) \in Seq(Part)
  <2>1. \A i \in 1..n : b[i] \in Part
    BY <1>1, ElementOfSeq
  <2> QED BY <1>1, <2>1, SubSeqProperties, DropType
<1>3. SubSeq(b, 1, n) \o Drop(b, n) = b
  <2>1. 1 \in 1 .. Len(b) + 1 /\ n \in 1 - 1 .. Len(b) /\ Len(b) \in n .. Len(b)
    BY <1>1
  <2>2. SubSeq(b, 1, n) \o SubSeq(b, n + 1, Len(b)) = SubSeq(b, 1, Len(b))
    BY <2>1, ConcatAdjacentSubSeq
  <2> QED BY <2>2, SubSeqFull DEF Drop
<1> DEFINE x == SubSeq(b, 1, n)
           y == Drop(b, n)
<1> HIDE DEF x, y
<1>4. x \in Seq(Part) /\ y \in Seq(Part) /\ y \o w \in Seq(Part)
  BY <1>2, ConcatProperties DEF x, y
<1>7. x \o y = b
  BY <1>3 DEF x, y
<1>5. (g \o x) \o (y \o w) = g \o (x \o (y \o w))
  BY <1>4, Regroup, Zenon
<1>6. (x \o y) \o w = x \o (y \o w)
  BY <1>4, Regroup, Zenon
<1> QED BY <1>5, <1>6, <1>7, Zenon DEF x, y

-----------------------------------------------------------------------------
(* What a recording stores.                                                *)

Line ==
  Handshake /\ Capturing("info") /\ Capturing("health") /\ Recording /\ Kept

(* How far a step gets, point by point.                                    *)
LEMMA Forward ==
  ASSUME Types, InProgram, prog # <<>>, NEW lull \in BOOLEAN, Advance(lull)
  PROVE  /\ Len(prog) = 10 => Len(prog') = 9 /\ ret' = "none"
         /\ Len(prog) = 9 => Len(prog') = 8 /\ ret' = "none"
         /\ Len(prog) = 8 => Len(prog') = 7 /\ ret' = "none"
         /\ Len(prog) = 7 => Len(prog') = 6 /\ ret' = "none"
         /\ Len(prog) = 6 => Len(prog') = 5 /\ ret' = "none"
         /\ Len(prog) = 5 => Len(prog') = 4 /\ ret' = "none"
         /\ Len(prog) = 4 => Len(prog') = 3 /\ ret' = "none"
         /\ Len(prog) = 3 => Len(prog') = 2 /\ ret' = "none"
         /\ Len(prog) = 2 => Len(prog') = 1 /\ ret' = "none"
         /\ Len(prog) = 1 => Len(prog') = 0 /\ ret' = "Ok"
         /\ UNCHANGED <<op, call, quiet, fresh>>
<1>1. /\ Len(prog') = Len(prog) - 1 /\ UNCHANGED <<op, call, quiet, fresh>>
      /\ Len(prog) = 1 => prog' = <<>> /\ ret' = "Ok"
      /\ Len(prog) # 1 => ret' = "none"
  BY AdvanceShape
<1>2. Len(<<>>) = 0 /\ \A n : n \in {2, 3, 4, 5, 6, 7, 8, 9, 10} => n # 1
  OBVIOUS
<1>3. /\ Len(prog) = 1 => Len(prog') = 0 /\ ret' = "Ok"
  BY <1>1, <1>2, Zenon
<1>4. /\ Len(prog) = 10 => Len(prog') = 9
      /\ Len(prog) = 9 => Len(prog') = 8
      /\ Len(prog) = 8 => Len(prog') = 7
      /\ Len(prog) = 7 => Len(prog') = 6
      /\ Len(prog) = 6 => Len(prog') = 5
      /\ Len(prog) = 5 => Len(prog') = 4
      /\ Len(prog) = 4 => Len(prog') = 3
      /\ Len(prog) = 3 => Len(prog') = 2
      /\ Len(prog) = 2 => Len(prog') = 1
  BY <1>1, Backwards, Zenon
<1> QED BY <1>1, <1>2, <1>3, <1>4, Zenon

LEMMA Failing ==
  ASSUME NEW e \in {"Failed", "Protocol"}, Fail(e)
  PROVE  /\ Len(prog') = 0 /\ prog' = <<>> /\ ret' # "Ok" /\ ~clean' /\ ~settled'
         /\ UNCHANGED <<op, call, quiet, fresh>>
<1>1. /\ prog' = <<>> /\ ret' = e /\ clean' = FALSE /\ settled' = FALSE
      /\ UNCHANGED <<op, call, quiet, fresh>>
  BY DEF Fail
<1>2. Len(<<>>) = 0
  OBVIOUS
<1>3. e # "Ok"
  OBVIOUS
<1> QED BY <1>1, <1>2, <1>3, Zenon

(* A program of no steps, or of so many, is at no other point.             *)
LEMMA Apart ==
  /\ \A n : n = 0 => n # 1 /\ n # 2 /\ n # 3 /\ n # 4 /\ n # 6 /\ n # 9 /\ n # 10
                     /\ n \notin {7, 8} /\ n \notin {1, 2, 3, 4, 5}
  /\ \A n : n = 1 => n # 2 /\ n # 3 /\ n # 4 /\ n # 6 /\ n # 9 /\ n # 10 /\ n \notin {7, 8}
  /\ \A n : n = 2 => n # 1 /\ n # 3 /\ n # 4 /\ n # 6 /\ n # 9 /\ n # 10 /\ n \notin {7, 8}
  /\ \A n : n = 3 => n # 1 /\ n # 2 /\ n # 4 /\ n # 6 /\ n # 9 /\ n # 10 /\ n \notin {7, 8}
  /\ \A n : n = 4 => n # 1 /\ n # 2 /\ n # 3 /\ n # 6 /\ n # 9 /\ n # 10 /\ n \notin {7, 8}
  /\ \A n : n = 5 => n # 6 /\ n # 9 /\ n # 10 /\ n \notin {7, 8}
  /\ \A n : n = 6 => n # 9 /\ n # 10 /\ n \notin {7, 8} /\ n \notin {1, 2, 3, 4, 5}
  /\ \A n : n = 7 \/ n = 8 => n # 6 /\ n # 9 /\ n # 10 /\ n \notin {1, 2, 3, 4, 5}
  /\ \A n : n = 9 => n # 6 /\ n # 10 /\ n \notin {7, 8} /\ n \notin {1, 2, 3, 4, 5}
  /\ \A n : n = 10 => n # 6 /\ n # 9 /\ n \notin {7, 8} /\ n \notin {1, 2, 3, 4, 5}
OBVIOUS

(* The points of a capture.                                                *)
LEMMA CapturingAt ==
  ASSUME NEW k,
         \/ Len(prog') = 4 /\ Quiet' /\ ret' # "Ok"
         \/ Len(prog') = 3 /\ Quiet' /\ input' = <<>> /\ ret' # "Ok"
         \/ Len(prog') = 2 /\ Querying(k)' /\ ret' # "Ok"
         \/ Len(prog') = 1 /\ Quiet' /\ got' = Answer(k, call') /\ ret' # "Ok"
         \/ Len(prog') = 0 /\ Quiet' /\ fixtures'[k] = Answer(k, call')
         \/ Len(prog') = 0 /\ ret' # "Ok"
  PROVE  Capturing(k)'
BY Apart, Zenon DEF Capturing

(* What a capture reads is the answer to its request.                      *)
LEMMA AnswerShape ==
  ASSUME NEW k \in {"info", "health"}, NEW c \in 0..MaxCalls
  PROVE  /\ Answer(k, c) \in Seq(Part)
         /\ Len(Answer(k, c)) = DESCRIPTOR_LEN + Size(k)
         /\ Len(Answer(k, c)) <= InputSize
<1> DEFINE d == IF k = "info" THEN "info descriptor" ELSE "health descriptor"
<1>1. d \in Kinds /\ k \in Kinds
  BY DEF Kinds, Sizes, Descriptors
<1>2. /\ Size(d) = DESCRIPTOR_LEN
      /\ k = "info" => Size(k) = DEVINFO_LEN
      /\ k = "health" => Size(k) = DEVHEALTH_LEN
  <2>1. /\ Size("info descriptor") = DESCRIPTOR_LEN /\ Size("health descriptor") = DESCRIPTOR_LEN
        /\ Size("info") = DEVINFO_LEN /\ Size("health") = DEVHEALTH_LEN
    BY DEF Size, Sizes, Descriptors
  <2> QED BY <2>1
<1>3. /\ Message(d, c) \in Seq(Part) /\ Len(Message(d, c)) = DESCRIPTOR_LEN
      /\ Message(k, c) \in Seq(Part) /\ Len(Message(k, c)) = Size(k)
  BY <1>1, <1>2, MessageType
<1>4. Answer(k, c) = Message(d, c) \o Message(k, c)
  BY DEF Answer
<1>5. Answer(k, c) \in Seq(Part) /\ Len(Answer(k, c)) = DESCRIPTOR_LEN + Size(k)
  BY <1>3, <1>4, ConcatProperties
<1>6. DESCRIPTOR_LEN + Size(k) <= InputSize
  BY <1>2, DeviceAssumption
<1> QED BY <1>5, <1>6

LEMMA AnswerTaken ==
  ASSUME Types, NEW k \in {"info", "health"}, input \o wire = Answer(k, call),
         Len(input) >= DESCRIPTOR_LEN + Size(k)
  PROVE  /\ SubSeq(input, 1, DESCRIPTOR_LEN + Size(k)) = Answer(k, call)
         /\ wire = <<>>
<1>1. /\ input \in Seq(Part) /\ wire \in Seq(Part) /\ input \o wire \in Seq(Part)
      /\ call \in 0..MaxCalls
  BY ConcatType DEF Types, HostTypes, DeviceTypeOK
<1>2. Len(input \o wire) = DESCRIPTOR_LEN + Size(k)
  BY <1>1, AnswerShape
<1>3. Len(input) >= Len(input \o wire)
  BY <1>2
<1>4. SubSeq(input, 1, Len(input \o wire)) = input \o wire /\ wire = <<>>
  BY <1>1, <1>3, TakeAll
<1> QED BY <1>2, <1>4, Zenon

(* The steps of a capture.                                                 *)
LEMMA CapturingCallStep ==
  ASSUME Shape, NEW k \in {"info", "health"}, op = CaptureOf(k), quiet, Capturing(k), CallStep
  PROVE  Capturing(k)'
<1>1. Types /\ InProgram /\ DeviceTypeOK
  BY DEF Shape, Types
<1>2. prog # <<>> /\ settled \in BOOLEAN /\ Quiet \in BOOLEAN /\ mode' = mode /\ wire' = wire
  BY <1>1, CallStepGoes DEF Types, HostTypes, Quiet
<1>3. /\ Len(prog) = 1 \/ Len(prog) = 2 \/ Len(prog) = 3 \/ Len(prog) = 4
      /\ Len(prog) = 4 => Head(prog).do = "flush"
      /\ Len(prog) = 3 => Head(prog).do = "write" /\ Head(prog).what = Query(k).cmd
      /\ Len(prog) = 2 => Head(prog).do = "capture" /\ Head(prog).what = k
      /\ Len(prog) = 1 => Head(prog).do = "store" /\ Head(prog).what = k
  BY <1>1, <1>2, CaptureProgram, UpTo, Zenon
<1>4. ASSUME NEW e \in {"Failed", "Protocol"}, Fail(e)
      PROVE  Capturing(k)'
  BY <1>4, Failing, CapturingAt
<1>5. call' = call
  BY <1>1, CallStepGoes, GoesShape
<1>6. CASE Len(prog) = 4
  <2>1. Quiet /\ discard_input
    <3>1. Doing("flush")
      BY <1>2, <1>3, <1>6, Zenon DEF Doing
    <3>2. Quiet
      BY <1>6, Zenon DEF Capturing
    <3> QED BY <3>1, <3>2, Deed
  <2>2. CASE Advance(settled) /\ input' = <<>>
    <3>1. Len(prog') = 3 /\ ret' # "Ok"
      BY <1>1, <1>2, <1>6, <2>2, Forward
    <3>2. Quiet'
      BY <2>1 DEF discard_input, device, Quiet
    <3> QED BY <2>2, <3>1, <3>2, CapturingAt, Zenon
  <2> QED BY <1>4, <2>1, <2>2 DEF discard_input
<1>7. CASE Len(prog) = 3
  <2>1. Quiet /\ input = <<>> /\ request /\ Head(prog).what = Query(k).cmd
    <3>1. Doing("write")
      BY <1>2, <1>3, <1>7, Zenon DEF Doing
    <3>2. Quiet /\ input = <<>>
      BY <1>7, Zenon DEF Capturing
    <3> QED BY <1>3, <1>7, <3>1, <3>2, Deed
  <2>2. CASE Advance(settled) /\ cmds' = Append(cmds, [cmd |-> Head(prog).what, call |-> call])
    <3>1. Len(prog') = 2 /\ ret' # "Ok"
      BY <1>1, <1>2, <1>7, <2>2, Forward
    <3>2. cmds' = <<Query(k)'>>
      BY <1>5, <2>1, <2>2 DEF Query, Quiet
    <3>3. Querying(k)'
      BY <1>2, <2>1, <3>2, Wrote DEF Querying, Quiet
    <3> QED BY <3>1, <3>3, CapturingAt, Zenon
  <2> QED BY <1>4, <2>1, <2>2 DEF request
<1>8. CASE Len(prog) = 2
  <2>1. Querying(k) /\ (capture \/ CaptureFails) /\ Head(prog).what = k
    <3>1. Doing("capture")
      BY <1>2, <1>3, <1>8, Zenon DEF Doing
    <3>2. Querying(k)
      BY <1>8, Zenon DEF Capturing
    <3> QED BY <1>3, <1>8, <3>1, <3>2, Deed
  <2>2. CASE capture /\ Advance(settled)
    <3>1. Len(prog') = 1 /\ ret' # "Ok"
      BY <1>1, <1>2, <1>8, <2>2, Forward
    <3>2. /\ Len(input) >= DESCRIPTOR_LEN + Size(k) /\ cmds' = cmds
          /\ got' = SubSeq(input, 1, DESCRIPTOR_LEN + Size(k))
      BY <2>1, <2>2 DEF capture, CaptureLen, device
    <3>3. cmds = <<>> /\ input \o wire = Answer(k, call) /\ mode = "idle"
      <4>1. input # <<>>
        <5>1. DESCRIPTOR_LEN + Size(k) \in Nat \ {0}
          BY <2>1, <2>2, <1>1, ReadLengths DEF capture, CaptureLen
        <5>2. Len(<<>>) = 0
          OBVIOUS
        <5> QED BY <3>2, <5>1, <5>2
      <4> QED BY <2>1, <4>1 DEF Querying
    <3>4. got' = Answer(k, call) /\ wire = <<>>
      BY <1>1, <3>2, <3>3, AnswerTaken
    <3>5. Quiet' /\ got' = Answer(k, call')
      BY <1>2, <1>5, <3>2, <3>3, <3>4 DEF Quiet
    <3> QED BY <3>1, <3>5, CapturingAt, Zenon
  <2>3. CASE CaptureFails \/ (capture /\ Fail("Protocol"))
    BY <1>4, <2>3 DEF CaptureFails
  <2> QED BY <2>1, <2>2, <2>3 DEF capture
<1>9. CASE Len(prog) = 1
  <2>1. Quiet /\ got = Answer(k, call) /\ (Unusable \/ write_fixture) /\ Head(prog).what = k
    <3>1. Doing("store")
      BY <1>2, <1>3, <1>9, Zenon DEF Doing
    <3>2. Quiet /\ got = Answer(k, call)
      BY <1>9, Zenon DEF Capturing
    <3> QED BY <1>3, <1>9, <3>1, <3>2, Deed
  <2>2. CASE Advance(settled) /\ fixtures' = [fixtures EXCEPT ![k] = got]
    <3>1. Len(prog') = 0
      BY <1>1, <1>2, <1>9, <2>2, Forward
    <3>2. fixtures'[k] = Answer(k, call')
      BY <1>1, <1>5, <2>1, <2>2 DEF Types, ProcessTypes
    <3>3. Quiet'
      BY <2>1 DEF Unusable, write_fixture, device, Quiet
    <3> QED BY <3>1, <3>2, <3>3, CapturingAt, Zenon
  <2> QED BY <1>4, <2>1, <2>2 DEF Unusable, write_fixture
<1> QED BY <1>3, <1>6, <1>7, <1>8, <1>9

(* The points of a recording.                                              *)
LEMMA RecordingAt ==
  ASSUME \/ Len(prog') = 10 /\ Quiet' /\ got' = <<>> /\ ret' # "Ok"
         \/ Len(prog') = 9 /\ Quiet' /\ input' = <<>> /\ got' = <<>> /\ ret' # "Ok"
         \/ (Len(prog') = 8 \/ Len(prog') = 7) /\ Calm' /\ got' = <<>> /\ ret' # "Ok"
         \/ Len(prog') = 6 /\ (AskedToScan' \/ Streams') /\ ret' # "Ok"
         \/ /\ Len(prog') \in {1, 2, 3, 4, 5} /\ ret' # "Ok"
            /\ ~spilled' => StreamFrom(got', call')
         \/ Len(prog') = 0 /\ (~spilled' => StreamFrom(fixtures'["scan"], call'))
         \/ Len(prog') = 0 /\ ret' # "Ok"
  PROVE  Recording'
<1>1. /\ \A n : n \in {1, 2, 3, 4, 5} => n # 6 /\ n # 9 /\ n # 10 /\ n \notin {7, 8}
      /\ \A n : n = 8 \/ n = 7 => n # 6 /\ n # 9 /\ n # 10 /\ n \notin {1, 2, 3, 4, 5}
  OBVIOUS
<1> QED BY <1>1, Apart, Zenon DEF Recording

(* Scan is asked for.                                                      *)
LEMMA AskToScan ==
  ASSUME DeviceTypeOK, call \in 0..MaxCalls, Calm, got = <<>>,
         UNCHANGED <<mode, wire, input, got, call>>, cmds' = Append(cmds, ScanQuery)
  PROVE  AskedToScan'
<1>1. PICK n \in Nat : n = Len(cmds) /\ cmds \in Seq([cmd : Commands, call : 0..MaxCalls])
  BY LenProperties DEF DeviceTypeOK
<1>2. ScanQuery \in [cmd : Commands, call : 0..MaxCalls] /\ ScanQuery' = ScanQuery
  BY DEF ScanQuery, Commands
<1>3. /\ Len(cmds') = n + 1 /\ cmds'[n + 1] = ScanQuery
      /\ \A i \in 1..n : cmds'[i] = cmds[i]
      /\ cmds' # <<>>
  <2>1. Len(cmds') = n + 1 /\ cmds'[n + 1] = ScanQuery /\ \A i \in 1..n : cmds'[i] = cmds[i]
    BY <1>1, <1>2, AppendProperties
  <2>2. Len(<<>>) = 0 /\ n + 1 # 0
    BY <1>1
  <2> QED BY <2>1, <2>2
<1>4. \A i \in 1 .. Len(cmds') - 1 : cmds'[i].cmd = "SetMotorPwm"
  BY <1>1, <1>3 DEF Calm
<1> QED BY <1>2, <1>3, <1>4 DEF AskedToScan, Calm

(* The request is heard: so the stream begins.                             *)
LEMMA AskedToScanDevice ==
  ASSUME DeviceTypeOK, call \in 0..MaxCalls, AskedToScan, DeviceNext(up), UNCHANGED <<got, call>>
  PROVE  AskedToScan' \/ Streams'
<1>1. PICK n \in Nat : n = Len(cmds) /\ cmds \in Seq([cmd : Commands, call : 0..MaxCalls])
  BY LenProperties DEF DeviceTypeOK
<1>2. cmds # <<>> /\ mode = "idle" /\ wire = <<>> /\ input = <<>> /\ got = <<>>
  BY DEF AskedToScan
<1>3. /\ n \in Nat \ {0} /\ Len(Tail(cmds)) = n - 1 /\ Head(cmds) = cmds[1]
      /\ \A i \in 1 .. n - 1 : Tail(cmds)[i] = cmds[i + 1]
      /\ Tail(cmds) \in Seq([cmd : Commands, call : 0..MaxCalls])
  BY <1>1, <1>2, HeadTailProperties, EmptySeq
<1>4. Hear /\ cmds' = Tail(cmds) /\ input' = input /\ spilled' = spilled
  BY <1>2 DEF DeviceNext, Hear, Stream, Boot, Arrive
<1>5. CASE n = 1
  <2>1. Head(cmds) = ScanQuery /\ cmds' = <<>>
    <3>1. Head(cmds) = ScanQuery /\ Len(Tail(cmds)) = 0
      BY <1>1, <1>3, <1>5 DEF AskedToScan
    <3> QED BY <1>3, <1>4, <3>1, EmptySeq
  <2>2. mode' = "scanning" /\ wire' = wire \o Message("scan descriptor", call)
    <3>1. Head(cmds).cmd = "Scan" /\ Head(cmds).call = call
      BY <2>1 DEF ScanQuery
    <3> QED BY <1>2, <1>4, <3>1 DEF Hear
  <2>3. Message("scan descriptor", call) \in Seq(Part)
    BY StreamSizes
  <2>4. Received' = Message("scan descriptor", call)
    BY <1>2, <1>4, <2>2, <2>3, ConcatEmptySeq DEF Received
  <2>5. StreamOf(Received', call')
    BY <2>4, StreamBegins
  <2> QED BY <2>1, <2>2, <2>5 DEF Streams
<1>6. CASE n # 1
  <2>1. Head(cmds).cmd = "SetMotorPwm"
    BY <1>1, <1>3, <1>6 DEF AskedToScan
  <2>2. UNCHANGED <<mode, wire>>
    BY <1>2, <1>4, <2>1 DEF Hear
  <2>3. PICK m \in Nat : m = n - 1 /\ m = Len(cmds') /\ m # 0 /\ m + 1 = n
    BY <1>3, <1>4, <1>6
  <2>4. cmds' # <<>>
    <3>1. Len(<<>>) = 0
      OBVIOUS
    <3> QED BY <2>3, <3>1
  <2>5. cmds'[m] = ScanQuery
    <3>1. m \in 1 .. n - 1
      BY <2>3
    <3>2. cmds'[m] = cmds[n]
      BY <1>3, <1>4, <2>3, <3>1
    <3> QED BY <1>1, <3>2 DEF AskedToScan
  <2>6. \A i \in 1 .. m - 1 : cmds'[i].cmd = "SetMotorPwm"
    <3> TAKE i \in 1 .. m - 1
    <3>1. i \in 1 .. n - 1 /\ i + 1 \in 1 .. n - 1
      BY <2>3
    <3>2. cmds'[i] = cmds[i + 1]
      BY <1>3, <1>4, <3>1
    <3> QED BY <1>1, <3>1, <3>2 DEF AskedToScan
  <2> QED BY <1>2, <1>4, <2>2, <2>3, <2>4, <2>5, <2>6 DEF AskedToScan, ScanQuery
<1> QED BY <1>5, <1>6

(* The stream goes on.                                                     *)
LEMMA StreamsDevice ==
  ASSUME DeviceTypeOK, got \in Seq(Part), up, 0 \in 0..MaxCalls, Streams, DeviceNext(up),
         UNCHANGED <<got, call>>
  PROVE  Streams'
<1>1. /\ mode = "scanning" /\ cmds = <<>> /\ (~spilled => StreamOf(Received, call))
      /\ input \in Seq(Part) /\ wire \in Seq(Part)
  BY DEF Streams, DeviceTypeOK
<1>2. CASE Stream
  <2> DEFINE node == Message("node", 0)
  <2>1. wire' = wire \o node /\ UNCHANGED <<mode, cmds, input, spilled>>
    BY <1>2 DEF Stream
  <2>2. node \in Seq(Part) /\ input \o wire \in Seq(Part) /\ Received \in Seq(Part)
    BY <1>1, StreamSizes, ConcatProperties DEF Received
  <2>3. /\ input \o (wire \o node) = (input \o wire) \o node
        /\ got \o ((input \o wire) \o node) = (got \o (input \o wire)) \o node
    BY <1>1, <2>2, Regroup
  <2>4. Received' = Received \o node
    BY <2>1, <2>3, Zenon DEF Received
  <2>5. ASSUME ~spilled' PROVE StreamOf(Received', call')
    BY <1>1, <2>1, <2>2, <2>4, <2>5, StreamGoesOn
  <2> QED BY <1>1, <2>1, <2>5 DEF Streams
<1>3. CASE Arrive(up)
  <2>1. wire # <<>> /\ wire' = Tail(wire) /\ UNCHANGED <<mode, cmds>>
    BY <1>3 DEF Arrive
  <2>2. CASE input' = Append(input, Head(wire)) /\ spilled' = spilled
    <3>1. input' \o wire' = input \o wire
      BY <1>1, <2>1, <2>2, ShiftPart
    <3>2. Received' = Received
      BY <3>1, Zenon DEF Received
    <3> QED BY <1>1, <2>1, <2>2, <3>2 DEF Streams
  <2>3. CASE spilled' = TRUE
    BY <1>1, <2>1, <2>3 DEF Streams
  <2> QED BY <1>3, <2>2, <2>3 DEF Arrive
<1> QED BY <1>1, <1>2, <1>3 DEF DeviceNext, Hear, Boot

(* The points after the stream, and an empty sequence.                     *)
LEMMA AfterStream ==
  /\ \A n : n \in {1, 2, 3, 4, 5} => n # 6 /\ n # 7 /\ n # 8 /\ n # 9 /\ n # 10
  /\ \A n, m : n \in {2, 3, 4, 5} /\ m = n - 1 => n # 1 /\ m \in {1, 2, 3, 4}
OBVIOUS

LEMMA NoIndex == Len(<<>>) = 0 /\ \A i : i \notin 1..0
OBVIOUS

LEMMA EmptyCalm ==
  ASSUME Quiet, input = <<>>
  PROVE  Calm
BY NoIndex, Zenon DEF Calm, Quiet

(* The steps of a recording.                                               *)
LEMMA RecordingCallStep ==
  ASSUME Shape, op = "capture scan", quiet, Recording, CallStep
  PROVE  Recording'
<1>1. Types /\ InProgram /\ DeviceTypeOK /\ got \in Seq(Part) /\ call \in 0..MaxCalls
  BY DEF Shape, Types, HostTypes
<1>2. /\ prog # <<>> /\ settled \in BOOLEAN /\ Quiet \in BOOLEAN
      /\ mode' = mode /\ wire' = wire /\ spilled' = spilled
  BY <1>1, CallStepGoes DEF Types, HostTypes, Quiet
<1>3. RecordingStep(Len(prog), Head(prog))
  BY <1>1, <1>2, RecordingProgram
<1>4. ASSUME NEW e \in {"Failed", "Protocol"}, Fail(e)
      PROVE  Recording'
  <2>1. Len(prog') = 0 /\ ret' # "Ok"
    BY <1>4, Failing
  <2> QED BY <2>1, RecordingAt
<1>5. call' = call
  BY <1>1, CallStepGoes, GoesShape
<1>6. CASE Len(prog) = 10
  <2>1. Quiet /\ got = <<>> /\ discard_input
    <3>1. Doing("flush")
      BY <1>2, <1>3, <1>6, Zenon DEF Doing, RecordingStep
    <3>2. Quiet /\ got = <<>>
      BY <1>6, Zenon DEF Recording
    <3> QED BY <3>1, <3>2, Deed
  <2>2. CASE Advance(settled) /\ input' = <<>>
    <3>1. Len(prog') = 9 /\ ret' # "Ok"
      BY <1>1, <1>2, <1>6, <2>2, Forward
    <3>2. Quiet' /\ got' = <<>>
      BY <2>1 DEF discard_input, device, Quiet
    <3> QED BY <2>2, <3>1, <3>2, RecordingAt, Zenon
  <2> QED BY <1>4, <2>1, <2>2 DEF discard_input
<1>7. CASE Len(prog) = 9
  <2>1. Calm /\ got = <<>> /\ request /\ Head(prog).what = "SetMotorPwm"
    <3>1. Head(prog).do = "write" /\ Head(prog).what = "SetMotorPwm"
      BY <1>3, <1>7, Zenon DEF RecordingStep
    <3>2. Quiet /\ input = <<>> /\ got = <<>>
      BY <1>7, Zenon DEF Recording
    <3>3. Calm
      BY <3>2, EmptyCalm
    <3> QED BY <1>2, <3>1, <3>2, <3>3, Deed DEF Doing
  <2>2. CASE Advance(settled) /\ cmds' = Append(cmds, [cmd |-> Head(prog).what, call |-> call])
    <3>1. Len(prog') = 8 /\ ret' # "Ok"
      BY <1>1, <1>2, <1>7, <2>2, Forward
    <3>2. /\ cmds' = Append(cmds, [cmd |-> "SetMotorPwm", call |-> call])
          /\ UNCHANGED <<mode, wire, input, got>>
      BY <2>1, <2>2 DEF request
    <3>3. Calm'
      BY <1>1, <2>1, <3>2, CalmAppend DEF Types, HostTypes
    <3> QED BY <2>1, <3>1, <3>2, <3>3, RecordingAt, Zenon
  <2> QED BY <1>4, <2>1, <2>2 DEF request
<1>8. CASE Len(prog) = 8
  <2>1. Calm /\ got = <<>> /\ sleep
    <3>1. Doing("sleep")
      BY <1>2, <1>3, <1>8, Zenon DEF Doing, RecordingStep
    <3>2. Len(prog) \in {7, 8}
      BY <1>8
    <3>3. Calm /\ got = <<>>
      BY <3>2, Zenon DEF Recording
    <3> QED BY <3>1, <3>3, Deed
  <2>2. Len(prog') = 7 /\ ret' # "Ok"
    BY <1>1, <1>2, <1>8, <2>1, Forward DEF sleep
  <2>3. Calm' /\ got' = <<>>
    BY <2>1 DEF sleep, device, Calm
  <2> QED BY <2>2, <2>3, RecordingAt, Zenon
<1>9. CASE Len(prog) = 7
  <2>1. Calm /\ got = <<>> /\ request /\ Head(prog).what = "Scan"
    <3>1. Head(prog).do = "write" /\ Head(prog).what = "Scan"
      BY <1>3, <1>9, Zenon DEF RecordingStep
    <3>2. Len(prog) \in {7, 8}
      BY <1>9
    <3>3. Calm /\ got = <<>>
      BY <3>2, Zenon DEF Recording
    <3> QED BY <1>2, <3>1, <3>3, Deed DEF Doing
  <2>2. CASE Advance(settled) /\ cmds' = Append(cmds, [cmd |-> Head(prog).what, call |-> call])
    <3>1. Len(prog') = 6 /\ ret' # "Ok"
      BY <1>1, <1>2, <1>9, <2>2, Forward
    <3>2. cmds' = Append(cmds, ScanQuery) /\ UNCHANGED <<mode, wire, input, got>>
      BY <2>1, <2>2 DEF request, ScanQuery
    <3>3. AskedToScan'
      BY <1>1, <1>5, <2>1, <3>2, AskToScan
    <3> QED BY <3>1, <3>3, RecordingAt, Zenon
  <2> QED BY <1>4, <2>1, <2>2 DEF request
<1>10. CASE Len(prog) = 6
  <2>1. (AskedToScan \/ Streams) /\ (Read \/ StreamEnds)
    <3>1. Doing("stream")
      BY <1>2, <1>3, <1>10, Zenon DEF Doing, RecordingStep
    <3>2. AskedToScan \/ Streams
      BY <1>10, Zenon DEF Recording
    <3> QED BY <3>1, <3>2, Deed
  <2>2. input \in Seq(Part) /\ wire \in Seq(Part) /\ input \o wire \in Seq(Part)
    BY <1>1, ConcatType DEF DeviceTypeOK
  <2>3. CASE Read
    <3>1. PICK n \in 1..Len(input) : got' = got \o SubSeq(input, 1, n) /\ input' = Drop(input, n)
      BY <2>3 DEF Read
    <3>2. ~AskedToScan
      BY <3>1, NoIndex, Zenon DEF AskedToScan
    <3>3. Received' = Received
      BY <1>1, <1>2, <2>2, <3>1, ReadKeeps DEF Received
    <3>4. Streams'
      <4>1. Streams /\ UNCHANGED <<mode, cmds, spilled, call>>
        BY <1>2, <1>5, <2>1, <2>3, <3>2 DEF Read, device
      <4>2. StreamOf(Received, call) => StreamOf(Received', call')
        BY <3>3, <4>1, Zenon
      <4> QED BY <4>1, <4>2 DEF Streams
    <3>5. Len(prog') = 6 /\ ret' # "Ok"
      BY <1>1, <1>2, <1>10, <2>3, Counts DEF Read
    <3> QED BY <3>4, <3>5, RecordingAt, Zenon
  <2>4. CASE StreamEnds
    <3>1. Len(prog') = 5 /\ ret' # "Ok" /\ got' = got
      BY <1>1, <1>2, <1>10, <2>4, Forward DEF StreamEnds
    <3>2. ~spilled => StreamFrom(got, call)
      <4>1. CASE AskedToScan
        BY <4>1, StreamEmpty DEF AskedToScan
      <4>2. CASE Streams
        BY <1>1, <2>2, <4>2, StreamPrefix DEF Streams, StreamOf, Received
      <4> QED BY <2>1, <4>1, <4>2
    <3>3. Len(prog') \in {1, 2, 3, 4, 5}
      BY <3>1
    <3>4. ~spilled' => StreamFrom(got', call')
      BY <1>2, <1>5, <3>1, <3>2
    <3> QED BY <3>1, <3>3, <3>4, RecordingAt, Zenon
  <2> QED BY <2>1, <2>3, <2>4
<1>11. CASE Len(prog) \in {1, 2, 3, 4, 5}
  <2>1. ~spilled => StreamFrom(got, call)
    BY <1>11, Zenon DEF Recording
  <2>2. ~(Doing("payload") \/ Doing("capture") \/ Doing("stream") \/ Doing("scans"))
    <3>1. Len(prog) # 6
      BY <1>11, AfterStream, Zenon
    <3>2. Head(prog).do \in {"store", "flush anyway", "write", "sleep", "flush"}
      BY <1>3, <3>1, RecordingPoints
    <3> QED BY <3>2 DEF Doing
  <2>3. got' = got
    BY <2>2, Deed
  <2>4. ~spilled' => StreamFrom(got', call')
    BY <1>2, <1>5, <2>1, <2>3
  <2>5. CASE Len(prog) \in {2, 3, 4, 5}
    <3>1. \/ Len(prog') = 0 /\ ret' # "Ok"
          \/ Len(prog') \in {1, 2, 3, 4} /\ ret' = "none"
      <4>1. \/ Len(prog') = 0 /\ ret' # "Ok"
            \/ Len(prog') = Len(prog) - 1 /\ (Len(prog) # 1 => ret' = "none")
        BY <1>1, <2>2, Counts
      <4> QED BY <2>5, <4>1, AfterStream, Zenon
    <3>2. \A m : m \in {1, 2, 3, 4} => m \in {1, 2, 3, 4, 5}
      OBVIOUS
    <3>3. \/ Len(prog') = 0 /\ ret' # "Ok"
          \/ Len(prog') \in {1, 2, 3, 4, 5} /\ ret' # "Ok"
      BY <3>1, <3>2
    <3> QED BY <2>4, <3>3, RecordingAt, Zenon
  <2>6. CASE Len(prog) = 1
    <3>1. (Unusable \/ write_fixture) /\ Head(prog).what = "scan"
      <4>1. Head(prog).do = "store" /\ Head(prog).what = "scan"
        BY <1>3, <2>6, Zenon DEF RecordingStep
      <4> QED BY <1>2, <4>1, Deed DEF Doing
    <3>2. CASE Advance(settled) /\ fixtures' = [fixtures EXCEPT !["scan"] = got]
      <4>1. Len(prog') = 0
        BY <1>1, <1>2, <2>6, <3>2, Forward
      <4>2. fixtures'["scan"] = got
        BY <1>1, <3>2 DEF Types, ProcessTypes
      <4>3. ~spilled' => StreamFrom(fixtures'["scan"], call')
        BY <1>2, <1>5, <2>1, <4>2
      <4> QED BY <4>1, <4>3, RecordingAt, Zenon
    <3> QED BY <1>4, <3>1, <3>2 DEF Unusable, write_fixture
  <2>7. \A n : n \in {1, 2, 3, 4, 5} => n \in {2, 3, 4, 5} \/ n = 1
    OBVIOUS
  <2> QED BY <1>11, <2>5, <2>6, <2>7, Zenon
<1>12. \/ Len(prog) = 10 \/ Len(prog) = 9 \/ Len(prog) = 8 \/ Len(prog) = 7 \/ Len(prog) = 6
       \/ Len(prog) \in {1, 2, 3, 4, 5}
  BY <1>3, RecordingPoints
<1> QED BY <1>6, <1>7, <1>8, <1>9, <1>10, <1>11, <1>12

(* Nothing comes of a quiet line.                                          *)
LEMMA QuietDevice ==
  ASSUME Quiet, NEW open
  PROVE  ~DeviceNext(open)
BY DEF Quiet, DeviceNext, Hear, Stream, Boot, Arrive

(* The steps of a handshake.                                               *)
LEMMA HandshakeCallStep ==
  ASSUME Shape, Handshake, CallStep
  PROVE  Handshake'
<1>1. Types /\ InProgram
  BY DEF Shape
<1>2. /\ prog # <<>> /\ op' = op /\ mode' = mode /\ wire' = wire
      /\ settled \in BOOLEAN /\ Quiet \in BOOLEAN
  BY <1>1, CallStepGoes, Counts DEF Types, HostTypes, Quiet
<1>3. CASE op # "open"
  BY <1>2, <1>3 DEF Handshake
<1>4. CASE op = "open"
  <2>1. /\ Len(prog) = 3 \/ Len(prog) = 2 \/ Len(prog) = 1
        /\ Len(prog) = 3 => Head(prog).do = "write"
        /\ Len(prog) = 2 => Head(prog).do = "sleep"
        /\ Len(prog) = 1 => Head(prog).do = "flush"
    BY <1>1, <1>2, <1>4, HandshakeProgram, UpTo, Zenon
  <2>2. ASSUME NEW e \in {"Failed", "Protocol"}, Fail(e)
        PROVE  Handshake'
    BY <2>2, Failing DEF Handshake
  <2>3. CASE Len(prog) = 3
    <3>1. request /\ ~settled
      BY <1>2, <1>4, <2>1, <2>3, Deed DEF Doing, Handshake
    <3>2. CASE Advance(settled)
      BY <1>1, <1>2, <2>3, <3>1, <3>2, AdvanceShape DEF Handshake
    <3> QED BY <2>2, <3>1, <3>2 DEF request
  <2>4. CASE Len(prog) = 2
    <3>1. sleep
      BY <1>2, <2>1, <2>4, Deed DEF Doing
    <3>2. settled' = Quiet /\ Len(prog') = 1 /\ prog' # <<>>
      <4>1. Advance(Quiet)
        BY <3>1 DEF sleep
      <4> QED BY <1>1, <1>2, <2>4, <4>1, AdvanceShape
    <3>3. Quiet' = Quiet
      BY <3>1 DEF sleep, device, Quiet
    <3> QED BY <3>2, <3>3, Zenon DEF Handshake
  <2>5. CASE Len(prog) = 1
    <3>1. discard_input
      BY <1>2, <2>1, <2>5, Deed DEF Doing
    <3>2. CASE Advance(settled)
      <4>1. ~settled' /\ clean' = settled
        BY <1>1, <1>2, <1>4, <2>5, <3>2, AdvanceShape
      <4>2. Quiet' = Quiet
        BY <3>1 DEF discard_input, device, Quiet
      <4>3. settled => Quiet
        BY <1>4 DEF Handshake
      <4> QED BY <4>1, <4>2, <4>3, Zenon DEF Handshake
    <3> QED BY <2>2, <3>1, <3>2 DEF discard_input
  <2> QED BY <2>1, <2>3, <2>4, <2>5
<1> QED BY <1>3, <1>4

(* A capture makes nothing clean that was not, and writes its own fixture. *)
LEMMA KeptCallStep ==
  ASSUME Shape, Kept, CallStep
  PROVE  Kept'
<1>1. Types /\ InProgram
  BY DEF Shape
<1>2. UNCHANGED <<op, call, quiet, fresh>> /\ prog # <<>>
  BY <1>1, CallStepGoes, GoesShape
<1>3. CASE op \notin {"capture info", "capture health", "capture scan"}
  BY <1>2, <1>3 DEF Kept
<1>4. CASE op \in {"capture info", "capture health", "capture scan"}
  <2>1. clean' => clean
    <3>1. CASE \E e \in {"Failed", "Protocol"} : Fail(e)
      BY <3>1, Failing
    <3>2. CASE \E lull \in BOOLEAN : Advance(lull)
      BY <1>4, <3>2 DEF Advance
    <3> QED BY <1>1, <3>1, <3>2, CallStepGoes DEF Goes
  <2>2. /\ op = "capture health" => fixtures'["info"] = fixtures["info"]
        /\ op = "capture scan" => /\ fixtures'["info"] = fixtures["info"]
                                  /\ fixtures'["health"] = fixtures["health"]
    <3>1. CASE Doing("store")
      <4>1. Unusable \/ write_fixture
        BY <3>1, Deed
      <4>2. \/ fixtures' = fixtures
            \/ fixtures' = [fixtures EXCEPT ![Head(prog).what] = got]
        BY <4>1 DEF Unusable, write_fixture
      <4>3. fixtures \in [{"info", "health", "scan"} -> Seq(Part)]
        BY <1>1 DEF Types, ProcessTypes
      <4>4. /\ op = "capture health" => Head(prog).what = "health"
            /\ op = "capture scan" => Head(prog).what = "scan"
        BY <1>1, <3>1, Storing
      <4> QED BY <4>2, <4>3, <4>4
    <3>2. CASE ~Doing("store")
      BY <3>2, Deed
    <3> QED BY <3>1, <3>2
  <2> QED BY <1>2, <2>1, <2>2 DEF Kept
<1> QED BY <1>3, <1>4

(* A call goes on.                                                         *)
LEMMA LineCallStep ==
  ASSUME Shape, Line, CallStep
  PROVE  Line'
<1>1. Types /\ InProgram
  BY DEF Shape
<1>2. UNCHANGED <<op, quiet>>
  BY <1>1, CallStepGoes, GoesShape
<1>3. ASSUME NEW k \in {"info", "health"} PROVE Capturing(k)'
  <2>1. Capturing(k)
    BY DEF Line
  <2>2. CASE op = CaptureOf(k) /\ quiet
    BY <2>1, <2>2, CapturingCallStep
  <2>3. CASE ~(op = CaptureOf(k) /\ quiet)
    BY <1>2, <2>3 DEF Capturing, CaptureOf
  <2> QED BY <2>2, <2>3
<1>4. Recording'
  <2>1. CASE op = "capture scan" /\ quiet
    BY <2>1, RecordingCallStep DEF Line
  <2>2. CASE ~(op = "capture scan" /\ quiet)
    BY <1>2, <2>2 DEF Recording
  <2> QED BY <2>1, <2>2
<1> QED BY <1>3, <1>4, HandshakeCallStep, KeptCallStep DEF Line

(* An operation begins.                                                    *)
LEMMA LineBegins ==
  ASSUME op' = "open", ~settled', prog' # <<>> \/ ~clean'
  PROVE  Line'
BY DEF Line, Handshake, Capturing, CaptureOf, Recording, Kept

LEMMA LineStart ==
  ASSUME Shape, Start \/ Exit \/ Kill
  PROVE  Line'
<1>1. CASE Start
  <2>1. op' = "open" /\ ~settled' /\ prog' = stop
    BY <1>1, ProgramTypes DEF Start, Call
  <2>2. stop # <<>>
    BY DEF stop
  <2> QED BY <2>1, <2>2, LineBegins
<1>2. CASE Exit \/ Kill
  <2>1. op' = "open" /\ ~settled' /\ ~clean'
    BY <1>2, Leaving, LeaveShape DEF Shape, Types
  <2> QED BY <2>1, LineBegins
<1> QED BY <1>1, <1>2

LEMMA LineContinue ==
  ASSUME Shape, Line, Continue
  PROVE  Line'
<1>1. Types /\ InProgram /\ InScript /\ ProcessTypes /\ call \in 0..MaxCalls
  BY DEF Shape, Types, HostTypes
<1>2. /\ InOrder(op, op') /\ op' = Head(script) /\ prog' = Operation(op') /\ ret' = "none"
      /\ ret = "Ok" /\ got' = <<>> /\ quiet' = Quiet /\ fresh' = clean /\ clean' = clean
      /\ call' = call + 1 /\ UNCHANGED <<cmds, mode, wire, input, fixtures>>
  BY <1>1, NextInOrder DEF Continue, Call, device
<1>3. prog = <<>> /\ op' # "open" /\ Quiet' = Quiet
  BY <1>1, <1>2 DEF InProgram, InOrder, Quiet
<1>4. Handshake'
  BY <1>3 DEF Handshake
<1>5. ASSUME NEW k \in {"info", "health"} PROVE Capturing(k)'
  <2>1. CASE op' = CaptureOf(k) /\ quiet'
    <3>1. Len(prog') = 4 /\ Quiet' /\ ret' # "Ok"
      BY <1>2, <1>3, <2>1, Lengths
    <3> QED BY <3>1, CapturingAt
  <2>2. CASE ~(op' = CaptureOf(k) /\ quiet')
    BY <2>2 DEF Capturing, CaptureOf
  <2> QED BY <2>1, <2>2
<1>6. Recording'
  <2>1. CASE op' = "capture scan" /\ quiet'
    <3>1. Len(prog') = 10 /\ Quiet' /\ got' = <<>> /\ ret' # "Ok"
      BY <1>2, <1>3, <2>1, Lengths
    <3> QED BY <3>1, RecordingAt
  <2>2. CASE ~(op' = "capture scan" /\ quiet')
    BY <2>2 DEF Recording
  <2> QED BY <2>1, <2>2
<1>7. Kept'
  <2>1. PICK c \in Int : c = call /\ call' - 1 = c /\ call' - 2 = c - 1
    BY <1>1, <1>2
  <2>2. CASE op' = "capture info"
    <3>1. op = "open"
      BY <1>2, <2>2 DEF InOrder
    <3>2. clean => Quiet
      BY <1>3, <3>1 DEF Line, Handshake
    <3> QED BY <1>2, <2>2, <3>2 DEF Kept
  <2>3. CASE op' = "capture health"
    <3>1. op = "capture info"
      BY <1>2, <2>3 DEF InOrder
    <3>2. clean => quiet
      BY <3>1 DEF Line, Kept
    <3>3. quiet => Quiet /\ fixtures["info"] = Answer("info", call)
      BY <1>2, <3>1 DEF Line, Capturing, CaptureOf
    <3>4. fixtures["info"] = Answer("info", call) => fixtures'["info"] = Answer("info", call' - 1)
      BY <1>2, <2>1
    <3> QED BY <1>2, <2>3, <3>2, <3>3, <3>4 DEF Kept
  <2>4. CASE op' = "capture scan"
    <3>1. op = "capture health"
      BY <1>2, <2>4 DEF InOrder
    <3>2. clean => quiet /\ fixtures["info"] = Answer("info", call - 1)
      BY <3>1 DEF Line, Kept
    <3>3. quiet => Quiet /\ fixtures["health"] = Answer("health", call)
      BY <1>2, <3>1 DEF Line, Capturing, CaptureOf
    <3>4. /\ fixtures["info"] = Answer("info", call - 1) =>
               fixtures'["info"] = Answer("info", call' - 2)
          /\ fixtures["health"] = Answer("health", call) =>
               fixtures'["health"] = Answer("health", call' - 1)
      BY <1>2, <2>1
    <3> QED BY <1>2, <2>4, <3>2, <3>3, <3>4 DEF Kept
  <2>5. CASE op' \notin {"capture info", "capture health", "capture scan"}
    BY <2>5 DEF Kept
  <2> QED BY <2>2, <2>3, <2>4, <2>5
<1> QED BY <1>4, <1>5, <1>6, <1>7 DEF Line

(* The device answers the query of a capture.                              *)
LEMMA QueryingDevice ==
  ASSUME DeviceTypeOK, call \in 0..MaxCalls, up, NEW k \in {"info", "health"},
         Querying(k), DeviceNext(up), call' = call
  PROVE  Querying(k)'
<1>1. mode = "idle" /\ Query(k)' = Query(k)
  BY DEF Querying, Query
<1>2. /\ Query(k).cmd = IF k = "info" THEN "GetInfo" ELSE "GetHealth"
      /\ Query(k).call = call
  BY DEF Query
<1>3. Answer(k, call) \in Seq(Part) /\ Len(Answer(k, call)) <= InputSize
  BY AnswerShape
<1>4. CASE cmds = <<Query(k)>> /\ wire = <<>> /\ input = <<>>
  <2>1. Hear
    BY <1>1, <1>4 DEF DeviceNext, Stream, Boot, Arrive
  <2>2. Head(cmds) = Query(k) /\ Tail(cmds) = <<>>
    BY <1>4
  <2>3. cmds' = <<>> /\ mode' = "idle" /\ wire' = <<>> \o Answer(k, call) /\ input' = <<>>
    BY <1>1, <1>2, <1>4, <2>1, <2>2 DEF Hear
  <2>4. input' \o wire' = Answer(k, call)
    BY <1>3, <2>3, ConcatEmptySeq
  <2> QED BY <2>3, <2>4 DEF Querying
<1>5. CASE cmds = <<>> /\ input \o wire = Answer(k, call)
  <2>1. Arrive(up)
    BY <1>1, <1>5 DEF DeviceNext, Hear, Stream, Boot
  <2>2. input' \o wire' = input \o wire /\ UNCHANGED <<mode, cmds>>
    BY <1>3, <1>5, <2>1, ArriveKeeps
  <2> QED BY <1>1, <1>5, <2>2 DEF Querying
<1> QED BY <1>4, <1>5 DEF Querying

(* What the buffer lost stays lost.                                        *)
LEMMA SpilledStays ==
  ASSUME NEW open, DeviceNext(open), DeviceTypeOK
  PROVE  spilled => spilled'
BY DEF DeviceNext, Hear, Stream, Boot, Arrive

(* The device does something.                                              *)
LEMMA LineDevice ==
  ASSUME Shape, Line, DeviceNext(up), UNCHANGED <<host, process>>
  PROVE  Line'
<1>1. /\ Types /\ InProgram /\ DeviceTypeOK /\ got \in Seq(Part)
      /\ call \in 0..MaxCalls /\ 0 \in 0..MaxCalls
  BY DeviceAssumption DEF Shape, Types, HostTypes
<1>2. /\ UNCHANGED <<up, op, prog, got, call, settled, quiet, clean, fresh, ret, fixtures>>
      /\ ~Quiet
  BY QuietDevice DEF host, process
<1>3. prog # <<>> => up
  BY <1>1 DEF InProgram
<1>4. Handshake'
  BY <1>2 DEF Line, Handshake
<1>5. ASSUME NEW k \in {"info", "health"} PROVE Capturing(k)'
  <2>1. CASE op = CaptureOf(k) /\ quiet
    <3>1. Len(prog) # 4 /\ Len(prog) # 3 /\ Len(prog) # 1 /\ ret # "Ok"
      BY <1>2, <2>1, Zenon DEF Line, Capturing
    <3>2. Len(prog) = 2 => Querying(k)'
      <4> SUFFICES ASSUME Len(prog) = 2 PROVE Querying(k)'
        OBVIOUS
      <4>1. up
        BY <1>3
      <4>2. Querying(k)
        BY <2>1, Zenon DEF Line, Capturing
      <4> QED BY <1>1, <1>2, <4>1, <4>2, QueryingDevice
    <3>3. prog' = prog /\ ret' = ret
      BY <1>2
    <3> QED BY <3>1, <3>2, <3>3, Zenon DEF Capturing
  <2>2. CASE ~(op = CaptureOf(k) /\ quiet)
    BY <1>2, <2>2 DEF Capturing, CaptureOf
  <2> QED BY <2>1, <2>2
<1>6. Recording'
  <2>1. CASE op = "capture scan" /\ quiet
    <3>1. Len(prog) # 10 /\ Len(prog) # 9
      BY <1>2, <2>1, Zenon DEF Line, Recording
    <3>2. Len(prog) \in {7, 8} => Calm' /\ got' = <<>>
      <4> SUFFICES ASSUME Len(prog) \in {7, 8} PROVE Calm' /\ got' = <<>>
        OBVIOUS
      <4>1. Calm /\ got = <<>>
        BY <2>1, Zenon DEF Line, Recording
      <4> QED BY <1>1, <1>2, <4>1, CalmDevice
    <3>3. Len(prog) = 6 => AskedToScan' \/ Streams'
      <4> SUFFICES ASSUME Len(prog) = 6 PROVE AskedToScan' \/ Streams'
        OBVIOUS
      <4>1. up
        BY <1>3
      <4>2. AskedToScan \/ Streams
        BY <2>1, Zenon DEF Line, Recording
      <4> QED BY <1>1, <1>2, <4>1, <4>2, AskedToScanDevice, StreamsDevice
    <3>4. Len(prog) \in {1, 2, 3, 4, 5} /\ ~spilled' => StreamFrom(got', call')
      <4>1. Len(prog) \in {1, 2, 3, 4, 5} /\ ~spilled => StreamFrom(got, call)
        BY <2>1, Zenon DEF Line, Recording
      <4> QED BY <1>1, <1>2, <4>1, SpilledStays
    <3>5. ret = "Ok" /\ ~spilled' => StreamFrom(fixtures'["scan"], call')
      <4>1. ret = "Ok" /\ ~spilled => StreamFrom(fixtures["scan"], call)
        BY <2>1, Zenon DEF Line, Recording
      <4> QED BY <1>1, <1>2, <4>1, SpilledStays
    <3>6. prog' = prog /\ ret' = ret
      BY <1>2
    <3> QED BY <3>1, <3>2, <3>3, <3>4, <3>5, <3>6, Zenon DEF Recording
  <2>2. CASE ~(op = "capture scan" /\ quiet)
    BY <1>2, <2>2 DEF Recording
  <2> QED BY <2>1, <2>2
<1>7. Kept'
  BY <1>2 DEF Line, Kept
<1> QED BY <1>4, <1>5, <1>6, <1>7 DEF Line

(* Nothing but time passes.                                                *)
LEMMA LineSame ==
  ASSUME Line, UNCHANGED <<vars, fixtures>>
  PROVE  Line'
<1>1. /\ UNCHANGED <<up, op, prog, got, call, settled, quiet, clean, fresh, ret, fixtures>>
      /\ UNCHANGED <<cmds, mode, wire, torn, input, spilled>>
  BY DEF vars, host, device
<1>2. Handshake' /\ Kept'
  BY <1>1 DEF Line, Handshake, Kept, Quiet
<1>3. ASSUME NEW k \in {"info", "health"} PROVE Capturing(k)'
  BY <1>1 DEF Line, Capturing, Querying, Query, Quiet, CaptureOf
<1>4. Recording'
  BY <1>1 DEF Line, Recording, AskedToScan, ScanQuery, Streams, StreamOf, Received, Calm, Quiet
<1> QED BY <1>2, <1>3, <1>4 DEF Line

LEMMA LineStep ==
  ASSUME Shape, Line, [ExamplesNext]_allVars
  PROVE  Line'
<1>1. CASE Start \/ Exit \/ Kill
  BY <1>1, LineStart
<1>2. CASE Continue
  BY <1>2, LineContinue
<1>3. CASE CallStep
  BY <1>3, LineCallStep
<1>4. CASE DeviceNext(up) /\ UNCHANGED <<host, process>>
  BY <1>4, LineDevice
<1>5. CASE Tick \/ UNCHANGED allVars
  BY <1>5, LineSame DEF Tick, allVars, process
<1> QED BY <1>1, <1>2, <1>3, <1>4, <1>5, StepByStep

(* At every point of a run of record: what the captures have read, what is *)
(* still to come, and what they have written, is what was asked for when   *)
(* they began on a quiet line; and a handshake that waited long enough     *)
(* makes them all begin on one (record.rs:67-89, 116-183).                 *)
THEOREM ExamplesLine == ExamplesSpec => []Authentic
<1> DEFINE I == Shape /\ Judged /\ Line
<1>1. ExamplesInit => I
  <2> SUFFICES ASSUME ExamplesInit PROVE I
    OBVIOUS
  <2>1. op = "open" /\ settled = FALSE /\ clean = FALSE
    BY DEF ExamplesInit, Init
  <2>2. Line
    BY <2>1 DEF Line, Handshake, Capturing, CaptureOf, Recording, Kept
  <2>3. Judged
    BY DEF ExamplesInit, Judged
  <2> QED BY <2>2, <2>3, ShapeInit
<1>2. I /\ [ExamplesNext]_allVars => I'
  BY ShapeStep, JudgedStep, LineStep
<1>3. I => Authentic
  BY DEF Authentic, Line
<1> QED BY <1>1, <1>2, <1>3, PTL DEF ExamplesSpec

(* What a recording stores is authentic: a capture that begins on a quiet  *)
(* line stores the answer to its own request, or the stream from its       *)
(* descriptor on; once the handshake waited long enough that is so for     *)
(* every fixture of the run; and "OK" means enough nodes                   *)
(* (record.rs:67-89, 116-183).                                             *)
THEOREM RecordingsAuthentic == ExamplesSpec => []FixturesAuthentic
<1>1. Authentic => FixturesAuthentic
  <2> SUFFICES ASSUME Authentic, ret = "Ok"
               PROVE  /\ op = "capture info" /\ quiet =>
                           fixtures["info"] = Answer("info", call)
                      /\ op = "capture health" /\ quiet =>
                           fixtures["health"] = Answer("health", call)
                      /\ op = "capture scan" =>
                           /\ quiet /\ ~spilled => StreamFrom(fixtures["scan"], call)
                           /\ fresh => /\ quiet
                                       /\ fixtures["info"] = Answer("info", call - 2)
                                       /\ fixtures["health"] = Answer("health", call - 1)
                           /\ verdict = "OK" => Len(fixtures["scan"]) >= Target
    BY DEF FixturesAuthentic
  <2>1. op = "capture info" /\ quiet => fixtures["info"] = Answer("info", call)
    BY DEF Authentic, Capturing, CaptureOf
  <2>2. op = "capture health" /\ quiet => fixtures["health"] = Answer("health", call)
    BY DEF Authentic, Capturing, CaptureOf
  <2>3. op = "capture scan" /\ quiet /\ ~spilled => StreamFrom(fixtures["scan"], call)
    BY DEF Authentic, Recording
  <2>4. op = "capture scan" /\ fresh =>
          /\ quiet
          /\ fixtures["info"] = Answer("info", call - 2)
          /\ fixtures["health"] = Answer("health", call - 1)
    BY DEF Authentic, Kept
  <2>5. verdict = "OK" => Len(fixtures["scan"]) >= Target
    BY DEF Authentic, Judged
  <2> QED BY <2>1, <2>2, <2>3, <2>4, <2>5
<1> QED BY <1>1, ExamplesLine, PTL

=============================================================================
