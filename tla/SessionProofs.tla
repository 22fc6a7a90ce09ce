---------------------------- MODULE SessionProofs ----------------------------
(***************************************************************************)
(* Proofs about Session.  OwnAnswer is about what is still on the line when*)
(* a query begins and at each of its steps, so the invariant says for every*)
(* point of a program what is between the host and the device: nothing but *)
(* motor commands, then the query, then its whole answer, then its payload.*)
(***************************************************************************)
EXTENDS Session, TLAPS, SequenceTheorems

-----------------------------------------------------------------------------
(* The invariant.                                                          *)

Recoveries == {"open", "stop", "reset"}
Queries    == {"info", "health"}

(* A running call has done the beginning of its program, and the line is as*)
(* clean as when it began.                                                 *)
Underway ==
  /\ op \in Recoveries => prog \in {stop, reset, <<Sleep, Flush>>, <<Flush>>, <<>>}
  /\ op = "set_motor_pwm" => prog \in {set_motor_pwm, <<Sleep>>, <<>>}
  /\ op = "info" =>
       prog \in {info, <<Descriptor("info descriptor"), Payload("info")>>,
                 <<Payload("info")>>, <<>>}
  /\ op = "health" =>
       prog \in {health, <<Descriptor("health descriptor"), Payload("health")>>,
                 <<Payload("health")>>, <<>>}
  /\ op = "next_node" => prog = <<>>
  /\ prog # <<>> => up /\ fresh = clean

(* A recovery that waited long enough has only the flush left, and nothing *)
(* can come any more.                                                      *)
Settled == op \in Recoveries /\ settled => Quiet /\ prog = <<Flush>>

(* Nothing to read, and nothing asked that is answered.                    *)
Calm ==
  /\ mode = "idle" /\ wire = <<>> /\ input = <<>>
  /\ \A i \in 1..Len(cmds) : cmds[i].cmd = "SetMotorPwm"

(* The query is on its way, or its answer is.                              *)
DescriptorFor == IF op = "info" THEN "info descriptor" ELSE "health descriptor"

Ask == [cmd |-> IF op = "info" THEN "GetInfo" ELSE "GetHealth", call |-> call]

Asking ==
  /\ wire = <<>> /\ input = <<>> /\ cmds # <<>>
  /\ \A i \in 1 .. Len(cmds) - 1 : cmds[i].cmd = "SetMotorPwm"
  /\ cmds[Len(cmds)] = Ask

Asked ==
  /\ mode = "idle"
  /\ \/ Asking
     \/ cmds = <<>> /\ input \o wire = Answer(op, call)

(* Its descriptor has been read.                                           *)
Answered == mode = "idle" /\ cmds = <<>> /\ input \o wire = Message(op, call)

(* A clean line holds what the running call expects, and nothing else.     *)
Undisturbed ==
  clean =>
    /\ prog = <<>> \/ op = "set_motor_pwm" => Calm
    /\ op \in Queries =>
         /\ Len(prog) = 3 => Calm
         /\ Len(prog) = 2 => Asked
         /\ Len(prog) = 1 => Answered

IInv == TypeOK /\ Underway /\ Settled /\ Undisturbed /\ OwnAnswer

-----------------------------------------------------------------------------
(* Sequences and messages.                                                 *)

(* The steps of a short program, one after another.                        *)
LEMMA Tails ==
  \A a, b, c :
    Tail(<<a, b, c>>) = <<b, c>> /\ Tail(<<b, c>>) = <<c>> /\ Tail(<<c>>) = <<>>
OBVIOUS

(* Every message has parts.                                                *)
LEMMA SizeType == \A k \in Kinds : Size(k) \in Nat \ {0}
<1>1. /\ DESCRIPTOR_LEN \in Nat \ {0} /\ DEVINFO_LEN \in Nat \ {0}
      /\ DEVHEALTH_LEN \in Nat \ {0}
      /\ SCAN_NODE_LEN \in Nat \ {0} /\ BannerLen \in Nat \ {0}
  BY DeviceAssumption
<1>2. DOMAIN Sizes = {"info", "health", "node", "banner"}
  BY DEF Sizes
<1>3. \A k \in DOMAIN Sizes : Sizes[k] \in Nat \ {0}
  BY <1>1, <1>2 DEF Sizes
<1> QED BY <1>1, <1>3 DEF Size, Kinds

(* A message is as long as its kind says.                                  *)
LEMMA MessageType ==
  ASSUME NEW k \in Kinds, NEW c \in 0..MaxCalls
  PROVE  Message(k, c) \in Seq(Part) /\ Len(Message(k, c)) = Size(k)
<1>1. Size(k) \in Nat /\ MaxCalls \in Nat
  BY SizeType, DeviceAssumption
<1>2. \A i \in 1..Size(k) : [kind |-> k, call |-> c, part |-> i] \in Part
  BY <1>1 DEF Part
<1> QED BY <1>1, <1>2 DEF Message

(* A part that arrives leaves what is ahead of the reader as it was.       *)
LEMMA ShiftPart ==
  ASSUME NEW S, NEW s \in Seq(S), NEW t \in Seq(S), t # <<>>
  PROVE  Append(s, Head(t)) \o Tail(t) = s \o t
<1>1. /\ Append(s, Head(t)) \in Seq(S) /\ Tail(t) \in Seq(S) /\ Head(t) = t[1]
      /\ Len(Tail(t)) = Len(t) - 1 /\ Len(Append(s, Head(t))) = Len(s) + 1
      /\ Len(s) \in Nat /\ Len(t) \in Nat /\ Len(t) > 0
      /\ \A i \in 1..Len(Tail(t)) : Tail(t)[i] = t[i + 1]
      /\ \A i \in 1 .. Len(s) + 1 :
           Append(s, Head(t))[i] = IF i <= Len(s) THEN s[i] ELSE t[1]
  BY HeadTailProperties, EmptySeq, LenProperties
<1>2. /\ s \o t \in Seq(S) /\ Len(s \o t) = Len(s) + Len(t)
      /\ \A i \in 1 .. Len(s) + Len(t) :
           (s \o t)[i] = IF i <= Len(s) THEN s[i] ELSE t[i - Len(s)]
  BY ConcatProperties
<1> DEFINE u == Append(s, Head(t)) \o Tail(t)
<1>3. /\ u \in Seq(S) /\ Len(u) = Len(s) + 1 + (Len(t) - 1)
      /\ \A i \in 1 .. Len(s) + Len(t) :
           u[i] = IF i <= Len(s) + 1 THEN Append(s, Head(t))[i]
                                     ELSE Tail(t)[i - (Len(s) + 1)]
  BY <1>1, ConcatProperties
<1>4. \A i \in 1 .. Len(s) + Len(t) : u[i] = (s \o t)[i]
  <2> TAKE i \in 1 .. Len(s) + Len(t)
  <2>1. CASE i <= Len(s)
    BY <1>1, <1>2, <1>3, <2>1
  <2>2. CASE i = Len(s) + 1
    BY <1>1, <1>2, <1>3, <2>2
  <2>3. CASE i > Len(s) + 1
    <3>1. u[i] = Tail(t)[i - (Len(s) + 1)] BY <1>1, <1>3, <2>3
    <3>2. Tail(t)[i - (Len(s) + 1)] = t[i - Len(s)] 
      <4>1. i - (Len(s) + 1) \in 1..Len(Tail(t)) /\ (i - (Len(s) + 1)) + 1 = i - Len(s)
         BY <1>1, <2>3
      <4> QED BY <1>1, <4>1
    <3> QED BY <1>1, <1>2, <2>3, <3>1, <3>2
  <2> QED BY <1>1, <2>1, <2>2, <2>3
<1> QED BY <1>1, <1>2, <1>3, <1>4, SeqEqual

-----------------------------------------------------------------------------
(* Types.                                                                  *)

(* What a program is made of.                                              *)
LEMMA StepTypes ==
  /\ \A c \in Commands : Write(c) \in Steps
  /\ Sleep \in Steps /\ Flush \in Steps
  /\ \A k \in Descriptors : Descriptor(k) \in Steps
  /\ Payload("info") \in Steps /\ Payload("health") \in Steps
BY DEF Write, Sleep, Flush, Descriptor, Payload, Steps

(* Every program is a sequence of steps.                                   *)
LEMMA Shapes ==
  /\ info \in Seq(Steps) /\ health \in Seq(Steps)
  /\ stop \in Seq(Steps) /\ reset \in Seq(Steps)
  /\ set_motor_pwm \in Seq(Steps) /\ start_scan \in Seq(Steps)
<1>1. /\ Write("GetInfo") \in Steps /\ Write("GetHealth") \in Steps
      /\ Write("Stop") \in Steps /\ Write("Reset") \in Steps
      /\ Write("SetMotorPwm") \in Steps /\ Write("Scan") \in Steps
      /\ Descriptor("info descriptor") \in Steps
      /\ Descriptor("health descriptor") \in Steps
      /\ Descriptor("scan descriptor") \in Steps
  BY StepTypes DEF Commands, Descriptors
<1>2. \A a, b, c \in Steps :
        /\ <<a, b, c>> \in Seq(Steps) /\ <<a, b>> \in Seq(Steps)
        /\ <<a>> \in Seq(Steps) /\ <<>> \in Seq(Steps)
  OBVIOUS
<1>3. /\ info \in Seq(Steps) /\ health \in Seq(Steps)
      /\ stop \in Seq(Steps) /\ reset \in Seq(Steps)
      /\ set_motor_pwm \in Seq(Steps) /\ <<Flush>> \in Seq(Steps)
      /\ <<Write("Scan"), Descriptor("scan descriptor")>> \in Seq(Steps)
  BY <1>1, <1>2, StepTypes DEF info, health, stop, reset, set_motor_pwm
<1>4. start_scan \in Seq(Steps)
  <2> DEFINE m == IF motor_pwm > 0 THEN set_motor_pwm ELSE <<>>
  <2>1. m \in Seq(Steps)
    BY <1>3, EmptySeq
  <2>2. <<Flush>> \o m \in Seq(Steps)
    BY <1>3, <2>1, ConcatProperties
  <2> QED BY <1>3, <2>2, ConcatProperties DEF start_scan
<1> QED BY <1>3, <1>4

(* Each operation runs its program.                                        *)
LEMMA ProgramTypes ==
  /\ \A o \in Operations \cup {"open"} : Program(o) \in Seq(Steps)
  /\ Program("open") = stop /\ Program("stop") = stop /\ Program("reset") = reset
  /\ Program("info") = info /\ Program("health") = health
  /\ Program("set_motor_pwm") = set_motor_pwm
<1>1. /\ Program("open") = stop /\ Program("stop") = stop /\ Program("reset") = reset
      /\ Program("info") = info /\ Program("health") = health
      /\ Program("set_motor_pwm") = set_motor_pwm /\ Program("start_scan") = start_scan
  BY DEF Program
<1> QED BY <1>1, Shapes, SessionAssumption

(* What is left after n parts.                                             *)
LEMMA DropType ==
  ASSUME NEW S, NEW s \in Seq(S), NEW n \in Nat, n <= Len(s)
  PROVE  Drop(s, n) \in Seq(S) /\ Len(Drop(s, n)) = Len(s) - n
<1>1. Len(s) \in Nat /\ \A i \in n + 1 .. Len(s) : s[i] \in S
  BY LenProperties
<1> QED BY <1>1, SubSeqProperties DEF Drop

(* The device keeps its types.                                             *)
LEMMA DeviceTypes ==
  ASSUME DeviceTypeOK, NEW open, DeviceNext(open)
  PROVE  DeviceTypeOK'
<1> USE DEF DeviceTypeOK
<1>1. \A k \in Kinds, c \in 0..MaxCalls : Message(k, c) \in Seq(Part)
  BY MessageType
<1>2. /\ {"info", "health", "node", "banner", "info descriptor", "health descriptor",
            "scan descriptor"} \subseteq Kinds
      /\ 0 \in 0..MaxCalls
  BY DeviceAssumption DEF Kinds, Sizes, Descriptors
<1>3. CASE Hear
  <2> DEFINE cmd == Head(cmds).cmd
             c   == Head(cmds).call
  <2>0. cmds # <<>> /\ cmds' = Tail(cmds) /\ UNCHANGED <<input, spilled>>
    BY <1>3 DEF Hear
  <2>1. /\ cmds' \in Seq([cmd : Commands, call : 0..MaxCalls])
        /\ c \in 0..MaxCalls
    <3>1. /\ Head(cmds) \in [cmd : Commands, call : 0..MaxCalls]
          /\ Tail(cmds) \in Seq([cmd : Commands, call : 0..MaxCalls])
      BY <2>0, HeadTailProperties
    <3> QED BY <2>0, <3>1
  <2>2. \A k \in {"info", "health"} : Answer(k, c) \in Seq(Part)
    BY <1>1, <1>2, <2>1, ConcatProperties DEF Answer
  <2>3. \A k \in {"info", "health"} : wire \o Answer(k, c) \in Seq(Part)
    BY <2>2, ConcatProperties
  <2>4. wire \o Message("scan descriptor", c) \in Seq(Part)
    BY <1>1, <1>2, <2>1, ConcatProperties
  <2>5. \A n \in 0..Len(wire) : SubSeq(wire, 1, n) \in Seq(Part)
    BY SubSeqProperties, LenProperties
  <2>6. mode' \in {"idle", "scanning", "booting"} /\ torn' \in BOOLEAN
    BY <1>3 DEF Hear
  <2>7. wire' \in Seq(Part)
    BY <1>3, <2>3, <2>4, <2>5 DEF Hear
  <2> QED BY <2>0, <2>1, <2>6, <2>7
<1>4. CASE Stream
  <2>1. wire' \in Seq(Part)
    BY <1>1, <1>2, <1>4, ConcatProperties DEF Stream
  <2> QED BY <1>4, <2>1 DEF Stream
<1>5. CASE Boot
  <2>1. wire' \in Seq(Part)
    BY <1>1, <1>2, <1>5, ConcatProperties DEF Boot
  <2> QED BY <1>5, <2>1 DEF Boot
<1>6. CASE Arrive(open)
  <2>1. wire' \in Seq(Part) /\ Head(wire) \in Part
    BY <1>6, HeadTailProperties DEF Arrive
  <2>2. Len(input) < InputSize =>
          /\ Append(input, Head(wire)) \in Seq(Part)
          /\ Len(Append(input, Head(wire))) <= InputSize
    BY <2>1, DeviceAssumption, LenProperties
  <2> QED BY <1>6, <2>1, <2>2 DEF Arrive
<1> QED BY <1>3, <1>4, <1>5, <1>6 DEF DeviceNext

(* A failing call keeps the types of the host.                             *)
LEMMA FailTypes ==
  ASSUME TypeOK, NEW e \in {"Failed", "Protocol"}, Fail(e)
  PROVE  /\ up' \in BOOLEAN /\ op' = op /\ call' = call
         /\ prog' = <<>> /\ prog' \in Seq(Steps)
         /\ {settled', quiet', clean', fresh'} \subseteq BOOLEAN
         /\ ret' \in {"none", "Ok", "Failed", "Protocol"}
<1>1. <<>> \in Seq(Steps)
  OBVIOUS
<1>2. up' \in BOOLEAN /\ ret' \in {"none", "Ok", "Failed", "Protocol"}
  BY DEF Fail
<1> QED BY <1>1, <1>2 DEF Fail, TypeOK

(* So does a step that succeeds.                                           *)
LEMMA AdvanceTypes ==
  ASSUME TypeOK, prog # <<>>, NEW lull \in BOOLEAN, Advance(lull)
  PROVE  /\ up' = up /\ op' = op /\ prog' \in Seq(Steps) /\ call' = call
         /\ {settled', quiet', clean', fresh'} \subseteq BOOLEAN
         /\ ret' \in {"none", "Ok", "Failed", "Protocol"}
<1>1. prog' \in Seq(Steps)
  BY HeadTailProperties DEF TypeOK, Advance
<1>2. clean' \in BOOLEAN /\ settled' \in BOOLEAN
  BY DEF TypeOK, Advance
<1> QED BY <1>1, <1>2 DEF TypeOK, Advance

(* A read asks for something.                                              *)
LEMMA WantedType ==
  ASSUME TypeOK, Doing("descriptor") \/ Doing("payload")
  PROVE  Wanted \in Nat \ {0}
<1>1. Head(prog) \in Steps
  BY HeadTailProperties DEF TypeOK, Doing
<1>2. Head(prog).what \in Kinds
  BY <1>1 DEF Doing, Steps, Kinds, Sizes
<1> QED BY <1>2, SizeType DEF Wanted

(* Every step keeps the types.                                             *)
LEMMA TypeOKStep ==
  ASSUME TypeOK, [Next]_vars
  PROVE  TypeOK'
<1>0. DeviceTypeOK
  BY DEF TypeOK
<1>15. ASSUME input' = input \/ input' = <<>>
       PROVE  input' \in Seq(Part) /\ Len(input') <= InputSize
  <2>1. <<>> \in Seq(Part) /\ Len(<<>>) = 0 /\ InputSize \in Nat
    BY DeviceAssumption
  <2>2. input \in Seq(Part) /\ Len(input) <= InputSize
    BY <1>0 DEF DeviceTypeOK
  <2>3. CASE input' = <<>>
    <3>1. Len(input') = 0
      BY <2>1, <2>3
    <3>2. Len(input') <= InputSize
      BY <2>1, <3>1
    <3> QED BY <2>1, <2>3, <3>2
  <2>4. CASE input' = input
    BY <2>2, <2>4
  <2> QED BY <1>15, <2>3, <2>4
<1>1. ASSUME NEW o \in Operations \cup {"open"}, Call(o, Program(o)) PROVE TypeOK'
  <2>1. call' \in 0..MaxCalls
    BY <1>1, DeviceAssumption DEF TypeOK, Call
  <2>2. <<>> \in Seq(Part)
    OBVIOUS
  <2>3. DeviceTypeOK'
    BY <1>0, <1>1 DEF Call, device, DeviceTypeOK
  <2> QED BY <1>1, <2>1, <2>2, <2>3, ProgramTypes DEF TypeOK, Call, Quiet
<1>2. CASE request
  <2>1. Doing("write") /\ prog # <<>> /\ Head(prog) \in Steps
    BY <1>2, HeadTailProperties DEF request, Doing, TypeOK
  <2>2. Head(prog).what \in Commands
    BY <2>1 DEF Doing, Steps
  <2> DEFINE sent == Append(cmds, [cmd |-> Head(prog).what, call |-> call])
  <2>3. sent \in Seq([cmd : Commands, call : 0..MaxCalls])
    BY <2>2 DEF TypeOK, DeviceTypeOK
  <2>4. cmds' \in Seq([cmd : Commands, call : 0..MaxCalls])
    BY <1>2, <2>3 DEF request, DeviceTypeOK, TypeOK
  <2>5. DeviceTypeOK'
    BY <1>0, <1>2, <2>4 DEF request, DeviceTypeOK
  <2>6. Advance(settled) \/ Fail("Failed")
    BY <1>2 DEF request
  <2>7. settled \in BOOLEAN
    BY DEF TypeOK
  <2>8. got' \in Seq(Part)
    BY <1>2 DEF request, TypeOK
  <2> QED BY <2>1, <2>5, <2>6, <2>7, <2>8, FailTypes, AdvanceTypes DEF TypeOK
<1>3. CASE sleep
  <2>1. prog # <<>> /\ Advance(Quiet) /\ Quiet \in BOOLEAN
    BY <1>3 DEF sleep, Doing, Quiet
  <2>2. DeviceTypeOK' /\ got' \in Seq(Part)
    BY <1>0, <1>3 DEF sleep, device, DeviceTypeOK, TypeOK
  <2> QED BY <2>1, <2>2, AdvanceTypes DEF TypeOK
<1>4. CASE discard_input
  <2>1. prog # <<>> /\ (Advance(settled) \/ Fail("Failed")) /\ settled \in BOOLEAN
    BY <1>4 DEF discard_input, Doing, TypeOK
  <2>2. input' \in Seq(Part) /\ Len(input') <= InputSize
    BY <1>4, <1>15 DEF discard_input
  <2>3. DeviceTypeOK' /\ got' \in Seq(Part)
    BY <1>0, <1>4, <2>2 DEF discard_input, device, DeviceTypeOK, TypeOK
  <2> QED BY <2>1, <2>3, FailTypes, AdvanceTypes DEF TypeOK
<1>5. ASSUME NEW n \in Nat, n <= Len(input), input' = Drop(input, n),
             UNCHANGED <<device, spilled>>
      PROVE  DeviceTypeOK'
  <2>1. input' \in Seq(Part) /\ Len(input') <= InputSize
    BY <1>0, <1>5, DropType, LenProperties, DeviceAssumption DEF DeviceTypeOK
  <2> QED BY <1>0, <1>5, <2>1 DEF device, DeviceTypeOK
<1>6. CASE read_descriptor
  <2>1. prog # <<>> /\ (Advance(settled) \/ Fail("Protocol")) /\ settled \in BOOLEAN
    BY <1>6 DEF read_descriptor, Doing, TypeOK
  <2>2. Wanted \in Nat
    BY <1>6, WantedType DEF read_descriptor
  <2>3. DeviceTypeOK' /\ got' \in Seq(Part)
    BY <1>5, <1>6, <2>2 DEF read_descriptor, ReadExact, TypeOK
  <2> QED BY <2>1, <2>3, FailTypes, AdvanceTypes DEF TypeOK
<1>7. CASE read_payload
  <2>1. prog # <<>> /\ (Advance(settled) \/ Fail("Protocol")) /\ settled \in BOOLEAN
    BY <1>7 DEF read_payload, Doing, TypeOK
  <2>2. Wanted \in Nat /\ Wanted <= Len(input) /\ input' = Drop(input, Wanted)
    BY <1>7, WantedType DEF read_payload, ReadExact
  <2>3. Taken \in Seq(Part)
    BY <1>0, <2>2, SubSeqProperties, LenProperties DEF Taken, DeviceTypeOK
  <2>4. DeviceTypeOK' /\ got' \in Seq(Part)
    BY <1>5, <1>7, <2>2, <2>3 DEF read_payload, TypeOK
  <2> QED BY <2>1, <2>4, FailTypes, AdvanceTypes DEF TypeOK
<1>8. CASE ReadFails
  <2>1. PICK lost \in 0 .. Wanted - 1 : lost <= Len(input) /\ input' = Drop(input, lost)
    BY <1>8 DEF ReadFails
  <2>2. Wanted \in Nat
    BY <1>8, WantedType DEF ReadFails
  <2>3. DeviceTypeOK' /\ got' \in Seq(Part)
    BY <1>5, <1>8, <2>1, <2>2 DEF ReadFails, TypeOK
  <2> QED BY <1>8, <2>3, FailTypes DEF TypeOK, ReadFails
<1>9. ASSUME Forget, device' = device, input' \in Seq(Part), Len(input') <= InputSize,
             up' \in BOOLEAN, prog' = <<>>, op' \in {"open", "next_node"}, call' = call
      PROVE  TypeOK'
  <2>1. DeviceTypeOK'
    BY <1>0, <1>9 DEF Forget, device, DeviceTypeOK
  <2>2. <<>> \in Seq(Steps) /\ <<>> \in Seq(Part)
    OBVIOUS
  <2> QED BY <1>9, <2>1, <2>2 DEF Forget, TypeOK
<1>10. CASE next_node
  <2>1. PICK n \in 1..Len(input) : input' = Drop(input, n)
    BY <1>10 DEF next_node
  <2>2. input' \in Seq(Part) /\ Len(input') <= InputSize
    BY <1>0, <2>1, DropType, LenProperties, DeviceAssumption DEF DeviceTypeOK
  <2> QED BY <1>9, <1>10, <2>2 DEF next_node, TypeOK, device
<1>11. CASE Crash
  <2>1. input' \in Seq(Part) /\ Len(input') <= InputSize
    BY <1>11, <1>15 DEF Crash, Close
  <2> QED BY <1>9, <1>11, <2>1 DEF Crash, Close, device
<1>12. CASE DeviceNext(up) /\ UNCHANGED host
  BY <1>0, <1>12, DeviceTypes DEF TypeOK, host
<1>13. CASE UNCHANGED vars
  BY <1>0, <1>13 DEF TypeOK, vars, host, device, DeviceTypeOK
<1>14. CASE Begin
  BY <1>1, <1>14 DEF Begin
<1> QED
  BY <1>2, <1>3, <1>4, <1>6, <1>7, <1>8, <1>10, <1>11, <1>12, <1>13, <1>14 DEF Next, Run

-----------------------------------------------------------------------------
(* Reads.                                                                  *)

(* Reading as much as a, from parts that arrive as a then b, takes a and   *)
(* leaves b.                                                               *)
LEMMA Split ==
  ASSUME NEW S, NEW s \in Seq(S), NEW t \in Seq(S), NEW a \in Seq(S), NEW b \in Seq(S),
         s \o t = a \o b, Len(s) >= Len(a)
  PROVE  /\ SubSeq(s, 1, Len(a)) = a
         /\ Drop(s, Len(a)) \o t = b
<1> DEFINE n == Len(a)
           d == Drop(s, n)
<1>1. n \in Nat /\ Len(s) \in Nat /\ Len(t) \in Nat /\ Len(b) \in Nat /\ n <= Len(s)
  BY LenProperties
<1>2. /\ Len(s) + Len(t) = n + Len(b)
      /\ \A i \in 1 .. Len(s) + Len(t) :
           (IF i <= Len(s) THEN s[i] ELSE t[i - Len(s)])
             = (IF i <= n THEN a[i] ELSE b[i - n])
  BY <1>1, ConcatProperties
<1>3. SubSeq(s, 1, n) = a
  <2>1. /\ SubSeq(s, 1, n) \in Seq(S) /\ Len(SubSeq(s, 1, n)) = n
        /\ \A i \in 1..n : SubSeq(s, 1, n)[i] = s[i]
    BY <1>1, SubSeqProperties, ElementOfSeq
  <2>2. \A i \in 1..n : s[i] = a[i]
    BY <1>1, <1>2
  <2> QED BY <2>1, <2>2, SeqEqual
<1>4. d \in Seq(S) /\ Len(d) = Len(s) - n /\ \A i \in 1 .. Len(s) - n : d[i] = s[i + n]
  BY <1>1, SubSeqProperties, ElementOfSeq DEF Drop
<1> HIDE DEF d
<1>10. d \in Seq(S)
  BY <1>4
<1>7. /\ d \o t \in Seq(S) /\ Len(d \o t) = Len(d) + Len(t)
      /\ \A i \in 1 .. Len(d) + Len(t) :
           (d \o t)[i] = IF i <= Len(d) THEN d[i] ELSE t[i - Len(d)]
  BY <1>10, ConcatProperties
<1>5. /\ d \o t \in Seq(S) /\ Len(d \o t) = (Len(s) - n) + Len(t)
      /\ \A i \in 1 .. (Len(s) - n) + Len(t) :
           (d \o t)[i] = IF i <= Len(s) - n THEN d[i] ELSE t[i - (Len(s) - n)]
  BY <1>1, <1>4, <1>7
<1>6. \A i \in 1..Len(b) : (d \o t)[i] = b[i]
  <2> TAKE i \in 1..Len(b)
  <2>1. i + n \in 1 .. Len(s) + Len(t) /\ ~(i + n <= n) /\ (i + n) - n = i
    BY <1>1, <1>2
  <2>2. (IF i + n <= Len(s) THEN s[i + n] ELSE t[i + n - Len(s)]) = b[i]
    BY <1>2, <2>1
  <2>3. CASE i + n <= Len(s)
    <3>1. i \in 1 .. Len(s) - n
      BY <1>1, <2>3
    <3> QED BY <1>1, <1>2, <1>4, <1>5, <2>2, <2>3, <3>1
  <2>4. CASE ~(i + n <= Len(s))
    <3>1. /\ i \in 1 .. (Len(s) - n) + Len(t) /\ ~(i <= Len(s) - n)
          /\ i - (Len(s) - n) = i + n - Len(s)
      BY <1>1, <1>2, <2>4
    <3> QED BY <1>5, <2>2, <2>4, <3>1
  <2> QED BY <2>3, <2>4
<1>8. Len(d \o t) = Len(b)
  BY <1>1, <1>2, <1>5
<1>9. d \o t = b
  BY <1>5, <1>6, <1>8, SeqEqual
<1> QED BY <1>3, <1>9 DEF d

(* Reading all there is takes the last of it.                              *)
LEMMA TakeAll ==
  ASSUME NEW S, NEW s \in Seq(S), NEW t \in Seq(S), s \o t \in Seq(S),
         Len(s) >= Len(s \o t)
  PROVE  /\ SubSeq(s, 1, Len(s \o t)) = s \o t
         /\ Drop(s, Len(s \o t)) = <<>> /\ t = <<>>
<1>1. Len(s \o t) = Len(s) + Len(t) /\ Len(s) \in Nat /\ Len(t) \in Nat
  BY ConcatProperties, LenProperties
<1>2. Len(t) = 0 /\ Len(s \o t) = Len(s)
  BY <1>1
<1>3. t = <<>> /\ s \o t = s
  BY <1>2, EmptySeq, ConcatEmptySeq
<1>4. Drop(s, Len(s)) = <<>>
  BY <1>1, SubSeqEmpty DEF Drop
<1> QED BY <1>2, <1>3, <1>4, SubSeqFull

-----------------------------------------------------------------------------
(* The program of a call.                                                  *)

(* Every step of a call does the next thing of its program.                *)
LEMMA UnderwayStep ==
  ASSUME TypeOK, Underway, [Next]_vars
  PROVE  Underway'
<1> USE DEF Recoveries
<1>1. CASE Begin
  <2>1. PICK o \in Operations \cup {"open"} : Call(o, Program(o))
    BY <1>1 DEF Begin
  <2>2. op' = o /\ prog' = Program(o) /\ up' = TRUE /\ fresh' = clean'
    BY <2>1 DEF Call
  <2>3. o # "next_node"
    BY SessionAssumption
  <2> QED BY <2>2, <2>3, ProgramTypes DEF Underway
<1>2. ASSUME NEW e, Fail(e) PROVE Underway'
  BY <1>2 DEF Fail, Underway
<1>3. ASSUME NEW lull, Advance(lull), prog # <<>> PROVE Underway'
  <2>1. prog' = Tail(prog) /\ op' = op /\ up' = up /\ fresh' = fresh
    BY <1>3 DEF Advance
  <2>2. up /\ fresh = clean /\ op # "next_node"
    BY <1>3 DEF Underway
  <2>3. prog' # <<>> => clean' = clean
    <3>1. Len(prog) = 1 => Tail(prog) = <<>>
      <4>1. Tail(prog) \in Seq(Steps) /\ Len(Tail(prog)) = Len(prog) - 1
        BY <1>3, HeadTailProperties DEF TypeOK
      <4>2. \A q \in Seq(Steps) : Len(q) = 0 => q = <<>>
        BY EmptySeq
      <4>3. Len(prog) = 1 => Len(Tail(prog)) = 0
        BY <4>1
      <4> QED BY <4>1, <4>2, <4>3, Zenon
    <3> QED BY <1>3, <2>1, <3>1 DEF Advance
  <2>4. op \in Recoveries => prog' \in {<<Sleep, Flush>>, <<Flush>>, <<>>}
    <3>1. /\ Tail(stop) = <<Sleep, Flush>> /\ Tail(reset) = <<Sleep, Flush>>
          /\ Tail(<<Sleep, Flush>>) = <<Flush>> /\ Tail(<<Flush>>) = <<>>
      BY Tails, Zenon DEF stop, reset
    <3> QED BY <1>3, <2>1, <3>1 DEF Underway
  <2>5. op = "set_motor_pwm" => prog' \in {<<Sleep>>, <<>>}
    <3>1. Tail(set_motor_pwm) = <<Sleep>> /\ Tail(<<Sleep>>) = <<>>
      BY Tails, Zenon DEF set_motor_pwm
    <3> QED BY <1>3, <2>1, <3>1 DEF Underway
  <2>6. op = "info" =>
          prog' \in {<<Descriptor("info descriptor"), Payload("info")>>,
                     <<Payload("info")>>, <<>>}
    <3>1. /\ Tail(info) = <<Descriptor("info descriptor"), Payload("info")>>
          /\ Tail(<<Descriptor("info descriptor"), Payload("info")>>)
               = <<Payload("info")>>
          /\ Tail(<<Payload("info")>>) = <<>>
      <4> QED BY Tails, Zenon DEF info
    <3> QED BY <1>3, <2>1, <3>1 DEF Underway
  <2>7. op = "health" =>
          prog' \in {<<Descriptor("health descriptor"), Payload("health")>>,
                     <<Payload("health")>>, <<>>}
    <3>1. /\ Tail(health) = <<Descriptor("health descriptor"), Payload("health")>>
          /\ Tail(<<Descriptor("health descriptor"), Payload("health")>>)
               = <<Payload("health")>>
          /\ Tail(<<Payload("health")>>) = <<>>
      <4> QED BY Tails, Zenon DEF health
    <3> QED BY <1>3, <2>1, <3>1 DEF Underway
  <2> QED BY <2>1, <2>2, <2>3, <2>4, <2>5, <2>6, <2>7 DEF Underway
<1>4. CASE Run
  <2>1. prog # <<>>
    BY <1>4 DEF Run, request, sleep, discard_input, read_descriptor, read_payload,
                ReadFails, Doing
  <2>2. (\E e : Fail(e)) \/ (\E lull : Advance(lull))
    BY <1>4 DEF Run, request, sleep, discard_input, read_descriptor, read_payload,
                ReadFails
  <2> QED BY <1>2, <1>3, <2>1, <2>2
<1>5. CASE next_node \/ Crash
  BY <1>5 DEF next_node, Crash, Close, Underway
<1>6. CASE UNCHANGED host
  BY <1>6 DEF host, Underway
<1> QED
  BY <1>1, <1>4, <1>5, <1>6 DEF Next, vars

(* What a running call does next, by its operation.                        *)
LEMMA Doings ==
  ASSUME Underway, prog # <<>>
  PROVE  /\ up /\ fresh = clean /\ op # "next_node"
         /\ op \in Recoveries =>
              \/ Head(prog).do = "write" /\ prog \in {stop, reset}
              \/ Head(prog).do = "sleep" /\ prog = <<Sleep, Flush>>
              \/ Head(prog).do = "flush" /\ prog = <<Flush>>
         /\ op = "set_motor_pwm" =>
              \/ Head(prog).do = "write" /\ Head(prog).what = "SetMotorPwm"
              \/ Head(prog).do = "sleep"
         /\ op \in Queries =>
              \/ /\ Head(prog).do = "write" /\ Len(prog) = 3
                 /\ Head(prog).what = IF op = "info" THEN "GetInfo" ELSE "GetHealth"
              \/ /\ Head(prog).do = "descriptor" /\ Len(prog) = 2
                 /\ Head(prog).what = DescriptorFor
              \/ Head(prog).do = "payload" /\ Len(prog) = 1 /\ Head(prog).what = op
<1>2. up /\ fresh = clean /\ op # "next_node"
  BY DEF Underway
<1>3. /\ \A c : Write(c).do = "write" /\ Write(c).what = c
      /\ Sleep.do = "sleep" /\ Flush.do = "flush"
      /\ \A k : Descriptor(k).do = "descriptor" /\ Descriptor(k).what = k
      /\ \A k : Payload(k).do = "payload" /\ Payload(k).what = k
  BY DEF Write, Sleep, Flush, Descriptor, Payload
<1>4. /\ \A a, b, c : Head(<<a, b, c>>) = a /\ Len(<<a, b, c>>) = 3
      /\ \A b, c : Head(<<b, c>>) = b /\ Len(<<b, c>>) = 2
      /\ \A c : Head(<<c>>) = c /\ Len(<<c>>) = 1
  OBVIOUS
<1>5. /\ Head(stop) = Write("Stop") /\ Head(reset) = Write("Reset")
      /\ Head(set_motor_pwm) = Write("SetMotorPwm")
      /\ Head(info) = Write("GetInfo") /\ Len(info) = 3
      /\ Head(health) = Write("GetHealth") /\ Len(health) = 3
  BY <1>4, Zenon DEF stop, reset, set_motor_pwm, info, health
<1>6. ASSUME op \in Recoveries
      PROVE  \/ Head(prog).do = "write" /\ prog \in {stop, reset}
             \/ Head(prog).do = "sleep" /\ prog = <<Sleep, Flush>>
             \/ Head(prog).do = "flush" /\ prog = <<Flush>>
  <2>1. CASE prog \in {stop, reset}
    BY <1>3, <1>5, <2>1
  <2>2. CASE prog = <<Sleep, Flush>>
    BY <1>3, <1>4, <2>2
  <2>3. CASE prog = <<Flush>>
    BY <1>3, <1>4, <2>3
  <2> QED BY <1>6, <2>1, <2>2, <2>3 DEF Underway
<1>7. ASSUME op = "set_motor_pwm"
      PROVE  \/ Head(prog).do = "write" /\ Head(prog).what = "SetMotorPwm"
             \/ Head(prog).do = "sleep"
  <2>1. CASE prog = set_motor_pwm
    BY <1>3, <1>5, <2>1
  <2>2. CASE prog = <<Sleep>>
    BY <1>3, <1>4, <2>2
  <2> QED BY <1>7, <2>1, <2>2 DEF Underway
<1>8. ASSUME op \in Queries
      PROVE  \/ /\ Head(prog).do = "write" /\ Len(prog) = 3
                /\ Head(prog).what = IF op = "info" THEN "GetInfo" ELSE "GetHealth"
             \/ /\ Head(prog).do = "descriptor" /\ Len(prog) = 2
                /\ Head(prog).what = DescriptorFor
             \/ Head(prog).do = "payload" /\ Len(prog) = 1 /\ Head(prog).what = op
  <2>1. CASE op = "info"
    <3>1. CASE prog = info
      BY <1>3, <1>5, <2>1, <3>1
    <3>2. CASE prog = <<Descriptor("info descriptor"), Payload("info")>>
      <4>1. Head(prog) = Descriptor("info descriptor") /\ Len(prog) = 2
        BY <1>4, <3>2, Zenon
      <4> QED BY <1>3, <2>1, <4>1 DEF DescriptorFor
    <3>3. CASE prog = <<Payload("info")>>
      BY <1>3, <1>4, <2>1, <3>3
    <3> QED BY <2>1, <3>1, <3>2, <3>3 DEF Underway
  <2>2. CASE op = "health"
    <3>1. CASE prog = health
      BY <1>3, <1>5, <2>2, <3>1
    <3>2. CASE prog = <<Descriptor("health descriptor"), Payload("health")>>
      <4>1. Head(prog) = Descriptor("health descriptor") /\ Len(prog) = 2
        BY <1>4, <3>2, Zenon
      <4> QED BY <1>3, <2>2, <4>1 DEF DescriptorFor
    <3>3. CASE prog = <<Payload("health")>>
      BY <1>3, <1>4, <2>2, <3>3
    <3> QED BY <2>2, <3>1, <3>2, <3>3 DEF Underway
  <2> QED BY <1>8, <2>1, <2>2 DEF Queries
<1> QED BY <1>2, <1>6, <1>7, <1>8

(* A line found quiet stays quiet until the flush.                         *)
LEMMA SettledStep ==
  ASSUME TypeOK, Underway, Settled, [Next]_vars
  PROVE  Settled'
<1>1. CASE Begin \/ next_node \/ Crash
  BY <1>1 DEF Begin, Call, next_node, Crash, Close, Forget, Settled
<1>2. ASSUME NEW e, Fail(e) PROVE Settled'
  BY <1>2 DEF Fail, Settled
<1>3. CASE request
  <2>1. Doing("write") /\ (Advance(settled) \/ Fail("Failed"))
    BY <1>3 DEF request
  <2>2. CASE Advance(settled)
    <3>1. op \in Recoveries => ~settled
      <4>1. Head(<<Flush>>) = Flush /\ Flush.do = "flush"
        BY DEF Flush
      <4> QED BY <2>1, <4>1 DEF Settled, Doing
    <3> QED BY <2>2, <3>1 DEF Advance, Settled
  <2> QED BY <1>2, <2>1, <2>2
<1>4. CASE sleep
  <2>1. Doing("sleep") /\ Advance(Quiet) /\ Quiet' = Quiet
    BY <1>4 DEF sleep, device, Quiet
  <2>2. op \in Recoveries => prog = <<Sleep, Flush>>
    BY <2>1, Doings DEF Doing
  <2>3. op \in Recoveries => prog' = <<Flush>>
    BY <2>1, <2>2, Tails, Zenon DEF Advance
  <2> QED BY <2>1, <2>3 DEF Advance, Settled
<1>5. CASE discard_input
  <2>1. Doing("flush") /\ (Advance(settled) \/ Fail("Failed"))
    BY <1>5 DEF discard_input
  <2>2. op \in Recoveries => Len(prog) = 1
    <3>1. Len(<<Flush>>) = 1
      OBVIOUS
    <3> QED BY <2>1, <3>1, Doings DEF Doing
  <2>3. CASE Advance(settled)
    <3>1. op' = op /\ settled' = (settled /\ Len(prog) > 1)
      BY <2>3 DEF Advance
    <3>2. ~(1 > 1)
      OBVIOUS
    <3>3. op \in Recoveries => ~settled'
      BY <2>2, <3>1, <3>2, Zenon
    <3> QED BY <3>1, <3>3 DEF Settled
  <2> QED BY <1>2, <2>1, <2>3
<1>6. CASE read_descriptor \/ read_payload \/ ReadFails
  <2>1. /\ Doing("descriptor") \/ Doing("payload")
        /\ op' = op
    BY <1>6 DEF read_descriptor, read_payload, ReadFails, Advance, Fail
  <2>2. op \notin Recoveries
    BY <2>1, Doings DEF Doing
  <2> QED BY <2>1, <2>2 DEF Settled
<1>7. CASE DeviceNext(up) /\ UNCHANGED host
  BY <1>7 DEF DeviceNext, Hear, Stream, Boot, Arrive, Quiet, host, Settled
<1>8. CASE UNCHANGED vars
  BY <1>8 DEF vars, host, device, Settled, Quiet
<1> QED BY <1>1, <1>3, <1>4, <1>5, <1>6, <1>7, <1>8 DEF Next, Run

-----------------------------------------------------------------------------
(* The two reads of a query.                                               *)

(* What is ahead of the reader.                                            *)
LEMMA ConcatType ==
  ASSUME DeviceTypeOK
  PROVE  input \o wire \in Seq(Part) /\ Len(input \o wire) = Len(input) + Len(wire)
BY ConcatProperties DEF DeviceTypeOK

(* An answer is a descriptor, then a payload, and fits the input buffer.   *)
LEMMA AnswerType ==
  ASSUME TypeOK, op \in Queries
  PROVE  /\ op \in Kinds /\ DescriptorFor \in Kinds
         /\ Message(op, call) \in Seq(Part) /\ Len(Message(op, call)) = Size(op)
         /\ Message(DescriptorFor, call) \in Seq(Part)
         /\ Len(Message(DescriptorFor, call)) = Size(DescriptorFor)
         /\ Answer(op, call) = Message(DescriptorFor, call) \o Message(op, call)
         /\ Answer(op, call) \in Seq(Part) /\ Len(Answer(op, call)) <= InputSize
         /\ Len(Message(op, call)) <= InputSize
<1>1. /\ op \in Kinds /\ DescriptorFor \in Descriptors /\ DescriptorFor \in Kinds
      /\ Size(DescriptorFor) = DESCRIPTOR_LEN
      /\ Size(op) = IF op = "info" THEN DEVINFO_LEN ELSE DEVHEALTH_LEN
  <2>1. DOMAIN Sizes = {"info", "health", "node", "banner"}
    BY DEF Sizes
  <2>2. Sizes["info"] = DEVINFO_LEN /\ Sizes["health"] = DEVHEALTH_LEN
    BY DEF Sizes
  <2>3. CASE op = "info"
    BY <2>1, <2>2, <2>3 DEF Kinds, Descriptors, DescriptorFor, Size
  <2>4. CASE op = "health"
    BY <2>1, <2>2, <2>4 DEF Kinds, Descriptors, DescriptorFor, Size
  <2> QED BY <2>3, <2>4 DEF Queries
<1>2. /\ Message(op, call) \in Seq(Part) /\ Len(Message(op, call)) = Size(op)
      /\ Message(DescriptorFor, call) \in Seq(Part)
      /\ Len(Message(DescriptorFor, call)) = Size(DescriptorFor)
  BY <1>1, MessageType DEF TypeOK
<1>3. Answer(op, call) = Message(DescriptorFor, call) \o Message(op, call)
  BY DEF Answer, DescriptorFor
<1>4. /\ Answer(op, call) \in Seq(Part)
      /\ Len(Answer(op, call)) = Size(DescriptorFor) + Size(op)
  BY <1>2, <1>3, ConcatProperties
<1>5. /\ Size(DescriptorFor) \in Nat /\ Size(op) \in Nat
      /\ Size(DescriptorFor) + Size(op) <= InputSize
  BY <1>1, DeviceAssumption
<1>6. Size(op) <= InputSize
  BY <1>5, DeviceAssumption
<1> QED BY <1>1, <1>2, <1>3, <1>4, <1>5, <1>6

(* On an undisturbed line a query reads its own descriptor                 *)
(* (device.rs:282-303) and then has its own payload ahead.                 *)
LEMMA DescriptorRead ==
  ASSUME IInv, read_descriptor, op \in Queries, clean
  PROVE  Advance(settled) /\ Answered'
<1>1. TypeOK /\ Doing("descriptor") /\ Len(prog) = 2 /\ Head(prog).what = DescriptorFor
  <2>1. TypeOK /\ Underway /\ Doing("descriptor")
    BY DEF IInv, read_descriptor
  <2> QED BY <2>1, Doings DEF Doing
<1>2. /\ Wanted = Size(DescriptorFor) /\ Size(DescriptorFor) \in Nat \ {0}
      /\ Len(input) >= Wanted
  BY <1>1, AnswerType, SizeType DEF Wanted, read_descriptor, ReadExact
<1>3. Asked
  BY <1>1 DEF IInv, Undisturbed
<1>4. cmds = <<>> /\ mode = "idle" /\ input \o wire = Answer(op, call)
  <2>1. input # <<>>
    BY <1>1, <1>2 DEF TypeOK, DeviceTypeOK
  <2> QED BY <1>3, <2>1 DEF Asked, Asking
<1>5. /\ Taken = Message(DescriptorFor, call)
      /\ Drop(input, Wanted) \o wire = Message(op, call)
  <2>1. /\ input \in Seq(Part) /\ wire \in Seq(Part)
        /\ Message(DescriptorFor, call) \in Seq(Part) /\ Message(op, call) \in Seq(Part)
        /\ Len(Message(DescriptorFor, call)) = Wanted
        /\ input \o wire = Message(DescriptorFor, call) \o Message(op, call)
    BY <1>1, <1>2, <1>4, AnswerType DEF TypeOK, DeviceTypeOK
  <2>2. Len(input) >= Len(Message(DescriptorFor, call))
    BY <1>2, <2>1
  <2>3. /\ SubSeq(input, 1, Len(Message(DescriptorFor, call)))
             = Message(DescriptorFor, call)
        /\ Drop(input, Len(Message(DescriptorFor, call))) \o wire = Message(op, call)
    BY <2>1, <2>2, Split
  <2> QED BY <2>1, <2>3 DEF Taken
<1>6. Whole(Taken, Head(prog).what)
  BY <1>1, <1>5 DEF Whole, TypeOK
<1>7. Advance(settled) /\ input' = Drop(input, Wanted) /\ UNCHANGED device
  BY <1>6 DEF read_descriptor, ReadExact
<1>8. op' = op /\ call' = call
  BY <1>7 DEF Advance
<1>9. Message(op, call)' = Message(op, call)
  BY <1>8 DEF Message, Size, Sizes
<1> QED BY <1>4, <1>5, <1>7, <1>8, <1>9 DEF Answered, device

(* It then reads its own payload (device.rs:316-330), the last thing on    *)
(* the line.                                                               *)
LEMMA PayloadRead ==
  ASSUME IInv, read_payload, op \in Queries, clean
  PROVE  Advance(settled) /\ Calm' /\ got' = Message(op, call)
<1>1. TypeOK /\ Doing("payload") /\ Len(prog) = 1 /\ Head(prog).what = op
  <2>1. TypeOK /\ Underway /\ Doing("payload")
    BY DEF IInv, read_payload
  <2> QED BY <2>1, Doings DEF Doing
<1>2. Wanted = Size(op) /\ Len(input) >= Wanted
  BY <1>1 DEF Wanted, read_payload, ReadExact
<1>3. cmds = <<>> /\ mode = "idle" /\ input \o wire = Message(op, call)
  BY <1>1 DEF IInv, Undisturbed, Answered
<1>4. Taken = Message(op, call) /\ Drop(input, Wanted) = <<>> /\ wire = <<>>
  <2>1. /\ input \in Seq(Part) /\ wire \in Seq(Part) /\ input \o wire \in Seq(Part)
        /\ Len(input \o wire) = Wanted
    BY <1>1, <1>2, <1>3, AnswerType DEF TypeOK, DeviceTypeOK
  <2>2. Len(input) >= Len(input \o wire)
    BY <1>2, <2>1
  <2>3. /\ SubSeq(input, 1, Len(input \o wire)) = input \o wire
        /\ Drop(input, Len(input \o wire)) = <<>> /\ wire = <<>>
    BY <2>1, <2>2, TakeAll
  <2> QED BY <1>3, <2>1, <2>3 DEF Taken
<1>5. Whole(Taken, op)
  BY <1>1, <1>4 DEF Whole, TypeOK
<1>6. /\ Advance(settled) /\ got' = Taken
      /\ input' = Drop(input, Wanted) /\ UNCHANGED device
  BY <1>1, <1>5 DEF read_payload, ReadExact
<1> QED BY <1>3, <1>4, <1>6 DEF Calm, device

-----------------------------------------------------------------------------
(* The device, on a line that is not disturbed.                            *)

(* The motor command is not answered.                                      *)
LEMMA HearsMotor ==
  ASSUME Hear, Head(cmds).cmd = "SetMotorPwm", mode = "idle"
  PROVE  UNCHANGED <<mode, wire, input>> /\ cmds # <<>> /\ cmds' = Tail(cmds)
BY DEF Hear

(* A device with nothing to do does nothing.                               *)
LEMMA CalmDevice ==
  ASSUME DeviceTypeOK, Calm, DeviceNext(up)
  PROVE  Calm'
<1>1. CASE Hear
  <2>1. cmds # <<>> /\ cmds \in Seq([cmd : Commands, call : 0..MaxCalls])
    BY <1>1 DEF Hear, DeviceTypeOK
  <2>2. /\ Head(cmds) = cmds[1] /\ Len(cmds) \in Nat \ {0}
        /\ Len(Tail(cmds)) = Len(cmds) - 1
        /\ \A i \in 1 .. Len(Tail(cmds)) : Tail(cmds)[i] = cmds[i + 1]
    BY <2>1, HeadTailProperties, EmptySeq
  <2>3. UNCHANGED <<mode, wire, input>> /\ cmds' = Tail(cmds)
    BY <1>1, <2>2, HearsMotor DEF Calm
  <2>4. \A i \in 1 .. Len(cmds') : cmds'[i].cmd = "SetMotorPwm"
    BY <2>2, <2>3 DEF Calm
  <2> QED BY <2>3, <2>4 DEF Calm
<1>2. ~Stream /\ ~Boot /\ ~Arrive(up)
  BY DEF Calm, Stream, Boot, Arrive
<1> QED BY <1>1, <1>2 DEF DeviceNext

(* The motor command disturbs nothing.                                     *)
LEMMA CalmAppend ==
  ASSUME DeviceTypeOK, Calm, UNCHANGED <<mode, wire, input>>,
         cmds' = Append(cmds, [cmd |-> "SetMotorPwm", call |-> call])
  PROVE  Calm'
<1>1. /\ Len(cmds') = Len(cmds) + 1 /\ Len(cmds) \in Nat
      /\ \A i \in 1 .. Len(cmds) : cmds'[i] = cmds[i]
      /\ cmds'[Len(cmds) + 1] = [cmd |-> "SetMotorPwm", call |-> call]
  BY DEF DeviceTypeOK
<1>2. \A i \in 1 .. Len(cmds') : cmds'[i].cmd = "SetMotorPwm"
  <2> TAKE i \in 1 .. Len(cmds')
  <2>1. CASE i \in 1 .. Len(cmds)
    BY <1>1, <2>1 DEF Calm
  <2>2. CASE i = Len(cmds) + 1
    BY <1>1, <2>2
  <2> QED BY <1>1, <2>1, <2>2
<1> QED BY <1>2 DEF Calm

(* A query on a calm line has been asked.                                  *)
LEMMA AskAppend ==
  ASSUME TypeOK, Calm, UNCHANGED <<mode, wire, input, op, call>>,
         cmds' = Append(cmds, Ask)
  PROVE  Asked'
<1>1. /\ Len(cmds') = Len(cmds) + 1 /\ Len(cmds) \in Nat
      /\ \A i \in 1 .. Len(cmds) : cmds'[i] = cmds[i]
      /\ cmds'[Len(cmds) + 1] = Ask
  BY DEF TypeOK, DeviceTypeOK
<1>2. Ask' = Ask
  BY DEF Ask
<1>3. \A i \in 1 .. Len(cmds') - 1 : cmds'[i].cmd = "SetMotorPwm"
  BY <1>1 DEF Calm
<1>4. cmds'[Len(cmds')] = Ask' /\ cmds' # <<>>
  BY <1>1, <1>2
<1> QED BY <1>3, <1>4 DEF Calm, Asked, Asking

(* With room in the buffer nothing is lost on arrival.                     *)
LEMMA ArriveKeeps ==
  ASSUME DeviceTypeOK, Arrive(up), up, Len(input \o wire) <= InputSize
  PROVE  input' \o wire' = input \o wire /\ UNCHANGED <<mode, cmds>>
<1>1. /\ wire # <<>> /\ wire \in Seq(Part) /\ input \in Seq(Part) /\ wire' = Tail(wire)
      /\ UNCHANGED <<mode, cmds>>
  BY DEF Arrive, DeviceTypeOK
<1>2. Len(wire) \in Nat \ {0} /\ Len(input) \in Nat
  BY <1>1, EmptySeq, LenProperties
<1>3. Len(input) # InputSize
  BY <1>2, ConcatType, DeviceAssumption
<1>4. input' = Append(input, Head(wire))
  BY <1>3 DEF Arrive
<1> QED BY <1>1, <1>4, ShiftPart

(* The device answers what was asked, once, with all of an answer.         *)
LEMMA AskedDevice ==
  ASSUME TypeOK, op \in Queries, up, Asked, DeviceNext(up), UNCHANGED host
  PROVE  Asked'
<1>1. op' = op /\ call' = call /\ Ask' = Ask /\ Answer(op, call)' = Answer(op, call)
  BY DEF host, Ask, Answer, Message, Size, Sizes
<1>2. ~Stream /\ ~Boot
  BY DEF Asked, Stream, Boot
<1>3. CASE Asking
  <2>1. Hear
    BY <1>2, <1>3 DEF DeviceNext, Arrive, Asking
  <2>2. cmds # <<>> /\ cmds \in Seq([cmd : Commands, call : 0..MaxCalls])
    BY <1>3 DEF Asking, TypeOK, DeviceTypeOK
  <2>3. /\ Head(cmds) = cmds[1] /\ Len(cmds) \in Nat \ {0}
        /\ Len(Tail(cmds)) = Len(cmds) - 1
        /\ \A i \in 1 .. Len(Tail(cmds)) : Tail(cmds)[i] = cmds[i + 1]
        /\ Tail(cmds) \in Seq([cmd : Commands, call : 0..MaxCalls])
    BY <2>2, HeadTailProperties, EmptySeq
  <2>4. CASE Len(cmds) > 1
    <3>1. Head(cmds).cmd = "SetMotorPwm"
      BY <1>3, <2>3, <2>4 DEF Asking
    <3>2. UNCHANGED <<mode, wire, input>> /\ cmds' = Tail(cmds)
      BY <2>1, <3>1, HearsMotor DEF Asked
    <3>3. /\ \A i \in 1 .. Len(cmds') - 1 : cmds'[i].cmd = "SetMotorPwm"
          /\ cmds'[Len(cmds')] = Ask /\ Len(cmds') > 0
      BY <1>3, <2>3, <2>4, <3>2 DEF Asking
    <3>4. cmds' # <<>>
      BY <3>3
    <3> QED BY <1>1, <1>3, <3>2, <3>3, <3>4 DEF Asked, Asking
  <2>5. CASE Len(cmds) = 1
    <3>1. Head(cmds) = Ask
      BY <1>3, <2>3, <2>5 DEF Asking
    <3>2. Head(cmds).cmd = IF op = "info" THEN "GetInfo" ELSE "GetHealth"
      BY <3>1 DEF Ask
    <3>3. Head(cmds).call = call
      BY <3>1 DEF Ask
    <3>4. /\ wire' = wire \o Answer(op, call)
          /\ UNCHANGED <<mode, input>> /\ cmds' = Tail(cmds)
      BY <2>1, <3>2, <3>3 DEF Hear, Asked, Queries
    <3>5. cmds' = <<>>
      BY <2>3, <2>5, <3>4, EmptySeq
    <3>6. input' \o wire' = Answer(op, call)
      BY <1>3, <3>4, AnswerType, ConcatEmptySeq DEF Asking
    <3> QED BY <1>1, <3>4, <3>5, <3>6 DEF Asked
  <2> QED BY <2>3, <2>4, <2>5
<1>4. CASE cmds = <<>> /\ input \o wire = Answer(op, call)
  <2>1. Arrive(up)
    BY <1>2, <1>4 DEF DeviceNext, Hear
  <2> QED BY <1>1, <1>4, <2>1, AnswerType, ArriveKeeps DEF Asked, TypeOK
<1> QED BY <1>3, <1>4 DEF Asked

(* The rest of the answer arrives.                                         *)
LEMMA AnsweredDevice ==
  ASSUME TypeOK, op \in Queries, up, Answered, DeviceNext(up), UNCHANGED host
  PROVE  Answered'
<1>1. Message(op, call)' = Message(op, call)
  BY DEF host, Message, Size, Sizes
<1>2. Arrive(up)
  BY DEF Answered, DeviceNext, Hear, Stream, Boot
<1> QED BY <1>1, <1>2, AnswerType, ArriveKeeps DEF Answered, TypeOK

-----------------------------------------------------------------------------
(* The steps together.                                                     *)

(* Every step keeps a clean line undisturbed.                              *)
LEMMA UndisturbedStep ==
  ASSUME IInv, [Next]_vars
  PROVE  Undisturbed'
<1>0. TypeOK /\ DeviceTypeOK /\ Underway /\ Settled
  BY DEF IInv, TypeOK
<1>1. CASE Begin
  <2>1. PICK o \in Operations \cup {"open"} : Call(o, Program(o))
    BY <1>1 DEF Begin
  <2>2. /\ prog = <<>> /\ prog' = Program(o) /\ op' = o /\ clean' = clean
        /\ UNCHANGED <<device, input>>
    BY <2>1 DEF Call
  <2>3. clean' => Calm'
    BY <2>2 DEF IInv, Undisturbed, Calm, device
  <2>4. op' \in Queries => Len(prog') = 3
    <3>1. Len(info) = 3 /\ Len(health) = 3
      BY DEF info, health
    <3> QED BY <2>2, <3>1, ProgramTypes DEF Queries
  <2> QED BY <2>3, <2>4 DEF Undisturbed
<1>2. ASSUME NEW e, Fail(e) PROVE Undisturbed'
  BY <1>2 DEF Fail, Undisturbed
<1>3. ASSUME NEW lull \in BOOLEAN, Advance(lull), prog # <<>>
      PROVE  /\ op' = op /\ Len(prog') = Len(prog) - 1 /\ Len(prog) \in Nat
             /\ prog' = <<>> => Len(prog) = 1
             /\ Len(prog) = 1 =>
                  clean' = IF op \in Recoveries THEN lull ELSE clean /\ op # "start_scan"
             /\ Len(prog) # 1 => clean' = clean
  <2>1. prog' = Tail(prog) /\ op' = op
    BY <1>3 DEF Advance
  <2>2. Len(prog) \in Nat /\ Len(Tail(prog)) = Len(prog) - 1
    BY <1>0, <1>3, HeadTailProperties, LenProperties DEF TypeOK
  <2>3. Len(<<>>) = 0
    OBVIOUS
  <2>4. prog' = <<>> => Len(prog) = 1
    <3>1. prog' = <<>> => Len(Tail(prog)) = 0
      BY <2>1, <2>3, Zenon
    <3> QED BY <2>2, <3>1
  <2>5. /\ Len(prog) = 1 =>
             clean' = IF op \in Recoveries THEN lull ELSE clean /\ op # "start_scan"
        /\ Len(prog) # 1 => clean' = clean
    BY <1>3 DEF Advance, Recoveries
  <2> QED BY <2>1, <2>2, <2>4, <2>5
<1>4. prog # <<>> /\ op \notin Recoveries \cup Queries \cup {"set_motor_pwm"}
        => op = "start_scan"
  BY <1>0, Doings, SessionAssumption DEF TypeOK, Recoveries, Queries
<1>5. ASSUME NEW lull \in BOOLEAN, Advance(lull), prog # <<>>, op = "start_scan"
      PROVE  Undisturbed'
  BY <1>3, <1>5 DEF Undisturbed, Recoveries, Queries
<1>6. CASE request
  <2> DEFINE sent == Append(cmds, [cmd |-> Head(prog).what, call |-> call])
  <2>1. /\ Doing("write") /\ prog # <<>>
        /\ Fail("Failed") \/ (Advance(settled) /\ cmds' = sent)
        /\ UNCHANGED <<mode, wire, input>> /\ settled \in BOOLEAN
    BY <1>0, <1>6 DEF request, Doing, TypeOK
  <2>2. SUFFICES ASSUME Advance(settled), cmds' = sent, clean'
                 PROVE  Undisturbed'
    BY <1>2, <2>1 DEF Undisturbed
  <2>3. op' = op /\ call' = call
    BY <2>2 DEF Advance
  <2>4. CASE op \in Recoveries
    <3>1. prog' = <<Sleep, Flush>>
      <4>1. prog \in {stop, reset}
        BY <1>0, <2>1, <2>4, Doings DEF Doing
      <4>2. Tail(stop) = <<Sleep, Flush>> /\ Tail(reset) = <<Sleep, Flush>>
        BY Tails, Zenon DEF stop, reset
      <4> QED BY <2>2, <4>1, <4>2 DEF Advance
    <3> QED BY <2>3, <2>4, <3>1 DEF Undisturbed, Recoveries, Queries
  <2>5. CASE op \in Queries
    <3>1. /\ Len(prog) = 3
          /\ Head(prog).what = IF op = "info" THEN "GetInfo" ELSE "GetHealth"
      BY <1>0, <2>1, <2>5, Doings DEF Doing
    <3>2. clean /\ Len(prog') = 2
      <4>1. Len(prog') = Len(prog) - 1 /\ (Len(prog) # 1 => clean' = clean)
        BY <1>3, <2>1, <2>2
      <4>2. Len(prog') = 2 /\ Len(prog) # 1
        BY <3>1, <4>1
      <4> QED BY <2>2, <4>1, <4>2
    <3>3. Calm /\ cmds' = Append(cmds, Ask)
      BY <2>2, <2>5, <3>1, <3>2 DEF IInv, Undisturbed, Ask
    <3>4. Asked'
      BY <1>0, <2>1, <2>3, <3>3, AskAppend
    <3>5. Len(prog') # 0 /\ prog' # <<>>
      BY <3>2
    <3> QED BY <2>3, <2>5, <3>2, <3>4, <3>5 DEF Undisturbed, Queries
  <2>6. CASE op = "set_motor_pwm"
    <3>1. Head(prog).what = "SetMotorPwm"
      BY <1>0, <2>1, <2>6, Doings DEF Doing
    <3>2. clean
      BY <1>3, <2>1, <2>2, <2>6 DEF Recoveries
    <3>3. Calm'
      BY <1>0, <2>1, <2>2, <2>6, <3>1, <3>2, CalmAppend DEF IInv, Undisturbed
    <3> QED BY <2>3, <2>6, <3>3 DEF Undisturbed, Queries
  <2> QED BY <1>4, <1>5, <2>1, <2>2, <2>4, <2>5, <2>6
<1>7. CASE sleep
  <2>1. /\ Doing("sleep") /\ prog # <<>> /\ Advance(Quiet) /\ Quiet \in BOOLEAN
        /\ UNCHANGED <<device, input>>
    BY <1>7 DEF sleep, Doing, Quiet
  <2>2. op' = op
    BY <2>1 DEF Advance
  <2>3. CASE op \in Recoveries
    <3>1. prog = <<Sleep, Flush>>
      BY <1>0, <2>1, <2>3, Doings DEF Doing
    <3>2. prog' = <<Flush>>
      BY <2>1, <3>1, Tails, Zenon DEF Advance
    <3> QED BY <2>2, <2>3, <3>2 DEF Undisturbed, Recoveries, Queries
  <2>4. CASE op = "set_motor_pwm"
    <3>1. clean' => clean
      BY <1>3, <2>1, <2>4 DEF Recoveries
    <3>2. clean' => Calm'
      BY <2>1, <2>4, <3>1 DEF IInv, Undisturbed, Calm, device
    <3> QED BY <2>2, <2>4, <3>2 DEF Undisturbed, Queries
  <2>5. op \notin Queries
    BY <1>0, <2>1, Doings DEF Doing
  <2> QED BY <1>4, <1>5, <2>1, <2>3, <2>4, <2>5
<1>8. CASE discard_input
  <2>1. /\ Doing("flush") /\ prog # <<>> /\ settled \in BOOLEAN /\ UNCHANGED device
        /\ Fail("Failed") \/ (Advance(settled) /\ input' = <<>>)
    BY <1>0, <1>8 DEF discard_input, Doing, TypeOK
  <2>2. SUFFICES ASSUME Advance(settled), input' = <<>>, clean' PROVE Undisturbed'
    BY <1>2, <2>1 DEF Undisturbed
  <2>3. op' = op
    BY <2>2 DEF Advance
  <2>4. CASE op \in Recoveries
    <3>1. Len(prog) = 1
      <4>1. Len(<<Flush>>) = 1
        OBVIOUS
      <4> QED BY <1>0, <2>1, <2>4, <4>1, Doings DEF Doing
    <3>2. settled
      BY <1>3, <2>1, <2>2, <2>4, <3>1
    <3>3. Calm'
      <4>1. Quiet
        BY <1>0, <2>4, <3>2 DEF Settled
      <4>2. Len(<<>>) = 0
        OBVIOUS
      <4> QED BY <2>1, <2>2, <4>1, <4>2 DEF Quiet, Calm, device
    <3> QED BY <2>3, <2>4, <3>3 DEF Undisturbed, Recoveries, Queries
  <2>5. op \notin Queries /\ op # "set_motor_pwm"
    BY <1>0, <2>1, Doings DEF Doing
  <2> QED BY <1>4, <1>5, <2>1, <2>2, <2>4, <2>5
<1>9. CASE read_descriptor
  <2>1. /\ Doing("descriptor") /\ prog # <<>> /\ settled \in BOOLEAN
        /\ Advance(settled) \/ Fail("Protocol")
    BY <1>0, <1>9 DEF read_descriptor, Doing, TypeOK
  <2>2. /\ op \notin Recoveries /\ op # "set_motor_pwm"
        /\ op \in Queries => Len(prog) = 2
    BY <1>0, <2>1, Doings DEF Doing
  <2>3. CASE op \in Queries /\ Advance(settled)
    <3>1. op' = op /\ Len(prog') = 1 /\ clean' = clean
      <4>1. /\ op' = op /\ Len(prog') = Len(prog) - 1
            /\ Len(prog) # 1 => clean' = clean
        BY <1>3, <2>1, <2>3
      <4> QED BY <2>2, <2>3, <4>1
    <3>2. clean' => Answered'
      BY <1>9, <2>3, <3>1, DescriptorRead
    <3>3. prog' # <<>>
      BY <3>1
    <3> QED BY <2>2, <3>1, <3>2, <3>3 DEF Undisturbed
  <2> QED BY <1>2, <1>4, <1>5, <2>1, <2>2, <2>3
<1>10. CASE read_payload
  <2>1. /\ Doing("payload") /\ prog # <<>> /\ settled \in BOOLEAN
        /\ Advance(settled) \/ Fail("Protocol")
    BY <1>0, <1>10 DEF read_payload, Doing, TypeOK
  <2>2. /\ op \notin Recoveries /\ op # "set_motor_pwm"
        /\ op \in Queries => Len(prog) = 1
    BY <1>0, <2>1, Doings DEF Doing
  <2>3. CASE op \in Queries /\ Advance(settled)
    <3>1. op' = op /\ Len(prog') = 0
      BY <1>3, <2>1, <2>2, <2>3
    <3>2. clean' => clean
      BY <1>3, <2>1, <2>2, <2>3
    <3>3. clean' => Calm'
      BY <1>10, <2>3, <3>2, PayloadRead
    <3> QED BY <3>1, <3>3 DEF Undisturbed
  <2> QED BY <1>2, <1>4, <1>5, <2>1, <2>2, <2>3
<1>11. CASE ReadFails
  BY <1>2, <1>11 DEF ReadFails
<1>12. CASE next_node \/ Crash
  BY <1>12 DEF next_node, Crash, Close, Forget, Undisturbed
<1>13. CASE DeviceNext(up) /\ UNCHANGED host
  <2>1. op' = op /\ prog' = prog /\ clean' = clean
    BY <1>13 DEF host
  <2>2. clean /\ (prog = <<>> \/ op = "set_motor_pwm") => Calm'
    BY <1>0, <1>13, CalmDevice DEF IInv, Undisturbed
  <2>3. clean /\ op \in Queries /\ Len(prog) = 3 => Calm'
    BY <1>0, <1>13, CalmDevice DEF IInv, Undisturbed
  <2>4. Len(prog) \in {1, 2} => up
    <3>1. Len(<<>>) = 0
      OBVIOUS
    <3>2. prog = <<>> => ~(Len(prog) \in {1, 2})
      BY <3>1
    <3>3. prog # <<>> => up
      BY <1>0 DEF Underway
    <3> QED BY <3>2, <3>3
  <2>5. clean /\ op \in Queries /\ Len(prog) = 2 => Asked'
    BY <1>0, <1>13, <2>4, AskedDevice DEF IInv, Undisturbed
  <2>6. clean /\ op \in Queries /\ Len(prog) = 1 => Answered'
    BY <1>0, <1>13, <2>4, AnsweredDevice DEF IInv, Undisturbed
  <2> QED BY <2>1, <2>2, <2>3, <2>5, <2>6 DEF Undisturbed
<1>14. CASE UNCHANGED vars
  <2>1. /\ UNCHANGED <<op, call, prog, clean, cmds, mode, wire, input>>
        /\ Ask' = Ask /\ Answer(op, call)' = Answer(op, call)
        /\ Message(op, call)' = Message(op, call)
    BY <1>14 DEF vars, host, device, Ask, Answer, Message, Size, Sizes
  <2>2. (Calm => Calm') /\ (Asked => Asked') /\ (Answered => Answered')
    BY <2>1 DEF Calm, Asked, Asking, Answered
  <2> QED BY <2>1, <2>2 DEF IInv, Undisturbed
<1> QED
  BY <1>1, <1>6, <1>7, <1>8, <1>9, <1>10, <1>11, <1>12, <1>13, <1>14 DEF Next, Run

(* And so a query gets its own answer.                                     *)
LEMMA OwnAnswerStep ==
  ASSUME IInv, [Next]_vars
  PROVE  OwnAnswer'
<1>0. TypeOK /\ Underway /\ OwnAnswer
  BY DEF IInv
<1>1. CASE Begin \/ next_node \/ Crash
  BY <1>1 DEF Begin, Call, next_node, Crash, Close, Forget, OwnAnswer
<1>2. ASSUME Fail("Failed") PROVE OwnAnswer'
  BY <1>2 DEF Fail, OwnAnswer
<1>3. ASSUME UNCHANGED <<op, fresh, ret, got, call>> PROVE OwnAnswer'
  BY <1>0, <1>3 DEF OwnAnswer, Message, Size, Sizes
<1>4. CASE Run
  <2>1. SUFFICES ASSUME op' = op, op \in Queries, fresh' = fresh, fresh PROVE OwnAnswer'
    BY <1>4 DEF Run, request, sleep, discard_input, read_descriptor, read_payload,
                ReadFails, Advance, Fail, OwnAnswer, Queries
  <2>2. prog # <<>> /\ clean
    BY <1>0, <1>4, <2>1 DEF Run, request, sleep, discard_input, read_descriptor,
                            read_payload, ReadFails, Doing, Underway
  <2>3. CASE request
    <3>1. Len(prog) = 3
      BY <1>0, <2>1, <2>2, <2>3, Doings DEF request, Doing
    <3>2. got' = got /\ (Advance(settled) \/ Fail("Failed"))
      BY <2>3 DEF request
    <3> QED BY <1>2, <1>3, <3>1, <3>2 DEF Advance
  <2>4. ~sleep /\ ~discard_input
    BY <1>0, <2>1, <2>2, Doings DEF sleep, discard_input, Doing
  <2>5. CASE read_descriptor
    <3>1. Len(prog) = 2
      BY <1>0, <2>1, <2>2, <2>5, Doings DEF read_descriptor, Doing
    <3>2. got' = got /\ Advance(settled)
      BY <2>1, <2>2, <2>5, DescriptorRead DEF read_descriptor
    <3> QED BY <1>3, <3>1, <3>2 DEF Advance
  <2>6. CASE read_payload
    <3>1. Len(prog) = 1
      BY <1>0, <2>1, <2>2, <2>6, Doings DEF read_payload, Doing
    <3>2. got' = Message(op, call) /\ Advance(settled)
      BY <2>1, <2>2, <2>6, PayloadRead
    <3>3. call' = call /\ ret' = "Ok"
      BY <3>1, <3>2 DEF Advance
    <3>4. got' = Message(op, call)'
      BY <2>1, <3>2, <3>3 DEF Message, Size, Sizes
    <3> QED BY <3>3, <3>4 DEF OwnAnswer
  <2>7. CASE ReadFails
    BY <1>2, <2>7 DEF ReadFails
  <2> QED BY <1>4, <2>3, <2>4, <2>5, <2>6, <2>7 DEF Run
<1>5. CASE UNCHANGED host
  BY <1>3, <1>5 DEF host
<1> QED BY <1>1, <1>4, <1>5 DEF Next, vars

(* At first nothing has been asked.                                        *)
LEMMA InitIInv == Init => IInv
<1> SUFFICES ASSUME Init PROVE IInv
  OBVIOUS
<1>1. TypeOK
  <2>1. <<>> \in Seq(Steps) /\ <<>> \in Seq(Part)
        /\ <<>> \in Seq([cmd : Commands, call : 0..MaxCalls]) /\ Len(<<>>) = 0
    OBVIOUS
  <2>2. DeviceTypeOK
    <3>1. mode \in {"idle", "scanning", "booting"} /\ InputSize \in Nat
      BY DeviceAssumption DEF Init, DeviceInit
    <3>2. Len(input) <= InputSize
      BY <2>1, <3>1 DEF Init, DeviceInit
    <3> QED BY <2>1, <3>1, <3>2 DEF Init, DeviceInit, DeviceTypeOK
  <2>3. call \in 0..MaxCalls
    BY DeviceAssumption DEF Init
  <2> QED BY <2>1, <2>2, <2>3 DEF Init, TypeOK
<1>2. Underway /\ Settled /\ Undisturbed /\ OwnAnswer
  BY DEF Init, Underway, Settled, Undisturbed, OwnAnswer, Recoveries
<1> QED BY <1>1, <1>2 DEF IInv

(* The inductive invariant holds in every reachable state.                 *)
THEOREM Invariance == Spec => []IInv
<1>1. IInv /\ [Next]_vars => IInv'
  BY TypeOKStep, UnderwayStep, SettledStep, UndisturbedStep, OwnAnswerStep DEF IInv
<1> QED BY InitIInv, <1>1, PTL DEF Spec

(* The types of Session hold, for every length of the messages, size of    *)
(* the buffer and set of operations.                                       *)
THEOREM SessionTypes == Spec => []TypeOK
<1>1. IInv => TypeOK
  BY DEF IInv
<1> QED BY <1>1, Invariance, PTL

(* After a recovery that waited long enough, a query never ends with       *)
(* another answer than its own, or with a protocol error, until something  *)
(* fails or scans (device.rs:99-108, 133-162, 171-187).                    *)
THEOREM RecoveredAnswers == Spec => []OwnAnswer
<1>1. IInv => OwnAnswer
  BY DEF IInv
<1> QED BY <1>1, Invariance, PTL

=============================================================================
