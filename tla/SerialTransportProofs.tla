----------------------- MODULE SerialTransportProofs ------------------------
(***************************************************************************)
(* Proofs about SerialTransport, for every set of budgets and every bound. *)
(*                                                                         *)
(* The two facts about deadlines are not inductive: what makes them so is  *)
(* that the cache tells the truth, and that the port's own timer runs      *)
(* between the deadline and the deadline plus the clamp (IInv).            *)
(***************************************************************************)
EXTENDS SerialTransport, TLAPS

(* How far a call is from being done with its time.                        *)
Timer ==
  /\ current_timeout = port_timeout
  /\ pc = "wait" =>
       /\ left <= port_left
       /\ left + lag + MinTimeout > port_left
  /\ left + lag + MinTimeout > 0

(* The buffer is never full while the loop goes on, and untouched by read; *)
(* what was put into it was taken from the port.                           *)
Buffer ==
  /\ filled <= taken
  /\ pc # "idle" => filled < want /\ (op = "read" => filled = 0)

IInv == TypeOK /\ Timer /\ Buffer /\ NeverEarly

-----------------------------------------------------------------------------
LEMMA InitIInv == Init => IInv
  BY SerialAssumption, SMT
  DEF Init, IInv, TypeOK, Timer, Buffer, NeverEarly, Trait!NoAnswer, Trait!Answer,
      Trait!Failures

(* Returning a timeout or an error from inside the loop.                   *)
LEMMA ReturnType ==
  ASSUME TypeOK, NEW f \in Trait!Failures, Return(f, 0)
  PROVE  /\ pc' = "idle"
         /\ ret' \in [op : {"none", "read_exact", "read"}, want : 0..MaxWant,
                      result : {"none", "Ok"} \cup Trait!Failures, got : 0..MaxWant]
         /\ ret'.result = f
  BY SerialAssumption, SMT DEF TypeOK, Return, Trait!Answer

LEMMA IInvStep == IInv /\ [Next]_vars => IInv'
<1> SUFFICES ASSUME IInv, [Next]_vars PROVE IInv'
  OBVIOUS
<1> USE DEF IInv, TypeOK, Timer, Buffer, NeverEarly
<1>1. CASE Call
  <2>1. left' \in Nat /\ want' \in 1..MaxWant /\ op' \in {"read_exact", "read"}
    BY <1>1, SerialAssumption DEF Call
  <2>2. /\ pc' = "check" /\ filled' = 0 /\ lag' = 0 /\ port_left' = 0
        /\ UNCHANGED <<current_timeout, port_timeout, avail, taken, ret>>
    BY <1>1 DEF Call, port
  <2>3. MaxLag \in Nat /\ MaxWant \in Nat /\ MinTimeout \in Nat /\ MinTimeout > 0
    BY SerialAssumption, SMT
  <2> HIDE DEF IInv
  <2>4. TypeOK
    BY DEF IInv
  <2>5. TypeOK'
    BY <2>1, <2>2, <2>3, <2>4, SMT
  <2>6. Timer'
    <3>1. current_timeout = port_timeout
      BY DEF IInv
    <3>2. left' + lag' + MinTimeout > 0
      <4>1. left' \in Nat /\ lag' = 0
        BY <2>1, <2>2
      <4>2. \A a, m \in Nat : m > 0 => a + 0 + m > 0
        BY SMT
      <4> QED BY <4>1, <4>2, <2>3
    <3> QED BY <2>2, <3>1, <3>2
  <2>7. Buffer' /\ NeverEarly'
    BY <2>1, <2>2, <2>4, SMT
  <2> QED BY <2>5, <2>6, <2>7 DEF IInv
<1>2. CASE Expired
  <2>1. Return("Timeout", 0) /\ left <= 0
    BY <1>2 DEF Expired
  <2>2. "Timeout" \in Trait!Failures
    BY DEF Trait!Failures
  <2> QED BY <1>2, <2>1, <2>2, ReturnType, SMT DEF Expired, port, call
<1>3. CASE SetTimeout
  BY <1>3, SerialAssumption, SMT DEF SetTimeout, clamped, Larger, port, call
<1>4. CASE SetTimeoutFails
  <2>1. Return("Serial", 0)
    BY <1>4 DEF SetTimeoutFails
  <2>2. "Serial" \in Trait!Failures
    BY DEF Trait!Failures
  <2> QED BY <1>4, <2>1, <2>2, ReturnType, SMT DEF SetTimeoutFails, port, call
<1>5. CASE PortData
  <2>1. PICK n \in 1 .. Smaller(avail, want - filled) :
          /\ filled' = filled + n
          /\ avail' = avail - n
          /\ taken' = taken + n
          /\ IF op = "read" \/ filled + n = want
             THEN Return("Ok", filled + n)
             ELSE pc' = "check" /\ UNCHANGED ret
    BY <1>5 DEF PortData
  <2>2. n \in Nat /\ n <= avail /\ n <= want - filled /\ n > 0
    BY <2>1, SMT DEF Smaller
  <2>3. UNCHANGED <<op, want, left, port, port_left, lag>> /\ pc = "wait"
    BY <1>5 DEF PortData
  <2>4. CASE op = "read" \/ filled + n = want
    <3>1. /\ pc' = "idle"
          /\ ret' = Trait!Answer(op, want, "Ok", filled + n)
      BY <2>1, <2>4 DEF Return
    <3> QED BY <2>1, <2>2, <2>3, <3>1, SerialAssumption, SMT DEF Trait!Answer, port
  <2>5. CASE ~(op = "read" \/ filled + n = want)
    <3>1. pc' = "check" /\ UNCHANGED ret
      BY <2>1, <2>5
    <3> QED BY <2>1, <2>2, <2>3, <2>5, <3>1, SerialAssumption, SMT DEF port
  <2> QED BY <2>4, <2>5
<1>6. CASE PortTimeout
  <2>1. Return("Timeout", 0) /\ left <= 0
    BY <1>6, SMT DEF PortTimeout
  <2>2. "Timeout" \in Trait!Failures
    BY DEF Trait!Failures
  <2> QED BY <1>6, <2>1, <2>2, ReturnType, SMT DEF PortTimeout, port, call
<1>7. CASE PortFails
  <2>1. PICK f \in {"Eof", "Io"} : Return(f, 0)
    BY <1>7 DEF PortFails
  <2>2. f \in Trait!Failures /\ f # "Timeout"
    BY <2>1 DEF Trait!Failures
  <2> QED BY <1>7, <2>1, <2>2, ReturnType, SMT DEF PortFails, port, call
<1>8. CASE PortInterrupted
  BY <1>8, SerialAssumption, SMT DEF PortInterrupted, port, call
<1>9. CASE discard_input
  BY <1>9, SerialAssumption, SMT DEF discard_input, port, call
<1>10. CASE Arrive
  BY <1>10, SerialAssumption, SMT DEF Arrive, port, call
<1>11. CASE Tick
  BY <1>11, SerialAssumption, SMT DEF Tick, port, call
<1>12. CASE UNCHANGED vars
  BY <1>12, SMT DEF vars, port, call
<1> QED
  BY <1>1, <1>2, <1>3, <1>4, <1>5, <1>6, <1>7, <1>8, <1>9, <1>10, <1>11, <1>12
  DEF Next, Loop, PortReturns

(* The cached timeout is the port's, and a wait is as long as what is left *)
(* of the deadline, within clamp and lag (serial.rs:65-73, 83-123).        *)
THEOREM Invariance == Spec => []IInv
  BY InitIInv, IInvStep, PTL DEF Spec

(* The port is never given a timeout below the clamp, whatever the budgets *)
(* (TypeOK; serial.rs:65-73).                                              *)
THEOREM SerialTypes == Spec => []TypeOK
  BY Invariance, PTL DEF IInv

(* No timeout is reported early, for any budgets and any interleaving of   *)
(* data, signals and failing set_timeout calls (serial.rs:83-123).         *)
THEOREM NoEarlyTimeout == Spec => []NeverEarly
  BY Invariance, PTL DEF IInv

(* No call outlasts its deadline by more than the clamp and the time the   *)
(* process was not running (serial.rs:83-123).                             *)
THEOREM BoundedOvershoot == Spec => []NotLate
<1>1. IInv => NotLate
  BY DEF IInv, Timer, NotLate
<1> QED BY <1>1, Invariance, PTL

-----------------------------------------------------------------------------
(* The bytes the caller has not been told of.                              *)
Visible == IF pc = "idle" THEN taken ELSE taken - filled

LEMMA TraitStep == IInv /\ [Next]_vars => [Trait!Next]_<<Visible, ret>>
<1> SUFFICES ASSUME IInv, [Next]_vars PROVE [Trait!Next]_<<Visible, ret>>
  OBVIOUS
<1> USE DEF Visible
<1>0. /\ want \in 1..MaxWant /\ filled \in Nat /\ taken \in Nat
      /\ op \in {"read_exact", "read"} /\ MaxWant \in Nat
      /\ pc # "idle" => filled < want /\ (op = "read" => filled = 0)
      /\ filled <= taken
  BY SerialAssumption DEF IInv, TypeOK, Buffer
<1>1. ASSUME NEW f \in Trait!Failures, pc # "idle", Return(f, 0),
             UNCHANGED <<op, want, filled, taken>>
      PROVE  Trait!Next
  <2>1. /\ pc' = "idle" /\ Visible = taken - filled /\ Visible' = taken
        /\ ret' = Trait!Answer(op, want, f, 0)
    BY <1>1 DEF Return
  <2>2. CASE op = "read_exact"
    <3>1. Visible' \in Visible .. Visible + want - 1
      BY <1>0, <1>1, <2>1, SMT
    <3>2. Trait!read_exact(want)
      BY <2>1, <2>2, <3>1 DEF Trait!read_exact
    <3> QED BY <1>0, <3>2 DEF Trait!Next
  <2>3. CASE op = "read"
    <3>1. Visible' = Visible
      BY <1>0, <1>1, <2>1, <2>3, SMT
    <3>2. Trait!read(want)
      BY <2>1, <2>3, <3>1 DEF Trait!read
    <3> QED BY <1>0, <3>2 DEF Trait!Next
  <2> QED BY <1>0, <2>2, <2>3
<1>2. ASSUME UNCHANGED <<pc, filled, taken, ret>>
      PROVE  UNCHANGED <<Visible, ret>>
  BY <1>2
<1>3. CASE Call
  BY <1>3, <1>0, SMT DEF Call
<1>4. CASE Expired
  BY <1>1, <1>4 DEF Expired, call, Trait!Failures
<1>5. CASE SetTimeout
  BY <1>0, <1>5, SMT DEF SetTimeout, call
<1>6. CASE SetTimeoutFails
  BY <1>1, <1>6 DEF SetTimeoutFails, call, Trait!Failures
<1>7. CASE PortData
  <2>1. PICK n \in 1 .. Smaller(avail, want - filled) :
          /\ filled' = filled + n
          /\ taken' = taken + n
          /\ IF op = "read" \/ filled + n = want
             THEN Return("Ok", filled + n)
             ELSE pc' = "check" /\ UNCHANGED ret
    BY <1>7 DEF PortData
  <2>2. pc = "wait" /\ n \in Nat /\ n <= want - filled /\ n > 0
    <3>1. avail \in Nat /\ pc = "wait"
      BY <1>7 DEF PortData, IInv, TypeOK
    <3> QED BY <1>0, <2>1, <3>1, SMT DEF Smaller
  <2>3. CASE op = "read"
    <3>1. /\ Visible' = Visible + n /\ n \in 1..want
          /\ ret' = Trait!Answer("read", want, "Ok", n) 
      <4>1. pc' = "idle" /\ ret' = Trait!Answer(op, want, "Ok", filled + n)
        BY <2>1, <2>3 DEF Return
      <4>2. filled = 0 /\ filled + n = n
        BY <1>0, <2>2, <2>3, SMT
      <4> QED BY <1>0, <2>1, <2>2, <2>3, <4>1, <4>2, SMT
    <3>2. Trait!read(want)
      BY <3>1 DEF Trait!read
    <3> QED BY <1>0, <3>2 DEF Trait!Next
  <2>4. CASE op = "read_exact" /\ filled + n = want
    <3>1. pc' = "idle" /\ ret' = Trait!Answer("read_exact", want, "Ok", want)
      BY <2>1, <2>4 DEF Return
    <3>2. Visible' = Visible + want
      BY <1>0, <2>1, <2>2, <2>4, <3>1, SMT
    <3>3. Trait!read_exact(want)
      BY <3>1, <3>2 DEF Trait!read_exact
    <3> QED BY <1>0, <3>3 DEF Trait!Next
  <2>5. CASE op = "read_exact" /\ filled + n # want
    <3>1. pc' = "check" /\ UNCHANGED ret
      BY <2>1, <2>5
    <3>2. Visible' = Visible
      BY <1>0, <2>1, <2>2, <3>1, SMT
    <3> QED BY <3>1, <3>2
  <2> QED BY <1>0, <2>3, <2>4, <2>5
<1>8. CASE PortTimeout
  BY <1>1, <1>8 DEF PortTimeout, call, Trait!Failures
<1>9. CASE PortFails
  <2>1. PICK f \in {"Eof", "Io"} : Return(f, 0)
    BY <1>9 DEF PortFails
  <2> QED BY <1>1, <1>9, <2>1 DEF PortFails, call, Trait!Failures
<1>10. CASE PortInterrupted
  BY <1>10 DEF PortInterrupted, call
<1>11. CASE discard_input
  BY <1>2, <1>11 DEF discard_input, call
<1>12. CASE Arrive
  BY <1>2, <1>12 DEF Arrive, call
<1>13. CASE Tick
  BY <1>2, <1>13 DEF Tick, call
<1>14. CASE UNCHANGED vars
  BY <1>2, <1>14 DEF vars, call
<1> QED
  BY <1>3, <1>4, <1>5, <1>6, <1>7, <1>8, <1>9, <1>10, <1>11, <1>12, <1>13, <1>14
  DEF Next, Loop, PortReturns

(* The two loops of serial.rs:83-123 keep the promise of the Transport     *)
(* trait, for any buffer size.                                             *)
THEOREM SerialIsTransport == Spec => ImplementsTrait
<1>1. Init => Trait!Init
  BY DEF Init, Trait!Init
<1>2. IInv /\ [Next]_vars => [Trait!Next]_<<Visible, ret>>
  BY TraitStep
<1> QED BY <1>1, <1>2, Invariance, PTL DEF Spec, ImplementsTrait, Trait!Spec, Visible

=============================================================================
