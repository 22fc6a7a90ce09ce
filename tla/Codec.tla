------------------------------- MODULE Codec --------------------------------
(***************************************************************************)
(* The pure functions of the protocol layer, angular_coverage and the      *)
(* choice of a port: what crosses the line and what it means.  They are    *)
(* checked against the other side of the line: how a device understands a  *)
(* request and how it writes its responses.                                *)
(*                                                                         *)
(* A behaviour is one value that is handed over.  Angles are in 1/64       *)
(* degree; the f32 sums of types.rs are exact for a rotation of them.      *)
(***************************************************************************)
EXTENDS ScanNode, Detect

CONSTANTS Pwms,              \* duties a caller may pass to set_motor_pwm
          NodeWindows,       \* windows a reader may look at
          DescriptorBytes,   \* 7 bytes a reader may take for a descriptor
          Identities,        \* what devices answer to GetInfo
          HealthBytes,       \* 3 bytes of an answer to GetHealth
          Rotation,          \* angles a scan may consist of
          PortLists          \* what the operating system enumerates

ASSUME LenAssumption == SCAN_NODE_LEN = 5

ASSUME CodecAssumption ==
  /\ Pwms \subseteq 0 .. 2^16 - 1
  /\ Rotation \subseteq Seq(0 .. 2^15 - 1)

ASSUME WindowsAssumption == NodeWindows \subseteq Window

ASSUME DescriptorAssumption == DescriptorBytes \subseteq [1..7 -> Byte]

ASSUME PayloadAssumption ==
  /\ Identities \subseteq [model : Byte, minor : Byte, major : Byte, hardware : Byte,
                           serial : [1..16 -> Byte]]
  /\ HealthBytes \subseteq [1..3 -> Byte]

ASSUME PortsAssumption ==
  \A ports \in PortLists :
    /\ ports \in Seq([name : [prefix : STRING, rest : STRING], usb : Seq(Nat)])
    /\ \A i \in DOMAIN ports : ports[i].name # NoPort

VARIABLE item      \* what crosses the line

-----------------------------------------------------------------------------
(* command.rs.                                                             *)

SYNC_BYTE     == 165
MOTOR_PWM_MAX == 1023

Opcodes == [ Stop |-> 37, Reset |-> 64, Scan |-> 32, GetInfo |-> 80,
             GetHealth |-> 82, GetSampleRate |-> 89, SetMotorPwm |-> 240 ]

Command == [name : DOMAIN Opcodes \ {"SetMotorPwm"}, pwm : {0}]
             \cup [name : {"SetMotorPwm"}, pwm : Pwms]

opcode(c) == Opcodes[c.name]

Bit(b, k) == (b \div 2^k) % 2
Xor(a, b) == CHOOSE c \in Byte : \A k \in 0..7 : Bit(c, k) = (Bit(a, k) + Bit(b, k)) % 2

xor_checksum(bytes) == FoldLeft(Xor, 0, bytes)

Duty(pwm) == IF pwm > MOTOR_PWM_MAX THEN MOTOR_PWM_MAX ELSE pwm

Header(c) == <<SYNC_BYTE, opcode(c)>>

(* Mutant: the checksum covers the payload only.                           *)
encode_short_sum(c) ==
  IF c.name # "SetMotorPwm" THEN Header(c) ELSE
  LET payload == <<2, Duty(c.pwm) % 256, Duty(c.pwm) \div 256>>
  IN  Header(c) \o payload \o <<xor_checksum(payload)>>

encode(c) ==
  IF c.name # "SetMotorPwm" THEN Header(c) ELSE
  LET frame == Header(c) \o <<2, Duty(c.pwm) % 256, Duty(c.pwm) \div 256>>
  IN  Append(frame, xor_checksum(frame))

(* The device: a request without a payload is two bytes, one with a payload*)
(* has a length and bytes that XOR to 0.                                   *)
Understood(frame) ==
  { c \in [name : DOMAIN Opcodes, pwm : 0..MOTOR_PWM_MAX] :
      /\ Len(frame) >= 2 /\ frame[1] = SYNC_BYTE /\ frame[2] = opcode(c)
      /\ IF c.name = "SetMotorPwm"
         THEN /\ Len(frame) = 6 /\ frame[3] = 2
              /\ frame[4] + 256 * frame[5] = c.pwm
              /\ xor_checksum(frame) = 0
         ELSE Len(frame) = 2 /\ c.pwm = 0 }

-----------------------------------------------------------------------------
(* descriptor.rs.                                                          *)

RESP_SYNC_BYTE == 90

(* What info, health and start_scan expect.                                *)
Expected == { [data_type |-> 4,   len |-> 20, send_mode |-> "Single"],
              [data_type |-> 6,   len |-> 3,  send_mode |-> "Single"],
              [data_type |-> 129, len |-> 5,  send_mode |-> "Multi"] }

(* packed is little-endian: its high two bits are those of the last byte.  *)
parse_descriptor(b) ==
  [ len       |-> b[3] + 256 * b[4] + 65536 * b[5] + 16777216 * (b[6] % 64),
    send_mode |-> IF b[6] \div 64 = 0 THEN "Single" ELSE "Multi",
    data_type |-> b[7] ]

(* Mutant: the send mode is not compared.                                  *)
ExpectAnyMode(b, want) ==
  /\ b[1] = SYNC_BYTE /\ b[2] = RESP_SYNC_BYTE
  /\ b[6] \div 64 \in {0, 1}
  /\ [parse_descriptor(b) EXCEPT !.send_mode = want.send_mode] = want

expect(b, want) ==
  /\ b[1] = SYNC_BYTE /\ b[2] = RESP_SYNC_BYTE
  /\ b[6] \div 64 \in {0, 1}
  /\ parse_descriptor(b) = want

(* The device: the bytes of a descriptor.                                  *)
DescriptorOf(d) ==
  <<SYNC_BYTE, RESP_SYNC_BYTE,
    d.len % 256, (d.len \div 256) % 256, (d.len \div 65536) % 256,
    d.len \div 16777216 + (IF d.send_mode = "Multi" THEN 64 ELSE 0),
    d.data_type>>

-----------------------------------------------------------------------------
(* info.rs.                                                                *)

(* Mutant: the firmware version is read in the order of the wire.          *)
InfoWireOrder(b) ==
  [ model            |-> b[1],
    firmware_version |-> <<b[2], b[3]>>,
    hardware_version |-> b[4],
    serial_number    |-> [i \in 1..16 |-> b[i + 4]] ]

parse_device_info(b) ==
  [ model            |-> b[1],
    firmware_version |-> <<b[3], b[2]>>,
    hardware_version |-> b[4],
    serial_number    |-> [i \in 1..16 |-> b[i + 4]] ]

(* {byte:02X}: two digits for each byte.                                   *)
SerialNumberHex(serial) ==
  [i \in 1..32 |-> IF i % 2 = 1 THEN serial[(i + 1) \div 2] \div 16
                                ELSE serial[i \div 2] % 16]

parse_health(b) ==
  LET code == b[2] + 256 * b[3]
  IN  CASE b[1] = 0 -> [status |-> "Good", code |-> 0]
        [] b[1] = 1 -> [status |-> "Warning", code |-> code]
        [] b[1] = 2 -> [status |-> "Error", code |-> code]
        [] b[1] > 2 -> [status |-> "InvalidHealthStatus", code |-> b[1]]

(* The device: the bytes of its answers.                                   *)
InfoOf(d) == <<d.model, d.minor, d.major, d.hardware>> \o d.serial

HealthOf(status, code) == <<status, code % 256, code \div 256>>

-----------------------------------------------------------------------------
(* scan_node.rs: the fields of a window that IsNode.                       *)

AngleLimit    == 32768     \* 15 bits, in 1/64 degree
DistanceLimit == 65536     \* 16 bits, in 1/4 millimeter

(* Mutant: the high part of the angle is shifted by a whole byte.          *)
ParseShift8(w) ==
  [ start_flag |-> StartFlag(w), quality |-> w[1] \div 4,
    angle_q6 |-> w[3] * 256 + w[2] \div 2, distance_q2 |-> w[5] * 256 + w[4] ]

parse_scan_node(w) ==
  [ start_flag  |-> StartFlag(w),
    quality     |-> w[1] \div 4,
    angle_q6    |-> w[3] * 128 + w[2] \div 2,
    distance_q2 |-> w[5] * 256 + w[4] ]

(* The device: the bytes of a node, as in tests/protocol_tests.rs:29.      *)
NodeOf(n) ==
  <<4 * n.quality + (IF n.start_flag THEN 1 ELSE 2),
    2 * (n.angle_q6 % 128) + 1, n.angle_q6 \div 128,
    n.distance_q2 % 256, n.distance_q2 \div 256>>

-----------------------------------------------------------------------------
(* types.rs.                                                               *)

FullTurn == 360 * 64

AngleStep(a, b) == IF b - a < 0 THEN b - a + FullTurn ELSE b - a

(* Mutant: the step from the last angle before north is left negative.     *)
CoverageUnwrapped(angles) ==
  LET steps == [i \in 1 .. Len(angles) - 1 |-> angles[i + 1] - angles[i]]
      total == FoldLeft(+, 0, steps)
  IN  IF total > FullTurn THEN FullTurn ELSE total

angular_coverage(angles) ==
  LET steps == [i \in 1 .. Len(angles) - 1 |-> AngleStep(angles[i], angles[i + 1])]
      total == FoldLeft(+, 0, steps)
  IN  IF total > FullTurn THEN FullTurn ELSE total

-----------------------------------------------------------------------------
Init == item = [kind |-> "nothing"]

Awaiting == item.kind = "nothing"

Request  == Awaiting /\ \E c \in Command : item' = [kind |-> "request", of |-> c]
Response == Awaiting /\ \E b \in DescriptorBytes :
                                item' = [kind |-> "descriptor", of |-> b]
Node     == Awaiting /\ \E w \in NodeWindows : item' = [kind |-> "node", of |-> w]
Info     == Awaiting /\ \E d \in Identities : item' = [kind |-> "info", of |-> d]
Health   == Awaiting /\ \E b \in HealthBytes : item' = [kind |-> "health", of |-> b]
Turn     == Awaiting /\ \E r \in Rotation : item' = [kind |-> "turn", of |-> r]
Ports    == Awaiting /\ \E p \in PortLists, macos \in BOOLEAN :
                                item' = [kind |-> "ports", of |-> p, macos |-> macos]

Next == Request \/ Response \/ Node \/ Info \/ Health \/ Turn \/ Ports

Spec == Init /\ [][Next]_item

-----------------------------------------------------------------------------
(* Properties.                                                             *)

(* A device understands each request as the command it was made from, the  *)
(* duty clamped, and rejects a duty with any one byte of its frame changed *)
(* after the opcode (command.rs:76-96).                                    *)
RequestsUnderstood ==
  item.kind = "request" =>
    LET c     == item.of
        frame == encode(c)
    IN  /\ Understood(frame) = {[c EXCEPT !.pwm = Duty(c.pwm)]}
        /\ \A i \in 3..Len(frame) : \A k \in 0..7 :
             Understood([frame EXCEPT ![i] = Xor(@, 2^k)]) = {}

(* Each request accepts the seven bytes of its own descriptor and no others*)
(* (descriptor.rs:71-119): neither a desynchronized stream nor the answer  *)
(* to another request gets past it.                                        *)
OneDescriptorPerRequest ==
  item.kind = "descriptor" =>
    \A want \in Expected : expect(item.of, want) <=> item.of = DescriptorOf(want)

(* The identity of a device arrives field by field, and its serial number  *)
(* is printed in digits that give it back.                                 *)
IdentityDecoded(d) ==
  LET got == parse_device_info(InfoOf(d))
      hex == SerialNumberHex(got.serial_number)
  IN  /\ got.model = d.model /\ got.hardware_version = d.hardware
      /\ got.firmware_version = <<d.major, d.minor>>
      /\ \A i \in 1..32 : hex[i] \in 0..15
      /\ [i \in 1..16 |-> 16 * hex[2 * i - 1] + hex[2 * i]] = d.serial

(* A health answer is one a device sends, and means what it sent, or is    *)
(* rejected.                                                               *)
HealthDecoded(b) ==
  LET got  == parse_health(b)
      sent == [Good |-> 0, Warning |-> 1, Error |-> 2]
  IN  IF got.status = "InvalidHealthStatus" THEN b[1] \notin 0..2
      ELSE \E code \in {got.code, b[2] + 256 * b[3]} :
             /\ b = HealthOf(sent[got.status], code)
             /\ got.status # "Good" => code = got.code

(* info and health report what the device sent: no field is swapped,       *)
(* dropped or cut (info.rs:53-122).                                        *)
PayloadsDecoded ==
  /\ item.kind = "info" => IdentityDecoded(item.of)
  /\ item.kind = "health" => HealthDecoded(item.of)

(* The port chosen is the first one of the best class, whatever the order  *)
(* the ports are enumerated in, and on macOS always a call-out device; none*)
(* is chosen only if none is plausible (serial.rs:136-167).                *)
PreferredPort ==
  item.kind = "ports" => Preferred(item.of, item.macos, auto_detect_port(item.of, item.macos))

(* The fields of w stay within their widths and give back its bytes.       *)
Lossless(w) ==
  LET n == parse_scan_node(w)
  IN  /\ n.quality < 64 /\ n.angle_q6 < AngleLimit /\ n.distance_q2 < DistanceLimit
      /\ NodeOf(n) = w

(* Decoding a node loses nothing but its redundant bits: the numbers spread*)
(* over two bytes are joined without overlap (scan_node.rs:78-92).         *)
NodesLossless ==
  item.kind = "node" /\ IsNode(item.of) => Lossless(item.of)

(* Angles of one turn: they pass north at most once and not their start.   *)
OneTurn(r) ==
  LET descents == { i \in 1 .. Len(r) - 1 : r[i + 1] < r[i] }
  IN  /\ \A i \in DOMAIN r : r[i] < FullTurn
      /\ descents = {} \/ \E i \in descents : descents = {i} /\ r[Len(r)] <= r[1]

(* The coverage of a turn is the angle from its first point to its last    *)
(* (types.rs:106-116).                                                     *)
CoverageOfATurn ==
  item.kind = "turn" /\ item.of # <<>> =>
    LET r == item.of
    IN  OneTurn(r) =>
          angular_coverage(r) =
            r[Len(r)] - r[1] + (IF \E i \in 1 .. Len(r) - 1 : r[i + 1] < r[i]
                                THEN FullTurn ELSE 0)

(* types.rs:103 gives angular_coverage the range 0.0..=360.0.              *)
CoverageInRange ==
  item.kind = "turn" => angular_coverage(item.of) \in 0..FullTurn

=============================================================================
