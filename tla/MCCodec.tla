------------------------------ MODULE MCCodec -------------------------------
(***************************************************************************)
(* Codec on the bytes and angles at the edges of its fields.               *)
(***************************************************************************)
EXTENDS Codec

MCPwms == {0, 1, 255, 256, 660, 1022, 1023, 1024, 65535}

MCEdges       == {0, 1, 2, 3, 127, 128, 254, 255}
MCNodeWindows == [1..5 -> MCEdges]

(* Right, wrong, and off by one bit, byte by byte.                         *)
MCDescriptorBytes ==
  { <<s, r, a, b, c, d, t>> :
      s \in {165, 90}, r \in {90, 165}, a \in {0, 3, 5, 20, 21, 255},
      b \in {0, 1, 255}, c \in {0, 1}, d \in {0, 1, 63, 64, 65, 128, 192, 255},
      t \in {0, 4, 5, 6, 129} }

(* Angles around north, the opposite side, and beyond a turn.              *)
MCAngles   == {0, 1, 64 * 180, 64 * 359, FullTurn - 1}
MCRotation == BoundedSeq(MCAngles, 5)

MCSerials    == {[i \in 1..16 |-> i], [i \in 1..16 |-> 255 - 15 * (i % 3)]}
MCIdentities == [model : {65, 0}, minor : {0, 1, 29}, major : {1, 255}, hardware : {0, 18},
                 serial : MCSerials]

MCHealthBytes == [1..3 -> {0, 1, 2, 3, 255}]

MCNames == { [prefix |-> p, rest |-> r] :
               p \in {"/dev/tty.", "/dev/cu."}, r \in {"usbserial", "Bluetooth"} }
             \cup {[prefix |-> "/dev/ttyUSB", rest |-> "0"], [prefix |-> "/dev/ttyS", rest |-> "0"]}
MCPortLists ==
  BoundedSeq([name : MCNames, usb : {NotUsb}]
               \cup [name : {[prefix |-> "/dev/tty.", rest |-> "SLAB_USBtoUART"],
                             [prefix |-> "COM", rest |-> "3"]},
                     usb : {<<4292, 60000>>, <<6790, 29987>>, <<4292, 29987>>}], 3)

MCWireRotation == BoundedSeq({0, 64 * 100, 64 * 500}, 3)

=============================================================================
