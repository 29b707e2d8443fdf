---------------------------- MODULE MCSerialCan ----------------------------
(* Small frames for SerialCan.  The payload is what a CAN frame may carry,   *)
(* and looks like packet headers: what is left of such a packet when its     *)
(* front is lost reads as packets with other lengths.                        *)
EXTENDS SerialCan, Bitwise

Id == <<0, 0, 1, 35>>

Empty == [cmd |-> CMD.RECV_CAN2, id |-> Id, payload |-> <<>>]

(* its tail says "a packet of length -2 and one of length -33", the last of  *)
(* these being the checksum: one ends within the header, one in front of it  *)
Negative ==
  [cmd |-> CMD.SEND_CAN2, id |-> Id,
   payload |-> <<240, 0, 3, 254, 254, 240, 0, 3>>]

MCXor(x, y) == x ^^ y
MCFrames == {Empty, Negative}
=============================================================================
