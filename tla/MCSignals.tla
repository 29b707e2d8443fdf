----------------------------- MODULE MCSignals ------------------------------
(* One message with a signal of 9 bits and one of 5, each across two bytes   *)
(* and one in each byte order.  The databases differ in the cycle, the       *)
(* initial value, the length and a factor, which is 0 in one of them.        *)
EXTENDS Signals, TLC

m1 == 1
speed == [id |-> m1, name |-> "speed"]
level == [id |-> m1, name |-> "level"]

Speed == [startBit |-> 2, size |-> 9, little |-> TRUE,
          signed |-> TRUE, factor |-> 1, offset |-> 0]
Level(factor) == [startBit |-> 1, size |-> 5, little |-> FALSE,
                  signed |-> FALSE, factor |-> factor, offset |-> -10]

Message(bytes, cycle, init, factor) ==
  m1 :> [bytes |-> bytes, cycle |-> cycle, init |-> init,
         signals |-> speed :> Speed @@ level :> Level(factor)]

Init2 == [bytes |-> 2, ones |-> {1, 2, 9, 14}]

AtOnce == Message(2, FALSE, Init2, 2)
Cyclic == Message(2, TRUE, NoPayload, 2)
Long == Message(3, TRUE, Init2, 0)
Short == Message(1, TRUE, NoPayload, 2)

MCNames == {speed, level}
TwoDatabases == [d \in {"atonce", "cyclic"} |-> IF d = "cyclic" THEN Cyclic ELSE AtOnce]
MCDatabases == [d \in {"atonce", "long", "short"} |->
                  IF d = "long" THEN Long ELSE IF d = "short" THEN Short ELSE AtOnce]
MCGiven(n) == IF n = speed THEN {-1, 300} ELSE {60}
MCForeign == {[id |-> m1, payload |-> [bytes |-> 2, ones |-> 2 .. 14]]}
=============================================================================
