--------------------------- MODULE Session_proof ---------------------------
(* Theorems about Session, for every choice of configurations, ports and     *)
(* starts.                                                                   *)
EXTENDS Session, TLAPS

(* A truncated file names no port.                                           *)
TornNamesNone(f) == f # NoFile /\ f.torn => f.port = NoName
LoadedDevices == IF loaded = NoFile THEN <<>> ELSE DevicesOf(loaded)

(* What makes ToldWhatWasLoaded and TornFileNeedsUser inductive: while the   *)
(* program runs mCanDeviceInfo is what the file held when it started, and    *)
(* after a truncated file there is no name before Apply.                     *)
Remembered ==
  /\ TornNamesNone(file)
  /\ running => mCanDeviceInfo = LoadedDevices
  /\ running /\ loaded # NoFile /\ loaded.torn => applied \/ name = NoName

Inv == TypeOK /\ Remembered /\ ToldWhatWasLoaded /\ TornFileNeedsUser

-----------------------------------------------------------------------------
LEMMA ConfigurationsRead ==
  ASSUME NEW f \in FileType, f # NoFile
  PROVE  DevicesOf(f) \in CanType /\ DevicesOf(f) = f.can
BY DEF FileType, CanType, DevicesOf

LEMMA StartsBound == MaxStarts \in Nat
BY ConfigsAssumption

LEMMA InitInv == Init => Inv
<1> SUFFICES ASSUME Init PROVE Inv
  OBVIOUS
<1>1. Zeros \in CanType
  BY DEF Zeros, CanType
<1>2. TypeOK
  <2>1. file \in FileType /\ loaded \in FileType
    BY DEF Init, FileType
  <2>2. boxes \in [can : CanType, port : Names] /\ name \in Names
    BY <1>1 DEF Init, Names
  <2>3. /\ enabled \subseteq Actions
        /\ ~({"connect", "disconnect"} \subseteq enabled)
    BY DEF Init
  <2>4. mCanDeviceInfo \in {<<>>} \cup CanType
    BY DEF Init
  <2>5. starts \in 0 .. MaxStarts
    BY StartsBound DEF Init
  <2> QED
    BY <2>1, <2>2, <2>3, <2>4, <2>5 DEF Init, TypeOK
<1>3. Remembered
  BY DEF Init, Remembered, TornNamesNone
<1> QED
  BY <1>2, <1>3 DEF Init, Inv, ToldWhatWasLoaded, TornFileNeedsUser

LEMMA StepInv == Inv /\ [Next]_vars => Inv'
<1> SUFFICES ASSUME Inv, [Next]_vars PROVE Inv'
  OBVIOUS
<1> USE DEF Inv
<1>1. CASE Start
  <2>1. PICK first \in IF available' = {} THEN {NoName} ELSE available' :
          LoadJson(first)
    BY <1>1 DEF Start
  <2>2. first \in Names /\ available' \subseteq PortNames
    BY <1>1, <2>1 DEF Start, Names
  <2>3. TypeOK'
    <3>1. boxes' \in [can : CanType, port : Names] /\ name' \in Names
      BY <2>1, <2>2 DEF LoadJson, TypeOK, FileType, CanType, Names, Zeros,
                        ShownPort
    <3>2. mCanDeviceInfo' \in {<<>>} \cup CanType
      BY <2>1, ConfigurationsRead DEF LoadJson, TypeOK
    <3>3. /\ enabled' \subseteq Actions
          /\ ~({"connect", "disconnect"} \subseteq enabled')
      BY <1>1 DEF Start, Disconnected, Actions
    <3>4. starts' \in 0 .. MaxStarts
      BY <1>1, StartsBound DEF Start, TypeOK
    <3>5. file' \in FileType /\ loaded' \in FileType
      BY <1>1 DEF Start, TypeOK
    <3> QED
      BY <1>1, <2>2, <3>1, <3>2, <3>3, <3>4, <3>5 DEF Start, TypeOK
  <2>4. Remembered'
    BY <1>1, <2>1 DEF Start, LoadJson, Remembered, TornNamesNone,
                      LoadedDevices
  <2> QED
    BY <1>1, <2>3, <2>4 DEF Start, ToldWhatWasLoaded, TornFileNeedsUser
<1>2. CASE Crash
  <2>1. Empty \in FileType /\ TornNamesNone(Empty)
    BY DEF Empty, FileType, CanType, Zeros, Names, TornNamesNone
  <2> QED
    BY <1>2, <2>1 DEF Crash, TypeOK, Remembered, ToldWhatWasLoaded,
                      TornFileNeedsUser, TornNamesNone, LoadedDevices
<1>3. CASE OpenSerialPort
  <2>1. TypeOK'
    BY <1>3 DEF OpenSerialPort, TypeOK, Actions
  <2>2. Remembered'
    BY <1>3 DEF OpenSerialPort, Remembered, TornNamesNone, LoadedDevices
  <2>3. CASE UNCHANGED <<portOpen, enabled, sent>>
    BY <1>3, <2>1, <2>2, <2>3
       DEF OpenSerialPort, ToldWhatWasLoaded, TornFileNeedsUser
  <2>4. CASE /\ name \in available
             /\ sent' = [c \in DOMAIN mCanDeviceInfo |->
                           CanDeviceData(c, mCanDeviceInfo[c])]
    <3>1. running /\ mCanDeviceInfo = LoadedDevices
      BY <1>3 DEF OpenSerialPort, TypeOK, Remembered
    <3>2. ToldWhatWasLoaded'
      <4>1. CASE loaded = NoFile
        <5>1. sent' = <<>>
          BY <2>4, <3>1, <4>1 DEF LoadedDevices
        <5> QED
          BY <1>3, <4>1, <5>1 DEF OpenSerialPort, ToldWhatWasLoaded
      <4>2. CASE loaded # NoFile
        <5>1. mCanDeviceInfo = [c \in Channels |-> loaded.can[c]]
          BY <3>1, <4>2 DEF LoadedDevices, DevicesOf
        <5> QED
          BY <1>3, <2>4, <4>2, <5>1 DEF OpenSerialPort, ToldWhatWasLoaded
      <4> QED
        BY <4>1, <4>2
    <3>3. name # NoName
      BY <2>4, ConfigsAssumption DEF TypeOK, NoName
    <3>4. TornFileNeedsUser'
      BY <1>3, <3>1, <3>3 DEF OpenSerialPort, Remembered, TornFileNeedsUser
    <3> QED
      BY <2>1, <2>2, <3>2, <3>4
  <2> QED
    BY <1>3, <2>3, <2>4 DEF OpenSerialPort
<1>4. CASE CloseSerialPort
  BY <1>4 DEF CloseSerialPort, TypeOK, Remembered, ToldWhatWasLoaded,
              TornFileNeedsUser, TornNamesNone, LoadedDevices, Disconnected,
              Actions
<1>5. CASE Configure
  BY <1>5 DEF Configure, TypeOK, Remembered, ToldWhatWasLoaded,
              TornFileNeedsUser, TornNamesNone, LoadedDevices
<1>6. CASE EditBoxes
  <2>1. boxes' \in [can : CanType, port : Names]
    <3>1. CASE \E c \in Channels, config \in Configs :
                 boxes' = [boxes EXCEPT !.can[c] = config]
      BY <3>1 DEF TypeOK, CanType
    <3>2. CASE \E port \in PortNames \cup {NoName} :
                 boxes' = [boxes EXCEPT !.port = port]
      BY <3>2 DEF TypeOK, Names
    <3> QED
      BY <1>6, <3>1, <3>2 DEF EditBoxes
  <2> QED
    BY <1>6, <2>1 DEF EditBoxes, TypeOK, Remembered, ToldWhatWasLoaded,
                      TornFileNeedsUser, TornNamesNone, LoadedDevices
<1>7. CASE Apply
  BY <1>7 DEF Apply, TypeOK, Remembered, ToldWhatWasLoaded,
              TornFileNeedsUser, TornNamesNone, LoadedDevices
<1>8. CASE SaveSetting
  <2>1. Contents(boxes) \in FileType /\ TornNamesNone(Contents(boxes))
    BY DEF TypeOK, Contents, FileType, TornNamesNone
  <2> QED
    BY <1>8, <2>1 DEF SaveSetting, TypeOK, Remembered, ToldWhatWasLoaded,
                      TornFileNeedsUser, LoadedDevices, TornNamesNone
<1>9. CASE \E window \in {"main", "settings"} : Close(window)
  <2>1. PICK window \in {"main", "settings"} : Close(window)
    BY <1>9
  <2>2. shown' \subseteq {"main", "settings"} /\ running
    BY <2>1 DEF Close, TypeOK
  <2>3. CASE running'
    <3>1. UNCHANGED <<running, portOpen, sent>>
      BY <2>1, <2>2, <2>3 DEF Close, TypeOK
    <3> QED
      BY <2>1, <2>2, <3>1
         DEF Close, TypeOK, Remembered, ToldWhatWasLoaded, TornFileNeedsUser,
             TornNamesNone, LoadedDevices
  <2>4. CASE ~running'
    <3>1. shown' = {} /\ portOpen' = FALSE /\ running' \in BOOLEAN
      BY <2>1, <2>4 DEF Close
    <3> QED
      BY <2>1, <2>4, <3>1
         DEF Close, TypeOK, Remembered, ToldWhatWasLoaded, TornFileNeedsUser,
             TornNamesNone, LoadedDevices
  <2> QED
    BY <2>3, <2>4
<1>10. CASE UNCHANGED vars
  BY <1>10 DEF vars, TypeOK, Remembered, ToldWhatWasLoaded,
               TornFileNeedsUser, TornNamesNone, LoadedDevices
<1> QED
  BY <1>1, <1>2, <1>3, <1>4, <1>5, <1>6, <1>7, <1>8, <1>9, <1>10 DEF Next

-----------------------------------------------------------------------------
LEMMA InvHolds == Spec => []Inv
BY InitInv, StepInv, PTL DEF Spec

(* The file, the boxes and the main window's actions keep their types.       *)
THEOREM TypeCorrect == Spec => []TypeOK
BY InvHolds, PTL DEF Inv

(* Devices are told what Setting.json held when the program started, however *)
(* often it was edited, saved, killed and started again.                     *)
THEOREM DevicesToldWhatWasLoaded == Spec => []ToldWhatWasLoaded
BY InvHolds, PTL DEF Inv

(* An interrupted save never leads to a connection by itself.                *)
THEOREM TornFileIsHarmless == Spec => []TornFileNeedsUser
BY InvHolds, PTL DEF Inv
=============================================================================
