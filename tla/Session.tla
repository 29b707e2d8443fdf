------------------------------ MODULE Session ------------------------------
(* QtCanAnalyzer from one start of the program to the next: the main window, *)
(* the settings dialog and the file Setting.json between them.  The dialog   *)
(* is not modal and Save and Apply are different buttons, so what its boxes  *)
(* show, what Connect uses and what the file holds are three things.         *)
(* Everything runs in one thread; the program may be killed at any time.     *)
(*                                                                           *)
(* A configuration is what one CAN channel's four boxes hold, by index.      *)
EXTENDS Naturals, Sequences

CONSTANTS Configs,    \* configurations the user may choose
          PortNames,  \* serial ports there may be, and names typed for them
          MaxStarts,  \* bound on the starts of the program
          NoFile

ASSUME ConfigsAssumption ==
  /\ Configs \subseteq [mode : 0 .. 2, frame : 0 .. 2, buad : 0 .. 7,
                        buadData : 0 .. 7]
  /\ "" \notin PortNames
  /\ MaxStarts \in Nat

VARIABLES file,        \* Setting.json
          running,     \* is there a process?
          shown,       \* its visible windows
          available,   \* ports there are, as found when it started
          boxes,       \* what the dialog's boxes hold: [can, port]
          name,        \* m_currentSettings.name
          mCanDeviceInfo,
          enabled,     \* the main window's actions that are enabled
          portOpen,
          sent,        \* history: bodies of the packets of this connection
          loaded,      \* history: the file when the program started
          applied,     \* history: was Apply pressed since then?
          starts       \* history

vars == <<file, running, shown, available, boxes, name, mCanDeviceInfo,
          enabled, portOpen, sent, loaded, applied, starts>>

Channels == 1 .. 2
Zero == [mode |-> 0, frame |-> 0, buad |-> 0, buadData |-> 0]
Zeros == [c \in Channels |-> Zero]
NoName == ""

(* A file that was truncated and not written: nothing in it, and every value *)
(* read from it is 0 or empty.                                               *)
Empty == [can |-> Zeros, port |-> NoName, torn |-> TRUE]

(* saveSetting: boxes as they are, applied or not.                           *)
Contents(b) == [can |-> b.can, port |-> b.port, torn |-> FALSE]

(* getCanDevieData, sent by canDeviceInit.                                   *)
CanDeviceData(c, config) ==
  <<c, config.mode, config.frame, config.buad, config.buadData>>

Actions == {"connect", "disconnect", "configure"}
(* A mutant: closing the port leaves Disconnect enabled.                     *)
DisconnectStays == {"connect", "disconnect", "configure"}
Disconnected == {"connect", "configure"}

Init == /\ file = NoFile
        /\ running = FALSE
        /\ shown = {}
        /\ available = {}
        /\ boxes = [can |-> Zeros, port |-> NoName]
        /\ name = NoName
        /\ mCanDeviceInfo = <<>>
        /\ enabled = {}
        /\ portOpen = FALSE
        /\ sent = <<>>
        /\ loaded = NoFile
        /\ applied = FALSE
        /\ starts = 0

(* The constructors.  The box of ports lists those there are and "Custom";   *)
(* it can be typed into only while that is selected.                         *)
ShownPort(first, saved, ports) ==
  IF ports = {} \/ saved \in ports THEN saved ELSE first

(* What mCanDeviceInfo holds after loadJson, and a mutant that reads the     *)
(* first channel's keys for the second.                                      *)
FirstTwice(contents) == [c \in Channels |-> contents.can[1]]
DevicesOf(contents) == [c \in Channels |-> contents.can[c]]

(* A mutant: the name is taken from the box.                                 *)
LoadJsonFromBox(first) ==
  IF file = NoFile
  THEN /\ boxes' = [can |-> Zeros, port |-> first]
       /\ name' = first
       /\ mCanDeviceInfo' = <<>>
  ELSE LET port == ShownPort(first, file.port, available') IN
       /\ boxes' = [can |-> file.can, port |-> port]
       /\ name' = port
       /\ mCanDeviceInfo' = DevicesOf(file)

LoadJson(first) ==
  IF file = NoFile
  THEN /\ boxes' = [can |-> Zeros, port |-> first]
       /\ name' = first
       /\ mCanDeviceInfo' = <<>>
  ELSE /\ boxes' = [can |-> file.can,
                    port |-> ShownPort(first, file.port, available')]
       /\ name' = file.port
       /\ mCanDeviceInfo' = DevicesOf(file)

Start == /\ ~running
         /\ starts < MaxStarts
         /\ starts' = starts + 1
         /\ available' \in SUBSET PortNames
         /\ \E first \in IF available' = {} THEN {NoName} ELSE available' :
              LoadJson(first)
         /\ running' = TRUE
         /\ shown' = {"main"}
         /\ enabled' = Disconnected
         /\ portOpen' = FALSE
         /\ sent' = <<>>
         /\ loaded' = file
         /\ applied' = FALSE
         /\ UNCHANGED file

(* Connect.  A port there is not cannot be opened; one there is may be busy. *)
OpenSerialPort ==
  /\ "main" \in shown
  /\ "connect" \in enabled
  /\ \/ /\ name \in available
        /\ portOpen' = TRUE
        /\ enabled' = {"disconnect"}
        /\ sent' = [c \in DOMAIN mCanDeviceInfo |->
                      CanDeviceData(c, mCanDeviceInfo[c])]
     \/ UNCHANGED <<portOpen, enabled, sent>>
  /\ UNCHANGED <<file, running, shown, available, boxes, name, mCanDeviceInfo,
                 loaded, applied, starts>>

CloseSerialPort ==
  /\ "main" \in shown
  /\ "disconnect" \in enabled
  /\ portOpen' = FALSE
  /\ enabled' = Disconnected
  /\ sent' = <<>>
  /\ UNCHANGED <<file, running, shown, available, boxes, name, mCanDeviceInfo,
                 loaded, applied, starts>>

Configure == /\ "main" \in shown
             /\ "configure" \in enabled
             /\ shown' = shown \cup {"settings"}
             /\ UNCHANGED <<file, running, available, boxes, name,
                            mCanDeviceInfo, enabled, portOpen, sent, loaded,
                            applied, starts>>

EditBoxes ==
  /\ "settings" \in shown
  /\ \/ \E c \in Channels, config \in Configs :
          boxes' = [boxes EXCEPT !.can[c] = config]
     \/ \E port \in PortNames \cup {NoName} :
          boxes' = [boxes EXCEPT !.port = port]
  /\ UNCHANGED <<file, running, shown, available, name, mCanDeviceInfo,
                 enabled, portOpen, sent, loaded, applied, starts>>

(* Apply takes the port, not the channels' configurations.  It hides the     *)
(* dialog, which does not count as closing it: when the main window was      *)
(* closed before, the process goes on with no window at all.                 *)
Apply == /\ "settings" \in shown
         /\ name' = boxes.port
         /\ shown' = shown \ {"settings"}
         /\ applied' = TRUE
         /\ UNCHANGED <<file, running, available, boxes, mCanDeviceInfo,
                        enabled, portOpen, sent, loaded, starts>>

(* Save writes the file, or silently does not if it cannot be opened.        *)
SaveSetting ==
  /\ "settings" \in shown
  /\ file' \in {file, Contents(boxes)}
  /\ UNCHANGED <<running, shown, available, boxes, name, mCanDeviceInfo,
                 enabled, portOpen, sent, loaded, applied, starts>>

(* Closing the last visible window ends the program, and its destructors     *)
(* close the port.                                                           *)
Close(window) ==
  /\ window \in shown
  /\ shown' = shown \ {window}
  /\ running' = (shown' # {})
  /\ IF running' THEN UNCHANGED <<portOpen, sent>>
                 ELSE portOpen' = FALSE /\ sent' = <<>>
  /\ UNCHANGED <<file, available, boxes, name, mCanDeviceInfo, enabled,
                 loaded, applied, starts>>

(* The program is killed, perhaps between the truncation of the file and the *)
(* writing of it.                                                            *)
Crash == /\ running
         /\ \/ UNCHANGED file
            \/ "settings" \in shown /\ file' = Empty
         /\ running' = FALSE
         /\ shown' = {}
         /\ portOpen' = FALSE
         /\ sent' = <<>>
         /\ UNCHANGED <<available, boxes, name, mCanDeviceInfo, enabled,
                        loaded, applied, starts>>

Next == \/ Start \/ Crash
        \/ OpenSerialPort \/ CloseSerialPort \/ Configure
        \/ EditBoxes \/ Apply \/ SaveSetting
        \/ \E window \in {"main", "settings"} : Close(window)

Spec == Init /\ [][Next]_vars
-----------------------------------------------------------------------------
Names == PortNames \cup {NoName}
CanType == [Channels -> Configs \cup {Zero}]
FileType == [can : CanType, port : Names, torn : BOOLEAN] \cup {NoFile}

(* The file and the boxes hold configurations there are; the main window     *)
(* offers to connect, or to disconnect, but never both.                      *)
TypeOK ==
  /\ file \in FileType /\ loaded \in FileType
  /\ running \in BOOLEAN
  /\ shown \subseteq {"main", "settings"}
  /\ shown # {} \/ portOpen => running
  /\ available \subseteq PortNames
  /\ boxes \in [can : CanType, port : Names]
  /\ name \in Names
  /\ mCanDeviceInfo \in {<<>>} \cup CanType
  /\ enabled \subseteq Actions
  /\ ~({"connect", "disconnect"} \subseteq enabled)
  /\ portOpen \in BOOLEAN /\ applied \in BOOLEAN
  /\ starts \in 0 .. MaxStarts

(* The devices are told the configurations of the file as it was when the    *)
(* program started, whatever is edited, applied and saved before Connect or  *)
(* between one connection and the next; without a file they are told nothing.*)
ToldWhatWasLoaded ==
  portOpen =>
    sent = IF loaded = NoFile THEN <<>>
           ELSE [c \in Channels |-> CanDeviceData(c, loaded.can[c])]

(* After a save that was interrupted no port is opened, and no device set to *)
(* a configuration nobody chose, before the user has been to the dialog.     *)
TornFileNeedsUser ==
  loaded # NoFile /\ loaded.torn /\ portOpen => applied
=============================================================================
