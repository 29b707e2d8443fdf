------------------------------ MODULE Monitor ------------------------------
(* A filter whose output a view shows, fed by a CAN device: the part of a    *)
(* CANdevStudio project that the GUI thread runs.  What the device reports   *)
(* is handed to the filter and, in the same call, what gets through to the   *)
(* view: the filter's queue holds an item only within that call.             *)
EXTENDS RawFilter, RawView

(* The view's keys are the directions and ids of the frames that pass.       *)
ASSUME KeysAssumption == Dirs \X Frames \subseteq Keys

Init == FilterInit /\ ViewInit
vars == <<filterVars, viewVars>>

(* Start and Stop reach every node before anything else is done.             *)
StartSimulation == Start /\ StartView
StopSimulation == Stop /\ StopView

EditFilter == Edit /\ UNCHANGED viewVars
ClearView == Alive /\ PressClear /\ UNCHANGED filterVars

(* dataUpdated of the device: its item goes to the filter's setInData and    *)
(* from its outData to the view's.                                           *)
SetInData ==
  /\ Alive
  /\ \E d \in Dirs, status \in BOOLEAN, f \in Frames :
       /\ Passes(d, status, f)
       /\ FrameView(<<d, f>>)
  /\ UNCHANGED filterVars

Next == \/ StartSimulation \/ StopSimulation
        \/ EditFilter \/ ClearView \/ SetInData

Spec == Init /\ [][Next]_vars
-----------------------------------------------------------------------------
(* Filter and view hold what they may, and run or stand still together.      *)
TypeOK == FilterTypeOK /\ ViewTypeOK /\ simStarted = viewStarted

(* A frame newly shown is one that the table of its direction, read from the *)
(* top as it shows in that moment, accepts; a rule edited, moved or removed  *)
(* while frames pass applies to the very next one.  Frames for TX that only  *)
(* the default decides are excepted: see DefaultPolicyApplied.               *)
Decides(d, f) == {i \in DOMAIN rows[d] : f \in rows[d][i].match}
ShowsAccepted ==
  [][\A d \in Dirs, f \in Frames :
       seen' = Append(seen, <<d, f>>) =>
         LET rules == Decides(d, f) IN
         IF rules = {} THEN d = "RX" => policy[d]
         ELSE \E i \in rules : /\ rows[d][i].accept
                               /\ \A j \in rules : i <= j]_vars
=============================================================================
