----------------------------- MODULE RawSender -----------------------------
(* The CanRawSender node of CANdevStudio: a table of lines, each a frame the *)
(* user may send once or, with Loop checked and an interval given, again and *)
(* again for as long as its Send button is checked.  A line is a            *)
(* NewLineManager: widgets that enable and disable each other, a timer and   *)
(* the frame it sends.  Everything runs in the GUI thread; what makes it     *)
(* hard is that the simulation starts and stops, and timers fire, between    *)
(* the press of a button and its release.                                    *)
(*                                                                           *)
(* An id and a payload are single values; NoId and NoData are empty fields.  *)
(* The padding of ids is left out: it keeps the number.                      *)
EXTENDS Naturals, Sequences

CONSTANTS Ids,       \* the ids the user may enter
          Payloads,  \* the payloads the user may enter
          Lines,     \* names for the lines of the table
          Saved,     \* saved contents: functions from some lines to rows
          MaxSent,   \* bound on the frames sent
          NoId, NoData

VARIABLES simulationState,  \* CanRawSenderPrivate::_simulationState
          lines,            \* _lines
          frame,            \* CanRawSenderModel::_frame
          nSent             \* history: frames sent

vars == <<simulationState, lines, frame, nSent>>

FrameOf(l) == [id |-> l.id, remote |-> l.remote,
               data |-> IF l.remote THEN NoData ELSE l.data]

-----------------------------------------------------------------------------
(* What the parts of NewLineManager make of a line                           *)

UpdateFrameData(l) == [l EXCEPT !.frame = FrameOf(l)]

(* Qt: a button that is disabled while the mouse holds it down is let go.    *)
SetSendButtonState(l) ==
  LET enabled == l.id # NoId /\ (l.simState \/ l.loop) IN
  [l EXCEPT !.enabled = enabled,
            !.down = IF @ = "held" /\ ~enabled THEN "up" ELSE @]

(* A mutant: an edit enables the button and leaves the frame as it was.      *)
FrameDataKept(l) == SetSendButtonState(l)

FrameDataChanged(l) == SetSendButtonState(UpdateFrameData(l))

(* A mutant: the payload may be edited while the timer runs.                 *)
StartTimerUnlocked(l) ==
  IF l.interval THEN [l EXCEPT !.running = TRUE, !.locked = TRUE] ELSE l

(* locked: the id, interval, loop and remote widgets are disabled.           *)
StartTimer(l) == IF l.interval
                 THEN [l EXCEPT !.running = TRUE, !.locked = TRUE,
                                !.dataLocked = TRUE]
                 ELSE l

StopTimer(l) == [l EXCEPT !.running = FALSE, !.locked = FALSE,
                          !.dataLocked = l.remote]

(* A mutant: the button stays checked.                                       *)
LoopToggledChecked(l, on) == SetSendButtonState([l EXCEPT !.loop = on])

(* Qt: setCheckable also unchecks.                                           *)
LoopToggled(l, on) ==
  SetSendButtonState([l EXCEPT !.loop = on, !.checked = FALSE])

RemoteToggled(l, on) == [l EXCEPT !.remote = on, !.dataLocked = on]

(* The button is pressed: it is checked or unchecked only on its release.    *)
SendButtonPressed(l) ==
  IF l.checked THEN StopTimer(l)
  ELSE IF l.simState /\ l.loop THEN StartTimer(UpdateFrameData(l))
  ELSE UpdateFrameData(l)

(* A mutant: the simulation stops and the timer goes on.                     *)
SetSimulationStateRuns(l, state) ==
  LET m == SetSendButtonState([l EXCEPT !.simState = state]) IN
  IF state /\ m.checked THEN StartTimer(m) ELSE m

SetSimulationState(l, state) ==
  LET m == SetSendButtonState([l EXCEPT !.simState = state]) IN
  IF ~state THEN StopTimer(m)
  ELSE IF m.checked THEN StartTimer(m) ELSE m

NewLine(state) ==
  [simState |-> state, id |-> NoId, data |-> NoData, remote |-> FALSE,
   loop |-> FALSE, interval |-> FALSE, enabled |-> FALSE, checked |-> FALSE,
   down |-> "up", running |-> FALSE, locked |-> FALSE, dataLocked |-> FALSE,
   frame |-> [id |-> NoId, remote |-> FALSE, data |-> NoData]]

(* setChecked(true) is animateClick: the button is pressed now, provided it  *)
(* is enabled, and released 100 ms later.                                    *)
RestoreLine(row, send) ==
  LET l == FrameDataChanged([NewLine(FALSE) EXCEPT !.id = row.id,
                                                   !.data = row.data])
      m == LoopToggled([RemoteToggled(l, row.remote)
                          EXCEPT !.interval = row.interval], row.loop)
  IN IF row.loop /\ send /\ m.enabled
     THEN [SendButtonPressed(m) EXCEPT !.down = "animated"]
     ELSE m

Line2Json(l) == [id |-> l.id, data |-> l.data, remote |-> l.remote,
                 interval |-> l.interval, loop |-> l.loop,
                 send |-> IF l.checked THEN "yes" ELSE "no", text |-> "good"]

-----------------------------------------------------------------------------
(* contentAdopt: rows are adopted up to the first that has a field of the    *)
(* wrong type; a row whose text the validators refuse makes no line.         *)
Adopted(rows) ==
  {i \in DOMAIN rows : /\ rows[i].text = "good"
                       /\ \A j \in DOMAIN rows :
                            j < i => rows[j].text # "malformed"}

(* A row without "send" gets the value of the row before.                    *)
SendOf(rows, i) ==
  \E j \in DOMAIN rows :
    /\ j <= i
    /\ rows[j].send = "yes"
    /\ \A k \in DOMAIN rows : j < k /\ k <= i => rows[k].send = "missing"

(* A mutant: rows are numbered from one more than their place.               *)
RestoredNext(rows) ==
  [i \in {j + 1 : j \in Adopted(rows)} |->
     RestoreLine(rows[i - 1], SendOf(rows, i - 1))]

Restored(rows) ==
  [i \in Adopted(rows) |-> RestoreLine(rows[i], SendOf(rows, i))]

-----------------------------------------------------------------------------
(* A node is made empty or from a project, before the simulation's signals   *)
(* are connected to it.                                                      *)
Init == /\ simulationState = FALSE
        /\ lines \in {Restored(rows) : rows \in Saved}
        /\ frame = FrameOf(NewLine(FALSE))
        /\ nSent = 0

Become(n, l) == lines' = [lines EXCEPT ![n] = l]

(* emit sendFrame: the model keeps the frame and signals dataUpdated.        *)
SendFrame(f) == /\ nSent < MaxSent
                /\ frame' = f
                /\ nSent' = nSent + 1

StartSimulation ==
  /\ ~simulationState
  /\ simulationState' = TRUE
  /\ lines' = [n \in DOMAIN lines |-> SetSimulationState(lines[n], TRUE)]
  /\ UNCHANGED <<frame, nSent>>

StopSimulation ==
  /\ simulationState
  /\ simulationState' = FALSE
  /\ lines' = [n \in DOMAIN lines |-> SetSimulationState(lines[n], FALSE)]
  /\ UNCHANGED <<frame, nSent>>

(* A mutant: a new line thinks the simulation is stopped.                    *)
AddNewItemStopped ==
  \E n \in Lines \ DOMAIN lines :
    /\ lines' = [m \in DOMAIN lines \cup {n} |->
                   IF m = n THEN NewLine(FALSE) ELSE lines[m]]
    /\ UNCHANGED <<simulationState, frame, nSent>>

AddNewItem ==
  \E n \in Lines \ DOMAIN lines :
    /\ lines' = [m \in DOMAIN lines \cup {n} |->
                   IF m = n THEN NewLine(simulationState) ELSE lines[m]]
    /\ UNCHANGED <<simulationState, frame, nSent>>

RemoveRows ==
  \E selected \in SUBSET DOMAIN lines :
    /\ lines' = [n \in DOMAIN lines \ selected |-> lines[n]]
    /\ UNCHANGED <<simulationState, frame, nSent>>

EditId(n) == /\ ~lines[n].locked
             /\ \E id \in Ids \cup {NoId} :
                  Become(n, FrameDataChanged([lines[n] EXCEPT !.id = id]))
             /\ UNCHANGED <<simulationState, frame, nSent>>

EditData(n) == /\ ~lines[n].dataLocked
               /\ \E data \in Payloads \cup {NoData} :
                    Become(n, FrameDataChanged([lines[n] EXCEPT
                                                  !.data = data]))
               /\ UNCHANGED <<simulationState, frame, nSent>>

EditInterval(n) ==
  /\ ~lines[n].locked
  /\ \E given \in BOOLEAN :
       Become(n, SetSendButtonState([lines[n] EXCEPT !.interval = given]))
  /\ UNCHANGED <<simulationState, frame, nSent>>

ToggleRemote(n) == /\ ~lines[n].locked
                   /\ Become(n, RemoteToggled(lines[n], ~lines[n].remote))
                   /\ UNCHANGED <<simulationState, frame, nSent>>

ToggleLoop(n) == /\ ~lines[n].locked
                 /\ Become(n, LoopToggled(lines[n], ~lines[n].loop))
                 /\ UNCHANGED <<simulationState, frame, nSent>>

PressSend(n) ==
  /\ lines[n].enabled
  /\ lines[n].down = "up"
  /\ Become(n, [SendButtonPressed(lines[n]) EXCEPT !.down = "held"])
  /\ IF lines[n].simState /\ ~lines[n].checked
     THEN SendFrame(FrameOf(lines[n]))
     ELSE UNCHANGED <<frame, nSent>>
  /\ UNCHANGED simulationState

(* Let go on the button: a click.                                            *)
ReleaseSend(n) ==
  /\ lines[n].down # "up"
  /\ Become(n, [lines[n] EXCEPT !.down = "up",
                                !.checked = lines[n].loop /\ ~@])
  /\ UNCHANGED <<simulationState, frame, nSent>>

(* Moved off the button and let go: no click.                                *)
SlipOff(n) == /\ lines[n].down = "held"
              /\ Become(n, [lines[n] EXCEPT !.down = "up"])
              /\ UNCHANGED <<simulationState, frame, nSent>>

TimerExpired(n) == /\ lines[n].running
                   /\ SendFrame(lines[n].frame)
                   /\ UNCHANGED <<simulationState, lines>>

UseLine(n) == \/ EditId(n) \/ EditData(n) \/ EditInterval(n)
              \/ ToggleRemote(n) \/ ToggleLoop(n)
              \/ PressSend(n) \/ ReleaseSend(n) \/ SlipOff(n)

Next == \/ StartSimulation \/ StopSimulation
        \/ AddNewItem \/ RemoveRows
        \/ \E n \in DOMAIN lines : UseLine(n) \/ TimerExpired(n)

Spec == Init /\ [][Next]_vars
-----------------------------------------------------------------------------
FrameType == [id : Ids \cup {NoId}, remote : BOOLEAN,
              data : Payloads \cup {NoData}]
LineType ==
  [simState : BOOLEAN, id : Ids \cup {NoId}, data : Payloads \cup {NoData},
   remote : BOOLEAN, loop : BOOLEAN, interval : BOOLEAN, enabled : BOOLEAN,
   checked : BOOLEAN, down : {"up", "held", "animated"}, running : BOOLEAN,
   locked : BOOLEAN, dataLocked : BOOLEAN, frame : FrameType]
RowType ==
  [id : Ids \cup {NoId}, data : Payloads \cup {NoData}, remote : BOOLEAN,
   interval : BOOLEAN, loop : BOOLEAN, send : {"yes", "no", "missing"},
   text : {"good", "refused", "malformed"}]

ASSUME SavedAssumption ==
  /\ Lines \subseteq Nat
  /\ MaxSent \in Nat
  /\ \A rows \in Saved : /\ DOMAIN rows \subseteq Lines
                         /\ \A i \in DOMAIN rows : rows[i] \in RowType

(* The table's lines are lines.                                              *)
TypeOK == /\ simulationState \in BOOLEAN
          /\ DOMAIN lines \subseteq Lines
          /\ \A n \in DOMAIN lines : lines[n] \in LineType
          /\ frame \in FrameType
          /\ nSent \in 0 .. MaxSent

(* A line knows whether the simulation runs, whenever it was added, and its  *)
(* Send button is enabled accordingly.                                       *)
LineFollows(l) == /\ l.simState = simulationState
                  /\ l.enabled = (l.id # NoId /\ (simulationState \/ l.loop))
LinesFollow == \A n \in DOMAIN lines : LineFollows(lines[n])

(* A timer runs only in a simulation and for a line set up for it, and all   *)
(* the while nothing of the line can be edited, although the button may be   *)
(* pressed, released and slipped off in any state of the simulation.         *)
LineRuns(l) == l.running => /\ l.simState
                            /\ l.loop
                            /\ l.interval
                            /\ l.locked
                            /\ l.dataLocked
RunsAsSetUp == \A n \in DOMAIN lines : LineRuns(lines[n])

(* What a timer sends is what the line shows, but for the Remote box:        *)
(* toggling that does not reach the frame until the next edit or press.      *)
LineShows(l) == /\ l.frame.id = l.id
                /\ l.frame.remote = l.remote => l.frame = FrameOf(l)
SendsWhatItShows == \A n \in DOMAIN lines : LineShows(lines[n])

(* A line that is saved and restored is the line it was, to its Send button  *)
(* if that can be pressed at all.                                            *)
SavedIsRestored ==
  \A n \in DOMAIN lines :
    LET l == lines[n]
        r == RestoreLine(Line2Json(l), l.checked)
    IN /\ Line2Json(r) = [Line2Json(l) EXCEPT !.send = "no"]
       /\ l.id # NoId => (r.down = "animated") = l.checked

(* Nothing is sent unless the simulation runs.                               *)
SilentWhenStopped == [][nSent' # nSent => simulationState]_vars
=============================================================================
