-------------------------- MODULE RawSender_proof --------------------------
(* Theorems about RawSender, for every set of ids, payloads, lines and saved *)
(* tables.                                                                   *)
EXTENDS RawSender, TLAPS

(* A line on its own.  Its frame is what it showed when the Remote box last  *)
(* agreed with the frame: without that, LineShows does not survive a box     *)
(* that is toggled twice.                                                    *)
FrameShows(l) ==
  l.frame = [id |-> l.id, remote |-> l.frame.remote,
             data |-> IF l.frame.remote THEN NoData ELSE l.data]
Enabled(l) == l.enabled = (l.id # NoId /\ (l.simState \/ l.loop))

GoodLine(l, state) == /\ l \in LineType
                      /\ l.simState = state
                      /\ Enabled(l)
                      /\ LineRuns(l)
                      /\ FrameShows(l)
                      /\ l.checked => l.loop

Inv == /\ simulationState \in BOOLEAN
       /\ DOMAIN lines \subseteq Lines
       /\ \A n \in DOMAIN lines : GoodLine(lines[n], simulationState)
       /\ lines = [n \in DOMAIN lines |-> lines[n]]
       /\ frame \in FrameType
       /\ nSent \in 0 .. MaxSent

-----------------------------------------------------------------------------
(* What the parts of NewLineManager preserve                                 *)

LEMMA FrameOfType ==
  ASSUME NEW l \in LineType PROVE FrameOf(l) \in FrameType
BY DEF FrameOf, FrameType, LineType

LEMMA UpdateGood ==
  ASSUME NEW l, NEW state, l \in LineType, l.simState = state, LineRuns(l),
         l.checked => l.loop
  PROVE  LET m == UpdateFrameData(l) IN
         /\ m \in LineType
         /\ m.simState = state
         /\ LineRuns(m)
         /\ FrameShows(m)
         /\ m.checked => m.loop
         /\ m = [l EXCEPT !.frame = m.frame]
BY FrameOfType DEF UpdateFrameData, FrameOf, LineType, LineRuns, FrameShows

LEMMA ButtonGood ==
  ASSUME NEW l, NEW state, l \in LineType, l.simState = state, LineRuns(l),
         FrameShows(l), l.checked => l.loop
  PROVE  GoodLine(SetSendButtonState(l), state)
<1> DEFINE m == SetSendButtonState(l)
<1>1. m \in LineType
  BY DEF SetSendButtonState, LineType
<1>2. /\ m.enabled = (l.id # NoId /\ (l.simState \/ l.loop))
      /\ m.id = l.id /\ m.simState = l.simState /\ m.loop = l.loop
      /\ m.data = l.data /\ m.frame = l.frame /\ m.checked = l.checked
      /\ m.running = l.running /\ m.interval = l.interval
      /\ m.locked = l.locked /\ m.dataLocked = l.dataLocked
  BY DEF SetSendButtonState, LineType
<1> QED
  BY <1>1, <1>2 DEF GoodLine, Enabled, LineRuns, FrameShows

LEMMA FrameDataChangedGood ==
  ASSUME NEW l, NEW state, l \in LineType, l.simState = state, LineRuns(l),
         l.checked => l.loop
  PROVE  GoodLine(FrameDataChanged(l), state)
BY UpdateGood, ButtonGood DEF FrameDataChanged

LEMMA StartTimerGood ==
  ASSUME NEW l, NEW state, GoodLine(l, state), l.simState, l.loop
  PROVE  GoodLine(StartTimer(l), state)
BY DEF StartTimer, GoodLine, LineType, Enabled, LineRuns, FrameShows

LEMMA StopTimerGood ==
  ASSUME NEW l, NEW state, GoodLine(l, state)
  PROVE  GoodLine(StopTimer(l), state)
BY DEF StopTimer, GoodLine, LineType, Enabled, LineRuns, FrameShows

LEMMA LoopToggledGood ==
  ASSUME NEW l, NEW state, NEW on \in BOOLEAN, GoodLine(l, state), ~l.running
  PROVE  GoodLine(LoopToggled(l, on), state)
<1> DEFINE m == [l EXCEPT !.loop = on, !.checked = FALSE]
<1>1. /\ m \in LineType
      /\ m.simState = state
      /\ LineRuns(m)
      /\ FrameShows(m)
      /\ ~m.checked
  BY DEF GoodLine, LineType, LineRuns, FrameShows
<1> QED
  BY <1>1, ButtonGood DEF LoopToggled

LEMMA RemoteToggledGood ==
  ASSUME NEW l, NEW state, NEW on \in BOOLEAN, GoodLine(l, state), ~l.running
  PROVE  /\ GoodLine(RemoteToggled(l, on), state)
         /\ ~RemoteToggled(l, on).running
BY DEF RemoteToggled, GoodLine, LineType, Enabled, LineRuns, FrameShows

LEMMA SendButtonPressedGood ==
  ASSUME NEW l, NEW state, GoodLine(l, state)
  PROVE  GoodLine(SendButtonPressed(l), state)
<1>1. CASE l.checked
  BY <1>1, StopTimerGood DEF SendButtonPressed
<1>2. CASE ~l.checked
  <2> DEFINE m == UpdateFrameData(l)
  <2>1. GoodLine(m, state) /\ m.loop = l.loop
    BY UpdateGood DEF GoodLine, Enabled, LineType
  <2>2. CASE l.simState /\ l.loop
    BY <1>2, <2>1, <2>2, StartTimerGood DEF SendButtonPressed, GoodLine
  <2>3. CASE ~(l.simState /\ l.loop)
    BY <1>2, <2>1, <2>3 DEF SendButtonPressed
  <2> QED
    BY <2>2, <2>3
<1> QED
  BY <1>1, <1>2

(* When the simulation stops the line's timer may run for a moment with      *)
(* simState FALSE: LineRuns holds again only after StopTimer.                *)
LEMMA SetSimulationStateGood ==
  ASSUME NEW l, NEW old, NEW state \in BOOLEAN, GoodLine(l, old)
  PROVE  GoodLine(SetSimulationState(l, state), state)
<1> DEFINE k == [l EXCEPT !.simState = state]
           m == SetSendButtonState(k)
<1>1. /\ k \in LineType
      /\ k.simState = state
      /\ FrameShows(k)
      /\ k.checked => k.loop
      /\ state => LineRuns(k)
  BY DEF GoodLine, LineType, FrameShows, LineRuns
<1>2. CASE state
  <2>1. GoodLine(m, state)
    BY <1>1, <1>2, ButtonGood
  <2>2. m.checked => GoodLine(StartTimer(m), state)
    BY <1>2, <2>1, StartTimerGood DEF GoodLine
  <2> QED
    BY <1>2, <2>1, <2>2 DEF SetSimulationState
<1>3. CASE ~state
  <2>1. /\ m \in LineType
        /\ m.enabled = (k.id # NoId /\ (k.simState \/ k.loop))
        /\ m.id = k.id /\ m.simState = k.simState /\ m.loop = k.loop
        /\ m.data = k.data /\ m.frame = k.frame /\ m.checked = k.checked
    BY <1>1 DEF SetSendButtonState, LineType
  <2>2. GoodLine(StopTimer(m), state)
    BY <1>1, <1>3, <2>1
       DEF StopTimer, GoodLine, LineType, Enabled, LineRuns, FrameShows
  <2> QED
    BY <1>3, <2>2 DEF SetSimulationState
<1> QED
  BY <1>2, <1>3

LEMMA NewLineGood ==
  ASSUME NEW state \in BOOLEAN PROVE GoodLine(NewLine(state), state)
BY DEF NewLine, GoodLine, LineType, FrameType, Enabled, LineRuns, FrameShows

(* A button that is pressed, let go or slid off changes nothing else.        *)
LEMMA DownGood ==
  ASSUME NEW l, NEW state, GoodLine(l, state),
         NEW down \in {"up", "held", "animated"}
  PROVE  GoodLine([l EXCEPT !.down = down], state)
BY DEF GoodLine, LineType, Enabled, LineRuns, FrameShows

-----------------------------------------------------------------------------
(* Restoring                                                                 *)

LEMMA RestoreLineResult ==
  ASSUME NEW row \in RowType, NEW send \in BOOLEAN
  PROVE  LET r == RestoreLine(row, send) IN
         /\ GoodLine(r, FALSE)
         /\ r.id = row.id /\ r.data = row.data /\ r.remote = row.remote
         /\ r.interval = row.interval /\ r.loop = row.loop
         /\ ~r.checked
         /\ (r.down = "animated") = (row.loop /\ send /\ row.id # NoId)
<1> DEFINE n == [NewLine(FALSE) EXCEPT !.id = row.id, !.data = row.data]
           l == FrameDataChanged(n)
           t == RemoteToggled(l, row.remote)
           k == [t EXCEPT !.interval = row.interval]
           m == LoopToggled(k, row.loop)
           p == SendButtonPressed(m)
<1>1. /\ row.id \in Ids \cup {NoId} /\ row.data \in Payloads \cup {NoData}
      /\ row.remote \in BOOLEAN /\ row.interval \in BOOLEAN
      /\ row.loop \in BOOLEAN
  BY DEF RowType
<1>2. /\ n \in LineType
      /\ n.simState = FALSE /\ ~n.checked /\ ~n.running /\ n.down = "up"
      /\ n.id = row.id /\ n.data = row.data
  BY <1>1 DEF NewLine, LineType, FrameType
<1>3. LineRuns(n)
  BY <1>2 DEF LineRuns
<1>4. /\ GoodLine(l, FALSE)
      /\ ~l.checked /\ ~l.running /\ l.down = "up"
      /\ l.id = row.id /\ l.data = row.data
  <2>1. GoodLine(l, FALSE)
    BY <1>2, <1>3, FrameDataChangedGood
  <2> QED
    BY <1>2, <2>1
       DEF FrameDataChanged, SetSendButtonState, UpdateFrameData, LineType
<1>5. GoodLine(t, FALSE)
  BY <1>1, <1>4, RemoteToggledGood
<1>6. /\ ~t.checked /\ ~t.running /\ t.down = "up"
      /\ t.id = row.id /\ t.data = row.data /\ t.remote = row.remote
  BY <1>1, <1>4 DEF RemoteToggled, GoodLine, LineType
<1>7. /\ GoodLine(k, FALSE)
      /\ ~k.checked /\ ~k.running /\ k.down = "up"
      /\ k.id = row.id /\ k.data = row.data /\ k.remote = row.remote
      /\ k.interval = row.interval
  BY <1>1, <1>5, <1>6 DEF GoodLine, LineType, Enabled, LineRuns, FrameShows
<1>8. GoodLine(m, FALSE)
  BY <1>1, <1>7, LoopToggledGood
<1>9. /\ ~m.checked /\ m.down = "up"
      /\ m.id = row.id /\ m.data = row.data /\ m.remote = row.remote
      /\ m.interval = row.interval /\ m.loop = row.loop
  BY <1>1, <1>7 DEF LoopToggled, SetSendButtonState, GoodLine, LineType
<1>10. m.enabled = (row.id # NoId /\ row.loop)
  BY <1>8, <1>9 DEF GoodLine, Enabled
<1>11. CASE row.loop /\ send /\ m.enabled
  <2>1. GoodLine(p, FALSE)
    BY <1>8, SendButtonPressedGood
  <2>2. /\ ~p.checked
        /\ p.id = row.id /\ p.data = row.data /\ p.remote = row.remote
        /\ p.interval = row.interval /\ p.loop = row.loop
    BY <1>8, <1>9 DEF SendButtonPressed, UpdateFrameData, GoodLine, LineType
  <2>3. RestoreLine(row, send) = [p EXCEPT !.down = "animated"]
    BY <1>11 DEF RestoreLine
  <2>4. GoodLine([p EXCEPT !.down = "animated"], FALSE)
    BY <2>1, DownGood
  <2> QED
    BY <1>10, <1>11, <2>1, <2>2, <2>3, <2>4 DEF GoodLine, LineType
<1>12. CASE ~(row.loop /\ send /\ m.enabled)
  <2>1. RestoreLine(row, send) = m
    BY <1>12 DEF RestoreLine
  <2> QED
    BY <1>8, <1>9, <1>10, <1>12, <2>1
<1> QED
  BY <1>11, <1>12

(* What is saved of a good line is restored, to its Send button.             *)
LEMMA SavedLineRestored ==
  ASSUME NEW l, NEW state, GoodLine(l, state)
  PROVE  LET r == RestoreLine(Line2Json(l), l.checked) IN
         /\ Line2Json(r) = [Line2Json(l) EXCEPT !.send = "no"]
         /\ l.id # NoId => (r.down = "animated") = l.checked
<1> DEFINE j == Line2Json(l)
           r == RestoreLine(j, l.checked)
<1>1. j \in RowType /\ l.checked \in BOOLEAN
  BY DEF Line2Json, RowType, GoodLine, LineType
<1>2. /\ j.id = l.id /\ j.data = l.data /\ j.remote = l.remote
      /\ j.interval = l.interval /\ j.loop = l.loop
  BY DEF Line2Json
<1>3. /\ r.id = l.id /\ r.data = l.data /\ r.remote = l.remote
      /\ r.interval = l.interval /\ r.loop = l.loop
      /\ ~r.checked
      /\ (r.down = "animated") = (l.loop /\ l.checked /\ l.id # NoId)
  <2>1. /\ r.id = j.id /\ r.data = j.data /\ r.remote = j.remote
        /\ r.interval = j.interval /\ r.loop = j.loop
        /\ ~r.checked
        /\ (r.down = "animated") = (j.loop /\ l.checked /\ j.id # NoId)
    <3> HIDE DEF j
    <3> QED
      BY <1>1, RestoreLineResult
  <2> QED
    BY <1>2, <2>1
<1>4. l.checked \in BOOLEAN /\ (l.checked => l.loop) /\ l.loop \in BOOLEAN
  BY DEF GoodLine, LineType
<1>5. l.id # NoId => (r.down = "animated") = l.checked
  BY <1>3, <1>4
<1>6. Line2Json(r) = [j EXCEPT !.send = "no"]
  <2> HIDE DEF r
  <2> QED
    BY <1>3 DEF Line2Json
<1> QED
  BY <1>5, <1>6

LEMMA InitInv == Init => Inv
<1> SUFFICES ASSUME Init PROVE Inv
  OBVIOUS
<1>1. PICK rows \in Saved : lines = Restored(rows)
  BY DEF Init
<1>2. DOMAIN lines \subseteq DOMAIN rows
  BY <1>1 DEF Restored, Adopted
<1>3. ASSUME NEW n \in DOMAIN lines PROVE GoodLine(lines[n], FALSE)
  <2>1. lines[n] = RestoreLine(rows[n], SendOf(rows, n))
    BY <1>1 DEF Restored
  <2>2. rows[n] \in RowType
    BY <1>2, SavedAssumption
  <2>3. SendOf(rows, n) \in BOOLEAN
    BY DEF SendOf
  <2> QED
    BY <2>1, <2>2, <2>3, RestoreLineResult
<1>4. FrameOf(NewLine(FALSE)) \in FrameType
  BY DEF FrameOf, NewLine, FrameType
<1>5. lines = [n \in DOMAIN lines |-> lines[n]]
  BY <1>1 DEF Restored
<1>6. DOMAIN lines \subseteq Lines /\ MaxSent \in Nat
  BY <1>2, SavedAssumption
<1>7. simulationState = FALSE /\ nSent \in 0 .. MaxSent
  BY <1>6 DEF Init
<1> QED
  BY <1>3, <1>4, <1>5, <1>6, <1>7 DEF Init, Inv

-----------------------------------------------------------------------------
(* Steps                                                                     *)

(* A step that makes something good of one line and leaves the rest alone.   *)
LEMMA BecomeInv ==
  ASSUME Inv, NEW n \in DOMAIN lines, NEW l, GoodLine(l, simulationState),
         Become(n, l), UNCHANGED simulationState,
         frame' \in FrameType, nSent' \in 0 .. MaxSent
  PROVE  Inv'
<1>1. lines' = [lines EXCEPT ![n] = l]
  BY DEF Become
<1>2. /\ DOMAIN lines' = DOMAIN lines
      /\ lines' = [m \in DOMAIN lines' |-> lines'[m]]
  BY <1>1
<1>3. ASSUME NEW m \in DOMAIN lines'
      PROVE  GoodLine(lines'[m], simulationState')
  <2>1. lines'[m] = IF m = n THEN l ELSE lines[m]
    BY <1>1, <1>2, <1>3
  <2> QED
    BY <1>2, <2>1 DEF Inv
<1> QED
  BY <1>2, <1>3 DEF Inv

LEMMA SendFrameInv ==
  ASSUME Inv, NEW f \in FrameType, SendFrame(f)
  PROVE  frame' \in FrameType /\ nSent' \in 0 .. MaxSent
BY SavedAssumption DEF Inv, SendFrame

LEMMA UseLineInv ==
  ASSUME Inv, NEW n \in DOMAIN lines, UseLine(n)
  PROVE  Inv'
<1> DEFINE l == lines[n]
           s == simulationState
<1>1. GoodLine(l, s) /\ l \in LineType /\ frame \in FrameType
      /\ nSent \in 0 .. MaxSent
  BY DEF Inv, GoodLine
<1>2. ~l.locked \/ ~l.dataLocked => ~l.running
  BY <1>1 DEF GoodLine, LineRuns
<1>3. CASE EditId(n)
  <2>1. PICK id \in Ids \cup {NoId} :
          Become(n, FrameDataChanged([l EXCEPT !.id = id]))
    BY <1>3 DEF EditId
  <2> DEFINE k == [l EXCEPT !.id = id]
  <2>2. /\ k \in LineType /\ k.simState = s /\ LineRuns(k)
        /\ k.checked => k.loop
    BY <1>1, <1>2, <1>3 DEF EditId, GoodLine, LineType, LineRuns
  <2>3. GoodLine(FrameDataChanged(k), s)
    BY <2>2, FrameDataChangedGood
  <2> QED
    BY <1>1, <1>3, <2>1, <2>3, BecomeInv DEF EditId
<1>4. CASE EditData(n)
  <2>1. PICK data \in Payloads \cup {NoData} :
          Become(n, FrameDataChanged([l EXCEPT !.data = data]))
    BY <1>4 DEF EditData
  <2> DEFINE k == [l EXCEPT !.data = data]
  <2>2. /\ k \in LineType /\ k.simState = s /\ LineRuns(k)
        /\ k.checked => k.loop
    BY <1>1, <1>2, <1>4 DEF EditData, GoodLine, LineType, LineRuns
  <2>3. GoodLine(FrameDataChanged(k), s)
    BY <2>2, FrameDataChangedGood
  <2> QED
    BY <1>1, <1>4, <2>1, <2>3, BecomeInv DEF EditData
<1>5. CASE EditInterval(n)
  <2>1. PICK given \in BOOLEAN :
          Become(n, SetSendButtonState([l EXCEPT !.interval = given]))
    BY <1>5 DEF EditInterval
  <2> DEFINE k == [l EXCEPT !.interval = given]
  <2>2. /\ k \in LineType /\ k.simState = s /\ LineRuns(k)
        /\ FrameShows(k) /\ (k.checked => k.loop)
    BY <1>1, <1>2, <1>5
       DEF EditInterval, GoodLine, LineType, LineRuns, FrameShows
  <2>3. GoodLine(SetSendButtonState(k), s)
    BY <2>2, ButtonGood
  <2> QED
    BY <1>1, <1>5, <2>1, <2>3, BecomeInv DEF EditInterval
<1>6. CASE ToggleRemote(n)
  <2>1. (~l.remote) \in BOOLEAN /\ ~l.running
    BY <1>2, <1>6 DEF ToggleRemote
  <2>2. GoodLine(RemoteToggled(l, ~l.remote), s)
    BY <1>1, <2>1, RemoteToggledGood
  <2> QED
    BY <1>1, <1>6, <2>2, BecomeInv DEF ToggleRemote
<1>7. CASE ToggleLoop(n)
  <2>1. (~l.loop) \in BOOLEAN /\ ~l.running
    BY <1>2, <1>7 DEF ToggleLoop
  <2>2. GoodLine(LoopToggled(l, ~l.loop), s)
    BY <1>1, <2>1, LoopToggledGood
  <2> QED
    BY <1>1, <1>7, <2>2, BecomeInv DEF ToggleLoop
<1>8. CASE PressSend(n)
  <2>1. GoodLine([SendButtonPressed(l) EXCEPT !.down = "held"], s)
    BY <1>1, SendButtonPressedGood, DownGood
  <2>2. frame' \in FrameType /\ nSent' \in 0 .. MaxSent
    <3>1. CASE SendFrame(FrameOf(l))
      BY <1>1, <3>1, FrameOfType, SendFrameInv
    <3>2. CASE UNCHANGED <<frame, nSent>>
      BY <1>1, <3>2
    <3> QED
      BY <1>8, <3>1, <3>2 DEF PressSend
  <2> QED
    BY <1>8, <2>1, <2>2, BecomeInv DEF PressSend
<1>9. CASE ReleaseSend(n)
  <2> DEFINE k == [l EXCEPT !.down = "up", !.checked = l.loop /\ ~@]
  <2>1. GoodLine(k, s)
    BY <1>1 DEF GoodLine, LineType, Enabled, LineRuns, FrameShows
  <2> QED
    BY <1>1, <1>9, <2>1, BecomeInv DEF ReleaseSend
<1>10. CASE SlipOff(n)
  <2>1. GoodLine([l EXCEPT !.down = "up"], s)
    BY <1>1, DownGood
  <2> QED
    BY <1>1, <1>10, <2>1, BecomeInv DEF SlipOff
<1> QED
  BY <1>3, <1>4, <1>5, <1>6, <1>7, <1>8, <1>9, <1>10 DEF UseLine

LEMMA StepInv == Inv /\ [Next]_vars => Inv'
<1> SUFFICES ASSUME Inv, [Next]_vars PROVE Inv'
  OBVIOUS
<1>1. CASE StartSimulation
  <2>1. /\ simulationState' = TRUE
        /\ lines' = [n \in DOMAIN lines |->
                       SetSimulationState(lines[n], TRUE)]
        /\ UNCHANGED <<frame, nSent>>
    BY <1>1 DEF StartSimulation
  <2>2. ASSUME NEW n \in DOMAIN lines PROVE GoodLine(lines'[n], TRUE)
    BY <2>1, <2>2, SetSimulationStateGood DEF Inv
  <2> QED
    BY <2>1, <2>2 DEF Inv
<1>2. CASE StopSimulation
  <2>1. /\ simulationState' = FALSE
        /\ lines' = [n \in DOMAIN lines |->
                       SetSimulationState(lines[n], FALSE)]
        /\ UNCHANGED <<frame, nSent>>
    BY <1>2 DEF StopSimulation
  <2>2. ASSUME NEW n \in DOMAIN lines PROVE GoodLine(lines'[n], FALSE)
    BY <2>1, <2>2, SetSimulationStateGood DEF Inv
  <2> QED
    BY <2>1, <2>2 DEF Inv
<1>3. CASE AddNewItem
  <2>1. PICK n \in Lines \ DOMAIN lines :
          /\ lines' = [m \in DOMAIN lines \cup {n} |->
                         IF m = n THEN NewLine(simulationState) ELSE lines[m]]
          /\ UNCHANGED <<simulationState, frame, nSent>>
    BY <1>3 DEF AddNewItem
  <2>2. GoodLine(NewLine(simulationState), simulationState)
    BY NewLineGood DEF Inv
  <2>3. ASSUME NEW m \in DOMAIN lines'
        PROVE  GoodLine(lines'[m], simulationState)
    BY <2>1, <2>2, <2>3 DEF Inv
  <2> QED
    BY <2>1, <2>3 DEF Inv
<1>4. CASE RemoveRows
  <2>1. PICK selected \in SUBSET DOMAIN lines :
          /\ lines' = [n \in DOMAIN lines \ selected |-> lines[n]]
          /\ UNCHANGED <<simulationState, frame, nSent>>
    BY <1>4 DEF RemoveRows
  <2>2. ASSUME NEW m \in DOMAIN lines'
        PROVE  GoodLine(lines'[m], simulationState)
    BY <2>1, <2>2 DEF Inv
  <2> QED
    BY <2>1, <2>2 DEF Inv
<1>5. CASE \E n \in DOMAIN lines : UseLine(n)
  BY <1>5, UseLineInv
<1>6. CASE \E n \in DOMAIN lines : TimerExpired(n)
  <2>1. PICK n \in DOMAIN lines : TimerExpired(n)
    BY <1>6
  <2>2. lines[n].frame \in FrameType
    BY DEF Inv, GoodLine, LineType
  <2>3. frame' \in FrameType /\ nSent' \in 0 .. MaxSent
    BY <2>1, <2>2, SendFrameInv DEF TimerExpired
  <2> QED
    BY <2>1, <2>3 DEF TimerExpired, Inv
<1>7. CASE UNCHANGED vars
  BY <1>7 DEF vars, Inv
<1> QED
  BY <1>1, <1>2, <1>3, <1>4, <1>5, <1>6, <1>7 DEF Next

LEMMA InvHolds == Spec => []Inv
BY InitInv, StepInv, PTL DEF Spec

-----------------------------------------------------------------------------
(* The table's lines are lines.                                              *)
THEOREM TypeCorrect == Spec => []TypeOK
<1>1. Inv => TypeOK
  BY DEF Inv, TypeOK, GoodLine
<1> QED
  BY <1>1, InvHolds, PTL

(* Every line knows whether the simulation runs, and its Send button with it.*)
THEOREM EveryLineFollows == Spec => []LinesFollow
<1>1. Inv => LinesFollow
  BY DEF Inv, LinesFollow, LineFollows, GoodLine, Enabled
<1> QED
  BY <1>1, InvHolds, PTL

(* A timer runs only for a line set up for it that cannot be edited.         *)
THEOREM TimersRunAsSetUp == Spec => []RunsAsSetUp
<1>1. Inv => RunsAsSetUp
  BY DEF Inv, RunsAsSetUp, GoodLine
<1> QED
  BY <1>1, InvHolds, PTL

(* What a line shows is what its timer sends, but for the Remote box.        *)
THEOREM TimersSendWhatIsShown == Spec => []SendsWhatItShows
<1>1. ASSUME NEW l, l \in LineType, FrameShows(l) PROVE LineShows(l)
  BY <1>1 DEF FrameShows, LineShows, FrameOf, LineType, FrameType
<1>2. Inv => SendsWhatItShows
  BY <1>1 DEF Inv, SendsWhatItShows, GoodLine
<1> QED
  BY <1>2, InvHolds, PTL

(* Saving and restoring a table keeps every line.                            *)
THEOREM TablesAreRestored == Spec => []SavedIsRestored
<1>1. Inv => SavedIsRestored
  BY SavedLineRestored DEF Inv, SavedIsRestored
<1> QED
  BY <1>1, InvHolds, PTL

(* No line sends anything while the simulation is stopped.                   *)
THEOREM SilentUnlessStarted == Spec => SilentWhenStopped
<1>1. Inv /\ [Next]_vars => [nSent' # nSent => simulationState]_vars
  <2> SUFFICES ASSUME Inv, Next, nSent' # nSent PROVE simulationState
    OBVIOUS
  <2>1. PICK n \in DOMAIN lines : PressSend(n) \/ TimerExpired(n)
    BY DEF Next, StartSimulation, StopSimulation, AddNewItem, RemoveRows,
           UseLine, EditId, EditData, EditInterval, ToggleRemote, ToggleLoop,
           ReleaseSend, SlipOff
  <2>2. lines[n].simState
    BY <2>1 DEF PressSend, TimerExpired, Inv, GoodLine, LineRuns
  <2> QED
    BY <2>2 DEF Inv, GoodLine
<1> QED
  BY <1>1, InvHolds, PTL DEF Spec, SilentWhenStopped
=============================================================================
