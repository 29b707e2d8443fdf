----------------------------- MODULE CanDevice -----------------------------
(* The CAN device node of CANdevStudio between its two threads.  The GUI     *)
(* thread runs the project window and the node graph; CanDevice and its      *)
(* QCanBusDevice live in a thread of their own.  Signals from one to the     *)
(* other are queued: inbox holds those for the device's thread, updates      *)
(* counts the dataUpdated signals on their way back to the graph, and        *)
(* _rxQueue is the lock-free queue the frames themselves travel in.          *)
(*                                                                           *)
(* The QCanBusDevice is one of three plugins: "serialbus" and "cannelloni"   *)
(* are in the repository, "direct" stands for a Qt plugin that writes a      *)
(* frame while writeFrame runs.  Frames are numbered in the order in which   *)
(* they are fed to the node.                                                 *)
EXTENDS Naturals, Sequences

CONSTANTS Backends,       \* the plugins the user may choose
          MayFail,        \* may createDevice and open() fail?
          MayBeInvalid,   \* may a frame fed to the node be an invalid one?
          MaxBatch,       \* frames that fit Cannelloni's bytes per timer tick
          RxCapacity,     \* capacity of _rxQueue
          MaxSends,       \* bound on the frames fed to the node
          MaxReceives,    \* bound on the frames that come from the bus
          MaxStarts,      \* bound on the presses of Start
          MaxConfigs,     \* bound on the changes of the properties
          MaxConnects     \* bound on the connections drawn to its output

ASSUME ConstantsAssumption ==
  /\ Backends \subseteq {"serialbus", "cannelloni", "direct"}
  /\ MayFail \in BOOLEAN
  /\ MayBeInvalid \in BOOLEAN
  /\ MaxBatch \in Nat \ {0}
  /\ RxCapacity \in Nat
  /\ MaxSends \in Nat
  /\ MaxReceives \in Nat
  /\ MaxStarts \in Nat
  /\ MaxConfigs \in Nat
  /\ MaxConnects \in Nat

VARIABLES guiStarted,  \* ProjectConfigPrivate::_simStarted
          inbox,       \* events queued for the device's thread
          backend,     \* the backend and interface properties
          simStarted,  \* CanDevicePrivate::_simStarted
          dev,         \* _initialized and the plugin's object
          sendQueue,   \* CanDevicePrivate::_sendQueue
          toReport,    \* frames framesWritten's loop has still to report
          rxQueue,     \* CanDeviceModel::_rxQueue
          updates,     \* dataUpdated signals queued for the GUI thread
          written,     \* history: what became of frames: [frame, ok]
          reported,    \* history: frameSent signals: [frame, ok]
          count        \* history: how often each bounded thing happened

vars == <<guiStarted, inbox, backend, simStarted, dev, sendQueue, toReport,
          rxQueue, updates, written, reported, count>>

Unset == "unset"

(* dropped is history: how many frames this object of the plugin took off    *)
(* its queue and neither wrote nor announced.                                *)
NoDevice == [initialized |-> FALSE, kind |-> "none", state |-> "unconnected",
             outgoing |-> <<>>, dropped |-> 0]
NewDevice(kind) == [initialized |-> TRUE, kind |-> kind,
                    state |-> "unconnected", outgoing |-> <<>>, dropped |-> 0]

Min(a, b) == IF a < b THEN a ELSE b
Drop(s, n) == SubSeq(s, n + 1, Len(s))

Init == /\ guiStarted = FALSE
        /\ inbox = <<>>
        /\ backend = Unset
        /\ simStarted = FALSE
        /\ dev = NoDevice
        /\ sendQueue = <<>>
        /\ toReport = 0
        /\ rxQueue = <<>>
        /\ updates = 0
        /\ written = <<>>
        /\ reported = <<>>
        /\ count = [sends |-> 0, receives |-> 0, starts |-> 0, configs |-> 0,
                    connects |-> 0]

Bump(field, max) == /\ count[field] < max
                    /\ count' = [count EXCEPT ![field] = @ + 1]

-----------------------------------------------------------------------------
(* The results a call may leave the device in.                               *)

(* CanDevice::init: nothing happens without a backend and an interface;      *)
(* otherwise the old object is deleted and createDevice makes a new one.     *)
AfterInit(d, b) ==
  IF b = Unset THEN {d}
  ELSE {NewDevice(b)} \cup (IF MayFail THEN {NoDevice} ELSE {})

(* QCanBusDevice::connectDevice refuses unless the state is unconnected; of  *)
(* the plugins' open() only SerialBusCanBackend's cannot fail.               *)
CanConnect(d) == d.state = "unconnected"
CanFail(d) == ~CanConnect(d) \/ (MayFail /\ d.kind # "serialbus")
Connected(d) == [d EXCEPT !.state = "connected"]

(* A mutant: connecting is not tried again.                                  *)
AfterStartOnce(d, b) == (IF CanConnect(d) THEN {Connected(d)} ELSE {})
                          \cup (IF CanFail(d) THEN {d} ELSE {})

(* CanDevice::startSimulation on an initialized device: when connecting      *)
(* fails, init and connect once more.                                        *)
Retried(d, b) ==
  UNION {IF ~e.initialized THEN {e}
         ELSE (IF CanConnect(e) THEN {Connected(e)} ELSE {})
                \cup (IF CanFail(e) THEN {e} ELSE {}) : e \in AfterInit(d, b)}
AfterStart(d, b) == (IF CanConnect(d) THEN {Connected(d)} ELSE {})
                      \cup (IF CanFail(d) THEN Retried(d, b) ELSE {})

(* disconnectDevice: the plugins in the repository close without ever        *)
(* leaving ClosingState.                                                     *)
AfterStop(d) ==
  IF d.state # "connected" THEN d
  ELSE [d EXCEPT !.state = IF d.kind = "direct" THEN "unconnected"
                           ELSE "closing"]

-----------------------------------------------------------------------------
(* The GUI thread                                                            *)

Post(what, frame) == inbox' = Append(inbox, [what |-> what, frame |-> frame])

(* ProjectConfig::simulationStarted and simulationStopped, reached through   *)
(* the Start and Stop actions, which enable each other.                      *)
PressStart == /\ ~guiStarted
              /\ Bump("starts", MaxStarts)
              /\ guiStarted' = TRUE
              /\ Post("start", 0)
              /\ UNCHANGED <<backend, simStarted, dev, sendQueue, toReport,
                             rxQueue, updates, written, reported>>

PressStop == /\ guiStarted
             /\ guiStarted' = FALSE
             /\ Post("stop", 0)
             /\ UNCHANGED <<backend, simStarted, dev, sendQueue, toReport,
                            rxQueue, updates, written, reported, count>>

(* setInData: another node feeds a frame.  Other devices and players run in  *)
(* threads of their own, so a frame may arrive before Start or after Stop.   *)
SetInData == /\ Bump("sends", MaxSends)
             /\ Post("send", count.sends + 1)
             /\ UNCHANGED <<guiStarted, backend, simStarted, dev, sendQueue,
                            toReport, rxQueue, updates, written,
                            reported>>

(* A mutant: an initialized device is connected, started or not.             *)
ChangePropertiesConnects ==
  /\ ~guiStarted
  /\ toReport = 0
  /\ Bump("configs", MaxConfigs)
  /\ backend' \in Backends \cup {Unset}
  /\ \E d \in AfterInit(dev, backend') :
       IF d.initialized
       THEN dev' \in AfterStart(d, backend') /\ sendQueue' = <<>>
       ELSE dev' = d /\ UNCHANGED sendQueue
  /\ UNCHANGED <<guiStarted, inbox, simStarted, toReport, rxQueue, updates,
                 written, reported>>

(* PCImpl::openProperties calls configChanged here, in the GUI thread, with  *)
(* the properties disabled while the project is started; events posted       *)
(* earlier may still wait for the device's thread, but it is not in the      *)
(* middle of one.                                                            *)
ChangeProperties ==
  /\ ~guiStarted
  /\ toReport = 0
  /\ Bump("configs", MaxConfigs)
  /\ backend' \in Backends \cup {Unset}
  /\ \E d \in AfterInit(dev, backend') :
       IF simStarted /\ d.initialized
       THEN dev' \in AfterStart(d, backend') /\ sendQueue' = <<>>
       ELSE dev' = d /\ UNCHANGED sendQueue
  /\ UNCHANGED <<guiStarted, inbox, simStarted, toReport, rxQueue, updates,
                 written, reported>>

(* outData takes one item if there is one, and hands on null if not.         *)
OutData == rxQueue' = IF rxQueue = <<>> THEN <<>> ELSE Tail(rxQueue)

(* Node::onDataUpdated                                                       *)
OnDataUpdated == /\ updates > 0
                 /\ updates' = updates - 1
                 /\ OutData
                 /\ UNCHANGED <<guiStarted, inbox, backend, simStarted, dev,
                                sendQueue, toReport, written, reported,
                                count>>

(* FlowScene::createConnection calls onDataUpdated without any signal.       *)
CreateConnection == /\ Bump("connects", MaxConnects)
                    /\ OutData
                    /\ UNCHANGED <<guiStarted, inbox, backend, simStarted, dev,
                                   sendQueue, toReport, updates, written,
                                   reported>>

-----------------------------------------------------------------------------
(* The device's thread: one event at a time, none within another             *)

Take(what) == /\ toReport = 0
              /\ inbox # <<>>
              /\ Head(inbox).what = what
              /\ inbox' = Tail(inbox)

(* Mutants: an item is queued however full the queue is; only an item that   *)
(* finds the queue empty is signalled.                                       *)
EnqueueAlways(item) ==
  rxQueue' = Append(rxQueue, item) /\ updates' = updates + 1

EnqueueQuietly(item) ==
  IF Len(rxQueue) < RxCapacity
  THEN /\ rxQueue' = Append(rxQueue, item)
       /\ updates' = updates + (IF rxQueue = <<>> THEN 1 ELSE 0)
  ELSE UNCHANGED <<rxQueue, updates>>

(* CanDeviceModel::frameReceived and frameSent: an item that finds the queue *)
(* full is dropped and not signalled.                                        *)
Enqueue(item) ==
  IF Len(rxQueue) < RxCapacity
  THEN rxQueue' = Append(rxQueue, item) /\ updates' = updates + 1
  ELSE UNCHANGED <<rxQueue, updates>>

(* A mutant: _sendQueue is not cleared.                                      *)
StartSimulationKeepsQueue ==
  /\ Take("start")
  /\ simStarted' = TRUE
  /\ IF dev.initialized
     THEN dev' \in AfterStart(dev, backend)
     ELSE UNCHANGED dev
  /\ UNCHANGED <<guiStarted, backend, sendQueue, toReport, rxQueue, updates,
                 written, reported, count>>

StartSimulation ==
  /\ Take("start")
  /\ simStarted' = TRUE
  /\ IF dev.initialized
     THEN dev' \in AfterStart(dev, backend) /\ sendQueue' = <<>>
     ELSE UNCHANGED <<dev, sendQueue>>
  /\ UNCHANGED <<guiStarted, backend, toReport, rxQueue, updates, written,
                 reported, count>>

StopSimulation ==
  /\ Take("stop")
  /\ simStarted' = FALSE
  /\ dev' = AfterStop(dev)
  /\ UNCHANGED <<guiStarted, backend, sendQueue, toReport, rxQueue, updates,
                 written, reported, count>>

(* sendFrame while the plugin only queues: whatever its state is, it takes   *)
(* the frame.                                                                *)
SendQueued(frame) ==
  /\ dev.kind \in {"serialbus", "cannelloni"}
  /\ sendQueue' = Append(sendQueue, frame)
  /\ dev' = [dev EXCEPT !.outgoing = Append(@, frame)]
  /\ UNCHANGED <<rxQueue, updates, written, reported>>

(* sendFrame with a plugin that writes at once: framesWritten or the write   *)
(* error, which an invalid frame always gets, arrives before writeFrame      *)
(* returns.                                                                  *)
SendDirect(frame) ==
  /\ dev.kind = "direct"
  /\ dev.state = "connected"
  /\ LET queue == Append(sendQueue, frame) IN
     \E ok \in BOOLEAN :
       LET report == [frame |-> Head(queue), ok |-> ok] IN
       /\ written' = Append(written, [frame |-> frame, ok |-> ok])
       /\ reported' = Append(reported, report)
       /\ sendQueue' = Tail(queue)
       /\ Enqueue([dir |-> "TX", frame |-> Head(queue), ok |-> ok])
  /\ UNCHANGED dev

(* ... and that refuses a frame when it is not connected, without a signal.  *)
SendRefused(frame) ==
  /\ dev.kind = "direct"
  /\ dev.state # "connected"
  /\ sendQueue' = Append(sendQueue, frame)
  /\ UNCHANGED <<dev, rxQueue, updates, written, reported>>

SendUninitialized ==
  /\ ~dev.initialized
  /\ UNCHANGED <<dev, sendQueue, rxQueue, updates, written, reported>>

SendFrame ==
  /\ Take("send")
  /\ LET frame == Head(inbox).frame IN
     SendQueued(frame) \/ SendDirect(frame) \/ SendRefused(frame)
       \/ SendUninitialized
  /\ UNCHANGED <<guiStarted, backend, simStarted, toReport, count>>

(* What is left of the plugin's object after it wrote n frames of its queue  *)
(* and took one more off it, if there was one.                               *)
AfterWriting(n) ==
  [dev EXCEPT !.outgoing = Drop(@, n + 1),
              !.dropped = @ + (IF Len(dev.outgoing) > n THEN 1 ELSE 0)]

WriteAll(n) == written' = written \o [i \in 1 .. n |->
                                         [frame |-> dev.outgoing[i],
                                          ok |-> TRUE]]

(* A mutant: one frame too few is announced.                                 *)
CannelloniTickShort ==
  LET n == Min(Len(dev.outgoing), MaxBatch) IN
  /\ toReport = 0
  /\ dev.kind = "cannelloni"
  /\ dev.state = "connected"
  /\ dev.outgoing # <<>>
  /\ WriteAll(n)
  /\ dev' = AfterWriting(n)
  /\ toReport' = n - 1
  /\ UNCHANGED <<guiStarted, inbox, backend, simStarted, sendQueue, rxQueue,
                 updates, reported, count>>

(* CannelloniCanBackend::timerEvent: frames are written until the queue or   *)
(* the bytes of a tick run out or a frame is invalid.  In the last two cases *)
(* one more has left the queue already and is not written.  writeFrame asks  *)
(* of no frame whether it is valid; it is asked here, once for each frame.   *)
CannelloniTick ==
  LET most == Min(Len(dev.outgoing), MaxBatch) IN
  /\ toReport = 0
  /\ dev.kind = "cannelloni"
  /\ dev.state = "connected"
  /\ dev.outgoing # <<>>
  /\ \E n \in 0 .. most :
       /\ n = most \/ MayBeInvalid
       /\ WriteAll(n)
       /\ dev' = AfterWriting(n)
       /\ toReport' = n
  /\ UNCHANGED <<guiStarted, inbox, backend, simStarted, sendQueue, rxQueue,
                 updates, reported, count>>

(* A mutant: the head is reported and left in the queue.                     *)
FramesWrittenPeeks ==
  /\ toReport > 0
  /\ toReport' = toReport - 1
  /\ IF sendQueue = <<>>
     THEN UNCHANGED <<reported, rxQueue, updates>>
     ELSE /\ reported' = Append(reported, [frame |-> Head(sendQueue),
                                           ok |-> TRUE])
          /\ Enqueue([dir |-> "TX", frame |-> Head(sendQueue), ok |-> TRUE])
  /\ UNCHANGED <<guiStarted, inbox, backend, simStarted, dev, sendQueue,
                 written, count>>

(* One round of framesWritten's loop; an empty _sendQueue is only logged.    *)
FramesWritten ==
  /\ toReport > 0
  /\ toReport' = toReport - 1
  /\ IF sendQueue = <<>>
     THEN UNCHANGED <<sendQueue, reported, rxQueue, updates>>
     ELSE /\ sendQueue' = Tail(sendQueue)
          /\ reported' = Append(reported, [frame |-> Head(sendQueue),
                                           ok |-> TRUE])
          /\ Enqueue([dir |-> "TX", frame |-> Head(sendQueue), ok |-> TRUE])
  /\ UNCHANGED <<guiStarted, inbox, backend, simStarted, dev, written,
                 count>>

(* SerialBusCanBackend::timerEvent: one frame a tick, which comes back as    *)
(* received if it is valid; framesWritten is never emitted.                  *)
SerialBusTick ==
  /\ toReport = 0
  /\ dev.kind = "serialbus"
  /\ dev.state = "connected"
  /\ dev.outgoing # <<>>
  /\ \E n \in {0, 1} :
       /\ n = 1 \/ MayBeInvalid
       /\ WriteAll(n)
       /\ dev' = [dev EXCEPT !.outgoing = Tail(@), !.dropped = @ + (1 - n)]
       /\ IF n = 1
          THEN Enqueue([dir |-> "RX", frame |-> Head(dev.outgoing),
                        ok |-> TRUE])
          ELSE UNCHANGED <<rxQueue, updates>>
  /\ UNCHANGED <<guiStarted, inbox, backend, simStarted, sendQueue, toReport,
                 reported, count>>

(* A frame from the bus; framesReceived passes on all there is.              *)
FramesReceived ==
  /\ toReport = 0
  /\ dev.kind \in {"cannelloni", "direct"}
  /\ dev.state = "connected"
  /\ Bump("receives", MaxReceives)
  /\ Enqueue([dir |-> "RX", frame |-> 0, ok |-> TRUE])
  /\ UNCHANGED <<guiStarted, inbox, backend, simStarted, dev, sendQueue,
                 toReport, written, reported>>

-----------------------------------------------------------------------------
Gui == \/ PressStart \/ PressStop \/ SetInData \/ ChangeProperties
       \/ OnDataUpdated \/ CreateConnection

HandleEvent == StartSimulation \/ StopSimulation \/ SendFrame
Tick == CannelloniTick \/ SerialBusTick

Next == Gui \/ HandleEvent \/ Tick \/ FramesWritten \/ FramesReceived

(* Both threads run an event loop and the plugin's timer goes on firing;     *)
(* users and the bus need never act.                                         *)
Fairness == /\ WF_vars(OnDataUpdated)
            /\ WF_vars(HandleEvent)
            /\ WF_vars(FramesWritten)
            /\ WF_vars(Tick)

Spec == Init /\ [][Next]_vars /\ Fairness
-----------------------------------------------------------------------------
Frames == 1 .. MaxSends
Reports == [frame : Frames, ok : BOOLEAN]
Items == [dir : {"TX", "RX"}, frame : 0 .. MaxSends, ok : BOOLEAN]
Devices == [initialized : BOOLEAN, kind : Backends \cup {"none"},
            state : {"unconnected", "connected", "closing"},
            outgoing : Seq(Frames), dropped : Nat]
Counts == [{"sends", "receives", "starts", "configs", "connects"} -> Nat]
Events == [what : {"start", "stop"}, frame : {0}]
            \cup [what : {"send"}, frame : Frames]

(* Queues hold events, frames and items; the queue between the threads never *)
(* holds more than it was made for; there is a plugin's object exactly when  *)
(* CanDevice says it is initialized.                                         *)
TypeOK ==
  /\ guiStarted \in BOOLEAN
  /\ inbox \in Seq(Events)
  /\ backend \in Backends \cup {Unset}
  /\ simStarted \in BOOLEAN
  /\ dev \in Devices
  /\ dev.initialized <=> dev.kind # "none"
  /\ sendQueue \in Seq(Frames)
  /\ toReport \in Nat
  /\ rxQueue \in Seq(Items) /\ Len(rxQueue) <= RxCapacity
  /\ updates \in Nat
  /\ written \in Seq(Reports)
  /\ reported \in Seq(Reports)
  /\ count \in Counts

(* "Keep correlation between sending results and frame/context", as it is    *)
(* meant: a frameSent signal names a frame the plugin wrote, with what       *)
(* became of it.  The plugins break it when they drop a frame.               *)
Truthful ==
  \A i \in DOMAIN reported : \E j \in DOMAIN written :
    written[j] = reported[i]

(* The correlation that is kept: as long as the plugin's object has dropped  *)
(* nothing, each frameSent signal names a frame that was written, with what  *)
(* became of it, however starts, stops, changes of the backend and frames    *)
(* sent meanwhile mix, and whatever objects before it have dropped.          *)
Reporting == Len(reported') > Len(reported)
LastReportTrue ==
  \E j \in DOMAIN written' : written'[j] = reported'[Len(reported')]

TrueUntilDropped ==
  [][Reporting /\ dev.dropped = 0 => LastReportTrue]_vars

(* No frame is reported twice, and frames are reported in the order in which *)
(* they were sent.                                                           *)
InOrder == \A i, j \in DOMAIN reported :
             i < j => reported[i].frame < reported[j].frame

(* Every item in _rxQueue has a dataUpdated on its way that will fetch it,   *)
(* also when drawing a connection takes items early.                         *)
UpdatesCoverQueue == Len(rxQueue) <= updates

(* The plugin's object is connected only between a start and a stop the      *)
(* device's thread has seen, although configChanged connects it from the     *)
(* other thread.                                                             *)
ConnectedOnlyWhileStarted == dev.state = "connected" => simStarted

(* Connecting again after a stop works, with plugins that stay in            *)
(* ClosingState too: unless creating or opening fails, a started device with *)
(* a backend is connected.                                                   *)
StartedMeansConnected ==
  ~MayFail /\ simStarted /\ dev.initialized /\ backend # Unset
    => dev.state = "connected"

(* A frame waits for its report; as many as were dropped do so for ever,     *)
(* since each report takes the oldest.                                       *)
Due(f) == \E i \in DOMAIN sendQueue : i > dev.dropped /\ sendQueue[i] = f

(* Of the frames given to a connected device all but as many as the plugin   *)
(* drops are reported, unless the device is disconnected first.              *)
(* SerialBusCanBackend is left out: it emits neither framesWritten nor an    *)
(* error, so what it is given is never reported.                             *)
ReportedInTime ==
  \A f \in Frames :
    (Due(f) /\ dev.state = "connected" /\ dev.kind # "serialbus")
      ~> (~Due(f) \/ dev.state # "connected")
=============================================================================
