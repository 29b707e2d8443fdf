-------------------------- MODULE CanDevice_proof --------------------------
(* Proofs about CanDevice, for any number of frames, starts and changes.     *)
EXTENDS CanDevice, SequenceTheorems, TLAPS

USE ConstantsAssumption DEF Unset

-----------------------------------------------------------------------------
(* What init, startSimulation and stopSimulation leave behind.               *)

(* A device that init leaves is the one there was, or a new one that is not  *)
(* connected and has an empty queue.                                         *)
LEMMA InitResult ==
  ASSUME NEW d \in Devices, d.initialized <=> d.kind # "none",
         NEW b \in Backends \cup {Unset}, NEW e \in AfterInit(d, b)
  PROVE  /\ e \in Devices
         /\ e.initialized <=> e.kind # "none"
         /\ \/ e = d /\ b = Unset
            \/ e.state = "unconnected" /\ e.outgoing = <<>>
<1>1. CASE b = Unset /\ e = d
  BY <1>1
<1>2. CASE b \in Backends /\ e = NewDevice(b)
  <2>1. b # "none" /\ <<>> \in Seq(Frames)
    BY <1>2, EmptySeq
  <2> QED BY <1>2, <2>1 DEF NewDevice, Devices
<1>3. CASE e = NoDevice
  <2>1. <<>> \in Seq(Frames)
    OBVIOUS
  <2> QED BY <1>3, <2>1 DEF NoDevice, Devices
<1>4. b = Unset => e = d
  BY DEF AfterInit
<1>5. b # Unset => b \in Backends /\ (e = NewDevice(b) \/ e = NoDevice)
  BY DEF AfterInit
<1> QED BY <1>1, <1>2, <1>3, <1>4, <1>5

(* Starting never makes up frames in the queue, and unless something fails   *)
(* it ends in a connected device whenever a backend is set.                  *)
LEMMA StartResult ==
  ASSUME NEW d \in Devices, d.initialized,
         d.initialized <=> d.kind # "none",
         NEW b \in Backends \cup {Unset}, NEW e \in AfterStart(d, b)
  PROVE  /\ e \in Devices
         /\ e.initialized <=> e.kind # "none"
         /\ ~MayFail /\ b # Unset => e.state = "connected"
<1>1. CASE CanConnect(d) /\ e = Connected(d)
  BY <1>1 DEF Connected, CanConnect, Devices
<1>2. CASE e \in Retried(d, b) /\ CanFail(d)
  <2>1. PICK i \in AfterInit(d, b) :
          e \in IF ~i.initialized THEN {i}
                ELSE (IF CanConnect(i) THEN {Connected(i)} ELSE {})
                       \cup (IF CanFail(i) THEN {i} ELSE {})
    BY <1>2 DEF Retried
  <2>2. i \in Devices /\ (i.initialized <=> i.kind # "none")
    BY InitResult
  <2>3. e = i \/ e = Connected(i)
    BY <2>1
  <2>4. e \in Devices /\ (e.initialized <=> e.kind # "none")
    BY <2>2, <2>3 DEF Connected, Devices
  <2>5. ASSUME ~MayFail, b # Unset PROVE e.state = "connected"
    <3>1. i = NewDevice(b)
      BY <2>5 DEF AfterInit
    <3>2. CanConnect(i) /\ ~CanFail(i) /\ i.initialized
      BY <3>1, <2>5 DEF CanConnect, CanFail, NewDevice
    <3> QED BY <2>1, <2>2, <3>2 DEF Connected, Devices
  <2> QED BY <2>4, <2>5
<1> QED BY <1>1, <1>2 DEF AfterStart

LEMMA StopResult ==
  ASSUME NEW d \in Devices, d.initialized <=> d.kind # "none"
  PROVE  /\ AfterStop(d) \in Devices
         /\ AfterStop(d).initialized <=> AfterStop(d).kind # "none"
         /\ AfterStop(d).state # "connected"
  BY DEF AfterStop, Devices

-----------------------------------------------------------------------------
(* Types                                                                     *)

LEMMA FunctionIsSeq ==
  ASSUME NEW S, NEW n \in Nat, NEW s \in [1 .. n -> S]
  PROVE  s \in Seq(S) /\ Len(s) = n
<1>1. s \in UNION {[1 .. m -> S] : m \in Nat}
  OBVIOUS
<1>2. s \in Seq(S)
  BY <1>1, SeqDef, Zenon
<1>3. Len(s) \in Nat /\ 1 .. Len(s) = 1 .. n
  BY <1>2, LenProperties
<1>4. (n > 0 => n \in 1 .. Len(s)) /\ (Len(s) > 0 => Len(s) \in 1 .. n)
  BY <1>3
<1> QED BY <1>2, <1>3, <1>4

LEMMA TypeInit == Init => TypeOK
<1> SUFFICES ASSUME Init PROVE TypeOK
  OBVIOUS
<1>1. \A S : <<>> \in Seq(S) /\ Len(<<>>) = 0
  BY EmptySeq
<1>2. dev \in Devices /\ (dev.initialized <=> dev.kind # "none")
  BY <1>1 DEF Init, NoDevice, Devices
<1>3. count \in Counts
  BY DEF Init, Counts
<1>4. /\ inbox \in Seq(Events) /\ sendQueue \in Seq(Frames)
      /\ rxQueue \in Seq(Items) /\ Len(rxQueue) = 0
      /\ written \in Seq(Reports) /\ reported \in Seq(Reports)
  BY <1>1 DEF Init
<1>5. /\ guiStarted \in BOOLEAN /\ simStarted \in BOOLEAN
      /\ backend \in Backends \cup {Unset}
      /\ toReport \in Nat /\ updates \in Nat
  BY DEF Init
<1>6. Len(rxQueue) <= RxCapacity
  BY <1>4
<1> QED BY <1>2, <1>3, <1>4, <1>5, <1>6 DEF TypeOK

LEMMA BumpType ==
  ASSUME count \in Counts, NEW f \in {"sends", "receives", "starts", "configs",
                                      "connects"},
         NEW max, Bump(f, max)
  PROVE  /\ count' \in Counts
         /\ count[f] < max
         /\ count[f] \in Nat
         /\ count'[f] = count[f] + 1
  BY DEF Bump, Counts

LEMMA EnqueueType ==
  ASSUME rxQueue \in Seq(Items), Len(rxQueue) <= RxCapacity, updates \in Nat,
         NEW item \in Items, Enqueue(item)
  PROVE  /\ rxQueue' \in Seq(Items)
         /\ Len(rxQueue') <= RxCapacity
         /\ updates' \in Nat
  BY DEF Enqueue

(* Writing adds reports and leaves a device, with at most its queue behind.  *)
LEMMA WritingType ==
  ASSUME TypeOK, NEW n \in Nat, n <= Len(dev.outgoing)
  PROVE  /\ AfterWriting(n) \in Devices
         /\ AfterWriting(n).initialized <=> AfterWriting(n).kind # "none"
         /\ WriteAll(n) => written' \in Seq(Reports)
<1> DEFINE batch == [i \in 1 .. n |-> [frame |-> dev.outgoing[i],
                                      ok |-> TRUE]]
<1>1. dev.outgoing \in Seq(Frames) /\ dev.dropped \in Nat
  BY DEF TypeOK, Devices
<1>2. \A i \in 1 .. n : dev.outgoing[i] \in Frames
  BY <1>1
<1>3. batch \in [1 .. n -> Reports]
  BY <1>2 DEF Reports
<1>4. batch \in Seq(Reports)
  BY <1>3, FunctionIsSeq
<1>5. WriteAll(n) => written' \in Seq(Reports)
  BY <1>4 DEF WriteAll, TypeOK
<1>6. Drop(dev.outgoing, n + 1) \in Seq(Frames)
  BY <1>1 DEF Drop
<1>7. dev.dropped + (IF Len(dev.outgoing) > n THEN 1 ELSE 0) \in Nat
  BY <1>1
<1>8. /\ AfterWriting(n) \in Devices
      /\ AfterWriting(n).initialized <=> AfterWriting(n).kind # "none"
  BY <1>6, <1>7 DEF AfterWriting, TypeOK, Devices
<1> QED BY <1>5, <1>8

LEMMA TypeStep == TypeOK /\ [Next]_vars => TypeOK'
<1> SUFFICES ASSUME TypeOK, [Next]_vars PROVE TypeOK'
  OBVIOUS
<1>1. CASE PressStart
  <2>1. inbox' \in Seq(Events)
    BY <1>1, AppendProperties DEF PressStart, Post, TypeOK, Events
  <2>2. count' \in Counts
    BY <1>1, BumpType DEF PressStart, TypeOK
  <2> QED BY <1>1, <2>1, <2>2 DEF PressStart, TypeOK
<1>2. CASE PressStop
  <2>1. inbox' \in Seq(Events)
    BY <1>2, AppendProperties DEF PressStop, Post, TypeOK, Events
  <2> QED BY <1>2, <2>1 DEF PressStop, TypeOK
<1>3. CASE SetInData
  <2>1. count.sends + 1 \in Frames /\ count' \in Counts
    BY <1>3, BumpType DEF SetInData, TypeOK, Frames
  <2>2. inbox' \in Seq(Events)
    BY <1>3, <2>1, AppendProperties DEF SetInData, Post, TypeOK, Events
  <2> QED BY <1>3, <2>1, <2>2 DEF SetInData, TypeOK
<1>4. CASE ChangeProperties
  <2>1. PICK d \in AfterInit(dev, backend') :
          IF simStarted /\ d.initialized
          THEN dev' \in AfterStart(d, backend') /\ sendQueue' = <<>>
          ELSE dev' = d /\ UNCHANGED sendQueue
    BY <1>4 DEF ChangeProperties
  <2>2. d \in Devices /\ (d.initialized <=> d.kind # "none")
    BY <1>4, InitResult DEF ChangeProperties, TypeOK
  <2>3. dev' \in Devices /\ (dev'.initialized <=> dev'.kind # "none")
    BY <1>4, <2>1, <2>2, StartResult DEF ChangeProperties
  <2>4. sendQueue' \in Seq(Frames)
    BY <2>1, EmptySeq DEF TypeOK
  <2>5. count' \in Counts
    BY <1>4, BumpType DEF ChangeProperties, TypeOK
  <2> QED BY <1>4, <2>3, <2>4, <2>5 DEF ChangeProperties, TypeOK
<1>5. CASE OnDataUpdated
  BY <1>5 DEF OnDataUpdated, OutData, TypeOK
<1>6. CASE CreateConnection
  BY <1>6, BumpType DEF CreateConnection, OutData, TypeOK
<1>7. CASE StartSimulation
  <2>1. dev' \in Devices /\ (dev'.initialized <=> dev'.kind # "none")
    BY <1>7, StartResult DEF StartSimulation, TypeOK
  <2>2. sendQueue' \in Seq(Frames) /\ inbox' \in Seq(Events)
    BY <1>7, EmptySeq, HeadTailProperties
       DEF StartSimulation, Take, TypeOK
  <2> QED BY <1>7, <2>1, <2>2 DEF StartSimulation, Take, TypeOK
<1>8. CASE StopSimulation
  <2>1. dev' \in Devices /\ (dev'.initialized <=> dev'.kind # "none")
    BY <1>8, StopResult DEF StopSimulation, TypeOK
  <2>2. inbox' \in Seq(Events)
    BY <1>8, HeadTailProperties DEF StopSimulation, Take, TypeOK
  <2> QED BY <1>8, <2>1, <2>2 DEF StopSimulation, TypeOK
<1>9. CASE SendFrame
  <2> DEFINE frame == Head(inbox).frame
  <2>1. frame \in Frames
    <3>1. Head(inbox) \in Events /\ Head(inbox).what = "send"
      BY <1>9, HeadTailProperties DEF SendFrame, Take, TypeOK
    <3> QED BY <3>1 DEF Events
  <2>2. inbox' \in Seq(Events)
    BY <1>9, HeadTailProperties DEF SendFrame, Take, TypeOK
  <2>3. UNCHANGED <<guiStarted, backend, simStarted, toReport, count>>
    BY <1>9 DEF SendFrame
  <2>4. CASE SendQueued(frame)
    <3>1. dev.outgoing \in Seq(Frames)
      BY DEF TypeOK, Devices
    <3>2. /\ Append(dev.outgoing, frame) \in Seq(Frames)
          /\ Append(sendQueue, frame) \in Seq(Frames)
      BY <2>1, <3>1, AppendProperties DEF TypeOK
    <3>3. dev' \in Devices /\ (dev'.initialized <=> dev'.kind # "none")
      BY <2>4, <3>2 DEF SendQueued, TypeOK, Devices
    <3> QED BY <2>2, <2>3, <2>4, <3>2, <3>3 DEF SendQueued, TypeOK
  <2>5. CASE SendDirect(frame)
    <3>1. PICK ok \in BOOLEAN :
            LET queue == Append(sendQueue, frame) IN
            /\ written' = Append(written, [frame |-> frame, ok |-> ok])
            /\ reported' = Append(reported, [frame |-> Head(queue), ok |-> ok])
            /\ sendQueue' = Tail(queue)
            /\ Enqueue([dir |-> "TX", frame |-> Head(queue), ok |-> ok])
      BY <2>5 DEF SendDirect
    <3> DEFINE queue == Append(sendQueue, frame)
    <3>2. queue \in Seq(Frames) /\ queue # <<>>
      BY <2>1, AppendProperties DEF TypeOK
    <3>3. Head(queue) \in Frames /\ Tail(queue) \in Seq(Frames)
      BY <3>2
    <3>4. [dir |-> "TX", frame |-> Head(queue), ok |-> ok] \in Items
      BY <3>3 DEF Items, Frames
    <3>5. /\ [frame |-> frame, ok |-> ok] \in Reports
          /\ [frame |-> Head(queue), ok |-> ok] \in Reports
      BY <2>1, <3>3 DEF Reports
    <3>6. written' \in Seq(Reports) /\ reported' \in Seq(Reports)
      BY <3>1, <3>5 DEF TypeOK
    <3>7. /\ rxQueue' \in Seq(Items)
          /\ Len(rxQueue') <= RxCapacity
          /\ updates' \in Nat
      BY <3>1, <3>4, EnqueueType DEF TypeOK
    <3> QED BY <2>2, <2>3, <2>5, <3>1, <3>3, <3>6, <3>7 DEF SendDirect, TypeOK
  <2>6. CASE SendRefused(frame)
    BY <2>1, <2>2, <2>3, <2>6 DEF SendRefused, TypeOK
  <2>7. CASE SendUninitialized
    BY <2>2, <2>3, <2>7 DEF SendUninitialized, TypeOK
  <2> QED BY <1>9, <2>4, <2>5, <2>6, <2>7 DEF SendFrame
<1>10. CASE CannelloniTick
  <2>1. dev.outgoing \in Seq(Frames) /\ dev.dropped \in Nat
    BY DEF TypeOK, Devices
  <2>2. PICK n \in 0 .. Min(Len(dev.outgoing), MaxBatch) :
          WriteAll(n) /\ dev' = AfterWriting(n) /\ toReport' = n
    BY <1>10 DEF CannelloniTick
  <2>3. n \in Nat /\ n <= Len(dev.outgoing)
    BY <2>1, <2>2 DEF Min
  <2>4. dev' \in Devices /\ (dev'.initialized <=> dev'.kind # "none")
    BY <2>2, <2>3, WritingType
  <2>5. written' \in Seq(Reports)
    BY <2>2, <2>3, WritingType
  <2> QED BY <1>10, <2>2, <2>3, <2>4, <2>5 DEF CannelloniTick, TypeOK
<1>11. CASE SerialBusTick
  <2>1. /\ dev.outgoing \in Seq(Frames) /\ dev.outgoing # <<>>
        /\ dev.dropped \in Nat
    BY <1>11 DEF SerialBusTick, TypeOK, Devices
  <2>2. Head(dev.outgoing) \in Frames /\ Tail(dev.outgoing) \in Seq(Frames)
    BY <2>1
  <2>3. PICK n \in {0, 1} :
          /\ WriteAll(n)
          /\ dev' = [dev EXCEPT !.outgoing = Tail(@), !.dropped = @ + (1 - n)]
          /\ IF n = 1
             THEN Enqueue([dir |-> "RX", frame |-> Head(dev.outgoing),
                           ok |-> TRUE])
             ELSE UNCHANGED <<rxQueue, updates>>
    BY <1>11 DEF SerialBusTick
  <2>4. dev.dropped + (1 - n) \in Nat
    BY <2>1
  <2>5. dev' \in Devices /\ (dev'.initialized <=> dev'.kind # "none")
    BY <2>2, <2>3, <2>4 DEF TypeOK, Devices
  <2>6. [dir |-> "RX", frame |-> Head(dev.outgoing), ok |-> TRUE] \in Items
    BY <2>2 DEF Items, Frames
  <2>7. /\ rxQueue' \in Seq(Items)
        /\ Len(rxQueue') <= RxCapacity
        /\ updates' \in Nat
    BY <2>3, <2>6, EnqueueType DEF TypeOK
  <2>8. Len(dev.outgoing) \in Nat /\ n \in Nat /\ n <= Len(dev.outgoing)
    BY <2>1, EmptySeq, LenProperties
  <2>9. written' \in Seq(Reports)
    BY <2>3, <2>8, WritingType
  <2> QED BY <1>11, <2>5, <2>7, <2>9 DEF SerialBusTick, TypeOK
<1>12. CASE FramesWritten
  <2>1. CASE sendQueue = <<>>
    BY <1>12, <2>1 DEF FramesWritten, TypeOK
  <2>2. CASE sendQueue # <<>>
    <3>1. Head(sendQueue) \in Frames /\ Tail(sendQueue) \in Seq(Frames)
      BY <2>2 DEF TypeOK
    <3>2. [dir |-> "TX", frame |-> Head(sendQueue), ok |-> TRUE] \in Items
      BY <3>1 DEF Items, Frames
    <3>3. /\ rxQueue' \in Seq(Items)
          /\ Len(rxQueue') <= RxCapacity
          /\ updates' \in Nat
      BY <1>12, <2>2, <3>2, EnqueueType DEF FramesWritten, TypeOK
    <3>4. [frame |-> Head(sendQueue), ok |-> TRUE] \in Reports
      BY <3>1 DEF Reports
    <3>5. /\ reported' = Append(reported, [frame |-> Head(sendQueue),
                                            ok |-> TRUE])
          /\ sendQueue' = Tail(sendQueue)
          /\ toReport > 0 /\ toReport' = toReport - 1
      BY <1>12, <2>2 DEF FramesWritten
    <3>6. reported' \in Seq(Reports)
      BY <3>4, <3>5, AppendProperties DEF TypeOK
    <3>7. sendQueue' \in Seq(Frames) /\ toReport' \in Nat
      BY <3>1, <3>5 DEF TypeOK
    <3> QED BY <1>12, <3>3, <3>6, <3>7 DEF FramesWritten, TypeOK
  <2> QED BY <2>1, <2>2
<1>13. CASE FramesReceived
  <2>1. [dir |-> "RX", frame |-> 0, ok |-> TRUE] \in Items
    BY DEF Items
  <2>2. /\ rxQueue' \in Seq(Items)
        /\ Len(rxQueue') <= RxCapacity
        /\ updates' \in Nat
    BY <1>13, <2>1, EnqueueType DEF FramesReceived, TypeOK
  <2>3. count' \in Counts
    BY <1>13, BumpType DEF FramesReceived, TypeOK
  <2> QED BY <1>13, <2>2, <2>3 DEF FramesReceived, TypeOK
<1>14. CASE UNCHANGED vars
  BY <1>14 DEF vars, TypeOK
<1> QED BY <1>1, <1>2, <1>3, <1>4, <1>5, <1>6, <1>7, <1>8, <1>9, <1>10, <1>11,
           <1>12, <1>13, <1>14 DEF Next, Gui, HandleEvent, Tick

(* Type correctness: queues and histories always hold what the code puts     *)
(* there, whatever the two threads do.                                       *)
THEOREM TypeCorrect == Spec => []TypeOK
  BY TypeInit, TypeStep, PTL DEF Spec

-----------------------------------------------------------------------------
(* The queue to the graph and its signals                                    *)

LEMMA EnqueueCovers ==
  ASSUME rxQueue \in Seq(Items), updates \in Nat, UpdatesCoverQueue,
         NEW item, Enqueue(item)
  PROVE  UpdatesCoverQueue'
<1>1. CASE UNCHANGED <<rxQueue, updates>>
  BY <1>1 DEF UpdatesCoverQueue
<1>2. CASE rxQueue' = Append(rxQueue, item) /\ updates' = updates + 1
  <2>1. Len(rxQueue') = Len(rxQueue) + 1
    BY <1>2
  <2> QED BY <1>2, <2>1 DEF UpdatesCoverQueue
<1> QED BY <1>1, <1>2 DEF Enqueue

LEMMA CoverStep ==
  TypeOK /\ UpdatesCoverQueue /\ [Next]_vars => UpdatesCoverQueue'
<1> SUFFICES ASSUME TypeOK, UpdatesCoverQueue, [Next]_vars
             PROVE  UpdatesCoverQueue'
  OBVIOUS
<1>1. rxQueue \in Seq(Items) /\ updates \in Nat
  BY DEF TypeOK
<1>2. CASE UNCHANGED <<rxQueue, updates>>
  BY <1>2 DEF UpdatesCoverQueue
<1>3. CASE \E item : Enqueue(item)
  BY <1>1, <1>3, EnqueueCovers
<1>4. ASSUME OutData PROVE \/ rxQueue = <<>> /\ Len(rxQueue') = 0
                           \/ Len(rxQueue') = Len(rxQueue) - 1
  BY <1>1, <1>4, HeadTailProperties, EmptySeq DEF OutData
<1>5. CASE OnDataUpdated
  BY <1>1, <1>4, <1>5 DEF OnDataUpdated, UpdatesCoverQueue
<1>6. CASE CreateConnection
  BY <1>1, <1>4, <1>6 DEF CreateConnection, UpdatesCoverQueue
<1>7. CASE PressStart \/ PressStop \/ SetInData \/ ChangeProperties
           \/ StartSimulation \/ StopSimulation \/ CannelloniTick
  BY <1>2, <1>7 DEF PressStart, PressStop, SetInData, ChangeProperties,
                    StartSimulation, StopSimulation, CannelloniTick
<1>8. CASE SendFrame
  <2> DEFINE frame == Head(inbox).frame
  <2>1. CASE SendQueued(frame) \/ SendRefused(frame) \/ SendUninitialized
    BY <1>2, <2>1 DEF SendQueued, SendRefused, SendUninitialized
  <2>2. CASE SendDirect(frame)
    BY <1>3, <2>2 DEF SendDirect
  <2> QED BY <1>8, <2>1, <2>2 DEF SendFrame
<1>9. CASE SerialBusTick \/ FramesReceived
  BY <1>2, <1>3, <1>9 DEF SerialBusTick, FramesReceived
<1>10. CASE FramesWritten
  BY <1>2, <1>3, <1>10 DEF FramesWritten
<1>11. CASE UNCHANGED vars
  BY <1>2, <1>11 DEF vars
<1> QED BY <1>5, <1>6, <1>7, <1>8, <1>9, <1>10, <1>11
        DEF Next, Gui, HandleEvent, Tick

(* Every item in _rxQueue has a dataUpdated on its way that will fetch it:   *)
(* try_enqueue and the signal stay in step with outData's try_dequeue, also  *)
(* where createConnection calls it without a signal.                         *)
THEOREM UpdatesCover == Spec => []UpdatesCoverQueue
<1>1. Init => UpdatesCoverQueue
  BY EmptySeq DEF Init, UpdatesCoverQueue
<1> QED BY <1>1, CoverStep, TypeCorrect, PTL DEF Spec

-----------------------------------------------------------------------------
(* The plugin's connection                                                   *)

(* Only starting, stopping and changing the properties touch more of the     *)
(* plugin's object than its queue.                                           *)
LEMMA SameConnection ==
  ASSUME TypeOK, [Next]_vars,
         ~StartSimulation, ~StopSimulation, ~ChangeProperties
  PROVE  /\ UNCHANGED <<simStarted, backend>>
         /\ dev'.state = dev.state
         /\ dev'.kind = dev.kind
         /\ dev'.initialized = dev.initialized
<1>1. CASE UNCHANGED <<simStarted, backend, dev>>
  BY <1>1
<1>2. CASE \E q, n : /\ UNCHANGED <<simStarted, backend>>
                     /\ \/ dev' = [dev EXCEPT !.outgoing = q]
                        \/ dev' = [dev EXCEPT !.outgoing = q, !.dropped = n]
  BY <1>2 DEF TypeOK, Devices
<1>3. CASE PressStart \/ PressStop \/ SetInData \/ OnDataUpdated
           \/ CreateConnection \/ FramesWritten \/ FramesReceived
  BY <1>1, <1>3 DEF PressStart, PressStop, SetInData, OnDataUpdated,
                    CreateConnection, FramesWritten, FramesReceived
<1>4. CASE SendFrame
  BY <1>1, <1>2, <1>4 DEF SendFrame, SendQueued, SendDirect, SendRefused,
                          SendUninitialized
<1>5. CASE CannelloniTick \/ SerialBusTick
  BY <1>2, <1>5 DEF CannelloniTick, SerialBusTick, AfterWriting
<1>6. CASE UNCHANGED vars
  BY <1>1, <1>6 DEF vars
<1> QED BY <1>3, <1>4, <1>5, <1>6 DEF Next, Gui, HandleEvent, Tick

(* What ChangeProperties does to the device.                                 *)
LEMMA ChangeResult ==
  ASSUME TypeOK, ChangeProperties
  PROVE  /\ UNCHANGED simStarted
         /\ ~simStarted => dev' = dev \/ dev'.state = "unconnected"
         /\ ~MayFail /\ simStarted /\ dev'.initialized /\ backend' # Unset
              => dev'.state = "connected"
<1>1. PICK d \in AfterInit(dev, backend') :
        IF simStarted /\ d.initialized
        THEN dev' \in AfterStart(d, backend') /\ sendQueue' = <<>>
        ELSE dev' = d /\ UNCHANGED sendQueue
  BY DEF ChangeProperties
<1>2. dev \in Devices /\ (dev.initialized <=> dev.kind # "none")
      /\ backend' \in Backends \cup {Unset} /\ UNCHANGED simStarted
  BY DEF ChangeProperties, TypeOK
<1>3. /\ d \in Devices
      /\ d.initialized <=> d.kind # "none"
      /\ d = dev \/ d.state = "unconnected"
  BY <1>2, InitResult
<1>4. CASE ~simStarted
  BY <1>1, <1>2, <1>3, <1>4
<1>5. CASE simStarted /\ ~d.initialized
  BY <1>1, <1>2, <1>5
<1>6. CASE simStarted /\ d.initialized
  <2>1. dev' \in AfterStart(d, backend')
    BY <1>1, <1>6
  <2>2. ~MayFail /\ backend' # Unset => dev'.state = "connected"
    BY <1>2, <1>3, <1>6, <2>1, StartResult
  <2> QED BY <1>2, <1>6, <2>2
<1> QED BY <1>4, <1>5, <1>6

(* stopSimulation always gets through to the plugin's object, although       *)
(* configChanged makes and connects objects from the GUI thread: outside a   *)
(* simulation nothing is connected.                                          *)
THEOREM OnlyWhileStarted == Spec => []ConnectedOnlyWhileStarted
<1>1. Init => ConnectedOnlyWhileStarted
  BY DEF Init, NoDevice, ConnectedOnlyWhileStarted
<1>2. TypeOK /\ ConnectedOnlyWhileStarted /\ [Next]_vars
        => ConnectedOnlyWhileStarted'
  <2> SUFFICES ASSUME TypeOK, ConnectedOnlyWhileStarted, [Next]_vars
               PROVE  ConnectedOnlyWhileStarted'
    OBVIOUS
  <2>1. CASE StartSimulation
    BY <2>1 DEF StartSimulation, ConnectedOnlyWhileStarted
  <2>2. CASE StopSimulation
    BY <2>2, StopResult
       DEF StopSimulation, TypeOK, ConnectedOnlyWhileStarted
  <2>3. CASE ChangeProperties
    BY <2>3, ChangeResult DEF ConnectedOnlyWhileStarted
  <2>4. CASE ~StartSimulation /\ ~StopSimulation /\ ~ChangeProperties
    BY <2>4, SameConnection DEF ConnectedOnlyWhileStarted
  <2> QED BY <2>1, <2>2, <2>3, <2>4
<1> QED BY <1>1, <1>2, TypeCorrect, PTL DEF Spec

(* startSimulation's second attempt is enough: the plugins that stay in      *)
(* ClosingState are connected again by every start.                          *)
THEOREM ConnectedWhenStarted == Spec => []StartedMeansConnected
<1>1. Init => StartedMeansConnected
  BY DEF Init, StartedMeansConnected
<1>2. TypeOK /\ StartedMeansConnected /\ [Next]_vars
        => StartedMeansConnected'
  <2> SUFFICES ASSUME TypeOK, StartedMeansConnected, [Next]_vars,
                      ~MayFail, simStarted', dev'.initialized,
                      backend' # Unset
               PROVE  dev'.state = "connected"
    BY DEF StartedMeansConnected
  <2>1. CASE StartSimulation
    <3>1. /\ dev \in Devices
          /\ dev.initialized <=> dev.kind # "none"
          /\ backend \in Backends \cup {Unset}
          /\ backend' = backend
      BY <2>1 DEF StartSimulation, TypeOK
    <3>2. dev.initialized /\ dev' \in AfterStart(dev, backend)
      BY <2>1 DEF StartSimulation
    <3> QED BY <3>1, <3>2, StartResult
  <2>2. CASE StopSimulation
    BY <2>2 DEF StopSimulation
  <2>3. CASE ChangeProperties
    BY <2>3, ChangeResult
  <2>4. CASE ~StartSimulation /\ ~StopSimulation /\ ~ChangeProperties
    BY <2>4, SameConnection DEF StartedMeansConnected
  <2> QED BY <2>1, <2>2, <2>3, <2>4
<1> QED BY <1>1, <1>2, TypeCorrect, PTL DEF Spec

-----------------------------------------------------------------------------
(* Reports come in order                                                     *)

(* A frame is on its way to the device's thread, then in sendQueue, then     *)
(* reported; the three hold ever older frames, each in order, and the next   *)
(* frame to be fed gets the number after all of theirs.                      *)
IsSend(event) == event.what = "send"

Order(r, q, b, c) ==
  /\ \A i, j \in 1 .. Len(r) : i < j => r[i].frame < r[j].frame
  /\ \A i, j \in 1 .. Len(q) : i < j => q[i] < q[j]
  /\ \A i, j \in 1 .. Len(b) :
       i < j /\ IsSend(b[i]) /\ IsSend(b[j]) => b[i].frame < b[j].frame
  /\ \A i \in 1 .. Len(r), j \in 1 .. Len(q) : r[i].frame < q[j]
  /\ \A i \in 1 .. Len(r), j \in 1 .. Len(b) :
       IsSend(b[j]) => r[i].frame < b[j].frame
  /\ \A i \in 1 .. Len(q), j \in 1 .. Len(b) :
       IsSend(b[j]) => q[i] < b[j].frame
  /\ \A i \in 1 .. Len(r) : r[i].frame <= c
  /\ \A i \in 1 .. Len(q) : q[i] <= c
  /\ \A i \in 1 .. Len(b) : IsSend(b[i]) => b[i].frame <= c

OrderInv == Order(reported, sendQueue, inbox, count["sends"])

LEMMA OrderTake ==
  ASSUME NEW r \in Seq(Reports), NEW q \in Seq(Frames), NEW b \in Seq(Events),
         NEW c \in Nat, Order(r, q, b, c), b # <<>>
  PROVE  Order(r, q, Tail(b), c)
<1> DEFINE t == Tail(b)
<1>1. /\ Len(t) = Len(b) - 1 /\ Len(b) \in Nat /\ Len(b) > 0
      /\ \A i \in 1 .. Len(t) : t[i] = b[i + 1]
  BY HeadTailProperties, LenProperties, EmptySeq
<1> HIDE DEF t
<1>2. ASSUME NEW i \in 1 .. Len(t)
      PROVE  i + 1 \in 1 .. Len(b) /\ t[i] = b[i + 1]
  BY <1>1
<1>3. \A i, j \in 1 .. Len(t) :
        i < j /\ IsSend(t[i]) /\ IsSend(t[j]) => t[i].frame < t[j].frame
  <2> SUFFICES ASSUME NEW i \in 1 .. Len(t), NEW j \in 1 .. Len(t), i < j,
                      IsSend(t[i]), IsSend(t[j])
               PROVE  t[i].frame < t[j].frame
    OBVIOUS
  <2>1. /\ i + 1 \in 1 .. Len(b) /\ t[i] = b[i + 1]
        /\ j + 1 \in 1 .. Len(b) /\ t[j] = b[j + 1]
    BY <1>2
  <2>2. i + 1 < j + 1
    BY <1>1
  <2> QED BY <2>1, <2>2 DEF Order
<1>4. /\ \A i \in 1 .. Len(r), j \in 1 .. Len(t) :
           IsSend(t[j]) => r[i].frame < t[j].frame
      /\ \A i \in 1 .. Len(q), j \in 1 .. Len(t) :
           IsSend(t[j]) => q[i] < t[j].frame
      /\ \A i \in 1 .. Len(t) : IsSend(t[i]) => t[i].frame <= c
  BY <1>2 DEF Order
<1> QED BY <1>3, <1>4 DEF Order, t

LEMMA OrderClear ==
  ASSUME NEW r, NEW q, NEW b, NEW c, Order(r, q, b, c)
  PROVE  Order(r, <<>>, b, c)
  BY EmptySeq DEF Order

(* The event at the front moves to the end of sendQueue.                     *)
LEMMA OrderQueue ==
  ASSUME NEW r \in Seq(Reports), NEW q \in Seq(Frames), NEW b \in Seq(Events),
         NEW c \in Nat, Order(r, q, b, c), b # <<>>, IsSend(Head(b))
  PROVE  Order(r, Append(q, Head(b).frame), Tail(b), c)
<1> DEFINE f == Head(b).frame
           q2 == Append(q, f)
<1>1. /\ Len(Tail(b)) = Len(b) - 1
      /\ \A i \in 1 .. Len(Tail(b)) : Tail(b)[i] = b[i + 1]
      /\ Len(b) \in Nat /\ Len(b) > 0
      /\ Head(b) = b[1] /\ Head(b) \in Events
  BY HeadTailProperties, LenProperties, EmptySeq
<1>2. f \in Frames
  BY <1>1 DEF Events, IsSend
<1>3. /\ Len(q2) = Len(q) + 1 /\ Len(q) \in Nat
      /\ \A i \in 1 .. Len(q) : q2[i] = q[i]
      /\ q2[Len(q) + 1] = f
  BY <1>2, AppendProperties, LenProperties
<1>4. /\ \A i \in 1 .. Len(q) : q[i] < f
      /\ \A i \in 1 .. Len(r) : r[i].frame < f
      /\ \A j \in 1 .. Len(Tail(b)) :
           IsSend(Tail(b)[j]) => f < Tail(b)[j].frame
      /\ f <= c
  BY <1>1 DEF Order
<1>5. Order(r, q, Tail(b), c)
  BY <1>1, OrderTake
<1> HIDE DEF f, q2
<1>6. \A i \in 1 .. Len(q2) : i \in 1 .. Len(q) \/ i = Len(q) + 1
  BY <1>3
<1>7. ASSUME NEW i \in 1 .. Len(q2), NEW j \in 1 .. Len(q2), i < j
      PROVE  q2[i] < q2[j]
  <2>1. i \in 1 .. Len(q) /\ q2[i] = q[i]
    BY <1>3, <1>7
  <2>2. CASE j \in 1 .. Len(q)
    <3>1. q2[j] = q[j] /\ q[i] < q[j]
      BY <1>3, <1>7, <2>1, <2>2 DEF Order
    <3> QED BY <2>1, <3>1
  <2>3. CASE j = Len(q) + 1
    BY <1>3, <1>4, <2>1, <2>3
  <2> QED BY <1>6, <2>2, <2>3
<1> QED BY <1>3, <1>4, <1>5, <1>6, <1>7 DEF Order, f, q2

(* The frame at the front of sendQueue is reported.                          *)
LEMMA OrderReport ==
  ASSUME NEW r \in Seq(Reports), NEW q \in Seq(Frames), NEW b \in Seq(Events),
         NEW c \in Nat, Order(r, q, b, c), q # <<>>, NEW ok \in BOOLEAN
  PROVE  Order(Append(r, [frame |-> Head(q), ok |-> ok]), Tail(q), b, c)
<1> DEFINE f == Head(q)
           t == Tail(q)
           r2 == Append(r, [frame |-> f, ok |-> ok])
<1>1. /\ Len(t) = Len(q) - 1
      /\ \A i \in 1 .. Len(t) : t[i] = q[i + 1]
      /\ Len(q) \in Nat /\ Len(q) > 0
      /\ f = q[1] /\ f \in Frames
  BY HeadTailProperties, LenProperties, EmptySeq
<1>2. [frame |-> f, ok |-> ok] \in Reports
  BY <1>1 DEF Reports
<1>3. /\ Len(r2) = Len(r) + 1 /\ Len(r) \in Nat
      /\ \A i \in 1 .. Len(r) : r2[i] = r[i]
      /\ r2[Len(r) + 1] = [frame |-> f, ok |-> ok]
  BY <1>2, AppendProperties, LenProperties
<1>4. r2[Len(r) + 1].frame = f
  BY <1>3
<1>5. /\ \A i \in 1 .. Len(t) : f < t[i]
      /\ \A i \in 1 .. Len(r) : r[i].frame < f
      /\ \A j \in 1 .. Len(b) : IsSend(b[j]) => f < b[j].frame
      /\ f <= c
  BY <1>1 DEF Order
<1>6. Order(r, t, b, c)
  BY <1>1 DEF Order
<1> HIDE DEF f, t, r2
<1>7. \A i \in 1 .. Len(r2) : i \in 1 .. Len(r) \/ i = Len(r) + 1
  BY <1>3
<1>8. ASSUME NEW i \in 1 .. Len(r2), NEW j \in 1 .. Len(r2), i < j
      PROVE  r2[i].frame < r2[j].frame
  <2>1. i \in 1 .. Len(r) /\ r2[i] = r[i]
    BY <1>3, <1>8
  <2>2. CASE j \in 1 .. Len(r)
    <3>1. r2[j] = r[j] /\ r[i].frame < r[j].frame
      BY <1>3, <1>8, <2>1, <2>2 DEF Order
    <3> QED BY <2>1, <3>1
  <2>3. CASE j = Len(r) + 1
    BY <1>3, <1>4, <1>5, <2>1, <2>3
  <2> QED BY <1>7, <2>2, <2>3
<1> QED BY <1>3, <1>4, <1>5, <1>6, <1>7, <1>8 DEF Order, f, t, r2

(* An event is posted: a start or a stop, or the next frame.                 *)
LEMMA OrderPost ==
  ASSUME NEW r \in Seq(Reports), NEW q \in Seq(Frames), NEW b \in Seq(Events),
         NEW c \in Nat, NEW d \in Nat, c <= d, Order(r, q, b, c),
         NEW e \in Events, IsSend(e) => e.frame = c + 1 /\ d = c + 1
  PROVE  Order(r, q, Append(b, e), d)
<1> DEFINE b2 == Append(b, e)
<1>1. /\ Len(b2) = Len(b) + 1 /\ Len(b) \in Nat
      /\ \A i \in 1 .. Len(b) : b2[i] = b[i]
      /\ b2[Len(b) + 1] = e
  BY AppendProperties, LenProperties
<1>2. ASSUME NEW i \in 1 .. Len(r) PROVE r[i].frame \in Nat
  <2>1. r[i] \in Reports
    BY ElementOfSeq
  <2> QED BY <2>1 DEF Reports, Frames
<1>3. ASSUME NEW i \in 1 .. Len(q) PROVE q[i] \in Nat
  <2>1. q[i] \in Frames
    BY ElementOfSeq
  <2> QED BY <2>1 DEF Frames
<1>4. ASSUME NEW i \in 1 .. Len(b) PROVE b[i].frame \in Nat
  <2>1. b[i] \in Events
    BY ElementOfSeq
  <2> QED BY <2>1 DEF Events, Frames
<1> HIDE DEF b2
<1>5. \A i \in 1 .. Len(b2) : i \in 1 .. Len(b) \/ i = Len(b) + 1
  BY <1>1
<1>6. ASSUME NEW i \in 1 .. Len(b2), NEW j \in 1 .. Len(b2), i < j,
             IsSend(b2[i]), IsSend(b2[j])
      PROVE  b2[i].frame < b2[j].frame
  <2>1. i \in 1 .. Len(b) /\ b2[i] = b[i]
    BY <1>1, <1>6
  <2>2. CASE j \in 1 .. Len(b)
    <3>1. b2[j] = b[j] /\ b[i].frame < b[j].frame
      BY <1>1, <1>6, <2>1, <2>2 DEF Order
    <3> QED BY <2>1, <3>1
  <2>3. CASE j = Len(b) + 1
    <3>1. b[i].frame <= c
      BY <1>6, <2>1 DEF Order
    <3> QED BY <1>1, <1>4, <1>6, <2>1, <2>3, <3>1
  <2> QED BY <1>5, <2>2, <2>3
<1>7. /\ \A i \in 1 .. Len(r), j \in 1 .. Len(b2) :
           IsSend(b2[j]) => r[i].frame < b2[j].frame
      /\ \A i \in 1 .. Len(r) : r[i].frame <= d
  <2>1. ASSUME NEW i \in 1 .. Len(r) PROVE r[i].frame <= c
    BY DEF Order
  <2>2. ASSUME NEW i \in 1 .. Len(r), NEW j \in 1 .. Len(b2), IsSend(b2[j])
        PROVE  r[i].frame < b2[j].frame
    <3>1. CASE j \in 1 .. Len(b)
      BY <1>1, <2>2, <3>1 DEF Order
    <3>2. CASE j = Len(b) + 1
      BY <1>1, <1>2, <2>1, <2>2, <3>2
    <3> QED BY <1>5, <3>1, <3>2
  <2> QED BY <1>2, <2>1, <2>2
<1>8. /\ \A i \in 1 .. Len(q), j \in 1 .. Len(b2) :
           IsSend(b2[j]) => q[i] < b2[j].frame
      /\ \A i \in 1 .. Len(q) : q[i] <= d
  <2>1. ASSUME NEW i \in 1 .. Len(q) PROVE q[i] <= c
    BY DEF Order
  <2>2. ASSUME NEW i \in 1 .. Len(q), NEW j \in 1 .. Len(b2), IsSend(b2[j])
        PROVE  q[i] < b2[j].frame
    <3>1. CASE j \in 1 .. Len(b)
      BY <1>1, <2>2, <3>1 DEF Order
    <3>2. CASE j = Len(b) + 1
      BY <1>1, <1>3, <2>1, <2>2, <3>2
    <3> QED BY <1>5, <3>1, <3>2
  <2> QED BY <1>3, <2>1, <2>2
<1>9. \A i \in 1 .. Len(b2) : IsSend(b2[i]) => b2[i].frame <= d
  BY <1>1, <1>4, <1>5 DEF Order
<1> QED BY <1>6, <1>7, <1>8, <1>9 DEF Order, b2

LEMMA OrderStep == TypeOK /\ OrderInv /\ [Next]_vars => OrderInv'
<1> SUFFICES ASSUME TypeOK, OrderInv, [Next]_vars PROVE OrderInv'
  OBVIOUS
<1> DEFINE c == count["sends"]
<1>1. /\ reported \in Seq(Reports) /\ sendQueue \in Seq(Frames)
      /\ inbox \in Seq(Events) /\ count \in Counts /\ c \in Nat
  BY DEF TypeOK, Counts
<1>2. Order(reported, sendQueue, inbox, c)
  BY DEF OrderInv
<1>3. CASE UNCHANGED <<reported, sendQueue, inbox, count>>
  BY <1>2, <1>3 DEF OrderInv
<1>4. ASSUME NEW f \in {"receives", "starts", "configs", "connects"},
             NEW max, Bump(f, max)
      PROVE  UNCHANGED c
  BY <1>1, <1>4 DEF Bump, Counts
<1>5. CASE /\ \E e \in Events : ~IsSend(e) /\ inbox' = Append(inbox, e)
           /\ UNCHANGED <<reported, sendQueue, c>>
  BY <1>1, <1>2, <1>5, OrderPost DEF OrderInv
<1>6. CASE PressStart
  <2>1. /\ inbox' = Append(inbox, [what |-> "start", frame |-> 0])
        /\ UNCHANGED <<reported, sendQueue, c>>
    BY <1>4, <1>6 DEF PressStart, Post
  <2>2. /\ [what |-> "start", frame |-> 0] \in Events
        /\ ~IsSend([what |-> "start", frame |-> 0])
    BY DEF Events, IsSend
  <2> QED BY <1>5, <2>1, <2>2
<1>7. CASE PressStop
  <2>1. /\ inbox' = Append(inbox, [what |-> "stop", frame |-> 0])
        /\ UNCHANGED <<reported, sendQueue, c>>
    BY <1>7 DEF PressStop, Post
  <2>2. /\ [what |-> "stop", frame |-> 0] \in Events
        /\ ~IsSend([what |-> "stop", frame |-> 0])
    BY DEF Events, IsSend
  <2> QED BY <1>5, <2>1, <2>2
<1>8. CASE SetInData
  <2> DEFINE e == [what |-> "send", frame |-> c + 1]
  <2>1. c' = c + 1 /\ c < MaxSends
    BY <1>1, <1>8 DEF SetInData, Bump, Counts
  <2>2. e \in Events /\ e.frame = c + 1
    BY <1>1, <2>1 DEF Events, Frames
  <2>3. inbox' = Append(inbox, e) /\ UNCHANGED <<reported, sendQueue>>
    BY <1>8 DEF SetInData, Post
  <2> HIDE DEF e, c
  <2>4. Order(reported, sendQueue, Append(inbox, e), c + 1)
    BY <1>1, <1>2, <2>2, OrderPost
  <2> QED BY <2>1, <2>3, <2>4 DEF OrderInv, c
<1>9. CASE ChangeProperties
  <2>1. UNCHANGED <<reported, inbox, c>>
        /\ (sendQueue' = sendQueue \/ sendQueue' = <<>>)
    BY <1>4, <1>9 DEF ChangeProperties
  <2> QED BY <1>2, <2>1, OrderClear DEF OrderInv
<1>10. CASE OnDataUpdated \/ CannelloniTick \/ SerialBusTick
  BY <1>3, <1>10 DEF OnDataUpdated, CannelloniTick, SerialBusTick
<1>11. CASE CreateConnection \/ FramesReceived
  <2>1. UNCHANGED <<reported, sendQueue, inbox, c>>
    BY <1>4, <1>11 DEF CreateConnection, FramesReceived
  <2> QED BY <1>2, <2>1 DEF OrderInv
<1>12. CASE StartSimulation
  <2>1. /\ inbox # <<>> /\ inbox' = Tail(inbox)
        /\ UNCHANGED <<reported, c>>
        /\ sendQueue' = sendQueue \/ sendQueue' = <<>>
    BY <1>12 DEF StartSimulation, Take
  <2>2. Order(reported, sendQueue, Tail(inbox), c)
    BY <1>1, <1>2, <2>1, OrderTake
  <2> QED BY <2>1, <2>2, OrderClear DEF OrderInv
<1>13. CASE StopSimulation
  <2>1. /\ inbox # <<>> /\ inbox' = Tail(inbox)
        /\ UNCHANGED <<reported, sendQueue, c>>
    BY <1>13 DEF StopSimulation, Take
  <2>2. Order(reported, sendQueue, Tail(inbox), c)
    BY <1>1, <1>2, <2>1, OrderTake
  <2> QED BY <2>1, <2>2 DEF OrderInv
<1>14. CASE SendFrame
  <2> DEFINE frame == Head(inbox).frame
             queue == Append(sendQueue, frame)
  <2>1. /\ inbox # <<>> /\ inbox' = Tail(inbox)
        /\ IsSend(Head(inbox))
        /\ UNCHANGED c
    BY <1>14 DEF SendFrame, Take, IsSend
  <2>2. Order(reported, sendQueue, Tail(inbox), c)
    BY <1>1, <1>2, <2>1, OrderTake
  <2>3. Order(reported, queue, Tail(inbox), c)
    BY <1>1, <1>2, <2>1, OrderQueue
  <2>4. CASE SendQueued(frame) \/ SendRefused(frame)
    BY <2>1, <2>3, <2>4 DEF SendQueued, SendRefused, OrderInv
  <2>5. CASE SendDirect(frame)
    <3>1. PICK ok \in BOOLEAN :
            /\ reported' = Append(reported, [frame |-> Head(queue),
                                             ok |-> ok])
            /\ sendQueue' = Tail(queue)
      BY <2>5 DEF SendDirect
    <3>2. Head(inbox) \in Events /\ Tail(inbox) \in Seq(Events)
      BY <1>1, <2>1, HeadTailProperties
    <3>3. frame \in Frames
      BY <2>1, <3>2 DEF Events, IsSend
    <3>4. queue \in Seq(Frames) /\ queue # <<>>
      BY <1>1, <3>3, AppendProperties
    <3> HIDE DEF queue, frame, c
    <3>5. Order(Append(reported, [frame |-> Head(queue), ok |-> ok]),
                Tail(queue), Tail(inbox), c)
      BY <1>1, <2>3, <3>2, <3>4, OrderReport
    <3> QED BY <2>1, <3>1, <3>5 DEF OrderInv, c
  <2>6. CASE SendUninitialized
    BY <2>1, <2>2, <2>6 DEF SendUninitialized, OrderInv
  <2> QED BY <1>14, <2>4, <2>5, <2>6 DEF SendFrame
<1>15. CASE FramesWritten
  <2>1. CASE sendQueue = <<>>
    BY <1>3, <1>15, <2>1 DEF FramesWritten
  <2>2. CASE sendQueue # <<>>
    <3>1. /\ reported' = Append(reported, [frame |-> Head(sendQueue),
                                           ok |-> TRUE])
          /\ sendQueue' = Tail(sendQueue)
          /\ UNCHANGED <<inbox, c>>
      BY <1>15, <2>2 DEF FramesWritten
    <3>2. Order(Append(reported, [frame |-> Head(sendQueue), ok |-> TRUE]),
                Tail(sendQueue), inbox, c)
      BY <1>1, <1>2, <2>2, OrderReport
    <3> QED BY <3>1, <3>2 DEF OrderInv
  <2> QED BY <2>1, <2>2
<1>16. CASE UNCHANGED vars
  BY <1>3, <1>16 DEF vars
<1> QED BY <1>6, <1>7, <1>8, <1>9, <1>10, <1>11, <1>12, <1>13, <1>14, <1>15,
           <1>16 DEF Next, Gui, HandleEvent, Tick

(* frameSent signals come in the order in which frames were fed to the node, *)
(* none twice, over any number of starts, stops and changes of the plugin.   *)
THEOREM ReportsInOrder == Spec => []InOrder
<1>1. Init => OrderInv
  BY EmptySeq DEF Init, OrderInv, Order
<1>2. TypeOK /\ OrderInv => InOrder
  <2> SUFFICES ASSUME TypeOK, OrderInv PROVE InOrder
    OBVIOUS
  <2>1. DOMAIN reported = 1 .. Len(reported)
    BY LenProperties DEF TypeOK
  <2> QED BY <2>1 DEF OrderInv, Order, InOrder
<1> QED BY <1>1, <1>2, OrderStep, TypeCorrect, PTL DEF Spec

-----------------------------------------------------------------------------
(* What a sequence holds                                                     *)

Holds(s, x) == \E i \in 1 .. Len(s) : s[i] = x

LEMMA HoldsAppend ==
  ASSUME NEW S, NEW s \in Seq(S), NEW e \in S, NEW x
  PROVE  Holds(Append(s, e), x) <=> Holds(s, x) \/ x = e
<1> DEFINE t == Append(s, e)
<1>1. /\ Len(t) = Len(s) + 1 /\ Len(s) \in Nat
      /\ \A i \in 1 .. Len(s) : t[i] = s[i]
      /\ t[Len(s) + 1] = e
  BY AppendProperties, LenProperties
<1> HIDE DEF t
<1>2. \A i \in 1 .. Len(t) : i \in 1 .. Len(s) \/ i = Len(s) + 1
  BY <1>1
<1>3. 1 .. Len(s) \subseteq 1 .. Len(t) /\ Len(s) + 1 \in 1 .. Len(t)
  BY <1>1
<1> QED BY <1>1, <1>2, <1>3 DEF Holds, t

LEMMA HoldsTail ==
  ASSUME NEW S, NEW s \in Seq(S), s # <<>>, NEW x
  PROVE  Holds(s, x) <=> Holds(Tail(s), x) \/ x = Head(s)
<1> DEFINE t == Tail(s)
<1>1. /\ Len(t) = Len(s) - 1 /\ Len(s) \in Nat /\ Len(s) > 0
      /\ \A i \in 1 .. Len(t) : t[i] = s[i + 1]
      /\ Head(s) = s[1]
  BY HeadTailProperties, LenProperties, EmptySeq
<1> HIDE DEF t
<1>2. ASSUME NEW i \in 1 .. Len(s) PROVE i = 1 \/ i - 1 \in 1 .. Len(t)
  BY <1>1
<1>3. ASSUME NEW i \in 1 .. Len(s), s[i] = x
      PROVE  Holds(t, x) \/ x = Head(s)
  <2>1. CASE i = 1
    BY <1>1, <1>3, <2>1
  <2>2. CASE i - 1 \in 1 .. Len(t)
    <3>1. t[i - 1] = s[i]
      BY <1>1, <2>2
    <3> QED BY <1>3, <2>2, <3>1 DEF Holds
  <2> QED BY <1>2, <2>1, <2>2
<1>4. ASSUME NEW i \in 1 .. Len(t) PROVE i + 1 \in 1 .. Len(s)
  BY <1>1
<1>5. 1 \in 1 .. Len(s)
  BY <1>1
<1> QED BY <1>1, <1>3, <1>4, <1>5 DEF Holds, t

LEMMA HoldsConcat ==
  ASSUME NEW S, NEW s \in Seq(S), NEW t \in Seq(S), NEW x
  PROVE  Holds(s \o t, x) <=> Holds(s, x) \/ Holds(t, x)
<1> DEFINE u == s \o t
<1>1. /\ Len(u) = Len(s) + Len(t) /\ Len(s) \in Nat /\ Len(t) \in Nat
      /\ \A i \in 1 .. Len(u) :
           u[i] = IF i <= Len(s) THEN s[i] ELSE t[i - Len(s)]
  BY ConcatProperties, LenProperties
<1> HIDE DEF u
<1>2. ASSUME NEW i \in 1 .. Len(u)
      PROVE  \/ i \in 1 .. Len(s) /\ u[i] = s[i]
             \/ i - Len(s) \in 1 .. Len(t) /\ u[i] = t[i - Len(s)]
  BY <1>1
<1>3. ASSUME NEW i \in 1 .. Len(s) PROVE i \in 1 .. Len(u) /\ u[i] = s[i]
  BY <1>1
<1>4. ASSUME NEW i \in 1 .. Len(t)
      PROVE  i + Len(s) \in 1 .. Len(u) /\ u[i + Len(s)] = t[i]
  <2>1. i + Len(s) \in 1 .. Len(u) /\ ~(i + Len(s) <= Len(s))
    BY <1>1
  <2>2. (i + Len(s)) - Len(s) = i
    BY <1>1
  <2> QED BY <1>1, <2>1, <2>2
<1>5. Holds(u, x) => Holds(s, x) \/ Holds(t, x)
  BY <1>2 DEF Holds
<1>6. Holds(s, x) => Holds(u, x)
  BY <1>3 DEF Holds
<1>7. Holds(t, x) => Holds(u, x)
  BY <1>4 DEF Holds
<1> QED BY <1>5, <1>6, <1>7 DEF u

LEMMA HoldsNothing == ASSUME NEW s, Len(s) = 0, NEW x PROVE ~Holds(s, x)
  BY DEF Holds

-----------------------------------------------------------------------------
(* Reports are true                                                          *)

Report(f, ok) == [frame |-> f, ok |-> ok]

(* As long as the plugin's object has dropped nothing, what waits for its    *)
(* report in a connected device is what the plugin will write next, or has   *)
(* just written.                                                             *)
NothingWaits ==
  dev.state = "connected" /\ dev.kind = "direct" => Len(sendQueue) = 0
WaitingIsOutgoing ==
  dev.state = "connected" /\ dev.kind = "cannelloni" /\ toReport = 0
      /\ dev.dropped = 0 =>
    /\ Len(sendQueue) <= Len(dev.outgoing)
    /\ \A f \in Frames : Holds(sendQueue, f) => Holds(dev.outgoing, f)
WrittenWaits ==
  /\ Len(dev.outgoing) = 0
  /\ Len(sendQueue) <= toReport
  /\ \A f \in Frames : Holds(sendQueue, f) => Holds(written, Report(f, TRUE))
WaitingIsWritten ==
  toReport > 0 => /\ dev.state = "connected" /\ dev.kind = "cannelloni"
                  /\ dev.dropped = 0 => WrittenWaits

TruthInv == NothingWaits /\ WaitingIsOutgoing /\ WaitingIsWritten

(* A report that was written is true.                                        *)
LEMMA LastIsHeld ==
  ASSUME NEW report \in Reports, reported \in Seq(Reports),
         reported' = Append(reported, report),
         written' \in Seq(Reports), Holds(written', report)
  PROVE  LastReportTrue
<1>1. reported'[Len(reported')] = report
  BY AppendProperties
<1>2. DOMAIN written' = 1 .. Len(written')
  BY LenProperties
<1> QED BY <1>1, <1>2 DEF Holds, LastReportTrue

(* A tick of Cannelloni that drops nothing writes the whole queue.           *)
LEMMA CannelloniWrites ==
  ASSUME TypeOK, CannelloniTick, dev'.dropped = 0
  PROVE  /\ dev.dropped = 0
         /\ toReport' = Len(dev.outgoing)
         /\ Len(dev'.outgoing) = 0
         /\ \A f \in Frames : Holds(dev.outgoing, f)
              => Holds(written', Report(f, TRUE))
<1> DEFINE q == dev.outgoing
<1>1. /\ q \in Seq(Frames) /\ Len(q) \in Nat /\ written \in Seq(Reports)
      /\ dev.dropped \in Nat
  BY LenProperties DEF TypeOK, Devices
<1>2. PICK n \in 0 .. Min(Len(q), MaxBatch) :
        WriteAll(n) /\ dev' = AfterWriting(n) /\ toReport' = n
  BY DEF CannelloniTick
<1>3. n \in Nat /\ n <= Len(q)
  BY <1>1, <1>2 DEF Min
<1> DEFINE batch == [i \in 1 .. n |-> Report(q[i], TRUE)]
<1>4. written' = written \o batch
  BY <1>2 DEF WriteAll, Report
<1>5. /\ dev'.outgoing = Drop(q, n + 1)
      /\ dev'.dropped = dev.dropped + (IF Len(q) > n THEN 1 ELSE 0)
  BY <1>2 DEF AfterWriting, TypeOK, Devices
<1>6. n = Len(q) /\ dev.dropped = 0
  BY <1>1, <1>3, <1>5
<1>7. batch \in [1 .. n -> Reports]
  <2>1. \A i \in 1 .. n : q[i] \in Frames
    BY <1>1, <1>6, ElementOfSeq
  <2> QED BY <2>1 DEF Reports, Report
<1>8. \A i \in 1 .. n : batch[i] = Report(q[i], TRUE)
  OBVIOUS
<1>9. Len(Drop(q, n + 1)) = 0
  <2>1. SubSeq(q, n + 2, Len(q)) = <<>>
    BY <1>1, <1>6, SubSeqEmpty
  <2> QED BY <1>1, <1>6, <2>1, EmptySeq DEF Drop
<1> HIDE DEF batch
<1>10. batch \in Seq(Reports) /\ Len(batch) = n
  BY <1>3, <1>7, FunctionIsSeq
<1>11. ASSUME NEW f \in Frames, Holds(q, f)
       PROVE  Holds(written', Report(f, TRUE))
  <2>1. PICK i \in 1 .. Len(q) : q[i] = f
    BY <1>11 DEF Holds
  <2>2. batch[i] = Report(f, TRUE) /\ i \in 1 .. Len(batch)
    BY <1>6, <1>8, <1>10, <2>1
  <2>3. Holds(batch, Report(f, TRUE))
    BY <2>2 DEF Holds
  <2> QED BY <1>1, <1>4, <1>10, <2>3, HoldsConcat
<1> QED BY <1>2, <1>5, <1>6, <1>9, <1>11

(* A plugin that writes at once reports the frame it wrote.                  *)
LEMMA DirectWrites ==
  ASSUME TypeOK, TruthInv, NEW frame \in Frames, SendDirect(frame)
  PROVE  Len(sendQueue') = 0 /\ LastReportTrue
<1> DEFINE queue == Append(sendQueue, frame)
<1>1. PICK ok \in BOOLEAN :
        /\ written' = Append(written, Report(frame, ok))
        /\ reported' = Append(reported, Report(Head(queue), ok))
        /\ sendQueue' = Tail(queue)
  BY DEF SendDirect, Report
<1>2. sendQueue = <<>>
  <2>1. Len(sendQueue) = 0 /\ sendQueue \in Seq(Frames)
    BY DEF TruthInv, NothingWaits, SendDirect, TypeOK
  <2> QED BY <2>1, EmptySeq
<1>3. Head(queue) = frame /\ Tail(queue) = <<>>
  BY <1>2, HeadTailAppend DEF TypeOK
<1> DEFINE report == Report(frame, ok)
<1>4. report \in Reports
  BY DEF Report, Reports
<1>5. written \in Seq(Reports) /\ reported \in Seq(Reports)
  BY DEF TypeOK
<1>6. /\ written' = Append(written, report)
      /\ reported' = Append(reported, report)
  BY <1>1, <1>3
<1> HIDE DEF report
<1>7. Holds(written', report)
  BY <1>4, <1>5, <1>6, HoldsAppend
<1>8. LastReportTrue
  <2>1. written' \in Seq(Reports)
    BY <1>4, <1>5, <1>6, AppendProperties
  <2> QED BY <1>4, <1>5, <1>6, <1>7, <2>1, LastIsHeld
<1>9. Len(sendQueue') = 0
  BY <1>1, <1>3, EmptySeq
<1> QED BY <1>8, <1>9

(* framesWritten reports frames that were written.                           *)
LEMMA WrittenReported ==
  ASSUME TypeOK, TruthInv, FramesWritten, dev.dropped = 0, sendQueue # <<>>
  PROVE  LastReportTrue
<1> DEFINE f == Head(sendQueue)
           report == Report(f, TRUE)
<1>1. /\ reported' = Append(reported, report)
      /\ toReport > 0 /\ written' = written
  BY DEF FramesWritten, Report
<1>2. /\ sendQueue \in Seq(Frames) /\ f \in Frames
      /\ written \in Seq(Reports) /\ reported \in Seq(Reports)
  BY HeadTailProperties DEF TypeOK
<1>3. report \in Reports
  BY <1>2 DEF Report, Reports
<1>4. Holds(sendQueue, f)
  BY <1>2, HoldsTail
<1>5. Holds(written', report)
  BY <1>1, <1>2, <1>4 DEF TruthInv, WaitingIsWritten, WrittenWaits
<1> HIDE DEF report, f
<1>6. written' \in Seq(Reports)
  BY <1>1, <1>2
<1> QED BY <1>1, <1>2, <1>3, <1>5, <1>6, LastIsHeld

LEMMA TruthStep == TypeOK /\ TypeOK' /\ TruthInv /\ [Next]_vars => TruthInv'
<1> SUFFICES ASSUME TypeOK, TypeOK', TruthInv, [Next]_vars PROVE TruthInv'
  OBVIOUS
<1> USE DEF TruthInv
<1>1. /\ sendQueue \in Seq(Frames) /\ sendQueue' \in Seq(Frames)
      /\ dev.outgoing \in Seq(Frames) /\ dev'.outgoing \in Seq(Frames)
      /\ Len(dev.outgoing) \in Nat /\ Len(dev'.outgoing) \in Nat
      /\ Len(sendQueue) \in Nat
      /\ written \in Seq(Reports)
      /\ toReport \in Nat
  BY LenProperties DEF TypeOK, Devices
<1>2. CASE UNCHANGED <<dev, sendQueue, toReport, written>>
  BY <1>2 DEF NothingWaits, WaitingIsOutgoing, WaitingIsWritten, WrittenWaits
(* The simulation starts, stops or gets another plugin.                      *)
<1>3. CASE /\ UNCHANGED toReport /\ toReport = 0
           /\ sendQueue' = <<>> \/ dev'.state # "connected"
  <2>1. sendQueue' = <<>> => /\ Len(sendQueue') = 0
                             /\ \A f \in Frames : ~Holds(sendQueue', f)
    BY EmptySeq, HoldsNothing
  <2> QED BY <1>1, <1>3, <2>1 DEF NothingWaits, WaitingIsOutgoing,
             WaitingIsWritten
<1>4. CASE StartSimulation
  BY <1>2, <1>3, <1>4 DEF StartSimulation, Take
<1>5. CASE StopSimulation
  <2>1. dev'.state # "connected"
    BY <1>5, StopResult DEF StopSimulation, TypeOK
  <2> QED BY <1>3, <1>5, <2>1 DEF StopSimulation, Take
<1>6. CASE ChangeProperties
  <2>1. PICK d \in AfterInit(dev, backend') :
          IF simStarted /\ d.initialized
          THEN dev' \in AfterStart(d, backend') /\ sendQueue' = <<>>
          ELSE dev' = d /\ UNCHANGED sendQueue
    BY <1>6 DEF ChangeProperties
  <2>2. d = dev \/ d.state = "unconnected"
    <3>1. /\ dev \in Devices /\ (dev.initialized <=> dev.kind # "none")
          /\ backend' \in Backends \cup {Unset}
      BY <1>6 DEF ChangeProperties, TypeOK
    <3> QED BY <3>1, InitResult
  <2> QED BY <1>2, <1>3, <1>6, <2>1, <2>2 DEF ChangeProperties
<1>7. CASE SendFrame
  <2> DEFINE frame == Head(inbox).frame
  <2>1. frame \in Frames
    <3>1. Head(inbox) \in Events /\ Head(inbox).what = "send"
      BY <1>7, HeadTailProperties DEF SendFrame, Take, TypeOK
    <3> QED BY <3>1 DEF Events
  <2>2. toReport = 0 /\ UNCHANGED toReport
    BY <1>7 DEF SendFrame, Take
  <2> HIDE DEF frame
  <2>3. CASE SendQueued(frame)
    <3>1. /\ sendQueue' = Append(sendQueue, frame)
          /\ dev'.outgoing = Append(dev.outgoing, frame)
          /\ dev'.state = dev.state /\ dev'.kind = dev.kind
          /\ dev'.dropped = dev.dropped
          /\ dev.kind # "direct"
      BY <2>3 DEF SendQueued, TypeOK, Devices
    <3>2. /\ Len(sendQueue') = Len(sendQueue) + 1
          /\ Len(dev'.outgoing) = Len(dev.outgoing) + 1
      BY <1>1, <2>1, <3>1, AppendProperties
    <3>3. ASSUME NEW f \in Frames
          PROVE  /\ Holds(sendQueue', f) <=> Holds(sendQueue, f) \/ f = frame
                 /\ Holds(dev'.outgoing, f)
                      <=> Holds(dev.outgoing, f) \/ f = frame
      BY <1>1, <2>1, <3>1, HoldsAppend
    <3>4. WaitingIsOutgoing'
      BY <1>1, <2>2, <3>1, <3>2, <3>3 DEF WaitingIsOutgoing
    <3> QED BY <2>2, <3>1, <3>4 DEF NothingWaits, WaitingIsWritten
  <2>4. CASE SendDirect(frame)
    <3>1. Len(sendQueue') = 0
      BY <2>1, <2>4, DirectWrites
    <3>2. dev'.kind = "direct"
      BY <2>4 DEF SendDirect
    <3> QED BY <2>2, <3>1, <3>2 DEF NothingWaits, WaitingIsOutgoing,
               WaitingIsWritten
  <2>5. CASE SendRefused(frame)
    <3>1. dev'.state # "connected"
      BY <2>5 DEF SendRefused
    <3> QED BY <1>3, <2>2, <3>1
  <2>6. CASE SendUninitialized
    BY <1>2, <2>2, <2>6 DEF SendUninitialized
  <2> QED BY <1>7, <2>3, <2>4, <2>5, <2>6 DEF SendFrame, frame
<1>8. CASE CannelloniTick
  <2>1. /\ dev.state = "connected" /\ dev.kind = "cannelloni"
        /\ toReport = 0 /\ dev.outgoing # <<>>
        /\ sendQueue' = sendQueue
    BY <1>8 DEF CannelloniTick
  <2>2. dev'.state = "connected" /\ dev'.kind = "cannelloni"
    BY <1>8, <2>1 DEF CannelloniTick, AfterWriting, TypeOK, Devices
  <2>3. ASSUME dev'.dropped = 0 PROVE WrittenWaits' /\ toReport' > 0
    <3>1. /\ dev.dropped = 0 /\ toReport' = Len(dev.outgoing)
          /\ Len(dev'.outgoing) = 0
          /\ \A f \in Frames : Holds(dev.outgoing, f)
               => Holds(written', Report(f, TRUE))
      BY <1>8, <2>3, CannelloniWrites
    <3>2. Len(dev.outgoing) > 0
      BY <1>1, <2>1, EmptySeq
    <3> QED BY <2>1, <3>1, <3>2 DEF WaitingIsOutgoing, WrittenWaits
  <2> QED BY <2>2, <2>3 DEF NothingWaits, WaitingIsOutgoing, WaitingIsWritten
<1>9. CASE SerialBusTick
  <2>1. dev'.kind = "serialbus" /\ toReport' = 0
    BY <1>9 DEF SerialBusTick, TypeOK, Devices
  <2> QED BY <2>1 DEF NothingWaits, WaitingIsOutgoing, WaitingIsWritten
<1>10. CASE FramesWritten
  <2>1. /\ toReport > 0 /\ toReport' = toReport - 1
        /\ UNCHANGED <<dev, written>>
    BY <1>10 DEF FramesWritten
  <2>2. /\ dev.state = "connected" /\ dev.kind = "cannelloni"
        /\ dev.dropped = 0 => WrittenWaits
    BY <2>1 DEF WaitingIsWritten
  <2>3. Len(sendQueue') = (IF sendQueue = <<>> THEN 0 ELSE Len(sendQueue) - 1)
        /\ Len(sendQueue') \in Nat
    BY <1>1, <1>10, HeadTailProperties, EmptySeq DEF FramesWritten
  <2>4. ASSUME NEW f \in Frames, Holds(sendQueue', f)
        PROVE  Holds(sendQueue, f)
    <3>1. CASE sendQueue = <<>>
      BY <1>10, <2>4, <3>1 DEF FramesWritten
    <3>2. CASE sendQueue # <<>>
      BY <1>1, <1>10, <2>4, <3>2, HoldsTail DEF FramesWritten
    <3> QED BY <3>1, <3>2
  <2>5. ASSUME dev.dropped = 0
        PROVE  /\ WrittenWaits'
               /\ toReport' = 0 => Len(sendQueue') = 0
    <3>1. WrittenWaits
      BY <2>2, <2>5
    <3>2. Len(sendQueue) <= toReport /\ Len(sendQueue') <= toReport'
      BY <1>1, <2>1, <2>3, <3>1 DEF WrittenWaits
    <3>3. \A f \in Frames :
            Holds(sendQueue', f) => Holds(written', Report(f, TRUE))
      BY <2>1, <2>4, <3>1 DEF WrittenWaits
    <3>4. Len(dev'.outgoing) = 0
      BY <2>1, <3>1 DEF WrittenWaits
    <3>5. toReport' = 0 => Len(sendQueue') = 0
      BY <2>3, <3>2
    <3> QED BY <3>2, <3>3, <3>4, <3>5 DEF WrittenWaits
  <2>6. WaitingIsOutgoing'
    BY <1>1, <2>1, <2>5, HoldsNothing DEF WaitingIsOutgoing
  <2> QED BY <2>1, <2>2, <2>5, <2>6 DEF NothingWaits, WaitingIsWritten
<1>11. CASE PressStart \/ PressStop \/ SetInData \/ OnDataUpdated
            \/ CreateConnection \/ FramesReceived \/ UNCHANGED vars
  BY <1>2, <1>11 DEF PressStart, PressStop, SetInData, OnDataUpdated,
     CreateConnection, FramesReceived, vars
<1> QED BY <1>4, <1>5, <1>6, <1>7, <1>8, <1>9, <1>10, <1>11
        DEF Next, Gui, HandleEvent, Tick

(* Only two steps emit frameSent.                                            *)
LEMMA ReportSteps ==
  ASSUME TypeOK, [Next]_vars, Reporting
  PROVE  \/ FramesWritten /\ sendQueue # <<>>
         \/ \E frame \in Frames : SendDirect(frame)
<1>1. reported' # reported
  BY DEF Reporting, TypeOK
<1>2. CASE SendFrame
  <2>1. Head(inbox).frame \in Frames
    <3>1. Head(inbox) \in Events /\ Head(inbox).what = "send"
      BY <1>2, HeadTailProperties DEF SendFrame, Take, TypeOK
    <3> QED BY <3>1 DEF Events
  <2>2. SendDirect(Head(inbox).frame)
    BY <1>1, <1>2 DEF SendFrame, SendQueued, SendRefused, SendUninitialized
  <2> QED BY <2>1, <2>2
<1>3. CASE FramesWritten
  BY <1>1, <1>3 DEF FramesWritten
<1>4. SendFrame \/ FramesWritten
  BY <1>1 DEF Next, Gui, HandleEvent, Tick, PressStart, PressStop, SetInData,
     ChangeProperties, OnDataUpdated, CreateConnection, StartSimulation,
     StopSimulation, CannelloniTick, SerialBusTick, FramesReceived, vars
<1> QED BY <1>2, <1>3, <1>4

(* As long as the plugin's object has dropped nothing, a frameSent signal    *)
(* names a frame that was written, with what became of it, whatever starts,  *)
(* stops and changes of the plugin come in between and whatever objects      *)
(* before it have dropped.  Once one is dropped, for the bytes of a tick or  *)
(* because it is invalid, reports go wrong: the run candevice_budget shows   *)
(* how.                                                                      *)
THEOREM ReportsAreTrue == Spec => TrueUntilDropped
<1>1. Init => TruthInv
  <2>1. \A x : ~Holds(<<>>, x)
    BY EmptySeq, HoldsNothing
  <2> QED BY <2>1, EmptySeq DEF Init, NoDevice, TruthInv, NothingWaits,
             WaitingIsOutgoing, WaitingIsWritten
<1>2. TypeOK /\ TruthInv /\ [Next]_vars
        => [Reporting /\ dev.dropped = 0 => LastReportTrue]_vars
  <2> SUFFICES ASSUME TypeOK, TruthInv, [Next]_vars, Reporting,
                      dev.dropped = 0
               PROVE  LastReportTrue
    OBVIOUS
  <2>1. CASE FramesWritten /\ sendQueue # <<>>
    BY <2>1, WrittenReported
  <2>2. CASE \E frame \in Frames : SendDirect(frame)
    BY <2>2, DirectWrites
  <2> QED BY <2>1, <2>2, ReportSteps
<1> QED BY <1>1, <1>2, TruthStep, TypeCorrect, PTL DEF Spec, TrueUntilDropped
=============================================================================
