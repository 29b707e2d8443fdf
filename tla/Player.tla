------------------------------- MODULE Player -------------------------------
(* CanRawPlayer: it loads a log and, while the simulation runs, sends the    *)
(* frames in it at their times, counted in ticks of its timer.  It runs in a *)
(* thread of its own: start and stop are queued for it, and the frames it    *)
(* sends for the GUI thread, one signal for each; its configuration is       *)
(* changed by the GUI thread itself.                                         *)
EXTENDS Naturals, FiniteSets, Sequences, SequencesExt

CONSTANTS Ticks,    \* what "timer tick [ms]" may be
          MaxTicks, \* _ticks is not counted beyond this
          MaxQueue, \* the capacity of _msgQueue
          MaxCalls  \* a bound for the calls that wait for the thread

ASSUME PlayerAssumption ==
  /\ Ticks \subseteq Nat /\ MaxTicks \in Nat
  /\ MaxQueue \in Nat \ {0} /\ MaxCalls \in Nat

VARIABLES tick, ticks, frames, frameNdx, \* the members of CanRawPlayerPrivate
          playing,  \* _timer.isActive
          calls,    \* start and stop on their way to the thread
          msgQueue, \* CanRawPlayerModel::_msgQueue
          played,   \* history: what was sent since the timer was started
          touched   \* history: the configuration changed since then

config == <<tick, frames>>
playerVars == <<tick, ticks, frames, frameNdx, playing, calls, msgQueue, played, touched>>

PlayerInit == /\ tick \in Ticks
              /\ ticks = 0 /\ frameNdx = 0
              /\ frames = <<>>
              /\ playing = FALSE
              /\ calls = <<>>
              /\ msgQueue = <<>>
              /\ played = <<>>
              /\ touched = FALSE

(* The members of a sequence at some places, in their order.                 *)
Picked(seq, places) ==
  [n \in 1 .. Cardinality(places) |->
     seq[CHOOSE i \in places : Cardinality(places \cap 1 .. i) = n]]

(* What the regular expression makes of the lines of a log: a length has one *)
(* digit, and whether an identifier is extended is told from its size.       *)
Loaded(lines) ==
  LET playable == Picked(lines, {i \in DOMAIN lines : lines[i].frame.length < 10})
  IN [i \in DOMAIN playable |->
        [time |-> playable[i].time,
         frame |-> [playable[i].frame EXCEPT !.ext = playable[i].frame.large]]]

(* configChanged; lines are none if the file cannot be opened.               *)
ChangeConfig(lines) ==
  /\ frames' = Loaded(lines)
  /\ tick' \in Ticks
  /\ touched' = TRUE
  /\ UNCHANGED <<ticks, frameNdx, playing, calls, msgQueue, played>>

Call(what) == /\ Len(calls) < MaxCalls
              /\ calls' = Append(calls, what)
              /\ UNCHANGED <<config, ticks, frameNdx, playing, msgQueue, played, touched>>

StartPlayback ==
  /\ calls # <<>> /\ Head(calls) = "start"
  /\ calls' = Tail(calls)
  /\ ticks' = 0 /\ frameNdx' = 0
  /\ playing' = TRUE
  /\ played' = <<>>
  /\ touched' = FALSE
  /\ UNCHANGED <<config, msgQueue>>

StopPlayback ==
  /\ calls # <<>> /\ Head(calls) = "stop"
  /\ calls' = Tail(calls)
  /\ playing' = FALSE
  /\ UNCHANGED <<config, ticks, frameNdx, msgQueue, played, touched>>

(* A mutant: the queue takes whatever comes.                                 *)
EnqueuedAll(queue, fs) == queue \o fs

(* Each frame is queued and announced, or dropped if the queue is full.      *)
Enqueued(queue, fs) ==
  LET room == MaxQueue - Len(queue)
  IN queue \o SubSeq(fs, 1, IF Len(fs) < room THEN Len(fs) ELSE room)

(* A mutant: frames whose time has just come wait for the next tick.         *)
DueEndLate(now) ==
  LET ends == {n \in frameNdx .. Len(frames) :
                 \A i \in frameNdx + 1 .. n : frames[i].time < now}
  IN IF ends = {} THEN frameNdx ELSE Max(ends)

(* The next index: frames are sent up to the first that is not due.  It may  *)
(* be beyond the end of a log that was loaded during a playback.             *)
DueEnd(now) ==
  LET ends == {n \in frameNdx .. Len(frames) :
                 \A i \in frameNdx + 1 .. n : frames[i].time <= now}
  IN IF ends = {} THEN frameNdx ELSE Max(ends)

(* A mutant: the ticks are not summed up.                                    *)
TimeoutAgain ==
  /\ playing
  /\ ticks' = tick
  /\ frameNdx' = DueEnd(ticks')
  /\ LET due == [i \in 1 .. frameNdx' - frameNdx |-> frames[frameNdx + i].frame]
     IN /\ played' = played \o due
        /\ msgQueue' = Enqueued(msgQueue, due)
  /\ UNCHANGED <<config, playing, calls, touched>>

Timeout ==
  /\ playing
  /\ ticks' = IF ticks + tick < MaxTicks THEN ticks + tick ELSE MaxTicks
  /\ frameNdx' = DueEnd(ticks')
  /\ LET due == [i \in 1 .. frameNdx' - frameNdx |-> frames[frameNdx + i].frame]
     IN /\ played' = played \o due
        /\ msgQueue' = Enqueued(msgQueue, due)
  /\ UNCHANGED <<config, playing, calls, touched>>

(* dataUpdated in the GUI thread: outData takes a frame.                     *)
OutData == /\ msgQueue # <<>>
           /\ msgQueue' = Tail(msgQueue)
           /\ UNCHANGED <<config, ticks, frameNdx, playing, calls, played, touched>>
-----------------------------------------------------------------------------
Frames(trace) == [i \in DOMAIN trace |-> trace[i].frame]

(* After each tick exactly the frames that are due have been sent, each once *)
(* and in their order, however many became due with it, and from the first   *)
(* one on after every start.                                                 *)
PlayedIsDue ==
  playing /\ ~touched /\ ticks > 0 =>
    played = Frames(Picked(frames, {i \in DOMAIN frames : frames[i].time <= ticks}))

(* A log is played to its end, if its player is left alone and its timer     *)
(* does not stand still.                                                     *)
PlayedToTheEnd ==
  playing /\ ~touched /\ tick > 0 ~>
    \/ ~playing \/ touched \/ calls # <<>>
    \/ played = Frames(frames)
=============================================================================
