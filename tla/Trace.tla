-------------------------------- MODULE Trace --------------------------------
(* Loggers and a player around one bus: the player loads a log and sends its *)
(* frames to a device, which reports them to the loggers as sent, along with *)
(* the frames of others.  All but the player and the device is in the GUI    *)
(* thread; the device (CanDevice) is abstracted to a queue.                  *)
EXTENDS Logger, Player

CONSTANTS Foreign,  \* frames of others
          MaxBus    \* a bound for the frames in the device

(* What a log says of a frame: whether its identifier takes more than 11     *)
(* bits, whether it is an extended one, and its length.                      *)
Frame == [large : BOOLEAN, ext : BOOLEAN, length : Nat]

ASSUME TraceAssumption == Foreign \subseteq Frame /\ MaxBus \in Nat

VARIABLES bus,      \* what the device was given and has not reported
          disturbed \* history: something else came between player and logs

vars == <<loggerVars, playerVars, bus, disturbed>>

Init == /\ LoggerInit /\ PlayerInit
        /\ bus = <<>>
        /\ disturbed = FALSE

(* Loggers are started at once and the player is told; what is left of the   *)
(* last run will be sent and logged in this one.                             *)
Start == /\ StartLoggers
         /\ Call("start")
         /\ disturbed' = (playing \/ calls # <<>> \/ msgQueue # <<>>)
         /\ bus' = <<>>

Stop == /\ StopLoggers
        /\ Call("stop")
        /\ bus' = <<>>
        /\ UNCHANGED disturbed

ConfigPlayer ==
  /\ ~simStarted
  /\ \/ \E f \in DOMAIN files : ChangeConfig(files[f])
     \/ ChangeConfig(<<>>)
  /\ UNCHANGED <<loggerVars, bus, disturbed>>

PlayerStarts == StartPlayback /\ UNCHANGED <<loggerVars, bus, disturbed>>
PlayerStops == StopPlayback /\ UNCHANGED <<loggerVars, bus, disturbed>>

PlayerTicks ==
  /\ Timeout
  /\ disturbed' = (disturbed \/ Len(msgQueue') - Len(msgQueue) # Len(played') - Len(played))
  /\ UNCHANGED <<loggerVars, bus>>

(* The device sends nothing while it is stopped.                             *)
SendFrame ==
  /\ OutData
  /\ Len(bus) < MaxBus
  /\ bus' = IF simStarted THEN Append(bus, Head(msgQueue)) ELSE bus
  /\ UNCHANGED <<loggerVars, disturbed>>

Report ==
  /\ bus # <<>>
  /\ bus' = Tail(bus)
  /\ \E status \in BOOLEAN : /\ FrameSent(status, Head(bus))
                             /\ disturbed' = (disturbed \/ ~status)
  /\ UNCHANGED playerVars

Receive == /\ simStarted
           /\ \E frame \in Foreign : FrameReceived(frame)
           /\ UNCHANGED <<playerVars, bus, disturbed>>

Next == \/ Start \/ Stop \/ ConfigPlayer
        \/ PlayerStarts \/ PlayerStops \/ PlayerTicks
        \/ SendFrame \/ Report \/ Receive

(* The player's thread runs, and its timer while it is active.               *)
Fairness == WF_vars(PlayerStarts) /\ WF_vars(PlayerStops) /\ WF_vars(PlayerTicks)

Spec == Init /\ [][Next]_vars /\ Fairness
-----------------------------------------------------------------------------
(* Files have lines, and loggers are open if and only if the simulation      *)
(* runs, each with a file of its own; indices are within what is played.     *)
TypeOK ==
  /\ simStarted \in BOOLEAN /\ playing \in BOOLEAN
  /\ \A l \in Loggers : open[l] \in IF simStarted THEN DOMAIN files ELSE {Closed}
  /\ OwnFiles
  /\ \A f \in DOMAIN files : Len(files[f]) <= MaxLines
  /\ tick \in Ticks /\ ticks \in 0 .. MaxTicks
  /\ Len(msgQueue) <= MaxQueue /\ Len(calls) <= MaxCalls
  /\ ~touched => frameNdx <= Len(frames)

(* No log loses a line, whoever starts, stops and restarts when.             *)
NothingOverwritten == [][OnlyAppended]_vars

TXFrames(lines) ==
  Frames(Picked(lines, {i \in DOMAIN lines : lines[i].dir = "TX"}))

(* What is played is logged: if nothing came between, the frames sent so far *)
(* are, in their order, those in every open log and then those on their way, *)
(* among the frames of others.                                               *)
PlayedIsLogged ==
  simStarted /\ ~disturbed =>
    LET sent == IF calls = <<>> THEN played ELSE <<>>
    IN \A l \in Loggers :
         TXFrames(files[open[l]]) \o bus \o msgQueue = sent
=============================================================================
