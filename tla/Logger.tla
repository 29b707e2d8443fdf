------------------------------- MODULE Logger -------------------------------
(* CanRawLogger: while the simulation runs, each logger writes the frames of *)
(* the project into a file of its own, named after its property "name" and   *)
(* the second in which it was started.  All loggers have the same name here, *)
(* and run in the GUI thread.                                                *)
EXTENDS Naturals, FiniteSets, Sequences, SequencesExt

CONSTANTS Loggers,   \* the logger nodes
          Times,     \* the times there are in a file
          MaxLines,  \* a bound for the lines of a file
          MaxSecond, \* a bound for the clock
          MaxFiles   \* a bound for the files

ASSUME LoggerAssumption ==
  /\ IsFiniteSet(Loggers) /\ Times \subseteq Nat
  /\ MaxLines \in Nat /\ MaxSecond \in Nat /\ MaxFiles \in Nat

VARIABLES simStarted, \* the nodes' _simStarted
          second,     \* QDateTime::currentDateTime
          files,      \* the directory: a function from names to lines
          open        \* the name of _file

loggerVars == <<simStarted, second, files, open>>

Closed == <<>>

LoggerInit == /\ simStarted = FALSE
              /\ second = 0
              /\ files = <<>>
              /\ open = [l \in Loggers |-> Closed]

NameOf(s, num) == <<s, num>>

(* A mutant: the second is thought to be enough.                             *)
AnyName(s, names) == NameOf(s, 0)

(* The first of name.log, name(1).log ... that no file has.                  *)
FreeName(s, names) ==
  LET free == {n \in 0 .. MaxFiles : NameOf(s, n) \notin names}
  IN NameOf(s, CHOOSE n \in free : \A k \in free : n <= k)

(* Files that are opened for writing are created, or emptied.                *)
Opened(fs, names) ==
  [f \in DOMAIN fs \cup names |-> IF f \in names THEN <<>> ELSE fs[f]]

(* startSimulation, of one logger after the other, in any order: the files   *)
(* of those before it are there already when a logger looks for a name.      *)
StartLoggers ==
  /\ ~simStarted
  /\ Cardinality(DOMAIN files) + Cardinality(Loggers) <= MaxFiles
  /\ simStarted' = TRUE
  /\ \E s \in second .. MaxSecond,
       turn \in Bijection(Loggers, 1 .. Cardinality(Loggers)) :
       /\ second' = s
       /\ open' \in [Loggers -> {NameOf(s, n) : n \in 0 .. MaxFiles}]
       /\ \A l \in Loggers :
            LET before == {k \in Loggers : turn[k] < turn[l]}
            IN open'[l] = FreeName(s, DOMAIN files \cup {open'[k] : k \in before})
  /\ files' = Opened(files, {open'[l] : l \in Loggers})

StopLoggers == /\ simStarted
               /\ simStarted' = FALSE
               /\ open' = [l \in Loggers |-> Closed]
               /\ UNCHANGED <<second, files>>

Writing(f) == \E l \in Loggers : open[l] = f

LastTime(lines) == IF lines = <<>> THEN 0 ELSE Last(lines).time

(* logFrame, of every logger, with the time since the start.                 *)
LogFrame(frame, dir) ==
  /\ \A f \in DOMAIN files : Writing(f) => Len(files[f]) < MaxLines
  /\ \E t \in Times :
       /\ \A f \in DOMAIN files : Writing(f) => LastTime(files[f]) <= t
       /\ files' = [f \in DOMAIN files |->
                      IF Writing(f)
                      THEN Append(files[f], [time |-> t, dir |-> dir, frame |-> frame])
                      ELSE files[f]]
  /\ UNCHANGED <<simStarted, second, open>>

(* frameReceived and frameSent; a mutant of it mistakes the direction.       *)
FrameReceived(frame) == IF simStarted THEN LogFrame(frame, "RX")
                        ELSE UNCHANGED loggerVars
FrameSentAsReceived(status, frame) ==
  IF status /\ simStarted THEN LogFrame(frame, "RX") ELSE UNCHANGED loggerVars
FrameSent(status, frame) == IF status /\ simStarted THEN LogFrame(frame, "TX")
                            ELSE UNCHANGED loggerVars
-----------------------------------------------------------------------------
(* What a logger has written stays: files only become longer, at their end,  *)
(* through restarts within a second and loggers started together.            *)
OnlyAppended ==
  \A f \in DOMAIN files \cap DOMAIN files' : IsPrefix(files[f], files'[f])

(* No two loggers write into one file.                                       *)
OwnFiles ==
  \A k, l \in Loggers :
    k # l /\ open[k] # Closed => open[k] # open[l]
=============================================================================
