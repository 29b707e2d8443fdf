------------------------------ MODULE SignalDb ------------------------------
(* The databases of CAN signals in a CANdevStudio project: CanSignalData     *)
(* nodes, which load them and let the user give messages a cycle and an      *)
(* initial value, and the nodes that use them through a CanDbHandler         *)
(* (encoder, decoder, sender), which keep a copy of every database and work  *)
(* with one.  Copies are updated by broadcasts, which the GUI thread         *)
(* delivers, and answers, within the call that sends them; nodes are created,*)
(* deleted and restored while others exist.                                  *)
EXTENDS Naturals, FiniteSets

CONSTANTS DataNodes,   \* ids that CanSignalData nodes may have
          Users,       \* ids that nodes with a CanDbHandler may have
          Senders,     \* those of them that are CanSignalSender nodes
          Messages,    \* ids of messages
          MessagesOf,  \* the files that can be parsed, and what is in them
          Files,       \* the files a user may name
          Cycles,      \* what a user may type as a cycle
          Inits,       \* what a user may type as an initial value
          None         \* the null id, and no file

ASSUME NodesAssumption ==
  /\ DataNodes \cap Users = {} /\ None \notin DataNodes \cup Users
  /\ Senders \subseteq Users
FilesAreMessages ==
  /\ None \notin Files /\ DOMAIN MessagesOf \subseteq Files
  /\ \A f \in DOMAIN MessagesOf : MessagesOf[f] \subseteq Messages
ASSUME FilesAssumption == FilesAreMessages
ASSUME TextsAssumption == "" \in Cycles /\ "" \in Inits

VARIABLES alive, \* the nodes of the project
          data,  \* CanSignalDataPrivate: file, messages, settings, rows
          users  \* CanDbHandler: candb, current, prop

vars == <<alive, data, users>>

Alive(nodes) == nodes \cap alive

(* What _messages, _msgSettings and the table say of a message; what a       *)
(* message has is a number, of which 0 is none, and a row may be blank.      *)
Settings == [cycle : Cycles, init : Inits]
UpdateCycleRaw(text) == text \* a mutant: a blank cycle stays blank
UpdateCycle(text) == IF text = "" THEN "0" ELSE text
CycleText(cycle) == IF cycle = "0" THEN "" ELSE cycle

Applied(row) == [row EXCEPT !.cycle = UpdateCycle(@)]
Shown(msg) == [msg EXCEPT !.cycle = CycleText(@)]
IsSet(row) == row.cycle # "" \/ row.init # ""

NewData == [file |-> None, messages |-> <<>>, settings |-> <<>>, rows |-> <<>>]
NewUser == [candb |-> <<>>, current |-> None, prop |-> None]

-----------------------------------------------------------------------------
(* getMsgSettings: of the rows that say something.                           *)
GetMsgSettings(rows) ==
  [id \in {i \in DOMAIN rows : IsSet(rows[i])} |-> rows[id]]

(* A mutant: settings go to the messages that have none.                     *)
SetMsgSettingsOnce(d, settings) ==
  [d EXCEPT !.messages = [id \in DOMAIN @ |->
                            IF id \in DOMAIN settings /\ ~IsSet(Shown(@[id]))
                            THEN Applied(settings[id]) ELSE @[id]],
            !.settings = settings]

(* A mutant: the settings that will be saved stay the old ones.              *)
SetMsgSettingsUnsaved(d, settings) ==
  [d EXCEPT !.messages = [id \in DOMAIN @ |->
                            IF id \in DOMAIN settings
                            THEN Applied(settings[id]) ELSE @[id]]]

(* setMsgSettings.  Its first loop clears copies of the messages: one that   *)
(* has no settings any more keeps what it had.                               *)
SetMsgSettings(d, settings) ==
  [d EXCEPT !.messages = [id \in DOMAIN @ |->
                            IF id \in DOMAIN settings
                            THEN Applied(settings[id]) ELSE @[id]],
            !.settings = settings]

(* The messages of a file, and the settings given to them; a file that       *)
(* cannot be loaded leaves the table as it is.                               *)
LoadDbc(d, file) ==
  IF file = d.file THEN d
  ELSE IF file \notin DOMAIN MessagesOf
  THEN [d EXCEPT !.file = file, !.messages = <<>>]
  ELSE LET parsed == [id \in MessagesOf[file] |-> [cycle |-> "0", init |-> ""]]
           loaded == SetMsgSettings([d EXCEPT !.messages = parsed], d.settings)
       IN [loaded EXCEPT !.file = file,
                         !.rows = [id \in DOMAIN loaded.messages |->
                                     Shown(loaded.messages[id])]]

(* What a project saved now makes of a node when it is loaded.               *)
Restored(d) == LoadDbc(SetMsgSettings(NewData, d.settings), d.file)

-----------------------------------------------------------------------------
(* processBcast of CanDbUpdated.  A null database is replaced at once, but   *)
(* not in the property.                                                      *)
CanDbUpdated(u, n, messages) ==
  [u EXCEPT !.candb = [m \in DOMAIN @ \cup {n} |->
                         IF m = n THEN messages ELSE @[m]],
            !.current = IF @ = None THEN n ELSE @]

(* Every CanSignalData node has answered RequestCanDb, first before others.  *)
DbsRequested(u, dbs, first) ==
  [u EXCEPT !.candb = [m \in Alive(DataNodes) |-> dbs[m].messages],
            !.current = IF @ = None THEN first ELSE @]

(* A mutant: the deleted database goes on being the current one.             *)
NodeForgotten(u, n, heir) ==
  [u EXCEPT !.candb = [m \in DOMAIN @ \ {n} |-> @[m]]]

(* processBcast of NodeDeleted, with dbDeleted: heir is the last name that   *)
(* is left.                                                                  *)
NodeDeleted(u, n, heir) ==
  [u EXCEPT !.candb = [m \in DOMAIN @ \ {n} |-> @[m]],
            !.current = IF @ = n THEN heir ELSE @,
            !.prop = IF u.current = n THEN heir ELSE @]

(* Broadcasts reach the nodes that exist.                                    *)
Told(hearing) ==
  users' = [u \in Users |-> IF u \in alive THEN hearing[u] ELSE users[u]]

OneOf(nodes) == IF nodes = {} THEN {None} ELSE nodes

-----------------------------------------------------------------------------
Init == /\ alive = {}
        /\ data = [n \in DataNodes |-> NewData]
        /\ users = [u \in Users |-> NewUser]

(* InitDone: an empty database is sent.                                      *)
CreateData(n) ==
  /\ n \in DataNodes \ alive
  /\ alive' = alive \cup {n}
  /\ data' = [data EXCEPT ![n] = NewData]
  /\ Told([u \in Users |-> CanDbUpdated(users[u], n, <<>>)])

(* InitDone: the databases are requested, and sent to all.                   *)
CreateUser(u) ==
  /\ u \in Users \ alive
  /\ alive' = alive \cup {u}
  /\ \E first \in OneOf(Alive(DataNodes)) :
       users' = [v \in Users |->
                   IF v = u THEN DbsRequested(NewUser, data, first)
                   ELSE IF v \in alive THEN DbsRequested(users[v], data, first)
                   ELSE users[v]]
  /\ UNCHANGED data

DeleteData(n) ==
  /\ n \in Alive(DataNodes)
  /\ alive' = alive \ {n}
  /\ \E heir \in OneOf(Alive(DataNodes) \ {n}) :
       Told([u \in Users |-> NodeDeleted(users[u], n, heir)])
  /\ data' = [data EXCEPT ![n] = NewData]

DeleteUser(u) ==
  /\ u \in Alive(Users)
  /\ alive' = alive \ {u}
  /\ users' = [users EXCEPT ![u] = NewUser]
  /\ UNCHANGED data

(* The properties of a CanSignalData node are accepted: configChanged.       *)
ChangeFile(n) ==
  /\ n \in Alive(DataNodes)
  /\ \E file \in Files \ {data[n].file} :
       /\ data' = [data EXCEPT ![n] = LoadDbc(@, file)]
       /\ Told([u \in Users |->
                  CanDbUpdated(users[u], n, data'[n].messages)])
  /\ UNCHANGED alive

(* The properties of a user are accepted: the box offers every database it   *)
(* knows of, and always shows one of them if there are any.                  *)
ChangeDatabase(u) ==
  /\ u \in Alive(Users)
  /\ \E n \in OneOf(DOMAIN users[u].candb) :
       users' = [users EXCEPT ![u].prop = n, ![u].current = n]
  /\ UNCHANGED <<alive, data>>

(* A mutant: what changes is not sent.                                       *)
CloseEditorQuietly(n) ==
  /\ n \in Alive(DataNodes)
  /\ \E id \in DOMAIN data[n].rows, cycle \in Cycles :
       LET rows == [data[n].rows EXCEPT ![id].cycle = cycle]
       IN data' = [data EXCEPT ![n] =
                     SetMsgSettings([@ EXCEPT !.rows = rows],
                                    GetMsgSettings(rows))]
  /\ UNCHANGED <<alive, users>>

(* A cell's editor is closed, at any time.  An initial value can be replaced *)
(* but not removed: the editor does not accept an empty one.                 *)
CloseEditor(n) ==
  /\ n \in Alive(DataNodes)
  /\ \E id \in DOMAIN data[n].rows, row \in Settings :
       LET old == data[n].rows[id]
           rows == [data[n].rows EXCEPT ![id] = row]
       IN /\ \/ row.init = old.init
             \/ row.cycle = old.cycle /\ row.init # ""
          /\ data' = [data EXCEPT ![n] =
                        SetMsgSettings([@ EXCEPT !.rows = rows],
                                       GetMsgSettings(rows))]
          /\ Told([u \in Users |->
                  CanDbUpdated(users[u], n, data'[n].messages)])
  /\ UNCHANGED alive

(* The project is saved, closed and loaded.  Its nodes are restored in any   *)
(* order; a user's property is its database at once, and without one it      *)
(* takes the first that it hears of.  A sender does not read its property.   *)
(* A project loaded later comes out the same, so no file is kept here.       *)
ReloadProject ==
  /\ data' = [n \in DataNodes |->
                IF n \in alive THEN Restored(data[n]) ELSE data[n]]
  /\ \E first \in OneOf(Alive(DataNodes)) :
       users' = [u \in Users |->
                   IF u \in alive
                   THEN LET kept == IF u \in Senders THEN None
                                    ELSE users[u].prop
                        IN DbsRequested([NewUser EXCEPT !.prop = kept,
                                                        !.current = kept],
                                        data', first)
                   ELSE users[u]]
  /\ UNCHANGED alive

Next ==
  \/ \E n \in DataNodes : \/ CreateData(n) \/ DeleteData(n)
                          \/ ChangeFile(n) \/ CloseEditor(n)
  \/ \E u \in Users : CreateUser(u) \/ DeleteUser(u) \/ ChangeDatabase(u)
  \/ ReloadProject

Spec == Init /\ [][Next]_vars
-----------------------------------------------------------------------------
SettingMaps(ids) == UNION {[S -> Settings] : S \in SUBSET ids}
MessageMaps == UNION {[S -> [cycle : (Cycles \ {""}) \cup {"0"}, init : Inits]] :
                        S \in SUBSET Messages}

(* Nodes that do not exist have nothing; the others hold messages, settings  *)
(* and databases.                                                            *)
TypeOK ==
  /\ alive \subseteq DataNodes \cup Users
  /\ data \in [DataNodes -> [file : Files \cup {None},
                            messages : MessageMaps,
                            settings : SettingMaps(Messages),
                            rows : SettingMaps(Messages)]]
  /\ users \in [Users -> [candb : UNION {[S -> MessageMaps] :
                                           S \in SUBSET DataNodes},
                          current : DataNodes \cup {None},
                          prop : DataNodes \cup {None}]]
  /\ \A n \in DataNodes \ alive : data[n] = NewData
  /\ \A u \in Users \ alive : users[u] = NewUser

(* However nodes come and go, every user's copies are the databases as they  *)
(* are: all of them, of no node that is gone, and none out of date.          *)
InStep ==
  \A u \in Alive(Users) :
    users[u].candb = [n \in Alive(DataNodes) |-> data[n].messages]

(* A user works with a database that exists, whenever there is one, and what *)
(* its properties name is what it works with.                                *)
WorksWithOne ==
  \A u \in Alive(Users) :
    /\ users[u].current \in OneOf(Alive(DataNodes))
    /\ users[u].prop \in {None, users[u].current}

Loaded(d) == d.file \in DOMAIN MessagesOf

(* What a row says is what the other nodes are sent for its message, over    *)
(* edits, changes of the file and settings for messages of another file.     *)
(* Blank rows are excepted: what was removed from one is still sent.         *)
ShownIsSent ==
  \A n \in Alive(DataNodes) :
    Loaded(data[n]) =>
      /\ DOMAIN data[n].rows = DOMAIN data[n].messages
      /\ \A id \in DOMAIN data[n].rows :
           IsSet(data[n].rows[id]) =>
             data[n].messages[id] = Applied(data[n].rows[id])

(* A node comes back from a saved project with what its table showed, also   *)
(* for rows from which something was removed.                                *)
ShownIsRestored ==
  \A n \in Alive(DataNodes) :
    Loaded(data[n]) =>
      Restored(data[n]).messages =
        [id \in DOMAIN data[n].rows |-> Applied(data[n].rows[id])]
=============================================================================
