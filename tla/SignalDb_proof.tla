--------------------------- MODULE SignalDb_proof ---------------------------
(* Theorems about SignalDb, for every set of nodes, files and messages.      *)
EXTENDS SignalDb, TLAPS

MessageType == [cycle : (Cycles \ {""}) \cup {"0"}, init : Inits]
DataType == [file : Files \cup {None}, messages : MessageMaps,
             settings : SettingMaps(Messages), rows : SettingMaps(Messages)]
Databases == UNION {[S -> MessageMaps] : S \in SUBSET DataNodes}
UserType == [candb : Databases,
             current : DataNodes \cup {None}, prop : DataNodes \cup {None}]

-----------------------------------------------------------------------------
(* Maps.                                                                     *)

LEMMA SettingMap ==
  ASSUME NEW f
  PROVE  f \in SettingMaps(Messages)
           <=> DOMAIN f \subseteq Messages /\ f \in [DOMAIN f -> Settings]
BY DEF SettingMaps

LEMMA MessageMap ==
  ASSUME NEW f
  PROVE  f \in MessageMaps
           <=> DOMAIN f \subseteq Messages /\ f \in [DOMAIN f -> MessageType]
BY DEF MessageMaps, MessageType

LEMMA DatabaseMap ==
  ASSUME NEW f
  PROVE  f \in Databases
           <=> DOMAIN f \subseteq DataNodes /\ f \in [DOMAIN f -> MessageMaps]
BY DEF Databases

LEMMA NothingIsMap ==
  <<>> \in SettingMaps(Messages) /\ <<>> \in MessageMaps
<1>1. <<>> \in [{} -> Settings] /\ <<>> \in [{} -> MessageType]
  OBVIOUS
<1>2. DOMAIN <<>> = {}
  OBVIOUS
<1> QED
  BY <1>1, <1>2, SettingMap, MessageMap

(* What a row becomes in a message, and a message in a row.                  *)
LEMMA RowsAndMessages ==
  /\ \A row \in Settings :
       /\ Applied(row) = [cycle |-> UpdateCycle(row.cycle), init |-> row.init]
       /\ Applied(row) \in MessageType
  /\ \A msg \in MessageType :
       /\ Shown(msg) = [cycle |-> CycleText(msg.cycle), init |-> msg.init]
       /\ Shown(msg) \in Settings
       /\ Applied(Shown(msg)) = msg
<1>1. ASSUME NEW row \in Settings
      PROVE  /\ Applied(row) = [cycle |-> UpdateCycle(row.cycle), init |-> row.init]
             /\ Applied(row) \in MessageType
  <2>1. Applied(row) = [cycle |-> UpdateCycle(row.cycle), init |-> row.init]
    <3>1. row = [cycle |-> row.cycle, init |-> row.init]
      BY DEF Settings
    <3> QED
      BY <3>1 DEF Applied
  <2>2. row.cycle \in Cycles /\ row.init \in Inits
    BY DEF Settings
  <2>3. UpdateCycle(row.cycle) \in (Cycles \ {""}) \cup {"0"}
    BY <2>2 DEF UpdateCycle
  <2>4. [cycle |-> UpdateCycle(row.cycle), init |-> row.init] \in MessageType
    BY <2>2, <2>3 DEF MessageType
  <2> QED
    BY <2>1, <2>4
<1>2. ASSUME NEW msg \in MessageType
      PROVE  /\ Shown(msg) = [cycle |-> CycleText(msg.cycle), init |-> msg.init]
             /\ Shown(msg) \in Settings
             /\ Applied(Shown(msg)) = msg
  <2>1. Shown(msg) = [cycle |-> CycleText(msg.cycle), init |-> msg.init]
    <3>1. msg = [cycle |-> msg.cycle, init |-> msg.init]
      BY DEF MessageType
    <3> QED
      BY <3>1 DEF Shown
  <2>2. /\ CycleText(msg.cycle) \in Cycles
        /\ UpdateCycle(CycleText(msg.cycle)) = msg.cycle
    BY TextsAssumption DEF CycleText, UpdateCycle, MessageType
  <2>3. Shown(msg) \in Settings
    <3>1. msg.init \in Inits
      BY DEF MessageType
    <3> QED
      BY <2>1, <2>2, <3>1 DEF Settings
  <2>4. Applied(Shown(msg)) = [cycle |-> msg.cycle, init |-> msg.init]
    BY <1>1, <2>1, <2>2, <2>3
  <2>5. msg = [cycle |-> msg.cycle, init |-> msg.init]
    BY DEF MessageType
  <2> QED
    BY <2>1, <2>3, <2>4, <2>5
<1> QED
  BY <1>1, <1>2

-----------------------------------------------------------------------------
(* What the operations on a CanSignalData node make of its data.             *)

Parsed(file) == [id \in MessagesOf[file] |-> [cycle |-> "0", init |-> ""]]
Given(messages, settings) ==
  [id \in DOMAIN messages |-> IF id \in DOMAIN settings
                              THEN Applied(settings[id]) ELSE messages[id]]

LEMMA Fields ==
  ASSUME NEW d \in DataType
  PROVE  /\ d = [file |-> d.file, messages |-> d.messages,
                 settings |-> d.settings, rows |-> d.rows]
         /\ d.file \in Files \cup {None}
         /\ d.messages \in MessageMaps
         /\ d.settings \in SettingMaps(Messages)
         /\ d.rows \in SettingMaps(Messages)
BY DEF DataType

LEMMA GivenIsMap ==
  ASSUME NEW messages \in MessageMaps, NEW settings \in SettingMaps(Messages)
  PROVE  /\ Given(messages, settings) \in MessageMaps
         /\ DOMAIN Given(messages, settings) = DOMAIN messages
<1>1. /\ DOMAIN messages \subseteq Messages
      /\ \A id \in DOMAIN messages : messages[id] \in MessageType
  BY MessageMap
<1>2. \A id \in DOMAIN settings : settings[id] \in Settings
  BY SettingMap
<1>3. \A id \in DOMAIN settings : Applied(settings[id]) \in MessageType
  BY <1>2, RowsAndMessages
<1>4. Given(messages, settings) \in [DOMAIN messages -> MessageType]
  BY <1>1, <1>3 DEF Given
<1>5. DOMAIN Given(messages, settings) = DOMAIN messages
  BY DEF Given
<1> QED
  BY <1>1, <1>4, <1>5, MessageMap

LEMMA ParsedIsMap ==
  ASSUME NEW file \in DOMAIN MessagesOf
  PROVE  Parsed(file) \in MessageMaps /\ DOMAIN Parsed(file) = MessagesOf[file]
<1>1. [cycle |-> "0", init |-> ""] \in MessageType
  BY TextsAssumption DEF MessageType
<1>2. Parsed(file) \in [MessagesOf[file] -> MessageType]
  BY <1>1 DEF Parsed
<1>3. MessagesOf[file] \subseteq Messages
  BY FilesAssumption DEF FilesAreMessages
<1>4. DOMAIN Parsed(file) = MessagesOf[file]
  BY DEF Parsed
<1> QED
  BY <1>2, <1>3, <1>4, MessageMap

LEMMA Setting ==
  ASSUME NEW d \in DataType, NEW settings \in SettingMaps(Messages)
  PROVE  /\ SetMsgSettings(d, settings) =
              [file |-> d.file, messages |-> Given(d.messages, settings),
               settings |-> settings, rows |-> d.rows]
         /\ SetMsgSettings(d, settings) \in DataType
<1>1. SetMsgSettings(d, settings) =
        [file |-> d.file, messages |-> Given(d.messages, settings),
         settings |-> settings, rows |-> d.rows]
  <2>1. SetMsgSettings(d, settings) =
          [d EXCEPT !.messages = Given(d.messages, settings),
                    !.settings = settings]
    BY DEF SetMsgSettings, Given
  <2>2. d = [file |-> d.file, messages |-> d.messages,
             settings |-> d.settings, rows |-> d.rows]
    BY Fields
  <2> QED
    BY <2>1, <2>2
<1>2. Given(d.messages, settings) \in MessageMaps
  BY Fields, GivenIsMap
<1> QED
  BY <1>1, <1>2, Fields DEF DataType

LEMMA Loading ==
  ASSUME NEW d \in DataType, NEW file \in DOMAIN MessagesOf, file # d.file
  PROVE  /\ LoadDbc(d, file) =
              [file |-> file, messages |-> Given(Parsed(file), d.settings),
               settings |-> d.settings,
               rows |-> [id \in MessagesOf[file] |->
                           Shown(Given(Parsed(file), d.settings)[id])]]
         /\ LoadDbc(d, file) \in DataType
<1> DEFINE fresh == [d EXCEPT !.messages = Parsed(file)]
           messages == Given(Parsed(file), d.settings)
           rows == [id \in MessagesOf[file] |-> Shown(messages[id])]
           loaded == SetMsgSettings(fresh, d.settings)
<1>1. /\ fresh = [file |-> d.file, messages |-> Parsed(file),
                  settings |-> d.settings, rows |-> d.rows]
      /\ fresh \in DataType
  <2>1. fresh = [file |-> d.file, messages |-> Parsed(file),
                 settings |-> d.settings, rows |-> d.rows]
    BY Fields
  <2> QED
    BY <2>1, Fields, ParsedIsMap DEF DataType
<1>2. loaded = [file |-> d.file, messages |-> messages,
                settings |-> d.settings, rows |-> d.rows]
  <2> HIDE DEF fresh
  <2>1. fresh.file = d.file /\ fresh.messages = Parsed(file) /\ fresh.rows = d.rows
    BY <1>1
  <2> QED
    BY <1>1, <2>1, Fields, Setting
<1>3. messages \in MessageMaps /\ DOMAIN messages = MessagesOf[file]
  BY Fields, ParsedIsMap, GivenIsMap
<1>4. LoadDbc(d, file) = [file |-> file, messages |-> messages,
                          settings |-> d.settings, rows |-> rows]
  <2>1. LoadDbc(d, file) =
          [loaded EXCEPT !.file = file,
                         !.rows = [id \in DOMAIN loaded.messages |->
                                     Shown(loaded.messages[id])]]
    BY DEF LoadDbc, Parsed
  <2> HIDE DEF loaded, messages, fresh
  <2>2. loaded.messages = messages /\ DOMAIN messages = MessagesOf[file]
    BY <1>2, <1>3
  <2>3. [id \in DOMAIN loaded.messages |-> Shown(loaded.messages[id])] = rows
    BY <2>2
  <2> HIDE DEF rows
  <2> QED
    BY <2>1, <2>3, <1>2
<1>5. rows \in SettingMaps(Messages)
  <2> HIDE DEF messages
  <2>1. \A id \in MessagesOf[file] : messages[id] \in MessageType
    BY <1>3, MessageMap
  <2>2. \A id \in MessagesOf[file] : Shown(messages[id]) \in Settings
    BY <2>1, RowsAndMessages
  <2>3. rows \in [MessagesOf[file] -> Settings] /\ DOMAIN rows = MessagesOf[file]
    BY <2>2
  <2>4. MessagesOf[file] \subseteq Messages
    BY FilesAssumption DEF FilesAreMessages
  <2> HIDE DEF rows
  <2> QED
    BY <2>3, <2>4, SettingMap
<1>6. file \in Files
  BY FilesAssumption DEF FilesAreMessages
<1> HIDE DEF messages, rows
<1>7. LoadDbc(d, file) \in DataType
  BY <1>3, <1>4, <1>5, <1>6, Fields DEF DataType
<1> QED
  BY <1>4, <1>7 DEF messages, rows

LEMMA NotLoading ==
  ASSUME NEW d \in DataType, NEW file \in Files \cup {None}, file # d.file,
         file \notin DOMAIN MessagesOf
  PROVE  /\ LoadDbc(d, file) = [file |-> file, messages |-> <<>>,
                                settings |-> d.settings, rows |-> d.rows]
         /\ LoadDbc(d, file) \in DataType
<1>1. LoadDbc(d, file) = [file |-> file, messages |-> <<>>,
                          settings |-> d.settings, rows |-> d.rows]
  <2>1. LoadDbc(d, file) = [d EXCEPT !.file = file, !.messages = <<>>]
    BY DEF LoadDbc
  <2>2. d = [file |-> d.file, messages |-> d.messages,
             settings |-> d.settings, rows |-> d.rows]
    BY Fields
  <2> QED
    BY <2>1, <2>2
<1> QED
  BY <1>1, Fields, NothingIsMap DEF DataType

LEMMA NewIsData == NewData \in DataType
BY NothingIsMap DEF NewData, DataType

LEMMA RowsSaid ==
  ASSUME NEW rows \in SettingMaps(Messages)
  PROVE  /\ GetMsgSettings(rows) \in SettingMaps(Messages)
         /\ DOMAIN GetMsgSettings(rows) = {i \in DOMAIN rows : IsSet(rows[i])}
         /\ \A id \in DOMAIN GetMsgSettings(rows) :
              GetMsgSettings(rows)[id] = rows[id]
<1>1. /\ DOMAIN rows \subseteq Messages
      /\ \A id \in DOMAIN rows : rows[id] \in Settings
  BY SettingMap
<1>2. /\ DOMAIN GetMsgSettings(rows) = {i \in DOMAIN rows : IsSet(rows[i])}
      /\ \A id \in DOMAIN GetMsgSettings(rows) :
           GetMsgSettings(rows)[id] = rows[id]
  BY DEF GetMsgSettings
<1>3. GetMsgSettings(rows) \in [DOMAIN GetMsgSettings(rows) -> Settings]
  BY <1>1, <1>2 DEF GetMsgSettings
<1> QED
  BY <1>1, <1>2, <1>3, SettingMap

-----------------------------------------------------------------------------
(* What stays true of the data of a node: with a file that was loaded, the   *)
(* table has its messages; a row that says something is its message; and     *)
(* what would be saved says the same as the rows.                            *)
RowIsSaved(d, id) ==
  IF id \in DOMAIN d.settings THEN Applied(d.settings[id]) = Applied(d.rows[id])
                              ELSE ~IsSet(d.rows[id])

Good(d) ==
  Loaded(d) =>
    /\ DOMAIN d.messages = MessagesOf[d.file]
    /\ DOMAIN d.rows = MessagesOf[d.file]
    /\ \A id \in DOMAIN d.rows :
         /\ IsSet(d.rows[id]) => d.messages[id] = Applied(d.rows[id])
         /\ RowIsSaved(d, id)

LEMMA BlankRow ==
  /\ Shown([cycle |-> "0", init |-> ""]) = [cycle |-> "", init |-> ""]
  /\ ~IsSet([cycle |-> "", init |-> ""])
  /\ \A row \in Settings :
       ~IsSet(row) => Applied(row) = [cycle |-> "0", init |-> ""]
<1>1. Shown([cycle |-> "0", init |-> ""]) = [cycle |-> "", init |-> ""]
  <2>1. [cycle |-> "0", init |-> ""] \in MessageType
    BY TextsAssumption DEF MessageType
  <2>2. CycleText("0") = ""
    BY DEF CycleText
  <2> QED
    BY <2>1, <2>2, RowsAndMessages
<1>2. ~IsSet([cycle |-> "", init |-> ""])
  BY DEF IsSet
<1>3. ASSUME NEW row \in Settings, ~IsSet(row)
      PROVE  Applied(row) = [cycle |-> "0", init |-> ""]
  <2>1. row.cycle = "" /\ row.init = ""
    BY <1>3 DEF IsSet
  <2>2. UpdateCycle("") = "0"
    BY DEF UpdateCycle
  <2> QED
    BY <2>1, <2>2, RowsAndMessages
<1> QED
  BY <1>1, <1>2, <1>3

(* A file that is loaded shows the settings that were given, and no others.  *)
LEMMA LoadedIsGood ==
  ASSUME NEW d \in DataType, NEW file \in DOMAIN MessagesOf, file # d.file
  PROVE  Good(LoadDbc(d, file))
<1> DEFINE messages == Given(Parsed(file), d.settings)
           after == LoadDbc(d, file)
<1>1. /\ after.file = file /\ after.messages = messages
      /\ after.settings = d.settings
      /\ after.rows = [id \in MessagesOf[file] |-> Shown(messages[id])]
  BY Loading
<1>2. messages \in MessageMaps /\ DOMAIN messages = MessagesOf[file]
  BY Fields, ParsedIsMap, GivenIsMap
<1>3. /\ DOMAIN after.rows = MessagesOf[file]
      /\ \A id \in MessagesOf[file] : after.rows[id] = Shown(messages[id])
  BY <1>1
<1>4. ASSUME NEW id \in MessagesOf[file]
      PROVE  messages[id] = Applied(after.rows[id])
  <2> HIDE DEF messages, after
  <2>1. messages[id] \in MessageType
    BY <1>2, MessageMap
  <2> QED
    BY <2>1, <1>3, RowsAndMessages
<1>5. ASSUME NEW id \in MessagesOf[file], id \in DOMAIN d.settings
      PROVE  messages[id] = Applied(d.settings[id])
  BY <1>5, ParsedIsMap DEF Given
<1>6. ASSUME NEW id \in MessagesOf[file], id \notin DOMAIN d.settings
      PROVE  ~IsSet(after.rows[id])
  <2>1. messages[id] = [cycle |-> "0", init |-> ""]
    BY <1>6 DEF Given, Parsed
  <2> HIDE DEF messages, after
  <2> QED
    BY <2>1, <1>3, BlankRow
<1> HIDE DEF messages, after
<1>7. \A id \in MessagesOf[file] : RowIsSaved(after, id)
  BY <1>1, <1>4, <1>5, <1>6 DEF RowIsSaved
<1>8. Good(after)
  BY <1>1, <1>2, <1>3, <1>4, <1>7 DEF Good
<1> QED
  BY <1>8 DEF after

LEMMA LoadKeeps ==
  ASSUME NEW d \in DataType, NEW file \in Files \cup {None}, Good(d)
  PROVE  LoadDbc(d, file) \in DataType /\ Good(LoadDbc(d, file))
<1>1. CASE file = d.file
  BY <1>1 DEF LoadDbc
<1>2. CASE file # d.file /\ file \in DOMAIN MessagesOf
  BY <1>2, Loading, LoadedIsGood
<1>3. CASE file # d.file /\ file \notin DOMAIN MessagesOf
  <2>1. LoadDbc(d, file).file = file
    BY <1>3, NotLoading
  <2> QED
    BY <1>3, <2>1, NotLoading DEF Good, Loaded
<1> QED
  BY <1>1, <1>2, <1>3

LEMMA EditKeeps ==
  ASSUME NEW d \in DataType, NEW rows \in SettingMaps(Messages),
         DOMAIN rows = DOMAIN d.rows, Good(d)
  PROVE  LET after == SetMsgSettings([d EXCEPT !.rows = rows],
                                     GetMsgSettings(rows))
         IN  after \in DataType /\ Good(after)
<1> DEFINE said == GetMsgSettings(rows)
           edited == [d EXCEPT !.rows = rows]
           after == SetMsgSettings(edited, said)
<1>1. edited = [file |-> d.file, messages |-> d.messages,
                settings |-> d.settings, rows |-> rows]
  BY Fields
<1>2. edited \in DataType
  BY <1>1, Fields DEF DataType
<1>3. /\ said \in SettingMaps(Messages)
      /\ DOMAIN said = {i \in DOMAIN rows : IsSet(rows[i])}
      /\ \A id \in DOMAIN said : said[id] = rows[id]
  BY RowsSaid
<1> HIDE DEF said, edited
<1>4. /\ after \in DataType
      /\ after.file = d.file /\ after.rows = rows /\ after.settings = said
      /\ after.messages = Given(d.messages, said)
  BY <1>1, <1>2, <1>3, Setting
<1>5. DOMAIN Given(d.messages, said) = DOMAIN d.messages
  BY DEF Given
<1>6. ASSUME Loaded(d), NEW id \in DOMAIN rows
      PROVE  /\ IsSet(rows[id]) =>
                  Given(d.messages, said)[id] = Applied(rows[id])
             /\ RowIsSaved(after, id)
  <2>1. DOMAIN d.messages = DOMAIN rows
    BY <1>6 DEF Good
  <2>2. IsSet(rows[id]) => Given(d.messages, said)[id] = Applied(rows[id])
    BY <1>3, <2>1 DEF Given
  <2> HIDE DEF after
  <2>3. RowIsSaved(after, id)
    BY <1>3, <1>4 DEF RowIsSaved
  <2> QED
    BY <2>2, <2>3
<1> HIDE DEF after
<1>7. Good(after)
  BY <1>4, <1>5, <1>6 DEF Good, Loaded
<1> QED
  BY <1>4, <1>7 DEF after, edited, said

(* A node that is loaded from what would be saved.                           *)
LEMMA RestoreGood ==
  ASSUME NEW d \in DataType
  PROVE  /\ Restored(d) \in DataType
         /\ Good(Restored(d))
         /\ Good(d) /\ Loaded(d) =>
              Restored(d).messages =
                [id \in DOMAIN d.rows |-> Applied(d.rows[id])]
<1> DEFINE fresh == SetMsgSettings(NewData, d.settings)
<1>1. NewData.file = None /\ NewData.messages = <<>> /\ NewData.rows = <<>>
  BY DEF NewData
<1>2. /\ fresh \in DataType /\ fresh.file = None
      /\ fresh.settings = d.settings
  <2>1. d.settings \in SettingMaps(Messages)
    BY Fields
  <2>2. /\ fresh \in DataType
        /\ fresh = [file |-> NewData.file,
                    messages |-> Given(NewData.messages, d.settings),
                    settings |-> d.settings, rows |-> NewData.rows]
    BY <2>1, NewIsData, Setting
  <2> QED
    BY <1>1, <2>2
<1>3. None \notin DOMAIN MessagesOf
  BY FilesAssumption DEF FilesAreMessages
<1>4. Restored(d) = LoadDbc(fresh, d.file)
  BY DEF Restored
<1> HIDE DEF fresh
<1>5. Good(fresh)
  BY <1>2, <1>3 DEF Good, Loaded
<1>6. Restored(d) \in DataType /\ Good(Restored(d))
  BY <1>2, <1>4, <1>5, Fields, LoadKeeps
<1>7. ASSUME Good(d), Loaded(d)
      PROVE  Restored(d).messages =
               [id \in DOMAIN d.rows |-> Applied(d.rows[id])]
  <2>1. d.file \in DOMAIN MessagesOf /\ d.file # fresh.file
    BY <1>2, <1>3, <1>7 DEF Loaded
  <2>2. Restored(d).messages = Given(Parsed(d.file), d.settings)
    BY <1>2, <1>4, <2>1, Loading
  <2>3. DOMAIN d.rows = MessagesOf[d.file]
    BY <1>7 DEF Good
  <2>4. ASSUME NEW id \in DOMAIN d.rows
        PROVE  Given(Parsed(d.file), d.settings)[id] = Applied(d.rows[id])
    <3>1. RowIsSaved(d, id)
      BY <1>7 DEF Good
    <3>2. CASE id \in DOMAIN d.settings
      BY <2>1, <2>3, <3>1, <3>2, ParsedIsMap DEF Given, RowIsSaved
    <3>3. CASE id \notin DOMAIN d.settings
      <4>1. Given(Parsed(d.file), d.settings)[id] = [cycle |-> "0", init |-> ""]
        BY <2>3, <3>3 DEF Given, Parsed
      <4>2. d.rows[id] \in Settings
        BY Fields, SettingMap
      <4> QED
        BY <3>1, <3>3, <4>1, <4>2, BlankRow DEF RowIsSaved
    <3> QED
      BY <3>2, <3>3
  <2>5. Given(Parsed(d.file), d.settings)
          = [id \in MessagesOf[d.file] |->
               Given(Parsed(d.file), d.settings)[id]]
    BY DEF Given, Parsed
  <2> QED
    BY <2>2, <2>3, <2>4, <2>5
<1> QED
  BY <1>6, <1>7

-----------------------------------------------------------------------------
(* What the broadcasts make of a user.                                       *)

LEMMA UserFields ==
  ASSUME NEW u \in UserType
  PROVE  /\ u = [candb |-> u.candb, current |-> u.current, prop |-> u.prop]
         /\ u.candb \in Databases
         /\ u.current \in DataNodes \cup {None}
         /\ u.prop \in DataNodes \cup {None}
BY DEF UserType

LEMMA Updated ==
  ASSUME NEW u \in UserType, NEW n \in DataNodes, NEW messages \in MessageMaps
  PROVE  /\ CanDbUpdated(u, n, messages) =
              [candb |-> [m \in DOMAIN u.candb \cup {n} |->
                            IF m = n THEN messages ELSE u.candb[m]],
               current |-> IF u.current = None THEN n ELSE u.current,
               prop |-> u.prop]
         /\ CanDbUpdated(u, n, messages) \in UserType
<1> DEFINE dbs == [m \in DOMAIN u.candb \cup {n} |->
                     IF m = n THEN messages ELSE u.candb[m]]
           now == IF u.current = None THEN n ELSE u.current
<1>1. CanDbUpdated(u, n, messages) =
        [candb |-> dbs, current |-> now, prop |-> u.prop]
  <2>1. CanDbUpdated(u, n, messages) =
          [u EXCEPT !.candb = dbs, !.current = now]
    BY DEF CanDbUpdated
  <2> HIDE DEF dbs, now
  <2> QED
    BY <2>1, UserFields
<1>2. dbs \in Databases
  <2>1. u.candb \in [DOMAIN u.candb -> MessageMaps]
        /\ DOMAIN u.candb \subseteq DataNodes
    BY UserFields, DatabaseMap
  <2>2. dbs \in [DOMAIN u.candb \cup {n} -> MessageMaps]
    BY <2>1
  <2>3. DOMAIN u.candb \cup {n} \in SUBSET DataNodes
    BY <2>1
  <2> HIDE DEF dbs
  <2> QED
    BY <2>2, <2>3 DEF Databases
<1>3. now \in DataNodes \cup {None} /\ u.prop \in DataNodes \cup {None}
  BY UserFields
<1> HIDE DEF dbs, now
<1>4. CanDbUpdated(u, n, messages) \in UserType
  BY <1>1, <1>2, <1>3 DEF UserType
<1> QED
  BY <1>1, <1>4 DEF dbs, now

LEMMA Requested ==
  ASSUME NEW u \in UserType, NEW dbs \in [DataNodes -> DataType],
         NEW first \in DataNodes \cup {None}
  PROVE  /\ DbsRequested(u, dbs, first) =
              [candb |-> [m \in Alive(DataNodes) |-> dbs[m].messages],
               current |-> IF u.current = None THEN first ELSE u.current,
               prop |-> u.prop]
         /\ DbsRequested(u, dbs, first) \in UserType
<1> DEFINE copies == [m \in Alive(DataNodes) |-> dbs[m].messages]
           now == IF u.current = None THEN first ELSE u.current
<1>1. DbsRequested(u, dbs, first) =
        [candb |-> copies, current |-> now, prop |-> u.prop]
  <2>1. DbsRequested(u, dbs, first) =
          [u EXCEPT !.candb = copies, !.current = now]
    BY DEF DbsRequested
  <2> HIDE DEF copies, now
  <2> QED
    BY <2>1, UserFields
<1>2. copies \in Databases
  <2>1. Alive(DataNodes) \in SUBSET DataNodes
    BY DEF Alive
  <2>2. \A m \in DataNodes : dbs[m].messages \in MessageMaps
    BY Fields
  <2>3. copies \in [Alive(DataNodes) -> MessageMaps]
    BY <2>1, <2>2
  <2> HIDE DEF copies
  <2> QED
    BY <2>1, <2>3 DEF Databases
<1>3. now \in DataNodes \cup {None} /\ u.prop \in DataNodes \cup {None}
  BY UserFields
<1> HIDE DEF copies, now
<1>4. DbsRequested(u, dbs, first) \in UserType
  BY <1>1, <1>2, <1>3 DEF UserType
<1> QED
  BY <1>1, <1>4 DEF copies, now

LEMMA Deleted ==
  ASSUME NEW u \in UserType, NEW n \in DataNodes,
         NEW heir \in DataNodes \cup {None}
  PROVE  /\ NodeDeleted(u, n, heir) =
              [candb |-> [m \in DOMAIN u.candb \ {n} |-> u.candb[m]],
               current |-> IF u.current = n THEN heir ELSE u.current,
               prop |-> IF u.current = n THEN heir ELSE u.prop]
         /\ NodeDeleted(u, n, heir) \in UserType
<1> DEFINE left == [m \in DOMAIN u.candb \ {n} |-> u.candb[m]]
           now == IF u.current = n THEN heir ELSE u.current
           name == IF u.current = n THEN heir ELSE u.prop
<1>1. NodeDeleted(u, n, heir) =
        [candb |-> left, current |-> now, prop |-> name]
  <2>1. NodeDeleted(u, n, heir) =
          [u EXCEPT !.candb = left, !.current = now, !.prop = name]
    BY DEF NodeDeleted
  <2> HIDE DEF left, now, name
  <2> QED
    BY <2>1, UserFields
<1>2. left \in Databases
  <2>1. u.candb \in [DOMAIN u.candb -> MessageMaps]
        /\ DOMAIN u.candb \subseteq DataNodes
    BY UserFields, DatabaseMap
  <2>2. left \in [DOMAIN u.candb \ {n} -> MessageMaps]
    BY <2>1
  <2>3. DOMAIN u.candb \ {n} \in SUBSET DataNodes
    BY <2>1
  <2> HIDE DEF left
  <2> QED
    BY <2>2, <2>3 DEF Databases
<1>3. now \in DataNodes \cup {None} /\ name \in DataNodes \cup {None}
  BY UserFields
<1> HIDE DEF left, now, name
<1>4. NodeDeleted(u, n, heir) \in UserType
  BY <1>1, <1>2, <1>3 DEF UserType
<1> QED
  BY <1>1, <1>4 DEF left, now, name

LEMMA Chosen ==
  ASSUME NEW u \in UserType, NEW n
  PROVE  [u EXCEPT !.prop = n, !.current = n] =
           [candb |-> u.candb, current |-> n, prop |-> n]
<1> DEFINE named == [u EXCEPT !.prop = n]
<1>1. named = [candb |-> u.candb, current |-> u.current, prop |-> n]
  BY UserFields
<1>2. [u EXCEPT !.prop = n, !.current = n] = [named EXCEPT !.current = n]
  BY Zenon
<1> HIDE DEF named
<1>3. [named EXCEPT !.current = n]
        = [candb |-> u.candb, current |-> n, prop |-> n]
  BY <1>1
<1> QED
  BY <1>2, <1>3

LEMMA NewIsUser == NewUser \in UserType
<1>1. <<>> \in [{} -> MessageMaps]
  OBVIOUS
<1>2. <<>> \in Databases
  BY <1>1 DEF Databases
<1> QED
  BY <1>2 DEF NewUser, UserType, Databases

LEMMA OneOfNodes ==
  ASSUME NEW nodes \in SUBSET DataNodes, NEW n \in OneOf(nodes)
  PROVE  n \in DataNodes \cup {None}
BY DEF OneOf

-----------------------------------------------------------------------------
(* The inductive invariant: a user in a project has a copy of each of its    *)
(* databases and works with one, and the data of every node is good.         *)
Content(dbs) == [n \in Alive(DataNodes) |-> dbs[n].messages]

UserGood(u) ==
  /\ u.candb = Content(data)
  /\ u.current \in OneOf(Alive(DataNodes))
  /\ u.prop \in {None, u.current}

Inv ==
  /\ alive \subseteq DataNodes \cup Users
  /\ data \in [DataNodes -> DataType]
  /\ users \in [Users -> UserType]
  /\ \A n \in DataNodes \ alive : data[n] = NewData
  /\ \A u \in Users \ alive : users[u] = NewUser
  /\ \A n \in DataNodes : Good(data[n])
  /\ \A u \in Alive(Users) : UserGood(users[u])

LEMMA NewIsGood == Good(NewData)
<1>1. NewData.file = None
  BY DEF NewData
<1>2. None \notin DOMAIN MessagesOf
  BY FilesAssumption DEF FilesAreMessages
<1> QED
  BY <1>1, <1>2 DEF Good, Loaded

(* A node's data become x, and every user is told its messages.              *)
LEMMA Broadcast ==
  ASSUME Inv, NEW n \in DataNodes, NEW x \in DataType, Good(x),
         alive' = alive \cup {n},
         data' = [data EXCEPT ![n] = x],
         Told([u \in Users |-> CanDbUpdated(users[u], n, x.messages)])
  PROVE  Inv'
<1> USE DEF Inv
<1>1. /\ alive' \subseteq DataNodes \cup Users
      /\ data' \in [DataNodes -> DataType]
      /\ \A m \in DataNodes : Good(data'[m])
      /\ \A m \in DataNodes \ alive' : data'[m] = NewData
  OBVIOUS
<1>2. x.messages \in MessageMaps
  BY Fields
<1>3. ASSUME NEW u \in Users
      PROVE  users'[u] = IF u \in alive
                         THEN CanDbUpdated(users[u], n, x.messages)
                         ELSE users[u]
  BY DEF Told
<1>4. users' \in [Users -> UserType]
  <2>1. ASSUME NEW u \in Users
        PROVE  users'[u] \in UserType
    <3>1. users[u] \in UserType
      OBVIOUS
    <3>2. CanDbUpdated(users[u], n, x.messages) \in UserType
      BY <1>2, <3>1, Updated
    <3> QED
      BY <1>3, <3>1, <3>2
  <2>2. users' = [u \in Users |-> users'[u]]
    BY DEF Told
  <2> QED
    BY <2>1, <2>2
<1>5. \A u \in Users \ alive' : users'[u] = NewUser
  BY <1>3
<1>6. Alive(DataNodes)' = Alive(DataNodes) \cup {n}
  BY DEF Alive
<1>7. ASSUME NEW u \in Alive(Users)'
      PROVE  UserGood(users[u])'
  <2>1. u \in Alive(Users) /\ u \in Users /\ u \in alive
    BY <1>7, NodesAssumption DEF Alive
  <2> DEFINE old == users[u]
             new == CanDbUpdated(old, n, x.messages)
  <2>2. users'[u] = new /\ old \in UserType /\ UserGood(old)
    BY <2>1, <1>3
  <2>3. /\ new.candb = [m \in DOMAIN old.candb \cup {n} |->
                          IF m = n THEN x.messages ELSE old.candb[m]]
        /\ new.current = IF old.current = None THEN n ELSE old.current
        /\ new.prop = old.prop
    <3>1. new = [candb |-> [m \in DOMAIN old.candb \cup {n} |->
                              IF m = n THEN x.messages ELSE old.candb[m]],
                 current |-> IF old.current = None THEN n ELSE old.current,
                 prop |-> old.prop]
      BY <2>2, <1>2, Updated
    <3> HIDE DEF new, old
    <3> QED
      BY <3>1
  <2>4. old.candb = [m \in Alive(DataNodes) |-> data[m].messages]
    BY <2>2 DEF UserGood, Content
  <2> HIDE DEF new, old
  <2>5. new.candb = Content(data)'
    <3>1. DOMAIN old.candb = Alive(DataNodes)
      BY <2>4
    <3>2. new.candb = [m \in Alive(DataNodes)' |->
                         IF m = n THEN x.messages ELSE old.candb[m]]
      BY <2>3, <3>1, <1>6
    <3>3. ASSUME NEW m \in Alive(DataNodes)'
          PROVE  (IF m = n THEN x.messages ELSE old.candb[m])
                   = data'[m].messages
      <4>1. m \in DataNodes
        BY <3>3 DEF Alive
      <4>2. CASE m = n
        BY <4>1, <4>2
      <4>3. CASE m # n
        BY <4>1, <4>3, <2>4, <1>6
      <4> QED
        BY <4>2, <4>3
    <3> QED
      BY <3>2, <3>3 DEF Content
  <2>6. /\ old.current \in OneOf(Alive(DataNodes))
        /\ old.prop \in {None, old.current}
    BY <2>2 DEF UserGood
  <2>7. new.current \in OneOf(Alive(DataNodes))'
    BY <2>3, <2>6, <1>6 DEF OneOf
  <2>8. new.prop \in {None, new.current}
    BY <2>3, <2>6
  <2> QED
    BY <2>2, <2>5, <2>7, <2>8 DEF UserGood
<1> QED
  BY <1>1, <1>4, <1>5, <1>7

LEMMA CreateDataKeeps ==
  ASSUME Inv, NEW n \in DataNodes, CreateData(n)
  PROVE  Inv'
<1>1. NewData.messages = <<>>
  BY DEF NewData
<1>2. Told([u \in Users |-> CanDbUpdated(users[u], n, NewData.messages)])
  BY <1>1 DEF CreateData
<1> QED
  BY <1>2, NewIsData, NewIsGood, Broadcast DEF CreateData

LEMMA ChangeFileKeeps ==
  ASSUME Inv, NEW n \in DataNodes, ChangeFile(n)
  PROVE  Inv'
<1>1. PICK file \in Files \ {data[n].file} :
        /\ data' = [data EXCEPT ![n] = LoadDbc(@, file)]
        /\ Told([u \in Users |->
                   CanDbUpdated(users[u], n, data'[n].messages)])
  BY DEF ChangeFile
<1> DEFINE x == LoadDbc(data[n], file)
<1>2. x \in DataType /\ Good(x)
  BY LoadKeeps DEF Inv
<1>3. data' = [data EXCEPT ![n] = x] /\ data'[n] = x
  BY <1>1 DEF Inv
<1>4. alive' = alive \cup {n}
  BY DEF ChangeFile, Alive
<1> HIDE DEF x
<1>5. Told([u \in Users |-> CanDbUpdated(users[u], n, x.messages)])
  BY <1>1, <1>3
<1> QED
  BY <1>2, <1>3, <1>4, <1>5, Broadcast

LEMMA CloseEditorKeeps ==
  ASSUME Inv, NEW n \in DataNodes, CloseEditor(n)
  PROVE  Inv'
<1>1. PICK id \in DOMAIN data[n].rows, row \in Settings :
        LET rows == [data[n].rows EXCEPT ![id] = row]
        IN /\ data' = [data EXCEPT ![n] =
                         SetMsgSettings([@ EXCEPT !.rows = rows],
                                        GetMsgSettings(rows))]
           /\ Told([u \in Users |->
                      CanDbUpdated(users[u], n, data'[n].messages)])
  BY DEF CloseEditor
<1> DEFINE rows == [data[n].rows EXCEPT ![id] = row]
           x == SetMsgSettings([data[n] EXCEPT !.rows = rows],
                               GetMsgSettings(rows))
<1>2. data[n] \in DataType /\ Good(data[n])
  BY DEF Inv
<1>3. rows \in SettingMaps(Messages) /\ DOMAIN rows = DOMAIN data[n].rows
  <2>1. /\ DOMAIN data[n].rows \subseteq Messages
        /\ data[n].rows \in [DOMAIN data[n].rows -> Settings]
    BY <1>2, Fields, SettingMap
  <2>2. /\ rows \in [DOMAIN data[n].rows -> Settings]
        /\ DOMAIN rows = DOMAIN data[n].rows
    BY <2>1
  <2> HIDE DEF rows
  <2> QED
    BY <2>1, <2>2, SettingMap
<1>4. data' = [data EXCEPT ![n] = x] /\ data'[n] = x
  BY <1>1 DEF Inv
<1> HIDE DEF rows
<1>5. x \in DataType /\ Good(x)
  BY <1>2, <1>3, EditKeeps
<1>6. alive' = alive \cup {n}
  BY DEF CloseEditor, Alive
<1> HIDE DEF x
<1>7. Told([u \in Users |-> CanDbUpdated(users[u], n, x.messages)])
  BY <1>1, <1>4
<1> QED
  BY <1>4, <1>5, <1>6, <1>7, Broadcast

(* A user that is restored or created, or hears what was requested.          *)
LEMMA Answered ==
  ASSUME NEW u \in UserType, NEW dbs \in [DataNodes -> DataType],
         NEW first \in OneOf(Alive(DataNodes)),
         u.current \in OneOf(Alive(DataNodes)) \cup {None},
         u.prop \in {None, u.current}
  PROVE  LET after == DbsRequested(u, dbs, first)
         IN  /\ after \in UserType
             /\ after.candb = Content(dbs)
             /\ after.current \in OneOf(Alive(DataNodes))
             /\ after.prop \in {None, after.current}
<1> DEFINE after == DbsRequested(u, dbs, first)
<1>1. first \in DataNodes \cup {None}
  BY DEF OneOf, Alive
<1>2. /\ after = [candb |-> [m \in Alive(DataNodes) |-> dbs[m].messages],
                  current |-> IF u.current = None THEN first ELSE u.current,
                  prop |-> u.prop]
      /\ after \in UserType
  BY <1>1, Requested
<1> HIDE DEF after
<1>3. /\ after.candb = Content(dbs)
      /\ after.current = IF u.current = None THEN first ELSE u.current
      /\ after.prop = u.prop
  BY <1>2 DEF Content
<1>4. after.current \in OneOf(Alive(DataNodes))
  BY <1>3 DEF OneOf
<1>5. after.prop \in {None, after.current}
  BY <1>3
<1> QED
  BY <1>2, <1>3, <1>4, <1>5 DEF after

LEMMA CreateUserKeeps ==
  ASSUME Inv, NEW u \in Users, CreateUser(u)
  PROVE  Inv'
<1>1. PICK first \in OneOf(Alive(DataNodes)) :
        users' = [v \in Users |->
                    IF v = u THEN DbsRequested(NewUser, data, first)
                    ELSE IF v \in alive THEN DbsRequested(users[v], data, first)
                    ELSE users[v]]
  BY DEF CreateUser
<1>2. /\ alive' = alive \cup {u} /\ data' = data
      /\ data \in [DataNodes -> DataType]
      /\ users \in [Users -> UserType]
  BY DEF CreateUser, Inv
<1>3. Alive(DataNodes)' = Alive(DataNodes)
  BY <1>2, NodesAssumption DEF Alive
<1>4. Content(data)' = Content(data)
  BY <1>2, <1>3 DEF Content
<1>5. ASSUME NEW v \in Users, v \in alive \cup {u}
      PROVE  users'[v] \in UserType /\ UserGood(users[v])'
  <2> DEFINE old == IF v = u THEN NewUser ELSE users[v]
             new == DbsRequested(old, data, first)
  <2>1. users'[v] = new
    BY <1>1, <1>5
  <2>2. old \in UserType
    BY <1>2, NewIsUser
  <2>3. /\ old.current \in OneOf(Alive(DataNodes)) \cup {None}
        /\ old.prop \in {None, old.current}
    <3>1. CASE v = u
      <4>1. NewUser.current = None /\ NewUser.prop = None
        BY DEF NewUser
      <4> QED
        BY <3>1, <4>1
    <3>2. CASE v # u
      BY <1>5, <3>2 DEF Inv, UserGood, Alive
    <3> QED
      BY <3>1, <3>2
  <2> HIDE DEF old
  <2>4. /\ new \in UserType
        /\ new.candb = Content(data)
        /\ new.current \in OneOf(Alive(DataNodes))
        /\ new.prop \in {None, new.current}
    BY <1>2, <2>2, <2>3, Answered
  <2> HIDE DEF new
  <2> QED
    BY <1>3, <1>4, <2>1, <2>4 DEF UserGood
<1>6. \A v \in Users \ (alive \cup {u}) : users'[v] = users[v]
  BY <1>1
<1>7. users' \in [Users -> UserType]
  <2>1. \A v \in Users : users'[v] \in UserType
    BY <1>2, <1>5, <1>6
  <2>2. users' = [v \in Users |-> users'[v]]
    BY <1>1
  <2> QED
    BY <2>1, <2>2
<1>8. \A v \in Alive(Users)' : UserGood(users[v])'
  BY <1>2, <1>5 DEF Alive
<1> QED
  BY <1>2, <1>6, <1>7, <1>8 DEF Inv

LEMMA DeleteDataKeeps ==
  ASSUME Inv, NEW n \in DataNodes, DeleteData(n)
  PROVE  Inv'
<1>1. PICK heir \in OneOf(Alive(DataNodes) \ {n}) :
        Told([u \in Users |-> NodeDeleted(users[u], n, heir)])
  BY DEF DeleteData
<1>2. /\ n \in Alive(DataNodes)
      /\ alive' = alive \ {n} /\ data' = [data EXCEPT ![n] = NewData]
      /\ data \in [DataNodes -> DataType]
      /\ users \in [Users -> UserType]
  BY DEF DeleteData, Inv
<1>3. /\ alive' \subseteq DataNodes \cup Users
      /\ data' \in [DataNodes -> DataType]
      /\ \A m \in DataNodes : Good(data'[m])
      /\ \A m \in DataNodes \ alive' : data'[m] = NewData
  BY <1>2, NewIsData, NewIsGood DEF Inv
<1>4. heir \in DataNodes \cup {None}
  BY <1>1 DEF OneOf, Alive
<1>5. Alive(DataNodes)' = Alive(DataNodes) \ {n}
  BY <1>2 DEF Alive
<1>6. ASSUME NEW u \in Users
      PROVE  /\ users'[u] = IF u \in alive THEN NodeDeleted(users[u], n, heir)
                                           ELSE users[u]
             /\ users'[u] \in UserType
  <2>1. users'[u] = IF u \in alive THEN NodeDeleted(users[u], n, heir)
                                   ELSE users[u]
    BY <1>1 DEF Told
  <2>2. users[u] \in UserType
    BY <1>2
  <2>3. NodeDeleted(users[u], n, heir) \in UserType
    BY <1>4, <2>2, Deleted
  <2> QED
    BY <2>1, <2>2, <2>3
<1>7. users' \in [Users -> UserType]
  <2>1. users' = [u \in Users |-> users'[u]]
    BY <1>1 DEF Told
  <2> QED
    BY <1>6, <2>1
<1>8. \A u \in Users \ alive' : users'[u] = NewUser
  BY <1>2, <1>6, NodesAssumption DEF Inv
<1>9. ASSUME NEW u \in Alive(Users)'
      PROVE  UserGood(users[u])'
  <2>1. u \in Alive(Users) /\ u \in Users /\ u \in alive
    BY <1>2, <1>9 DEF Alive
  <2> DEFINE old == users[u]
             new == NodeDeleted(old, n, heir)
  <2>2. users'[u] = new /\ old \in UserType /\ UserGood(old)
    BY <1>2, <1>6, <2>1 DEF Inv
  <2>3. new = [candb |-> [m \in DOMAIN old.candb \ {n} |-> old.candb[m]],
               current |-> IF old.current = n THEN heir ELSE old.current,
               prop |-> IF old.current = n THEN heir ELSE old.prop]
    BY <1>4, <2>2, Deleted
  <2> HIDE DEF new, old
  <2>4. /\ new.candb = [m \in DOMAIN old.candb \ {n} |-> old.candb[m]]
        /\ new.current = IF old.current = n THEN heir ELSE old.current
        /\ new.prop = IF old.current = n THEN heir ELSE old.prop
    BY <2>3
  <2>5. /\ old.candb = [m \in Alive(DataNodes) |-> data[m].messages]
        /\ old.current \in OneOf(Alive(DataNodes))
        /\ old.prop \in {None, old.current}
    BY <2>2 DEF UserGood, Content
  <2>6. new.candb = Content(data)'
    <3>1. new.candb = [m \in Alive(DataNodes)' |-> old.candb[m]]
      BY <1>5, <2>4, <2>5
    <3>2. ASSUME NEW m \in Alive(DataNodes)'
          PROVE  old.candb[m] = data'[m].messages
      <4>1. m \in DataNodes /\ m # n /\ m \in Alive(DataNodes)
        BY <1>5, <3>2 DEF Alive
      <4> QED
        BY <1>2, <2>5, <4>1
    <3> QED
      BY <3>1, <3>2 DEF Content
  <2>7. new.current \in OneOf(Alive(DataNodes))'
    BY <1>1, <1>2, <1>5, <2>4, <2>5 DEF OneOf
  <2>8. new.prop \in {None, new.current}
    BY <2>4, <2>5
  <2> QED
    BY <2>2, <2>6, <2>7, <2>8 DEF UserGood
<1> QED
  BY <1>3, <1>7, <1>8, <1>9 DEF Inv

LEMMA DeleteUserKeeps ==
  ASSUME Inv, NEW u \in Users, DeleteUser(u)
  PROVE  Inv'
<1>1. /\ alive' = alive \ {u} /\ data' = data
      /\ users' = [users EXCEPT ![u] = NewUser]
  BY DEF DeleteUser
<1>2. Alive(DataNodes)' = Alive(DataNodes)
  BY <1>1, NodesAssumption DEF Alive, DeleteUser
<1>3. users' \in [Users -> UserType]
  BY <1>1, NewIsUser DEF Inv
<1>4. \A v \in Users \ alive' : users'[v] = NewUser
  BY <1>1 DEF Inv
<1>5. \A v \in Alive(Users)' : UserGood(users[v])'
  BY <1>1, <1>2 DEF Inv, UserGood, Content, Alive
<1>6. \A n \in DataNodes \ alive' : data'[n] = NewData
  BY <1>1, NodesAssumption DEF Inv, DeleteUser, Alive
<1> QED
  BY <1>1, <1>3, <1>4, <1>5, <1>6 DEF Inv

LEMMA ChangeDatabaseKeeps ==
  ASSUME Inv, NEW u \in Users, ChangeDatabase(u)
  PROVE  Inv'
<1>1. PICK n \in OneOf(DOMAIN users[u].candb) :
        users' = [users EXCEPT ![u].prop = n, ![u].current = n]
  BY DEF ChangeDatabase
<1>2. /\ u \in Alive(Users) /\ alive' = alive /\ data' = data
      /\ users \in [Users -> UserType]
      /\ users[u] \in UserType /\ UserGood(users[u])
  BY DEF ChangeDatabase, Inv
<1>3. n \in OneOf(Alive(DataNodes)) /\ n \in DataNodes \cup {None}
  <2>1. DOMAIN users[u].candb = Alive(DataNodes)
    BY <1>2 DEF UserGood, Content
  <2> QED
    BY <1>1, <2>1 DEF OneOf, Alive
<1> DEFINE new == [candb |-> users[u].candb, current |-> n, prop |-> n]
<1>4. users' = [users EXCEPT ![u] = new]
  <2>1. [users[u] EXCEPT !.prop = n, !.current = n] = new
    BY <1>2, Chosen
  <2>2. users' = [users EXCEPT ![u] = [users[u] EXCEPT !.prop = n, !.current = n]]
    BY <1>1, <1>2
  <2> QED
    BY <2>1, <2>2
<1>5. new \in UserType
  BY <1>2, <1>3, UserFields DEF UserType
<1>6. new.candb = Content(data) /\ new.current = n /\ new.prop = n
  BY <1>2 DEF UserGood
<1> HIDE DEF new
<1>7. users' \in [Users -> UserType]
  BY <1>2, <1>4, <1>5
<1>8. \A v \in Users \ alive' : users'[v] = NewUser
  BY <1>2, <1>4 DEF Inv, Alive
<1>9. ASSUME NEW v \in Alive(Users)'
      PROVE  UserGood(users[v])'
  <2>1. v \in Users /\ v \in Alive(Users)
    BY <1>2, <1>9 DEF Alive
  <2>2. CASE v = u
    <3>1. users'[v] = new
      BY <1>2, <1>4, <2>1, <2>2
    <3> QED
      BY <1>2, <1>3, <1>6, <3>1 DEF UserGood, Content, Alive
  <2>3. CASE v # u
    <3>1. users'[v] = users[v] /\ UserGood(users[v])
      BY <1>2, <1>4, <2>1, <2>3 DEF Inv
    <3> QED
      BY <1>2, <3>1 DEF UserGood, Content, Alive
  <2> QED
    BY <2>2, <2>3
<1> QED
  BY <1>2, <1>7, <1>8, <1>9 DEF Inv

LEMMA ReloadProjectKeeps ==
  ASSUME Inv, ReloadProject
  PROVE  Inv'
<1>1. PICK first \in OneOf(Alive(DataNodes)) :
        users' = [u \in Users |->
                    IF u \in alive
                    THEN LET kept == IF u \in Senders THEN None
                                     ELSE users[u].prop
                         IN DbsRequested([NewUser EXCEPT !.prop = kept,
                                                         !.current = kept],
                                         data', first)
                    ELSE users[u]]
  BY DEF ReloadProject
<1>2. /\ alive' = alive
      /\ data' = [n \in DataNodes |->
                    IF n \in alive THEN Restored(data[n]) ELSE data[n]]
      /\ data \in [DataNodes -> DataType]
      /\ users \in [Users -> UserType]
  BY DEF ReloadProject, Inv
<1>3. Alive(DataNodes)' = Alive(DataNodes)
  BY <1>2 DEF Alive
<1>4. ASSUME NEW n \in DataNodes
      PROVE  data'[n] \in DataType /\ Good(data'[n])
  <2>1. data[n] \in DataType /\ Good(data[n])
    BY DEF Inv
  <2>2. Restored(data[n]) \in DataType /\ Good(Restored(data[n]))
    BY <2>1, RestoreGood
  <2> QED
    BY <1>2, <2>1, <2>2
<1>5. data' \in [DataNodes -> DataType]
  <2>1. data' = [n \in DataNodes |-> data'[n]]
    BY <1>2
  <2> QED
    BY <1>4, <2>1
<1>6. \A n \in DataNodes \ alive' : data'[n] = NewData
  BY <1>2 DEF Inv
<1>7. ASSUME NEW u \in Users, u \in alive
      PROVE  users'[u] \in UserType /\ UserGood(users[u])'
  <2> DEFINE kept == IF u \in Senders THEN None ELSE users[u].prop
             old == [NewUser EXCEPT !.prop = kept, !.current = kept]
             new == DbsRequested(old, data', first)
  <2>1. users'[u] = new
    BY <1>1, <1>7
  <2>2. users[u] \in UserType /\ UserGood(users[u])
    BY <1>2, <1>7 DEF Inv, Alive
  <2>3. /\ kept \in DataNodes \cup {None}
        /\ kept \in OneOf(Alive(DataNodes)) \cup {None}
    BY <2>2, UserFields DEF UserGood
  <2> HIDE DEF kept
  <2>4. old = [candb |-> NewUser.candb, current |-> kept, prop |-> kept]
    BY NewIsUser, Chosen
  <2>5. old \in UserType
    BY <2>3, <2>4, NewIsUser, UserFields DEF UserType
  <2>6. old.current = kept /\ old.prop = kept
    BY <2>4
  <2> HIDE DEF old
  <2>7. /\ new \in UserType
        /\ new.candb = Content(data')
        /\ new.current \in OneOf(Alive(DataNodes))
        /\ new.prop \in {None, new.current}
    BY <1>5, <2>3, <2>5, <2>6, Answered
  <2>8. Content(data)' = Content(data')
    BY <1>3 DEF Content
  <2> HIDE DEF new
  <2> QED
    BY <1>3, <2>1, <2>7, <2>8 DEF UserGood
<1>8. \A u \in Users \ alive : users'[u] = users[u]
  BY <1>1
<1>9. users' \in [Users -> UserType]
  <2>1. \A u \in Users : users'[u] \in UserType
    BY <1>2, <1>7, <1>8
  <2>2. users' = [u \in Users |-> users'[u]]
    BY <1>1
  <2> QED
    BY <2>1, <2>2
<1>10. \A u \in Alive(Users)' : UserGood(users[u])'
  BY <1>2, <1>7 DEF Alive
<1> QED
  BY <1>2, <1>4, <1>5, <1>6, <1>8, <1>9, <1>10 DEF Inv

(* The copies, the databases and the tables agree, always.                   *)
THEOREM Invariance == Spec => []Inv
<1>1. Init => Inv
  <2> SUFFICES ASSUME Init PROVE Inv
    OBVIOUS
  <2>1. /\ alive = {} /\ data \in [DataNodes -> DataType]
        /\ users \in [Users -> UserType]
        /\ \A n \in DataNodes : data[n] = NewData
        /\ \A u \in Users : users[u] = NewUser
    BY NewIsData, NewIsUser DEF Init
  <2> QED
    BY <2>1, NewIsGood DEF Inv, Alive
<1>2. Inv /\ [Next]_vars => Inv'
  <2> SUFFICES ASSUME Inv, [Next]_vars PROVE Inv'
    OBVIOUS
  <2>1. ASSUME NEW n \in DataNodes, CreateData(n) PROVE Inv'
    BY <2>1, CreateDataKeeps
  <2>2. ASSUME NEW n \in DataNodes, DeleteData(n) PROVE Inv'
    BY <2>2, DeleteDataKeeps
  <2>3. ASSUME NEW n \in DataNodes, ChangeFile(n) PROVE Inv'
    BY <2>3, ChangeFileKeeps
  <2>4. ASSUME NEW n \in DataNodes, CloseEditor(n) PROVE Inv'
    BY <2>4, CloseEditorKeeps
  <2>5. ASSUME NEW u \in Users, CreateUser(u) PROVE Inv'
    BY <2>5, CreateUserKeeps
  <2>6. ASSUME NEW u \in Users, DeleteUser(u) PROVE Inv'
    BY <2>6, DeleteUserKeeps
  <2>7. ASSUME NEW u \in Users, ChangeDatabase(u) PROVE Inv'
    BY <2>7, ChangeDatabaseKeeps
  <2>8. CASE ReloadProject
    BY <2>8, ReloadProjectKeeps
  <2>9. CASE UNCHANGED vars
    BY <2>9 DEF Inv, vars, UserGood, Content, Alive
  <2> QED
    BY <2>1, <2>2, <2>3, <2>4, <2>5, <2>6, <2>7, <2>8, <2>9 DEF Next
<1> QED
  BY <1>1, <1>2, PTL DEF Spec

(* Every variable keeps its type, and a node that is deleted leaves nothing. *)
THEOREM TypeCorrect == Spec => []TypeOK
<1>1. Inv => TypeOK
  BY DEF Inv, TypeOK, DataType, UserType, Databases
<1> QED
  BY <1>1, Invariance, PTL

(* Whatever the order in which nodes come, go, change and are restored, each *)
(* user's copies are the databases of the project (CanDbHandler, _candb).    *)
THEOREM CopiesInStep == Spec => []InStep
<1>1. Inv => InStep
  BY DEF Inv, InStep, UserGood, Content
<1> QED
  BY <1>1, Invariance, PTL

(* A user never works with a database that was deleted, and its property     *)
(* names the one it works with (CanDbHandler, _currentDb).                   *)
THEOREM DatabaseExists == Spec => []WorksWithOne
<1>1. Inv => WorksWithOne
  BY DEF Inv, WorksWithOne, UserGood
<1> QED
  BY <1>1, Invariance, PTL

(* What a row of CanSignalData's table says is what was last sent for its    *)
(* message (setMsgSettings, sendCanDbUpdated).                               *)
THEOREM TableIsSent == Spec => []ShownIsSent
<1>1. Inv => ShownIsSent
  BY DEF Inv, ShownIsSent, Good, Alive
<1> QED
  BY <1>1, Invariance, PTL

(* What CanSignalData's table shows is what a saved project brings back      *)
(* (getSettings, setSettings, loadDbc).                                      *)
THEOREM TableIsRestored == Spec => []ShownIsRestored
<1>1. Inv => ShownIsRestored
  <2> SUFFICES ASSUME Inv, NEW n \in Alive(DataNodes), Loaded(data[n])
               PROVE  Restored(data[n]).messages =
                        [id \in DOMAIN data[n].rows |->
                           Applied(data[n].rows[id])]
    BY DEF ShownIsRestored
  <2>1. data[n] \in DataType /\ Good(data[n])
    BY DEF Inv, Alive
  <2> QED
    BY <2>1, RestoreGood
<1> QED
  BY <1>1, Invariance, PTL
=============================================================================
