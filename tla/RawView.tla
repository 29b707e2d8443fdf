------------------------------ MODULE RawView ------------------------------
(* The CanRawView node of CANdevStudio: a table of the latest frames, which  *)
(* reuses its oldest row when it is full, and a second table with one row    *)
(* for each id and direction, found through a map that points into it.       *)
(* Everything runs in the GUI thread.                                        *)
(*                                                                           *)
(* A row is its number and its key, the direction and the id; the id of an   *)
(* extended frame is told from the same number in a standard one.            *)
EXTENDS Naturals, Sequences, Functions

CONSTANTS Keys,         \* directions and ids
          RowCountMax,  \* rowCountMax
          MaxSeen       \* bound on the frames shown between two clears

ASSUME RowCountAssumption == RowCountMax \in Nat \ {0} /\ MaxSeen \in Nat

VARIABLES viewStarted,  \* CanRawViewPrivate::_simStarted
          rowID,        \* _rowID
          tvModel,      \* _tvModel: [rowID, key]
          tvModelUnique,\* _tvModelUnique: [rowID, key]
          uniqueMap,    \* _uniqueRxMap and _uniqueTxMap: key -> row of that
          seen          \* history: keys of the frames shown since a clear

viewVars == <<viewStarted, rowID, tvModel, tvModelUnique, uniqueMap, seen>>

ViewInit == /\ viewStarted = FALSE
            /\ rowID = 0
            /\ tvModel = <<>>
            /\ tvModelUnique = <<>>
            /\ uniqueMap = <<>>
            /\ seen = <<>>

(* A mutant: the maps go on pointing to rows that were removed.              *)
ClearTables ==
  /\ rowID' = 0
  /\ tvModel' = <<>>
  /\ tvModelUnique' = <<>>
  /\ seen' = <<>>
  /\ UNCHANGED uniqueMap

ClearAll == /\ rowID' = 0
            /\ tvModel' = <<>>
            /\ tvModelUnique' = <<>>
            /\ uniqueMap' = <<>>
            /\ seen' = <<>>

StartView == /\ ~viewStarted
             /\ viewStarted' = TRUE
             /\ ClearAll

StopView == /\ viewStarted
            /\ viewStarted' = FALSE
            /\ UNCHANGED <<rowID, tvModel, tvModelUnique, uniqueMap, seen>>

(* The Clear button.                                                         *)
PressClear == ClearAll /\ UNCHANGED viewStarted

(* A mutant: the row that is reused is the newest one.                       *)
AppendedLast(row) ==
  IF Len(tvModel) < RowCountMax
  THEN Append(tvModel, row)
  ELSE [tvModel EXCEPT ![Len(tvModel)] = row]

(* The table with one more row, the first one taken out if it is full.       *)
Appended(row) ==
  Append(IF Len(tvModel) < RowCountMax THEN tvModel ELSE Tail(tvModel), row)

(* A mutant: the row of a key stays what it was.                             *)
ShowUniqueOnce(row) ==
  IF row.key \in DOMAIN uniqueMap
  THEN UNCHANGED <<tvModelUnique, uniqueMap>>
  ELSE /\ tvModelUnique' = Append(tvModelUnique, row)
       /\ uniqueMap' = [k \in DOMAIN uniqueMap \cup {row.key} |->
                          IF k = row.key THEN Len(tvModelUnique) + 1
                          ELSE uniqueMap[k]]

(* The row of a key is overwritten through the map, or made.                 *)
ShowUnique(row) ==
  IF row.key \in DOMAIN uniqueMap
  THEN /\ tvModelUnique' = [tvModelUnique EXCEPT ![uniqueMap[row.key]] = row]
       /\ UNCHANGED uniqueMap
  ELSE /\ tvModelUnique' = Append(tvModelUnique, row)
       /\ uniqueMap' = [k \in DOMAIN uniqueMap \cup {row.key} |->
                          IF k = row.key THEN Len(tvModelUnique) + 1
                          ELSE uniqueMap[k]]

FrameView(key) ==
  /\ Len(seen) < MaxSeen
  /\ LET row == [rowID |-> rowID, key |-> key] IN
     IF viewStarted
     THEN /\ tvModel' = Appended(row)
          /\ ShowUnique(row)
          /\ rowID' = rowID + 1
          /\ seen' = Append(seen, key)
     ELSE UNCHANGED <<tvModel, tvModelUnique, uniqueMap, rowID, seen>>
  /\ UNCHANGED viewStarted

-----------------------------------------------------------------------------
ViewRows == [rowID : Nat, key : Keys]

(* Tables hold rows, no more than they may; the map points into its table.   *)
ViewTypeOK ==
  /\ viewStarted \in BOOLEAN
  /\ rowID \in 0 .. MaxSeen
  /\ tvModel \in Seq(ViewRows) /\ Len(tvModel) <= RowCountMax
  /\ tvModelUnique \in Seq(ViewRows)
  /\ DOMAIN uniqueMap \subseteq Keys
  /\ \A k \in DOMAIN uniqueMap : uniqueMap[k] \in DOMAIN tvModelUnique
  /\ seen \in Seq(Keys)

(* The table shows the latest frames, all of them until it is full, under    *)
(* the numbers they came in.                                                 *)
ShowsLatest ==
  LET skipped == IF Len(seen) > RowCountMax THEN Len(seen) - RowCountMax
                 ELSE 0
  IN tvModel = [i \in 1 .. Len(seen) - skipped |->
                  [rowID |-> skipped + i - 1, key |-> seen[skipped + i]]]

(* The other table has one row for each key that came since the last clear,  *)
(* and it is the latest frame's, however long that one has left the first    *)
(* table; the map finds it.                                                  *)
UniqueShowsLatest ==
  /\ DOMAIN uniqueMap = Range(seen)
  /\ DOMAIN tvModelUnique = Range(uniqueMap)
  /\ \A k \in DOMAIN uniqueMap :
       LET row == tvModelUnique[uniqueMap[k]] IN
       /\ row.key = k
       /\ seen[row.rowID + 1] = k
       /\ \A i \in DOMAIN seen : seen[i] = k => i <= row.rowID + 1
=============================================================================
