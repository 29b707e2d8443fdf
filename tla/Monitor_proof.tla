--------------------------- MODULE Monitor_proof ----------------------------
(* Theorems about Monitor: its filter, its view, and what passes from one to *)
(* the other, for every set of frames, patterns and every bound.             *)
EXTENDS Monitor, SequenceTheorems, TLAPS

-----------------------------------------------------------------------------
(* Sequences.                                                                *)

LEMMA Appending ==
  ASSUME NEW S, NEW s \in Seq(S), NEW e \in S
  PROVE  /\ Append(s, e) \in Seq(S)
         /\ Len(Append(s, e)) = Len(s) + 1
         /\ \A i \in 1 .. Len(s) : Append(s, e)[i] = s[i]
         /\ Append(s, e)[Len(s) + 1] = e
  OBVIOUS

LEMMA FrontOfAppended ==
  ASSUME NEW S, NEW s \in Seq(S), NEW e \in S
  PROVE  /\ Append(s, e) # <<>>
         /\ Front(Append(s, e)) = s
         /\ Last(Append(s, e)) = e
<1>1. Append(s, e) # <<>> /\ Last(Append(s, e)) = e
  BY DEF Last
<1>2. Front(Append(s, e)) = SubSeq(Append(s, e), 1, Len(s))
  BY DEF Front
<1>3. SubSeq(Append(s, e), 1, Len(s)) = s
  OBVIOUS
<1> QED
  BY <1>1, <1>2, <1>3

LEMMA Removing ==
  ASSUME NEW S, NEW s \in Seq(S), NEW i \in 1 .. Len(s)
  PROVE  RemoveAt(s, i) \in Seq(S) /\ Len(RemoveAt(s, i)) = Len(s) - 1
<1>1. /\ SubSeq(s, 1, i - 1) \in Seq(S) /\ Len(SubSeq(s, 1, i - 1)) = i - 1
      /\ SubSeq(s, i + 1, Len(s)) \in Seq(S)
      /\ Len(SubSeq(s, i + 1, Len(s))) = Len(s) - i
  OBVIOUS
<1>2. ASSUME NEW a \in Seq(S), NEW b \in Seq(S)
      PROVE  a \o b \in Seq(S) /\ Len(a \o b) = Len(a) + Len(b)
  OBVIOUS
<1>3. Len(RemoveAt(s, i)) = (i - 1) + (Len(s) - i)
  BY <1>1, <1>2 DEF RemoveAt
<1>4. RemoveAt(s, i) \in Seq(S)
  BY <1>1, <1>2 DEF RemoveAt
<1> QED
  BY <1>3, <1>4

LEMMA Swapping ==
  ASSUME NEW S, NEW s \in Seq(S), NEW i \in 1 .. Len(s) - 1
  PROVE  Swapped(s, i) \in Seq(S) /\ Len(Swapped(s, i)) = Len(s)
  BY DEF Swapped

LEMMA Tailing ==
  ASSUME NEW S, NEW s \in Seq(S), s # <<>>
  PROVE  /\ Tail(s) \in Seq(S)
         /\ Len(Tail(s)) = Len(s) - 1
         /\ \A i \in 1 .. Len(s) - 1 : Tail(s)[i] = s[i + 1]
  OBVIOUS

LEMMA Adding ==
  ASSUME NEW S, NEW s \in Seq(S), NEW e \in S
  PROVE  <<e>> \o s \in Seq(S) /\ Len(<<e>> \o s) = Len(s) + 1
  OBVIOUS

-----------------------------------------------------------------------------
(* The lists that are applied.                                               *)

LEMMA RuleFields ==
  /\ \A p \in BOOLEAN : /\ [match |-> Frames, accept |-> p] \in Rules
                        /\ [match |-> Frames, accept |-> p].match = Frames
                        /\ [match |-> Frames, accept |-> p].accept = p
  /\ NewRule \in Rules
  BY DEF Rules, NewRule

LEMMA ListMade ==
  ASSUME NEW table \in Seq(Rules), NEW p \in BOOLEAN
  PROVE  LET list == AcceptList(table, p)
         IN  /\ list \in Seq(Rules)
             /\ list # <<>> /\ Last(list).match = Frames
             /\ Front(list) = table /\ Last(list).accept = p
<1> DEFINE e == [match |-> Frames, accept |-> p]
<1>1. e \in Rules /\ e.match = Frames /\ e.accept = p
  BY RuleFields
<1>2. AcceptList(table, p) = Append(table, e)
  BY DEF AcceptList
<1> HIDE DEF e
<1> QED
  BY <1>1, <1>2, FrontOfAppended

(* Whatever list is made from a table and a box, and saved, is made again.   *)
LEMMA ListRestored ==
  ASSUME NEW table \in Seq(Rules), NEW p \in BOOLEAN
  PROVE  LET list == AcceptList(table, p)
         IN  AcceptList(TableOf(list), PolicyOf(list)) = list
  BY ListMade DEF TableOf, PolicyOf

-----------------------------------------------------------------------------
(* The filter.                                                               *)

FilterInv == FilterTypeOK /\ AppliedAsShown

(* The parts of FilterInv that relate the lists to the tables.               *)
ListsInv == /\ rows \in [Dirs -> Seq(Rules)]
            /\ policy \in [Dirs -> BOOLEAN]
            /\ acceptList \in [Dirs -> Seq(Rules)]
            /\ \A d \in Dirs : /\ acceptList[d] # <<>>
                               /\ Last(acceptList[d]).match = Frames
            /\ AppliedAsShown

(* Lists that are made anew for the tables that changed go on following.     *)
LEMMA ListsFollow ==
  ASSUME ListsInv, NEW dirs \in SUBSET Dirs, ListUpdated(dirs),
         rows' \in [Dirs -> Seq(Rules)], policy' \in [Dirs -> BOOLEAN],
         \A d \in Dirs \ dirs : rows'[d] = rows[d],
         "RX" \in dirs \/ policy'["RX"] = policy["RX"]
  PROVE  ListsInv'
<1>1. /\ acceptList' = [d \in Dirs |-> acceptList'[d]]
      /\ \A d \in Dirs :
           acceptList'[d] = IF d \in dirs THEN AcceptList(rows'[d], policy'[d])
                            ELSE acceptList[d]
  BY DEF ListUpdated
<1>2. ASSUME NEW d \in Dirs
      PROVE  /\ acceptList'[d] \in Seq(Rules)
             /\ acceptList'[d] # <<>> /\ Last(acceptList'[d]).match = Frames
  <2>1. CASE d \in dirs
    <3>1. rows'[d] \in Seq(Rules) /\ policy'[d] \in BOOLEAN
      OBVIOUS
    <3>2. acceptList'[d] = AcceptList(rows'[d], policy'[d])
      BY <1>1, <2>1
    <3>3. /\ AcceptList(rows'[d], policy'[d]) \in Seq(Rules)
          /\ AcceptList(rows'[d], policy'[d]) # <<>>
          /\ Last(AcceptList(rows'[d], policy'[d])).match = Frames
      BY <3>1, ListMade
    <3> QED
      BY <3>2, <3>3
  <2>2. CASE d \notin dirs
    BY <1>1, <2>2 DEF ListsInv
  <2> QED
    BY <2>1, <2>2
<1>3. acceptList' \in [Dirs -> Seq(Rules)]
  BY <1>1, <1>2
<1>4. acceptList'["RX"] = AcceptList(rows'["RX"], policy'["RX"])
  BY <1>1 DEF ListsInv, AppliedAsShown, Dirs
<1>5. \E default \in BOOLEAN :
        acceptList'["TX"] = AcceptList(rows'["TX"], default)
  <2>1. CASE "TX" \in dirs
    <3>1. policy'["TX"] \in BOOLEAN
      BY DEF Dirs
    <3> QED
      BY <1>1, <2>1, <3>1 DEF Dirs
  <2>2. CASE "TX" \notin dirs
    BY <1>1, <2>2 DEF ListsInv, AppliedAsShown, Dirs
  <2> QED
    BY <2>1, <2>2
<1> QED
  BY <1>2, <1>3, <1>4, <1>5 DEF ListsInv, AppliedAsShown

(* One table changes, and the list made from it.                             *)
LEMMA TableChanges ==
  ASSUME FilterInv, NEW d \in Dirs, NEW t \in Seq(Rules),
         rows' = [rows EXCEPT ![d] = t],
         UNCHANGED policy, ListUpdated({d})
  PROVE  ListsInv'
<1>1. ListsInv
  BY DEF FilterInv, FilterTypeOK, ListsInv
<1>2. /\ rows' \in [Dirs -> Seq(Rules)] /\ policy' \in [Dirs -> BOOLEAN]
      /\ \A e \in Dirs \ {d} : rows'[e] = rows[e]
  BY DEF FilterInv, FilterTypeOK
<1> QED
  BY <1>1, <1>2, ListsFollow

(* The rest of FilterInv.                                                    *)
Bounds(rs, cs) ==
  /\ Len(rs["RX"]) + Len(rs["TX"]) <= MaxRows
  /\ cs \in [Dirs -> Nat]
  /\ \A d \in Dirs : cs[d] \in 0 .. Len(rs[d])

LEMMA FilterParts ==
  FilterInv <=> /\ ListsInv /\ Bounds(rows, current)
                /\ simStarted \in BOOLEAN /\ crashed \in BOOLEAN
  BY DEF FilterInv, FilterTypeOK, ListsInv, Bounds

LEMMA OneMoreFits ==
  ASSUME NEW a \in Nat, NEW b \in Nat, NEW c \in Nat, NEW max \in Nat,
         a + b <= max, c <= a \/ (c = a + 1 /\ a + b < max)
  PROVE  c + b <= max /\ b + c <= max
  OBVIOUS

(* The bounds of a table that is edited in one direction.                    *)
LEMMA BoundsKept ==
  ASSUME FilterInv, NEW d \in Dirs, NEW t \in Seq(Rules),
         \/ Len(t) <= Len(rows[d])
         \/ /\ Len(t) = Len(rows[d]) + 1
            /\ Len(rows["RX"]) + Len(rows["TX"]) < MaxRows,
         NEW i \in 0 .. Len(t)
  PROVE  Bounds([rows EXCEPT ![d] = t], [current EXCEPT ![d] = i])
<1>1. /\ rows \in [Dirs -> Seq(Rules)] /\ Bounds(rows, current)
  BY FilterParts DEF ListsInv
<1> DEFINE rs == [rows EXCEPT ![d] = t]
           cs == [current EXCEPT ![d] = i]
<1>2. \A e \in Dirs : rs[e] = IF e = d THEN t ELSE rows[e]
  BY <1>1
<1>3. /\ cs \in [Dirs -> Nat]
      /\ \A e \in Dirs : cs[e] = IF e = d THEN i ELSE current[e]
  BY <1>1 DEF Bounds
<1>4. \A e \in Dirs : Len(rows[e]) \in Nat /\ Len(rs[e]) \in Nat
  BY <1>1, <1>2
<1> HIDE DEF rs, cs
<1>5. \A e \in Dirs : cs[e] \in 0 .. Len(rs[e])
  BY <1>1, <1>2, <1>3 DEF Bounds
<1>6. Len(rs["RX"]) + Len(rs["TX"]) <= MaxRows
  <2>1. d = "RX" \/ d = "TX"
    BY DEF Dirs
  <2>2. /\ Len(rows["RX"]) \in Nat /\ Len(rows["TX"]) \in Nat /\ Len(t) \in Nat
        /\ Len(rows["RX"]) + Len(rows["TX"]) <= MaxRows
    BY <1>1, <1>4 DEF Dirs, Bounds
  <2>3. /\ Len(rs["RX"]) = IF d = "RX" THEN Len(t) ELSE Len(rows["RX"])
        /\ Len(rs["TX"]) = IF d = "TX" THEN Len(t) ELSE Len(rows["TX"])
    BY <1>2 DEF Dirs
  <2> DEFINE a == Len(rows["RX"])
             b == Len(rows["TX"])
             c == Len(t)
  <2>4. a \in Nat /\ b \in Nat /\ c \in Nat /\ a + b <= MaxRows
    BY <2>2
  <2>5. MaxRows \in Nat
    BY PatternsAssumption
  <2>6. b + a = a + b
    <3> HIDE DEF a, b
    <3> QED
      BY <2>4
  <2>7. CASE d = "RX"
    <3>1. /\ Len(rs["RX"]) = c /\ Len(rs["TX"]) = b
          /\ c <= a \/ (c = a + 1 /\ a + b < MaxRows)
      BY <2>3, <2>7
    <3> HIDE DEF a, b, c
    <3> QED
      BY <2>4, <2>5, <2>6, <3>1, OneMoreFits
  <2>8. CASE d = "TX"
    <3>1. /\ Len(rs["RX"]) = a /\ Len(rs["TX"]) = c
          /\ c <= b \/ (c = b + 1 /\ a + b < MaxRows)
      BY <2>3, <2>8
    <3> HIDE DEF a, b, c
    <3> QED
      BY <2>4, <2>5, <2>6, <3>1, OneMoreFits
  <2> QED
    BY <2>1, <2>7, <2>8
<1> QED
  BY <1>3, <1>5, <1>6 DEF Bounds, rs, cs

(* A table and its current row change, and the list made from the table.     *)
LEMMA EditedTable ==
  ASSUME FilterInv, NEW d \in Dirs, NEW t \in Seq(Rules),
         \/ Len(t) <= Len(rows[d])
         \/ /\ Len(t) = Len(rows[d]) + 1
            /\ Len(rows["RX"]) + Len(rows["TX"]) < MaxRows,
         NEW i \in 0 .. Len(t),
         rows' = [rows EXCEPT ![d] = t], current' = [current EXCEPT ![d] = i],
         UNCHANGED <<policy, simStarted, crashed>>, ListUpdated({d})
  PROVE  FilterInv'
<1>1. ListsInv'
  BY TableChanges
<1>2. Bounds(rows, current)'
  BY BoundsKept DEF Bounds
<1>3. simStarted' \in BOOLEAN /\ crashed' \in BOOLEAN
  BY FilterParts
<1> QED
  BY <1>1, <1>2, <1>3 DEF FilterInv, FilterTypeOK, ListsInv, Bounds

LEMMA EditKeeps ==
  ASSUME FilterInv, Edit
  PROVE  FilterInv'
<1>1. /\ ListsInv /\ Bounds(rows, current)
      /\ rows \in [Dirs -> Seq(Rules)]
      /\ policy \in [Dirs -> BOOLEAN]
      /\ current \in [Dirs -> Nat]
      /\ \A d \in Dirs : current[d] \in 0 .. Len(rows[d])
      /\ simStarted \in BOOLEAN /\ crashed \in BOOLEAN
  BY FilterParts DEF ListsInv, Bounds
<1>2. ASSUME ListsInv', Bounds(rows', current'),
             simStarted' \in BOOLEAN, crashed' \in BOOLEAN
      PROVE  FilterInv'
  BY <1>2 DEF FilterInv, FilterTypeOK, ListsInv, Bounds
<1>3. ASSUME NEW d \in Dirs, Select(d) PROVE FilterInv'
  <2>1. ListsInv'
    BY <1>1, <1>3 DEF Select, ListsInv, AppliedAsShown
  <2>2. PICK i \in DOMAIN rows[d] : current' = [current EXCEPT ![d] = i]
    BY <1>3 DEF Select
  <2>3. i \in 0 .. Len(rows[d]) /\ i \in Nat
    BY <1>1
  <2>4. Bounds(rows, current')
    BY <1>1, <2>2, <2>3 DEF Bounds
  <2> QED
    BY <1>1, <1>2, <1>3, <2>1, <2>4 DEF Select
<1>4. ASSUME NEW d \in Dirs, HandleListAdd(d) PROVE FilterInv'
  <2> DEFINE i == IF current[d] = 0 THEN 0 ELSE current[d] + 1
  <2>1. /\ <<NewRule>> \o rows[d] \in Seq(Rules)
        /\ Len(<<NewRule>> \o rows[d]) = Len(rows[d]) + 1
    BY <1>1, Adding, RuleFields
  <2>2. i \in 0 .. Len(<<NewRule>> \o rows[d])
    BY <1>1, <2>1
  <2>3. current' = [current EXCEPT ![d] = i]
    BY <1>4 DEF HandleListAdd
  <2> HIDE DEF i
  <2> QED
    BY <1>4, <2>1, <2>2, <2>3, EditedTable DEF HandleListAdd
<1>5. ASSUME NEW d \in Dirs, HandleListRemove(d) PROVE FilterInv'
  <2>1. CASE current[d] = 0
    <3> DEFINE t == rows[d]
    <3>1. /\ rows' = [rows EXCEPT ![d] = t]
          /\ current' = [current EXCEPT ![d] = 0]
      BY <1>1, <1>5, <2>1 DEF HandleListRemove
    <3>2. t \in Seq(Rules) /\ 0 \in 0 .. Len(t) /\ Len(t) <= Len(rows[d])
      BY <1>1
    <3> HIDE DEF t
    <3> QED
      BY <1>5, <3>1, <3>2, EditedTable DEF HandleListRemove
  <2>2. CASE current[d] # 0
    <3> DEFINE t == RemoveAt(rows[d], current[d])
    <3>1. t \in Seq(Rules) /\ Len(t) = Len(rows[d]) - 1
      BY <1>1, <2>2, Removing
    <3>2. rows' = [rows EXCEPT ![d] = t] /\ rows'[d] = t
      BY <1>1, <1>5, <2>2 DEF HandleListRemove
    <3>3. PICK i \in IF rows'[d] = <<>> THEN {0} ELSE DOMAIN rows'[d] :
            current' = [current EXCEPT ![d] = i]
      BY <1>5, <2>2 DEF HandleListRemove
    <3> HIDE DEF t
    <3>4. i \in 0 .. Len(t)
      BY <3>1, <3>2, <3>3
    <3>5. Len(t) <= Len(rows[d])
      BY <1>1, <3>1
    <3> QED
      BY <1>5, <3>1, <3>2, <3>3, <3>4, <3>5, EditedTable DEF HandleListRemove
  <2> QED
    BY <2>1, <2>2
<1>6. ASSUME NEW d \in Dirs, HandleListUp(d) PROVE FilterInv'
  <2> DEFINE t == Swapped(rows[d], current[d] - 1)
  <2>1. current[d] - 1 \in 1 .. Len(rows[d]) - 1
    BY <1>1, <1>6 DEF HandleListUp
  <2>2. t \in Seq(Rules) /\ Len(t) = Len(rows[d])
    BY <1>1, <2>1, Swapping
  <2>3. /\ rows' = [rows EXCEPT ![d] = t]
        /\ current' = [current EXCEPT ![d] = current[d] - 1]
    BY <1>6 DEF HandleListUp
  <2> HIDE DEF t
  <2>4. current[d] - 1 \in 0 .. Len(t) /\ Len(t) <= Len(rows[d])
    BY <1>1, <2>1, <2>2
  <2> QED
    BY <1>6, <2>2, <2>3, <2>4, EditedTable DEF HandleListUp
<1>7. ASSUME NEW d \in Dirs, HandleListDown(d) PROVE FilterInv'
  <2> DEFINE t == Swapped(rows[d], current[d])
  <2>1. current[d] \in 1 .. Len(rows[d]) - 1
    BY <1>7 DEF HandleListDown
  <2>2. t \in Seq(Rules) /\ Len(t) = Len(rows[d])
    BY <1>1, <2>1, Swapping
  <2>3. /\ rows' = [rows EXCEPT ![d] = t]
        /\ current' = [current EXCEPT ![d] = current[d] + 1]
    BY <1>7 DEF HandleListDown
  <2> HIDE DEF t
  <2>4. current[d] + 1 \in 0 .. Len(t) /\ Len(t) <= Len(rows[d])
    BY <1>1, <2>1, <2>2
  <2> QED
    BY <1>7, <2>2, <2>3, <2>4, EditedTable DEF HandleListDown
<1>8. ASSUME NEW d \in Dirs, HandleListDownOfNone(d) PROVE FilterInv'
  <2>1. ListsInv'
    BY <1>1, <1>8 DEF HandleListDownOfNone, ListsInv, AppliedAsShown
  <2> QED
    BY <1>1, <1>2, <1>8, <2>1 DEF HandleListDownOfNone
<1>9. ASSUME NEW d \in Dirs, CloseEditor(d) PROVE FilterInv'
  <2>1. PICK i \in DOMAIN rows[d], rule \in Rules :
          rows' = [rows EXCEPT ![d][i] = rule]
    BY <1>9 DEF CloseEditor
  <2> DEFINE t == [rows[d] EXCEPT ![i] = rule]
  <2>2. t \in Seq(Rules) /\ Len(t) = Len(rows[d])
    BY <1>1
  <2>3. /\ rows' = [rows EXCEPT ![d] = t]
        /\ current' = [current EXCEPT ![d] = current[d]]
    BY <1>1, <1>9, <2>1 DEF CloseEditor
  <2> HIDE DEF t
  <2>4. current[d] \in 0 .. Len(t) /\ Len(t) <= Len(rows[d])
    BY <1>1, <2>2
  <2> QED
    BY <1>9, <2>2, <2>3, <2>4, EditedTable DEF CloseEditor
<1>10. CASE ChangeRxPolicy
  <2>1. /\ policy' \in [Dirs -> BOOLEAN] /\ rows' = rows
        /\ ListUpdated({"RX", "TX"})
    BY <1>1, <1>10 DEF ChangeRxPolicy
  <2>2. ListsInv'
    BY <1>1, <2>1, ListsFollow DEF Dirs
  <2> QED
    BY <1>1, <1>2, <1>10, <2>2 DEF ChangeRxPolicy
<1>11. CASE ChangeTxPolicy
  <2>1. ListsInv'
    BY <1>1, <1>11 DEF ChangeTxPolicy, ListsInv, AppliedAsShown, Dirs
  <2> QED
    BY <1>1, <1>2, <1>11, <2>1 DEF ChangeTxPolicy
<1> QED
  BY <1>3, <1>4, <1>5, <1>6, <1>7, <1>8, <1>9, <1>10, <1>11 DEF Edit

LEMMA FilterStarts == FilterInit => FilterInv
<1> SUFFICES ASSUME FilterInit PROVE FilterInv
  OBVIOUS
<1>1. <<>> \in Seq(Rules) /\ Len(<<>>) = 0
  OBVIOUS
<1>2. /\ AcceptList(<<>>, TRUE) \in Seq(Rules)
      /\ AcceptList(<<>>, TRUE) # <<>>
      /\ Last(AcceptList(<<>>, TRUE)).match = Frames
  BY <1>1, ListMade
<1>3. ListsInv
  BY <1>1, <1>2 DEF FilterInit, ListsInv, AppliedAsShown, Dirs
<1>4. Bounds(rows, current)
  BY <1>1, PatternsAssumption DEF FilterInit, Bounds, Dirs
<1> QED
  BY <1>3, <1>4, FilterParts DEF FilterInit

-----------------------------------------------------------------------------
(* The view.                                                                 *)

(* Rows are numbered as frames are counted, and the map's rows are rows.     *)
Numbered == /\ rowID = Len(seen)
            /\ \A i \in DOMAIN tvModelUnique : tvModelUnique[i].rowID < Len(seen)
ViewInv == ViewTypeOK /\ Numbered /\ ShowsLatest /\ UniqueShowsLatest

EmptyView == /\ rowID = 0 /\ tvModel = <<>> /\ tvModelUnique = <<>>
             /\ uniqueMap = <<>> /\ seen = <<>> /\ viewStarted \in BOOLEAN

LEMMA EmptyViewIsGood == EmptyView => ViewInv
<1> SUFFICES ASSUME EmptyView PROVE ViewInv
  OBVIOUS
<1>1. /\ Range(<<>>) = {} /\ DOMAIN <<>> = {} /\ Len(<<>>) = 0
  BY DEF Range
<1>2. ViewTypeOK
  BY <1>1, RowCountAssumption DEF ViewTypeOK, EmptyView
<1>3. ShowsLatest
  BY <1>1, RowCountAssumption DEF ShowsLatest, EmptyView
<1>4. UniqueShowsLatest
  BY <1>1 DEF UniqueShowsLatest, EmptyView
<1>5. Numbered
  BY <1>1 DEF Numbered, EmptyView
<1> QED
  BY <1>2, <1>3, <1>4, <1>5 DEF ViewInv

(* The table of the latest frames.                                           *)
LEMMA TableShows ==
  ASSUME ViewInv, NEW key \in Keys, Len(seen) < MaxSeen,
         tvModel' = Appended([rowID |-> rowID, key |-> key]),
         seen' = Append(seen, key)
  PROVE  /\ tvModel' \in Seq(ViewRows) /\ Len(tvModel') <= RowCountMax
         /\ ShowsLatest'
<1> DEFINE row == [rowID |-> rowID, key |-> key]
           n == Len(seen)
           skipped == IF n > RowCountMax THEN n - RowCountMax ELSE 0
           now == IF n + 1 > RowCountMax THEN n + 1 - RowCountMax ELSE 0
<1>1. /\ seen \in Seq(Keys) /\ n \in Nat /\ rowID = n
      /\ tvModel \in Seq(ViewRows)
      /\ RowCountMax \in Nat \ {0}
      /\ tvModel = [i \in 1 .. n - skipped |->
                      [rowID |-> skipped + i - 1, key |-> seen[skipped + i]]]
  BY RowCountAssumption DEF ViewInv, ViewTypeOK, ShowsLatest, Numbered
<1>2. row \in ViewRows
  BY <1>1 DEF ViewRows
<1>3. /\ Len(seen') = n + 1
      /\ \A i \in 1 .. n : seen'[i] = seen[i]
      /\ seen'[n + 1] = key
  BY <1>1
<1>4. skipped \in Nat /\ now \in Nat /\ n - skipped \in Nat
  BY <1>1
<1>5. /\ Len(tvModel) = n - skipped
      /\ \A i \in 1 .. n - skipped :
           tvModel[i] = [rowID |-> skipped + i - 1, key |-> seen[skipped + i]]
  BY <1>1, <1>4
<1> DEFINE kept == IF Len(tvModel) < RowCountMax THEN tvModel ELSE Tail(tvModel)
<1>6. /\ kept \in Seq(ViewRows) /\ Len(kept) = n - now
      /\ \A i \in 1 .. n - now :
           kept[i] = [rowID |-> now + i - 1, key |-> seen[now + i]]
  <2> HIDE DEF skipped, now
  <2>1. CASE Len(tvModel) < RowCountMax
    <3>1. skipped = 0 /\ now = 0
      BY <1>1, <1>5, <2>1 DEF skipped, now
    <3> QED
      BY <1>1, <1>5, <2>1, <3>1
  <2>2. CASE ~(Len(tvModel) < RowCountMax)
    <3>1. now = skipped + 1 /\ Len(tvModel) = n - skipped /\ Len(tvModel) > 0
      BY <1>1, <1>5, <2>2 DEF skipped, now
    <3>2. /\ Tail(tvModel) \in Seq(ViewRows)
          /\ Len(Tail(tvModel)) = Len(tvModel) - 1
          /\ \A i \in 1 .. Len(tvModel) - 1 : Tail(tvModel)[i] = tvModel[i + 1]
      <4>1. tvModel # <<>>
        BY <3>1
      <4> QED
        BY <1>1, <4>1, Tailing
    <3>3. ASSUME NEW i \in 1 .. n - now
          PROVE  kept[i] = [rowID |-> now + i - 1, key |-> seen[now + i]]
      <4>1. /\ i \in 1 .. Len(tvModel) - 1 /\ i + 1 \in 1 .. n - skipped
            /\ skipped + (i + 1) - 1 = now + i - 1
            /\ skipped + (i + 1) = now + i
        BY <1>1, <1>4, <3>1
      <4>2. kept[i] = tvModel[i + 1]
        BY <2>2, <3>2, <4>1
      <4>3. tvModel[i + 1] = [rowID |-> skipped + (i + 1) - 1,
                              key |-> seen[skipped + (i + 1)]]
        BY <1>5, <4>1
      <4> QED
        BY <4>1, <4>2, <4>3
    <3>4. Len(kept) = n - now
      BY <1>1, <1>4, <2>2, <3>1, <3>2
    <3> QED
      BY <2>2, <3>2, <3>3, <3>4
  <2> QED
    BY <2>1, <2>2
<1>7. tvModel' = Append(kept, row)
  BY DEF Appended
<1> HIDE DEF kept, row
<1>8. /\ tvModel' \in Seq(ViewRows) /\ Len(tvModel') = n - now + 1
      /\ \A i \in 1 .. n - now : tvModel'[i] = kept[i]
      /\ tvModel'[n - now + 1] = row
  <2> HIDE DEF n, now
  <2>1. \A e \in ViewRows :
          /\ Append(kept, e) \in Seq(ViewRows)
          /\ Len(Append(kept, e)) = Len(kept) + 1
          /\ \A i \in 1 .. Len(kept) : Append(kept, e)[i] = kept[i]
          /\ Append(kept, e)[Len(kept) + 1] = e
    BY <1>6, Appending
  <2>2. /\ Append(kept, row) \in Seq(ViewRows)
        /\ Len(Append(kept, row)) = Len(kept) + 1
        /\ \A i \in 1 .. Len(kept) : Append(kept, row)[i] = kept[i]
        /\ Append(kept, row)[Len(kept) + 1] = row
    BY <1>2, <2>1
  <2> QED
    BY <1>6, <1>7, <2>2
<1>9. n - now \in Nat /\ n - now + 1 <= RowCountMax
  BY <1>1
<1>10. ASSUME NEW i \in 1 .. n + 1 - now
       PROVE  tvModel'[i] = [rowID |-> now + i - 1, key |-> seen'[now + i]]
  <2> HIDE DEF now
  <2>1. CASE i \in 1 .. n - now
    <3>1. now + i \in 1 .. n
      BY <1>1, <1>4, <1>9, <2>1
    <3> QED
      BY <1>3, <1>6, <1>8, <2>1, <3>1
  <2>2. CASE i = n - now + 1
    <3>1. now + i = n + 1 /\ now + i - 1 = n
      BY <1>1, <1>4, <2>2
    <3> QED
      BY <1>1, <1>3, <1>8, <2>2, <3>1 DEF row
  <2> QED
    BY <1>1, <1>4, <1>9, <2>1, <2>2
<1>11. tvModel' = [i \in 1 .. n + 1 - now |->
                     [rowID |-> now + i - 1, key |-> seen'[now + i]]]
  <2> HIDE DEF now
  <2>1. tvModel' = [i \in 1 .. n + 1 - now |-> tvModel'[i]]
    <3>1. n + 1 - now = n - now + 1
      BY <1>1, <1>4
    <3> QED
      BY <1>8, <3>1
  <2> QED
    BY <1>10, <2>1
<1>12. ShowsLatest'
  <2>1. now = IF Len(seen') > RowCountMax THEN Len(seen') - RowCountMax ELSE 0
    BY <1>1, <1>3
  <2> HIDE DEF now
  <2>2. tvModel' = [i \in 1 .. Len(seen') - now |->
                      [rowID |-> now + i - 1, key |-> seen'[now + i]]]
    <3>1. Len(seen') - now = n + 1 - now
      BY <1>1, <1>3, <1>4
    <3> HIDE DEF n
    <3> QED
      BY <1>11, <3>1, Zenon
  <2> QED
    BY <2>1, <2>2 DEF ShowsLatest
<1> QED
  BY <1>8, <1>9, <1>12

(* The table of the latest frame of each key.                                *)
LEMMA UniqueShows ==
  ASSUME ViewInv, NEW key \in Keys, Len(seen) < MaxSeen,
         ShowUnique([rowID |-> rowID, key |-> key]),
         seen' = Append(seen, key)
  PROVE  /\ tvModelUnique' \in Seq(ViewRows)
         /\ DOMAIN uniqueMap' \subseteq Keys
         /\ \A k \in DOMAIN uniqueMap' : uniqueMap'[k] \in DOMAIN tvModelUnique'
         /\ \A i \in DOMAIN tvModelUnique' : tvModelUnique'[i].rowID < Len(seen')
         /\ UniqueShowsLatest'
<1> DEFINE row == [rowID |-> rowID, key |-> key]
           n == Len(seen)
           u == tvModelUnique
           m == uniqueMap
<1>1. /\ seen \in Seq(Keys) /\ n \in Nat /\ rowID = n
      /\ u \in Seq(ViewRows)
      /\ DOMAIN m \subseteq Keys
      /\ \A k \in DOMAIN m : m[k] \in DOMAIN u
      /\ \A i \in DOMAIN u : u[i].rowID < n /\ u[i].rowID \in Nat
  <2>1. /\ seen \in Seq(Keys) /\ u \in Seq(ViewRows) /\ rowID = Len(seen)
        /\ DOMAIN m \subseteq Keys
        /\ \A k \in DOMAIN m : m[k] \in DOMAIN u
        /\ \A i \in DOMAIN u : u[i].rowID < n
    BY DEF ViewInv, ViewTypeOK, Numbered
  <2>2. \A i \in DOMAIN u : u[i] \in ViewRows
    BY <2>1
  <2>3. \A r \in ViewRows : r.rowID \in Nat
    BY DEF ViewRows
  <2>4. n \in Nat
    BY <2>1
  <2> QED
    BY <2>1, <2>2, <2>3, <2>4
<1>2. /\ DOMAIN m = Range(seen) /\ DOMAIN u = Range(m)
      /\ \A k \in DOMAIN m :
           /\ u[m[k]].key = k
           /\ seen[u[m[k]].rowID + 1] = k
           /\ \A i \in DOMAIN seen : seen[i] = k => i <= u[m[k]].rowID + 1
  BY DEF ViewInv, UniqueShowsLatest
<1>3. row \in ViewRows /\ row.rowID = n /\ row.key = key
  BY <1>1 DEF ViewRows
<1>4. /\ seen' \in Seq(Keys) /\ Len(seen') = n + 1
      /\ \A i \in 1 .. n : seen'[i] = seen[i]
      /\ seen'[n + 1] = key
      /\ DOMAIN seen' = 1 .. n + 1 /\ DOMAIN seen = 1 .. n
  BY <1>1
<1>5. Range(seen') = Range(seen) \cup {key}
  BY <1>1, <1>4 DEF Range
<1>6. ASSUME NEW k \in DOMAIN m, k # key
      PROVE  /\ seen'[u[m[k]].rowID + 1] = k
             /\ \A i \in DOMAIN seen' : seen'[i] = k => i <= u[m[k]].rowID + 1
  <2> DEFINE r == u[m[k]].rowID
  <2>1. r \in Nat /\ r < n
    BY <1>1
  <2>2. /\ seen[r + 1] = k
        /\ \A i \in 1 .. n : seen[i] = k => i <= r + 1
    BY <1>2, <1>4
  <2> HIDE DEF r
  <2>3. r + 1 \in 1 .. n
    BY <1>1, <2>1
  <2>4. \A i \in 1 .. n + 1 : seen'[i] = k => i \in 1 .. n
    BY <1>1, <1>4, <1>6
  <2> QED
    BY <1>4, <2>2, <2>3, <2>4 DEF r
<1>7. ASSUME NEW i \in DOMAIN seen'
      PROVE  i <= row.rowID + 1
  BY <1>1, <1>3, <1>4
<1>8. seen'[row.rowID + 1] = key
  BY <1>3, <1>4
<1>9. CASE key \in DOMAIN m
  <2>1. /\ u' = [u EXCEPT ![m[key]] = row] /\ m' = m
    BY <1>9 DEF ShowUnique
  <2>2. m[key] \in DOMAIN u
    BY <1>1, <1>9
  <2>3. /\ u' \in Seq(ViewRows) /\ DOMAIN u' = DOMAIN u
        /\ \A i \in DOMAIN u : u'[i] = IF i = m[key] THEN row ELSE u[i]
    BY <1>1, <1>3, <2>1, <2>2
  <2>4. Range(seen') = Range(seen)
    BY <1>2, <1>5, <1>9
  <2>5. ASSUME NEW k \in DOMAIN m
        PROVE  /\ u'[m[k]].key = k
               /\ seen'[u'[m[k]].rowID + 1] = k
               /\ \A i \in DOMAIN seen' :
                    seen'[i] = k => i <= u'[m[k]].rowID + 1
    <3>1. m[k] \in DOMAIN u
      BY <1>1
    <3>2. CASE k = key
      <4>1. u'[m[k]] = row
        BY <2>3, <3>1, <3>2
      <4> HIDE DEF row
      <4> QED
        BY <1>3, <1>7, <1>8, <3>2, <4>1
    <3>3. CASE k # key
      <4>1. m[k] # m[key]
        BY <1>2, <1>9, <3>3
      <4>2. u'[m[k]] = u[m[k]]
        BY <2>3, <3>1, <4>1
      <4> QED
        BY <1>2, <1>6, <3>3, <4>2
    <3> QED
      BY <3>2, <3>3
  <2>6. \A i \in DOMAIN u' : u'[i].rowID < Len(seen')
    BY <1>1, <1>3, <1>4, <2>3
  <2>7. UniqueShowsLatest'
    BY <1>2, <2>1, <2>3, <2>4, <2>5 DEF UniqueShowsLatest
  <2> QED
    BY <1>1, <2>1, <2>3, <2>6, <2>7
<1>10. CASE key \notin DOMAIN m
  <2> DEFINE l == Len(u)
  <2>1. /\ u' = Append(u, row)
        /\ m' = [k \in DOMAIN m \cup {key} |-> IF k = key THEN l + 1 ELSE m[k]]
    BY <1>3, <1>10 DEF ShowUnique
  <2>2. /\ u' \in Seq(ViewRows) /\ DOMAIN u' = 1 .. l + 1 /\ DOMAIN u = 1 .. l
        /\ \A i \in 1 .. l : u'[i] = u[i]
        /\ u'[l + 1] = row
        /\ l \in Nat
    <3> HIDE DEF row
    <3> QED
      BY <1>1, <1>3, <2>1
  <2>3. /\ DOMAIN m' = DOMAIN m \cup {key}
        /\ m'[key] = l + 1
        /\ \A k \in DOMAIN m : m'[k] = m[k] /\ k # key
    BY <1>10, <2>1
  <2>4. Range(m') = Range(m) \cup {l + 1}
    BY <2>3 DEF Range
  <2>5. DOMAIN u' = Range(m')
    <3>1. 1 .. l + 1 = (1 .. l) \cup {l + 1}
      BY <2>2
    <3> QED
      BY <1>2, <2>2, <2>4, <3>1
  <2>6. ASSUME NEW k \in DOMAIN m'
        PROVE  /\ u'[m'[k]].key = k
               /\ seen'[u'[m'[k]].rowID + 1] = k
               /\ \A i \in DOMAIN seen' :
                    seen'[i] = k => i <= u'[m'[k]].rowID + 1
    <3>1. CASE k = key
      <4>1. u'[m'[k]] = row
        BY <2>2, <2>3, <3>1
      <4> HIDE DEF row
      <4> QED
        BY <1>3, <1>7, <1>8, <3>1, <4>1
    <3>2. CASE k \in DOMAIN m
      <4>1. u'[m'[k]] = u[m[k]] /\ k # key
        BY <1>1, <2>2, <2>3, <3>2
      <4> QED
        BY <1>2, <1>6, <3>2, <4>1
    <3> QED
      BY <2>3, <3>1, <3>2
  <2>7. \A i \in DOMAIN u' : u'[i].rowID < Len(seen')
    BY <1>1, <1>3, <1>4, <2>2
  <2>8. \A k \in DOMAIN m' : m'[k] \in DOMAIN u'
    BY <1>1, <2>2, <2>3
  <2>9. DOMAIN m' = Range(seen')
    BY <1>2, <1>5, <2>3
  <2>10. UniqueShowsLatest'
    BY <2>5, <2>6, <2>9 DEF UniqueShowsLatest
  <2> QED
    BY <1>1, <2>2, <2>3, <2>7, <2>8, <2>10
<1> QED
  BY <1>9, <1>10

LEMMA FrameKeeps ==
  ASSUME ViewInv, NEW key \in Keys, FrameView(key)
  PROVE  ViewInv'
<1>1. CASE viewStarted
  <2>1. /\ Len(seen) < MaxSeen
        /\ tvModel' = Appended([rowID |-> rowID, key |-> key])
        /\ ShowUnique([rowID |-> rowID, key |-> key])
        /\ rowID' = rowID + 1 /\ seen' = Append(seen, key)
        /\ viewStarted' = viewStarted
    BY <1>1 DEF FrameView
  <2>2. /\ seen \in Seq(Keys) /\ Len(seen) \in Nat /\ rowID = Len(seen)
        /\ viewStarted \in BOOLEAN
    BY DEF ViewInv, ViewTypeOK, Numbered
  <2>3. seen' \in Seq(Keys) /\ Len(seen') = Len(seen) + 1
    BY <2>1, <2>2
  <2>4. rowID' \in 0 .. MaxSeen /\ rowID' = Len(seen')
    BY <2>1, <2>2, <2>3, RowCountAssumption
  <2>5. /\ tvModel' \in Seq(ViewRows) /\ Len(tvModel') <= RowCountMax
        /\ ShowsLatest'
    BY <2>1, TableShows
  <2>6. /\ tvModelUnique' \in Seq(ViewRows)
        /\ DOMAIN uniqueMap' \subseteq Keys
        /\ \A k \in DOMAIN uniqueMap' : uniqueMap'[k] \in DOMAIN tvModelUnique'
        /\ \A i \in DOMAIN tvModelUnique' : tvModelUnique'[i].rowID < Len(seen')
        /\ UniqueShowsLatest'
    BY <2>1, UniqueShows
  <2> QED
    BY <2>1, <2>2, <2>3, <2>4, <2>5, <2>6 DEF ViewInv, ViewTypeOK, Numbered
<1>2. CASE ~viewStarted
  BY <1>2 DEF FrameView, ViewInv, ViewTypeOK, Numbered, ShowsLatest,
              UniqueShowsLatest
<1> QED
  BY <1>1, <1>2

LEMMA ClearKeeps ==
  ASSUME ClearAll, viewStarted' \in BOOLEAN
  PROVE  ViewInv'
<1>1. EmptyView'
  BY DEF ClearAll, EmptyView
<1>2. (EmptyView => ViewInv)'
  BY EmptyViewIsGood, PTL
<1> QED
  BY <1>1, <1>2

-----------------------------------------------------------------------------
(* The filter and the view together.                                         *)

Inv == FilterInv /\ ViewInv /\ simStarted = viewStarted

LEMMA Starts == Init => Inv
<1> SUFFICES ASSUME Init PROVE Inv
  OBVIOUS
<1>1. FilterInv
  BY FilterStarts DEF Init
<1>2. EmptyView /\ simStarted = viewStarted
  BY DEF Init, FilterInit, ViewInit, EmptyView
<1> QED
  BY <1>1, <1>2, EmptyViewIsGood DEF Inv

LEMMA Keeps == Inv /\ [Next]_vars => Inv'
<1> SUFFICES ASSUME Inv, [Next]_vars PROVE Inv'
  OBVIOUS
<1>1. FilterInv /\ ViewInv /\ simStarted = viewStarted
  BY DEF Inv
<1>2. viewStarted \in BOOLEAN /\ simStarted \in BOOLEAN
  BY <1>1 DEF ViewInv, ViewTypeOK, FilterInv, FilterTypeOK
<1>3. CASE StartSimulation
  <2>1. FilterInv'
    BY <1>1, <1>3 DEF StartSimulation, Start, FilterInv, FilterTypeOK,
                      AppliedAsShown
  <2>2. ViewInv' /\ simStarted' = viewStarted'
    BY <1>3, ClearKeeps DEF StartSimulation, Start, StartView
  <2> QED
    BY <2>1, <2>2 DEF Inv
<1>4. CASE StopSimulation
  <2>1. FilterInv'
    BY <1>1, <1>4 DEF StopSimulation, Stop, FilterInv, FilterTypeOK,
                      AppliedAsShown
  <2>2. ViewInv' /\ simStarted' = viewStarted'
    BY <1>1, <1>4 DEF StopSimulation, Stop, StopView, ViewInv, ViewTypeOK,
                      Numbered, ShowsLatest, UniqueShowsLatest
  <2> QED
    BY <2>1, <2>2 DEF Inv
<1>5. CASE EditFilter
  <2>1. FilterInv'
    BY <1>1, <1>5, EditKeeps DEF EditFilter
  <2>2. simStarted' = simStarted
    BY <1>5 DEF EditFilter, Edit, Select, HandleListAdd, HandleListRemove,
                HandleListUp, HandleListDown, HandleListDownOfNone,
                CloseEditor, ChangeRxPolicy, ChangeTxPolicy
  <2>3. UNCHANGED viewVars
    BY <1>5 DEF EditFilter
  <2>4. ViewInv' /\ viewStarted' = viewStarted
    BY <1>1, <2>3 DEF viewVars, ViewInv, ViewTypeOK, Numbered, ShowsLatest,
                      UniqueShowsLatest
  <2> QED
    BY <1>1, <2>1, <2>2, <2>4 DEF Inv
<1>6. CASE ClearView
  <2>1. ViewInv' /\ viewStarted' = viewStarted
    BY <1>2, <1>6, ClearKeeps DEF ClearView, PressClear
  <2>2. FilterInv' /\ simStarted' = simStarted
    BY <1>1, <1>6 DEF ClearView, filterVars, FilterInv, FilterTypeOK,
                      AppliedAsShown
  <2> QED
    BY <1>1, <2>1, <2>2 DEF Inv
<1>7. CASE SetInData
  <2>1. PICK d \in Dirs, f \in Frames : FrameView(<<d, f>>)
    BY <1>7 DEF SetInData
  <2>2. <<d, f>> \in Keys
    BY KeysAssumption
  <2>3. ViewInv' /\ viewStarted' = viewStarted
    BY <1>1, <2>1, <2>2, FrameKeeps DEF FrameView
  <2>4. FilterInv' /\ simStarted' = simStarted
    BY <1>1, <1>7 DEF SetInData, filterVars, FilterInv, FilterTypeOK,
                      AppliedAsShown
  <2> QED
    BY <1>1, <2>3, <2>4 DEF Inv
<1>8. CASE UNCHANGED vars
  BY <1>1, <1>8 DEF Inv, vars, filterVars, viewVars, FilterInv, FilterTypeOK,
                    AppliedAsShown, ViewInv, ViewTypeOK, Numbered,
                    ShowsLatest, UniqueShowsLatest
<1> QED
  BY <1>3, <1>4, <1>5, <1>6, <1>7, <1>8 DEF Next

(* The inductive invariant holds in every state the two nodes reach.         *)
THEOREM Invariance == Spec => []Inv
<1>1. Init => Inv
  BY Starts
<1>2. Inv /\ [Next]_vars => Inv'
  BY Keeps
<1> QED
  BY <1>1, <1>2, PTL DEF Spec

(* Tables, lists, current rows, the map and the numbers stay what they may   *)
(* be, and the view runs when the filter does.                               *)
THEOREM TypeCorrect == Spec => []TypeOK
<1>1. Inv => TypeOK
  BY DEF Inv, FilterInv, ViewInv, TypeOK
<1> QED
  BY <1>1, Invariance, PTL

(* What the filter applies is what its tables and boxes show, but for the    *)
(* box of TX: rxFrameIn and txFrameIn never use a list of an older table.    *)
THEOREM AppliesWhatItShows == Spec => []AppliedAsShown
<1>1. Inv => AppliedAsShown
  BY DEF Inv, FilterInv
<1> QED
  BY <1>1, Invariance, PTL

(* What getSettings saves, setSettings makes again in a new node.            *)
THEOREM SavedListsAreRestored == Spec => []SavedIsRestored
<1>1. Inv => SavedIsRestored
  <2> SUFFICES ASSUME Inv PROVE SavedIsRestored
    OBVIOUS
  <2>1. ListsInv
    BY FilterParts DEF Inv
  <2>2. ASSUME NEW d \in Dirs
        PROVE  AcceptList(TableOf(acceptList[d]), PolicyOf(acceptList[d]))
                 = acceptList[d]
    <3>1. \E default \in BOOLEAN : acceptList[d] = AcceptList(rows[d], default)
      BY <2>1 DEF ListsInv, AppliedAsShown, Dirs
    <3>2. PICK default \in BOOLEAN :
            acceptList[d] = AcceptList(rows[d], default)
      BY <3>1
    <3>3. rows[d] \in Seq(Rules)
      BY <2>1 DEF ListsInv
    <3> QED
      BY <3>2, <3>3, ListRestored
  <2>3. acceptList = [d \in Dirs |-> acceptList[d]]
    BY <2>1 DEF ListsInv
  <2>4. Restored(acceptList).acceptList
          = [d \in Dirs |-> AcceptList(TableOf(acceptList[d]),
                                       PolicyOf(acceptList[d]))]
    BY DEF Restored
  <2> QED
    BY <2>2, <2>3, <2>4 DEF SavedIsRestored
<1> QED
  BY <1>1, Invariance, PTL

(* frameView's table is the latest frames in the order they came, also when  *)
(* it has been full for long.                                                *)
THEOREM ViewShowsLatest == Spec => []ShowsLatest
<1>1. Inv => ShowsLatest
  BY DEF Inv, ViewInv
<1> QED
  BY <1>1, Invariance, PTL

(* The map finds for every key that came since the last clear the one row    *)
(* that shows its latest frame.                                              *)
THEOREM UniqueRowsShowLatest == Spec => []UniqueShowsLatest
<1>1. Inv => UniqueShowsLatest
  BY DEF Inv, ViewInv
<1> QED
  BY <1>1, Invariance, PTL

-----------------------------------------------------------------------------
(* What gets through.                                                        *)

(* acceptFrame over a list made from a table: the first rule of the table    *)
(* that matches accepts the frame, or there is none and the default does.    *)
LEMMA FirstDecides ==
  ASSUME NEW table \in Seq(Rules), NEW p \in BOOLEAN, NEW f \in Frames,
         AcceptFrame(AcceptList(table, p), f)
  PROVE  LET rules == {i \in DOMAIN table : f \in table[i].match}
         IN  IF rules = {} THEN p
             ELSE \E i \in rules : /\ table[i].accept
                                   /\ \A j \in rules : i <= j
<1> DEFINE e == [match |-> Frames, accept |-> p]
           list == AcceptList(table, p)
           n == Len(table)
           rules == {i \in DOMAIN table : f \in table[i].match}
<1>1. e \in Rules /\ e.match = Frames /\ e.accept = p
  BY RuleFields
<1>2. list = Append(table, e)
  BY DEF AcceptList
<1> HIDE DEF e
<1>3. /\ n \in Nat /\ DOMAIN list = 1 .. n + 1 /\ DOMAIN table = 1 .. n
      /\ \A i \in 1 .. n : list[i] = table[i]
      /\ list[n + 1] = e
  BY <1>1, <1>2
<1>4. PICK i \in 1 .. n + 1 :
        f \in list[i].match /\ list[i].accept
        /\ \A j \in 1 .. i - 1 : f \notin list[j].match
  BY <1>3 DEF AcceptFrame
<1> HIDE DEF list, n
<1>5. CASE rules = {}
  <2>1. i = n + 1
    BY <1>3, <1>4, <1>5
  <2> QED
    BY <1>1, <1>3, <1>4, <1>5, <2>1
<1>6. CASE rules # {}
  <2>1. ASSUME NEW j \in rules PROVE i <= j
    <3>1. j \in 1 .. n /\ f \in list[j].match
      BY <1>3
    <3> QED
      BY <1>3, <1>4, <3>1
  <2>2. i \in 1 .. n
    <3>1. PICK j \in rules : TRUE
      BY <1>6
    <3>2. j \in 1 .. n /\ i <= j
      BY <1>3, <2>1
    <3> QED
      BY <1>3, <1>4, <3>2
  <2>3. i \in rules /\ table[i].accept
    BY <1>3, <1>4, <2>2
  <2> QED
    BY <1>6, <2>1, <2>3
<1> QED
  BY <1>5, <1>6

(* What a step that shows a frame requires of the tables before it.          *)
OnlyAccepted ==
  \A d \in Dirs, f \in Frames :
    seen' = Append(seen, <<d, f>>) =>
      LET rules == Decides(d, f) IN
      IF rules = {} THEN d = "RX" => policy[d]
      ELSE \E i \in rules : /\ rows[d][i].accept
                            /\ \A j \in rules : i <= j

LEMMA ShownIsAccepted == Inv /\ [Next]_vars => [OnlyAccepted]_vars
<1> SUFFICES ASSUME Inv, Next, NEW d \in Dirs, NEW f \in Frames,
                    seen' = Append(seen, <<d, f>>)
             PROVE  LET rules == Decides(d, f) IN
                    IF rules = {} THEN d = "RX" => policy[d]
                    ELSE \E i \in rules : /\ rows[d][i].accept
                                          /\ \A j \in rules : i <= j
  BY DEF OnlyAccepted
<1>1. ListsInv /\ seen \in Seq(Keys) /\ <<d, f>> \in Keys
  BY FilterParts, KeysAssumption DEF Inv, ViewInv, ViewTypeOK
<1>2. seen' # <<>> /\ seen' # seen
  BY <1>1
<1>3. SetInData
  BY <1>2 DEF Next, StartSimulation, StartView, StopSimulation, StopView,
              EditFilter, viewVars, ClearView, PressClear, ClearAll
<1>4. PICK e \in Dirs, status \in BOOLEAN, g \in Frames :
        Passes(e, status, g) /\ FrameView(<<e, g>>)
  BY <1>3 DEF SetInData
<1>5. seen' = Append(seen, <<e, g>>)
  BY <1>2, <1>4 DEF FrameView
<1>6. e = d /\ g = f
  <2>1. <<e, g>> \in Keys
    BY KeysAssumption
  <2>2. \A a \in Keys, b \in Keys : Append(seen, a) = Append(seen, b) => a = b
    BY <1>1
  <2>3. <<e, g>> = <<d, f>>
    BY <1>1, <1>5, <2>1, <2>2
  <2> QED
    BY <2>3
<1>7. AcceptFrame(acceptList[d], f)
  BY <1>4, <1>6 DEF Passes
<1>8. PICK p \in BOOLEAN : /\ acceptList[d] = AcceptList(rows[d], p)
                           /\ d = "RX" => p = policy[d]
  BY <1>1 DEF ListsInv, AppliedAsShown, Dirs
<1>9. rows[d] \in Seq(Rules)
  BY <1>1 DEF ListsInv
<1>10. LET rules == {i \in DOMAIN rows[d] : f \in rows[d][i].match}
       IN  IF rules = {} THEN p
           ELSE \E i \in rules : /\ rows[d][i].accept
                                 /\ \A j \in rules : i <= j
  BY <1>7, <1>8, <1>9, FirstDecides
<1> QED
  BY <1>8, <1>10 DEF Decides

(* The view shows no frame that the tables, read from the top as they show   *)
(* in that moment, refuse: an edit made while frames pass holds from the     *)
(* next frame on, in every order of edits and frames.  Frames for TX that    *)
(* only the default decides are excepted.                                    *)
THEOREM OnlyAcceptedShown == Spec => ShowsAccepted
<1>1. Inv /\ [Next]_vars => [OnlyAccepted]_vars
  BY ShownIsAccepted
<1>2. Spec => [][OnlyAccepted]_vars
  BY <1>1, Invariance, PTL DEF Spec
<1> QED
  BY <1>2 DEF ShowsAccepted, OnlyAccepted
=============================================================================
