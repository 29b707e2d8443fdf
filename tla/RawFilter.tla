----------------------------- MODULE RawFilter -----------------------------
(* The CanRawFilter node of CANdevStudio: for each direction a table of      *)
(* rules, matched from the top, and a box with the policy for what no rule   *)
(* matches.  The table is edited at any time, also while frames pass; what   *)
(* is applied to a frame is not the table but a list made from it whenever   *)
(* one of the signals the constructor connects says that it has changed.     *)
(* Everything runs in the GUI thread.                                        *)
(*                                                                           *)
(* The two regular expressions of a rule are abstracted to the set of frames *)
(* they match.                                                               *)
EXTENDS Naturals, Sequences, SequencesExt

CONSTANTS Frames,    \* the frames that pass
          Patterns,  \* what a rule may be edited to match: sets of frames
          MaxRows    \* bound on the rows of the two tables together

ASSUME PatternsAssumption == /\ Patterns \subseteq SUBSET Frames
                             /\ MaxRows \in Nat

VARIABLES rows,       \* _rxModel, _txModel: rules, [match, accept]
          current,    \* the row that is current in each view; 0: none is
          policy,     \* rxPolicy, txPolicy: does the box say ACCEPT?
          acceptList, \* _rxAcceptList, _txAcceptList
          simStarted, \* CanRawFilterPrivate::_simStarted
          crashed     \* the program has ended in getAcceptList

filterVars == <<rows, current, policy, acceptList, simStarted, crashed>>

Dirs == {"RX", "TX"}
Rules == [match : Patterns \cup {Frames}, accept : BOOLEAN]
NewRule == [match |-> Frames, accept |-> TRUE]

-----------------------------------------------------------------------------
(* getAcceptList: the rows, and the box's policy for all the rest.           *)
AcceptList(table, default) ==
  Append(table, [match |-> Frames, accept |-> default])

(* A mutant: any rule that matches decides.                                  *)
AcceptFrameAnywhere(list, f) ==
  \E i \in DOMAIN list : f \in list[i].match /\ list[i].accept

(* acceptFrame: the first rule that matches decides.                         *)
AcceptFrame(list, f) ==
  \E i \in DOMAIN list :
    /\ f \in list[i].match
    /\ list[i].accept
    /\ \A j \in 1 .. i - 1 : f \notin list[j].match

(* The lists are made anew for some of the directions.                       *)
ListUpdated(dirs) ==
  acceptList' = [d \in Dirs |-> IF d \in dirs
                                THEN AcceptList(rows'[d], policy'[d])
                                ELSE acceptList[d]]

(* setList: the last rule of a saved list goes to the box.  An empty list    *)
(* leaves the box alone, which says ACCEPT in a new node.                    *)
TableOf(list) == IF list = <<>> THEN <<>> ELSE Front(list)
PolicyOf(list) == IF list = <<>> THEN TRUE ELSE Last(list).accept

(* A mutant: the last rule stays in the table too.                           *)
RestoredTwice(lists) ==
  [rows |-> lists,
   policy |-> [d \in Dirs |-> PolicyOf(lists[d])],
   acceptList |-> [d \in Dirs |-> AcceptList(lists[d], PolicyOf(lists[d]))]]

(* setSettings on a new node: setListRx, then setListTx.                     *)
Restored(lists) ==
  [rows |-> [d \in Dirs |-> TableOf(lists[d])],
   policy |-> [d \in Dirs |-> PolicyOf(lists[d])],
   acceptList |-> [d \in Dirs |-> AcceptList(TableOf(lists[d]),
                                             PolicyOf(lists[d]))]]

-----------------------------------------------------------------------------
(* A new node.  Restored from a project it is one of the states this one     *)
(* leads to: SavedIsRestored.                                                *)
FilterInit == /\ rows = [d \in Dirs |-> <<>>]
              /\ current = [d \in Dirs |-> 0]
              /\ policy = [d \in Dirs |-> TRUE]
              /\ acceptList = [d \in Dirs |-> AcceptList(<<>>, TRUE)]
              /\ simStarted = FALSE
              /\ crashed = FALSE

Alive == ~crashed

Start == /\ Alive
         /\ ~simStarted
         /\ simStarted' = TRUE
         /\ UNCHANGED <<rows, current, policy, acceptList, crashed>>

Stop == /\ Alive
        /\ simStarted
        /\ simStarted' = FALSE
        /\ UNCHANGED <<rows, current, policy, acceptList, crashed>>

(* The user clicks on a row.                                                 *)
Select(d) ==
  /\ Alive
  /\ \E i \in DOMAIN rows[d] \ {current[d]} :
       current' = [current EXCEPT ![d] = i]
  /\ UNCHANGED <<rows, policy, acceptList, simStarted, crashed>>

(* The new rule comes first; the current row moves down with its contents.   *)
HandleListAdd(d) ==
  /\ Alive
  /\ Len(rows["RX"]) + Len(rows["TX"]) < MaxRows
  /\ rows' = [rows EXCEPT ![d] = <<NewRule>> \o @]
  /\ current' = [current EXCEPT ![d] = IF @ = 0 THEN 0 ELSE @ + 1]
  /\ UNCHANGED <<policy, simStarted, crashed>>
  /\ ListUpdated({d})

(* Removing no row removes nothing, and still updates the list.  Qt makes    *)
(* another row current if there is one.                                      *)
HandleListRemove(d) ==
  /\ Alive
  /\ IF current[d] = 0
     THEN UNCHANGED <<rows, current>>
     ELSE /\ rows' = [rows EXCEPT ![d] = RemoveAt(@, current[d])]
          /\ \E i \in IF rows'[d] = <<>> THEN {0} ELSE DOMAIN rows'[d] :
               current' = [current EXCEPT ![d] = i]
  /\ UNCHANGED <<policy, simStarted, crashed>>
  /\ ListUpdated({d})

Swapped(s, i) == [s EXCEPT ![i] = s[i + 1], ![i + 1] = s[i]]

HandleListUp(d) ==
  /\ Alive
  /\ current[d] > 1
  /\ rows' = [rows EXCEPT ![d] = Swapped(@, current[d] - 1)]
  /\ current' = [current EXCEPT ![d] = @ - 1]
  /\ UNCHANGED <<policy, simStarted, crashed>>
  /\ ListUpdated({d})

(* A mutant: the list is not updated.                                        *)
HandleListDownQuietly(d) ==
  /\ Alive
  /\ current[d] \in 1 .. Len(rows[d]) - 1
  /\ rows' = [rows EXCEPT ![d] = Swapped(@, current[d])]
  /\ current' = [current EXCEPT ![d] = @ + 1]
  /\ UNCHANGED <<policy, acceptList, simStarted, crashed>>

HandleListDown(d) ==
  /\ Alive
  /\ current[d] \in 1 .. Len(rows[d]) - 1
  /\ rows' = [rows EXCEPT ![d] = Swapped(@, current[d])]
  /\ current' = [current EXCEPT ![d] = @ + 1]
  /\ UNCHANGED <<policy, simStarted, crashed>>
  /\ ListUpdated({d})

(* With no current row its number is -1, which is less than the last row's:  *)
(* a row without items is inserted on top, and getAcceptList reads its items *)
(* through null pointers.                                                    *)
HandleListDownOfNone(d) ==
  /\ Alive
  /\ current[d] = 0
  /\ rows[d] # <<>>
  /\ crashed' = TRUE
  /\ UNCHANGED <<rows, current, policy, acceptList, simStarted>>

(* A cell's editor is closed.                                                *)
CloseEditor(d) ==
  /\ Alive
  /\ \E i \in DOMAIN rows[d], rule \in Rules :
       /\ rule # rows[d][i]
       /\ \/ rule.match = rows[d][i].match
          \/ rule.accept = rows[d][i].accept
       /\ rows' = [rows EXCEPT ![d][i] = rule]
  /\ UNCHANGED <<current, policy, simStarted, crashed>>
  /\ ListUpdated({d})

(* The box for RX updates both lists ...                                     *)
ChangeRxPolicy ==
  /\ Alive
  /\ policy' = [policy EXCEPT !["RX"] = ~@]
  /\ UNCHANGED <<rows, current, simStarted, crashed>>
  /\ ListUpdated({"RX", "TX"})

(* ... and the one for TX none: its list is connected to the other box.      *)
ChangeTxPolicy ==
  /\ Alive
  /\ policy' = [policy EXCEPT !["TX"] = ~@]
  /\ UNCHANGED <<rows, current, acceptList, simStarted, crashed>>

Edit == \/ \E d \in Dirs : \/ Select(d)
                           \/ HandleListAdd(d) \/ HandleListRemove(d)
                           \/ HandleListUp(d) \/ HandleListDown(d)
                           \/ HandleListDownOfNone(d)
                           \/ CloseEditor(d)
        \/ ChangeRxPolicy \/ ChangeTxPolicy

(* setInData, txFrameIn and rxFrameIn: does a frame get through?  A frame    *)
(* that could not be sent never does.                                        *)
Passes(d, status, f) == /\ d = "TX" => status
                        /\ AcceptFrame(acceptList[d], f)
                        /\ simStarted

-----------------------------------------------------------------------------
(* Tables hold rules and the current row is one of them; a list always ends  *)
(* with a rule that matches everything.                                      *)
FilterTypeOK ==
  /\ rows \in [Dirs -> Seq(Rules)]
  /\ Len(rows["RX"]) + Len(rows["TX"]) <= MaxRows
  /\ current \in [Dirs -> Nat]
  /\ \A d \in Dirs : current[d] \in 0 .. Len(rows[d])
  /\ policy \in [Dirs -> BOOLEAN]
  /\ acceptList \in [Dirs -> Seq(Rules)]
  /\ \A d \in Dirs : acceptList[d] # <<>> /\ Last(acceptList[d]).match = Frames
  /\ simStarted \in BOOLEAN
  /\ crashed \in BOOLEAN

(* "Rules are matched from top to bottom": what is applied to a frame is the *)
(* table as it shows, however rows were added, moved, removed and edited,    *)
(* and the box as it shows; but the box for TX may have been changed since   *)
(* the list was made.                                                        *)
AppliedAsShown ==
  /\ acceptList["RX"] = AcceptList(rows["RX"], policy["RX"])
  /\ \E default \in BOOLEAN :
       acceptList["TX"] = AcceptList(rows["TX"], default)

(* Saving a project and loading it changes nothing of what is accepted.      *)
SavedIsRestored == Restored(acceptList).acceptList = acceptList

(* The README: "Default policy is applied to frames unmatched by any filter".*)
DefaultPolicyApplied ==
  \A d \in Dirs, f \in Frames :
    (\A i \in DOMAIN rows[d] : f \notin rows[d][i].match)
      => (AcceptFrame(acceptList[d], f) <=> policy[d])
=============================================================================
