----------------------------- MODULE Trace_proof -----------------------------
(* Theorems about loggers and player, for any number of loggers, any log and *)
(* any size of the player's queue.                                           *)
EXTENDS Trace, FiniteSetTheorems, SequenceTheorems, WellFoundedInduction, TLAPS

-----------------------------------------------------------------------------
(* The members of a sequence that are picked.                                *)

(* Every set of natural numbers has a least element.                         *)
LEMMA Least ==
  ASSUME NEW T, T \subseteq Nat, T # {}
  PROVE  \E x \in T : \A y \in T : x <= y
<1> DEFINE R == OpToRel(<, Nat)
<1>1. IsWellFoundedOn(R, Nat)
  BY NatLessThanWellFounded
<1>2. R = {ss \in Nat \X Nat : ss[1] < ss[2]}
  BY DEF OpToRel
<1> HIDE DEF R
<1>3. PICK x \in T : \A y \in T : ~ (<<y, x>> \in R)
  BY <1>1, WFMin
<1>4. ASSUME NEW y \in T PROVE x <= y
  <2>1. x \in Nat /\ y \in Nat /\ <<y, x>> \notin R
    BY <1>3
  <2>2. ~(y < x)
    BY <1>2, <2>1
  <2> QED
    BY <2>1, <2>2
<1> QED
  BY <1>4

(* How many places there are up to i.                                        *)
UpTo(places, i) == Cardinality(places \cap 1 .. i)

LEMMA UpToType ==
  ASSUME NEW places, NEW i \in Nat
  PROVE  /\ IsFiniteSet(places \cap 1 .. i)
         /\ UpTo(places, i) \in Nat
<1>1. IsFiniteSet(1 .. i)
  BY FS_Interval
<1>2. places \cap 1 .. i \in SUBSET (1 .. i)
  OBVIOUS
<1>3. IsFiniteSet(places \cap 1 .. i)
  BY <1>1, <1>2, FS_Subset
<1> QED
  BY <1>3, FS_CardinalityType DEF UpTo

(* One more with each place.                                                 *)
LEMMA UpToNext ==
  ASSUME NEW places, NEW i \in Nat
  PROVE  /\ i + 1 \in places => UpTo(places, i + 1) = UpTo(places, i) + 1
         /\ i + 1 \notin places => UpTo(places, i + 1) = UpTo(places, i)
<1>1. IsFiniteSet(places \cap 1 .. i)
  BY UpToType
<1>2. ASSUME i + 1 \in places
      PROVE  UpTo(places, i + 1) = UpTo(places, i) + 1
  <2>1. places \cap 1 .. i + 1 = (places \cap 1 .. i) \cup {i + 1}
    BY <1>2
  <2>2. i + 1 \notin places \cap 1 .. i
    OBVIOUS
  <2> QED
    BY <1>1, <2>1, <2>2, FS_AddElement DEF UpTo
<1>3. ASSUME i + 1 \notin places
      PROVE  UpTo(places, i + 1) = UpTo(places, i)
  <2>1. places \cap 1 .. i + 1 = places \cap 1 .. i
    BY <1>3
  <2> QED
    BY <2>1 DEF UpTo
<1> QED
  BY <1>2, <1>3

LEMMA UpToRises ==
  ASSUME NEW places, NEW i \in Nat, NEW j \in Nat, i <= j
  PROVE  /\ UpTo(places, i) <= UpTo(places, j)
         /\ i < j /\ j \in places => UpTo(places, i) < UpTo(places, j)
<1>1. IsFiniteSet(places \cap 1 .. j) /\ UpTo(places, i) \in Nat
        /\ UpTo(places, j) \in Nat
  BY UpToType
<1>2. places \cap 1 .. i \in SUBSET (places \cap 1 .. j)
  OBVIOUS
<1>3. UpTo(places, i) <= UpTo(places, j)
  BY <1>1, <1>2, FS_Subset DEF UpTo
<1>4. ASSUME i < j, j \in places PROVE UpTo(places, i) # UpTo(places, j)
  <2>1. places \cap 1 .. i # places \cap 1 .. j
    BY <1>4
  <2> QED
    BY <1>1, <1>2, <2>1, FS_Subset DEF UpTo
<1> QED
  BY <1>1, <1>3, <1>4

(* The n-th place ...                                                        *)
Place(places, n) == CHOOSE i \in places : UpTo(places, i) = n

(* ... is the only one with that number up to it ...                         *)
LEMMA PlaceUnique ==
  ASSUME NEW places, places \subseteq Nat, NEW i \in places
  PROVE  Place(places, UpTo(places, i)) = i
<1> SUFFICES ASSUME NEW j \in places, UpTo(places, j) = UpTo(places, i)
             PROVE  j = i
  BY DEF Place
<1>1. i \in Nat /\ j \in Nat /\ UpTo(places, i) \in Nat
  BY UpToType
<1>2. ~(i < j)
  BY <1>1, UpToRises
<1>3. ~(j < i)
  BY <1>1, UpToRises
<1> QED
  BY <1>1, <1>2, <1>3

(* ... and there is one, for as many numbers as there are places.            *)
LEMMA PlaceExists ==
  ASSUME NEW max \in Nat, NEW places, places \subseteq 1 .. max,
         NEW n \in 1 .. Cardinality(places)
  PROVE  /\ Place(places, n) \in places
         /\ UpTo(places, Place(places, n)) = n
<1> DEFINE T == {i \in Nat : n <= UpTo(places, i)}
<1>1. places \cap 1 .. max = places
  OBVIOUS
<1>2. UpTo(places, max) = Cardinality(places)
  BY <1>1 DEF UpTo
<1>3. max \in T
  BY <1>2
<1>4. PICK i \in T : \A j \in T : i <= j
  BY <1>3, Least
<1>5. n \in Nat /\ n > 0
  BY <1>2, UpToType
<1>6. UpTo(places, 0) = 0
  <2>1. places \cap 1 .. 0 = {}
    OBVIOUS
  <2> QED
    BY <2>1, FS_EmptySet DEF UpTo
<1>7. i \in Nat /\ i # 0 /\ n <= UpTo(places, i)
  BY <1>4, <1>5, <1>6
<1> DEFINE k == i - 1
<1>8. k \in Nat /\ i = k + 1
  BY <1>7
<1>9. UpTo(places, k) \in Nat /\ UpTo(places, k) < n
  <2>1. k \notin T
    BY <1>4, <1>7, <1>8
  <2>2. UpTo(places, k) \in Nat
    BY <1>8, UpToType
  <2> QED
    BY <1>5, <1>8, <2>1, <2>2
<1> HIDE DEF k
<1>10. i \in places /\ UpTo(places, i) = n
  <2>1. /\ i \in places => UpTo(places, i) = UpTo(places, k) + 1
        /\ i \notin places => UpTo(places, i) = UpTo(places, k)
    BY <1>8, UpToNext
  <2> QED
    BY <1>5, <1>7, <1>9, <2>1
<1> QED
  BY <1>10 DEF Place

LEMMA PlaceRises ==
  ASSUME NEW max \in Nat, NEW places, places \subseteq 1 .. max,
         NEW m \in 1 .. Cardinality(places), NEW n \in 1 .. Cardinality(places),
         m <= n
  PROVE  Place(places, m) <= Place(places, n)
<1> DEFINE i == Place(places, m)
           j == Place(places, n)
<1>1. i \in places /\ UpTo(places, i) = m
  BY PlaceExists
<1>2. j \in places /\ UpTo(places, j) = n
  BY PlaceExists
<1> HIDE DEF i, j
<1>3. i \in Nat /\ j \in Nat
  BY <1>1, <1>2
<1>4. m \in Nat /\ n \in Nat
  BY <1>1, <1>2, <1>3, UpToType
<1>5. ~(j < i)
  BY <1>1, <1>2, <1>3, <1>4, UpToRises
<1> QED
  BY <1>3, <1>5 DEF i, j

LEMMA PickedIs ==
  ASSUME NEW seq, NEW places
  PROVE  Picked(seq, places)
           = [n \in 1 .. Cardinality(places) |-> seq[Place(places, n)]]
BY DEF Picked, Place, UpTo

(* As many are picked as there are places.                                   *)
LEMMA PickedType ==
  ASSUME NEW S, NEW seq \in Seq(S), NEW places, places \subseteq DOMAIN seq
  PROVE  /\ Cardinality(places) \in Nat
         /\ Picked(seq, places) \in Seq(S)
         /\ Len(Picked(seq, places)) = Cardinality(places)
<1> DEFINE max == Len(seq)
           size == Cardinality(places)
<1>1. max \in Nat /\ DOMAIN seq = 1 .. max
  OBVIOUS
<1>2. IsFiniteSet(1 .. max)
  BY <1>1, FS_Interval
<1>3. IsFiniteSet(places)
  BY <1>1, <1>2, FS_Subset
<1>4. size \in Nat
  BY <1>3, FS_CardinalityType
<1>5. \A n \in 1 .. size : seq[Place(places, n)] \in S
  <2> SUFFICES ASSUME NEW n \in 1 .. size PROVE seq[Place(places, n)] \in S
    OBVIOUS
  <2>1. Place(places, n) \in places
    BY <1>1, PlaceExists
  <2> QED
    BY <2>1
<1> HIDE DEF size
<1>6. [n \in 1 .. size |-> seq[Place(places, n)]] \in Seq(S)
  BY <1>4, <1>5, SeqDef
<1> QED
  BY <1>4, <1>6, PickedIs DEF size

(* Of the first places the first members are picked.                         *)
LEMMA PickedFirst ==
  ASSUME NEW S, NEW seq \in Seq(S), NEW k \in 0 .. Len(seq)
  PROVE  Picked(seq, 1 .. k) = [n \in 1 .. k |-> seq[n]]
<1>1. k \in Nat
  OBVIOUS
<1>2. Cardinality(1 .. k) = k
  BY <1>1, FS_Interval
<1>3. ASSUME NEW n \in 1 .. k PROVE Place(1 .. k, n) = n
  <2>1. n \in Nat /\ (1 .. k) \cap 1 .. n = 1 .. n
    BY <1>1
  <2>2. Cardinality(1 .. n) = n
    BY <2>1, FS_Interval
  <2>3. UpTo(1 .. k, n) = n
    BY <2>1, <2>2 DEF UpTo
  <2>4. 1 .. k \subseteq Nat
    BY <1>1
  <2>5. Place(1 .. k, UpTo(1 .. k, n)) = n
    BY <2>4, PlaceUnique
  <2> QED
    BY <2>3, <2>5
<1> QED
  BY <1>2, <1>3, PickedIs

(* What comes to a sequence is picked last, or not at all.                   *)
LEMMA PickedAppend ==
  ASSUME NEW S, NEW seq \in Seq(S), NEW x \in S,
         NEW places, places \subseteq DOMAIN seq
  PROVE  /\ Picked(Append(seq, x), places) = Picked(seq, places)
         /\ Picked(Append(seq, x), places \cup {Len(seq) + 1})
              = Append(Picked(seq, places), x)
<1> DEFINE max == Len(seq)
           size == Cardinality(places)
           more == places \cup {max + 1}
           longer == Append(seq, x)
<1>1. max \in Nat /\ DOMAIN seq = 1 .. max
  OBVIOUS
<1>2. IsFiniteSet(places) /\ size \in Nat
  <2>1. IsFiniteSet(1 .. max)
    BY <1>1, FS_Interval
  <2>2. IsFiniteSet(places)
    BY <1>1, <2>1, FS_Subset
  <2> QED
    BY <2>2, FS_CardinalityType
<1>3. max + 1 \notin places
  BY <1>1
<1>4. Cardinality(more) = size + 1
  BY <1>2, <1>3, FS_AddElement
<1>5. \A i \in 1 .. max : longer[i] = seq[i]
  BY <1>1
<1>6. longer[max + 1] = x
  BY <1>1
<1>7. \A n \in 1 .. size : Place(places, n) \in 1 .. max
  <2> SUFFICES ASSUME NEW n \in 1 .. size
               PROVE  Place(places, n) \in 1 .. max
    OBVIOUS
  <2>1. Place(places, n) \in places
    BY <1>1, PlaceExists
  <2> QED
    BY <1>1, <2>1
<1>8. \A n \in 1 .. size : Place(more, n) = Place(places, n)
  <2> SUFFICES ASSUME NEW n \in 1 .. size
               PROVE  Place(more, n) = Place(places, n)
    OBVIOUS
  <2> DEFINE i == Place(places, n)
  <2>1. i \in places /\ UpTo(places, i) = n
    BY <1>1, PlaceExists
  <2> HIDE DEF i
  <2>2. more \cap 1 .. i = places \cap 1 .. i
    BY <1>1, <2>1
  <2>3. UpTo(more, i) = n
    BY <2>1, <2>2 DEF UpTo
  <2>4. i \in more /\ more \subseteq Nat
    BY <1>1, <2>1
  <2>5. Place(more, UpTo(more, i)) = i
    BY <2>4, PlaceUnique
  <2> QED
    BY <2>3, <2>5 DEF i
<1>9. Place(more, size + 1) = max + 1
  <2>1. more \cap 1 .. max + 1 = more
    BY <1>1
  <2>2. UpTo(more, max + 1) = size + 1
    BY <1>4, <2>1 DEF UpTo
  <2>3. max + 1 \in more /\ more \subseteq Nat
    BY <1>1
  <2>4. Place(more, UpTo(more, max + 1)) = max + 1
    BY <2>3, PlaceUnique
  <2> QED
    BY <2>2, <2>4
<1> HIDE DEF max, size, longer
<1>10. Picked(longer, places) = Picked(seq, places)
  <2>1. \A n \in 1 .. size : longer[Place(places, n)] = seq[Place(places, n)]
    BY <1>5, <1>7
  <2>2. Picked(longer, places) = [n \in 1 .. size |-> longer[Place(places, n)]]
    BY PickedIs DEF size
  <2>3. Picked(seq, places) = [n \in 1 .. size |-> seq[Place(places, n)]]
    BY PickedIs DEF size
  <2> QED
    BY <2>1, <2>2, <2>3
<1>11. Picked(longer, more) = Append(Picked(seq, places), x)
  <2>1. Picked(longer, more) = [n \in 1 .. size + 1 |-> longer[Place(more, n)]]
    BY <1>4, PickedIs
  <2>2. Picked(seq, places) = [n \in 1 .. size |-> seq[Place(places, n)]]
    BY PickedIs DEF size
  <2>3. Picked(seq, places) \in Seq(S) /\ Len(Picked(seq, places)) = size
    BY PickedType DEF size
  <2>4. \A n \in 1 .. size : longer[Place(more, n)] = Picked(seq, places)[n]
    BY <1>5, <1>7, <1>8, <2>2
  <2>5. longer[Place(more, size + 1)] = x
    BY <1>6, <1>9
  <2> HIDE DEF more
  <2>6. Append(Picked(seq, places), x)
          = [n \in 1 .. size + 1 |->
               IF n <= size THEN Picked(seq, places)[n] ELSE x]
    <3> DEFINE front == Picked(seq, places)
    <3>1. front \in Seq(S) /\ Len(front) = size
      BY <2>3
    <3> HIDE DEF front
    <3>2. /\ Append(front, x) \in Seq(S)
          /\ Len(Append(front, x)) = size + 1
          /\ \A n \in 1 .. size : Append(front, x)[n] = front[n]
          /\ Append(front, x)[size + 1] = x
      BY <1>2, <3>1, AppendProperties
    <3>3. Append(front, x) \in [1 .. size + 1 -> S]
      BY <3>2, LenProperties
    <3>4. Append(front, x)
            = [n \in 1 .. size + 1 |-> Append(front, x)[n]]
      BY <3>3
    <3>5. \A n \in 1 .. size + 1 :
            Append(front, x)[n] = IF n <= size THEN front[n] ELSE x
      BY <1>2, <3>2
    <3> QED
      BY <3>4, <3>5 DEF front
  <2>7. \A n \in 1 .. size + 1 :
          longer[Place(more, n)]
            = IF n <= size THEN Picked(seq, places)[n] ELSE x
    BY <1>2, <2>4, <2>5
  <2> QED
    BY <2>1, <2>6, <2>7
<1> QED
  BY <1>10, <1>11 DEF max, longer
-----------------------------------------------------------------------------
(* What the logs hold.                                                       *)

Line == [time : Times, dir : {"TX", "RX"}, frame : Frame]
Entry == [time : Times, frame : Frame]

Sorted(seq) == \A i, j \in DOMAIN seq : i <= j => seq[i].time <= seq[j].time

LEMMA FramesAppend ==
  ASSUME NEW seq \in Seq(Line), NEW x \in Line
  PROVE  /\ Frames(seq) \in Seq(Frame)
         /\ Frames(Append(seq, x)) = Append(Frames(seq), x.frame)
<1> DEFINE size == Len(seq)
<1>1. size \in Nat /\ DOMAIN seq = 1 .. size
  OBVIOUS
<1>2. \A i \in 1 .. size : seq[i].frame \in Frame
  <2>1. \A i \in 1 .. size : seq[i] \in Line
    OBVIOUS
  <2>2. \A line \in Line : line.frame \in Frame
    BY DEF Line
  <2> QED
    BY <2>1, <2>2
<1>3. x.frame \in Frame
  BY DEF Line
<1>4. /\ Append(seq, x) \in Seq(Line)
      /\ Len(Append(seq, x)) = size + 1
      /\ \A i \in 1 .. size : Append(seq, x)[i] = seq[i]
      /\ Append(seq, x)[size + 1] = x
  BY <1>1, AppendProperties
<1>5. DOMAIN Append(seq, x) = 1 .. size + 1
  BY <1>4, LenProperties
<1> DEFINE longer == Append(seq, x)
<1>6. Frames(longer) = [i \in 1 .. size + 1 |-> longer[i].frame]
  BY <1>5 DEF Frames
<1>7. Frames(seq) = [i \in 1 .. size |-> seq[i].frame]
  BY <1>1 DEF Frames
<1> HIDE DEF size, longer
<1>8. Frames(seq) \in Seq(Frame) /\ Len(Frames(seq)) = size
  <2>1. [i \in 1 .. size |-> seq[i].frame] \in [1 .. size -> Frame]
    BY <1>2
  <2>2. Frames(seq) \in [1 .. size -> Frame]
    BY <1>7, <2>1
  <2>3. Frames(seq) \in Seq(Frame)
    BY <1>1, <2>2, SeqDef
  <2> QED
    BY <1>1, <1>7, <2>3
<1>9. Frames(longer) = Append(Frames(seq), x.frame)
  <2> DEFINE e == Append(Frames(seq), x.frame)
  <2>1. /\ e \in Seq(Frame)
        /\ Len(e) = size + 1
        /\ \A i \in 1 .. size : e[i] = Frames(seq)[i]
        /\ e[size + 1] = x.frame
    BY <1>3, <1>8, AppendProperties
  <2> HIDE DEF e
  <2>2. e \in [1 .. size + 1 -> Frame]
    BY <2>1, LenProperties
  <2>3. \A i \in 1 .. size + 1 : e[i] = longer[i].frame
    <3> SUFFICES ASSUME NEW i \in 1 .. size + 1 PROVE e[i] = longer[i].frame
      OBVIOUS
    <3>1. CASE i \in 1 .. size
      <4>1. e[i] = seq[i].frame
        BY <1>7, <2>1, <3>1
      <4>2. longer[i] = seq[i]
        BY <1>4, <3>1 DEF longer
      <4> QED
        BY <4>1, <4>2
    <3>2. CASE i = size + 1
      BY <1>4, <2>1, <3>2 DEF longer
    <3> QED
      BY <1>1, <3>1, <3>2
  <2> QED
    BY <1>6, <2>2, <2>3 DEF e
<1> QED
  BY <1>8, <1>9 DEF longer

(* A line of TX adds its frame to those of TX, another adds none.            *)
LEMMA TXFramesAppend ==
  ASSUME NEW lines \in Seq(Line), NEW x \in Line
  PROVE  /\ TXFrames(lines) \in Seq(Frame)
         /\ x.dir = "TX" =>
              TXFrames(Append(lines, x)) = Append(TXFrames(lines), x.frame)
         /\ x.dir # "TX" => TXFrames(Append(lines, x)) = TXFrames(lines)
<1> DEFINE size == Len(lines)
           longer == Append(lines, x)
           TX(seq) == {i \in DOMAIN seq : seq[i].dir = "TX"}
<1>1. size \in Nat /\ DOMAIN lines = 1 .. size
  OBVIOUS
<1>2. /\ DOMAIN longer = 1 .. size + 1
      /\ \A i \in 1 .. size : longer[i] = lines[i]
      /\ longer[size + 1] = x
  OBVIOUS
<1>3. /\ x.dir = "TX" => TX(longer) = TX(lines) \cup {size + 1}
      /\ x.dir # "TX" => TX(longer) = TX(lines)
  <2> HIDE DEF size, longer
  <2> QED
    BY <1>1, <1>2
<1>4. TX(lines) \subseteq DOMAIN lines
  OBVIOUS
<1>5. \A seq : TXFrames(seq) = Frames(Picked(seq, TX(seq)))
  BY DEF TXFrames
<1> HIDE DEF TX
<1>6. Picked(lines, TX(lines)) \in Seq(Line)
  BY <1>4, PickedType
<1>7. /\ Picked(longer, TX(lines)) = Picked(lines, TX(lines))
      /\ Picked(longer, TX(lines) \cup {size + 1})
           = Append(Picked(lines, TX(lines)), x)
  BY <1>4, PickedAppend
<1>8. TXFrames(lines) \in Seq(Frame)
  BY <1>5, <1>6, FramesAppend
<1>9. ASSUME x.dir = "TX"
      PROVE  TXFrames(longer) = Append(TXFrames(lines), x.frame)
  <2>1. TXFrames(longer) = Frames(Append(Picked(lines, TX(lines)), x))
    BY <1>3, <1>5, <1>7, <1>9
  <2>2. @ = Append(Frames(Picked(lines, TX(lines))), x.frame)
    BY <1>6, FramesAppend
  <2> QED
    BY <1>5, <2>1, <2>2
<1>10. ASSUME x.dir # "TX" PROVE TXFrames(longer) = TXFrames(lines)
  BY <1>3, <1>5, <1>7, <1>10
<1> QED
  BY <1>8, <1>9, <1>10

LEMMA TXFramesEmpty == TXFrames(<<>>) = <<>>
<1>1. {i \in DOMAIN <<>> : <<>>[i].dir = "TX"} = {}
  OBVIOUS
<1>2. Picked(<<>>, {}) = <<>>
  BY FS_EmptySet DEF Picked
<1> QED
  BY <1>1, <1>2 DEF TXFrames, Frames

(* A log is loaded in its order.                                             *)
LEMMA LoadedSorted ==
  ASSUME NEW lines \in Seq(Line), Sorted(lines)
  PROVE  Loaded(lines) \in Seq(Entry) /\ Sorted(Loaded(lines))
<1> DEFINE places == {i \in DOMAIN lines : lines[i].frame.length < 10}
           playable == Picked(lines, places)
           size == Cardinality(places)
           E(line) == [time |-> line.time,
                       frame |-> [line.frame EXCEPT !.ext = line.frame.large]]
<1>1. places \subseteq DOMAIN lines
  OBVIOUS
<1>2. DOMAIN lines = 1 .. Len(lines) /\ Len(lines) \in Nat
  OBVIOUS
<1> HIDE DEF places
<1>3. playable \in Seq(Line) /\ Len(playable) = size /\ size \in Nat
  BY <1>1, PickedType
<1>4. playable = [n \in 1 .. size |-> lines[Place(places, n)]]
  BY PickedIs
<1>5. DOMAIN playable = 1 .. size
  BY <1>4
<1>6. Loaded(lines) = [n \in 1 .. size |-> E(playable[n])]
  BY <1>5 DEF Loaded, places
<1>7. \A line \in Line : E(line) \in Entry
  BY DEF Line, Entry, Frame
<1> HIDE DEF playable, size
<1>8. \A n \in 1 .. size : playable[n] \in Line
  BY <1>3, <1>5
<1>9. Loaded(lines) \in Seq(Entry)
  <2>1. [n \in 1 .. size |-> E(playable[n])] \in [1 .. size -> Entry]
    BY <1>7, <1>8
  <2> QED
    BY <1>3, <1>6, <2>1, SeqDef
<1>10. ASSUME NEW m \in 1 .. size, NEW n \in 1 .. size, m <= n
       PROVE  playable[m].time <= playable[n].time
  <2>1. Place(places, m) <= Place(places, n)
    BY <1>1, <1>2, <1>10, PlaceRises DEF size
  <2>2. Place(places, m) \in DOMAIN lines /\ Place(places, n) \in DOMAIN lines
    BY <1>1, <1>2, PlaceExists DEF size
  <2> QED
    BY <1>4, <2>1, <2>2 DEF Sorted
<1>11. Sorted(Loaded(lines))
  BY <1>6, <1>10 DEF Sorted
<1> QED
  BY <1>9, <1>11
-----------------------------------------------------------------------------
(* Sequences that are handed on.                                             *)

(* The first member of one sequence becomes the last of the other.           *)
LEMMA HandedOn ==
  ASSUME NEW S, NEW s \in Seq(S), NEW t \in Seq(S), t # <<>>
  PROVE  Append(s, Head(t)) \o Tail(t) = s \o t
<1>1. Head(t) \in S /\ Tail(t) \in Seq(S) /\ t = <<Head(t)>> \o Tail(t)
  OBVIOUS
<1> DEFINE x == Head(t)
           r == Tail(t)
<1>2. Append(s, x) = s \o <<x>> /\ <<x>> \in Seq(S)
  BY <1>1
<1> HIDE DEF x, r
<1>3. (s \o <<x>>) \o r = s \o (<<x>> \o r)
  BY <1>1, <1>2, ConcatAssociative DEF x, r
<1> QED
  BY <1>1, <1>2, <1>3 DEF x, r

(* A sequence of the greatest number that may be taken.                      *)
LEMMA Greatest ==
  ASSUME NEW max \in Nat, NEW T, T \subseteq 0 .. max, T # {}
  PROVE  Max(T) \in T /\ \A y \in T : y <= Max(T)
<1> DEFINE U == {max - y : y \in T}
<1>1. U \subseteq Nat /\ U # {}
  <2>1. \A y \in T : y \in 0 .. max
    OBVIOUS
  <2>2. \A y \in T : max - y \in Nat
    BY <2>1
  <2> QED
    BY <2>2
<1>2. PICK u \in U : \A v \in U : u <= v
  BY <1>1, Least
<1>3. PICK x \in T : u = max - x
  BY <1>2
<1>4. \A y \in T : max - x <= max - y
  BY <1>2, <1>3
<1>5. \A y \in T : x >= y
  BY <1>4
<1>6. Max(T) \in T /\ \A y \in T : Max(T) >= y
  BY <1>5 DEF Max
<1> QED
  BY <1>6
-----------------------------------------------------------------------------
(* The invariant.                                                            *)

(* Logs are in the order of their times, which is what lets the player stop  *)
(* at the first frame that is not due.                                       *)
LoggerInv ==
  /\ simStarted \in BOOLEAN
  /\ second \in 0 .. MaxSecond
  /\ IsFiniteSet(DOMAIN files) /\ Closed \notin DOMAIN files
  /\ \A f \in DOMAIN files :
       files[f] \in Seq(Line) /\ Len(files[f]) <= MaxLines /\ Sorted(files[f])
  /\ \A l \in Loggers : open[l] \in IF simStarted THEN DOMAIN files ELSE {Closed}
  /\ OwnFiles

PlayerInv ==
  /\ tick \in Ticks /\ ticks \in 0 .. MaxTicks
  /\ frames \in Seq(Entry) /\ Sorted(frames)
  /\ frameNdx \in Nat
  /\ playing \in BOOLEAN /\ touched \in BOOLEAN
  /\ calls \in Seq({"start", "stop"}) /\ Len(calls) <= MaxCalls
  /\ msgQueue \in Seq(Frame) /\ Len(msgQueue) <= MaxQueue
  /\ played \in Seq(Frame)
  /\ ~touched => frameNdx <= Len(frames)

(* What was played are the frames before frameNdx, which were due, whereas   *)
(* the next one was not with the last tick.                                  *)
PlayedSoFar ==
  playing /\ ~touched =>
    /\ played = [i \in 1 .. frameNdx |-> frames[i].frame]
    /\ \A i \in 1 .. frameNdx : frames[i].time <= ticks
    /\ ticks > 0 /\ frameNdx < Len(frames) => frames[frameNdx + 1].time > ticks

(* Until the player has heard of an undisturbed start it is silent.          *)
StartAhead ==
  simStarted /\ ~disturbed /\ calls # <<>> => calls = <<"start">> /\ ~playing

TraceInv ==
  /\ LoggerInv /\ PlayerInv /\ PlayedSoFar
  /\ bus \in Seq(Frame) /\ disturbed \in BOOLEAN
  /\ StartAhead
  /\ PlayedIsLogged
-----------------------------------------------------------------------------
(* The loggers.                                                              *)

LEMMA InitLogger == LoggerInit => LoggerInv
<1> SUFFICES ASSUME LoggerInit PROVE LoggerInv
  OBVIOUS
<1>1. DOMAIN files = {}
  BY DEF LoggerInit
<1>2. \A l \in Loggers : open[l] = Closed
  BY DEF LoggerInit
<1>3. IsFiniteSet(DOMAIN files)
  BY <1>1, FS_EmptySet
<1>4. OwnFiles
  BY <1>2 DEF OwnFiles
<1>5. second \in 0 .. MaxSecond
  BY LoggerAssumption DEF LoggerInit
<1>6. simStarted = FALSE
  BY DEF LoggerInit
<1> QED
  BY <1>1, <1>2, <1>3, <1>4, <1>5, <1>6 DEF LoggerInv

(* As long as there are no more than MaxFiles names, one of the numbers up   *)
(* to MaxFiles makes a new one.                                              *)
LEMMA FreeNameIsFree ==
  ASSUME NEW s, NEW names, IsFiniteSet(names), Cardinality(names) <= MaxFiles
  PROVE  /\ FreeName(s, names) \notin names
         /\ FreeName(s, names) # Closed
<1> DEFINE numbers == 0 .. MaxFiles
           free == {n \in numbers : NameOf(s, n) \notin names}
           name == [n \in numbers |-> NameOf(s, n)]
<1>1. MaxFiles \in Nat
  BY LoggerAssumption
<1>2. IsFiniteSet(numbers) /\ Cardinality(numbers) = MaxFiles + 1
  BY <1>1, FS_Interval
<1>3. Cardinality(names) \in Nat
  BY FS_CardinalityType
<1>4. Cardinality(names) < Cardinality(numbers)
  BY <1>1, <1>2, <1>3
<1>5. free # {}
  <2> SUFFICES ASSUME free = {} PROVE FALSE
    OBVIOUS
  <2>1. name \in [numbers -> names]
    OBVIOUS
  <2> HIDE DEF numbers
  <2>2. PICK x, y \in numbers : x # y /\ name[x] = name[y]
    <3> HIDE DEF name
    <3> QED
      BY <1>2, <1>4, <2>1, FS_PigeonHole
  <2> QED
    BY <2>2 DEF NameOf
<1>6. free \subseteq Nat
  BY <1>1
<1>7. \E n \in free : \A k \in free : n <= k
  BY <1>5, <1>6, Least
<1>8. PICK n \in free : FreeName(s, names) = NameOf(s, n)
  BY <1>7 DEF FreeName
<1> QED
  BY <1>8 DEF NameOf, Closed

(* Each logger starts a file that no other has, and that was not there.      *)
LEMMA StartedFiles ==
  ASSUME LoggerInv, StartLoggers
  PROVE  /\ \A l \in Loggers : open'[l] \notin DOMAIN files /\ open'[l] # Closed
         /\ \A k, l \in Loggers : k # l => open'[k] # open'[l]
<1>1. PICK s \in second .. MaxSecond,
           turn \in Bijection(Loggers, 1 .. Cardinality(Loggers)) :
        \A l \in Loggers :
          LET before == {k \in Loggers : turn[k] < turn[l]}
          IN open'[l] = FreeName(s, DOMAIN files \cup {open'[k] : k \in before})
  BY DEF StartLoggers
<1> DEFINE Before(l) == {k \in Loggers : turn[k] < turn[l]}
           Taken(l) == {open'[k] : k \in Before(l)}
<1>2. ASSUME NEW l \in Loggers
      PROVE  /\ open'[l] \notin DOMAIN files \cup Taken(l)
             /\ open'[l] # Closed
  <2> DEFINE before == Before(l)
             taken == Taken(l)
             old == DOMAIN files
             opening == [k \in before |-> open'[k]]
  <2>1. before \in SUBSET Loggers
    OBVIOUS
  <2>2. IsFiniteSet(Loggers)
    BY LoggerAssumption
  <2>3. IsFiniteSet(before) /\ Cardinality(before) <= Cardinality(Loggers)
    <3> HIDE DEF before
    <3> QED
      BY <2>1, <2>2, FS_Subset
  <2>4. opening \in Surjection(before, taken)
    <3>1. opening \in [before -> taken]
      OBVIOUS
    <3>2. \A t \in taken : \E k \in before : opening[k] = t
      OBVIOUS
    <3> QED
      BY <3>1, <3>2 DEF Surjection
  <2>5. IsFiniteSet(taken) /\ Cardinality(taken) <= Cardinality(before)
    <3> HIDE DEF taken, before, opening
    <3> QED
      BY <2>3, <2>4, FS_Surjection
  <2>6. IsFiniteSet(old)
    BY DEF LoggerInv
  <2> HIDE DEF taken, before, old
  <2>7. /\ IsFiniteSet(old \cup taken)
        /\ Cardinality(old \cup taken)
             = Cardinality(old) + Cardinality(taken) - Cardinality(old \cap taken)
    BY <2>5, <2>6, FS_Union
  <2>8. IsFiniteSet(old \cap taken)
    <3>1. old \cap taken \in SUBSET old
      OBVIOUS
    <3> QED
      BY <2>6, <3>1, FS_Subset
  <2>9. /\ Cardinality(old) \in Nat /\ Cardinality(taken) \in Nat
        /\ Cardinality(old \cap taken) \in Nat
        /\ Cardinality(before) \in Nat /\ Cardinality(Loggers) \in Nat
    BY <2>2, <2>3, <2>5, <2>6, <2>8, FS_CardinalityType
  <2>10. Cardinality(old) + Cardinality(Loggers) <= MaxFiles
    BY DEF StartLoggers, old
  <2>11. Cardinality(old \cup taken) <= MaxFiles
    <3>1. MaxFiles \in Nat
      BY LoggerAssumption
    <3> QED
      BY <2>3, <2>5, <2>7, <2>9, <2>10, <3>1
  <2>12. open'[l] = FreeName(s, old \cup taken)
    BY <1>1 DEF old, taken, before
  <2>13. open'[l] \notin old \cup taken /\ open'[l] # Closed
    BY <2>7, <2>11, <2>12, FreeNameIsFree
  <2> QED
    BY <2>13 DEF old, taken, before
<1>3. ASSUME NEW k \in Loggers, NEW l \in Loggers, k # l
      PROVE  open'[k] # open'[l]
  <2>1. turn[k] \in Nat /\ turn[l] \in Nat /\ turn[k] # turn[l]
    BY <1>3 DEF Bijection, Injection, IsInjective
  <2>2. CASE turn[k] < turn[l]
    <3>1. open'[k] \in Taken(l)
      BY <2>2
    <3> QED
      BY <1>2, <3>1
  <2>3. CASE turn[l] < turn[k]
    <3>1. open'[l] \in Taken(k)
      BY <2>3
    <3> QED
      BY <1>2, <3>1
  <2> QED
    BY <2>1, <2>2, <2>3
<1> QED
  BY <1>2, <1>3

LEMMA StartLoggersInv ==
  ASSUME LoggerInv, StartLoggers
  PROVE  /\ LoggerInv'
         /\ simStarted'
         /\ \A l \in Loggers : files'[open'[l]] = <<>>
         /\ OnlyAppended
<1> DEFINE names == {open'[l] : l \in Loggers}
           old == DOMAIN files
<1>1. /\ \A l \in Loggers : open'[l] \notin old /\ open'[l] # Closed
      /\ \A k, l \in Loggers : k # l => open'[k] # open'[l]
  BY StartedFiles
<1>2. files' = [f \in old \cup names |-> IF f \in names THEN <<>> ELSE files[f]]
  BY DEF StartLoggers, Opened
<1>3. names \cap old = {} /\ Closed \notin names
  BY <1>1
<1>4. IsFiniteSet(names)
  <2> DEFINE opening == [l \in Loggers |-> open'[l]]
  <2>1. opening \in Surjection(Loggers, names)
    <3>1. opening \in [Loggers -> names]
      OBVIOUS
    <3>2. \A t \in names : \E l \in Loggers : opening[l] = t
      OBVIOUS
    <3> QED
      BY <3>1, <3>2 DEF Surjection
  <2> HIDE DEF names, opening
  <2> QED
    BY <2>1, LoggerAssumption, FS_Surjection
<1>5. \A l \in Loggers : open'[l] \in names
  OBVIOUS
<1> HIDE DEF names
<1>6. DOMAIN files' = old \cup names
  BY <1>2
<1>7. IsFiniteSet(DOMAIN files') /\ Closed \notin DOMAIN files'
  BY <1>3, <1>4, <1>6, FS_Union DEF LoggerInv
<1>8. \A f \in names : files'[f] = <<>>
  BY <1>2
<1>9. \A f \in old : files'[f] = files[f]
  BY <1>2, <1>3
<1>10. ASSUME NEW f \in DOMAIN files'
       PROVE  /\ files'[f] \in Seq(Line) /\ Len(files'[f]) <= MaxLines
              /\ Sorted(files'[f])
  <2>1. CASE f \in names
    <3>1. <<>> \in Seq(Line) /\ Len(<<>>) <= MaxLines
      BY LoggerAssumption
    <3>2. Sorted(<<>>)
      BY DEF Sorted
    <3> QED
      BY <1>8, <2>1, <3>1, <3>2
  <2>2. CASE f \in old
    BY <1>9, <2>2 DEF LoggerInv
  <2> QED
    BY <1>6, <2>1, <2>2
<1>11. OnlyAppended
  <2> SUFFICES ASSUME NEW f \in DOMAIN files \cap DOMAIN files'
               PROVE  IsPrefix(files[f], files'[f])
    BY DEF OnlyAppended
  <2>1. files'[f] = files[f]
    BY <1>9
  <2>2. files[f] \in Seq(Line)
    BY DEF LoggerInv
  <2> QED
    BY <2>1, <2>2 DEF IsPrefix
<1>12. simStarted' = TRUE
  BY DEF StartLoggers
<1>13. second' \in 0 .. MaxSecond
  BY LoggerAssumption DEF StartLoggers, LoggerInv
<1>14. OwnFiles'
  BY <1>1 DEF OwnFiles
<1>15. \A l \in Loggers : open'[l] \in DOMAIN files'
  BY <1>5, <1>6
<1>16. LoggerInv'
  BY <1>7, <1>10, <1>12, <1>13, <1>14, <1>15 DEF LoggerInv
<1> QED
  BY <1>5, <1>8, <1>11, <1>12, <1>16

(* Every open log gets a line at its end, and no other changes.              *)
LEMMA LogFrameInv ==
  ASSUME LoggerInv, NEW frame \in Frame, NEW dir \in {"TX", "RX"},
         LogFrame(frame, dir)
  PROVE  /\ LoggerInv'
         /\ UNCHANGED <<simStarted, open>>
         /\ \A f \in DOMAIN files : Writing(f) =>
              \E t \in Times :
                files'[f] = Append(files[f], [time |-> t, dir |-> dir, frame |-> frame])
         /\ OnlyAppended
<1>1. PICK t \in Times :
        /\ \A f \in DOMAIN files : Writing(f) => LastTime(files[f]) <= t
        /\ files' = [f \in DOMAIN files |->
                       IF Writing(f)
                       THEN Append(files[f], [time |-> t, dir |-> dir, frame |-> frame])
                       ELSE files[f]]
  BY DEF LogFrame
<1>2. /\ UNCHANGED <<simStarted, second, open>>
      /\ \A f \in DOMAIN files : Writing(f) => Len(files[f]) < MaxLines
  BY DEF LogFrame
<1> DEFINE line == [time |-> t, dir |-> dir, frame |-> frame]
<1>3. line \in Line /\ line.time = t
  BY DEF Line
<1> HIDE DEF line
<1>4. DOMAIN files' = DOMAIN files
  BY <1>1
<1>5. \A f \in DOMAIN files :
        files'[f] = IF Writing(f) THEN Append(files[f], line) ELSE files[f]
  BY <1>1 DEF line
<1>6. ASSUME NEW f \in DOMAIN files
      PROVE  /\ files'[f] \in Seq(Line) /\ Len(files'[f]) <= MaxLines
             /\ Sorted(files'[f])
             /\ IsPrefix(files[f], files'[f])
  <2> DEFINE lines == files[f]
             size == Len(lines)
  <2>1. lines \in Seq(Line) /\ Len(lines) <= MaxLines /\ Sorted(lines)
    BY DEF LoggerInv
  <2> HIDE DEF lines
  <2>2. CASE ~Writing(f)
    <3>1. files'[f] = lines
      BY <1>5, <2>2 DEF lines
    <3>2. IsPrefix(lines, lines)
      BY <2>1 DEF IsPrefix
    <3> QED
      BY <2>1, <3>1, <3>2 DEF lines
  <2>3. CASE Writing(f)
    <3> DEFINE longer == Append(lines, line)
    <3>1. files'[f] = longer
      BY <1>5, <2>3 DEF lines
    <3>2. size < MaxLines /\ LastTime(lines) <= t
      BY <1>1, <1>2, <2>3 DEF lines
    <3>3. /\ longer \in Seq(Line)
          /\ Len(longer) = size + 1
          /\ \A i \in 1 .. size : longer[i] = lines[i]
          /\ longer[size + 1] = line
      BY <1>3, <2>1, AppendProperties
    <3>4. size \in Nat /\ DOMAIN lines = 1 .. size /\ MaxLines \in Nat
      BY <2>1, LoggerAssumption
    <3> HIDE DEF longer, size
    <3>5. Len(longer) <= MaxLines
      BY <3>2, <3>3, <3>4
    <3>6. DOMAIN longer = 1 .. size + 1
      BY <3>3
    <3>7. \A i \in 1 .. size : lines[i].time <= t
      <4> SUFFICES ASSUME NEW i \in 1 .. size PROVE lines[i].time <= t
        OBVIOUS
      <4>1. size \in 1 .. size /\ lines # <<>>
        BY <2>1, <3>4 DEF size
      <4>2. lines[size].time <= t
        BY <3>2, <4>1 DEF LastTime, Last, size
      <4>3. lines[i].time <= lines[size].time
        BY <2>1, <3>4, <4>1 DEF Sorted
      <4>4. lines[i] \in Line /\ lines[size] \in Line
        BY <2>1, <3>4, <4>1
      <4>5. lines[i].time \in Nat /\ lines[size].time \in Nat /\ t \in Nat
        BY <4>4, LoggerAssumption DEF Line
      <4> QED
        BY <4>2, <4>3, <4>5
    <3>8. Sorted(longer)
      <4> SUFFICES ASSUME NEW i \in 1 .. size + 1, NEW j \in 1 .. size + 1, i <= j
                   PROVE  longer[i].time <= longer[j].time
        BY <3>6 DEF Sorted
      <4>1. t \in Nat
        BY LoggerAssumption
      <4>2. CASE j \in 1 .. size
        <5>1. i \in 1 .. size
          BY <3>4, <4>2
        <5> QED
          BY <2>1, <3>3, <3>4, <4>2, <5>1 DEF Sorted
      <4>3. CASE j = size + 1 /\ i \in 1 .. size
        BY <1>3, <3>3, <3>7, <4>3
      <4>4. CASE j = size + 1 /\ i = size + 1
        BY <1>3, <3>3, <4>1, <4>4
      <4> QED
        BY <3>4, <4>2, <4>3, <4>4
    <3>9. IsPrefix(lines, longer)
      <4>1. SubSeq(longer, 1, size) = lines
        BY <1>3, <2>1, <3>4 DEF longer, size
      <4>2. SubSeq(lines, 1, size) = lines
        BY <2>1 DEF size
      <4> QED
        BY <3>3, <3>4, <4>1, <4>2 DEF IsPrefix, size
    <3> QED
      BY <3>1, <3>3, <3>5, <3>8, <3>9 DEF lines
  <2> QED
    BY <2>2, <2>3
<1>7. OnlyAppended
  BY <1>6 DEF OnlyAppended
<1>8. \A l \in Loggers : open'[l] \in IF simStarted' THEN DOMAIN files' ELSE {Closed}
  BY <1>2, <1>4 DEF LoggerInv
<1>9. OwnFiles'
  BY <1>2 DEF LoggerInv, OwnFiles
<1>10. LoggerInv'
  BY <1>2, <1>4, <1>6, <1>8, <1>9 DEF LoggerInv
<1> QED
  BY <1>2, <1>5, <1>7, <1>10 DEF line
-----------------------------------------------------------------------------
(* The player.                                                               *)

LEMMA InitPlayer == PlayerInit => PlayerInv /\ PlayedSoFar
<1> SUFFICES ASSUME PlayerInit PROVE PlayerInv /\ PlayedSoFar
  OBVIOUS
<1>1. Sorted(frames) /\ frames \in Seq(Entry) /\ Len(frames) = 0
  BY DEF PlayerInit, Sorted
<1>2. /\ calls = <<>> /\ msgQueue = <<>> /\ played = <<>>
      /\ frameNdx = 0 /\ ticks = 0 /\ playing = FALSE /\ touched = FALSE
      /\ tick \in Ticks
  BY DEF PlayerInit
<1>3. calls \in Seq({"start", "stop"}) /\ Len(calls) = 0
  BY <1>2
<1>4. msgQueue \in Seq(Frame) /\ Len(msgQueue) = 0
  BY <1>2
<1>5. played \in Seq(Frame)
  BY <1>2
<1>6. PlayedSoFar
  BY <1>2 DEF PlayedSoFar
<1>7. 0 \in 0 .. MaxTicks /\ 0 <= MaxCalls /\ 0 <= MaxQueue
  BY PlayerAssumption
<1>8. /\ ticks \in 0 .. MaxTicks /\ tick \in Ticks
      /\ frameNdx \in Nat /\ frameNdx <= Len(frames)
  BY <1>1, <1>2, <1>7
<1>12. playing \in BOOLEAN /\ touched \in BOOLEAN
  BY <1>2
<1>9. Len(calls) <= MaxCalls /\ Len(msgQueue) <= MaxQueue
  BY <1>3, <1>4, <1>7
<1>10. calls \in Seq({"start", "stop"})
  BY <1>3
<1>11. msgQueue \in Seq(Frame)
  BY <1>4
<1> QED
  BY <1>1, <1>5, <1>6, <1>8, <1>9, <1>10, <1>11, <1>12 DEF PlayerInv

(* A frame in the list is what it says.                                      *)
LEMMA EntryTypes ==
  ASSUME frames \in Seq(Entry), NEW i \in 1 .. Len(frames)
  PROVE  frames[i].time \in Nat /\ frames[i].frame \in Frame
<1>1. frames[i] \in Entry
  OBVIOUS
<1> QED
  BY <1>1, LoggerAssumption DEF Entry

(* Everything that is due is played, up to the first frame that is not.      *)
LEMMA DueEndIs ==
  ASSUME PlayerInv, NEW now \in Nat
  PROVE  /\ DueEnd(now) \in Nat /\ frameNdx <= DueEnd(now)
         /\ DueEnd(now) > frameNdx => DueEnd(now) <= Len(frames)
         /\ \A i \in frameNdx + 1 .. DueEnd(now) : frames[i].time <= now
         /\ frameNdx <= Len(frames) /\ DueEnd(now) < Len(frames) =>
              frames[DueEnd(now) + 1].time > now
<1> DEFINE max == Len(frames)
           ends == {n \in frameNdx .. max :
                      \A i \in frameNdx + 1 .. n : frames[i].time <= now}
           e == DueEnd(now)
<1>1. max \in Nat /\ frameNdx \in Nat
  BY DEF PlayerInv
<1>2. e = IF ends = {} THEN frameNdx ELSE Max(ends)
  BY DEF DueEnd
<1>3. \A i \in 1 .. max : frames[i].time \in Nat
  BY EntryTypes DEF PlayerInv
<1> HIDE DEF e
<1>4. CASE frameNdx > max
  <2>1. ends = {}
    BY <1>1, <1>4
  <2>2. e = frameNdx
    BY <1>2, <2>1
  <2> HIDE DEF max
  <2> QED
    BY <1>1, <1>4, <2>2 DEF e, max
<1>5. CASE frameNdx <= max
  <2>1. frameNdx \in ends
    BY <1>1, <1>5
  <2>2. ends \subseteq 0 .. max
    BY <1>1
  <2>3. e = Max(ends)
    BY <1>2, <2>1
  <2>4. e \in ends /\ \A n \in ends : n <= e
    <3> HIDE DEF ends
    <3> QED
      BY <1>1, <2>1, <2>2, <2>3, Greatest
  <2>5. /\ e \in Nat /\ frameNdx <= e /\ e <= max
        /\ \A i \in frameNdx + 1 .. e : frames[i].time <= now
    BY <1>1, <2>4
  <2>6. ASSUME e < max PROVE frames[e + 1].time > now
    <3> SUFFICES ASSUME ~(frames[e + 1].time > now) PROVE FALSE
      OBVIOUS
    <3>1. frames[e + 1].time \in Nat
      BY <1>1, <1>3, <2>5, <2>6
    <3>2. frames[e + 1].time <= now
      BY <3>1
    <3>3. \A i \in frameNdx + 1 .. e + 1 : frames[i].time <= now
      BY <1>1, <2>5, <3>2
    <3>4. e + 1 \in ends
      BY <1>1, <2>5, <2>6, <3>3
    <3>5. e + 1 <= e
      BY <2>4, <3>4
    <3> QED
      BY <2>5, <3>5
  <2> QED
    BY <2>5, <2>6 DEF e
<1> QED
  BY <1>1, <1>4, <1>5

(* A tick: what is due is played, and queued as far as there is room.        *)
LEMMA TimeoutInv ==
  ASSUME PlayerInv, PlayedSoFar, Timeout
  PROVE  /\ PlayerInv' /\ PlayedSoFar'
         /\ \E due \in Seq(Frame) :
              /\ played' = played \o due
              /\ msgQueue' = Enqueued(msgQueue, due)
              /\ Len(played') = Len(played) + Len(due)
              /\ Len(msgQueue') - Len(msgQueue) = Len(due) =>
                   msgQueue' = msgQueue \o due
<1> DEFINE e == DueEnd(ticks')
           count == e - frameNdx
           due == [i \in 1 .. count |-> frames[frameNdx + i].frame]
           max == Len(frames)
<1>1. /\ playing
      /\ ticks' = IF ticks + tick < MaxTicks THEN ticks + tick ELSE MaxTicks
      /\ frameNdx' = e
      /\ played' = played \o due
      /\ msgQueue' = Enqueued(msgQueue, due)
      /\ UNCHANGED <<tick, frames, playing, calls, touched>>
  BY DEF Timeout, config
<1>2. /\ ticks \in 0 .. MaxTicks /\ tick \in Nat /\ MaxTicks \in Nat
      /\ ticks' \in 0 .. MaxTicks /\ ticks <= ticks'
  BY <1>1, PlayerAssumption DEF PlayerInv
<1>3. ticks' \in Nat
  BY <1>2
<1>4. /\ e \in Nat /\ frameNdx <= e
      /\ e > frameNdx => e <= max
      /\ \A i \in frameNdx + 1 .. e : frames[i].time <= ticks'
      /\ frameNdx <= max /\ e < max => frames[e + 1].time > ticks'
  BY <1>3, DueEndIs
<1>5. frameNdx \in Nat /\ max \in Nat /\ frames \in Seq(Entry)
  BY DEF PlayerInv
<1> HIDE DEF e
<1>6. count \in Nat /\ e = frameNdx + count
  BY <1>4, <1>5
<1>7. due \in Seq(Frame) /\ Len(due) = count
  <2>1. \A i \in 1 .. count : frames[frameNdx + i].frame \in Frame
    <3> SUFFICES ASSUME NEW i \in 1 .. count
                 PROVE  frames[frameNdx + i].frame \in Frame
      OBVIOUS
    <3>1. frameNdx + i \in 1 .. max
      BY <1>4, <1>5, <1>6
    <3> QED
      BY <1>5, <3>1, EntryTypes
  <2> HIDE DEF count
  <2>2. due \in [1 .. count -> Frame]
    BY <2>1
  <2>3. due \in Seq(Frame)
    BY <1>6, <2>2, SeqDef
  <2>4. DOMAIN due = 1 .. count
    OBVIOUS
  <2> HIDE DEF due
  <2> QED
    BY <1>6, <2>3, <2>4, LenProperties
<1> DEFINE q == msgQueue
           room == MaxQueue - Len(q)
           taken == IF Len(due) < room THEN Len(due) ELSE room
<1>8. q \in Seq(Frame) /\ Len(q) <= MaxQueue /\ Len(q) \in Nat /\ MaxQueue \in Nat
  BY PlayerAssumption DEF PlayerInv
<1>9. msgQueue' = q \o SubSeq(due, 1, taken)
  BY <1>1 DEF Enqueued
<1> HIDE DEF due, q
<1>10. taken \in 0 .. Len(due) /\ taken <= room /\ Len(due) \in Nat
  BY <1>6, <1>7, <1>8
<1> HIDE DEF taken
<1>11. SubSeq(due, 1, taken) \in Seq(Frame) /\ Len(SubSeq(due, 1, taken)) = taken
  BY <1>7, <1>10, SubSeqProperties
<1>12. msgQueue' \in Seq(Frame) /\ Len(msgQueue') = Len(q) + taken
  BY <1>8, <1>9, <1>11, ConcatProperties
<1>13. Len(msgQueue') <= MaxQueue
  BY <1>8, <1>10, <1>12
<1>14. ASSUME Len(msgQueue') - Len(q) = Len(due) PROVE msgQueue' = q \o due
  <2>1. taken = Len(due)
    BY <1>8, <1>10, <1>12, <1>14
  <2>2. SubSeq(due, 1, Len(due)) = due
    BY <1>7
  <2> QED
    BY <1>9, <2>1, <2>2
<1>15. played \in Seq(Frame)
  BY DEF PlayerInv
<1>16. /\ played \o due \in Seq(Frame)
       /\ Len(played \o due) = Len(played) + Len(due)
       /\ \A i \in 1 .. Len(played) + Len(due) :
            (played \o due)[i] = IF i <= Len(played) THEN played[i]
                                 ELSE due[i - Len(played)]
  BY <1>7, <1>15, ConcatProperties
<1>17. PlayerInv'
  <2>1. frameNdx' = e /\ (~touched => frameNdx <= max)
    BY <1>1 DEF PlayerInv
  <2>2. ~touched' => frameNdx' <= Len(frames')
    BY <1>1, <1>4, <1>5, <2>1
  <2>3. tick' \in Ticks /\ frames' \in Seq(Entry) /\ Sorted(frames)'
    BY <1>1 DEF PlayerInv, Sorted
  <2>4. /\ playing' \in BOOLEAN /\ touched' \in BOOLEAN
        /\ calls' \in Seq({"start", "stop"}) /\ Len(calls') <= MaxCalls
    BY <1>1 DEF PlayerInv
  <2>5. played' \in Seq(Frame)
    BY <1>1, <1>16 DEF due
  <2> QED
    BY <1>2, <1>4, <1>12, <1>13, <2>1, <2>2, <2>3, <2>4, <2>5 DEF PlayerInv
<1>18. PlayedSoFar'
  <2> SUFFICES ASSUME playing, ~touched PROVE PlayedSoFar'
    BY <1>1 DEF PlayedSoFar
  <2>1. /\ played = [i \in 1 .. frameNdx |-> frames[i].frame]
        /\ \A i \in 1 .. frameNdx : frames[i].time <= ticks
    BY DEF PlayedSoFar
  <2>2. frameNdx <= max
    BY DEF PlayerInv
  <2>3. Len(played) = frameNdx
    <3>1. DOMAIN played = 1 .. frameNdx
      BY <2>1
    <3> QED
      BY <1>5, <1>15, <3>1, LenProperties
  <2>4. played \o due = [i \in 1 .. e |-> frames[i].frame]
    <3>1. Len(played \o due) = e
      BY <1>5, <1>6, <1>7, <1>16, <2>3
    <3>2. played \o due \in [1 .. e -> Frame]
      BY <1>16, <3>1, LenProperties
    <3>3. ASSUME NEW i \in 1 .. e PROVE (played \o due)[i] = frames[i].frame
      <4>1. i \in 1 .. Len(played) + Len(due)
        BY <1>6, <1>7, <2>3, <3>3
      <4>2. CASE i <= frameNdx
        <5>1. (played \o due)[i] = played[i]
          BY <1>16, <2>3, <4>1, <4>2
        <5> QED
          BY <1>5, <2>1, <4>2, <5>1
      <4>3. CASE ~(i <= frameNdx)
        <5>1. (played \o due)[i] = due[i - frameNdx]
          BY <1>16, <2>3, <4>1, <4>3
        <5>2. i - frameNdx \in 1 .. count
          BY <1>5, <1>6, <4>3
        <5>3. due[i - frameNdx] = frames[frameNdx + (i - frameNdx)].frame
          BY <5>2 DEF due
        <5>4. frameNdx + (i - frameNdx) = i
          BY <1>5
        <5> QED
          BY <5>1, <5>3, <5>4
      <4> QED
        BY <4>2, <4>3
    <3> QED
      BY <3>2, <3>3
  <2>5. \A i \in 1 .. e : frames[i].time <= ticks'
    <3> SUFFICES ASSUME NEW i \in 1 .. e PROVE frames[i].time <= ticks'
      OBVIOUS
    <3>1. CASE i <= frameNdx
      <4>1. i \in 1 .. frameNdx /\ i \in 1 .. max
        BY <1>5, <2>2, <3>1
      <4>2. frames[i].time <= ticks /\ frames[i].time \in Nat
        BY <1>5, <2>1, <4>1, EntryTypes
      <4> QED
        BY <1>2, <4>2
    <3>2. CASE ~(i <= frameNdx)
      BY <1>4, <1>5, <3>2
    <3> QED
      BY <3>1, <3>2
  <2> HIDE DEF max
  <2>6. PlayedSoFar' <=> /\ played' = [i \in 1 .. e |-> frames[i].frame]
                         /\ \A i \in 1 .. e : frames[i].time <= ticks'
                         /\ ticks' > 0 /\ e < max => frames[e + 1].time > ticks'
    BY <1>1 DEF PlayedSoFar, max
  <2>7. played' = played \o due
    BY <1>1 DEF due
  <2> QED
    BY <1>4, <2>2, <2>4, <2>5, <2>6, <2>7
<1>19. played' = played \o due /\ msgQueue' = Enqueued(msgQueue, due)
  BY <1>1 DEF due
<1> QED
  BY <1>7, <1>14, <1>16, <1>17, <1>18, <1>19 DEF q

LEMMA StartPlaybackInv ==
  ASSUME PlayerInv, PlayedSoFar, StartPlayback
  PROVE  PlayerInv' /\ PlayedSoFar'
<1>1. /\ calls # <<>> /\ calls' = Tail(calls)
      /\ ticks' = 0 /\ frameNdx' = 0 /\ playing' = TRUE /\ played' = <<>>
      /\ touched' = FALSE
      /\ UNCHANGED <<tick, frames, msgQueue>>
  BY DEF StartPlayback, config
<1>2. calls' \in Seq({"start", "stop"}) /\ Len(calls') <= MaxCalls
  <2>1. calls \in Seq({"start", "stop"}) /\ Len(calls) <= MaxCalls /\ MaxCalls \in Nat
    BY PlayerAssumption DEF PlayerInv
  <2> QED
    BY <1>1, <2>1
<1>3. Len(frames) \in Nat /\ Sorted(frames)'
  BY <1>1 DEF PlayerInv, Sorted
<1>4. PlayerInv'
  <2>1. /\ tick' \in Ticks /\ frames' \in Seq(Entry)
        /\ msgQueue' \in Seq(Frame) /\ Len(msgQueue') <= MaxQueue
    BY <1>1 DEF PlayerInv
  <2>2. /\ ticks' \in 0 .. MaxTicks /\ frameNdx' \in Nat
    BY <1>1, PlayerAssumption
  <2>5. playing' \in BOOLEAN /\ touched' \in BOOLEAN
    BY <1>1
  <2>3. played' \in Seq(Frame)
    BY <1>1
  <2>4. ~touched' => frameNdx' <= Len(frames')
    BY <1>1, <1>3
  <2> QED
    BY <1>2, <1>3, <2>1, <2>2, <2>3, <2>4, <2>5 DEF PlayerInv
<1>5. PlayedSoFar'
  BY <1>1 DEF PlayedSoFar
<1> QED
  BY <1>4, <1>5

LEMMA StopPlaybackInv ==
  ASSUME PlayerInv, StopPlayback
  PROVE  PlayerInv' /\ PlayedSoFar'
<1>1. /\ calls # <<>> /\ calls' = Tail(calls) /\ playing' = FALSE
      /\ UNCHANGED <<tick, frames, ticks, frameNdx, msgQueue, played, touched>>
  BY DEF StopPlayback, config
<1>2. calls' \in Seq({"start", "stop"}) /\ Len(calls') <= MaxCalls
  <2>1. calls \in Seq({"start", "stop"}) /\ Len(calls) <= MaxCalls /\ MaxCalls \in Nat
    BY PlayerAssumption DEF PlayerInv
  <2> QED
    BY <1>1, <2>1
<1> QED
  BY <1>1, <1>2 DEF PlayerInv, PlayedSoFar, Sorted

LEMMA CallInv ==
  ASSUME PlayerInv, PlayedSoFar, NEW what \in {"start", "stop"}, Call(what)
  PROVE  PlayerInv' /\ PlayedSoFar'
<1>1. /\ calls' = Append(calls, what) /\ Len(calls) < MaxCalls
      /\ UNCHANGED <<tick, frames, ticks, frameNdx, playing, msgQueue, played,
                     touched>>
  BY DEF Call, config
<1>2. calls' \in Seq({"start", "stop"}) /\ Len(calls') <= MaxCalls
  <2>1. calls \in Seq({"start", "stop"}) /\ Len(calls) \in Nat /\ MaxCalls \in Nat
    BY PlayerAssumption DEF PlayerInv
  <2> QED
    BY <1>1, <2>1
<1> QED
  BY <1>1, <1>2 DEF PlayerInv, PlayedSoFar, Sorted

LEMMA OutDataInv ==
  ASSUME PlayerInv, PlayedSoFar, OutData
  PROVE  PlayerInv' /\ PlayedSoFar'
<1>1. /\ msgQueue # <<>> /\ msgQueue' = Tail(msgQueue)
      /\ UNCHANGED <<tick, frames, ticks, frameNdx, playing, calls, played,
                     touched>>
  BY DEF OutData, config
<1>2. msgQueue' \in Seq(Frame) /\ Len(msgQueue') <= MaxQueue
  <2>1. msgQueue \in Seq(Frame) /\ Len(msgQueue) <= MaxQueue /\ MaxQueue \in Nat
    BY PlayerAssumption DEF PlayerInv
  <2> QED
    BY <1>1, <2>1
<1> QED
  BY <1>1, <1>2 DEF PlayerInv, PlayedSoFar, Sorted

LEMMA ChangeConfigInv ==
  ASSUME PlayerInv, NEW lines \in Seq(Line), Sorted(lines), ChangeConfig(lines)
  PROVE  PlayerInv' /\ PlayedSoFar'
<1>1. /\ frames' = Loaded(lines) /\ tick' \in Ticks /\ touched' = TRUE
      /\ UNCHANGED <<ticks, frameNdx, playing, calls, msgQueue, played>>
  BY DEF ChangeConfig
<1>2. Loaded(lines) \in Seq(Entry) /\ Sorted(Loaded(lines))
  BY LoadedSorted
<1>3. frames' \in Seq(Entry) /\ Sorted(frames)'
  BY <1>1, <1>2 DEF Sorted
<1> QED
  BY <1>1, <1>3 DEF PlayerInv, PlayedSoFar

(* The frames that were due are the first ones, as a log is in order.        *)
LEMMA PlayedSoFarIsDue == PlayerInv /\ PlayedSoFar => PlayedIsDue
<1> SUFFICES ASSUME PlayerInv, PlayedSoFar, playing, ~touched, ticks > 0
             PROVE  played = Frames(Picked(frames,
                                {i \in DOMAIN frames : frames[i].time <= ticks}))
  BY DEF PlayedIsDue
<1> DEFINE max == Len(frames)
<1>1. /\ frames \in Seq(Entry) /\ max \in Nat /\ DOMAIN frames = 1 .. max
      /\ frameNdx \in 0 .. max /\ ticks \in Nat
  BY PlayerAssumption DEF PlayerInv
<1>2. /\ played = [i \in 1 .. frameNdx |-> frames[i].frame]
      /\ \A i \in 1 .. frameNdx : frames[i].time <= ticks
      /\ frameNdx < max => frames[frameNdx + 1].time > ticks
  BY DEF PlayedSoFar
<1>3. ASSUME NEW i \in DOMAIN frames, i > frameNdx
      PROVE  ~(frames[i].time <= ticks)
  <2>1. frameNdx < max /\ frameNdx + 1 <= i /\ frameNdx + 1 \in 1 .. max
    BY <1>1, <1>3
  <2>2. frames[frameNdx + 1].time <= frames[i].time
    BY <1>1, <1>3, <2>1 DEF PlayerInv, Sorted
  <2>3. frames[frameNdx + 1].time \in Nat /\ frames[i].time \in Nat
    BY <1>1, <1>3, <2>1, EntryTypes
  <2> QED
    BY <1>1, <1>2, <2>1, <2>2, <2>3
<1>4. {i \in DOMAIN frames : frames[i].time <= ticks} = 1 .. frameNdx
  <2> HIDE DEF max
  <2> QED
    BY <1>1, <1>2, <1>3
<1>5. Picked(frames, 1 .. frameNdx) = [n \in 1 .. frameNdx |-> frames[n]]
  BY <1>1, PickedFirst
<1>6. Frames(Picked(frames, 1 .. frameNdx))
        = [i \in 1 .. frameNdx |-> frames[i].frame]
  BY <1>5 DEF Frames
<1> QED
  BY <1>2, <1>4, <1>6
-----------------------------------------------------------------------------
(* Loggers, player and device together.                                      *)

LEMMA LoggerKept ==
  ASSUME LoggerInv, UNCHANGED loggerVars
  PROVE  LoggerInv' /\ OnlyAppended /\ UNCHANGED <<simStarted, files, open>>
<1>1. UNCHANGED <<simStarted, second, files, open>>
  BY DEF loggerVars
<1>2. LoggerInv'
  BY <1>1 DEF LoggerInv, OwnFiles
<1>3. ASSUME NEW f \in DOMAIN files PROVE IsPrefix(files[f], files'[f])
  <2>1. files[f] \in Seq(Line) /\ files'[f] = files[f]
    BY <1>1 DEF LoggerInv
  <2> QED
    BY <2>1 DEF IsPrefix
<1> QED
  BY <1>1, <1>2, <1>3 DEF OnlyAppended

(* What a logger that is open has of TX, with what is on its way to it.      *)
OnTheWay(l) == TXFrames(files[open[l]]) \o bus \o msgQueue
Sent == IF calls = <<>> THEN played ELSE <<>>

LEMMA LoggedIs ==
  PlayedIsLogged <=> (simStarted /\ ~disturbed => \A l \in Loggers : OnTheWay(l) = Sent)
BY DEF PlayedIsLogged, OnTheWay, Sent

LEMMA LoggedNext ==
  PlayedIsLogged' <=>
    (simStarted' /\ ~disturbed' => \A l \in Loggers : OnTheWay(l)' = Sent')
BY DEF PlayedIsLogged, OnTheWay, Sent

LEMMA OpenLog ==
  ASSUME LoggerInv, simStarted, NEW l \in Loggers
  PROVE  /\ open[l] \in DOMAIN files /\ Writing(open[l])
         /\ files[open[l]] \in Seq(Line)
         /\ TXFrames(files[open[l]]) \in Seq(Frame)
<1>1. open[l] \in DOMAIN files
  BY DEF LoggerInv
<1>2. files[open[l]] \in Seq(Line)
  BY <1>1 DEF LoggerInv
<1>3. TXFrames(files[open[l]]) \in Seq(Frame)
  <2> DEFINE lines == files[open[l]]
  <2>1. CASE lines = <<>>
    <3>1. <<>> \in Seq(Frame)
      OBVIOUS
    <3> QED
      BY <2>1, <3>1, TXFramesEmpty
  <2>2. CASE lines # <<>>
    <3>1. Head(lines) \in Line
      BY <1>2, <2>2
    <3> QED
      BY <1>2, <3>1, TXFramesAppend
  <2> QED
    BY <2>1, <2>2
<1>4. Writing(open[l])
  BY DEF Writing
<1> QED
  BY <1>1, <1>2, <1>3, <1>4

LEMMA NothingSent ==
  ASSUME NEW s \in Seq(Frame), NEW t \in Seq(Frame), NEW u \in Seq(Frame)
  PROVE  s \o t \o u = <<>> <=> s = <<>> /\ t = <<>> /\ u = <<>>
<1>1. s \o t \in Seq(Frame)
  BY ConcatProperties
<1> QED
  BY <1>1, ConcatEqualIffEmpty

LEMMA StartStep ==
  ASSUME TraceInv, Start
  PROVE  TraceInv' /\ OnlyAppended
<1>1. /\ LoggerInv' /\ simStarted' /\ OnlyAppended
      /\ \A l \in Loggers : files'[open'[l]] = <<>>
  BY StartLoggersInv DEF Start, TraceInv
<1>2. PlayerInv' /\ PlayedSoFar'
  BY CallInv DEF Start, TraceInv
<1>3. /\ bus' = <<>> /\ calls' = Append(calls, "start")
      /\ UNCHANGED <<playing, msgQueue>>
      /\ disturbed' = (playing \/ calls # <<>> \/ msgQueue # <<>>)
  BY DEF Start, Call
<1>4. disturbed' \in BOOLEAN
  BY <1>3
<1>5. StartAhead'
  <2> SUFFICES ASSUME ~disturbed' PROVE calls' = <<"start">> /\ ~playing'
    BY DEF StartAhead
  <2>1. calls = <<>> /\ ~playing
    BY <1>3
  <2>2. calls' = <<"start">>
    BY <1>3, <2>1
  <2> QED
    BY <1>3, <2>1, <2>2
<1>6. PlayedIsLogged'
  <2> SUFFICES ASSUME ~disturbed', NEW l \in Loggers PROVE OnTheWay(l)' = Sent'
    BY LoggedNext
  <2>1. msgQueue' = <<>>
    BY <1>3
  <2>2. TXFrames(files'[open'[l]]) = <<>>
    BY <1>1, TXFramesEmpty
  <2>3. OnTheWay(l)' = <<>>
    <3>1. <<>> \in Seq(Frame)
      OBVIOUS
    <3> QED
      BY <1>3, <2>1, <2>2, <3>1, NothingSent DEF OnTheWay
  <2>4. calls' # <<>>
    <3>1. calls \in Seq({"start", "stop"})
      BY DEF TraceInv, PlayerInv
    <3> QED
      BY <1>3, <3>1
  <2> QED
    BY <2>3, <2>4 DEF Sent
<1>7. bus' \in Seq(Frame)
  BY <1>3
<1> QED
  BY <1>1, <1>2, <1>4, <1>5, <1>6, <1>7 DEF TraceInv

LEMMA PlayerStartsStep ==
  ASSUME TraceInv, PlayerStarts
  PROVE  TraceInv' /\ OnlyAppended
<1>1. /\ LoggerInv' /\ OnlyAppended
      /\ UNCHANGED <<simStarted, files, open>>
  BY LoggerKept DEF PlayerStarts, TraceInv
<1>2. PlayerInv' /\ PlayedSoFar'
  BY StartPlaybackInv DEF PlayerStarts, TraceInv
<1>3. /\ UNCHANGED <<bus, disturbed, msgQueue>>
      /\ calls # <<>> /\ calls' = Tail(calls) /\ played' = <<>>
  BY DEF PlayerStarts, StartPlayback
<1>4. ASSUME simStarted, ~disturbed PROVE calls' = <<>>
  <2>1. calls = <<"start">>
    BY <1>3, <1>4 DEF TraceInv, StartAhead
  <2> QED
    BY <1>3, <2>1
<1>5. StartAhead'
  BY <1>1, <1>3, <1>4 DEF StartAhead
<1>6. PlayedIsLogged'
  <2> SUFFICES ASSUME simStarted', ~disturbed', NEW l \in Loggers
               PROVE  OnTheWay(l)' = Sent'
    BY LoggedNext
  <2>1. OnTheWay(l) = Sent /\ Sent = <<>>
    BY <1>1, <1>3, LoggedIs DEF TraceInv, Sent
  <2>2. OnTheWay(l)' = OnTheWay(l)
    BY <1>1, <1>3 DEF OnTheWay
  <2>3. Sent' = <<>>
    BY <1>1, <1>3, <1>4 DEF Sent
  <2> QED
    BY <2>1, <2>2, <2>3
<1>7. bus' \in Seq(Frame) /\ disturbed' \in BOOLEAN
  BY <1>3 DEF TraceInv
<1> QED
  BY <1>1, <1>2, <1>5, <1>6, <1>7 DEF TraceInv

LEMMA PlayerStopsStep ==
  ASSUME TraceInv, PlayerStops
  PROVE  TraceInv' /\ OnlyAppended
<1>1. /\ LoggerInv' /\ OnlyAppended
      /\ UNCHANGED <<simStarted, files, open>>
  BY LoggerKept DEF PlayerStops, TraceInv
<1>2. PlayerInv' /\ PlayedSoFar'
  BY StopPlaybackInv DEF PlayerStops, TraceInv
<1>3. /\ UNCHANGED <<bus, disturbed>>
      /\ calls # <<>> /\ Head(calls) = "stop"
  BY DEF PlayerStops, StopPlayback
<1>4. ~(simStarted /\ ~disturbed)
  <2> SUFFICES ASSUME simStarted, ~disturbed PROVE FALSE
    OBVIOUS
  <2>1. calls = <<"start">>
    BY <1>3 DEF TraceInv, StartAhead
  <2> QED
    BY <1>3, <2>1
<1>5. StartAhead' /\ PlayedIsLogged'
  BY <1>1, <1>3, <1>4 DEF StartAhead, PlayedIsLogged
<1>6. bus' \in Seq(Frame) /\ disturbed' \in BOOLEAN
  BY <1>3 DEF TraceInv
<1> QED
  BY <1>1, <1>2, <1>5, <1>6 DEF TraceInv

LEMMA PlayerTicksStep ==
  ASSUME TraceInv, PlayerTicks
  PROVE  TraceInv' /\ OnlyAppended
<1>1. /\ LoggerInv' /\ OnlyAppended
      /\ UNCHANGED <<simStarted, files, open>>
  BY LoggerKept DEF PlayerTicks, TraceInv
<1>2. PICK due \in Seq(Frame) :
        /\ played' = played \o due
        /\ msgQueue' = Enqueued(msgQueue, due)
        /\ Len(played') = Len(played) + Len(due)
        /\ Len(msgQueue') - Len(msgQueue) = Len(due) =>
             msgQueue' = msgQueue \o due
  BY TimeoutInv DEF PlayerTicks, TraceInv
<1>3. PlayerInv' /\ PlayedSoFar'
  BY TimeoutInv DEF PlayerTicks, TraceInv
<1>4. /\ playing /\ UNCHANGED <<bus, playing, calls>>
      /\ disturbed' = (disturbed \/ Len(msgQueue') - Len(msgQueue)
                                      # Len(played') - Len(played))
  BY DEF PlayerTicks, Timeout
<1>5. disturbed' \in BOOLEAN
  BY <1>4
<1>6. StartAhead'
  BY <1>1, <1>4 DEF TraceInv, StartAhead
<1>7. PlayedIsLogged'
  <2> SUFFICES ASSUME simStarted', ~disturbed', NEW l \in Loggers
               PROVE  OnTheWay(l)' = Sent'
    BY LoggedNext
  <2>1. simStarted /\ ~disturbed
    BY <1>1, <1>4
  <2>2. calls = <<>>
    BY <1>4, <2>1 DEF TraceInv, StartAhead
  <2>3. OnTheWay(l) = played
    BY <2>1, <2>2, LoggedIs DEF TraceInv, Sent
  <2>4. played \in Seq(Frame) /\ msgQueue \in Seq(Frame) /\ bus \in Seq(Frame)
    BY DEF TraceInv, PlayerInv
  <2>5. Len(played) \in Nat /\ Len(due) \in Nat
    BY <2>4
  <2>6. msgQueue' = msgQueue \o due
    <3>1. Len(msgQueue') - Len(msgQueue) = Len(played') - Len(played)
      BY <1>4
    <3>2. Len(played') = Len(played) + Len(due)
      BY <1>2
    <3>3. Len(msgQueue') - Len(msgQueue) = Len(due)
      BY <2>5, <3>1, <3>2
    <3> QED
      BY <1>2, <3>3
  <2>7. TXFrames(files[open[l]]) \in Seq(Frame)
    BY <2>1, OpenLog DEF TraceInv
  <2> DEFINE tx == TXFrames(files[open[l]])
  <2>8. OnTheWay(l)' = (tx \o bus) \o (msgQueue \o due)
    BY <1>1, <1>4, <2>6 DEF OnTheWay
  <2>9. OnTheWay(l) = (tx \o bus) \o msgQueue
    BY DEF OnTheWay
  <2> HIDE DEF tx
  <2>10. tx \o bus \in Seq(Frame)
    BY <2>4, <2>7, ConcatProperties DEF tx
  <2>11. ((tx \o bus) \o msgQueue) \o due = (tx \o bus) \o (msgQueue \o due)
    BY <2>4, <2>10, ConcatAssociative
  <2>12. Sent' = played \o due
    BY <1>2, <1>4, <2>2 DEF Sent
  <2> QED
    BY <2>3, <2>8, <2>9, <2>11, <2>12
<1>8. bus' \in Seq(Frame)
  BY <1>4 DEF TraceInv
<1> QED
  BY <1>1, <1>3, <1>5, <1>6, <1>7, <1>8 DEF TraceInv

LEMMA SendFrameStep ==
  ASSUME TraceInv, SendFrame
  PROVE  TraceInv' /\ OnlyAppended
<1>1. /\ LoggerInv' /\ OnlyAppended
      /\ UNCHANGED <<simStarted, files, open>>
  BY LoggerKept DEF SendFrame, TraceInv
<1>2. PlayerInv' /\ PlayedSoFar'
  BY OutDataInv DEF SendFrame, TraceInv
<1>3. /\ msgQueue # <<>> /\ msgQueue' = Tail(msgQueue)
      /\ bus' = IF simStarted THEN Append(bus, Head(msgQueue)) ELSE bus
      /\ UNCHANGED <<disturbed, playing, calls, played>>
  BY DEF SendFrame, OutData
<1>4. bus \in Seq(Frame) /\ msgQueue \in Seq(Frame) /\ disturbed \in BOOLEAN
  BY DEF TraceInv, PlayerInv
<1>5. Head(msgQueue) \in Frame /\ Tail(msgQueue) \in Seq(Frame)
  BY <1>3, <1>4
<1>6. bus' \in Seq(Frame)
  BY <1>3, <1>4, <1>5
<1>7. StartAhead'
  BY <1>1, <1>3 DEF TraceInv, StartAhead
<1>8. PlayedIsLogged'
  <2> SUFFICES ASSUME simStarted', ~disturbed', NEW l \in Loggers
               PROVE  OnTheWay(l)' = Sent'
    BY LoggedNext
  <2>1. simStarted /\ ~disturbed
    BY <1>1, <1>3
  <2>2. OnTheWay(l) = Sent /\ Sent' = Sent
    BY <1>3, <2>1, LoggedIs DEF TraceInv, Sent
  <2> DEFINE tx == TXFrames(files[open[l]])
  <2>3. tx \in Seq(Frame)
    BY <2>1, OpenLog DEF TraceInv
  <2>4. OnTheWay(l) = (tx \o bus) \o msgQueue
    BY DEF OnTheWay
  <2>5. OnTheWay(l)' = (tx \o Append(bus, Head(msgQueue))) \o Tail(msgQueue)
    BY <1>1, <1>3, <2>1 DEF OnTheWay
  <2> HIDE DEF tx
  <2>6. (tx \o bus) \o msgQueue = tx \o (bus \o msgQueue)
    BY <1>4, <2>3, ConcatAssociative
  <2>7. Append(bus, Head(msgQueue)) \in Seq(Frame)
    BY <1>4, <1>5
  <2>8. (tx \o Append(bus, Head(msgQueue))) \o Tail(msgQueue)
          = tx \o (Append(bus, Head(msgQueue)) \o Tail(msgQueue))
    <3> DEFINE given == Append(bus, Head(msgQueue))
               left == Tail(msgQueue)
    <3>1. given \in Seq(Frame) /\ left \in Seq(Frame)
      BY <1>5, <2>7
    <3> HIDE DEF given, left
    <3>2. (tx \o given) \o left = tx \o (given \o left)
      BY <2>3, <3>1, ConcatAssociative
    <3> QED
      BY <3>2 DEF given, left
  <2>9. Append(bus, Head(msgQueue)) \o Tail(msgQueue) = bus \o msgQueue
    BY <1>3, <1>4, HandedOn
  <2> QED
    BY <2>2, <2>4, <2>5, <2>6, <2>8, <2>9
<1> QED
  BY <1>1, <1>2, <1>3, <1>4, <1>6, <1>7, <1>8 DEF TraceInv

(* The player's half of a step that does not concern it.                     *)
LEMMA PlayerKept ==
  ASSUME PlayerInv, PlayedSoFar, UNCHANGED playerVars
  PROVE  /\ PlayerInv' /\ PlayedSoFar'
         /\ UNCHANGED <<playing, calls, msgQueue, played>>
<1>1. UNCHANGED <<tick, ticks, frames, frameNdx, playing, calls, msgQueue,
                  played, touched>>
  BY DEF playerVars
<1> QED
  BY <1>1 DEF PlayerInv, PlayedSoFar, Sorted

(* A frame that is logged is a line at the end of every open log.            *)
LEMMA LoggedLine ==
  ASSUME LoggerInv, simStarted, NEW frame \in Frame, NEW dir \in {"TX", "RX"},
         LogFrame(frame, dir), NEW l \in Loggers
  PROVE  /\ dir = "TX" => TXFrames(files'[open'[l]])
                            = Append(TXFrames(files[open[l]]), frame)
         /\ dir = "RX" => TXFrames(files'[open'[l]]) = TXFrames(files[open[l]])
<1>1. /\ open[l] \in DOMAIN files /\ Writing(open[l])
      /\ files[open[l]] \in Seq(Line)
  BY OpenLog
<1>2. PICK t \in Times :
        files'[open[l]]
          = Append(files[open[l]], [time |-> t, dir |-> dir, frame |-> frame])
  BY <1>1, LogFrameInv
<1>3. open' = open
  BY LogFrameInv
<1> DEFINE line == [time |-> t, dir |-> dir, frame |-> frame]
<1>4. line \in Line /\ line.dir = dir /\ line.frame = frame
  BY DEF Line
<1> HIDE DEF line
<1>5. files'[open'[l]] = Append(files[open[l]], line)
  BY <1>2, <1>3 DEF line
<1> QED
  BY <1>1, <1>4, <1>5, TXFramesAppend

LEMMA ReportStep ==
  ASSUME TraceInv, Report
  PROVE  TraceInv' /\ OnlyAppended
<1>1. PlayerInv' /\ PlayedSoFar' /\ UNCHANGED <<playing, calls, msgQueue, played>>
  BY PlayerKept DEF Report, TraceInv
<1>2. bus # <<>> /\ bus' = Tail(bus)
  BY DEF Report
<1>3. PICK status \in BOOLEAN : /\ FrameSent(status, Head(bus))
                                /\ disturbed' = (disturbed \/ ~status)
  BY DEF Report
<1>4. bus \in Seq(Frame) /\ msgQueue \in Seq(Frame) /\ disturbed \in BOOLEAN
  BY DEF TraceInv, PlayerInv
<1>5. Head(bus) \in Frame /\ Tail(bus) \in Seq(Frame)
  BY <1>2, <1>4
<1>6. bus' \in Seq(Frame)
  BY <1>2, <1>5
<1>7. disturbed' \in BOOLEAN
  BY <1>3
<1>8. CASE status /\ simStarted
  <2>1. LogFrame(Head(bus), "TX")
    BY <1>3, <1>8 DEF FrameSent
  <2>2. LoggerInv' /\ OnlyAppended /\ simStarted' = simStarted
    BY <1>5, <2>1, LogFrameInv DEF TraceInv
  <2>3. StartAhead'
    BY <1>1, <1>3, <2>2 DEF TraceInv, StartAhead
  <2>4. PlayedIsLogged'
    <3> SUFFICES ASSUME simStarted', ~disturbed', NEW l \in Loggers
                 PROVE  OnTheWay(l)' = Sent'
      BY LoggedNext
    <3>1. ~disturbed
      BY <1>3
    <3>2. OnTheWay(l) = Sent /\ Sent' = Sent
      BY <1>1, <1>8, <3>1, LoggedIs DEF TraceInv, Sent
    <3> DEFINE tx == TXFrames(files[open[l]])
    <3>3. tx \in Seq(Frame)
      BY <1>8, OpenLog DEF TraceInv
    <3>4. TXFrames(files'[open'[l]]) = Append(tx, Head(bus))
      BY <1>5, <1>8, <2>1, LoggedLine DEF TraceInv
    <3>5. OnTheWay(l) = (tx \o bus) \o msgQueue
      BY DEF OnTheWay
    <3>6. OnTheWay(l)' = (Append(tx, Head(bus)) \o Tail(bus)) \o msgQueue
      BY <1>1, <1>2, <3>4 DEF OnTheWay
    <3> HIDE DEF tx
    <3>7. Append(tx, Head(bus)) \o Tail(bus) = tx \o bus
      BY <1>2, <1>4, <3>3, HandedOn
    <3> QED
      BY <3>2, <3>5, <3>6, <3>7
  <2> QED
    BY <1>1, <1>6, <1>7, <2>2, <2>3, <2>4 DEF TraceInv
<1>9. CASE ~(status /\ simStarted)
  <2>1. UNCHANGED loggerVars
    BY <1>3, <1>9 DEF FrameSent
  <2>2. LoggerInv' /\ OnlyAppended /\ simStarted' = simStarted
    BY <2>1, LoggerKept DEF TraceInv
  <2>3. StartAhead' /\ PlayedIsLogged'
    BY <1>3, <1>9, <2>2 DEF StartAhead, PlayedIsLogged
  <2> QED
    BY <1>1, <1>6, <1>7, <2>2, <2>3 DEF TraceInv
<1> QED
  BY <1>8, <1>9

LEMMA ReceiveStep ==
  ASSUME TraceInv, Receive
  PROVE  TraceInv' /\ OnlyAppended
<1>1. PlayerInv' /\ PlayedSoFar' /\ UNCHANGED <<playing, calls, msgQueue, played>>
  BY PlayerKept DEF Receive, TraceInv
<1>2. simStarted /\ UNCHANGED <<bus, disturbed>>
  BY DEF Receive
<1>3. PICK frame \in Foreign : LogFrame(frame, "RX")
  BY <1>2 DEF Receive, FrameReceived
<1>4. frame \in Frame
  BY TraceAssumption
<1>5. LoggerInv' /\ OnlyAppended /\ simStarted' = simStarted
  BY <1>3, <1>4, LogFrameInv DEF TraceInv
<1>6. StartAhead'
  BY <1>1, <1>2, <1>5 DEF TraceInv, StartAhead
<1>7. PlayedIsLogged'
  <2> SUFFICES ASSUME ~disturbed', NEW l \in Loggers PROVE OnTheWay(l)' = Sent'
    BY LoggedNext
  <2>1. OnTheWay(l) = Sent
    BY <1>2, LoggedIs DEF TraceInv
  <2>2. TXFrames(files'[open'[l]]) = TXFrames(files[open[l]])
    BY <1>2, <1>3, <1>4, LoggedLine DEF TraceInv
  <2>3. OnTheWay(l)' = OnTheWay(l)
    BY <1>1, <1>2, <2>2 DEF OnTheWay
  <2>4. Sent' = Sent
    BY <1>1 DEF Sent
  <2> QED
    BY <2>1, <2>3, <2>4
<1>8. bus' \in Seq(Frame) /\ disturbed' \in BOOLEAN
  BY <1>2 DEF TraceInv
<1> QED
  BY <1>1, <1>5, <1>6, <1>7, <1>8 DEF TraceInv

LEMMA StopStep ==
  ASSUME TraceInv, Stop
  PROVE  TraceInv' /\ OnlyAppended
<1>1. PlayerInv' /\ PlayedSoFar'
  BY CallInv DEF Stop, TraceInv
<1>2. /\ bus' = <<>> /\ disturbed' = disturbed
      /\ simStarted' = FALSE /\ UNCHANGED <<second, files>>
      /\ open' = [l \in Loggers |-> Closed]
  BY DEF Stop, StopLoggers
<1>3. \A l \in Loggers : open'[l] = Closed
  BY <1>2
<1>4. LoggerInv'
  <2>1. OwnFiles'
    BY <1>3 DEF OwnFiles
  <2>2. /\ simStarted' \in BOOLEAN /\ second' \in 0 .. MaxSecond
        /\ IsFiniteSet(DOMAIN files') /\ Closed \notin DOMAIN files'
        /\ \A f \in DOMAIN files' :
             /\ files'[f] \in Seq(Line) /\ Len(files'[f]) <= MaxLines
             /\ Sorted(files'[f])
    BY <1>2 DEF TraceInv, LoggerInv
  <2> QED
    BY <1>2, <1>3, <2>1, <2>2 DEF LoggerInv
<1>5. OnlyAppended
  <2> SUFFICES ASSUME NEW f \in DOMAIN files PROVE IsPrefix(files[f], files'[f])
    BY DEF OnlyAppended
  <2>1. files[f] \in Seq(Line) /\ files'[f] = files[f]
    BY <1>2 DEF TraceInv, LoggerInv
  <2> QED
    BY <2>1 DEF IsPrefix
<1>6. StartAhead' /\ PlayedIsLogged'
  BY <1>2 DEF StartAhead, PlayedIsLogged
<1>7. bus' \in Seq(Frame) /\ disturbed' \in BOOLEAN
  BY <1>2 DEF TraceInv
<1> QED
  BY <1>1, <1>4, <1>5, <1>6, <1>7 DEF TraceInv

LEMMA ConfigPlayerStep ==
  ASSUME TraceInv, ConfigPlayer
  PROVE  TraceInv' /\ OnlyAppended
<1>1. /\ LoggerInv' /\ OnlyAppended
      /\ UNCHANGED <<simStarted, files, open>>
  BY LoggerKept DEF ConfigPlayer, TraceInv
<1>2. PICK lines : /\ ChangeConfig(lines)
                   /\ lines = <<>> \/ \E f \in DOMAIN files : lines = files[f]
  BY DEF ConfigPlayer
<1>3. lines \in Seq(Line) /\ Sorted(lines)
  <2>1. <<>> \in Seq(Line) /\ Sorted(<<>>)
    BY DEF Sorted
  <2> QED
    BY <1>2, <2>1 DEF TraceInv, LoggerInv
<1>4. PlayerInv' /\ PlayedSoFar'
  BY <1>2, <1>3, ChangeConfigInv DEF TraceInv
<1>5. ~simStarted' /\ UNCHANGED <<bus, disturbed>>
  BY <1>1 DEF ConfigPlayer
<1>6. StartAhead' /\ PlayedIsLogged'
  BY <1>5 DEF StartAhead, PlayedIsLogged
<1>7. bus' \in Seq(Frame) /\ disturbed' \in BOOLEAN
  BY <1>5 DEF TraceInv
<1> QED
  BY <1>1, <1>4, <1>6, <1>7 DEF TraceInv

LEMMA InitInv == Init => TraceInv
<1> SUFFICES ASSUME Init PROVE TraceInv
  OBVIOUS
<1>1. LoggerInv /\ PlayerInv /\ PlayedSoFar
  BY InitLogger, InitPlayer DEF Init
<1>2. bus \in Seq(Frame)
  BY DEF Init
<1>3. ~simStarted /\ disturbed \in BOOLEAN
  BY DEF Init, LoggerInit
<1>4. StartAhead /\ PlayedIsLogged
  BY <1>3 DEF StartAhead, PlayedIsLogged
<1> QED
  BY <1>1, <1>2, <1>3, <1>4 DEF TraceInv

LEMMA StepInv == TraceInv /\ [Next]_vars => TraceInv' /\ OnlyAppended
<1> SUFFICES ASSUME TraceInv, [Next]_vars PROVE TraceInv' /\ OnlyAppended
  OBVIOUS
<1>1. CASE UNCHANGED vars
  <2>1. UNCHANGED loggerVars /\ UNCHANGED playerVars /\ UNCHANGED <<bus, disturbed>>
    BY <1>1 DEF vars
  <2>2. /\ LoggerInv' /\ OnlyAppended
        /\ UNCHANGED <<simStarted, files, open>>
    BY <2>1, LoggerKept DEF TraceInv
  <2>3. PlayerInv' /\ PlayedSoFar' /\ UNCHANGED <<playing, calls, msgQueue, played>>
    BY <2>1, PlayerKept DEF TraceInv
  <2>4. StartAhead' /\ PlayedIsLogged'
    BY <2>1, <2>2, <2>3 DEF TraceInv, StartAhead, PlayedIsLogged
  <2>5. bus' \in Seq(Frame) /\ disturbed' \in BOOLEAN
    BY <2>1 DEF TraceInv
  <2> QED
    BY <2>2, <2>3, <2>4, <2>5 DEF TraceInv
<1> QED
  BY <1>1, StartStep, StopStep, ConfigPlayerStep, PlayerStartsStep, PlayerStopsStep,
     PlayerTicksStep, SendFrameStep, ReportStep, ReceiveStep DEF Next

(* The invariant holds in every reachable state.                             *)
THEOREM Invariant == Spec => []TraceInv
<1> QED
  BY InitInv, StepInv, PTL DEF Spec

(* Type correctness: while the simulation runs every logger has an open file *)
(* of its own, however many start in one second; queues keep to their size   *)
(* and the player's index stays within the log that it plays.                *)
THEOREM TypeCorrect == Spec => []TypeOK
<1>1. TraceInv => TypeOK
  BY DEF TraceInv, LoggerInv, PlayerInv, TypeOK
<1> QED
  BY <1>1, Invariant, PTL

(* After each tick exactly the frames that are due were sent, for every log, *)
(* every period of the timer and however often the player is restarted.      *)
THEOREM DueIsPlayed == Spec => []PlayedIsDue
<1>1. TraceInv => PlayedIsDue
  BY PlayedSoFarIsDue DEF TraceInv
<1> QED
  BY <1>1, Invariant, PTL

(* What the player sent is what every open log has of it, with what is on    *)
(* its way, in order and among any frames of others.                         *)
THEOREM PlayedReachesLogs == Spec => []PlayedIsLogged
<1>1. TraceInv => PlayedIsLogged
  BY DEF TraceInv
<1> QED
  BY <1>1, Invariant, PTL

(* No file ever loses a line, by whomever and whenever loggers are started.  *)
THEOREM LogsOnlyGrow == Spec => NothingOverwritten
<1>1. TraceInv /\ [Next]_vars => [OnlyAppended]_vars
  BY StepInv
<1> QED
  BY <1>1, Invariant, PTL DEF Spec, NothingOverwritten
=============================================================================
