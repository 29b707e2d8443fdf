-------------------------- MODULE SerialCan_proof ---------------------------
(* Theorems about SerialCan: what calPacket makes of any sequence of bytes,  *)
(* that the link is a FrameChannel, and that nothing but Clear gets a        *)
(* receiver going again whose buffer starts with no packet.                  *)
EXTENDS SerialCan, SequenceTheorems, WellFoundedInduction, TLAPS

-----------------------------------------------------------------------------
(* Natural numbers.                                                          *)

(* Every set of natural numbers has a least element ...                      *)
LEMMA Least ==
  ASSUME NEW T, T \subseteq Nat, T # {}
  PROVE  \E x \in T : \A y \in T : x <= y
<1> DEFINE R == OpToRel(<, Nat)
<1>1. IsWellFoundedOn(R, Nat)
  BY NatLessThanWellFounded
<1>2. R = {ss \in Nat \X Nat : ss[1] < ss[2]}
  BY DEF OpToRel
<1> HIDE DEF R
<1>3. PICK x \in T : \A y \in T : ~ (<<y, x>> \in R)
  BY <1>1, WFMin
<1>4. ASSUME NEW y \in T PROVE x <= y
  <2>1. x \in Nat /\ y \in Nat /\ <<y, x>> \notin R
    BY <1>3
  <2>2. ~(y < x)
    BY <1>2, <2>1
  <2> QED
    BY <2>1, <2>2
<1> QED
  BY <1>4

(* ... so that a set with 0 and with every successor of its elements has     *)
(* them all ...                                                              *)
LEMMA Induct ==
  ASSUME NEW T, 0 \in T, \A n \in Nat : n \in T => n + 1 \in T
  PROVE  Nat \subseteq T
<1> DEFINE U == {n \in Nat : n \notin T}
<1> SUFFICES ASSUME U # {} PROVE FALSE
  OBVIOUS
<1>1. PICK x \in U : \A y \in U : x <= y
  BY Least
<1>2. x # 0 /\ x - 1 \in Nat
  OBVIOUS
<1>3. x - 1 \in T
  BY <1>1, <1>2
<1> QED
  BY <1>2, <1>3

(* ... and so has one with every number below which it has all.              *)
LEMMA InductBelow ==
  ASSUME NEW T, \A n \in Nat : (\A m \in 0 .. n - 1 : m \in T) => n \in T
  PROVE  Nat \subseteq T
<1> DEFINE U == {n \in Nat : n \notin T}
<1> SUFFICES ASSUME U # {} PROVE FALSE
  OBVIOUS
<1>1. PICK x \in U : \A y \in U : x <= y
  BY Least
<1>2. \A m \in 0 .. x - 1 : m \in T
  BY <1>1
<1> QED
  BY <1>2

-----------------------------------------------------------------------------
(* Sequences.                                                                *)

LEMMA Part ==
  ASSUME NEW S, NEW s \in Seq(S), NEW a \in Nat, NEW b \in Nat,
         a <= b, b <= Len(s)
  PROVE  /\ SubSeq(s, a + 1, b) \in Seq(S)
         /\ Len(SubSeq(s, a + 1, b)) = b - a
         /\ \A i \in 1 .. b - a : SubSeq(s, a + 1, b)[i] = s[a + i]
<1> DEFINE m == a + 1
<1>1. m \in Int /\ b \in Int /\ \A i \in m .. b : s[i] \in S
  OBVIOUS
<1>2. /\ SubSeq(s, m, b) \in Seq(S)
      /\ Len(SubSeq(s, m, b)) = IF m <= b THEN b - m + 1 ELSE 0
      /\ \A i \in 1 .. b - m + 1 : SubSeq(s, m, b)[i] = s[m + i - 1]
  <2> HIDE DEF m
  <2> QED
    BY <1>1, SubSeqProperties
<1>3. \A i \in 1 .. b - a : m + i - 1 = a + i
  OBVIOUS
<1> QED
  BY <1>2, <1>3

(* SubSeq in general: it may start or end anywhere within the sequence.      *)
LEMMA AnyPart ==
  ASSUME NEW S, NEW s \in Seq(S), NEW a \in Nat \ {0}, NEW b \in Int, b <= Len(s)
  PROVE  SubSeq(s, a, b) \in Seq(S)
<1>1. \A i \in a .. b : s[i] \in S
  OBVIOUS
<1> QED
  BY <1>1, SubSeqProperties

LEMMA Joined ==
  ASSUME NEW S, NEW s \in Seq(S), NEW t \in Seq(S)
  PROVE  /\ s \o t \in Seq(S)
         /\ Len(s \o t) = Len(s) + Len(t)
         /\ \A i \in 1 .. Len(s) : (s \o t)[i] = s[i]
         /\ \A i \in 1 .. Len(t) : (s \o t)[Len(s) + i] = t[i]
  OBVIOUS

LEMMA Same ==
  ASSUME NEW S, NEW s \in Seq(S), NEW t \in Seq(S), Len(s) = Len(t),
         \A i \in 1 .. Len(s) : s[i] = t[i]
  PROVE  s = t
  OBVIOUS

LEMMA FirstPart ==
  ASSUME NEW S, NEW s \in Seq(S), NEW b \in Nat, b <= Len(s)
  PROVE  /\ SubSeq(s, 1, b) \in Seq(S)
         /\ Len(SubSeq(s, 1, b)) = b
         /\ \A i \in 1 .. b : SubSeq(s, 1, b)[i] = s[i]
<1> DEFINE zero == 0
           u == SubSeq(s, 1, b)
<1>1. /\ zero \in Nat /\ zero <= b /\ u = SubSeq(s, zero + 1, b)
      /\ b - zero = b /\ \A i \in 1 .. b : zero + i = i
  OBVIOUS
<1> HIDE DEF zero, u
<1>2. /\ u \in Seq(S) /\ Len(u) = b - zero
      /\ \A i \in 1 .. b - zero : u[i] = s[zero + i]
  BY <1>1, Part
<1>3. u \in Seq(S) /\ Len(u) = b /\ \A i \in 1 .. b : u[i] = s[i]
  BY <1>1, <1>2
<1> QED
  BY <1>3 DEF u

LEMMA FrontOfFirst ==
  ASSUME NEW S, NEW s \in Seq(S), NEW t \in Seq(S), NEW b \in Nat, b <= Len(s)
  PROVE  SubSeq(s \o t, 1, b) = SubSeq(s, 1, b)
<1> DEFINE st == s \o t
           u == SubSeq(st, 1, b)
           v == SubSeq(s, 1, b)
<1>1. /\ st \in Seq(S) /\ Len(st) = Len(s) + Len(t)
      /\ \A i \in 1 .. Len(s) : st[i] = s[i]
  BY Joined
<1>2. Len(s) \in Nat /\ Len(t) \in Nat
  OBVIOUS
<1> HIDE DEF st
<1>3. b <= Len(st) /\ st \in Seq(S)
  BY <1>1, <1>2
<1>4. u \in Seq(S) /\ Len(u) = b /\ \A i \in 1 .. b : u[i] = st[i]
  BY <1>3, FirstPart
<1>5. v \in Seq(S) /\ Len(v) = b /\ \A i \in 1 .. b : v[i] = s[i]
  BY FirstPart
<1> HIDE DEF u, v
<1>6. \A i \in 1 .. b : u[i] = v[i]
  BY <1>1, <1>2, <1>4, <1>5
<1>7. u = v
  BY <1>4, <1>5, <1>6, Same
<1> QED
  BY <1>7 DEF u, v, st

LEMMA FrontOfFront ==
  ASSUME NEW S, NEW s \in Seq(S), NEW c \in Nat, NEW b \in Nat,
         b <= c, c <= Len(s)
  PROVE  SubSeq(SubSeq(s, 1, c), 1, b) = SubSeq(s, 1, b)
<1> DEFINE t == SubSeq(s, 1, c)
           u == SubSeq(t, 1, b)
           v == SubSeq(s, 1, b)
<1>1. t \in Seq(S) /\ Len(t) = c /\ \A i \in 1 .. c : t[i] = s[i]
  BY FirstPart
<1>2. v \in Seq(S) /\ Len(v) = b /\ \A i \in 1 .. b : v[i] = s[i]
  <2>1. b <= Len(s)
    OBVIOUS
  <2> QED
    BY <2>1, FirstPart
<1> HIDE DEF t
<1>3. u \in Seq(S) /\ Len(u) = b /\ \A i \in 1 .. b : u[i] = t[i]
  <2>1. t \in Seq(S) /\ b <= Len(t)
    BY <1>1
  <2> QED
    BY <2>1, FirstPart
<1> HIDE DEF u, v
<1>4. \A i \in 1 .. b : u[i] = v[i]
  BY <1>1, <1>2, <1>3
<1>5. u = v
  BY <1>2, <1>3, <1>4, Same
<1> QED
  BY <1>5 DEF u, v, t

LEMMA FrontOfJoined ==
  ASSUME NEW S, NEW s \in Seq(S), NEW t \in Seq(S), NEW b \in Nat,
         b <= Len(t)
  PROVE  SubSeq(s \o t, 1, Len(s) + b) = s \o SubSeq(t, 1, b)
<1> DEFINE st == s \o t
           x == Len(s) + b
           u == SubSeq(st, 1, x)
           front == SubSeq(t, 1, b)
           v == s \o front
<1>1. /\ st \in Seq(S) /\ Len(st) = Len(s) + Len(t)
      /\ \A i \in 1 .. Len(s) : st[i] = s[i]
      /\ \A i \in 1 .. Len(t) : st[Len(s) + i] = t[i]
  BY Joined
<1>2. Len(s) \in Nat /\ Len(t) \in Nat
  OBVIOUS
<1>3. front \in Seq(S) /\ Len(front) = b /\ \A i \in 1 .. b : front[i] = t[i]
  BY FirstPart
<1> HIDE DEF st, front
<1>4. x \in Nat /\ x <= Len(st) /\ st \in Seq(S)
  BY <1>1, <1>2
<1> HIDE DEF x
<1>5. u \in Seq(S) /\ Len(u) = x /\ \A i \in 1 .. x : u[i] = st[i]
  BY <1>4, FirstPart
<1>6. /\ v \in Seq(S) /\ Len(v) = Len(s) + Len(front)
      /\ \A i \in 1 .. Len(s) : v[i] = s[i]
      /\ \A i \in 1 .. Len(front) : v[Len(s) + i] = front[i]
  <2>1. front \in Seq(S)
    BY <1>3
  <2> QED
    BY <2>1, Joined
<1> HIDE DEF u, v
<1>7. Len(v) = x
  BY <1>3, <1>6 DEF x
<1>8. ASSUME NEW i \in 1 .. x PROVE u[i] = v[i]
  <2>1. u[i] = st[i]
    BY <1>5
  <2>2. CASE i <= Len(s)
    <3>1. i \in 1 .. Len(s)
      BY <1>2, <1>4, <2>2
    <3> QED
      BY <1>1, <1>6, <2>1, <3>1
  <2>3. CASE ~(i <= Len(s))
    <3> DEFINE j == i - Len(s)
    <3>1. j \in 1 .. b /\ j \in 1 .. Len(t) /\ i = Len(s) + j
      BY <1>2, <2>3 DEF x
    <3> HIDE DEF j
    <3>2. st[Len(s) + j] = t[j] /\ front[j] = t[j]
      BY <1>1, <1>3, <3>1
    <3>3. v[Len(s) + j] = front[j]
      BY <1>3, <1>6, <3>1
    <3> QED
      BY <2>1, <3>1, <3>2, <3>3
  <2> QED
    BY <2>2, <2>3
<1>9. u = v
  BY <1>5, <1>6, <1>7, <1>8, Same
<1> QED
  BY <1>9 DEF u, v, st, front, x

Layout(all, s, t, u, v) ==
  /\ Len(all) = Len(s) + Len(t) + Len(u) + Len(v)
  /\ \A i \in 1 .. Len(s) : all[i] = s[i]
  /\ \A i \in 1 .. Len(t) : all[Len(s) + i] = t[i]
  /\ \A i \in 1 .. Len(u) : all[Len(s) + Len(t) + i] = u[i]
  /\ \A i \in 1 .. Len(v) : all[Len(s) + Len(t) + Len(u) + i] = v[i]

LEMMA FourParts ==
  ASSUME NEW S, NEW s \in Seq(S), NEW t \in Seq(S), NEW u \in Seq(S),
         NEW v \in Seq(S)
  PROVE  /\ s \o t \o u \o v \in Seq(S)
         /\ Layout(s \o t \o u \o v, s, t, u, v)
<1> DEFINE st == s \o t
           stu == st \o u
           all == stu \o v
<1>0. Len(s) \in Nat /\ Len(t) \in Nat /\ Len(u) \in Nat /\ Len(v) \in Nat
  OBVIOUS
<1>1. /\ st \in Seq(S) /\ Len(st) = Len(s) + Len(t)
      /\ \A i \in 1 .. Len(s) : st[i] = s[i]
      /\ \A i \in 1 .. Len(t) : st[Len(s) + i] = t[i]
  BY Joined
<1> HIDE DEF st
<1>2. /\ stu \in Seq(S) /\ Len(stu) = Len(st) + Len(u)
      /\ \A i \in 1 .. Len(st) : stu[i] = st[i]
      /\ \A i \in 1 .. Len(u) : stu[Len(st) + i] = u[i]
  <2>1. st \in Seq(S)
    BY <1>1
  <2> QED
    BY <2>1, Joined
<1> HIDE DEF stu
<1>3. /\ all \in Seq(S) /\ Len(all) = Len(stu) + Len(v)
      /\ \A i \in 1 .. Len(stu) : all[i] = stu[i]
      /\ \A i \in 1 .. Len(v) : all[Len(stu) + i] = v[i]
  <2>1. stu \in Seq(S)
    BY <1>2
  <2> QED
    BY <2>1, Joined
<1> HIDE DEF all
<1> QED
  BY <1>0, <1>1, <1>2, <1>3 DEF all, stu, st, Layout

LEMMA PartOfPart ==
  ASSUME NEW S, NEW s \in Seq(S), NEW a \in Nat, NEW b \in Nat, NEW c \in Nat,
         a <= c, c <= b, b <= Len(s)
  PROVE  SubSeq(SubSeq(s, a + 1, b), c - a + 1, b - a) = SubSeq(s, c + 1, b)
<1> DEFINE t == SubSeq(s, a + 1, b)
           u == SubSeq(t, c - a + 1, b - a)
           v == SubSeq(s, c + 1, b)
<1> SUFFICES u = v
  OBVIOUS
<1>1. t \in Seq(S) /\ Len(t) = b - a /\ \A i \in 1 .. b - a : t[i] = s[a + i]
  BY Part
<1>2. v \in Seq(S) /\ Len(v) = b - c /\ \A i \in 1 .. b - c : v[i] = s[c + i]
  BY Part
<1> DEFINE d == c - a
           e == b - a
<1>3. /\ d \in Nat /\ e \in Nat /\ d <= e /\ e - d = b - c
      /\ \A i \in 1 .. b - c : d + i \in 1 .. b - a /\ a + (d + i) = c + i
  OBVIOUS
<1>4. /\ u \in Seq(S) /\ Len(u) = e - d
      /\ \A i \in 1 .. e - d : u[i] = t[d + i]
  <2>1. u = SubSeq(t, d + 1, e)
    OBVIOUS
  <2> HIDE DEF t, u
  <2>2. d \in Nat /\ e \in Nat /\ d <= e /\ e <= Len(t)
    BY <1>1, <1>3
  <2> HIDE DEF d, e
  <2> QED
    BY <1>1, <2>1, <2>2, Part
<1> HIDE DEF t, u, v, d, e
<1>5. \A i \in 1 .. b - c : u[i] = v[i]
  BY <1>1, <1>2, <1>3, <1>4
<1> QED
  BY <1>2, <1>3, <1>4, <1>5, Same

-----------------------------------------------------------------------------
(* calPacket's loop.                                                         *)

LEMMA Header ==
  ASSUME NEW data \in Seq(Byte)
  PROVE  /\ \A i \in Nat : ByteAt(data, i) \in Byte
         /\ DataLength(data) \in Int /\ EndPacket(data) \in Int
         /\ Complete(data) => /\ EndPacket(data) \in Nat
                              /\ EndPacket(data) < Len(data)
<1>1. ASSUME NEW i \in Nat PROVE ByteAt(data, i) \in Byte
  <2>1. CASE i < Len(data)
    <3>1. i + 1 \in 1 .. Len(data)
      BY <2>1
    <3>2. data[i + 1] \in Byte
      BY <3>1
    <3> QED
      BY <2>1, <3>2 DEF ByteAt
  <2>2. CASE ~(i < Len(data))
    BY <2>2 DEF ByteAt, Byte
  <2> QED
    BY <2>1, <2>2
<1>2. DataLength(data) \in Int
  <2>1. ByteAt(data, 3) \in Byte /\ ByteAt(data, 4) \in Byte
    BY <1>1
  <2>2. \A b \in Byte : SignedChar(b) \in Int
    BY DEF SignedChar, Byte
  <2> QED
    BY <2>1, <2>2 DEF DataLength
<1>3. EndPacket(data) \in Int
  BY <1>2 DEF EndPacket, P_MIN_SIZE
<1>4. ASSUME Complete(data)
      PROVE  EndPacket(data) \in Nat /\ EndPacket(data) < Len(data)
  <2>1. EndPacket(data) \in Nat /\ ByteAt(data, EndPacket(data)) = 254
    BY <1>3, <1>4 DEF Complete, P_EOF
  <2>2. EndPacket(data) < Len(data)
    BY <2>1 DEF ByteAt
  <2> QED
    BY <2>1, <2>2
<1> QED
  BY <1>1, <1>2, <1>3, <1>4

Rest(data) == SubSeq(data, EndPacket(data) + 2, Len(data))

LEMMA RestIsShorter ==
  ASSUME NEW data \in Seq(Byte), Complete(data)
  PROVE  Rest(data) \in Seq(Byte) /\ Len(Rest(data)) < Len(data)
<1> DEFINE a == EndPacket(data) + 1
           b == Len(data)
<1>1. a \in Nat /\ b \in Nat /\ 0 < a /\ a <= b
  BY Header
<1>2. Rest(data) = SubSeq(data, a + 1, b)
  BY Header DEF Rest
<1> HIDE DEF a
<1>3. Rest(data) \in Seq(Byte) /\ Len(Rest(data)) = b - a
  BY <1>1, <1>2, Part
<1> QED
  BY <1>1, <1>3

(* The definition of CutPackets, for a function g in its place.              *)
CutWith(g, data) ==
  IF ~Complete(data)
  THEN [data |-> data, out |-> <<>>]
  ELSE [data |-> g[Rest(data)].data,
        out |-> <<FrameOf(data)>> \o g[Rest(data)].out]

UpTo(n) == {data \in Seq(Byte) : Len(data) <= n}
CutsUpTo(g, n) == g = [data \in UpTo(n) |-> CutWith(g, data)]

LEMMA CutsExist == \A n \in Nat : \E g : CutsUpTo(g, n)
<1> DEFINE T == {n \in Nat : \E g : CutsUpTo(g, n)}
<1>1. 0 \in T
  <2> DEFINE g == [data \in UpTo(0) |-> [data |-> data, out |-> <<>>]]
  <2>1. ASSUME NEW data \in UpTo(0) PROVE CutWith(g, data) = g[data]
    <3>1. ~Complete(data)
      BY RestIsShorter DEF UpTo
    <3> QED
      BY <3>1 DEF CutWith
  <2> QED
    BY <2>1 DEF CutsUpTo
<1>2. ASSUME NEW n \in Nat, n \in T PROVE n + 1 \in T
  <2>1. PICK g : CutsUpTo(g, n)
    BY <1>2
  <2> DEFINE h == [data \in UpTo(n + 1) |-> CutWith(g, data)]
  <2>2. ASSUME NEW data \in UpTo(n) PROVE g[data] = CutWith(g, data)
    BY <2>1 DEF CutsUpTo
  <2>3. UpTo(n) \subseteq UpTo(n + 1)
    BY DEF UpTo
  <2>4. \A data \in UpTo(n) : h[data] = g[data]
    BY <2>2, <2>3
  <2>5. ASSUME NEW data \in UpTo(n + 1) PROVE h[data] = CutWith(h, data)
    <3>1. CASE ~Complete(data)
      BY <3>1 DEF CutWith
    <3>2. CASE Complete(data)
      <4>1. Rest(data) \in UpTo(n)
        BY <3>2, RestIsShorter DEF UpTo
      <4>2. h[Rest(data)] = g[Rest(data)]
        BY <2>4, <4>1
      <4> QED
        BY <3>2, <4>2 DEF CutWith
    <3> QED
      BY <3>1, <3>2
  <2>6. h = [data \in UpTo(n + 1) |-> h[data]]
    OBVIOUS
  <2> HIDE DEF h
  <2>7. CutsUpTo(h, n + 1)
    BY <2>5, <2>6 DEF CutsUpTo
  <2> QED
    BY <2>7
<1> HIDE DEF T
<1>3. Nat \subseteq T
  BY <1>1, <1>2, Induct
<1> QED
  BY <1>3 DEF T

LEMMA CutsAgree ==
  ASSUME NEW m \in Nat, NEW n \in Nat, NEW g, NEW h,
         CutsUpTo(g, m), CutsUpTo(h, n),
         NEW data \in Seq(Byte), Len(data) <= m, Len(data) <= n
  PROVE  g[data] = h[data]
<1> DEFINE T == {k \in Nat : \A d \in UpTo(m) \cap UpTo(n) :
                               Len(d) = k => g[d] = h[d]}
<1>1. ASSUME NEW k \in Nat, \A j \in 0 .. k - 1 : j \in T PROVE k \in T
  <2> SUFFICES ASSUME NEW d \in UpTo(m) \cap UpTo(n), Len(d) = k
               PROVE  g[d] = h[d]
    OBVIOUS
  <2>1. g[d] = CutWith(g, d) /\ h[d] = CutWith(h, d)
    BY DEF CutsUpTo
  <2>2. CASE ~Complete(d)
    BY <2>1, <2>2 DEF CutWith
  <2>3. CASE Complete(d)
    <3>1. /\ Rest(d) \in UpTo(m) \cap UpTo(n)
          /\ Len(Rest(d)) \in 0 .. k - 1
      BY <2>3, RestIsShorter DEF UpTo
    <3>2. g[Rest(d)] = h[Rest(d)]
      BY <1>1, <3>1
    <3> QED
      BY <2>1, <2>3, <3>2 DEF CutWith
  <2> QED
    BY <2>2, <2>3
<1> HIDE DEF T
<1>2. Nat \subseteq T
  BY <1>1, InductBelow
<1>3. data \in UpTo(m) \cap UpTo(n) /\ Len(data) \in Nat
  BY DEF UpTo
<1> QED
  BY <1>2, <1>3 DEF T

(* CutPackets is what its definition says.                                   *)
LEMMA CutDefined ==
  ASSUME NEW data \in Seq(Byte)
  PROVE  CutPackets[data] = CutWith(CutPackets, data)
<1> DEFINE G == [n \in Nat |-> CHOOSE g : CutsUpTo(g, n)]
           f == [d \in Seq(Byte) |-> G[Len(d)][d]]
<1>1. \A n \in Nat : CutsUpTo(G[n], n)
  BY CutsExist
<1> HIDE DEF G
<1>2. ASSUME NEW d \in Seq(Byte) PROVE f[d] = CutWith(f, d)
  <2>1. Len(d) \in Nat /\ d \in UpTo(Len(d))
    BY DEF UpTo
  <2>2. f[d] = CutWith(G[Len(d)], d)
    BY <1>1, <2>1 DEF CutsUpTo
  <2>3. CASE ~Complete(d)
    BY <2>2, <2>3 DEF CutWith
  <2>4. CASE Complete(d)
    <3>1. Rest(d) \in Seq(Byte) /\ Len(Rest(d)) < Len(d) /\ Len(Rest(d)) \in Nat
      BY <2>4, RestIsShorter
    <3>2. G[Len(d)][Rest(d)] = G[Len(Rest(d))][Rest(d)]
      BY <1>1, <2>1, <3>1, CutsAgree
    <3>3. f[Rest(d)] = G[Len(d)][Rest(d)]
      BY <3>1, <3>2
    <3> QED
      BY <2>2, <2>4, <3>3 DEF CutWith
  <2> QED
    BY <2>3, <2>4
<1>3. f = [d \in Seq(Byte) |-> CutWith(f, d)]
  <2>1. f = [d \in Seq(Byte) |-> f[d]]
    OBVIOUS
  <2> HIDE DEF f
  <2> QED
    BY <1>2, <2>1
<1> HIDE DEF f
<1>4. CutPackets = CHOOSE g : g = [d \in Seq(Byte) |-> CutWith(g, d)]
  BY DEF CutPackets, CutWith, Rest
<1>5. CutPackets = [d \in Seq(Byte) |-> CutWith(CutPackets, d)]
  BY <1>3, <1>4
<1> QED
  BY <1>5
-----------------------------------------------------------------------------
(* Packets.                                                                  *)

(* A function defined by its value at 0 and by a step from i - 1 to i exists. *)
Steps(h, S, z, n, g) == /\ h \in [0 .. n -> S] /\ h[0] = z
                        /\ \A i \in 1 .. n : h[i] = g[<<i, h[i - 1]>>]

LEMMA Recursion ==
  ASSUME NEW S, NEW z \in S, NEW n \in Nat, NEW g \in [(1 .. n) \X S -> S]
  PROVE  \E h : Steps(h, S, z, n, g)
<1> DEFINE Is(h, m) == /\ h \in [0 .. n -> S] /\ h[0] = z
                       /\ \A i \in 1 .. m : h[i] = g[<<i, h[i - 1]>>]
           T == {m \in Nat : m <= n => \E h \in [0 .. n -> S] : Is(h, m)}
<1>1. 0 \in T
  <2>1. Is([i \in 0 .. n |-> z], 0)
    OBVIOUS
  <2> QED
    BY <2>1
<1>2. ASSUME NEW m \in Nat, m \in T PROVE m + 1 \in T
  <2> SUFFICES ASSUME m + 1 <= n PROVE \E h \in [0 .. n -> S] : Is(h, m + 1)
    OBVIOUS
  <2>1. PICK h : Is(h, m)
    BY <1>2
  <2>2. m \in 0 .. n /\ m + 1 \in 1 .. n /\ h[m] \in S
    BY <2>1
  <2>3. g[<<m + 1, h[m]>>] \in S
    BY <2>2
  <2> DEFINE k == [h EXCEPT ![m + 1] = g[<<m + 1, h[m]>>]]
  <2>4. k \in [0 .. n -> S]
    BY <2>1, <2>3
  <2>5. \A i \in 0 .. n : k[i] = IF i = m + 1 THEN g[<<m + 1, h[m]>>] ELSE h[i]
    BY <2>1
  <2> HIDE DEF k
  <2>6. k[0] = z
    BY <2>1, <2>5
  <2>7. ASSUME NEW i \in 1 .. m + 1 PROVE k[i] = g[<<i, k[i - 1]>>]
    <3>1. k[i - 1] = h[i - 1]
      BY <2>5
    <3>2. CASE i = m + 1
      <4>1. i - 1 = m /\ i \in 0 .. n
        BY <3>2
      <4> QED
        BY <2>5, <3>1, <3>2, <4>1
    <3>3. CASE i # m + 1
      <4>1. i \in 1 .. m /\ i \in 0 .. n
        BY <3>3
      <4> QED
        BY <2>1, <2>5, <3>1, <3>3, <4>1
    <3> QED
      BY <3>2, <3>3
  <2> QED
    BY <2>4, <2>6, <2>7
<1> HIDE DEF T
<1>3. Nat \subseteq T
  BY <1>1, <1>2, Induct
<1>4. PICK h : Is(h, n)
  BY <1>3 DEF T
<1> QED
  BY <1>4 DEF Steps

LEMMA ZeroIsByte == 0 \in Byte
  BY DEF Byte

(* MakeCRC's loop can run over n bytes.                                      *)
Summable(bytes, n) == \A i \in 1 .. n : bytes[i] \in Byte

LEMMA CRCExists ==
  ASSUME NEW n \in Nat, NEW bytes, Summable(bytes, n)
  PROVE  \E h : h = [i \in 0 .. n |->
                       IF i = 0 THEN 0 ELSE XorOf(h[i - 1], bytes[i])]
<1> DEFINE g == [x \in (1 .. n) \X Byte |-> XorOf(x[2], bytes[x[1]])]
           zero == 0
<1>1. g \in [(1 .. n) \X Byte -> Byte]
  BY XorAssumption DEF Summable
<1>2. \A i \in 1 .. n, b \in Byte : g[<<i, b>>] = XorOf(b, bytes[i])
  OBVIOUS
<1>3. zero \in Byte
  BY ZeroIsByte
<1> HIDE DEF g, zero
<1>4. PICK h : Steps(h, Byte, zero, n, g)
  BY <1>1, <1>3, Recursion
<1>5. ASSUME NEW i \in 0 .. n
      PROVE  h[i] = IF i = 0 THEN 0 ELSE XorOf(h[i - 1], bytes[i])
  <2>1. i # 0 => i \in 1 .. n /\ i - 1 \in 0 .. n
    OBVIOUS
  <2> QED
    BY <1>2, <1>4, <2>1 DEF zero, Steps
<1>6. h = [i \in 0 .. n |-> h[i]]
  BY <1>4 DEF Steps
<1> QED
  BY <1>5, <1>6

(* MakeCRC returns a byte.                                                   *)
LEMMA CRCIsByte ==
  ASSUME NEW bytes \in Seq(Byte)
  PROVE  MakeCRC(bytes) \in Byte
<1> DEFINE n == Len(bytes)
           Def(h) == h = [i \in 0 .. n |->
                            IF i = 0 THEN 0 ELSE XorOf(h[i - 1], bytes[i])]
           crc == CHOOSE h : Def(h)
<1>1. n \in Nat /\ 0 \in Byte
  BY DEF Byte
<1>2. \A i \in 1 .. n, b \in Byte : XorOf(b, bytes[i]) \in Byte
  BY XorAssumption
<1>3. \E h : Def(h)
  <2>1. Summable(bytes, n)
    BY DEF Summable
  <2> HIDE DEF n
  <2> QED
    BY <1>1, <2>1, CRCExists
<1>4. Def(crc)
  BY <1>3
<1>5. MakeCRC(bytes) = crc[n]
  BY DEF MakeCRC
<1> DEFINE T == {i \in Nat : i <= n => crc[i] \in Byte}
<1> HIDE DEF crc
<1>6. 0 \in T
  BY <1>1, <1>4
<1>7. ASSUME NEW i \in Nat, i \in T PROVE i + 1 \in T
  <2> SUFFICES ASSUME i + 1 <= n PROVE crc[i + 1] \in Byte
    OBVIOUS
  <2>1. i + 1 \in 0 .. n /\ i + 1 \in 1 .. n /\ i + 1 # 0 /\ (i + 1) - 1 = i
    BY <1>1
  <2>2. crc[i + 1] = XorOf(crc[i], bytes[i + 1])
    BY <1>4, <2>1
  <2>3. crc[i] \in Byte
    BY <1>1, <1>7
  <2> QED
    BY <1>2, <2>1, <2>2, <2>3
<1> HIDE DEF T, n
<1>8. Nat \subseteq T
  BY <1>6, <1>7, Induct
<1> QED
  BY <1>1, <1>5, <1>8 DEF T

(* What a packet consists of.                                                *)
LEMMA PacketBytes ==
  ASSUME NEW f \in DeviceFrames
  PROVE  LET p == Packet[f]
             n == Len(f.payload)
         IN /\ p \in Seq(Byte)
            /\ n \in 0 .. 64 /\ Len(p) = n + 11
            /\ p[1] = 240 /\ p[2] = 0 /\ p[3] = f.cmd /\ p[4] = n + 4
            /\ p[5] = 0 /\ p[n + 11] = 254
            /\ \A j \in 1 .. 4 : p[5 + j] = f.id[j]
            /\ \A j \in 1 .. n : p[9 + j] = f.payload[j]
<1> DEFINE cmd == f.cmd
           id == f.id
           payload == f.payload
           n == Len(payload)
           head == <<P_SOF, CAN, cmd, (n + 4) % 256, (n + 4) \div 256>>
           body == head \o id \o payload
           p == body \o <<MakeCRC(body), P_EOF>>
<1>1. /\ payload \in Seq(Byte) /\ n <= 64
      /\ id \in [1 .. 4 -> Byte]
      /\ cmd \in {0, 3, 1}
  BY FramesAssumption DEF CMD
<1>9. Packet[f] = p
  BY DEF Packet, GenerateWriteData, body, head
<1> HIDE DEF cmd, id, payload
<1>2. id \in Seq(Byte) /\ Len(id) = 4
  <2>1. id \in Seq(Byte)
    BY <1>1, SeqDef
  <2> QED
    BY <1>1, <2>1
<1>20. n \in Nat /\ n <= 64
  BY <1>1
<1> HIDE DEF n
<1>21. n \in Nat /\ n \in 0 .. 64
  BY <1>20
<1>3. (n + 4) % 256 = n + 4 /\ (n + 4) \div 256 = 0
  BY <1>21
<1>4. /\ head \in Seq(Byte) /\ Len(head) = 5
      /\ head[1] = 240 /\ head[2] = 0 /\ head[3] = cmd /\ head[4] = n + 4
      /\ head[5] = 0
  <2>1. head = <<240, 0, cmd, n + 4, 0>>
    BY <1>3 DEF P_SOF, CAN
  <2>2. 240 \in Byte /\ 0 \in Byte /\ cmd \in Byte /\ n + 4 \in Byte
    BY <1>1, <1>20 DEF Byte
  <2> HIDE DEF head
  <2> QED
    BY <2>1, <2>2
<1> HIDE DEF head
<1>5. body \in Seq(Byte)
  <2>1. head \in Seq(Byte) /\ payload \in Seq(Byte)
    BY <1>1, <1>4
  <2>2. head \o id \in Seq(Byte)
    BY <1>2, <2>1, Joined
  <2> QED
    BY <2>1, <2>2, Joined
<1> DEFINE end == <<MakeCRC(body), P_EOF>>
<1>6. end \in Seq(Byte) /\ Len(end) = 2 /\ end[2] = 254
  <2>1. MakeCRC(body) \in Byte
    BY <1>5, CRCIsByte
  <2>2. P_EOF \in Byte /\ P_EOF = 254
    BY DEF P_EOF, Byte
  <2> HIDE DEF Byte
  <2> QED
    BY <2>1, <2>2
<1> HIDE DEF end
<1>7. p \in Seq(Byte) /\ Layout(p, head, id, payload, end)
  <2>1. p = head \o id \o payload \o end
    BY DEF body, end
  <2>2. /\ head \in Seq(Byte) /\ id \in Seq(Byte) /\ payload \in Seq(Byte)
        /\ end \in Seq(Byte)
    BY <1>1, <1>2, <1>4, <1>6
  <2> HIDE DEF p
  <2> QED
    BY <2>1, <2>2, FourParts
<1> HIDE DEF p, body
<1>8. /\ Len(head) = 5 /\ Len(id) = 4 /\ Len(payload) = n /\ Len(end) = 2
  BY <1>2, <1>4, <1>6 DEF n
<1>10. Len(p) = n + 11 /\ p[n + 11] = 254
  BY <1>6, <1>7, <1>8, <1>20 DEF Layout
<1>11. /\ p[1] = 240 /\ p[2] = 0 /\ p[3] = cmd /\ p[4] = n + 4 /\ p[5] = 0
  BY <1>4, <1>7, <1>8 DEF Layout
<1>12. \A j \in 1 .. 4 : p[5 + j] = id[j]
  BY <1>7, <1>8 DEF Layout
<1>13. \A j \in 1 .. n : p[9 + j] = payload[j]
  BY <1>7, <1>8 DEF Layout
<1>14. n \in 0 .. 64
  BY <1>21
<1>15. p \in Seq(Byte)
  BY <1>7
<1> QED
  BY <1>9, <1>10, <1>11, <1>12, <1>13, <1>14, <1>15 DEF n, cmd, id, payload
LEMMA PacketLength ==
  ASSUME NEW f \in DeviceFrames
  PROVE  Packet[f] \in Seq(Byte) /\ Len(Packet[f]) \in Nat /\ Len(Packet[f]) >= 11
<1> DEFINE p == Packet[f]
           n == Len(f.payload)
<1>1. p \in Seq(Byte) /\ n \in 0 .. 64 /\ Len(p) = n + 11
  BY PacketBytes
<1> HIDE DEF p, n
<1>2. p \in Seq(Byte) /\ Len(p) \in Nat /\ Len(p) >= 11
  BY <1>1
<1> QED
  BY <1>2 DEF p

Known(fs, n) == \A i \in 1 .. n : fs[i] \in DeviceFrames

LEMMA PacketsExist ==
  ASSUME NEW n \in Nat, NEW fs, Known(fs, n)
  PROVE  \E h : h = [i \in 0 .. n |->
                       IF i = 0 THEN <<>> ELSE h[i - 1] \o Packet[fs[i]]]
<1> DEFINE D == Seq(Byte)
           g == [x \in (1 .. n) \X D |-> x[2] \o Packet[fs[x[1]]]]
           empty == <<>>
<1>1. ASSUME NEW i \in 1 .. n, NEW b \in D PROVE b \o Packet[fs[i]] \in D
  <2>1. fs[i] \in DeviceFrames
    BY DEF Known
  <2>2. Packet[fs[i]] \in Seq(Byte)
    BY <2>1, PacketBytes
  <2> QED
    BY <2>2, Joined
<1>2. empty \in D
  OBVIOUS
<1> HIDE DEF D, empty
<1>3. g \in [(1 .. n) \X D -> D]
  BY <1>1
<1>4. \A i \in 1 .. n, b \in D : g[<<i, b>>] = b \o Packet[fs[i]]
  OBVIOUS
<1> HIDE DEF g
<1>5. PICK h : Steps(h, D, empty, n, g)
  BY <1>2, <1>3, Recursion
<1>6. ASSUME NEW i \in 0 .. n
      PROVE  h[i] = IF i = 0 THEN <<>> ELSE h[i - 1] \o Packet[fs[i]]
  <2>1. i # 0 => i \in 1 .. n /\ i - 1 \in 0 .. n
    OBVIOUS
  <2>2. i # 0 => h[i] = g[<<i, h[i - 1]>>] /\ h[i - 1] \in D
    BY <1>5, <2>1 DEF Steps
  <2> QED
    BY <1>4, <1>5, <2>1, <2>2 DEF Steps, empty
<1>7. h = [i \in 0 .. n |-> h[i]]
  BY <1>5 DEF Steps
<1> QED
  BY <1>6, <1>7

LEMMA PacketsJoined ==
  ASSUME NEW fs \in Seq(DeviceFrames)
  PROVE  /\ PacketsOf(fs, 0) = <<>>
         /\ \A k \in 0 .. Len(fs) - 1 :
              PacketsOf(fs, k + 1) = PacketsOf(fs, k) \o Packet[fs[k + 1]]
         /\ \A k \in 0 .. Len(fs) : PacketsOf(fs, k) \in Seq(Byte)
<1> DEFINE n == Len(fs)
           Def(h) == h = [i \in 0 .. n |->
                            IF i = 0 THEN <<>> ELSE h[i - 1] \o Packet[fs[i]]]
           bytes == CHOOSE h : Def(h)
<1>1. n \in Nat /\ Known(fs, n)
  BY DEF Known
<1>2. \A k : PacketsOf(fs, k) = bytes[k]
  BY DEF PacketsOf
<1> HIDE DEF n
<1>3. \E h : Def(h)
  BY <1>1, PacketsExist
<1>4. Def(bytes)
  BY <1>3
<1> HIDE DEF bytes
<1>5. bytes[0] = <<>>
  BY <1>1, <1>4
<1>6. ASSUME NEW k \in 0 .. n - 1
      PROVE  bytes[k + 1] = bytes[k] \o Packet[fs[k + 1]]
  <2>1. k + 1 \in 0 .. n /\ k + 1 # 0 /\ (k + 1) - 1 = k
    BY <1>1
  <2> QED
    BY <1>4, <2>1
<1> HIDE DEF Def
<1> DEFINE T == {k \in Nat : k <= n => bytes[k] \in Seq(Byte)}
<1>7. 0 \in T
  <2>1. bytes[0] \in Seq(Byte)
    BY <1>5, EmptySeq
  <2> QED
    BY <2>1
<1>8. ASSUME NEW k \in Nat, k \in T PROVE k + 1 \in T
  <2> SUFFICES ASSUME k + 1 <= n PROVE bytes[k + 1] \in Seq(Byte)
    OBVIOUS
  <2>1. k \in 0 .. n - 1 /\ k + 1 \in 1 .. n
    BY <1>1
  <2>2. bytes[k] \in Seq(Byte)
    BY <1>1, <1>8
  <2>3. Packet[fs[k + 1]] \in Seq(Byte)
    BY <1>1, <2>1, PacketBytes DEF Known
  <2>4. bytes[k + 1] = bytes[k] \o Packet[fs[k + 1]]
    BY <1>6, <2>1
  <2> QED
    BY <2>2, <2>3, <2>4, Joined
<1> HIDE DEF T
<1>9. Nat \subseteq T
  BY <1>7, <1>8, Induct
<1>10. \A k \in 0 .. n : bytes[k] \in Seq(Byte)
  BY <1>1, <1>9 DEF T
<1> QED
  BY <1>2, <1>5, <1>6, <1>10 DEF n
LEMMA Found ==
  ASSUME NEW S, NEW d \in Seq(S), NEW t \in Seq(S), NEW pos \in Nat,
         pos + Len(t) <= Len(d), \A i \in 1 .. Len(t) : d[pos + i] = t[i]
  PROVE  SubSeq(d, pos + 1, pos + Len(t)) = t
<1> DEFINE b == pos + Len(t)
           u == SubSeq(d, pos + 1, b)
<1>1. b \in Nat /\ pos <= b /\ b <= Len(d) /\ b - pos = Len(t)
  OBVIOUS
<1> HIDE DEF b
<1>2. u \in Seq(S) /\ Len(u) = b - pos /\ \A i \in 1 .. b - pos : u[i] = d[pos + i]
  BY <1>1, Part
<1> HIDE DEF u
<1>3. u = t
  BY <1>1, <1>2, Same
<1> QED
  BY <1>3 DEF u, b

LEMMA MidIs ==
  ASSUME NEW S, NEW d \in Seq(S), NEW t \in Seq(S), NEW pos \in Nat,
         pos + Len(t) <= Len(d), \A i \in 1 .. Len(t) : d[pos + i] = t[i]
  PROVE  Mid(d, pos, Len(t)) = t
<1>1. Mid(d, pos, Len(t)) = SubSeq(d, pos + 1, pos + Len(t))
  BY DEF Mid
<1> QED
  BY <1>1, Found

LEMMA LengthOf ==
  ASSUME NEW d \in Seq(Byte), NEW n \in 0 .. 64,
         ByteAt(d, 3) = n + 4, ByteAt(d, 4) = 0
  PROVE  DataLength(d) = n + 4 /\ EndPacket(d) = n + 10
<1>1. SignedChar(ByteAt(d, 3)) = n + 4 /\ SignedChar(ByteAt(d, 4)) = 0
  BY DEF SignedChar
<1>2. DataLength(d) = n + 4
  BY <1>1 DEF DataLength
<1> QED
  BY <1>2 DEF EndPacket, P_MIN_SIZE

(* A whole packet at the front of the buffer is cut off, and gives the frame *)
(* it was made of.                                                           *)
LEMMA WholePacket ==
  ASSUME NEW f \in DeviceFrames, NEW tail \in Seq(Byte)
  PROVE  LET d == Packet[f] \o tail
         IN d \in Seq(Byte) /\ Complete(d) /\ FrameOf(d) = f /\ Rest(d) = tail
<1> DEFINE p == Packet[f]
           cmd == f.cmd
           id == f.id
           payload == f.payload
           n == Len(payload)
           d == p \o tail
<1>1. /\ p \in Seq(Byte) /\ n \in 0 .. 64 /\ Len(p) = n + 11
      /\ p[1] = 240 /\ p[2] = 0 /\ p[3] = cmd /\ p[4] = n + 4
      /\ p[5] = 0 /\ p[n + 11] = 254
      /\ \A j \in 1 .. 4 : p[5 + j] = id[j]
      /\ \A j \in 1 .. n : p[9 + j] = payload[j]
  BY PacketBytes
<1>2. /\ payload \in Seq(Byte) /\ id \in [1 .. 4 -> Byte] /\ id[1] < 32
      /\ cmd \in {0, 3, 1}
  BY FramesAssumption DEF CMD
<1>3. f = [cmd |-> cmd, id |-> id, payload |-> payload]
  BY FramesAssumption
<1> HIDE DEF p, cmd, id, payload
<1>4. id \in Seq(Byte) /\ Len(id) = 4
  <2>1. id \in Seq(Byte)
    BY <1>2, SeqDef
  <2> QED
    BY <1>2, <2>1
<1>5. n = Len(payload)
  OBVIOUS
<1> HIDE DEF n
<1>6. /\ d \in Seq(Byte) /\ Len(d) = Len(p) + Len(tail)
      /\ \A i \in 1 .. Len(p) : d[i] = p[i]
      /\ \A i \in 1 .. Len(tail) : d[Len(p) + i] = tail[i]
  <2>1. p \in Seq(Byte)
    BY <1>1
  <2> QED
    BY <2>1, Joined
<1>7. Len(tail) \in Nat
  OBVIOUS
<1> HIDE DEF d
<1>8. \A i \in 0 .. n + 10 : ByteAt(d, i) = p[i + 1]
  <2> SUFFICES ASSUME NEW i \in 0 .. n + 10 PROVE ByteAt(d, i) = p[i + 1]
    OBVIOUS
  <2>1. i < Len(d) /\ i + 1 \in 1 .. Len(p)
    BY <1>1, <1>6, <1>7
  <2> QED
    BY <1>6, <2>1 DEF ByteAt
<1>9. /\ ByteAt(d, 0) = 240 /\ ByteAt(d, 1) = 0 /\ ByteAt(d, 2) = cmd
      /\ ByteAt(d, 3) = n + 4 /\ ByteAt(d, 4) = 0 /\ ByteAt(d, n + 10) = 254
  <2>1. /\ 0 \in 0 .. n + 10 /\ 1 \in 0 .. n + 10 /\ 2 \in 0 .. n + 10
        /\ 3 \in 0 .. n + 10 /\ 4 \in 0 .. n + 10 /\ n + 10 \in 0 .. n + 10
        /\ (n + 10) + 1 = n + 11
    BY <1>1
  <2>2. /\ ByteAt(d, 0) = p[0 + 1] /\ ByteAt(d, 1) = p[1 + 1]
        /\ ByteAt(d, 2) = p[2 + 1] /\ ByteAt(d, 3) = p[3 + 1]
        /\ ByteAt(d, 4) = p[4 + 1] /\ ByteAt(d, n + 10) = p[n + 11]
    BY <1>8, <2>1
  <2> QED
    BY <1>1, <2>2
<1>10. DataLength(d) = n + 4 /\ EndPacket(d) = n + 10
  <2>1. d \in Seq(Byte) /\ n \in 0 .. 64
    BY <1>1, <1>6
  <2>2. ByteAt(d, 3) = n + 4 /\ ByteAt(d, 4) = 0
    BY <1>9
  <2> QED
    BY <2>1, <2>2, LengthOf
<1>11. Complete(d)
  <2>1. Len(d) >= n + 10 /\ n + 10 >= 0
    BY <1>1, <1>6, <1>7
  <2>2. cmd \in {CMD.SEND_CAN1, CMD.RECV_CAN2, CMD.SEND_CAN2}
    BY <1>2 DEF CMD
  <2> QED
    BY <1>9, <1>10, <2>1, <2>2 DEF Complete, Accepted, P_SOF, CAN, P_EOF
<1>12. Mid(d, P_MIN_SIZE, 4) = id
  <2> DEFINE pos == 5
  <2>1. /\ d \in Seq(Byte) /\ pos \in Nat /\ pos + Len(id) <= Len(d)
        /\ pos = P_MIN_SIZE
    BY <1>1, <1>4, <1>6, <1>7 DEF P_MIN_SIZE
  <2>2. \A i \in 1 .. Len(id) : d[pos + i] = id[i]
    <3> SUFFICES ASSUME NEW i \in 1 .. Len(id) PROVE d[5 + i] = id[i]
      OBVIOUS
    <3>1. i \in 1 .. 4
      BY <1>4
    <3>2. 5 + i \in 1 .. Len(p)
      BY <1>1, <3>1
    <3>3. d[5 + i] = p[5 + i]
      BY <1>6, <3>2
    <3>4. p[5 + i] = id[i]
      BY <1>1, <3>1
    <3> QED
      BY <3>3, <3>4
  <2> HIDE DEF pos
  <2> QED
    BY <1>4, <2>1, <2>2, MidIs
<1>13. Mid(d, P_MIN_SIZE + 4, n) = payload
  <2> DEFINE pos == 9
  <2>1. /\ d \in Seq(Byte) /\ pos \in Nat /\ pos + Len(payload) <= Len(d)
        /\ pos = P_MIN_SIZE + 4
    BY <1>1, <1>5, <1>6, <1>7 DEF P_MIN_SIZE
  <2>2. \A i \in 1 .. Len(payload) : d[pos + i] = payload[i]
    <3> SUFFICES ASSUME NEW i \in 1 .. n PROVE d[9 + i] = payload[i]
      BY <1>5
    <3>1. 9 + i \in 1 .. Len(p)
      BY <1>1
    <3> QED
      BY <1>1, <1>6, <3>1
  <2> HIDE DEF pos
  <2> QED
    BY <1>2, <1>5, <2>1, <2>2, MidIs
<1>14. FrameOf(d) = f
  <2>1. [i \in 1 .. 4 - Len(id) |-> 0] \o id = id
    <3> DEFINE none == [i \in 1 .. 0 |-> 0]
    <3>1. none = <<>>
      OBVIOUS
    <3>2. 4 - Len(id) = 0
      BY <1>4
    <3> HIDE DEF none
    <3>3. none \o id = id
      BY <1>4, <3>1, ConcatEmptySeq
    <3> QED
      BY <3>2, <3>3 DEF none
  <2>2. DataLength(d) - 4 = n
    BY <1>1, <1>10
  <2> QED
    BY <1>2, <1>3, <1>9, <1>12, <1>13, <2>1, <2>2 DEF FrameOf
<1>15. Rest(d) = tail
  <2>1. EndPacket(d) + 2 = Len(p) + 1
    BY <1>1, <1>10
  <2>2. Len(p) \in Nat /\ d \in Seq(Byte)
    BY <1>1, <1>6
  <2>3. SubSeq(d, Len(p) + 1, Len(p) + Len(tail)) = tail
    BY <1>6, <2>2, Found
  <2> QED
    BY <1>6, <2>1, <2>3 DEF Rest
<1> QED
  BY <1>6, <1>11, <1>14, <1>15 DEF d, p

(* What has arrived of a packet is none, and no reason to read in front of   *)
(* the buffer.                                                               *)
LEMMA PartialPacket ==
  ASSUME NEW f \in DeviceFrames, NEW m \in Nat, m < Len(Packet[f])
  PROVE  LET d == SubSeq(Packet[f], 1, m)
         IN /\ d \in Seq(Byte) /\ Len(d) = m
            /\ ~Complete(d) /\ ~ReadsInFront(d)
<1> DEFINE p == Packet[f]
           n == Len(f.payload)
           d == SubSeq(p, 1, m)
<1>1. /\ p \in Seq(Byte) /\ n \in 0 .. 64 /\ Len(p) = n + 11
      /\ p[4] = n + 4 /\ p[5] = 0
  BY PacketBytes
<1> HIDE DEF p, n
<1>2. /\ d \in Seq(Byte) /\ Len(d) = m /\ \A i \in 1 .. m : d[i] = p[i]
  <2> DEFINE zero == 0
  <2>1. /\ zero \in Nat /\ m \in Nat /\ zero <= m /\ m <= Len(p)
        /\ p \in Seq(Byte)
    BY <1>1 DEF p
  <2>2. /\ d = SubSeq(p, zero + 1, m) /\ m - zero = m
        /\ \A i \in 1 .. m : zero + i = i
    OBVIOUS
  <2> HIDE DEF zero, d
  <2>3. /\ SubSeq(p, zero + 1, m) \in Seq(Byte)
        /\ Len(SubSeq(p, zero + 1, m)) = m - zero
        /\ \A i \in 1 .. m - zero : SubSeq(p, zero + 1, m)[i] = p[zero + i]
    BY <2>1, Part
  <2> QED
    BY <2>2, <2>3
<1> HIDE DEF d
<1>3. EndPacket(d) \in {6, n + 10}
  <2>1. CASE m <= 3
    <3>1. ByteAt(d, 3) = 0 /\ ByteAt(d, 4) = 0
      BY <1>2, <2>1 DEF ByteAt
    <3> QED
      BY <3>1 DEF EndPacket, DataLength, SignedChar, P_MIN_SIZE
  <2>2. CASE m > 3
    <3>1. ByteAt(d, 3) = n + 4
      BY <1>1, <1>2, <2>2 DEF ByteAt
    <3>2. ByteAt(d, 4) = 0
      BY <1>1, <1>2, <2>2 DEF ByteAt
    <3> QED
      BY <1>1, <1>2, <3>1, <3>2, LengthOf
  <2> QED
    BY <2>1, <2>2
<1>4. ~ReadsInFront(d)
  BY <1>1, <1>3 DEF ReadsInFront
<1>5. ~Complete(d)
  <2> SUFFICES ASSUME Complete(d) PROVE FALSE
    OBVIOUS
  <2>1. Len(d) >= EndPacket(d) /\ ByteAt(d, EndPacket(d)) = 254
    BY DEF Complete, Accepted, P_EOF
  <2>2. EndPacket(d) < Len(d)
    BY <1>1, <1>2, <1>3, <2>1 DEF ByteAt
  <2>3. EndPacket(d) = 6 /\ m <= n + 10
    BY <1>1, <1>2, <1>3, <2>2 DEF p
  <2>4. m > 6
    BY <1>2, <2>2, <2>3
  <2>5. ByteAt(d, 3) = n + 4 /\ ByteAt(d, 4) = 0
    BY <1>1, <1>2, <2>4 DEF ByteAt
  <2>6. EndPacket(d) = n + 10
    BY <1>1, <1>2, <2>5, LengthOf
  <2> QED
    BY <1>1, <2>3, <2>6
<1> QED
  BY <1>2, <1>4, <1>5 DEF d, p
-----------------------------------------------------------------------------
(* What readData makes of the bytes.                                         *)

Cut == {FrameOf(data) : data \in Seq(Byte)} \cup DeviceFrames

LEMMA CutTyped ==
  ASSUME NEW data \in Seq(Byte)
  PROVE  LET run == CutPackets[data]
         IN /\ run = [data |-> run.data, out |-> run.out]
            /\ run.data \in Seq(Byte) /\ run.out \in Seq(Cut)
            /\ ~Complete(run.data)
<1> DEFINE Good(run) == /\ run = [data |-> run.data, out |-> run.out]
                        /\ run.data \in Seq(Byte) /\ run.out \in Seq(Cut)
                        /\ ~Complete(run.data)
           T == {n \in Nat : \A d \in Seq(Byte) :
                               Len(d) = n => Good(CutPackets[d])}
<1>1. ASSUME NEW n \in Nat, \A m \in 0 .. n - 1 : m \in T PROVE n \in T
  <2> SUFFICES ASSUME NEW d \in Seq(Byte), Len(d) = n PROVE Good(CutPackets[d])
    OBVIOUS
  <2>1. CASE ~Complete(d)
    <3>1. CutPackets[d] = [data |-> d, out |-> <<>>]
      BY <2>1, CutDefined DEF CutWith
    <3>2. <<>> \in Seq(Cut)
      BY EmptySeq
    <3> QED
      BY <2>1, <3>1, <3>2
  <2>2. CASE Complete(d)
    <3> DEFINE rest == CutPackets[Rest(d)]
    <3>1. /\ Rest(d) \in Seq(Byte) /\ Len(Rest(d)) \in Nat
          /\ Len(Rest(d)) < n
      BY <2>2, RestIsShorter
    <3>2. Len(Rest(d)) \in 0 .. n - 1
      BY <3>1
    <3>3. Good(rest)
      BY <1>1, <3>1, <3>2
    <3>4. CutPackets[d] = [data |-> rest.data, out |-> <<FrameOf(d)>> \o rest.out]
      BY <2>2, CutDefined DEF CutWith
    <3> HIDE DEF rest
    <3>5. <<FrameOf(d)>> \in Seq(Cut)
      <4>1. FrameOf(d) \in Cut
        BY DEF Cut
      <4> QED
        BY <4>1
    <3>6. rest.out \in Seq(Cut) /\ rest.data \in Seq(Byte) /\ ~Complete(rest.data)
      BY <3>3
    <3>7. <<FrameOf(d)>> \o rest.out \in Seq(Cut)
      BY <3>5, <3>6, Joined
    <3> QED
      BY <3>4, <3>6, <3>7
  <2> QED
    BY <2>1, <2>2
<1> HIDE DEF T
<1>2. Nat \subseteq T
  BY <1>1, InductBelow
<1>3. Len(data) \in Nat
  OBVIOUS
<1>4. Good(CutPackets[data])
  BY <1>2, <1>3 DEF T
<1> QED
  BY <1>4

LEMMA CutNothing ==
  ASSUME NEW data \in Seq(Byte), ~Complete(data)
  PROVE  CutPackets[data] = [data |-> data, out |-> <<>>]
  BY CutDefined DEF CutWith

(* i packets in front of the bytes t come out as i frames.                   *)
CutOff(fs, i, t) ==
  LET run == CutPackets[PacketsOf(fs, i) \o t]
  IN /\ run.data = CutPackets[t].data
     /\ run.out = SubSeq(fs, 1, i) \o CutPackets[t].out

LEMMA CutOffNone ==
  ASSUME NEW fs \in Seq(DeviceFrames), NEW t \in Seq(Byte)
  PROVE  CutOff(fs, 0, t)
<1>1. PacketsOf(fs, 0) \o t = t
  BY PacketsJoined, ConcatEmptySeq
<1>2. SubSeq(fs, 1, 0) = <<>>
  BY SubSeqEmpty
<1>3. CutPackets[t].out \in Seq(Cut)
  BY CutTyped
<1>4. <<>> \o CutPackets[t].out = CutPackets[t].out
  BY <1>3, ConcatEmptySeq
<1> QED
  BY <1>1, <1>2, <1>4 DEF CutOff

LEMMA CutOffMore ==
  ASSUME NEW fs \in Seq(DeviceFrames), NEW i \in 0 .. Len(fs) - 1,
         NEW t \in Seq(Byte),
         CutOff(fs, i, Packet[fs[i + 1]] \o t)
  PROVE  CutOff(fs, i + 1, t)
<1> DEFINE f == fs[i + 1]
           p == Packet[f]
           u == p \o t
           before == PacketsOf(fs, i)
           run == CutPackets[t]
           out == run.out
           sent == SubSeq(fs, 1, i)
           one == <<f>>
<1>1. /\ Len(fs) \in Nat /\ i \in Nat /\ i \in 0 .. Len(fs)
      /\ i + 1 \in 1 .. Len(fs)
  OBVIOUS
<1>2. f \in DeviceFrames
  BY <1>1, ElementOfSeq
<1>3. Complete(u) /\ FrameOf(u) = f /\ Rest(u) = t /\ u \in Seq(Byte)
  BY <1>2, WholePacket
<1>4. CutPackets[u] = [data |-> run.data, out |-> one \o out]
  BY <1>3, CutDefined DEF CutWith
<1>5. /\ CutPackets[before \o u].data = CutPackets[u].data
      /\ CutPackets[before \o u].out = sent \o CutPackets[u].out
  BY DEF CutOff
<1>6. /\ before \in Seq(Byte) /\ p \in Seq(Byte)
      /\ PacketsOf(fs, i + 1) = before \o p
  BY <1>1, <1>2, PacketsJoined, PacketBytes
<1>7. sent \in Seq(Cut) /\ one \in Seq(Cut) /\ out \in Seq(Cut)
  <2>1. DeviceFrames \subseteq Cut
    BY DEF Cut
  <2>2. sent \in Seq(DeviceFrames)
    BY <1>1, AnyPart
  <2>3. sent \in Seq(Cut)
    BY <2>1, <2>2, SeqMonotonic
  <2>4. f \in Cut
    BY <1>2, <2>1
  <2> HIDE DEF f
  <2>5. one \in Seq(Cut)
    BY <2>4
  <2>6. out \in Seq(Cut)
    BY CutTyped
  <2> QED
    BY <2>3, <2>5, <2>6
<1>8. SubSeq(fs, 1, i + 1) = sent \o one
  <2>1. 1 \in 1 .. Len(fs) /\ i + 1 \in 1 .. Len(fs) /\ (i + 1) - 1 = i
    BY <1>1
  <2>2. i + 1 \in 1 .. Len(fs)
    BY <1>1
  <2>3. SubSeq(fs, 1, i + 1) = SubSeq(fs, 1, (i + 1) - 1) \o <<fs[i + 1]>>
    BY <2>1, SubSeqRecursiveSecond
  <2> QED
    BY <2>1, <2>3
<1>9. u = p \o t
  OBVIOUS
<1>10. CutOff(fs, i + 1, t) <=>
         /\ CutPackets[PacketsOf(fs, i + 1) \o t].data = run.data
         /\ CutPackets[PacketsOf(fs, i + 1) \o t].out = SubSeq(fs, 1, i + 1) \o out
  BY DEF CutOff
<1> HIDE DEF f, p, u, before, run, out, sent, one
<1>11. PacketsOf(fs, i + 1) \o t = before \o u
  <2>1. (before \o p) \o t = before \o (p \o t)
    BY <1>6, ConcatAssociative
  <2> QED
    BY <1>6, <1>9, <2>1
<1>12. sent \o (one \o out) = (sent \o one) \o out
  BY <1>7, ConcatAssociative
<1>13. CutPackets[u].data = run.data /\ CutPackets[u].out = one \o out
  BY <1>4
<1> QED
  BY <1>5, <1>8, <1>10, <1>11, <1>12, <1>13

LEMMA CutsPackets ==
  ASSUME NEW fs \in Seq(DeviceFrames)
  PROVE  \A k \in 0 .. Len(fs), t \in Seq(Byte) : CutOff(fs, k, t)
<1> DEFINE n == Len(fs)
           T == {i \in Nat : i <= n => \A t \in Seq(Byte) : CutOff(fs, i, t)}
<1>1. n \in Nat
  OBVIOUS
<1>2. 0 \in T
  BY CutOffNone
<1>3. ASSUME NEW i \in Nat, i \in T PROVE i + 1 \in T
  <2> SUFFICES ASSUME i + 1 <= n, NEW t \in Seq(Byte) PROVE CutOff(fs, i + 1, t)
    BY DEF T
  <2>1. i \in 0 .. n - 1 /\ i + 1 \in 1 .. n /\ i <= n
    BY <1>1
  <2>2. fs[i + 1] \in DeviceFrames
    BY <2>1, ElementOfSeq
  <2>3. Packet[fs[i + 1]] \o t \in Seq(Byte)
    BY <2>2, WholePacket
  <2>4. CutOff(fs, i, Packet[fs[i + 1]] \o t)
    BY <1>3, <2>1, <2>3
  <2> QED
    BY <2>1, <2>4, CutOffMore
<1> HIDE DEF T, n
<1>4. Nat \subseteq T
  BY <1>2, <1>3, Induct
<1>5. \A k \in 0 .. n, t \in Seq(Byte) : CutOff(fs, k, t)
  BY <1>1, <1>4 DEF T
<1> QED
  BY <1>5 DEF n
(* One run of the slot.                                                      *)
LEMMA SlotTyped ==
  ASSUME NEW data \in Seq(Byte)
  PROVE  LET run == RunSlot(data)
         IN /\ run = [data |-> run.data, out |-> run.out]
            /\ run.data \in Seq(Byte) /\ run.out \in Seq(Cut)
            /\ Len(run.data) > P_MIN_SIZE => ~Complete(run.data)
<1>1. CASE Len(data) > P_MIN_SIZE
  <2>1. RunSlot(data) = CutPackets[data]
    BY <1>1 DEF RunSlot
  <2> QED
    BY <2>1, CutTyped
<1>2. CASE ~(Len(data) > P_MIN_SIZE)
  <2>1. RunSlot(data) = [data |-> data, out |-> <<>>]
    BY <1>2 DEF RunSlot
  <2>2. <<>> \in Seq(Cut)
    BY EmptySeq
  <2> QED
    BY <1>2, <2>1, <2>2
<1> QED
  BY <1>1, <1>2

(* A second run of the slot finds nothing to do.                             *)
LEMMA SlotAgain ==
  ASSUME NEW data \in Seq(Byte)
  PROVE  RunSlot(RunSlot(data).data) = [data |-> RunSlot(data).data, out |-> <<>>]
<1> DEFINE d == RunSlot(data).data
<1>1. d \in Seq(Byte) /\ (Len(d) > P_MIN_SIZE => ~Complete(d))
  BY SlotTyped
<1> HIDE DEF d
<1>2. RunSlot(d) = [data |-> d, out |-> <<>>]
  <2>1. CASE Len(d) > P_MIN_SIZE
    <3>1. ~Complete(d)
      BY <1>1, <2>1
    <3>2. CutPackets[d] = [data |-> d, out |-> <<>>]
      BY <1>1, <3>1, CutNothing
    <3> QED
      BY <2>1, <3>2 DEF RunSlot
  <2>2. CASE ~(Len(d) > P_MIN_SIZE)
    BY <2>2 DEF RunSlot
  <2> QED
    BY <2>1, <2>2
<1> QED
  BY <1>2 DEF d

(* The definition of RunSlots: what one more run of the slot makes of last.  *)
NextRun(last) == [data |-> RunSlot(last.data).data,
                  out |-> last.out \o RunSlot(last.data).out]
First(data) == [data |-> data, out |-> <<>>]

LEMMA SlotsExist ==
  ASSUME NEW n \in Nat, NEW data \in Seq(Byte)
  PROVE  \E h : h = [i \in 0 .. n |->
                       IF i = 0 THEN First(data) ELSE NextRun(h[i - 1])]
<1> DEFINE S == [data : Seq(Byte), out : Seq(Cut)]
           g == [x \in (1 .. n) \X S |-> NextRun(x[2])]
           first == First(data)
<1>1. ASSUME NEW r \in S PROVE NextRun(r) \in S
  <2>1. r.data \in Seq(Byte) /\ r.out \in Seq(Cut)
    OBVIOUS
  <2>2. RunSlot(r.data).data \in Seq(Byte) /\ RunSlot(r.data).out \in Seq(Cut)
    BY <2>1, SlotTyped
  <2>3. r.out \o RunSlot(r.data).out \in Seq(Cut)
    BY <2>1, <2>2, Joined
  <2> QED
    BY <2>2, <2>3 DEF NextRun
<1>2. first \in S
  BY EmptySeq DEF First
<1> HIDE DEF S, first
<1>3. g \in [(1 .. n) \X S -> S]
  BY <1>1
<1>4. \A i \in 1 .. n, r \in S : g[<<i, r>>] = NextRun(r)
  OBVIOUS
<1> HIDE DEF g
<1>5. PICK h : Steps(h, S, first, n, g)
  BY <1>2, <1>3, Recursion
<1>6. ASSUME NEW i \in 0 .. n
      PROVE  h[i] = IF i = 0 THEN First(data) ELSE NextRun(h[i - 1])
  <2>1. i # 0 => i \in 1 .. n /\ i - 1 \in 0 .. n
    OBVIOUS
  <2>2. i # 0 => h[i] = g[<<i, h[i - 1]>>] /\ h[i - 1] \in S
    BY <1>5, <2>1 DEF Steps
  <2> QED
    BY <1>4, <1>5, <2>1, <2>2 DEF Steps, first
<1>7. h = [i \in 0 .. n |-> h[i]]
  BY <1>5 DEF Steps
<1> QED
  BY <1>6, <1>7

(* However many connections there are, the bytes are read once.              *)
LEMMA ReadOnce ==
  ASSUME NEW n \in Nat \ {0}, NEW data \in Seq(Byte)
  PROVE  RunSlots(n, data) = RunSlot(data)
<1> DEFINE Def(h) == h = [i \in 0 .. n |->
                            IF i = 0 THEN First(data) ELSE NextRun(h[i - 1])]
           after == CHOOSE h : Def(h)
           run == RunSlot(data)
<1>1. RunSlots(n, data) = after[n]
  BY DEF RunSlots, First, NextRun
<1>2. \E h : Def(h)
  BY SlotsExist
<1>3. Def(after)
  BY <1>2
<1> HIDE DEF after
<1>4. after[0] = First(data)
  BY <1>3
<1>5. \A i \in 1 .. n : after[i] = NextRun(after[i - 1])
  BY <1>3
<1> HIDE DEF Def
<1>6. run = [data |-> run.data, out |-> run.out] /\ run.out \in Seq(Cut)
  BY SlotTyped
<1>7. NextRun(First(data)) = run
  <2>1. <<>> \o run.out = run.out
    BY <1>6, ConcatEmptySeq
  <2> QED
    BY <1>6, <2>1 DEF NextRun, First
<1>8. NextRun(run) = run
  <2>1. RunSlot(run.data) = [data |-> run.data, out |-> <<>>]
    BY SlotAgain
  <2>2. run.out \o <<>> = run.out
    BY <1>6, ConcatEmptySeq
  <2>3. RunSlot(run.data).data = run.data /\ RunSlot(run.data).out = <<>>
    BY <2>1
  <2> QED
    BY <1>6, <2>2, <2>3 DEF NextRun
<1> HIDE DEF run
<1> DEFINE T == {i \in Nat : i + 1 <= n => after[i + 1] = run}
<1>9. 0 \in T
  <2>1. 1 \in 1 .. n /\ 1 - 1 = 0 /\ 0 + 1 = 1
    OBVIOUS
  <2>2. after[1] = run
    BY <1>4, <1>5, <1>7, <2>1
  <2> QED
    BY <2>1, <2>2
<1>10. ASSUME NEW i \in Nat, i \in T PROVE i + 1 \in T
  <2> SUFFICES ASSUME (i + 1) + 1 <= n PROVE after[(i + 1) + 1] = run
    OBVIOUS
  <2>1. (i + 1) + 1 \in 1 .. n /\ ((i + 1) + 1) - 1 = i + 1 /\ i + 1 <= n
    OBVIOUS
  <2>2. after[i + 1] = run
    BY <1>10, <2>1
  <2> QED
    BY <1>5, <1>8, <2>1, <2>2
<1> HIDE DEF T
<1>11. Nat \subseteq T
  BY <1>9, <1>10, Induct
<1> DEFINE m == n - 1
<1>12. m \in Nat /\ m + 1 = n /\ m + 1 <= n
  OBVIOUS
<1> HIDE DEF m
<1>13. after[m + 1] = run
  BY <1>11, <1>12 DEF T
<1> QED
  BY <1>1, <1>12, <1>13 DEF run
-----------------------------------------------------------------------------
(* What has left the device: the whole packets of some frames, and the front *)
(* of the next one's.                                                        *)

End(fs, k) == Len(PacketsOf(fs, k))

(* The number of packets among the first x bytes.                            *)
Whole(fs, x, k) == /\ End(fs, k) <= x
                   /\ k < Len(fs) => End(fs, k + 1) > x

LEMMA Ends ==
  ASSUME NEW fs \in Seq(DeviceFrames)
  PROVE  /\ End(fs, 0) = 0
         /\ \A k \in 0 .. Len(fs) : End(fs, k) \in Nat
         /\ \A k \in 0 .. Len(fs) - 1 :
              /\ fs[k + 1] \in DeviceFrames
              /\ Packet[fs[k + 1]] \in Seq(Byte)
              /\ Len(Packet[fs[k + 1]]) >= 11
              /\ End(fs, k + 1) = End(fs, k) + Len(Packet[fs[k + 1]])
<1>1. End(fs, 0) = 0
  BY PacketsJoined, EmptySeq DEF End
<1>2. \A k \in 0 .. Len(fs) : End(fs, k) \in Nat
  BY PacketsJoined, LenProperties DEF End
<1>3. ASSUME NEW k \in 0 .. Len(fs) - 1
      PROVE  /\ fs[k + 1] \in DeviceFrames
             /\ Packet[fs[k + 1]] \in Seq(Byte)
             /\ Len(Packet[fs[k + 1]]) >= 11
             /\ End(fs, k + 1) = End(fs, k) + Len(Packet[fs[k + 1]])
  <2>1. k + 1 \in 1 .. Len(fs) /\ k \in 0 .. Len(fs)
    OBVIOUS
  <2> DEFINE f == fs[k + 1]
  <2>2. f \in DeviceFrames
    BY <2>1, ElementOfSeq
  <2>3. PacketsOf(fs, k + 1) = PacketsOf(fs, k) \o Packet[f]
    BY PacketsJoined
  <2>4. PacketsOf(fs, k) \in Seq(Byte)
    BY <2>1, PacketsJoined
  <2> HIDE DEF f
  <2>5. Packet[f] \in Seq(Byte) /\ Len(Packet[f]) >= 11
    BY <2>2, PacketLength
  <2>6. End(fs, k + 1) = End(fs, k) + Len(Packet[f])
    BY <2>3, <2>4, <2>5, Joined DEF End
  <2> QED
    BY <2>2, <2>5, <2>6 DEF f
<1> QED
  BY <1>1, <1>2, <1>3

(* There is such a number ...                                                *)
LEMMA WholeExists ==
  ASSUME NEW fs \in Seq(DeviceFrames), NEW x \in Nat
  PROVE  \E k \in 0 .. Len(fs) : Whole(fs, x, k)
<1> DEFINE n == Len(fs)
           T == {k \in 0 .. n : k < n => End(fs, k + 1) > x}
<1>1. n \in Nat
  OBVIOUS
<1> HIDE DEF n
<1>2. T \subseteq Nat /\ n \in T
  BY <1>1
<1>3. PICK k \in T : \A j \in T : k <= j
  BY <1>2, Least
<1>4. k \in 0 .. n /\ (k < n => End(fs, k + 1) > x)
  BY <1>3
<1>5. End(fs, k) <= x
  <2>1. CASE k = 0
    BY <2>1, Ends
  <2>2. CASE k # 0
    <3> DEFINE j == k - 1
    <3>1. j \in 0 .. n /\ j + 1 = k /\ j < n /\ ~(k <= j)
      BY <1>1, <1>4, <2>2
    <3> HIDE DEF j
    <3>2. j \notin T
      BY <1>3, <3>1
    <3>3. ~(End(fs, k) > x)
      BY <3>1, <3>2
    <3>4. End(fs, k) \in Nat
      BY <1>4, Ends DEF n
    <3> QED
      BY <3>3, <3>4
  <2> QED
    BY <2>1, <2>2
<1> QED
  BY <1>4, <1>5 DEF Whole, n
(* What of the next packet is in the buffer.                                 *)
Begun(fs, k, m) == IF k = Len(fs) THEN <<>> ELSE SubSeq(Packet[fs[k + 1]], 1, m)

LEMMA Fronts ==
  ASSUME NEW fs \in Seq(DeviceFrames)
  PROVE  \A i \in 0 .. Len(fs), j \in 0 .. Len(fs) :
           j <= i => /\ End(fs, j) <= End(fs, i)
                     /\ PacketsOf(fs, j) = SubSeq(PacketsOf(fs, i), 1, End(fs, j))
<1> DEFINE n == Len(fs)
           Good(i, j) == /\ End(fs, j) <= End(fs, i)
                         /\ PacketsOf(fs, j)
                              = SubSeq(PacketsOf(fs, i), 1, End(fs, j))
           T == {i \in Nat : i <= n => \A j \in 0 .. n : j <= i => Good(i, j)}
<1>1. n \in Nat
  OBVIOUS
<1>2. ASSUME NEW i \in 0 .. n PROVE Good(i, i)
  <2> DEFINE w == PacketsOf(fs, i)
  <2>1. w \in Seq(Byte) /\ End(fs, i) = Len(w) /\ Len(w) \in Nat
    BY PacketsJoined, LenProperties DEF End
  <2> HIDE DEF w
  <2>2. w = SubSeq(w, 1, Len(w)) /\ End(fs, i) <= End(fs, i)
    BY <2>1, SubSeqFull
  <2> QED
    BY <2>1, <2>2 DEF w
<1>3. 0 \in T
  <2>1. \A j \in 0 .. n : j <= 0 => j = 0
    BY <1>1
  <2>2. Good(0, 0)
    BY <1>1, <1>2
  <2> HIDE DEF Good
  <2> QED
    BY <2>1, <2>2
<1>4. ASSUME NEW i \in Nat, i \in T PROVE i + 1 \in T
  <2> SUFFICES ASSUME i + 1 <= n, NEW j \in 0 .. n, j <= i + 1
               PROVE  Good(i + 1, j)
    OBVIOUS
  <2>1. i \in 0 .. n - 1 /\ i \in 0 .. n /\ i + 1 \in 0 .. n
    BY <1>1
  <2>2. CASE j = i + 1
    BY <1>2, <2>1, <2>2
  <2>3. CASE j # i + 1
    <3> DEFINE w == PacketsOf(fs, i)
               p == Packet[fs[i + 1]]
               b == End(fs, j)
    <3>1. j <= i /\ i <= n
      BY <1>1, <2>3
    <3>2. Good(i, j)
      BY <1>4, <3>1
    <3>3. /\ w \in Seq(Byte) /\ p \in Seq(Byte) /\ b \in Nat
          /\ End(fs, i + 1) = End(fs, i) + Len(p) /\ Len(p) \in Nat
          /\ End(fs, i) \in Nat
          /\ PacketsOf(fs, i + 1) = w \o p
      BY <2>1, Ends, PacketsJoined, LenProperties
    <3>4. b <= End(fs, i) /\ PacketsOf(fs, j) = SubSeq(w, 1, b) /\ End(fs, i) = Len(w)
      BY <3>2 DEF End
    <3> HIDE DEF w, p, b
    <3>5. SubSeq(w \o p, 1, b) = SubSeq(w, 1, b)
      BY <3>3, <3>4, FrontOfFirst
    <3>6. b <= End(fs, i + 1)
      BY <3>3, <3>4
    <3> QED
      BY <3>3, <3>4, <3>5, <3>6 DEF b
  <2> QED
    BY <2>2, <2>3
<1> HIDE DEF T, n
<1>5. Nat \subseteq T
  BY <1>3, <1>4, Induct
<1>6. \A i \in 0 .. n, j \in 0 .. n : j <= i => Good(i, j)
  BY <1>1, <1>5 DEF T
<1> QED
  BY <1>6 DEF n

LEMMA Arrived ==
  ASSUME NEW fs \in Seq(DeviceFrames), NEW x \in Nat, x <= End(fs, Len(fs)),
         NEW k \in 0 .. Len(fs), Whole(fs, x, k)
  PROVE  SubSeq(PacketsOf(fs, Len(fs)), 1, x)
           = PacketsOf(fs, k) \o Begun(fs, k, x - End(fs, k))
<1> DEFINE n == Len(fs)
           w == PacketsOf(fs, n)
           u == PacketsOf(fs, k)
           b == x - End(fs, k)
<1>1. n \in Nat /\ n \in 0 .. n
  OBVIOUS
<1>2. /\ w \in Seq(Byte) /\ u \in Seq(Byte)
      /\ Len(w) = End(fs, n) /\ Len(w) \in Nat
      /\ Len(u) = End(fs, k) /\ Len(u) \in Nat
  BY <1>1, PacketsJoined, LenProperties DEF End
<1>3. x <= Len(w) /\ Len(u) <= x
  BY <1>2 DEF Whole
<1>4. b \in Nat /\ x = Len(u) + b
  BY <1>2, <1>3
<1>5. CASE k = n
  <2>1. w = u /\ x = Len(w)
    BY <1>2, <1>3, <1>5
  <2>2. SubSeq(w, 1, Len(w)) = w /\ u \o <<>> = u
    BY <1>2, SubSeqFull, ConcatEmptySeq
  <2>3. Begun(fs, k, b) = <<>>
    BY <1>5 DEF Begun
  <2> HIDE DEF w, u, b
  <2>4. SubSeq(w, 1, x) = u \o Begun(fs, k, b)
    BY <2>1, <2>2, <2>3
  <2> QED
    BY <2>4 DEF w, u, b
<1>6. CASE k # n
  <2> DEFINE p == Packet[fs[k + 1]]
             c == End(fs, k + 1)
             v == PacketsOf(fs, k + 1)
  <2>1. k \in 0 .. n - 1 /\ k + 1 \in 0 .. n /\ k + 1 <= n /\ k < n
    BY <1>6
  <2>2. /\ p \in Seq(Byte) /\ Len(p) \in Nat /\ c = End(fs, k) + Len(p)
        /\ v = u \o p /\ c \in Nat /\ x < c
    <3>1. p \in Seq(Byte) /\ c = End(fs, k) + Len(p)
      BY <2>1, Ends
    <3>2. v = u \o p
      BY <2>1, PacketsJoined
    <3>3. c > x
      BY <2>1 DEF Whole
    <3>4. Len(p) \in Nat
      BY <3>1, LenProperties
    <3>5. c \in Nat
      BY <2>1, Ends
    <3> HIDE DEF p, c, v, u
    <3>6. x < c
      BY <3>3, <3>5
    <3> QED
      BY <3>1, <3>2, <3>4, <3>5, <3>6
  <2>3. v = SubSeq(w, 1, c) /\ c <= Len(w)
    BY <1>1, <1>2, <2>1, Fronts
  <2>4. Begun(fs, k, b) = SubSeq(p, 1, b)
    BY <1>6 DEF Begun
  <2> HIDE DEF w, u, b, p, c, v
  <2>5. b <= Len(p)
    BY <1>2, <1>4, <2>2
  <2>6. SubSeq(u \o p, 1, x) = u \o SubSeq(p, 1, b)
    BY <1>2, <1>4, <2>2, <2>5, FrontOfJoined
  <2>7. SubSeq(v, 1, x) = SubSeq(w, 1, x)
    BY <1>2, <2>2, <2>3, FrontOfFront
  <2>8. SubSeq(w, 1, x) = u \o Begun(fs, k, b)
    BY <2>2, <2>4, <2>6, <2>7
  <2> QED
    BY <2>8 DEF w, u, b
<1> QED
  BY <1>5, <1>6
(* The two conjuncts of TypeOK and of Synced that speak of the frames fs on  *)
(* their way, off bytes of the first of which have left.                     *)
InPacket(fs, off) == IF fs = <<>> THEN off = 0
                     ELSE off \in 0 .. Len(Packet[Head(fs)]) - 1
Buffered(fs, off) == IF fs = <<>> THEN <<>>
                     ELSE SubSeq(Packet[Head(fs)], 1, off)

LEMMA BufferedIsPartial ==
  ASSUME NEW fs \in Seq(DeviceFrames), NEW off, InPacket(fs, off)
  PROVE  /\ Buffered(fs, off) \in Seq(Byte)
         /\ ~Complete(Buffered(fs, off)) /\ ~ReadsInFront(Buffered(fs, off))
<1>1. CASE fs = <<>>
  <2> DEFINE empty == <<>>
  <2>1. Buffered(fs, off) = empty
    BY <1>1 DEF Buffered
  <2>2. empty \in Seq(Byte) /\ Len(empty) = 0
    BY EmptySeq
  <2> HIDE DEF empty
  <2>3. ByteAt(empty, 0) = 0
    BY <2>2 DEF ByteAt
  <2>4. ~Accepted(empty)
    BY <2>3 DEF Accepted, P_SOF
  <2> QED
    BY <2>1, <2>2, <2>4 DEF Complete, ReadsInFront
<1>2. CASE fs # <<>>
  <2> DEFINE f == Head(fs)
  <2>1. f \in DeviceFrames
    BY <1>2, HeadTailProperties
  <2>2. off \in 0 .. Len(Packet[f]) - 1 /\ Buffered(fs, off) = SubSeq(Packet[f], 1, off)
    BY <1>2 DEF InPacket, Buffered
  <2> HIDE DEF f
  <2>3. Len(Packet[f]) \in Nat
    BY <2>1, PacketLength
  <2>4. off \in Nat /\ off < Len(Packet[f])
    BY <2>2, <2>3
  <2> QED
    BY <2>1, <2>2, <2>4, PartialPacket
<1> QED
  BY <1>1, <1>2

(* After the whole packets have left, the same holds of what is to come.     *)
LEMMA Remaining ==
  ASSUME NEW fs \in Seq(DeviceFrames), NEW x \in Nat, x <= End(fs, Len(fs)),
         NEW k \in 0 .. Len(fs), Whole(fs, x, k)
  PROVE  LET gs == SubSeq(fs, k + 1, Len(fs))
             off == x - End(fs, k)
         IN /\ gs \in Seq(DeviceFrames)
            /\ off \in Nat /\ InPacket(gs, off)
            /\ Buffered(gs, off) = Begun(fs, k, off)
<1> DEFINE n == Len(fs)
           gs == SubSeq(fs, k + 1, n)
           off == x - End(fs, k)
<1>1. n \in Nat /\ k \in Nat /\ k <= n
  OBVIOUS
<1>2. gs \in Seq(DeviceFrames) /\ Len(gs) = n - k /\ \A i \in 1 .. n - k : gs[i] = fs[k + i]
  BY <1>1, Part
<1>3. End(fs, k) \in Nat /\ End(fs, n) \in Nat /\ End(fs, k) <= x
  BY <1>1, Ends DEF Whole
<1>4. off \in Nat
  BY <1>3
<1> HIDE DEF gs
<1>5. CASE k = n
  <2>1. gs = <<>>
    BY <1>1, <1>2, <1>5
  <2>2. off = 0
    BY <1>3, <1>5
  <2> HIDE DEF off
  <2>3. InPacket(gs, off) /\ Buffered(gs, off) = Begun(fs, k, off)
    BY <1>5, <2>1, <2>2 DEF InPacket, Buffered, Begun
  <2> QED
    BY <1>2, <1>4, <2>3 DEF gs, off
<1>6. CASE k # n
  <2>1. k \in 0 .. n - 1 /\ 1 \in 1 .. n - k /\ k < n /\ Len(gs) # 0
    BY <1>1, <1>2, <1>6
  <2>2. gs # <<>>
    BY <2>1
  <2>3. Head(gs) = fs[k + 1]
    BY <1>2, <2>1, <2>2
  <2> DEFINE p == Packet[fs[k + 1]]
  <2>4. p \in Seq(Byte) /\ End(fs, k + 1) = End(fs, k) + Len(p) /\ End(fs, k + 1) > x
    BY <2>1, Ends DEF Whole
  <2>5. Len(p) \in Nat
    BY <2>4, LenProperties
  <2>6. Packet[Head(gs)] = p
    BY <2>3
  <2> HIDE DEF p
  <2>7. off \in 0 .. Len(p) - 1
    BY <1>3, <2>4, <2>5
  <2> HIDE DEF off
  <2>8. InPacket(gs, off)
    BY <2>2, <2>6, <2>7 DEF InPacket
  <2>9. Buffered(gs, off) = Begun(fs, k, off)
    BY <1>6, <2>2, <2>6 DEF Buffered, Begun, p
  <2> QED
    BY <1>2, <1>4, <2>8, <2>9 DEF gs, off
<1> QED
  BY <1>5, <1>6

(* The buffer and the next n bytes of the wire are the wire's first bytes.   *)
LEMMA FrontOfWire ==
  ASSUME NEW fs \in Seq(DeviceFrames), NEW off \in Nat, NEW n \in Nat,
         InPacket(fs, off), off + n <= End(fs, Len(fs))
  PROVE  LET w == PacketsOf(fs, Len(fs))
         IN /\ SubSeq(w, off + 1, Len(w)) \in Seq(Byte)
            /\ Len(SubSeq(w, off + 1, Len(w))) = Len(w) - off
            /\ Buffered(fs, off) \o SubSeq(SubSeq(w, off + 1, Len(w)), 1, n)
                 = SubSeq(w, 1, off + n)
<1> DEFINE w == PacketsOf(fs, Len(fs))
           l == Len(w)
           flight == SubSeq(w, off + 1, l)
           t == SubSeq(flight, 1, n)
           x == off + n
<1>1. /\ w \in Seq(Byte) /\ l \in Nat /\ Len(fs) \in Nat /\ x \in Nat
      /\ off <= l /\ x <= l /\ n <= l - off /\ l - off \in Nat /\ off <= x
  <2>1. w \in Seq(Byte) /\ Len(fs) \in Nat
    BY PacketsJoined
  <2>2. l \in Nat /\ l = End(fs, Len(fs))
    BY <2>1, LenProperties DEF End
  <2> HIDE DEF l, w
  <2> QED
    BY <2>1, <2>2
<1>2. Buffered(fs, off) = SubSeq(w, 1, off)
  <2>1. CASE fs = <<>>
    <3>1. off = 0 /\ Buffered(fs, off) = <<>>
      BY <2>1 DEF InPacket, Buffered
    <3>2. SubSeq(w, 1, 0) = <<>>
      BY SubSeqEmpty
    <3> QED
      BY <3>1, <3>2
  <2>2. CASE fs # <<>>
    <3> DEFINE p == Packet[fs[1]]
               c == End(fs, 1)
    <3>1. Head(fs) = fs[1] /\ 0 \in 0 .. Len(fs) - 1 /\ 1 \in 0 .. Len(fs) /\ 0 + 1 = 1
      BY <1>1, <2>2
    <3>2. /\ PacketsOf(fs, 1) = <<>> \o p /\ p \in Seq(Byte)
          /\ End(fs, 0) = 0 /\ c = End(fs, 0) + Len(p)
      BY <3>1, PacketsJoined, Ends
    <3>3. PacketsOf(fs, 1) = p /\ Len(p) \in Nat /\ c = Len(p)
      BY <3>2, ConcatEmptySeq, LenProperties
    <3>4. p = SubSeq(w, 1, c) /\ c <= l
      <4>1. Len(fs) \in 0 .. Len(fs) /\ 1 <= Len(fs)
        BY <1>1, <3>1
      <4>2. /\ PacketsOf(fs, 1) = SubSeq(w, 1, End(fs, 1))
            /\ End(fs, 1) <= End(fs, Len(fs))
        BY <3>1, <4>1, Fronts
      <4> QED
        BY <3>3, <4>2 DEF End
    <3>5. off < c /\ Buffered(fs, off) = SubSeq(p, 1, off)
      BY <2>2, <3>1, <3>3 DEF InPacket, Buffered
    <3> HIDE DEF w, l, p, c
    <3>6. c \in Nat /\ off <= c /\ c <= Len(w)
      BY <3>3, <3>4, <3>5 DEF l
    <3>7. SubSeq(SubSeq(w, 1, c), 1, off) = SubSeq(w, 1, off)
      BY <1>1, <3>6, FrontOfFront
    <3> QED
      BY <3>4, <3>5, <3>7
  <2> QED
    BY <2>1, <2>2
<1> HIDE DEF w
<1>3. /\ flight \in Seq(Byte) /\ Len(flight) = l - off
      /\ \A i \in 1 .. l - off : flight[i] = w[off + i]
  BY <1>1, Part
<1>4. t \in Seq(Byte) /\ Len(t) = n /\ \A i \in 1 .. n : t[i] = flight[i]
  <2>1. flight \in Seq(Byte) /\ n <= Len(flight)
    BY <1>1, <1>3
  <2> HIDE DEF flight, l
  <2> QED
    BY <2>1, FirstPart
<1> HIDE DEF flight, t
<1>5. ASSUME NEW i \in 1 .. n PROVE w[off + i] = t[i]
  <2>1. i \in 1 .. l - off
    BY <1>1
  <2>2. t[i] = flight[i]
    BY <1>4
  <2> QED
    BY <1>3, <2>1, <2>2
<1>6. SubSeq(w, off + 1, x) = t
  <2>1. x = off + Len(t)
    BY <1>4
  <2>2. off + Len(t) <= Len(w)
    BY <1>1, <1>4
  <2>3. \A i \in 1 .. Len(t) : w[off + i] = t[i]
    BY <1>4, <1>5
  <2>4. SubSeq(w, off + 1, off + Len(t)) = t
    BY <1>1, <1>4, <2>2, <2>3, Found
  <2> QED
    BY <2>1, <2>4
<1>7. SubSeq(w, 1, off) \o SubSeq(w, off + 1, x) = SubSeq(w, 1, x)
  <2> DEFINE m == 1
  <2>1. m \in 1 .. Len(w) + 1 /\ off \in m - 1 .. Len(w) /\ x \in off .. Len(w)
    BY <1>1
  <2> HIDE DEF m, x
  <2>2. SubSeq(w, m, off) \o SubSeq(w, off + 1, x) = SubSeq(w, m, x)
    BY <1>1, <2>1, ConcatAdjacentSubSeq
  <2> QED
    BY <2>2 DEF m
<1>8. Buffered(fs, off) \o t = SubSeq(w, 1, x)
  BY <1>2, <1>6, <1>7
<1> QED
  BY <1>3, <1>8 DEF w, l, flight, t, x
(* With the buffer in step, a run of the slot hands over the frames that     *)
(* have arrived in full, as they were sent, and keeps what has arrived of    *)
(* the next one.                                                             *)
LEMMA ReadInStep ==
  ASSUME NEW fs \in Seq(DeviceFrames), NEW x \in Nat, x <= End(fs, Len(fs)),
         NEW k \in 0 .. Len(fs), Whole(fs, x, k)
  PROVE  RunSlot(SubSeq(PacketsOf(fs, Len(fs)), 1, x))
           = [data |-> Begun(fs, k, x - End(fs, k)), out |-> SubSeq(fs, 1, k)]
<1> DEFINE data == SubSeq(PacketsOf(fs, Len(fs)), 1, x)
           rest == Begun(fs, k, x - End(fs, k))
           before == PacketsOf(fs, k)
           sent == SubSeq(fs, 1, k)
<1>1. data = before \o rest
  BY Arrived
<1>2. rest \in Seq(Byte) /\ ~Complete(rest)
  <2> DEFINE gs == SubSeq(fs, k + 1, Len(fs))
             off == x - End(fs, k)
  <2>1. gs \in Seq(DeviceFrames) /\ InPacket(gs, off) /\ Buffered(gs, off) = rest
    BY Remaining
  <2> HIDE DEF gs, off, rest
  <2> QED
    BY <2>1, BufferedIsPartial
<1>3. before \in Seq(Byte)
  BY PacketsJoined
<1>4. CutOff(fs, k, rest)
  BY <1>2, CutsPackets
<1>5. CutPackets[rest] = [data |-> rest, out |-> <<>>]
  BY <1>2, CutNothing
<1>6. sent \in Seq(DeviceFrames) /\ sent \o <<>> = sent
  <2>1. sent \in Seq(DeviceFrames)
    BY AnyPart
  <2> HIDE DEF sent
  <2> QED
    BY <2>1, ConcatEmptySeq
<1>7. k = 0 => before = <<>> /\ sent = <<>>
  BY PacketsJoined, SubSeqEmpty
<1>8. k # 0 => Len(before) > P_MIN_SIZE
  <2> SUFFICES ASSUME k # 0 PROVE End(fs, k) > P_MIN_SIZE
    BY DEF End
  <2> DEFINE j == k - 1
  <2>1. j \in 0 .. Len(fs) - 1 /\ j \in 0 .. Len(fs) /\ j + 1 = k
    OBVIOUS
  <2> DEFINE l == Len(Packet[fs[j + 1]])
  <2>2. /\ End(fs, j + 1) = End(fs, j) + l /\ l >= 11 /\ End(fs, j) \in Nat
        /\ Packet[fs[j + 1]] \in Seq(Byte)
    BY <2>1, Ends
  <2>3. l \in Nat
    BY <2>2, LenProperties
  <2> HIDE DEF j, l
  <2>4. End(fs, j + 1) > 5
    BY <2>2, <2>3
  <2> QED
    BY <2>1, <2>4 DEF P_MIN_SIZE
<1>9. CutPackets[data].data = rest /\ CutPackets[data].out = sent
  <2>1. /\ CutPackets[before \o rest].data = CutPackets[rest].data
        /\ CutPackets[before \o rest].out = sent \o CutPackets[rest].out
    BY <1>4 DEF CutOff
  <2> HIDE DEF data, rest, before, sent
  <2>2. CutPackets[rest].data = rest /\ CutPackets[rest].out = <<>>
    BY <1>5
  <2> QED
    BY <1>1, <1>6, <2>1, <2>2
<1>10. data \in Seq(Byte) /\ Len(data) = Len(before) + Len(rest)
  <2> HIDE DEF data, before, rest
  <2> QED
    BY <1>1, <1>2, <1>3, Joined
<1>11. CutPackets[data] = [data |-> rest, out |-> sent]
  <2>1. CutPackets[data] = [data |-> CutPackets[data].data,
                            out |-> CutPackets[data].out]
    BY <1>10, CutTyped
  <2> QED
    BY <1>9, <2>1
<1> HIDE DEF data, rest, before, sent
<1>12. CASE k = 0
  <2>1. data = rest
    BY <1>1, <1>2, <1>7, <1>12, ConcatEmptySeq
  <2>2. RunSlot(data) = [data |-> rest, out |-> sent]
    BY <1>7, <1>11, <1>12, <2>1 DEF RunSlot
  <2> QED
    BY <2>2 DEF data, rest, sent
<1>13. CASE k # 0
  <2>1. Len(before) \in Nat /\ Len(rest) \in Nat
    BY <1>2, <1>3, LenProperties
  <2>2. Len(data) > P_MIN_SIZE
    BY <1>8, <1>10, <1>13, <2>1 DEF P_MIN_SIZE
  <2>3. RunSlot(data) = [data |-> rest, out |-> sent]
    BY <1>11, <2>2 DEF RunSlot
  <2> QED
    BY <2>3 DEF data, rest, sent
<1> QED
  BY <1>12, <1>13

(* What Transmit leaves to be sent when x bytes, and k packets, have left.   *)
Leaves(x, k) == /\ Whole(toSend, x, k)
                /\ toSend' = SubSeq(toSend, k + 1, Len(toSend))
                /\ offset' = x - End(toSend, k)

LEMMA Transmitted ==
  ASSUME toSend \in Seq(DeviceFrames), offset \in Nat, NEW n \in Nat, Transmit(n)
  PROVE  \E k \in 0 .. Len(toSend) : Leaves(offset + n, k)
<1> DEFINE k == CHOOSE i \in 0 .. Len(toSend) : Whole(toSend, offset + n, i)
<1>1. offset + n \in Nat
  OBVIOUS
<1>2. \E i \in 0 .. Len(toSend) : Whole(toSend, offset + n, i)
  BY <1>1, WholeExists
<1>3. k \in 0 .. Len(toSend) /\ Whole(toSend, offset + n, k)
  BY <1>2
<1>4. /\ toSend' = SubSeq(toSend, k + 1, Len(toSend))
      /\ offset' = offset + n - End(toSend, k)
  BY DEF Transmit, Whole, End
<1> HIDE DEF k
<1>5. Leaves(offset + n, k)
  <2> DEFINE x == offset + n
  <2>10. Whole(toSend, x, k)
    BY <1>3
  <2>11. toSend' = SubSeq(toSend, k + 1, Len(toSend))
    BY <1>4
  <2>12. offset' = x - End(toSend, k)
    <3>1. End(toSend, k) \in Nat
      BY <1>3, Ends
    <3> QED
      BY <1>4, <3>1
  <2> HIDE DEF x
  <2>1. /\ Whole(toSend, x, k) /\ toSend' = SubSeq(toSend, k + 1, Len(toSend))
        /\ offset' = x - End(toSend, k)
    BY <2>10, <2>11, <2>12
  <2>2. Leaves(x, k)
    BY <2>1 DEF Leaves
  <2> QED
    BY <2>2 DEF x
<1> QED
  BY <1>3, <1>5

LEMMA OffsetFits ==
  ASSUME NEW fs \in Seq(DeviceFrames), NEW off, InPacket(fs, off)
  PROVE  off \in Nat /\ off <= End(fs, Len(fs))
<1>1. CASE fs = <<>>
  <2>1. off = 0 /\ Len(fs) = 0
    BY <1>1 DEF InPacket
  <2>2. End(fs, 0) = 0
    BY Ends
  <2> QED
    BY <2>1, <2>2
<1>2. CASE fs # <<>>
  <2> DEFINE p == Packet[Head(fs)]
             n == Len(fs)
  <2>1. /\ n \in Nat /\ Head(fs) = fs[0 + 1] /\ 0 \in 0 .. n - 1
        /\ 0 + 1 = 1 /\ 1 \in 0 .. n /\ n \in 0 .. n /\ 1 <= n
    BY <1>2
  <2>2. p \in Seq(Byte) /\ End(fs, 1) = End(fs, 0) + Len(p) /\ End(fs, 0) = 0
    BY <2>1, Ends
  <2>3. Len(p) \in Nat
    BY <2>2, LenProperties
  <2>4. End(fs, 1) <= End(fs, n) /\ End(fs, n) \in Nat
    BY <2>1, Fronts, Ends
  <2>5. off \in 0 .. Len(p) - 1
    BY <1>2 DEF InPacket
  <2> HIDE DEF p, n
  <2>6. off \in Nat /\ off <= End(fs, n)
    BY <2>2, <2>3, <2>4, <2>5
  <2> QED
    BY <2>6 DEF n
<1> QED
  BY <1>1, <1>2

LEMMA OneMoreFrame ==
  ASSUME NEW fs \in Seq(DeviceFrames), NEW off, InPacket(fs, off),
         NEW f \in DeviceFrames
  PROVE  /\ InPacket(Append(fs, f), off)
         /\ Buffered(Append(fs, f), off) = Buffered(fs, off)
<1> DEFINE gs == Append(fs, f)
<1>1. gs # <<>> /\ Head(gs) = IF fs = <<>> THEN f ELSE Head(fs)
  BY AppendProperties, HeadTailAppend
<1> HIDE DEF gs
<1>2. CASE fs = <<>>
  <2>1. off = 0 /\ Buffered(fs, off) = <<>>
    BY <1>2 DEF InPacket, Buffered
  <2>2. Len(Packet[f]) \in Nat /\ Len(Packet[f]) >= 11
    BY PacketLength
  <2>3. 0 \in 0 .. Len(Packet[f]) - 1
    BY <2>2
  <2>4. SubSeq(Packet[f], 1, 0) = <<>>
    BY SubSeqEmpty
  <2>5. Head(gs) = f
    BY <1>1, <1>2
  <2>6. InPacket(gs, off)
    BY <1>1, <2>1, <2>3, <2>5 DEF InPacket
  <2>7. Buffered(gs, off) = <<>>
    BY <1>1, <2>1, <2>4, <2>5 DEF Buffered
  <2> QED
    BY <2>1, <2>6, <2>7 DEF gs
<1>3. CASE fs # <<>>
  <2>1. Head(gs) = Head(fs)
    BY <1>1, <1>3
  <2>2. InPacket(gs, off) /\ Buffered(gs, off) = Buffered(fs, off)
    BY <1>1, <1>3, <2>1 DEF InPacket, Buffered
  <2> QED
    BY <2>2 DEF gs
<1> QED
  BY <1>2, <1>3

-----------------------------------------------------------------------------
(* The inductive invariant: the two ends agree until something is lost or    *)
(* thrown away, and readData spins only on a buffer that makes it read in    *)
(* front of the bytes.                                                       *)
IInv == /\ TypeOK
        /\ mRecvData \in Seq(Byte)
        /\ delivered \in Seq(Cut)
        /\ faults = 0 => Synced
        /\ hung => ReadsInFront(mRecvData)

(* The same, in the terms of the lemmas.                                     *)
Inv == /\ portOpen \in BOOLEAN /\ hung \in BOOLEAN
       /\ connections \in 0 .. MaxOpens
       /\ losses \in 0 .. MaxLosses /\ clears \in 0 .. MaxClears
       /\ nSent \in 0 .. MaxSent
       /\ toSend \in Seq(DeviceFrames)
       /\ InPacket(toSend, offset)
       /\ portOpen \/ delivered # <<>> => connections > 0
       /\ mRecvData \in Seq(Byte)
       /\ delivered \in Seq(Cut)
       /\ losses + clears = 0 => mRecvData = Buffered(toSend, offset)
       /\ hung => ReadsInFront(mRecvData)

LEMMA Shape ==
  /\ Synced <=> mRecvData = Buffered(toSend, offset)
  /\ IInv <=> Inv
<1>1. Synced <=> mRecvData = Buffered(toSend, offset)
  BY DEF Synced, Buffered
<1>2. mRecvData \in Seq(Byte) =>
        \A i \in DOMAIN mRecvData : mRecvData[i] \in 0 .. 255
  BY LenProperties, ElementOfSeq DEF Byte
<1> QED
  BY <1>1, <1>2 DEF IInv, Inv, TypeOK, InPacket, faults

LEMMA InitIInv == Init => IInv
<1> SUFFICES ASSUME Init PROVE IInv
  OBVIOUS
<1>1. <<>> \in Seq(DeviceFrames) /\ <<>> \in Seq(Byte) /\ <<>> \in Seq(Cut)
  BY EmptySeq
<1>2. InPacket(toSend, offset) /\ Buffered(toSend, offset) = <<>>
  BY DEF Init, InPacket, Buffered
<1>3. /\ portOpen = FALSE /\ connections = 0 /\ mRecvData = <<>>
      /\ toSend = <<>> /\ nSent = 0 /\ delivered = <<>> /\ losses = 0
      /\ clears = 0 /\ hung = FALSE
  BY DEF Init
<1>4. /\ 0 \in 0 .. MaxOpens /\ 0 \in 0 .. MaxLosses /\ 0 \in 0 .. MaxClears
      /\ 0 \in 0 .. MaxSent
  BY BoundsAssumption
<1> QED
  BY <1>1, <1>2, <1>3, <1>4, Shape DEF Inv
(* n bytes have left the device, to be read or to be lost.                   *)
LEMMA Moved ==
  ASSUME IInv, NEW n \in 1 .. Len(InFlight), Transmit(n)
  PROVE  /\ offset \in Nat /\ offset + n \in Nat
         /\ offset + n <= End(toSend, Len(toSend))
         /\ toSend' \in Seq(DeviceFrames) /\ InPacket(toSend', offset')
         /\ \E k \in 0 .. Len(toSend) :
              /\ Leaves(offset + n, k)
              /\ Buffered(toSend', offset') = Begun(toSend, k, offset')
<1> DEFINE w == PacketsOf(toSend, Len(toSend))
           x == offset + n
<1>1. toSend \in Seq(DeviceFrames) /\ InPacket(toSend, offset)
  BY Shape DEF Inv
<1>2. offset \in Nat /\ offset <= End(toSend, Len(toSend))
  BY <1>1, OffsetFits
<1>3. Len(InFlight) = End(toSend, Len(toSend)) - offset
  <2> DEFINE zero == 0
  <2>1. zero \in Nat /\ offset + zero <= End(toSend, Len(toSend))
    BY <1>2
  <2> HIDE DEF zero
  <2>2. Len(SubSeq(w, offset + 1, Len(w))) = Len(w) - offset
    BY <1>1, <1>2, <2>1, FrontOfWire
  <2> QED
    BY <2>2 DEF InFlight, End
<1>4. End(toSend, Len(toSend)) \in Nat
  <2>1. Len(toSend) \in 0 .. Len(toSend)
    BY <1>1
  <2> QED
    BY <1>1, <2>1, Ends
<1>5. n \in Nat /\ x \in Nat /\ x <= End(toSend, Len(toSend))
  <2> DEFINE e == End(toSend, Len(toSend))
             l == Len(InFlight)
  <2>1. n \in 1 .. l /\ l = e - offset /\ e \in Nat
    BY <1>3, <1>4
  <2> HIDE DEF e, l
  <2>2. n \in Nat /\ offset + n \in Nat /\ offset + n <= e
    BY <1>2, <2>1
  <2> QED
    BY <2>2 DEF e
<1>50. \E k \in 0 .. Len(toSend) : Leaves(x, k)
  BY <1>1, <1>2, <1>5, Transmitted
<1> HIDE DEF x
<1>6. PICK k \in 0 .. Len(toSend) : Leaves(x, k)
  BY <1>50
<1>7. /\ toSend' \in Seq(DeviceFrames) /\ InPacket(toSend', offset')
      /\ Buffered(toSend', offset') = Begun(toSend, k, offset')
  <2>1. LET gs == SubSeq(toSend, k + 1, Len(toSend))
            off == x - End(toSend, k)
        IN /\ gs \in Seq(DeviceFrames)
           /\ InPacket(gs, off)
           /\ Buffered(gs, off) = Begun(toSend, k, off)
    BY <1>1, <1>5, <1>6, Remaining DEF Leaves
  <2> QED
    BY <1>6, <2>1 DEF Leaves
<1> QED
  BY <1>2, <1>5, <1>6, <1>7 DEF x

(* What the slot finds after n bytes have come in.                           *)
NewData(n) == mRecvData \o SubSeq(InFlight, 1, n)

LEMMA NewBytes ==
  ASSUME IInv, NEW n \in 1 .. Len(InFlight)
  PROVE  /\ NewData(n) \in Seq(Byte)
         /\ Len(NewData(n)) \in Nat /\ Len(NewData(n)) >= Len(mRecvData)
         /\ \A i \in 1 .. Len(mRecvData) : NewData(n)[i] = mRecvData[i]
<1> DEFINE w == PacketsOf(toSend, Len(toSend))
           new == SubSeq(InFlight, 1, n)
<1>1. toSend \in Seq(DeviceFrames) /\ InPacket(toSend, offset)
  BY Shape DEF Inv
<1>2. mRecvData \in Seq(Byte)
  BY Shape DEF Inv
<1>3. offset \in Nat /\ offset <= End(toSend, Len(toSend))
  BY <1>1, OffsetFits
<1>4. InFlight \in Seq(Byte)
  <2> DEFINE zero == 0
  <2>1. zero \in Nat /\ offset + zero <= End(toSend, Len(toSend))
    BY <1>3
  <2> HIDE DEF zero
  <2>2. SubSeq(w, offset + 1, Len(w)) \in Seq(Byte)
    BY <1>1, <1>3, <2>1, FrontOfWire
  <2> QED
    BY <2>2 DEF InFlight
<1>5. new \in Seq(Byte)
  <2>1. n \in Nat /\ n <= Len(InFlight)
    BY <1>4
  <2> QED
    BY <1>4, <2>1, FirstPart
<1> HIDE DEF new
<1>6. /\ mRecvData \o new \in Seq(Byte)
      /\ Len(mRecvData \o new) = Len(mRecvData) + Len(new)
      /\ \A i \in 1 .. Len(mRecvData) : (mRecvData \o new)[i] = mRecvData[i]
  BY <1>2, <1>5, Joined
<1>7. Len(mRecvData) \in Nat /\ Len(new) \in Nat
  BY <1>2, <1>5, LenProperties
<1>8. NewData(n) = mRecvData \o new
  BY DEF NewData, new
<1> HIDE DEF NewData
<1> QED
  BY <1>6, <1>7, <1>8

LEMMA ReadStep ==
  ASSUME IInv, NEW n \in 1 .. Len(InFlight), ReadData(n)
  PROVE  LET run == RunSlot(NewData(n))
         IN /\ portOpen /\ ~hung /\ Transmit(n)
            /\ mRecvData' = run.data
            /\ run.data \in Seq(Byte) /\ run.out \in Seq(Cut)
            /\ \/ delivered' = delivered \o run.out /\ hung' = hung
               \/ /\ ReadsInFront(run.data) /\ hung' = TRUE
                  /\ delivered' = delivered \o Append(run.out, FrameOf(run.data))
            /\ UNCHANGED <<portOpen, connections, nSent, losses, clears>>
<1> DEFINE data == NewData(n)
           run == RunSlot(data)
<1>1. ~hung /\ portOpen /\ Transmit(n)
  BY DEF ReadData
<1>2. connections \in Nat \ {0}
  <2>1. connections \in 0 .. MaxOpens /\ connections > 0
    BY <1>1, Shape DEF Inv
  <2> QED
    BY <2>1, BoundsAssumption
<1>3. data \in Seq(Byte)
  BY NewBytes
<1>4. run.data \in Seq(Byte) /\ run.out \in Seq(Cut)
  BY <1>3, SlotTyped
<1>5. RunSlots(connections, mRecvData \o SubSeq(InFlight, 1, n)) = run
  <2>1. data = mRecvData \o SubSeq(InFlight, 1, n)
    BY DEF NewData
  <2> HIDE DEF data
  <2>2. RunSlots(connections, data) = run
    BY <1>2, <1>3, ReadOnce
  <2> QED
    BY <2>1, <2>2
<1>6. /\ mRecvData' = run.data
      /\ \/ delivered' = delivered \o run.out /\ hung' = hung
         \/ /\ ReadsInFront(run.data) /\ hung' = TRUE
            /\ delivered' = delivered \o Append(run.out, FrameOf(run.data))
  <2> HIDE DEF data, run
  <2> QED
    BY <1>5 DEF ReadData
<1>7. UNCHANGED <<portOpen, connections, nSent, losses, clears>>
  BY DEF ReadData
<1> HIDE DEF run
<1> QED
  BY <1>1, <1>4, <1>6, <1>7 DEF run, data
LEMMA ShapePrimed ==
  /\ Synced' <=> (mRecvData = Buffered(toSend, offset))'
  /\ IInv' <=> Inv'
  BY Shape, PTL

LEMMA OpenKeeps ==
  ASSUME Inv, SerialOpen
  PROVE  Inv'
<1>1. connections \in 0 .. MaxOpens /\ connections + 1 \in 0 .. MaxOpens
      /\ connections + 1 > 0
  BY BoundsAssumption DEF Inv, SerialOpen
<1> QED
  BY <1>1 DEF Inv, SerialOpen

LEMMA CloseKeeps ==
  ASSUME Inv, SerialClose
  PROVE  Inv'
  BY DEF Inv, SerialClose

LEMMA SendKeeps ==
  ASSUME Inv, DeviceSend
  PROVE  /\ Inv'
         /\ Buffered(toSend', offset') = Buffered(toSend, offset)
<1>1. PICK f \in DeviceFrames : toSend' = Append(toSend, f)
  BY DEF DeviceSend
<1>2. toSend \in Seq(DeviceFrames) /\ InPacket(toSend, offset)
  BY DEF Inv
<1>3. toSend' \in Seq(DeviceFrames)
  BY <1>1, <1>2, AppendProperties
<1>4. /\ InPacket(Append(toSend, f), offset)
      /\ Buffered(Append(toSend, f), offset) = Buffered(toSend, offset)
  BY <1>2, OneMoreFrame
<1>5. offset' = offset
  BY DEF DeviceSend
<1>6. /\ InPacket(toSend', offset')
      /\ Buffered(toSend', offset') = Buffered(toSend, offset)
  BY <1>1, <1>4, <1>5
<1>7. nSent' \in 0 .. MaxSent
  BY BoundsAssumption DEF Inv, DeviceSend
<1> QED
  BY <1>3, <1>6, <1>7 DEF Inv, DeviceSend

LEMMA ClearKeeps ==
  ASSUME Inv, Clear
  PROVE  Inv'
<1>1. clears' \in 0 .. MaxClears /\ losses' + clears' # 0
  BY BoundsAssumption DEF Inv, Clear
<1>2. mRecvData' \in Seq(Byte)
  BY EmptySeq DEF Clear
<1> QED
  BY <1>1, <1>2 DEF Inv, Clear

LEMMA LoseKeeps ==
  ASSUME Inv, NEW n \in 1 .. Len(InFlight), Lose(n)
  PROVE  Inv'
<1>1. toSend' \in Seq(DeviceFrames) /\ InPacket(toSend', offset')
  BY Moved, Shape DEF Lose
<1>2. losses' \in 0 .. MaxLosses /\ losses' + clears' # 0
  BY BoundsAssumption DEF Inv, Lose
<1> QED
  BY <1>1, <1>2 DEF Inv, Lose

(* In step, the slot hands over whole frames, the buffer stays in step, and  *)
(* nothing is read in front of it.                                           *)
LEMMA ReadSynced ==
  ASSUME Inv, mRecvData = Buffered(toSend, offset),
         NEW n \in 1 .. Len(InFlight), ReadData(n)
  PROVE  /\ mRecvData' = Buffered(toSend', offset')
         /\ hung' = hung
         /\ \E k \in 0 .. Len(toSend) :
              /\ delivered' = delivered \o SubSeq(toSend, 1, k)
              /\ toSend' = SubSeq(toSend, k + 1, Len(toSend))
<1> DEFINE x == offset + n
           data == NewData(n)
           run == RunSlot(data)
<1>1. IInv
  BY Shape
<1>2. Transmit(n)
  BY DEF ReadData
<1>3. /\ offset \in Nat /\ x \in Nat /\ x <= End(toSend, Len(toSend))
      /\ toSend' \in Seq(DeviceFrames) /\ InPacket(toSend', offset')
      /\ \E k \in 0 .. Len(toSend) :
           Leaves(x, k) /\ Buffered(toSend', offset') = Begun(toSend, k, offset')
  BY <1>1, <1>2, Moved
<1>4. toSend \in Seq(DeviceFrames) /\ InPacket(toSend, offset)
  BY DEF Inv
<1>5. data = SubSeq(PacketsOf(toSend, Len(toSend)), 1, x)
  <2>1. n \in Nat
    OBVIOUS
  <2>2. Buffered(toSend, offset) \o SubSeq(InFlight, 1, n)
          = SubSeq(PacketsOf(toSend, Len(toSend)), 1, offset + n)
    BY <1>3, <1>4, <2>1, FrontOfWire DEF InFlight
  <2> QED
    BY <2>2 DEF NewData
<1> HIDE DEF x
<1>6. PICK k \in 0 .. Len(toSend) :
        Leaves(x, k) /\ Buffered(toSend', offset') = Begun(toSend, k, offset')
  BY <1>3
<1>7. RunSlot(SubSeq(PacketsOf(toSend, Len(toSend)), 1, x))
        = [data |-> Begun(toSend, k, x - End(toSend, k)),
           out |-> SubSeq(toSend, 1, k)]
  BY <1>3, <1>4, <1>6, ReadInStep DEF Leaves
<1>8. /\ run.data = Buffered(toSend', offset') /\ run.out = SubSeq(toSend, 1, k)
      /\ toSend' = SubSeq(toSend, k + 1, Len(toSend))
  BY <1>5, <1>6, <1>7 DEF Leaves
<1>9. /\ mRecvData' = run.data
      /\ \/ delivered' = delivered \o run.out /\ hung' = hung
         \/ ReadsInFront(run.data)
  BY <1>1, ReadStep
<1> HIDE DEF run
<1>10. ~ReadsInFront(Buffered(toSend', offset'))
  BY <1>3, BufferedIsPartial
<1> QED
  BY <1>8, <1>9, <1>10

LEMMA ReadKeeps ==
  ASSUME Inv, NEW n \in 1 .. Len(InFlight), ReadData(n)
  PROVE  Inv'
<1> DEFINE run == RunSlot(NewData(n))
<1>1. IInv
  BY Shape
<1>2. Transmit(n)
  BY DEF ReadData
<1>3. toSend' \in Seq(DeviceFrames) /\ InPacket(toSend', offset')
  BY <1>1, <1>2, Moved
<1>4. /\ portOpen /\ ~hung
      /\ mRecvData' = run.data
      /\ run.data \in Seq(Byte) /\ run.out \in Seq(Cut)
      /\ \/ delivered' = delivered \o run.out /\ hung' = hung
         \/ /\ ReadsInFront(run.data) /\ hung' = TRUE
            /\ delivered' = delivered \o Append(run.out, FrameOf(run.data))
      /\ UNCHANGED <<portOpen, connections, nSent, losses, clears>>
  BY <1>1, ReadStep
<1>5. delivered \in Seq(Cut)
  BY DEF Inv
<1>6. delivered \o run.out \in Seq(Cut)
  <2> DEFINE out == run.out
  <2>1. out \in Seq(Cut)
    BY <1>4
  <2> HIDE DEF out
  <2>2. delivered \o out \in Seq(Cut)
    BY <1>5, <2>1, Joined
  <2> QED
    BY <2>2 DEF out
<1>7. delivered \o Append(run.out, FrameOf(run.data)) \in Seq(Cut)
  <2> DEFINE f == FrameOf(run.data)
             out == run.out
             more == Append(out, f)
  <2>1. f \in Cut /\ out \in Seq(Cut)
    BY <1>4 DEF Cut
  <2> HIDE DEF f, out
  <2>2. more \in Seq(Cut)
    BY <2>1, AppendProperties
  <2> HIDE DEF more
  <2>3. delivered \o more \in Seq(Cut)
    BY <1>5, <2>2, Joined
  <2> QED
    BY <2>3 DEF more, out, f
<1>8. (losses + clears = 0 => mRecvData = Buffered(toSend, offset))'
  <2> SUFFICES ASSUME losses + clears = 0
               PROVE  mRecvData' = Buffered(toSend', offset')
    BY <1>4
  <2>1. mRecvData = Buffered(toSend, offset)
    BY DEF Inv
  <2> QED
    BY <2>1, ReadSynced
<1> HIDE DEF run
<1>9. delivered' \in Seq(Cut) /\ mRecvData' \in Seq(Byte) /\ hung' \in BOOLEAN
      /\ (hung' => ReadsInFront(mRecvData'))
  <2>1. CASE delivered' = delivered \o run.out /\ hung' = hung
    <3>1. delivered' \in Seq(Cut)
      BY <1>6, <2>1
    <3>2. hung' = FALSE
      <4>1. hung \in BOOLEAN
        BY DEF Inv
      <4> QED
        BY <1>4, <2>1, <4>1
    <3>3. mRecvData' \in Seq(Byte)
      BY <1>4
    <3> QED
      BY <3>1, <3>2, <3>3
  <2>2. CASE /\ ReadsInFront(run.data) /\ hung' = TRUE
             /\ delivered' = delivered \o Append(run.out, FrameOf(run.data))
    <3>1. delivered' \in Seq(Cut)
      BY <1>7, <2>2
    <3>2. mRecvData' \in Seq(Byte) /\ ReadsInFront(mRecvData')
      BY <1>4, <2>2
    <3> QED
      BY <2>2, <3>1, <3>2
  <2> QED
    BY <1>4, <2>1, <2>2
<1> QED
  BY <1>3, <1>4, <1>8, <1>9 DEF Inv
LEMMA NextIInv == IInv /\ [Next]_vars => IInv'
<1> SUFFICES ASSUME IInv, [Next]_vars PROVE IInv'
  OBVIOUS
<1>1. Inv
  BY Shape
<1>2. CASE SerialOpen
  BY <1>1, <1>2, OpenKeeps, ShapePrimed
<1>3. CASE SerialClose
  BY <1>1, <1>3, CloseKeeps, ShapePrimed
<1>4. CASE DeviceSend
  BY <1>1, <1>4, SendKeeps, ShapePrimed
<1>5. CASE ReadSome
  <2>1. PICK n \in 1 .. Len(InFlight) : ReadData(n)
    BY <1>5 DEF ReadSome
  <2> QED
    BY <1>1, <2>1, ReadKeeps, ShapePrimed
<1>6. CASE LoseSome
  <2>1. PICK n \in 1 .. Len(InFlight) : Lose(n)
    BY <1>6 DEF LoseSome
  <2> QED
    BY <1>1, <2>1, LoseKeeps, ShapePrimed
<1>7. CASE Clear
  BY <1>1, <1>7, ClearKeeps, ShapePrimed
<1>8. CASE UNCHANGED vars
  <2>1. Inv'
    BY <1>1, <1>8 DEF Inv, vars
  <2> QED
    BY <2>1, ShapePrimed
<1> QED
  BY <1>2, <1>3, <1>4, <1>5, <1>6, <1>7, <1>8 DEF Next

(* The invariant holds in every reachable state.                             *)
THEOREM Invariant == Spec => []IInv
<1>1. Init => IInv
  BY InitIInv
<1>2. IInv /\ [Next]_vars => IInv'
  BY NextIInv
<1> QED
  BY <1>1, <1>2, PTL DEF Spec

(* TypeOK: the packet under way has never left in full, and nothing is       *)
(* delivered before readData was connected to the port.                      *)
THEOREM TypeCorrect == Spec => []TypeOK
<1>1. IInv => TypeOK
  BY DEF IInv
<1> QED
  BY <1>1, Invariant, PTL

(* HangNeedsFault: readData can only come to spin after bytes were lost or   *)
(* the buffer was cleared, and while the two ends disagree.  A buffer in     *)
(* step is the front of a packet, whose length no signed char misreads.      *)
THEOREM HangHasCause == Spec => []HangNeedsFault
<1>1. IInv => HangNeedsFault
  <2> SUFFICES ASSUME IInv, hung PROVE faults > 0 /\ ~Synced
    BY DEF HangNeedsFault
  <2>1. ReadsInFront(mRecvData)
    BY DEF IInv
  <2>2. ~Synced
    <3>1. toSend \in Seq(DeviceFrames) /\ InPacket(toSend, offset)
      BY Shape DEF Inv
    <3>2. ~ReadsInFront(Buffered(toSend, offset))
      BY <3>1, BufferedIsPartial
    <3> QED
      BY <2>1, <3>2, Shape
  <2>3. faults # 0 /\ faults \in Nat
    <3>1. faults # 0
      BY <2>2 DEF IInv
    <3>2. losses \in Nat /\ clears \in Nat
      BY BoundsAssumption, Shape DEF Inv
    <3> QED
      BY <3>1, <3>2 DEF faults
  <2> QED
    BY <2>2, <2>3
<1> QED
  BY <1>1, Invariant, PTL

-----------------------------------------------------------------------------
(* A buffer that starts with no packet.                                      *)

(* Bytes added at the end do not change what calPacket makes of a head that  *)
(* is no packet.                                                             *)
LEMMA StillWedged ==
  ASSUME Inv, Wedged, NEW data \in Seq(Byte), Len(data) >= Len(mRecvData),
         \A i \in 1 .. Len(mRecvData) : data[i] = mRecvData[i]
  PROVE  /\ ~Complete(data) /\ ~ReadsInFront(data) /\ Len(data) > P_MIN_SIZE
         /\ Accepted(data) =>
              /\ EndPacket(data) \in 0 .. Len(data) - 1
              /\ ~Complete(data)
         /\ ~Accepted(data) =>
              \/ ByteAt(data, 0) # P_SOF
              \/ ByteAt(data, 1) # CAN
              \/ ByteAt(data, 2)
                   \notin {CMD.SEND_CAN1, CMD.RECV_CAN2, CMD.SEND_CAN2}
<1>1. /\ mRecvData \in Seq(Byte) /\ Len(mRecvData) \in Nat
      /\ Len(data) \in Nat /\ Len(data) >= Len(mRecvData)
  BY DEF Inv
<1>2. Len(mRecvData) > 5
  BY DEF Wedged, P_MIN_SIZE
<1>3. ASSUME NEW i \in 0 .. Len(mRecvData) - 1
      PROVE  ByteAt(data, i) = ByteAt(mRecvData, i)
  <2>1. i < Len(mRecvData) /\ i < Len(data) /\ i + 1 \in 1 .. Len(mRecvData)
    BY <1>1
  <2> QED
    BY <2>1 DEF ByteAt
<1>4. /\ ByteAt(data, 0) = ByteAt(mRecvData, 0)
      /\ ByteAt(data, 1) = ByteAt(mRecvData, 1)
      /\ ByteAt(data, 2) = ByteAt(mRecvData, 2)
      /\ ByteAt(data, 3) = ByteAt(mRecvData, 3)
      /\ ByteAt(data, 4) = ByteAt(mRecvData, 4)
  BY <1>1, <1>2, <1>3
<1>5. EndPacket(data) = EndPacket(mRecvData)
  BY <1>4 DEF EndPacket, DataLength
<1>6. EndPacket(data) \in Int
  BY Header
<1>7. CASE Accepted(mRecvData)
  <2>1. /\ EndPacket(mRecvData) \in 0 .. Len(mRecvData) - 1
        /\ ~Complete(mRecvData)
    BY <1>7 DEF Wedged
  <2>2. ByteAt(mRecvData, EndPacket(mRecvData)) # P_EOF
    BY <1>7, <2>1 DEF Complete
  <2>3. ByteAt(data, EndPacket(data)) # P_EOF
    BY <1>3, <1>5, <2>1, <2>2
  <2>4. EndPacket(data) \in 0 .. Len(data) - 1
    BY <1>1, <1>5, <2>1
  <2>5. Accepted(data)
    BY <1>1, <1>4, <1>5, <1>7, <2>4 DEF Accepted
  <2>6. ~Complete(data) /\ ~ReadsInFront(data)
    BY <2>3, <2>4 DEF Complete, ReadsInFront
  <2> QED
    BY <1>1, <1>2, <2>4, <2>5, <2>6 DEF P_MIN_SIZE
<1>8. CASE ~Accepted(mRecvData)
  <2>1. \/ ByteAt(mRecvData, 0) # P_SOF
        \/ ByteAt(mRecvData, 1) # CAN
        \/ ByteAt(mRecvData, 2)
             \notin {CMD.SEND_CAN1, CMD.RECV_CAN2, CMD.SEND_CAN2}
    BY <1>8 DEF Wedged
  <2>2. \/ ByteAt(data, 0) # P_SOF
        \/ ByteAt(data, 1) # CAN
        \/ ByteAt(data, 2)
             \notin {CMD.SEND_CAN1, CMD.RECV_CAN2, CMD.SEND_CAN2}
    BY <1>4, <2>1
  <2>3. ~Accepted(data)
    BY <2>2 DEF Accepted
  <2> QED
    BY <1>1, <1>2, <2>2, <2>3 DEF Complete, ReadsInFront, P_MIN_SIZE
<1> QED
  BY <1>7, <1>8

LEMMA StaysWedged ==
  ASSUME IInv, [Next]_vars, Wedged
  PROVE  delivered' = delivered /\ (Wedged' \/ clears' > clears)
<1>1. Inv
  BY Shape
<1>2. CASE UNCHANGED <<mRecvData, delivered>>
  BY <1>2 DEF Wedged
<1>3. CASE ReadSome
  <2>1. PICK n \in 1 .. Len(InFlight) : ReadData(n)
    BY <1>3 DEF ReadSome
  <2> DEFINE data == NewData(n)
             run == RunSlot(data)
  <2>2. /\ data \in Seq(Byte) /\ Len(data) >= Len(mRecvData)
        /\ \A i \in 1 .. Len(mRecvData) : data[i] = mRecvData[i]
    BY <2>1, NewBytes
  <2>3. /\ mRecvData' = run.data
        /\ \/ delivered' = delivered \o run.out
           \/ ReadsInFront(run.data)
    BY <2>1, ReadStep
  <2> HIDE DEF data
  <2>4. /\ ~Complete(data) /\ ~ReadsInFront(data) /\ Len(data) > P_MIN_SIZE
        /\ Accepted(data) =>
             /\ EndPacket(data) \in 0 .. Len(data) - 1
             /\ ~Complete(data)
        /\ ~Accepted(data) =>
             \/ ByteAt(data, 0) # P_SOF
             \/ ByteAt(data, 1) # CAN
             \/ ByteAt(data, 2)
                  \notin {CMD.SEND_CAN1, CMD.RECV_CAN2, CMD.SEND_CAN2}
    BY <1>1, <2>2, StillWedged
  <2>5. run = [data |-> data, out |-> <<>>]
    <3>1. CutPackets[data] = [data |-> data, out |-> <<>>]
      BY <2>2, <2>4, CutNothing
    <3> QED
      BY <2>4, <3>1 DEF RunSlot
  <2>6. run.data = data /\ run.out = <<>>
    BY <2>5
  <2> HIDE DEF run
  <2>7. mRecvData' = data
    BY <2>3, <2>6
  <2>8. delivered' = delivered
    <3>1. delivered \in Seq(Cut)
      BY <1>1 DEF Inv
    <3>2. delivered \o <<>> = delivered
      BY <3>1, ConcatEmptySeq
    <3> QED
      BY <2>3, <2>4, <2>6, <3>2
  <2>9. Wedged'
    BY <2>4, <2>7 DEF Wedged
  <2> QED
    BY <2>8, <2>9
<1>4. CASE Clear
  <2>1. clears \in Nat
    BY <1>1, BoundsAssumption DEF Inv
  <2> QED
    BY <1>4, <2>1 DEF Clear
<1>5. SerialOpen \/ SerialClose \/ DeviceSend \/ LoseSome \/ UNCHANGED vars
        => UNCHANGED <<mRecvData, delivered>>
  BY DEF SerialOpen, SerialClose, DeviceSend, LoseSome, Lose, vars
<1> QED
  BY <1>2, <1>3, <1>4, <1>5 DEF Next

(* WedgedUntilCleared: once the buffer starts with something that is no      *)
(* packet, no later byte makes calPacket deliver a frame, not even after     *)
(* closing and opening the port, until Clear is pressed.                     *)
THEOREM WedgedStays == Spec => WedgedUntilCleared
<1>1. IInv /\ [Next]_vars =>
        [Wedged => delivered' = delivered /\ (Wedged' \/ clears' > clears)]_vars
  BY StaysWedged
<1> QED
  BY <1>1, Invariant, PTL DEF Spec, WedgedUntilCleared
-----------------------------------------------------------------------------
(* The link is a FrameChannel.                                               *)

LEMMA ItselfFirst ==
  ASSUME NEW S, NEW s \in Seq(S), NEW t \in Seq(S)
  PROVE  IsPrefix(s, s \o t)
<1>1. Len(s) \in Nat /\ Len(t) \in Nat /\ Len(s \o t) = Len(s) + Len(t)
  BY Joined
<1>2. SubSeq(s \o t, 1, Len(s)) = SubSeq(s, 1, Len(s))
  BY <1>1, FrontOfFirst
<1> QED
  BY <1>1, <1>2 DEF IsPrefix

LEMMA Reversed ==
  ASSUME NEW S, NEW s \in Seq(S)
  PROVE  /\ Reverse(s) \in Seq(S) /\ Len(Reverse(s)) = Len(s)
         /\ \A i \in 1 .. Len(s) : Reverse(s)[i] = s[Len(s) - i + 1]
<1> DEFINE n == Len(s)
           r == Reverse(s)
<1>1. n \in Nat
  OBVIOUS
<1>2. r = [i \in 1 .. n |-> s[(n - i) + 1]]
  BY DEF Reverse
<1>3. \A i \in 1 .. n : s[(n - i) + 1] \in S
  <2> SUFFICES ASSUME NEW i \in 1 .. n PROVE s[(n - i) + 1] \in S
    OBVIOUS
  <2>1. (n - i) + 1 \in 1 .. n
    BY <1>1
  <2> QED
    BY <2>1, ElementOfSeq
<1> HIDE DEF n, r
<1>4. r \in [1 .. n -> S]
  BY <1>2, <1>3
<1>5. r \in Seq(S)
  BY <1>1, <1>4, SeqDef
<1>6. DOMAIN r = 1 .. Len(r) /\ Len(r) \in Nat
  BY <1>5, LenProperties
<1>7. Len(r) = n
  BY <1>1, <1>4, <1>6
<1> QED
  BY <1>2, <1>5, <1>7 DEF n, r

LEMMA TheRestLast ==
  ASSUME NEW S, NEW s \in Seq(S), NEW k \in 0 .. Len(s)
  PROVE  IsSuffix(SubSeq(s, k + 1, Len(s)), s)
<1> DEFINE n == Len(s)
           t == SubSeq(s, k + 1, n)
           m == n - k
           rt == Reverse(t)
           rs == Reverse(s)
           front == SubSeq(rs, 1, m)
<1>1. n \in Nat /\ k \in Nat /\ k <= n /\ m \in Nat /\ m <= n
  OBVIOUS
<1>2. t \in Seq(S) /\ Len(t) = m /\ \A i \in 1 .. m : t[i] = s[k + i]
  BY <1>1, Part
<1> HIDE DEF t
<1>3. rt \in Seq(S) /\ Len(rt) = m /\ \A i \in 1 .. m : rt[i] = t[m - i + 1]
  BY <1>2, Reversed
<1>4. rs \in Seq(S) /\ Len(rs) = n /\ \A i \in 1 .. n : rs[i] = s[n - i + 1]
  BY Reversed
<1> HIDE DEF rt, rs
<1>5. front \in Seq(S) /\ Len(front) = m /\ \A i \in 1 .. m : front[i] = rs[i]
  <2>1. rs \in Seq(S) /\ m <= Len(rs)
    BY <1>1, <1>4
  <2> HIDE DEF m
  <2> QED
    BY <1>1, <2>1, FirstPart
<1> HIDE DEF front
<1>6. ASSUME NEW i \in 1 .. m PROVE rt[i] = front[i]
  <2> DEFINE j == m - i + 1
  <2>1. j \in 1 .. m /\ i \in 1 .. n /\ k + j = n - i + 1
    BY <1>1
  <2>2. rt[i] = t[j] /\ t[j] = s[k + j]
    BY <1>2, <1>3, <2>1
  <2>3. front[i] = s[n - i + 1]
    BY <1>4, <1>5, <2>1
  <2> QED
    BY <2>1, <2>2, <2>3
<1> HIDE DEF m
<1>7. rt = front
  BY <1>3, <1>5, <1>6, Same
<1>8. SubSeq(rt, 1, Len(rt)) = rt
  BY <1>3, SubSeqFull
<1>9. Len(rt) <= Len(rs) /\ SubSeq(rt, 1, Len(rt)) = SubSeq(rs, 1, Len(rt))
  BY <1>1, <1>3, <1>4, <1>7, <1>8 DEF front
<1>10. IsPrefix(rt, rs)
  BY <1>9 DEF IsPrefix
<1> QED
  BY <1>10 DEF IsSuffix, rt, rs, t, n

LEMMA AllIsLast ==
  ASSUME NEW S, NEW s \in Seq(S)
  PROVE  IsSuffix(s, s)
<1> DEFINE zero == 0
<1>1. zero \in 0 .. Len(s) /\ zero + 1 = 1
  OBVIOUS
<1>2. SubSeq(s, 1, Len(s)) = s
  BY SubSeqFull
<1> HIDE DEF zero
<1>3. IsSuffix(SubSeq(s, zero + 1, Len(s)), s)
  BY <1>1, TheRestLast
<1> QED
  BY <1>1, <1>2, <1>3

LEMMA ChannelInit == Init => Channel!Init
<1> SUFFICES ASSUME Init PROVE Channel!Init
  OBVIOUS
<1>1. Synced
  BY DEF Init, Synced
<1> QED
  BY <1>1 DEF Init, faults, Channel!Init

LEMMA ChannelStep == IInv /\ [Next]_vars => [Channel!Next]_Channel!vars
<1> SUFFICES ASSUME IInv, [Next]_vars PROVE [Channel!Next]_Channel!vars
  OBVIOUS
<1>1. Inv
  BY Shape
<1>2. toSend \in Seq(DeviceFrames) /\ delivered \in Seq(Cut)
  BY <1>1 DEF Inv
<1>3. Synced' \in BOOLEAN /\ Synced \in BOOLEAN
  BY DEF Synced
<1>4. CASE UNCHANGED <<mRecvData, toSend, offset, delivered, losses, clears>>
  <2>1. UNCHANGED <<toSend, delivered, faults>> /\ Synced' = Synced
    BY <1>4 DEF faults, Synced
  <2> QED
    BY <2>1 DEF Channel!vars
<1>5. CASE DeviceSend
  <2>1. Buffered(toSend', offset') = Buffered(toSend, offset)
    BY <1>1, <1>5, SendKeeps
  <2>2. mRecvData' = mRecvData /\ delivered' = delivered /\ faults' = faults
    BY <1>5 DEF DeviceSend, faults
  <2>3. Synced' <=> Synced
    BY <2>1, <2>2, Shape, ShapePrimed
  <2>4. Synced' = Synced
    BY <1>3, <2>3
  <2>5. \E f \in DeviceFrames : toSend' = Append(toSend, f)
    BY <1>5 DEF DeviceSend
  <2>6. Channel!Send
    BY <2>2, <2>4, <2>5 DEF Channel!Send
  <2> QED
    BY <2>6 DEF Channel!Next
<1>6. CASE ReadSome
  <2>1. PICK n \in 1 .. Len(InFlight) : ReadData(n)
    BY <1>6 DEF ReadSome
  <2>2. faults' = faults
    BY <2>1 DEF ReadData, faults
  <2>3. CASE Synced
    <3>1. mRecvData = Buffered(toSend, offset)
      BY <2>3, Shape
    <3>2. /\ mRecvData' = Buffered(toSend', offset')
          /\ \E k \in 0 .. Len(toSend) :
               /\ delivered' = delivered \o SubSeq(toSend, 1, k)
               /\ toSend' = SubSeq(toSend, k + 1, Len(toSend))
      BY <1>1, <2>1, <3>1, ReadSynced
    <3>3. Synced'
      BY <3>2, ShapePrimed
    <3>4. Synced' = Synced
      BY <1>3, <2>3, <3>3
    <3>5. Channel!Deliver
      BY <2>2, <2>3, <3>2, <3>4 DEF Channel!Deliver
    <3> QED
      BY <3>5 DEF Channel!Next
  <2>4. CASE ~Synced
    <3> DEFINE run == RunSlot(NewData(n))
               out == run.out
               more == Append(out, FrameOf(run.data))
    <3>1. /\ Transmit(n)
          /\ run.data \in Seq(Byte) /\ out \in Seq(Cut)
          /\ delivered' = delivered \o out \/ delivered' = delivered \o more
      BY <2>1, ReadStep
    <3>2. more \in Seq(Cut)
      <4> DEFINE f == FrameOf(run.data)
      <4>1. f \in Cut
        BY <3>1 DEF Cut
      <4> HIDE DEF f, out
      <4>2. Append(out, f) \in Seq(Cut)
        BY <3>1, <4>1, AppendProperties
      <4> QED
        BY <4>2 DEF f
    <3> HIDE DEF run, out, more
    <3>3. IsPrefix(delivered, delivered')
      <4>1. IsPrefix(delivered, delivered \o out)
        BY <1>2, <3>1, ItselfFirst
      <4>2. IsPrefix(delivered, delivered \o more)
        BY <1>2, <3>2, ItselfFirst
      <4> QED
        BY <3>1, <4>1, <4>2
    <3>4. PICK k \in 0 .. Len(toSend) :
            toSend' = SubSeq(toSend, k + 1, Len(toSend))
      BY <3>1, Moved DEF Leaves
    <3>5. IsSuffix(toSend', toSend)
      BY <1>2, <3>4, TheRestLast
    <3>6. Channel!Misread
      BY <1>3, <2>2, <2>4, <3>3, <3>5
      DEF Channel!Misread, Channel!IsPrefix, Channel!IsSuffix, IsPrefix, IsSuffix,
          Channel!Reverse, Reverse
    <3> QED
      BY <3>6 DEF Channel!Next
  <2> QED
    BY <2>3, <2>4
<1>7. CASE LoseSome
  <2>1. PICK n \in 1 .. Len(InFlight) : Lose(n)
    BY <1>7 DEF LoseSome
  <2>2. PICK k \in 0 .. Len(toSend) :
          toSend' = SubSeq(toSend, k + 1, Len(toSend))
    BY <2>1, Moved DEF Leaves, Lose
  <2>3. IsSuffix(toSend', toSend)
    BY <1>2, <2>2, TheRestLast
  <2>4. delivered' = delivered /\ faults' = faults + 1
    <3>1. losses \in Nat /\ clears \in Nat
      BY <1>1, BoundsAssumption DEF Inv
    <3> QED
      BY <2>1, <3>1 DEF Lose, faults
  <2>5. Channel!Fault
    BY <1>3, <2>3, <2>4
    DEF Channel!Fault, Channel!IsPrefix, Channel!IsSuffix, IsPrefix, IsSuffix,
        Channel!Reverse, Reverse
  <2> QED
    BY <2>5 DEF Channel!Next
<1>8. CASE Clear
  <2>1. IsSuffix(toSend', toSend)
    <3>1. toSend' = toSend
      BY <1>8 DEF Clear
    <3> QED
      BY <1>2, <3>1, AllIsLast
  <2>2. delivered' = delivered /\ faults' = faults + 1
    <3>1. losses \in Nat /\ clears \in Nat
      BY <1>1, BoundsAssumption DEF Inv
    <3> QED
      BY <1>8, <3>1 DEF Clear, faults
  <2>3. Channel!Fault
    BY <1>3, <2>1, <2>2
    DEF Channel!Fault, Channel!IsPrefix, Channel!IsSuffix, IsPrefix, IsSuffix,
        Channel!Reverse, Reverse
  <2> QED
    BY <2>3 DEF Channel!Next
<1>9. SerialOpen \/ SerialClose \/ UNCHANGED vars
        => UNCHANGED <<mRecvData, toSend, offset, delivered, losses, clears>>
  BY DEF SerialOpen, SerialClose, vars
<1> QED
  BY <1>4, <1>5, <1>6, <1>7, <1>8, <1>9 DEF Next

(* FramedLink: readData hands over the frames of the link once, whole and in *)
(* order, however the bytes are chunked and however often the port is closed *)
(* and opened again, until bytes are lost or the buffer is cleared.          *)
THEOREM LinkIsChannel == Spec => FramedLink
<1>1. Init => Channel!Init
  BY ChannelInit
<1>2. IInv /\ [Next]_vars => [Channel!Next]_Channel!vars
  BY ChannelStep
<1> QED
  BY <1>1, <1>2, Invariant, PTL DEF Spec, FramedLink, Channel!Spec
=============================================================================
