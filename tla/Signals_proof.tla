--------------------------- MODULE Signals_proof ----------------------------
(* Theorems about Signals and its codec, for every set of messages, signals  *)
(* and databases.                                                            *)
EXTENDS Signals, WellFoundedInduction, TLAPS

-----------------------------------------------------------------------------
(* Natural numbers.                                                          *)

(* Every set of natural numbers has a least element ...                      *)
LEMMA Least ==
  ASSUME NEW T, T \subseteq Nat, T # {}
  PROVE  \E x \in T : \A y \in T : x <= y
<1> DEFINE R == OpToRel(<, Nat)
<1>1. IsWellFoundedOn(R, Nat)
  BY NatLessThanWellFounded
<1>2. R = {ss \in Nat \X Nat : ss[1] < ss[2]}
  BY DEF OpToRel
<1> HIDE DEF R
<1>3. PICK x \in T : \A y \in T : ~ (<<y, x>> \in R)
  BY <1>1, WFMin
<1>4. ASSUME NEW y \in T PROVE x <= y
  <2>1. x \in Nat /\ y \in Nat /\ <<y, x>> \notin R
    BY <1>3
  <2>2. ~(y < x)
    BY <1>2, <2>1
  <2> QED
    BY <2>1, <2>2
<1> QED
  BY <1>4

(* ... so that a set with 0 and with every successor of its elements has     *)
(* them all.                                                                 *)
LEMMA Induct ==
  ASSUME NEW T, 0 \in T, \A n \in Nat : n \in T => n + 1 \in T
  PROVE  Nat \subseteq T
<1> DEFINE U == {n \in Nat : n \notin T}
<1> SUFFICES ASSUME U # {} PROVE FALSE
  OBVIOUS
<1>1. PICK x \in U : \A y \in U : x <= y
  BY Least
<1>2. x # 0 /\ x - 1 \in Nat
  OBVIOUS
<1>3. x - 1 \in T
  BY <1>1, <1>2
<1> QED
  BY <1>2, <1>3

(* A function defined by its value at 0 and by a step from i - 1 to i exists. *)
Steps(h, S, z, n, g) == /\ h \in [0 .. n -> S] /\ h[0] = z
                        /\ \A i \in 1 .. n : h[i] = g[<<i, h[i - 1]>>]

LEMMA Recursion ==
  ASSUME NEW S, NEW z \in S, NEW n \in Nat, NEW g \in [(1 .. n) \X S -> S]
  PROVE  \E h : Steps(h, S, z, n, g)
<1> DEFINE Is(h, m) == /\ h \in [0 .. n -> S] /\ h[0] = z
                       /\ \A i \in 1 .. m : h[i] = g[<<i, h[i - 1]>>]
           T == {m \in Nat : m <= n => \E h \in [0 .. n -> S] : Is(h, m)}
<1>1. 0 \in T
  <2>1. Is([i \in 0 .. n |-> z], 0)
    OBVIOUS
  <2> QED
    BY <2>1
<1>2. ASSUME NEW m \in Nat, m \in T PROVE m + 1 \in T
  <2> SUFFICES ASSUME m + 1 <= n PROVE \E h \in [0 .. n -> S] : Is(h, m + 1)
    OBVIOUS
  <2>1. PICK h : Is(h, m)
    BY <1>2
  <2>2. m \in 0 .. n /\ m + 1 \in 1 .. n /\ h[m] \in S
    BY <2>1
  <2>3. g[<<m + 1, h[m]>>] \in S
    BY <2>2
  <2> DEFINE k == [h EXCEPT ![m + 1] = g[<<m + 1, h[m]>>]]
  <2>4. k \in [0 .. n -> S]
    BY <2>1, <2>3
  <2>5. \A i \in 0 .. n : k[i] = IF i = m + 1 THEN g[<<m + 1, h[m]>>] ELSE h[i]
    BY <2>1
  <2> HIDE DEF k
  <2>6. k[0] = z
    BY <2>1, <2>5
  <2>7. ASSUME NEW i \in 1 .. m + 1 PROVE k[i] = g[<<i, k[i - 1]>>]
    <3>1. k[i - 1] = h[i - 1]
      BY <2>5
    <3>2. CASE i = m + 1
      <4>1. i - 1 = m /\ i \in 0 .. n
        BY <3>2
      <4> QED
        BY <2>5, <3>1, <3>2, <4>1
    <3>3. CASE i # m + 1
      <4>1. i \in 1 .. m /\ i \in 0 .. n
        BY <3>3
      <4> QED
        BY <2>1, <2>5, <3>1, <3>3, <4>1
    <3> QED
      BY <3>2, <3>3
  <2> QED
    BY <2>4, <2>6, <2>7
<1> HIDE DEF T
<1>3. Nat \subseteq T
  BY <1>1, <1>2, Induct
<1>4. PICK h : Is(h, n)
  BY <1>3 DEF T
<1> QED
  BY <1>4 DEF Steps

(* A quotient and a remainder are what their names say ...                   *)
LEMMA DivMod ==
  ASSUME NEW x \in Int, NEW p \in Nat, p > 0
  PROVE  /\ x \div p \in Int /\ x % p \in 0 .. p - 1
         /\ x = p * (x \div p) + (x % p)
OBVIOUS

(* ... and there are no others.                                              *)
LEMMA DivUnique ==
  ASSUME NEW x \in Int, NEW p \in Nat, p > 0,
         NEW q \in Int, NEW r \in 0 .. p - 1, x = p * q + r
  PROVE  x \div p = q /\ x % p = r
<1> DEFINE d == x \div p
           e == x % p
<1>1. d \in Int /\ e \in 0 .. p - 1 /\ x = p * d + e
  BY DivMod
<1> HIDE DEF d, e
<1>2. ~(d < q)
  <2> SUFFICES ASSUME d < q PROVE FALSE
    OBVIOUS
  <2>1. p * (d + 1) <= p * q
    BY <1>1
  <2>2. p * (d + 1) = p * d + p
    BY <1>1
  <2> QED
    BY <1>1, <2>1, <2>2
<1>3. ~(q < d)
  <2> SUFFICES ASSUME q < d PROVE FALSE
    OBVIOUS
  <2>1. p * (q + 1) <= p * d
    BY <1>1
  <2>2. p * (q + 1) = p * q + p
    BY <1>1
  <2> QED
    BY <1>1, <2>1, <2>2
<1>4. d = q
  BY <1>1, <1>2, <1>3
<1> QED
  BY <1>1, <1>4 DEF d, e

(* The remainder of twice a number has one bit more.                         *)
LEMMA TwiceMod ==
  ASSUME NEW x \in Int, NEW p \in Nat, p > 0
  PROVE  x % (2 * p) = (x % p) + (IF (x \div p) % 2 = 1 THEN p ELSE 0)
<1> DEFINE q == x \div p
           r == x % p
           k == q \div 2
           b == q % 2
           low == r + (IF b = 1 THEN p ELSE 0)
           twice == 2 * p
<1>1. q \in Int /\ r \in 0 .. p - 1 /\ x = p * q + r
  BY DivMod
<1>2. k \in Int /\ b \in {0, 1} /\ q = 2 * k + b
  BY <1>1
<1> HIDE DEF q, r, k, b
<1>3. low \in 0 .. twice - 1 /\ twice \in Nat /\ twice > 0
  BY <1>1, <1>2
<1>4. x = twice * k + low
  <2>1. CASE b = 0
    <3>1. p * q = p * (2 * k)
      BY <1>2, <2>1
    <3>2. p * (2 * k) = (2 * p) * k
      BY <1>2
    <3> QED
      BY <1>1, <2>1, <3>1, <3>2
  <2>2. CASE b = 1
    <3>1. p * q = p * (2 * k + 1)
      BY <1>2, <2>2
    <3>2. p * (2 * k + 1) = (2 * p) * k + p
      BY <1>2
    <3>3. p * q = twice * k + p
      BY <3>1, <3>2
    <3>4. low = r + p
      BY <2>2
    <3>5. twice * k \in Int
      BY <1>2, <1>3
    <3> HIDE DEF low, twice
    <3> QED
      BY <1>1, <3>3, <3>4, <3>5
  <2> QED
    BY <1>2, <2>1, <2>2
<1> HIDE DEF low, twice
<1>5. x % twice = low
  BY <1>2, <1>3, <1>4, DivUnique
<1> QED
  BY <1>5 DEF low, twice, r, q, b

(* Shifting doubles.                                                         *)
LEMMA ShiftDoubles ==
  /\ Shifted[0] = 1
  /\ \A n \in 0 .. 64 : Shifted[n] \in Nat /\ Shifted[n] > 0
  /\ \A n \in 1 .. 64 : Shifted[n] = 2 * Shifted[n - 1]
<1> DEFINE S == Nat \ {0}
           Def(f) == f = [n \in 0 .. 64 |-> IF n = 0 THEN 1 ELSE 2 * f[n - 1]]
           g == [x \in (1 .. 64) \X S |-> 2 * x[2]]
           one == 1
           last == 64
<1>1. g \in [(1 .. last) \X S -> S]
  OBVIOUS
<1>2. \A i \in 1 .. 64, b \in S : g[<<i, b>>] = 2 * b
  OBVIOUS
<1>3. one \in S /\ last \in Nat
  OBVIOUS
<1> HIDE DEF g, one, last
<1>4. PICK h : Steps(h, S, one, last, g)
  BY <1>1, <1>3, Recursion
<1>5. /\ h \in [0 .. 64 -> S] /\ h[0] = 1
      /\ \A i \in 1 .. 64 : h[i] = 2 * h[i - 1]
  <2>1. h \in [0 .. 64 -> S] /\ h[0] = 1
    BY <1>4 DEF Steps, one, last
  <2>2. \A i \in 1 .. 64 : i - 1 \in 0 .. 64
    OBVIOUS
  <2> QED
    BY <1>2, <1>4, <2>1, <2>2 DEF Steps, last
<1>6. Def(h)
  <2>1. h = [n \in 0 .. 64 |-> h[n]]
    BY <1>5
  <2>2. \A n \in 0 .. 64 : h[n] = IF n = 0 THEN 1 ELSE 2 * h[n - 1]
    BY <1>5
  <2> QED
    BY <2>1, <2>2
<1>7. Def(Shifted)
  BY <1>6 DEF Shifted
<1>8. Shifted[0] = 1 /\ \A n \in 1 .. 64 : Shifted[n] = 2 * Shifted[n - 1]
  BY <1>7
<1> DEFINE T == {n \in Nat : n <= 64 => Shifted[n] \in S}
<1>9. 0 \in T
  BY <1>8
<1>10. ASSUME NEW n \in Nat, n \in T PROVE n + 1 \in T
  <2> SUFFICES ASSUME n + 1 <= 64 PROVE Shifted[n + 1] \in S
    OBVIOUS
  <2>1. Shifted[n] \in S /\ n + 1 \in 1 .. 64 /\ (n + 1) - 1 = n
    BY <1>10
  <2>2. Shifted[n + 1] = 2 * Shifted[n]
    BY <1>8, <2>1
  <2> QED
    BY <2>1, <2>2
<1> HIDE DEF T
<1>11. Nat \subseteq T
  BY <1>9, <1>10, Induct
<1>12. ASSUME NEW n \in 0 .. 64 PROVE Shifted[n] \in S
  BY <1>11 DEF T
<1> QED
  BY <1>8, <1>12

(* The bits of a signal, and the one above them.                             *)
LEMMA ShiftedBelow ==
  ASSUME NEW size \in 1 .. 64, NEW n \in 1 .. size
  PROVE  /\ Shifted[n - 1] \in Nat /\ Shifted[n - 1] > 0
         /\ Shifted[n] = 2 * Shifted[n - 1]
<1>1. n \in 1 .. 64 /\ n - 1 \in 0 .. 64
  OBVIOUS
<1> QED
  BY <1>1, ShiftDoubles

-----------------------------------------------------------------------------
(* The codec.                                                                *)

(* The table beTransTable is its own inverse, and stays within a byte.       *)
LEMMA BeTransTwice ==
  ASSUME NEW b \in Nat
  PROVE  /\ BeTrans(b) \in Nat
         /\ BeTrans(BeTrans(b)) = b
         /\ BeTrans(b) \div 8 = b \div 8
<1> DEFINE q == b \div 8
           r == b % 8
<1>1. q \in Nat /\ r \in 0 .. 7 /\ b = 8 * q + r
  OBVIOUS
<1> HIDE DEF q, r
<1>2. BeTrans(b) = 8 * q + (7 - r)
  BY <1>1 DEF BeTrans, q, r
<1>3. /\ (8 * q + (7 - r)) \div 8 = q
      /\ (8 * q + (7 - r)) % 8 = 7 - r
  BY <1>1
<1>4. BeTrans(8 * q + (7 - r)) = 8 * q + 7 - (7 - r)
  BY <1>3 DEF BeTrans
<1> QED
  BY <1>1, <1>2, <1>3, <1>4 DEF q

(* The bytes of a payload are 8 bits each, also for translated bits.         *)
LEMMA BeTransWithin ==
  ASSUME NEW bytes \in Nat, NEW b \in Nat
  PROVE  b < 8 * bytes <=> BeTrans(b) < 8 * bytes
<1>1. \A c \in Nat : c < 8 * bytes <=> c \div 8 < bytes
  OBVIOUS
<1> QED
  BY <1>1, BeTransTwice

(* No two bits of a value share a bit of the payload.                        *)
THEOREM BitsDiffer ==
  ASSUME NEW sig \in SignalSet, NEW i \in 0 .. sig.size - 1,
         NEW j \in 0 .. sig.size - 1, BitOf(sig, i) = BitOf(sig, j)
  PROVE  i = j
<1>1. CASE sig.little
  BY <1>1 DEF BitOf, SignalSet
<1>2. CASE ~sig.little
  <2> DEFINE k == BeTrans(sig.startBit) + sig.size - 1 - i
             l == BeTrans(sig.startBit) + sig.size - 1 - j
  <2>1. BeTrans(sig.startBit) \in Nat
    BY BeTransTwice DEF SignalSet
  <2>2. k \in Nat /\ l \in Nat
    BY <2>1 DEF SignalSet
  <2>3. BeTrans(k) = BeTrans(l)
    BY <1>2 DEF BitOf
  <2>4. k = l
    <3> HIDE DEF k, l
    <3> QED
      BY <2>2, <2>3, BeTransTwice
  <2> QED
    BY <2>1, <2>4 DEF SignalSet
<1> QED
  BY <1>1, <1>2

(* A signal that fits has all its bits within the payload.                   *)
LEMMA BitsWithinPayload ==
  ASSUME NEW sig \in SignalSet, NEW payload \in Payloads, Fits(sig, payload)
  PROVE  BitsOf(sig) \subseteq 0 .. 8 * payload.bytes - 1
<1> SUFFICES ASSUME NEW i \in 0 .. sig.size - 1
             PROVE  BitOf(sig, i) \in 0 .. 8 * payload.bytes - 1
  BY DEF BitsOf
<1>1. CASE sig.little
  BY <1>1 DEF BitOf, Fits, SignalSet, Payloads
<1>2. CASE ~sig.little
  <2> DEFINE k == BeTrans(sig.startBit) + sig.size - 1 - i
  <2>1. BeTrans(sig.startBit) \in Nat
    BY BeTransTwice DEF SignalSet
  <2>2. k \in Nat /\ k < 8 * payload.bytes
    BY <1>2, <2>1 DEF Fits, SignalSet, Payloads
  <2>3. BeTrans(k) \in Nat /\ BeTrans(k) < 8 * payload.bytes
    <3> HIDE DEF k
    <3>1. payload.bytes \in Nat
      BY DEF Payloads
    <3> QED
      BY <2>2, <3>1, BeTransTwice, BeTransWithin
  <2> QED
    BY <1>2, <2>3 DEF BitOf, Payloads
<1> QED
  BY <1>1, <1>2

(* What encoding a value makes of a payload.                                 *)
LEMMA EncodedPayload ==
  ASSUME NEW sig \in SignalSet, NEW payload \in Payloads, NEW val,
         Fits(sig, payload)
  PROVE  /\ SignalToRaw(payload, sig, val) \in Payloads
         /\ SignalToRaw(payload, sig, val).bytes = payload.bytes
         /\ SignalToRaw(payload, sig, val).ones \ BitsOf(sig)
              = payload.ones \ BitsOf(sig)
<1> DEFINE set == {i \in 0 .. sig.size - 1 : (RawOf(sig, val) \div Shifted[i]) % 2 = 1}
           ones == (payload.ones \ BitsOf(sig)) \cup {BitOf(sig, i) : i \in set}
<1>1. SignalToRaw(payload, sig, val) = [payload EXCEPT !.ones = ones]
  BY DEF SignalToRaw, RawToData
<1>2. {BitOf(sig, i) : i \in set} \subseteq BitsOf(sig)
  BY DEF BitsOf
<1>3. ones \subseteq 0 .. 8 * payload.bytes - 1
  BY <1>2, BitsWithinPayload DEF Payloads
<1>4. ones \ BitsOf(sig) = payload.ones \ BitsOf(sig)
  BY <1>2
<1> HIDE DEF ones
<1>5. 8 * payload.bytes - 1 <= 63
  BY DEF Payloads
<1> QED
  BY <1>1, <1>3, <1>4, <1>5 DEF Payloads

(* Encoding a signal does not change what another, with other bits, is       *)
(* decoded to.                                                               *)
LEMMA OthersKept ==
  ASSUME NEW sig \in SignalSet, NEW other \in SignalSet,
         NEW payload \in Payloads, NEW val, Fits(sig, payload),
         BitsOf(sig) \cap BitsOf(other) = {}
  PROVE  Decoded(SignalToRaw(payload, sig, val), other) = Decoded(payload, other)
<1> DEFINE encoded == SignalToRaw(payload, sig, val)
           Set(p) == {i \in 0 .. other.size - 1 : BitOf(other, i) \in p.ones}
<1>1. \A i \in 0 .. other.size - 1 :
        BitOf(other, i) \in encoded.ones <=> BitOf(other, i) \in payload.ones
  <2> SUFFICES ASSUME NEW i \in 0 .. other.size - 1
               PROVE  BitOf(other, i) \in encoded.ones
                        <=> BitOf(other, i) \in payload.ones
    OBVIOUS
  <2>1. BitOf(other, i) \notin BitsOf(sig)
    BY DEF BitsOf
  <2>2. encoded.ones \ BitsOf(sig) = payload.ones \ BitsOf(sig)
    BY EncodedPayload
  <2> QED
    BY <2>1, <2>2
<1>2. Set(encoded) = Set(payload)
  BY <1>1
<1>3. RawToSignal(encoded, other) = RawToSignal(payload, other)
  BY <1>2 DEF RawToSignal
<1> QED
  BY <1>3 DEF Decoded

(* The bits of a number, read back, are the number modulo the range they     *)
(* have.                                                                     *)
BitSet(x, size) == {i \in 0 .. size - 1 : (x \div Shifted[i]) % 2 = 1}

LEMMA NumberOfBits ==
  ASSUME NEW x \in Int, NEW size \in 1 .. 64
  PROVE  NumberOf(BitSet(x, size), size) = x % Shifted[size]
<1> DEFINE set == BitSet(x, size)
           Def(f) == f = [n \in 0 .. size |->
                            IF n = 0 THEN 0
                            ELSE f[n - 1] + IF n - 1 \in set THEN Shifted[n - 1] ELSE 0]
           lowest == CHOOSE f : Def(f)
           mod == [n \in 0 .. size |-> x % Shifted[n]]
<1>1. NumberOf(set, size) = lowest[size]
  BY DEF NumberOf
<1>2. ASSUME NEW n \in 1 .. size
      PROVE  x % Shifted[n]
               = (x % Shifted[n - 1])
                  + (IF n - 1 \in set THEN Shifted[n - 1] ELSE 0)
  <2> DEFINE p == Shifted[n - 1]
  <2>1. p \in Nat /\ p > 0 /\ Shifted[n] = 2 * p
    BY ShiftedBelow
  <2>2. n - 1 \in set <=> (x \div p) % 2 = 1
    BY DEF BitSet
  <2> HIDE DEF p, set
  <2>3. x % (2 * p) = (x % p) + (IF (x \div p) % 2 = 1 THEN p ELSE 0)
    BY <2>1, TwiceMod
  <2> QED
    BY <2>1, <2>2, <2>3 DEF p
<1>3. x % Shifted[0] = 0
  <2>1. Shifted[0] = 1
    BY ShiftDoubles
  <2> QED
    BY <2>1
<1> HIDE DEF set
<1>4. Def(mod)
  <2>1. ASSUME NEW n \in 0 .. size
        PROVE  x % Shifted[n] =
                 IF n = 0 THEN 0
                 ELSE mod[n - 1] + IF n - 1 \in set THEN Shifted[n - 1] ELSE 0
    <3>1. CASE n = 0
      BY <1>3, <3>1
    <3>2. CASE n # 0
      <4>1. n \in 1 .. size /\ n - 1 \in 0 .. size
        BY <3>2
      <4>2. mod[n - 1] = x % Shifted[n - 1]
        BY <4>1
      <4> HIDE DEF mod
      <4> QED
        BY <1>2, <3>2, <4>1, <4>2
    <3> QED
      BY <3>1, <3>2
  <2> QED
    BY <2>1
<1>5. Def(lowest)
  BY <1>4
<1> HIDE DEF lowest, mod
<1> DEFINE T == {n \in Nat : n <= size => lowest[n] = x % Shifted[n]}
<1>6. 0 \in T
  BY <1>3, <1>5
<1>7. ASSUME NEW n \in Nat, n \in T PROVE n + 1 \in T
  <2> SUFFICES ASSUME n + 1 <= size PROVE lowest[n + 1] = x % Shifted[n + 1]
    OBVIOUS
  <2>1. n + 1 \in 1 .. size /\ n + 1 \in 0 .. size /\ n + 1 # 0 /\ (n + 1) - 1 = n
    OBVIOUS
  <2>2. lowest[n + 1] = lowest[n] + IF n \in set THEN Shifted[n] ELSE 0
    BY <1>5, <2>1
  <2>3. lowest[n] = x % Shifted[n]
    BY <1>7
  <2>4. x % Shifted[n + 1] = (x % Shifted[n]) + (IF n \in set THEN Shifted[n] ELSE 0)
    BY <1>2, <2>1
  <2> QED
    BY <2>2, <2>3, <2>4
<1> HIDE DEF T
<1>8. Nat \subseteq T
  BY <1>6, <1>7, Induct
<1> QED
  BY <1>1, <1>8 DEF T, set

(* Sign extension: the remainder that is negative when the highest bit is 1. *)
LEMMA SignExtended ==
  ASSUME NEW x \in Int, NEW size \in 1 .. 64
  PROVE  LET low == -Shifted[size - 1]
             unsigned == x % Shifted[size]
         IN (IF size - 1 \in BitSet(x, size) THEN unsigned - Shifted[size] ELSE unsigned)
              = ((x - low) % Shifted[size]) + low
<1> DEFINE p == Shifted[size - 1]
           twice == Shifted[size]
           u == x % twice
           k == x \div twice
           top == (x \div p) % 2 = 1
<1>1. p \in Nat /\ p > 0 /\ twice = 2 * p
  <2>1. size \in 1 .. size
    OBVIOUS
  <2> QED
    BY <2>1, ShiftedBelow
<1>2. size - 1 \in BitSet(x, size) <=> top
  BY DEF BitSet
<1> HIDE DEF p, twice
<1>3. u \in 0 .. twice - 1 /\ k \in Int /\ x = twice * k + u
  <2>1. twice \in Nat /\ twice > 0
    BY <1>1
  <2> QED
    BY <2>1, DivMod
<1>4. x % p \in 0 .. p - 1 /\ u = (x % p) + (IF top THEN p ELSE 0)
  BY <1>1, DivMod, TwiceMod
<1> DEFINE r == x % p
<1> HIDE DEF u, k, top, r
<1>5. CASE top
  <2>1. r \in 0 .. p - 1 /\ u = r + p
    BY <1>4, <1>5 DEF r
  <2>2. x + p = twice * (k + 1) + r
    <3>1. twice * (k + 1) = twice * k + twice
      BY <1>1, <1>3
    <3> QED
      BY <1>1, <1>3, <2>1, <3>1
  <2>3. (x + p) % twice = r
    BY <1>1, <1>3, <2>1, <2>2, DivUnique
  <2>4. u - twice = ((x + p) % twice) - p
    BY <1>1, <2>1, <2>3
  <2> QED
    BY <1>1, <1>2, <1>5, <2>4 DEF u, p, twice
<1>6. CASE ~top
  <2>1. u \in 0 .. p - 1
    BY <1>4, <1>6
  <2>2. x + p = twice * k + (u + p)
    BY <1>1, <1>3
  <2>3. (x + p) % twice = u + p
    <3> DEFINE rest == u + p
    <3>1. rest \in 0 .. twice - 1
      BY <1>1, <2>1
    <3> HIDE DEF rest
    <3> QED
      BY <1>1, <1>3, <2>2, <3>1, DivUnique DEF rest
  <2>4. u = ((x + p) % twice) - p
    BY <1>1, <2>1, <2>3
  <2> QED
    BY <1>1, <1>2, <1>6, <2>4 DEF u, p, twice
<1> QED
  BY <1>5, <1>6

(* A raw value is a whole number.                                            *)
LEMMA RawIsInt ==
  ASSUME NEW sig \in SignalSet, NEW val \in Int, sig.factor # 0
  PROVE  RawOf(sig, val) \in Int
<1> DEFINE f == sig.factor
           Rounded(y) == (2 * y + f) \div (2 * f)
           twice == 2 * f
<1>1. f \in Nat /\ f > 0 /\ val - sig.offset \in Int
  BY DEF SignalSet
<1>2. ASSUME NEW y \in Int PROVE Rounded(y) \in Int
  <2> DEFINE z == 2 * y + f
  <2>1. z \in Int /\ twice \in Nat /\ twice > 0
    BY <1>1, <1>2
  <2> HIDE DEF z, twice
  <2>2. z \div twice \in Int
    BY <2>1, DivMod
  <2> QED
    BY <2>2 DEF z, twice
<1>3. RawOf(sig, val) = IF val - sig.offset < 0 THEN -Rounded(-(val - sig.offset))
                        ELSE Rounded(val - sig.offset)
  BY DEF RawOf
<1> DEFINE x == val - sig.offset
<1> HIDE DEF Rounded
<1>4. Rounded(-x) \in Int /\ Rounded(x) \in Int
  BY <1>1, <1>2
<1> QED
  BY <1>3, <1>4

(* A signal's bits are those of the raw value that was written to them.      *)
LEMMA BitsWritten ==
  ASSUME NEW sig \in SignalSet, NEW payload \in Payloads, NEW raw \in Int
  PROVE  {i \in 0 .. sig.size - 1 :
            BitOf(sig, i) \in RawToData(payload, sig, raw).ones}
           = BitSet(raw, sig.size)
<1> DEFINE size == sig.size
           written == BitSet(raw, size)
           encoded == RawToData(payload, sig, raw)
<1>1. encoded.ones = (payload.ones \ BitsOf(sig)) \cup {BitOf(sig, i) : i \in written}
  BY DEF RawToData, BitSet, Payloads
<1>2. ASSUME NEW i \in 0 .. size - 1
      PROVE  BitOf(sig, i) \in encoded.ones <=> i \in written
  <2>1. BitOf(sig, i) \in BitsOf(sig)
    BY DEF BitsOf
  <2>2. written \subseteq 0 .. size - 1
    BY DEF BitSet
  <2> HIDE DEF written, encoded
  <2>3. \A j \in written : BitOf(sig, i) = BitOf(sig, j) => i = j
    BY <2>2, BitsDiffer
  <2> QED
    BY <1>1, <2>1, <2>3
<1>3. written \subseteq 0 .. size - 1
  BY DEF BitSet
<1> HIDE DEF written, encoded
<1>4. {i \in 0 .. size - 1 : BitOf(sig, i) \in encoded.ones} = written
  BY <1>2, <1>3
<1> QED
  BY <1>4 DEF written, encoded

(* What rawToSignal makes of a raw value that signalToRaw wrote: an int64_t, *)
(* for every position, size and byte order.                                  *)
LEMMA RawRead ==
  ASSUME NEW sig \in SignalSet, NEW payload \in Payloads, NEW raw \in Int
  PROVE  LET low == -Shifted[sig.size - 1]
             top == sig.size - 1 \in BitSet(raw, sig.size)
         IN RawToSignal(RawToData(payload, sig, raw), sig) =
              IF top /\ sig.signed /\ sig.size = 64 /\ WideShift = 1 THEN -1
              ELSE IF sig.signed \/ sig.size = 64
              THEN ((raw - low) % Shifted[sig.size]) + low
              ELSE raw % Shifted[sig.size]
<1> DEFINE size == sig.size
           low == -Shifted[size - 1]
           encoded == RawToData(payload, sig, raw)
           set == BitSet(raw, size)
           top == size - 1 \in set
           unsigned == NumberOf(set, size)
           extended == IF top THEN unsigned - Shifted[size] ELSE unsigned
<1>1. size \in 1 .. 64
  BY DEF SignalSet
<1>2. RawToSignal(encoded, sig) =
        IF top /\ sig.signed /\ size = 64 /\ WideShift = 1 THEN -1
        ELSE IF top /\ (sig.signed \/ size = 64) THEN unsigned - Shifted[size]
        ELSE unsigned
  <2>1. {i \in 0 .. size - 1 : BitOf(sig, i) \in encoded.ones} = set
    BY BitsWritten
  <2> HIDE DEF set, encoded
  <2> QED
    BY <2>1 DEF RawToSignal
<1>3. unsigned = raw % Shifted[size]
  <2> HIDE DEF size
  <2> QED
    BY <1>1, NumberOfBits
<1>4. extended = ((raw - low) % Shifted[size]) + low
  <2> HIDE DEF size, unsigned
  <2>1. (IF size - 1 \in set THEN (raw % Shifted[size]) - Shifted[size]
         ELSE raw % Shifted[size])
          = ((raw - low) % Shifted[size]) + low
    BY <1>1, SignExtended
  <2> QED
    BY <1>3, <2>1
<1>5. RawToSignal(encoded, sig) =
        IF top /\ sig.signed /\ size = 64 /\ WideShift = 1 THEN -1
        ELSE IF sig.signed \/ size = 64
        THEN ((raw - low) % Shifted[size]) + low
        ELSE raw % Shifted[size]
  <2> HIDE DEF encoded, set, unsigned, low, top, size
  <2>1. CASE sig.signed \/ size = 64
    BY <1>2, <1>4, <2>1
  <2>2. CASE ~(sig.signed \/ size = 64)
    BY <1>2, <1>3, <2>2
  <2> QED
    BY <2>1, <2>2
<1> QED
  BY <1>5

(* For signals of up to 63 bits that is the raw value modulo the range of    *)
(* the bits, signed or not.                                                  *)
THEOREM RawIsWrapped ==
  ASSUME NEW sig \in SignalSet, NEW payload \in Payloads, NEW raw \in Int,
         sig.size < 64
  PROVE  RawToSignal(RawToData(payload, sig, raw), sig) = WrappedRaw(sig, raw)
<1> DEFINE shifted == Shifted[sig.size]
           half == Shifted[sig.size - 1]
<1>1. sig.size # 64
  BY DEF SignalSet
<1>2. RawToSignal(RawToData(payload, sig, raw), sig) =
        IF sig.signed THEN ((raw - (-half)) % shifted) + (-half)
        ELSE raw % shifted
  BY <1>1, RawRead
<1>3. WrappedRaw(sig, raw) =
        IF sig.signed THEN ((raw - (-half)) % shifted) + (-half)
        ELSE ((raw - 0) % shifted) + 0
  BY DEF WrappedRaw
<1>4. raw % shifted \in Int /\ raw - 0 = raw
  <2>1. sig.size \in 0 .. 64
    BY DEF SignalSet
  <2>2. shifted \in Nat /\ shifted > 0
    BY <2>1, ShiftDoubles
  <2> HIDE DEF shifted
  <2> QED
    BY <2>2, DivMod
<1> HIDE DEF shifted, half
<1>5. (raw % shifted) + 0 = raw % shifted
  BY <1>4
<1> QED
  BY <1>2, <1>3, <1>4, <1>5

(* For those of 64 bits it is the raw value itself, an int64_t, also if the  *)
(* signal is unsigned; but a build whose 1ULL << 64 is 1 makes -1 of each    *)
(* negative value of a signed one.                                           *)
THEOREM WideRaw ==
  ASSUME NEW sig \in SignalSet, NEW payload \in Payloads, sig.size = 64,
         NEW raw \in -Shifted[63] .. Shifted[63] - 1
  PROVE  RawToSignal(RawToData(payload, sig, raw), sig) =
           IF raw < 0 /\ sig.signed /\ WideShift = 1 THEN -1 ELSE raw
<1> DEFINE half == Shifted[63]
           twice == Shifted[64]
           top == sig.size - 1 \in BitSet(raw, sig.size)
<1>1. half \in Nat /\ half > 0 /\ twice = 2 * half
  BY ShiftDoubles
<1>2. raw \in Int /\ 64 - 1 = 63
  BY <1>1
<1>3. RawToSignal(RawToData(payload, sig, raw), sig) =
        IF top /\ sig.signed /\ WideShift = 1 THEN -1
        ELSE ((raw - (-half)) % twice) + (-half)
  BY <1>2, RawRead
<1>4. top <=> raw < 0
  <2>1. top <=> (raw \div half) % 2 = 1
    BY <1>2 DEF BitSet
  <2> HIDE DEF half, top
  <2>2. CASE raw < 0
    <3>1. raw + half \in 0 .. half - 1 /\ raw = half * (-1) + (raw + half)
      BY <1>1, <2>2 DEF half
    <3>2. raw \div half = -1
      <4> DEFINE minus == -1
                 r == raw + half
      <4>1. minus \in Int /\ r \in 0 .. half - 1 /\ raw = half * minus + r
        BY <3>1
      <4> HIDE DEF minus, r
      <4>2. raw \div half = minus
        BY <1>1, <1>2, <4>1, DivUnique
      <4> QED
        BY <4>2 DEF minus
    <3> QED
      BY <2>1, <2>2, <3>2
  <2>3. CASE ~(raw < 0)
    <3>1. raw \in 0 .. half - 1
      BY <1>1, <1>2, <2>3 DEF half
    <3>2. raw \div half = 0
      <4> DEFINE zero == 0
      <4>1. zero \in Int /\ raw = half * zero + raw
        BY <1>1, <1>2
      <4> HIDE DEF zero
      <4>2. raw \div half = zero
        BY <1>1, <1>2, <3>1, <4>1, DivUnique
      <4> QED
        BY <4>2 DEF zero
    <3> QED
      BY <2>1, <2>3, <3>2
  <2> QED
    BY <2>2, <2>3
<1>5. ((raw - (-half)) % twice) + (-half) = raw
  <2> DEFINE r == raw - (-half)
  <2>1. r \in 0 .. twice - 1 /\ r \in Int /\ r - half = raw
    BY <1>1
  <2> HIDE DEF r
  <2>2. r % twice = r
    <3> DEFINE zero == 0
    <3>1. zero \in Int /\ r = twice * zero + r /\ twice \in Nat /\ twice > 0
      BY <1>1, <2>1
    <3> HIDE DEF zero, twice
    <3> QED
      BY <2>1, <3>1, DivUnique
  <2> HIDE DEF half, twice
  <2> QED
    BY <1>1, <2>1, <2>2 DEF r
<1> HIDE DEF half, twice, top
<1> QED
  BY <1>3, <1>4, <1>5

(* A value that is given to a signal, of those that doubles hold, is decoded *)
(* to what its raw value is modulo the range of the bits, for every          *)
(* position, byte order and sign.                                            *)
THEOREM DecodedIsEncoded ==
  ASSUME NEW sig \in ExactSignals, NEW payload \in Payloads,
         NEW val \in -MaxExact .. MaxExact, sig.factor # 0
  PROVE  Decoded(SignalToRaw(payload, sig, val), sig) = Wrapped(sig, val)
<1> DEFINE raw == RawOf(sig, val)
<1>1. sig \in SignalSet /\ sig.size < 64
  BY DEF ExactSignals, SignalSet
<1>2. raw \in Int
  <2>1. val \in Int
    BY CodecAssumption
  <2> QED
    BY <1>1, <2>1, RawIsInt
<1> HIDE DEF raw
<1>3. RawToSignal(RawToData(payload, sig, raw), sig) = WrappedRaw(sig, raw)
  BY <1>1, <1>2, RawIsWrapped
<1> QED
  BY <1>3 DEF raw, Decoded, SignalToRaw, Wrapped

-----------------------------------------------------------------------------
(* Types.                                                                    *)

LEMMA DatabaseTypes ==
  ASSUME NEW d \in DOMAIN Databases \cup {None}, NEW m \in DOMAIN MessagesOf(d)
  PROVE  /\ m \in Messages
         /\ Bytes(d, m) \in 0 .. 8
         /\ Initial(d, m) \in Payloads
<1>1. d # None /\ d \in DOMAIN Databases /\ m \in DOMAIN Databases[d]
  BY DEF MessagesOf
<1> QED
  BY <1>1, DatabasesAssumption DEF MessagesOf, Bytes, Initial

LEMMA SignalTypes ==
  ASSUME NEW d \in DOMAIN Databases \cup {None}, NEW m,
         NEW n \in DOMAIN SignalsOf(d, m)
  PROVE  /\ m \in DOMAIN MessagesOf(d)
         /\ n \in Names /\ n.id = m
         /\ SignalsOf(d, m)[n] \in ExactSignals
         /\ SignalsOf(d, m)[n] \in SignalSet
<1>1. m \in DOMAIN MessagesOf(d)
  BY DEF SignalsOf
<1>2. d # None /\ d \in DOMAIN Databases /\ m \in DOMAIN Databases[d]
  BY <1>1 DEF MessagesOf
<1>3. SignalsOf(d, m) = Databases[d][m].signals
  BY <1>1, <1>2 DEF SignalsOf, MessagesOf
<1>4. n \in Names /\ n.id = m /\ SignalsOf(d, m)[n] \in ExactSignals
  BY <1>1, <1>2, <1>3, DatabasesAssumption
<1> QED
  BY <1>1, <1>4 DEF ExactSignals

LEMMA FilledTypes ==
  ASSUME NEW payload \in Payloads, NEW bytes \in 0 .. 8
  PROVE  Filled(payload, bytes) \in Payloads
BY DEF Filled, Payloads

LEMMA SentTypes ==
  ASSUME NEW m \in Messages, NEW payload \in Payloads, wire \in Seq(Wired),
         Len(wire) < MaxWire, wire' = Sent(m, payload)
  PROVE  wire' \in Seq(Wired) /\ Len(wire') <= MaxWire
<1>1. [id |-> m, payload |-> payload] \in Wired
  BY DEF Wired
<1>2. Len(wire) \in Nat /\ MaxWire \in Nat
  BY ConstantsAssumption
<1> QED
  BY <1>1, <1>2 DEF Sent

LEMMA InitType == Init => TypeOK
<1> SUFFICES ASSUME Init PROVE TypeOK
  OBVIOUS
<1>1. rawCache \in [Messages -> Payloads]
  BY DEF Init, NoPayload, Payloads
<1>2. wire \in Seq(Wired) /\ Len(wire) <= MaxWire
  BY ConstantsAssumption DEF Init
<1>3. DOMAIN signalCache = {} /\ DOMAIN newest = {} /\ DOMAIN cleared = {}
  BY DEF Init
<1>4. /\ DOMAIN given = Names /\ unshown = {}
      /\ \A n \in Names : given[n] = None
  BY DEF Init
<1>5. /\ simStarted \in BOOLEAN /\ steady \in BOOLEAN
      /\ db \in DOMAIN Databases /\ dbAtStart \in DOMAIN Databases \cup {None}
  BY DEF Init
<1> QED
  BY <1>1, <1>2, <1>3, <1>4, <1>5 DEF TypeOK

LEMMA NothingGivenType ==
  ASSUME NothingGiven
  PROVE  /\ DOMAIN given' = Names /\ unshown' = {}
         /\ \A n \in Names : given'[n] = None
BY DEF NothingGiven

LEMMA StartType == TypeOK /\ Start => TypeOK'
<1> SUFFICES ASSUME TypeOK, Start PROVE TypeOK'
  OBVIOUS
<1>1. rawCache' \in [Messages -> Payloads]
  <2>1. InitCache(db) \in [Messages -> Payloads]
    BY DatabaseTypes DEF InitCache, TypeOK, NoPayload, Payloads
  <2> QED
    BY <2>1 DEF Start
<1>2. DOMAIN signalCache' = {} /\ DOMAIN newest' = {} /\ DOMAIN cleared' = {}
  BY DEF Start
<1> QED
  BY <1>1, <1>2, NothingGivenType DEF Start, TypeOK

LEMMA RcvSignalType ==
  ASSUME NEW n \in Names, NEW val \in Given(n), TypeOK, RcvSignal(n, val)
  PROVE  TypeOK'
<1> DEFINE sig == SignalsOf(db, n.id)[n]
           cache == Filled(rawCache[n.id], Bytes(db, n.id))
           payload == SignalToRaw(cache, sig, val)
<1>1. /\ sig \in SignalSet /\ n.id \in Messages
      /\ cache \in Payloads
  BY SignalTypes, DatabaseTypes, FilledTypes DEF RcvSignal, TypeOK
<1>2. CASE Fits(sig, cache) /\ sig.factor # 0
  <2>1. payload \in Payloads
    BY <1>1, <1>2, EncodedPayload
  <2>2. /\ rawCache' = [rawCache EXCEPT ![n.id] = payload]
        /\ given' = [given EXCEPT ![n] = val]
        /\ unshown' = unshown \cup {n}
        /\ \/ wire' = wire
           \/ Len(wire) < MaxWire /\ wire' = Sent(n.id, payload)
    BY <1>2 DEF RcvSignal
  <2> HIDE DEF payload, cache, sig
  <2>3. rawCache' \in [Messages -> Payloads]
    BY <1>1, <2>1, <2>2 DEF TypeOK
  <2>4. wire' \in Seq(Wired) /\ Len(wire') <= MaxWire
    BY <1>1, <2>1, <2>2, SentTypes DEF TypeOK
  <2>5. val # None
    BY ConstantsAssumption
  <2>6. /\ DOMAIN given' = Names
        /\ unshown' \subseteq {k \in Names : given'[k] # None}
        /\ \A k \in Names : given'[k] # None => given'[k] \in Given(k)
    BY <2>2, <2>5 DEF TypeOK
  <2> QED
    BY <2>3, <2>4, <2>6 DEF RcvSignal, TypeOK, decoder
<1>3. CASE ~(Fits(sig, cache) /\ sig.factor # 0)
  <2>1. /\ rawCache' = [rawCache EXCEPT ![n.id] = cache]
        /\ UNCHANGED <<given, unshown, wire>>
    BY <1>3 DEF RcvSignal
  <2> HIDE DEF cache
  <2>2. rawCache' \in [Messages -> Payloads]
    BY <1>1, <2>1 DEF TypeOK
  <2> QED
    BY <2>1, <2>2 DEF RcvSignal, TypeOK, decoder
<1> QED
  BY <1>2, <1>3

LEMMA TimeoutType ==
  ASSUME NEW m \in Messages, TypeOK, Timeout(m)
  PROVE  TypeOK'
<1> DEFINE payload == Filled(rawCache[m], Bytes(dbAtStart, m))
<1>1. payload \in Payloads
  BY DatabaseTypes, FilledTypes DEF Timeout, Periodic, TypeOK
<1>2. /\ rawCache' = [rawCache EXCEPT ![m] = payload]
      /\ wire' = Sent(m, payload) /\ Len(wire) < MaxWire
  BY DEF Timeout
<1> HIDE DEF payload
<1>3. rawCache' \in [Messages -> Payloads]
  BY <1>1, <1>2 DEF TypeOK
<1>4. wire' \in Seq(Wired) /\ Len(wire') <= MaxWire
  BY <1>1, <1>2, SentTypes DEF TypeOK
<1> QED
  BY <1>3, <1>4 DEF Timeout, TypeOK, decoder, history

LEMMA DecodeFrameType == TypeOK /\ DecodeFrame => TypeOK'
<1> SUFFICES ASSUME TypeOK, DecodeFrame PROVE TypeOK'
  OBVIOUS
<1> DEFINE frame == Head(wire)
           sigs == SignalsOf(db, frame.id)
           read == {n \in DOMAIN sigs : Fits(sigs[n], frame.payload)}
           value == [n \in read |-> Decoded(frame.payload, sigs[n])]
           changed == {n \in read : n \in DOMAIN signalCache =>
                                      signalCache[n] # value[n]}
<1>1. read \subseteq Names
  BY SignalTypes DEF TypeOK
<1>2. /\ signalCache' = With(signalCache, value)
      /\ \/ /\ newest' = With(newest, [n \in changed |-> value[n]])
            /\ cleared' = [n \in DOMAIN cleared \ changed |-> cleared[n]]
         \/ newest' = newest /\ cleared' = cleared
      /\ unshown' \subseteq unshown
  BY DEF DecodeFrame
<1>3. DOMAIN value = read /\ DOMAIN [n \in changed |-> value[n]] = changed
      /\ changed \subseteq read
  OBVIOUS
<1> HIDE DEF value, changed, read
<1>4. /\ DOMAIN signalCache' \subseteq Names /\ DOMAIN newest' \subseteq Names
      /\ DOMAIN cleared' \subseteq Names
  BY <1>1, <1>2, <1>3 DEF With, TypeOK
<1>5. wire' \in Seq(Wired) /\ Len(wire') <= MaxWire
  <2>1. wire # <<>> /\ wire' = Tail(wire) /\ wire \in Seq(Wired)
    BY DEF DecodeFrame, TypeOK
  <2>2. wire' \in Seq(Wired) /\ Len(wire') = Len(wire) - 1
    BY <2>1
  <2>3. Len(wire) \in Nat /\ MaxWire \in Nat /\ Len(wire) <= MaxWire
    BY ConstantsAssumption DEF TypeOK
  <2> QED
    BY <2>2, <2>3
<1> QED
  BY <1>2, <1>4, <1>5 DEF DecodeFrame, TypeOK, encoder

LEMMA StepType == TypeOK /\ [Next]_vars => TypeOK'
<1> SUFFICES ASSUME TypeOK, [Next]_vars PROVE TypeOK'
  OBVIOUS
<1>1. CASE Start
  BY <1>1, StartType
<1>2. CASE Stop
  <2>1. PICK n \in 0 .. Len(wire) : wire' = SubSeq(wire, 1, n)
    BY <1>2 DEF Stop
  <2>2. wire \in Seq(Wired) /\ Len(wire) \in Nat /\ MaxWire \in Nat
        /\ Len(wire) <= MaxWire
    BY ConstantsAssumption DEF TypeOK
  <2>3. wire' \in Seq(Wired) /\ Len(wire') = n
    BY <2>1, <2>2, \A k \in 1 .. n : wire[k] \in Wired
  <2>4. Len(wire') <= MaxWire
    BY <2>2, <2>3
  <2>5. DOMAIN cleared' = {}
    BY <1>2 DEF Stop
  <2>6. /\ DOMAIN given' = Names /\ unshown' = {}
        /\ \A k \in Names : given'[k] = None
    BY <1>2, NothingGivenType DEF Stop
  <2>7. /\ simStarted' \in BOOLEAN /\ steady' \in BOOLEAN
        /\ db' \in DOMAIN Databases /\ dbAtStart' \in DOMAIN Databases \cup {None}
        /\ rawCache' \in [Messages -> Payloads]
        /\ DOMAIN signalCache' \subseteq Names /\ DOMAIN newest' \subseteq Names
    BY <1>2 DEF Stop, TypeOK
  <2> QED
    BY <2>3, <2>4, <2>5, <2>6, <2>7 DEF TypeOK
<1>3. CASE ChangeDb
  BY <1>3, NothingGivenType DEF ChangeDb, TypeOK, encoder, decoder
<1>4. CASE \E n \in Names : \E val \in Given(n) : RcvSignal(n, val)
  BY <1>4, RcvSignalType
<1>5. CASE \E m \in Messages : Timeout(m)
  BY <1>5, TimeoutType
<1>6. CASE ReceiveForeign
  <2>1. PICK frame \in Foreign : wire' = Sent(frame.id, frame.payload)
    BY <1>6 DEF ReceiveForeign
  <2>2. frame.id \in Messages /\ frame.payload \in Payloads
    BY ConstantsAssumption DEF Wired
  <2>3. wire' \in Seq(Wired) /\ Len(wire') <= MaxWire
    BY <1>6, <2>1, <2>2, SentTypes DEF ReceiveForeign, TypeOK
  <2> QED
    BY <1>6, <2>3 DEF ReceiveForeign, TypeOK, encoder, decoder, history
<1>7. CASE DecodeFrame
  BY <1>7, DecodeFrameType
<1>8. CASE UNCHANGED vars
  BY <1>8 DEF vars, TypeOK, encoder, decoder, history
<1>9. CASE Clear
  BY <1>9 DEF Clear, With, TypeOK, encoder, history
<1> QED
  BY <1>1, <1>2, <1>3, <1>4, <1>5, <1>6, <1>7, <1>8, <1>9 DEF Next

(* Type correctness: the cache of every message holds a payload of at most   *)
(* the bits it has.                                                          *)
THEOREM TypeCorrect == Spec => []TypeOK
<1> QED
  BY InitType, StepType, PTL DEF Spec

-----------------------------------------------------------------------------
(* The viewer and the decoder.                                               *)

(* What the decoder sends is enough: rows that have the values remembered    *)
(* have the new ones after those that changed were sent.                     *)
LEMMA ChangedIsEnough ==
  ASSUME NEW old, NEW value, old = [n \in DOMAIN old |-> old[n]]
  PROVE  LET changed == {n \in DOMAIN value :
                           n \in DOMAIN old => old[n] # value[n]}
         IN With(old, [n \in changed |-> value[n]]) = With(old, value)
<1> DEFINE read == DOMAIN value
           changed == {n \in read : n \in DOMAIN old => old[n] # value[n]}
           sent == [n \in changed |-> value[n]]
<1>1. DOMAIN sent = changed
  OBVIOUS
<1>2. changed \cup DOMAIN old = read \cup DOMAIN old
  OBVIOUS
<1>3. \A n \in read \cup DOMAIN old :
        (IF n \in changed THEN sent[n] ELSE old[n])
          = (IF n \in read THEN value[n] ELSE old[n])
  OBVIOUS
<1> HIDE DEF changed, sent
<1>4. With(old, sent) = With(old, value)
  BY <1>1, <1>2, <1>3 DEF With
<1> QED
  BY <1>4 DEF changed, sent

(* Rows that Clear removed are forgotten only when others follow.            *)
LEMMA ClearedAndSent ==
  ASSUME NEW old, NEW shown, NEW sent
  PROVE  LET kept == [n \in DOMAIN old \ DOMAIN sent |-> old[n]]
         IN With(kept, With(shown, sent)) = With(With(old, shown), sent)
<1> DEFINE kept == [n \in DOMAIN old \ DOMAIN sent |-> old[n]]
           left == With(kept, With(shown, sent))
           right == With(With(old, shown), sent)
<1>1. /\ DOMAIN kept = DOMAIN old \ DOMAIN sent
      /\ \A n \in DOMAIN kept : kept[n] = old[n]
  OBVIOUS
<1> HIDE DEF kept
<1>2. /\ DOMAIN With(shown, sent) = DOMAIN sent \cup DOMAIN shown
      /\ \A n \in DOMAIN sent \cup DOMAIN shown :
           With(shown, sent)[n] = IF n \in DOMAIN sent THEN sent[n] ELSE shown[n]
      /\ DOMAIN With(old, shown) = DOMAIN shown \cup DOMAIN old
      /\ \A n \in DOMAIN shown \cup DOMAIN old :
           With(old, shown)[n] = IF n \in DOMAIN shown THEN shown[n] ELSE old[n]
  BY DEF With
<1> DEFINE both == DOMAIN sent \cup DOMAIN shown \cup DOMAIN old
<1>3. left = [n \in both |-> IF n \in DOMAIN With(shown, sent)
                             THEN With(shown, sent)[n] ELSE kept[n]]
  <2>1. DOMAIN With(shown, sent) \cup DOMAIN kept = both
    BY <1>1, <1>2
  <2> HIDE DEF both
  <2> QED
    BY <2>1 DEF With
<1>4. right = [n \in both |-> IF n \in DOMAIN sent THEN sent[n]
                              ELSE With(old, shown)[n]]
  <2>1. DOMAIN sent \cup DOMAIN With(old, shown) = both
    BY <1>2
  <2> HIDE DEF both
  <2> QED
    BY <2>1 DEF With
<1>5. ASSUME NEW n \in both
      PROVE  (IF n \in DOMAIN With(shown, sent) THEN With(shown, sent)[n]
              ELSE kept[n])
               = (IF n \in DOMAIN sent THEN sent[n] ELSE With(old, shown)[n])
  BY <1>1, <1>2
<1>6. left = right
  <2> HIDE DEF left, right, both
  <2> QED
    BY <1>3, <1>4, <1>5
<1> QED
  BY <1>6 DEF kept

LEMMA WithNothing ==
  /\ With(<<>>, <<>>) = <<>>
  /\ \A old, new : With(With(old, new), <<>>) = With(old, new)
<1>1. DOMAIN <<>> = {}
  OBVIOUS
<1>2. With(<<>>, <<>>) = <<>>
  BY <1>1 DEF With
<1>3. ASSUME NEW old, NEW new PROVE With(With(old, new), <<>>) = With(old, new)
  BY <1>1 DEF With
<1> QED
  BY <1>2, <1>3

LEMMA StepViewer == RowsAreDecoded /\ [Next]_vars => RowsAreDecoded'
<1> SUFFICES ASSUME RowsAreDecoded, [Next]_vars, simStarted'
             PROVE  With(cleared', newest') = signalCache'
  BY DEF RowsAreDecoded
<1>1. CASE Start
  BY <1>1, WithNothing DEF Start
<1>2. CASE Stop
  BY <1>2 DEF Stop
<1>3. CASE UNCHANGED <<simStarted, decoder>>
  BY <1>3 DEF decoder, RowsAreDecoded
<1>4. CASE Clear
  BY <1>4, WithNothing DEF Clear, RowsAreDecoded
<1>5. CASE ChangeDb
  BY <1>3, <1>5 DEF ChangeDb
<1>6. CASE \E n \in Names : \E val \in Given(n) : RcvSignal(n, val)
  BY <1>3, <1>6 DEF RcvSignal
<1>7. CASE \E m \in Messages : Timeout(m)
  BY <1>3, <1>7 DEF Timeout
<1>8. CASE ReceiveForeign
  BY <1>3, <1>8 DEF ReceiveForeign
<1>9. CASE DecodeFrame
  <2> DEFINE frame == Head(wire)
             sigs == SignalsOf(db, frame.id)
             read == {n \in DOMAIN sigs : Fits(sigs[n], frame.payload)}
             value == [n \in read |-> Decoded(frame.payload, sigs[n])]
             changed == {n \in read : n \in DOMAIN signalCache =>
                                        signalCache[n] # value[n]}
             sent == [n \in changed |-> value[n]]
  <2>1. /\ signalCache' = With(signalCache, value)
        /\ newest' = With(newest, sent)
        /\ cleared' = [n \in DOMAIN cleared \ changed |-> cleared[n]]
        /\ simStarted
    BY <1>9 DEF DecodeFrame
  <2>2. With(cleared, newest) = signalCache
    BY <2>1 DEF RowsAreDecoded
  <2>3. With(signalCache, sent) = With(signalCache, value)
    <3>1. read = DOMAIN value
      OBVIOUS
    <3>2. signalCache = [n \in DOMAIN signalCache |-> signalCache[n]]
      BY <2>2 DEF With
    <3> HIDE DEF read, value
    <3> QED
      BY <3>1, <3>2, ChangedIsEnough
  <2>4. DOMAIN sent = changed
    OBVIOUS
  <2> HIDE DEF sent, value, changed
  <2>5. With(cleared', newest') = With(With(cleared, newest), sent)
    BY <2>1, <2>4, ClearedAndSent
  <2> QED
    BY <2>1, <2>2, <2>3, <2>5
<1>10. CASE UNCHANGED vars
  BY <1>3, <1>10 DEF vars
<1> QED
  BY <1>1, <1>2, <1>4, <1>5, <1>6, <1>7, <1>8, <1>9, <1>10 DEF Next

(* Whatever is decoded, while the simulation runs or not, whatever the       *)
(* databases are, and whenever Clear is pressed: each row of a viewer that   *)
(* runs shows what was decoded last, and a signal has none only if it still  *)
(* has the value of a row that Clear removed.                                *)
THEOREM ViewerShowsDecoded == Spec => []RowsAreDecoded
<1>1. Init => RowsAreDecoded
  BY DEF Init, RowsAreDecoded
<1> QED
  BY <1>1, StepViewer, PTL DEF Spec

-----------------------------------------------------------------------------
(* The encoder's cache.                                                      *)

(* A value that is given to one signal of a message changes nothing of what  *)
(* its cache says of another signal that has other bits, unless the message  *)
(* has become longer than its cache, which is then begun anew.               *)
OthersUndisturbed ==
  \A n \in Names : \A val \in Given(n) :
    LET sigs == SignalsOf(db, n.id)
    IN RcvSignal(n, val) /\ rawCache[n.id].bytes >= Bytes(db, n.id) =>
         \A other \in DOMAIN sigs :
           BitsOf(sigs[n]) \cap BitsOf(sigs[other]) = {} =>
             Decoded(rawCache'[n.id], sigs[other])
               = Decoded(rawCache[n.id], sigs[other])

LEMMA StepOthers == TypeOK => OthersUndisturbed
<1> SUFFICES ASSUME TypeOK, NEW n \in Names, NEW val \in Given(n),
                    RcvSignal(n, val), rawCache[n.id].bytes >= Bytes(db, n.id),
                    NEW other \in DOMAIN SignalsOf(db, n.id),
                    BitsOf(SignalsOf(db, n.id)[n])
                      \cap BitsOf(SignalsOf(db, n.id)[other]) = {}
             PROVE  Decoded(rawCache'[n.id], SignalsOf(db, n.id)[other])
                      = Decoded(rawCache[n.id], SignalsOf(db, n.id)[other])
  BY DEF OthersUndisturbed
<1> DEFINE sigs == SignalsOf(db, n.id)
           cache == rawCache[n.id]
<1>1. /\ sigs[n] \in SignalSet /\ sigs[other] \in SignalSet
      /\ n.id \in Messages /\ cache \in Payloads
  BY SignalTypes, DatabaseTypes DEF RcvSignal, TypeOK
<1>2. Filled(cache, Bytes(db, n.id)) = cache
  <2>1. Bytes(db, n.id) \in 0 .. 8
    BY SignalTypes, DatabaseTypes DEF RcvSignal, TypeOK
  <2>2. cache.bytes \in 0 .. 8
    BY <1>1 DEF Payloads
  <2> QED
    BY <2>1, <2>2 DEF Filled
<1>3. \/ /\ Fits(sigs[n], cache)
         /\ rawCache'[n.id] = SignalToRaw(cache, sigs[n], val)
      \/ rawCache'[n.id] = cache
  BY <1>1, <1>2 DEF RcvSignal, TypeOK
<1> HIDE DEF sigs, cache
<1>4. Decoded(rawCache'[n.id], sigs[other]) = Decoded(cache, sigs[other])
  BY <1>1, <1>3, OthersKept DEF sigs
<1> QED
  BY <1>4 DEF sigs, cache

(* encodeSignal leaves the other signals of a frame as they are.             *)
THEOREM EncodingDisturbsNoOther == Spec => [][OthersUndisturbed]_vars
<1> QED
  BY TypeCorrect, StepOthers, PTL DEF Spec
-----------------------------------------------------------------------------
(* What the cache holds.                                                     *)

(* No other signal of the message has a bit of this one.                     *)
Apart(sigs, n) ==
  \A other \in DOMAIN sigs \ {n} : BitsOf(sigs[other]) \cap BitsOf(sigs[n]) = {}

(* CacheHoldsGiven of the signals that share no bit with others: no database *)
(* need have such signals only, and the code asks of none that it has.       *)
ApartHoldGiven ==
  simStarted /\ steady =>
    \A n \in Names :
      LET sigs == SignalsOf(db, n.id)
          cache == rawCache[n.id]
      IN n \in DOMAIN sigs /\ Apart(sigs, n) /\ cache.bytes >= Bytes(db, n.id)
           /\ Fits(sigs[n], cache) =>
           Decoded(cache, sigs[n]) =
             IF given[n] # None THEN Wrapped(sigs[n], given[n])
             ELSE Decoded(Filled(Initial(db, n.id), Bytes(db, n.id)), sigs[n])

(* A message whose cache is still to be filled has the cache of the start,   *)
(* and no value was given to it ...                                          *)
Untouched(m) ==
  /\ rawCache[m] = Initial(db, m)
  /\ \A n \in DOMAIN SignalsOf(db, m) : given[n] = None

(* ... and else a cache says of a signal what it should.                     *)
Says(m, n, cache, val) ==
  LET sigs == SignalsOf(db, m)
  IN Apart(sigs, n) /\ Fits(sigs[n], cache) =>
       Decoded(cache, sigs[n]) =
         IF val # None THEN Wrapped(sigs[n], val)
         ELSE Decoded(Filled(Initial(db, m), Bytes(db, m)), sigs[n])

Kept(m) ==
  IF rawCache[m].bytes < Bytes(db, m) THEN Untouched(m)
  ELSE \A n \in DOMAIN SignalsOf(db, m) : Says(m, n, rawCache[m], given[n])

(* The inductive invariant: besides, the timers and the encoder work with    *)
(* the same database.                                                        *)
CacheInv ==
  simStarted /\ steady => /\ dbAtStart = db
                          /\ \A m \in DOMAIN MessagesOf(db) : Kept(m)

LEMMA CacheInvHolds == TypeOK /\ CacheInv => ApartHoldGiven
<1> SUFFICES ASSUME TypeOK, CacheInv, simStarted, steady, NEW n \in Names,
                    n \in DOMAIN SignalsOf(db, n.id),
                    Apart(SignalsOf(db, n.id), n),
                    rawCache[n.id].bytes >= Bytes(db, n.id),
                    Fits(SignalsOf(db, n.id)[n], rawCache[n.id])
             PROVE  Decoded(rawCache[n.id], SignalsOf(db, n.id)[n]) =
                      IF given[n] # None
                      THEN Wrapped(SignalsOf(db, n.id)[n], given[n])
                      ELSE Decoded(Filled(Initial(db, n.id), Bytes(db, n.id)),
                                   SignalsOf(db, n.id)[n])
  BY DEF ApartHoldGiven
<1>1. n.id \in DOMAIN MessagesOf(db)
  BY SignalTypes DEF TypeOK
<1>2. rawCache[n.id].bytes \in Int /\ Bytes(db, n.id) \in Int
  BY <1>1, DatabaseTypes DEF TypeOK, Payloads
<1>3. ~(rawCache[n.id].bytes < Bytes(db, n.id))
  BY <1>2
<1>4. Says(n.id, n, rawCache[n.id], given[n])
  BY <1>1, <1>3 DEF CacheInv, Kept
<1> QED
  BY <1>4 DEF Says

(* Filling a cache that is kept makes one that says what it should.          *)
LEMMA FilledSays ==
  ASSUME TypeOK, NEW m \in DOMAIN MessagesOf(db), Kept(m),
         NEW n \in DOMAIN SignalsOf(db, m)
  PROVE  LET cache == Filled(rawCache[m], Bytes(db, m))
         IN /\ cache \in Payloads /\ cache.bytes >= Bytes(db, m)
            /\ Says(m, n, cache, given[n])
<1> DEFINE cache == Filled(rawCache[m], Bytes(db, m))
<1>1. /\ m \in Messages /\ rawCache[m] \in Payloads
      /\ Bytes(db, m) \in 0 .. 8 /\ rawCache[m].bytes \in 0 .. 8
  BY DatabaseTypes DEF TypeOK, Payloads
<1>2. cache \in Payloads
  BY <1>1, FilledTypes
<1>3. cache.bytes >= Bytes(db, m)
  BY <1>1 DEF Filled
<1>4. Says(m, n, cache, given[n])
  <2>1. CASE rawCache[m].bytes < Bytes(db, m)
    <3>1. given[n] = None /\ rawCache[m] = Initial(db, m)
      BY <2>1 DEF Kept, Untouched
    <3> QED
      BY <3>1 DEF Says
  <2>2. CASE ~(rawCache[m].bytes < Bytes(db, m))
    BY <2>2 DEF Kept, Filled
  <2> QED
    BY <2>1, <2>2
<1> QED
  BY <1>2, <1>3, <1>4

(* A step that leaves the database, the cache of a message and what was      *)
(* given to its signals as they are keeps what is kept.                      *)
LEMMA KeptNext ==
  ASSUME NEW m, Kept(m), db' = db, rawCache'[m] = rawCache[m],
         \A n \in DOMAIN SignalsOf(db, m) : given'[n] = given[n]
  PROVE  Kept(m)'
<1>1. /\ SignalsOf(db, m)' = SignalsOf(db, m) /\ Bytes(db, m)' = Bytes(db, m)
      /\ Initial(db, m)' = Initial(db, m)
  BY DEF SignalsOf, Bytes, Initial, MessagesOf
<1>2. CASE rawCache[m].bytes < Bytes(db, m)
  BY <1>1, <1>2 DEF Kept, Untouched
<1>3. CASE ~(rawCache[m].bytes < Bytes(db, m))
  BY <1>1, <1>3 DEF Kept, Says
<1> QED
  BY <1>2, <1>3

(* So does one that leaves a filled cache of which the signals say what they *)
(* should.                                                                   *)
LEMMA KeptFilled ==
  ASSUME NEW m, db' = db, rawCache'[m].bytes \in Nat, Bytes(db, m) \in Nat,
         rawCache'[m].bytes >= Bytes(db, m),
         \A n \in DOMAIN SignalsOf(db, m) : Says(m, n, rawCache'[m], given'[n])
  PROVE  Kept(m)'
<1>1. /\ SignalsOf(db, m)' = SignalsOf(db, m) /\ Bytes(db, m)' = Bytes(db, m)
      /\ Initial(db, m)' = Initial(db, m)
  BY DEF SignalsOf, Bytes, Initial, MessagesOf
<1>2. ~(rawCache'[m].bytes < Bytes(db, m))
  OBVIOUS
<1>3. \A n \in DOMAIN SignalsOf(db, m) : Says(m, n, rawCache[m], given[n])'
  BY <1>1 DEF Says
<1> QED
  BY <1>1, <1>2, <1>3 DEF Kept

LEMMA StartCache == TypeOK /\ Start => CacheInv'
<1> SUFFICES ASSUME TypeOK, Start PROVE CacheInv'
  OBVIOUS
<1>1. db' = db /\ dbAtStart' = db /\ rawCache' = InitCache(db)
      /\ given' = [n \in Names |-> None]
  BY DEF Start, NothingGiven
<1> SUFFICES ASSUME NEW m \in DOMAIN MessagesOf(db) PROVE Kept(m)'
  <2>1. DOMAIN MessagesOf(db)' = DOMAIN MessagesOf(db)
    BY <1>1 DEF MessagesOf
  <2> QED
    BY <1>1, <2>1 DEF CacheInv
<1>2. m \in Messages /\ Bytes(db, m) \in 0 .. 8 /\ Initial(db, m) \in Payloads
  BY DatabaseTypes DEF TypeOK
<1>3. rawCache'[m] = Initial(db, m)
  BY <1>1, <1>2 DEF InitCache
<1>4. \A n \in DOMAIN SignalsOf(db, m) : given'[n] = None
  BY <1>1, SignalTypes DEF TypeOK
<1>5. /\ SignalsOf(db, m)' = SignalsOf(db, m) /\ Bytes(db, m)' = Bytes(db, m)
      /\ Initial(db, m)' = Initial(db, m)
  BY <1>1 DEF SignalsOf, Bytes, Initial, MessagesOf
<1>6. CASE rawCache'[m].bytes < Bytes(db, m)
  BY <1>3, <1>4, <1>5, <1>6 DEF Kept, Untouched
<1>7. CASE ~(rawCache'[m].bytes < Bytes(db, m))
  <2>1. rawCache'[m].bytes \in Nat /\ Bytes(db, m) \in Nat
    BY <1>2, <1>3 DEF Payloads
  <2>2. Filled(Initial(db, m), Bytes(db, m)) = rawCache'[m]
    BY <1>3, <1>7 DEF Filled
  <2>3. \A n \in DOMAIN SignalsOf(db, m) : Says(m, n, rawCache'[m], given'[n])
    BY <1>4, <2>2 DEF Says
  <2> QED
    BY <1>1, <1>7, <2>1, <2>3, KeptFilled
<1> QED
  BY <1>1, <1>6, <1>7

(* A value that is given is in the cache, and those of other signals are     *)
(* where they were.                                                          *)
LEMMA RcvSignalCache ==
  ASSUME NEW n \in Names, NEW val \in Given(n), TypeOK, CacheInv,
         RcvSignal(n, val)
  PROVE  CacheInv'
<1> DEFINE id == n.id
           sigs == SignalsOf(db, id)
           sig == sigs[n]
           cache == Filled(rawCache[id], Bytes(db, id))
           payload == SignalToRaw(cache, sig, val)
           taken == Fits(sig, cache) /\ sig.factor # 0
<1>1. /\ simStarted' = simStarted /\ db' = db /\ dbAtStart' = dbAtStart
      /\ steady' = steady /\ n \in DOMAIN sigs
      /\ IF taken
         THEN rawCache' = [rawCache EXCEPT ![id] = payload]
              /\ given' = [given EXCEPT ![n] = val]
         ELSE rawCache' = [rawCache EXCEPT ![id] = cache] /\ given' = given
  BY DEF RcvSignal
<1>2. DOMAIN MessagesOf(db)' = DOMAIN MessagesOf(db)
  BY <1>1 DEF MessagesOf
<1> SUFFICES ASSUME simStarted, steady, NEW m \in DOMAIN MessagesOf(db)
             PROVE  Kept(m)'
  BY <1>1, <1>2 DEF CacheInv
<1>3. Kept(m) /\ id \in DOMAIN MessagesOf(db) /\ Kept(id)
  BY <1>1, SignalTypes DEF CacheInv, TypeOK
<1>4. /\ id \in Messages /\ m \in Messages /\ Bytes(db, id) \in 0 .. 8
      /\ DOMAIN rawCache = Messages /\ DOMAIN given = Names
  BY <1>3, DatabaseTypes DEF TypeOK
<1>5. CASE m # id
  <2>1. rawCache'[m] = rawCache[m]
    BY <1>1, <1>4, <1>5
  <2>2. \A k \in DOMAIN SignalsOf(db, m) : k # n
    BY <1>5, SignalTypes DEF TypeOK
  <2>3. ASSUME NEW k \in DOMAIN SignalsOf(db, m) PROVE given'[k] = given[k]
    <3>1. k \in Names /\ k # n
      BY <2>2, SignalTypes DEF TypeOK
    <3>2. given' = [given EXCEPT ![n] = val] \/ given' = given
      BY <1>1
    <3> QED
      BY <1>4, <3>1, <3>2
  <2> QED
    BY <1>1, <1>3, <2>1, <2>3, KeptNext
<1>6. CASE m = id
  <2>1. /\ cache \in Payloads /\ cache.bytes >= Bytes(db, id)
        /\ \A k \in DOMAIN sigs : Says(id, k, cache, given[k])
    BY <1>1, <1>3, FilledSays
  <2>2. cache.bytes \in Nat /\ Bytes(db, id) \in Nat
    BY <1>4, <2>1 DEF Payloads
  <2>3. CASE taken
    <3>1. /\ sig \in SignalSet /\ sig \in ExactSignals
          /\ val \in -MaxExact .. MaxExact /\ val # None
      BY <1>1, SignalTypes, ConstantsAssumption DEF TypeOK
    <3>2. rawCache'[id] = payload /\ given' = [given EXCEPT ![n] = val]
      BY <1>1, <1>4, <2>3
    <3>3. payload.bytes = cache.bytes
      BY <2>1, <2>3, <3>1, EncodedPayload
    <3>4. ASSUME NEW k \in DOMAIN sigs PROVE Says(id, k, payload, given'[k])
      <4>1. CASE k = n
        <5>1. given'[k] = val
          BY <1>4, <3>2, <4>1
        <5>2. Decoded(payload, sig) = Wrapped(sig, val)
          BY <2>1, <2>3, <3>1, DecodedIsEncoded
        <5> QED
          BY <3>1, <4>1, <5>1, <5>2 DEF Says
      <4>2. CASE k # n
        <5>1. given'[k] = given[k]
          BY <3>2, <4>2
        <5>2. sigs[k] \in SignalSet
          BY SignalTypes DEF TypeOK
        <5>3. Fits(sigs[k], payload) <=> Fits(sigs[k], cache)
          BY <3>3 DEF Fits
        <5>4. Apart(sigs, k) => Decoded(payload, sigs[k]) = Decoded(cache, sigs[k])
          <6> SUFFICES ASSUME Apart(sigs, k)
                       PROVE  Decoded(payload, sigs[k]) = Decoded(cache, sigs[k])
            OBVIOUS
          <6>1. BitsOf(sig) \cap BitsOf(sigs[k]) = {}
            BY <1>1, <4>2 DEF Apart
          <6> QED
            BY <2>1, <2>3, <3>1, <5>2, <6>1, OthersKept
        <5>5. Says(id, k, cache, given[k])
          BY <2>1
        <5> HIDE DEF payload, cache
        <5> QED
          BY <5>1, <5>3, <5>4, <5>5 DEF Says
      <4> QED
        BY <4>1, <4>2
    <3> HIDE DEF payload, cache
    <3> QED
      BY <1>1, <1>6, <2>1, <2>2, <3>2, <3>3, <3>4, KeptFilled
  <2>4. CASE ~taken
    <3>1. rawCache'[id] = cache /\ given' = given
      BY <1>1, <1>4, <2>4
    <3> HIDE DEF cache
    <3> QED
      BY <1>1, <1>6, <2>1, <2>2, <3>1, KeptFilled
  <2> QED
    BY <2>3, <2>4
<1> QED
  BY <1>5, <1>6

(* A timer fills the cache with the length that the message had at the       *)
(* start, which is the one it has.                                           *)
LEMMA TimeoutCache ==
  ASSUME NEW t \in Messages, TypeOK, CacheInv, Timeout(t)
  PROVE  CacheInv'
<1> DEFINE cache == Filled(rawCache[t], Bytes(dbAtStart, t))
<1>1. /\ UNCHANGED <<simStarted, db, dbAtStart, steady, given>>
      /\ Periodic(dbAtStart, t)
      /\ rawCache' = [rawCache EXCEPT ![t] = cache]
  BY DEF Timeout, history
<1>2. DOMAIN MessagesOf(db)' = DOMAIN MessagesOf(db)
  BY <1>1 DEF MessagesOf
<1> SUFFICES ASSUME simStarted, steady, NEW m \in DOMAIN MessagesOf(db)
             PROVE  Kept(m)'
  BY <1>1, <1>2 DEF CacheInv
<1>3. Kept(m) /\ dbAtStart = db /\ DOMAIN rawCache = Messages
  BY DEF CacheInv, TypeOK
<1>4. m \in Messages /\ Bytes(db, m) \in 0 .. 8 /\ rawCache[m] \in Payloads
  BY DatabaseTypes DEF TypeOK
<1>5. CASE m # t
  <2>1. rawCache'[m] = rawCache[m]
    BY <1>1, <1>3, <1>4, <1>5
  <2> QED
    BY <1>1, <1>3, <2>1, KeptNext
<1>6. CASE m = t
  <2>1. rawCache'[m] = cache
    BY <1>1, <1>3, <1>4, <1>6
  <2>2. cache \in Payloads /\ cache.bytes >= Bytes(db, m)
    <3>1. cache \in Payloads
      BY <1>3, <1>4, <1>6, FilledTypes
    <3>2. cache.bytes >= Bytes(db, m)
      BY <1>3, <1>4, <1>6 DEF Filled, Payloads
    <3> QED
      BY <3>1, <3>2
  <2>3. \A n \in DOMAIN SignalsOf(db, m) : Says(m, n, cache, given[n])
    BY <1>3, <1>6, FilledSays
  <2>4. cache.bytes \in Nat /\ Bytes(db, m) \in Nat
    BY <1>4, <2>2 DEF Payloads
  <2> HIDE DEF cache
  <2> QED
    BY <1>1, <2>1, <2>2, <2>3, <2>4, KeptFilled
<1> QED
  BY <1>5, <1>6

LEMMA StepCache == TypeOK /\ CacheInv /\ [Next]_vars => CacheInv'
<1> SUFFICES ASSUME TypeOK, CacheInv, [Next]_vars PROVE CacheInv'
  OBVIOUS
<1>1. ASSUME UNCHANGED <<simStarted, db, encoder, given, steady>>
      PROVE  CacheInv'
  BY <1>1 DEF CacheInv, Kept, Untouched, Says, SignalsOf, Bytes, Initial,
              MessagesOf, encoder
<1>2. CASE Start
  BY <1>2, StartCache
<1>3. CASE Stop
  BY <1>3 DEF Stop, CacheInv
<1>4. CASE ChangeDb
  BY <1>4 DEF ChangeDb, CacheInv
<1>5. CASE \E n \in Names : \E val \in Given(n) : RcvSignal(n, val)
  BY <1>5, RcvSignalCache
<1>6. CASE \E m \in Messages : Timeout(m)
  BY <1>6, TimeoutCache
<1>7. CASE ReceiveForeign
  BY <1>1, <1>7 DEF ReceiveForeign, history
<1>8. CASE DecodeFrame
  BY <1>1, <1>8 DEF DecodeFrame
<1>9. CASE Clear
  BY <1>1, <1>9 DEF Clear, history
<1>10. CASE UNCHANGED vars
  BY <1>1, <1>10 DEF vars, history
<1> QED
  BY <1>2, <1>3, <1>4, <1>5, <1>6, <1>7, <1>8, <1>9, <1>10 DEF Next

(* While the database stays as it was, whatever is given to which signals: a *)
(* signal that shares no bit decodes from the cache to what was given last.  *)
THEOREM ApartIsGiven == Spec => []ApartHoldGiven
<1>1. Init => CacheInv
  BY DEF Init, CacheInv
<1> QED
  BY <1>1, TypeCorrect, StepCache, CacheInvHolds, PTL DEF Spec

(* With databases in which no two signals of a message overlap, that is the  *)
(* whole cache.                                                              *)
NoneOverlap ==
  \A d \in DOMAIN Databases, n \in Names :
    n \in DOMAIN SignalsOf(d, n.id) => Apart(SignalsOf(d, n.id), n)

THEOREM CacheIsGiven ==
  ASSUME NoneOverlap
  PROVE  Spec => []CacheHoldsGiven
<1>1. TypeOK /\ ApartHoldGiven => CacheHoldsGiven
  BY DEF TypeOK, NoneOverlap, ApartHoldGiven, CacheHoldsGiven
<1> QED
  BY <1>1, TypeCorrect, ApartIsGiven, PTL
=============================================================================
