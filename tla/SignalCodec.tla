---------------------------- MODULE SignalCodec -----------------------------
(* Signals in the payload of a frame, as CanSignalEncoder writes and         *)
(* CanSignalDecoder reads them.  A payload is its number of bytes and the    *)
(* set of its bits that are 1: bit b is data[b / 8] & (1 << b % 8).  A       *)
(* signal is a record of startBit, size, little, signed, factor and offset;  *)
(* its value is factor * raw + offset.  The code computes it with doubles;   *)
(* the numbers here are whole and small enough to be exact in a double (see  *)
(* ExactSignals), but raw values are those of the code, up to 64 bits.       *)
EXTENDS Integers

CONSTANTS MaxExact,   \* whole numbers up to it are exact in a double: 2^51
          WideShift   \* what the build makes of 1ULL << 64, which is undefined

ASSUME CodecAssumption == MaxExact \in Nat /\ WideShift \in {0, 1}

SignalSet == [startBit : 0 .. 63, size : 1 .. 64, little : BOOLEAN,
              signed : BOOLEAN, factor : Nat, offset : Int]

(* 1 << n, for the bits of the largest signal and one more.                  *)
Shifted[n \in 0 .. 64] == IF n = 0 THEN 1 ELSE 2 * Shifted[n - 1]

(* beTransTable: bits counted from the first one on the line, and back.      *)
BeTrans(bit) == 8 * (bit \div 8) + 7 - (bit % 8)

(* A mutant: the second translation is forgotten.                            *)
BitOfOnce(sig, i) ==
  IF sig.little THEN sig.startBit + i
  ELSE BeTrans(sig.startBit) + sig.size - 1 - i

(* Where bit i of the raw value is, bit 0 being the lowest.                  *)
BitOf(sig, i) ==
  IF sig.little THEN sig.startBit + i
  ELSE BeTrans(BeTrans(sig.startBit) + sig.size - 1 - i)

BitsOf(sig) == {BitOf(sig, i) : i \in 0 .. sig.size - 1}

(* A mutant: the start bit of either order is taken as it is.                *)
FitsUntranslated(sig, payload) == sig.startBit + sig.size <= 8 * payload.bytes

Fits(sig, payload) ==
  LET bitsBefore == IF sig.little THEN sig.startBit ELSE BeTrans(sig.startBit)
  IN bitsBefore + sig.size <= 8 * payload.bytes

(* llround of the quotient: halves go away from zero.                        *)
RawOf(sig, val) ==
  LET x == val - sig.offset
      Rounded(y) == (2 * y + sig.factor) \div (2 * sig.factor)
  IN IF x < 0 THEN -Rounded(-x) ELSE Rounded(x)

(* signalToRaw: the bits of the signal, and no other, become those of the    *)
(* raw value; what does not fit into them is cut off.                        *)
RawToData(payload, sig, raw) ==
  LET set == {i \in 0 .. sig.size - 1 : (raw \div Shifted[i]) % 2 = 1}
  IN [payload EXCEPT !.ones = (@ \ BitsOf(sig)) \cup {BitOf(sig, i) : i \in set}]

SignalToRaw(payload, sig, val) == RawToData(payload, sig, RawOf(sig, val))

(* The number whose bits that are 1 are those in the set.                    *)
NumberOf(set, size) ==
  LET lowest[n \in 0 .. size] ==
        IF n = 0 THEN 0
        ELSE lowest[n - 1] + IF n - 1 \in set THEN Shifted[n - 1] ELSE 0
  IN lowest[size]

(* rawToSignal: an int64_t, so that 64 bits are signed whatever the signal   *)
(* is; sign extension ors with ~((1ULL << size) - 1).                        *)
RawToSignal(payload, sig) ==
  LET set == {i \in 0 .. sig.size - 1 : BitOf(sig, i) \in payload.ones}
      unsigned == NumberOf(set, sig.size)
      top == (sig.size - 1) \in set
      wide == sig.size = 64
  IN IF top /\ sig.signed /\ wide /\ WideShift = 1 THEN -1
     ELSE IF top /\ (sig.signed \/ wide) THEN unsigned - Shifted[sig.size]
     ELSE unsigned

(* The scaling in decodeFrame.                                               *)
Decoded(payload, sig) == RawToSignal(payload, sig) * sig.factor + sig.offset
-----------------------------------------------------------------------------
(* A raw value modulo the range that the signal's bits have.                 *)
WrappedRaw(sig, raw) ==
  LET low == IF sig.signed THEN -Shifted[sig.size - 1] ELSE 0
  IN ((raw - low) % Shifted[sig.size]) + low

(* What a value is after it was sent, wherever the bits are.                 *)
Wrapped(sig, val) == WrappedRaw(sig, RawOf(sig, val)) * sig.factor + sig.offset

(* The signals of which a double holds every value.                          *)
ExactSignals ==
  {sig \in SignalSet :
     /\ sig.size <= 52
     /\ Shifted[sig.size] * sig.factor + sig.offset <= MaxExact
     /\ Shifted[sig.size] * sig.factor - sig.offset <= MaxExact}
=============================================================================
