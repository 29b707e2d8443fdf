---------------------------- MODULE FrameChannel ----------------------------
(* What a framed serial link promises: frames that are sent come out once,   *)
(* whole and in order for as long as the two ends agree where a packet       *)
(* starts, and only a fault (bytes lost on the line, a buffer thrown away)   *)
(* can end that agreement.  Without it nothing is promised.                  *)
EXTENDS Naturals, Sequences, SequencesExt

CONSTANT Frames        \* the frames that may be sent

VARIABLES owed,        \* frames sent and not yet received in full
          got,         \* frames handed to the receiver so far
          synced,      \* do both ends agree where the next packet starts?
          faults       \* number of faults so far

vars == <<owed, got, synced, faults>>

Init == /\ owed = <<>>
        /\ got = <<>>
        /\ synced = TRUE
        /\ faults = 0

Send == /\ \E f \in Frames : owed' = Append(owed, f)
        /\ UNCHANGED <<got, synced, faults>>

(* Some of the oldest frames arrive; each is received as it was sent.        *)
Deliver == /\ synced
           /\ \E k \in 0 .. Len(owed) :
                /\ got' = got \o SubSeq(owed, 1, k)
                /\ owed' = SubSeq(owed, k + 1, Len(owed))
           /\ UNCHANGED <<synced, faults>>

(* Agreement is lost already: bytes are misread, and may by luck match up.   *)
Misread == /\ ~synced
           /\ IsPrefix(got, got')
           /\ IsSuffix(owed', owed)
           /\ synced' \in BOOLEAN
           /\ UNCHANGED faults

Fault == /\ faults' = faults + 1
         /\ IsSuffix(owed', owed)
         /\ synced' \in BOOLEAN
         /\ UNCHANGED got

Next == Send \/ Deliver \/ Misread \/ Fault

Spec == Init /\ [][Next]_vars
=============================================================================
