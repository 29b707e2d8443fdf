------------------------------ MODULE MCTrace -------------------------------
(* One frame of each kind that a log treats differently: a short one, one    *)
(* with a small extended identifier, and one that is too long to be played.  *)
EXTENDS Trace

MCForeign == {[large |-> FALSE, ext |-> TRUE, length |-> 8],
              [large |-> FALSE, ext |-> FALSE, length |-> 12]}
=============================================================================
