----------------------------- MODULE MCMonitor -----------------------------
(* Two frames, rules that match one of them or both, and tables of two rows. *)
EXTENDS Monitor

CONSTANTS f, g

MCPatterns == {{f}}
MCKeys == Dirs \X Frames
=============================================================================
