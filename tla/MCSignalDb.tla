----------------------------- MODULE MCSignalDb -----------------------------
(* Two databases and two users, one of which is a sender.  The two files     *)
(* have a message in common; a third one cannot be loaded.                   *)
EXTENDS SignalDb

CONSTANTS d1, d2, encoder, sender, m1, m2

MCMessagesOf == [f \in {"one", "both"} |->
                   IF f = "one" THEN {m1} ELSE {m1, m2}]
MCFiles == {"one", "both", "broken"}
=============================================================================
