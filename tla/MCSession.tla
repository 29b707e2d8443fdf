----------------------------- MODULE MCSession -----------------------------
(* Two ports, and one configuration with another value in every box.         *)
EXTENDS Session

MCConfigs == {Zero, [mode |-> 1, frame |-> 2, buad |-> 3, buadData |-> 5]}
=============================================================================
