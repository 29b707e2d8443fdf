---------------------------- MODULE MCRawSender ----------------------------
(* Two lines, one id and two payloads for RawSender.                         *)
EXTENDS RawSender

Row(send, text) == [id |-> "x", data |-> "p", remote |-> FALSE,
                    interval |-> TRUE, loop |-> TRUE, send |-> send,
                    text |-> text]

(* An empty table; a line that was sending, and one after it that says       *)
(* nothing of it; a row that is refused and one that ends the restoring.     *)
MCSaved == {<<>>,
            <<Row("yes", "good"), Row("missing", "good")>>,
            <<Row("yes", "refused"), Row("no", "good")>>,
            <<Row("no", "good"), Row("yes", "malformed")>>}
=============================================================================
