--------------------------- MODULE MCStdioClient ---------------------------
(* Small instances of StdioClient for TLC. *)
EXTENDS StdioClient

CONSTANTS c1, c2, n1
TwoCalls == {c1, c2}
OneCall == {c1}
OneNotify == {n1}

AllFrames == {f \in Frame : /\ f.method => f.body = "empty"
                            /\ f.body = "junk" => f = NoFrame}
Rejection(i) == [id |-> i, body |-> "error", method |-> FALSE]
Answer(i) == [id |-> i, body |-> "result", method |-> FALSE]
Push == [id |-> NoID, body |-> "empty", method |-> TRUE]
LiveFrames == {Rejection(NullID), Answer(1), Push}
=============================================================================
