---------------------------- MODULE MCStdioServe ----------------------------
(* A small instance of StdioServe for TLC. *)
EXTENDS StdioServe

CONSTANT p1
OnePusher == {p1}
=============================================================================
