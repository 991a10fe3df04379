----------------------------- MODULE MCWsServe -----------------------------
(* A small instance of WsServe for TLC. *)
EXTENDS WsServe

CONSTANT p1
OnePusher == {p1}
=============================================================================
