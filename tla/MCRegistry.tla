---------------------------- MODULE MCRegistry ----------------------------
(* A small instance of Registry for TLC. *)
EXTENDS Registry, TLC

CONSTANTS w1, w2, w3, r1
ThreeWriters == {w1, w2, w3}
OneReader == {r1}
Symmetry == Permutations(ThreeWriters)

Change(kind, key, value) == [kind |-> kind, key |-> key, value |-> value]
MCOps == {Change("method", "m", "h1"), Change("method", "m", "h2"),
          Change("method", "rpc.x", "h1"), Change("error", "7", "h1"),
          Change("error", "-32600", "h1"), Change("use", "default", "mw1"),
          Change("use", "default", "mw2"), Change("interceptor", "default", "h1"),
          Change("setting", "enforced", "h2")}
=============================================================================
