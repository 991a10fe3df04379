----------------------------- MODULE MCWsClient -----------------------------
(* A small instance of WsClient for TLC. *)
EXTENDS WsClient, TLC

CONSTANTS c1, b1
TwoProcs == {c1, b1}

Call == [op |-> "Call", specs |-> <<"call">>]
Notify == [op |-> "Notify", specs |-> <<"notify">>]
Batch(s) == [op |-> "CallBatch", specs |-> s]

(* A call or a notification beside a batch that has a notification between *)
(* two calls; a batch that is one too long, and an empty one.              *)
MCPlans ==
    {c1 :> x @@ b1 :> y :
        x \in {Call, Notify},
        y \in {Batch(<<"call", "notify", "call">>),
               Batch(<<"call", "call", "call", "call">>), Batch(<< >>)}}

Reply(i) == [id |-> i, body |-> "result", method |-> FALSE]
Failure(i) == [Reply(i) EXCEPT !.body = "error"]
PeerRequest(i) == [id |-> i, body |-> "empty", method |-> TRUE]
One(e) == [array |-> FALSE, entries |-> <<e>>]
Many(s) == [array |-> TRUE, entries |-> s]

MCFrames ==
    {One(Reply(1)), One(Failure(2)), One(Failure(NullID)), One(NoEntry),
     One(PeerRequest(NoID)), One(PeerRequest(1)), One(Reply(NoID)),
     Many(<<Reply(1), Reply(2)>>), Many(<<Reply(3), Failure(2)>>),
     Many(<<Reply(3), Reply(1)>>), Many(<<Reply(2), Reply(2), Reply(3)>>),
     Many(<<Reply(1), Failure(NullID), Reply(2)>>), Many(<<Reply(1), NoEntry, Reply(2)>>)}
=============================================================================
