------------------------------ MODULE WsClient ------------------------------
(***************************************************************************)
(* The websocket client (jsonrpcws/client.go): goroutines calling Call,    *)
(* CallBatch and Notify, one calling Close, the read loop with the         *)
(* streaming delivery of batch frames, and a peer that may send any frame. *)
(*                                                                         *)
(* A critical section of c.mu is one step; writeMu is held across a write. *)
(* The connection is code of another module, coder/websocket: open or      *)
(* down, and a write that fails may take it down or leave it open.         *)
(***************************************************************************)
EXTENDS Integers, Sequences, FiniteSets

CONSTANTS
    Procs,        \* the goroutines that use the client
    Plans,        \* what they may set out to do: a Request each
    maxBatchSize, \* WithClientMaxBatchSize, 0 for none
    Reader,       \* the goroutine of readLoop
    Closer,       \* a goroutine that calls Close
    None,         \* no goroutine
    PeerFrames,   \* the frames the peer may send
    MaxSeq,       \* bound: how many ids the callers draw
    MaxFrames     \* bound: how many frames the peer sends

(* One call of the API; Call and Notify have a single spec. *)
Request == [op: {"Call", "Notify", "CallBatch"}, specs: Seq({"call", "notify"})]

ASSUME WsThreadsAssumption ==
    /\ Reader # Closer /\ None \notin {Reader, Closer}
    /\ {Reader, Closer, None} \cap Procs = {}
ASSUME WsPlansAssumption ==
    \A plan \in Plans : \A p \in Procs :
        /\ plan[p] \in Request
        /\ plan[p].op = "Call" => plan[p].specs = <<"call">>
        /\ plan[p].op = "Notify" => plan[p].specs = <<"notify">>
ASSUME WsBoundsAssumption == MaxSeq \in Nat /\ MaxFrames \in Nat /\ maxBatchSize \in Nat

Threads == Procs \cup {Reader, Closer}
Keys == 1 .. MaxSeq

(* The id of a response: a number the client may have sent, or one of these. *)
NoID == 0
NullID == -1

(***************************************************************************)
(* A response as readLoop decodes it.  "empty": no result and no error,    *)
(* "junk": it does not decode.  method: the object has one, so that it is  *)
(* a request or a notification of the peer's.                              *)
(***************************************************************************)
Entry == [id: Keys \cup {NoID, NullID}, body: {"result", "empty", "error", "junk"},
          method: BOOLEAN]
NoEntry == [id |-> NoID, body |-> "junk", method |-> FALSE]

(* A frame is one object, or an array of them. *)
Frame == [array: BOOLEAN, entries: Seq(Entry)]
NoFrame == [array |-> TRUE, entries |-> << >>]

ASSUME WsPeerFramesAssumption ==
    \A f \in PeerFrames :
        /\ f \in Frame
        /\ ~f.array => Len(f.entries) = 1
        /\ \A i \in DOMAIN f.entries :
              f.entries[i].method => f.entries[i].body = "empty"

VARIABLES
    pc,       \* per goroutine: where it is
    plan,     \* per caller: what it set out to do (never changes)
    seq,      \* c.seq
    ids,      \* per caller: the id of each spec, NoID for a notification
    pending,  \* the ids in c.pending
    chan,     \* per id: its channel of capacity 1
    results,  \* per caller: the response it took for each spec
    outcome,  \* per caller: what it returned
    lock,     \* the holder of c.writeMu
    conn,     \* the connection
    once,     \* c.closeOnce
    closed,   \* close(c.closed) was called
    inbound,  \* how many frames were read
    frame,    \* the frame the read loop handles
    limit,    \* deliverBatch: len(c.pending) when it began
    scanned,  \* deliverBatch: n
    targets,  \* the channels the read loop still has to send to
    owed      \* history: the ids in c.pending when deliverBatch began

callVars == <<plan, seq, ids, results, outcome>>
closeVars == <<once, closed>>
readVars == <<inbound, frame, limit, scanned, targets, owed>>
vars == <<pc, callVars, pending, chan, lock, conn, closeVars, readVars>>

Init ==
    /\ pc = [t \in Threads |-> IF t = Reader THEN "reading" ELSE "start"]
    /\ plan \in Plans
    /\ seq = 0
    /\ ids = [p \in Procs |-> << >>]
    /\ pending = {}
    /\ chan = [k \in Keys |-> NoEntry]
    /\ results = [p \in Procs |-> [i \in DOMAIN plan[p].specs |-> NoEntry]]
    /\ outcome = [p \in Procs |-> "none"]
    /\ lock = None
    /\ conn = "open"
    /\ once = "free"
    /\ closed = FALSE
    /\ inbound = 0
    /\ frame = NoFrame
    /\ limit = 0
    /\ scanned = 0
    /\ targets = {}
    /\ owed = {}

goto(t, label) == pc' = [pc EXCEPT ![t] = label]
return(p, o) ==
    goto(p, "returned") /\ outcome' = [outcome EXCEPT ![p] = o]

specs(p) == plan[p].specs
idsOf(p) == {ids[p][i] : i \in DOMAIN ids[p]} \ {NoID}

(* The specs p still waits for, and the one its select looks at now. *)
unanswered(p) ==
    {i \in DOMAIN ids[p] : ids[p][i] # NoID /\ results[p][i] = NoEntry}
current(p) == CHOOSE i \in unanswered(p) : \A j \in unanswered(p) : i <= j

(***************************************************************************)
(* Call, CallBatch and Notify.                                             *)
(***************************************************************************)

(* An empty or an oversized batch never reaches the network. *)
RejectLocally(p) ==
    /\ plan[p].op = "CallBatch"
    /\ pc[p] = "start"
    /\ \/ specs(p) = << >> /\ return(p, "ok")
       \/ /\ maxBatchSize > 0 /\ Len(specs(p)) > maxBatchSize
          /\ return(p, "tooLarge")
    /\ UNCHANGED <<plan, seq, ids, results, pending, chan, lock, conn, closeVars, readVars>>

acceptable(p) ==
    plan[p].op = "CallBatch" =>
        specs(p) # << >> /\ (maxBatchSize = 0 \/ Len(specs(p)) <= maxBatchSize)

EnterClosed(p) ==
    /\ pc[p] = "start" /\ acceptable(p) /\ closed
    /\ return(p, "closed")
    /\ UNCHANGED <<plan, seq, ids, results, pending, chan, lock, conn, closeVars, readVars>>

Enter(p) ==
    /\ pc[p] = "start" /\ acceptable(p) /\ ~closed
    /\ goto(p, IF plan[p].op = "Notify" THEN "send" ELSE "draw")
    /\ UNCHANGED <<callVars, pending, chan, lock, conn, closeVars, readVars>>

(* nextID, once per call; MarshalBatch gives a notification none. *)
DrawID(p) ==
    /\ pc[p] = "draw"
    /\ Len(ids[p]) < Len(specs(p))
    /\ LET isCall == specs(p)[Len(ids[p]) + 1] = "call"
       IN  /\ isCall => seq < MaxSeq
           /\ seq' = IF isCall THEN seq + 1 ELSE seq
           /\ ids' = [ids EXCEPT ![p] = Append(@, IF isCall THEN seq' ELSE NoID)]
    /\ UNCHANGED <<pc, plan, results, outcome, pending, chan, lock, conn, closeVars, readVars>>

(* CallBatch registers all its ids in one critical section. *)
Register(p) ==
    /\ pc[p] = "draw"
    /\ Len(ids[p]) = Len(specs(p))
    /\ pending' = pending \cup idsOf(p)
    /\ goto(p, "send")
    /\ UNCHANGED <<callVars, chan, lock, conn, closeVars, readVars>>

(* MarshalBatch fails before anything is registered, send() after.         *)
MarshalFails(p) ==
    /\ \/ plan[p].op = "CallBatch" /\ pc[p] = "draw" /\ goto(p, "returned")
       \/ plan[p].op = "Call" /\ pc[p] = "send" /\ goto(p, "unregister")
       \/ plan[p].op = "Notify" /\ pc[p] = "send" /\ goto(p, "returned")
    /\ outcome' = [outcome EXCEPT ![p] = "notSent"]
    /\ UNCHANGED <<plan, seq, ids, results, pending, chan, lock, conn, closeVars, readVars>>

(* sendFrame. *)
BeginWrite(p) ==
    /\ pc[p] = "send"
    /\ lock = None
    /\ lock' = p
    /\ goto(p, "writing")
    /\ UNCHANGED <<callVars, pending, chan, conn, closeVars, readVars>>

WriteFrame(p) ==
    /\ pc[p] = "writing"
    /\ conn = "open"
    /\ lock' = None
    /\ IF unanswered(p) = {} THEN return(p, "ok")
       ELSE goto(p, "waiting") /\ UNCHANGED outcome
    /\ UNCHANGED <<plan, seq, ids, results, pending, chan, conn, closeVars, readVars>>

(* conn.Write fails.  When it is the caller's ctx that expired in the      *)
(* middle of the frame, the library takes the connection down.             *)
WriteFails(p) ==
    /\ pc[p] = "writing"
    /\ conn' \in {conn, "down"}
    /\ lock' = None
    /\ outcome' = [outcome EXCEPT ![p] = "writeError"]
    /\ goto(p, IF plan[p].op = "Notify" THEN "returned" ELSE "unregister")
    /\ UNCHANGED <<plan, seq, ids, results, pending, chan, closeVars, readVars>>

unregistered(p) == pending \ idsOf(p)

Unregister(p) ==
    /\ pc[p] = "unregister"
    /\ pending' = unregistered(p)
    /\ goto(p, "returned")
    /\ UNCHANGED <<callVars, chan, lock, conn, closeVars, readVars>>

(* Fault: a batch takes whichever of its channels has something. *)
Mut_awaitedID(p) ==
    CHOOSE k \in idsOf(p) : chan[k] # NoEntry \/ \A j \in idsOf(p) : chan[j] = NoEntry

awaitedID(p) == ids[p][current(p)]

(* The select: the response to the current spec, ctx.Done() or c.closed.   *)
TakeResponse(p) ==
    /\ pc[p] = "waiting"
    /\ LET k == awaitedID(p)
       IN  /\ chan[k] # NoEntry
           /\ results' = [results EXCEPT ![p][current(p)] = chan[k]]
           /\ chan' = [chan EXCEPT ![k] = NoEntry]
    /\ IF Cardinality(unanswered(p)) = 1 THEN return(p, "ok")
       ELSE UNCHANGED <<pc, outcome>>
    /\ UNCHANGED <<plan, seq, ids, pending, lock, conn, closeVars, readVars>>

ContextDone(p) ==
    /\ pc[p] = "waiting"
    /\ outcome' = [outcome EXCEPT ![p] = "context"]
    /\ goto(p, "unregister")
    /\ UNCHANGED <<plan, seq, ids, results, pending, chan, lock, conn, closeVars, readVars>>

SeeClosed(p) ==
    /\ pc[p] = "waiting"
    /\ closed
    /\ return(p, "closed")
    /\ UNCHANGED <<plan, seq, ids, results, pending, chan, lock, conn, closeVars, readVars>>

(***************************************************************************)
(* Close, called by the Closer and by the read loop as it leaves.          *)
(***************************************************************************)
BeginClose ==
    /\ pc[Closer] = "start"
    /\ goto(Closer, "once")
    /\ UNCHANGED <<callVars, pending, chan, lock, conn, closeVars, readVars>>

(* Fault: Close does not close the channel the callers select on. *)
Mut_closeClosed == closed

closeClosed == TRUE

CloseClosed(t) ==
    /\ pc[t] = "once"
    /\ once = "free"
    /\ once' = "running"
    /\ closed' = closeClosed
    /\ goto(t, "closing")
    /\ UNCHANGED <<callVars, pending, chan, lock, conn, readVars>>

(* Fault: Close forgets the connection. *)
Mut_connAfterClose == conn

connAfterClose == "down"

(* conn.Close: until it is through, frames may still pass. *)
CloseConn(t) ==
    /\ pc[t] = "closing"
    /\ conn' = connAfterClose
    /\ goto(t, "failing")
    /\ UNCHANGED <<callVars, pending, chan, lock, closeVars, readVars>>

FailPending(t) ==
    /\ pc[t] = "failing"
    /\ pending' = {}
    /\ once' = "done"
    /\ goto(t, "returned")
    /\ UNCHANGED <<callVars, chan, lock, conn, closed, readVars>>

OnceLater(t) ==
    /\ pc[t] = "once"
    /\ once = "done"
    /\ goto(t, "returned")
    /\ UNCHANGED <<callVars, pending, chan, lock, conn, closeVars, readVars>>

(***************************************************************************)
(* readLoop.                                                               *)
(***************************************************************************)
ReadFrame(f) ==
    /\ pc[Reader] = "reading"
    /\ conn = "open"
    /\ inbound < MaxFrames
    /\ inbound' = inbound + 1
    /\ frame' = f
    /\ goto(Reader, "handling")
    /\ UNCHANGED <<callVars, pending, chan, lock, conn, closeVars, limit, scanned, targets, owed>>

(* The peer hangs up, the frame is too large, or the connection is down.   *)
ReadFails ==
    /\ pc[Reader] = "reading"
    /\ conn' = "down"
    /\ goto(Reader, "once")
    /\ UNCHANGED <<callVars, pending, chan, lock, closeVars, readVars>>

readNext ==
    /\ goto(Reader, "reading")
    /\ frame' = NoFrame /\ limit' = 0 /\ scanned' = 0 /\ owed' = {}

single == ~frame.array
object == frame.entries[1]

isPush(e) == e.id = NoID /\ e.body \in {"result", "empty"}
isNullID(i) == i \in {NoID, NullID}

isRejection(e) == e.body = "error" /\ isNullID(e.id)

(* A junk frame, a push without a method, or a response nobody waits for.  *)
DropFrame ==
    /\ pc[Reader] = "handling"
    /\ single
    /\ \/ object.body = "junk"
       \/ isPush(object) /\ ~object.method
       \/ object.body # "junk" /\ ~isPush(object)
          /\ object.id \notin pending /\ ~isRejection(object)
    /\ readNext
    /\ UNCHANGED <<callVars, pending, chan, lock, conn, closeVars, inbound, targets>>

(* handlePush: the user's handler runs on the read loop. *)
HandlePush ==
    /\ pc[Reader] = "handling"
    /\ single /\ isPush(object) /\ object.method
    /\ goto(Reader, "handler")
    /\ UNCHANGED <<callVars, pending, chan, lock, conn, closeVars, readVars>>

HandlerReturns ==
    /\ pc[Reader] = "handler"
    /\ readNext
    /\ UNCHANGED <<callVars, pending, chan, lock, conn, closeVars, inbound, targets>>

delivered(i) == pending \ {i}

deliver(e) ==
    /\ e.id \in pending
    /\ pending' = delivered(e.id)
    /\ targets' = {e.id}
    /\ goto(Reader, "sending")

Deliver ==
    /\ pc[Reader] = "handling"
    /\ single /\ object.body # "junk" /\ ~isPush(object)
    /\ deliver(object)
    /\ UNCHANGED <<callVars, chan, lock, conn, closeVars, inbound, frame, limit, scanned, owed>>

(* failPendingWith: the rejection may belong to any frame in flight. *)
FailPendingWith ==
    /\ pc[Reader] = "handling"
    /\ single /\ isRejection(object)
    /\ targets' = pending
    /\ pending' = {}
    /\ goto(Reader, "sending")
    /\ UNCHANGED <<callVars, chan, lock, conn, closeVars, inbound, frame, limit, scanned, owed>>

BeginBatch ==
    /\ pc[Reader] = "handling"
    /\ frame.array
    /\ limit' = Cardinality(pending)
    /\ owed' = pending
    /\ goto(Reader, "scanning")
    /\ UNCHANGED <<callVars, pending, chan, lock, conn, closeVars, inbound, frame, scanned, targets>>

(* Fault: the scan stops one entry short of its limit. *)
Mut_mayScan == scanned < Len(frame.entries) /\ scanned + 1 < limit

mayScan == scanned < Len(frame.entries) /\ scanned < limit

entry == frame.entries[scanned + 1]

ScanDeliver ==
    /\ pc[Reader] = "scanning"
    /\ mayScan /\ entry.body # "junk"
    /\ deliver(entry)
    /\ scanned' = scanned + 1
    /\ UNCHANGED <<callVars, chan, lock, conn, closeVars, inbound, frame, limit, owed>>

(* An entry nobody waits for counts against the limit too. *)
ScanDrop ==
    /\ pc[Reader] = "scanning"
    /\ mayScan /\ entry.body # "junk" /\ entry.id \notin pending
    /\ scanned' = scanned + 1
    /\ UNCHANGED <<pc, callVars, pending, chan, lock, conn, closeVars, inbound, frame, limit, targets, owed>>

EndBatch ==
    /\ pc[Reader] = "scanning"
    /\ mayScan => entry.body = "junk"
    /\ readNext
    /\ UNCHANGED <<callVars, pending, chan, lock, conn, closeVars, inbound, targets>>

sent == IF frame.array THEN frame.entries[scanned] ELSE object

(* A send on a channel of capacity 1. *)
SendToCall(k) ==
    /\ pc[Reader] = "sending"
    /\ k \in targets
    /\ chan[k] = NoEntry
    /\ chan' = [chan EXCEPT ![k] = sent]
    /\ targets' = targets \ {k}
    /\ UNCHANGED <<pc, callVars, pending, lock, conn, closeVars, inbound, frame, limit, scanned, owed>>

AllSent ==
    /\ pc[Reader] = "sending"
    /\ targets = {}
    /\ IF frame.array
       THEN goto(Reader, "scanning") /\ UNCHANGED <<frame, limit, scanned, owed>>
       ELSE readNext
    /\ UNCHANGED <<callVars, pending, chan, lock, conn, closeVars, inbound, targets>>

(* Everyone has returned; the read loop may still wait for the peer. *)
Done ==
    /\ \A p \in Procs \cup {Closer} : pc[p] = "returned"
    /\ pc[Reader] \in {"reading", "returned"}
    /\ UNCHANGED vars

ProcStep(p) ==
    \/ RejectLocally(p) \/ EnterClosed(p) \/ Enter(p) \/ DrawID(p) \/ Register(p)
    \/ BeginWrite(p) \/ Unregister(p) \/ TakeResponse(p) \/ SeeClosed(p)

CloseStep(t) == CloseClosed(t) \/ CloseConn(t) \/ FailPending(t) \/ OnceLater(t)

ReaderStep ==
    \/ DropFrame \/ HandlePush \/ HandlerReturns \/ Deliver \/ FailPendingWith
    \/ BeginBatch \/ ScanDeliver \/ ScanDrop \/ EndBatch \/ AllSent
    \/ \E k \in Keys : SendToCall(k)

Next ==
    \/ \E p \in Procs : \/ ProcStep(p) \/ MarshalFails(p) \/ ContextDone(p)
                        \/ WriteFrame(p) \/ WriteFails(p)
    \/ BeginClose \/ \E t \in {Reader, Closer} : CloseStep(t)
    \/ ReaderStep \/ ReadFails \/ \E f \in PeerFrames : ReadFrame(f)
    \/ Done

Spec == Init /\ [][Next]_vars

(***************************************************************************)
(* What the scheduler and the library see to: every goroutine runs,        *)
(* mutexes are handed over, notification handlers return, and on a         *)
(* connection that is down Read and Write fail.  Not the peer, the         *)
(* callers' contexts, a call of Close, or a write on an open connection.   *)
(***************************************************************************)
Progress ==
    \/ \E p \in Procs : ProcStep(p) \/ (conn = "down" /\ WriteFails(p))
    \/ \E t \in {Reader, Closer} : CloseStep(t)
    \/ ReaderStep
    \/ conn = "down" /\ ReadFails

(***************************************************************************)
(* Properties.                                                             *)
(***************************************************************************)

(* CallBatch: "Results align by index with specs; notification specs get   *)
(* the zero BatchResult".  Every response a caller took for a spec carries *)
(* the id drawn for that spec, or is a rejection without an id, and a      *)
(* caller that returned ok took one for every call of its frame.           *)
ResultsAlign ==
    \A p \in Procs : \A i \in DOMAIN specs(p) :
        /\ results[p][i] # NoEntry =>
              /\ specs(p)[i] = "call"
              /\ results[p][i].id = ids[p][i] \/ isRejection(results[p][i])
        /\ outcome[p] = "ok" /\ specs(p)[i] = "call" => results[p][i] # NoEntry

(* However calls and batches end, and however that interleaves with Close, *)
(* which drops the map only once the connection takes no more frames, no   *)
(* id stays in the map when everybody has returned.                        *)
NoPendingLeak ==
    (\A p \in Procs : pc[p] = "returned") /\ once # "running" => pending = {}

(* Whatever else a batch frame holds, entries without an id, with foreign  *)
(* ids or with ids seen before: of its first limit entries, the ones that  *)
(* come before anything malformed, each that is the first with an id the   *)
(* map had when deliverBatch began ...                                     *)
covered ==
    {i \in DOMAIN frame.entries :
        /\ i <= limit
        /\ \A j \in 1 .. i : frame.entries[j].body # "junk"
        /\ \A j \in 1 .. i - 1 : frame.entries[j].id # frame.entries[i].id
        /\ frame.entries[i].id \in owed}

(* ... is, once the frame is done with, the response the caller of that id *)
(* has taken or finds in its channel, unless the caller had given up or    *)
(* the client was closed, and the id is out of the map: whoever registered,*)
(* gave up or was answered while the frame was gone through.               *)
AnswersDelivered ==
    [][pc[Reader] = "scanning" /\ pc'[Reader] = "reading" =>
          \A i \in covered : \E p \in Procs : \E j \in DOMAIN ids[p] :
              LET e == frame.entries[i]
              IN  /\ ids[p][j] = e.id /\ e.id \notin pending
                  /\ \/ results[p][j] = e \/ chan[e.id] = e
                     \/ outcome[p] \notin {"none", "ok"} \/ closed]_vars

(* readLoop: the scan of a batch frame "stops once it has delivered as     *)
(* many entries as there are outstanding calls, since a well-behaved       *)
(* server never returns more responses than we sent" (client.go:325).  So, *)
(* of such a server, every answer to a caller waiting for all of them is   *)
(* delivered.  deliverBatch counts the entries it looks at instead         *)
(* (client.go:394), the ones it delivers to nobody included.               *)
WellBehavedServerIsHeard ==
    pc[Reader] = "scanning" /\ (mayScan => entry.body = "junk") =>
        \A p \in Procs :
            /\ pc[p] = "waiting" /\ idsOf(p) \subseteq owed
            /\ Len(frame.entries) <= Len(specs(p))
            /\ \A i \in DOMAIN frame.entries : frame.entries[i].body # "junk"
            /\ idsOf(p) \subseteq {frame.entries[i].id : i \in DOMAIN frame.entries}
            => idsOf(p) \cap pending = {}

(* readLoop "exits when the connection dies, failing everything still      *)
(* pending", and Close fails all pending calls.  Once either has happened, *)
(* the program does not come to rest before every caller has returned,     *)
(* also those queued behind a write that hung and those whose neighbour's  *)
(* ctx expired in the middle of a frame.                                   *)
LossReleasesEveryone ==
    (conn = "down" \/ closed) /\ (\E p \in Procs : pc[p] # "returned")
        => ENABLED Progress
=============================================================================
