---------------------------- MODULE StdioClient ----------------------------
(***************************************************************************)
(* The stdio client (jsonrpcstdio/client.go) with the latching writer it   *)
(* shares with the server (push.go): goroutines calling Call and Notify,   *)
(* one goroutine calling Close, the read loop, and a peer that may send    *)
(* any frame at any time, stop, or break the stream.                       *)
(*                                                                         *)
(* A critical section of c.mu is one step.  The writer's mutex is held     *)
(* across a write that may block, so it is a variable.                     *)
(***************************************************************************)
EXTENDS Integers, Sequences, FiniteSets

CONSTANTS
    Calls,      \* goroutines that make one Call each
    Notifies,   \* goroutines that make one Notify each
    Reader,     \* the goroutine of readLoop
    Closer,     \* a goroutine that calls Close
    None,       \* no goroutine
    PeerFrames, \* the frames the peer may send
    MaxFrames   \* bound: how many frames the peer sends

ASSUME ThreadsAssumption ==
    /\ IsFiniteSet(Calls)
    /\ Calls \cap Notifies = {}
    /\ Reader # Closer
    /\ {Reader, Closer} \cap (Calls \cup Notifies) = {}
    /\ None \notin Calls \cup Notifies \cup {Reader, Closer}
ASSUME MaxFramesAssumption == MaxFrames \in Nat

Procs == Calls \cup Notifies
Threads == Procs \cup {Reader, Closer}
Keys == 1 .. Cardinality(Calls)

(* The id of a frame: a number the client may have sent, or one of these. *)
NoID == 0
NullID == -1

(***************************************************************************)
(* An inbound frame as readLoop decodes it.  "empty" stands for no result  *)
(* and no error (a null result decodes to the same), "junk" for a blank, a *)
(* batch array or bytes that do not decode; method: it has one.            *)
(***************************************************************************)
Frame == [id: Keys \cup {NoID, NullID}, body: {"result", "empty", "error", "junk"},
          method: BOOLEAN]
NoFrame == [id |-> NoID, body |-> "junk", method |-> FALSE]

(* A frame with a method is a request: it has no result and no error. *)
ASSUME PeerFramesAssumption ==
    PeerFrames \subseteq {f \in Frame : f.method => f.body = "empty"}

VARIABLES
    pc,         \* per goroutine: where it is
    seq,        \* c.seq
    id,         \* per call: the id it drew
    pending,    \* c.pending: id |-> the call waiting for it
    chan,       \* per call: its channel of capacity 1
    outcome,    \* per goroutine: what Call or Notify returned
    got,        \* per call: the frame it took from its channel
    lock,       \* the holder of connWriter.mu
    latched,    \* connWriter.closed
    wire,       \* the frames written, each whole or partial
    once,       \* c.closeOnce
    cause,      \* c.cause
    closed,     \* close(c.closed) was called
    stream,     \* the inbound stream
    inbound,    \* how many frames were read
    frame,      \* the frame the read loop handles
    targets     \* the channels the read loop still has to send to

callVars == <<seq, id, outcome, got>>
closeVars == <<once, cause, closed>>
writerVars == <<lock, latched, wire>>
readVars == <<stream, inbound, frame, targets>>
vars == <<pc, pending, chan, callVars, closeVars, writerVars, readVars>>

Init ==
    /\ pc = [t \in Threads |-> IF t = Reader THEN "reading" ELSE "start"]
    /\ seq = 0
    /\ id = [p \in Procs |-> NoID]
    /\ pending = [k \in Keys |-> None]
    /\ chan = [p \in Calls |-> NoFrame]
    /\ outcome = [p \in Procs |-> "none"]
    /\ got = [p \in Calls |-> NoFrame]
    /\ lock = None
    /\ latched = FALSE
    /\ wire = << >>
    /\ once = "free"
    /\ cause = "none"
    /\ closed = FALSE
    /\ stream = "open"
    /\ inbound = 0
    /\ frame = NoFrame
    /\ targets = {}

goto(t, label) == pc' = [pc EXCEPT ![t] = label]
finish(p, o) == outcome' = [outcome EXCEPT ![p] = o]

closedErr == IF cause = "none" THEN "closed" ELSE "closedCause"

(***************************************************************************)
(* Call and Notify.                                                        *)
(***************************************************************************)

(* The non-blocking look at c.closed. *)
EnterClosed(p) ==
    /\ pc[p] = "start"
    /\ closed
    /\ goto(p, "returned")
    /\ finish(p, closedErr)
    /\ UNCHANGED <<pending, chan, seq, id, got, closeVars, writerVars, readVars>>

Enter(p) ==
    /\ pc[p] = "start"
    /\ ~closed
    /\ goto(p, IF p \in Calls THEN "nextID" ELSE "send")
    /\ UNCHANGED <<pending, chan, callVars, closeVars, writerVars, readVars>>

nextID(s) == s + 1

DrawID(p) ==
    /\ pc[p] = "nextID"
    /\ seq' = nextID(seq)
    /\ id' = [id EXCEPT ![p] = nextID(seq)]
    /\ goto(p, "register")
    /\ UNCHANGED <<pending, chan, outcome, got, closeVars, writerVars, readVars>>

Register(p) ==
    /\ pc[p] = "register"
    /\ pending' = [pending EXCEPT ![id[p]] = p]
    /\ goto(p, "send")
    /\ UNCHANGED <<chan, callVars, closeVars, writerVars, readVars>>

(* After a failed send: a call unregisters, a notification just returns. *)
leaveSend(p) == goto(p, IF p \in Calls THEN "unregister" ELSE "returned")

(* send: the params do not marshal. *)
MarshalFails(p) ==
    /\ pc[p] = "send"
    /\ finish(p, "notSent")
    /\ leaveSend(p)
    /\ UNCHANGED <<pending, chan, seq, id, got, closeVars, writerVars, readVars>>

(* connWriter.write on a latched writer: errWriterClosed. *)
WriteRefused(p) ==
    /\ pc[p] = "send"
    /\ lock = None
    /\ latched
    /\ goto(p, "refused")
    /\ UNCHANGED <<pending, chan, callVars, closeVars, writerVars, readVars>>

(* send: errWriterClosed becomes closedErr(), read by now. *)
ReportRefusal(p) ==
    /\ pc[p] = "refused"
    /\ finish(p, closedErr)
    /\ leaveSend(p)
    /\ UNCHANGED <<pending, chan, seq, id, got, closeVars, writerVars, readVars>>

BeginWrite(p) ==
    /\ pc[p] = "send"
    /\ lock = None
    /\ ~latched
    /\ lock' = p
    /\ goto(p, "writing")
    /\ UNCHANGED <<pending, chan, callVars, closeVars, latched, wire, readVars>>

WriteFrame(p) ==
    /\ pc[p] = "writing"
    /\ wire' = Append(wire, "whole")
    /\ lock' = None
    /\ IF p \in Calls
       THEN goto(p, "waiting") /\ UNCHANGED outcome
       ELSE goto(p, "returned") /\ finish(p, "sent")
    /\ UNCHANGED <<pending, chan, seq, id, got, closeVars, latched, readVars>>

(* errUnframeable: nothing reached the wire, only this message is lost. *)
Unframeable(p) ==
    /\ pc[p] = "writing"
    /\ lock' = None
    /\ finish(p, "notSent")
    /\ leaveSend(p)
    /\ UNCHANGED <<pending, chan, seq, id, got, closeVars, latched, wire, readVars>>

(* Fault: a failed write does not latch the writer. *)
Mut_latchOnFailure == latched

latchOnFailure == TRUE

(* A write fails, perhaps mid-frame: latch, then fail() = shutdown(err),   *)
(* called with the writer's mutex held.                                    *)
WriteBreaks(p) ==
    /\ pc[p] = "writing"
    /\ wire' = Append(wire, "partial")
    /\ latched' = latchOnFailure
    /\ goto(p, "once")
    /\ UNCHANGED <<pending, chan, callVars, closeVars, lock, readVars>>

WriteFailed(p) ==
    /\ pc[p] = "shut"
    /\ lock' = None
    /\ finish(p, "writeError")
    /\ leaveSend(p)
    /\ UNCHANGED <<pending, chan, seq, id, got, closeVars, latched, wire, readVars>>

(* Fault: a call that gives up stays in the map. *)
Mut_unregistered(p) == pending

unregistered(p) == [pending EXCEPT ![id[p]] = None]

Unregister(p) ==
    /\ pc[p] = "unregister"
    /\ pending' = unregistered(p)
    /\ goto(p, "returned")
    /\ UNCHANGED <<chan, callVars, closeVars, writerVars, readVars>>

(* Call's select: the response, ctx.Done() (any time), or c.closed. *)
TakeResponse(p) ==
    /\ pc[p] = "waiting"
    /\ chan[p] # NoFrame
    /\ chan' = [chan EXCEPT ![p] = NoFrame]
    /\ got' = [got EXCEPT ![p] = chan[p]]
    /\ finish(p, IF chan[p].body = "error" THEN "rpcError" ELSE "success")
    /\ goto(p, "returned")
    /\ UNCHANGED <<pending, seq, id, closeVars, writerVars, readVars>>

ContextDone(p) ==
    /\ pc[p] = "waiting"
    /\ finish(p, "context")
    /\ goto(p, "unregister")
    /\ UNCHANGED <<pending, chan, seq, id, got, closeVars, writerVars, readVars>>

SeeClosed(p) ==
    /\ pc[p] = "waiting"
    /\ closed
    /\ finish(p, closedErr)
    /\ goto(p, "returned")
    /\ UNCHANGED <<pending, chan, seq, id, got, closeVars, writerVars, readVars>>

(***************************************************************************)
(* Close and shutdown.  Close and the end of the read loop both latch the  *)
(* writer first; a failed write is already latched.                        *)
(***************************************************************************)
BeginClose ==
    /\ pc[Closer] = "start"
    /\ goto(Closer, "latch")
    /\ UNCHANGED <<pending, chan, callVars, closeVars, writerVars, readVars>>

(* Fault: connWriter.close is forgotten. *)
Mut_latch == latched

latch == TRUE

(* connWriter.close waits for the mutex, hence for a write in progress. *)
LatchWriter(t) ==
    /\ pc[t] = "latch"
    /\ lock = None
    /\ latched' = latch
    /\ goto(t, "once")
    /\ UNCHANGED <<pending, chan, callVars, closeVars, lock, wire, readVars>>

fatalCause(t) ==
    CASE t \in Procs -> "write"
      [] t = Reader /\ stream = "broken" -> "read"
      [] OTHER -> "none"

(* closeOnce.Do: the first goroutine records its cause ... *)
OnceFirst(t) ==
    /\ pc[t] = "once"
    /\ once = "free"
    /\ once' = "running"
    /\ cause' = fatalCause(t)
    /\ goto(t, "closing")
    /\ UNCHANGED <<pending, chan, callVars, closed, writerVars, readVars>>

(* Fault: shutdown does not close the channel. *)
Mut_closeClosed == closed

closeClosed == TRUE

(* ... closes c.closed ... *)
CloseClosed(t) ==
    /\ pc[t] = "closing"
    /\ closed' = closeClosed
    /\ goto(t, "failing")
    /\ UNCHANGED <<pending, chan, callVars, once, cause, writerVars, readVars>>

(* ... and drops the pending calls. *)
FailPending(t) ==
    /\ pc[t] = "failing"
    /\ pending' = [k \in Keys |-> None]
    /\ once' = "done"
    /\ goto(t, "shut")
    /\ UNCHANGED <<chan, callVars, cause, closed, writerVars, readVars>>

(* A later caller of Do waits until the first is done. *)
OnceLater(t) ==
    /\ pc[t] = "once"
    /\ once = "done"
    /\ goto(t, "shut")
    /\ UNCHANGED <<pending, chan, callVars, closeVars, writerVars, readVars>>

(* Close returns, the read loop exits. *)
EndShutdown(t) ==
    /\ t \in {Reader, Closer}
    /\ pc[t] = "shut"
    /\ goto(t, "returned")
    /\ UNCHANGED <<pending, chan, callVars, closeVars, writerVars, readVars>>

(***************************************************************************)
(* readLoop.                                                               *)
(***************************************************************************)
ReadFrame(f) ==
    /\ pc[Reader] = "reading"
    /\ stream = "open"
    /\ inbound < MaxFrames
    /\ inbound' = inbound + 1
    /\ frame' = f
    /\ goto(Reader, "read")
    /\ UNCHANGED <<pending, chan, callVars, closeVars, writerVars, stream, targets>>

(* A clean end of the stream, or a read or framing error. *)
ReadEnds(end) ==
    /\ pc[Reader] = "reading"
    /\ stream' = end
    /\ goto(Reader, "latch")
    /\ UNCHANGED <<pending, chan, callVars, closeVars, writerVars, inbound, frame, targets>>

closedSeen == closed

StopReading ==
    /\ pc[Reader] = "read"
    /\ closedSeen
    /\ frame' = NoFrame
    /\ goto(Reader, "returned")
    /\ UNCHANGED <<pending, chan, callVars, closeVars, writerVars, stream, inbound, targets>>

(* The frame will be handled, whatever happens to the client from here. *)
HandleFrame ==
    /\ pc[Reader] = "read"
    /\ ~closedSeen
    /\ goto(Reader, "handling")
    /\ UNCHANGED <<pending, chan, callVars, closeVars, writerVars, readVars>>

isPush(f) == f.id = NoID /\ f.body = "empty"

(* Fault: the probe for a server-initiated request is missing. *)
Mut_isRequestFrame(f) == FALSE

isRequestFrame(f) == f.body = "empty" /\ f.id # NoID /\ f.method

isResponse(f) == f.body # "junk" /\ ~isPush(f) /\ ~isRequestFrame(f)

isNullID(i) == i \in {NoID, NullID}

waiterOf(f) == IF f.id \in Keys THEN pending[f.id] ELSE None

DropFrame ==
    /\ pc[Reader] = "handling"
    /\ \/ frame.body = "junk"
       \/ isPush(frame) /\ ~frame.method
       \/ isRequestFrame(frame)
       \/ /\ isResponse(frame)
          /\ waiterOf(frame) = None
          /\ ~(frame.body = "error" /\ isNullID(frame.id))
    /\ frame' = NoFrame
    /\ goto(Reader, "reading")
    /\ UNCHANGED <<pending, chan, callVars, closeVars, writerVars, stream, inbound, targets>>

(* handlePush: the user's handler runs on the read loop. *)
HandlePush ==
    /\ pc[Reader] = "handling"
    /\ isPush(frame)
    /\ frame.method
    /\ goto(Reader, "handler")
    /\ UNCHANGED <<pending, chan, callVars, closeVars, writerVars, stream, inbound, frame, targets>>

HandlerReturns ==
    /\ pc[Reader] = "handler"
    /\ frame' = NoFrame
    /\ goto(Reader, "reading")
    /\ UNCHANGED <<pending, chan, callVars, closeVars, writerVars, stream, inbound, targets>>

(* Fault: deliver leaves the entry in the map. *)
Mut_delivered(i) == pending

delivered(i) == [pending EXCEPT ![i] = None]

Deliver ==
    /\ pc[Reader] = "handling"
    /\ isResponse(frame)
    /\ waiterOf(frame) # None
    /\ pending' = delivered(frame.id)
    /\ targets' = {waiterOf(frame)}
    /\ goto(Reader, "sending")
    /\ UNCHANGED <<chan, callVars, closeVars, writerVars, stream, inbound, frame>>

(* Fault: the calls a rejection takes from the map are not told. *)
Mut_rejected == {}

rejected == {pending[k] : k \in Keys} \ {None}

(* failPendingWith: an error without a usable id fails every pending call. *)
FailPendingWith ==
    /\ pc[Reader] = "handling"
    /\ isResponse(frame)
    /\ frame.body = "error"
    /\ isNullID(frame.id)
    /\ targets' = rejected
    /\ pending' = [k \in Keys |-> None]
    /\ goto(Reader, "sending")
    /\ UNCHANGED <<chan, callVars, closeVars, writerVars, stream, inbound, frame>>

(* A send on a channel of capacity 1. *)
SendToCall(p) ==
    /\ pc[Reader] = "sending"
    /\ p \in targets
    /\ chan[p] = NoFrame
    /\ chan' = [chan EXCEPT ![p] = frame]
    /\ targets' = targets \ {p}
    /\ UNCHANGED <<pc, pending, callVars, closeVars, writerVars, stream, inbound, frame>>

AllSent ==
    /\ pc[Reader] = "sending"
    /\ targets = {}
    /\ frame' = NoFrame
    /\ goto(Reader, "reading")
    /\ UNCHANGED <<pending, chan, callVars, closeVars, writerVars, stream, inbound, targets>>

(* Everyone has returned; the read loop may still wait for the peer. *)
Done ==
    /\ \A t \in Procs \cup {Closer} : pc[t] = "returned"
    /\ pc[Reader] \in {"reading", "returned"}
    /\ UNCHANGED vars

WriteStep(p) == WriteFrame(p) \/ Unframeable(p) \/ WriteBreaks(p)

ProcStep(p) ==
    \/ EnterClosed(p) \/ Enter(p) \/ DrawID(p) \/ Register(p)
    \/ WriteRefused(p) \/ ReportRefusal(p) \/ BeginWrite(p)
    \/ WriteFailed(p) \/ Unregister(p)
    \/ p \in Calls /\ (TakeResponse(p) \/ SeeClosed(p))

ShutdownStep(t) ==
    OnceFirst(t) \/ CloseClosed(t) \/ FailPending(t) \/ OnceLater(t) \/ EndShutdown(t)

ReaderStep ==
    \/ StopReading \/ HandleFrame \/ DropFrame \/ HandlePush \/ HandlerReturns
    \/ Deliver \/ FailPendingWith \/ AllSent \/ LatchWriter(Reader)
    \/ \E p \in Calls : SendToCall(p)

Next ==
    \/ \E p \in Procs : ProcStep(p) \/ WriteStep(p) \/ MarshalFails(p)
    \/ \E p \in Calls : ContextDone(p)
    \/ \E t \in Threads : ShutdownStep(t)
    \/ BeginClose \/ LatchWriter(Closer)
    \/ ReaderStep
    \/ \E f \in PeerFrames : ReadFrame(f)
    \/ \E end \in {"ended", "broken"} : ReadEnds(end)
    \/ Done

Spec == Init /\ [][Next]_vars

(***************************************************************************)
(* Every goroutine is scheduled, mutexes are handed over, a write ends     *)
(* (the peer reads, or its end of the pipe is gone), and a notification    *)
(* handler returns.  Nothing is assumed of the peer's frames, of the       *)
(* callers' contexts, or of Close being called.                            *)
(***************************************************************************)
FairSpec ==
    /\ Spec
    /\ \A p \in Procs : SF_vars(ProcStep(p)) /\ WF_vars(WriteStep(p))
    /\ \A t \in Threads : WF_vars(ShutdownStep(t))
    /\ SF_vars(LatchWriter(Closer))
    /\ SF_vars(ReaderStep)

(***************************************************************************)
(* Properties.                                                             *)
(***************************************************************************)

(* Every variable has its type: ids are numbers the counter has reached,   *)
(* and a pending entry is a call.                                          *)
TypeOK ==
    /\ pc \in [Threads -> {"start", "nextID", "register", "send", "refused",
                           "writing", "waiting", "unregister", "returned",
                           "latch", "once", "closing", "failing", "shut",
                           "reading", "read", "handling", "handler", "sending"}]
    /\ seq \in 0 .. Cardinality(Calls)
    /\ id \in [Procs -> 0 .. seq]
    /\ pending \in [Keys -> Calls \cup {None}]
    /\ chan \in [Calls -> Frame]
    /\ got \in [Calls -> Frame]
    /\ outcome \in [Procs -> {"none", "sent", "success", "rpcError", "context",
                              "closed", "closedCause", "writeError",
                              "notSent"}]
    /\ lock \in Procs \cup {None}
    /\ latched \in BOOLEAN
    /\ wire \in Seq({"whole", "partial"})
    /\ once \in {"free", "running", "done"}
    /\ cause \in {"none", "read", "write"}
    /\ closed \in BOOLEAN
    /\ stream \in {"open", "ended", "broken"}
    /\ inbound \in 0 .. MaxFrames
    /\ frame \in Frame
    /\ targets \in SUBSET Calls

(* client.go, Client: "responses correlate by id, so out-of-order replies  *)
(* are fine".  A call that succeeds was answered by a response with its    *)
(* own id, never by a request of the peer's that reuses the id, and an     *)
(* error it returns is a response to it or an error without an id.         *)
Correlated ==
    \A p \in Calls :
        /\ outcome[p] = "success" =>
              got[p].id = id[p] /\ got[p].body # "error" /\ ~got[p].method
        /\ outcome[p] = "rpcError" =>
              got[p].body = "error" /\ (got[p].id = id[p] \/ isNullID(got[p].id))

(* deliver and failPendingWith: "buffered: never blocks".  Whenever the    *)
(* read loop is about to send to a call's channel, the channel is empty    *)
(* and nothing can be sent to that call afterwards.                        *)
SendNeverBlocks ==
    \A p \in targets : chan[p] = NoFrame /\ \A k \in Keys : pending[k] # p

(* Close: "no frame can be sent after Close returns". *)
NothingSentAfterClose ==
    [][pc[Closer] = "returned" => UNCHANGED wire]_vars

(* NewClient: after a mid-frame failure the client does not "keep          *)
(* appending frames after an orphaned header".                             *)
PartialFrameIsLast ==
    \A k \in 1 .. Len(wire) - 1 : wire[k] = "whole"

(* Whichever way calls end (answered, cancelled, failed to send, closed    *)
(* before, during or after registering), no entry is left in the map.      *)
NoPendingLeak ==
    (\A p \in Procs : pc[p] = "returned") /\ once # "running"
        => pending = [k \in Keys |-> None]

(* When the stream ends, whoever is calling returns: the ones waiting for  *)
(* an answer, the ones about to register, the one in the middle of a write *)
(* and the ones queued behind it.                                          *)
StreamEndReleasesCalls ==
    stream # "open" ~> \A p \in Procs : pc[p] = "returned"

(* readLoop: a rejection without an id must not "let the waiting call hang *)
(* forever": every call waiting when it is read returns.                   *)
RejectionReleasesCalls ==
    \A p \in Calls :
        (/\ pc[Reader] = "handling" /\ frame.body = "error" /\ isNullID(frame.id)
         /\ pc[p] = "waiting") ~> pc[p] = "returned"

(* closedErr: the fatal stream error is "observable instead of every path  *)
(* collapsing into a generic client closed".  When Close was not called    *)
(* and the stream did not end cleanly, no call gets the bare error.        *)
CauseObservable ==
    pc[Closer] = "start" /\ stream # "ended" =>
        \A p \in Procs : outcome[p] # "closed"
=============================================================================
