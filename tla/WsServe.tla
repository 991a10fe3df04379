------------------------------ MODULE WsServe ------------------------------
(***************************************************************************)
(* One connection of the websocket handler (jsonrpcws/handler.go, push.go):*)
(* the read loop of ServeHTTP, the goroutine of every message in flight,   *)
(* background goroutines that kept the pusher and call Notify at any time, *)
(* the shared writer, and a peer that sends messages, stops reading or     *)
(* goes away.                                                              *)
(*                                                                         *)
(* The connection is code of another module, coder/websocket: "open" or    *)
(* "down".  Dispatching a message is modelled in Dispatch; here it         *)
(* produces a reply or none.                                               *)
(***************************************************************************)
EXTENDS Integers, Sequences, FiniteSets

CONSTANTS
    MaxCalls,     \* the values WithMaxConcurrentCalls may give
    Pushers,      \* background goroutines, each calls Notify once
    None,         \* nobody holds the writer's mutex
    MaxMessages   \* bound: how many messages the peer sends

ASSUME WsMaxCallsAssumption == MaxCalls \subseteq Nat \ {0}
ASSUME WsMaxMessagesAssumption == MaxMessages \in Nat
ASSUME WsPushersAssumption ==
    Pushers \cap (1 .. MaxMessages) = {} /\ None \notin Pushers \cup 1 .. MaxMessages

Messages == 1 .. MaxMessages
Writers == Messages \cup Pushers

VARIABLES
    limit,   \* cap(slots) (never changes)
    main,    \* where the goroutine of ServeHTTP is
    read,    \* how many messages were read
    slots,   \* tokens in the channel "slots"
    pc,      \* per message and pusher: where its goroutine is
    owed,    \* the messages whose dispatch produced a reply
    lock,    \* the holder of connWriter.mu
    wire,    \* the frames written, as their writers
    conn,    \* the connection
    ctxDone  \* the connection's context is cancelled

msgVars == <<limit, read, slots, pc, owed>>
ioVars == <<lock, wire>>
vars == <<main, msgVars, ioVars, conn, ctxDone>>

Init ==
    /\ limit \in MaxCalls
    /\ main = "reading"
    /\ read = 0
    /\ slots = 0
    /\ pc = [w \in Writers |-> "none"]
    /\ owed = {}
    /\ lock = None
    /\ wire = << >>
    /\ conn = "open"
    /\ ctxDone = FALSE

goto(w, label) == pc' = [pc EXCEPT ![w] = label]

(***************************************************************************)
(* ServeHTTP's goroutine.                                                  *)
(***************************************************************************)
ReadFrame ==
    /\ main = "reading"
    /\ conn = "open"
    /\ read < MaxMessages
    /\ read' = read + 1
    /\ main' = "slot"
    /\ UNCHANGED <<limit, slots, pc, owed, ioVars, conn, ctxDone>>

(* conn.Read: the peer closed or dropped, the frame was too large, or the  *)
(* context it reads under has ended; the library closes the connection.    *)
ReadFails ==
    /\ main = "reading"
    /\ conn' = "down"
    /\ main' = "exit"
    /\ UNCHANGED <<msgVars, ioVars, ctxDone>>

slotFree == slots < limit

(* The send on "slots" waits for a free one and for nothing else. *)
TakeSlot ==
    /\ main = "slot"
    /\ slotFree
    /\ slots' = slots + 1
    /\ goto(read, "running")
    /\ main' = "reading"
    /\ UNCHANGED <<limit, read, owed, ioVars, conn, ctxDone>>

(* Fault: the connection's context is not cancelled on the way out. *)
Mut_cancelOnExit == ctxDone

cancelOnExit == TRUE

CancelInFlight ==
    /\ main = "exit"
    /\ ctxDone' = cancelOnExit
    /\ main' = "draining"
    /\ UNCHANGED <<msgVars, ioVars, conn>>

drained == \A m \in Messages : pc[m] \in {"none", "done"}

Drain ==
    /\ main = "draining"
    /\ drained
    /\ main' = "returned"
    /\ conn' = "down"
    /\ UNCHANGED <<msgVars, ioVars, ctxDone>>

(***************************************************************************)
(* The goroutine of a message, and the writer it shares with the pushers.  *)
(***************************************************************************)

(* Fault: the slot of a message that is not answered is not given back. *)
Mut_released(m) == IF m \in owed THEN slots - 1 ELSE slots

released(m) == slots - 1

finish(w) ==
    /\ goto(w, "done")
    /\ slots' = IF w \in Messages THEN released(w) ELSE slots

NoReply(m) ==
    /\ pc[m] = "running"
    /\ finish(m)
    /\ UNCHANGED <<main, limit, read, owed, ioVars, conn, ctxDone>>

HasReply(m) ==
    /\ pc[m] = "running"
    /\ goto(m, "write")
    /\ owed' = owed \cup {m}
    /\ UNCHANGED <<main, limit, read, slots, ioVars, conn, ctxDone>>

(* Notify, by a goroutine a handler left behind; it ignores its own ctx.   *)
BeginNotify(p) ==
    /\ pc[p] = "none"
    /\ read > 0
    /\ goto(p, "write")
    /\ UNCHANGED <<main, limit, read, slots, owed, ioVars, conn, ctxDone>>

BeginWrite(w) ==
    /\ pc[w] = "write"
    /\ lock = None
    /\ lock' = w
    /\ goto(w, "writing")
    /\ UNCHANGED <<main, limit, read, slots, owed, wire, conn, ctxDone>>

WriteFrame(w) ==
    /\ pc[w] = "writing"
    /\ conn = "open"
    /\ wire' = Append(wire, w)
    /\ lock' = None
    /\ finish(w)
    /\ UNCHANGED <<main, limit, read, owed, conn, ctxDone>>

(* Fault: the mutex is released before the connection is torn down. *)
Mut_lockHeld == None

lockHeld == lock

(* The connection is gone, its context has ended or the timeout struck. *)
WriteFails(w) ==
    /\ pc[w] = "writing"
    /\ lock' = lockHeld
    /\ goto(w, "failing")
    /\ UNCHANGED <<main, limit, read, slots, owed, wire, conn, ctxDone>>

(* onError, called with the mutex held: cancel ... *)
CancelOnError(w) ==
    /\ pc[w] = "failing"
    /\ ctxDone' = TRUE
    /\ goto(w, "closing")
    /\ UNCHANGED <<main, limit, read, slots, owed, ioVars, conn>>

(* Fault: a failed write leaves the connection open. *)
Mut_closeNow == conn

closeNow == "down"

(* Fault: the mutex is not released after a failed write. *)
Mut_unlocked == lock

unlocked == None

(* ... then CloseNow. *)
CloseNow(w) ==
    /\ pc[w] = "closing"
    /\ conn' = closeNow
    /\ lock' = unlocked
    /\ finish(w)
    /\ UNCHANGED <<main, limit, read, owed, wire, ctxDone>>

(***************************************************************************)
(* The peer goes away, which only a Read or a Write notices.               *)
(***************************************************************************)
PeerDrops ==
    /\ conn = "open"
    /\ conn' = "down"
    /\ UNCHANGED <<main, msgVars, ioVars, ctxDone>>

Done ==
    /\ main = "returned"
    /\ \A w \in Writers : pc[w] \in {"none", "done"}
    /\ UNCHANGED vars

MainStep == TakeSlot \/ CancelInFlight \/ Drain

DispatchEnds(m) == NoReply(m) \/ HasReply(m)

WriteEnds(w) == WriteFrame(w) \/ WriteFails(w)

WriterStep(w) == BeginWrite(w) \/ CancelOnError(w) \/ CloseNow(w)

Next ==
    \/ MainStep \/ ReadFrame \/ ReadFails
    \/ \E m \in Messages : DispatchEnds(m)
    \/ \E p \in Pushers : BeginNotify(p)
    \/ \E w \in Writers : WriterStep(w) \/ WriteEnds(w)
    \/ PeerDrops
    \/ Done

Spec == Init /\ [][Next]_vars

(***************************************************************************)
(* ServeHTTP's goroutine and the writers run and the mutex is handed to    *)
(* every waiter.  A write ends, because it has a timeout; a read ends once *)
(* the connection is down or its context has ended; a handler returns once *)
(* its context is cancelled.  One whose context is alive may never return, *)
(* and the peer may do nothing.                                            *)
(***************************************************************************)
FairSpec ==
    /\ Spec
    /\ SF_vars(MainStep)
    /\ WF_vars((conn = "down" \/ ctxDone) /\ ReadFails)
    /\ \A m \in Messages : WF_vars(ctxDone /\ DispatchEnds(m))
    /\ \A w \in Writers : SF_vars(WriterStep(w)) /\ WF_vars(WriteEnds(w))

(***************************************************************************)
(* Properties.                                                             *)
(***************************************************************************)

(* WithMaxConcurrentCalls: no more than that many messages are between     *)
(* being dispatched and having their reply written, and the tokens in the  *)
(* channel are exactly theirs: none is lost, however a message ends.       *)
InFlightBound ==
    LET inFlight == {m \in Messages : pc[m] \notin {"none", "done"}}
    IN  Cardinality(inFlight) = slots /\ slots <= limit

(* A reply is written exactly once, or the failure has torn the connection *)
(* down and cancelled everybody: no reply is lost on a connection that     *)
(* goes on.                                                                *)
LostReplyMeansTeardown ==
    \A m \in owed : pc[m] = "done" =>
        LET written == {k \in DOMAIN wire : wire[k] = m}
        IN  \/ Cardinality(written) = 1
            \/ written = {} /\ conn = "down" /\ ctxDone

(* connWriter: a write failure "closes the connection so callers stop      *)
(* queueing behind the mutex": nobody else's frame gets out behind one     *)
(* that failed, also not that of a Notify that was already waiting.        *)
NothingAfterFailure ==
    [][(\E w \in Writers : pc[w] \in {"failing", "closing"}) => UNCHANGED wire]_vars

(* "The read side ending ... closes the session", and so does a write that *)
(* fails: ServeHTTP returns, with every message finished, even when all    *)
(* slots are held by handlers that stop only when cancelled.               *)
SessionEnds ==
    ctxDone \/ (conn = "down" /\ main = "reading")
        ~> main = "returned" /\ \A m \in Messages : pc[m] \in {"none", "done"}

(* "A write failure tears the connection down so no goroutine wedges       *)
(* behind the write mutex".                                                *)
NobodyWedges ==
    \A w \in Writers : pc[w] = "write" ~> pc[w] = "done"

(* handler_test.go: "An abrupt client disconnect must cancel in-flight     *)
(* handler contexts".                                                      *)
DisconnectCancels == conn = "down" ~> ctxDone
=============================================================================
