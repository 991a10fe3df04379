----------------------------- MODULE StdioServe -----------------------------
(***************************************************************************)
(* One call of Serve (jsonrpcstdio/serve.go) with its latching writer and  *)
(* pusher (push.go): the read loop, the goroutine of every message in      *)
(* flight, background goroutines that kept the pusher and call Notify at   *)
(* any time, a caller that may cancel its context, and a peer that sends   *)
(* messages, ends or breaks the stream, and may break a write.             *)
(*                                                                         *)
(* Dispatching one message (HandleRPCJSONRawMessage) is modelled in        *)
(* Dispatch; here it produces a reply or none, or panics.                  *)
(***************************************************************************)
EXTENDS Integers, Sequences, FiniteSets

CONSTANTS
    MaxCalls,     \* the values WithMaxConcurrentCalls may give
    Pushers,      \* background goroutines, each calls Notify once
    None,         \* nobody holds the writer's mutex
    MaxMessages   \* bound: how many messages the peer sends

ASSUME MaxCallsAssumption == MaxCalls \subseteq Nat \ {0}
ASSUME MaxMessagesAssumption == MaxMessages \in Nat
ASSUME PushersAssumption ==
    Pushers \cap (1 .. MaxMessages) = {} /\ None \notin Pushers \cup 1 .. MaxMessages

Messages == 1 .. MaxMessages
Writers == Messages \cup Pushers

VARIABLES
    limit,     \* s.maxCalls (never changes)
    main,      \* where Serve's goroutine is
    read,      \* how many messages were read
    slots,     \* tokens in the channel "slots"
    pc,        \* per message and pusher: where its goroutine is
    lock,      \* the holder of connWriter.mu
    latched,   \* connWriter.closed
    wire,      \* what was written: who wrote, and whether the whole frame
    owed,      \* messages whose reply has to reach the peer
    ctxDone,   \* ctx.Err() # nil
    connDone,  \* connCtx.Err() # nil
    connErr,   \* the first connection-fatal error
    readErr,   \* ReadFrame failed with something other than a clean end
    eofClean,  \* the peer closed the stream while ctx was alive
    result     \* what Serve returned

ioVars == <<lock, latched, wire, owed>>
ctxVars == <<ctxDone, connDone, connErr>>
endVars == <<readErr, eofClean, result>>
vars == <<limit, main, read, slots, pc, ioVars, ctxVars, endVars>>

Init ==
    /\ limit \in MaxCalls
    /\ main = "top"
    /\ read = 0
    /\ slots = 0
    /\ pc = [w \in Writers |-> "none"]
    /\ lock = None
    /\ latched = FALSE
    /\ wire = << >>
    /\ owed = {}
    /\ ctxDone = FALSE
    /\ connDone = FALSE
    /\ connErr = "none"
    /\ readErr = FALSE
    /\ eofClean = FALSE
    /\ result = "none"

goto(w, label) == pc' = [pc EXCEPT ![w] = label]

(* Fault: a fatal error is recorded but the connection is not cancelled. *)
Mut_cancelOnFail == connDone

cancelOnFail == TRUE

(* fail: errOnce keeps the first error and cancels connCtx.  Nobody looks  *)
(* at connErr before connCtx is cancelled, so it is one step.              *)
fail(e) ==
    /\ connErr' = IF connErr = "none" THEN e ELSE connErr
    /\ connDone' = cancelOnFail
    /\ UNCHANGED ctxDone

(***************************************************************************)
(* The read loop.                                                          *)
(***************************************************************************)
CheckCanceled ==
    /\ main = "top"
    /\ main' = IF connDone THEN "exit" ELSE "reading"
    /\ UNCHANGED <<limit, read, slots, pc, ioVars, ctxVars, endVars>>

ReadFrame ==
    /\ main = "reading"
    /\ read < MaxMessages
    /\ read' = read + 1
    /\ IF limit = 1
       THEN main' = "inline" /\ goto(read + 1, "running")
       ELSE main' = "slot" /\ UNCHANGED pc
    /\ UNCHANGED <<limit, slots, ioVars, ctxVars, endVars>>

(* A clean end of the stream counts only while ctx is alive. *)
ReadEOF ==
    /\ main = "reading"
    /\ eofClean' = ~ctxDone
    /\ main' = "exit"
    /\ UNCHANGED <<limit, read, slots, pc, ioVars, ctxVars, readErr, result>>

ReadFails ==
    /\ main = "reading"
    /\ readErr' = TRUE
    /\ main' = "exit"
    /\ UNCHANGED <<limit, read, slots, pc, ioVars, ctxVars, eofClean, result>>

(* Fault: the read loop goes on while the message is being dispatched. *)
Mut_inlineDone == TRUE

(* With one call at a time dispatch runs on Serve's own goroutine. *)
inlineDone == pc[read] = "done"

InlineReturns ==
    /\ main = "inline"
    /\ inlineDone
    /\ main' = "top"
    /\ UNCHANGED <<limit, read, slots, pc, ioVars, ctxVars, endVars>>

slotFree == slots < limit

TakeSlot ==
    /\ main = "slot"
    /\ slotFree
    /\ slots' = slots + 1
    /\ goto(read, "running")
    /\ main' = "top"
    /\ UNCHANGED <<limit, read, ioVars, ctxVars, endVars>>

(* The frame just read is given up. *)
SlotCanceled ==
    /\ main = "slot"
    /\ connDone
    /\ main' = "exit"
    /\ UNCHANGED <<limit, read, slots, pc, ioVars, ctxVars, endVars>>

(***************************************************************************)
(* dispatch, in the message's goroutine (on Serve's own when limit is 1).  *)
(***************************************************************************)
finishMessage(m) ==
    /\ goto(m, "done")
    /\ slots' = IF limit = 1 THEN slots ELSE slots - 1

(* A notification, or a batch of them: nothing to write. *)
NoReply(m) ==
    /\ pc[m] = "running"
    /\ finishMessage(m)
    /\ UNCHANGED <<limit, main, read, ioVars, ctxVars, endVars>>

HasReply(m) ==
    /\ pc[m] = "running"
    /\ goto(m, "write")
    /\ owed' = owed \cup {m}
    /\ UNCHANGED <<limit, main, read, slots, lock, latched, wire, ctxVars, endVars>>

(* A panic outside the handlers is recovered and fails the connection. *)
DispatchPanics(m) ==
    /\ pc[m] = "running"
    /\ finishMessage(m)
    /\ fail("panic")
    /\ UNCHANGED <<limit, main, read, ioVars, endVars>>

(* A handler of some message has left the pusher with a goroutine. *)
BeginNotify(p) ==
    /\ pc[p] = "none"
    /\ read > 0
    /\ goto(p, "write")
    /\ UNCHANGED <<limit, main, read, slots, ioVars, ctxVars, endVars>>

(***************************************************************************)
(* connWriter.                                                             *)
(***************************************************************************)
finishWriter(w) ==
    IF w \in Messages THEN finishMessage(w) ELSE goto(w, "done") /\ UNCHANGED slots

WriteRefused(w) ==
    /\ pc[w] = "write"
    /\ lock = None
    /\ latched
    /\ finishWriter(w)
    /\ UNCHANGED <<limit, main, read, ioVars, ctxVars, endVars>>

BeginWrite(w) ==
    /\ pc[w] = "write"
    /\ lock = None
    /\ ~latched
    /\ lock' = w
    /\ goto(w, "writing")
    /\ UNCHANGED <<limit, main, read, slots, latched, wire, owed, ctxVars, endVars>>

WriteFrame(w) ==
    /\ pc[w] = "writing"
    /\ wire' = Append(wire, [from |-> w, whole |-> TRUE])
    /\ lock' = None
    /\ finishWriter(w)
    /\ UNCHANGED <<limit, main, read, latched, owed, ctxVars, endVars>>

(* errUnframeable: this message is lost, the stream is intact. *)
Unframeable(w) ==
    /\ pc[w] = "writing"
    /\ owed' = owed \ {w}
    /\ lock' = None
    /\ finishWriter(w)
    /\ UNCHANGED <<limit, main, read, latched, wire, ctxVars, endVars>>

latchOnFailure == TRUE

WriteBreaks(w) ==
    /\ pc[w] = "writing"
    /\ wire' = Append(wire, [from |-> w, whole |-> FALSE])
    /\ latched' = latchOnFailure
    /\ goto(w, "failing")
    /\ UNCHANGED <<limit, main, read, slots, lock, owed, ctxVars, endVars>>

WriteFailed(w) ==
    /\ pc[w] = "failing"
    /\ fail("write")
    /\ lock' = None
    /\ finishWriter(w)
    /\ UNCHANGED <<limit, main, read, latched, wire, owed, endVars>>

(***************************************************************************)
(* The deferred exit: cancel, drain, latch, decide.                        *)
(***************************************************************************)
CancelInFlight ==
    /\ main = "exit"
    /\ connDone' = (connDone \/ ~eofClean)
    /\ main' = "draining"
    /\ UNCHANGED <<limit, read, slots, pc, ioVars, ctxDone, connErr, endVars>>

(* Fault: the messages in flight are not waited for. *)
Mut_drained == TRUE

(* wg.Wait *)
drained == \A m \in Messages : pc[m] \in {"none", "done"}

Drain ==
    /\ main = "draining"
    /\ drained
    /\ main' = "latching"
    /\ UNCHANGED <<limit, read, slots, pc, ioVars, ctxVars, endVars>>

(* Fault: the writer is latched without taking its mutex. *)
Mut_mutexFree == TRUE

mutexFree == lock = None

latchOnExit == TRUE

LatchWriter ==
    /\ main = "latching"
    /\ mutexFree
    /\ latched' = latchOnExit
    /\ main' = "deciding"
    /\ UNCHANGED <<limit, read, slots, pc, lock, wire, owed, ctxVars, endVars>>

Decide ==
    /\ main = "deciding"
    /\ result' = CASE connErr # "none" -> "connError"
                   [] connErr = "none" /\ eofClean -> "nil"
                   [] connErr = "none" /\ ~eofClean /\ ctxDone -> "ctxError"
                   [] connErr = "none" /\ ~eofClean /\ ~ctxDone /\ readErr -> "readError"
                   [] OTHER -> "nil"
    /\ main' = "returned"
    /\ connDone' = TRUE
    /\ UNCHANGED <<limit, read, slots, pc, ioVars, ctxDone, connErr, readErr, eofClean>>

(***************************************************************************)
(* The caller's context; connCtx, its child, ends just after it.           *)
(***************************************************************************)
CancelCtx ==
    /\ ~ctxDone
    /\ main # "returned"
    /\ ctxDone' = TRUE
    /\ UNCHANGED <<limit, main, read, slots, pc, ioVars, connDone, connErr, endVars>>

PropagateCancel ==
    /\ ctxDone
    /\ ~connDone
    /\ connDone' = TRUE
    /\ UNCHANGED <<limit, main, read, slots, pc, ioVars, ctxDone, connErr, endVars>>

Done ==
    /\ main = "returned"
    /\ \A w \in Writers : pc[w] \in {"none", "done"}
    /\ UNCHANGED vars

MainStep ==
    \/ CheckCanceled \/ InlineReturns \/ TakeSlot \/ SlotCanceled
    \/ CancelInFlight \/ Drain \/ LatchWriter \/ Decide

DispatchEnds(m) == NoReply(m) \/ HasReply(m) \/ DispatchPanics(m)

WriterStep(w) ==
    \/ WriteRefused(w) \/ BeginWrite(w) \/ WriteFrame(w) \/ Unframeable(w)
    \/ WriteBreaks(w) \/ WriteFailed(w)

Next ==
    \/ MainStep \/ ReadFrame \/ ReadEOF \/ ReadFails
    \/ \E m \in Messages : DispatchEnds(m)
    \/ \E p \in Pushers : BeginNotify(p)
    \/ \E w \in Writers : WriterStep(w)
    \/ CancelCtx \/ PropagateCancel
    \/ Done

Spec == Init /\ [][Next]_vars

(***************************************************************************)
(* Serve's goroutine runs, a write ends, the mutex is handed to every      *)
(* waiter, and a handler returns once its context is cancelled.  A handler *)
(* whose context is alive, the peer and the caller may do nothing.         *)
(***************************************************************************)
FairSpec ==
    /\ Spec
    /\ SF_vars(MainStep)
    /\ \A m \in Messages : WF_vars(connDone /\ DispatchEnds(m))
    /\ \A w \in Writers : SF_vars(WriterStep(w))

(***************************************************************************)
(* Properties.                                                             *)
(***************************************************************************)

(* Every variable has its type; the channel "slots" never holds more than  *)
(* its capacity.                                                           *)
TypeOK ==
    /\ limit \in MaxCalls
    /\ main \in {"top", "reading", "inline", "slot", "exit", "draining",
                 "latching", "deciding", "returned"}
    /\ read \in 0 .. MaxMessages
    /\ slots \in 0 .. limit
    /\ pc \in [Writers -> {"none", "running", "write", "writing", "failing", "done"}]
    /\ lock \in Writers \cup {None}
    /\ latched \in BOOLEAN
    /\ wire \in Seq([from: Writers, whole: BOOLEAN])
    /\ owed \in SUBSET Messages
    /\ ctxDone \in BOOLEAN
    /\ connDone \in BOOLEAN
    /\ connErr \in {"none", "write", "panic"}
    /\ readErr \in BOOLEAN
    /\ eofClean \in BOOLEAN
    /\ result \in {"none", "nil", "connError", "ctxError", "readError"}

(* Serve: nil only on a clean end of the stream, an error whenever a write *)
(* failed or a message panicked, even when a background Notify is the one  *)
(* that failed while Serve was already leaving, and the default branch of  *)
(* the switch is never what decides.  "Once Serve returns, Notify fails    *)
(* with an error instead of touching the closed stream": the writer is     *)
(* latched and nobody is in the middle of a frame.                         *)
ResultIsTruthful ==
    main = "returned" =>
        /\ latched /\ \A w \in Writers : pc[w] \notin {"writing", "failing"}
        /\ result = "connError" <=> connErr # "none"
        /\ result = "nil" <=> connErr = "none" /\ eofClean
        /\ result = "readError" => readErr
        /\ result = "ctxError" => ctxDone

(* connWriter: no frame follows a partial one, of whichever writer.        *)
(* DefaultMaxConcurrentCalls: "strictly ordered, sequential handling":     *)
(* with a limit of 1, replies are written in the order of the messages.    *)
RepliesInOrder ==
    \A k, l \in DOMAIN wire : k < l =>
        /\ wire[k].whole
        /\ limit = 1 /\ {wire[k].from, wire[l].from} \subseteq Messages
              => wire[k].from < wire[l].from

(* Serve: "On orderly shutdown (peer closed the stream) in-flight handlers *)
(* finish and write their responses": when Serve returns nil, every reply  *)
(* is on the wire, once.                                                   *)
OrderlyShutdownRepliesAll ==
    main = "returned" /\ result = "nil" =>
        \A m \in owed : Cardinality({k \in DOMAIN wire : wire[k].from = m}) = 1

(* connWriter: "no goroutine keeps queueing behind a dead stream".  After  *)
(* a fatal error Serve returns unless it is blocked reading, even when all *)
(* slots are held by handlers that only stop when cancelled.               *)
FailureEndsServe ==
    connErr # "none" ~> main \in {"reading", "returned"}
=============================================================================
