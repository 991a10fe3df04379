------------------------------ MODULE Dispatch ------------------------------
(***************************************************************************)
(* One call of HandleRPCJSONRawMessage (handle.go): the rejections made    *)
(* before anything is dispatched, the worker pool that runs a batch, the   *)
(* two timeout regimes (inline and enforced) under which one request is    *)
(* called, the observer, and the assembly of the reply.                    *)
(*                                                                         *)
(* The processes are the goroutine that called HandleRPCJSONRawMessage     *)
(* (the producer of a batch), the batch workers, the goroutines enforced   *)
(* mode starts for the handlers, and the contexts' timers.                 *)
(***************************************************************************)
EXTENDS Integers, Sequences, FiniteSets

CONSTANTS
    Payloads,    \* the raw messages the caller may pass in
    Configs,     \* the configuration snapshots j.cfg.Load() may return
    Outcomes,    \* what the interceptors and the handler of one call may do
    ParentEnds,  \* how the caller's own context may end
    Ids,         \* ids a client may choose (strings and numbers)
    Methods,     \* method names a client may ask for
    MaxEntries   \* bound: the longest batch a payload holds

(* const.go: the codes the dispatcher itself produces. *)
OK == 0
ParseErrorCode == -32700
InvalidRequestErrorCode == -32600
MethodNotFoundErrorCode == -32601
InternalErrorCode == -32603
RequestTimeLimit == -32605

(***************************************************************************)
(* structs.ID: nil when the member is absent, the literal "null" when it   *)
(* is null.  A broken id is a token the lazy lexer lets through that is    *)
(* not JSON; a structured one is an object, an array or a boolean.         *)
(***************************************************************************)
NoID == "absent"
NullID == "null"
BrokenID == "broken"
StructuredID == "structured"
ID == Ids \cup {NoID, NullID, BrokenID, StructuredID}

NoMethod == "no method"

(***************************************************************************)
(* One element of the payload: "garbage" is not JSON, "scalar" is JSON     *)
(* that does not decode into a request object, "request" decodes.  seen is *)
(* what the byte scan of lacksResponseID makes of it (module Scan): "noid" *)
(* an object in which no key can spell id, "skipped" a string, which the   *)
(* scan passes over, "loud" anything else.                                 *)
(***************************************************************************)
Element == [kind: {"garbage", "scalar", "request"}, version: BOOLEAN,
            method: Methods \cup {NoMethod}, id: ID,
            seen: {"noid", "skipped", "loud"}]

(***************************************************************************)
(* over: longer than cfg.maxMessageSize.  form: what the trimmed bytes     *)
(* look like.  balanced: the bytes split into elements.  valid: the bytes  *)
(* are JSON.  quiet: what the scan says of bytes that do not split.        *)
(***************************************************************************)
Payload == [over: BOOLEAN, form: {"blank", "array", "object", "other"},
            balanced: BOOLEAN, valid: BOOLEAN, quiet: BOOLEAN,
            elems: Seq(Element)]

Config == [enforced: BOOLEAN, concurrency: Int, maxBatch: Int,
           methods: SUBSET Methods, errors: SUBSET Int]

(***************************************************************************)
(* What a piece of user code does: returns, returns an error with a code   *)
(* (and possibly an *RPCError, whose own code and data count), or panics.  *)
(* Data is "bad" when it cannot be marshalled.                             *)
(***************************************************************************)
GoResult == [kind: {"ok", "error", "panic"}, code: Int, rpc: BOOLEAN,
             rpcCode: Int, data: {"none", "good", "bad"}]
Outcome == [interceptors: GoResult, method: GoResult]

Response == [id: ID, code: Int, data: {"none", "good", "bad"}]
CallInfo == [code: Int, notification: BOOLEAN]

(* The error map always holds the codes New() puts there: nothing ever     *)
(* removes one.  The object form has exactly one element; bytes that do not *)
(* split have none.  An element the scan lets pass has no id: module Scan  *)
(* checks it of the scan.                                                  *)
ASSUME PayloadsAssumption ==
    /\ Payloads \subseteq Payload
    /\ \A p \in Payloads :
          /\ p.form = "object" => Len(p.elems) = 1
          /\ p.elems # << >> => p.balanced /\ p.form \in {"array", "object"}
    /\ \A p \in Payloads : Len(p.elems) <= MaxEntries
    /\ \A p \in Payloads : \A i \in DOMAIN p.elems :
          p.elems[i].seen # "loud" => p.elems[i].id = NoID
ASSUME MaxEntriesAssumption == MaxEntries \in Nat
ASSUME ConfigsAssumption ==
    /\ Configs \subseteq Config
    /\ \A c \in Configs :
          {ParseErrorCode, InvalidRequestErrorCode, MethodNotFoundErrorCode,
           InternalErrorCode, RequestTimeLimit} \subseteq c.errors
ASSUME OutcomesAssumption == Outcomes \subseteq Outcome
ASSUME ParentEndsAssumption == ParentEnds \subseteq {"canceled", "deadline"}
ASSUME IdsAssumption == Ids \cap {NoID, NullID, BrokenID, StructuredID} = {}
ASSUME MethodsAssumption == NoMethod \notin Methods

VARIABLES
    payload,   \* the message (never changes)
    cfg,       \* the snapshot loaded once per message (never changes)
    phase,     \* where the caller's goroutine is
    next,      \* the index the producer offers next on the channel "indexes"
    closed,    \* close(indexes) was called
    pc,        \* per worker: where it is
    job,       \* per worker: the entry it holds, 0 for none
    resp,      \* per worker: its local response
    handler,   \* per entry: the user code's progress
    chan,      \* per entry: the enforced-mode channel c of capacity 1
    ctxt,      \* per entry: state of the context made by WithTimeout
    parent,    \* state of the caller's context
    raw,       \* per entry: the response slot of the batch
    cursor,    \* the slot the filtering loop looks at next
    picked,    \* the slots copied to "responses" so far, as their indexes
    observed,  \* per entry: what the observer was told
    returned,  \* per entry: what call() returned and the context then
    reply      \* what HandleRPCJSONRawMessage returns

callerVars == <<phase, next, closed, cursor, picked, reply>>
workerVars == <<pc, job, resp>>
entryVars == <<handler, chan, raw, observed, returned>>
ctxVars == <<ctxt, parent>>
vars == <<payload, cfg, callerVars, workerVars, entryVars, ctxVars>>

Entries == 1 .. Len(payload.elems)
Nil == [id |-> NoID, code |-> OK, data |-> "nil"]
NotReturned == [resp |-> Nil, at |-> "none"]

(***************************************************************************)
(* Operators of the request path.                                          *)
(***************************************************************************)

(* errorResponse: an RPCError's code overrides; an unregistered code       *)
(* degrades to internal_error and loses its data.                          *)
errorResponse(rpc, rpcCode, rpcData, errorCode, id) ==
    LET code == IF rpc THEN rpcCode ELSE errorCode
        data == IF rpc THEN rpcData ELSE "none"
    IN  IF code \in cfg.errors
        THEN [id |-> id, code |-> code, data |-> data]
        ELSE [id |-> id, code |-> InternalErrorCode, data |-> "none"]

plainError(errorCode, id) == errorResponse(FALSE, OK, "none", errorCode, id)

goError(g, id) == errorResponse(g.rpc, g.rpcCode, g.data, g.code, id)

(* call: interceptors, then the registry, then the method; a panic of      *)
(* either piece of user code is recovered into internal_error.             *)
call(e, o) ==
    CASE o.interceptors.kind = "panic" -> plainError(InternalErrorCode, e.id)
      [] o.interceptors.kind = "error" -> goError(o.interceptors, e.id)
      [] o.interceptors.kind = "ok" /\ e.method \notin cfg.methods ->
            plainError(MethodNotFoundErrorCode, e.id)
      [] o.interceptors.kind = "ok" /\ e.method \in cfg.methods ->
            CASE o.method.kind = "panic" -> plainError(InternalErrorCode, e.id)
              [] o.method.kind = "error" -> goError(o.method, e.id)
              [] o.method.kind = "ok" ->
                    [id |-> e.id, code |-> OK, data |-> "none"]

validateRequest(e) ==
    /\ e.version
    /\ e.method # NoMethod
    /\ e.id \notin {BrokenID, StructuredID}

(* The id an invalid request is answered with: its own unless broken. *)
echoedID(e) == IF e.id = BrokenID THEN NoID ELSE e.id

(* Fault: one element without an id is taken for all of them. *)
Mut_lacksResponseID(p) ==
    IF p.form \in {"array", "object"} /\ p.balanced
    THEN \E i \in DOMAIN p.elems : p.elems[i].seen = "noid"
    ELSE p.quiet

(* lacksResponseID: no element is loud, and at least one is an object.     *)
lacksResponseID(p) ==
    IF p.form \in {"array", "object"} /\ p.balanced
    THEN /\ \A i \in DOMAIN p.elems : p.elems[i].seen # "loud"
         /\ \E i \in DOMAIN p.elems : p.elems[i].seen = "noid"
    ELSE p.quiet

errorForMalformed(p) ==
    IF p.valid THEN InvalidRequestErrorCode ELSE ParseErrorCode

(* An absent id and a null id are the same bytes on the wire. *)
wire(r) == [r EXCEPT !.id = IF @ = NoID THEN NullID ELSE @]

safeInternalResponse(id) ==
    [id |-> id, code |-> InternalErrorCode, data |-> "none"]

(* Fault: the replacement of an unmarshalable response loses its id. *)
Mut_marshal(r) == wire(IF r.data = "bad" THEN safeInternalResponse(NoID) ELSE r)

(* The marshal fallback: only an entry that does not marshal is replaced,  *)
(* and it keeps its id.                                                    *)
marshal(r) == wire(IF r.data = "bad" THEN safeInternalResponse(r.id) ELSE r)

concurrency(n) ==
    IF cfg.concurrency <= 0 \/ cfg.concurrency > n THEN n ELSE cfg.concurrency

Pending == [shape |-> "pending", body |-> << >>]
Silent == [shape |-> "silent", body |-> << >>]
Refusal(code) ==
    [shape |-> "object",
     body |-> << [id |-> NullID, code |-> code, data |-> "none"] >>]

(***************************************************************************)
(* Initial states: a message has just arrived.                             *)
(***************************************************************************)
Init ==
    /\ payload \in Payloads
    /\ cfg \in Configs
    /\ phase = "received"
    /\ next = 1
    /\ closed = FALSE
    /\ pc = [w \in Entries |-> "none"]
    /\ job = [w \in Entries |-> 0]
    /\ resp = [w \in Entries |-> Nil]
    /\ handler = [i \in Entries |-> "none"]
    /\ chan = [i \in Entries |-> Nil]
    /\ ctxt = [i \in Entries |-> "none"]
    /\ parent = "live"
    /\ raw = [i \in Entries |-> Nil]
    /\ cursor = 1
    /\ picked = << >>
    /\ observed = [i \in Entries |-> << >>]
    /\ returned = [i \in Entries |-> NotReturned]
    /\ reply = Pending

(***************************************************************************)
(* The caller's goroutine: frame-level rejections, in the code's order.    *)
(***************************************************************************)
refuse(r) ==
    /\ phase = "received"
    /\ phase' = "done"
    /\ reply' = r
    /\ UNCHANGED <<payload, cfg, next, closed, cursor, picked, workerVars, entryVars, ctxVars>>

RejectOversized ==
    /\ payload.over
    /\ refuse(IF lacksResponseID(payload) THEN Silent
              ELSE Refusal(InvalidRequestErrorCode))

RejectBlank ==
    /\ ~payload.over
    /\ payload.form = "blank"
    /\ refuse(Refusal(ParseErrorCode))

batchTooLarge == cfg.maxBatch > 0 /\ Len(payload.elems) > cfg.maxBatch

RejectBatchTooLarge ==
    /\ ~payload.over
    /\ payload.form = "array"
    /\ batchTooLarge
    /\ refuse(IF lacksResponseID(payload) THEN Silent
              ELSE Refusal(InvalidRequestErrorCode))

(* Neither an array nor an object, a broken array, or an object that does  *)
(* not decode.                                                             *)
RejectMalformed ==
    /\ ~payload.over
    /\ \/ payload.form = "other"
       \/ payload.form = "array" /\ ~batchTooLarge /\ ~payload.balanced
       \/ payload.form = "object" /\ payload.elems[1].kind # "request"
    /\ refuse(Refusal(errorForMalformed(payload)))

goodArray ==
    ~payload.over /\ payload.form = "array" /\ ~batchTooLarge /\ payload.balanced

RejectEmptyBatch ==
    /\ goodArray
    /\ payload.elems = << >>
    /\ refuse(Refusal(InvalidRequestErrorCode))

hasGarbage == \E i \in Entries : payload.elems[i].kind = "garbage"

RejectGarbage ==
    /\ goodArray
    /\ hasGarbage
    /\ refuse(Refusal(ParseErrorCode))

(***************************************************************************)
(* The caller's goroutine: starting and feeding the pool.                  *)
(***************************************************************************)
dispatchedBatch == goodArray /\ payload.elems # << >> /\ ~hasGarbage

dispatchedSingle ==
    /\ ~payload.over
    /\ payload.form = "object"
    /\ payload.elems[1].kind = "request"

StartBatch ==
    /\ phase = "received"
    /\ dispatchedBatch
    /\ phase' = "batch"
    /\ pc' = [w \in Entries |->
                IF w <= concurrency(Len(payload.elems)) THEN "idle" ELSE "none"]
    /\ UNCHANGED <<payload, cfg, next, closed, cursor, picked, reply, job, resp, entryVars, ctxVars>>

(* A lone request runs on the caller's goroutine, which plays worker 1. *)
StartSingle ==
    /\ phase = "received"
    /\ dispatchedSingle
    /\ phase' = "single"
    /\ pc' = [pc EXCEPT ![1] = "got"]
    /\ job' = [job EXCEPT ![1] = 1]
    /\ UNCHANGED <<payload, cfg, next, closed, cursor, picked, reply, resp, entryVars, ctxVars>>

moreToSend == next \in Entries

(* "indexes" is unbuffered: sending an index and a worker receiving it is  *)
(* one step.                                                               *)
SendIndex(w) ==
    /\ phase = "batch"
    /\ moreToSend
    /\ pc[w] = "idle"
    /\ job' = [job EXCEPT ![w] = next]
    /\ pc' = [pc EXCEPT ![w] = "got"]
    /\ next' = next + 1
    /\ UNCHANGED <<payload, cfg, phase, closed, cursor, picked, reply, resp, entryVars, ctxVars>>

CloseIndexes ==
    /\ phase = "batch"
    /\ ~moreToSend
    /\ ~closed
    /\ closed' = TRUE
    /\ UNCHANGED <<payload, cfg, phase, next, cursor, picked, reply, workerVars, entryVars, ctxVars>>

(***************************************************************************)
(* A worker's loop body: handleRPC with dispatch inlined.                  *)
(***************************************************************************)
elem(w) == payload.elems[job[w]]

ParseFailed(w) ==
    /\ pc[w] = "got"
    /\ elem(w).kind = "scalar"
    /\ resp' = [resp EXCEPT ![w] = plainError(InvalidRequestErrorCode, NoID)]
    /\ pc' = [pc EXCEPT ![w] = "reply"]
    /\ UNCHANGED <<payload, cfg, callerVars, job, entryVars, ctxVars>>

InvalidRequest(w) ==
    /\ pc[w] = "got"
    /\ elem(w).kind = "request"
    /\ ~validateRequest(elem(w))
    /\ resp' = [resp EXCEPT ![w] =
                  plainError(InvalidRequestErrorCode, echoedID(elem(w)))]
    /\ pc' = [pc EXCEPT ![w] = "reply"]
    /\ UNCHANGED <<payload, cfg, callerVars, job, entryVars, ctxVars>>

(* WithTimeout on a context that already ended gives an ended context. *)
BeginCall(w) ==
    /\ pc[w] = "got"
    /\ elem(w).kind = "request"
    /\ validateRequest(elem(w))
    /\ ctxt' = [ctxt EXCEPT ![job[w]] = parent]
    /\ handler' = [handler EXCEPT ![job[w]] = "running"]
    /\ pc' = [pc EXCEPT ![w] = IF cfg.enforced THEN "select" ELSE "inline"]
    /\ UNCHANGED <<payload, cfg, callerVars, job, resp, chan, raw, observed,
                   returned, parent>>

(* Inline: the handler returns on the worker's goroutine. *)
InlineReturn(w) ==
    /\ pc[w] = "inline"
    /\ \E o \in Outcomes :
          LET r == call(elem(w), o) IN
          /\ resp' = [resp EXCEPT ![w] = r]
          /\ returned' = [returned EXCEPT ![job[w]] =
                            [resp |-> r, at |-> ctxt[job[w]]]]
    /\ handler' = [handler EXCEPT ![job[w]] = "returned"]
    /\ pc' = [pc EXCEPT ![w] = "check"]
    /\ UNCHANGED <<payload, cfg, callerVars, job, chan, raw, observed, ctxVars>>

(* The deferred cancel() of dispatch ends a context that is still live. *)
cancelCtxt(i) ==
    ctxt' = [ctxt EXCEPT ![i] = IF @ = "live" THEN "canceled" ELSE @]

timeLimit(w) == plainError(RequestTimeLimit, elem(w).id)

(* Fault: any ended context counts as an expired deadline. *)
Mut_deadlineExceeded(i) == ctxt[i] # "live"

(* errors.Is(ctxt.Err(), context.DeadlineExceeded) *)
deadlineExceeded(i) == ctxt[i] = "deadline"

InlineCheck(w) ==
    /\ pc[w] = "check"
    /\ resp' = [resp EXCEPT ![w] =
                  IF deadlineExceeded(job[w]) THEN timeLimit(w) ELSE @]
    /\ cancelCtxt(job[w])
    /\ pc' = [pc EXCEPT ![w] = "reply"]
    /\ UNCHANGED <<payload, cfg, callerVars, job, entryVars, parent>>

(* Enforced: the handler's goroutine finishes, then sends into c. *)
EnforcedReturn(i) ==
    /\ cfg.enforced
    /\ handler[i] = "running"
    /\ \E o \in Outcomes :
          returned' = [returned EXCEPT ![i] =
                         [resp |-> call(payload.elems[i], o), at |-> "unsent"]]
    /\ handler' = [handler EXCEPT ![i] = "sending"]
    /\ UNCHANGED <<payload, cfg, callerVars, workerVars, chan, raw, observed,
                   ctxVars>>

(* Fault: the channel is unbuffered, so a send needs a waiting worker. *)
Mut_roomInChannel(i) ==
    chan[i] = Nil /\ \E w \in Entries : job[w] = i /\ pc[w] = "select"

(* c has capacity 1. *)
roomInChannel(i) == chan[i] = Nil

(* Fault: the goroutine writes the entry's answer itself, however late. *)
Mut_SendResponse(i) ==
    /\ handler[i] = "sending"
    /\ roomInChannel(i)
    /\ chan' = [chan EXCEPT ![i] = returned[i].resp]
    /\ raw' = [raw EXCEPT ![i] = returned[i].resp]
    /\ returned' = [returned EXCEPT ![i].at = ctxt[i]]
    /\ handler' = [handler EXCEPT ![i] = "returned"]
    /\ UNCHANGED <<payload, cfg, callerVars, workerVars, observed, ctxVars>>

SendResponse(i) ==
    /\ handler[i] = "sending"
    /\ roomInChannel(i)
    /\ chan' = [chan EXCEPT ![i] = returned[i].resp]
    /\ returned' = [returned EXCEPT ![i].at = ctxt[i]]
    /\ handler' = [handler EXCEPT ![i] = "returned"]
    /\ UNCHANGED <<payload, cfg, callerVars, workerVars, raw, observed, ctxVars>>

takeResponse(w) ==
    /\ resp' = [resp EXCEPT ![w] = chan[job[w]]]
    /\ chan' = [chan EXCEPT ![job[w]] = Nil]
    /\ cancelCtxt(job[w])
    /\ pc' = [pc EXCEPT ![w] = "reply"]

(* Outer select, response branch. *)
SelectResponse(w) ==
    /\ pc[w] = "select"
    /\ chan[job[w]] # Nil
    /\ takeResponse(w)
    /\ UNCHANGED <<payload, cfg, callerVars, job, handler, raw, observed,
                   returned, parent>>

(* Fault: only a deadline is noticed, not a cancelled parent. *)
Mut_ctxtDone(i) == ctxt[i] = "deadline"

ctxtDone(i) == ctxt[i] # "live"

(* Outer select, ctxt.Done() branch. *)
SelectDone(w) ==
    /\ pc[w] = "select"
    /\ ctxtDone(job[w])
    /\ pc' = [pc EXCEPT ![w] = "aborting"]
    /\ UNCHANGED <<payload, cfg, callerVars, job, resp, entryVars, ctxVars>>

(* Fault: no second look at the channel once the context has ended. *)
Mut_nothingReady(i) == TRUE

nothingReady(i) == chan[i] = Nil

(* Inner select: a response that is already there wins over the abort. *)
TakeReady(w) ==
    /\ pc[w] = "aborting"
    /\ chan[job[w]] # Nil
    /\ takeResponse(w)
    /\ UNCHANGED <<payload, cfg, callerVars, job, handler, raw, observed,
                   returned, parent>>

(* A deadline and a cancelled parent are both answered RequestTimeLimit;   *)
(* they differ only in the text that is logged.                            *)
Abort(w) ==
    /\ pc[w] = "aborting"
    /\ nothingReady(job[w])
    /\ resp' = [resp EXCEPT ![w] = timeLimit(w)]
    /\ cancelCtxt(job[w])
    /\ pc' = [pc EXCEPT ![w] = "reply"]
    /\ UNCHANGED <<payload, cfg, callerVars, job, entryVars, parent>>

(* A request that decoded, is valid and has no id is a notification. *)
isNotification(e) ==
    e.kind = "request" /\ validateRequest(e) /\ e.id = NoID

(* Fault: an undecodable entry is not observed. *)
Mut_observe(w) ==
    IF elem(w).kind = "scalar" THEN observed[job[w]]
    ELSE Append(observed[job[w]],
                [code |-> resp[w].code, notification |-> isNotification(elem(w))])

(* A panic of the observer is recovered and changes nothing. *)
observe(w) ==
    Append(observed[job[w]],
           [code |-> resp[w].code, notification |-> isNotification(elem(w))])

(* What is stored for an entry: nil for a notification. *)
slot(w) == IF isNotification(elem(w)) THEN Nil ELSE resp[w]

Reply(w) ==
    /\ pc[w] = "reply"
    /\ observed' = [observed EXCEPT ![job[w]] = observe(w)]
    /\ raw' = [raw EXCEPT ![job[w]] = slot(w)]
    /\ pc' = [pc EXCEPT ![w] = IF phase = "single" THEN "exited" ELSE "idle"]
    /\ job' = [job EXCEPT ![w] = 0]
    /\ resp' = [resp EXCEPT ![w] = Nil]
    /\ UNCHANGED <<payload, cfg, callerVars, handler, chan, returned, ctxVars>>

WorkerExit(w) ==
    /\ pc[w] = "idle"
    /\ closed
    /\ pc' = [pc EXCEPT ![w] = "exited"]
    /\ UNCHANGED <<payload, cfg, callerVars, job, resp, entryVars, ctxVars>>

(***************************************************************************)
(* The caller's goroutine: wg.Wait, the nil filter and the marshalling.    *)
(***************************************************************************)
WaitReturns ==
    /\ phase = "batch"
    /\ closed
    /\ \A w \in Entries : pc[w] \in {"none", "exited"}
    /\ phase' = "collect"
    /\ UNCHANGED <<payload, cfg, next, closed, cursor, picked, reply, workerVars,
                   entryVars, ctxVars>>

collected == IF raw[cursor] # Nil THEN Append(picked, cursor) ELSE picked

Collect ==
    /\ phase = "collect"
    /\ cursor \in Entries
    /\ picked' = collected
    /\ cursor' = cursor + 1
    /\ UNCHANGED <<payload, cfg, phase, next, closed, reply, workerVars, entryVars,
                   ctxVars>>

FinishBatch ==
    /\ phase = "collect"
    /\ cursor \notin Entries
    /\ phase' = "done"
    /\ reply' = IF picked = << >> THEN Silent
                ELSE [shape |-> "array",
                      body |-> [k \in 1 .. Len(picked) |-> marshal(raw[picked[k]])]]
    /\ UNCHANGED <<payload, cfg, next, closed, cursor, picked, workerVars,
                   entryVars, ctxVars>>

FinishSingle ==
    /\ phase = "single"
    /\ pc[1] = "exited"
    /\ phase' = "done"
    /\ reply' = IF raw[1] = Nil THEN Silent
                ELSE [shape |-> "object", body |-> << marshal(raw[1]) >>]
    /\ UNCHANGED <<payload, cfg, next, closed, cursor, picked, workerVars, entryVars, ctxVars>>

(***************************************************************************)
(* The contexts (package context).                                         *)
(***************************************************************************)
DeadlineExpires(i) ==
    /\ ctxt[i] = "live"
    /\ ctxt' = [ctxt EXCEPT ![i] = "deadline"]
    /\ UNCHANGED <<payload, cfg, callerVars, workerVars, entryVars, parent>>

ParentEnd ==
    /\ phase # "done"
    /\ parent = "live"
    /\ parent' \in ParentEnds
    /\ UNCHANGED <<payload, cfg, callerVars, workerVars, entryVars, ctxt>>

(* The children of an ended context end one after the other. *)
PropagateEnd(i) ==
    /\ parent # "live"
    /\ ctxt[i] = "live"
    /\ ctxt' = [ctxt EXCEPT ![i] = parent]
    /\ UNCHANGED <<payload, cfg, callerVars, workerVars, entryVars, parent>>

(* The call has returned and every handler goroutine has ended. *)
Done ==
    /\ phase = "done"
    /\ \A i \in Entries : handler[i] \in {"none", "returned"}
    /\ UNCHANGED vars

Caller ==
    \/ RejectOversized \/ RejectBlank \/ RejectBatchTooLarge \/ RejectMalformed
    \/ RejectEmptyBatch \/ RejectGarbage
    \/ StartBatch \/ StartSingle \/ CloseIndexes
    \/ WaitReturns \/ Collect \/ FinishBatch \/ FinishSingle

WorkerStep(w) ==
    \/ SendIndex(w) \/ ParseFailed(w) \/ InvalidRequest(w) \/ BeginCall(w)
    \/ InlineCheck(w) \/ SelectResponse(w) \/ SelectDone(w) \/ TakeReady(w)
    \/ Abort(w) \/ Reply(w) \/ WorkerExit(w)

Next ==
    \/ Caller
    \/ \E w \in Entries : WorkerStep(w) \/ InlineReturn(w)
    \/ \E i \in Entries : EnforcedReturn(i) \/ SendResponse(i)
    \/ \E i \in Entries : DeadlineExpires(i) \/ PropagateEnd(i)
    \/ ParentEnd
    \/ Done

Spec == Init /\ [][Next]_vars

(***************************************************************************)
(* The scheduler runs every goroutine, timers fire, and a handler running  *)
(* inline returns (nothing in the code can make it).  Nothing is assumed   *)
(* of a handler in enforced mode.                                          *)
(***************************************************************************)
FairSpec ==
    /\ Spec
    /\ WF_vars(Caller)
    /\ \A k \in 1 .. MaxEntries :
          /\ WF_vars(k \in Entries /\ WorkerStep(k))
          /\ WF_vars(k \in Entries /\ InlineReturn(k))
          /\ WF_vars(k \in Entries /\ SendResponse(k))
          /\ WF_vars(k \in Entries /\ DeadlineExpires(k))

(***************************************************************************)
(* Properties.                                                             *)
(***************************************************************************)

(* Every variable has its type: the indexes a worker may hold, the states  *)
(* of a context, and a response slot that is nil or a whole response.      *)
TypeOK ==
    /\ payload \in Payloads
    /\ cfg \in Configs
    /\ phase \in {"received", "batch", "collect", "single", "done"}
    /\ next \in 1 .. Len(payload.elems) + 1
    /\ closed \in BOOLEAN
    /\ cursor \in 1 .. Len(payload.elems) + 1
    /\ picked \in Seq(Entries)
    /\ pc \in [Entries -> {"none", "idle", "got", "inline", "check", "select",
                           "aborting", "reply", "exited"}]
    /\ job \in [Entries -> 0 .. Len(payload.elems)]
    /\ resp \in [Entries -> Response \cup {Nil}]
    /\ handler \in [Entries -> {"none", "running", "sending", "returned"}]
    /\ chan \in [Entries -> Response \cup {Nil}]
    /\ ctxt \in [Entries -> {"none", "live", "canceled", "deadline"}]
    /\ parent \in {"live", "canceled", "deadline"}
    /\ raw \in [Entries -> Response \cup {Nil}]
    /\ observed \in [Entries -> Seq(CallInfo)]
    /\ returned \in [Entries ->
          [resp: Response \cup {Nil},
           at: {"none", "unsent", "live", "canceled", "deadline"}]]
    /\ reply \in [shape: {"pending", "silent", "object", "array"},
                  body: Seq(Response)]

dispatched == dispatchedBatch \/ dispatchedSingle

(* The id an entry must be answered with, on the wire. *)
answerID(e) ==
    IF e.kind = "scalar" \/ e.id \in {NoID, BrokenID} THEN NullID ELSE e.id

answered == {i \in Entries : ~isNotification(payload.elems[i])}

(* f lists the answered entries in request order. *)
listsAnswered(f) ==
    /\ \A k, l \in DOMAIN f : k < l => f[k] < f[l]
    /\ {f[k] : k \in DOMAIN f} = answered

(* handle.go, HandleBatchRPC: "Responses keep the order of the requests".  *)
(* The reply of a dispatched message has one response per entry that is    *)
(* not a notification, in request order, each with the id of its own       *)
(* entry, and with the outcome reported to the observer unless that very   *)
(* response did not marshal; a message of notifications has no reply.      *)
ReplyMatchesRequests ==
    phase = "done" /\ dispatched =>
        IF answered = {} THEN reply = Silent
        ELSE /\ reply.shape = payload.form
             /\ \E f \in [DOMAIN reply.body -> Entries] :
                  /\ listsAnswered(f)
                  /\ \A k \in DOMAIN f :
                       /\ reply.body[k].id = answerID(payload.elems[f[k]])
                       /\ reply.body[k].code =
                             IF raw[f[k]].data = "bad" THEN InternalErrorCode
                             ELSE observed[f[k]][1].code

(* observe.go, ObserveFunc: "In a batch it fires once per entry, including *)
(* entries whose JSON did not decode", and it does not observe frame-level *)
(* rejects.  An invalid entry is observed as a call answered -32600 and    *)
(* its method never runs.                                                  *)
ObservedOncePerEntry ==
    \A i \in Entries :
        /\ Len(observed[i]) <= 1
        /\ phase = "done" => (observed[i] # << >> <=> dispatched)
        /\ observed[i] # << >> /\ payload.elems[i].kind = "scalar" =>
              handler[i] = "none"
        /\ observed[i] # << >> /\ handler[i] = "none" =>
              observed[i][1] = [code |-> InvalidRequestErrorCode,
                                notification |-> FALSE]

(* handle.go, handleRPC: inline, RequestTimeLimit replaces the handler's   *)
(* response exactly when the deadline expired before the check, and a      *)
(* cancelled parent keeps the handler's own response.                      *)
InlineVerdict ==
    \A i \in Entries :
        ~cfg.enforced /\ handler[i] # "none" /\ observed[i] # << >> =>
            /\ handler[i] = "returned"
            /\ observed[i][1].code = IF ctxt[i] = "deadline" THEN RequestTimeLimit
                                     ELSE returned[i].resp.code
            /\ returned[i].at = "deadline" =>
                  observed[i][1].code = RequestTimeLimit

(* handle.go, dispatch: "Prefer a response that is already ready over the  *)
(* abort path".  Enforced, a response that reached the channel before the  *)
(* context ended is the one given; an unanswered handler is abandoned only *)
(* once its context has ended, and then with RequestTimeLimit.             *)
EnforcedVerdict ==
    \A i \in Entries :
        cfg.enforced /\ handler[i] # "none" /\ observed[i] # << >> =>
            /\ ctxt[i] # "live"
            /\ handler[i] = "returned" /\ returned[i].at = "live" =>
                  observed[i][1].code = returned[i].resp.code
            /\ \/ observed[i][1].code = RequestTimeLimit
               \/ /\ handler[i] = "returned"
                  /\ observed[i][1].code = returned[i].resp.code

(* handle.go: "Payloads whose id-lessness cannot be proven keep the        *)
(* id:null rejection": a message with an id in it is always answered,      *)
(* whatever rejects it; one of nothing but notifications, no key of which  *)
(* is escaped, is never answered, whatever rejects it.                     *)
SilenceRule ==
    phase = "done" =>
        /\ reply = Silent => \A i \in Entries : payload.elems[i].id = NoID
        /\ payload.elems # << >> /\ payload.form # "other" /\ payload.balanced
           /\ (\A i \in Entries : /\ isNotification(payload.elems[i])
                                  /\ payload.elems[i].seen = "noid")
              => reply = Silent

(* The refinement mapping: a method was started when its handler was, an   *)
(* entry is answered when the observer was told, with what its slot will   *)
(* put on the wire.                                                        *)
asked ==
    [i \in Entries |->
        LET e == payload.elems[i]
        IN  [id |-> answerID(e), silent |-> isNotification(e),
             valid |-> e.kind = "request" /\ validateRequest(e)]]
methodRan == [i \in Entries |-> handler[i] # "none"]
onWire == [i \in Entries |-> IF raw[i] = Nil THEN << >> ELSE <<marshal(raw[i])>>]

Batch == INSTANCE BatchSpec WITH
            Ids <- ID,
            Forms <- {"blank", "array", "object", "other"},
            Refusals <- {Silent, Refusal(InvalidRequestErrorCode), Refusal(ParseErrorCode)},
            InvalidCode <- InvalidRequestErrorCode,
            InternalCode <- InternalErrorCode,
            form <- payload.form,
            ask <- asked,
            ran <- methodRan,
            told <- observed,
            given <- onWire

(* handle.go, HandleBatchRPC and dispatch: a message is refused before     *)
(* anything of it runs, or every entry is answered exactly once, whichever *)
(* worker, handler and context come first; an answer once given is what    *)
(* the reply holds, and neither a late handler nor another entry changes   *)
(* it (handle.go:468-510, 528-578).                                        *)
OneAnswerEach == Batch!Spec

(* The call returns: with enforced timeouts whatever the handlers do. *)
CallReturns == <>(phase = "done")

(* No goroutine of enforced mode stays blocked on its channel after its    *)
(* handler has finished.                                                   *)
NoGoroutineLeak ==
    \A k \in 1 .. MaxEntries :
        (k \in Entries /\ handler[k] = "sending")
            ~> (k \in Entries /\ handler[k] = "returned")

(* observe.go, CallInfo.Code: "the error code the client received". *)
ObservedCodeIsReceived ==
    phase = "done" /\ dispatched =>
        \A f \in [DOMAIN reply.body -> Entries] : listsAnswered(f) =>
            \A k \in DOMAIN f : reply.body[k].code = observed[f[k]][1].code
=============================================================================
