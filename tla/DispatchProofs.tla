--------------------------- MODULE DispatchProofs ---------------------------
(***************************************************************************)
(* Proofs about Dispatch for every batch length, configuration, set of     *)
(* handler outcomes and behaviour of the contexts.                         *)
(***************************************************************************)
EXTENDS Dispatch, TLAPS

(***************************************************************************)
(* The inductive invariant.                                                *)
(***************************************************************************)
Busy == {"got", "inline", "check", "select", "aborting", "reply"}

(* Workers hold distinct entries, and only while they are busy. *)
JobInv ==
    /\ \A w \in Entries : job[w] # 0 <=> pc[w] \in Busy
    /\ \A v, w \in Entries : job[v] # 0 /\ job[v] = job[w] => v = w

(* An entry that was handed out is held by a worker or has been observed,  *)
(* one that was not is untouched.                                          *)
HandedOutOK(i) ==
    IF i < next
    THEN observed[i] # << >> \/ \E w \in Entries : job[w] = i
    ELSE /\ observed[i] = << >> /\ handler[i] = "none"
         /\ \A w \in Entries : job[w] # i

(* What each phase of the caller's goroutine says about the entries. *)
PhaseInv ==
    /\ phase \in {"batch", "collect", "single"} => dispatched
    /\ phase = "single" => payload.form = "object"
    /\ phase \in {"batch", "collect"} => payload.form = "array"
    /\ phase = "received" \/ (phase = "done" /\ ~dispatched) =>
          \A i \in Entries : job[i] = 0 /\ handler[i] = "none" /\ observed[i] = << >>
    /\ phase = "received" => next = 1 /\ closed = FALSE
    /\ phase = "batch" => \A i \in Entries : HandedOutOK(i)
    /\ phase = "batch" /\ closed => next \notin Entries
    /\ phase = "single" => observed[1] # << >> \/ job[1] = 1
    /\ phase = "collect" \/ (phase = "done" /\ dispatched) =>
          \A i \in Entries : job[i] = 0 /\ observed[i] # << >>

(* A handler runs only for a valid request, and what it returned answers   *)
(* that request; the channel holds nothing else.                           *)
HandlerOK(i) ==
    /\ handler[i] # "none" =>
          /\ payload.elems[i].kind = "request"
          /\ validateRequest(payload.elems[i])
          /\ ctxt[i] # "none"
    /\ handler[i] = "sending" => cfg.enforced
    /\ handler[i] \in {"sending", "returned"} =>
          returned[i].resp # Nil /\ returned[i].resp.id = payload.elems[i].id
    /\ handler[i] # "returned" => chan[i] = Nil
    /\ chan[i] # Nil => chan[i] = returned[i].resp

HandlerInv == \A i \in Entries : HandlerOK(i)

(* The code c is a legitimate final outcome for entry i. *)
Verdict(i, c) ==
    /\ handler[i] = "none" =>
          c = InvalidRequestErrorCode /\ ~isNotification(payload.elems[i])
    /\ ~cfg.enforced /\ handler[i] # "none" =>
          /\ handler[i] = "returned"
          /\ ctxt[i] # "live"
          /\ c = IF ctxt[i] = "deadline" THEN RequestTimeLimit
                 ELSE returned[i].resp.code
          /\ returned[i].at = "deadline" => ctxt[i] = "deadline"
    /\ cfg.enforced /\ handler[i] # "none" =>
          /\ ctxt[i] # "live"
          /\ handler[i] = "returned" /\ returned[i].at = "live" =>
                c = returned[i].resp.code
          /\ \/ c = RequestTimeLimit
             \/ handler[i] = "returned" /\ c = returned[i].resp.code

(* A worker's local state against the entry it holds. *)
WorkerOK(w) ==
    LET i == job[w] IN
    /\ pc[w] \in Busy => observed[i] = << >>
    /\ pc[w] = "got" => handler[i] = "none"
    /\ pc[w] = "inline" => ~cfg.enforced /\ handler[i] = "running"
    /\ pc[w] = "check" =>
          /\ ~cfg.enforced
          /\ handler[i] = "returned"
          /\ resp[w] = returned[i].resp
          /\ returned[i].at = "deadline" => ctxt[i] = "deadline"
    /\ pc[w] \in {"select", "aborting"} =>
          /\ cfg.enforced
          /\ handler[i] # "none"
          /\ handler[i] = "returned" => chan[i] = returned[i].resp
    /\ pc[w] = "aborting" => ctxt[i] # "live"
    /\ pc[w] \in {"check", "reply"} =>
          /\ resp[w] # Nil
          /\ ~isNotification(payload.elems[i]) =>
                wire(resp[w]).id = answerID(payload.elems[i])
    /\ pc[w] = "reply" => Verdict(i, resp[w].code)

WorkerInv == \A w \in Entries : WorkerOK(w)

(* A finished entry: one observation, a legitimate outcome, and a slot     *)
(* that is nil exactly for a notification and carries the entry's own id.  *)
EntryOK(i) ==
    observed[i] # << >> =>
        /\ Len(observed[i]) = 1
        /\ Verdict(i, observed[i][1].code)
        /\ handler[i] = "none" => ~observed[i][1].notification
        /\ IF isNotification(payload.elems[i]) THEN raw[i] = Nil
           ELSE /\ raw[i] # Nil
                /\ wire(raw[i]).id = answerID(payload.elems[i])
                /\ raw[i].code = observed[i][1].code

EntryInv == \A i \in Entries : EntryOK(i)

(* The filtering loop has copied, in order, the non-nil slots below the    *)
(* cursor.                                                                 *)
CollectInv ==
    /\ phase \in {"received", "batch", "single"} =>
          picked = << >> /\ cursor = 1
    /\ \A k, l \in 1 .. Len(picked) : k < l => picked[k] < picked[l]
    /\ \A i \in Entries :
          (\E k \in 1 .. Len(picked) : picked[k] = i)
             <=> i < cursor /\ raw[i] # Nil

(* The reply exists only at the end, and is then the right one. *)
ReplyInv == (phase # "done" => reply = Pending) /\ ReplyMatchesRequests

IInv == TypeOK /\ JobInv /\ PhaseInv /\ HandlerInv /\ WorkerInv /\ EntryInv
        /\ CollectInv /\ ReplyInv

(***************************************************************************)
(* Facts about the operators.                                              *)
(***************************************************************************)

(* Nil is not a response: no response has the data "nil". *)
LEMMA NilNotResponse == Nil \notin Response
BY DEF Nil, Response

(* errorResponse builds a response that carries the id it was given. *)
LEMMA ErrorResponseType ==
    ASSUME NEW rpc \in BOOLEAN, NEW rc \in Int,
           NEW d \in {"none", "good", "bad"}, NEW code \in Int, NEW id \in ID
    PROVE  /\ errorResponse(rpc, rc, d, code, id) \in Response
           /\ errorResponse(rpc, rc, d, code, id).id = id
BY DEF errorResponse, Response, InternalErrorCode

(* The dispatcher's own codes are registered, so they reach the client. *)
LEMMA PlainErrorType ==
    ASSUME cfg \in Configs, NEW id \in ID,
           NEW code \in {InvalidRequestErrorCode, MethodNotFoundErrorCode,
                         InternalErrorCode, RequestTimeLimit}
    PROVE  plainError(code, id) = [id |-> id, code |-> code, data |-> "none"]
<1>1. code \in cfg.errors
  BY ConfigsAssumption
<1>. QED
  BY <1>1 DEF plainError, errorResponse

(* A plain error is a response with that id. *)
LEMMA PlainErrorResponse ==
    ASSUME NEW id \in ID, NEW code \in Int
    PROVE  plainError(code, id) \in Response /\ plainError(code, id).id = id
BY DEF plainError, errorResponse, Response, InternalErrorCode

(* Whatever the user code does, call() yields a response to that request. *)
LEMMA CallType ==
    ASSUME NEW e \in Element, NEW o \in Outcomes
    PROVE  call(e, o) \in Response /\ call(e, o).id = e.id
<1>1. o.interceptors \in GoResult /\ o.method \in GoResult /\ e.id \in ID
  BY OutcomesAssumption DEF Outcome, Element
<1>2. \A g \in GoResult : goError(g, e.id) \in Response /\ goError(g, e.id).id = e.id
  BY <1>1, ErrorResponseType DEF goError, GoResult
<1>3. /\ plainError(InternalErrorCode, e.id) \in Response
      /\ plainError(InternalErrorCode, e.id).id = e.id
      /\ plainError(MethodNotFoundErrorCode, e.id) \in Response
      /\ plainError(MethodNotFoundErrorCode, e.id).id = e.id
  BY <1>1, PlainErrorResponse DEF InternalErrorCode, MethodNotFoundErrorCode
<1>4. LET r == [id |-> e.id, code |-> OK, data |-> "none"]
      IN  r \in Response /\ r.id = e.id
  BY <1>1 DEF Response, OK
<1>5. /\ o.interceptors.kind \in {"ok", "error", "panic"}
      /\ o.method.kind \in {"ok", "error", "panic"}
  BY <1>1 DEF GoResult
<1>. QED
  BY <1>1, <1>2, <1>3, <1>4, <1>5 DEF call

(* marshal always yields something that marshals, for the same id. *)
LEMMA MarshalType ==
    ASSUME NEW r \in Response
    PROVE  /\ marshal(r) \in Response
           /\ marshal(r).id = wire(r).id
           /\ marshal(r).code = IF r.data = "bad" THEN InternalErrorCode ELSE r.code
BY DEF marshal, wire, safeInternalResponse, Response, InternalErrorCode, ID, NoID, NullID

(* The elements of a payload are elements, and the object form has one. *)
LEMMA PayloadType ==
    ASSUME payload \in Payloads
    PROVE  /\ payload.elems \in Seq(Element)
           /\ Len(payload.elems) \in Nat
           /\ \A i \in Entries : payload.elems[i] \in Element /\ i \in Nat /\ i >= 1
           /\ payload.form = "object" => Entries = {1}
<1>1. payload.elems \in Seq(Element) /\ (payload.form = "object" => Len(payload.elems) = 1)
  BY PayloadsAssumption DEF Payload
<1>2. Len(payload.elems) \in Nat /\ DOMAIN payload.elems = Entries
  BY <1>1 DEF Entries
<1>3. \A i \in Entries : payload.elems[i] \in Element /\ i \in Nat /\ i >= 1
  BY <1>1, <1>2 DEF Entries
<1>. QED
  BY <1>1, <1>2, <1>3 DEF Entries

(***************************************************************************)
(* Type correctness.                                                       *)
(***************************************************************************)

(* What depends on the message and the snapshot alone does not change. *)
LEMMA InputsConstant ==
    ASSUME UNCHANGED <<payload, cfg>>
    PROVE  Entries' = Entries /\ dispatched' = dispatched /\ answered' = answered
BY DEF Entries, dispatched, dispatchedBatch, dispatchedSingle, goodArray,
   batchTooLarge, hasGarbage, answered

(* The initial states are well typed. *)
LEMMA TypeInit == Init => TypeOK
<1>. SUFFICES ASSUME Init PROVE TypeOK
  OBVIOUS
<1>1. payload.elems \in Seq(Element) /\ Len(payload.elems) \in Nat
  BY PayloadType DEF Init
<1>2. next \in 1 .. Len(payload.elems) + 1 /\ cursor \in 1 .. Len(payload.elems) + 1
  BY <1>1 DEF Init
<1>3. /\ job \in [Entries -> 0 .. Len(payload.elems)]
      /\ resp \in [Entries -> Response \cup {Nil}]
      /\ chan \in [Entries -> Response \cup {Nil}]
      /\ raw \in [Entries -> Response \cup {Nil}]
  BY <1>1 DEF Init
<1>4. /\ observed \in [Entries -> Seq(CallInfo)]
      /\ picked \in Seq(Entries)
  BY <1>1 DEF Init
<1>5. returned \in [Entries -> [resp: Response \cup {Nil},
           at: {"none", "unsent", "live", "canceled", "deadline"}]]
  BY DEF Init, NotReturned
<1>6. reply \in [shape: {"pending", "silent", "object", "array"}, body: Seq(Response)]
  BY DEF Init, Pending
<1>. QED
  BY <1>1, <1>2, <1>3, <1>4, <1>5, <1>6 DEF Init, TypeOK

(***************************************************************************)
(* What a step that leaves an entry, a worker or the loop alone preserves. *)
(***************************************************************************)

(* A worker is fine after a step that touches neither it nor its entry. *)
LEMMA WorkerFrame ==
    ASSUME NEW v, WorkerOK(v), payload' = payload, cfg' = cfg,
           pc'[v] = pc[v], job'[v] = job[v], resp'[v] = resp[v],
           pc[v] \in Busy =>
              /\ observed'[job[v]] = observed[job[v]]
              /\ handler'[job[v]] = handler[job[v]]
              /\ ctxt'[job[v]] = ctxt[job[v]]
              /\ chan'[job[v]] = chan[job[v]]
              /\ returned'[job[v]] = returned[job[v]]
    PROVE  WorkerOK(v)'
BY DEF WorkerOK, Verdict, Busy

(* An entry is fine after a step that does not touch it. *)
LEMMA EntryFrame ==
    ASSUME NEW i, EntryOK(i), payload' = payload, cfg' = cfg,
           observed'[i] = observed[i], handler'[i] = handler[i],
           ctxt'[i] = ctxt[i], returned'[i] = returned[i], raw'[i] = raw[i]
    PROVE  EntryOK(i)'
BY DEF EntryOK, Verdict

(* A handler's state is fine after a step that does not touch it. *)
LEMMA HandlerFrame ==
    ASSUME NEW i, HandlerOK(i), payload' = payload, cfg' = cfg,
           handler'[i] = handler[i], ctxt'[i] = ctxt[i],
           returned'[i] = returned[i], chan'[i] = chan[i]
    PROVE  HandlerOK(i)'
BY DEF HandlerOK

(* Before the filtering loop, nothing has been copied. *)
LEMMA CollectIdle ==
    ASSUME IInv, Entries' = Entries, phase \in {"received", "batch", "single"},
           picked' = picked, cursor' = cursor
    PROVE  CollectInv'
<1>1. picked = << >> /\ cursor = 1 /\ \A i \in Entries : ~(i < cursor)
  BY PayloadType DEF IInv, TypeOK, CollectInv
<1>. QED
  BY <1>1 DEF CollectInv

(* The loop's copy stays right while the slots and the phase stand still. *)
LEMMA CollectFrame ==
    ASSUME CollectInv, Entries' = Entries,
           UNCHANGED <<phase, picked, cursor, raw>>
    PROVE  CollectInv'
BY DEF CollectInv

(* A reply stays right while everything it is judged by stands still. *)
LEMMA ReplyFrame ==
    ASSUME ReplyInv, payload' = payload, Entries' = Entries,
           dispatched' = dispatched, answered' = answered,
           UNCHANGED <<phase, reply, raw, observed>>
    PROVE  ReplyInv'
BY DEF ReplyInv, ReplyMatchesRequests, listsAnswered

(* Without a reply there is nothing to be judged. *)
LEMMA ReplyPending ==
    ASSUME ReplyInv, phase # "done", phase' # "done", reply' = reply
    PROVE  ReplyInv'
BY DEF ReplyInv, ReplyMatchesRequests

(* A busy worker holds an entry, while the pool or the single call runs. *)
LEMMA BusyFacts ==
    ASSUME IInv, NEW w \in Entries, pc[w] \in Busy
    PROVE  /\ job[w] \in Entries
           /\ payload.elems[job[w]] \in Element
           /\ elem(w) = payload.elems[job[w]]
           /\ phase \in {"batch", "single"}
           /\ observed[job[w]] = << >>
           /\ \A v \in Entries : job[v] = job[w] => v = w
<1>1. job[w] \in 0 .. Len(payload.elems) /\ job[w] # 0 /\ Len(payload.elems) \in Nat
  BY PayloadType DEF IInv, TypeOK, JobInv
<1>2. job[w] \in Entries
  BY <1>1 DEF Entries
<1>3. WorkerOK(w)
  BY DEF IInv, WorkerInv
<1>. QED
  BY <1>1, <1>2, <1>3, PayloadType DEF IInv, TypeOK, JobInv, PhaseInv, WorkerOK, elem

(* Reply(w) settles the worker's entry and disturbs no other. *)
LEMMA ReplyStep ==
    ASSUME IInv, NEW w \in Entries, Reply(w)
    PROVE  IInv'
<1>0. /\ Entries' = Entries /\ dispatched' = dispatched /\ answered' = answered
      /\ payload' = payload /\ cfg' = cfg
  BY InputsConstant DEF Reply
<1>i. PICK i \in Entries : i = job[w]
  BY BusyFacts DEF Reply, Busy
<1>a. /\ elem(w) = payload.elems[i] /\ payload.elems[i] \in Element
      /\ phase \in {"batch", "single"} /\ observed[i] = << >>
      /\ \A v \in Entries : job[v] = i => v = w
  BY <1>i, BusyFacts DEF Reply, Busy
<1>r. PICK r \in Response : r = resp[w]
  BY <1>i DEF IInv, WorkerInv, WorkerOK, TypeOK, Reply
<1>b. /\ Verdict(i, r.code) /\ r # Nil
      /\ ~isNotification(payload.elems[i]) =>
            wire(r).id = answerID(payload.elems[i])
  BY <1>i, <1>r DEF IInv, WorkerInv, WorkerOK, Reply
<1>n. PICK n \in BOOLEAN : n <=> isNotification(payload.elems[i])
  OBVIOUS
<1>c. /\ [code |-> r.code, notification |-> n] \in CallInfo
      /\ observe(w) = <<[code |-> r.code, notification |-> n]>>
  BY <1>i, <1>r, <1>n, <1>a, <1>b DEF observe, CallInfo, Response, isNotification
<1>1. TypeOK'
  <2>1. observed' \in [Entries -> Seq(CallInfo)]
    BY <1>i, <1>a, <1>c DEF IInv, TypeOK, Reply
  <2>2. raw' \in [Entries -> Response \cup {Nil}]
    BY <1>i, <1>r, <1>a, <1>b DEF IInv, TypeOK, Reply, slot
  <2>3. /\ pc' \in [Entries -> {"none", "idle", "got", "inline", "check", "select",
                           "aborting", "reply", "exited"}]
        /\ job' \in [Entries -> 0 .. Len(payload.elems)]
        /\ resp' \in [Entries -> Response \cup {Nil}]
    BY PayloadType DEF IInv, TypeOK, Reply
  <2>. QED
    BY <1>0, <2>1, <2>2, <2>3 DEF IInv, TypeOK, Reply, callerVars, ctxVars
<1>2. JobInv'
  BY <1>0, <1>i, <1>a DEF IInv, TypeOK, JobInv, Reply, Busy
<1>3. PhaseInv'
  <2>1. /\ observed'[i] # << >>
        /\ \A j \in Entries : j # i => observed'[j] = observed[j]
        /\ job'[w] = 0
        /\ \A v \in Entries : v # w => job'[v] = job[v]
        /\ UNCHANGED <<phase, next, closed, handler>>
    BY <1>i, <1>a, <1>c DEF IInv, TypeOK, Reply, callerVars
  <2>2. CASE phase = "batch"
    <3>1. i < next
      BY <2>2, <1>i DEF IInv, PhaseInv, HandedOutOK
    <3>2. ASSUME NEW j \in Entries PROVE HandedOutOK(j)'
      <4>0. HandedOutOK(j)
        BY <2>2 DEF IInv, PhaseInv
      <4>1. CASE j = i
        BY <4>1, <3>1, <2>1 DEF HandedOutOK
      <4>2. CASE j # i /\ j < next
        <5>1. observed[j] # << >> \/ \E v \in Entries : job[v] = j /\ v # w
          BY <4>0, <4>2, <1>i DEF HandedOutOK
        <5>. QED
          BY <4>2, <5>1, <2>1, <1>0 DEF HandedOutOK
      <4>3. CASE j # i /\ ~(j < next)
        <5>1. observed[j] = << >> /\ handler[j] = "none"
              /\ \A v \in Entries : job[v] # j
          BY <4>0, <4>3 DEF HandedOutOK
        <5>2. j # 0
          BY PayloadType DEF IInv, TypeOK
        <5>. QED
          BY <4>3, <5>1, <5>2, <2>1, <1>0 DEF HandedOutOK
      <4>. QED
        BY <4>1, <4>2, <4>3
    <3>. QED
      BY <3>2, <2>1, <2>2, <1>0 DEF IInv, PhaseInv
  <2>3. CASE phase = "single"
    BY <2>1, <2>3, <1>0, <1>i, <1>a, PayloadType DEF IInv, TypeOK, PhaseInv
  <2>. QED
    BY <2>2, <2>3, <1>a
<1>4. HandlerInv'
  BY <1>0, HandlerFrame DEF IInv, HandlerInv, Reply, ctxVars
<1>5. WorkerInv'
  <2>. SUFFICES ASSUME NEW v \in Entries PROVE WorkerOK(v)'
    BY <1>0 DEF WorkerInv
  <2>1. CASE v = w
    BY <2>1, <1>0 DEF IInv, TypeOK, WorkerOK, Reply, Busy
  <2>2. CASE v # w
    <3>1. pc[v] \in Busy => job[v] # i
      BY <1>a, <2>2
    <3>. QED
      BY <2>2, <3>1, <1>i, <1>0, WorkerFrame
         DEF IInv, TypeOK, WorkerInv, Reply, ctxVars
  <2>. QED
    BY <2>1, <2>2
<1>6. EntryInv'
  <2>. SUFFICES ASSUME NEW j \in Entries PROVE EntryOK(j)'
    BY <1>0 DEF EntryInv
  <2>1. CASE j = i
    <3>1. /\ observed'[i] = <<[code |-> r.code, notification |-> n]>>
          /\ raw'[i] = IF isNotification(payload.elems[i]) THEN Nil ELSE r
      BY <1>i, <1>r, <1>a, <1>c DEF IInv, TypeOK, Reply, slot
    <3>2. /\ Len(observed'[i]) = 1
          /\ observed'[i][1].code = r.code
          /\ observed'[i][1].notification = n
      BY <3>1
    <3>3. Verdict(i, r.code)'
      BY <1>0, <1>b DEF Verdict, Reply, ctxVars
    <3>4. (handler[i] = "none" => ~observed[i][1].notification)'
      BY <3>2, <1>b, <1>n DEF Verdict, Reply
    <3>. QED
      BY <2>1, <3>1, <3>2, <3>3, <3>4, <1>0, <1>b DEF EntryOK
  <2>2. CASE j # i
    BY <2>2, <1>0, <1>i, EntryFrame DEF IInv, TypeOK, EntryInv, Reply, ctxVars
  <2>. QED
    BY <2>1, <2>2
<1>7. CollectInv'
  BY <1>0, <1>a, CollectIdle DEF Reply, callerVars
<1>8. ReplyInv'
  BY <1>a, ReplyPending DEF IInv, Reply, callerVars
<1>. QED
  BY <1>1, <1>2, <1>3, <1>4, <1>5, <1>6, <1>7, <1>8 DEF IInv

(***************************************************************************)
(* Steps a busy worker takes on the entry it holds.                        *)
(***************************************************************************)

(* The phases are undisturbed while the jobs and observations stand still  *)
(* and only an entry that is held can leave the state "none".              *)
LEMMA PhaseFrame ==
    ASSUME IInv, Entries' = Entries, dispatched' = dispatched,
           UNCHANGED <<payload, phase, next, closed, job, observed>>,
           \A j \in Entries : handler[j] = "none" =>
              handler'[j] = "none" \/ \E v \in Entries : job[v] = j
    PROVE  PhaseInv'
<1>1. \A j \in Entries : j # 0
  BY PayloadType DEF IInv, TypeOK
<1>2. \A j \in Entries : HandedOutOK(j) => HandedOutOK(j)'
  BY DEF HandedOutOK
<1>. QED
  BY <1>1, <1>2 DEF IInv, PhaseInv

(* A step of worker w that only changes w's local state and the entry it   *)
(* holds preserves the invariant if that worker and entry are fine after.  *)
LEMMA LocalStep ==
    ASSUME IInv, NEW w \in Entries, NEW i \in Entries, i = job[w],
           payload' = payload, cfg' = cfg,
           pc[w] \in Busy, pc'[w] \in Busy,
           UNCHANGED <<callerVars, job, raw, observed>>,
           \A v \in Entries : v # w => pc'[v] = pc[v] /\ resp'[v] = resp[v],
           \A j \in Entries : j # i =>
              /\ handler'[j] = handler[j] /\ ctxt'[j] = ctxt[j]
              /\ chan'[j] = chan[j] /\ returned'[j] = returned[j],
           TypeOK', WorkerOK(w)', HandlerOK(i)'
    PROVE  IInv'
<1>0. Entries' = Entries /\ dispatched' = dispatched /\ answered' = answered
  BY InputsConstant
<1>a. /\ phase \in {"batch", "single"} /\ observed[i] = << >>
      /\ \A v \in Entries : job[v] = i => v = w
  BY BusyFacts
<1>2. JobInv'
  BY <1>0 DEF IInv, JobInv
<1>3. PhaseInv'
  BY <1>0, PhaseFrame DEF callerVars
<1>4. HandlerInv'
  BY <1>0, HandlerFrame DEF IInv, HandlerInv
<1>5. WorkerInv'
  <2>. SUFFICES ASSUME NEW v \in Entries, v # w PROVE WorkerOK(v)'
    BY <1>0 DEF WorkerInv
  <2>1. pc[v] \in Busy => job[v] \in Entries /\ job[v] # i
    BY <1>a, BusyFacts
  <2>. QED
    BY <2>1, WorkerFrame DEF IInv, WorkerInv
<1>6. EntryInv'
  <2>. SUFFICES ASSUME NEW j \in Entries PROVE EntryOK(j)'
    BY <1>0 DEF EntryInv
  <2>1. CASE j = i
    BY <2>1, <1>a DEF EntryOK
  <2>2. CASE j # i
    BY <2>2, EntryFrame DEF IInv, EntryInv
  <2>. QED
    BY <2>1, <2>2
<1>7. CollectInv'
  BY <1>0, <1>a, CollectIdle DEF callerVars
<1>8. ReplyInv'
  BY <1>a, ReplyPending DEF IInv, callerVars
<1>. QED
  BY <1>2, <1>3, <1>4, <1>5, <1>6, <1>7, <1>8 DEF IInv

(* An undecodable entry is answered -32600 with a null id. *)
LEMMA ParseFailedStep ==
    ASSUME IInv, NEW w \in Entries, ParseFailed(w)
    PROVE  IInv'
<1>i. PICK i \in Entries : i = job[w]
  BY BusyFacts DEF ParseFailed, Busy
<1>a. elem(w) = payload.elems[i] /\ payload.elems[i] \in Element /\ observed[i] = << >>
  BY <1>i, BusyFacts DEF ParseFailed, Busy
<1>0. Entries' = Entries /\ payload' = payload /\ cfg' = cfg
  BY InputsConstant DEF ParseFailed
<1>w. WorkerOK(w) /\ HandlerOK(i) /\ TypeOK
  BY DEF IInv, WorkerInv, HandlerInv
<1>r. PICK r \in Response : /\ r = plainError(InvalidRequestErrorCode, NoID)
                          /\ r = [id |-> NoID, code |-> InvalidRequestErrorCode,
                                  data |-> "none"]
  <2>1. NoID \in ID
    BY <1>a DEF ID, Element, echoedID, NoID
  <2>. QED
    BY <2>1, <1>w, PlainErrorType, PlainErrorResponse DEF TypeOK, InvalidRequestErrorCode
<1>b. ~isNotification(payload.elems[i]) /\ wire(r).id = answerID(payload.elems[i])
  BY <1>a, <1>r DEF ParseFailed, isNotification, wire, answerID, echoedID, NoID, NullID, BrokenID,
     Response, Element, validateRequest
<1>1. TypeOK'
  BY <1>0, <1>a, <1>r, <1>w DEF TypeOK, ParseFailed, callerVars, entryVars, ctxVars
<1>2. WorkerOK(w)'
  BY <1>0, <1>i, <1>a, <1>r, <1>b, <1>w, NilNotResponse
     DEF WorkerOK, TypeOK, Verdict, ParseFailed, entryVars, ctxVars, Busy
<1>3. HandlerOK(i)'
  BY <1>0, <1>w DEF HandlerOK, ParseFailed, entryVars, ctxVars
<1>4. /\ pc[w] \in Busy /\ pc'[w] \in Busy
      /\ UNCHANGED <<callerVars, job, raw, observed>>
      /\ \A v \in Entries : v # w => pc'[v] = pc[v] /\ resp'[v] = resp[v]
      /\ \A j \in Entries : j # i =>
            /\ handler'[j] = handler[j] /\ ctxt'[j] = ctxt[j]
            /\ chan'[j] = chan[j] /\ returned'[j] = returned[j]
  BY <1>i, <1>w DEF TypeOK, ParseFailed, entryVars, ctxVars, Busy
<1>. QED
  BY <1>i, <1>0, <1>1, <1>2, <1>3, <1>4, LocalStep

(* An invalid request is answered -32600 with the id it may echo. *)
LEMMA InvalidRequestStep ==
    ASSUME IInv, NEW w \in Entries, InvalidRequest(w)
    PROVE  IInv'
<1>i. PICK i \in Entries : i = job[w]
  BY BusyFacts DEF InvalidRequest, Busy
<1>a. elem(w) = payload.elems[i] /\ payload.elems[i] \in Element /\ observed[i] = << >>
  BY <1>i, BusyFacts DEF InvalidRequest, Busy
<1>0. Entries' = Entries /\ payload' = payload /\ cfg' = cfg
  BY InputsConstant DEF InvalidRequest
<1>w. WorkerOK(w) /\ HandlerOK(i) /\ TypeOK
  BY DEF IInv, WorkerInv, HandlerInv
<1>r. PICK r \in Response : /\ r = plainError(InvalidRequestErrorCode, echoedID(payload.elems[i]))
                          /\ r = [id |-> echoedID(payload.elems[i]), code |-> InvalidRequestErrorCode,
                                  data |-> "none"]
  <2>1. echoedID(payload.elems[i]) \in ID
    BY <1>a DEF ID, Element, echoedID, NoID
  <2>. QED
    BY <2>1, <1>w, PlainErrorType, PlainErrorResponse DEF TypeOK, InvalidRequestErrorCode
<1>b. ~isNotification(payload.elems[i]) /\ wire(r).id = answerID(payload.elems[i])
  BY <1>a, <1>r DEF InvalidRequest, isNotification, wire, answerID, echoedID, NoID, NullID, BrokenID,
     Response, Element, validateRequest
<1>1. TypeOK'
  BY <1>0, <1>a, <1>r, <1>w DEF TypeOK, InvalidRequest, callerVars, entryVars, ctxVars
<1>2. WorkerOK(w)'
  BY <1>0, <1>i, <1>a, <1>r, <1>b, <1>w, NilNotResponse
     DEF WorkerOK, TypeOK, Verdict, InvalidRequest, entryVars, ctxVars, Busy
<1>3. HandlerOK(i)'
  BY <1>0, <1>w DEF HandlerOK, InvalidRequest, entryVars, ctxVars
<1>4. /\ pc[w] \in Busy /\ pc'[w] \in Busy
      /\ UNCHANGED <<callerVars, job, raw, observed>>
      /\ \A v \in Entries : v # w => pc'[v] = pc[v] /\ resp'[v] = resp[v]
      /\ \A j \in Entries : j # i =>
            /\ handler'[j] = handler[j] /\ ctxt'[j] = ctxt[j]
            /\ chan'[j] = chan[j] /\ returned'[j] = returned[j]
  BY <1>i, <1>w DEF TypeOK, InvalidRequest, entryVars, ctxVars, Busy
<1>. QED
  BY <1>i, <1>0, <1>1, <1>2, <1>3, <1>4, LocalStep

(* Starting the call of a valid request. *)
LEMMA BeginCallStep ==
    ASSUME IInv, NEW w \in Entries, BeginCall(w)
    PROVE  IInv'
<1>i. PICK i \in Entries : i = job[w]
  BY BusyFacts DEF BeginCall, Busy
<1>a. elem(w) = payload.elems[i] /\ payload.elems[i] \in Element /\ observed[i] = << >>
  BY <1>i, BusyFacts DEF BeginCall, Busy
<1>0. Entries' = Entries /\ payload' = payload /\ cfg' = cfg
  BY InputsConstant DEF BeginCall
<1>w. WorkerOK(w) /\ HandlerOK(i) /\ TypeOK
  BY DEF IInv, WorkerInv, HandlerInv
<1>1. TypeOK'
  BY <1>0, <1>i, <1>w DEF TypeOK, BeginCall, callerVars
<1>2. WorkerOK(w)'
  BY <1>0, <1>i, <1>a, <1>w DEF WorkerOK, HandlerOK, TypeOK, BeginCall, Busy
<1>3. HandlerOK(i)'
  BY <1>0, <1>i, <1>a, <1>w DEF WorkerOK, HandlerOK, TypeOK, BeginCall
<1>4. /\ pc[w] \in Busy /\ pc'[w] \in Busy
      /\ UNCHANGED <<callerVars, job, raw, observed>>
      /\ \A v \in Entries : v # w => pc'[v] = pc[v] /\ resp'[v] = resp[v]
      /\ \A j \in Entries : j # i =>
            /\ handler'[j] = handler[j] /\ ctxt'[j] = ctxt[j]
            /\ chan'[j] = chan[j] /\ returned'[j] = returned[j]
  BY <1>i, <1>w DEF TypeOK, BeginCall, Busy
<1>. QED
  BY <1>i, <1>0, <1>1, <1>2, <1>3, <1>4, LocalStep

(* The handler returns on the worker's goroutine. *)
LEMMA InlineReturnStep ==
    ASSUME IInv, NEW w \in Entries, InlineReturn(w)
    PROVE  IInv'
<1>i. PICK i \in Entries : i = job[w]
  BY BusyFacts DEF InlineReturn, Busy
<1>a. elem(w) = payload.elems[i] /\ payload.elems[i] \in Element /\ observed[i] = << >>
  BY <1>i, BusyFacts DEF InlineReturn, Busy
<1>0. Entries' = Entries /\ payload' = payload /\ cfg' = cfg
  BY InputsConstant DEF InlineReturn
<1>w. WorkerOK(w) /\ HandlerOK(i) /\ TypeOK
  BY DEF IInv, WorkerInv, HandlerInv
<1>r. PICK r \in Response :
          /\ r.id = payload.elems[i].id
          /\ resp' = [resp EXCEPT ![w] = r]
          /\ returned' = [returned EXCEPT ![i] = [resp |-> r, at |-> ctxt[i]]]
  BY <1>i, <1>a, CallType DEF InlineReturn
<1>b. ~isNotification(payload.elems[i]) => wire(r).id = answerID(payload.elems[i])
  BY <1>i, <1>a, <1>r, <1>w DEF wire, answerID, NoID, NullID, BrokenID, Response,
     validateRequest, HandlerOK, WorkerOK, InlineReturn
<1>1. TypeOK'
  BY <1>0, <1>i, <1>r, <1>w DEF TypeOK, InlineReturn, callerVars, ctxVars
<1>2. WorkerOK(w)'
  BY <1>0, <1>i, <1>a, <1>r, <1>b, <1>w, NilNotResponse
     DEF WorkerOK, TypeOK, InlineReturn, ctxVars, Busy
<1>3. HandlerOK(i)'
  BY <1>0, <1>i, <1>r, <1>w, NilNotResponse DEF WorkerOK, HandlerOK, TypeOK, InlineReturn, ctxVars
<1>4. /\ pc[w] \in Busy /\ pc'[w] \in Busy
      /\ UNCHANGED <<callerVars, job, raw, observed>>
      /\ \A v \in Entries : v # w => pc'[v] = pc[v] /\ resp'[v] = resp[v]
      /\ \A j \in Entries : j # i =>
            /\ handler'[j] = handler[j] /\ ctxt'[j] = ctxt[j]
            /\ chan'[j] = chan[j] /\ returned'[j] = returned[j]
  BY <1>i, <1>w, <1>r DEF TypeOK, InlineReturn, ctxVars, Busy
<1>. QED
  BY <1>i, <1>0, <1>1, <1>2, <1>3, <1>4, LocalStep

(* The deadline check after an inline call. *)
LEMMA InlineCheckStep ==
    ASSUME IInv, NEW w \in Entries, InlineCheck(w)
    PROVE  IInv'
<1>i. PICK i \in Entries : i = job[w]
  BY BusyFacts DEF InlineCheck, Busy
<1>a. elem(w) = payload.elems[i] /\ payload.elems[i] \in Element /\ observed[i] = << >>
  BY <1>i, BusyFacts DEF InlineCheck, Busy
<1>0. Entries' = Entries /\ payload' = payload /\ cfg' = cfg
  BY InputsConstant DEF InlineCheck
<1>w. WorkerOK(w) /\ HandlerOK(i) /\ TypeOK
  BY DEF IInv, WorkerInv, HandlerInv
<1>t. PICK t \in Response : /\ t = timeLimit(w)
                          /\ t = [id |-> payload.elems[i].id,
                                  code |-> RequestTimeLimit, data |-> "none"]
  <2>1. payload.elems[i].id \in ID
    BY <1>a DEF Element
  <2>. QED
    BY <2>1, <1>a, <1>w, PlainErrorType, PlainErrorResponse
       DEF TypeOK, RequestTimeLimit, timeLimit
<1>h. handler[i] # "none" /\ payload.elems[i].kind = "request"
      /\ validateRequest(payload.elems[i])
  BY <1>i, <1>w DEF WorkerOK, HandlerOK, InlineCheck
<1>b. ~isNotification(payload.elems[i]) => wire(t).id = answerID(payload.elems[i])
  BY <1>a, <1>t, <1>h DEF wire, answerID, NoID, NullID, BrokenID, Response, validateRequest
<1>1. TypeOK'
  BY <1>0, <1>i, <1>t, <1>w DEF TypeOK, InlineCheck, callerVars, entryVars, cancelCtxt
<1>2. WorkerOK(w)'
  <2>1. /\ pc'[w] = "reply" /\ job'[w] = i /\ handler'[i] = "returned"
        /\ resp'[w] = IF ctxt[i] = "deadline" THEN t ELSE returned[i].resp
        /\ ctxt'[i] = IF ctxt[i] = "live" THEN "canceled" ELSE ctxt[i]
        /\ returned' = returned /\ observed' = observed
    BY <1>i, <1>t, <1>w
       DEF TypeOK, WorkerOK, InlineCheck, deadlineExceeded, entryVars, cancelCtxt
  <2>2. Verdict(i, resp[w].code)'
    BY <2>1, <1>0, <1>i, <1>h, <1>t, <1>w DEF Verdict, WorkerOK, InlineCheck, Response
  <2>. QED
    BY <2>1, <2>2, <1>0, <1>i, <1>a, <1>b, <1>t, <1>w, NilNotResponse
       DEF WorkerOK, InlineCheck, Busy
<1>3. HandlerOK(i)'
  BY <1>0, <1>i, <1>w DEF HandlerOK, TypeOK, InlineCheck, entryVars, cancelCtxt
<1>4. /\ pc[w] \in Busy /\ pc'[w] \in Busy
      /\ UNCHANGED <<callerVars, job, raw, observed>>
      /\ \A v \in Entries : v # w => pc'[v] = pc[v] /\ resp'[v] = resp[v]
      /\ \A j \in Entries : j # i =>
            /\ handler'[j] = handler[j] /\ ctxt'[j] = ctxt[j]
            /\ chan'[j] = chan[j] /\ returned'[j] = returned[j]
  BY <1>i, <1>w DEF TypeOK, InlineCheck, entryVars, cancelCtxt, Busy
<1>. QED
  BY <1>i, <1>0, <1>1, <1>2, <1>3, <1>4, LocalStep

(* The outer select takes the response from the channel. *)
LEMMA SelectResponseStep ==
    ASSUME IInv, NEW w \in Entries, SelectResponse(w)
    PROVE  IInv'
<1>i. PICK i \in Entries : i = job[w]
  BY BusyFacts DEF SelectResponse, Busy
<1>a. elem(w) = payload.elems[i] /\ payload.elems[i] \in Element /\ observed[i] = << >>
  BY <1>i, BusyFacts DEF SelectResponse, Busy
<1>0. Entries' = Entries /\ payload' = payload /\ cfg' = cfg
  BY InputsConstant DEF SelectResponse
<1>w. WorkerOK(w) /\ HandlerOK(i) /\ TypeOK
  BY DEF IInv, WorkerInv, HandlerInv
<1>r. PICK r \in Response : /\ r = chan[i] /\ r = returned[i].resp
                          /\ r.id = payload.elems[i].id
  BY <1>i, <1>w DEF TypeOK, HandlerOK, SelectResponse
<1>h. /\ cfg.enforced /\ handler[i] = "returned"
      /\ validateRequest(payload.elems[i]) /\ payload.elems[i].kind = "request"
  BY <1>i, <1>w DEF TypeOK, WorkerOK, HandlerOK, SelectResponse
<1>b. ~isNotification(payload.elems[i]) => wire(r).id = answerID(payload.elems[i])
  BY <1>a, <1>r, <1>h DEF wire, answerID, NoID, NullID, BrokenID, Response, validateRequest
<1>c. /\ pc'[w] = "reply" /\ job'[w] = i /\ resp'[w] = r /\ chan'[i] = Nil
      /\ handler' = handler /\ returned' = returned /\ observed' = observed
      /\ ctxt'[i] = IF ctxt[i] = "live" THEN "canceled" ELSE ctxt[i]
  BY <1>i, <1>r, <1>w DEF TypeOK, SelectResponse, takeResponse, cancelCtxt
<1>1. TypeOK'
  BY <1>0, <1>i, <1>r, <1>w DEF TypeOK, SelectResponse, takeResponse, callerVars, cancelCtxt
<1>2. WorkerOK(w)'
  <2>1. Verdict(i, resp[w].code)'
    BY <1>0, <1>c, <1>h, <1>r DEF Verdict
  <2>. QED
    BY <2>1, <1>0, <1>a, <1>b, <1>c, <1>r, NilNotResponse DEF WorkerOK, Busy
<1>3. HandlerOK(i)'
  BY <1>0, <1>c, <1>w DEF HandlerOK, TypeOK
<1>4. /\ pc[w] \in Busy /\ pc'[w] \in Busy
      /\ UNCHANGED <<callerVars, job, raw, observed>>
      /\ \A v \in Entries : v # w => pc'[v] = pc[v] /\ resp'[v] = resp[v]
      /\ \A j \in Entries : j # i =>
            /\ handler'[j] = handler[j] /\ ctxt'[j] = ctxt[j]
            /\ chan'[j] = chan[j] /\ returned'[j] = returned[j]
  BY <1>i, <1>w DEF TypeOK, SelectResponse, takeResponse, cancelCtxt, Busy
<1>. QED
  BY <1>i, <1>0, <1>1, <1>2, <1>3, <1>4, LocalStep

(* The inner select takes the response from the channel. *)
LEMMA TakeReadyStep ==
    ASSUME IInv, NEW w \in Entries, TakeReady(w)
    PROVE  IInv'
<1>i. PICK i \in Entries : i = job[w]
  BY BusyFacts DEF TakeReady, Busy
<1>a. elem(w) = payload.elems[i] /\ payload.elems[i] \in Element /\ observed[i] = << >>
  BY <1>i, BusyFacts DEF TakeReady, Busy
<1>0. Entries' = Entries /\ payload' = payload /\ cfg' = cfg
  BY InputsConstant DEF TakeReady
<1>w. WorkerOK(w) /\ HandlerOK(i) /\ TypeOK
  BY DEF IInv, WorkerInv, HandlerInv
<1>r. PICK r \in Response : /\ r = chan[i] /\ r = returned[i].resp
                          /\ r.id = payload.elems[i].id
  BY <1>i, <1>w DEF TypeOK, HandlerOK, TakeReady
<1>h. /\ cfg.enforced /\ handler[i] = "returned"
      /\ validateRequest(payload.elems[i]) /\ payload.elems[i].kind = "request"
  BY <1>i, <1>w DEF TypeOK, WorkerOK, HandlerOK, TakeReady
<1>b. ~isNotification(payload.elems[i]) => wire(r).id = answerID(payload.elems[i])
  BY <1>a, <1>r, <1>h DEF wire, answerID, NoID, NullID, BrokenID, Response, validateRequest
<1>c. /\ pc'[w] = "reply" /\ job'[w] = i /\ resp'[w] = r /\ chan'[i] = Nil
      /\ handler' = handler /\ returned' = returned /\ observed' = observed
      /\ ctxt'[i] = IF ctxt[i] = "live" THEN "canceled" ELSE ctxt[i]
  BY <1>i, <1>r, <1>w DEF TypeOK, TakeReady, takeResponse, cancelCtxt
<1>1. TypeOK'
  BY <1>0, <1>i, <1>r, <1>w DEF TypeOK, TakeReady, takeResponse, callerVars, cancelCtxt
<1>2. WorkerOK(w)'
  <2>1. Verdict(i, resp[w].code)'
    BY <1>0, <1>c, <1>h, <1>r DEF Verdict
  <2>. QED
    BY <2>1, <1>0, <1>a, <1>b, <1>c, <1>r, NilNotResponse DEF WorkerOK, Busy
<1>3. HandlerOK(i)'
  BY <1>0, <1>c, <1>w DEF HandlerOK, TypeOK
<1>4. /\ pc[w] \in Busy /\ pc'[w] \in Busy
      /\ UNCHANGED <<callerVars, job, raw, observed>>
      /\ \A v \in Entries : v # w => pc'[v] = pc[v] /\ resp'[v] = resp[v]
      /\ \A j \in Entries : j # i =>
            /\ handler'[j] = handler[j] /\ ctxt'[j] = ctxt[j]
            /\ chan'[j] = chan[j] /\ returned'[j] = returned[j]
  BY <1>i, <1>w DEF TypeOK, TakeReady, takeResponse, cancelCtxt, Busy
<1>. QED
  BY <1>i, <1>0, <1>1, <1>2, <1>3, <1>4, LocalStep

(* The outer select sees the end of the context. *)
LEMMA SelectDoneStep ==
    ASSUME IInv, NEW w \in Entries, SelectDone(w)
    PROVE  IInv'
<1>i. PICK i \in Entries : i = job[w]
  BY BusyFacts DEF SelectDone, Busy
<1>a. elem(w) = payload.elems[i] /\ payload.elems[i] \in Element /\ observed[i] = << >>
  BY <1>i, BusyFacts DEF SelectDone, Busy
<1>0. Entries' = Entries /\ payload' = payload /\ cfg' = cfg
  BY InputsConstant DEF SelectDone
<1>w. WorkerOK(w) /\ HandlerOK(i) /\ TypeOK
  BY DEF IInv, WorkerInv, HandlerInv
<1>1. TypeOK'
  BY <1>0, <1>w DEF TypeOK, SelectDone, callerVars, entryVars, ctxVars
<1>2. WorkerOK(w)'
  BY <1>0, <1>i, <1>a, <1>w DEF WorkerOK, TypeOK, SelectDone, ctxtDone, entryVars, ctxVars, Busy
<1>3. HandlerOK(i)'
  BY <1>0, <1>w DEF HandlerOK, SelectDone, entryVars, ctxVars
<1>4. /\ pc[w] \in Busy /\ pc'[w] \in Busy
      /\ UNCHANGED <<callerVars, job, raw, observed>>
      /\ \A v \in Entries : v # w => pc'[v] = pc[v] /\ resp'[v] = resp[v]
      /\ \A j \in Entries : j # i =>
            /\ handler'[j] = handler[j] /\ ctxt'[j] = ctxt[j]
            /\ chan'[j] = chan[j] /\ returned'[j] = returned[j]
  BY <1>i, <1>w DEF TypeOK, SelectDone, entryVars, ctxVars, Busy
<1>. QED
  BY <1>i, <1>0, <1>1, <1>2, <1>3, <1>4, LocalStep

(* The call is given up: nothing is ready and the context has ended. *)
LEMMA AbortStep ==
    ASSUME IInv, NEW w \in Entries, Abort(w)
    PROVE  IInv'
<1>i. PICK i \in Entries : i = job[w]
  BY BusyFacts DEF Abort, Busy
<1>a. elem(w) = payload.elems[i] /\ payload.elems[i] \in Element /\ observed[i] = << >>
  BY <1>i, BusyFacts DEF Abort, Busy
<1>0. Entries' = Entries /\ payload' = payload /\ cfg' = cfg
  BY InputsConstant DEF Abort
<1>w. WorkerOK(w) /\ HandlerOK(i) /\ TypeOK
  BY DEF IInv, WorkerInv, HandlerInv
<1>t. PICK t \in Response : /\ t = timeLimit(w)
                          /\ t = [id |-> payload.elems[i].id,
                                  code |-> RequestTimeLimit, data |-> "none"]
  <2>1. payload.elems[i].id \in ID
    BY <1>a DEF Element
  <2>. QED
    BY <2>1, <1>a, <1>w, PlainErrorType, PlainErrorResponse
       DEF TypeOK, RequestTimeLimit, timeLimit
<1>h. handler[i] # "none" /\ payload.elems[i].kind = "request"
      /\ validateRequest(payload.elems[i])
  BY <1>i, <1>w DEF WorkerOK, HandlerOK, Abort
<1>b. ~isNotification(payload.elems[i]) => wire(t).id = answerID(payload.elems[i])
  BY <1>a, <1>t, <1>h DEF wire, answerID, NoID, NullID, BrokenID, Response, validateRequest
<1>c. /\ pc'[w] = "reply" /\ job'[w] = i /\ resp'[w] = t /\ chan' = chan
      /\ handler' = handler /\ returned' = returned /\ observed' = observed
      /\ ctxt'[i] = ctxt[i] /\ ctxt[i] # "live" /\ cfg.enforced /\ chan[i] = Nil
  BY <1>i, <1>t, <1>w
     DEF TypeOK, WorkerOK, Abort, nothingReady, entryVars, cancelCtxt
<1>d. handler[i] # "returned"
  BY <1>c, <1>h, <1>i, <1>w DEF WorkerOK, HandlerOK, Abort
<1>1. TypeOK'
  BY <1>0, <1>i, <1>t, <1>w DEF TypeOK, Abort, callerVars, entryVars, cancelCtxt
<1>2. WorkerOK(w)'
  <2>1. Verdict(i, resp[w].code)'
    BY <1>0, <1>c, <1>d, <1>h, <1>t DEF Verdict
  <2>. QED
    BY <2>1, <1>0, <1>a, <1>b, <1>c, <1>t, NilNotResponse DEF WorkerOK, Busy
<1>3. HandlerOK(i)'
  BY <1>0, <1>c, <1>w DEF HandlerOK
<1>4. /\ pc[w] \in Busy /\ pc'[w] \in Busy
      /\ UNCHANGED <<callerVars, job, raw, observed>>
      /\ \A v \in Entries : v # w => pc'[v] = pc[v] /\ resp'[v] = resp[v]
      /\ \A j \in Entries : j # i =>
            /\ handler'[j] = handler[j] /\ ctxt'[j] = ctxt[j]
            /\ chan'[j] = chan[j] /\ returned'[j] = returned[j]
  BY <1>i, <1>w DEF TypeOK, Abort, entryVars, cancelCtxt, Busy
<1>. QED
  BY <1>i, <1>0, <1>1, <1>2, <1>3, <1>4, LocalStep

(***************************************************************************)
(* Steps of the handler goroutines and of the contexts.                    *)
(***************************************************************************)

(* A step on entry i that no worker takes preserves the invariant if the   *)
(* entry, its handler and the worker that may hold it are fine after it.   *)
LEMMA EntryStep ==
    ASSUME IInv, NEW i \in Entries, payload' = payload, cfg' = cfg,
           UNCHANGED <<callerVars, workerVars, raw, observed>>,
           handler[i] = "none" => handler'[i] = "none",
           \A j \in Entries : j # i =>
              /\ handler'[j] = handler[j] /\ ctxt'[j] = ctxt[j]
              /\ chan'[j] = chan[j] /\ returned'[j] = returned[j],
           TypeOK', HandlerOK(i)', EntryOK(i)',
           \A v \in Entries : pc[v] \in Busy /\ job[v] = i => WorkerOK(v)'
    PROVE  IInv'
<1>0. Entries' = Entries /\ dispatched' = dispatched /\ answered' = answered
  BY InputsConstant
<1>2. JobInv'
  BY <1>0 DEF IInv, JobInv, workerVars
<1>3. PhaseInv'
  BY <1>0, PhaseFrame DEF callerVars, workerVars
<1>4. HandlerInv'
  BY <1>0, HandlerFrame DEF IInv, HandlerInv
<1>5. WorkerInv'
  <2>. SUFFICES ASSUME NEW v \in Entries PROVE WorkerOK(v)'
    BY <1>0 DEF WorkerInv
  <2>1. CASE pc[v] \in Busy /\ job[v] = i
    BY <2>1
  <2>2. CASE ~(pc[v] \in Busy /\ job[v] = i)
    <3>1. pc[v] \in Busy => job[v] \in Entries /\ job[v] # i
      BY <2>2, BusyFacts
    <3>. QED
      BY <3>1, WorkerFrame DEF IInv, WorkerInv, workerVars
  <2>. QED
    BY <2>1, <2>2
<1>6. EntryInv'
  BY <1>0, EntryFrame DEF IInv, EntryInv
<1>7. CollectInv'
  BY <1>0, CollectFrame DEF IInv, callerVars
<1>8. ReplyInv'
  BY <1>0, ReplyFrame DEF IInv, callerVars
<1>. QED
  BY <1>2, <1>3, <1>4, <1>5, <1>6, <1>7, <1>8 DEF IInv

(* An enforced handler finishes, in time or long after it was given up. *)
LEMMA EnforcedReturnStep ==
    ASSUME IInv, NEW i \in Entries, EnforcedReturn(i)
    PROVE  IInv'
<1>0. Entries' = Entries /\ payload' = payload /\ cfg' = cfg
  BY InputsConstant DEF EnforcedReturn
<1>a. payload.elems[i] \in Element
  BY PayloadType DEF IInv, TypeOK
<1>w. EntryOK(i) /\ HandlerOK(i) /\ TypeOK
  BY DEF IInv, EntryInv, HandlerInv
<1>r. PICK r \in Response :
          /\ r.id = payload.elems[i].id
          /\ returned' = [returned EXCEPT ![i] = [resp |-> r, at |-> "unsent"]]
  BY <1>a, CallType DEF EnforcedReturn
<1>1. TypeOK'
  BY <1>0, <1>r, <1>w DEF TypeOK, EnforcedReturn, callerVars, workerVars, ctxVars
<1>2. HandlerOK(i)'
  BY <1>0, <1>r, <1>w, NilNotResponse DEF HandlerOK, TypeOK, EnforcedReturn, ctxVars
<1>3. EntryOK(i)'
  BY <1>0, <1>r, <1>w DEF EntryOK, Verdict, TypeOK, EnforcedReturn, ctxVars
<1>4. ASSUME NEW v \in Entries, pc[v] \in Busy, job[v] = i PROVE WorkerOK(v)'
  <2>1. WorkerOK(v)
    BY DEF IInv, WorkerInv
  <2>. QED
    BY <2>1, <1>4, <1>0, <1>w, <1>r DEF WorkerOK, HandlerOK, Verdict, TypeOK, EnforcedReturn, workerVars, ctxVars
<1>5. /\ UNCHANGED <<callerVars, workerVars, raw, observed>>
      /\ handler[i] = "none" => handler'[i] = "none"
      /\ \A j \in Entries : j # i =>
            /\ handler'[j] = handler[j] /\ ctxt'[j] = ctxt[j]
            /\ chan'[j] = chan[j] /\ returned'[j] = returned[j]
  BY <1>w DEF TypeOK, EnforcedReturn, workerVars, ctxVars
<1>. QED
  BY <1>0, <1>1, <1>2, <1>3, <1>4, <1>5, EntryStep

(* An enforced handler puts its response into the channel. *)
LEMMA SendResponseStep ==
    ASSUME IInv, NEW i \in Entries, SendResponse(i)
    PROVE  IInv'
<1>0. Entries' = Entries /\ payload' = payload /\ cfg' = cfg
  BY InputsConstant DEF SendResponse
<1>a. payload.elems[i] \in Element
  BY PayloadType DEF IInv, TypeOK
<1>w. EntryOK(i) /\ HandlerOK(i) /\ TypeOK
  BY DEF IInv, EntryInv, HandlerInv
<1>r. PICK r \in Response : r = returned[i].resp
  BY <1>w DEF TypeOK, HandlerOK, SendResponse
<1>c. /\ handler[i] = "sending" /\ handler'[i] = "returned" /\ ctxt' = ctxt
      /\ returned'[i].resp = r /\ returned'[i].at = ctxt[i] /\ chan'[i] = r
  BY <1>r, <1>w DEF TypeOK, SendResponse, ctxVars
<1>1. TypeOK'
  <2>1. ctxt[i] \in {"none", "live", "canceled", "deadline"}
    BY <1>w DEF TypeOK
  <2>2. returned' \in [Entries -> [resp: Response \cup {Nil},
           at: {"none", "unsent", "live", "canceled", "deadline"}]]
    BY <2>1, <1>w DEF TypeOK, SendResponse
  <2>. QED
    BY <2>2, <1>0, <1>r, <1>w DEF TypeOK, SendResponse, callerVars, workerVars, ctxVars
<1>2. HandlerOK(i)'
  BY <1>0, <1>c, <1>w, <1>r, NilNotResponse DEF HandlerOK
<1>3. EntryOK(i)'
  BY <1>0, <1>c, <1>w DEF EntryOK, HandlerOK, Verdict, SendResponse
<1>4. ASSUME NEW v \in Entries, pc[v] \in Busy, job[v] = i PROVE WorkerOK(v)'
  <2>1. WorkerOK(v)
    BY DEF IInv, WorkerInv
  <2>. QED
    BY <2>1, <1>4, <1>0, <1>w, <1>r, <1>c DEF WorkerOK, HandlerOK, Verdict, TypeOK, SendResponse, workerVars, ctxVars
<1>5. /\ UNCHANGED <<callerVars, workerVars, raw, observed>>
      /\ handler[i] = "none" => handler'[i] = "none"
      /\ \A j \in Entries : j # i =>
            /\ handler'[j] = handler[j] /\ ctxt'[j] = ctxt[j]
            /\ chan'[j] = chan[j] /\ returned'[j] = returned[j]
  BY <1>w DEF TypeOK, SendResponse, workerVars, ctxVars
<1>. QED
  BY <1>0, <1>1, <1>2, <1>3, <1>4, <1>5, EntryStep

(* A timer fires. *)
LEMMA DeadlineExpiresStep ==
    ASSUME IInv, NEW i \in Entries, DeadlineExpires(i)
    PROVE  IInv'
<1>0. Entries' = Entries /\ payload' = payload /\ cfg' = cfg
  BY InputsConstant DEF DeadlineExpires
<1>a. payload.elems[i] \in Element
  BY PayloadType DEF IInv, TypeOK
<1>w. EntryOK(i) /\ HandlerOK(i) /\ TypeOK
  BY DEF IInv, EntryInv, HandlerInv
<1>1. TypeOK'
  BY <1>0, <1>w DEF TypeOK, DeadlineExpires, callerVars, workerVars, entryVars
<1>2. HandlerOK(i)'
  BY <1>0, <1>w DEF HandlerOK, TypeOK, DeadlineExpires, entryVars
<1>3. EntryOK(i)'
  BY <1>0, <1>w DEF EntryOK, Verdict, TypeOK, DeadlineExpires, entryVars
<1>4. ASSUME NEW v \in Entries, pc[v] \in Busy, job[v] = i PROVE WorkerOK(v)'
  <2>1. WorkerOK(v)
    BY DEF IInv, WorkerInv
  <2>. QED
    BY <2>1, <1>4, <1>0, <1>w DEF WorkerOK, HandlerOK, Verdict, TypeOK, DeadlineExpires, workerVars, entryVars
<1>5. /\ UNCHANGED <<callerVars, workerVars, raw, observed>>
      /\ handler[i] = "none" => handler'[i] = "none"
      /\ \A j \in Entries : j # i =>
            /\ handler'[j] = handler[j] /\ ctxt'[j] = ctxt[j]
            /\ chan'[j] = chan[j] /\ returned'[j] = returned[j]
  BY <1>w DEF TypeOK, DeadlineExpires, workerVars, entryVars
<1>. QED
  BY <1>0, <1>1, <1>2, <1>3, <1>4, <1>5, EntryStep

(* The end of the caller's context reaches a child context. *)
LEMMA PropagateEndStep ==
    ASSUME IInv, NEW i \in Entries, PropagateEnd(i)
    PROVE  IInv'
<1>0. Entries' = Entries /\ payload' = payload /\ cfg' = cfg
  BY InputsConstant DEF PropagateEnd
<1>a. payload.elems[i] \in Element
  BY PayloadType DEF IInv, TypeOK
<1>w. EntryOK(i) /\ HandlerOK(i) /\ TypeOK
  BY DEF IInv, EntryInv, HandlerInv
<1>1. TypeOK'
  BY <1>0, <1>w DEF TypeOK, PropagateEnd, callerVars, workerVars, entryVars
<1>2. HandlerOK(i)'
  BY <1>0, <1>w DEF HandlerOK, TypeOK, PropagateEnd, entryVars
<1>3. EntryOK(i)'
  BY <1>0, <1>w DEF EntryOK, Verdict, TypeOK, PropagateEnd, entryVars
<1>4. ASSUME NEW v \in Entries, pc[v] \in Busy, job[v] = i PROVE WorkerOK(v)'
  <2>1. WorkerOK(v)
    BY DEF IInv, WorkerInv
  <2>. QED
    BY <2>1, <1>4, <1>0, <1>w DEF WorkerOK, HandlerOK, Verdict, TypeOK, PropagateEnd, workerVars, entryVars
<1>5. /\ UNCHANGED <<callerVars, workerVars, raw, observed>>
      /\ handler[i] = "none" => handler'[i] = "none"
      /\ \A j \in Entries : j # i =>
            /\ handler'[j] = handler[j] /\ ctxt'[j] = ctxt[j]
            /\ chan'[j] = chan[j] /\ returned'[j] = returned[j]
  BY <1>w DEF TypeOK, PropagateEnd, workerVars, entryVars
<1>. QED
  BY <1>0, <1>1, <1>2, <1>3, <1>4, <1>5, EntryStep

(***************************************************************************)
(* Steps of the caller's goroutine.                                        *)
(***************************************************************************)

(* What a step that leaves all entries and contexts alone preserves. *)
LEMMA QuietEntries ==
    ASSUME IInv, payload' = payload, cfg' = cfg, UNCHANGED <<entryVars, ctxt>>
    PROVE  HandlerInv' /\ EntryInv'
BY InputsConstant, HandlerFrame, EntryFrame DEF IInv, HandlerInv, EntryInv, entryVars

(* No worker is disturbed by a step that leaves workers and entries alone. *)
LEMMA QuietWorkers ==
    ASSUME IInv, payload' = payload, cfg' = cfg,
           UNCHANGED <<workerVars, entryVars, ctxt>>
    PROVE  JobInv' /\ WorkerInv'
BY InputsConstant, WorkerFrame DEF IInv, JobInv, WorkerInv, workerVars, entryVars

(* A frame-level rejection touches no entry. *)
LEMMA RefuseStep ==
    ASSUME IInv, NEW r, refuse(r), ~dispatched,
           r \in [shape: {"pending", "silent", "object", "array"}, body: Seq(Response)]
    PROVE  IInv'
<1>0. /\ Entries' = Entries /\ dispatched' = dispatched
      /\ payload' = payload /\ cfg' = cfg
  BY InputsConstant DEF refuse
<1>1. TypeOK'
  BY <1>0 DEF IInv, TypeOK, refuse, workerVars, entryVars, ctxVars
<1>2. HandlerInv' /\ EntryInv' /\ JobInv' /\ WorkerInv'
  BY <1>0, QuietEntries, QuietWorkers DEF refuse, ctxVars
<1>3. PhaseInv'
  BY <1>0 DEF IInv, PhaseInv, refuse, workerVars, entryVars
<1>4. CollectInv'
  BY <1>0, CollectIdle DEF refuse
<1>5. ReplyInv'
  BY <1>0 DEF ReplyInv, ReplyMatchesRequests, refuse
<1>. QED
  BY <1>1, <1>2, <1>3, <1>4, <1>5 DEF IInv

(* The canned error replies and silence are well typed. *)
LEMMA RefusalType ==
    /\ Silent \in [shape: {"pending", "silent", "object", "array"}, body: Seq(Response)]
    /\ \A c \in {InvalidRequestErrorCode, ParseErrorCode} : Refusal(c) \in
          [shape: {"pending", "silent", "object", "array"}, body: Seq(Response)]
<1>1. \A c \in {InvalidRequestErrorCode, ParseErrorCode} :
          [id |-> NullID, code |-> c, data |-> "none"] \in Response
  BY DEF Response, ID, InvalidRequestErrorCode, ParseErrorCode
<1>2. \A r \in Response : <<r>> \in Seq(Response)
  OBVIOUS
<1>. QED
  BY <1>1, <1>2 DEF Silent, Refusal

(* None of the rejections applies to a message that is dispatched. *)
LEMMA RejectSteps ==
    ASSUME IInv,
           \/ RejectOversized \/ RejectBlank \/ RejectBatchTooLarge
           \/ RejectMalformed \/ RejectEmptyBatch \/ RejectGarbage
    PROVE  IInv'
<1>1. ~dispatched
  BY DEF RejectOversized, RejectBlank, RejectBatchTooLarge, RejectMalformed,
     RejectEmptyBatch, RejectGarbage, dispatched, dispatchedBatch, dispatchedSingle,
     goodArray
<1>2. PICK r : /\ refuse(r)
               /\ r \in {Silent, Refusal(InvalidRequestErrorCode), Refusal(ParseErrorCode)}
  BY DEF RejectOversized, RejectBlank, RejectBatchTooLarge, RejectMalformed,
     RejectEmptyBatch, RejectGarbage, errorForMalformed
<1>. QED
  BY <1>1, <1>2, RefuseStep, RefusalType

(* Starting the pool: idle workers, and nothing handed out yet. *)
LEMMA StartBatchStep ==
    ASSUME IInv, StartBatch
    PROVE  IInv'
<1>0. /\ Entries' = Entries /\ dispatched' = dispatched
      /\ payload' = payload /\ cfg' = cfg
  BY InputsConstant DEF StartBatch
<1>1. TypeOK'
  <2>1. pc' \in [Entries -> {"none", "idle"}]
    BY DEF StartBatch
  <2>. QED
    BY <2>1, <1>0 DEF IInv, TypeOK, StartBatch, entryVars, ctxVars
<1>2. HandlerInv' /\ EntryInv'
  BY <1>0, QuietEntries DEF StartBatch, ctxVars
<1>3. \A w \in Entries : job'[w] = 0 /\ pc'[w] \notin Busy
  BY DEF IInv, PhaseInv, StartBatch, Busy
<1>4. JobInv'
  BY <1>0, <1>3 DEF JobInv
<1>5. WorkerInv'
  BY <1>0, <1>3 DEF WorkerInv, WorkerOK, Busy
<1>6. PhaseInv'
  <2>1. \A i \in Entries : ~(i < 1) /\ i # 0
    BY PayloadType DEF IInv, TypeOK
  <2>2. next = 1
    BY DEF IInv, PhaseInv, StartBatch
  <2>3. \A i \in Entries : HandedOutOK(i)'
    BY <2>1, <2>2, <1>0, <1>3 DEF IInv, PhaseInv, HandedOutOK, StartBatch, entryVars
  <2>4. closed = FALSE
    BY DEF IInv, PhaseInv, StartBatch
  <2>. QED
    BY <2>3, <2>4, <1>0 DEF PhaseInv, StartBatch, dispatched, dispatchedBatch, goodArray
<1>7. CollectInv'
  BY <1>0, CollectIdle DEF StartBatch
<1>8. ReplyInv'
  BY ReplyPending DEF IInv, StartBatch
<1>. QED
  BY <1>1, <1>2, <1>4, <1>5, <1>6, <1>7, <1>8 DEF IInv

(* A single request starts on the caller's own goroutine. *)
LEMMA StartSingleStep ==
    ASSUME IInv, StartSingle
    PROVE  IInv'
<1>0. /\ Entries' = Entries /\ dispatched' = dispatched
      /\ payload' = payload /\ cfg' = cfg
  BY InputsConstant DEF StartSingle
<1>a. Entries = {1} /\ payload.form = "object" /\ dispatched
  BY PayloadType DEF IInv, TypeOK, StartSingle, dispatchedSingle, dispatched
<1>b. Len(payload.elems) = 1
  BY PayloadsAssumption, <1>a DEF IInv, TypeOK
<1>1. TypeOK'
  BY <1>0, <1>a, <1>b DEF IInv, TypeOK, StartSingle, entryVars, ctxVars
<1>2. HandlerInv' /\ EntryInv'
  BY <1>0, QuietEntries DEF StartSingle, ctxVars
<1>3. job'[1] = 1 /\ pc'[1] = "got" /\ observed'[1] = << >> /\ handler'[1] = "none"
  BY <1>a DEF IInv, TypeOK, PhaseInv, StartSingle, entryVars
<1>4. JobInv'
  BY <1>0, <1>a, <1>3 DEF JobInv, Busy
<1>5. WorkerInv'
  BY <1>0, <1>a, <1>3 DEF WorkerInv, WorkerOK, Busy
<1>6. PhaseInv'
  BY <1>0, <1>a, <1>3 DEF PhaseInv, StartSingle
<1>7. CollectInv'
  BY <1>0, CollectIdle DEF StartSingle
<1>8. ReplyInv'
  BY ReplyPending DEF IInv, StartSingle
<1>. QED
  BY <1>1, <1>2, <1>4, <1>5, <1>6, <1>7, <1>8 DEF IInv

(* Handing the next index to an idle worker. *)
LEMMA SendIndexStep ==
    ASSUME IInv, NEW w \in Entries, SendIndex(w)
    PROVE  IInv'
<1>0. /\ Entries' = Entries /\ dispatched' = dispatched
      /\ payload' = payload /\ cfg' = cfg
  BY InputsConstant DEF SendIndex
<1>i. PICK i \in Entries : i = next
  BY DEF SendIndex, moreToSend
<1>a. /\ i \in Nat /\ i # 0 /\ Len(payload.elems) \in Nat /\ phase = "batch"
      /\ HandedOutOK(i) /\ i <= Len(payload.elems)
  BY PayloadType DEF IInv, TypeOK, PhaseInv, SendIndex, Entries
<1>b. /\ observed[i] = << >> /\ handler[i] = "none" /\ \A v \in Entries : job[v] # i
  BY <1>a, <1>i DEF HandedOutOK
<1>c. /\ job' = [job EXCEPT ![w] = i] /\ pc' = [pc EXCEPT ![w] = "got"]
      /\ next' = i + 1 /\ UNCHANGED <<phase, closed>>
  BY <1>i DEF SendIndex
<1>1. TypeOK'
  BY <1>0, <1>a, <1>c DEF IInv, TypeOK, SendIndex, entryVars, ctxVars, Entries
<1>2. HandlerInv' /\ EntryInv'
  BY <1>0, QuietEntries DEF SendIndex, ctxVars
<1>3. JobInv'
  BY <1>0, <1>a, <1>b, <1>c DEF IInv, TypeOK, JobInv, Busy
<1>4. WorkerInv'
  <2>. SUFFICES ASSUME NEW v \in Entries PROVE WorkerOK(v)'
    BY <1>0 DEF WorkerInv
  <2>1. CASE v = w
    BY <2>1, <1>0, <1>b, <1>c DEF IInv, TypeOK, WorkerOK, SendIndex, entryVars, Busy
  <2>2. CASE v # w
    BY <2>2, <1>0, <1>c, WorkerFrame
       DEF IInv, TypeOK, WorkerInv, SendIndex, entryVars, ctxVars
  <2>. QED
    BY <2>1, <2>2
<1>5. PhaseInv'
  <2>1. ASSUME NEW j \in Entries PROVE HandedOutOK(j)'
    <3>1. HandedOutOK(j) /\ j \in Nat /\ j # 0 /\ observed' = observed /\ handler' = handler
      BY <1>a, PayloadType DEF IInv, TypeOK, PhaseInv, SendIndex, entryVars
    <3>2. CASE j = i
      <4>1. job'[w] = j /\ j < next'
        BY <3>2, <1>a, <1>c DEF IInv, TypeOK
      <4>. QED
        BY <4>1, <1>0 DEF HandedOutOK
    <3>3. CASE j # i
      <4>1. j < next' <=> j < next
        BY <3>1, <3>3, <1>a, <1>c, <1>i
      <4>2. \A v \in Entries : job[v] = j => job'[v] = j
        <5>1. job[w] = 0
          BY DEF IInv, JobInv, SendIndex, Busy
        <5>. QED
          BY <5>1, <3>1, <1>c DEF IInv, TypeOK
      <4>3. \A v \in Entries : job[v] # j => job'[v] # j
        BY <3>3, <1>c DEF IInv, TypeOK
      <4>. QED
        BY <4>1, <4>2, <4>3, <3>1, <1>0 DEF HandedOutOK
    <3>. QED
      BY <3>2, <3>3
  <2>2. closed = FALSE
    BY <1>a, <1>i DEF IInv, TypeOK, PhaseInv
  <2>. QED
    BY <2>1, <2>2, <1>0, <1>a, <1>c DEF IInv, PhaseInv
<1>6. CollectInv'
  BY <1>0, <1>a, CollectIdle DEF SendIndex
<1>7. ReplyInv'
  BY <1>a, ReplyPending DEF IInv, SendIndex
<1>. QED
  BY <1>1, <1>2, <1>3, <1>4, <1>5, <1>6, <1>7 DEF IInv

(* Closing the channel: every index has been handed out. *)
LEMMA CloseIndexesStep ==
    ASSUME IInv, CloseIndexes
    PROVE  IInv'
<1>0. /\ Entries' = Entries /\ dispatched' = dispatched
      /\ payload' = payload /\ cfg' = cfg
  BY InputsConstant DEF CloseIndexes
<1>1. TypeOK'
  BY <1>0 DEF IInv, TypeOK, CloseIndexes, workerVars, entryVars, ctxVars
<1>2. HandlerInv' /\ EntryInv' /\ JobInv' /\ WorkerInv'
  BY <1>0, QuietEntries, QuietWorkers DEF CloseIndexes, ctxVars
<1>3. PhaseInv'
  <2>1. \A j \in Entries : HandedOutOK(j) => HandedOutOK(j)'
    BY <1>0 DEF HandedOutOK, CloseIndexes, workerVars, entryVars
  <2>. QED
    BY <2>1, <1>0 DEF IInv, PhaseInv, CloseIndexes, moreToSend
<1>4. CollectInv'
  BY <1>0, CollectIdle DEF CloseIndexes
<1>5. ReplyInv'
  BY ReplyPending DEF IInv, CloseIndexes
<1>. QED
  BY <1>1, <1>2, <1>3, <1>4, <1>5 DEF IInv

(* A worker leaves its loop. *)
LEMMA WorkerExitStep ==
    ASSUME IInv, NEW w \in Entries, WorkerExit(w)
    PROVE  IInv'
<1>0. /\ Entries' = Entries /\ dispatched' = dispatched /\ answered' = answered
      /\ payload' = payload /\ cfg' = cfg
  BY InputsConstant DEF WorkerExit
<1>1. TypeOK'
  BY <1>0 DEF IInv, TypeOK, WorkerExit, callerVars, entryVars, ctxVars
<1>2. HandlerInv' /\ EntryInv'
  BY <1>0, QuietEntries DEF WorkerExit, ctxVars
<1>3. JobInv'
  BY <1>0 DEF IInv, TypeOK, JobInv, WorkerExit, Busy
<1>4. WorkerInv'
  <2>. SUFFICES ASSUME NEW v \in Entries PROVE WorkerOK(v)'
    BY <1>0 DEF WorkerInv
  <2>1. CASE v = w
    BY <2>1, <1>0 DEF IInv, TypeOK, WorkerOK, WorkerExit, Busy
  <2>2. CASE v # w
    BY <2>2, <1>0, WorkerFrame
       DEF IInv, TypeOK, WorkerInv, WorkerExit, entryVars, ctxVars
  <2>. QED
    BY <2>1, <2>2
<1>5. PhaseInv'
  BY <1>0, PhaseFrame DEF WorkerExit, callerVars, entryVars
<1>6. CollectInv'
  BY <1>0, CollectFrame DEF IInv, WorkerExit, callerVars, entryVars
<1>7. ReplyInv'
  BY <1>0, ReplyFrame DEF IInv, WorkerExit, callerVars, entryVars
<1>. QED
  BY <1>1, <1>2, <1>3, <1>4, <1>5, <1>6, <1>7 DEF IInv

(* wg.Wait returns: every entry has been observed. *)
LEMMA WaitReturnsStep ==
    ASSUME IInv, WaitReturns
    PROVE  IInv'
<1>0. /\ Entries' = Entries /\ dispatched' = dispatched
      /\ payload' = payload /\ cfg' = cfg
  BY InputsConstant DEF WaitReturns
<1>1. TypeOK'
  BY <1>0 DEF IInv, TypeOK, WaitReturns, workerVars, entryVars, ctxVars
<1>2. HandlerInv' /\ EntryInv' /\ JobInv' /\ WorkerInv'
  BY <1>0, QuietEntries, QuietWorkers DEF WaitReturns, ctxVars
<1>3. PhaseInv'
  <2>1. \A i \in Entries : job[i] = 0
    BY DEF IInv, JobInv, WaitReturns, Busy
  <2>2. \A i \in Entries : i < next /\ i # 0
    BY PayloadType DEF IInv, TypeOK, PhaseInv, WaitReturns, Entries
  <2>3. \A i \in Entries : observed[i] # << >>
    BY <2>1, <2>2 DEF IInv, PhaseInv, HandedOutOK, WaitReturns
  <2>. QED
    BY <2>1, <2>3, <1>0 DEF IInv, PhaseInv, WaitReturns, workerVars, entryVars
<1>4. CollectInv'
  BY <1>0, CollectIdle DEF WaitReturns
<1>5. ReplyInv'
  BY ReplyPending DEF IInv, WaitReturns
<1>. QED
  BY <1>1, <1>2, <1>3, <1>4, <1>5 DEF IInv

(* One turn of the filtering loop. *)
LEMMA CollectStep ==
    ASSUME IInv, Collect
    PROVE  IInv'
<1>0. /\ Entries' = Entries /\ dispatched' = dispatched
      /\ payload' = payload /\ cfg' = cfg
  BY InputsConstant DEF Collect
<1>c. PICK c \in Entries : c = cursor
  BY DEF Collect
<1>a. /\ c \in Nat /\ Len(payload.elems) \in Nat /\ c <= Len(payload.elems)
      /\ \A i \in Entries : i \in Nat
      /\ picked \in Seq(Entries) /\ Len(picked) \in Nat
      /\ cursor' = c + 1 /\ raw' = raw
      /\ picked' = IF raw[c] # Nil THEN Append(picked, c) ELSE picked
  BY <1>c, PayloadType DEF IInv, TypeOK, Collect, collected, Entries, entryVars
<1>1. TypeOK'
  <2>1. cursor' \in 1 .. Len(payload.elems) + 1 /\ picked' \in Seq(Entries)
    <3>1. Append(picked, c) \in Seq(Entries)
      BY <1>a
    <3>. QED
      BY <3>1, <1>a
  <2>. QED
    BY <2>1, <1>0 DEF IInv, TypeOK, Collect, workerVars, entryVars, ctxVars
<1>2. HandlerInv' /\ EntryInv' /\ JobInv' /\ WorkerInv'
  BY <1>0, QuietEntries, QuietWorkers DEF Collect, ctxVars
<1>3. PhaseInv'
  BY <1>0, PhaseFrame DEF Collect, workerVars, entryVars
<1>4. CollectInv'
  <2>1. \A k \in 1 .. Len(picked) : picked[k] \in Entries /\ picked[k] < c
    <3>1. \A k \in 1 .. Len(picked) : picked[k] \in Entries
      BY <1>a
    <3>. QED
      BY <3>1, <1>c DEF IInv, CollectInv
  <2>2. CASE raw[c] # Nil
    <3>1. /\ Len(picked') = Len(picked) + 1
          /\ picked'[Len(picked) + 1] = c
          /\ \A k \in 1 .. Len(picked) : picked'[k] = picked[k]
      BY <2>2, <1>a
    <3>2. \A k, l \in 1 .. Len(picked') : k < l => picked'[k] < picked'[l]
      BY <3>1, <2>1, <1>a DEF IInv, CollectInv
    <3>3. ASSUME NEW i \in Entries
          PROVE  (\E k \in 1 .. Len(picked') : picked'[k] = i)
                    <=> i < cursor' /\ raw[i] # Nil
      <4>1. (\E k \in 1 .. Len(picked) : picked[k] = i) <=> i < c /\ raw[i] # Nil
        BY <1>c DEF IInv, CollectInv
      <4>2. (\E k \in 1 .. Len(picked') : picked'[k] = i)
              <=> i = c \/ \E k \in 1 .. Len(picked) : picked[k] = i
        BY <3>1, <1>a
      <4>. QED
        BY <4>1, <4>2, <2>2, <1>a
    <3>. QED
      BY <3>2, <3>3, <1>0, <1>a DEF CollectInv, Collect
  <2>3. CASE raw[c] = Nil
    BY <2>3, <1>0, <1>a, <1>c DEF IInv, CollectInv, Collect
  <2>. QED
    BY <2>2, <2>3
<1>5. ReplyInv'
  BY ReplyPending DEF IInv, Collect
<1>. QED
  BY <1>1, <1>2, <1>3, <1>4, <1>5 DEF IInv

(* The batch reply: the slots copied by the loop, marshalled in order. *)
LEMMA FinishBatchStep ==
    ASSUME IInv, FinishBatch
    PROVE  IInv'
<1>0. /\ Entries' = Entries /\ dispatched' = dispatched /\ answered' = answered
      /\ payload' = payload /\ cfg' = cfg /\ raw' = raw /\ observed' = observed
  BY InputsConstant DEF FinishBatch, entryVars
<1>a. /\ \A i \in Entries : i < cursor /\ EntryOK(i) /\ observed[i] # << >>
      /\ picked \in Seq(Entries) /\ Len(picked) \in Nat /\ dispatched
      /\ payload.form = "array"
  BY PayloadType
     DEF IInv, TypeOK, PhaseInv, EntryInv, FinishBatch, Entries
<1>b. \A i \in Entries : raw[i] = Nil <=> isNotification(payload.elems[i])
  BY <1>a DEF EntryOK
<1>c. answered = {picked[k] : k \in 1 .. Len(picked)}
  <2>1. \A i \in Entries : (\E k \in 1 .. Len(picked) : picked[k] = i) <=> i \in answered
    BY <1>a, <1>b DEF IInv, CollectInv, answered
  <2>2. \A k \in 1 .. Len(picked) : picked[k] \in Entries
    BY <1>a
  <2>3. answered \subseteq Entries
    BY DEF answered
  <2>. QED
    BY <2>1, <2>2, <2>3
<1>d. \A k \in 1 .. Len(picked) :
        /\ picked[k] \in answered
        /\ raw[picked[k]] \in Response
        /\ marshal(raw[picked[k]]) \in Response
        /\ marshal(raw[picked[k]]).id = answerID(payload.elems[picked[k]])
        /\ marshal(raw[picked[k]]).code =
              IF raw[picked[k]].data = "bad" THEN InternalErrorCode
              ELSE observed[picked[k]][1].code
  <2>. SUFFICES ASSUME NEW i \in answered
                PROVE  /\ raw[i] \in Response
                       /\ marshal(raw[i]) \in Response
                       /\ marshal(raw[i]).id = answerID(payload.elems[i])
                       /\ marshal(raw[i]).code =
                             IF raw[i].data = "bad" THEN InternalErrorCode
                             ELSE observed[i][1].code
    BY <1>c
  <2>1. i \in Entries /\ ~isNotification(payload.elems[i])
    BY DEF answered
  <2>2. /\ raw[i] \in Response /\ wire(raw[i]).id = answerID(payload.elems[i])
        /\ raw[i].code = observed[i][1].code
    BY <2>1, <1>a DEF IInv, TypeOK, EntryOK
  <2>. QED
    BY <2>2, MarshalType
<1>e. CASE picked = << >>
  <2>1. reply' = Silent
    BY <1>e DEF FinishBatch
  <2>2. answered = {}
    BY <1>c, <1>e
  <2>. QED
    <3>1. TypeOK'
      BY <1>0, <2>1, RefusalType DEF IInv, TypeOK, FinishBatch, workerVars, entryVars, ctxVars
    <3>2. HandlerInv' /\ EntryInv' /\ JobInv' /\ WorkerInv'
      BY <1>0, QuietEntries, QuietWorkers DEF FinishBatch, ctxVars
    <3>3. PhaseInv'
      BY <1>0, <1>a DEF IInv, PhaseInv, FinishBatch, workerVars
    <3>4. CollectInv'
      BY <1>0 DEF IInv, CollectInv, FinishBatch
    <3>5. ReplyInv'
      BY <2>1, <2>2, <1>0 DEF ReplyInv, ReplyMatchesRequests, FinishBatch
    <3>. QED
      BY <3>1, <3>2, <3>3, <3>4, <3>5 DEF IInv
<1>f. CASE picked # << >>
  <2>. DEFINE B == [k \in 1 .. Len(picked) |-> marshal(raw[picked[k]])]
  <2>1. reply' = [shape |-> "array", body |-> B]
    BY <1>f DEF FinishBatch
  <2>2. B \in Seq(Response) /\ DOMAIN B = 1 .. Len(picked)
    BY <1>a, <1>d
  <2>3. reply'.shape = "array" /\ reply'.body = B
    BY <2>1
  <2>4. answered # {}
    <3>1. Len(picked) # 0
      BY <1>a, <1>f
    <3>2. 1 \in 1 .. Len(picked)
      BY <3>1, <1>a
    <3>. QED
      BY <3>2, <1>c
  <2>5. picked \in [DOMAIN B -> Entries] /\ DOMAIN picked = DOMAIN B
    BY <2>2, <1>a
  <2>6. listsAnswered(picked)
    BY <2>2, <2>5, <1>c DEF IInv, CollectInv, listsAnswered
  <2>7. \A k \in DOMAIN picked :
            /\ B[k].id = answerID(payload.elems[picked[k]])
            /\ B[k].code = IF raw[picked[k]].data = "bad" THEN InternalErrorCode
                           ELSE observed[picked[k]][1].code
    BY <2>2, <2>5, <1>d
  <2>. QED
    <3>1. TypeOK'
      BY <1>0, <2>1, <2>2 DEF IInv, TypeOK, FinishBatch, workerVars, entryVars, ctxVars
    <3>2. HandlerInv' /\ EntryInv' /\ JobInv' /\ WorkerInv'
      BY <1>0, QuietEntries, QuietWorkers DEF FinishBatch, ctxVars
    <3>3. PhaseInv'
      BY <1>0, <1>a DEF IInv, PhaseInv, FinishBatch, workerVars
    <3>4. CollectInv'
      BY <1>0 DEF IInv, CollectInv, FinishBatch
    <3>5. PICK f \in [DOMAIN B -> Entries] :
             /\ listsAnswered(f) /\ DOMAIN f = DOMAIN B
             /\ \A k \in DOMAIN f :
                   /\ B[k].id = answerID(payload.elems[f[k]])
                   /\ B[k].code = IF raw[f[k]].data = "bad" THEN InternalErrorCode
                                  ELSE observed[f[k]][1].code
      BY <2>5, <2>6, <2>7
    <3>6. listsAnswered(f)'
      BY <3>5, <1>0 DEF listsAnswered
    <3>7. ReplyInv'
      BY <3>5, <3>6, <2>3, <2>4, <1>0, <1>a DEF ReplyInv, ReplyMatchesRequests, FinishBatch
    <3>. QED
      BY <3>1, <3>2, <3>3, <3>4, <3>7 DEF IInv
<1>. QED
  BY <1>e, <1>f

(* The reply to a single request: its own slot. *)
LEMMA FinishSingleStep ==
    ASSUME IInv, FinishSingle
    PROVE  IInv'
<1>0. /\ Entries' = Entries /\ dispatched' = dispatched /\ answered' = answered
      /\ payload' = payload /\ cfg' = cfg /\ raw' = raw /\ observed' = observed
  BY InputsConstant DEF FinishSingle, entryVars
<1>a. Entries = {1} /\ payload.form = "object" /\ dispatched
  BY PayloadType DEF IInv, TypeOK, PhaseInv, FinishSingle
<1>b. job[1] = 0 /\ observed[1] # << >> /\ EntryOK(1)
  BY <1>a DEF IInv, JobInv, PhaseInv, EntryInv, FinishSingle, Busy
<1>1. HandlerInv' /\ EntryInv' /\ JobInv' /\ WorkerInv'
  BY <1>0, QuietEntries, QuietWorkers DEF FinishSingle, ctxVars
<1>2. PhaseInv'
  BY <1>0, <1>a, <1>b DEF PhaseInv, FinishSingle, workerVars
<1>3. CollectInv'
  BY <1>0, CollectIdle DEF FinishSingle
<1>4. CASE raw[1] = Nil
  <2>1. answered = {} /\ reply' = Silent
    BY <1>4, <1>a, <1>b DEF EntryOK, answered, FinishSingle
  <2>2. TypeOK'
    BY <2>1, <1>0, RefusalType DEF IInv, TypeOK, FinishSingle, workerVars, entryVars, ctxVars
  <2>3. ReplyInv'
    BY <2>1, <1>0 DEF ReplyInv, ReplyMatchesRequests, FinishSingle
  <2>. QED
    BY <2>2, <2>3, <1>1, <1>2, <1>3 DEF IInv
<1>5. CASE raw[1] # Nil
  <2>. DEFINE m == marshal(raw[1])
  <2>1. /\ answered = {1} /\ raw[1] \in Response
        /\ wire(raw[1]).id = answerID(payload.elems[1])
        /\ raw[1].code = observed[1][1].code
    BY <1>5, <1>a, <1>b DEF IInv, TypeOK, EntryOK, answered
  <2>2. /\ m \in Response /\ m.id = answerID(payload.elems[1])
        /\ m.code = IF raw[1].data = "bad" THEN InternalErrorCode
                    ELSE observed[1][1].code
    BY <2>1, MarshalType
  <2>3. reply' = [shape |-> "object", body |-> <<m>>]
    BY <1>5 DEF FinishSingle
  <2>. HIDE DEF m
  <2>4. <<m>> \in Seq(Response) /\ DOMAIN <<m>> = {1} /\ <<m>>[1] = m
    BY <2>2
  <2>5. reply'.shape = "object" /\ reply'.body = <<m>>
    BY <2>3
  <2>6. TypeOK'
    <3>1. reply' \in [shape: {"pending", "silent", "object", "array"},
                      body: Seq(Response)]
      BY <2>3, <2>4
    <3>. QED
      BY <3>1, <1>0 DEF IInv, TypeOK, FinishSingle, workerVars, entryVars, ctxVars
  <2>7. PICK f \in [DOMAIN <<m>> -> Entries] : f = [k \in {1} |-> 1]
    BY <2>4, <1>a
  <2>8. DOMAIN f = {1} /\ f[1] = 1
    BY <2>7
  <2>9. listsAnswered(f)'
    BY <2>8, <2>1, <1>0 DEF listsAnswered
  <2>10. ReplyInv'
    BY <2>2, <2>4, <2>5, <2>7, <2>8, <2>9, <2>1, <1>0, <1>a
       DEF ReplyInv, ReplyMatchesRequests, FinishSingle
  <2>. QED
    BY <2>6, <2>10, <1>1, <1>2, <1>3 DEF IInv
<1>. QED
  BY <1>4, <1>5

(* The caller's context ends; no child context has noticed yet. *)
LEMMA ParentEndStep ==
    ASSUME IInv, ParentEnd
    PROVE  IInv'
<1>0. /\ Entries' = Entries /\ dispatched' = dispatched /\ answered' = answered
      /\ payload' = payload /\ cfg' = cfg
  BY InputsConstant DEF ParentEnd
<1>1. TypeOK'
  BY <1>0, ParentEndsAssumption
     DEF IInv, TypeOK, ParentEnd, callerVars, workerVars, entryVars
<1>2. HandlerInv' /\ EntryInv' /\ JobInv' /\ WorkerInv'
  BY <1>0, QuietEntries, QuietWorkers DEF ParentEnd
<1>3. PhaseInv'
  BY <1>0, PhaseFrame DEF ParentEnd, callerVars, workerVars, entryVars
<1>4. CollectInv'
  BY <1>0, CollectFrame DEF IInv, ParentEnd, callerVars, entryVars
<1>5. ReplyInv'
  BY <1>0, ReplyFrame DEF IInv, ParentEnd, callerVars, entryVars
<1>. QED
  BY <1>1, <1>2, <1>3, <1>4, <1>5 DEF IInv

(* A step that changes nothing. *)
LEMMA StutterStep ==
    ASSUME IInv, UNCHANGED vars
    PROVE  IInv'
<1>0. /\ Entries' = Entries /\ dispatched' = dispatched /\ answered' = answered
      /\ payload' = payload /\ cfg' = cfg
  BY InputsConstant DEF vars
<1>1. TypeOK'
  BY <1>0 DEF IInv, TypeOK, vars, callerVars, workerVars, entryVars, ctxVars
<1>2. HandlerInv' /\ EntryInv' /\ JobInv' /\ WorkerInv'
  BY <1>0, QuietEntries, QuietWorkers DEF vars, ctxVars
<1>3. PhaseInv'
  BY <1>0, PhaseFrame DEF vars, callerVars, workerVars, entryVars
<1>4. CollectInv'
  BY <1>0, CollectFrame DEF IInv, vars, callerVars, entryVars
<1>5. ReplyInv'
  BY <1>0, ReplyFrame DEF IInv, vars, callerVars, entryVars
<1>. QED
  BY <1>1, <1>2, <1>3, <1>4, <1>5 DEF IInv

(***************************************************************************)
(* The theorems.                                                           *)
(***************************************************************************)

(* The invariant holds initially. *)
LEMMA IInvInit == Init => IInv
<1>. SUFFICES ASSUME Init PROVE IInv
  OBVIOUS
<1>1. TypeOK
  BY TypeInit
<1>2. \A i \in Entries : i \in Nat /\ ~(i < 1)
  BY PayloadType DEF Init
<1>3. JobInv /\ PhaseInv
  BY DEF Init, JobInv, PhaseInv, Busy
<1>4. HandlerInv /\ WorkerInv /\ EntryInv
  BY DEF Init, HandlerInv, HandlerOK, WorkerInv, WorkerOK, EntryInv, EntryOK, Busy
<1>5. CollectInv
  BY <1>2 DEF Init, CollectInv
<1>6. ReplyInv
  BY DEF Init, ReplyInv, ReplyMatchesRequests
<1>. QED
  BY <1>1, <1>3, <1>4, <1>5, <1>6 DEF IInv

(* Every step preserves it. *)
LEMMA IInvStep == IInv /\ [Next]_vars => IInv'
<1>. SUFFICES ASSUME IInv, [Next]_vars PROVE IInv'
  OBVIOUS
<1>1. CASE Caller
  BY <1>1, RejectSteps, StartBatchStep, StartSingleStep, CloseIndexesStep,
     WaitReturnsStep, CollectStep, FinishBatchStep, FinishSingleStep DEF Caller
<1>2. ASSUME NEW w \in Entries, WorkerStep(w) \/ InlineReturn(w) PROVE IInv'
  BY <1>2, SendIndexStep, ParseFailedStep, InvalidRequestStep, BeginCallStep,
     InlineCheckStep, SelectResponseStep, SelectDoneStep, TakeReadyStep, AbortStep,
     ReplyStep, WorkerExitStep, InlineReturnStep DEF WorkerStep
<1>3. ASSUME NEW i \in Entries,
             EnforcedReturn(i) \/ SendResponse(i) \/ DeadlineExpires(i) \/ PropagateEnd(i)
      PROVE  IInv'
  BY <1>3, EnforcedReturnStep, SendResponseStep, DeadlineExpiresStep, PropagateEndStep
<1>4. CASE ParentEnd
  BY <1>4, ParentEndStep
<1>5. CASE Done \/ UNCHANGED vars
  BY <1>5, StutterStep DEF Done
<1>. QED
  BY <1>1, <1>2, <1>3, <1>4, <1>5 DEF Next

(* The inductive invariant holds in every reachable state. *)
THEOREM DispatchInvariant == Spec => []IInv
BY IInvInit, IInvStep, PTL DEF Spec

(* Every variable keeps its type, for every batch and configuration. *)
THEOREM DispatchTypeCorrect == Spec => []TypeOK
<1>1. IInv => TypeOK
  BY DEF IInv
<1>. QED
  BY <1>1, DispatchInvariant, PTL

(* HandleRPCJSONRawMessage: the reply to any dispatched message has exactly *)
(* one response per entry that is not a notification, in request order,    *)
(* with that entry's id and the observed outcome, whatever the pool size,  *)
(* the timeout regime, the handlers and the contexts do.                   *)
THEOREM DispatchReplyCorrect == Spec => []ReplyMatchesRequests
<1>1. IInv => ReplyMatchesRequests
  BY DEF IInv, ReplyInv
<1>. QED
  BY <1>1, DispatchInvariant, PTL

(* observe: every entry of a dispatched message is observed exactly once,  *)
(* no rejected message is, and an undecodable or invalid entry is observed *)
(* as a call answered -32600.                                              *)
THEOREM DispatchObservedOnce == Spec => []ObservedOncePerEntry
<1>1. IInv => ObservedOncePerEntry
  <2>. SUFFICES ASSUME IInv, NEW i \in Entries
       PROVE  /\ Len(observed[i]) <= 1
              /\ phase = "done" => (observed[i] # << >> <=> dispatched)
              /\ observed[i] # << >> /\ payload.elems[i].kind = "scalar" =>
                    handler[i] = "none"
              /\ observed[i] # << >> /\ handler[i] = "none" =>
                    observed[i][1] = [code |-> InvalidRequestErrorCode,
                                      notification |-> FALSE]
    BY DEF ObservedOncePerEntry
  <2>1. EntryOK(i) /\ HandlerOK(i) /\ observed[i] \in Seq(CallInfo)
    BY DEF IInv, EntryInv, HandlerInv, TypeOK
  <2>2. Len(observed[i]) <= 1
    <3>1. CASE observed[i] = << >>
      <4>1. Len(<< >>) = 0
        OBVIOUS
      <4>. QED
        BY <4>1, <3>1
    <3>2. CASE observed[i] # << >>
      <4>1. Len(observed[i]) = 1
        BY <3>2, <2>1 DEF EntryOK
      <4>. QED
        BY <4>1
    <3>. QED
      BY <3>1, <3>2
  <2>3. phase = "done" => (observed[i] # << >> <=> dispatched)
    BY DEF IInv, PhaseInv
  <2>4. observed[i] # << >> /\ payload.elems[i].kind = "scalar" => handler[i] = "none"
    BY <2>1 DEF HandlerOK
  <2>5. ASSUME observed[i] # << >>, handler[i] = "none"
        PROVE  observed[i][1] = [code |-> InvalidRequestErrorCode,
                                 notification |-> FALSE]
    <3>1. /\ Len(observed[i]) = 1 /\ observed[i][1].code = InvalidRequestErrorCode
          /\ ~observed[i][1].notification
      BY <2>1, <2>5 DEF EntryOK, Verdict
    <3>2. observed[i][1] \in CallInfo
      BY <3>1, <2>1
    <3>. QED
      BY <3>1, <3>2 DEF CallInfo
  <2>. QED
    BY <2>2, <2>3, <2>4, <2>5
<1>. QED
  BY <1>1, DispatchInvariant, PTL

(* dispatch, inline: RequestTimeLimit replaces the handler's response      *)
(* exactly when the deadline had expired at the check.                     *)
THEOREM DispatchInlineVerdict == Spec => []InlineVerdict
<1>1. IInv => InlineVerdict
  BY DEF IInv, EntryInv, EntryOK, Verdict, InlineVerdict
<1>. QED
  BY <1>1, DispatchInvariant, PTL

(* dispatch, enforced: a response that was ready before the context ended  *)
(* is never lost to the abort path, and a handler is given up only after   *)
(* its context has ended.                                                  *)
THEOREM DispatchEnforcedVerdict == Spec => []EnforcedVerdict
<1>1. IInv => EnforcedVerdict
  BY DEF IInv, EntryInv, EntryOK, Verdict, EnforcedVerdict
<1>. QED
  BY <1>1, DispatchInvariant, PTL

(***************************************************************************)
(* Silence.                                                                *)
(***************************************************************************)

(* A message that is not dispatched is met with silence exactly when one   *)
(* of the two size limits rejects it and the scan sees no id in it.        *)
RefusalInv ==
    phase = "done" /\ ~dispatched =>
        (reply = Silent <=> /\ payload.over \/ (payload.form = "array" /\ batchTooLarge)
                            /\ lacksResponseID(payload))

(* The rejections, in the code's order, establish it. *)
LEMMA RefusalSteps ==
    ASSUME \/ RejectOversized \/ RejectBlank \/ RejectBatchTooLarge
           \/ RejectMalformed \/ RejectEmptyBatch \/ RejectGarbage
    PROVE  RefusalInv'
<1>1. UNCHANGED <<payload, cfg>> /\ dispatched' = dispatched /\ batchTooLarge' = batchTooLarge
  BY InputsConstant
     DEF RejectOversized, RejectBlank, RejectBatchTooLarge, RejectMalformed,
         RejectEmptyBatch, RejectGarbage, refuse, batchTooLarge
<1>2. \A c : Refusal(c) # Silent
  BY DEF Refusal, Silent
<1>3. CASE RejectOversized \/ RejectBatchTooLarge
  <2>1. /\ payload.over \/ (payload.form = "array" /\ batchTooLarge)
        /\ reply' = IF lacksResponseID(payload) THEN Silent
                    ELSE Refusal(InvalidRequestErrorCode)
    BY <1>3 DEF RejectOversized, RejectBatchTooLarge, refuse
  <2>. QED
    BY <1>1, <1>2, <2>1 DEF RefusalInv
<1>4. CASE RejectBlank \/ RejectMalformed \/ RejectEmptyBatch \/ RejectGarbage
  <2>1. ~payload.over /\ ~(payload.form = "array" /\ batchTooLarge)
    BY <1>4 DEF RejectBlank, RejectMalformed, RejectEmptyBatch, RejectGarbage, goodArray
  <2>2. \E c : reply' = Refusal(c)
    BY <1>4 DEF RejectBlank, RejectMalformed, RejectEmptyBatch, RejectGarbage, refuse
  <2>. QED
    BY <1>1, <1>2, <2>1, <2>2 DEF RefusalInv
<1>. QED
  BY <1>3, <1>4

(* Nothing else touches the reply of a message that is not dispatched. *)
LEMMA RefusalStep == IInv /\ RefusalInv /\ [Next]_vars => RefusalInv'
<1>. SUFFICES ASSUME IInv, RefusalInv, [Next]_vars PROVE RefusalInv'
  OBVIOUS
<1>1. CASE UNCHANGED <<payload, cfg, phase, reply>>
  <2>1. dispatched' = dispatched /\ batchTooLarge' = batchTooLarge
    BY <1>1, InputsConstant DEF batchTooLarge
  <2>. QED
    BY <1>1, <2>1 DEF RefusalInv
<1>2. CASE \/ RejectOversized \/ RejectBlank \/ RejectBatchTooLarge
           \/ RejectMalformed \/ RejectEmptyBatch \/ RejectGarbage
  BY <1>2, RefusalSteps
<1>3. CASE StartBatch \/ StartSingle \/ WaitReturns
  BY <1>3 DEF StartBatch, StartSingle, WaitReturns, RefusalInv
<1>4. CASE FinishBatch \/ FinishSingle
  <2>1. dispatched
    BY <1>4 DEF FinishBatch, FinishSingle, IInv, PhaseInv
  <2>2. dispatched'
    BY <1>4, <2>1, InputsConstant DEF FinishBatch, FinishSingle
  <2>. QED
    BY <2>2 DEF RefusalInv
<1>5. CASE CloseIndexes \/ Collect \/ ParentEnd \/ Done \/ UNCHANGED vars
  BY <1>5, <1>1 DEF CloseIndexes, Collect, ParentEnd, Done, vars, callerVars
<1>6. ASSUME NEW w \in Entries, WorkerStep(w) \/ InlineReturn(w)
      PROVE  RefusalInv'
  BY <1>6, <1>1 DEF WorkerStep, InlineReturn, SendIndex, ParseFailed, InvalidRequest,
     BeginCall, InlineCheck, SelectResponse, SelectDone, TakeReady, Abort, Reply,
     WorkerExit, callerVars
<1>7. ASSUME NEW i \in Entries,
             EnforcedReturn(i) \/ SendResponse(i) \/ DeadlineExpires(i) \/ PropagateEnd(i)
      PROVE  RefusalInv'
  BY <1>7, <1>1 DEF EnforcedReturn, SendResponse, DeadlineExpires, PropagateEnd, callerVars
<1>. QED
  BY <1>2, <1>3, <1>4, <1>5, <1>6, <1>7 DEF Next, Caller

(* A message of nothing but notifications, whose keys the scan can read,   *)
(* is dispatched or is seen to lack ids by the limit that rejects it.      *)
LEMMA QuietMessage ==
    ASSUME payload \in Payloads, ~dispatched, payload.elems # << >>,
           \A i \in Entries : isNotification(payload.elems[i])
                              /\ payload.elems[i].seen = "noid"
    PROVE  /\ payload.over \/ (payload.form = "array" /\ batchTooLarge)
           /\ lacksResponseID(payload)
<1>1. payload.balanced /\ payload.form \in {"array", "object"}
  BY PayloadsAssumption
<1>2. DOMAIN payload.elems = Entries /\ 1 \in Entries
  BY PayloadType DEF Entries
<1>3. lacksResponseID(payload)
  BY <1>1, <1>2 DEF lacksResponseID
<1>4. \A i \in Entries : payload.elems[i].kind = "request"
  BY DEF isNotification
<1>5. payload.over \/ (payload.form = "array" /\ batchTooLarge)
  <2>1. payload.form = "object" => payload.over
    BY <1>2, <1>4 DEF dispatched, dispatchedSingle
  <2>2. payload.form = "array" => payload.over \/ batchTooLarge
    BY <1>1, <1>4 DEF dispatched, dispatchedBatch, goodArray, hasGarbage
  <2>. QED
    BY <1>1, <2>1, <2>2
<1>. QED
  BY <1>3, <1>5

(* The notification silence rule, for every message, limit and handler: a  *)
(* message with an id in it is always answered, and one of nothing but     *)
(* readable notifications never is, whatever rejects it.                   *)
THEOREM DispatchSilenceRule == Spec => []SilenceRule
<1>1. Init => RefusalInv
  BY DEF Init, RefusalInv
<1>2. IInv /\ RefusalInv => SilenceRule
  <2>. SUFFICES ASSUME IInv, RefusalInv, phase = "done"
                PROVE  /\ reply = Silent => \A i \in Entries : payload.elems[i].id = NoID
                       /\ payload.elems # << >>
                          /\ (\A i \in Entries : /\ isNotification(payload.elems[i])
                                                 /\ payload.elems[i].seen = "noid")
                             => reply = Silent
    BY DEF SilenceRule
  <2>1. payload \in Payloads
    BY DEF IInv, TypeOK
  <2>2. CASE dispatched
    <3>1. payload.form \in {"array", "object"} /\ Silent.shape = "silent"
      BY <2>2 DEF dispatched, dispatchedBatch, dispatchedSingle, goodArray, Silent
    <3>2. reply = Silent <=> answered = {}
      BY <2>2, <3>1 DEF IInv, ReplyInv, ReplyMatchesRequests
    <3>3. answered = {} <=> \A i \in Entries : isNotification(payload.elems[i])
      BY DEF answered
    <3>. QED
      BY <3>2, <3>3 DEF isNotification
  <2>3. CASE ~dispatched
    <3>1. reply = Silent => \A i \in Entries : payload.elems[i].id = NoID
      <4>. SUFFICES ASSUME lacksResponseID(payload), NEW i \in Entries
                    PROVE  payload.elems[i].id = NoID
        BY <2>3 DEF RefusalInv
      <4>1. i \in DOMAIN payload.elems /\ payload.elems # << >>
        BY <2>1, PayloadType DEF Entries
      <4>2. payload.balanced /\ payload.form \in {"array", "object"}
        BY <2>1, <4>1, PayloadsAssumption
      <4>3. payload.elems[i].seen # "loud"
        BY <4>1, <4>2 DEF lacksResponseID
      <4>. QED
        BY <2>1, <4>1, <4>3, PayloadsAssumption
    <3>2. payload.elems # << >>
          /\ (\A i \in Entries : /\ isNotification(payload.elems[i])
                                 /\ payload.elems[i].seen = "noid")
             => reply = Silent
      BY <2>1, <2>3, QuietMessage DEF RefusalInv
    <3>. QED
      BY <3>1, <3>2
  <2>. QED
    BY <2>2, <2>3
<1>. QED
  BY <1>1, <1>2, RefusalStep, DispatchInvariant, PTL DEF Spec

(***************************************************************************)
(* The abstract batch.                                                     *)
(***************************************************************************)
mayRun(e) == e.kind = "request" /\ validateRequest(e)

(* An entry is answered without its method only if it is invalid. *)
RunInv ==
    \A w \in Entries : pc[w] = "reply" /\ handler[job[w]] = "none" => ~mayRun(elem(w))

(* What a worker keeps: its place and its entry, and a handler that was     *)
(* started stays so.                                                       *)
LEMMA RunFrame ==
    ASSUME RunInv, IInv, payload' = payload,
           NEW w \in Entries, job'[w] = job[w],
           pc'[w] = pc[w] \/ pc'[w] # "reply",
           \A i \in Entries : handler[i] # "none" => handler'[i] # "none"
    PROVE  pc'[w] = "reply" /\ handler'[job'[w]] = "none" => ~mayRun(elem(w))'
<1>. SUFFICES ASSUME pc'[w] = "reply", handler'[job'[w]] = "none"
              PROVE  ~mayRun(elem(w))'
  OBVIOUS
<1>1. pc[w] = "reply" /\ job[w] \in Entries
  BY BusyFacts DEF Busy
<1>2. handler[job[w]] = "none"
  BY <1>1
<1>3. ~mayRun(elem(w))
  BY <1>1, <1>2 DEF RunInv
<1>. QED
  BY <1>3 DEF elem, mayRun, validateRequest

(* Initially nobody replies, and every step keeps what was said of those   *)
(* who do: a reply without a handler is that of an invalid request.        *)
LEMMA RunStep == IInv /\ RunInv /\ [Next]_vars => RunInv'
<1>. SUFFICES ASSUME IInv, RunInv, [Next]_vars PROVE RunInv'
  OBVIOUS
<1>. DEFINE Kept(w) == pc'[w] = "reply" /\ handler'[job'[w]] = "none" => ~mayRun(elem(w))'
<1>1. payload' = payload /\ Entries' = Entries
  <2>1. payload' = payload
    BY DEF Next, Caller, WorkerStep, RejectOversized, RejectBlank, RejectBatchTooLarge,
       RejectMalformed, RejectEmptyBatch, RejectGarbage, refuse, StartBatch, StartSingle,
       CloseIndexes, WaitReturns, Collect, FinishBatch, FinishSingle, SendIndex, ParseFailed,
       InvalidRequest, BeginCall, InlineReturn, InlineCheck, SelectResponse, SelectDone,
       TakeReady, Abort, Reply, WorkerExit, EnforcedReturn, SendResponse, DeadlineExpires,
       PropagateEnd, ParentEnd, Done, vars
  <2>. QED
    BY <2>1 DEF Entries
<1>2. SUFFICES ASSUME NEW w \in Entries PROVE Kept(w)
  BY <1>1 DEF RunInv
<1>3. /\ pc \in [Entries -> {"none", "idle", "got", "inline", "check", "select",
                            "aborting", "reply", "exited"}]
      /\ job \in [Entries -> 0 .. Len(payload.elems)]
      /\ handler \in [Entries -> {"none", "running", "sending", "returned"}]
  BY DEF IInv, TypeOK
<1>4. CASE UNCHANGED <<pc, job>> /\ \A i \in Entries : handler[i] # "none" => handler'[i] # "none"
  BY <1>1, <1>4, RunFrame
<1>5. CASE Caller
  <2>1. CASE StartBatch
    BY <2>1 DEF StartBatch
  <2>2. CASE StartSingle
    BY <1>1, <1>3, <2>2, RunFrame DEF StartSingle, entryVars
  <2>. QED
    BY <1>4, <1>5, <2>1, <2>2
       DEF Caller, RejectOversized, RejectBlank, RejectBatchTooLarge, RejectMalformed,
           RejectEmptyBatch, RejectGarbage, refuse, CloseIndexes, WaitReturns, Collect,
           FinishBatch, FinishSingle, workerVars, entryVars
<1>6. ASSUME NEW v \in Entries, WorkerStep(v) \/ InlineReturn(v) PROVE Kept(w)
  <2>1. \A i \in Entries : handler[i] # "none" => handler'[i] # "none"
    BY <1>3, <1>6
       DEF WorkerStep, SendIndex, ParseFailed, InvalidRequest, BeginCall, InlineReturn,
           InlineCheck, SelectResponse, SelectDone, TakeReady, Abort, Reply, WorkerExit, entryVars
  <2>2. CASE v # w \/ (SendIndex(v) \/ BeginCall(v) \/ InlineReturn(v) \/ SelectDone(v)
                          \/ Reply(v) \/ WorkerExit(v))
    <3>1. pc'[w] = "reply" => job'[w] = job[w] /\ pc'[w] = pc[w]
      BY <1>3, <1>6, <2>2
         DEF WorkerStep, SendIndex, ParseFailed, InvalidRequest, BeginCall, InlineReturn,
             InlineCheck, SelectResponse, SelectDone, TakeReady, takeResponse, Abort, Reply,
             WorkerExit
    <3>. QED
      BY <1>1, <2>1, <3>1, RunFrame
  <2>3. CASE v = w /\ (ParseFailed(w) \/ InvalidRequest(w))
    <3>1. job' = job /\ ~mayRun(elem(w))
      BY <2>3 DEF ParseFailed, InvalidRequest, mayRun
    <3>. QED
      BY <1>1, <3>1 DEF elem, mayRun, validateRequest
  <2>4. CASE v = w /\ (InlineCheck(w) \/ SelectResponse(w) \/ TakeReady(w) \/ Abort(w))
    <3>1. pc[w] \in {"check", "select", "aborting"} /\ job' = job
      BY <2>4 DEF InlineCheck, SelectResponse, TakeReady, Abort
    <3>2. job[w] \in Entries /\ WorkerOK(w)
      BY <3>1, BusyFacts DEF Busy, IInv, WorkerInv
    <3>3. handler[job[w]] # "none"
      BY <3>1, <3>2 DEF WorkerOK
    <3>. QED
      BY <2>1, <3>1, <3>2, <3>3
  <2>. QED
    BY <1>6, <2>2, <2>3, <2>4 DEF WorkerStep
<1>7. ASSUME NEW i \in Entries,
             EnforcedReturn(i) \/ SendResponse(i) \/ DeadlineExpires(i) \/ PropagateEnd(i)
      PROVE  Kept(w)
  BY <1>3, <1>4, <1>7
     DEF EnforcedReturn, SendResponse, DeadlineExpires, PropagateEnd, workerVars, entryVars
<1>8. CASE ParentEnd \/ Done \/ UNCHANGED vars
  BY <1>4, <1>8 DEF ParentEnd, Done, vars, workerVars, entryVars
<1>. QED
  BY <1>5, <1>6, <1>7, <1>8 DEF Next

batchVars == <<payload.form, asked, methodRan, observed, onWire, reply>>

(* The mapping looks at the message, at which handlers were started, and   *)
(* at what was observed, stored and replied; a step that leaves these      *)
(* alone is no step of the batch.                                          *)
LEMMA SameBatch ==
    ASSUME UNCHANGED <<payload, observed, raw, reply>>,
           \A i \in Entries : handler'[i] # "none" <=> handler[i] # "none"
    PROVE  UNCHANGED batchVars
<1>1. Entries' = Entries
  BY DEF Entries
<1>2. asked' = asked
  BY <1>1 DEF asked, answerID, isNotification, validateRequest
<1>3. onWire' = onWire
  BY <1>1 DEF onWire, marshal, wire, safeInternalResponse
<1>4. methodRan' = methodRan
  BY <1>1 DEF methodRan
<1>. QED
  BY <1>2, <1>3, <1>4 DEF batchVars

(* What the mapping makes of one entry. *)
LEMMA Mapped ==
    ASSUME IInv
    PROVE  /\ DOMAIN asked = Entries /\ asked \in Seq([id: ID, valid: BOOLEAN, silent: BOOLEAN])
           /\ DOMAIN methodRan = Entries /\ DOMAIN onWire = Entries /\ DOMAIN observed = Entries
           /\ \A i \in Entries :
                 /\ asked[i].id = answerID(payload.elems[i])
                 /\ asked[i].silent = isNotification(payload.elems[i])
                 /\ asked[i].valid = mayRun(payload.elems[i])
                 /\ methodRan[i] = (handler[i] # "none")
                 /\ onWire[i] = IF raw[i] = Nil THEN << >> ELSE <<marshal(raw[i])>>
<1>1. payload \in Payloads /\ observed \in [Entries -> Seq(CallInfo)]
  BY DEF IInv, TypeOK
<1>2. Entries = 1 .. Len(payload.elems) /\ Len(payload.elems) \in Nat
      /\ \A i \in Entries : payload.elems[i] \in Element
  BY <1>1, PayloadType DEF Entries
<1>3. \A e \in Element : answerID(e) \in ID /\ isNotification(e) \in BOOLEAN
                         /\ mayRun(e) \in BOOLEAN
  BY DEF Element, answerID, isNotification, validateRequest, mayRun, ID, NullID
<1>4. asked \in [1 .. Len(payload.elems) -> [id: ID, valid: BOOLEAN, silent: BOOLEAN]]
  BY <1>2, <1>3 DEF asked, mayRun
<1>5. asked \in Seq([id: ID, valid: BOOLEAN, silent: BOOLEAN])
  <2>. DEFINE S == [id: ID, valid: BOOLEAN, silent: BOOLEAN]
  <2>1. asked \in [1 .. Len(payload.elems) -> S]
    BY <1>4
  <2>. HIDE DEF S
  <2>2. asked \in Seq(S)
    BY <1>2, <2>1
  <2>. QED
    BY <2>2 DEF S
<1>6. \A i \in Entries :
        /\ asked[i].id = answerID(payload.elems[i])
        /\ asked[i].silent = isNotification(payload.elems[i])
        /\ asked[i].valid = mayRun(payload.elems[i])
  BY DEF asked, mayRun
<1>. QED
  BY <1>1, <1>5, <1>6 DEF asked, methodRan, onWire

(* A rejection is made before anything has run. *)
LEMMA RefuseImplemented ==
    ASSUME IInv,
           \/ RejectOversized \/ RejectBlank \/ RejectBatchTooLarge
           \/ RejectMalformed \/ RejectEmptyBatch \/ RejectGarbage
    PROVE  Batch!Refuse
<1>1. PICK r : /\ refuse(r)
               /\ r \in {Silent, Refusal(InvalidRequestErrorCode), Refusal(ParseErrorCode)}
  BY DEF RejectOversized, RejectBlank, RejectBatchTooLarge, RejectMalformed,
     RejectEmptyBatch, RejectGarbage, errorForMalformed
<1>2. /\ reply = Pending
      /\ \A i \in Entries : handler[i] = "none" /\ observed[i] = << >>
  BY <1>1 DEF refuse, IInv, PhaseInv, ReplyInv
<1>3. /\ UNCHANGED <<payload, observed, raw, handler>>
      /\ reply' \in {Silent, Refusal(InvalidRequestErrorCode), Refusal(ParseErrorCode)}
  BY <1>1 DEF refuse, entryVars
<1>4. /\ payload'.form = payload.form /\ asked' = asked /\ methodRan' = methodRan /\ onWire' = onWire
  <2>1. Entries' = Entries
    BY <1>3 DEF Entries
  <2>. QED
    BY <1>3, <2>1 DEF asked, methodRan, onWire, answerID, isNotification, validateRequest, marshal,
       wire, safeInternalResponse
<1>5. \A i \in Entries : ~methodRan[i]
  BY <1>2 DEF methodRan
<1>. QED
  BY <1>2, <1>3, <1>4, <1>5, Mapped DEF Batch!Refuse, methodRan

(* A worker starts the method of an entry that is valid and has none yet.  *)
LEMMA RunImplemented ==
    ASSUME IInv, NEW w \in Entries, BeginCall(w)
    PROVE  Batch!Run(job[w])
<1>. DEFINE i == job[w]
<1>1. pc[w] = "got" /\ mayRun(payload.elems[i])
  BY DEF BeginCall, elem, mayRun
<1>2. i \in Entries /\ phase # "done" /\ observed[i] = << >> /\ handler[i] = "none"
  BY <1>1, BusyFacts DEF Busy, IInv, WorkerInv, WorkerOK
<1>3. reply = Pending
  BY <1>2 DEF IInv, ReplyInv
<1>4. /\ UNCHANGED <<payload, observed, raw, reply>>
      /\ handler' = [handler EXCEPT ![i] = "running"]
      /\ handler \in [Entries -> {"none", "running", "sending", "returned"}]
  BY DEF BeginCall, callerVars, IInv, TypeOK
<1>5. Entries' = Entries
  BY <1>4 DEF Entries
<1>6. asked' = asked /\ onWire' = onWire
  BY <1>4, <1>5
     DEF asked, onWire, answerID, isNotification, validateRequest, marshal, wire,
         safeInternalResponse
<1>7. methodRan' = [methodRan EXCEPT ![i] = TRUE]
  BY <1>2, <1>4, <1>5 DEF methodRan
<1>8. asked[i].valid /\ ~methodRan[i]
  BY <1>1, <1>2, Mapped
<1>. HIDE DEF i
<1>9. Batch!Run(i)
  BY <1>2, <1>3, <1>4, <1>6, <1>7, <1>8 DEF Batch!Run, methodRan
<1>. QED
  BY <1>9 DEF i

(* A worker answers its entry: nobody answered it before, the observer is  *)
(* told what is stored, and the method ran if it could.                    *)
LEMMA AnswerImplemented ==
    ASSUME IInv, RunInv, NEW w \in Entries, Reply(w)
    PROVE  Batch!Answer(job[w])
<1>. DEFINE i == job[w]
            e == payload.elems[i]
            info == [code |-> resp[w].code, notification |-> isNotification(e)]
<1>1. pc[w] = "reply"
  BY DEF Reply
<1>2. /\ i \in Entries /\ phase # "done" /\ observed[i] = << >> /\ elem(w) = e
      /\ WorkerOK(w) /\ HandlerOK(i)
  BY <1>1, BusyFacts DEF Busy, IInv, WorkerInv, HandlerInv
<1>3. reply = Pending
  BY <1>2 DEF IInv, ReplyInv
<1>4. handler[i] # "none" <=> mayRun(e)
  BY <1>1, <1>2 DEF RunInv, HandlerOK, mayRun
<1>5. ~mayRun(e) => resp[w].code = InvalidRequestErrorCode
  BY <1>1, <1>2, <1>4 DEF WorkerOK, Verdict
<1>6. /\ resp[w] \in Response /\ resp[w] # Nil
      /\ ~isNotification(e) => wire(resp[w]).id = answerID(e)
  BY <1>1, <1>2 DEF WorkerOK, IInv, TypeOK
<1>7. /\ UNCHANGED <<payload, handler, reply>>
      /\ observed' = [observed EXCEPT ![i] = <<info>>]
      /\ raw' = [raw EXCEPT ![i] = IF isNotification(e) THEN Nil ELSE resp[w]]
  BY <1>2 DEF Reply, callerVars, observe, slot
<1>8. observed \in [Entries -> Seq(CallInfo)] /\ raw \in [Entries -> Response \cup {Nil}]
  BY DEF IInv, TypeOK
<1>9. Entries' = Entries
  BY <1>7 DEF Entries
<1>10. asked' = asked /\ methodRan' = methodRan
  BY <1>7, <1>9 DEF asked, methodRan, answerID, isNotification, validateRequest
<1>11. \A r : marshal(r)' = marshal(r)
  BY DEF marshal, wire, safeInternalResponse
<1>12. onWire' = [onWire EXCEPT ![i] = IF isNotification(e) THEN << >> ELSE <<marshal(resp[w])>>]
  BY <1>2, <1>6, <1>7, <1>8, <1>9, <1>11 DEF onWire
<1>13. /\ marshal(resp[w]).id = wire(resp[w]).id
       /\ marshal(resp[w]).code \in {resp[w].code, InternalErrorCode}
  BY <1>6, MarshalType
<1>14. observed'[i] = <<info>>
       /\ onWire'[i] = IF isNotification(e) THEN << >> ELSE <<marshal(resp[w])>>
  BY <1>2, <1>7, <1>8, <1>12 DEF onWire
<1>15. /\ asked[i].id = answerID(e) /\ asked[i].silent = isNotification(e)
       /\ asked[i].valid = mayRun(e) /\ methodRan[i] = (handler[i] # "none")
  BY <1>2, Mapped
<1>16. Batch!answers(observed'[i][1], onWire'[i], asked[i])
  BY <1>5, <1>6, <1>13, <1>14, <1>15 DEF Batch!answers
<1>. HIDE DEF i, e, info
<1>17. methodRan[i] <=> asked[i].valid
  BY <1>4, <1>15
<1>18. observed' = [observed EXCEPT ![i] = observed'[i]]
       /\ onWire' = [onWire EXCEPT ![i] = onWire'[i]]
       /\ Len(observed'[i]) = 1
  BY <1>7, <1>12, <1>14
<1>19. Batch!Answer(i)
  BY <1>2, <1>3, <1>7, <1>10, <1>16, <1>17, <1>18 DEF Batch!Answer, methodRan
<1>. QED
  BY <1>19 DEF i

(* The reply of a batch: the slots picked are the responses, in order. *)
LEMMA RespondBatch ==
    ASSUME IInv, FinishBatch
    PROVE  Batch!Respond
<1>1. /\ UNCHANGED <<payload, observed, raw, handler>>
      /\ phase = "collect" /\ cursor \notin Entries
      /\ reply' = IF picked = << >> THEN Silent
                  ELSE [shape |-> "array",
                        body |-> [k \in 1 .. Len(picked) |-> marshal(raw[picked[k]])]]
  BY DEF FinishBatch, entryVars
<1>2. asked' = asked /\ methodRan' = methodRan /\ onWire' = onWire
  <2>1. Entries' = Entries
    BY <1>1 DEF Entries
  <2>. QED
    BY <1>1, <2>1 DEF asked, methodRan, onWire, answerID, isNotification, validateRequest, marshal,
       wire, safeInternalResponse
<1>3. /\ reply = Pending /\ payload.form = "array" /\ dispatched
      /\ \A i \in Entries : observed[i] # << >>
  BY <1>1 DEF IInv, ReplyInv, PhaseInv
<1>4. payload.elems # << >>
  BY <1>3 DEF dispatched, dispatchedBatch, dispatchedSingle
<1>5. asked # << >>
  <2>1. Len(payload.elems) \in Nat /\ payload.elems \in Seq(Element)
    BY PayloadType DEF IInv, TypeOK
  <2>2. 1 \in Entries
    BY <1>4, <2>1 DEF Entries
  <2>. QED
    BY <2>2, Mapped
<1>6. picked \in Seq(Entries) /\ Len(picked) \in Nat
      /\ \A i \in Entries : i < cursor
  BY <1>1, PayloadType DEF IInv, TypeOK, Entries
<1>7. Batch!responding = {picked[k] : k \in 1 .. Len(picked)}
  <2>1. \A i \in Entries : onWire[i] # << >> <=> raw[i] # Nil
    BY DEF onWire
  <2>2. \A i \in Entries : (\E k \in 1 .. Len(picked) : picked[k] = i) <=> raw[i] # Nil
    BY <1>6 DEF IInv, CollectInv
  <2>3. \A k \in 1 .. Len(picked) : picked[k] \in Entries
    BY <1>6
  <2>. QED
    BY <2>1, <2>2, <2>3, Mapped DEF Batch!responding
<1>8. CASE picked = << >>
  <2>1. Batch!responding = {} /\ reply' = Silent
    BY <1>1, <1>7, <1>8
  <2>. QED
    BY <1>1, <1>2, <1>3, <1>5, <2>1, Mapped DEF Batch!Respond
<1>9. CASE picked # << >>
  <2>. DEFINE body == [k \in 1 .. Len(picked) |-> marshal(raw[picked[k]])]
              f == [k \in 1 .. Len(picked) |-> picked[k]]
  <2>1. reply' = [shape |-> "array", body |-> body]
    BY <1>1, <1>9
  <2>2. Batch!responding # {}
    <3>1. 1 \in 1 .. Len(picked)
      BY <1>6, <1>9
    <3>. QED
      BY <1>7, <3>1
  <2>3. f \in [DOMAIN body -> DOMAIN asked] /\ DOMAIN f = 1 .. Len(picked) /\ DOMAIN body = DOMAIN f
    BY <1>6, Mapped
  <2>4. \A k, l \in DOMAIN f : k < l => f[k] < f[l]
    BY DEF IInv, CollectInv
  <2>5. {f[k] : k \in DOMAIN f} = Batch!responding
    BY <1>7
  <2>6. \A k \in DOMAIN f : onWire[f[k]] = <<body[k]>>
    <3>. SUFFICES ASSUME NEW k \in 1 .. Len(picked) PROVE onWire[f[k]] = <<body[k]>>
      OBVIOUS
    <3>1. f[k] = picked[k] /\ picked[k] \in Entries /\ body[k] = marshal(raw[picked[k]])
      BY <1>6
    <3>2. raw[picked[k]] # Nil
      BY <3>1 DEF IInv, CollectInv
    <3>. QED
      BY <3>1, <3>2 DEF onWire
  <2>. HIDE DEF body, f
  <2>7. Batch!inOrder(body)
    BY <2>3, <2>4, <2>5, <2>6 DEF Batch!inOrder
  <2>8. reply'.shape = payload.form /\ Batch!inOrder(reply'.body)
    BY <1>3, <2>1, <2>7
  <2>. QED
    BY <1>1, <1>2, <1>3, <1>5, <2>2, <2>8, Mapped DEF Batch!Respond
<1>. QED
  BY <1>8, <1>9

(* The reply of a lone request is what its slot holds. *)
LEMMA RespondSingle ==
    ASSUME IInv, FinishSingle
    PROVE  Batch!Respond
<1>1. /\ UNCHANGED <<payload, observed, raw, handler>>
      /\ phase = "single" /\ pc[1] = "exited"
      /\ reply' = IF raw[1] = Nil THEN Silent
                  ELSE [shape |-> "object", body |-> << marshal(raw[1]) >>]
  BY DEF FinishSingle, entryVars
<1>2. asked' = asked /\ methodRan' = methodRan /\ onWire' = onWire
  <2>1. Entries' = Entries
    BY <1>1 DEF Entries
  <2>. QED
    BY <1>1, <2>1 DEF asked, methodRan, onWire, answerID, isNotification, validateRequest, marshal,
       wire, safeInternalResponse
<1>3. payload.form = "object" /\ Entries = {1} /\ reply = Pending
  BY <1>1, PayloadType DEF IInv, TypeOK, PhaseInv, ReplyInv
<1>4. \A i \in Entries : observed[i] # << >>
  BY <1>1, <1>3 DEF IInv, PhaseInv, JobInv, Busy
<1>5. asked # << >>
  BY <1>3, Mapped
<1>6. CASE raw[1] = Nil
  <2>1. Batch!responding = {} /\ reply' = Silent
    BY <1>1, <1>3, <1>6, Mapped DEF Batch!responding
  <2>. QED
    BY <1>1, <1>2, <1>3, <1>4, <1>5, <2>1, Mapped DEF Batch!Respond
<1>7. CASE raw[1] # Nil
  <2>. DEFINE body == << marshal(raw[1]) >>
              f == [k \in {1} |-> 1]
  <2>1. reply' = [shape |-> "object", body |-> body]
    BY <1>1, <1>7
  <2>2. Batch!responding = {1} /\ onWire[1] = body
    BY <1>3, <1>7, Mapped DEF Batch!responding
  <2>3. /\ f \in [DOMAIN body -> DOMAIN asked]
        /\ \A k, l \in DOMAIN f : ~(k < l)
        /\ {f[k] : k \in DOMAIN f} = {1}
        /\ \A k \in DOMAIN f : onWire[f[k]] = <<body[k]>>
    BY <1>3, <2>2, Mapped
  <2>. HIDE DEF body, f
  <2>4. Batch!inOrder(body)
    BY <2>2, <2>3 DEF Batch!inOrder
  <2>5. reply'.shape = payload.form /\ Batch!inOrder(reply'.body)
    BY <1>3, <2>1, <2>4
  <2>. QED
    BY <1>1, <1>2, <1>3, <1>4, <1>5, <2>2, <2>5, Mapped DEF Batch!Respond
<1>. QED
  BY <1>6, <1>7

(* A message that has just arrived is one nothing was done for. *)
LEMMA BatchInit == Init => Batch!Init
<1>. SUFFICES ASSUME Init PROVE Batch!Init
  OBVIOUS
<1>1. IInv
  BY IInvInit
<1>2. payload.form \in {"blank", "array", "object", "other"}
  BY <1>1, PayloadsAssumption DEF IInv, TypeOK, Payload
<1>3. asked \in Seq([id: ID, valid: BOOLEAN, silent: BOOLEAN]) /\ DOMAIN asked = Entries
  BY <1>1, Mapped
<1>4. /\ methodRan = [i \in Entries |-> FALSE]
      /\ observed = [i \in Entries |-> << >>]
      /\ onWire = [i \in Entries |-> << >>]
      /\ reply = Pending
  BY DEF Init, methodRan, onWire
<1>. QED
  BY <1>2, <1>3, <1>4 DEF Batch!Init, Batch!Ask

(* Every step of the dispatcher is one of the batch or none. *)
LEMMA BatchNext == IInv /\ RunInv /\ [Next]_vars => [Batch!Next]_(Batch!vars)
<1>. SUFFICES ASSUME IInv, RunInv, [Next]_vars
              PROVE  Batch!Next \/ UNCHANGED batchVars
  BY DEF Batch!vars, batchVars
<1>1. CASE \/ RejectOversized \/ RejectBlank \/ RejectBatchTooLarge
           \/ RejectMalformed \/ RejectEmptyBatch \/ RejectGarbage
  BY <1>1, RefuseImplemented DEF Batch!Next
<1>2. CASE FinishBatch \/ FinishSingle
  BY <1>2, RespondBatch, RespondSingle DEF Batch!Next
<1>3. ASSUME NEW w \in Entries, BeginCall(w) PROVE Batch!Next
  <2>1. job[w] \in DOMAIN asked
    BY <1>3, BusyFacts, Mapped DEF BeginCall, Busy
  <2>. QED
    BY <1>3, <2>1, RunImplemented DEF Batch!Next
<1>4. ASSUME NEW w \in Entries, Reply(w) PROVE Batch!Next
  <2>1. job[w] \in DOMAIN asked
    BY <1>4, BusyFacts, Mapped DEF Reply, Busy
  <2>. QED
    BY <1>4, <2>1, AnswerImplemented DEF Batch!Next
<1>5. handler \in [Entries -> {"none", "running", "sending", "returned"}]
  BY DEF IInv, TypeOK
<1>6. CASE StartBatch \/ StartSingle \/ CloseIndexes \/ WaitReturns \/ Collect
           \/ ParentEnd \/ Done \/ UNCHANGED vars
  BY <1>6, SameBatch
     DEF StartBatch, StartSingle, CloseIndexes, WaitReturns, Collect, ParentEnd, Done, vars,
         callerVars, entryVars
<1>7. ASSUME NEW w \in Entries, WorkerStep(w) \/ InlineReturn(w), ~BeginCall(w), ~Reply(w)
      PROVE  UNCHANGED batchVars
  <2>1. CASE InlineReturn(w)
    <3>1. handler[job[w]] = "running"
      BY <2>1, BusyFacts DEF InlineReturn, Busy, IInv, WorkerInv, WorkerOK
    <3>. QED
      BY <1>5, <2>1, <3>1, SameBatch DEF InlineReturn, callerVars
  <2>2. CASE ~InlineReturn(w)
    BY <1>7, <2>2, SameBatch
       DEF WorkerStep, SendIndex, ParseFailed, InvalidRequest, InlineCheck, SelectResponse,
           SelectDone, TakeReady, Abort, WorkerExit, entryVars, callerVars
  <2>. QED
    BY <2>1, <2>2
<1>8. ASSUME NEW i \in Entries,
             EnforcedReturn(i) \/ SendResponse(i) \/ DeadlineExpires(i) \/ PropagateEnd(i)
      PROVE  UNCHANGED batchVars
  BY <1>5, <1>8, SameBatch
     DEF EnforcedReturn, SendResponse, DeadlineExpires, PropagateEnd, entryVars, callerVars
<1>. QED
  BY <1>1, <1>2, <1>3, <1>4, <1>6, <1>7, <1>8 DEF Next, Caller

(* A message is refused before anything of it runs, or every entry is      *)
(* answered exactly once and the reply lists those answers in order, for   *)
(* every batch, pool, timeout regime and interleaving (handle.go:468-510,  *)
(* 528-578): the dispatcher implements BatchSpec.                          *)
THEOREM DispatchImplementsBatch == Spec => OneAnswerEach
<1>1. Init => RunInv
  BY DEF Init, RunInv
<1>2. Spec => []RunInv
  BY <1>1, RunStep, DispatchInvariant, PTL DEF Spec
<1>3. IInv /\ RunInv /\ [Next]_vars => [Batch!Next]_(Batch!vars)
  BY BatchNext
<1>. QED
  BY <1>2, <1>3, BatchInit, DispatchInvariant, PTL DEF Spec, OneAnswerEach, Batch!Spec
=============================================================================
