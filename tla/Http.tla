-------------------------------- MODULE Http --------------------------------
(***************************************************************************)
(* A call over HTTP: the client of jsonrpchttp (client.go), the POST, and  *)
(* the handler at the other end (handler.go), with the dispatcher it wraps *)
(* reduced to what it replies.  Whatever stands between them may answer in *)
(* the handler's place, and the answer may be cut.                         *)
(*                                                                         *)
(* Sizes are counted in requests and responses.                            *)
(***************************************************************************)
EXTENDS Integers, Sequences, FiniteSets

CONSTANTS
    Ops,              \* what the user may call: [kind, specs]
    maxBatchSpecs,     \* the client's limit on a batch, 0 for none
    maxBodySize,      \* the handler's limit on a request, 0 for none
    maxServerBatch,   \* the dispatcher's limit on a batch, 0 for none
    ForeignReplies,   \* what a gateway may answer: [status, body]
    MaxSeq            \* bound: ids allocated

NoNumber == 0
NullNumber == -1
Zero == [result |-> "zero", of |-> NoNumber]
Missing(id) == [result |-> "noResponse", of |-> id]

(* notify: no id.  runs: what the server makes of the request: "invalid"   *)
(* is refused even without an id.                                          *)
Spec1 == [notify : BOOLEAN, runs : {"result", "error", "invalid"}]
Body == [shape : {"empty", "object", "array", "junk"},
         entries : Seq([id : Int, out : {"result", "error"}])]

ASSUME OpsAssumption ==
    \A o \in Ops :
        /\ o.kind \in {"call", "notify", "batch"}
        /\ o.specs \in Seq(Spec1)
        /\ o.kind # "batch" => Len(o.specs) = 1
        /\ o.kind = "call" => ~o.specs[1].notify
        /\ o.kind = "notify" => o.specs[1].notify
ASSUME RepliesAssumption == \A r \in ForeignReplies : r.status \in Nat /\ r.body \in Body
ASSUME SizesAssumption ==
    {maxBatchSpecs, maxBodySize, maxServerBatch, MaxSeq} \subseteq Nat

VARIABLES
    op,        \* the operation under way
    stage,     \* where the caller's goroutine is
    seq,       \* c.seq
    ids,       \* per spec: the id it was sent with
    from,      \* who answered: "handler" or "gateway"
    httpReply, \* the HTTP answer
    cut,       \* how many entries of the body were read, and where it was cut
    expected,  \* the ids still awaited
    scanned,   \* entries of the response decoded so far
    results,   \* per spec
    outcome    \* what the caller gets beside the results

httpVars == <<op, stage, seq, ids, from, httpReply, cut, expected, scanned, results, outcome>>

NoOp == [kind |-> "none", specs |-> << >>]
Empty == [shape |-> "empty", entries |-> << >>]
NoReply == [status |-> 0, body |-> Empty]
Uncut == [read |-> 0, by |-> "nothing"]
Specs == DOMAIN op.specs

(***************************************************************************)
(* The client sends.                                                       *)
(***************************************************************************)
callsUpTo(specs, i) == Cardinality({k \in 1 .. i : ~specs[k].notify})

(* MarshalBatch: a fresh id for each spec that is not a notification. *)
MarshalBatch(specs) ==
    [i \in DOMAIN specs |-> IF specs[i].notify THEN NoNumber ELSE seq + callsUpTo(specs, i)]

return(o) ==
    /\ stage' = "done"
    /\ outcome' = o

Start(o) ==
    /\ stage = "idle"
    /\ seq + callsUpTo(o.specs, Len(o.specs)) <= MaxSeq
    /\ op' = o
    /\ from' = "nobody" /\ httpReply' = NoReply /\ cut' = Uncut /\ scanned' = 0
    /\ results' = [i \in DOMAIN o.specs |-> Zero]
    /\ IF o.specs = << >>
       THEN return("ok") /\ ids' = << >> /\ expected' = {} /\ UNCHANGED seq
       ELSE IF o.kind = "batch" /\ maxBatchSpecs > 0 /\ Len(o.specs) > maxBatchSpecs
       THEN return("batchTooLarge") /\ ids' = << >> /\ expected' = {} /\ UNCHANGED seq
       ELSE /\ ids' = MarshalBatch(o.specs)
            /\ seq' = seq + callsUpTo(o.specs, Len(o.specs))
            /\ expected' = {MarshalBatch(o.specs)[i] : i \in DOMAIN o.specs} \ {NoNumber}
            /\ stage' = "posted"
            /\ UNCHANGED outcome

(* The user makes the next call. *)
Again ==
    /\ stage = "done"
    /\ stage' = "idle"
    /\ op' = NoOp /\ ids' = << >> /\ from' = "nobody" /\ httpReply' = NoReply /\ cut' = Uncut
    /\ expected' = {} /\ scanned' = 0 /\ results' = << >> /\ outcome' = "none"
    /\ UNCHANGED seq

(***************************************************************************)
(* ServeHTTP.  What the dispatcher returns is what module Dispatch says:   *)
(* one response per request that has an id or is invalid, in order.        *)
(***************************************************************************)
answers(i) == ~op.specs[i].notify \/ op.specs[i].runs = "invalid"
response(i) ==
    [id |-> IF op.specs[i].notify THEN NullNumber ELSE ids[i],
     out |-> IF op.specs[i].runs = "result" THEN "result" ELSE "error"]
answering[i \in 0 .. Len(op.specs)] ==
    IF i = 0 THEN << >>
    ELSE IF answers(i) THEN Append(answering[i - 1], i) ELSE answering[i - 1]
responses == answering[Len(op.specs)]
LimitRefusal == [shape |-> "object", entries |-> << [id |-> NullNumber, out |-> "error"] >>]

HandleRPCJSONRawMessage ==
    IF op.kind = "batch" /\ maxServerBatch > 0 /\ Len(op.specs) > maxServerBatch
    THEN IF \A i \in Specs : op.specs[i].notify THEN Empty ELSE LimitRefusal
    ELSE [shape |-> IF responses = << >> THEN "empty"
                    ELSE IF op.kind = "batch" THEN "array" ELSE "object",
          entries |-> [k \in DOMAIN responses |-> response(responses[k])]]

status(body) == IF body.shape = "empty" THEN 204 ELSE 200

ServeHTTP ==
    /\ stage = "posted"
    /\ from' = "handler"
    /\ httpReply' = IF maxBodySize > 0 /\ Len(op.specs) > maxBodySize
                THEN [status |-> 413, body |-> [Empty EXCEPT !.shape = "junk"]]
                ELSE [status |-> status(HandleRPCJSONRawMessage),
                      body |-> HandleRPCJSONRawMessage]
    /\ stage' = "answered"
    /\ UNCHANGED <<op, seq, ids, cut, expected, scanned, results, outcome>>

(* External: a gateway, or a server of another make. *)
GatewayAnswers ==
    /\ stage = "posted"
    /\ from' = "gateway"
    /\ httpReply' \in ForeignReplies
    /\ stage' = "answered"
    /\ UNCHANGED <<op, seq, ids, cut, expected, scanned, results, outcome>>

PostFails ==
    /\ stage = "posted"
    /\ return("doRequest")
    /\ UNCHANGED <<op, seq, ids, from, httpReply, cut, expected, scanned, results>>

(***************************************************************************)
(* The client reads: postRaw, then the decoding of each operation.         *)
(***************************************************************************)
entries == httpReply.body.entries

(* maxResponseSize may cut the body within an entry or right after one. *)
ReadResponse ==
    /\ stage = "answered"
    /\ cut' \in {[read |-> Len(entries), by |-> "nothing"]}
               \cup [read : 0 .. Len(entries) - 1, by : {"within", "after"}]
    /\ IF httpReply.status \notin 200 .. 299 THEN return("status")
       ELSE stage' = "read" /\ UNCHANGED outcome
    /\ UNCHANGED <<op, seq, ids, from, httpReply, expected, scanned, results>>

Notify ==
    /\ stage = "read" /\ op.kind = "notify"
    /\ return("ok")
    /\ UNCHANGED <<op, seq, ids, from, httpReply, cut, expected, scanned, results>>

(* Only the first object counts; a response without an id is taken. *)
Call ==
    /\ stage = "read" /\ op.kind = "call"
    /\ IF httpReply.body.shape = "empty" THEN return("emptyResponse") /\ UNCHANGED results
       ELSE IF httpReply.body.shape # "object" \/ cut.by # "nothing"
       THEN return("decode") /\ UNCHANGED results
       ELSE IF entries[1].out # "error" /\ entries[1].id \notin {NoNumber, ids[1]}
       THEN return("idMismatch") /\ UNCHANGED results
       ELSE /\ return("ok")
            /\ results' = [results EXCEPT ![1] = [result |-> entries[1].out, of |-> ids[1]]]
    /\ UNCHANGED <<op, seq, ids, from, httpReply, cut, expected, scanned>>

CallBatch ==
    /\ stage = "read" /\ op.kind = "batch"
    /\ IF expected = {} THEN return("ok")
       ELSE IF httpReply.body.shape = "empty" THEN return("emptyResponse")
       ELSE IF httpReply.body.shape # "array" THEN return("decode")
       ELSE stage' = "scanning" /\ UNCHANGED outcome
    /\ UNCHANGED <<op, seq, ids, from, httpReply, cut, expected, scanned, results>>

(* dec.More(): after a cut right after an entry there is no more. *)
more == scanned < cut.read \/ cut.by = "within"

(* Fault: the bound is the number of answers still awaited. *)
Mut_mayScan == more /\ expected # {} /\ scanned < Cardinality(expected)

mayScan == more /\ expected # {} /\ scanned < Len(ids)

indexOf(id) == CHOOSE i \in DOMAIN ids : ids[i] = id

(* Fault: an answered id stays awaited, so a later entry replaces it. *)
Mut_met(id) == expected

met(id) == expected \ {id}

ScanEntry ==
    /\ stage = "scanning"
    /\ mayScan
    /\ IF scanned = cut.read
       THEN return("decode") /\ UNCHANGED <<expected, scanned, results>>
       ELSE LET e == entries[scanned + 1]
            IN  /\ scanned' = scanned + 1
                /\ results' = IF e.id \in expected
                              THEN [results EXCEPT ![indexOf(e.id)] =
                                      [result |-> e.out, of |-> e.id]]
                              ELSE results
                /\ expected' = IF e.id \in expected THEN met(e.id) ELSE expected
                /\ UNCHANGED <<stage, outcome>>
    /\ UNCHANGED <<op, seq, ids, from, httpReply, cut>>

Finish ==
    /\ stage = "scanning"
    /\ ~mayScan
    /\ results' = [i \in Specs |-> IF ids[i] \in expected THEN Missing(ids[i]) ELSE results[i]]
    /\ return("ok")
    /\ UNCHANGED <<op, seq, ids, from, httpReply, cut, expected, scanned>>

HttpInit ==
    /\ op = NoOp /\ stage = "idle" /\ seq = 0 /\ ids = << >>
    /\ from = "nobody" /\ httpReply = NoReply /\ cut = Uncut
    /\ expected = {} /\ scanned = 0 /\ results = << >> /\ outcome = "none"

HttpNext ==
    \/ \E o \in Ops : Start(o)
    \/ ServeHTTP \/ GatewayAnswers \/ PostFails
    \/ ReadResponse \/ Notify \/ Call \/ CallBatch \/ ScanEntry \/ Finish \/ Again

HttpSpec == HttpInit /\ [][HttpNext]_httpVars

(***************************************************************************)
(* Properties.                                                             *)
(***************************************************************************)
batchReturned == stage = "done" /\ outcome = "ok" /\ op.kind = "batch" /\ httpReply # NoReply
first(id) == CHOOSE k \in DOMAIN entries :
                entries[k].id = id /\ \A m \in 1 .. k - 1 : entries[m].id # id

(* Results line up with the specs whatever the other end sends: the first  *)
(* entry with the spec's id, if it arrived within as many entries as were  *)
(* sent, and otherwise an error that says so, never nothing and never      *)
(* another's answer (client.go:160-190).                                   *)
ResultsLineUp ==
    batchReturned =>
        \A i \in Specs :
            IF op.specs[i].notify THEN results[i] = Zero
            ELSE IF /\ \E k \in DOMAIN entries : entries[k].id = ids[i]
                    /\ first(ids[i]) <= cut.read /\ first(ids[i]) <= Len(ids)
            THEN results[i] = [result |-> entries[first(ids[i])].out, of |-> ids[i]]
            ELSE results[i] = Missing(ids[i])

(* The handler is understood: unless a limit refused the request or cut    *)
(* the answer, every call returns what the server made of it, though the   *)
(* answer also holds entries for notifications it found invalid, and a     *)
(* notification never ends in an error.                                    *)
HandlerIsUnderstood ==
    /\ stage = "done" /\ from = "handler" /\ cut.by = "nothing"
    /\ httpReply.status # 413
    /\ ~(op.kind = "batch" /\ httpReply.body.shape = "object")
    => /\ outcome = "ok"
       /\ \A i \in Specs :
             ~op.specs[i].notify =>
                results[i] = [result |-> response(i).out, of |-> ids[i]]
=============================================================================
