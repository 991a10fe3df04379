# A verification development of golang-jsonrpc2

TLA+ modules, TLC configurations and TLAPS proofs about the JSON-RPC 2.0
server and client library in `src/`. Line numbers refer to that source.
`PROJECT.json` maps every definition to the lines it models.

## 1. The system

| Component | State it keeps | Operations | Talks to |
|---|---|---|---|
| Dispatcher (`handle.go`, `main.go`, `error.go`, `observe.go`, `interceptors.go`) | nothing between messages; per message a snapshot of the configuration, the batch's response slots, the channel `indexes`, one context and one channel per request | `HandleRPCJSONRawMessage`, `HandleBatchRPC`, `HandleRPC` | user handlers, interceptors and observer (callbacks); every transport calls it |
| Payload scanners (`handle.go` 150-373) | none | `approxBatchLen`, `lacksResponseID`, `splitBatchElements` | the dispatcher |
| Configuration and registry (`main.go`, `methods.go`, `middleware.go`, `error.go`) | an atomic pointer to an immutable `config`; the mutex `j.mu` | `RegisterMethod`, `RegisterError`, `Use`, `AddInterceptor`, the setters; `cfg.Load()` by requests | the dispatcher reads it, user code changes it at any time |
| stdio client (`jsonrpcstdio/client.go`, `push.go`) | `seq`, `pending`, `closed`, `closeOnce`, `cause`; the writer's mutex and its latch | `Call`, `Notify`, `Close`, the read loop | the peer through two pipes; a notification handler |
| stdio server (`jsonrpcstdio/serve.go`, `push.go`) | slots, wait group, connection context, first error, the latched writer | `Serve`, `Notify` | the dispatcher, the peer, goroutines that keep the pusher |
| stdio framing (`jsonrpcstdio/framing.go`) | a buffered reader and a limit | `ReadFrame`, `WriteFrame` of two framings | both stdio sides |
| websocket client (`jsonrpcws/client.go`) | `seq`, `pending`, close state | `Call`, `CallBatch`, `Notify`, `Close`, read loop | the peer |
| websocket server (`jsonrpcws/handler.go`, `push.go`) | slots, connection context | connection loop, `Notify` | the dispatcher, the peer |
| HTTP handler and client (`jsonrpchttp`) | an id counter | one exchange per call or batch | the dispatcher |
| fiber adapters, client helpers, typed handlers, OpenRPC, codecs | none | pure conversions | |

### What is hard here

* A batch runs on a pool: workers fill slots in any order, notifications leave
  holes, undecodable entries take another path, and the reply must still be
  the requests' order with the requests' ids.
* Two timeout regimes decide differently between an answer and the end of its
  context; in enforced mode the two race in a `select`, the handler's goroutine
  outlives the call, and the caller's context can end instead of the deadline.
* The configuration is changed while requests run. Go maps are shared by
  reference, so one map that `clone` forgets is a data race, and the composed
  dispatch map can fall behind the maps it is made from.
* The stdio client has four kinds of goroutines over two mutexes, a `Once` and
  a closed channel. Responses may be duplicated, late, unsolicited or without an
  id; `shutdown` may run inside the writer with its mutex held.
* The websocket client shares one map between single calls and batches. A batch
  is registered, answered, scanned and abandoned piecewise while other calls
  come and go; a rejection without an id belongs to no call; `Close` undoes
  things in an order that calls under way depend on.
* The websocket server reads only while it is not waiting for a slot, and only
  a read or a write notices that the client is gone.
* Three hand-written scanners loop over raw bytes and must agree with each other
  and with the decoder they save from running.
* A framing must be exact at its limits and truthful about where a stream ended,
  however the reads of the buffer fall.
* `Serve` has four causes to end that may all have happened when the result is
  chosen, and background goroutines that write while it leaves.

`PROJECT.json` lists each hazard at its line with the properties that catch it.

### What makes each component correct

* Dispatcher: one response per non-notification in request order with its own
  id and outcome; one observation per entry; silence exactly for notifications;
  an expired deadline, and inline nothing else, replaces a response; an answer
  already there wins over the abort; the call returns and leaks no goroutine.
* Scanners: what is counted is what is cut; every JSON array is cut into its
  elements; what is silent has no id anywhere, and what has no id is silent.
* Registry: a change is atomic, none is lost, a refused or panicking one leaves
  no trace, a request sees one configuration.
* Clients over a stream: a call gets its own response; the read loop never blocks
  on a call; nothing is written after `Close` or after a partial frame; nobody
  waits forever and nothing stays in the map; an answer in a batch frame
  reaches its call.
* stdio server: the result is truthful and final; order with one call at a time;
  a clean end loses no reply; a dead connection ends it.
* Framing: what one side frames the other reads; the end is told truthfully; the
  limit is exact.
* websocket server: the bound on calls, with no slot lost; a reply is written or
  the connection is torn down; nothing follows a failed write; the session ends.
* HTTP: results line up with the specs whatever the answer holds; the handler is
  understood.

## 2. Modules

| Module | Models |
|---|---|
| `BatchSpec` | the abstract message: refused, or each entry answered in one step |
| `Dispatch` | one call of `HandleRPCJSONRawMessage`; implements `BatchSpec` |
| `DispatchProofs` | the inductive invariant of `Dispatch`, its theorems, and the refinement step by step |
| `Scan` | the three byte scanners of `handle.go` beside the JSON grammar |
| `ScanProofs` | that the scanners agree with each other on every byte string and with the grammar on every JSON text |
| `RegistryOps` | a configuration, its initial value, which changes are refused |
| `RegistrySpec` | the abstract registry: every change is one step |
| `Registry` | `update`, `clone`, `compose`, `Store` on a heap of maps; implements `RegistrySpec` |
| `RegistryProofs` | the invariant of the heap, and the refinement step by step |
| `StdioClient` | the stdio client and its writer |
| `StdioServe` | one call of `Serve`, its writer and pushers |
| `StdioClientProofs`, `StdioServeProofs` | the inductive invariants of the two and their theorems |
| `Framing` | both stdio framings over one byte stream |
| `WsClient` | the websocket client |
| `WsServe` | one connection of the websocket handler |
| `WsClientProofs`, `WsServeProofs` | the inductive invariants of the two and their theorems |
| `Http` | a call over HTTP, from the client through the handler and back |
| `WireProofs` | that what one side frames the other reads, wherever the stream is cut and the reads fall, and that results line up over HTTP, for every batch and every answer |
| `MCDispatch`, `MCRegistry`, `MCStdioClient`, `MCStdioServe`, `MCWsClient`, `MCWsServe` | the small instances TLC checks |
| `MCWire` | one instance of `Framing`, `Scan`, `Dispatch` and `Http`, side by side: what the bytes of a peer go through |

How they fit: every transport hands a message to `Dispatch` and sees a reply or
none, which is how `StdioServe`, `WsServe` and `Http` use it. `Scan` says what
`Dispatch` may assume of the bytes: its `ElementsCompose` is what allows an
element of a batch to carry its own verdict `seen`. `Framing` is what `StdioClient`
and `StdioServe` see as whole, partial and unframeable writes.

An operator `Mut_X` written before `X` is a plausible bug in the code `X`
translates (a dropped guard, a missing reset, an off-by-one). It is used by
nothing; substituting it for `X` makes the property named with it in
`PROJECT.json` fail, which shows that the property can see that bug.

### Dispatch

`phase` is where the caller's goroutine is. The rejections before anything is
dispatched (`RejectOversized` ... `RejectGarbage`) are in the order of the code,
each guard containing the negation of the earlier early returns. `StartBatch`
starts `concurrency(n)` workers; `SendIndex(w)` is the rendezvous on the
unbuffered channel, `CloseIndexes` the `close`, `WaitReturns` is `wg.Wait`,
`Collect` the loop that drops nil slots and `FinishBatch` the marshalling with
its per-entry fallback. A lone request runs on the caller's goroutine, which
plays worker 1 (`StartSingle`, `FinishSingle`).

A worker's `pc` walks `handleRPC` with `dispatch` inlined: `ParseFailed`,
`InvalidRequest` or `BeginCall`, then inline `InlineReturn`, `InlineCheck`, or
enforced `SelectResponse`, `SelectDone`, `TakeReady`, `Abort`, then `Reply`
(observer and slot). The check of the deadline, the two `select`s and the
handler's send are separate steps because contexts end between them. The
handler's goroutine in enforced mode is `EnforcedReturn` (computes) and
`SendResponse` (sends to a channel of capacity one).

`BatchSpec` knows neither workers nor contexts: a message is refused before anything of it
runs, or each entry is answered in one step and the reply lists the answers. The
mapping takes an entry as answered when the observer was told (`observed`), with what
its slot will put on the wire (`onWire`), and its method as run when its handler was
started.

An element is abstracted to what the code distinguishes: not JSON, JSON that is
no request object, or a request with a version that is right or not, a method or
none, and an id that is a client's, absent, null, broken or structured.
`wire` collapses the absent id to null as the encoder does. A handler returns,
returns an error with or without an `*RPCError` whose data may not marshal, or
panics; the same for the interceptors before it.

What the byte scans decide is part of the input: `balanced` (the array splits),
`seen` (what `lacksResponseID` makes of one element) and `quiet` (what it says of
bytes that do not split).

### Scan

A scanner is a loop with a few local variables and no memory of the bytes behind
it. The module runs the three loops over one payload, one byte per step, as a
product of their local states, next to the JSON grammar, which is the reference.
The payload is not kept, so a state stands for every payload that leads to it and
the run covers payloads of any length within the bounds on nesting and elements.
Bytes are the classes the code distinguishes, with the two letters `id` and their
escape as tokens of their own. Every state is also the end of a payload: the
properties feed the closing byte and ask what the functions would return.
`splitBatchElements` runs on the payload without its first and last byte, which
is why the other two are one level deeper. `part` is `lacksResponseID` on the
element at hand alone.

### Registry

Maps live in a heap and a config holds their addresses, so sharing is visible.
After a `New()` or a recompose without middleware `composed` is the `methods`
map itself. `Acquire`, `Clone`, `Mutate*`, `Compose*`, `Store` are the steps of
`update`; a refusing mutator and a panicking middleware factory leave through
the deferred unlock. A request loads the pointer once and then follows three
maps in three steps. The refinement mapping follows the addresses; `Store` maps
to the abstract change, the last lookup to the abstract answer, the rest
stutters.

### StdioClient

A critical section of `c.mu` is one step. The writer's mutex is held across a
write that may block, so it is the variable `lock`. `shutdown` is four steps
(`OnceFirst`, `CloseClosed`, `FailPending`, and `OnceLater` for those who wait
on the `Once`), used by `Close`, by the end of the read loop and, with the
writer's mutex held, by a failed write. The looks at `c.closed` in `Call` and in
the read loop are separate from what follows them. The peer may send any frame
at any time, including frames that answer nobody, answer twice, carry a null id,
or are requests that reuse an id in flight.

### StdioServe

`main` is Serve's goroutine, `pc` the goroutine of each message and of each
background `Notify`. With a limit of one the message is dispatched on Serve's own
goroutine (`main = "inline"`). The deferred exit is `CancelInFlight`, `Drain`,
`LatchWriter`, `Decide`, in that order. `fail` is one step: nobody reads the
recorded error before the cancellation that follows it.

### Framing

A peer writes messages with `WriteFrame` of one framing, possibly after a byte
order mark and, under Content-Length, with header lines of its own; the stream
may be cut at any byte not yet read. The reader has one framing, the same or the
other. `ReadLine` and `ReadHeaderLine` are one `ReadSlice` of the buffer each, so a
line longer than the buffer takes several; the checks of a header line are in
the code's order.

### WsClient

As `StdioClient`, with these differences of the code: `CallBatch` draws its ids one
at a time and registers them in one critical section; a batch frame is gone
through entry by entry (`BeginBatch`, `ScanDeliver`, `ScanDrop`, `EndBatch`) while
callers come and go; `Close` takes the connection down before it drops the map
(`CloseClosed`, `CloseConn`, `FailPending`); a write may fail and leave the
connection open or take it down. `owed` records the ids in the map when a batch
frame is begun, and `covered` is what the bound on the scan lets it come to: the
positions up to the limit, before anything malformed, that are the first with such
an id. `AnswersDelivered` says what becomes of the response at each of them, in
frames of any kind; what lies beyond the bound is the subject of
`WellBehavedServerIsHeard`, which fails (section 4).

### WsServe

`main` is the goroutine of `ServeHTTP`, `pc` that of each message and each
background `Notify`. Taking a slot is a step of its own between two reads and
waits for nothing else. A failed write runs `onError` with the mutex held:
`CancelOnError`, then `CloseNow`. `PeerDrops` may happen at any time and is noticed
only by `ReadFails` or `WriteFails`.

### Http

One call, notification or batch at a time: `Start` marshals and posts, the handler
or a gateway answers, `ReadResponse` reads the body up to the limit, and `Call`,
`Notify`, `CallBatch` with `ScanEntry` and `Finish` make the results. The ids go on
counting from one call to the next, so an answer may carry those of an earlier
one.

## 3. Runs

TLC checks for deadlock in every run. Termination is an explicit stuttering
action (`Done`) whose guard says that everybody has finished, so a state in
which somebody is stuck is a deadlock.

| Run | Instance | Shows |
|---|---|---|
| `dispatch_pool` | three entries with a silent one in the middle, a repeated id, an undecodable first entry, a lone call and a lone notification, a message for each way of rejecting it; 1 or 2 workers, or a batch limit of 1; inline and enforced; deadlines and the caller's context end at any moment | observations, both verdicts, the refinement, that the call returns and no handler goroutine stays blocked |
| `dispatch_observer` (violation) | a handler error whose data does not marshal | the observer was told a code the client did not receive |
| `registry` | three writers, nine changes (method, its duplicate, reserved name, error, predefined error, two middlewares, interceptor, setting), one request | the refinement, immutability of snapshots, the composed map in step |
| `stdio_client` | two calls, `Close`, two arbitrary frames | the safety properties |
| `stdio_client_live` | one call, one notification, `Close`, two of: rejection, answer, push | everyone is released |
| `stdio_client_cause` (violation) | two calls, no `Close` | a call gets the bare `ErrClientClosed` although there was a cause |
| `stdio_serve` | three messages, limits 1 and 2, one background `Notify` | all properties of `StdioServe`, with fairness |
| `ws_client` | a batch of two calls and a notification (or one too long, or empty) beside a call or a notification, `Close`, two frames of thirteen kinds | all properties of `WsClient` but the next |
| `ws_client_bound` (violation) | the same, one frame | an entry that is for nobody uses up the bound of the scan, and an answer behind it is lost |
| `ws_serve` | three messages, limits 1 and 2, one background `Notify`, with fairness | all properties of `WsServe` but the next |
| `ws_serve_drop` (violation) | the same | a client that goes away while the read loop waits for a slot is never noticed |
| `wire` | two messages around a limit of 5, two framings, a buffer of 5 and a header cap of 11; payloads nested up to 4 deep with up to 4 elements against a limit of 2; a dispatch of 18 kinds of element, alone and in pairs, in an array or as an object, oversized or not, bytes that are no JSON, batch limit off or 1, nine handler outcomes, both regimes; six ids over HTTP, three limits and 29 foreign answers | all properties of `Framing`, `Scan` and `Http`; of `Dispatch` the reply, and the silence rule for every way of rejecting |

A behaviour of `wire` is one of one of its four modules, and the state space the sum of
theirs. A decoder may stop there: a stream that ended, an id that the bound does not
allow or a payload at its bounds goes no further. `LossReleasesEveryone` takes the place of a
liveness property: once the connection is lost, some step that the scheduler or the
library sees to is possible until everybody has returned.

### Why the bounds are enough

* Three entries on two workers give every relation an entry can have to
  another: same worker before or after, another worker at the same time, and a
  third one queued. Two entries of every kind pair each element kind with each.
  The theorems of section 5 remove this bound for the properties they cover.
* Three writers make one that changes, one that waits and one that changes
  after both. Requests only read, and never each other, so one is enough. The
  writers are interchangeable and no property is temporal beyond safety, so they
  are declared symmetric.
* Two calls are what correlation, a rejection of several calls and a queue
  behind the writer need. Two frames are a response and its duplicate, a
  rejection and a late answer, or a push and the end of the stream.
* Three messages with a limit of two are two in flight and one waiting for a
  slot; with a limit of one they show the order.
* A batch with two calls around a notification has an id before and after a gap;
  the other caller's id falls before, between or after its ids. Two batch frames
  answer it in one, in two, twice, out of order, with a null id or junk before
  the answer that counts, which is within the bound of the scan or beyond it,
  depending on whether the other caller's id is in the map.
* The scanners look at depth only relative to the depth of an element and of its
  keys (1 and 2); four levels leave two below that. Four elements are two above
  the limit, which is where both scanners have decided.
* A buffer shorter than the messages splits lines. Messages of exactly the limit, of one
  byte more and of two more are there, with and without a carriage return at the end,
  which a line loses and a body keeps; a line end inside a message can or cannot be
  compacted. A header block with a foreign line of four bytes is at its cap, one
  with five above it; the other foreign lines are one without a colon, a second length, a
  blank line and a length that is no number. The theorems of section 5 remove these
  bounds, but for the nine lengths a header can tell.
* Six ids are three batches of two calls, or one batch at each limit.

The bounds: `MaxEntries` (batch), `MaxFrames` and `MaxMessages` (frames and messages of
a peer), `MaxSeq` (ids drawn), `MaxDepth` and `MaxElements` (scanners), `MaxSent`
(messages in a stream). Ids of the stdio client are bounded by the number of
calls. The counter's 64-bit overflow and the reuse of an id after it are out of
reach of any run.

### Fairness

* `Dispatch`: goroutines are scheduled and timers fire (every context of
  `dispatch` has a timeout). Inline, a handler returns: the code says that it
  waits for it. Enforced, nothing is assumed of a handler. The end of the
  caller's context is never forced.
* `StdioClient`: goroutines are scheduled; a mutex is handed to every waiter
  (strong fairness: `sync.Mutex` switches to starvation mode after a
  millisecond); a write ends, with success or an error; the notification handler
  returns. Nothing is assumed of the peer's frames, of contexts, or of anyone
  calling `Close`. That a write ends is a real assumption: a peer that neither
  reads nor closes its end blocks `Close` itself.
* `StdioServe`: as above, and a handler returns once its context is cancelled.
  A handler whose context is alive may run forever.

* `WsServe`: goroutines are scheduled and the mutex is handed to every waiter; a
  write ends, because it has a timeout; a read ends once the connection is down
  or its context cancelled; a handler returns once its context is cancelled. The
  send on `slots` is fair too: if slots keep getting free the loop gets one.
* `WsClient` has no fairness: its release property is a statement about which steps
  remain possible (`Progress`), in which a write is only sure to end once the
  connection is down.

### Abstractions that are not obvious

* Enforced mode ignores the handler's own context: what a handler does with
  its context is its own business, so it may return at any time or never.
* A panic inside the caller's `io.Writer` is left out. A panic while a message is
  dispatched inline ends `Serve` in the code by unwinding; the model ends the
  message, records the error and cancels, and the next check leaves the loop.
* `StdioServe`, `WsServe` and `Http` treat the dispatcher as one operation: it
  produces a reply or none, or panics. `Dispatch` is what justifies that. A panic in
  the websocket handler's goroutine is not recovered by the code and ends the
  process; `Dispatch` recovers those of handlers.
* The websocket library is external: a connection is open or down; after a failed
  write it may be either; `Read` on a connection that is down fails.
* A message in `Framing` starts with a brace; its length is one token of the header (1
  to 9, so a body of length zero is left out), and the name `Content-Length:` is two; the
  byte order mark counts as one byte. Spaces around a name and its case are left out.
* In `Http` sizes are counted in requests and responses, and a cut falls within an
  entry or right after one.
* `Scan` leaves out the top-level trim and payloads that start with neither bracket,
  for which every scanner returns at once.
* The modules `Dispatch`, `Registry`, `StdioClient` and `StdioServe` also define `TypeOK`, which
  states the values their variables range over. No listed run checks these; each
  is a part of the inductive invariant proved in section 5.

## 4. Where text and code disagree

* `observe.go:17` promises the code the client received; the observer runs before
  the marshalling that may replace the response (`dispatch_observer`).
* `jsonrpcstdio/client.go:158` says that the cause of a close is observable; the read
  loop latches the writer before it records the cause, and a call refused in
  between reports none (`stdio_client_cause`).
* `jsonrpcws/handler_test.go:171` and `handler.go:140` say that a disconnect cancels
  the handlers in flight promptly. While all slots are taken the read loop waits
  on `slots <- struct{}{}` (`handler.go:172`) and reads nothing, so handlers that
  wait for their context hold the connection for ever (`ws_serve_drop`). A `select`
  with `ctx.Done()` would not help by itself, since nobody reads to cancel it; the
  read has to go on, or to be watched, while the loop waits.
* `jsonrpcws/client.go:325` says that the scan of a batch frame stops once it has
  "delivered as many entries as there are outstanding calls". `deliverBatch`
  (`client.go:394`) counts the entries it looks at, delivered or not, and its bound
  is the number of calls in the map, while the frame may also answer notifications:
  the dispatcher of this library answers one without a method with an error whose id
  is null. In the trace of `ws_client_bound` a batch of a call, a notification and a
  call is answered with three entries, the second with the null id; the scan stops
  after two, and `CallBatch` waits for the third until its context ends. Counting
  deliveries would be what the comment says; the HTTP client bounds its scan by the
  number of requests, and `HandlerIsUnderstood` holds of it.

Smaller ones, seen while modelling and stated here only:

* `handle.go:207` says that elements that are not objects keep their rejection. The scan
  passes over an element that is a string (the case of the quote, `handle.go:263`, does
  not ask where the string stands), so that of `["x",{}]` is silent. Brackets that do not
  match and a trailing comma, the malformed structure of the same sentence, are passed
  over too. `SilenceIsExact` states what the scan does.
* `handle.go:403` says that only a genuine deadline becomes RequestTimeLimit;
  enforced mode answers a cancelled parent with the same code, as the comment of
  `SetEnforcedTimeout` (`main.go:191-194`) says. `EnforcedVerdict` states the latter.
* `jsonrpcstdio/framing.go:37` says that an end in the middle of a frame is an
  unexpected EOF; an NDJSON line cut in the middle is returned as a frame, as
  `framing.go:278` says. `FramesAreMessages` and `EndIsTruthful` allow for it.
* The stdio client drops a request of the peer's that reuses an id in flight; the
  websocket client takes it for an empty answer to that call. `ResultsAlign` speaks
  of ids only.

## 5. Proofs

Every safety property the passing runs check is proved for all values of the
constants, but for the exceptions listed at the end of this section. The proofs
use no fairness. They have one shape: an inductive invariant (`IInv`; `FramingInv` in `Framing`), a lemma for each
action that `IInv` survives it, `Spec => []IInv` from those, and each property in
one temporal step from there. What follows says for each module what is proved,
from which assumptions on the constants, and what had to be added to the property
to make it inductive.

### Dispatch

For every set of payloads, configurations, outcomes, ids and methods, hence for
every batch length, pool size and interleaving:

* `DispatchTypeCorrect`: `TypeOK`;
* `DispatchReplyCorrect`: `ReplyMatchesRequests`;
* `DispatchObservedOnce`: `ObservedOncePerEntry`;
* `DispatchInlineVerdict`, `DispatchEnforcedVerdict`: the two timeout regimes;
* `DispatchSilenceRule`: `SilenceRule`;
* `DispatchImplementsBatch`: `OneAnswerEach`, the refinement of `BatchSpec`.

The assumptions: an object payload has one element and none is longer than
`MaxEntries` (any natural number); a payload that has elements starts with a bracket
and splits; an element with an id is not taken for one
without (which `SilenceIsExact` says of the scan); the error map holds the codes
`New()` puts there, which nothing removes; the special ids are not client ids; a
method name is not the missing one.

That the reply lists the right slots says nothing of how the slots were filled, so
`IInv` adds

* `JobInv`: an entry is with at most one worker, and only after it was sent;
* `PhaseInv`: what each phase of the caller says about workers and indexes;
* `HandlerInv`: how the handler, channel and context of an entry relate, in
  particular that a response that was sent is in the channel or was taken;
* `WorkerInv`: what a worker's local response is worth at each `pc`;
* `EntryInv`: a finished entry has one observation, the slot that belongs to it,
  and the verdict of its regime;
* `CollectInv`: what the filter has picked is the answered part of the prefix it
  has read, in order;
* `ReplyInv`: the reply itself.

The interesting cases are `Reply`, where
a worker's local response becomes an entry's, `Abort`, where a channel seen empty
rules out an answer that was ready in time, and `FinishBatch`, where the picked
indexes become the witness for the reply's order. `SilenceRule` needs one invariant
more, `RefusalInv`: a message that is not dispatched stays without a reply only if
one of the two size limits rejects it and the scan saw no id.

In the refinement a rejection is `Refuse`, `BeginCall` is `Run`, the worker's `Reply` is
`Answer`, and `FinishBatch` and `FinishSingle` are `Respond`; every other step is a stutter, a
handler that comes back after it was given up included. The abstract
`Answer` asks that the method has run exactly if the entry is valid, which needs `RunInv`: a
worker that replies without a handler holds an invalid entry.

### Scan

For every limit, every nesting and every byte string:

* `ScanBatchLimitExact`: `BatchLimitExact`, from `ScanInv`;
* `ScanElementsCompose`: `ElementsCompose`, from `ComposeInv`;
* `ScanSplitMatchesJSON`: `SplitMatchesJSON`, from `GrammarInv` and `FollowInv`;
* `ScanSilenceIsExact`: `SilenceIsExact`, from `GrammarInv` and `ReadInv`.

`ScanInv` relates the two loops that count. Until `approxBatchLen` returns early
they are in step: one level of depth apart, in the same string state, with the same
count, and `seen` where an element is open or has ended (`InStep`). After it returned,
its count is over the limit and no more than the other will find (`Ahead`). And
whatever is inside a string or a bracket is inside an open element (`Open`), without
which a payload might end with a `seen` the other does not count.

`ComposeInv` relates the scan for ids of a whole array to that of its current element
alone: they have given up together, or are at the same place, at the same key, and will
make the same of what follows (`Twins`). The key position matters inside an
element only, where both have set it.

Neither needs JSON: a payload that is malformed but splits is counted exactly and
composes too. The other two speak of JSON text and need what the grammar guarantees
(`GrammarInv`): brackets match from the first byte on, what may come next fits the
innermost one, and a key is a string the grammar wants as one. The lemmas
`JsonOutside` and `JsonInside` cut the grammar's step into a few moves (push, pop, comma,
colon, quote), after which each scanner is compared move by move. `FollowInv`:
`splitBatchElements` is where the grammar is, and every element the grammar counts is
one it has cut off or has open. `ReadInv`: `lacksResponseID` has given up for one of the
three reasons it has, or knows what the grammar knows.

### Registry

For any number of writers, requests, names, codes and values:

* `RegistryImplementsSpec`: `AtomicRegistry`, the refinement of `RegistrySpec`;
* `RegistryComposedInStep`: `ComposedInStep`;
* `RegistrySnapshotsAreImmutable`: the action property `SnapshotsAreImmutable`.

The assumptions: the reserved names are names, the predefined codes are codes, a
change has a name or code of the right kind, no value is the default one
(a registered handler differs from none), and no writer is also a request.

`IInv` adds to `TypeOK`: `PlaceInv` (who holds `j.mu` is between `Acquire` and `Store`), `CloneInv`
(a clone refers to none of the maps a request can reach, `composed`
included), `StepInv` (every reachable snapshot is in step, not only the published one),
`ChangeInv` (a clone reads as the published configuration until it is mutated and as
the abstract change of it afterwards) and `AnswerInv` (what a request has found is what
its snapshot says). `CloneInv` is what makes the rest stable: writes to a clone's maps change
nothing the mapping follows. In the refinement `Store` is the abstract change,
`MutateRefuses` the refusal, `ComposePanics` the panicking factory, `Load` the look at the
registry and `LookupError` the answer; every other step is a stutter.

### StdioClient

For any number of calls and notifications, any bound on frames and any frames of
the peer in which a request carries neither result nor error:

* `StdioClientCorrelated`, `StdioClientSendNeverBlocks`,
  `StdioClientPartialFrameIsLast`, `StdioClientNoPendingLeak`: the properties of these names;
* `StdioClientNothingSentAfterClose`: the action property.

The set of calls is finite and disjoint from the notifications. `IInv`: `DrawInv`
(ids drawn are distinct), `LockInv` (the mutex is held from the first byte of a
frame until the write is over, and a writer that is not latched has
written only whole frames), `OnceInv` (whoever shuts down has latched the writer, one
goroutine is inside the `Once`), `MapInv` (a call in the map is there under its own
id, has been told nothing, and is under way or about to be dropped), `DeliveryInv`
(what the read loop took and what is in a channel answers the call it is for). The
delicate case is the call that registers after the map was dropped: it sees `closed`
first, because `CloseClosed` comes before `FailPending`.

### StdioServe

For any number of messages and pushers and any limit:

* `StdioServeResult`: `ResultIsTruthful`;
* `StdioServeOrder`: `RepliesInOrder`;
* `StdioServeOrderlyShutdown`: `OrderlyShutdownRepliesAll`;
* `StdioServeTypeOK`: `TypeOK`.

`IInv`: `SlotInv` (with a limit of one the message in flight is the one read last, on
Serve's own goroutine; otherwise the tokens are the messages in flight), `MainInv` (after
the drain no message is in flight, after the latch nobody is in a frame), `LockInv`, `WireInv`
(a reply owed by a finished message is on the wire unless a write failed)
and `EndInv` (Serve leaves for a reason that still holds when it chooses its result). The
last is why the order of the deferred exit matters: the writer is latched
before the result is chosen, so no failure can come after it.

### WsClient

For any number of callers, any plans, any bounds and any frames in which a request
carries neither result nor error:

* `WsClientResultsAlign`: `ResultsAlign`;
* `WsClientNoPendingLeak`: `NoPendingLeak`;
* `WsClientAnswersDelivered`: the action property `AnswersDelivered`.

`IInv`: `DrawnInv` and `FreshInv` (an id belongs to one caller and means nothing to
the client before that caller registers it), `ChanInv`, `ResultInv`, `ReaderInv`, `OnceInv`
(the map is dropped only when the connection is down), `LeakInv` (an id in the map
belongs to a caller that is under way, or to one that has returned while the shutdown
that drops the map is running) and `OwedInv`. `OwedInv` carries `AnswersDelivered`: each response
the bound lets the scan come to has a caller, and it lies ahead with its id in the map,
or is on its way to the channel, or it is there, was taken, or its caller gave up or
the client was closed (`Fate`). Being the first with its id is what keeps an earlier entry of the
frame from taking its place, and an id that was in the map cannot be registered again. The bound on
ids, `MaxSeq`, is in the guard of `DrawID`: a call that would draw beyond it stops.

### WsServe

For any number of messages and pushers and any limit:

* `WsServeInFlightBound`: `InFlightBound`;
* `WsServeLostReply`: `LostReplyMeansTeardown`;
* `WsServeNothingAfterFailure`: the action property `NothingAfterFailure`.

`IInv`: `PlaceInv`, `LockInv` (the mutex is held across a write and the teardown after it),
`WireInv` (a frame on the wire is of a writer that has finished, once; a reply that is
not there was lost with the connection).

### Framing

In `WireProofs`, for any messages, any limit, header cap and buffer, any number of frames,
every cut of the stream and every way the reads fall:

* `FramingFramesAreMessages`: `FramesAreMessages`;
* `FramingEndIsTruthful`: `EndIsTruthful`;
* `FramingLimitExact`: `LimitExact`;
* `FramingInvariant`: the invariant they follow from.

The assumptions: a message starts with a brace and its length is one a header can
tell; the limits are positive; a foreign header is one line, does not start with a byte
order mark, and announces no length beyond the limit. Without the last a message that
fits would be refused for a length that is not its own, as the code should, and
`LimitExact` would be false of it.

None of the three properties says where the reader stands, and each depends on it: a
reader one byte off would take every later message apart. The invariant, `FramingInv`, says
where it stands, for `b` which is 1 if the stream began with the mark and 0 if not:

* `Layout(b)`: what the bytes of the stream are, frame by frame, as far as a cut has left
  them;
* `Position(b)`: with the same framing on both sides, the reader is between two frames,
  after a foreign header, after the length or before the body (`InBlock`), or is in a line of
  which `acc` has the first part (`InLine`), and has returned the messages before. With two
  framings (`Mistaken`) it has returned nothing, or what it read did not start with a
  length (`NoLengthFirst`). If the cut took the mark itself there is nothing at all
  (`NothingLeft`);
* `FailureInv(b)`: the end was told at the end of the stream, between frames or inside one
  as it said, and the limit was told of a message that exceeds it;
* `FramesFit`, `FreshReader` and the types.

`Layout` holds up to the cut only, so a step of the reader is argued from the bytes it has:
`LineAhead` says what a `ReadSlice` makes of a line that is known up to its end,
`AccSlice` that several of them add up to the line, `BlockStep` that a header line or a body
moves the reader to the next of its four places. A carriage return is why the
check of the limit is made twice: the first leaves two bytes of slack for a line end that may
not be there, and only the second, on the trimmed line, is exact. What a compacted message
is follows from `KeptExists`, as below.

### Http

In `WireProofs` too, for every set of operations, every limit and every answer of a gateway that is an
HTTP answer at all (a status and a body of entries):

* `HttpResultsLineUp`: `ResultsLineUp`;
* `HttpHandlerIsUnderstood`: `HandlerIsUnderstood`.

`IInv`: `IdsInv` (`MarshalBatch` numbers the calls of a batch with distinct ids and
leaves the notifications without), `ReplyInv` (what the handler replied is a function of
the request), `WaitInv`, and `ScanningInv`, the invariant of the scan: a call is awaited as
long as no entry read had its id, and afterwards has what the first of them
said. That the bound on the scan never cuts off an answer of the handler's follows from
`HandlerReplies`: it has no more entries than the request. An entry for an invalid
notification has the id null, which is no id the client draws. The loop that drops
the requests without a response is a recursive function of the request's
length, like the one of `Compact`; the lemmas `KeptExists` and `KeptIs` say that it ends
and what it keeps, by a least counterexample (`LeastNumber`, from the well-foundedness of
the naturals).

### Only model-checked

* Liveness, which is out of the proof system's reach: `CallReturns` and
  the other temporal properties under fairness of `Dispatch`, `StdioClient`, `StdioServe` and
  `WsServe`. `LossReleasesEveryone` of `WsClient` is an invariant, but says ENABLED, which
  is out of reach too.
* The four properties that runs find violated (section 4).

## 6. Not modelled

* fiber adapters: they hand a body to the dispatcher.
* the HTTP handler's 405, 415 and 400 answers, which its client never draws, and
  the options of every transport, which only set the constants of the models.
* `MarshalParams`, `CallResult`, `BatchResultAs`, typed handlers, OpenRPC: conversions
  of one value without control or shared state.
* JSON codecs: generated or thin; ids are modelled by what they put on the wire,
  objects by whether they decode.
* examples and benchmarks: not part of the library.

## 7. What could come next

`StdioClient` and `WsClient` as implementations of one abstract client (a call is
answered, refused or abandoned, once).
