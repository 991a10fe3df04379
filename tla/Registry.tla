------------------------------ MODULE Registry ------------------------------
(***************************************************************************)
(* The copy-on-write configuration (main.go, methods.go, middleware.go,    *)
(* error.go): writers clone the current snapshot under j.mu, change the    *)
(* clone, recompose the dispatch map and publish it with one atomic store; *)
(* readers load the pointer once and follow the maps it refers to.         *)
(*                                                                         *)
(* Go maps are shared by reference, so they live in a heap and a config    *)
(* holds their addresses.  "composed" is the methods map itself as long as *)
(* there is no middleware.  Slices are copied by clone and are values.     *)
(***************************************************************************)
EXTENDS RegistryOps, Integers

CONSTANT Nobody   \* no writer holds j.mu

VARIABLES
    op,       \* per writer: the change it asks for
    ask,      \* per reader: the method and code of its request
    heap,     \* the maps, by kind and address
    cfg,      \* j.cfg: the published snapshot
    lock,     \* the holder of j.mu
    pc,       \* per writer and reader: where it is
    next,     \* per writer: its clone
    outcome,  \* per writer: how its call ended
    held,     \* per reader: the snapshot it loaded
    answer    \* per reader: what it found so far

vars == <<op, ask, heap, cfg, lock, pc, next, outcome, held, answer>>

ASSUME ThreadsAssumption == Writers \cap Readers = {} /\ Nobody \notin Writers

(* New: the predefined errors; composed is a map of its own, also empty. *)
InitialHeap ==
    [errors |-> << Initial.errors >>,
     methods |-> << Initial.methods, Initial.methods >>,
     info |-> << Initial.info >>]

InitialConfig ==
    [errors |-> 1, methods |-> 1, composed |-> 2, info |-> 1,
     middlewares |-> << >>, interceptors |-> << >>,
     settings |-> Initial.settings]

Init ==
    /\ op \in [Writers -> Ops]
    /\ ask \in [Readers -> [name: Names, code: Codes]]
    /\ heap = InitialHeap
    /\ cfg = InitialConfig
    /\ lock = Nobody
    /\ pc = [t \in Writers \cup Readers |-> "start"]
    /\ next = [w \in Writers |-> InitialConfig]
    /\ outcome = [w \in Writers |-> "pending"]
    /\ held = [r \in Readers |-> InitialConfig]
    /\ answer = [r \in Readers |-> NoAnswer]

goto(t, label) == pc' = [pc EXCEPT ![t] = label]

(***************************************************************************)
(* update, under j.mu.                                                     *)
(***************************************************************************)

(* Fault: writers do not exclude each other. *)
Mut_mutexFree == TRUE

mutexFree == lock = Nobody

Acquire(w) ==
    /\ pc[w] = "start"
    /\ mutexFree
    /\ lock' = w
    /\ goto(w, "clone")
    /\ UNCHANGED <<op, ask, heap, cfg, next, outcome, held, answer>>

(* Fault: the clone shares the map of methods with the snapshot. *)
Mut_methodsOfClone == cfg.methods

methodsOfClone == Len(heap.methods) + 1

(* clone: errors, methods and methodInfo are copied to new maps; composed  *)
(* is carried over.                                                        *)
Clone(w) ==
    /\ pc[w] = "clone"
    /\ next' = [next EXCEPT ![w] = [cfg EXCEPT !.errors = Len(heap.errors) + 1,
                                               !.methods = methodsOfClone,
                                               !.info = Len(heap.info) + 1]]
    /\ heap' = [errors |-> Append(heap.errors, heap.errors[cfg.errors]),
                methods |-> Append(heap.methods, heap.methods[cfg.methods]),
                info |-> Append(heap.info, heap.info[cfg.info])]
    /\ goto(w, "mutate")
    /\ UNCHANGED <<op, ask, cfg, lock, outcome, held, answer>>

(* A config with the maps it refers to. *)
deref(c, h) ==
    [methods |-> h.methods[c.methods], info |-> h.info[c.info],
     errors |-> h.errors[c.errors], middlewares |-> c.middlewares,
     interceptors |-> c.interceptors, settings |-> c.settings]

leave(w, o) ==
    /\ outcome' = [outcome EXCEPT ![w] = o]
    /\ lock' = Nobody
    /\ goto(w, "done")

(* mutate returned an error: nothing is published. *)
MutateRefuses(w) ==
    /\ pc[w] = "mutate"
    /\ refused(op[w], deref(next[w], heap))
    /\ leave(w, "error")
    /\ UNCHANGED <<op, ask, heap, cfg, next, held, answer>>

(* The map entries a change writes, in the maps of the clone. *)
MutateMaps(w) ==
    /\ pc[w] = "mutate"
    /\ ~refused(op[w], deref(next[w], heap))
    /\ LET o == op[w]
           c == next[w]
       IN  \/ /\ o.kind = "method"
              /\ heap' = [heap EXCEPT !.methods[c.methods][o.key] = <<o.value>>,
                                      !.info[c.info][o.key] = o.value]
           \/ /\ o.kind = "error"
              /\ heap' = [heap EXCEPT !.errors[c.errors][o.key] = TRUE]
    /\ goto(w, IF recomposes(op[w]) THEN "compose" ELSE "store")
    /\ UNCHANGED <<op, ask, cfg, lock, next, outcome, held, answer>>

(* The fields a change sets in the clone itself. *)
MutateFields(w) ==
    /\ pc[w] = "mutate"
    /\ LET o == op[w] IN
       \/ /\ o.kind = "use"
          /\ next' = [next EXCEPT ![w].middlewares = Append(@, o.value)]
       \/ /\ o.kind = "interceptor"
          /\ next' = [next EXCEPT ![w].interceptors = Append(@, o.value)]
       \/ /\ o.kind = "setting"
          /\ next' = [next EXCEPT ![w].settings[o.key] = o.value]
    /\ goto(w, IF recomposes(op[w]) THEN "compose" ELSE "store")
    /\ UNCHANGED <<op, ask, heap, cfg, lock, outcome, held, answer>>

(* compose wraps from the last middleware inwards to the first outside. *)
wrapped(middlewares, handler) ==
    IF handler = << >> THEN << >> ELSE middlewares \o handler

ComposeNothing(w) ==
    /\ pc[w] = "compose"
    /\ next[w].middlewares = << >>
    /\ next' = [next EXCEPT ![w].composed = next[w].methods]
    /\ goto(w, "store")
    /\ UNCHANGED <<op, ask, heap, cfg, lock, outcome, held, answer>>

Compose(w) ==
    /\ pc[w] = "compose"
    /\ next[w].middlewares # << >>
    /\ LET methods == heap.methods[next[w].methods] IN
       heap' = [heap EXCEPT !.methods =
                  Append(@, [n \in Names |-> wrapped(next[w].middlewares, methods[n])])]
    /\ next' = [next EXCEPT ![w].composed = Len(heap.methods) + 1]
    /\ goto(w, "store")
    /\ UNCHANGED <<op, ask, cfg, lock, outcome, held, answer>>

(* A factory panics; the deferred Unlock runs and nothing is published. *)
ComposePanics(w) ==
    /\ pc[w] = "compose"
    /\ next[w].middlewares # << >>
    /\ \E n \in Names : heap.methods[next[w].methods][n] # << >>
    /\ leave(w, "panic")
    /\ UNCHANGED <<op, ask, heap, cfg, next, held, answer>>

Store(w) ==
    /\ pc[w] = "store"
    /\ cfg' = next[w]
    /\ leave(w, "ok")
    /\ UNCHANGED <<op, ask, heap, next, held, answer>>

(***************************************************************************)
(* A request: j.cfg.Load() once, then the maps of that snapshot.           *)
(***************************************************************************)
Load(r) ==
    /\ pc[r] = "start"
    /\ held' = [held EXCEPT ![r] = cfg]
    /\ goto(r, "info")
    /\ UNCHANGED <<op, ask, heap, cfg, lock, next, outcome, answer>>

(* dispatch: the timeout of the method. *)
LookupInfo(r) ==
    /\ pc[r] = "info"
    /\ answer' = [answer EXCEPT ![r].info = heap.info[held[r].info][ask[r].name]]
    /\ goto(r, "method")
    /\ UNCHANGED <<op, ask, heap, cfg, lock, next, outcome, held>>

(* call: the wrapped handler. *)
LookupMethod(r) ==
    /\ pc[r] = "method"
    /\ answer' = [answer EXCEPT ![r].chain = heap.methods[held[r].composed][ask[r].name]]
    /\ goto(r, "error")
    /\ UNCHANGED <<op, ask, heap, cfg, lock, next, outcome, held>>

(* errorResponse: whether the code is registered. *)
LookupError(r) ==
    /\ pc[r] = "error"
    /\ answer' = [answer EXCEPT ![r].known = heap.errors[held[r].errors][ask[r].code],
                                ![r].given = TRUE]
    /\ goto(r, "done")
    /\ UNCHANGED <<op, ask, heap, cfg, lock, next, outcome, held>>

Done ==
    /\ \A t \in Writers \cup Readers : pc[t] = "done"
    /\ UNCHANGED vars

update(w) ==
    \/ Acquire(w) \/ Clone(w) \/ MutateRefuses(w) \/ MutateMaps(w) \/ MutateFields(w)
    \/ ComposeNothing(w) \/ Compose(w) \/ ComposePanics(w) \/ Store(w)

Next ==
    \/ \E w \in Writers : update(w)
    \/ \E r \in Readers : Load(r) \/ LookupInfo(r) \/ LookupMethod(r) \/ LookupError(r)
    \/ Done

Spec == Init /\ [][Next]_vars

(***************************************************************************)
(* Properties.                                                             *)
(***************************************************************************)
Config == [errors: 1 .. Len(heap.errors), methods: 1 .. Len(heap.methods),
           composed: 1 .. Len(heap.methods), info: 1 .. Len(heap.info),
           middlewares: Seq(Values), interceptors: Seq(Values),
           settings: [Settings -> Values \cup {Default}]]

(* Every variable has its type: no config refers to a map that does not    *)
(* exist.                                                                  *)
TypeOK ==
    /\ op \in [Writers -> Ops]
    /\ ask \in [Readers -> [name: Names, code: Codes]]
    /\ heap \in [errors: Seq([Codes -> BOOLEAN]),
                 methods: Seq([Names -> Seq(Values)]),
                 info: Seq([Names -> Values \cup {Default}])]
    /\ cfg \in Config
    /\ lock \in Writers \cup {Nobody}
    /\ pc \in [Writers \cup Readers ->
                 {"start", "clone", "mutate", "compose", "store", "info",
                  "method", "error", "done"}]
    /\ next \in [Writers -> Config]
    /\ outcome \in [Writers -> {"pending", "ok", "error", "panic"}]
    /\ held \in [Readers -> Config]
    /\ answer \in [Readers -> [given: BOOLEAN, info: Values \cup {Default},
                               chain: Seq(Values), known: BOOLEAN]]

(* The refinement mapping: follow the addresses. *)
A == INSTANCE RegistrySpec WITH
        reg <- deref(cfg, heap),
        snap <- [r \in Readers |->
                   IF pc[r] = "start" THEN NotLoaded
                   ELSE [loaded |-> TRUE, reg |-> deref(held[r], heap)]],
        answer <- [r \in Readers |-> IF answer[r].given THEN answer[r] ELSE NoAnswer]

published == {cfg} \cup {held[r] : r \in Readers}

(* config: "an immutable snapshot ... safe to mutate without affecting the *)
(* snapshot readers hold": no step changes a map that the published        *)
(* snapshot or one a request loaded refers to.                             *)
SnapshotsAreImmutable ==
    [][\A c \in published :
          /\ heap'.errors[c.errors] = heap.errors[c.errors]
          /\ heap'.methods[c.methods] = heap.methods[c.methods]
          /\ heap'.methods[c.composed] = heap.methods[c.composed]
          /\ heap'.info[c.info] = heap.info[c.info]]_vars

(* registerMethod: "Both maps are kept in lockstep".  The published        *)
(* dispatch map is the methods map wrapped in the published middleware,    *)
(* through setters that carry it over and registrations that rebuild it.   *)
ComposedInStep ==
    \A n \in Names :
        /\ heap.methods[cfg.composed][n] =
              A!chain(cfg.middlewares, heap.methods[cfg.methods][n])
        /\ heap.methods[cfg.methods][n] # << >> <=> heap.info[cfg.info][n] # Default

(* Changes are atomic, none is lost, a failed one leaves no trace, and a   *)
(* request sees one configuration: the copy-on-write registry implements   *)
(* RegistrySpec.                                                           *)
AtomicRegistry == A!Spec
=============================================================================
