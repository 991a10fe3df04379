---------------------------- MODULE RegistrySpec ----------------------------
(***************************************************************************)
(* What the configuration of a JSONRPC value promises: every setter,       *)
(* registration and Use takes effect at once and as a whole, or not at     *)
(* all, and a request sees one configuration from beginning to end.        *)
(***************************************************************************)
EXTENDS RegistryOps

VARIABLES
    op,       \* per writer: the change it asks for
    ask,      \* per reader: the method and code of its request
    reg,      \* the configuration
    outcome,  \* per writer: how its call ended
    snap,     \* per reader: the configuration it loaded, if any
    answer    \* per reader: what it found in it

vars == <<op, ask, reg, outcome, snap, answer>>

Init ==
    /\ op \in [Writers -> Ops]
    /\ ask \in [Readers -> [name: Names, code: Codes]]
    /\ reg = Initial
    /\ outcome = [w \in Writers |-> "pending"]
    /\ snap = [r \in Readers |-> NotLoaded]
    /\ answer = [r \in Readers |-> NoAnswer]

changed(o, g) ==
    CASE o.kind = "method" ->
            [g EXCEPT !.methods[o.key] = <<o.value>>, !.info[o.key] = o.value]
      [] o.kind = "error" -> [g EXCEPT !.errors[o.key] = TRUE]
      [] o.kind = "use" -> [g EXCEPT !.middlewares = Append(@, o.value)]
      [] o.kind = "interceptor" -> [g EXCEPT !.interceptors = Append(@, o.value)]
      [] o.kind = "setting" -> [g EXCEPT !.settings[o.key] = o.value]

(* The first middleware registered is the outermost. *)
chain(middlewares, handler) ==
    IF handler = << >> THEN << >> ELSE middlewares \o handler

Change(w) ==
    /\ outcome[w] = "pending"
    /\ ~refused(op[w], reg)
    /\ reg' = changed(op[w], reg)
    /\ outcome' = [outcome EXCEPT ![w] = "ok"]
    /\ UNCHANGED <<op, ask, snap, answer>>

Refuse(w) ==
    /\ outcome[w] = "pending"
    /\ refused(op[w], reg)
    /\ outcome' = [outcome EXCEPT ![w] = "error"]
    /\ UNCHANGED <<op, ask, reg, snap, answer>>

(* A middleware factory panics into the call that made it run. *)
FactoryPanics(w) ==
    /\ outcome[w] = "pending"
    /\ recomposes(op[w])
    /\ ~refused(op[w], reg)
    /\ outcome' = [outcome EXCEPT ![w] = "panic"]
    /\ UNCHANGED <<op, ask, reg, snap, answer>>

Load(r) ==
    /\ ~snap[r].loaded
    /\ snap' = [snap EXCEPT ![r] = [loaded |-> TRUE, reg |-> reg]]
    /\ UNCHANGED <<op, ask, reg, outcome, answer>>

Answer(r) ==
    /\ snap[r].loaded
    /\ ~answer[r].given
    /\ LET g == snap[r].reg
           q == ask[r]
       IN  answer' = [answer EXCEPT ![r] =
                        [given |-> TRUE, info |-> g.info[q.name],
                         chain |-> chain(g.middlewares, g.methods[q.name]),
                         known |-> g.errors[q.code]]]
    /\ UNCHANGED <<op, ask, reg, outcome, snap>>

Next ==
    \/ \E w \in Writers : Change(w) \/ Refuse(w) \/ FactoryPanics(w)
    \/ \E r \in Readers : Load(r) \/ Answer(r)

Spec == Init /\ [][Next]_vars
=============================================================================
