---------------------------- MODULE RegistryOps ----------------------------
(* The configuration of a JSONRPC value: its parts, what New() puts there, *)
(* and the changes that are refused.                                       *)
EXTENDS Sequences

CONSTANTS
    Writers,      \* goroutines that change the configuration once
    Readers,      \* goroutines that dispatch one request
    Ops,          \* the changes a writer may ask for
    Names,        \* method names
    Reserved,     \* those with the "rpc." prefix, rpc.discover excepted
    Codes,        \* error codes
    Predefined,   \* the codes New() registers
    Settings,     \* the scalar fields of config
    Values        \* handlers, middleware, interceptors and settings

Default == "default"
Kinds == {"method", "use", "error", "interceptor", "setting"}
Op == [kind: Kinds, key: Names \cup Codes \cup Settings \cup {Default}, value: Values]

ASSUME NamesAssumption == Reserved \subseteq Names
ASSUME CodesAssumption == Predefined \subseteq Codes
ASSUME ValuesAssumption == Default \notin Values
ASSUME OpsAssumption ==
    /\ Ops \subseteq Op
    /\ \A o \in Ops : /\ o.kind = "method" => o.key \in Names
                      /\ o.kind = "error" => o.key \in Codes
                      /\ o.kind = "setting" => o.key \in Settings

(* No handler is << >>, a handler h is << h >>. *)
Initial ==
    [methods |-> [n \in Names |-> << >>],
     info |-> [n \in Names |-> Default],
     errors |-> [c \in Codes |-> c \in Predefined],
     middlewares |-> << >>,
     interceptors |-> << >>,
     settings |-> [s \in Settings |-> Default]]

NotLoaded == [loaded |-> FALSE, reg |-> Initial]
NoAnswer == [given |-> FALSE, info |-> Default, chain |-> << >>, known |-> FALSE]

(* registerMethod and RegisterError refuse a name or code already there. *)
refused(o, g) ==
    \/ o.kind = "method" /\ (o.key \in Reserved \/ g.methods[o.key] # << >>)
    \/ o.kind = "error" /\ g.errors[o.key]

(* Fault: Use does not rebuild the dispatch map. *)
Mut_recomposes(o) == o.kind = "method"

(* The changes that rebuild the dispatch map, running the factories. *)
recomposes(o) == o.kind \in {"method", "use"}
=============================================================================
