----------------------------- MODULE MCDispatch -----------------------------
(* Small instances of Dispatch for TLC. *)
EXTENDS Dispatch

MCIds == {"a", "b"}
MCMethods == {"m", "unknown"}
AllErrors == {ParseErrorCode, InvalidRequestErrorCode, MethodNotFoundErrorCode,
              InternalErrorCode, RequestTimeLimit, 7}

Request(id) == [kind |-> "request", version |-> TRUE, method |-> "m", id |-> id,
                seen |-> IF id = NoID THEN "noid" ELSE "loud"]
(* A notification whose keys the scan cannot read: one is escaped. *)
Escaped == [Request(NoID) EXCEPT !.seen = "loud"]
Scalar == [kind |-> "scalar", version |-> FALSE, method |-> NoMethod, id |-> NoID,
           seen |-> "loud"]
AString == [Scalar EXCEPT !.seen = "skipped"]
Null == [Scalar EXCEPT !.kind = "request"]
(* An object that does not decode, such as one whose method is a number. *)
Undecodable(id) == [Request(id) EXCEPT !.kind = "scalar"]
Garbage == [Scalar EXCEPT !.kind = "garbage"]
(* Not JSON, but the scan takes it for an object without an id. *)
QuietGarbage == [Garbage EXCEPT !.seen = "noid"]
BadVersion(id) == [Request(id) EXCEPT !.version = FALSE]
Unknown(id) == [Request(id) EXCEPT !.method = "unknown"]
Nameless == [Request("a") EXCEPT !.method = NoMethod]

Array(elems) == [over |-> FALSE, form |-> "array", balanced |-> TRUE,
                 valid |-> \A k \in DOMAIN elems : elems[k].kind # "garbage",
                 quiet |-> FALSE, elems |-> elems]
Object(e) == [Array(<<e>>) EXCEPT !.form = "object"]
Oversized(p) == [p EXCEPT !.over = TRUE]
Other(v) == [Array(<< >>) EXCEPT !.form = "other", !.valid = v, !.balanced = FALSE]
(* Brackets that do not match, a trailing comma. *)
Mismatched == [Other(FALSE) EXCEPT !.quiet = TRUE]
TrailingComma == [Mismatched EXCEPT !.form = "array"]

AllElements == {Request("a"), Request(NoID), Request(NullID), Request(BrokenID),
                Request(StructuredID), BadVersion(NoID), BadVersion("b"),
                Nameless, Unknown("a"), Unknown(NoID), Scalar, Garbage,
                Escaped, AString, Null, Undecodable("a"), Undecodable(NoID),
                QuietGarbage}
UpToTwo(S) == {<< >>} \cup {<<x>> : x \in S} \cup {<<x, y>> : x \in S, y \in S}

(* Every element kind, alone and in pairs, in every frame-level situation. *)
SomePayloads ==
    LET arrays == {Array(s) : s \in UpToTwo(AllElements)}
        objects == {Object(e) : e \in AllElements \ {Scalar, AString, Null}}
        both == arrays \cup objects
    IN  both \cup {Oversized(p) : p \in both}
        \cup {Other(TRUE), Other(FALSE), Mismatched, TrailingComma,
              Oversized(Mismatched), Oversized(TrailingComma),
              [Other(FALSE) EXCEPT !.form = "blank"],
              [Other(FALSE) EXCEPT !.form = "array"]}
(* A filter makes TLC compute the set once. *)
FramePayloads == {p \in SomePayloads : Len(p.elems) <= MaxEntries}

(* For the pool: a silent entry between two calls, a repeated id, an       *)
(* undecodable entry, a lone call and a lone notification; and one message *)
(* for each way of rejecting it.                                           *)
PoolPayloads ==
    {Array(<<Request("a"), Request(NoID), Request("b")>>),
     Array(<<Request("a"), Request("a")>>),
     Array(<<Scalar, Request("a")>>),
     Object(Request("a")), Object(Request(NoID))}
    \cup {Oversized(Object(Request(NoID))), Oversized(Array(<<Request("a")>>)),
          [Other(FALSE) EXCEPT !.form = "blank"], Other(TRUE), Mismatched,
          Array(<< >>), Array(<<Request("a"), Garbage>>)}

Cfg(enforced, conc, max) ==
    [enforced |-> enforced, concurrency |-> conc, maxBatch |-> max,
     methods |-> {"m"}, errors |-> AllErrors]

FrameConfigs == {Cfg(e, 1, m) : e \in BOOLEAN, m \in {0, 1}}
PoolConfigs == {Cfg(e, c, 0) : e \in BOOLEAN, c \in {1, 2}} \cup {Cfg(FALSE, 1, 1)}

Ok == [kind |-> "ok", code |-> OK, rpc |-> FALSE, rpcCode |-> OK, data |-> "none"]
Fail(code) == [Ok EXCEPT !.kind = "error", !.code = code]
Rpc(code, data) == [Ok EXCEPT !.kind = "error", !.code = 7, !.rpc = TRUE,
                              !.rpcCode = code, !.data = data]
Panic == [Ok EXCEPT !.kind = "panic"]
Handler(g) == [interceptors |-> Ok, method |-> g]

(* 7 is a registered application code, 8 an unregistered one. *)
FrameOutcomes ==
    {Handler(g) : g \in {Ok, Fail(7), Fail(8), Panic, Rpc(7, "good"),
                         Rpc(7, "bad"), Rpc(8, "bad")}}
    \cup {[interceptors |-> g, method |-> Ok] : g \in {Fail(7), Panic}}
PoolOutcomes == {Handler(Ok), Handler(Rpc(7, "bad"))}
OneOutcome == {Handler(Ok)}
=============================================================================
