------------------------------- MODULE MCWire -------------------------------
(* A small instance of what the bytes of a peer go through: the framings   *)
(* of a pipe, the scanners of a payload, the dispatch of one message, the  *)
(* HTTP exchange.  A behaviour is one of one of them; the others stay      *)
(* where they started.  A decoder may stop, the dispatcher must not.       *)
EXTENDS MCDispatch, Scan, Framing, Http

VARIABLE active

Text(n) == <<Brace>> \o [k \in 1 .. n - 1 |-> "x"]
Message(bytes) == [bytes |-> bytes, json |-> TRUE]
(* As long as the limit, longer by one and by two; with a carriage return  *)
(* at its end, that a line loses and a body keeps; with a line end inside, *)
(* that can and cannot be compacted.                                       *)
MCMessages ==
    {Message(Text(n)) : n \in {5, 6, 7}}
    \cup {Message(<<Brace, CR>>), Message(Append(Text(5), CR)),
          Message(<<Brace, LF, "x">>), [bytes |-> <<Brace, LF, "x">>, json |-> FALSE]}
(* Another header, the same but one byte too many for the block, no        *)
(* header, a second length, no length, one that is no number.              *)
MCNoise == {<<"x", Colon, CR, LF>>, <<"x", Colon, "x", CR, LF>>, <<"x", LF>>,
            header(1), <<CR, LF>>, ContentLength \o <<"x", LF>>}

Asks(runs) == [notify |-> FALSE, runs |-> runs]
Tells(runs) == [notify |-> TRUE, runs |-> runs]
Of(kind, specs) == [kind |-> kind, specs |-> specs]
Calls(n) == [i \in 1 .. n |-> Asks("result")]
MCOps ==
    {Of("call", <<Asks(r)>>) : r \in {"result", "error", "invalid"}}
    \cup {Of("notify", <<Tells(r)>>) : r \in {"result", "invalid"}}
    \cup {Of("batch", s) : s \in SeqOf({Asks("result"), Asks("error"),
                                       Tells("result"), Tells("invalid")}, 2)}
    \cup {Of("batch", <<Asks("result"), Tells("invalid"), Asks("error")>>),
          Of("batch", <<Tells("invalid"), Tells("result"), Asks("result")>>),
          Of("batch", [i \in 1 .. 4 |-> Tells("result")])}
    \cup {Of("batch", Calls(n)) : n \in 3 .. 6}

Returns(shape, es) == [status |-> 200, body |-> [shape |-> shape, entries |-> es]]
Entry(id) == [id |-> id, out |-> "result"]
Failed(id) == [id |-> id, out |-> "error"]
SomeEntries == {Entry(NullNumber), Entry(1), Failed(1), Entry(2)}
MCReplies ==
    {Returns("array", s) : s \in SeqOf(SomeEntries, 2)}
    \cup {Returns("array", <<Entry(NullNumber), Entry(1), Entry(2)>>),
          Returns("array", <<Entry(2), Entry(1), Failed(1)>>),
          Returns("array", <<Entry(NullNumber), Entry(NullNumber), Entry(1)>>)}
    \cup {Returns("object", <<Entry(NoNumber)>>), Returns("object", <<Entry(2)>>),
          Returns("empty", << >>), Returns("junk", << >>),
          [Returns("junk", << >>) EXCEPT !.status = 502]}

decoderVars == <<scanVars, framingVars, httpVars>>

WireInit ==
    /\ active \in {"framing", "scanners", "dispatch", "http"}
    /\ Init /\ ScanInit /\ FramingInit /\ HttpInit
    /\ active # "dispatch" => payload = Object(Request("a")) /\ cfg = Cfg(FALSE, 1, 0)
    /\ active # "scanners" => form = "lbracket"
    /\ active # "framing" =>
          writerFraming = "ndjson" /\ readerFraming = "ndjson" /\ stream = << >>

DecodersNext ==
    \/ active = "framing" /\ FramingNext /\ UNCHANGED <<scanVars, httpVars>>
    \/ active = "scanners" /\ ScanNext /\ UNCHANGED <<framingVars, httpVars>>
    \/ active = "http" /\ HttpNext /\ UNCHANGED <<scanVars, framingVars>>
    \/ active # "dispatch" /\ UNCHANGED decoderVars

WireNext ==
    /\ UNCHANGED active
    /\ \/ active = "dispatch" /\ Next /\ UNCHANGED decoderVars
       \/ DecodersNext /\ UNCHANGED vars

WireSpec == WireInit /\ [][WireNext]_<<active, vars, decoderVars>>
=============================================================================
