-------------------------------- MODULE Scan --------------------------------
(***************************************************************************)
(* The three hand-written byte scanners of handle.go, run side by side     *)
(* over one payload: approxBatchLen and splitBatchElements, which must     *)
(* agree for the batch limit to hold, and lacksResponseID, which decides   *)
(* whether a rejection is answered.  A scanner is one loop over the bytes, *)
(* so one step here is one byte, taken by all of them.                     *)
(*                                                                         *)
(* The payload itself is not kept: a state stands for every payload that   *)
(* leads to it, whatever its length.  Beside the scanners runs the JSON    *)
(* grammar, which says what the payload really was.                        *)
(***************************************************************************)
EXTENDS Integers, Sequences

CONSTANTS
    Forms,         \* the first bytes the payload may have
    maxBatchSize,  \* the limit passed to approxBatchLen
    MaxDepth,      \* bound: how deep brackets nest
    MaxElements    \* bound: how many elements a batch has

ASSUME FormsAssumption == Forms \subseteq {"lbrace", "lbracket"}
ASSUME MaxBatchSizeAssumption == maxBatchSize \in Nat \ {0}
ASSUME BoundsAssumption == MaxDepth \in Nat /\ MaxElements \in Nat

(***************************************************************************)
(* The bytes the scanners tell apart.  "id" is the two letters, "u0069d"   *)
(* what spells them after a backslash, "literal" any other run of bytes;   *)
(* outside a string "literal" is a JSON number or name.                    *)
(***************************************************************************)
Openers == {"lbrace", "lbracket"}
Closers == {"rbrace", "rbracket"}
Others == {"id", "u0069d", "literal", "backslash"}
Bytes == Openers \cup Closers \cup Others \cup {"quote", "colon", "comma", "space"}

VARIABLES
    form,    \* the first byte (never changes)
    approx,  \* approxBatchLen
    split,   \* splitBatchElements, which skips the first and the last byte
    lacks,   \* lacksResponseID
    part,    \* lacksResponseID run on the current element alone
    parts,   \* what those runs said of the elements that have ended
    json     \* the grammar

scanVars == <<form, approx, split, lacks, part, parts, json>>

(* inString and escaped, kept the same way by all three loops. *)
StringStates == {"out", "in", "escaped"}
inString(str, b) ==
    IF str = "escaped" THEN "in"
    ELSE IF b = "backslash" THEN "escaped" ELSE IF b = "quote" THEN "out" ELSE "in"
opened(b) == IF b = "quote" THEN "in" ELSE "out"
nesting(b) == IF b \in Openers THEN 1 ELSE IF b \in Closers THEN -1 ELSE 0

(***************************************************************************)
(* approxBatchLen(data, limit).                                            *)
(***************************************************************************)
(* Fault: the comma of a nested array counts. *)
Mut_approxStep(s, b) ==
    IF s.early THEN s
    ELSE IF s.str # "out" THEN [s EXCEPT !.str = inString(@, b)]
    ELSE [depth |-> s.depth + nesting(b),
          str |-> opened(b),
          count |-> IF b = "comma" /\ s.depth >= 1 THEN s.count + 1 ELSE s.count,
          seen |-> s.seen \/ (s.depth = 1 /\ b \notin Closers \cup {"comma", "space"}),
          early |-> b = "comma" /\ s.depth = 1 /\ s.count + 2 > maxBatchSize]

approxStep(s, b) ==
    IF s.early THEN s
    ELSE IF s.str # "out" THEN [s EXCEPT !.str = inString(@, b)]
    ELSE [depth |-> s.depth + nesting(b),
          str |-> opened(b),
          count |-> IF b = "comma" /\ s.depth = 1 THEN s.count + 1 ELSE s.count,
          seen |-> s.seen \/ (s.depth = 1 /\ b \notin Closers \cup {"comma", "space"}),
          early |-> b = "comma" /\ s.depth = 1 /\ s.count + 2 > maxBatchSize]

approxBatchLen(s) == IF s.early \/ s.seen THEN s.count + 1 ELSE s.count

(***************************************************************************)
(* splitBatchElements(data): start is whether an element is open.          *)
(***************************************************************************)
Broken == [depth |-> 0, str |-> "out", elems |-> 0, start |-> FALSE, ok |-> FALSE]

(* Fault: an element is cut at every comma that is not in a string. *)
Mut_splitStep(s, b) ==
    IF ~s.ok THEN s
    ELSE IF s.str # "out" THEN [s EXCEPT !.str = inString(@, b)]
    ELSE IF (b \in Closers /\ s.depth = 0) \/ (b = "comma" /\ ~s.start) THEN Broken
    ELSE [depth |-> s.depth + nesting(b),
          str |-> opened(b),
          elems |-> IF b = "comma" THEN s.elems + 1 ELSE s.elems,
          start |-> b # "comma" /\ (s.start \/ b \notin Closers \cup {"space"}),
          ok |-> TRUE]

splitStep(s, b) ==
    IF ~s.ok THEN s
    ELSE IF s.str # "out" THEN [s EXCEPT !.str = inString(@, b)]
    ELSE IF s.depth = 0 /\ (b \in Closers \/ (b = "comma" /\ ~s.start)) THEN Broken
    ELSE [depth |-> s.depth + nesting(b),
          str |-> opened(b),
          elems |-> IF b = "comma" /\ s.depth = 0 THEN s.elems + 1 ELSE s.elems,
          start |-> IF b = "comma" /\ s.depth = 0 THEN FALSE
                    ELSE s.start \/ b \notin Closers \cup {"comma", "space"},
          ok |-> TRUE]

(* The two values the function returns: ok, and how many elements. *)
splitOk(s) ==
    s.ok /\ s.str = "out" /\ s.depth = 0 /\ (s.start \/ s.elems = 0)
splitLen(s) == IF s.start THEN s.elems + 1 ELSE s.elems

(***************************************************************************)
(* lacksResponseID(data).  quiet: the loop has not returned false.  key is *)
(* the text of the key being read: "empty" at its start, "noKey" outside.  *)
(***************************************************************************)
keyDepth(f) == IF f = "lbrace" THEN 1 ELSE 2
Answered == [depth |-> 0, str |-> "out", keyPos |-> FALSE, key |-> "noKey",
             escapes |-> FALSE, sawElement |-> FALSE, closed |-> FALSE, quiet |-> FALSE]

(* data[start:i] so far, of which only being "id" matters. *)
spelled(key, b) == IF key = "empty" /\ b = "id" THEN "id" ELSE "other"

(* Inside a string: a key that ends escaped, or as "id", stops the scan. *)
lacksInString(s, b) ==
    IF s.str = "in" /\ b = "quote"
    THEN IF s.key # "noKey" /\ (s.escapes \/ s.key = "id") THEN Answered
         ELSE [s EXCEPT !.str = "out", !.key = "noKey", !.escapes = FALSE]
    ELSE [s EXCEPT !.str = inString(@, b),
                   !.key = IF @ = "noKey" THEN @ ELSE spelled(@, b),
                   !.escapes = @ \/ (s.key # "noKey" /\ s.str = "in" /\ b = "backslash")]

(* Fault: a bare element is noticed only before the first object. *)
Mut_lacksStops(s, b, at) ==
    \/ s.closed
    \/ b \in Closers /\ s.depth = 0
    \/ at = 2 /\ s.depth = 1 /\ ~s.sawElement /\ b \in Others \cup {"lbracket"}

(* What makes the loop return false outside a string: bytes after the end, *)
(* one closer too many, an element that is not an object.  A string that   *)
(* is an element is not among them.                                        *)
lacksStops(s, b, at) ==
    \/ s.closed
    \/ b \in Closers /\ s.depth = 0
    \/ at = 2 /\ s.depth = 1 /\ b \in Others \cup {"lbracket"}

(* Fault: the brace that opens an element does not set keyPos. *)
Mut_keyPos(s, b, at) ==
    CASE b = "colon" /\ s.depth = at -> FALSE
      [] b = "comma" /\ s.depth = at -> TRUE
      [] OTHER -> s.keyPos

(* keyPos: a string read now at the objects' top level is a key. *)
keyPos(s, b, at) ==
    CASE b = "lbrace" /\ s.depth + 1 = at -> TRUE
      [] b = "colon" /\ s.depth = at -> FALSE
      [] b = "comma" /\ s.depth = at -> TRUE
      [] OTHER -> s.keyPos

lacksStep(s, b, at) ==
    IF ~s.quiet THEN s
    ELSE IF s.str # "out" THEN lacksInString(s, b)
    ELSE IF lacksStops(s, b, at) THEN Answered
    ELSE [s EXCEPT !.depth = @ + nesting(b),
                   !.str = opened(b),
                   !.keyPos = keyPos(s, b, at),
                   !.key = IF b = "quote" /\ s.depth = at /\ s.keyPos THEN "empty" ELSE @,
                   !.sawElement = @ \/ (b = "lbrace" /\ s.depth + 1 = at),
                   !.closed = b \in Closers /\ s.depth = 1]

lacksVerdict(s, at) ==
    s.quiet /\ s.closed /\ s.str = "out" /\ (at = 1 \/ s.sawElement)

(* After the first byte. *)
lacksFirst(f) ==
    [Answered EXCEPT !.depth = 1, !.quiet = TRUE, !.keyPos = f = "lbrace",
                     !.sawElement = f = "lbrace"]

(***************************************************************************)
(* The JSON grammar (external: the decoder the code hands the bytes to).   *)
(* want: what may come next.  ids: an element has a member named id, once  *)
(* decoded; escapes: one has a key written with an escape; has: what kinds *)
(* of element there are.                                                   *)
(***************************************************************************)
NotJSON == [stack |-> << >>, want |-> "nothing", str |-> "out", key |-> "noKey",
            elems |-> 0, ids |-> FALSE, escapes |-> FALSE, has |-> {}]

after(stack) == IF stack = << >> THEN "end" ELSE "more"
Top(stack) == IF stack = << >> THEN "none" ELSE stack[Len(stack)]
Pop(stack) == SubSeq(stack, 1, Len(stack) - 1)

(* What a key means so far: an escape may spell the same two letters. *)
decoded(key, str, b) ==
    IF key = "empty" /\ ((str = "in" /\ b = "id") \/ (str = "escaped" /\ b = "u0069d"))
    THEN "id" ELSE "other"

jsonInString(j, b) ==
    IF j.str = "in" /\ b = "quote"
    THEN [j EXCEPT !.str = "out", !.key = "noKey", !.ids = @ \/ j.key = "id",
                   !.want = IF @ = "value" THEN after(j.stack) ELSE "colon"]
    ELSE IF j.str = "in" /\ b = "backslash"
    THEN [j EXCEPT !.str = "escaped", !.escapes = @ \/ j.key # "noKey"]
    ELSE IF j.str = "escaped" /\ b \notin {"quote", "backslash", "u0069d"} THEN NotJSON
    ELSE [j EXCEPT !.str = "in",
                   !.key = IF @ = "noKey" THEN @ ELSE decoded(@, j.str, b)]

kindOf(b) == CASE b = "lbrace" -> "object" [] b = "quote" -> "string" [] OTHER -> "other"

(* A value starts: at the elements' depth it is an element. *)
jsonValue(j, b, at) ==
    LET e == IF Len(j.stack) = at - 1
             THEN [j EXCEPT !.elems = @ + 1, !.has = @ \cup {kindOf(b)}] ELSE j
    IN  CASE b = "quote" -> [e EXCEPT !.str = "in", !.want = "value"]
          [] b = "literal" -> [e EXCEPT !.want = after(e.stack)]
          [] b = "lbrace" -> [e EXCEPT !.stack = Append(@, b), !.want = "firstKey"]
          [] b = "lbracket" -> [e EXCEPT !.stack = Append(@, b), !.want = "firstValue"]

jsonStep(j, b, at) ==
    IF j.str # "out" THEN jsonInString(j, b)
    ELSE CASE b = "space" /\ j.want # "end" -> j
           [] j.want \in {"value", "firstValue"}
                /\ b \in Openers \cup {"quote", "literal"} -> jsonValue(j, b, at)
           [] j.want \in {"key", "firstKey"} /\ b = "quote" ->
                [j EXCEPT !.str = "in", !.want = "key",
                          !.key = IF Len(j.stack) = at THEN "empty" ELSE @]
           [] \/ b = "rbrace" /\ Top(j.stack) = "lbrace" /\ j.want \in {"firstKey", "more"}
              \/ b = "rbracket" /\ Top(j.stack) = "lbracket" /\ j.want \in {"firstValue", "more"} ->
                [j EXCEPT !.stack = Pop(@), !.want = after(Pop(j.stack))]
           [] b = "comma" /\ j.want = "more" ->
                [j EXCEPT !.want = IF Top(j.stack) = "lbrace" THEN "key" ELSE "value"]
           [] b = "colon" /\ j.want = "colon" -> [j EXCEPT !.want = "value"]
           [] OTHER -> NotJSON

jsonFirst(f) ==
    [NotJSON EXCEPT !.stack = <<f>>,
                    !.want = IF f = "lbrace" THEN "firstKey" ELSE "firstValue",
                    !.elems = IF f = "lbrace" THEN 1 ELSE 0,
                    !.has = IF f = "lbrace" THEN {"object"} ELSE {}]

(***************************************************************************)
(* One element of a batch, as module Dispatch records it: what the scan    *)
(* says of a batch that holds it alone.                                    *)
(***************************************************************************)
seen(s) ==
    LET whole == lacksStep(s, "rbracket", 2)
    IN  IF ~whole.quiet \/ ~whole.closed THEN "loud"
        ELSE IF whole.sawElement THEN "noid" ELSE "skipped"

elementEnds(b) == split.ok /\ split.str = "out" /\ split.depth = 0 /\ b = "comma"

(***************************************************************************)
(* The payload starts with f; every further byte goes to every scanner.    *)
(***************************************************************************)
ScanInit ==
    /\ form \in Forms
    /\ approx = [depth |-> 1, str |-> "out", count |-> 0, seen |-> FALSE, early |-> FALSE]
    /\ split = [Broken EXCEPT !.ok = form = "lbracket"]
    /\ lacks = lacksFirst(form)
    /\ part = lacksFirst("lbracket")
    /\ parts = {}
    /\ json = jsonFirst(form)

(* The bounds: on nesting, on elements. *)
WithinBounds ==
    /\ approx'.depth \in -1 .. MaxDepth
    /\ {split'.depth, lacks'.depth, Len(json'.stack)} \subseteq 0 .. MaxDepth
    /\ {approx'.count, split'.elems, json'.elems} \subseteq 0 .. MaxElements

Feed(b) ==
    /\ approx' = approxStep(approx, b)
    /\ split' = splitStep(split, b)
    /\ lacks' = lacksStep(lacks, b, keyDepth(form))
    /\ part' = IF elementEnds(b) \/ ~split'.ok THEN lacksFirst("lbracket")
               ELSE lacksStep(part, b, 2)
    /\ parts' = IF ~split'.ok THEN {}
                ELSE IF elementEnds(b) THEN parts \cup {seen(part)} ELSE parts
    /\ json' = jsonStep(json, b, keyDepth(form))
    /\ UNCHANGED form
    /\ WithinBounds

ScanNext == \E b \in Bytes : Feed(b)
ScanSpec == ScanInit /\ [][ScanNext]_scanVars

(***************************************************************************)
(* The payload that ends here, with the byte that closes its first one.    *)
(***************************************************************************)
closer == IF form = "lbrace" THEN "rbrace" ELSE "rbracket"
approxed == approxStep(approx, closer)
concluded == lacksStep(lacks, closer, keyDepth(form))
parsed == jsonStep(json, closer, keyDepth(form))
valid == parsed.want = "end"
silenced == lacksVerdict(concluded, keyDepth(form))
elementsSeen == IF split.start THEN parts \cup {seen(part)} ELSE parts

(* A batch that splits is counted exactly: no array gets past the limit    *)
(* with more elements than it allows, none is refused with fewer, whatever *)
(* its bytes (handle.go:70 against handle.go:86).                          *)
BatchLimitExact ==
    form = "lbracket" /\ splitOk(split) =>
        (approxBatchLen(approxed) > maxBatchSize <=> splitLen(split) > maxBatchSize)

(* Every JSON array splits, into its elements: a comma or a bracket inside *)
(* a string, or of a nested value, cuts nothing (handle.go:313).           *)
SplitMatchesJSON ==
    form = "lbracket" /\ valid => splitOk(split) /\ splitLen(split) = json.elems

(* Over a batch that splits, the scan is the sum of its elements: state    *)
(* left by one of them never changes what is made of the next              *)
(* (handle.go:212).                                                        *)
ElementsCompose ==
    form = "lbracket" /\ splitOk(split) =>
        (silenced <=> "loud" \notin elementsSeen /\ "noid" \in elementsSeen)

(* A rejection stays silent only if nobody could be waiting for it, no     *)
(* request in the payload having an id however its key is written; and     *)
(* requests without one stay unanswered whatever their values say, unless  *)
(* a key is escaped (handle.go:200).  Elements that are strings are        *)
(* passed over, which the comment there does not say.                      *)
SilenceIsExact ==
    valid =>
        /\ silenced => ~parsed.ids /\ "object" \in parsed.has /\ "other" \notin parsed.has
        /\ parsed.has = {"object"} /\ ~parsed.ids /\ ~parsed.escapes => silenced
=============================================================================
