----------------------------- MODULE ScanProofs -----------------------------
(***************************************************************************)
(* The scanners of handle.go, for every payload of whatever length and     *)
(* nesting.  approxBatchLen and splitBatchElements decide alike whether a  *)
(* batch has more elements than the limit; lacksResponseID decides element *)
(* by element; and both splitBatchElements and lacksResponseID follow the  *)
(* JSON grammar through what the decoder accepts.                          *)
(***************************************************************************)
EXTENDS Scan, SequenceTheorems, TLAPS

ApproxState == [depth : Int, str : StringStates, count : Nat, seen : BOOLEAN, early : BOOLEAN]
SplitState == [depth : Nat, str : StringStates, elems : Nat, start : BOOLEAN, ok : BOOLEAN]

(* Until approxBatchLen returns early the two loops are in step: one level *)
(* apart in depth, and an element has been seen if one is open or has      *)
(* ended.                                                                  *)
InStep(a, s) ==
    /\ a.depth = s.depth + 1
    /\ a.str = s.str
    /\ a.count = s.elems
    /\ a.seen <=> s.start \/ s.elems > 0

(* After it returned, the count it returned is over the limit, and no more *)
(* than splitBatchElements will find.                                      *)
Ahead(a, s) ==
    /\ a.count + 1 > maxBatchSize
    /\ a.count <= s.elems
    /\ s.elems > 0

(* Nothing is inside a string or a bracket but in an open element. *)
Open(s) == s.str # "out" \/ s.depth > 0 => s.start

Agree(a, s) ==
    /\ a \in ApproxState
    /\ s \in SplitState
    /\ s.ok => /\ Open(s)
               /\ a.early => Ahead(a, s)
               /\ ~a.early => InStep(a, s)

ScanInv == Agree(approx, split)

(* One byte read by both loops, as they run. *)
LEMMA InStepPreserved ==
    ASSUME NEW a \in ApproxState, NEW s \in SplitState, NEW b \in Bytes, Agree(a, s)
    PROVE  Agree(approxStep(a, b), splitStep(s, b))
<1> DEFINE a2 == approxStep(a, b)
           s2 == splitStep(s, b)
<1>1. inString(a.str, b) \in StringStates /\ inString(s.str, b) \in StringStates
      /\ opened(b) \in StringStates
  BY DEF inString, opened, StringStates
<1>2. nesting(b) \in {-1, 0, 1} /\ (nesting(b) = -1 => b \in Closers)
  BY DEF nesting
<1>3. a2 \in ApproxState
  <2>1. CASE a.early
    BY <2>1 DEF approxStep
  <2>2. CASE ~a.early /\ a.str # "out"
    BY <1>1, <2>2 DEF approxStep, ApproxState
  <2>3. CASE ~a.early /\ a.str = "out"
    <3>1. PICK seen2 \in BOOLEAN :
            seen2 = (a.seen \/ (a.depth = 1 /\ b \notin Closers \cup {"comma", "space"}))
      OBVIOUS
    <3>2. PICK early2 \in BOOLEAN :
            early2 = (b = "comma" /\ a.depth = 1 /\ a.count + 2 > maxBatchSize)
      OBVIOUS
    <3>3. a2 = [depth |-> a.depth + nesting(b),
                str |-> opened(b),
                count |-> IF b = "comma" /\ a.depth = 1 THEN a.count + 1 ELSE a.count,
                seen |-> seen2,
                early |-> early2]
      BY <2>3, <3>1, <3>2, Zenon DEF approxStep
    <3>4. a.depth + nesting(b) \in Int
          /\ (IF b = "comma" /\ a.depth = 1 THEN a.count + 1 ELSE a.count) \in Nat
      BY <1>2 DEF ApproxState
    <3> QED
      BY <1>1, <3>3, <3>4 DEF ApproxState
  <2> QED
    BY <2>1, <2>2, <2>3
<1>4. CASE ~s.ok
  BY <1>3, <1>4 DEF splitStep, Agree
<1>5. CASE s.ok /\ s.str # "out"
  <2>1. s2 = [s EXCEPT !.str = inString(@, b)]
    BY <1>5 DEF splitStep
  <2>2. s2 \in SplitState /\ Open(s2)
    BY <1>1, <1>5, <2>1 DEF SplitState, Open, Agree
  <2>3. a.early => a2 = a
    BY DEF approxStep
  <2>4. ~a.early => a2 = [a EXCEPT !.str = inString(@, b)]
    BY <1>5 DEF approxStep, Agree, InStep
  <2> QED
    BY <1>3, <1>5, <2>1, <2>2, <2>3, <2>4 DEF Agree, Ahead, InStep, ApproxState, SplitState
<1>6. CASE /\ s.ok /\ s.str = "out"
           /\ s.depth = 0 /\ (b \in Closers \/ (b = "comma" /\ ~s.start))
  BY <1>3, <1>6 DEF splitStep, Agree, Broken, SplitState, StringStates
<1>7. CASE /\ s.ok /\ s.str = "out"
           /\ ~(s.depth = 0 /\ (b \in Closers \/ (b = "comma" /\ ~s.start)))
  <2>1. s2 = [depth |-> s.depth + nesting(b),
              str |-> opened(b),
              elems |-> IF b = "comma" /\ s.depth = 0 THEN s.elems + 1 ELSE s.elems,
              start |-> IF b = "comma" /\ s.depth = 0 THEN FALSE
                        ELSE s.start \/ b \notin Closers \cup {"comma", "space"},
              ok |-> TRUE]
    BY <1>7 DEF splitStep
  <2>2. s.depth + nesting(b) \in Nat
    BY <1>2, <1>7 DEF SplitState
  <2>3. s2 \in SplitState
    <3>1. PICK start2 \in BOOLEAN :
            start2 = IF b = "comma" /\ s.depth = 0 THEN FALSE
                     ELSE s.start \/ b \notin Closers \cup {"comma", "space"}
      OBVIOUS
    <3>2. s2 = [depth |-> s.depth + nesting(b),
                str |-> opened(b),
                elems |-> IF b = "comma" /\ s.depth = 0 THEN s.elems + 1 ELSE s.elems,
                start |-> start2,
                ok |-> TRUE]
      BY <2>1, <3>1, Zenon
    <3>3. (IF b = "comma" /\ s.depth = 0 THEN s.elems + 1 ELSE s.elems) \in Nat
      BY DEF SplitState
    <3> QED
      BY <1>1, <2>2, <3>2, <3>3 DEF SplitState
  <2>4. Open(s2)
    BY <1>7, <2>1 DEF Open, Agree, SplitState, opened, nesting, Openers, Closers
  <2>5. CASE a.early
    <3>1. a2 = a
      BY <2>5 DEF approxStep
    <3>2. s2.elems \in Nat /\ s2.elems >= s.elems
      BY <2>1 DEF SplitState
    <3>3. Ahead(a, s)
      BY <1>7, <2>5 DEF Agree
    <3>4. Ahead(a2, s2)
      BY <3>1, <3>2, <3>3 DEF Ahead, ApproxState, SplitState
    <3> QED
      BY <2>3, <2>4, <2>5, <3>1, <3>4 DEF Agree
  <2>6. CASE ~a.early
    <3>1. a2 = [depth |-> a.depth + nesting(b),
                str |-> opened(b),
                count |-> IF b = "comma" /\ a.depth = 1 THEN a.count + 1 ELSE a.count,
                seen |-> a.seen \/ (a.depth = 1 /\ b \notin Closers \cup {"comma", "space"}),
                early |-> b = "comma" /\ a.depth = 1 /\ a.count + 2 > maxBatchSize]
      BY <1>7, <2>6 DEF approxStep, Agree, InStep
    <3>2. a.depth = 1 <=> s.depth = 0
      BY <1>7, <2>6 DEF Agree, InStep, SplitState, ApproxState
    <3>3. a2.depth = s2.depth + 1 /\ a2.str = s2.str /\ a2.count = s2.elems
      BY <1>2, <1>7, <2>1, <2>6, <3>1, <3>2 DEF Agree, InStep, SplitState, ApproxState
    <3>4. a2.seen <=> s2.start \/ s2.elems > 0
      BY <1>7, <2>1, <2>6, <3>1, <3>2 DEF Agree, InStep, Open, SplitState, ApproxState, Closers
    <3>5. a2.early => Ahead(a2, s2)
      BY <1>7, <2>1, <2>6, <3>1, <3>2, <3>3, MaxBatchSizeAssumption
      DEF Agree, Ahead, InStep, SplitState, ApproxState
    <3> QED
      BY <1>3, <2>3, <2>4, <3>3, <3>4, <3>5 DEF Agree, InStep
  <2> QED
    BY <2>5, <2>6
<1> QED
  BY <1>4, <1>5, <1>6, <1>7

(* At the end of a batch that splits, the two counts are on the same side  *)
(* of the limit.                                                           *)
LEMMA AgreeDecides ==
    ASSUME NEW a \in ApproxState, NEW s \in SplitState, Agree(a, s), splitOk(s)
    PROVE  approxBatchLen(approxStep(a, "rbracket")) > maxBatchSize <=> splitLen(s) > maxBatchSize
<1>1. s.ok /\ s.str = "out" /\ s.depth = 0 /\ (s.start \/ s.elems = 0)
  BY DEF splitOk
<1>2. CASE a.early
  <2>1. approxBatchLen(approxStep(a, "rbracket")) = a.count + 1
    BY <1>2 DEF approxStep, approxBatchLen
  <2>2. splitLen(s) = s.elems + 1
    BY <1>1, <1>2 DEF splitLen, Agree, Ahead, SplitState
  <2> QED
    BY <1>1, <1>2, <2>1, <2>2, MaxBatchSizeAssumption DEF Agree, Ahead, ApproxState, SplitState
<1>3. CASE ~a.early
  <2>1. InStep(a, s)
    BY <1>1, <1>3 DEF Agree
  <2>2. approxStep(a, "rbracket") = [depth |-> a.depth + nesting("rbracket"), str |-> opened("rbracket"),
                              count |-> a.count, seen |-> a.seen, early |-> FALSE]
    BY <1>1, <1>3, <2>1 DEF approxStep, InStep, Closers, ApproxState
  <2>3. approxBatchLen(approxStep(a, "rbracket")) = IF a.seen THEN a.count + 1 ELSE a.count
    BY <2>2 DEF approxBatchLen
  <2>4. s.start <=> a.seen
    BY <1>1, <2>1 DEF InStep, SplitState
  <2> QED
    BY <2>1, <2>3, <2>4 DEF InStep, splitLen
<1> QED
  BY <1>2, <1>3

(* approxBatchLen and splitBatchElements agree after every payload. *)
THEOREM ScanInvariant == ScanSpec => [](form \in Forms /\ ScanInv)
<1>1. ScanInit => form \in Forms /\ ScanInv
  <2> SUFFICES ASSUME ScanInit PROVE form \in Forms /\ ScanInv
    OBVIOUS
  <2>1. approx \in ApproxState /\ ~approx.early
    BY DEF ScanInit, ApproxState, StringStates
  <2>2. split \in SplitState
    BY DEF ScanInit, Broken, SplitState, StringStates
  <2>3. Open(split) /\ InStep(approx, split)
    BY DEF ScanInit, Broken, Open, InStep
  <2> QED
    BY <2>1, <2>2, <2>3 DEF ScanInit, ScanInv, Agree
<1>2. form \in Forms /\ ScanInv /\ [ScanNext]_scanVars => (form \in Forms /\ ScanInv)'
  <2> SUFFICES ASSUME form \in Forms, ScanInv, [ScanNext]_scanVars
               PROVE  form' \in Forms /\ Agree(approx', split')
    BY DEF ScanInv
  <2>1. CASE UNCHANGED scanVars
    BY <2>1 DEF scanVars, ScanInv
  <2>2. ASSUME NEW b \in Bytes, Feed(b) PROVE form' \in Forms /\ Agree(approx', split')
    <3>1. approx' = approxStep(approx, b) /\ split' = splitStep(split, b) /\ form' = form
      BY <2>2 DEF Feed
    <3>2. approx \in ApproxState /\ split \in SplitState /\ Agree(approx, split)
      BY DEF ScanInv, Agree
    <3> QED
      BY <3>1, <3>2, InStepPreserved
  <2> QED
    BY <2>1, <2>2 DEF ScanNext
<1> QED
  BY <1>1, <1>2, PTL DEF ScanSpec

(* BatchLimitExact for every payload and every limit: approxBatchLen lets  *)
(* no batch through that is too long, and refuses none that is not.        *)
THEOREM ScanBatchLimitExact == ScanSpec => []BatchLimitExact
<1>1. form \in Forms /\ ScanInv => BatchLimitExact
  <2> SUFFICES ASSUME ScanInv, form = "lbracket", splitOk(split)
               PROVE  approxBatchLen(approxed) > maxBatchSize <=> splitLen(split) > maxBatchSize
    BY DEF BatchLimitExact
  <2>1. approxed = approxStep(approx, "rbracket")
    BY DEF approxed, closer
  <2> QED
    BY <2>1, AgreeDecides DEF ScanInv, Agree
<1> QED
  BY <1>1, ScanInvariant, PTL

(***************************************************************************)
(* The scan for ids, element by element.                                   *)
(***************************************************************************)
LacksState == [depth : Nat, str : StringStates, keyPos : BOOLEAN,
               key : {"noKey", "empty", "id", "other"}, escapes : BOOLEAN,
               sawElement : BOOLEAN, closed : BOOLEAN, quiet : BOOLEAN]

(* The scan of a batch (l) and the scan of its current element alone (p)   *)
(* are where splitBatchElements (s) is, and will make the same of what     *)
(* follows: keyPos matters inside an element only, and outside a string no *)
(* key is open.  noid: an element that has ended is an object without id.  *)
Twins(l, p, s, noid) ==
    /\ l.depth = s.depth + 1 /\ p.depth = s.depth + 1
    /\ l.str = s.str /\ p.str = s.str
    /\ l.key = p.key /\ (l.escapes <=> p.escapes)
    /\ l.depth >= 2 => (l.keyPos <=> p.keyPos)
    /\ l.str = "out" => l.key = "noKey" /\ ~l.escapes
    /\ ~l.closed /\ ~p.closed
    /\ l.sawElement <=> p.sawElement \/ noid

(* The scan of the batch has given up exactly if that of an element has.   *)
(* Where no element is open, there is nothing yet to say about one.        *)
Composed(l, p, s, ps) ==
    /\ l.quiet <=> p.quiet /\ "loud" \notin ps
    /\ l.quiet => Twins(l, p, s, "noid" \in ps)
    /\ p.quiet => p.depth = s.depth + 1 /\ p.str = s.str /\ ~p.closed
    /\ ~s.start => p.quiet /\ ~p.sawElement

ComposeInv ==
    form = "lbracket" =>
        /\ lacks \in LacksState /\ part \in LacksState
        /\ split.ok => Composed(lacks, part, split, parts)

(* One byte outside a string. *)
LEMMA LacksOutside ==
    ASSUME NEW s \in LacksState, NEW b \in Bytes, NEW at \in {1, 2},
           s.quiet, s.str = "out", ~lacksStops(s, b, at)
    PROVE  LET r == lacksStep(s, b, at)
           IN  /\ r \in LacksState /\ r.quiet
               /\ r.depth = s.depth + nesting(b) /\ r.str = opened(b)
               /\ r.keyPos <=> keyPos(s, b, at)
               /\ r.key = IF b = "quote" /\ s.depth = at /\ s.keyPos THEN "empty" ELSE s.key
               /\ r.escapes <=> s.escapes
               /\ r.sawElement <=> s.sawElement \/ (b = "lbrace" /\ s.depth + 1 = at)
               /\ r.closed <=> b \in Closers /\ s.depth = 1
<1>1. PICK k \in BOOLEAN : k = keyPos(s, b, at)
  BY DEF keyPos, LacksState
<1>2. PICK e \in BOOLEAN : e = (s.sawElement \/ (b = "lbrace" /\ s.depth + 1 = at))
  OBVIOUS
<1>3. PICK c \in BOOLEAN : c = (b \in Closers /\ s.depth = 1)
  OBVIOUS
<1>4. PICK d : d = s.depth + nesting(b)
  OBVIOUS
<1>5. PICK y : y = IF b = "quote" /\ s.depth = at /\ s.keyPos THEN "empty" ELSE s.key
  OBVIOUS
<1>6. d \in Nat
  <2>1. nesting(b) \in {-1, 0, 1} /\ (nesting(b) = -1 => b \in Closers)
    BY DEF nesting
  <2>2. ~(b \in Closers /\ s.depth = 0)
    BY DEF lacksStops
  <2>3. s.depth \in Nat
    BY DEF LacksState
  <2>. QED
    BY <1>4, <2>1, <2>2, <2>3
<1>7. opened(b) \in StringStates /\ y \in {"noKey", "empty", "id", "other"}
  BY <1>5 DEF opened, StringStates, LacksState
<1>8. PICK o \in StringStates : o = opened(b)
  BY <1>7
<1>9. lacksStep(s, b, at) =
        [s EXCEPT !.depth = d, !.str = o, !.keyPos = k, !.key = y,
                  !.sawElement = e, !.closed = c]
  BY <1>1, <1>2, <1>3, <1>4, <1>5, <1>8, Zenon DEF lacksStep
<1>10. PICK r : r = lacksStep(s, b, at)
  OBVIOUS
<1>11. /\ r.depth = d /\ r.str = o /\ r.keyPos = k /\ r.key = y /\ r.escapes = s.escapes
       /\ r.sawElement = e /\ r.closed = c /\ r.quiet = s.quiet
       /\ r \in LacksState
  <2>1. r = [s EXCEPT !.depth = d, !.str = o, !.keyPos = k, !.key = y,
                      !.sawElement = e, !.closed = c]
    BY <1>9, <1>10
  <2>. QED
    BY <1>6, <1>7, <2>1 DEF LacksState
<1>. QED
  BY <1>1, <1>2, <1>3, <1>4, <1>5, <1>8, <1>10, <1>11

(* One byte inside a string: it goes on, ends, or was a key that stops the *)
(* scan.                                                                   *)
LEMMA LacksInside ==
    ASSUME NEW s \in LacksState, NEW b \in Bytes, NEW at \in {1, 2}, s.quiet, s.str # "out"
    PROVE  LET r == lacksStep(s, b, at)
               ends == s.str = "in" /\ b = "quote"
           IN  /\ r \in LacksState
               /\ r.quiet <=> ~(ends /\ s.key # "noKey" /\ (s.escapes \/ s.key = "id"))
               /\ r.quiet =>
                     /\ r.depth = s.depth /\ r.str = inString(s.str, b)
                     /\ r.keyPos <=> s.keyPos
                     /\ r.key = IF ends \/ s.key = "noKey" THEN "noKey" ELSE spelled(s.key, b)
                     /\ r.escapes <=> ~ends /\ (s.escapes \/ (s.key # "noKey" /\ s.str = "in"
                                                              /\ b = "backslash"))
                     /\ r.sawElement <=> s.sawElement
                     /\ r.closed <=> s.closed
                     /\ ends <=> r.str = "out"
<1>1. PICK r : r = lacksStep(s, b, at)
  OBVIOUS
<1>2. r = lacksInString(s, b)
  BY <1>1 DEF lacksStep
<1>3. s.str \in {"in", "escaped"}
  BY DEF LacksState, StringStates
<1>4. CASE s.str = "in" /\ b = "quote"
  <2>1. inString(s.str, b) = "out"
    BY <1>4 DEF inString
  <2>2. CASE s.key # "noKey" /\ (s.escapes \/ s.key = "id")
    <3>1. r = Answered
      BY <1>2, <1>4, <2>2 DEF lacksInString
    <3>2. Answered \in LacksState /\ ~Answered.quiet
      BY DEF Answered, LacksState, StringStates
    <3>. QED
      BY <1>1, <1>4, <2>2, <3>1, <3>2
  <2>3. CASE ~(s.key # "noKey" /\ (s.escapes \/ s.key = "id"))
    <3>1. r = [s EXCEPT !.str = "out", !.key = "noKey", !.escapes = FALSE]
      BY <1>2, <1>4, <2>3 DEF lacksInString
    <3>2. /\ r.depth = s.depth /\ r.str = "out" /\ r.keyPos = s.keyPos /\ r.key = "noKey"
          /\ r.escapes = FALSE /\ r.sawElement = s.sawElement /\ r.closed = s.closed
          /\ r.quiet = s.quiet /\ r \in LacksState
      BY <3>1 DEF LacksState, StringStates
    <3>. QED
      BY <1>1, <1>4, <2>1, <2>3, <3>2
  <2>. QED
    BY <2>2, <2>3
<1>5. CASE ~(s.str = "in" /\ b = "quote")
  <2>1. PICK o \in {"in", "escaped"} : o = inString(s.str, b)
    BY <1>3, <1>5 DEF inString
  <2>2. PICK k \in {"noKey", "empty", "id", "other"} :
           k = IF s.key = "noKey" THEN s.key ELSE spelled(s.key, b)
    BY DEF spelled
  <2>3. PICK e \in BOOLEAN :
           e = (s.escapes \/ (s.key # "noKey" /\ s.str = "in" /\ b = "backslash"))
    OBVIOUS
  <2>4. r = [s EXCEPT !.str = o, !.key = k, !.escapes = e]
    BY <1>2, <1>5, <2>1, <2>2, <2>3, Zenon DEF lacksInString
  <2>5. /\ r.depth = s.depth /\ r.str = o /\ r.keyPos = s.keyPos /\ r.key = k
        /\ r.escapes = e /\ r.sawElement = s.sawElement /\ r.closed = s.closed
        /\ r.quiet = s.quiet /\ r \in LacksState
    BY <2>4 DEF LacksState, StringStates
  <2>. QED
    BY <1>1, <1>5, <2>1, <2>2, <2>3, <2>5
<1>. QED
  BY <1>4, <1>5

(* Once it has given up, or when it does, the scan stays so. *)
LEMMA LacksGivenUp ==
    ASSUME NEW s \in LacksState, NEW b \in Bytes, NEW at \in {1, 2},
           ~s.quiet \/ (s.str = "out" /\ lacksStops(s, b, at))
    PROVE  lacksStep(s, b, at) \in LacksState /\ ~lacksStep(s, b, at).quiet
<1>1. lacksStep(s, b, at) \in {s, Answered}
      /\ (s.quiet => lacksStep(s, b, at) = Answered)
  BY DEF lacksStep
<1>2. Answered \in LacksState /\ ~Answered.quiet
  BY DEF Answered, LacksState, StringStates
<1>. QED
  BY <1>1, <1>2

(* The scan's state is always one. *)
LEMMA LacksType ==
    ASSUME NEW s \in LacksState, NEW b \in Bytes, NEW at \in {1, 2}
    PROVE  lacksStep(s, b, at) \in LacksState
BY LacksOutside, LacksInside, LacksGivenUp

(* Where splitBatchElements goes, while it does not fail. *)
LEMMA SplitGoesOn ==
    ASSUME NEW s \in SplitState, NEW b \in Bytes, s.ok, splitStep(s, b).ok
    PROVE  LET r == splitStep(s, b)
           IN  /\ s.str # "out" =>
                     r.depth = s.depth /\ r.str = inString(s.str, b) /\ (r.start <=> s.start)
               /\ s.str = "out" =>
                     /\ r.depth = s.depth + nesting(b) /\ r.str = opened(b)
                     /\ s.depth = 0 => b \notin Closers /\ (b = "comma" => s.start)
                     /\ ~r.start => (b = "comma" /\ s.depth = 0)
                                    \/ (~s.start /\ b \in Closers \cup {"comma", "space"})
<1>1. PICK r : r = splitStep(s, b)
  OBVIOUS
<1>2. CASE s.str # "out"
  <2>1. r = [s EXCEPT !.str = inString(s.str, b)]
    BY <1>1, <1>2 DEF splitStep
  <2>2. r.depth = s.depth /\ r.str = inString(s.str, b) /\ r.start = s.start
    BY <2>1 DEF SplitState
  <2>. QED
    BY <1>1, <1>2, <2>2
<1>3. CASE s.str = "out"
  <2>1. ~(s.depth = 0 /\ (b \in Closers \/ (b = "comma" /\ ~s.start)))
    <3>1. ~Broken.ok
      BY DEF Broken
    <3>. QED
      BY <1>3, <3>1 DEF splitStep
  <2>2. PICK c \in BOOLEAN :
           c = IF b = "comma" /\ s.depth = 0 THEN FALSE
               ELSE s.start \/ b \notin Closers \cup {"comma", "space"}
    OBVIOUS
  <2>3. r = [depth |-> s.depth + nesting(b), str |-> opened(b),
             elems |-> IF b = "comma" /\ s.depth = 0 THEN s.elems + 1 ELSE s.elems,
             start |-> c, ok |-> TRUE]
    BY <1>1, <1>3, <2>1, <2>2, Zenon DEF splitStep
  <2>4. r.depth = s.depth + nesting(b) /\ r.str = opened(b) /\ r.start = c
    BY <2>3
  <2>. QED
    BY <1>1, <1>3, <2>1, <2>2, <2>4
<1>. QED
  BY <1>2, <1>3

(* What an element that has ended was, alone in a batch. *)
LEMMA SeenElement ==
    ASSUME NEW p \in LacksState
    PROVE  /\ ~p.quiet => seen(p) = "loud"
           /\ p.quiet /\ p.depth = 1 /\ p.str = "out" /\ ~p.closed =>
                 seen(p) = IF p.sawElement THEN "noid" ELSE "skipped"
<1>1. "rbracket" \in Bytes /\ "rbracket" \in Closers
  BY DEF Bytes, Closers
<1>2. PICK r : r = lacksStep(p, "rbracket", 2)
  OBVIOUS
<1>3. seen(p) = IF ~r.quiet \/ ~r.closed THEN "loud"
                ELSE IF r.sawElement THEN "noid" ELSE "skipped"
  BY <1>2 DEF seen
<1>4. ~p.quiet => ~r.quiet
  BY <1>1, <1>2, LacksGivenUp
<1>5. ASSUME p.quiet, p.depth = 1, p.str = "out", ~p.closed
      PROVE  r.quiet /\ r.closed /\ (r.sawElement <=> p.sawElement)
  <2>1. ~lacksStops(p, "rbracket", 2)
    BY <1>5 DEF lacksStops, Others
  <2>. QED
    BY <1>1, <1>2, <1>5, <2>1, LacksOutside
<1>. QED
  BY <1>3, <1>4, <1>5

(* Before the first byte of an element. *)
LEMMA FreshScan ==
    LET p == lacksFirst("lbracket")
    IN  /\ p \in LacksState /\ p.quiet /\ p.depth = 1 /\ p.str = "out" /\ p.key = "noKey"
        /\ ~p.escapes /\ ~p.sawElement /\ ~p.closed
BY DEF lacksFirst, Answered, LacksState, StringStates

(* The byte after an element. *)
LEMMA ComposedAtComma ==
    ASSUME NEW l \in LacksState, NEW p \in LacksState, NEW s \in SplitState, NEW ps,
           Composed(l, p, s, ps), s.ok, splitStep(s, "comma").ok,
           s.str = "out", s.depth = 0
    PROVE  Composed(lacksStep(l, "comma", 2), lacksFirst("lbracket"), splitStep(s, "comma"),
                    ps \cup {seen(p)})
<1>1. "comma" \in Bytes /\ "comma" \notin Closers /\ "comma" \notin Others
      /\ nesting("comma") = 0 /\ opened("comma") = "out"
  BY DEF Bytes, Closers, Openers, Others, nesting, opened
<1>2. PICK s2 : s2 = splitStep(s, "comma")
  OBVIOUS
<1>3. s2.depth = 0 /\ s2.str = "out"
  BY <1>1, <1>2, SplitGoesOn DEF SplitState
<1>4. PICK p2 \in LacksState : p2 = lacksFirst("lbracket")
  BY FreshScan
<1>5. /\ p2.quiet /\ p2.depth = 1 /\ p2.str = "out" /\ p2.key = "noKey"
      /\ ~p2.escapes /\ ~p2.sawElement /\ ~p2.closed
  BY <1>4, FreshScan
<1>6. PICK l2 \in LacksState : l2 = lacksStep(l, "comma", 2)
  BY <1>1, LacksType
<1>7. CASE l.quiet
  <2>1. p.quiet /\ "loud" \notin ps /\ Twins(l, p, s, "noid" \in ps)
    BY <1>7 DEF Composed
  <2>2. /\ l.depth = 1 /\ l.str = "out" /\ ~l.closed /\ l.key = "noKey" /\ ~l.escapes
        /\ p.depth = 1 /\ p.str = "out" /\ ~p.closed
        /\ l.sawElement <=> p.sawElement \/ "noid" \in ps
    BY <2>1 DEF Twins
  <2>3. seen(p) = IF p.sawElement THEN "noid" ELSE "skipped"
    BY <2>1, <2>2, SeenElement
  <2>4. ~lacksStops(l, "comma", 2)
    BY <1>1, <2>2 DEF lacksStops
  <2>5. /\ l2.quiet /\ l2.depth = 1 /\ l2.str = "out" /\ l2.key = "noKey" /\ ~l2.escapes
        /\ l2.sawElement <=> l.sawElement
        /\ ~l2.closed
    BY <1>1, <1>6, <1>7, <2>2, <2>4, LacksOutside
  <2>6. "loud" \notin ps \cup {seen(p)}
    BY <2>1, <2>3
  <2>7. "noid" \in ps \cup {seen(p)} <=> l.sawElement
    BY <2>2, <2>3
  <2>8. Twins(l2, p2, s2, "noid" \in ps \cup {seen(p)})
    BY <1>3, <1>5, <2>5, <2>7 DEF Twins
  <2>. QED
    BY <1>2, <1>3, <1>4, <1>5, <1>6, <2>5, <2>6, <2>8 DEF Composed
<1>8. CASE ~l.quiet
  <2>1. ~l2.quiet
    BY <1>1, <1>6, <1>8, LacksGivenUp
  <2>2. "loud" \in ps \cup {seen(p)}
    BY <1>8, SeenElement DEF Composed
  <2>. QED
    BY <1>2, <1>3, <1>4, <1>5, <1>6, <2>1, <2>2 DEF Composed
<1>. QED
  BY <1>7, <1>8

(* A byte of an element, or between two, outside strings. *)
LEMMA ComposedOutside ==
    ASSUME NEW l \in LacksState, NEW p \in LacksState, NEW s \in SplitState, NEW ps,
           NEW b \in Bytes, Composed(l, p, s, ps), Open(s), s.ok, splitStep(s, b).ok,
           s.str = "out", ~(s.depth = 0 /\ b = "comma")
    PROVE  Composed(lacksStep(l, b, 2), lacksStep(p, b, 2), splitStep(s, b), ps)
<1>1. PICK s2 : s2 = splitStep(s, b)
  OBVIOUS
<1>2. /\ s2.depth = s.depth + nesting(b) /\ s2.str = opened(b) /\ s.depth \in Nat
      /\ s.depth = 0 => b \notin Closers
      /\ ~s2.start => ~s.start /\ s.depth = 0 /\ b = "space"
  BY <1>1, SplitGoesOn DEF SplitState, Open
<1>3. PICK l2 \in LacksState : l2 = lacksStep(l, b, 2)
  BY LacksType
<1>4. PICK p2 \in LacksState : p2 = lacksStep(p, b, 2)
  BY LacksType
<1>5. nesting(b) \in {-1, 0, 1} /\ (nesting(b) = 1 => b \in {"lbrace", "lbracket"})
  BY DEF nesting, Openers
<1>6. ASSUME p.quiet, ~lacksStops(p, b, 2)
      PROVE  /\ p2.quiet /\ p2.depth = s2.depth + 1 /\ p2.str = s2.str /\ ~p2.closed
             /\ ~s2.start => ~p2.sawElement
  <2>1. p.depth = s.depth + 1 /\ p.str = "out"
    BY <1>6 DEF Composed
  <2>2. /\ p2.quiet /\ p2.depth = p.depth + nesting(b) /\ p2.str = opened(b)
        /\ p2.closed <=> b \in Closers /\ p.depth = 1
        /\ p2.sawElement <=> p.sawElement \/ (b = "lbrace" /\ p.depth + 1 = 2)
    BY <1>4, <1>6, <2>1, LacksOutside
  <2>3. ~p2.closed
    BY <1>2, <2>1, <2>2
  <2>4. ~s2.start => ~p2.sawElement
    BY <1>2, <2>2 DEF Composed
  <2>. QED
    BY <1>2, <1>5, <2>1, <2>2, <2>3, <2>4
<1>7. ~p.quiet \/ lacksStops(p, b, 2) => ~p2.quiet
  <2>1. p.quiet => p.str = "out"
    BY DEF Composed
  <2>. QED
    BY <1>4, <2>1, LacksGivenUp
<1>8. ~s2.start => p2.quiet
  <2>. SUFFICES ASSUME ~s2.start PROVE p2.quiet
    OBVIOUS
  <2>1. ~s.start /\ s.depth = 0 /\ b = "space" /\ p.quiet
    BY <1>2 DEF Composed
  <2>2. ~lacksStops(p, b, 2)
    BY <2>1 DEF lacksStops, Closers, Others, Composed
  <2>. QED
    BY <1>6, <2>1, <2>2
<1>9. CASE ~l.quiet
  <2>1. ~l2.quiet
    BY <1>3, <1>9, LacksGivenUp
  <2>2. ~p2.quiet \/ "loud" \in ps
    BY <1>7, <1>9 DEF Composed
  <2>. QED
    BY <1>1, <1>3, <1>4, <1>6, <1>7, <1>8, <2>1, <2>2 DEF Composed
<1>10. CASE l.quiet
  <2>1. p.quiet /\ "loud" \notin ps /\ Twins(l, p, s, "noid" \in ps)
    BY <1>10 DEF Composed
  <2>2. lacksStops(l, b, 2) <=> lacksStops(p, b, 2)
    BY <2>1 DEF lacksStops, Twins
  <2>3. CASE lacksStops(l, b, 2)
    <3>1. ~l2.quiet
      BY <1>3, <2>1, <2>3, LacksGivenUp DEF Twins
    <3>. QED
      BY <1>1, <1>3, <1>4, <1>7, <1>8, <2>2, <2>3, <3>1 DEF Composed
  <2>4. CASE ~lacksStops(l, b, 2)
    <3>1. /\ l.depth = s.depth + 1 /\ p.depth = s.depth + 1 /\ l.str = "out" /\ p.str = "out"
          /\ l.key = "noKey" /\ p.key = "noKey" /\ ~l.escapes /\ ~p.escapes
          /\ l.depth >= 2 => (l.keyPos <=> p.keyPos)
          /\ l.sawElement <=> p.sawElement \/ "noid" \in ps
      BY <2>1 DEF Twins
    <3>2. /\ l2.quiet /\ l2.depth = l.depth + nesting(b) /\ l2.str = opened(b)
          /\ l2.keyPos <=> keyPos(l, b, 2)
          /\ l2.key = IF b = "quote" /\ l.depth = 2 /\ l.keyPos THEN "empty" ELSE l.key
          /\ l2.escapes <=> l.escapes
          /\ l2.sawElement <=> l.sawElement \/ (b = "lbrace" /\ l.depth + 1 = 2)
          /\ l2.closed <=> b \in Closers /\ l.depth = 1
      BY <1>3, <1>10, <2>4, <3>1, LacksOutside
    <3>3. /\ p2.quiet /\ p2.depth = p.depth + nesting(b) /\ p2.str = opened(b)
          /\ p2.keyPos <=> keyPos(p, b, 2)
          /\ p2.key = IF b = "quote" /\ p.depth = 2 /\ p.keyPos THEN "empty" ELSE p.key
          /\ p2.escapes <=> p.escapes
          /\ p2.sawElement <=> p.sawElement \/ (b = "lbrace" /\ p.depth + 1 = 2)
          /\ p2.closed <=> b \in Closers /\ p.depth = 1
      BY <1>4, <2>1, <2>2, <2>4, <3>1, LacksOutside
    <3>4. l2.depth = s2.depth + 1 /\ p2.depth = s2.depth + 1
      BY <1>2, <1>5, <3>1, <3>2, <3>3
    <3>5. l2.key = p2.key
      BY <1>2, <3>1, <3>2, <3>3
    <3>6. l2.depth >= 2 => (l2.keyPos <=> p2.keyPos)
      <4>. SUFFICES ASSUME l2.depth >= 2 PROVE keyPos(l, b, 2) <=> keyPos(p, b, 2)
        BY <3>2, <3>3
      <4>1. CASE l.depth >= 2
        BY <3>1, <4>1 DEF keyPos
      <4>2. CASE l.depth = 1
        <5>1. nesting(b) = 1
          BY <1>5, <3>2, <4>2
        <5>2. b = "lbrace"
          BY <1>5, <2>4, <4>2, <5>1 DEF lacksStops
        <5>. QED
          BY <3>1, <4>2, <5>2 DEF keyPos
      <4>. QED
        BY <1>2, <3>1, <4>1, <4>2
    <3>7. l2.str = "out" => l2.key = "noKey"
      BY <3>1, <3>2 DEF opened
    <3>8. ~l2.closed /\ ~p2.closed
      BY <1>2, <3>1, <3>2, <3>3
    <3>9. l2.sawElement <=> p2.sawElement \/ "noid" \in ps
      BY <3>1, <3>2, <3>3
    <3>10. Twins(l2, p2, s2, "noid" \in ps)
      BY <1>2, <3>1, <3>2, <3>3, <3>4, <3>5, <3>6, <3>7, <3>8, <3>9 DEF Twins
    <3>11. ~s2.start => ~p2.sawElement
      BY <1>6, <2>1, <2>2, <2>4
    <3>. QED
      BY <1>1, <1>2, <1>3, <1>4, <2>1, <3>2, <3>3, <3>4, <3>8, <3>10, <3>11 DEF Composed
  <2>. QED
    BY <2>3, <2>4
<1>. QED
  BY <1>9, <1>10

(* A byte of a string, which is in an element. *)
LEMMA ComposedInside ==
    ASSUME NEW l \in LacksState, NEW p \in LacksState, NEW s \in SplitState, NEW ps,
           NEW b \in Bytes, Composed(l, p, s, ps), Open(s), s.ok, splitStep(s, b).ok,
           s.str # "out"
    PROVE  Composed(lacksStep(l, b, 2), lacksStep(p, b, 2), splitStep(s, b), ps)
<1>1. PICK s2 : s2 = splitStep(s, b)
  OBVIOUS
<1>2. s2.depth = s.depth /\ s2.str = inString(s.str, b) /\ s2.start
  BY <1>1, SplitGoesOn DEF Open
<1>3. PICK l2 \in LacksState : l2 = lacksStep(l, b, 2)
  BY LacksType
<1>4. PICK p2 \in LacksState : p2 = lacksStep(p, b, 2)
  BY LacksType
<1>5. p2.quiet => p2.depth = s2.depth + 1 /\ p2.str = s2.str /\ ~p2.closed
  <2>. SUFFICES ASSUME p2.quiet
                PROVE  p2.depth = s2.depth + 1 /\ p2.str = s2.str /\ ~p2.closed
    OBVIOUS
  <2>1. p.quiet
    BY <1>4, LacksGivenUp
  <2>2. p.depth = s.depth + 1 /\ p.str = s.str /\ ~p.closed
    BY <2>1 DEF Composed
  <2>3. p2.depth = p.depth /\ p2.str = inString(p.str, b) /\ (p2.closed <=> p.closed)
    BY <1>4, <2>1, <2>2, LacksInside
  <2>. QED
    BY <1>2, <2>2, <2>3
<1>6. CASE ~l.quiet
  <2>1. ~l2.quiet
    BY <1>3, <1>6, LacksGivenUp
  <2>2. ~p2.quiet \/ "loud" \in ps
    BY <1>4, <1>6, LacksGivenUp DEF Composed
  <2>. QED
    BY <1>1, <1>2, <1>3, <1>4, <1>5, <2>1, <2>2 DEF Composed
<1>7. CASE l.quiet
  <2>1. p.quiet /\ "loud" \notin ps /\ Twins(l, p, s, "noid" \in ps)
    BY <1>7 DEF Composed
  <2>2. /\ l.str = s.str /\ p.str = s.str /\ l.key = p.key /\ (l.escapes <=> p.escapes)
        /\ l.depth = s.depth + 1 /\ p.depth = s.depth + 1 /\ ~l.closed /\ ~p.closed
        /\ l.depth >= 2 => (l.keyPos <=> p.keyPos)
        /\ l.sawElement <=> p.sawElement \/ "noid" \in ps
    BY <2>1 DEF Twins
  <2>. DEFINE ends == s.str = "in" /\ b = "quote"
  <2>3. /\ l2.quiet <=> ~(ends /\ l.key # "noKey" /\ (l.escapes \/ l.key = "id"))
        /\ l2.quiet =>
              /\ l2.depth = l.depth /\ l2.str = inString(s.str, b)
              /\ l2.keyPos <=> l.keyPos
              /\ l2.key = IF ends \/ l.key = "noKey" THEN "noKey" ELSE spelled(l.key, b)
              /\ l2.escapes <=> ~ends /\ (l.escapes \/ (l.key # "noKey" /\ s.str = "in"
                                                        /\ b = "backslash"))
              /\ l2.sawElement <=> l.sawElement
              /\ l2.closed <=> l.closed
              /\ ends <=> l2.str = "out"
    BY <1>3, <1>7, <2>2, LacksInside
  <2>4. /\ p2.quiet <=> ~(ends /\ p.key # "noKey" /\ (p.escapes \/ p.key = "id"))
        /\ p2.quiet =>
              /\ p2.depth = p.depth /\ p2.str = inString(s.str, b)
              /\ p2.keyPos <=> p.keyPos
              /\ p2.key = IF ends \/ p.key = "noKey" THEN "noKey" ELSE spelled(p.key, b)
              /\ p2.escapes <=> ~ends /\ (p.escapes \/ (p.key # "noKey" /\ s.str = "in"
                                                        /\ b = "backslash"))
              /\ p2.sawElement <=> p.sawElement
              /\ p2.closed <=> p.closed
    BY <1>4, <2>1, <2>2, LacksInside
  <2>. HIDE DEF ends
  <2>5. l2.quiet <=> p2.quiet
    BY <2>2, <2>3, <2>4
  <2>6. l2.quiet => Twins(l2, p2, s2, "noid" \in ps)
    BY <1>2, <2>2, <2>3, <2>4, <2>5 DEF Twins
  <2>. QED
    BY <1>1, <1>2, <1>3, <1>4, <1>5, <2>1, <2>5, <2>6 DEF Composed
<1>. QED
  BY <1>6, <1>7

(* After every payload, the scan of the batch and that of its current      *)
(* element agree.                                                          *)
THEOREM ScanComposed == ScanSpec => []ComposeInv
<1>1. ScanInit => ComposeInv
  <2>. SUFFICES ASSUME ScanInit, form = "lbracket"
                PROVE  /\ lacks \in LacksState /\ part \in LacksState
                       /\ Composed(lacks, part, split, parts)
    BY DEF ComposeInv
  <2>1. lacks = lacksFirst("lbracket") /\ part = lacks /\ parts = {}
    BY DEF ScanInit
  <2>2. split.depth = 0 /\ split.str = "out"
    BY DEF ScanInit, Broken
  <2>. QED
    BY <2>1, <2>2, FreshScan DEF Composed, Twins
<1>2. ScanInv /\ ComposeInv /\ [ScanNext]_scanVars => ComposeInv'
  <2>. SUFFICES ASSUME ScanInv, ComposeInv, [ScanNext]_scanVars, form' = "lbracket"
                PROVE  /\ lacks' \in LacksState /\ part' \in LacksState
                       /\ split'.ok => Composed(lacks', part', split', parts')
    BY DEF ComposeInv
  <2>1. CASE UNCHANGED scanVars
    BY <2>1 DEF scanVars, ComposeInv
  <2>2. ASSUME NEW b \in Bytes, Feed(b)
        PROVE  /\ lacks' \in LacksState /\ part' \in LacksState
               /\ split'.ok => Composed(lacks', part', split', parts')
    <3>1. /\ form = "lbracket" /\ keyDepth(form) = 2
          /\ lacks' = lacksStep(lacks, b, 2) /\ split' = splitStep(split, b)
          /\ part' = IF elementEnds(b) \/ ~split'.ok THEN lacksFirst("lbracket")
                     ELSE lacksStep(part, b, 2)
          /\ parts' = IF ~split'.ok THEN {}
                      ELSE IF elementEnds(b) THEN parts \cup {seen(part)} ELSE parts
      BY <2>2 DEF Feed, keyDepth
    <3>2. /\ lacks \in LacksState /\ part \in LacksState /\ split \in SplitState
          /\ split.ok => Open(split) /\ Composed(lacks, part, split, parts)
      BY <3>1 DEF ComposeInv, ScanInv, Agree
    <3>3. lacks' \in LacksState /\ part' \in LacksState
      BY <3>1, <3>2, LacksType, FreshScan
    <3>4. ASSUME split'.ok
          PROVE  Composed(lacks', part', split', parts')
      <4>1. split.ok
        BY <3>1, <3>4 DEF splitStep
      <4>2. CASE elementEnds(b)
        BY <3>1, <3>2, <3>4, <4>1, <4>2, ComposedAtComma DEF elementEnds
      <4>3. CASE ~elementEnds(b) /\ split.str = "out"
        BY <3>1, <3>2, <3>4, <4>1, <4>3, ComposedOutside DEF elementEnds
      <4>4. CASE split.str # "out"
        BY <3>1, <3>2, <3>4, <4>1, <4>4, ComposedInside DEF elementEnds
      <4>. QED
        BY <4>2, <4>3, <4>4
    <3>. QED
      BY <3>3, <3>4
  <2>. QED
    BY <2>1, <2>2 DEF ScanNext
<1>. QED
  BY <1>1, <1>2, ScanInvariant, PTL DEF ScanSpec

(* ElementsCompose for every batch, of whatever length and nesting: what   *)
(* lacksResponseID says of a batch is decided element by element, so no    *)
(* element can hide or forge the id of another.                            *)
THEOREM ScanElementsCompose == ScanSpec => []ElementsCompose
<1>1. ScanInv /\ ComposeInv => ElementsCompose
  <2>. SUFFICES ASSUME ScanInv, ComposeInv, form = "lbracket", splitOk(split)
                PROVE  silenced <=> "loud" \notin elementsSeen /\ "noid" \in elementsSeen
    BY DEF ElementsCompose
  <2>1. split.ok /\ split.str = "out" /\ split.depth = 0
    BY DEF splitOk
  <2>2. lacks \in LacksState /\ part \in LacksState /\ Composed(lacks, part, split, parts)
    BY <2>1 DEF ComposeInv
  <2>3. silenced <=> concluded.quiet /\ concluded.closed /\ concluded.str = "out"
                     /\ concluded.sawElement
    BY DEF silenced, lacksVerdict, keyDepth
  <2>4. concluded = lacksStep(lacks, "rbracket", 2)
    BY DEF concluded, closer, keyDepth
  <2>5. "rbracket" \in Bytes /\ "rbracket" \in Closers /\ "rbracket" \notin Others
        /\ opened("rbracket") = "out"
    BY DEF Bytes, Closers, Others, opened
  <2>6. /\ ~part.quiet => seen(part) = "loud"
        /\ part.quiet => seen(part) = IF part.sawElement THEN "noid" ELSE "skipped"
    BY <2>1, <2>2, SeenElement DEF Composed
  <2>7. CASE ~lacks.quiet
    <3>1. ~silenced
      BY <2>2, <2>3, <2>4, <2>5, <2>7, LacksGivenUp
    <3>2. "loud" \in elementsSeen
      BY <2>2, <2>6, <2>7 DEF Composed, elementsSeen
    <3>. QED
      BY <3>1, <3>2
  <2>8. CASE lacks.quiet
    <3>1. /\ part.quiet /\ "loud" \notin parts /\ lacks.depth = 1 /\ lacks.str = "out"
          /\ ~lacks.closed
          /\ lacks.sawElement <=> part.sawElement \/ "noid" \in parts
      BY <2>1, <2>2, <2>8 DEF Composed, Twins
    <3>2. ~lacksStops(lacks, "rbracket", 2)
      BY <2>5, <3>1 DEF lacksStops
    <3>3. silenced <=> lacks.sawElement
      BY <2>2, <2>3, <2>4, <2>5, <2>8, <3>1, <3>2, LacksOutside
    <3>4. ~split.start => ~part.sawElement
      BY <2>2 DEF Composed
    <3>. QED
      BY <2>6, <3>1, <3>3, <3>4 DEF elementsSeen
  <2>. QED
    BY <2>7, <2>8
<1>. QED
  BY <1>1, ScanInvariant, ScanComposed, PTL

(***************************************************************************)
(* The grammar, byte by byte.  While a payload may still be JSON its       *)
(* brackets match from the first byte on, what may come next fits the      *)
(* innermost one, and a key is a string that the grammar wants as one.     *)
(***************************************************************************)
Wants == {"firstKey", "key", "colon", "value", "firstValue", "more", "end", "nothing"}
JsonState == [stack : Seq(Openers), want : Wants, str : StringStates,
              key : {"noKey", "empty", "id", "other"}, elems : Nat,
              ids : BOOLEAN, escapes : BOOLEAN, has : SUBSET {"object", "string", "other"}]

Live(j) == j.want \notin {"end", "nothing"}

Grammatical(j, f, at) ==
    /\ j \in JsonState
    /\ ~Live(j) => j.str = "out"
    /\ Live(j) =>
          /\ Len(j.stack) > 0 /\ j.stack[1] = f
          /\ j.want \in {"firstKey", "key", "colon"} => Top(j.stack) = "lbrace"
          /\ j.str # "out" => j.want \in {"value", "key"}
          /\ j.key # "noKey" => j.str # "out" /\ j.want = "key"
          /\ j.str # "out" /\ j.want = "key" => (j.key # "noKey" <=> Len(j.stack) = at)

(* Opening and closing a bracket. *)
LEMMA Pushed ==
    ASSUME NEW t \in Seq(Openers), NEW b \in Openers
    PROVE  /\ Append(t, b) \in Seq(Openers) /\ Len(t) \in Nat
           /\ Len(Append(t, b)) = Len(t) + 1
           /\ \A i \in 1 .. Len(t) : Append(t, b)[i] = t[i]
           /\ Append(t, b)[Len(t) + 1] = b
           /\ Top(Append(t, b)) = b
<1>1. /\ Append(t, b) \in Seq(Openers) /\ Len(t) \in Nat
      /\ Len(Append(t, b)) = Len(t) + 1
      /\ \A i \in 1 .. Len(t) : Append(t, b)[i] = t[i]
      /\ Append(t, b)[Len(t) + 1] = b
      /\ Append(t, b) # << >>
  BY AppendProperties, LenProperties
<1>. QED
  BY <1>1 DEF Top

(* The bracket before the last becomes the innermost one. *)
LEMMA Popped ==
    ASSUME NEW t \in Seq(Openers), Len(t) > 0
    PROVE  /\ Pop(t) \in Seq(Openers) /\ Len(t) \in Nat
           /\ Len(Pop(t)) = Len(t) - 1
           /\ \A i \in 1 .. Len(t) - 1 : Pop(t)[i] = t[i]
           /\ Pop(t) = << >> <=> Len(t) = 1
<1>1. Len(t) \in Nat
  BY LenProperties
<1>2. \A i \in 1 .. Len(t) - 1 : t[i] \in Openers
  BY <1>1, ElementOfSeq
<1>3. 1 \in Int /\ Len(t) - 1 \in Int
  BY <1>1
<1>4. /\ Pop(t) \in Seq(Openers)
      /\ Len(Pop(t)) = IF 1 <= Len(t) - 1 THEN (Len(t) - 1) - 1 + 1 ELSE 0
      /\ \A i \in 1 .. (Len(t) - 1) - 1 + 1 : Pop(t)[i] = t[1 + i - 1]
  BY <1>2, <1>3, SubSeqProperties DEF Pop
<1>5. Len(Pop(t)) = Len(t) - 1
  <2>1. PICK n \in Nat : n = Len(t)
    BY <1>1
  <2>2. Len(Pop(t)) = IF 1 <= n - 1 THEN (n - 1) - 1 + 1 ELSE 0
    BY <1>4, <2>1
  <2>3. (IF 1 <= n - 1 THEN (n - 1) - 1 + 1 ELSE 0) = n - 1
    BY <2>1
  <2>. QED
    BY <2>1, <2>2, <2>3
<1>6. \A i \in 1 .. Len(t) - 1 : Pop(t)[i] = t[i]
  BY <1>1, <1>4
<1>7. Pop(t) = << >> <=> Len(Pop(t)) = 0
  BY <1>4, EmptySeq
<1>. QED
  BY <1>1, <1>4, <1>5, <1>6, <1>7

(* The moves of the grammar on a byte outside a string. *)
Waits(j, b, r) == b = "space" /\ r = j

Begins(j, b, at, r) ==
    /\ j.want \in {"value", "firstValue"} /\ b \in Openers \cup {"quote", "literal"}
    /\ r.elems = IF Len(j.stack) = at - 1 THEN j.elems + 1 ELSE j.elems
    /\ r.has = IF Len(j.stack) = at - 1 THEN j.has \cup {kindOf(b)} ELSE j.has
    /\ r.stack = IF b \in Openers THEN Append(j.stack, b) ELSE j.stack
    /\ r.str = opened(b)
    /\ b = "quote" => r.want = "value"
    /\ b = "literal" => r.want = "more"
    /\ b = "lbrace" => r.want = "firstKey"
    /\ b = "lbracket" => r.want = "firstValue"
    /\ r.key = j.key /\ r.ids = j.ids /\ r.escapes = j.escapes

Keeps(j, r) ==
    r.elems = j.elems /\ r.ids = j.ids /\ r.escapes = j.escapes /\ r.has = j.has

Names(j, b, at, r) ==
    /\ j.want \in {"key", "firstKey"} /\ b = "quote"
    /\ r.str = "in" /\ r.want = "key" /\ r.stack = j.stack
    /\ r.key = IF Len(j.stack) = at THEN "empty" ELSE j.key
    /\ Keeps(j, r)

Closes(j, b, r) ==
    /\ b \in Closers /\ j.want \in {"firstKey", "firstValue", "more"}
    /\ b = "rbrace" => Top(j.stack) = "lbrace"
    /\ b = "rbracket" => Top(j.stack) = "lbracket"
    /\ r.stack = Pop(j.stack) /\ r.want = after(Pop(j.stack))
    /\ r.str = "out" /\ r.key = j.key /\ Keeps(j, r)

Separates(j, b, r) ==
    /\ b = "comma" /\ j.want = "more"
    /\ r.want = IF Top(j.stack) = "lbrace" THEN "key" ELSE "value"
    /\ r.str = "out" /\ r.key = j.key /\ r.stack = j.stack /\ Keeps(j, r)

Pairs(j, b, r) ==
    /\ b = "colon" /\ j.want = "colon" /\ r.want = "value"
    /\ r.str = "out" /\ r.key = j.key /\ r.stack = j.stack /\ Keeps(j, r)

JsonMove(j, b, at, r) ==
    \/ Waits(j, b, r) \/ Begins(j, b, at, r) \/ Names(j, b, at, r)
    \/ Closes(j, b, r) \/ Separates(j, b, r) \/ Pairs(j, b, r)

(* Outside a string the grammar makes one of those moves, or fails. *)
LEMMA JsonOutside ==
    ASSUME NEW j \in JsonState, NEW b \in Bytes, NEW at \in {1, 2}, j.str = "out",
           Live(j) => Len(j.stack) > 0
    PROVE  LET r == jsonStep(j, b, at)
           IN  /\ r \in JsonState
               /\ (r.want = "nothing" /\ r.str = "out") \/ (Live(j) /\ JsonMove(j, b, at, r))
<1>1. PICK r : r = jsonStep(j, b, at)
  OBVIOUS
<1>. DEFINE Goal == /\ r \in JsonState
                    /\ (r.want = "nothing" /\ r.str = "out") \/ (Live(j) /\ JsonMove(j, b, at, r))
<1>2. NotJSON \in JsonState /\ NotJSON.want = "nothing" /\ NotJSON.str = "out"
  BY EmptySeq DEF NotJSON, JsonState, Wants, StringStates
<1>3. CASE b = "space" /\ j.want # "end"
  <2>1. r = j
    BY <1>1, <1>3 DEF jsonStep, Openers
  <2>. QED
    BY <1>1, <1>3, <2>1 DEF JsonMove, Waits, Live
<1>4. CASE j.want \in {"value", "firstValue"} /\ b \in Openers \cup {"quote", "literal"}
  <2>1. r = jsonValue(j, b, at)
    BY <1>1, <1>4 DEF jsonStep, Openers
  <2>2. PICK n : n = IF Len(j.stack) = at - 1 THEN j.elems + 1 ELSE j.elems
    OBVIOUS
  <2>3. PICK h : h = IF Len(j.stack) = at - 1 THEN j.has \cup {kindOf(b)} ELSE j.has
    OBVIOUS
  <2>4. n \in Nat /\ h \in SUBSET {"object", "string", "other"}
    BY <2>2, <2>3 DEF JsonState, kindOf
  <2>5. PICK e : e = IF Len(j.stack) = at - 1
                     THEN [j EXCEPT !.elems = j.elems + 1, !.has = j.has \cup {kindOf(b)}] ELSE j
    OBVIOUS
  <2>6. e = [j EXCEPT !.elems = n, !.has = h]
    BY <2>2, <2>3, <2>5 DEF JsonState
  <2>7. /\ e \in JsonState /\ e.elems = n /\ e.has = h /\ e.stack = j.stack /\ e.str = j.str
        /\ e.key = j.key /\ e.ids = j.ids /\ e.escapes = j.escapes
    BY <2>4, <2>6 DEF JsonState
  <2>8. r = CASE b = "quote" -> [e EXCEPT !.str = "in", !.want = "value"]
              [] b = "literal" -> [e EXCEPT !.want = after(e.stack)]
              [] b = "lbrace" -> [e EXCEPT !.stack = Append(e.stack, b), !.want = "firstKey"]
              [] b = "lbracket" -> [e EXCEPT !.stack = Append(e.stack, b), !.want = "firstValue"]
    BY <2>1, <2>5, Zenon DEF jsonValue
  <2>9. ASSUME r \in JsonState, Begins(j, b, at, r) PROVE Goal
    BY <1>4, <2>9 DEF JsonMove, Live
  <2>10. CASE b = "quote"
    <3>1. r = [e EXCEPT !.str = "in", !.want = "value"]
      BY <2>8, <2>10
    <3>2. r \in JsonState /\ r.str = "in" /\ r.want = "value" /\ r.stack = e.stack
          /\ r.elems = n /\ r.has = h /\ r.key = j.key /\ r.ids = j.ids /\ r.escapes = j.escapes
      BY <2>7, <3>1 DEF JsonState, Wants, StringStates
    <3>5. Begins(j, b, at, r)
      BY <1>4, <2>2, <2>3, <2>7, <2>10, <3>2 DEF Begins, Openers, opened
    <3>. QED
      BY <1>1, <3>2, <2>9, <3>5
  <2>11. CASE b = "literal"
    <3>1. r = [e EXCEPT !.want = after(e.stack)]
      BY <2>8, <2>11
    <3>2. after(e.stack) = "more"
      BY <1>4, <2>7, EmptySeq DEF after, Live
    <3>3. r \in JsonState /\ r.str = j.str /\ r.want = "more" /\ r.stack = e.stack
          /\ r.elems = n /\ r.has = h /\ r.key = j.key /\ r.ids = j.ids /\ r.escapes = j.escapes
      BY <2>7, <3>1, <3>2 DEF JsonState, Wants
    <3>5. Begins(j, b, at, r)
      BY <1>4, <2>2, <2>3, <2>7, <2>11, <3>3 DEF Begins, Openers, opened
    <3>. QED
      BY <1>1, <3>3, <2>9, <3>5
  <2>12. CASE b \in Openers
    <3>1. PICK w \in {"firstKey", "firstValue"} :
             w = IF b = "lbrace" THEN "firstKey" ELSE "firstValue"
      OBVIOUS
    <3>2. r = [e EXCEPT !.stack = Append(e.stack, b), !.want = w]
      BY <2>8, <2>12, <3>1 DEF Openers
    <3>3. PICK t \in Seq(Openers) : t = Append(e.stack, b)
      BY <2>7, <2>12, Pushed DEF JsonState
    <3>4. r \in JsonState /\ r.str = j.str /\ r.want = w /\ r.stack = t
          /\ r.elems = n /\ r.has = h /\ r.key = j.key /\ r.ids = j.ids /\ r.escapes = j.escapes
      BY <2>7, <3>1, <3>2, <3>3 DEF JsonState, Wants
    <3>5. Begins(j, b, at, r)
      BY <1>4, <2>2, <2>3, <2>7, <2>12, <3>1, <3>3, <3>4 DEF Begins, Openers, opened
    <3>. QED
      BY <1>1, <3>4, <2>9, <3>5
  <2>. QED
    BY <1>1, <1>4, <2>10, <2>11, <2>12
<1>5. CASE j.want \in {"key", "firstKey"} /\ b = "quote"
  <2>1. PICK k \in {"noKey", "empty", "id", "other"} :
           k = IF Len(j.stack) = at THEN "empty" ELSE j.key
    BY DEF JsonState
  <2>2. r = [j EXCEPT !.str = "in", !.want = "key", !.key = k]
    BY <1>1, <1>5, <2>1 DEF jsonStep
  <2>3. r \in JsonState /\ r.str = "in" /\ r.want = "key" /\ r.stack = j.stack /\ r.key = k
        /\ Keeps(j, r)
    BY <2>2 DEF JsonState, Wants, StringStates, Keeps
  <2>. QED
    BY <1>1, <1>5, <2>1, <2>3 DEF JsonMove, Names, Live
<1>. DEFINE shuts == \/ b = "rbrace" /\ Top(j.stack) = "lbrace" /\ j.want \in {"firstKey", "more"}
                     \/ b = "rbracket" /\ Top(j.stack) = "lbracket"
                        /\ j.want \in {"firstValue", "more"}
<1>6. CASE shuts
  <2>1. r = [j EXCEPT !.stack = Pop(j.stack), !.want = after(Pop(j.stack))]
    BY <1>1, <1>6 DEF jsonStep
  <2>2. PICK t \in Seq(Openers) : t = Pop(j.stack)
    BY <1>6, Popped DEF JsonState, Live
  <2>3. PICK w \in {"end", "more"} : w = after(t)
    BY DEF after
  <2>4. r = [j EXCEPT !.stack = t, !.want = w]
    BY <2>1, <2>2, <2>3
  <2>5. r \in JsonState /\ r.str = "out" /\ r.want = w /\ r.stack = t /\ r.key = j.key /\ Keeps(j, r)
    BY <2>4 DEF JsonState, Wants, Keeps
  <2>. QED
    BY <1>1, <1>6, <2>2, <2>3, <2>5 DEF JsonMove, Closes, Live, Closers
<1>7. CASE b = "comma" /\ j.want = "more"
  <2>1. PICK w \in {"key", "value"} : w = IF Top(j.stack) = "lbrace" THEN "key" ELSE "value"
    OBVIOUS
  <2>2. r = [j EXCEPT !.want = w]
    BY <1>1, <1>7, <2>1 DEF jsonStep
  <2>3. r \in JsonState /\ r.str = "out" /\ r.want = w /\ r.stack = j.stack /\ r.key = j.key
        /\ Keeps(j, r)
    BY <2>2 DEF JsonState, Wants, Keeps
  <2>. QED
    BY <1>1, <1>7, <2>1, <2>3 DEF JsonMove, Separates, Live
<1>8. CASE b = "colon" /\ j.want = "colon"
  <2>1. r = [j EXCEPT !.want = "value"]
    BY <1>1, <1>8 DEF jsonStep
  <2>2. r \in JsonState /\ r.str = "out" /\ r.want = "value" /\ r.stack = j.stack /\ r.key = j.key
        /\ Keeps(j, r)
    BY <2>1 DEF JsonState, Wants, Keeps
  <2>. QED
    BY <1>1, <1>8, <2>2 DEF JsonMove, Pairs, Live
<1>9. CASE /\ ~(b = "space" /\ j.want # "end")
           /\ ~(j.want \in {"value", "firstValue"} /\ b \in Openers \cup {"quote", "literal"})
           /\ ~(j.want \in {"key", "firstKey"} /\ b = "quote")
           /\ ~shuts
           /\ ~(b = "comma" /\ j.want = "more")
           /\ ~(b = "colon" /\ j.want = "colon")
  <2>1. r = NotJSON
    BY <1>1, <1>9 DEF jsonStep
  <2>. QED
    BY <1>1, <1>2, <2>1
<1>. HIDE DEF shuts
<1>. QED
  BY <1>3, <1>4, <1>5, <1>6, <1>7, <1>8, <1>9

(* The move of the grammar on a byte inside a string. *)
JsonText(j, b, r) ==
    /\ r.stack = j.stack /\ r.elems = j.elems /\ r.has = j.has /\ r.str = inString(j.str, b)
    /\ r.str = "out" =>
          /\ r.want = IF j.want = "value" THEN "more" ELSE "colon"
          /\ r.key = "noKey" /\ r.escapes = j.escapes
          /\ (r.ids <=> j.ids \/ j.key = "id")
    /\ r.str # "out" =>
          /\ r.want = j.want /\ r.ids = j.ids
          /\ r.key = IF j.key = "noKey" \/ (j.str = "in" /\ b = "backslash")
                     THEN j.key ELSE decoded(j.key, j.str, b)
          /\ (r.escapes <=> j.escapes \/ (j.str = "in" /\ b = "backslash" /\ j.key # "noKey"))

(* Inside a string the grammar makes that move, or fails. *)
LEMMA JsonInside ==
    ASSUME NEW j \in JsonState, NEW b \in Bytes, NEW at \in {1, 2}, j.str # "out",
           Len(j.stack) > 0
    PROVE  LET r == jsonStep(j, b, at)
           IN  /\ r \in JsonState
               /\ (r.want = "nothing" /\ r.str = "out") \/ JsonText(j, b, r)
<1>1. PICK r : r = jsonStep(j, b, at)
  OBVIOUS
<1>2. r = jsonInString(j, b)
  BY <1>1 DEF jsonStep
<1>3. NotJSON \in JsonState /\ NotJSON.want = "nothing" /\ NotJSON.str = "out"
  BY EmptySeq DEF NotJSON, JsonState, Wants, StringStates
<1>4. j.str \in {"in", "escaped"}
  BY DEF JsonState, StringStates
<1>. DEFINE Goal == /\ r \in JsonState
                    /\ (r.want = "nothing" /\ r.str = "out") \/ JsonText(j, b, r)
<1>5. CASE j.str = "in" /\ b = "quote"
  <2>1. PICK i \in BOOLEAN : i = (j.ids \/ j.key = "id")
    OBVIOUS
  <2>2. PICK w \in {"more", "colon"} : w = IF j.want = "value" THEN "more" ELSE "colon"
    OBVIOUS
  <2>3. after(j.stack) = "more"
    BY EmptySeq DEF after
  <2>4. r = [j EXCEPT !.str = "out", !.key = "noKey", !.ids = i, !.want = w]
    BY <1>2, <1>5, <2>1, <2>2, <2>3 DEF jsonInString
  <2>5. r \in JsonState /\ r.str = "out" /\ r.key = "noKey" /\ r.ids = i /\ r.want = w
        /\ r.stack = j.stack /\ r.elems = j.elems /\ r.has = j.has /\ r.escapes = j.escapes
    BY <2>4 DEF JsonState, Wants, StringStates
  <2>6. JsonText(j, b, r)
    BY <1>5, <2>1, <2>2, <2>5 DEF JsonText, inString
  <2>. QED
    BY <1>1, <2>5, <2>6
<1>6. CASE j.str = "in" /\ b = "backslash"
  <2>1. PICK e \in BOOLEAN : e = (j.escapes \/ j.key # "noKey")
    OBVIOUS
  <2>2. r = [j EXCEPT !.str = "escaped", !.escapes = e]
    BY <1>2, <1>6, <2>1 DEF jsonInString
  <2>3. r \in JsonState /\ r.str = "escaped" /\ r.key = j.key /\ r.ids = j.ids /\ r.want = j.want
        /\ r.stack = j.stack /\ r.elems = j.elems /\ r.has = j.has /\ r.escapes = e
    BY <2>2 DEF JsonState, Wants, StringStates
  <2>4. JsonText(j, b, r)
    BY <1>6, <2>1, <2>3 DEF JsonText, inString
  <2>. QED
    BY <1>1, <2>3, <2>4
<1>7. CASE j.str = "escaped" /\ b \notin {"quote", "backslash", "u0069d"}
  <2>1. r = NotJSON
    BY <1>2, <1>7 DEF jsonInString
  <2>. QED
    BY <1>1, <1>3, <2>1
<1>8. CASE /\ ~(j.str = "in" /\ b \in {"quote", "backslash"})
           /\ ~(j.str = "escaped" /\ b \notin {"quote", "backslash", "u0069d"})
  <2>1. PICK k \in {"noKey", "id", "other"} :
           k = IF j.key = "noKey" THEN j.key ELSE decoded(j.key, j.str, b)
    BY DEF decoded
  <2>2. r = [j EXCEPT !.str = "in", !.key = k]
    BY <1>2, <1>8, <2>1 DEF jsonInString
  <2>3. r \in JsonState /\ r.str = "in" /\ r.key = k /\ r.ids = j.ids /\ r.want = j.want
        /\ r.stack = j.stack /\ r.elems = j.elems /\ r.has = j.has /\ r.escapes = j.escapes
    BY <2>2 DEF JsonState, Wants, StringStates
  <2>4. JsonText(j, b, r)
    BY <1>4, <1>8, <2>1, <2>3 DEF JsonText, inString
  <2>. QED
    BY <1>1, <2>3, <2>4
<1>. QED
  BY <1>5, <1>6, <1>7, <1>8

(* Whatever the next byte is. *)
LEMMA GrammaticalStep ==
    ASSUME NEW f \in Openers, NEW at \in {1, 2}, NEW j, NEW b \in Bytes, Grammatical(j, f, at)
    PROVE  Grammatical(jsonStep(j, b, at), f, at)
<1>1. j \in JsonState
  BY DEF Grammatical
<1>2. PICK r : r = jsonStep(j, b, at)
  OBVIOUS
<1>3. CASE j.str # "out"
  <2>1. /\ Live(j) /\ Len(j.stack) > 0 /\ j.want \in {"value", "key"}
        /\ j.want = "key" => Top(j.stack) = "lbrace"
        /\ j.stack[1] = f
        /\ j.key # "noKey" => j.want = "key"
        /\ j.want = "key" => (j.key # "noKey" <=> Len(j.stack) = at)
    BY <1>3 DEF Grammatical
  <2>2. r \in JsonState /\ ((r.want = "nothing" /\ r.str = "out") \/ JsonText(j, b, r))
    BY <1>1, <1>2, <1>3, <2>1, JsonInside
  <2>3. CASE r.want = "nothing" /\ r.str = "out"
    BY <1>2, <2>2, <2>3 DEF Grammatical, Live
  <2>4. CASE JsonText(j, b, r) /\ r.str = "out"
    BY <1>2, <2>1, <2>2, <2>4 DEF JsonText, Grammatical, Live
  <2>5. CASE JsonText(j, b, r) /\ r.str # "out"
    <3>1. r.key = "noKey" <=> j.key = "noKey"
      BY <2>5 DEF JsonText, decoded
    <3>2. r.stack = j.stack /\ r.want = j.want
      BY <2>5 DEF JsonText
    <3>. QED
      BY <1>2, <2>1, <2>2, <2>5, <3>1, <3>2 DEF Grammatical, Live
  <2>. QED
    BY <2>2, <2>3, <2>4, <2>5
<1>4. CASE j.str = "out"
  <2>1. Live(j) => /\ Len(j.stack) > 0 /\ j.stack[1] = f /\ j.key = "noKey"
                   /\ j.want \in {"firstKey", "key", "colon"} => Top(j.stack) = "lbrace"
    BY <1>4 DEF Grammatical
  <2>2. r \in JsonState
        /\ ((r.want = "nothing" /\ r.str = "out") \/ (Live(j) /\ JsonMove(j, b, at, r)))
    BY <1>1, <1>2, <1>4, <2>1, JsonOutside
  <2>3. CASE r.want = "nothing" /\ r.str = "out"
    BY <1>2, <2>2, <2>3 DEF Grammatical, Live
  <2>4. CASE Live(j) /\ JsonMove(j, b, at, r)
    <3>1. CASE Waits(j, b, r)
      BY <1>2, <3>1 DEF Waits
    <3>2. CASE Begins(j, b, at, r)
      <4>1. CASE b \in Openers
        <5>1. r.stack = Append(j.stack, b) /\ r.str = "out" /\ r.key = "noKey"
          BY <2>1, <2>4, <3>2, <4>1 DEF Begins, opened, Openers
        <5>2. Len(r.stack) > 0 /\ r.stack[1] = f /\ Top(r.stack) = b
          BY <1>1, <2>1, <2>4, <4>1, <5>1, Pushed DEF JsonState
        <5>3. r.want \in {"firstKey", "firstValue"} /\ (r.want = "firstKey" => b = "lbrace")
          BY <3>2, <4>1 DEF Begins, Openers
        <5>. QED
          BY <1>2, <2>2, <5>1, <5>2, <5>3 DEF Grammatical, Live
      <4>2. CASE b \in {"quote", "literal"}
        <5>1. r.stack = j.stack /\ r.key = "noKey" /\ r.want \in {"value", "more"}
              /\ (r.str # "out" => r.want = "value")
          BY <2>1, <2>4, <3>2, <4>2 DEF Begins, opened, Openers
        <5>. QED
          BY <1>2, <2>1, <2>2, <2>4, <5>1 DEF Grammatical, Live
      <4>. QED
        BY <3>2, <4>1, <4>2 DEF Begins
    <3>3. CASE Names(j, b, at, r)
      <4>1. r.stack = j.stack /\ r.want = "key" /\ r.str = "in"
            /\ r.key = IF Len(j.stack) = at THEN "empty" ELSE "noKey"
        BY <2>1, <2>4, <3>3 DEF Names
      <4>2. Top(j.stack) = "lbrace"
        BY <2>1, <2>4, <3>3 DEF Names
      <4>. QED
        BY <1>2, <2>1, <2>2, <2>4, <4>1, <4>2 DEF Grammatical, Live
    <3>4. CASE Closes(j, b, r)
      <4>1. r.stack = Pop(j.stack) /\ r.want = after(r.stack) /\ r.str = "out" /\ r.key = "noKey"
        BY <2>1, <2>4, <3>4 DEF Closes
      <4>2. CASE r.stack = << >>
        BY <1>2, <2>2, <4>1, <4>2 DEF Grammatical, Live, after
      <4>3. CASE r.stack # << >>
        <5>1. r.want = "more" /\ Len(j.stack) \in Nat /\ Len(j.stack) # 1
          BY <1>1, <2>1, <2>4, <4>1, <4>3, Popped DEF after, JsonState
        <5>2. Len(r.stack) > 0 /\ r.stack[1] = f
          <6>1. /\ Len(r.stack) = Len(j.stack) - 1
                /\ \A i \in 1 .. Len(j.stack) - 1 : r.stack[i] = j.stack[i]
            BY <1>1, <2>1, <2>4, <4>1, Popped DEF JsonState
          <6>2. PICK n : n = Len(j.stack)
            OBVIOUS
          <6>3. n \in Nat /\ n # 1 /\ n > 0
            <7>1. n \in Nat
              BY <5>1, <6>2
            <7>2. n # 1
              BY <5>1, <6>2
            <7>3. n > 0
              BY <2>1, <2>4, <6>2
            <7>. QED
              BY <7>1, <7>2, <7>3
          <6>4. 1 \in 1 .. n - 1
            BY <6>3
          <6>. QED
            BY <2>1, <2>4, <6>1, <6>2, <6>3, <6>4
        <5>. QED
          BY <1>2, <2>2, <4>1, <5>1, <5>2 DEF Grammatical, Live
      <4>. QED
        BY <4>2, <4>3
    <3>5. CASE Separates(j, b, r)
      BY <1>2, <2>1, <2>2, <2>4, <3>5 DEF Separates, Grammatical, Live
    <3>6. CASE Pairs(j, b, r)
      BY <1>2, <2>1, <2>2, <2>4, <3>6 DEF Pairs, Grammatical, Live
    <3>. QED
      BY <2>4, <3>1, <3>2, <3>3, <3>4, <3>5, <3>6 DEF JsonMove
  <2>. QED
    BY <2>2, <2>3, <2>4
<1>. QED
  BY <1>3, <1>4

GrammarInv ==
    /\ form \in Openers
    /\ Grammatical(json, form, keyDepth(form))

(* After every payload: the decoder's brackets and keys are in order for   *)
(* as long as it has not refused it.                                       *)
THEOREM ScanGrammar == ScanSpec => []GrammarInv
<1>1. ScanInit => GrammarInv
  <2>. SUFFICES ASSUME ScanInit PROVE GrammarInv
    OBVIOUS
  <2>1. form \in Openers
    BY FormsAssumption DEF ScanInit, Openers
  <2>2. PICK t : t = <<form>>
    OBVIOUS
  <2>3. t \in Seq(Openers) /\ Len(t) = 1 /\ t[1] = form /\ t # << >>
    BY <2>1, <2>2
  <2>4. Top(t) = form
    BY <2>3 DEF Top
  <2>5. PICK w \in {"firstKey", "firstValue"} :
           w = IF form = "lbrace" THEN "firstKey" ELSE "firstValue"
    OBVIOUS
  <2>6. PICK n \in Nat : n = IF form = "lbrace" THEN 1 ELSE 0
    OBVIOUS
  <2>7. PICK h \in SUBSET {"object", "string", "other"} :
           h = IF form = "lbrace" THEN {"object"} ELSE {}
    OBVIOUS
  <2>8. json = [stack |-> t, want |-> w, str |-> "out", key |-> "noKey",
                elems |-> n, ids |-> FALSE, escapes |-> FALSE, has |-> h]
    BY <2>2, <2>5, <2>6, <2>7, Zenon DEF ScanInit, jsonFirst, NotJSON
  <2>9. /\ json \in JsonState /\ json.stack = t /\ json.want = w /\ json.str = "out"
        /\ json.key = "noKey"
    BY <2>3, <2>8 DEF JsonState, Wants, StringStates
  <2>. QED
    BY <2>1, <2>3, <2>4, <2>5, <2>9 DEF GrammarInv, Grammatical, Live
<1>2. GrammarInv /\ [ScanNext]_scanVars => GrammarInv'
  <2>. SUFFICES ASSUME GrammarInv, [ScanNext]_scanVars PROVE GrammarInv'
    OBVIOUS
  <2>1. CASE UNCHANGED scanVars
    BY <2>1 DEF scanVars, GrammarInv
  <2>2. ASSUME NEW b \in Bytes, Feed(b) PROVE GrammarInv'
    <3>1. form' = form /\ json' = jsonStep(json, b, keyDepth(form))
      BY <2>2 DEF Feed
    <3>2. keyDepth(form) \in {1, 2}
      BY DEF keyDepth
    <3>. QED
      BY <3>1, <3>2, GrammaticalStep DEF GrammarInv
  <2>. QED
    BY <2>1, <2>2 DEF ScanNext
<1>. QED
  BY <1>1, <1>2, PTL DEF ScanSpec

(***************************************************************************)
(* splitBatchElements follows the grammar: the same string, one level less *)
(* for the bracket it skipped, and every element the grammar counts is one *)
(* it has cut off or has open.  Between elements it knows what the grammar *)
(* wants.                                                                  *)
(***************************************************************************)
Follows(j, s) ==
    /\ s.ok /\ s.str = j.str
    /\ Len(j.stack) = s.depth + 1
    /\ j.elems = splitLen(s)
    /\ s.depth = 0 /\ s.str = "out" =>
          /\ s.start <=> j.want = "more"
          /\ j.want = "firstValue" => s.elems = 0

(* One byte outside a string, which splitBatchElements does not refuse. *)
LEMMA SplitOutside ==
    ASSUME NEW s \in SplitState, NEW b \in Bytes, s.ok, s.str = "out",
           ~(s.depth = 0 /\ (b \in Closers \/ (b = "comma" /\ ~s.start)))
    PROVE  LET r == splitStep(s, b)
               cuts == b = "comma" /\ s.depth = 0
           IN  /\ r.ok /\ r.depth = s.depth + nesting(b) /\ r.str = opened(b)
               /\ r.elems = IF cuts THEN s.elems + 1 ELSE s.elems
               /\ (r.start <=> ~cuts /\ (s.start \/ b \notin Closers \cup {"comma", "space"}))
<1>1. PICK r : r = splitStep(s, b)
  OBVIOUS
<1>2. PICK c \in BOOLEAN :
         c = IF b = "comma" /\ s.depth = 0 THEN FALSE
             ELSE s.start \/ b \notin Closers \cup {"comma", "space"}
  OBVIOUS
<1>3. r = [depth |-> s.depth + nesting(b), str |-> opened(b),
           elems |-> IF b = "comma" /\ s.depth = 0 THEN s.elems + 1 ELSE s.elems,
           start |-> c, ok |-> TRUE]
  BY <1>1, <1>2, Zenon DEF splitStep
<1>4. /\ r.ok /\ r.depth = s.depth + nesting(b) /\ r.str = opened(b) /\ r.start = c
      /\ r.elems = IF b = "comma" /\ s.depth = 0 THEN s.elems + 1 ELSE s.elems
  BY <1>3
<1>5. r.start <=> ~(b = "comma" /\ s.depth = 0)
                  /\ (s.start \/ b \notin Closers \cup {"comma", "space"})
  BY <1>2, <1>4
<1>. QED
  BY <1>1, <1>4, <1>5

(* splitStep refuses no byte the grammar accepts, and counts as it does. *)
LEMMA FollowsStep ==
    ASSUME NEW j, NEW s \in SplitState, NEW b \in Bytes,
           Grammatical(j, "lbracket", 2), Live(j), Open(s), Follows(j, s),
           Live(jsonStep(j, b, 2))
    PROVE  Follows(jsonStep(j, b, 2), splitStep(s, b))
<1>1. j \in JsonState
  BY DEF Grammatical
<1>2. PICK r : r = jsonStep(j, b, 2)
  OBVIOUS
<1>3. PICK s2 : s2 = splitStep(s, b)
  OBVIOUS
<1>4. /\ s.ok /\ s.str = j.str /\ Len(j.stack) = s.depth + 1 /\ j.elems = splitLen(s)
      /\ s.depth \in Nat /\ s.elems \in Nat /\ Len(j.stack) > 0 /\ r.want # "nothing"
  BY <1>2 DEF Follows, SplitState, Grammatical, Live
<1>5. CASE j.str # "out"
  <2>1. JsonText(j, b, r)
    BY <1>1, <1>2, <1>4, <1>5, JsonInside
  <2>2. s2 = [s EXCEPT !.str = inString(s.str, b)]
    BY <1>3, <1>4, <1>5 DEF splitStep
  <2>3. /\ s2.ok /\ s2.str = inString(s.str, b) /\ s2.depth = s.depth /\ s2.elems = s.elems
        /\ s2.start = s.start /\ s.start
    BY <1>4, <1>5, <2>2 DEF SplitState, Open
  <2>4. r.stack = j.stack /\ r.elems = j.elems /\ r.str = inString(j.str, b)
    BY <2>1 DEF JsonText
  <2>5. s.depth = 0 => j.want = "value"
    BY <1>4, <1>5 DEF Grammatical, Top
  <2>6. s.depth = 0 /\ r.str = "out" => r.want = "more"
    BY <2>1, <2>5 DEF JsonText
  <2>. QED
    BY <1>2, <1>3, <1>4, <2>3, <2>4, <2>6 DEF Follows, splitLen
<1>6. CASE j.str = "out"
  <2>1. JsonMove(j, b, 2, r)
    BY <1>1, <1>2, <1>4, <1>6, JsonOutside
  <2>2. s.depth = 0 => /\ j.want \notin {"firstKey", "key", "colon"}
                       /\ s.start <=> j.want = "more"
                       /\ j.want = "firstValue" => s.elems = 0
    BY <1>4, <1>6 DEF Follows, Grammatical, Top
  <2>3. s.depth > 0 => s.start
    BY DEF Open
  <2>. DEFINE refused == s.depth = 0 /\ (b \in Closers \/ (b = "comma" /\ ~s.start))
              cuts == b = "comma" /\ s.depth = 0
              starts == ~cuts /\ (s.start \/ b \notin Closers \cup {"comma", "space"})
              elems == IF cuts THEN s.elems + 1 ELSE s.elems
  <2>4. ~refused => /\ s2.ok /\ s2.depth = s.depth + nesting(b) /\ s2.str = opened(b)
                    /\ s2.elems = elems /\ (s2.start <=> starts)
    BY <1>3, <1>4, <1>6, SplitOutside
  <2>5. "rbrace" \in Closers /\ "rbracket" \in Closers
        /\ Closers \cap (Openers \cup {"quote", "literal", "comma", "colon", "space"}) = {}
        /\ Openers \cap {"quote", "literal", "comma", "colon", "space"} = {}
    BY DEF Closers, Openers
  <2>6. CASE Waits(j, b, r)
    <3>1. r = j /\ b = "space"
      BY <2>6 DEF Waits
    <3>2. s2.ok /\ s2.depth = s.depth /\ s2.str = "out" /\ s2.elems = s.elems
          /\ (s2.start <=> s.start)
      BY <1>4, <2>4, <2>5, <3>1 DEF nesting, opened
    <3>. QED
      BY <1>2, <1>3, <1>4, <1>6, <2>2, <3>1, <3>2 DEF Follows, splitLen
  <2>7. CASE Begins(j, b, 2, r)
    <3>1. j.want \in {"value", "firstValue"} /\ b \in Openers \cup {"quote", "literal"}
          /\ r.elems = (IF Len(j.stack) = 1 THEN j.elems + 1 ELSE j.elems)
          /\ r.stack = (IF b \in Openers THEN Append(j.stack, b) ELSE j.stack)
          /\ r.str = opened(b)
      BY <2>7 DEF Begins
    <3>2. b \notin Closers /\ b \notin {"comma", "space"}
      BY <2>5, <3>1
    <3>3. s2.ok /\ s2.depth = s.depth + nesting(b) /\ s2.str = opened(b)
          /\ s2.elems = s.elems /\ s2.start
      BY <2>4, <3>2
    <3>4. Len(r.stack) = s2.depth + 1
      BY <1>1, <1>4, <2>5, <3>1, <3>2, <3>3, Pushed DEF JsonState, nesting
    <3>5. r.elems = s.elems + 1
      BY <1>4, <2>2, <2>3, <3>1 DEF splitLen
    <3>6. s2.depth = 0 /\ s2.str = "out" => r.want = "more"
      BY <1>4, <2>7, <3>1, <3>3 DEF Begins, nesting, opened, Openers
    <3>. QED
      BY <1>2, <1>3, <3>1, <3>3, <3>4, <3>5, <3>6 DEF Follows, splitLen
  <2>8. CASE Names(j, b, 2, r)
    <3>1. b = "quote" /\ s.depth > 0 /\ r.stack = j.stack /\ r.str = "in" /\ r.elems = j.elems
      BY <1>4, <2>2, <2>8 DEF Names, Keeps
    <3>2. s2.ok /\ s2.depth = s.depth /\ s2.str = "in" /\ s2.elems = s.elems /\ s2.start
      BY <1>4, <2>3, <2>4, <2>5, <3>1 DEF nesting, opened
    <3>. QED
      BY <1>2, <1>3, <1>4, <2>3, <3>1, <3>2 DEF Follows, splitLen
  <2>9. CASE Closes(j, b, r)
    <3>1. b \in Closers /\ r.stack = Pop(j.stack) /\ r.want = after(r.stack) /\ r.str = "out"
          /\ r.elems = j.elems
      BY <2>9 DEF Closes, Keeps
    <3>2. r.want = "more" /\ r.stack # << >>
      BY <1>2, <3>1 DEF after, Live
    <3>3. Len(r.stack) = s.depth /\ s.depth > 0
      BY <1>1, <1>4, <3>1, <3>2, Popped DEF JsonState
    <3>4. nesting(b) = -1 /\ opened(b) = "out" /\ b # "comma"
      BY <2>5, <3>1 DEF nesting, opened, Closers, Openers
    <3>5. s2.ok /\ s2.depth = s.depth - 1 /\ s2.str = "out" /\ s2.elems = s.elems /\ s2.start
      BY <1>4, <2>3, <2>4, <3>3, <3>4
    <3>. QED
      BY <1>2, <1>3, <1>4, <2>3, <3>1, <3>2, <3>3, <3>5 DEF Follows, splitLen
  <2>10. CASE Separates(j, b, r)
    <3>1. b = "comma" /\ j.want = "more" /\ r.stack = j.stack /\ r.str = "out"
          /\ r.elems = j.elems /\ r.want \in {"key", "value"}
      BY <2>10 DEF Separates, Keeps
    <3>2. s.start
      BY <1>4, <2>2, <2>3, <3>1
    <3>3. nesting(b) = 0 /\ opened(b) = "out" /\ b \notin Closers
      BY <2>5, <3>1 DEF nesting, opened
    <3>4. s2.ok /\ s2.depth = s.depth /\ s2.str = "out"
          /\ s2.elems = (IF s.depth = 0 THEN s.elems + 1 ELSE s.elems)
          /\ (s2.start <=> s.depth # 0)
      BY <1>4, <2>4, <3>1, <3>2, <3>3
    <3>. QED
      BY <1>2, <1>3, <1>4, <3>1, <3>2, <3>4 DEF Follows, splitLen
  <2>11. CASE Pairs(j, b, r)
    <3>1. b = "colon" /\ s.depth > 0 /\ r.stack = j.stack /\ r.str = "out" /\ r.elems = j.elems
      BY <1>4, <2>2, <2>11 DEF Pairs, Keeps
    <3>2. s2.ok /\ s2.depth = s.depth /\ s2.str = "out" /\ s2.elems = s.elems /\ s2.start
      BY <1>4, <2>3, <2>4, <2>5, <3>1 DEF nesting, opened
    <3>. QED
      BY <1>2, <1>3, <1>4, <2>3, <3>1, <3>2 DEF Follows, splitLen
  <2>. QED
    BY <2>1, <2>6, <2>7, <2>8, <2>9, <2>10, <2>11 DEF JsonMove
<1>. QED
  BY <1>5, <1>6

(* What fails stays failed, and what has ended takes no further byte. *)
LEMMA LiveBefore ==
    ASSUME NEW f, NEW at \in {1, 2}, NEW j, NEW b \in Bytes, Grammatical(j, f, at),
           Live(jsonStep(j, b, at))
    PROVE  Live(j)
<1>1. SUFFICES ASSUME ~Live(j) PROVE FALSE
  OBVIOUS
<1>2. j \in JsonState /\ j.str = "out"
  BY <1>1 DEF Grammatical
<1>3. jsonStep(j, b, at).want = "nothing"
  BY <1>1, <1>2, JsonOutside
<1>. QED
  BY <1>3 DEF Live

(* A payload ends with the closer of its first bracket. *)
LEMMA EndsClosing ==
    ASSUME NEW f \in Openers, NEW at \in {1, 2}, NEW j, NEW b \in Closers,
           Grammatical(j, f, at), jsonStep(j, b, at).want = "end"
    PROVE  /\ j \in JsonState /\ Live(j) /\ j.str = "out" /\ Len(j.stack) = 1
           /\ Closes(j, b, jsonStep(j, b, at))
<1>1. b \in Bytes /\ b \notin {"space", "quote", "literal", "comma", "colon"} /\ b \notin Openers
  BY DEF Bytes, Closers, Openers
<1>2. j \in JsonState
  BY DEF Grammatical
<1>3. PICK r : r = jsonStep(j, b, at)
  OBVIOUS
<1>4. r.want = "end"
  BY <1>3
<1>5. j.str = "out"
  <2>1. SUFFICES ASSUME j.str # "out" PROVE FALSE
    OBVIOUS
  <2>2. Live(j) /\ Len(j.stack) > 0 /\ j.want \in {"value", "key"}
    BY <2>1 DEF Grammatical
  <2>3. JsonText(j, b, r)
    BY <1>1, <1>2, <1>3, <1>4, <2>1, <2>2, JsonInside
  <2>. QED
    BY <1>4, <2>2, <2>3 DEF JsonText
<1>6. Live(j) => Len(j.stack) > 0
  BY DEF Grammatical
<1>7. Live(j) /\ JsonMove(j, b, at, r)
  BY <1>1, <1>2, <1>3, <1>4, <1>5, <1>6, JsonOutside
<1>8. Closes(j, b, r)
  BY <1>1, <1>7 DEF JsonMove, Waits, Begins, Names, Separates, Pairs
<1>9. Pop(j.stack) = << >>
  BY <1>4, <1>8 DEF Closes, after
<1>10. Len(j.stack) = 1
  BY <1>2, <1>6, <1>7, <1>9, Popped DEF JsonState
<1>. QED
  BY <1>2, <1>3, <1>5, <1>7, <1>8, <1>10

FollowInv == form = "lbracket" /\ Live(json) => Follows(json, split)

(* After every array that may still be JSON, splitBatchElements is where   *)
(* the grammar is.                                                         *)
THEOREM ScanFollows == ScanSpec => []FollowInv
<1>1. ScanInit => FollowInv
  <2>. SUFFICES ASSUME ScanInit, form = "lbracket" PROVE Follows(json, split)
    BY DEF FollowInv
  <2>1. split.ok /\ split.str = "out" /\ split.depth = 0 /\ split.elems = 0 /\ ~split.start
    BY DEF ScanInit, Broken
  <2>2. PICK t : t = <<form>>
    OBVIOUS
  <2>3. json.stack = t /\ json.want = "firstValue" /\ json.str = "out" /\ json.elems = 0
    BY <2>2 DEF ScanInit, jsonFirst, NotJSON
  <2>4. Len(t) = 1
    BY <2>2
  <2>. QED
    BY <2>1, <2>3, <2>4 DEF Follows, splitLen
<1>2. ScanInv /\ GrammarInv /\ FollowInv /\ [ScanNext]_scanVars => FollowInv'
  <2>. SUFFICES ASSUME ScanInv, GrammarInv, FollowInv, [ScanNext]_scanVars,
                       form' = "lbracket", Live(json)'
                PROVE  Follows(json', split')
    BY DEF FollowInv
  <2>1. CASE UNCHANGED scanVars
    BY <2>1 DEF scanVars, FollowInv, Live
  <2>2. ASSUME NEW b \in Bytes, Feed(b) PROVE Follows(json', split')
    <3>1. /\ form = "lbracket" /\ json' = jsonStep(json, b, 2) /\ split' = splitStep(split, b)
          /\ Grammatical(json, "lbracket", 2)
      BY <2>2 DEF Feed, keyDepth, GrammarInv
    <3>2. Live(jsonStep(json, b, 2))
      BY <3>1 DEF Live
    <3>3. Live(json)
      BY <3>1, <3>2, LiveBefore
    <3>4. Follows(json, split)
      BY <3>1, <3>3 DEF FollowInv
    <3>5. split \in SplitState /\ Open(split)
      BY <3>4 DEF ScanInv, Agree, Follows
    <3>. QED
      BY <3>1, <3>2, <3>3, <3>4, <3>5, FollowsStep
  <2>. QED
    BY <2>1, <2>2 DEF ScanNext
<1>. QED
  BY <1>1, <1>2, ScanInvariant, ScanGrammar, PTL DEF ScanSpec

(* SplitMatchesJSON for every array, of whatever length and nesting: what  *)
(* the decoder accepts, splitBatchElements splits, into as many elements.  *)
THEOREM ScanSplitMatchesJSON == ScanSpec => []SplitMatchesJSON
<1>1. ScanInv /\ GrammarInv /\ FollowInv => SplitMatchesJSON
  <2>. SUFFICES ASSUME ScanInv, GrammarInv, FollowInv, form = "lbracket", valid
                PROVE  splitOk(split) /\ splitLen(split) = json.elems
    BY DEF SplitMatchesJSON
  <2>1. Grammatical(json, "lbracket", 2) /\ jsonStep(json, "rbracket", 2).want = "end"
    BY DEF GrammarInv, keyDepth, valid, parsed, closer
  <2>2. "rbracket" \in Closers /\ "lbracket" \in Openers
    BY DEF Closers, Openers
  <2>3. /\ Live(json) /\ json.str = "out" /\ Len(json.stack) = 1
        /\ Closes(json, "rbracket", jsonStep(json, "rbracket", 2))
    BY <2>1, <2>2, EndsClosing
  <2>4. Follows(json, split)
    BY <2>3 DEF FollowInv
  <2>5. json.want \in {"firstValue", "more"}
    BY <2>1, <2>3 DEF Closes, Grammatical
  <2>6. split.depth = 0
    <3>1. split.depth \in Nat
      BY DEF ScanInv, Agree, SplitState
    <3>2. PICK n : n = Len(json.stack)
      OBVIOUS
    <3>3. n = split.depth + 1
      BY <2>4, <3>2 DEF Follows
    <3>4. n = 1
      BY <2>3, <3>2
    <3>. QED
      BY <3>1, <3>3, <3>4
  <2>. QED
    BY <2>3, <2>4, <2>5, <2>6 DEF Follows, splitOk
<1>. QED
  BY <1>1, ScanInvariant, ScanGrammar, ScanFollows, PTL

(***************************************************************************)
(* lacksResponseID follows the grammar too.  As long as it has not given   *)
(* up it knows whether a string is a key of a request, has met no id and   *)
(* only objects and strings as elements; it gives up only for an id, for   *)
(* an escaped key or for an element that is neither.                       *)
(***************************************************************************)
KeyWants == {"firstKey", "key", "colon"}

(* Where the scan is. *)
SamePlace(l, j, at) ==
    /\ l.depth = Len(j.stack) /\ l.str = j.str /\ ~l.closed
    /\ Len(j.stack) >= at => j.stack[at] = "lbrace"
    /\ Len(j.stack) = at => (l.keyPos <=> j.want \in KeyWants)
    /\ Len(j.stack) > at => ~l.keyPos

(* What it has made of the key it is in: until a backslash, what it means. *)
SameKey(l, j) ==
    /\ l.key = "noKey" <=> j.key = "noKey"
    /\ j.key = "noKey" => ~l.escapes
    /\ j.key # "noKey" /\ ~l.escapes => l.key = j.key /\ j.str = "in"
    /\ l.escapes => j.escapes

(* What it has met. *)
SameFinds(l, j) ==
    /\ ~j.ids /\ "other" \notin j.has
    /\ l.sawElement <=> "object" \in j.has

Reads(l, j, at) ==
    /\ at = 1 => "object" \in j.has
    /\ l.quiet => SamePlace(l, j, at) /\ SameKey(l, j) /\ SameFinds(l, j)
    /\ ~l.quiet => j.ids \/ j.escapes \/ "other" \in j.has

ReadInv ==
    /\ lacks \in LacksState
    /\ Live(json) => Reads(lacks, json, keyDepth(form))

(* The grammar forgets nothing it has found. *)
LEMMA FindsStay ==
    ASSUME NEW j, NEW b, NEW at, NEW r, JsonText(j, b, r) \/ JsonMove(j, b, at, r)
    PROVE  /\ j.ids => r.ids
           /\ j.escapes => r.escapes
           /\ j.has \subseteq r.has
<1>1. CASE JsonText(j, b, r)
  BY <1>1 DEF JsonText
<1>2. CASE JsonMove(j, b, at, r)
  BY <1>2 DEF JsonMove, Waits, Begins, Names, Closes, Separates, Pairs, Keeps
<1>. QED
  BY <1>1, <1>2

(* A byte of a string. *)
LEMMA ReadsInside ==
    ASSUME NEW at \in {1, 2}, NEW l \in LacksState, NEW j \in JsonState, NEW b \in Bytes, NEW r,
           JsonText(j, b, r), Reads(l, j, at), l.quiet, j.str # "out",
           j.want \in {"value", "key"}, Len(j.stack) > 0,
           j.key # "noKey" => j.want = "key"
    PROVE  Reads(lacksStep(l, b, at), r, at)
<1>1. PICK l2 \in LacksState : l2 = lacksStep(l, b, at)
  BY LacksType
<1>2. SamePlace(l, j, at) /\ SameKey(l, j) /\ SameFinds(l, j)
  BY DEF Reads
<1>3. l.str = j.str /\ j.str \in {"in", "escaped"}
  BY <1>2 DEF SamePlace, JsonState, StringStates
<1>. DEFINE ends == j.str = "in" /\ b = "quote"
<1>4. /\ l2.quiet <=> ~(ends /\ l.key # "noKey" /\ (l.escapes \/ l.key = "id"))
      /\ l2.quiet =>
            /\ l2.depth = l.depth /\ l2.str = inString(j.str, b)
            /\ l2.keyPos <=> l.keyPos
            /\ l2.key = IF ends \/ l.key = "noKey" THEN "noKey" ELSE spelled(l.key, b)
            /\ l2.escapes <=> ~ends /\ (l.escapes \/ (l.key # "noKey" /\ j.str = "in"
                                                       /\ b = "backslash"))
            /\ l2.sawElement <=> l.sawElement
            /\ l2.closed <=> l.closed
  BY <1>1, <1>3, LacksInside
<1>5. ends <=> r.str = "out"
  BY <1>3 DEF JsonText, inString
<1>. HIDE DEF ends
<1>6. at = 1 => "object" \in r.has
  BY DEF Reads, JsonText
<1>7. CASE ~l2.quiet
  <2>1. r.str = "out" /\ l.key # "noKey" /\ (l.escapes \/ l.key = "id")
    BY <1>4, <1>5, <1>7
  <2>2. r.escapes = j.escapes /\ (r.ids <=> j.ids \/ j.key = "id")
    BY <2>1 DEF JsonText
  <2>3. CASE l.escapes
    BY <1>1, <1>2, <1>6, <1>7, <2>2, <2>3 DEF SameKey, Reads
  <2>4. CASE ~l.escapes
    BY <1>1, <1>2, <1>6, <1>7, <2>1, <2>2, <2>4 DEF SameKey, Reads
  <2>. QED
    BY <2>3, <2>4
<1>8. CASE l2.quiet
  <2>1. SamePlace(l2, r, at)
    <3>1. r.stack = j.stack /\ r.str = inString(j.str, b)
      BY DEF JsonText
    <3>2. r.want \in KeyWants <=> j.want \in KeyWants
      BY <1>5 DEF JsonText, KeyWants
    <3>. QED
      BY <1>2, <1>4, <1>8, <3>1, <3>2 DEF SamePlace
  <2>2. SameFinds(l2, r)
    <3>1. r.has = j.has
      BY DEF JsonText
    <3>2. ~r.ids
      <4>1. CASE ends
        <5>1. r.ids <=> j.ids \/ j.key = "id"
          BY <1>5, <4>1 DEF JsonText
        <5>2. l.key = "noKey" \/ (~l.escapes /\ l.key # "id")
          BY <1>4, <1>8, <4>1
        <5>. QED
          BY <1>2, <5>1, <5>2 DEF SameKey, SameFinds
      <4>2. CASE ~ends
        BY <1>2, <1>5, <4>2 DEF JsonText, SameFinds
      <4>. QED
        BY <4>1, <4>2
    <3>. QED
      BY <1>2, <1>4, <1>8, <3>1, <3>2 DEF SameFinds
  <2>3. SameKey(l2, r)
    <3>1. CASE ends
      BY <1>4, <1>5, <1>8, <3>1 DEF JsonText, SameKey
    <3>2. CASE ~ends
      <4>1. /\ l2.key = IF l.key = "noKey" THEN "noKey" ELSE spelled(l.key, b)
            /\ l2.escapes <=> l.escapes \/ (l.key # "noKey" /\ j.str = "in" /\ b = "backslash")
        BY <1>4, <1>8, <3>2
      <4>2. /\ r.str = inString(j.str, b)
            /\ r.key = IF j.key = "noKey" \/ (j.str = "in" /\ b = "backslash")
                       THEN j.key ELSE decoded(j.key, j.str, b)
            /\ r.escapes <=> j.escapes \/ (j.str = "in" /\ b = "backslash" /\ j.key # "noKey")
        BY <1>5, <3>2 DEF JsonText
      <4>3. CASE j.key = "noKey"
        BY <1>2, <4>1, <4>2, <4>3 DEF SameKey
      <4>4. CASE j.key # "noKey"
        <5>1. l2.key # "noKey" /\ r.key # "noKey"
          BY <1>2, <4>1, <4>2, <4>4 DEF SameKey, spelled, decoded
        <5>2. l2.escapes => r.escapes
          BY <1>2, <4>1, <4>2, <4>4 DEF SameKey
        <5>3. ~l2.escapes => l2.key = r.key /\ r.str = "in"
          <6>. SUFFICES ASSUME ~l2.escapes PROVE l2.key = r.key /\ r.str = "in"
            OBVIOUS
          <6>1. ~l.escapes /\ l.key = j.key /\ j.str = "in" /\ b # "backslash"
            BY <1>2, <4>1, <4>4 DEF SameKey
          <6>2. b # "quote"
            BY <3>2, <6>1 DEF ends
          <6>. QED
            BY <4>1, <4>2, <4>4, <6>1, <6>2 DEF spelled, decoded, inString
        <5>. QED
          BY <5>1, <5>2, <5>3 DEF SameKey
      <4>. QED
        BY <4>3, <4>4
    <3>. QED
      BY <3>1, <3>2
  <2>. QED
    BY <1>1, <1>6, <1>8, <2>1, <2>2, <2>3 DEF Reads
<1>. QED
  BY <1>7, <1>8

(* A byte outside a string. *)
LEMMA ReadsOutside ==
    ASSUME NEW f \in Openers, NEW at, at = keyDepth(f), NEW l \in LacksState, NEW j,
           NEW b \in Bytes, NEW r, Grammatical(j, f, at), Live(j), Live(r),
           JsonMove(j, b, at, r), Reads(l, j, at), l.quiet, j.str = "out"
    PROVE  Reads(lacksStep(l, b, at), r, at)
<1>1. at \in {1, 2} /\ (at = 2 => f = "lbracket") /\ (at = 1 => f = "lbrace")
  BY DEF keyDepth, Openers
<1>2. PICK l2 \in LacksState : l2 = lacksStep(l, b, at)
  BY <1>1, LacksType
<1>3. SamePlace(l, j, at) /\ SameKey(l, j) /\ SameFinds(l, j)
  BY DEF Reads
<1>4. PICK n : n = Len(j.stack)
  OBVIOUS
<1>5. /\ j \in JsonState /\ n \in Nat /\ n > 0 /\ j.stack[1] = f /\ j.key = "noKey"
      /\ j.want \in {"firstKey", "key", "colon"} => Top(j.stack) = "lbrace"
  BY <1>4, LenProperties DEF Grammatical, JsonState
<1>6. /\ l.depth = n /\ l.str = "out" /\ ~l.closed /\ l.key = "noKey" /\ ~l.escapes
      /\ n >= at => j.stack[at] = "lbrace"
      /\ n = at => (l.keyPos <=> j.want \in KeyWants)
      /\ n > at => ~l.keyPos
  BY <1>3, <1>4, <1>5 DEF SamePlace, SameKey
<1>7. at = 1 => "object" \in r.has
  BY FindsStay DEF Reads
<1>8. "rbrace" \in Closers /\ "rbracket" \in Closers
      /\ Closers \cap (Openers \cup Others \cup {"quote", "comma", "colon", "space"}) = {}
      /\ (Openers \cup Others) \cap {"quote", "comma", "colon", "space"} = {}
      /\ Openers \cap Others = {} /\ "literal" \in Others
  BY DEF Closers, Openers, Others
<1>. DEFINE stops == at = 2 /\ n = 1 /\ b \in Others \cup {"lbracket"}
<1>9. lacksStops(l, b, at) <=> stops
  BY <1>5, <1>6 DEF lacksStops
<1>10. ~stops => /\ l2.quiet /\ l2.depth = n + nesting(b) /\ l2.str = opened(b)
                 /\ l2.keyPos <=> keyPos(l, b, at)
                 /\ l2.key = IF b = "quote" /\ n = at /\ l.keyPos THEN "empty" ELSE "noKey"
                 /\ ~l2.escapes
                 /\ l2.sawElement <=> l.sawElement \/ (b = "lbrace" /\ n + 1 = at)
                 /\ l2.closed <=> b \in Closers /\ n = 1
  BY <1>1, <1>2, <1>6, <1>9, LacksOutside
<1>11. stops => ~l2.quiet
  BY <1>1, <1>2, <1>6, <1>9, LacksGivenUp
<1>. HIDE DEF stops
<1>12. SUFFICES /\ l2.quiet => SamePlace(l2, r, at) /\ SameKey(l2, r) /\ SameFinds(l2, r)
                /\ ~l2.quiet => "other" \in r.has
  BY <1>2, <1>7 DEF Reads
<1>. DEFINE Goal == /\ l2.quiet => SamePlace(l2, r, at) /\ SameKey(l2, r) /\ SameFinds(l2, r)
                    /\ ~l2.quiet => "other" \in r.has
<1>13. CASE Waits(j, b, r)
  <2>1. b = "space" /\ r = j /\ ~stops
    BY <1>8, <1>13 DEF Waits, stops
  <2>2. keyPos(l, b, at) <=> l.keyPos
    BY <2>1 DEF keyPos
  <2>3. nesting(b) = 0 /\ opened(b) = "out" /\ b \notin Closers
    BY <1>8, <2>1 DEF nesting, opened
  <2>4. SamePlace(l2, r, at)
    BY <1>4, <1>5, <1>6, <1>10, <2>1, <2>2, <2>3 DEF SamePlace
  <2>5. SameKey(l2, r) /\ SameFinds(l2, r)
    BY <1>3, <1>5, <1>10, <2>1 DEF SameKey, SameFinds
  <2>. QED
    BY <1>10, <2>1, <2>4, <2>5
<1>14. CASE Begins(j, b, at, r)
  <2>1. j.want \in {"value", "firstValue"} /\ b \in Openers \cup {"quote", "literal"}
    BY <1>14 DEF Begins
  <2>2. /\ r.has = IF n = at - 1 THEN j.has \cup {kindOf(b)} ELSE j.has
        /\ r.str = opened(b) /\ r.key = "noKey" /\ r.ids = j.ids
    BY <1>4, <1>5, <1>14 DEF Begins
  <2>3. n = at - 1 => at = 2 /\ n = 1
    BY <1>1, <1>5
  <2>4. n = at => ~l.keyPos
    BY <1>6, <2>1 DEF KeyWants
  <2>5. CASE stops
    <3>1. n = at - 1 /\ kindOf(b) = "other"
      BY <1>8, <2>1, <2>5 DEF stops, kindOf, Others
    <3>. QED
      BY <1>11, <2>2, <2>5, <3>1
  <2>6. CASE ~stops
    <3>1. /\ b \notin Closers /\ l2.quiet /\ ~l2.closed /\ l2.str = opened(b) /\ ~l2.escapes
          /\ l2.depth = n + nesting(b) /\ l2.key = "noKey"
          /\ l2.keyPos <=> keyPos(l, b, at)
          /\ l2.sawElement <=> l.sawElement \/ (b = "lbrace" /\ n + 1 = at)
      BY <1>8, <1>10, <2>1, <2>4, <2>6
    <3>2. n = at - 1 => b # "literal" /\ b # "lbracket"
      BY <1>8, <2>3, <2>6 DEF stops
    <3>3. SameFinds(l2, r)
      <4>1. n = at - 1 <=> n + 1 = at
        BY <1>1, <1>5
      <4>2. CASE n = at - 1
        <5>1. b \in {"lbrace", "quote"}
          BY <2>1, <3>2, <4>2 DEF Openers
        <5>2. kindOf(b) = IF b = "lbrace" THEN "object" ELSE "string"
          BY <5>1 DEF kindOf
        <5>. QED
          BY <1>3, <2>2, <3>1, <4>1, <4>2, <5>1, <5>2 DEF SameFinds
      <4>3. CASE n # at - 1
        BY <1>3, <2>2, <3>1, <4>1, <4>3 DEF SameFinds
      <4>. QED
        BY <4>2, <4>3
    <3>4. SameKey(l2, r)
      BY <2>2, <3>1 DEF SameKey
    <3>5. SamePlace(l2, r, at)
      <4>1. CASE b \in Openers
        <5>1. nesting(b) = 1 /\ opened(b) = "out" /\ r.stack = Append(j.stack, b)
          BY <1>8, <1>14, <4>1 DEF nesting, opened, Begins
        <5>2. PICK m : m = Len(r.stack)
          OBVIOUS
        <5>3. /\ m = n + 1 /\ r.stack[n + 1] = b
              /\ \A i \in 1 .. n : r.stack[i] = j.stack[i]
          BY <1>4, <1>5, <4>1, <5>1, <5>2, Pushed DEF JsonState
        <5>4. m >= at => r.stack[at] = "lbrace"
          <6>1. CASE n >= at
            <7>1. at \in 1 .. n
              BY <1>1, <1>5, <6>1
            <7>. QED
              BY <1>6, <5>3, <6>1, <7>1
          <6>2. CASE n = at - 1
            BY <1>1, <1>5, <3>2, <4>1, <5>3, <6>2 DEF Openers
          <6>. QED
            BY <1>1, <1>5, <5>3, <6>1, <6>2
        <5>5. m = at => l2.keyPos /\ r.want = "firstKey"
          <6>. SUFFICES ASSUME m = at PROVE l2.keyPos /\ r.want = "firstKey"
            OBVIOUS
          <6>1. n = at - 1 /\ n + 1 = at
            BY <1>1, <1>5, <5>3
          <6>2. b = "lbrace"
            BY <3>2, <4>1, <6>1 DEF Openers
          <6>. QED
            BY <1>6, <1>14, <3>1, <6>1, <6>2 DEF keyPos, Begins
        <5>6. m > at => ~l2.keyPos
          <6>1. m > at => n >= at /\ n + 1 # at /\ ~l.keyPos
            BY <1>1, <1>5, <1>6, <2>4, <5>3
          <6>. QED
            BY <1>6, <1>8, <3>1, <4>1, <6>1 DEF keyPos
        <5>. QED
          BY <1>5, <2>2, <3>1, <5>1, <5>2, <5>3, <5>4, <5>5, <5>6 DEF SamePlace, KeyWants
      <4>2. CASE b \in {"quote", "literal"}
        <5>1. nesting(b) = 0 /\ r.stack = j.stack /\ r.want \in {"value", "more"}
          BY <1>8, <1>14, <4>2 DEF nesting, Begins, Closers, Openers
        <5>2. keyPos(l, b, at) <=> l.keyPos
          BY <4>2 DEF keyPos
        <5>. QED
          BY <1>4, <1>5, <1>6, <2>2, <2>4, <3>1, <5>1, <5>2 DEF SamePlace, KeyWants
      <4>. QED
        BY <2>1, <4>1, <4>2
    <3>. QED
      BY <3>1, <3>3, <3>4, <3>5
  <2>. QED
    BY <2>5, <2>6
<1>15. CASE Names(j, b, at, r)
  <2>1. /\ b = "quote" /\ ~stops /\ j.want \in {"key", "firstKey"} /\ r.str = "in"
        /\ r.want = "key" /\ r.stack = j.stack /\ r.key = (IF n = at THEN "empty" ELSE "noKey")
        /\ r.ids = j.ids /\ r.has = j.has
    BY <1>4, <1>5, <1>8, <1>15 DEF Names, Keeps, stops
  <2>2. (keyPos(l, b, at) <=> l.keyPos) /\ nesting(b) = 0 /\ opened(b) = "in" /\ b \notin Closers
    BY <1>8, <2>1 DEF keyPos, nesting, opened
  <2>3. SamePlace(l2, r, at)
    BY <1>4, <1>5, <1>6, <1>10, <2>1, <2>2 DEF SamePlace, KeyWants
  <2>4. n = at => l.keyPos
    BY <1>6, <2>1 DEF KeyWants
  <2>5. SameKey(l2, r)
    BY <1>10, <2>1, <2>4 DEF SameKey
  <2>6. SameFinds(l2, r)
    BY <1>3, <1>10, <2>1 DEF SameFinds
  <2>. QED
    BY <1>10, <2>1, <2>3, <2>5, <2>6
<1>16. CASE Closes(j, b, r)
  <2>1. /\ b \in Closers /\ r.stack = Pop(j.stack) /\ r.want = after(r.stack)
        /\ r.str = "out" /\ r.key = "noKey" /\ r.ids = j.ids /\ r.has = j.has
    BY <1>5, <1>16 DEF Closes, Keeps
  <2>2. r.want = "more" /\ r.stack # << >>
    BY <2>1 DEF after, Live
  <2>3. PICK m : m = Len(r.stack)
    OBVIOUS
  <2>4. m = n - 1 /\ n # 1 /\ \A i \in 1 .. n - 1 : r.stack[i] = j.stack[i]
    BY <1>4, <1>5, <2>1, <2>2, <2>3, Popped DEF JsonState
  <2>5. ~stops /\ nesting(b) = -1 /\ opened(b) = "out" /\ b # "quote" /\ b # "lbrace"
        /\ (keyPos(l, b, at) <=> l.keyPos)
    BY <1>8, <2>1 DEF stops, nesting, opened, keyPos, Openers, Closers
  <2>6. /\ l2.quiet /\ l2.depth = m /\ l2.str = "out" /\ ~l2.closed /\ (l2.keyPos <=> l.keyPos)
        /\ l2.key = "noKey" /\ ~l2.escapes /\ (l2.sawElement <=> l.sawElement)
    BY <1>5, <1>10, <2>4, <2>5
  <2>7. SamePlace(l2, r, at)
    <3>1. m >= at => r.stack[at] = "lbrace"
      BY <1>1, <1>5, <1>6, <2>4
    <3>2. m >= at => ~l2.keyPos
      BY <1>1, <1>5, <1>6, <2>4, <2>6
    <3>. QED
      BY <1>1, <1>5, <2>1, <2>2, <2>3, <2>4, <2>6, <3>1, <3>2 DEF SamePlace, KeyWants
  <2>8. SameKey(l2, r) /\ SameFinds(l2, r)
    BY <1>3, <2>1, <2>6 DEF SameKey, SameFinds
  <2>. QED
    BY <2>6, <2>7, <2>8
<1>17. CASE Separates(j, b, r)
  <2>1. /\ b = "comma" /\ ~stops /\ j.want = "more" /\ r.stack = j.stack /\ r.str = "out"
        /\ r.want = (IF Top(j.stack) = "lbrace" THEN "key" ELSE "value")
        /\ r.key = "noKey" /\ r.ids = j.ids /\ r.has = j.has
    BY <1>5, <1>8, <1>17 DEF Separates, Keeps, stops
  <2>2. (keyPos(l, b, at) <=> n = at \/ l.keyPos) /\ nesting(b) = 0 /\ opened(b) = "out"
        /\ b \notin Closers
    BY <1>6, <1>8, <2>1 DEF keyPos, nesting, opened
  <2>3. n = at => r.want = "key"
    <3>1. j.stack # << >>
      BY <1>4, <1>5, EmptySeq
    <3>2. Top(j.stack) = j.stack[n]
      BY <1>4, <3>1 DEF Top
    <3>. QED
      BY <1>5, <1>6, <2>1, <3>2
  <2>4. SamePlace(l2, r, at)
    BY <1>1, <1>4, <1>5, <1>6, <1>10, <2>1, <2>2, <2>3 DEF SamePlace, KeyWants
  <2>5. SameKey(l2, r) /\ SameFinds(l2, r)
    BY <1>3, <1>10, <2>1 DEF SameKey, SameFinds
  <2>. QED
    BY <1>10, <2>1, <2>4, <2>5
<1>18. CASE Pairs(j, b, r)
  <2>1. /\ b = "colon" /\ ~stops /\ r.stack = j.stack /\ r.str = "out" /\ r.want = "value"
        /\ r.key = "noKey" /\ r.ids = j.ids /\ r.has = j.has
    BY <1>5, <1>8, <1>18 DEF Pairs, Keeps, stops
  <2>2. (keyPos(l, b, at) <=> n # at /\ l.keyPos) /\ nesting(b) = 0 /\ opened(b) = "out"
        /\ b \notin Closers
    BY <1>6, <1>8, <2>1 DEF keyPos, nesting, opened
  <2>3. SamePlace(l2, r, at)
    BY <1>1, <1>4, <1>5, <1>6, <1>10, <2>1, <2>2 DEF SamePlace, KeyWants
  <2>4. SameKey(l2, r) /\ SameFinds(l2, r)
    BY <1>3, <1>10, <2>1 DEF SameKey, SameFinds
  <2>. QED
    BY <1>10, <2>1, <2>3, <2>4
<1>. QED
  BY <1>13, <1>14, <1>15, <1>16, <1>17, <1>18 DEF JsonMove

(* After every payload that may still be JSON, lacksResponseID has given   *)
(* up for a reason or is where the grammar is.                             *)
THEOREM ScanReads == ScanSpec => []ReadInv
<1>1. ScanInit => ReadInv
  <2>. SUFFICES ASSUME ScanInit PROVE ReadInv
    OBVIOUS
  <2>1. form \in Openers
    BY FormsAssumption DEF ScanInit, Openers
  <2>2. PICK t : t = <<form>>
    OBVIOUS
  <2>3. Len(t) = 1 /\ t[1] = form
    BY <2>2
  <2>4. PICK first \in BOOLEAN : first = (form = "lbrace")
    OBVIOUS
  <2>5. lacks = [depth |-> 1, str |-> "out", keyPos |-> first, key |-> "noKey",
                 escapes |-> FALSE, sawElement |-> first, closed |-> FALSE, quiet |-> TRUE]
    BY <2>4 DEF ScanInit, lacksFirst, Answered
  <2>6. /\ lacks \in LacksState /\ lacks.depth = 1 /\ lacks.str = "out" /\ lacks.keyPos = first
        /\ lacks.key = "noKey" /\ ~lacks.escapes /\ lacks.sawElement = first /\ ~lacks.closed
        /\ lacks.quiet
    BY <2>5 DEF LacksState, StringStates
  <2>7. /\ json.stack = t /\ json.str = "out" /\ json.key = "noKey" /\ ~json.ids
        /\ json.want = (IF form = "lbrace" THEN "firstKey" ELSE "firstValue")
        /\ json.has = (IF form = "lbrace" THEN {"object"} ELSE {})
    BY <2>2 DEF ScanInit, jsonFirst, NotJSON
  <2>8. CASE form = "lbrace"
    <3>1. keyDepth(form) = 1
      BY <2>8 DEF keyDepth
    <3>2. lacks.keyPos /\ lacks.sawElement /\ json.want = "firstKey" /\ json.has = {"object"}
      BY <2>4, <2>6, <2>7, <2>8
    <3>3. PICK n : n = Len(json.stack)
      OBVIOUS
    <3>4. n = 1 /\ json.stack[1] = form
      BY <2>3, <2>7, <3>3
    <3>5. SamePlace(lacks, json, keyDepth(form))
      BY <2>6, <2>7, <2>8, <3>1, <3>2, <3>3, <3>4 DEF SamePlace, KeyWants
    <3>6. SameKey(lacks, json)
      BY <2>6, <2>7 DEF SameKey
    <3>7. SameFinds(lacks, json)
      BY <2>7, <3>2 DEF SameFinds
    <3>. QED
      BY <2>6, <3>1, <3>2, <3>5, <3>6, <3>7 DEF ReadInv, Reads
  <2>9. CASE form = "lbracket"
    <3>1. keyDepth(form) = 2
      BY <2>9 DEF keyDepth
    <3>2. ~lacks.keyPos /\ ~lacks.sawElement /\ json.want = "firstValue" /\ json.has = {}
      BY <2>4, <2>6, <2>7, <2>9
    <3>3. PICK n : n = Len(json.stack)
      OBVIOUS
    <3>4. n = 1 /\ json.stack[1] = form
      BY <2>3, <2>7, <3>3
    <3>5. SamePlace(lacks, json, keyDepth(form))
      BY <2>6, <2>7, <2>9, <3>1, <3>2, <3>3, <3>4 DEF SamePlace, KeyWants
    <3>6. SameKey(lacks, json)
      BY <2>6, <2>7 DEF SameKey
    <3>7. SameFinds(lacks, json)
      BY <2>7, <3>2 DEF SameFinds
    <3>. QED
      BY <2>6, <3>1, <3>2, <3>5, <3>6, <3>7 DEF ReadInv, Reads
  <2>. QED
    BY <2>1, <2>8, <2>9 DEF Openers
<1>2. GrammarInv /\ ReadInv /\ [ScanNext]_scanVars => ReadInv'
  <2>. SUFFICES ASSUME GrammarInv, ReadInv, [ScanNext]_scanVars PROVE ReadInv'
    OBVIOUS
  <2>1. CASE UNCHANGED scanVars
    BY <2>1 DEF scanVars, ReadInv, Live
  <2>2. ASSUME NEW b \in Bytes, Feed(b) PROVE ReadInv'
    <3>1. PICK at : at = keyDepth(form)
      OBVIOUS
    <3>2. /\ form' = form /\ json' = jsonStep(json, b, at) /\ lacks' = lacksStep(lacks, b, at)
          /\ Grammatical(json, form, at) /\ form \in Openers /\ at \in {1, 2}
      BY <2>2, <3>1 DEF Feed, keyDepth, GrammarInv
    <3>3. lacks' \in LacksState
      BY <3>2, LacksType DEF ReadInv
    <3>4. ASSUME Live(jsonStep(json, b, at))
          PROVE  Reads(lacksStep(lacks, b, at), jsonStep(json, b, at), at)
      <4>1. PICK r : r = jsonStep(json, b, at)
        OBVIOUS
      <4>2. Live(json) /\ json \in JsonState /\ Reads(lacks, json, at) /\ lacks \in LacksState
        BY <3>1, <3>2, <3>4, LiveBefore DEF ReadInv, Grammatical
      <4>3. /\ Len(json.stack) > 0
            /\ json.key # "noKey" => json.want = "key"
            /\ json.str # "out" => json.want \in {"value", "key"}
        BY <3>2, <4>2 DEF Grammatical
      <4>4. Live(r) /\ r.want # "nothing"
        BY <3>4, <4>1 DEF Live
      <4>5. IF json.str = "out" THEN JsonMove(json, b, at, r) ELSE JsonText(json, b, r)
        BY <3>2, <4>1, <4>2, <4>3, <4>4, JsonOutside, JsonInside
      <4>6. CASE ~lacks.quiet
        <5>1. lacksStep(lacks, b, at) = lacks
          BY <4>6 DEF lacksStep
        <5>. QED
          BY <4>1, <4>2, <4>5, <4>6, <5>1, FindsStay DEF Reads
      <4>7. CASE lacks.quiet /\ json.str = "out"
        BY <3>1, <3>2, <4>1, <4>2, <4>4, <4>5, <4>7, ReadsOutside
      <4>8. CASE lacks.quiet /\ json.str # "out"
        BY <3>2, <4>1, <4>2, <4>3, <4>5, <4>8, ReadsInside
      <4>. QED
        BY <4>6, <4>7, <4>8
    <3>. QED
      BY <3>1, <3>2, <3>3, <3>4 DEF ReadInv
  <2>. QED
    BY <2>1, <2>2 DEF ScanNext
<1>. QED
  BY <1>1, <1>2, ScanGrammar, PTL DEF ScanSpec

(* SilenceIsExact for every payload, of whatever length and nesting.  A    *)
(* rejection is silent only where no request has an id, and always where   *)
(* there are only requests without one, spelled without escapes.           *)
THEOREM ScanSilenceIsExact == ScanSpec => []SilenceIsExact
<1>1. GrammarInv /\ ReadInv => SilenceIsExact
  <2>. SUFFICES ASSUME GrammarInv, ReadInv, valid
                PROVE  /\ silenced => ~parsed.ids /\ "object" \in parsed.has
                                      /\ "other" \notin parsed.has
                       /\ parsed.has = {"object"} /\ ~parsed.ids /\ ~parsed.escapes => silenced
    BY DEF SilenceIsExact
  <2>1. PICK at \in {1, 2} : at = keyDepth(form)
    BY DEF keyDepth
  <2>2. PICK b \in Closers : b = closer
    BY DEF closer, Closers
  <2>3. parsed = jsonStep(json, b, at) /\ parsed.want = "end"
    BY <2>1, <2>2 DEF parsed, valid
  <2>4. /\ json \in JsonState /\ Live(json) /\ json.str = "out" /\ Len(json.stack) = 1
        /\ Closes(json, b, parsed)
    BY <2>1, <2>3, EndsClosing DEF GrammarInv
  <2>5. parsed.ids = json.ids /\ parsed.escapes = json.escapes /\ parsed.has = json.has
    BY <2>4 DEF Closes, Keeps
  <2>6. lacks \in LacksState /\ Reads(lacks, json, at)
    BY <2>1, <2>4 DEF ReadInv
  <2>7. b \in Bytes /\ b \notin Others /\ b # "lbracket" /\ b # "lbrace" /\ opened(b) = "out"
    BY DEF Bytes, Closers, Others, opened
  <2>8. PICK c \in LacksState : c = lacksStep(lacks, b, at)
    BY <2>6, <2>7, LacksType
  <2>9. silenced <=> c.quiet /\ c.closed /\ c.str = "out" /\ (at = 1 \/ c.sawElement)
    BY <2>1, <2>2, <2>8 DEF silenced, lacksVerdict, concluded
  <2>10. CASE ~lacks.quiet
    <3>1. ~silenced
      BY <2>6, <2>7, <2>8, <2>9, <2>10, LacksGivenUp
    <3>2. json.ids \/ json.escapes \/ "other" \in json.has
      BY <2>6, <2>10 DEF Reads
    <3>. QED
      BY <2>5, <3>1, <3>2
  <2>11. CASE lacks.quiet
    <3>1. /\ lacks.depth = 1 /\ lacks.str = "out" /\ ~lacks.closed
          /\ ~json.ids /\ "other" \notin json.has
          /\ lacks.sawElement <=> "object" \in json.has
          /\ at = 1 => "object" \in json.has
      BY <2>4, <2>6, <2>11 DEF Reads, SamePlace, SameFinds
    <3>2. ~lacksStops(lacks, b, at)
      BY <2>7, <3>1 DEF lacksStops
    <3>3. c.quiet /\ c.closed /\ c.str = "out" /\ (c.sawElement <=> lacks.sawElement)
      BY <2>6, <2>7, <2>8, <2>11, <3>1, <3>2, LacksOutside
    <3>. QED
      BY <2>5, <2>9, <3>1, <3>3
  <2>. QED
    BY <2>10, <2>11
<1>. QED
  BY <1>1, ScanGrammar, ScanReads, PTL
=============================================================================
