------------------------------ MODULE Framing ------------------------------
(***************************************************************************)
(* The two wire framings of jsonrpcstdio (framing.go): a peer that writes  *)
(* messages with WriteFrame, the byte stream, which may be cut anywhere,   *)
(* and the reader's ReadFrame, one read of the buffer at a time.           *)
(*                                                                         *)
(* A byte of a message is "{" (how every message starts), "x" (any other)  *)
(* or one of the line ends.  A header is the two halves of its name, its   *)
(* number and a line end; the byte order mark counts as one byte.          *)
(***************************************************************************)
EXTENDS Integers, Sequences, SequencesExt

CONSTANTS
    Messages,        \* what the peer may send: [bytes, json]
    Noise,           \* header lines a foreign peer may add to a block
    maxSize,         \* the reader's message limit
    maxHeaderBytes,  \* the cap on one header block
    BufferSize,      \* readerBufferSize
    MaxSent          \* bound: messages per stream

CR == "\r"
LF == "\n"
Brace == "{"
Colon == ":"
BOM == "BOM"
Number == <<"1", "2", "3", "4", "5", "6", "7", "8", "9">>
ContentLength == <<"Content-", "Length:">>
Framings == {"content-length", "ndjson"}

Token == {Brace, Colon, "x", CR, LF, BOM} \cup Range(ContentLength) \cup Range(Number)

ASSUME MessagesAssumption ==
    \A m \in Messages :
        /\ m.bytes \in Seq(Token) /\ m.bytes # << >> /\ m.bytes[1] = Brace
        /\ Len(m.bytes) \in DOMAIN Number
        /\ m.json \in BOOLEAN
ASSUME LimitsAssumption == {maxSize, maxHeaderBytes, BufferSize, MaxSent} \subseteq Nat \ {0}

VARIABLES
    writerFraming,  \* the framing the peer was given (never changes)
    readerFraming,  \* the framing the reader was given (never changes)
    sent,           \* the messages framed so far, as they went out
    marks,          \* how long the stream was after each of their frames
    stream,         \* every byte written, less those lost when it was cut
    ended,          \* the stream ends here
    at,             \* how many of its bytes were read
    started,        \* begin() has run
    block,          \* the header block being read
    acc,            \* the line being accumulated
    frames,         \* what ReadFrame returned
    failure         \* the error that ended the reading

writerVars == <<sent, marks, stream, ended>>
readerVars == <<at, started, block, acc, frames, failure>>
framingVars == <<writerFraming, readerFraming, writerVars, readerVars>>

unread == SubSeq(stream, at + 1, Len(stream))
NoBlock == [contentLen |-> -1, headerBytes |-> 0, body |-> FALSE]

(***************************************************************************)
(* WriteFrame.                                                             *)
(***************************************************************************)
hasLF(s) == Contains(s, LF)

(* json.Compact drops the line ends of a valid document.  kept[i]: which   *)
(* of the first i bytes stay.                                              *)
Compact(s) ==
    LET stay == {i \in DOMAIN s : s[i] \notin {CR, LF}}
        kept[i \in 0 .. Len(s)] ==
          IF i = 0 THEN << >> ELSE IF i \in stay THEN Append(kept[i - 1], i) ELSE kept[i - 1]
    IN  [k \in DOMAIN kept[Len(s)] |-> s[kept[Len(s)][k]]]

(* Fault: a message with a line end in it is written as it is. *)
Mut_outgoing(m) == m.bytes

outgoing(m) ==
    IF writerFraming = "ndjson" /\ hasLF(m.bytes) THEN Compact(m.bytes) ELSE m.bytes

(* errUnframeable: nothing is written. *)
frameable(m) == writerFraming = "ndjson" /\ hasLF(m.bytes) => m.json

header(n) == ContentLength \o <<Number[n], CR, LF>>
framed(s) ==
    IF writerFraming = "ndjson" THEN Append(s, LF) ELSE header(Len(s)) \o <<CR, LF>> \o s

WriteFrame(m) ==
    /\ ~ended
    /\ Len(sent) < MaxSent
    /\ frameable(m)
    /\ sent' = Append(sent, outgoing(m))
    /\ stream' = stream \o framed(outgoing(m))
    /\ marks' = Append(marks, Len(stream'))
    /\ UNCHANGED <<writerFraming, readerFraming, ended, readerVars>>

(* A peer of another make puts header lines of its own before the length. *)
WriteForeign(m, line) ==
    /\ writerFraming = "content-length"
    /\ ~ended
    /\ Len(sent) < MaxSent
    /\ sent' = Append(sent, m.bytes)
    /\ stream' = stream \o line \o framed(m.bytes)
    /\ marks' = Append(marks, Len(stream'))
    /\ UNCHANGED <<writerFraming, readerFraming, ended, readerVars>>

(* The peer closes its end, or dies and what it had not flushed is lost. *)
StreamEnds ==
    /\ ~ended
    /\ ended' = TRUE
    /\ \E n \in at .. Len(stream) : stream' = SubSeq(stream, 1, n)
    /\ UNCHANGED <<writerFraming, readerFraming, sent, marks, readerVars>>

(***************************************************************************)
(* ReadFrame.                                                              *)
(***************************************************************************)
stop(e) ==
    /\ failure' = e
    /\ UNCHANGED <<writerFraming, readerFraming, writerVars, at, started, block, acc, frames>>

(* begin: Peek(3) waits for three bytes or for the end. *)
Begin ==
    /\ ~started
    /\ Len(stream) >= 3 \/ ended
    /\ started' = TRUE
    /\ at' = IF stream # << >> /\ stream[1] = BOM THEN 1 ELSE 0
    /\ UNCHANGED <<writerFraming, readerFraming, writerVars, block, acc, frames, failure>>

(* bufio's ReadSlice: up to a line end, a full buffer or the end. *)
lineEnds == LET u == unread IN {i \in DOMAIN u : u[i] = LF /\ i <= BufferSize}
sliceReady == lineEnds # {} \/ Len(unread) >= BufferSize \/ ended
slice ==
    LET e == lineEnds
        n == IF e # {} THEN CHOOSE i \in e : \A k \in e : i <= k
             ELSE IF Len(unread) >= BufferSize THEN BufferSize ELSE Len(unread)
    IN  SubSeq(unread, 1, n)
sliceFull == lineEnds = {} /\ Len(unread) >= BufferSize
sliceEOF == lineEnds = {} /\ ~sliceFull

trimLF(s) == IF s # << >> /\ Last(s) = LF THEN Front(s) ELSE s
trimCR(s) == IF s # << >> /\ Last(s) = CR THEN Front(s) ELSE s
trimEOL(s) == trimCR(trimLF(s))

reading(f) == readerFraming = f /\ started /\ failure = "none"

(* Fault: the exact limit is not checked again once the line is trimmed. *)
Mut_overLimit(line) == FALSE

overLimit(line) == Len(line) > maxSize

ReadLine ==
    /\ reading("ndjson")
    /\ sliceReady
    /\ LET line == trimEOL(acc \o slice)
       IN  IF Len(acc) + Len(slice) - 2 > maxSize THEN stop("limit")
           ELSE IF sliceEOF /\ acc \o slice = << >> THEN stop("EOF")
           ELSE IF ~sliceFull /\ overLimit(line) THEN stop("limit")
           ELSE IF ~sliceFull /\ IsPrefix(ContentLength, line) THEN stop("wrong framing")
           ELSE /\ at' = at + Len(slice)
                /\ acc' = IF sliceFull THEN acc \o slice ELSE << >>
                /\ frames' = IF sliceFull \/ line = << >> THEN frames ELSE Append(frames, line)
                /\ UNCHANGED <<writerFraming, readerFraming, writerVars, started, block, failure>>

(* Where EOF is clean: no byte of the block was consumed yet. *)
(* Fault: EOF is clean before any header line. *)
Mut_atBlockStart == ~block.body

atBlockStart == block = NoBlock

(* Peek(1): a block never starts with a JSON document. *)
startsWithJSON == atBlockStart /\ unread # << >> /\ unread[1] = Brace
Sniff ==
    /\ reading("content-length")
    /\ startsWithJSON
    /\ stop("wrong framing")

isLength(line) == IsPrefix(ContentLength, line)
lengths(line) == {n \in DOMAIN Number : line = ContentLength \o <<Number[n]>>}
tooLong(line) == \E n \in lengths(line) : n > maxSize

(* A foreign header is one line, does not start with the mark that starts  *)
(* a stream, and announces no length of its own that the limit refuses.    *)
ASSUME NoiseAssumption ==
    \A line \in Noise :
        /\ line \in Seq(Token) /\ line # << >> /\ line[1] # BOM
        /\ \A i \in DOMAIN line : line[i] = LF <=> i = Len(line)
        /\ ~tooLong(trimEOL(line))

(* The checks made of one header line, in the code's order. *)
ReadHeaderLine ==
    /\ reading("content-length")
    /\ ~block.body /\ ~startsWithJSON
    /\ sliceReady
    /\ LET line == trimEOL(slice)
           headerBytes == block.headerBytes + Len(slice)
           refusal ==
             CASE sliceEOF -> IF atBlockStart /\ slice = << >> THEN "EOF" ELSE "unexpected EOF"
               [] sliceFull \/ (~sliceEOF /\ headerBytes > maxHeaderBytes) -> "header limit"
               [] OTHER ->
                    IF line = << >> THEN IF block.contentLen < 0 THEN "missing length" ELSE "none"
                    ELSE IF ~isLength(line)
                    THEN IF Contains(line, Colon) THEN "none" ELSE "invalid header"
                    ELSE IF block.contentLen >= 0 THEN "duplicate length"
                    ELSE IF lengths(line) = {} THEN "invalid length"
                    ELSE IF tooLong(line) THEN "limit" ELSE "none"
       IN  IF refusal # "none" THEN stop(refusal)
           ELSE /\ at' = at + Len(slice)
                /\ block' = [contentLen |-> IF isLength(line)
                                            THEN CHOOSE n \in lengths(line) : TRUE
                                            ELSE block.contentLen,
                             headerBytes |-> headerBytes, body |-> line = << >>]
                /\ UNCHANGED <<writerFraming, readerFraming, writerVars, started, acc, frames, failure>>

(* io.ReadFull of the announced length. *)
ReadBody ==
    /\ reading("content-length")
    /\ block.body
    /\ Len(unread) >= block.contentLen \/ ended
    /\ IF Len(unread) < block.contentLen THEN stop("unexpected EOF")
       ELSE /\ at' = at + block.contentLen
            /\ frames' = Append(frames, SubSeq(unread, 1, block.contentLen))
            /\ block' = NoBlock
            /\ UNCHANGED <<writerFraming, readerFraming, writerVars, started, acc, failure>>

(***************************************************************************)
(* The peer may start its stream with a byte order mark.                   *)
(***************************************************************************)
FramingInit ==
    /\ writerFraming \in Framings
    /\ readerFraming \in Framings
    /\ sent = << >>
    /\ marks = << >>
    /\ stream \in {<< >>, <<BOM>>}
    /\ ended = FALSE
    /\ at = 0
    /\ started = FALSE
    /\ block = NoBlock
    /\ acc = << >>
    /\ frames = << >>
    /\ failure = "none"

FramingNext ==
    \/ \E m \in Messages : WriteFrame(m)
    \/ \E m \in Messages, line \in Noise : WriteForeign(m, line)
    \/ StreamEnds
    \/ Begin
    \/ ReadLine
    \/ Sniff
    \/ ReadHeaderLine
    \/ ReadBody

FramingSpec == FramingInit /\ [][FramingNext]_framingVars

(***************************************************************************)
(* Properties.                                                             *)
(***************************************************************************)
arrived == {i \in DOMAIN marks : marks[i] <= Len(stream)}
betweenFrames ==
    Len(stream) \in {marks[i] : i \in DOMAIN marks} \cup {0}
        \/ stream = <<BOM>>
afterBOM == IF stream # << >> /\ Head(stream) = BOM THEN Tail(stream) ELSE stream

(* A line loses a carriage return before its end; a body loses nothing. *)
asRead(s) == IF readerFraming = "ndjson" THEN trimCR(s) ELSE s

(* What one side frames is what the other reads, in order, each message    *)
(* once: a message split into two, or two run together, would take every   *)
(* later one with it (framing.go:33).  Only the last line of a cut NDJSON  *)
(* stream may be a part of a message.  A reader given the wrong framing    *)
(* reads none, unless a foreign header or a cut hides where the stream     *)
(* starts with a length.                                                   *)
FramesAreMessages ==
    /\ writerFraming = readerFraming =>
          \A i \in DOMAIN frames :
             \/ i \in arrived /\ frames[i] = asRead(sent[i])
             \/ /\ readerFraming = "ndjson" /\ ended
                /\ i = Cardinality(arrived) + 1 /\ IsPrefix(frames[i], sent[i])
    /\ writerFraming # readerFraming =>
          \/ frames = << >>
          \/ writerFraming = "content-length" /\ ~IsPrefix(ContentLength, afterBOM)

(* A reader that reports a clean end has returned every message that       *)
(* arrived; under Content-Length it reports one only between two frames,   *)
(* and never reports a cut there (framing.go:133).                         *)
EndIsTruthful ==
    writerFraming = readerFraming =>
        /\ failure = "EOF" => Len(frames) >= Cardinality(arrived)
        /\ readerFraming = "content-length" =>
              /\ failure = "EOF" => betweenFrames
              /\ failure = "unexpected EOF" => ~betweenFrames

(* The limit is exact: no frame is longer, and none that fits is refused,  *)
(* wherever the reads of the buffer fall (framing.go:264).                 *)
LimitExact ==
    /\ \A i \in DOMAIN frames : Len(frames[i]) <= maxSize
    /\ failure = "limit" /\ writerFraming = readerFraming =>
          Len(asRead(sent[Len(frames) + 1])) > maxSize
=============================================================================
