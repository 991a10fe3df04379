----------------------------- MODULE WireProofs -----------------------------
(***************************************************************************)
(* What one side writes and the other reads.  Over a pipe, for messages,   *)
(* limits and buffers of any size, for a stream that is cut anywhere and   *)
(* reads that fall anywhere.  Over HTTP, for a batch of any length,        *)
(* whatever the other end answers and wherever the answer is cut.          *)
(***************************************************************************)
EXTENDS Framing, Http, FiniteSetTheorems, SequenceTheorems, WellFoundedInduction, TLAPS

(* A nonempty set of numbers has a least one. *)
LEMMA LeastNumber ==
    ASSUME NEW S, S \subseteq Nat, S # {}
    PROVE  \E i \in S : \A j \in S : i <= j
<1>. DEFINE R == {ss \in Nat \X Nat : ss[1] < ss[2]}
<1>1. IsWellFoundedOn(R, Nat)
  BY NatLessThanWellFounded, Zenon DEF OpToRel
<1>2. \A x, y \in Nat : y < x => <<y, x>> \in R
  OBVIOUS
<1>. HIDE DEF R
<1>3. PICK x \in S : \A y \in S : ~ (<<y, x>> \in R)
  BY <1>1, WFMin
<1>4. \A y \in S : ~(y < x)
  BY <1>2, <1>3
<1>. QED
  BY <1>4

(***************************************************************************)
(* The loops that drop what is not wanted: the line ends of a document     *)
(* (framing.go:304), the requests without a response (handle.go:571).      *)
(* kept is what each has after every element.                              *)
(***************************************************************************)
Kept(g, n, W) ==
    g = [i \in 0 .. n |-> IF i = 0 THEN << >>
                          ELSE IF i \in W THEN Append(g[i - 1], i) ELSE g[i - 1]]

(* The loop ends: there is such a function. *)
LEMMA KeptExists ==
    ASSUME NEW W, NEW n \in Nat
    PROVE  \E g : Kept(g, n, W)
<1>. DEFINE Bad == {m \in Nat : ~\E g : Kept(g, m, W)}
<1>1. SUFFICES ASSUME Bad # {} PROVE FALSE
  OBVIOUS
<1>2. PICK m \in Bad : \A k \in Bad : m <= k
  BY <1>1, LeastNumber
<1>3. m \in Nat /\ ~\E g : Kept(g, m, W)
  OBVIOUS
<1>4. CASE m = 0
  <2>. DEFINE g == [i \in 0 .. 0 |-> << >>]
  <2>1. Kept(g, 0, W)
    <3>1. \A i \in 0 .. 0 : i = 0
      OBVIOUS
    <3>. QED
      BY <3>1 DEF Kept
  <2>. QED
    BY <1>3, <1>4, <2>1
<1>5. CASE m # 0
  <2>1. m - 1 \in Nat /\ ~(m <= m - 1)
    BY <1>3, <1>5
  <2>2. m - 1 \notin Bad
    BY <1>2, <2>1
  <2>3. PICK g : Kept(g, m - 1, W)
    BY <2>1, <2>2
  <2>4. PICK last : last = IF m \in W THEN Append(g[m - 1], m) ELSE g[m - 1]
    OBVIOUS
  <2>5. PICK h : h = [i \in 0 .. m |-> IF i = m THEN last ELSE g[i]]
    OBVIOUS
  <2>6. \A i \in 0 .. m - 1 : h[i] = g[i]
    BY <1>3, <2>5
  <2>7. \A i \in 0 .. m - 1 :
           g[i] = IF i = 0 THEN << >> ELSE IF i \in W THEN Append(g[i - 1], i) ELSE g[i - 1]
    BY <2>3 DEF Kept
  <2>8. ASSUME NEW i \in 0 .. m
        PROVE  h[i] = IF i = 0 THEN << >>
                      ELSE IF i \in W THEN Append(h[i - 1], i) ELSE h[i - 1]
    <3>1. CASE i = m
      <4>1. h[i] = last /\ h[i - 1] = g[m - 1]
        BY <1>3, <1>5, <2>1, <2>5, <2>6, <3>1
      <4>. QED
        BY <1>5, <2>4, <3>1, <4>1
    <3>2. CASE i = 0
      BY <1>3, <1>5, <2>6, <2>7, <3>2
    <3>3. CASE i # m /\ i # 0
      <4>1. i \in 0 .. m - 1 /\ i - 1 \in 0 .. m - 1
        BY <1>3, <3>3
      <4>2. h[i] = g[i] /\ h[i - 1] = g[i - 1]
        BY <2>6, <4>1
      <4>3. g[i] = IF i \in W THEN Append(g[i - 1], i) ELSE g[i - 1]
        BY <2>7, <3>3, <4>1
      <4>. QED
        BY <3>3, <4>2, <4>3
    <3>. QED
      BY <3>1, <3>2, <3>3
  <2>9. h = [i \in 0 .. m |-> h[i]]
    BY <2>5
  <2>10. Kept(h, m, W)
    BY <2>8, <2>9 DEF Kept
  <2>. QED
    BY <1>3, <2>10
<1>. QED
  BY <1>4, <1>5

(***************************************************************************)
(* The pipe.                                                               *)
(***************************************************************************)

(***************************************************************************)
(* The inductive invariant: where the reader stands among the frames.      *)
(***************************************************************************)
Failures == {"none", "EOF", "unexpected EOF", "limit", "wrong framing", "header limit",
             "missing length", "invalid header", "duplicate length", "invalid length"}

FramingTypeInv ==
    /\ writerFraming \in Framings /\ readerFraming \in Framings
    /\ sent \in Seq(Seq(Token)) /\ marks \in Seq(Nat)
    /\ stream \in Seq(Token) /\ ended \in BOOLEAN
    /\ at \in 0 .. Len(stream) /\ started \in BOOLEAN
    /\ block \in [contentLen : -1 .. maxSize, headerBytes : Nat, body : BOOLEAN]
    /\ acc \in Seq(Token) /\ frames \in Seq(Seq(Token))
    /\ failure \in Failures

(* Before begin() nothing was read. *)
FreshReader ==
    ~started => at = 0 /\ block = NoBlock /\ acc = << >> /\ frames = << >> /\ failure = "none"

FramesFit == \A k \in DOMAIN frames : Len(frames[k]) <= maxSize

(* b is 1 when the stream began with a byte order mark.  Where the i-th    *)
(* frame starts, a foreign header before it included.                      *)
frameStart(b, i) == IF i = 1 THEN b ELSE marks[i - 1]

(* As far as the stream goes, w is what it has after its first a bytes. *)
Holds(str, a, w) == \A k \in 1 .. Len(w) : a + k <= Len(str) => str[a + k] = w[k]

Sendable(s) ==
    /\ s # << >> /\ s[1] = Brace
    /\ IF writerFraming = "ndjson" THEN ~hasLF(s) ELSE Len(s) \in DOMAIN Number

(* The i-th frame follows a foreign header, or none. *)
FrameAt(b, i, line) ==
    /\ line = << >> \/ (line \in Noise /\ writerFraming = "content-length")
    /\ marks[i] = frameStart(b, i) + Len(line) + Len(framed(sent[i]))
    /\ Holds(stream, frameStart(b, i), line)
    /\ Holds(stream, frameStart(b, i) + Len(line), framed(sent[i]))

Layout(b) ==
    /\ stream # << >> => (stream[1] = BOM <=> b = 1)
    /\ Len(marks) = Len(sent)
    /\ \A i \in DOMAIN marks : b < marks[i] /\ \A k \in 1 .. i - 1 : marks[k] < marks[i]
    /\ \A i \in DOMAIN sent : Sendable(sent[i]) /\ \E line \in Noise \cup {<< >>} : FrameAt(b, i, line)
    /\ IF ended THEN Len(stream) <= frameStart(b, Len(sent) + 1)
       ELSE Len(stream) = frameStart(b, Len(sent) + 1)

(* The mark itself was lost before begin() looked for it. *)
NothingLeft ==
    ended /\ stream = << >> /\ at = 0 /\ block = NoBlock /\ acc = << >> /\ frames = << >>

reached == Len(frames) + 1

(* Content-Length on both sides: between two frames, after a foreign       *)
(* header, after the length, or before the body.                           *)
InBlock(b) ==
    /\ readerFraming = "content-length" /\ writerFraming = "content-length"
    /\ acc = << >> /\ Len(frames) <= Len(sent)
    /\ \A k \in DOMAIN frames : frames[k] = sent[k]
    /\ \/ block = NoBlock /\ at = frameStart(b, reached)
       \/ /\ reached <= Len(sent)
          /\ \/ /\ ~block.body /\ block.headerBytes > 0
                /\ \E line \in Noise : FrameAt(b, reached, line) /\ at = frameStart(b, reached) + Len(line)
             \/ /\ ~block.body /\ block.contentLen = Len(sent[reached])
                /\ at = marks[reached] - Len(sent[reached]) - 2
             \/ /\ block.body /\ block.contentLen = Len(sent[reached])
                /\ at = marks[reached] - Len(sent[reached])

(* NDJSON on both sides: in a line, or after the part of one that a cut    *)
(* left.                                                                   *)
InLine(b) ==
    /\ readerFraming = "ndjson" /\ writerFraming = "ndjson"
    /\ block = NoBlock /\ Len(frames) <= Len(sent)
    /\ \/ /\ \A k \in DOMAIN frames : frames[k] = trimCR(sent[k])
          /\ at = frameStart(b, reached) + Len(acc)
          /\ Holds(stream, frameStart(b, reached), acc) /\ ~hasLF(acc)
       \/ /\ ended /\ at = Len(stream) /\ acc = << >> /\ frames # << >>
          /\ \A k \in 1 .. Len(frames) - 1 : frames[k] = trimCR(sent[k])
          /\ IsPrefix(frames[Len(frames)], sent[Len(frames)])
          /\ frameStart(b, Len(frames)) < Len(stream) /\ Len(stream) < marks[Len(frames)]

(* Headers where lines are expected: what was read does not start with a   *)
(* length, or nothing was returned.                                        *)
NoLengthFirst(b) ==
    \/ at >= b + 1 /\ stream[b + 1] # ContentLength[1]
    \/ at >= b + 2 /\ stream[b + 2] # ContentLength[2]
    \/ ended /\ Len(stream) < b + 2
Mistaken(b) ==
    /\ readerFraming # writerFraming
    /\ IF readerFraming = "content-length"
       THEN frames = << >> /\ block = NoBlock /\ at = b
       ELSE \/ NoLengthFirst(b)
            \/ /\ frames = << >> /\ at = b + Len(acc)
               /\ Holds(stream, b, acc) /\ ~hasLF(acc)

Position(b) == started => NothingLeft \/ InBlock(b) \/ InLine(b) \/ Mistaken(b)

FailureInv(b) ==
    readerFraming = writerFraming =>
        /\ failure = "EOF" => ended /\ at = Len(stream) /\ acc = << >> /\ block = NoBlock
        /\ failure = "unexpected EOF" =>
              /\ ended /\ reached <= Len(sent)
              /\ frameStart(b, reached) < Len(stream) /\ Len(stream) < marks[reached]
        /\ failure = "limit" => reached <= Len(sent) /\ Len(asRead(sent[reached])) > maxSize

Stands(b) == Layout(b) /\ Position(b) /\ FailureInv(b)
FramingInv == FramingTypeInv /\ FreshReader /\ FramesFit /\ \E b \in {0, 1} : Stands(b)

(***************************************************************************)
(* Tokens and the ends of lines.                                           *)
(***************************************************************************)
LEMMA TokensDiffer ==
    /\ DOMAIN Number = 1 .. 9
    /\ \A n, m \in 1 .. 9 : Number[n] = Number[m] => n = m
    /\ \A n \in 1 .. 9 : Number[n] \in Token /\ Number[n] # LF /\ Number[n] # CR
    /\ {Brace, CR, LF, BOM, ContentLength[1], ContentLength[2]} \subseteq Token
    /\ CR # LF /\ Brace \notin {CR, LF, BOM} /\ Brace # ContentLength[1]
    /\ ContentLength[1] \notin {CR, LF, BOM} /\ ContentLength[2] \notin {CR, LF}
    /\ ContentLength \in Seq(Token) /\ Len(ContentLength) = 2
<1>1. DOMAIN Number = 1 .. 9
  BY DEF Number
<1>2. \A n, m \in 1 .. 9 : Number[n] = Number[m] => n = m
  BY DEF Number
<1>3. \A n \in 1 .. 9 : Number[n] # LF /\ Number[n] # CR
  BY DEF Number, LF, CR
<1>4. \A n \in 1 .. 9 : Number[n] \in Token
  BY <1>1 DEF Token, Range
<1>5. {Brace, CR, LF, BOM} \subseteq Token
  BY DEF Token
<1>6. /\ Len(ContentLength) = 2 /\ DOMAIN ContentLength = 1 .. 2
      /\ ContentLength[1] = "Content-" /\ ContentLength[2] = "Length:"
  BY DEF ContentLength
<1>7. /\ CR # LF /\ Brace \notin {CR, LF, BOM} /\ Brace # ContentLength[1]
      /\ ContentLength[1] \notin {CR, LF, BOM} /\ ContentLength[2] \notin {CR, LF}
  BY <1>6, Zenon DEF CR, LF, BOM, Brace
<1>8. ContentLength[1] \in Token /\ ContentLength[2] \in Token
  BY <1>6 DEF Token, Range
<1>9. ContentLength \in Seq(Token)
  BY <1>8 DEF ContentLength
<1>. QED
  BY <1>1, <1>2, <1>3, <1>4, <1>5, <1>6, <1>7, <1>8, <1>9

(* A sequence without its last element, when that is e. *)
Shorter(t, s, e) ==
    /\ t \in Seq(Token) /\ Len(t) \in Nat
    /\ \A k \in 1 .. Len(t) : t[k] = s[k]
    /\ IF s # << >> /\ s[Len(s)] = e THEN Len(t) = Len(s) - 1 ELSE t = s

LEMMA FrontIs ==
    ASSUME NEW s \in Seq(Token), s # << >>
    PROVE  /\ Front(s) \in Seq(Token) /\ Len(Front(s)) = Len(s) - 1
           /\ \A k \in 1 .. Len(Front(s)) : Front(s)[k] = s[k]
<1>1. PICK n \in Nat : n = Len(s) /\ n # 0
  BY EmptySeq, LenProperties
<1>2. \A k \in 1 .. n - 1 : s[k] \in Token
  BY <1>1, ElementOfSeq
<1>3. /\ SubSeq(s, 1, n - 1) \in Seq(Token)
      /\ Len(SubSeq(s, 1, n - 1)) = IF 1 <= n - 1 THEN n - 1 - 1 + 1 ELSE 0
      /\ \A k \in 1 .. n - 1 - 1 + 1 : SubSeq(s, 1, n - 1)[k] = s[1 + k - 1]
  BY <1>1, <1>2, SubSeqProperties
<1>4. Len(SubSeq(s, 1, n - 1)) = n - 1
  BY <1>1, <1>3
<1>5. \A k \in 1 .. n - 1 : SubSeq(s, 1, n - 1)[k] = s[k]
  BY <1>1, <1>3
<1>. QED
  BY <1>1, <1>3, <1>4, <1>5 DEF Front

LEMMA TrimLFIs ==
    ASSUME NEW s \in Seq(Token)
    PROVE  Shorter(trimLF(s), s, LF)
<1>1. CASE s # << >> /\ s[Len(s)] = LF
  BY <1>1, FrontIs, LenProperties DEF trimLF, Shorter, Last
<1>2. CASE ~(s # << >> /\ s[Len(s)] = LF)
  BY <1>2, LenProperties DEF trimLF, Shorter, Last
<1>. QED
  BY <1>1, <1>2

LEMMA TrimCRIs ==
    ASSUME NEW s \in Seq(Token)
    PROVE  Shorter(trimCR(s), s, CR)
<1>1. CASE s # << >> /\ s[Len(s)] = CR
  BY <1>1, FrontIs, LenProperties DEF trimCR, Shorter, Last
<1>2. CASE ~(s # << >> /\ s[Len(s)] = CR)
  BY <1>2, LenProperties DEF trimCR, Shorter, Last
<1>. QED
  BY <1>1, <1>2

(* A line without its end, and without the carriage return before it. *)
LEMMA TrimEOLIs ==
    ASSUME NEW s \in Seq(Token)
    PROVE  /\ trimEOL(s) \in Seq(Token) /\ Len(trimEOL(s)) \in Nat
           /\ Len(trimEOL(s)) <= Len(s) /\ Len(s) - 2 <= Len(trimEOL(s))
           /\ \A k \in 1 .. Len(trimEOL(s)) : trimEOL(s)[k] = s[k]
           /\ ~hasLF(s) => trimEOL(s) = trimCR(s)
<1>1. PICK t : t = trimLF(s)
  OBVIOUS
<1>2. Shorter(t, s, LF)
  BY <1>1, TrimLFIs
<1>3. t \in Seq(Token)
  BY <1>2 DEF Shorter
<1>4. PICK u : u = trimCR(t)
  OBVIOUS
<1>5. Shorter(u, t, CR)
  BY <1>3, <1>4, TrimCRIs
<1>6. trimEOL(s) = u
  BY <1>1, <1>4 DEF trimEOL
<1>7. PICK n \in Nat, m \in Nat, l \in Nat : n = Len(s) /\ m = Len(t) /\ l = Len(u)
  BY <1>2, <1>5, LenProperties DEF Shorter
<1>8. (m = n \/ m = n - 1) /\ (l = m \/ l = m - 1)
  BY <1>2, <1>5, <1>7 DEF Shorter
<1>9. \A k \in 1 .. l : u[k] = s[k]
  BY <1>2, <1>5, <1>7, <1>8 DEF Shorter
<1>10. ASSUME ~hasLF(s) PROVE trimEOL(s) = trimCR(s)
  <2>1. s # << >> => s[Len(s)] # LF
    <3>1. s # << >> => Len(s) \in 1 .. Len(s)
      BY EmptySeq, LenProperties
    <3>. QED
      BY <1>10, <3>1 DEF hasLF, Contains
  <2>2. t = s
    BY <1>2, <2>1 DEF Shorter
  <2>. QED
    BY <1>4, <1>6, <2>2
<1>. QED
  BY <1>5, <1>6, <1>7, <1>8, <1>9, <1>10 DEF Shorter

(* w is the line s with its end. *)
EndsLine(w, s) ==
    /\ w \in Seq(Token) /\ s \in Seq(Token)
    /\ Len(w) = Len(s) + 1 /\ w[Len(s) + 1] = LF
    /\ \A k \in 1 .. Len(s) : w[k] = s[k]

LEMMA TrimEOLOfLine ==
    ASSUME NEW w, NEW s, EndsLine(w, s)
    PROVE  trimEOL(w) = trimCR(s)
<1>1. PICK t : t = trimLF(w)
  OBVIOUS
<1>2. w \in Seq(Token) /\ s \in Seq(Token)
  BY DEF EndsLine
<1>3. Shorter(t, w, LF)
  BY <1>1, <1>2, TrimLFIs
<1>4. PICK n \in Nat, m \in Nat : n = Len(s) /\ m = Len(w)
  BY <1>2, LenProperties
<1>5. m = n + 1 /\ w[m] = LF /\ \A k \in 1 .. n : w[k] = s[k]
  BY <1>4 DEF EndsLine
<1>6. w # << >>
  <2>1. m # 0
    BY <1>4, <1>5
  <2>2. Len(<< >>) = 0
    OBVIOUS
  <2>. QED
    BY <1>4, <2>1, <2>2
<1>7. t \in Seq(Token) /\ Len(t) = n /\ \A k \in 1 .. n : t[k] = s[k]
  BY <1>3, <1>4, <1>5, <1>6 DEF Shorter
<1>8. t = s
  BY <1>2, <1>4, <1>7, SeqEqual
<1>. QED
  BY <1>1, <1>8 DEF trimEOL

(* w is v after u. *)
Joins(w, u, v) ==
    /\ w \in Seq(Token) /\ Len(w) = Len(u) + Len(v)
    /\ \A k \in 1 .. Len(u) : w[k] = u[k]
    /\ \A k \in 1 .. Len(v) : w[Len(u) + k] = v[k]

LEMMA Joined ==
    ASSUME NEW u \in Seq(Token), NEW v \in Seq(Token)
    PROVE  Joins(u \o v, u, v)
<1>1. PICK n \in Nat, m \in Nat : n = Len(u) /\ m = Len(v)
  BY LenProperties
<1>2. PICK w : w = u \o v
  OBVIOUS
<1>3. /\ w \in Seq(Token) /\ Len(w) = n + m
      /\ \A k \in 1 .. n + m : w[k] = IF k <= n THEN u[k] ELSE v[k - n]
  BY <1>1, <1>2, ConcatProperties, Zenon
<1>4. \A k \in 1 .. n : w[k] = u[k]
  BY <1>1, <1>3
<1>5. \A k \in 1 .. m : w[n + k] = v[k]
  BY <1>1, <1>3
<1>6. Joins(w, u, v)
  BY <1>1, <1>3, <1>4, <1>5 DEF Joins
<1>. QED
  BY <1>2, <1>6

(***************************************************************************)
(* Frames.                                                                 *)
(***************************************************************************)
LEMMA HeaderIs ==
    ASSUME NEW n \in 1 .. 9
    PROVE  /\ header(n) \in Seq(Token) /\ Len(header(n)) = 5
           /\ header(n)[1] = ContentLength[1] /\ header(n)[2] = ContentLength[2]
           /\ header(n)[3] = Number[n] /\ header(n)[4] = CR /\ header(n)[5] = LF
           /\ ContentLength \o <<Number[n]>> \in Seq(Token)
           /\ trimEOL(header(n)) = ContentLength \o <<Number[n]>>
<1>1. PICK x \in Token : x = Number[n] /\ x # LF /\ x # CR
  BY TokensDiffer
<1>2. PICK r \in Token, f \in Token : r = CR /\ f = LF /\ r # f
  BY TokensDiffer
<1>3. PICK c \in Seq(Token) : c = ContentLength /\ Len(c) = 2
  BY TokensDiffer
<1>4. PICK w : w = <<x, r, f>>
  OBVIOUS
<1>5. w \in Seq(Token) /\ Len(w) = 3 /\ w[1] = x /\ w[2] = r /\ w[3] = f
  BY <1>4
<1>6. PICK y : y = <<x, r>>
  OBVIOUS
<1>7. y \in Seq(Token) /\ Len(y) = 2 /\ y[1] = x /\ y[2] = r
  BY <1>6
<1>8. PICK z : z = <<x>>
  OBVIOUS
<1>9. z \in Seq(Token) /\ Len(z) = 1 /\ z[1] = x
  BY <1>8
<1>10. PICK h, g, t : h = c \o w /\ g = c \o y /\ t = c \o z
  OBVIOUS
<1>11. /\ h \in Seq(Token) /\ Len(h) = 5 /\ \A k \in 1 .. 2 : h[k] = c[k]
       /\ \A k \in 1 .. 3 : h[2 + k] = w[k]
  <2>1. Joins(h, c, w)
    BY <1>5, <1>10, Joined
  <2>. QED
    BY <1>3, <1>5, <2>1 DEF Joins
<1>12. /\ g \in Seq(Token) /\ Len(g) = 4 /\ \A k \in 1 .. 2 : g[k] = c[k]
       /\ \A k \in 1 .. 2 : g[2 + k] = y[k]
  <2>1. Joins(g, c, y)
    BY <1>7, <1>10, Joined
  <2>. QED
    BY <1>3, <1>7, <2>1 DEF Joins
<1>13. /\ t \in Seq(Token) /\ Len(t) = 3 /\ \A k \in 1 .. 2 : t[k] = c[k]
       /\ \A k \in 1 .. 1 : t[2 + k] = z[k]
  <2>1. Joins(t, c, z)
    BY <1>9, <1>10, Joined
  <2>. QED
    BY <1>3, <1>9, <2>1 DEF Joins
<1>14. /\ h[1] = c[1] /\ h[2] = c[2] /\ h[3] = x /\ h[4] = r /\ h[5] = f
       /\ g[1] = c[1] /\ g[2] = c[2] /\ g[3] = x /\ g[4] = r
       /\ t[1] = c[1] /\ t[2] = c[2] /\ t[3] = x
  BY <1>5, <1>7, <1>9, <1>11, <1>12, <1>13
<1>15. trimEOL(h) = trimCR(g)
  <2>1. \A k \in 1 .. 4 : h[k] = g[k]
    BY <1>14
  <2>2. EndsLine(h, g)
    BY <1>2, <1>11, <1>12, <1>14, <2>1 DEF EndsLine
  <2>. QED
    BY <2>2, TrimEOLOfLine
<1>16. trimCR(g) = t
  <2>1. PICK s : s = trimCR(g)
    OBVIOUS
  <2>2. Shorter(s, g, CR)
    BY <1>12, <2>1, TrimCRIs
  <2>3. g # << >>
    BY <1>12, EmptySeq
  <2>4. s \in Seq(Token) /\ Len(s) = 3 /\ \A k \in 1 .. 3 : s[k] = g[k]
    <3>1. g[Len(g)] = CR
      BY <1>2, <1>12, <1>14
    <3>2. Len(s) = 3
      BY <1>12, <2>2, <2>3, <3>1 DEF Shorter
    <3>. QED
      BY <2>2, <3>2 DEF Shorter
  <2>5. \A k \in 1 .. 3 : s[k] = t[k]
    BY <1>14, <2>4
  <2>6. s = t
    BY <1>13, <2>4, <2>5, SeqEqual
  <2>. QED
    BY <2>1, <2>6
<1>17. header(n) = h /\ ContentLength \o <<Number[n]>> = t
  BY <1>1, <1>2, <1>3, <1>4, <1>8, <1>10 DEF header
<1>. QED
  BY <1>1, <1>2, <1>3, <1>11, <1>13, <1>14, <1>15, <1>16, <1>17

(* A blank line. *)
LEMMA BlankIs ==
    /\ <<CR, LF>> \in Seq(Token) /\ Len(<<CR, LF>>) = 2
    /\ <<CR, LF>>[1] = CR /\ <<CR, LF>>[2] = LF
    /\ trimEOL(<<CR, LF>>) = << >>
<1>1. PICK r \in Token, f \in Token : r = CR /\ f = LF /\ r # f
  BY TokensDiffer
<1>2. PICK w : w = <<r, f>>
  OBVIOUS
<1>3. w \in Seq(Token) /\ Len(w) = 2 /\ w[1] = r /\ w[2] = f
  BY <1>2
<1>4. PICK s : s = <<r>>
  OBVIOUS
<1>5. s \in Seq(Token) /\ Len(s) = 1 /\ s[1] = r
  BY <1>4
<1>6. trimEOL(w) = trimCR(s)
  <2>1. EndsLine(w, s)
    BY <1>1, <1>3, <1>5 DEF EndsLine
  <2>. QED
    BY <2>1, TrimEOLOfLine
<1>7. trimCR(s) = << >>
  <2>1. PICK t : t = trimCR(s)
    OBVIOUS
  <2>2. Shorter(t, s, CR)
    BY <1>5, <2>1, TrimCRIs
  <2>3. s # << >>
    BY <1>5, EmptySeq
  <2>4. t \in Seq(Token) /\ Len(t) = 0
    BY <1>1, <1>5, <2>2, <2>3 DEF Shorter
  <2>. QED
    BY <2>1, <2>4, EmptySeq
<1>. QED
  BY <1>1, <1>2, <1>3, <1>6, <1>7

LEMMA FramedLine ==
    ASSUME writerFraming = "ndjson", NEW s \in Seq(Token)
    PROVE  /\ framed(s) \in Seq(Token) /\ Len(framed(s)) = Len(s) + 1
           /\ \A k \in 1 .. Len(s) : framed(s)[k] = s[k]
           /\ framed(s)[Len(s) + 1] = LF
<1>1. LF \in Token
  BY TokensDiffer
<1>. QED
  BY <1>1, AppendProperties DEF framed

LEMMA FramedBlock ==
    ASSUME writerFraming = "content-length", NEW s \in Seq(Token), Len(s) \in 1 .. 9
    PROVE  /\ framed(s) \in Seq(Token) /\ Len(framed(s)) = Len(s) + 7
           /\ \A k \in 1 .. 5 : framed(s)[k] = header(Len(s))[k]
           /\ framed(s)[6] = CR /\ framed(s)[7] = LF
           /\ \A k \in 1 .. Len(s) : framed(s)[7 + k] = s[k]
<1>1. PICK n \in 1 .. 9 : n = Len(s)
  OBVIOUS
<1>2. PICK h \in Seq(Token) : h = header(n) /\ Len(h) = 5
  BY HeaderIs
<1>3. PICK e \in Seq(Token) : e = <<CR, LF>> /\ Len(e) = 2 /\ e[1] = CR /\ e[2] = LF
  BY BlankIs
<1>4. framed(s) = (h \o e) \o s
  <2>1. "content-length" # "ndjson"
    OBVIOUS
  <2>. QED
    BY <1>1, <1>2, <1>3, <2>1, Zenon DEF framed
<1>5. PICK u : u = h \o e
  OBVIOUS
<1>6. /\ u \in Seq(Token) /\ Len(u) = 7
      /\ \A k \in 1 .. 5 : u[k] = h[k]
      /\ \A k \in 1 .. 2 : u[5 + k] = e[k]
  <2>1. Joins(u, h, e)
    BY <1>5, Joined
  <2>. QED
    BY <1>2, <1>3, <2>1 DEF Joins
<1>7. PICK v : v = u \o s
  OBVIOUS
<1>8. /\ v \in Seq(Token) /\ Len(v) = 7 + n
      /\ \A k \in 1 .. 7 : v[k] = u[k]
      /\ \A k \in 1 .. n : v[7 + k] = s[k]
  <2>1. Joins(v, u, s)
    BY <1>6, <1>7, Joined
  <2>. QED
    BY <1>1, <1>6, <2>1 DEF Joins
<1>9. \A k \in 1 .. 5 : v[k] = h[k]
  <2>1. \A k \in 1 .. 5 : k \in 1 .. 7
    OBVIOUS
  <2>2. \A k \in 1 .. 5 : v[k] = u[k]
    BY <1>8, <2>1, Zenon
  <2>. QED
    BY <1>6, <2>2
<1>10. v[6] = e[1] /\ v[7] = e[2]
  BY <1>6, <1>8
<1>11. framed(s) = v
  BY <1>4, <1>5, <1>7
<1>12. Len(v) = Len(s) + 7
  BY <1>1, <1>8
<1>. QED
  BY <1>1, <1>2, <1>3, <1>8, <1>9, <1>10, <1>11, <1>12

(* A message starts with a brace, so its frame starts with that or with a  *)
(* header, and never with a byte order mark.                               *)
LEMMA FramedStarts ==
    ASSUME writerFraming \in Framings, NEW s \in Seq(Token), Sendable(s)
    PROVE  /\ framed(s) \in Seq(Token) /\ Len(framed(s)) \in Nat /\ Len(s) < Len(framed(s))
           /\ framed(s)[1] # BOM
<1>1. PICK n \in Nat : n = Len(s) /\ n # 0 /\ 1 \in 1 .. n
  BY EmptySeq, LenProperties DEF Sendable
<1>2. CASE writerFraming = "ndjson"
  <2>1. framed(s)[1] = s[1] /\ Len(framed(s)) = n + 1
    BY <1>1, <1>2, FramedLine
  <2>2. framed(s)[1] # BOM
    BY <2>1, TokensDiffer DEF Sendable
  <2>. QED
    BY <1>1, <1>2, <2>1, <2>2, FramedLine
<1>3. CASE writerFraming # "ndjson"
  <2>1. writerFraming = "content-length" /\ n \in 1 .. 9
    BY <1>1, <1>3, TokensDiffer DEF Sendable, Framings
  <2>2. framed(s)[1] = header(n)[1] /\ Len(framed(s)) = n + 7 /\ framed(s) \in Seq(Token)
    <3>1. \A k \in 1 .. 5 : framed(s)[k] = header(n)[k]
      BY <1>1, <2>1, FramedBlock
    <3>2. Len(framed(s)) = n + 7 /\ framed(s) \in Seq(Token)
      BY <1>1, <2>1, FramedBlock
    <3>. QED
      BY <3>1, <3>2
  <2>3. framed(s)[1] # BOM
    BY <2>1, <2>2, HeaderIs, TokensDiffer
  <2>. QED
    BY <1>1, <2>2, <2>3
<1>. QED
  BY <1>2, <1>3

(***************************************************************************)
(* json.Compact: no line end stays, and the first brace does.              *)
(***************************************************************************)
(* What is kept of a set that has 1 starts with it. *)
Starts(s, n, W) == s \in Seq(W) /\ (1 \in W /\ n # 0 => s # << >> /\ s[1] = 1)

LEMMA KeptStarts ==
    ASSUME NEW W, NEW n \in Nat, NEW g, Kept(g, n, W)
    PROVE  Starts(g[n], n, W)
<1>. DEFINE Bad == {m \in 0 .. n : ~Starts(g[m], m, W)}
<1>1. SUFFICES ASSUME Bad # {} PROVE FALSE
  OBVIOUS
<1>2. PICK m \in Bad : \A k \in Bad : m <= k
  <2>1. Bad \subseteq Nat
    OBVIOUS
  <2>. HIDE DEF Bad
  <2>. QED
    BY <1>1, <2>1, LeastNumber
<1>3. m \in 0 .. n /\ ~Starts(g[m], m, W)
  OBVIOUS
<1>4. g[m] = IF m = 0 THEN << >> ELSE IF m \in W THEN Append(g[m - 1], m) ELSE g[m - 1]
  BY <1>3 DEF Kept
<1>5. CASE m = 0
  BY <1>3, <1>4, <1>5, EmptySeq DEF Starts
<1>6. CASE m # 0
  <2>1. m - 1 \in 0 .. n /\ ~(m <= m - 1) /\ m \in 1 .. n
    BY <1>3, <1>6
  <2>2. Starts(g[m - 1], m - 1, W)
    BY <1>2, <2>1
  <2>. HIDE DEF Bad
  <2>3. PICK s \in Seq(W) : s = g[m - 1]
    BY <2>2 DEF Starts
  <2>4. 1 \in W /\ m - 1 # 0 => s # << >> /\ s[1] = 1
    BY <2>2, <2>3 DEF Starts
  <2>5. CASE m \in W
    <3>1. PICK t : t = Append(s, m)
      OBVIOUS
    <3>2. /\ t \in Seq(W) /\ t # << >> /\ t[Len(s) + 1] = m
          /\ \A k \in 1 .. Len(s) : t[k] = s[k]
      BY <2>5, <3>1, AppendProperties
    <3>3. ASSUME 1 \in W PROVE t[1] = 1
      <4>1. CASE m = 1
        <5>1. s = << >>
          <6>1. g[0] = << >>
            BY <2>1 DEF Kept
          <6>. QED
            BY <2>3, <4>1, <6>1
        <5>2. Len(s) + 1 = 1
          BY <5>1
        <5>. QED
          BY <3>2, <4>1, <5>2
      <4>2. CASE m # 1
        <5>1. s # << >> /\ s[1] = 1
          BY <1>3, <2>4, <3>3, <4>2
        <5>2. 1 \in 1 .. Len(s)
          BY <5>1, EmptySeq, LenProperties
        <5>. QED
          BY <3>2, <5>1, <5>2
      <4>. QED
        BY <4>1, <4>2
    <3>. QED
      BY <1>3, <1>4, <1>6, <2>3, <2>5, <3>1, <3>2, <3>3 DEF Starts
  <2>6. CASE m \notin W
    <3>1. g[m] = s
      BY <1>4, <1>6, <2>3, <2>6
    <3>2. 1 \in W => m - 1 # 0
      BY <1>3, <2>6
    <3>. QED
      BY <1>3, <2>4, <3>1, <3>2 DEF Starts
  <2>. QED
    BY <2>5, <2>6
<1>. QED
  BY <1>5, <1>6

LEMMA CompactIs ==
    ASSUME NEW s \in Seq(Token), s # << >>, s[1] = Brace
    PROVE  /\ Compact(s) \in Seq(Token) /\ Compact(s) # << >> /\ Compact(s)[1] = Brace
           /\ ~hasLF(Compact(s))
<1>1. PICK n \in Nat : n = Len(s) /\ n # 0 /\ DOMAIN s = 1 .. n
  BY EmptySeq, LenProperties
<1>2. PICK W : W = {i \in DOMAIN s : s[i] \notin {CR, LF}}
  OBVIOUS
<1>3. PICK g : g = CHOOSE h : Kept(h, n, W)
  OBVIOUS
<1>4. Kept(g, n, W)
  BY <1>1, <1>3, KeptExists
<1>5. PICK ks : ks = g[n]
  OBVIOUS
<1>6. Starts(ks, n, W)
  BY <1>1, <1>4, <1>5, KeptStarts
<1>7. 1 \in W
  BY <1>1, <1>2, TokensDiffer
<1>8. ks \in Seq(W) /\ ks # << >> /\ ks[1] = 1
  BY <1>1, <1>6, <1>7 DEF Starts
<1>9. PICK l \in Nat : l = Len(ks) /\ l # 0 /\ DOMAIN ks = 1 .. l
  BY <1>8, EmptySeq, LenProperties
<1>10. \A k \in 1 .. l : ks[k] \in W
  BY <1>8, <1>9, ElementOfSeq
<1>11. PICK c : c = [k \in 1 .. l |-> s[ks[k]]]
  OBVIOUS
<1>12. Compact(s) = c
  <2>1. Compact(s) = [k \in DOMAIN g[n] |-> s[g[n][k]]]
    BY <1>1, <1>2, <1>3 DEF Compact, Kept
  <2>. QED
    BY <1>5, <1>9, <1>11, <2>1
<1>13. \A k \in 1 .. l : c[k] \in Token /\ c[k] # LF
  <2>1. \A i \in W : s[i] \in Token /\ s[i] # LF
    BY <1>1, <1>2, ElementOfSeq
  <2>. QED
    BY <1>10, <1>11, <2>1
<1>14. c \in Seq(Token) /\ Len(c) = l
  <2>1. \A E : c \in [1 .. l -> E] => c \in Seq(E) /\ Len(c) = l
    OBVIOUS
  <2>2. c \in [1 .. l -> Token]
    BY <1>11, <1>13
  <2>. QED
    BY <2>1, <2>2
<1>15. c # << >> /\ c[1] = Brace
  <2>1. c[1] = s[1]
    BY <1>8, <1>9, <1>11
  <2>2. c # << >>
    BY <1>9, <1>14
  <2>. QED
    BY <2>1, <2>2
<1>16. ~hasLF(c)
  BY <1>13, <1>14 DEF hasLF, Contains
<1>. QED
  BY <1>12, <1>14, <1>15, <1>16

(***************************************************************************)
(* What ReadSlice returns: a line, a full buffer, or the rest.             *)
(***************************************************************************)
SliceIs(str, a, s, full, eof) ==
    /\ s \in Seq(Token) /\ Len(s) \in Nat /\ a + Len(s) <= Len(str)
    /\ \A k \in 1 .. Len(s) : s[k] = str[a + k]
    /\ \A k \in 1 .. Len(s) - 1 : s[k] # LF
    /\ ~(full /\ eof)
    /\ IF full \/ eof THEN ~hasLF(s) ELSE Len(s) # 0 /\ s[Len(s)] = LF
    /\ full => Len(s) # 0
    /\ eof => a + Len(s) = Len(str)

LEMMA UnreadIs ==
    ASSUME stream \in Seq(Token), at \in 0 .. Len(stream)
    PROVE  /\ unread \in Seq(Token) /\ Len(unread) = Len(stream) - at /\ Len(stream) \in Nat
           /\ \A k \in 1 .. Len(stream) - at : unread[k] = stream[at + k]
<1>1. PICK n \in Nat : n = Len(stream)
  BY LenProperties
<1>2. \A k \in at + 1 .. n : stream[k] \in Token
  BY <1>1, ElementOfSeq
<1>3. at + 1 \in Int /\ n \in Int
  BY <1>1
<1>4. PICK u : u = SubSeq(stream, at + 1, n)
  OBVIOUS
<1>5. /\ u \in Seq(Token)
      /\ Len(u) = IF at + 1 <= n THEN n - (at + 1) + 1 ELSE 0
      /\ \A k \in 1 .. n - (at + 1) + 1 : u[k] = stream[at + 1 + k - 1]
  BY <1>2, <1>3, <1>4, SubSeqProperties
<1>6. Len(u) = n - at
  BY <1>1, <1>5
<1>7. \A k \in 1 .. n - at : u[k] = stream[at + k]
  <2>1. ASSUME NEW k \in 1 .. n - at PROVE u[k] = stream[at + k]
    <3>1. k \in 1 .. n - (at + 1) + 1 /\ at + 1 + k - 1 = at + k
      BY <1>1
    <3>. QED
      BY <1>5, <3>1
  <2>. QED
    BY <2>1
<1>. QED
  BY <1>1, <1>4, <1>5, <1>6, <1>7 DEF unread

LEMMA ReadSlice ==
    ASSUME stream \in Seq(Token), at \in 0 .. Len(stream), sliceReady
    PROVE  /\ SliceIs(stream, at, slice, sliceFull, sliceEOF)
           /\ sliceEOF => ended
<1>1. PICK u \in Seq(Token) : u = unread
  BY UnreadIs
<1>2. PICK m \in Nat : m = Len(u) /\ m = Len(stream) - at /\ DOMAIN u = 1 .. m
  BY <1>1, UnreadIs, LenProperties
<1>3. \A k \in 1 .. m : u[k] = stream[at + k] /\ u[k] \in Token
  BY <1>1, <1>2, UnreadIs, ElementOfSeq
<1>4. BufferSize \in Nat /\ BufferSize # 0
  BY LimitsAssumption
<1>5. PICK ends : ends = {i \in 1 .. m : u[i] = LF /\ i <= BufferSize}
  OBVIOUS
<1>6. lineEnds = ends
  BY <1>1, <1>2, <1>5 DEF lineEnds
<1>7. PICK least : least = CHOOSE i \in ends : \A k \in ends : i <= k
  OBVIOUS
<1>8. PICK n : n = IF ends # {} THEN least ELSE IF m >= BufferSize THEN BufferSize ELSE m
  OBVIOUS
<1>9. PICK s : s = SubSeq(u, 1, n)
  OBVIOUS
<1>10. slice = s
  BY <1>1, <1>2, <1>6, <1>7, <1>8, <1>9 DEF slice
<1>11. ends # {} => n \in ends /\ \A k \in ends : n <= k
  <2>1. ends \subseteq Nat
    BY <1>5
  <2>. QED
    BY <1>7, <1>8, <2>1, LeastNumber
<1>12. n \in 0 .. m /\ (ends # {} => n # 0) /\ (ends = {} /\ m >= BufferSize => n = BufferSize)
       /\ (ends = {} /\ ~(m >= BufferSize) => n = m)
  <2>1. CASE ends # {}
    <3>1. n \in 1 .. m
      BY <1>5, <1>11, <2>1
    <3>. QED
      BY <1>2, <2>1, <3>1
  <2>2. CASE ends = {}
    BY <1>2, <1>4, <1>8, <2>2
  <2>. QED
    BY <2>1, <2>2
<1>13. s \in Seq(Token) /\ Len(s) = n /\ \A k \in 1 .. n : s[k] = u[k]
  <2>1. \A k \in 1 .. n : u[k] \in Token
    BY <1>2, <1>3, <1>12
  <2>2. /\ s \in Seq(Token) /\ Len(s) = IF 1 <= n THEN n - 1 + 1 ELSE 0
        /\ \A k \in 1 .. n - 1 + 1 : s[k] = u[1 + k - 1]
    BY <1>9, <1>12, <2>1, SubSeqProperties
  <2>3. Len(s) = n
    BY <1>2, <1>12, <2>2
  <2>4. \A k \in 1 .. n : s[k] = u[k]
    BY <1>2, <1>12, <2>2
  <2>. QED
    BY <2>2, <2>3, <2>4
<1>14. \A k \in 1 .. n : s[k] = stream[at + k]
  BY <1>2, <1>3, <1>12, <1>13
<1>15. sliceFull <=> ends = {} /\ m >= BufferSize
  BY <1>1, <1>2, <1>6 DEF sliceFull
<1>16. sliceEOF <=> ends = {} /\ ~(m >= BufferSize)
  BY <1>6, <1>15 DEF sliceEOF
<1>17. \A k \in 1 .. n - 1 : s[k] # LF
  <2>1. ASSUME NEW k \in 1 .. n - 1, s[k] = LF PROVE FALSE
    <3>1. k \in 1 .. m /\ k <= n /\ k < n
      BY <1>2, <1>12
    <3>2. u[k] = LF
      BY <1>2, <1>12, <1>13, <2>1, <3>1
    <3>3. n <= BufferSize
      BY <1>2, <1>4, <1>5, <1>11, <1>12
    <3>4. k \in ends
      BY <1>2, <1>4, <1>5, <1>12, <3>1, <3>2, <3>3
    <3>. QED
      BY <1>2, <1>11, <1>12, <3>1, <3>4
  <2>. QED
    BY <2>1
<1>18. ends # {} => s[n] = LF
  BY <1>5, <1>11, <1>12, <1>13
<1>19. ends = {} => ~hasLF(s)
  <2>1. ASSUME ends = {}, NEW k \in 1 .. n, s[k] = LF PROVE FALSE
    <3>1. k \in 1 .. m /\ k <= BufferSize
      BY <1>2, <1>4, <1>12, <2>1
    <3>2. u[k] = LF
      BY <1>13, <2>1
    <3>. QED
      BY <1>5, <2>1, <3>1, <3>2
  <2>. QED
    BY <1>13, <2>1 DEF hasLF, Contains
<1>20. n \in Nat /\ at + n <= Len(stream) /\ (n = m => at + n = Len(stream))
  BY <1>2, <1>12, LenProperties
<1>21. SliceIs(stream, at, s, sliceFull, sliceEOF)
  BY <1>4, <1>12, <1>13, <1>14, <1>15, <1>16, <1>17, <1>18, <1>19, <1>20 DEF SliceIs
<1>22. sliceEOF => ended
  <2>1. Len(unread) >= BufferSize <=> m >= BufferSize
    BY <1>1, <1>2
  <2>. QED
    BY <1>6, <1>16, <2>1 DEF sliceReady
<1>. QED
  BY <1>10, <1>21, <1>22

(***************************************************************************)
(* The writer: a frame more, or a cut where nothing was read.              *)
(***************************************************************************)
(* What a step of the writer leaves alone. *)
Behind(b) ==
    /\ \A i \in 1 .. Len(sent) + 1 : frameStart(b, i)' = frameStart(b, i)
    /\ \A i \in 1 .. Len(sent) : sent'[i] = sent[i] /\ marks'[i] = marks[i]
    /\ Len(sent) <= Len(sent') /\ Len(sent') \in Nat
    /\ \A i \in 1 .. Len(sent) : \A line \in Noise \cup {<< >>} : FrameAt(b, i, line) => FrameAt(b, i, line)'
    /\ stream' \in Seq(Token) /\ at <= Len(stream')
    /\ \A k \in 1 .. at : stream'[k] = stream[k]
    /\ UNCHANGED <<writerFraming, readerFraming, readerVars>>

LEMMA LayoutIs ==
    ASSUME FramingTypeInv, NEW b \in {0, 1}, Layout(b)
    PROVE  /\ Len(sent) \in Nat /\ Len(marks) = Len(sent)
           /\ DOMAIN sent = 1 .. Len(sent) /\ DOMAIN marks = 1 .. Len(sent)
           /\ \A i \in 1 .. Len(sent) :
                 /\ sent[i] \in Seq(Token) /\ Sendable(sent[i]) /\ Len(sent[i]) \in Nat /\ Len(sent[i]) # 0
                 /\ marks[i] \in Nat /\ b < marks[i] /\ \A k \in 1 .. i - 1 : marks[k] < marks[i]
           /\ \A i \in 1 .. Len(sent) + 1 : frameStart(b, i) \in Nat
           /\ \A i \in 1 .. Len(sent) : frameStart(b, i) < marks[i] /\ frameStart(b, i + 1) = marks[i]
<1>1. PICK n \in Nat : n = Len(sent) /\ Len(marks) = n /\ DOMAIN sent = 1 .. n /\ DOMAIN marks = 1 .. n
  BY LenProperties DEF FramingTypeInv, Layout
<1>2. \A i \in 1 .. n : sent[i] \in Seq(Token) /\ marks[i] \in Nat
  BY <1>1, ElementOfSeq DEF FramingTypeInv
<1>3. \A i \in 1 .. n : Sendable(sent[i]) /\ Len(sent[i]) \in Nat /\ Len(sent[i]) # 0
  BY <1>1, <1>2, LenProperties, EmptySeq DEF Layout, Sendable
<1>4. \A i \in 1 .. n : b < marks[i] /\ \A k \in 1 .. i - 1 : marks[k] < marks[i]
  BY <1>1 DEF Layout
<1>5. \A i \in 1 .. n + 1 : frameStart(b, i) \in Nat
  BY <1>1, <1>2 DEF frameStart
<1>6. \A i \in 1 .. n : frameStart(b, i) < marks[i] /\ frameStart(b, i + 1) = marks[i]
  BY <1>1, <1>4 DEF frameStart
<1>. QED
  BY <1>1, <1>2, <1>3, <1>4, <1>5, <1>6

(* The reader stands where it stood. *)
LEMMA ReaderStands ==
    ASSUME FramingTypeInv, NEW b \in {0, 1}, Stands(b), ~ended, Behind(b)
    PROVE  Position(b)' /\ FailureInv(b)'
<1>. USE DEF Stands
<1>1. PICK n \in Nat : n = Len(sent)
  BY LayoutIs
<1>2. /\ at' = at /\ started' = started /\ block' = block /\ acc' = acc /\ frames' = frames
      /\ failure' = failure /\ readerFraming' = readerFraming /\ writerFraming' = writerFraming
  BY DEF Behind, readerVars
<1>3. /\ \A i \in 1 .. n + 1 : frameStart(b, i)' = frameStart(b, i)
      /\ \A i \in 1 .. n : sent'[i] = sent[i] /\ marks'[i] = marks[i]
      /\ \A i \in 1 .. n : \A line \in Noise \cup {<< >>} : FrameAt(b, i, line) => FrameAt(b, i, line)'
      /\ n <= Len(sent') /\ Len(sent') \in Nat
  BY <1>1 DEF Behind
<1>4. /\ Len(frames) \in Nat /\ at \in Nat /\ Len(acc) \in Nat /\ DOMAIN frames = 1 .. Len(frames)
      /\ \A k \in 1 .. at : stream'[k] = stream[k]
  BY LenProperties DEF FramingTypeInv, Behind
<1>5. reached' = reached /\ reached = Len(frames) + 1
  BY <1>2 DEF reached
<1>6. ASSUME NEW a \in Nat, NEW w, Len(w) \in Nat, a + Len(w) = at, Holds(stream, a, w)
      PROVE  Holds(stream', a, w)
  <2>1. \A k \in 1 .. Len(w) : a + k \in 1 .. at
    BY <1>4, <1>6
  <2>2. \A k \in 1 .. Len(w) : a + k <= Len(stream)
    BY <2>1, LenProperties DEF FramingTypeInv
  <2>. QED
    BY <1>4, <1>6, <2>1, <2>2 DEF Holds
<1>7. FailureInv(b)'
  <2>1. ASSUME readerFraming = writerFraming, failure = "limit"
        PROVE  (reached <= Len(sent) /\ Len(asRead(sent[reached])) > maxSize)'
    <3>1. reached <= n /\ Len(asRead(sent[reached])) > maxSize
      BY <1>1, <2>1 DEF FailureInv
    <3>2. reached \in 1 .. n
      BY <1>4, <1>5, <3>1
    <3>3. sent'[reached] = sent[reached] /\ reached' = reached
      BY <1>3, <1>5, <3>2
    <3>4. asRead(sent[reached])' = asRead(sent[reached])
      BY <1>2, <3>3 DEF asRead
    <3>. QED
      BY <1>3, <1>4, <1>5, <3>1, <3>4
  <2>2. readerFraming = writerFraming => failure # "EOF" /\ failure # "unexpected EOF"
    BY DEF FailureInv
  <2>. QED
    BY <1>2, <2>1, <2>2 DEF FailureInv
<1>8. ASSUME InBlock(b) PROVE InBlock(b)'
  <2>1. Len(frames) <= n /\ \A k \in DOMAIN frames : frames[k] = sent[k]
    BY <1>1, <1>8 DEF InBlock
  <2>2. reached \in 1 .. n + 1 /\ frameStart(b, reached)' = frameStart(b, reached)
    <3>1. reached \in 1 .. n + 1
      BY <1>4, <1>5, <2>1
    <3>. QED
      BY <1>2, <1>3, <1>5, <3>1 DEF frameStart
  <2>3. Len(frames') <= Len(sent') /\ \A k \in DOMAIN frames' : frames'[k] = sent'[k]
    BY <1>2, <1>3, <1>4, <2>1
  <2>4. CASE reached <= n
    <3>1. reached \in 1 .. n
      BY <2>2, <2>4
    <3>2. /\ sent'[reached'] = sent[reached] /\ marks'[reached'] = marks[reached]
          /\ reached' <= Len(sent')
      BY <1>3, <1>5, <2>4, <3>1
    <3>3. \A line \in Noise : FrameAt(b, reached, line) => FrameAt(b, reached, line)'
      <4>1. \A line \in Noise : FrameAt(b, reached, line) =>
               \A i : i = reached => FrameAt(b, i, line)'
        BY <1>3, <3>1
      <4>. QED
        BY <1>5, <4>1 DEF FrameAt
    <3>4. (block = NoBlock /\ at = frameStart(b, reached))' \/ ~(block = NoBlock /\ at = frameStart(b, reached))
      BY <1>2, <2>2 DEF NoBlock
    <3>5. \A line \in Noise : at = frameStart(b, reached) + Len(line) => (at = frameStart(b, reached) + Len(line))'
      BY <1>2, <2>2
    <3>. QED
      BY <1>1, <1>2, <1>8, <2>3, <3>2, <3>3, <3>4, <3>5 DEF InBlock
  <2>5. CASE ~(reached <= n)
    <3>1. block = NoBlock /\ at = frameStart(b, reached)
      BY <1>1, <1>8, <2>5 DEF InBlock
    <3>2. (block = NoBlock /\ at = frameStart(b, reached))'
      BY <1>2, <2>2, <3>1 DEF NoBlock
    <3>. QED
      BY <1>2, <1>8, <2>3, <3>2 DEF InBlock
  <2>. QED
    BY <2>4, <2>5
<1>9. ASSUME InLine(b) PROVE InLine(b)'
  <2>1. /\ Len(frames) <= n /\ \A k \in DOMAIN frames : frames[k] = trimCR(sent[k])
        /\ at = frameStart(b, reached) + Len(acc) /\ Holds(stream, frameStart(b, reached), acc) /\ ~hasLF(acc)
    BY <1>1, <1>9 DEF InLine
  <2>2. reached \in 1 .. n + 1
    BY <1>4, <1>5, <2>1
  <2>3. frameStart(b, reached)' = frameStart(b, reached) /\ frameStart(b, reached) \in Nat
    BY <1>1, <1>2, <1>3, <1>5, <2>2, LayoutIs DEF frameStart
  <2>4. Holds(stream', frameStart(b, reached), acc)
    BY <1>4, <1>6, <2>1, <2>3
  <2>5. Len(frames') <= Len(sent') /\ \A k \in DOMAIN frames' : frames'[k] = trimCR(sent'[k])
    BY <1>2, <1>3, <1>4, <2>1
  <2>6. (at = frameStart(b, reached) + Len(acc) /\ Holds(stream, frameStart(b, reached), acc) /\ ~hasLF(acc))'
    BY <1>2, <2>1, <2>3, <2>4
  <2>. QED
    BY <1>2, <1>9, <2>5, <2>6 DEF InLine, NoBlock
<1>10. ASSUME Mistaken(b) PROVE Mistaken(b)'
  <2>1. CASE readerFraming = "content-length"
    BY <1>2, <1>10, <2>1 DEF Mistaken, NoBlock
  <2>2. CASE readerFraming # "content-length" /\ NoLengthFirst(b)
    <3>1. NoLengthFirst(b)'
      <4>1. at >= b + 1 => b + 1 \in 1 .. at
        BY <1>4
      <4>2. at >= b + 2 => b + 2 \in 1 .. at
        BY <1>4
      <4>. QED
        BY <1>2, <1>4, <2>2, <4>1, <4>2 DEF NoLengthFirst
    <3>. QED
      BY <1>2, <1>10, <2>2, <3>1 DEF Mistaken
  <2>3. CASE readerFraming # "content-length" /\ ~NoLengthFirst(b)
    <3>1. frames = << >> /\ at = b + Len(acc) /\ Holds(stream, b, acc) /\ ~hasLF(acc)
      BY <1>10, <2>3 DEF Mistaken
    <3>2. Holds(stream', b, acc)
      BY <1>4, <1>6, <3>1
    <3>. QED
      BY <1>2, <1>10, <2>3, <3>1, <3>2 DEF Mistaken
  <2>. QED
    BY <2>1, <2>2, <2>3
<1>11. Position(b)'
  <2>1. ~NothingLeft
    BY DEF NothingLeft
  <2>. QED
    BY <1>2, <1>8, <1>9, <1>10, <2>1 DEF Position
<1>. QED
  BY <1>7, <1>11

(* A frame is written after a foreign header, or none. *)
Wrote(s, line) ==
    /\ ~ended /\ ended' = ended
    /\ s \in Seq(Token) /\ Sendable(s)
    /\ line = << >> \/ (line \in Noise /\ writerFraming = "content-length")
    /\ sent' = Append(sent, s)
    /\ stream' = (stream \o line) \o framed(s)
    /\ marks' = Append(marks, Len(stream'))
    /\ UNCHANGED <<writerFraming, readerFraming, readerVars>>

(* What is written does not change what was there. *)
Extends(t, str) == \A k \in 1 .. Len(str) : t[k] = str[k]

LEMMA HoldsOn ==
    ASSUME NEW str \in Seq(Token), NEW t, Extends(t, str),
           NEW a \in Nat, NEW w, Len(w) \in Nat, a + Len(w) <= Len(str), Holds(str, a, w)
    PROVE  Holds(t, a, w)
<1>1. PICK n \in Nat : n = Len(str)
  BY LenProperties
<1>2. \A k \in 1 .. Len(w) : a + k \in 1 .. n /\ a + k <= n
  BY <1>1
<1>3. \A k \in 1 .. n : t[k] = str[k]
  BY <1>1 DEF Extends
<1>. QED
  BY <1>1, <1>2, <1>3 DEF Holds

LEMMA WroteOn ==
    ASSUME FramingTypeInv, NEW b \in {0, 1}, Stands(b), NEW s, NEW line, Wrote(s, line)
    PROVE  /\ FramingTypeInv' /\ Behind(b) /\ Layout(b)'
<1>. USE DEF Stands
<1>1. PICK n \in Nat : /\ n = Len(sent) /\ Len(marks) = n
                       /\ DOMAIN sent = 1 .. n /\ DOMAIN marks = 1 .. n
  BY LayoutIs
<1>2. PICK N \in Nat : N = Len(stream) /\ N = frameStart(b, n + 1)
  BY <1>1, LenProperties DEF Layout, Wrote, FramingTypeInv
<1>3. line \in Seq(Token) /\ (line # << >> => line[1] # BOM) /\ Len(line) \in Nat
  BY NoiseAssumption, EmptySeq, LenProperties DEF Wrote
<1>4. PICK f \in Seq(Token) : /\ f = framed(s) /\ Len(f) \in Nat /\ Len(s) < Len(f) /\ f[1] # BOM
                              /\ Len(s) \in Nat /\ Len(s) # 0
  BY FramedStarts, EmptySeq, LenProperties DEF FramingTypeInv, Wrote, Sendable
<1>5. PICK mid : mid = stream \o line
  OBVIOUS
<1>6. Joins(mid, stream, line)
  BY <1>3, <1>5, Joined DEF FramingTypeInv
<1>7. mid \in Seq(Token) /\ Len(mid) = N + Len(line)
  BY <1>2, <1>6 DEF Joins
<1>8. PICK str : str = mid \o f
  OBVIOUS
<1>9. Joins(str, mid, f)
  BY <1>7, <1>8, Joined
<1>10. PICK M \in Nat : M = N + Len(line) + Len(f) /\ N < M /\ N + Len(line) < M
  BY <1>3, <1>4
<1>11. str \in Seq(Token) /\ Len(str) = M
  BY <1>7, <1>9, <1>10 DEF Joins
<1>12. stream' = str /\ sent' = Append(sent, s) /\ marks' = Append(marks, M)
  BY <1>4, <1>5, <1>8, <1>11 DEF Wrote
<1>13. /\ sent' \in Seq(Seq(Token)) /\ Len(sent') = n + 1 /\ sent'[n + 1] = s
       /\ \A i \in 1 .. n : sent'[i] = sent[i]
  <2>1. sent \in Seq(Seq(Token)) /\ s \in Seq(Token)
    BY DEF FramingTypeInv, Wrote
  <2>. QED
    BY <1>1, <1>12, <2>1, AppendProperties
<1>14. /\ marks' \in Seq(Nat) /\ Len(marks') = n + 1 /\ marks'[n + 1] = M
       /\ \A i \in 1 .. n : marks'[i] = marks[i]
  <2>1. marks \in Seq(Nat)
    BY DEF FramingTypeInv
  <2>. QED
    BY <1>1, <1>10, <1>12, <2>1, AppendProperties
<1>15. DOMAIN sent' = 1 .. n + 1 /\ DOMAIN marks' = 1 .. n + 1
  BY <1>13, <1>14, LenProperties
<1>16. \A k \in 1 .. N : str[k] = stream[k]
  <2>1. \A k \in 1 .. N : mid[k] = stream[k]
    BY <1>2, <1>6 DEF Joins
  <2>2. \A k \in 1 .. N + Len(line) : str[k] = mid[k]
    BY <1>7, <1>9 DEF Joins
  <2>3. \A k \in 1 .. N : k \in 1 .. N + Len(line)
    BY <1>3
  <2>. QED
    BY <2>1, <2>2, <2>3
<1>17. \A k \in 1 .. Len(line) : str[N + k] = line[k]
  <2>1. \A k \in 1 .. Len(line) : mid[N + k] = line[k]
    BY <1>2, <1>6 DEF Joins
  <2>2. \A k \in 1 .. N + Len(line) : str[k] = mid[k]
    BY <1>7, <1>9 DEF Joins
  <2>3. \A k \in 1 .. Len(line) : N + k \in 1 .. N + Len(line)
    BY <1>3
  <2>. QED
    BY <2>1, <2>2, <2>3
<1>18. \A k \in 1 .. Len(f) : str[N + Len(line) + k] = f[k]
  BY <1>7, <1>9 DEF Joins
<1>19. \A i \in 1 .. n + 1 : frameStart(b, i)' = frameStart(b, i) /\ frameStart(b, i) \in Nat
  <2>1. \A i \in 1 .. n + 1 : frameStart(b, i) \in Nat
    BY <1>1, LayoutIs
  <2>2. \A i \in 1 .. n + 1 : frameStart(b, i)' = frameStart(b, i)
    BY <1>14 DEF frameStart
  <2>. QED
    BY <2>1, <2>2
<1>20. /\ writerFraming' = writerFraming /\ readerFraming' = readerFraming /\ at' = at
       /\ ended' = ended /\ ~ended
  BY DEF Wrote, readerVars
<1>21. \A x : framed(x)' = framed(x) /\ Sendable(x)' = Sendable(x)
  BY <1>20 DEF framed, Sendable, header
<1>22. \A i \in 1 .. n : marks[i] <= N
  <2>1. n # 0 => N = marks[n]
    BY <1>1, <1>2 DEF frameStart
  <2>2. \A i \in 1 .. n : marks[i] \in Nat /\ (i # n => marks[i] < marks[n])
    BY <1>1, LayoutIs
  <2>. QED
    BY <1>2, <2>1, <2>2
<1>23. ASSUME NEW i \in 1 .. n, NEW l \in Noise \cup {<< >>}, FrameAt(b, i, l)
       PROVE  FrameAt(b, i, l)'
  <2>1. PICK a \in Nat, g \in {framed(sent[i])} : a = frameStart(b, i) /\ g = framed(sent[i])
    BY <1>19
  <2>2. /\ l = << >> \/ (l \in Noise /\ writerFraming = "content-length")
        /\ marks[i] = a + Len(l) + Len(g)
        /\ Holds(stream, a, l) /\ Holds(stream, a + Len(l), g)
    BY <1>23, <2>1 DEF FrameAt
  <2>3. Len(l) \in Nat /\ Len(g) \in Nat
    <3>1. Len(l) \in Nat
      BY NoiseAssumption, EmptySeq, LenProperties
    <3>2. sent[i] \in Seq(Token) /\ Sendable(sent[i])
      BY <1>1, LayoutIs
    <3>. QED
      BY <2>1, <3>1, <3>2, FramedStarts DEF FramingTypeInv
  <2>4. marks[i] <= N /\ marks[i] \in Nat
    BY <1>1, <1>22, LayoutIs
  <2>5. a + Len(l) <= N /\ a + Len(l) + Len(g) <= N /\ a + Len(l) \in Nat
    BY <2>2, <2>3, <2>4
  <2>6. PICK q \in Seq(Token) : q = stream /\ N = Len(q)
    BY <1>2 DEF FramingTypeInv
  <2>7. Extends(str, q)
    BY <1>2, <1>16, <2>6 DEF Extends
  <2>8. Holds(str, a, l) /\ Holds(str, a + Len(l), g)
    BY <2>2, <2>3, <2>5, <2>6, <2>7, HoldsOn
  <2>9. frameStart(b, i)' = a /\ framed(sent[i])' = g /\ marks'[i] = marks[i]
    <3>1. frameStart(b, i)' = a
      BY <1>19, <2>1
    <3>2. sent'[i] = sent[i] /\ marks'[i] = marks[i]
      BY <1>13, <1>14
    <3>3. framed(sent[i])' = g
      BY <1>20, <2>1, <3>2 DEF framed, header
    <3>. QED
      BY <3>1, <3>2, <3>3
  <2>. QED
    BY <1>12, <1>20, <2>2, <2>8, <2>9 DEF FrameAt
<1>24. FrameAt(b, n + 1, line)'
  <2>1. frameStart(b, n + 1)' = N
    BY <1>2, <1>19
  <2>2. framed(sent[n + 1])' = f
    BY <1>4, <1>13, <1>20 DEF framed, header
  <2>3. Holds(str, N, line) /\ Holds(str, N + Len(line), f)
    BY <1>17, <1>18 DEF Holds
  <2>4. line = << >> \/ (line \in Noise /\ writerFraming = "content-length")
    BY DEF Wrote
  <2>. QED
    BY <1>10, <1>12, <1>14, <1>20, <2>1, <2>2, <2>3, <2>4 DEF FrameAt
<1>25. Behind(b)
  <2>1. at <= Len(stream') /\ \A k \in 1 .. at : stream'[k] = stream[k]
    <3>1. at \in 0 .. N
      BY <1>2 DEF FramingTypeInv
    <3>2. at <= M /\ \A k \in 1 .. at : k \in 1 .. N
      BY <1>10, <3>1
    <3>. QED
      BY <1>11, <1>12, <1>16, <3>2
  <2>2. UNCHANGED <<writerFraming, readerFraming, readerVars>>
    BY DEF Wrote
  <2>. QED
    BY <1>1, <1>11, <1>12, <1>13, <1>14, <1>19, <1>23, <2>1, <2>2 DEF Behind
<1>26. FramingTypeInv'
  <2>1. at' \in 0 .. Len(stream')
    BY <1>2, <1>10, <1>11, <1>12, <1>20 DEF FramingTypeInv
  <2>2. /\ started' = started /\ block' = block /\ acc' = acc /\ frames' = frames /\ failure' = failure
    BY DEF Wrote, readerVars
  <2>. QED
    BY <1>11, <1>12, <1>13, <1>14, <1>20, <2>1, <2>2 DEF FramingTypeInv
<1>27. Layout(b)'
  <2>1. stream' # << >> => (stream'[1] = BOM <=> b = 1)
    <3>1. CASE N # 0
      <4>1. 1 \in 1 .. N
        BY <3>1
      <4>2. stream # << >>
        <5>1. Len(<< >>) = 0
          OBVIOUS
        <5>. QED
          BY <1>2, <3>1, <5>1, Zenon
      <4>. QED
        BY <1>12, <1>16, <4>1, <4>2 DEF Layout
    <3>2. CASE N = 0
      <4>1. n = 0 /\ b = 0
        <5>1. n # 0 => marks[n] = N /\ b < marks[n]
          BY <1>1, <1>2, LayoutIs DEF frameStart
        <5>2. n = 0
          BY <3>2, <5>1
        <5>. QED
          BY <1>2, <3>2, <5>2 DEF frameStart
      <4>2. str[1] # BOM
        <5>1. CASE line = << >>
          BY <1>4, <1>18, <3>2, <5>1
        <5>2. CASE line # << >>
          <6>1. 1 \in 1 .. Len(line)
            BY <1>3, <5>2, EmptySeq
          <6>. QED
            BY <1>3, <1>17, <3>2, <5>2, <6>1
        <5>. QED
          BY <5>1, <5>2
      <4>. QED
        BY <1>12, <4>1, <4>2
    <3>. QED
      BY <3>1, <3>2
  <2>2. \A i \in 1 .. n + 1 : b < marks'[i] /\ \A k \in 1 .. i - 1 : marks'[k] < marks'[i]
    <3>1. \A i \in 1 .. n : b < marks'[i] /\ \A k \in 1 .. i - 1 : marks'[k] < marks'[i]
      <4>1. \A i \in 1 .. n : b < marks[i] /\ \A k \in 1 .. i - 1 : marks[k] < marks[i] /\ k \in 1 .. n
        BY <1>1, LayoutIs
      <4>. QED
        BY <1>14, <4>1
    <3>2. b < M
      <4>1. n # 0 => marks[n] = N /\ b < marks[n]
        BY <1>1, <1>2, LayoutIs DEF frameStart
      <4>2. n = 0 => b = N
        BY <1>2 DEF frameStart
      <4>. QED
        BY <1>10, <4>1, <4>2
    <3>3. \A k \in 1 .. n : marks'[k] < M
      BY <1>1, <1>10, <1>14, <1>22, LayoutIs
    <3>. QED
      BY <1>1, <1>14, <3>1, <3>2, <3>3
  <2>3. ASSUME NEW i \in 1 .. n + 1
        PROVE  Sendable(sent[i])' /\ \E l \in Noise \cup {<< >>} : FrameAt(b, i, l)'
    <3>1. CASE i \in 1 .. n
      <4>1. Sendable(sent[i])
        BY <1>1, <3>1, LayoutIs
      <4>2. Sendable(sent[i])'
        BY <1>13, <1>20, <3>1, <4>1 DEF Sendable
      <4>3. PICK l \in Noise \cup {<< >>} : FrameAt(b, i, l)
        BY <1>1, <3>1 DEF Layout
      <4>. QED
        BY <1>23, <3>1, <4>2, <4>3
    <3>2. CASE i = n + 1
      <4>1. Sendable(sent[i])'
        BY <1>13, <1>20, <3>2 DEF Sendable, Wrote
      <4>2. FrameAt(b, i, line)'
        BY <1>24, <3>2 DEF FrameAt
      <4>3. line \in Noise \cup {<< >>}
        BY DEF Wrote
      <4>. QED
        BY <4>1, <4>2, <4>3
    <3>. QED
      BY <1>1, <3>1, <3>2
  <2>4. Len(stream') = frameStart(b, n + 2)'
    BY <1>1, <1>11, <1>12, <1>14 DEF frameStart
  <2>5. Len(sent') + 1 = n + 2
    BY <1>1, <1>13
  <2>. QED
    BY <1>13, <1>14, <1>15, <1>20, <2>1, <2>2, <2>3, <2>4, <2>5 DEF Layout
<1>. QED
  BY <1>25, <1>26, <1>27

LEMMA Reduce ==
    ASSUME FramingTypeInv, FreshReader, FramesFit, NEW b \in {0, 1}, Stands(b), ~ended,
           FramingTypeInv', Behind(b), Layout(b)'
    PROVE  FramingInv'
<1>1. Stands(b)'
  BY ReaderStands DEF Stands
<1>2. FreshReader' /\ FramesFit'
  BY DEF Behind, readerVars, FreshReader, FramesFit, NoBlock
<1>. QED
  BY <1>1, <1>2 DEF FramingInv

LEMMA WrotesStep ==
    ASSUME FramingInv, NEW s, NEW line, Wrote(s, line)
    PROVE  FramingInv'
<1>1. PICK b \in {0, 1} : Stands(b)
  BY DEF FramingInv
<1>. QED
  BY <1>1, WroteOn, Reduce DEF FramingInv, Wrote

LEMMA MessageIs ==
    ASSUME NEW m \in Messages
    PROVE  m.bytes \in Seq(Token) /\ m.bytes # << >> /\ m.bytes[1] = Brace /\ Len(m.bytes) \in DOMAIN Number
BY MessagesAssumption

LEMMA WriteFrameStep ==
    ASSUME FramingInv, NEW m \in Messages, WriteFrame(m)
    PROVE  FramingInv'
<1>1. PICK s : s = outgoing(m)
  OBVIOUS
<1>2. s \in Seq(Token) /\ Sendable(s)
  <2>1. CASE writerFraming = "ndjson" /\ hasLF(m.bytes)
    BY <1>1, <2>1, MessageIs, CompactIs DEF outgoing, Sendable
  <2>2. CASE ~(writerFraming = "ndjson" /\ hasLF(m.bytes))
    <3>1. s = m.bytes
      BY <1>1, <2>2 DEF outgoing
    <3>. QED
      BY <2>2, <3>1, MessageIs DEF Sendable
  <2>. QED
    BY <2>1, <2>2
<1>3. stream' = (stream \o << >>) \o framed(s)
  <2>1. stream \o << >> = stream
    BY ConcatEmptySeq DEF FramingInv, FramingTypeInv
  <2>. QED
    BY <1>1, <2>1 DEF WriteFrame
<1>4. Wrote(s, << >>)
  BY <1>1, <1>2, <1>3 DEF WriteFrame, Wrote
<1>. QED
  BY <1>4, WrotesStep

LEMMA WriteForeignStep ==
    ASSUME FramingInv, NEW m \in Messages, NEW line \in Noise, WriteForeign(m, line)
    PROVE  FramingInv'
<1>1. "content-length" # "ndjson"
  OBVIOUS
<1>2. m.bytes \in Seq(Token) /\ Sendable(m.bytes)
  BY <1>1, MessageIs DEF Sendable, WriteForeign
<1>3. Wrote(m.bytes, line)
  BY <1>2 DEF WriteForeign, Wrote
<1>. QED
  BY <1>3, WrotesStep

LEMMA StreamEndsStep ==
    ASSUME FramingInv, StreamEnds
    PROVE  FramingInv'
<1>1. PICK b \in {0, 1} : Stands(b)
  BY DEF FramingInv
<1>2. PICK N \in Nat : N = Len(stream) /\ at \in 0 .. N
  BY LenProperties DEF FramingInv, FramingTypeInv
<1>3. PICK c \in at .. N : stream' = SubSeq(stream, 1, c)
  BY <1>2 DEF StreamEnds
<1>4. c \in Nat /\ at <= c /\ c <= N
  BY <1>2
<1>5. /\ stream' \in Seq(Token) /\ Len(stream') = c
      /\ \A k \in 1 .. c : stream'[k] = stream[k]
  <2>1. PICK str : str = SubSeq(stream, 1, c)
    OBVIOUS
  <2>2. \A k \in 1 .. c : stream[k] \in Token
    BY <1>2, <1>4, ElementOfSeq DEF FramingInv, FramingTypeInv
  <2>3. /\ str \in Seq(Token) /\ Len(str) = IF 1 <= c THEN c - 1 + 1 ELSE 0
        /\ \A k \in 1 .. c - 1 + 1 : str[k] = stream[1 + k - 1]
    BY <1>4, <2>1, <2>2, SubSeqProperties
  <2>4. Len(str) = c
    BY <1>4, <2>3
  <2>5. \A k \in 1 .. c : str[k] = stream[k]
    BY <1>4, <2>3
  <2>. QED
    BY <1>3, <2>1, <2>3, <2>4, <2>5
<1>6. /\ ~ended /\ ended' = TRUE /\ sent' = sent /\ marks' = marks
      /\ writerFraming' = writerFraming /\ UNCHANGED <<writerFraming, readerFraming, readerVars>>
  BY DEF StreamEnds
<1>7. PICK n \in Nat : n = Len(sent) /\ DOMAIN sent = 1 .. n /\ DOMAIN marks = 1 .. n /\ Len(marks) = n
  BY <1>1, LayoutIs DEF FramingInv, Stands
<1>8. \A i : frameStart(b, i)' = frameStart(b, i)
  BY <1>6 DEF frameStart
<1>9. \A a \in Nat : \A w : Holds(stream, a, w) => Holds(stream', a, w)
  <2>1. ASSUME NEW a \in Nat, NEW w, Holds(stream, a, w)
        PROVE  Holds(stream', a, w)
    <3>1. ASSUME NEW k \in 1 .. Len(w), a + k <= c
          PROVE  stream'[a + k] = w[k]
      <4>1. a + k \in 1 .. c /\ a + k <= N
        BY <1>4, <3>1
      <4>. QED
        BY <1>2, <1>5, <2>1, <4>1 DEF Holds
    <3>. QED
      BY <1>5, <3>1 DEF Holds
  <2>. QED
    BY <2>1
<1>10. ASSUME NEW i \in 1 .. n, NEW l \in Noise \cup {<< >>}, FrameAt(b, i, l)
       PROVE  FrameAt(b, i, l)'
  <2>1. frameStart(b, i) \in Nat /\ Len(l) \in Nat
    <3>1. Len(l) \in Nat
      BY NoiseAssumption, EmptySeq, LenProperties
    <3>. QED
      BY <1>1, <1>7, <3>1, LayoutIs DEF FramingInv, Stands
  <2>2. frameStart(b, i) + Len(l) \in Nat
    BY <2>1
  <2>3. framed(sent[i])' = framed(sent[i])
    BY <1>6 DEF framed, header
  <2>. QED
    BY <1>6, <1>8, <1>9, <1>10, <2>1, <2>2, <2>3 DEF FrameAt
<1>11. Layout(b)'
  <2>1. stream' # << >> => stream # << >> /\ stream'[1] = stream[1]
    <3>1. Len(<< >>) = 0
      OBVIOUS
    <3>2. stream' # << >> => c # 0
      BY <1>5, EmptySeq
    <3>3. c # 0 => N # 0 /\ 1 \in 1 .. c
      BY <1>4
    <3>4. N # 0 => stream # << >>
      BY <1>2, <3>1, Zenon
    <3>. QED
      BY <1>5, <3>2, <3>3, <3>4
  <2>2. \A i \in 1 .. n : Sendable(sent[i])' <=> Sendable(sent[i])
    BY <1>6 DEF Sendable
  <2>3. \A i \in 1 .. n : Sendable(sent[i])' /\ \E l \in Noise \cup {<< >>} : FrameAt(b, i, l)'
    BY <1>1, <1>7, <1>10, <2>2 DEF Layout, Stands
  <2>4. Len(stream') <= frameStart(b, Len(sent) + 1)'
    <3>1. N = frameStart(b, n + 1)
      BY <1>1, <1>2, <1>6, <1>7 DEF Layout, Stands
    <3>. QED
      BY <1>4, <1>5, <1>6, <1>7, <1>8, <3>1
  <2>. QED
    BY <1>1, <1>6, <1>7, <2>1, <2>3, <2>4 DEF Layout, Stands
<1>12. Behind(b)
  <2>1. Len(sent) <= Len(sent') /\ Len(sent') \in Nat
    BY <1>6, <1>7
  <2>2. at <= Len(stream') /\ \A k \in 1 .. at : stream'[k] = stream[k]
    BY <1>2, <1>4, <1>5
  <2>. QED
    BY <1>5, <1>6, <1>7, <1>8, <1>10, <2>1, <2>2 DEF Behind
<1>13. FramingTypeInv'
  <2>1. at' \in 0 .. Len(stream')
    BY <1>2, <1>4, <1>5, <1>6 DEF readerVars
  <2>. QED
    BY <1>5, <1>6, <2>1 DEF FramingInv, FramingTypeInv, readerVars
<1>. QED
  BY <1>1, <1>6, <1>11, <1>12, <1>13, Reduce DEF FramingInv

LEMMA InitHolds ==
    ASSUME FramingInit
    PROVE  FramingInv
<1>2. maxSize \in Nat
  BY LimitsAssumption
<1>3. FramingTypeInv
  <2>1. BOM \in Token
    BY TokensDiffer
  <2>2. <<BOM>> \in Seq(Token) /\ << >> \in Seq(Token) /\ << >> \in Seq(Seq(Token)) /\ << >> \in Seq(Nat)
    BY <2>1
  <2>3. stream \in Seq(Token) /\ Len(stream) \in Nat
    BY <2>2, LenProperties DEF FramingInit
  <2>4. NoBlock \in [contentLen : -1 .. maxSize, headerBytes : Nat, body : BOOLEAN]
    BY <1>2 DEF NoBlock
  <2>5. at \in 0 .. Len(stream)
    BY <2>3 DEF FramingInit
  <2>. QED
    BY <2>2, <2>3, <2>4, <2>5 DEF FramingTypeInv, FramingInit, Failures
<1>4. FreshReader /\ FramesFit
  BY DEF FramingInit, FreshReader, FramesFit
<1>5. PICK b \in {0, 1} : b = Len(stream) /\ (stream # << >> => stream[1] = BOM /\ b = 1)
  <2>1. CASE stream = << >>
    BY <2>1
  <2>2. CASE stream = <<BOM>>
    BY <2>2
  <2>. QED
    BY <2>1, <2>2 DEF FramingInit
<1>6. Layout(b)
  <2>1. sent = << >> /\ marks = << >> /\ ~ended
    BY DEF FramingInit
  <2>2. Len(sent) = 0 /\ Len(marks) = 0 /\ DOMAIN sent = {} /\ DOMAIN marks = {}
    BY <2>1
  <2>3. frameStart(b, Len(sent) + 1) = b
    BY <2>2 DEF frameStart
  <2>. QED
    BY <1>5, <2>1, <2>2, <2>3 DEF Layout
<1>7. Position(b) /\ FailureInv(b)
  BY DEF Position, FailureInv, FramingInit
<1>. QED
  BY <1>3, <1>4, <1>6, <1>7 DEF FramingInv, Stands

(***************************************************************************)
(* The reader.                                                             *)
(***************************************************************************)
LEMMA LayoutUnchanged ==
    ASSUME NEW b, Layout(b), UNCHANGED <<writerFraming, writerVars>>
    PROVE  Layout(b)'
<1>1. /\ sent' = sent /\ marks' = marks /\ stream' = stream /\ ended' = ended
      /\ writerFraming' = writerFraming
  BY DEF writerVars
<1>2. \A i : frameStart(b, i)' = frameStart(b, i)
  BY <1>1 DEF frameStart
<1>3. \A i, l : FrameAt(b, i, l)' <=> FrameAt(b, i, l)
  <2>1. \A i : framed(sent[i])' = framed(sent[i])
    BY <1>1 DEF framed, header
  <2>2. \A i : marks'[i] = marks[i]
    BY <1>1
  <2>. QED
    BY <1>1, <1>2, <2>1, <2>2 DEF FrameAt
<1>4. \A i : Sendable(sent[i])' <=> Sendable(sent[i])
  BY <1>1 DEF Sendable
<1>. QED
  BY <1>1, <1>2, <1>3, <1>4 DEF Layout

(* A step of the reader is judged by what it changed. *)
LEMMA Advance ==
    ASSUME FramingTypeInv, NEW b \in {0, 1}, Stands(b), UNCHANGED <<writerFraming, writerVars>>,
           FramingTypeInv', started', FramesFit', Position(b)', FailureInv(b)'
    PROVE  FramingInv'
<1>1. Layout(b)'
  BY LayoutUnchanged DEF Stands
<1>. QED
  BY <1>1 DEF FramingInv, Stands, FreshReader

(* Why a reading may stop. *)
MayStop(b, e) ==
    /\ e \in Failures
    /\ readerFraming = writerFraming =>
          /\ e = "EOF" => ended /\ at = Len(stream) /\ acc = << >> /\ block = NoBlock
          /\ e = "unexpected EOF" =>
                /\ ended /\ reached <= Len(sent)
                /\ frameStart(b, reached) < Len(stream) /\ Len(stream) < marks[reached]
          /\ e = "limit" => reached <= Len(sent) /\ Len(asRead(sent[reached])) > maxSize

LEMMA StopStep ==
    ASSUME FramingInv, NEW b \in {0, 1}, Stands(b), started, NEW e, MayStop(b, e), stop(e)
    PROVE  FramingInv'
<1>1. /\ sent' = sent /\ marks' = marks /\ stream' = stream /\ ended' = ended
      /\ writerFraming' = writerFraming /\ readerFraming' = readerFraming
      /\ at' = at /\ started' = started /\ block' = block /\ acc' = acc /\ frames' = frames
      /\ failure' = e
  BY DEF stop, writerVars
<1>2. FramingTypeInv'
  BY <1>1 DEF FramingInv, FramingTypeInv, MayStop
<1>3. \A i : frameStart(b, i)' = frameStart(b, i)
  BY <1>1 DEF frameStart
<1>4. reached' = reached
  BY <1>1 DEF reached
<1>5. frameStart(b, reached)' = frameStart(b, reached)
  BY <1>1, <1>4 DEF frameStart
<1>6. \A i, l : FrameAt(b, i, l)' <=> FrameAt(b, i, l)
  BY <1>1, <1>3 DEF FrameAt, framed, header
<1>7. \A l : FrameAt(b, reached, l)' <=> FrameAt(b, reached, l)
  BY <1>1, <1>5, <1>4 DEF FrameAt, framed, header
<1>8. NothingLeft' <=> NothingLeft
  BY <1>1 DEF NothingLeft, NoBlock
<1>9. InBlock(b)' <=> InBlock(b)
  BY <1>1, <1>4, <1>5, <1>7 DEF InBlock, NoBlock
<1>10. InLine(b)' <=> InLine(b)
  BY <1>1, <1>4, <1>5 DEF InLine, NoBlock, frameStart
<1>11. Mistaken(b)' <=> Mistaken(b)
  BY <1>1 DEF Mistaken, NoLengthFirst, NoBlock
<1>12. Position(b)'
  BY <1>1, <1>8, <1>9, <1>10, <1>11 DEF Position, Stands
<1>13. FailureInv(b)'
  <2>1. asRead(sent[reached])' = asRead(sent[reached])
    BY <1>1, <1>4 DEF asRead
  <2>2. marks[reached]' = marks[reached]
    BY <1>1, <1>4
  <2>. QED
    BY <1>1, <1>4, <1>5, <2>1, <2>2 DEF FailureInv, MayStop, NoBlock
<1>14. FramesFit' /\ started'
  BY <1>1 DEF FramingInv, FramesFit
<1>. QED
  BY <1>1, <1>2, <1>12, <1>13, <1>14, Advance DEF FramingInv, writerVars

LEMMA BeginStep ==
    ASSUME FramingInv, Begin
    PROVE  FramingInv'
<1>1. PICK b \in {0, 1} : Stands(b)
  BY DEF FramingInv
<1>2. /\ sent' = sent /\ marks' = marks /\ stream' = stream /\ ended' = ended
      /\ writerFraming' = writerFraming /\ readerFraming' = readerFraming
      /\ started' = TRUE /\ block' = block /\ acc' = acc /\ frames' = frames
      /\ failure' = failure
  BY DEF Begin, writerVars
<1>3. at = 0 /\ block = NoBlock /\ acc = << >> /\ frames = << >> /\ failure = "none" /\ ~started
  BY DEF FramingInv, FreshReader, Begin
<1>4. PICK N \in Nat : N = Len(stream)
  BY LenProperties DEF FramingInv, FramingTypeInv
<1>5. stream # << >> => N # 0 /\ at' = b
  <2>1. stream # << >> => N # 0
    BY <1>4, EmptySeq DEF FramingInv, FramingTypeInv
  <2>2. stream # << >> => (stream[1] = BOM <=> b = 1)
    BY <1>1 DEF Stands, Layout
  <2>. QED
    BY <2>1, <2>2 DEF Begin
<1>6. stream = << >> => ended /\ at' = 0
  <2>1. Len(<< >>) = 0
    OBVIOUS
  <2>. QED
    BY <2>1 DEF Begin
<1>7. FramingTypeInv'
  <2>1. at' \in 0 .. N
    BY <1>4, <1>5, <1>6
  <2>. QED
    BY <1>2, <1>4, <2>1 DEF FramingInv, FramingTypeInv
<1>8. Position(b)'
  <2>1. CASE stream = << >>
    BY <1>2, <1>3, <1>6, <2>1 DEF Position, NothingLeft, NoBlock
  <2>2. CASE stream # << >>
    <3>1. at' = b
      BY <1>5, <2>2
    <3>2. Len(<< >>) = 0 /\ reached' = 1 /\ frameStart(b, reached)' = b /\ 1 .. 0 = {} /\ DOMAIN frames' = {}
      BY <1>2, <1>3 DEF reached, frameStart
    <3>3. Len(sent') \in Nat
      BY <1>2, LenProperties DEF FramingInv, FramingTypeInv
    <3>4. CASE writerFraming = readerFraming /\ readerFraming = "content-length"
      <4>1. InBlock(b)'
        BY <1>2, <1>3, <3>1, <3>2, <3>3, <3>4 DEF InBlock, NoBlock
      <4>. QED
        BY <4>1 DEF Position
    <3>5. CASE writerFraming = readerFraming /\ readerFraming = "ndjson"
      <4>1. InLine(b)'
        BY <1>2, <1>3, <3>1, <3>2, <3>3, <3>5 DEF InLine, NoBlock, Holds, hasLF, Contains
      <4>. QED
        BY <4>1 DEF Position
    <3>6. CASE writerFraming # readerFraming
      <4>1. Mistaken(b)'
        BY <1>2, <1>3, <3>1, <3>2, <3>6 DEF Mistaken, NoBlock, Holds, hasLF, Contains
      <4>. QED
        BY <4>1 DEF Position
    <3>. QED
      BY <3>4, <3>5, <3>6 DEF FramingInv, FramingTypeInv, Framings
  <2>. QED
    BY <2>1, <2>2
<1>9. FailureInv(b)' /\ FramesFit' /\ started'
  BY <1>2, <1>3 DEF FailureInv, FramesFit
<1>. QED
  BY <1>1, <1>2, <1>7, <1>8, <1>9, Advance DEF FramingInv, writerVars

(* What ReadSlice makes of the line w ahead: all of it, or less. *)
LEMMA LineAhead ==
    ASSUME NEW str, NEW a \in Nat, NEW s, NEW full, NEW eof, SliceIs(str, a, s, full, eof), Len(str) \in Nat,
           NEW w \in Seq(Token), Len(w) # 0, w[Len(w)] = LF, \A k \in 1 .. Len(w) - 1 : w[k] # LF,
           Holds(str, a, w)
    PROVE  IF full \/ eof THEN Len(s) < Len(w) ELSE s = w
<1>1. PICK n \in Nat, m \in Nat, N \in Nat : n = Len(s) /\ m = Len(w) /\ N = Len(str)
  BY LenProperties DEF SliceIs
<1>2. /\ a + n <= N /\ m # 0
      /\ \A k \in 1 .. n : s[k] = str[a + k]
      /\ \A k \in 1 .. n - 1 : s[k] # LF
  BY <1>1 DEF SliceIs
<1>3. \A k \in 1 .. m : k <= n => s[k] = w[k]
  <2>1. ASSUME NEW k \in 1 .. m, k <= n PROVE s[k] = w[k]
    <3>1. k \in 1 .. n /\ a + k <= N
      BY <1>2, <2>1
    <3>2. str[a + k] = w[k]
      BY <1>1, <3>1 DEF Holds
    <3>. QED
      BY <1>2, <3>1, <3>2
  <2>. QED
    BY <2>1
<1>4. CASE full \/ eof
  <2>1. ASSUME n >= m PROVE FALSE
    <3>1. m \in 1 .. m /\ m <= n /\ m \in 1 .. n
      BY <1>2, <2>1
    <3>2. s[m] = LF
      BY <1>1, <1>3, <3>1
    <3>. QED
      BY <1>1, <1>4, <3>1, <3>2 DEF SliceIs, hasLF, Contains
  <2>2. n < m
    BY <2>1
  <2>. QED
    BY <1>1, <1>4, <2>2
<1>5. CASE ~(full \/ eof)
  <2>1. n # 0 /\ s[n] = LF
    BY <1>1, <1>5 DEF SliceIs
  <2>2. ~(n < m)
    <3>1. n < m => n \in 1 .. m - 1 /\ n \in 1 .. m /\ n <= n
      BY <2>1
    <3>. QED
      BY <1>1, <1>3, <2>1, <3>1
  <2>3. ~(n > m)
    <3>1. n > m => m \in 1 .. n - 1 /\ m \in 1 .. m /\ m <= n
      BY <1>2
    <3>. QED
      BY <1>1, <1>2, <1>3, <3>1
  <2>4. n = m
    BY <2>2, <2>3
  <2>5. s = w
    <3>1. s \in Seq(Token) /\ Len(s) = Len(w)
      BY <1>1, <2>4 DEF SliceIs
    <3>2. \A k \in 1 .. Len(s) : s[k] = w[k]
      BY <1>1, <1>3, <2>4
    <3>. QED
      BY <3>1, <3>2, SeqEqual
  <2>. QED
    BY <1>5, <2>5
<1>. QED
  BY <1>4, <1>5

(* Only line ends are taken off a line. *)
LEMMA TrimKeeps ==
    ASSUME NEW s \in Seq(Token), NEW k \in 1 .. Len(s), s[k] \notin {CR, LF}
    PROVE  k <= Len(trimEOL(s))
<1>1. PICK n \in Nat : n = Len(s) /\ k \in 1 .. n
  BY LenProperties
<1>2. PICK t : t = trimLF(s)
  OBVIOUS
<1>3. Shorter(t, s, LF)
  BY <1>2, TrimLFIs
<1>4. PICK m \in Nat : m = Len(t)
  BY <1>3 DEF Shorter
<1>5. k <= m /\ t \in Seq(Token) /\ t[k] = s[k]
  <2>1. m = n \/ (m = n - 1 /\ s[n] = LF)
    BY <1>1, <1>3, <1>4 DEF Shorter
  <2>2. k <= m
    BY <1>1, <2>1
  <2>3. k \in 1 .. m
    BY <1>1, <2>2
  <2>. QED
    BY <1>3, <1>4, <2>2, <2>3 DEF Shorter
<1>6. PICK u : u = trimCR(t)
  OBVIOUS
<1>7. Shorter(u, t, CR)
  BY <1>5, <1>6, TrimCRIs
<1>8. PICK l \in Nat : l = Len(u)
  BY <1>7 DEF Shorter
<1>9. l = m \/ (l = m - 1 /\ t[m] = CR)
  BY <1>4, <1>7, <1>8 DEF Shorter
<1>10. k <= l
  BY <1>1, <1>5, <1>9
<1>. QED
  BY <1>2, <1>6, <1>8, <1>10 DEF trimEOL

LEMMA PrefixIs ==
    ASSUME NEW line \in Seq(Token)
    PROVE  IsPrefix(ContentLength, line) <=>
              /\ 2 <= Len(line)
              /\ line[1] = ContentLength[1] /\ line[2] = ContentLength[2]
<1>1. Len(ContentLength) = 2 /\ ContentLength \in Seq(Token) /\ Len(line) \in Nat
  BY TokensDiffer, LenProperties
<1>2. ASSUME NEW q \in Seq(Token), 2 <= Len(q), Len(q) \in Nat
      PROVE  SubSeq(q, 1, 2) \in Seq(Token) /\ Len(SubSeq(q, 1, 2)) = 2
             /\ SubSeq(q, 1, 2)[1] = q[1] /\ SubSeq(q, 1, 2)[2] = q[2]
  <2>1. PICK r : r = SubSeq(q, 1, 2)
    OBVIOUS
  <2>2. \A k \in 1 .. 2 : q[k] \in Token
    BY <1>2, ElementOfSeq
  <2>3. /\ r \in Seq(Token) /\ Len(r) = IF 1 <= 2 THEN 2 - 1 + 1 ELSE 0
        /\ \A k \in 1 .. 2 - 1 + 1 : r[k] = q[1 + k - 1]
    BY <2>1, <2>2, SubSeqProperties
  <2>4. Len(r) = 2 /\ r[1] = q[1] /\ r[2] = q[2]
    BY <2>3
  <2>. QED
    BY <2>1, <2>3, <2>4
<1>3. CASE 2 <= Len(line)
  <2>1. PICK c, d : c = SubSeq(ContentLength, 1, 2) /\ d = SubSeq(line, 1, 2)
    OBVIOUS
  <2>2. /\ c \in Seq(Token) /\ Len(c) = 2 /\ c[1] = ContentLength[1] /\ c[2] = ContentLength[2]
        /\ d \in Seq(Token) /\ Len(d) = 2 /\ d[1] = line[1] /\ d[2] = line[2]
    <3>1. PICK q \in Seq(Token) : q = ContentLength /\ 2 <= Len(q) /\ Len(q) \in Nat
      BY <1>1
    <3>2. c = SubSeq(q, 1, 2)
      BY <2>1, <3>1
    <3>3. c \in Seq(Token) /\ Len(c) = 2 /\ c[1] = q[1] /\ c[2] = q[2]
      BY <1>2, <3>1, <3>2
    <3>4. d \in Seq(Token) /\ Len(d) = 2 /\ d[1] = line[1] /\ d[2] = line[2]
      BY <1>1, <1>2, <1>3, <2>1
    <3>. QED
      BY <3>1, <3>3, <3>4
  <2>3. c = d <=> c[1] = d[1] /\ c[2] = d[2]
    <3>1. ASSUME c[1] = d[1], c[2] = d[2] PROVE c = d
      <4>1. \A k \in 1 .. 2 : c[k] = d[k]
        BY <3>1
      <4>. QED
        BY <2>2, <4>1, SeqEqual
    <3>. QED
      BY <3>1
  <2>4. IsPrefix(ContentLength, line) <=> c = d
    BY <1>1, <1>3, <2>1 DEF IsPrefix
  <2>. QED
    BY <1>3, <2>2, <2>3, <2>4
<1>4. CASE ~(2 <= Len(line))
  BY <1>1, <1>4 DEF IsPrefix
<1>. QED
  BY <1>3, <1>4

LEMMA LengthsIs ==
    ASSUME NEW n \in 1 .. 9
    PROVE  /\ lengths(ContentLength \o <<Number[n]>>) = {n}
           /\ isLength(ContentLength \o <<Number[n]>>)
           /\ ContentLength \o <<Number[n]>> # << >>
<1>. DEFINE line(m) == ContentLength \o <<Number[m]>>
<1>1. ASSUME NEW m \in 1 .. 9
      PROVE  /\ line(m) \in Seq(Token) /\ Len(line(m)) = 3
             /\ line(m)[1] = ContentLength[1] /\ line(m)[2] = ContentLength[2] /\ line(m)[3] = Number[m]
  <2>1. PICK x \in Token : x = Number[m]
    BY TokensDiffer
  <2>2. PICK z : z = <<x>>
    OBVIOUS
  <2>3. z \in Seq(Token) /\ Len(z) = 1 /\ z[1] = x
    BY <2>2
  <2>4. PICK w : w = ContentLength \o z
    OBVIOUS
  <2>5. Joins(w, ContentLength, z)
    BY <2>3, <2>4, Joined, TokensDiffer
  <2>6. /\ w \in Seq(Token) /\ Len(w) = 2 + 1 /\ \A k \in 1 .. 2 : w[k] = ContentLength[k]
        /\ \A k \in 1 .. 1 : w[2 + k] = z[k]
    BY <2>3, <2>5, TokensDiffer DEF Joins
  <2>7. Len(w) = 3 /\ w[1] = ContentLength[1] /\ w[2] = ContentLength[2] /\ w[3] = x
    BY <2>3, <2>6
  <2>. QED
    BY <2>1, <2>2, <2>4, <2>6, <2>7
<1>2. \A m \in 1 .. 9 : line(n) = line(m) => n = m
  <2>1. \A m \in 1 .. 9 : line(m)[3] = Number[m]
    BY <1>1
  <2>. HIDE DEF line
  <2>. QED
    BY <2>1, TokensDiffer
<1>3. lengths(line(n)) = {n}
  BY <1>2, TokensDiffer DEF lengths
<1>4. isLength(line(n))
  <2>1. PICK w : w = line(n)
    OBVIOUS
  <2>2. w \in Seq(Token) /\ 2 <= Len(w) /\ w[1] = ContentLength[1] /\ w[2] = ContentLength[2]
    BY <1>1, <2>1
  <2>3. IsPrefix(ContentLength, w)
    BY <2>2, PrefixIs
  <2>. QED
    BY <2>1, <2>3 DEF isLength
<1>5. line(n) # << >>
  BY <1>1, EmptySeq
<1>. QED
  BY <1>3, <1>4, <1>5

(***************************************************************************)
(* One header line.                                                        *)
(***************************************************************************)
(* What the checks decide of a line. *)
Judged(e, s, full, eof, line) ==
    /\ e \in Failures
    /\ eof => e \in {"EOF", "unexpected EOF"} /\ (e = "EOF" => s = << >> /\ block = NoBlock)
                /\ (e = "unexpected EOF" => ~(s = << >> /\ block = NoBlock))
    /\ e \in {"EOF", "unexpected EOF"} => eof
    /\ e = "limit" => ~full /\ ~eof /\ tooLong(line)
    /\ e = "none" =>
          /\ ~full /\ ~eof
          /\ line = << >> => block.contentLen >= 0
          /\ line # << >> /\ isLength(line) =>
                block.contentLen < 0 /\ lengths(line) # {} /\ ~tooLong(line)

HeaderRead(e, s, line) ==
    IF e # "none" THEN stop(e)
    ELSE /\ at' = at + Len(s)
         /\ block' = [contentLen |-> IF isLength(line)
                                     THEN CHOOSE n \in lengths(line) : TRUE
                                     ELSE block.contentLen,
                      headerBytes |-> block.headerBytes + Len(s), body |-> line = << >>]
         /\ UNCHANGED <<writerFraming, readerFraming, writerVars, started, acc, frames, failure>>

LEMMA HeaderJudged ==
    ASSUME FramingTypeInv, ReadHeaderLine
    PROVE  \E e : Judged(e, slice, sliceFull, sliceEOF, trimEOL(slice))
                  /\ HeaderRead(e, slice, trimEOL(slice))
<1>1. PICK s, line, hb : s = slice /\ line = trimEOL(slice) /\ hb = block.headerBytes + Len(slice)
  OBVIOUS
<1>2. PICK full, eof : full = sliceFull /\ eof = sliceEOF
  OBVIOUS
<1>3. PICK e : e =
             CASE sliceEOF -> IF atBlockStart /\ s = << >> THEN "EOF" ELSE "unexpected EOF"
               [] sliceFull \/ (~sliceEOF /\ hb > maxHeaderBytes) -> "header limit"
               [] OTHER ->
                    IF line = << >> THEN IF block.contentLen < 0 THEN "missing length" ELSE "none"
                    ELSE IF ~isLength(line)
                    THEN IF Contains(line, Colon) THEN "none" ELSE "invalid header"
                    ELSE IF block.contentLen >= 0 THEN "duplicate length"
                    ELSE IF lengths(line) = {} THEN "invalid length"
                    ELSE IF tooLong(line) THEN "limit" ELSE "none"
  OBVIOUS
<1>4. HeaderRead(e, s, line)
  BY <1>1, <1>3 DEF ReadHeaderLine, HeaderRead
<1>5. Judged(e, s, sliceFull, sliceEOF, line)
  <2>1. sliceEOF => ~sliceFull
    BY DEF sliceEOF
  <2>2. CASE sliceEOF
    <3>1. e = IF atBlockStart /\ s = << >> THEN "EOF" ELSE "unexpected EOF"
      BY <1>3, <2>1, <2>2
    <3>. QED
      BY <2>2, <3>1 DEF Judged, Failures, atBlockStart
  <2>3. CASE ~sliceEOF /\ (sliceFull \/ hb > maxHeaderBytes)
    <3>1. e = "header limit"
      BY <1>3, <2>3
    <3>. QED
      BY <2>3, <3>1 DEF Judged, Failures
  <2>4. CASE ~sliceEOF /\ ~(sliceFull \/ hb > maxHeaderBytes)
    <3>1. e = IF line = << >> THEN IF block.contentLen < 0 THEN "missing length" ELSE "none"
              ELSE IF ~isLength(line)
              THEN IF Contains(line, Colon) THEN "none" ELSE "invalid header"
              ELSE IF block.contentLen >= 0 THEN "duplicate length"
              ELSE IF lengths(line) = {} THEN "invalid length"
              ELSE IF tooLong(line) THEN "limit" ELSE "none"
      BY <1>3, <2>4
    <3>2. CASE line = << >>
      <4>1. e = "missing length" \/ (e = "none" /\ ~(block.contentLen < 0))
        BY <3>1, <3>2
      <4>2. ~(block.contentLen < 0) => block.contentLen >= 0
        BY DEF FramingTypeInv
      <4>3. CASE e = "missing length"
        BY <2>4, <4>3 DEF Judged, Failures
      <4>4. CASE e = "none" /\ block.contentLen >= 0
        BY <2>4, <3>2, <4>4, Zenon DEF Judged, Failures
      <4>. QED
        BY <4>1, <4>2, <4>3, <4>4
    <3>3. CASE line # << >> /\ ~isLength(line)
      <4>1. e = "none" \/ e = "invalid header"
        BY <3>1, <3>3
      <4>. QED
        BY <2>4, <3>3, <4>1 DEF Judged, Failures
    <3>4. CASE line # << >> /\ isLength(line) /\ block.contentLen >= 0
      <4>1. e = "duplicate length"
        BY <3>1, <3>4
      <4>. QED
        BY <2>4, <4>1 DEF Judged, Failures
    <3>5. CASE line # << >> /\ isLength(line) /\ ~(block.contentLen >= 0)
      <4>1. block.contentLen < 0
        BY <3>5 DEF FramingTypeInv
      <4>2. e = IF lengths(line) = {} THEN "invalid length"
                ELSE IF tooLong(line) THEN "limit" ELSE "none"
        BY <3>1, <3>5, Zenon
      <4>3. CASE lengths(line) = {}
        <5>1. e = "invalid length"
          BY <4>2, <4>3, Zenon
        <5>. QED
          BY <2>4, <5>1 DEF Judged, Failures
      <4>4. CASE lengths(line) # {} /\ tooLong(line)
        <5>1. e = "limit"
          BY <4>2, <4>4, Zenon
        <5>. QED
          BY <2>4, <4>4, <5>1 DEF Judged, Failures
      <4>5. CASE lengths(line) # {} /\ ~tooLong(line)
        <5>1. e = "none"
          BY <4>2, <4>5, Zenon
        <5>. QED
          BY <2>4, <3>5, <4>1, <4>5, <5>1 DEF Judged, Failures
      <4>. QED
        BY <4>3, <4>4, <4>5
    <3>. QED
      BY <3>2, <3>3, <3>4, <3>5
  <2>. QED
    BY <2>2, <2>3, <2>4
<1>. QED
  BY <1>1, <1>4, <1>5

LEMMA NothingAhead ==
    ASSUME FramingTypeInv, NEW b, NEW s, NEW full, NEW eof, SliceIs(stream, at, s, full, eof), eof => ended,
           at = Len(stream), NEW e, NEW line, Judged(e, s, full, eof, line),
           readerFraming = writerFraming => block = NoBlock /\ acc = << >>
    PROVE  MayStop(b, e) /\ e # "none"
<1>1. PICK N \in Nat : N = Len(stream)
  BY LenProperties DEF FramingTypeInv
<1>2. Len(s) = 0
  BY <1>1 DEF SliceIs
<1>3. s = << >>
  BY <1>2, EmptySeq DEF SliceIs
<1>4. eof
  BY <1>2 DEF SliceIs
<1>5. e \in {"EOF", "unexpected EOF"} /\ (e = "unexpected EOF" => block # NoBlock)
  BY <1>3, <1>4, Zenon DEF Judged
<1>6. CASE e = "EOF"
  BY <1>4, <1>6 DEF MayStop, Failures
<1>7. CASE e = "unexpected EOF"
  <2>1. readerFraming # writerFraming
    BY <1>5, <1>7
  <2>. QED
    BY <1>7, <2>1 DEF MayStop, Failures
<1>. QED
  BY <1>5, <1>6, <1>7

(* The block after a header line, its position apart. *)
LEMMA HeaderProgress ==
    ASSUME FramingInv, NEW b, FailureInv(b), failure = "none", started,
           NEW s, NEW full, NEW eof, SliceIs(stream, at, s, full, eof),
           Judged("none", s, full, eof, trimEOL(s)), HeaderRead("none", s, trimEOL(s))
    PROVE  /\ FramingTypeInv' /\ FramesFit' /\ started' /\ FailureInv(b)'
           /\ UNCHANGED <<writerFraming, readerFraming, writerVars, started, acc, frames, failure>>
           /\ ~full /\ ~eof /\ at' = at + Len(s) /\ block'.headerBytes > 0
           /\ block'.body = (trimEOL(s) = << >>)
           /\ isLength(trimEOL(s)) => block'.contentLen \in lengths(trimEOL(s)) /\ block.contentLen < 0
           /\ ~isLength(trimEOL(s)) => block'.contentLen = block.contentLen
           /\ trimEOL(s) = << >> => block.contentLen >= 0
<1>1. PICK line : line = trimEOL(s)
  OBVIOUS
<1>2. s \in Seq(Token) /\ line \in Seq(Token)
  BY <1>1, TrimEOLIs DEF SliceIs
<1>3. isLength(line) => line # << >>
  <2>1. isLength(line) => 2 <= Len(line)
    BY <1>2, PrefixIs DEF isLength
  <2>2. Len(<< >>) = 0
    OBVIOUS
  <2>. QED
    BY <2>1, <2>2
<1>4. /\ ~full /\ ~eof
      /\ line = << >> => block.contentLen >= 0
      /\ isLength(line) => block.contentLen < 0 /\ lengths(line) # {} /\ ~tooLong(line)
  BY <1>1, <1>3, Zenon DEF Judged
<1>5. PICK c, h : /\ c = IF isLength(line) THEN CHOOSE n \in lengths(line) : TRUE ELSE block.contentLen
                  /\ h = block.headerBytes + Len(s)
  OBVIOUS
<1>6. isLength(line) => c \in lengths(line)
  BY <1>4, <1>5
<1>7. PICK hb \in Nat, cl \in -1 .. maxSize : hb = block.headerBytes /\ cl = block.contentLen
  BY DEF FramingInv, FramingTypeInv
<1>8. c \in -1 .. maxSize
  <2>1. CASE isLength(line)
    <3>1. c \in 1 .. 9
      BY <1>6, <2>1, TokensDiffer DEF lengths
    <3>2. ~(c > maxSize)
      BY <1>4, <1>6, <2>1 DEF tooLong
    <3>3. maxSize \in Nat
      BY LimitsAssumption
    <3>. QED
      BY <3>1, <3>2, <3>3
  <2>2. CASE ~isLength(line)
    BY <1>5, <1>7, <2>2
  <2>. QED
    BY <2>1, <2>2
<1>9. h \in Nat /\ h > 0
  <2>1. Len(s) \in Nat /\ Len(s) # 0
    BY <1>4 DEF SliceIs
  <2>. QED
    BY <1>5, <1>7, <2>1
<1>10. PICK y : y = (line = << >>)
  OBVIOUS
<1>11. y \in BOOLEAN
  BY <1>10
<1>12. at' = at + Len(s) /\ block' = [contentLen |-> c, headerBytes |-> h, body |-> y]
       /\ UNCHANGED <<writerFraming, readerFraming, writerVars, started, acc, frames, failure>>
  BY <1>1, <1>5, <1>10 DEF HeaderRead
<1>13. block'.contentLen = c /\ block'.headerBytes = h /\ block'.body = y
       /\ block' \in [contentLen : -1 .. maxSize, headerBytes : Nat, body : BOOLEAN]
  BY <1>8, <1>9, <1>11, <1>12
<1>14. at' \in 0 .. Len(stream)
  <2>1. PICK N \in Nat : N = Len(stream) /\ at \in 0 .. N
    BY LenProperties DEF FramingInv, FramingTypeInv
  <2>2. Len(s) \in Nat /\ at + Len(s) <= N
    BY <2>1 DEF SliceIs
  <2>. QED
    BY <1>12, <2>1, <2>2
<1>15. FramingTypeInv'
  BY <1>12, <1>13, <1>14 DEF FramingInv, FramingTypeInv, writerVars
<1>16. FramesFit' /\ started' /\ FailureInv(b)'
  BY <1>12 DEF FramingInv, FramesFit, FailureInv
<1>. QED
  BY <1>1, <1>4, <1>5, <1>6, <1>9, <1>10, <1>12, <1>13, <1>15, <1>16

(* Where in a block the reader is next. *)
InBlockNext(b, i, n) ==
    \/ /\ block'.body = FALSE /\ block'.headerBytes > 0
       /\ \E line \in Noise : FrameAt(b, i, line) /\ at' = frameStart(b, i) + Len(line)
    \/ block'.body = FALSE /\ block'.contentLen = n /\ at' = marks[i] - n - 2
    \/ block'.body = TRUE /\ block'.contentLen = n /\ at' = marks[i] - n

LEMMA BlockStep ==
    ASSUME FramingTypeInv, NEW b \in {0, 1}, Stands(b), InBlock(b), FramingTypeInv', FramesFit', started', FailureInv(b)',
           UNCHANGED <<writerFraming, readerFraming, writerVars, started, acc, frames, failure>>,
           reached <= Len(sent), InBlockNext(b, reached, Len(sent[reached]))
    PROVE  FramingInv'
<1>1. /\ sent' = sent /\ marks' = marks /\ stream' = stream /\ ended' = ended
      /\ writerFraming' = writerFraming /\ readerFraming' = readerFraming
      /\ acc' = acc /\ frames' = frames
  BY DEF writerVars
<1>2. reached' = reached
  BY <1>1 DEF reached
<1>3. frameStart(b, reached)' = frameStart(b, reached) /\ marks[reached]' = marks[reached] /\ sent[reached]' = sent[reached]
  BY <1>1, <1>2 DEF frameStart
<1>4. framed(sent[reached])' = framed(sent[reached])
  BY <1>1, <1>2 DEF framed, header
<1>5. \A l : FrameAt(b, reached, l)' <=> FrameAt(b, reached, l)
  BY <1>1, <1>3, <1>4 DEF FrameAt
<1>6. PICK i, n : i = reached /\ n = Len(sent[reached])
  OBVIOUS
<1>7. InBlock(b)'
  <2>1. (Len(frames) <= Len(sent) /\ \A k \in DOMAIN frames : frames[k] = sent[k])' /\ acc' = << >>
    BY <1>1 DEF InBlock
  <2>2. (reached <= Len(sent))'
    BY <1>1, <1>2
  <2>3. (readerFraming = "content-length" /\ writerFraming = "content-length")'
    BY <1>1 DEF InBlock
  <2>4. CASE /\ block'.body = FALSE /\ block'.headerBytes > 0
             /\ \E line \in Noise : FrameAt(b, reached, line) /\ at' = frameStart(b, reached) + Len(line)
    BY <1>3, <1>5, <2>1, <2>2, <2>3, <2>4 DEF InBlock
  <2>5. CASE block'.body = FALSE /\ block'.contentLen = n /\ at' = marks[reached] - n - 2
    BY <1>3, <1>6, <2>1, <2>2, <2>3, <2>5 DEF InBlock
  <2>6. CASE block'.body = TRUE /\ block'.contentLen = n /\ at' = marks[reached] - n
    BY <1>3, <1>6, <2>1, <2>2, <2>3, <2>6 DEF InBlock
  <2>. QED
    BY <1>6, <2>4, <2>5, <2>6 DEF InBlockNext
<1>8. Position(b)'
  BY <1>7 DEF Position
<1>. QED
  BY <1>1, <1>8, Advance DEF writerVars

(* The frame ahead, in its parts. *)
LEMMA FrameParts ==
    ASSUME FramingTypeInv, NEW b \in {0, 1}, Stands(b), NEW i \in 1 .. Len(sent),
           NEW l \in Noise \cup {<< >>}, FrameAt(b, i, l), writerFraming = "content-length"
    PROVE  /\ Len(sent[i]) \in 1 .. 9 /\ frameStart(b, i) \in Nat /\ l \in Seq(Token) /\ Len(l) \in Nat
           /\ marks[i] = frameStart(b, i) + Len(l) + Len(sent[i]) + 7
           /\ Holds(stream, frameStart(b, i), l)
           /\ Holds(stream, frameStart(b, i) + Len(l), header(Len(sent[i])))
           /\ Holds(stream, frameStart(b, i) + Len(l) + 5, <<CR, LF>>)
           /\ Holds(stream, frameStart(b, i) + Len(l) + 7, sent[i])
<1>1. PICK s \in Seq(Token), n \in Nat : s = sent[i] /\ n = Len(s) /\ Sendable(s)
  BY LayoutIs DEF Stands
<1>2. "content-length" # "ndjson"
  OBVIOUS
<1>3. n \in 1 .. 9
  BY <1>1, <1>2, TokensDiffer DEF Sendable
<1>4. PICK a \in Nat, m \in Nat : a = frameStart(b, i) /\ m = Len(l) /\ l \in Seq(Token)
  <2>1. frameStart(b, i) \in Nat
    <3>1. \A k \in 1 .. Len(sent) + 1 : frameStart(b, k) \in Nat
      BY LayoutIs DEF Stands
    <3>2. i \in 1 .. Len(sent) + 1
      BY LenProperties DEF FramingTypeInv
    <3>. QED
      BY <3>1, <3>2
  <2>2. l \in Seq(Token) /\ Len(l) \in Nat
    BY NoiseAssumption, EmptySeq, LenProperties
  <2>. QED
    BY <2>1, <2>2
<1>5. PICK f : f = framed(s) /\ Len(f) = n + 7
  BY <1>1, <1>3, FramedBlock
<1>6. marks[i] = a + m + (n + 7) /\ Holds(stream, a, l) /\ Holds(stream, a + m, f)
  BY <1>1, <1>4, <1>5 DEF FrameAt
<1>7. /\ \A k \in 1 .. 5 : f[k] = header(n)[k]
      /\ f[6] = CR /\ f[7] = LF
      /\ \A k \in 1 .. n : f[7 + k] = s[k]
  BY <1>1, <1>3, <1>5, FramedBlock
<1>8. PICK N \in Nat : N = Len(stream)
  BY LenProperties DEF FramingTypeInv
<1>9. \A k \in 1 .. n + 7 : a + m + k <= N => stream[a + m + k] = f[k]
  BY <1>5, <1>6, <1>8 DEF Holds
<1>10. Holds(stream, a + m, header(n))
  <2>1. Len(header(n)) = 5
    BY <1>3, HeaderIs
  <2>2. \A k \in 1 .. 5 : k \in 1 .. n + 7
    BY <1>3
  <2>3. \A k \in 1 .. 5 : a + m + k <= N => stream[a + m + k] = header(n)[k]
    BY <1>7, <1>9, <2>2
  <2>. QED
    BY <1>8, <2>1, <2>3 DEF Holds
<1>11. Holds(stream, a + m + 5, <<CR, LF>>)
  <2>1. PICK e : e = <<CR, LF>> /\ Len(e) = 2 /\ e[1] = CR /\ e[2] = LF
    BY BlankIs
  <2>2. \A k \in 1 .. 2 : e[k] = f[5 + k] /\ 5 + k \in 1 .. n + 7 /\ a + m + 5 + k = a + m + (5 + k)
    BY <1>3, <1>7, <2>1
  <2>3. \A k \in 1 .. 2 : a + m + 5 + k <= N => stream[a + m + 5 + k] = e[k]
    BY <1>9, <2>2
  <2>4. Holds(stream, a + m + 5, e)
    BY <1>8, <2>1, <2>3 DEF Holds
  <2>. QED
    BY <2>1, <2>4
<1>12. Holds(stream, a + m + 7, s)
  <2>1. \A k \in 1 .. n : s[k] = f[7 + k] /\ 7 + k \in 1 .. n + 7 /\ a + m + 7 + k = a + m + (7 + k)
    BY <1>3, <1>7
  <2>2. \A k \in 1 .. n : a + m + 7 + k <= N => stream[a + m + 7 + k] = s[k]
    BY <1>9, <2>1
  <2>. QED
    BY <1>1, <1>8, <2>2 DEF Holds
<1>13. marks[i] = a + m + n + 7
  BY <1>3, <1>6
<1>. QED
  BY <1>1, <1>3, <1>4, <1>6, <1>10, <1>11, <1>12, <1>13

(* The end of the stream inside a frame. *)
LEMMA CutInFrame ==
    ASSUME FramingTypeInv, NEW b \in {0, 1}, Stands(b), InBlock(b), reached <= Len(sent),
           NEW s, NEW full, SliceIs(stream, at, s, full, TRUE), ended,
           NEW e, NEW line, Judged(e, s, full, TRUE, line),
           NEW w, Len(w) \in Nat, Len(s) < Len(w), at + Len(w) <= marks[reached],
           frameStart(b, reached) <= at, at = frameStart(b, reached) <=> block = NoBlock
    PROVE  MayStop(b, e)
<1>1. PICK a \in Nat, M \in Nat, N \in Nat : a = frameStart(b, reached) /\ M = marks[reached] /\ N = Len(stream)
  <2>1. reached \in 1 .. Len(sent) /\ Len(sent) \in Nat
    <3>1. Len(frames) \in Nat /\ Len(sent) \in Nat
      BY LenProperties DEF FramingTypeInv
    <3>. QED
      BY <3>1 DEF reached
  <2>2. PICK n \in Nat, i \in 1 .. Len(sent) : n = Len(sent) /\ i = reached /\ i \in 1 .. n
    BY <2>1
  <2>3. marks[i] \in Nat
    BY <2>2, LayoutIs DEF Stands
  <2>4. \A k \in 1 .. n + 1 : frameStart(b, k) \in Nat
    BY <2>2, LayoutIs DEF Stands
  <2>5. frameStart(b, i) \in Nat
    BY <2>2, <2>4
  <2>. QED
    BY <2>2, <2>3, <2>5, LenProperties DEF FramingTypeInv
<1>2. Len(s) \in Nat /\ at + Len(s) = N
  BY <1>1 DEF SliceIs
<1>3. at \in Nat
  BY <1>1 DEF FramingTypeInv
<1>4. N < M
  BY <1>1, <1>2, <1>3
<1>5. e \in {"EOF", "unexpected EOF"} /\ (e = "EOF" => s = << >> /\ block = NoBlock)
      /\ (e = "unexpected EOF" => ~(s = << >> /\ block = NoBlock))
  BY Zenon DEF Judged
<1>6. CASE e = "EOF"
  <2>1. Len(s) = 0
    BY <1>5, <1>6
  <2>2. at = N
    BY <1>2, <1>3, <2>1
  <2>. QED
    BY <1>1, <1>5, <1>6, <2>2 DEF MayStop, Failures, InBlock
<1>7. CASE e = "unexpected EOF"
  <2>1. a < N
    <3>1. CASE block = NoBlock
      <4>1. s # << >>
        BY <1>5, <1>7, <3>1
      <4>2. Len(s) # 0
        BY <4>1, EmptySeq DEF SliceIs
      <4>. QED
        BY <1>1, <1>2, <1>3, <4>2
    <3>2. CASE block # NoBlock
      BY <1>1, <1>2, <1>3, <3>2
    <3>. QED
      BY <3>1, <3>2
  <2>. QED
    BY <1>1, <1>4, <1>7, <2>1 DEF MayStop, Failures
<1>. QED
  BY <1>5, <1>6, <1>7

(* What stops at a line that was read whole. *)
LEMMA StopInBlock ==
    ASSUME NEW b, NEW s, NEW full, NEW eof, NEW e, NEW line, Judged(e, s, full, eof, line), ~eof,
           InBlock(b), reached <= Len(sent),
           ~full => (tooLong(line) => Len(sent[reached]) > maxSize)
    PROVE  MayStop(b, e)
<1>1. e \in Failures /\ e # "EOF" /\ e # "unexpected EOF"
  BY Zenon DEF Judged
<1>2. e = "limit" => ~full /\ tooLong(line)
  BY Zenon DEF Judged
<1>3. asRead(sent[reached]) = sent[reached]
  BY DEF asRead, InBlock
<1>. QED
  BY <1>1, <1>2, <1>3 DEF MayStop

(* The frame ahead: n bytes that follow a of the stream, m of a foreign    *)
(* header and seven of its own.                                            *)
Ahead(b, l, n, a, m) ==
    /\ n = Len(sent[reached]) /\ a = frameStart(b, reached) /\ m = Len(l)
    /\ marks[reached] = a + m + n + 7
    /\ l \in Seq(Token) /\ Holds(stream, a, l)
    /\ Holds(stream, a + m, header(n))
    /\ Holds(stream, a + m + 5, <<CR, LF>>)
    /\ Holds(stream, a + m + 7, sent[reached])

LEMMA FrameAhead ==
    ASSUME FramingTypeInv, NEW b \in {0, 1}, Stands(b), reached <= Len(sent), writerFraming = "content-length",
           NEW l \in Noise \cup {<< >>}, FrameAt(b, reached, l)
    PROVE  \E n \in 1 .. 9, a \in Nat, m \in Nat : Ahead(b, l, n, a, m)
<1>1. PICK i : i = reached /\ i \in 1 .. Len(sent)
  <2>1. Len(frames) \in Nat /\ Len(sent) \in Nat
    BY LenProperties DEF FramingTypeInv
  <2>. QED
    BY <2>1 DEF reached
<1>2. FrameAt(b, i, l)
  BY <1>1
<1>3. /\ Len(sent[i]) \in 1 .. 9 /\ frameStart(b, i) \in Nat /\ l \in Seq(Token) /\ Len(l) \in Nat
      /\ marks[i] = frameStart(b, i) + Len(l) + Len(sent[i]) + 7
      /\ Holds(stream, frameStart(b, i), l)
      /\ Holds(stream, frameStart(b, i) + Len(l), header(Len(sent[i])))
      /\ Holds(stream, frameStart(b, i) + Len(l) + 5, <<CR, LF>>)
      /\ Holds(stream, frameStart(b, i) + Len(l) + 7, sent[i])
  BY <1>1, <1>2, FrameParts
<1>4. PICK n \in 1 .. 9, a \in Nat, m \in Nat : n = Len(sent[i]) /\ a = frameStart(b, i) /\ m = Len(l)
  BY <1>3
<1>5. Ahead(b, l, n, a, m)
  BY <1>1, <1>3, <1>4, Zenon DEF Ahead
<1>. QED
  BY <1>5

(* A foreign header: it is taken, or stops the reading. *)
LEMMA ForeignAhead ==
    ASSUME FramingInv, NEW b \in {0, 1}, Stands(b), InBlock(b), reached <= Len(sent),
           failure = "none", started, block = NoBlock, at = frameStart(b, reached),
           NEW l \in Noise, FrameAt(b, reached, l),
           NEW s, NEW full, NEW eof, SliceIs(stream, at, s, full, eof), eof => ended,
           NEW e, Judged(e, s, full, eof, trimEOL(s)), HeaderRead(e, s, trimEOL(s))
    PROVE  FramingInv'
<1>1. PICK n \in 1 .. 9, a \in Nat, m \in Nat : Ahead(b, l, n, a, m)
  BY FrameAhead DEF FramingInv, InBlock
<1>2. /\ a = frameStart(b, reached) /\ m = Len(l) /\ marks[reached] = a + m + n + 7 /\ l \in Seq(Token)
      /\ Holds(stream, at, l) /\ at = a
  BY <1>1 DEF Ahead
<1>3. /\ l # << >> /\ m # 0 /\ l[m] = LF /\ ~tooLong(trimEOL(l))
      /\ \A k \in 1 .. m - 1 : l[k] # LF
  <2>1. DOMAIN l = 1 .. m
    BY <1>2, LenProperties
  <2>2. l # << >> /\ ~tooLong(trimEOL(l)) /\ \A k \in DOMAIN l : l[k] = LF <=> k = Len(l)
    BY NoiseAssumption, Zenon
  <2>3. m # 0
    BY <1>2, <2>2, EmptySeq
  <2>4. \A k \in 1 .. m : l[k] = LF <=> k = m
    BY <1>2, <2>1, <2>2, Zenon
  <2>5. m \in 1 .. m /\ \A k \in 1 .. m - 1 : k \in 1 .. m /\ k # m
    BY <2>3
  <2>. QED
    BY <2>2, <2>3, <2>4, <2>5, Zenon
<1>4. IF full \/ eof THEN Len(s) < Len(l) ELSE s = l
  <2>1. Len(stream) \in Nat
    BY LenProperties DEF FramingInv, FramingTypeInv
  <2>2. /\ l \in Seq(Token) /\ Len(l) # 0 /\ l[Len(l)] = LF /\ (\A k \in 1 .. Len(l) - 1 : l[k] # LF)
        /\ at \in Nat /\ Holds(stream, at, l)
    BY <1>2, <1>3, Zenon
  <2>. QED
    BY <2>1, <2>2, LineAhead
<1>5. CASE eof
  <2>1. Len(s) < Len(l)
    BY <1>4, <1>5
  <2>2. at + Len(l) <= marks[reached] /\ frameStart(b, reached) <= at /\ Len(l) \in Nat
    <3>1. PICK M \in Nat : M = a + m + n + 7 /\ a + m <= M /\ a <= a
      OBVIOUS
    <3>. QED
      BY <1>2, <3>1, Zenon
  <2>3. MayStop(b, e)
    BY <1>5, <2>1, <2>2, CutInFrame DEF FramingInv
  <2>4. e # "none"
    BY <1>5, Zenon DEF Judged
  <2>. QED
    BY <2>3, <2>4, StopStep DEF HeaderRead
<1>6. CASE ~eof /\ e # "none"
  <2>1. ~full => (tooLong(trimEOL(s)) => Len(sent[reached]) > maxSize)
    BY <1>3, <1>4, <1>6
  <2>2. MayStop(b, e)
    BY <1>6, <2>1, StopInBlock
  <2>. QED
    BY <1>6, <2>2, StopStep DEF HeaderRead
<1>7. CASE ~eof /\ e = "none"
  <2>1. Judged("none", s, full, eof, trimEOL(s)) /\ HeaderRead("none", s, trimEOL(s)) /\ FailureInv(b)
    BY <1>7 DEF Stands
  <2>2. /\ FramingTypeInv' /\ FramesFit' /\ started' /\ FailureInv(b)'
        /\ UNCHANGED <<writerFraming, readerFraming, writerVars, started, acc, frames, failure>>
        /\ ~full /\ at' = at + Len(s) /\ block'.headerBytes > 0
        /\ block'.body = (trimEOL(s) = << >>)
        /\ trimEOL(s) = << >> => block.contentLen >= 0
    BY <2>1, HeaderProgress
  <2>3. trimEOL(s) # << >>
    <3>1. ~(block.contentLen >= 0)
      BY DEF NoBlock
    <3>. QED
      BY <2>2, <3>1
  <2>4. block'.body = FALSE
    BY <2>2, <2>3
  <2>5. at' = frameStart(b, reached) + Len(l)
    BY <1>4, <1>7, <2>2, Zenon
  <2>6. InBlockNext(b, reached, Len(sent[reached]))
    BY <2>2, <2>4, <2>5, Zenon DEF InBlockNext
  <2>. QED
    BY <2>2, <2>6, BlockStep DEF FramingInv
<1>. QED
  BY <1>5, <1>6, <1>7

(* The length. *)
LEMMA LengthAhead ==
    ASSUME FramingInv, NEW b \in {0, 1}, Stands(b), InBlock(b), reached <= Len(sent),
           failure = "none", started, NEW l \in Noise \cup {<< >>}, FrameAt(b, reached, l),
           at = frameStart(b, reached) + Len(l), l = << >> <=> block = NoBlock,
           NEW s, NEW full, NEW eof, SliceIs(stream, at, s, full, eof), eof => ended,
           NEW e, Judged(e, s, full, eof, trimEOL(s)), HeaderRead(e, s, trimEOL(s))
    PROVE  FramingInv'
<1>1. PICK n \in 1 .. 9, a \in Nat, m \in Nat : Ahead(b, l, n, a, m)
  BY FrameAhead DEF FramingInv, InBlock
<1>2. n = Len(sent[reached]) /\ a = frameStart(b, reached) /\ m = Len(l) /\ l \in Seq(Token)
  BY <1>1 DEF Ahead
<1>3. marks[reached] = a + m + n + 7 /\ Holds(stream, a + m, header(n))
  BY <1>1 DEF Ahead
<1>4. at = a + m /\ at \in Nat
  BY <1>2
<1>5. PICK w \in Seq(Token) : w = header(n) /\ Len(w) = 5
  BY <1>3, HeaderIs
<1>6. w[5] = LF /\ \A k \in 1 .. 4 : w[k] # LF
  <2>1. /\ w[1] = ContentLength[1] /\ w[2] = ContentLength[2] /\ w[3] = Number[n] /\ w[4] = CR
        /\ w[5] = LF
    BY <1>5, HeaderIs
  <2>2. w[1] # LF /\ w[2] # LF /\ w[3] # LF /\ w[4] # LF
    BY <2>1, TokensDiffer, Zenon
  <2>. QED
    BY <2>1, <2>2
<1>7. IF full \/ eof THEN Len(s) < Len(w) ELSE s = w
  <2>1. Len(stream) \in Nat
    BY LenProperties DEF FramingInv, FramingTypeInv
  <2>2. Holds(stream, at, w) /\ Len(w) # 0 /\ w[Len(w)] = LF /\ \A k \in 1 .. Len(w) - 1 : w[k] # LF
    BY <1>3, <1>4, <1>5, <1>6
  <2>. QED
    BY <1>4, <2>1, <2>2, LineAhead
<1>8. at = frameStart(b, reached) <=> block = NoBlock
  <2>1. l = << >> <=> m = 0
    BY <1>2, EmptySeq
  <2>2. at = a <=> m = 0
    BY <1>4
  <2>. QED
    BY <1>2, <2>1, <2>2, Zenon
<1>9. CASE eof
  <2>1. Len(s) < Len(w) /\ Len(w) \in Nat
    BY <1>5, <1>7, <1>9
  <2>2. at + Len(w) <= marks[reached] /\ frameStart(b, reached) <= at
    <3>1. PICK M \in Nat : M = a + m + n + 7 /\ (a + m) + 5 <= M /\ a <= a + m
      OBVIOUS
    <3>. QED
      BY <1>2, <1>3, <1>4, <1>5, <3>1, Zenon
  <2>3. MayStop(b, e)
    BY <1>8, <1>9, <2>1, <2>2, CutInFrame DEF FramingInv
  <2>4. e # "none"
    BY <1>9, Zenon DEF Judged
  <2>. QED
    BY <2>3, <2>4, StopStep DEF HeaderRead
<1>10. ~eof /\ ~full => trimEOL(s) = ContentLength \o <<Number[n]>>
  BY <1>3, <1>5, <1>7, HeaderIs
<1>11. CASE ~eof /\ e # "none"
  <2>1. ~full => (tooLong(trimEOL(s)) => Len(sent[reached]) > maxSize)
    <3>1. ~full => lengths(trimEOL(s)) = {n}
      BY <1>10, <1>11, LengthsIs
    <3>. QED
      BY <1>2, <3>1 DEF tooLong
  <2>2. MayStop(b, e)
    BY <1>11, <2>1, StopInBlock
  <2>. QED
    BY <1>11, <2>2, StopStep DEF HeaderRead
<1>12. CASE ~eof /\ e = "none"
  <2>1. Judged("none", s, full, eof, trimEOL(s)) /\ HeaderRead("none", s, trimEOL(s)) /\ FailureInv(b)
    BY <1>12 DEF Stands
  <2>2. /\ FramingTypeInv' /\ FramesFit' /\ started' /\ FailureInv(b)'
        /\ UNCHANGED <<writerFraming, readerFraming, writerVars, started, acc, frames, failure>>
        /\ ~full /\ at' = at + Len(s)
        /\ block'.body = (trimEOL(s) = << >>)
        /\ isLength(trimEOL(s)) => block'.contentLen \in lengths(trimEOL(s))
    BY <2>1, HeaderProgress
  <2>3. trimEOL(s) = ContentLength \o <<Number[n]>> /\ s = w
    BY <1>7, <1>10, <1>12, <2>2
  <2>4. isLength(trimEOL(s)) /\ lengths(trimEOL(s)) = {n} /\ trimEOL(s) # << >>
    BY <2>3, LengthsIs
  <2>5. block'.contentLen = n /\ block'.body = FALSE
    BY <2>2, <2>4
  <2>6. at' = marks[reached] - n - 2
    <3>1. at' = a + m + 5
      BY <1>4, <1>5, <2>2, <2>3, Zenon
    <3>. QED
      BY <1>3, <3>1
  <2>7. InBlockNext(b, reached, Len(sent[reached]))
    BY <1>2, <2>5, <2>6, Zenon DEF InBlockNext
  <2>. QED
    BY <2>2, <2>7, BlockStep DEF FramingInv
<1>. QED
  BY <1>9, <1>11, <1>12

(* The blank line. *)
LEMMA BlankAhead ==
    ASSUME FramingInv, NEW b \in {0, 1}, Stands(b), InBlock(b), reached <= Len(sent),
           failure = "none", started, block.contentLen = Len(sent[reached]),
           at = marks[reached] - Len(sent[reached]) - 2,
           NEW s, NEW full, NEW eof, SliceIs(stream, at, s, full, eof), eof => ended,
           NEW e, Judged(e, s, full, eof, trimEOL(s)), HeaderRead(e, s, trimEOL(s))
    PROVE  FramingInv'
<1>1. PICK i : i = reached /\ i \in 1 .. Len(sent)
  <2>1. Len(frames) \in Nat /\ Len(sent) \in Nat
    BY LenProperties DEF FramingInv, FramingTypeInv
  <2>. QED
    BY <2>1 DEF reached
<1>2. PICK l \in Noise \cup {<< >>} : FrameAt(b, reached, l)
  <2>1. DOMAIN sent = 1 .. Len(sent)
    BY LenProperties DEF FramingInv, FramingTypeInv
  <2>. QED
    BY <1>1, <2>1 DEF Stands, Layout
<1>3. PICK n \in 1 .. 9, a \in Nat, m \in Nat : Ahead(b, l, n, a, m)
  BY <1>2, FrameAhead DEF FramingInv, InBlock
<1>4. /\ n = Len(sent[reached]) /\ a = frameStart(b, reached)
      /\ marks[reached] = a + m + n + 7 /\ Holds(stream, a + m + 5, <<CR, LF>>)
  BY <1>3 DEF Ahead
<1>5. at = a + m + 5 /\ at \in Nat
  <2>1. PICK M \in Nat : M = a + m + n + 7 /\ M - n - 2 = a + m + 5 /\ a + m + 5 \in Nat
    OBVIOUS
  <2>2. at = M - n - 2
    BY <1>4, <2>1, Zenon
  <2>. QED
    BY <2>1, <2>2, Zenon
<1>6. PICK w \in Seq(Token) : w = <<CR, LF>> /\ Len(w) = 2 /\ w[1] = CR /\ w[2] = LF
  BY BlankIs
<1>7. IF full \/ eof THEN Len(s) < Len(w) ELSE s = w
  <2>1. Len(stream) \in Nat
    BY LenProperties DEF FramingInv, FramingTypeInv
  <2>2. Holds(stream, at, w) /\ Len(w) # 0 /\ w[Len(w)] = LF /\ \A k \in 1 .. Len(w) - 1 : w[k] # LF
    BY <1>4, <1>5, <1>6, TokensDiffer
  <2>. QED
    BY <1>5, <2>1, <2>2, LineAhead
<1>8. block # NoBlock /\ at # frameStart(b, reached)
  <2>1. block.contentLen # -1
    BY <1>4
  <2>2. NoBlock.contentLen = -1
    BY DEF NoBlock
  <2>3. at # a
    BY <1>5
  <2>. QED
    BY <1>4, <2>1, <2>2, <2>3, Zenon
<1>9. CASE eof
  <2>1. Len(s) < Len(w) /\ Len(w) \in Nat
    BY <1>6, <1>7, <1>9
  <2>2. at + Len(w) <= marks[reached] /\ frameStart(b, reached) <= at
    <3>1. PICK M \in Nat : M = a + m + n + 7 /\ (a + m + 5) + 2 <= M /\ a <= a + m + 5
      OBVIOUS
    <3>. QED
      BY <1>4, <1>5, <1>6, <3>1, Zenon
  <2>3. MayStop(b, e)
    BY <1>8, <1>9, <2>1, <2>2, CutInFrame DEF FramingInv
  <2>4. e # "none"
    BY <1>9, Zenon DEF Judged
  <2>. QED
    BY <2>3, <2>4, StopStep DEF HeaderRead
<1>10. ~isLength(<< >>) /\ ~tooLong(<< >>)
  <2>1. << >> \in Seq(Token) /\ Len(<< >>) = 0
    OBVIOUS
  <2>2. ASSUME NEW z \in Seq(Token), Len(z) = 0
        PROVE  ~isLength(z)
    <3>1. isLength(z) => 2 <= Len(z)
      BY PrefixIs DEF isLength
    <3>. QED
      BY <2>2, <3>1
  <2>3. lengths(<< >>) = {}
    <3>1. \A k \in 1 .. 9 : ContentLength \o <<Number[k]>> # << >>
      BY LengthsIs
    <3>. QED
      BY <3>1, TokensDiffer DEF lengths
  <2>4. ~isLength(<< >>)
    BY <2>1, <2>2, Zenon
  <2>. QED
    BY <2>3, <2>4 DEF tooLong
<1>11. ~eof /\ ~full => trimEOL(s) = << >>
  BY <1>6, <1>7, BlankIs
<1>12. CASE ~eof /\ e # "none"
  <2>1. ~full => (tooLong(trimEOL(s)) => Len(sent[reached]) > maxSize)
    BY <1>10, <1>11, <1>12
  <2>2. MayStop(b, e)
    BY <1>12, <2>1, StopInBlock
  <2>. QED
    BY <1>12, <2>2, StopStep DEF HeaderRead
<1>13. CASE ~eof /\ e = "none"
  <2>1. Judged("none", s, full, eof, trimEOL(s)) /\ HeaderRead("none", s, trimEOL(s)) /\ FailureInv(b)
    BY <1>13 DEF Stands
  <2>2. /\ FramingTypeInv' /\ FramesFit' /\ started' /\ FailureInv(b)'
        /\ UNCHANGED <<writerFraming, readerFraming, writerVars, started, acc, frames, failure>>
        /\ ~full /\ at' = at + Len(s)
        /\ block'.body = (trimEOL(s) = << >>)
        /\ ~isLength(trimEOL(s)) => block'.contentLen = block.contentLen
    BY <2>1, HeaderProgress
  <2>3. trimEOL(s) = << >> /\ s = w
    BY <1>7, <1>11, <1>13, <2>2
  <2>4. block'.body = TRUE
    BY <2>2, <2>3
  <2>5. block'.contentLen = n
    BY <1>4, <1>10, <2>2, <2>3, Zenon
  <2>6. at' = marks[reached] - n
    <3>1. at' = a + m + 5 + 2
      BY <1>5, <1>6, <2>2, <2>3, Zenon
    <3>2. PICK M \in Nat : M = a + m + n + 7 /\ M - n = a + m + 5 + 2
      OBVIOUS
    <3>. QED
      BY <1>4, <3>1, <3>2, Zenon
  <2>7. InBlockNext(b, reached, Len(sent[reached]))
    BY <1>4, <2>4, <2>5, <2>6 DEF InBlockNext
  <2>. QED
    BY <2>2, <2>7, BlockStep DEF FramingInv
<1>. QED
  BY <1>9, <1>12, <1>13

(* Where the reader expects the first frame of a writer of lines. *)
LEMMA LinesStartWithJSON ==
    ASSUME FramingTypeInv, NEW b \in {0, 1}, Stands(b), writerFraming = "ndjson", at = b, at < Len(stream)
    PROVE  unread # << >> /\ unread[1] = Brace
<1>1. PICK N \in Nat, n \in Nat : N = Len(stream) /\ n = Len(sent) /\ DOMAIN sent = 1 .. n
  BY LenProperties DEF FramingTypeInv
<1>2. frameStart(b, 1) = b
  BY DEF frameStart
<1>3. 1 \in 1 .. n
  <2>1. CASE n = 0
    <3>1. Len(stream) <= frameStart(b, n + 1) \/ Len(stream) = frameStart(b, n + 1)
      BY <1>1 DEF Stands, Layout
    <3>2. frameStart(b, n + 1) = b
      BY <1>2, <2>1
    <3>. QED
      BY <1>1, <3>1, <3>2
  <2>2. CASE n # 0
    BY <2>2
  <2>. QED
    BY <2>1, <2>2
<1>4. PICK s \in Seq(Token) : s = sent[1] /\ Len(s) \in Nat /\ Sendable(s)
  BY <1>1, <1>3, LayoutIs DEF Stands
<1>5. s # << >> /\ s[1] = Brace /\ Len(s) # 0
  BY <1>4, EmptySeq DEF Sendable
<1>6. PICK l \in Noise \cup {<< >>} : FrameAt(b, 1, l)
  BY <1>1, <1>3 DEF Stands, Layout
<1>7. l = << >> /\ Holds(stream, frameStart(b, 1) + Len(l), framed(s))
  BY <1>4, <1>6 DEF FrameAt
<1>8. Holds(stream, b, framed(s))
  <2>1. Len(<< >>) = 0 /\ b + 0 = b
    OBVIOUS
  <2>. QED
    BY <1>2, <1>7, <2>1, Zenon
<1>9. Len(framed(s)) = Len(s) + 1 /\ \A k \in 1 .. Len(s) : framed(s)[k] = s[k]
  BY <1>4, FramedLine
<1>10. 1 \in 1 .. Len(s) /\ 1 \in 1 .. Len(framed(s)) /\ b + 1 <= Len(stream)
  BY <1>1, <1>4, <1>5, <1>9
<1>11. stream[b + 1] = Brace
  BY <1>5, <1>8, <1>9, <1>10 DEF Holds
<1>12. Len(unread) = N - at /\ \A k \in 1 .. N - at : unread[k] = stream[at + k]
  BY <1>1, UnreadIs DEF FramingTypeInv
<1>13. unread # << >>
  <2>1. Len(unread) # 0
    BY <1>1, <1>12
  <2>2. Len(<< >>) = 0
    OBVIOUS
  <2>. QED
    BY <2>1, <2>2, Zenon
<1>14. 1 \in 1 .. N - at
  BY <1>1
<1>15. unread[1] = stream[b + 1]
  BY <1>12, <1>14
<1>. QED
  BY <1>11, <1>13, <1>15

LEMMA ReadHeaderLineStep ==
    ASSUME FramingInv, ReadHeaderLine
    PROVE  FramingInv'
<1>1. PICK b \in {0, 1} : Stands(b)
  BY DEF FramingInv
<1>2. PICK s, full, eof : s = slice /\ full = sliceFull /\ eof = sliceEOF
  OBVIOUS
<1>3. SliceIs(stream, at, s, full, eof) /\ (eof => ended)
  BY <1>2, ReadSlice DEF ReadHeaderLine, FramingInv, FramingTypeInv
<1>4. PICK e : Judged(e, s, full, eof, trimEOL(s)) /\ HeaderRead(e, s, trimEOL(s))
  BY <1>2, HeaderJudged DEF FramingInv
<1>5. started /\ failure = "none" /\ readerFraming = "content-length" /\ ~block.body /\ ~startsWithJSON
  BY DEF ReadHeaderLine, reading
<1>6. ASSUME at = Len(stream), readerFraming = writerFraming => block = NoBlock /\ acc = << >>
      PROVE  FramingInv'
  <2>1. MayStop(b, e) /\ e # "none"
    BY <1>3, <1>4, <1>6, NothingAhead DEF FramingInv
  <2>2. stop(e)
    BY <1>4, <2>1 DEF HeaderRead
  <2>. QED
    BY <1>1, <1>5, <2>1, <2>2, StopStep
<1>7. CASE NothingLeft
  <2>1. at = Len(stream)
    BY <1>7 DEF NothingLeft
  <2>. QED
    BY <1>6, <1>7, <2>1 DEF NothingLeft
<1>8. CASE InBlock(b)
  <2>1. PICK n \in Nat, r \in Nat, N \in Nat : n = Len(sent) /\ r = reached /\ r <= n + 1 /\ N = Len(stream)
    <3>1. PICK f \in Nat, n \in Nat, N \in Nat : f = Len(frames) /\ n = Len(sent) /\ N = Len(stream)
      BY LenProperties DEF FramingInv, FramingTypeInv
    <3>2. f <= n
      BY <1>8, <3>1 DEF InBlock
    <3>3. reached = f + 1 /\ f + 1 \in Nat /\ f + 1 <= n + 1
      BY <3>1, <3>2 DEF reached
    <3>. QED
      BY <3>1, <3>3, Zenon
  <2>2. CASE ~(reached <= Len(sent))
    <3>1. reached = Len(sent) + 1
      BY <2>1, <2>2
    <3>2. block = NoBlock /\ acc = << >> /\ at = frameStart(b, Len(sent) + 1)
      BY <1>8, <2>2, <3>1 DEF InBlock
    <3>3. Len(stream) <= frameStart(b, Len(sent) + 1) \/ Len(stream) = frameStart(b, Len(sent) + 1)
      BY <1>1 DEF Stands, Layout
    <3>4. at = Len(stream)
      BY <2>1, <3>2, <3>3 DEF FramingInv, FramingTypeInv
    <3>. QED
      BY <1>6, <3>2, <3>4
  <2>3. CASE reached <= Len(sent) /\ block = NoBlock /\ at = frameStart(b, reached)
    <3>1. PICK l \in Noise \cup {<< >>} : FrameAt(b, reached, l)
      <4>1. DOMAIN sent = 1 .. Len(sent)
        BY LenProperties DEF FramingInv, FramingTypeInv
      <4>2. reached \in 1 .. Len(sent)
        <5>1. Len(frames) \in Nat
          BY LenProperties DEF FramingInv, FramingTypeInv
        <5>. QED
          BY <2>1, <2>3, <5>1 DEF reached
      <4>. QED
        BY <1>1, <4>1, <4>2 DEF Stands, Layout
    <3>2. CASE l \in Noise
      BY <1>1, <1>3, <1>4, <1>5, <1>8, <2>3, <3>1, <3>2, ForeignAhead
    <3>3. CASE l = << >>
      <4>1. PICK a \in Nat : a = at /\ a + 0 = a
        BY DEF FramingInv, FramingTypeInv
      <4>2. Len(l) = 0
        BY <3>3
      <4>3. at = frameStart(b, reached) + Len(l)
        BY <2>3, <4>1, <4>2, Zenon
      <4>4. l = << >> <=> block = NoBlock
        BY <2>3, <3>3
      <4>. QED
        BY <1>1, <1>3, <1>4, <1>5, <1>8, <2>3, <3>1, <4>3, <4>4, LengthAhead
    <3>. QED
      BY <3>1, <3>2, <3>3
  <2>4. ASSUME reached <= Len(sent), block.headerBytes > 0,
               NEW l \in Noise, FrameAt(b, reached, l), at = frameStart(b, reached) + Len(l)
        PROVE  FramingInv'
    <3>1. block # NoBlock
      <4>1. ~(NoBlock.headerBytes > 0)
        BY DEF NoBlock
      <4>. QED
        BY <2>4, <4>1
    <3>2. l # << >> /\ l \in Noise \cup {<< >>}
      BY NoiseAssumption
    <3>3. l = << >> <=> block = NoBlock
      BY <3>1, <3>2
    <3>. QED
      BY <1>1, <1>3, <1>4, <1>5, <1>8, <2>4, <3>2, <3>3, LengthAhead
  <2>5. CASE /\ reached <= Len(sent) /\ block.contentLen = Len(sent[reached])
             /\ at = marks[reached] - Len(sent[reached]) - 2
    BY <1>1, <1>3, <1>4, <1>5, <1>8, <2>5, BlankAhead
  <2>. QED
    BY <1>5, <1>8, <2>2, <2>3, <2>4, <2>5 DEF InBlock
<1>9. CASE InLine(b)
  <2>1. "content-length" # "ndjson"
    OBVIOUS
  <2>. QED
    BY <1>5, <1>9, <2>1 DEF InLine
<1>10. CASE Mistaken(b)
  <2>1. readerFraming # writerFraming /\ block = NoBlock /\ at = b
    BY <1>5, <1>10 DEF Mistaken
  <2>2. writerFraming = "ndjson"
    BY <1>5, <2>1 DEF FramingInv, FramingTypeInv, Framings
  <2>3. ~(at < Len(stream))
    <3>1. ASSUME at < Len(stream) PROVE FALSE
      <4>1. unread # << >> /\ unread[1] = Brace
        BY <1>1, <2>1, <2>2, <3>1, LinesStartWithJSON DEF FramingInv
      <4>. QED
        BY <1>5, <2>1, <4>1 DEF startsWithJSON, atBlockStart
    <3>. QED
      BY <3>1
  <2>4. at = Len(stream)
    <3>1. Len(stream) \in Nat /\ at \in 0 .. Len(stream)
      BY LenProperties DEF FramingInv, FramingTypeInv
    <3>. QED
      BY <2>3, <3>1
  <2>. QED
    BY <1>6, <2>1, <2>4
<1>. QED
  BY <1>1, <1>5, <1>7, <1>8, <1>9, <1>10 DEF Stands, Position

LEMMA SniffStep ==
    ASSUME FramingInv, Sniff
    PROVE  FramingInv'
<1>1. PICK b \in {0, 1} : Stands(b)
  BY DEF FramingInv
<1>2. MayStop(b, "wrong framing")
  BY DEF MayStop, Failures
<1>3. started /\ stop("wrong framing")
  BY DEF Sniff, reading
<1>. QED
  BY <1>1, <1>2, <1>3, StopStep

(* A frame more. *)
LEMMA FramesGrow ==
    ASSUME FramingTypeInv, NEW g \in Seq(Token), frames' = Append(frames, g)
    PROVE  /\ frames' \in Seq(Seq(Token)) /\ Len(frames') = reached /\ reached' = reached + 1
           /\ reached \in Nat /\ 1 <= reached /\ DOMAIN frames' = 1 .. reached
           /\ frames'[reached] = g /\ \A k \in 1 .. reached - 1 : k \in DOMAIN frames /\ frames'[k] = frames[k]
<1>1. PICK f \in Nat : f = Len(frames) /\ DOMAIN frames = 1 .. f
  BY LenProperties DEF FramingTypeInv
<1>2. /\ frames' \in Seq(Seq(Token)) /\ Len(frames') = f + 1
      /\ \A k \in 1 .. f : frames'[k] = frames[k]
      /\ frames'[f + 1] = g
  <2>1. frames \in Seq(Seq(Token))
    BY DEF FramingTypeInv
  <2>. QED
    BY <1>1, <2>1, AppendProperties
<1>3. DOMAIN frames' = 1 .. f + 1
  BY <1>2, LenProperties
<1>4. reached = f + 1 /\ f + 1 - 1 = f /\ f + 1 \in Nat /\ 1 <= f + 1
  BY <1>1 DEF reached
<1>5. reached' = (f + 1) + 1
  BY <1>2 DEF reached
<1>6. reached - 1 = f /\ reached' = reached + 1
  BY <1>4, <1>5
<1>7. \A k \in 1 .. reached - 1 : k \in DOMAIN frames /\ frames'[k] = frames[k]
  BY <1>1, <1>2, <1>6
<1>. QED
  BY <1>2, <1>3, <1>4, <1>6, <1>7, Zenon

LEMMA FrameTaken ==
    ASSUME FramingTypeInv, NEW g \in Seq(Token), frames' = Append(frames, g), FramesFit, Len(g) <= maxSize
    PROVE  FramesFit'
<1>1. PICK i \in Nat : i = reached /\ 1 <= i
  BY FramesGrow
<1>2. /\ DOMAIN frames' = 1 .. i /\ frames'[i] = g
      /\ \A k \in 1 .. i - 1 : k \in DOMAIN frames /\ frames'[k] = frames[k]
  BY <1>1, FramesGrow
<1>3. ASSUME NEW k \in 1 .. i PROVE Len(frames'[k]) <= maxSize
  <2>1. CASE k = i
    BY <1>2, <2>1
  <2>2. CASE k # i
    <3>1. k \in 1 .. i - 1
      BY <1>1, <2>2
    <3>. QED
      BY <1>2, <3>1 DEF FramesFit
  <2>. QED
    BY <2>1, <2>2
<1>. QED
  BY <1>2, <1>3 DEF FramesFit

LEMMA ReadBodyStep ==
    ASSUME FramingInv, ReadBody
    PROVE  FramingInv'
<1>1. PICK b \in {0, 1} : Stands(b)
  BY DEF FramingInv
<1>2. started /\ failure = "none" /\ readerFraming = "content-length" /\ block.body
  BY DEF ReadBody, reading
<1>3. block # NoBlock
  BY <1>2 DEF NoBlock
<1>4. InBlock(b)
  <2>1. ~NothingLeft /\ ~Mistaken(b)
    BY <1>2, <1>3 DEF NothingLeft, Mistaken
  <2>2. ~InLine(b)
    BY <1>3 DEF InLine
  <2>. QED
    BY <1>1, <1>2, <2>1, <2>2 DEF Stands, Position
<1>5. /\ reached <= Len(sent) /\ block.contentLen = Len(sent[reached])
      /\ at = marks[reached] - Len(sent[reached]) /\ writerFraming = "content-length" /\ acc = << >>
      /\ \A k \in DOMAIN frames : frames[k] = sent[k]
  BY <1>2, <1>3, <1>4 DEF InBlock
<1>6. PICK i \in Nat, c \in Nat : i = reached /\ c = Len(sent) /\ i \in 1 .. c
  <2>1. PICK f \in Nat, c \in Nat : f = Len(frames) /\ c = Len(sent)
    BY LenProperties DEF FramingInv, FramingTypeInv
  <2>2. reached = f + 1 /\ f + 1 <= c
    BY <1>5, <2>1 DEF reached
  <2>3. f + 1 \in 1 .. c /\ f + 1 \in Nat
    BY <2>2
  <2>. QED
    BY <2>1, <2>2, <2>3, Zenon
<1>7. PICK l \in Noise \cup {<< >>} : FrameAt(b, reached, l)
  <2>1. DOMAIN sent = 1 .. c
    BY <1>6, LenProperties DEF FramingInv, FramingTypeInv
  <2>. QED
    BY <1>1, <1>6, <2>1 DEF Stands, Layout
<1>8. PICK n \in 1 .. 9, a \in Nat, m \in Nat : Ahead(b, l, n, a, m)
  BY <1>1, <1>5, <1>7, FrameAhead DEF FramingInv
<1>9. PICK M \in Nat : M = a + m + n + 7 /\ M - n = a + m + 7 /\ a + m + 7 + n = M /\ a < a + m + 7
  OBVIOUS
<1>10. /\ n = Len(sent[reached]) /\ a = frameStart(b, reached) /\ marks[reached] = M
       /\ Holds(stream, a + m + 7, sent[reached])
  BY <1>8, <1>9, Zenon DEF Ahead
<1>11. at = a + m + 7 /\ block.contentLen = n
  BY <1>5, <1>9, <1>10, Zenon
<1>12. PICK N \in Nat : N = Len(stream) /\ a + m + 7 <= N
  BY <1>11, LenProperties DEF FramingInv, FramingTypeInv
<1>13. /\ unread \in Seq(Token) /\ Len(unread) = N - (a + m + 7)
       /\ \A k \in 1 .. N - (a + m + 7) : unread[k] = stream[a + m + 7 + k]
  BY <1>11, <1>12, UnreadIs DEF FramingInv, FramingTypeInv
<1>14. CASE N - (a + m + 7) < n
  <2>1. stop("unexpected EOF") /\ ended
    <3>1. Len(unread) < block.contentLen
      BY <1>11, <1>13, <1>14
    <3>2. ~(Len(unread) >= block.contentLen)
      BY <1>11, <1>12, <1>13, <1>14
    <3>. QED
      BY <3>1, <3>2 DEF ReadBody
  <2>2. a < N /\ N < M
    BY <1>9, <1>12, <1>14
  <2>3. MayStop(b, "unexpected EOF")
    BY <1>5, <1>10, <1>12, <2>1, <2>2 DEF MayStop, Failures
  <2>. QED
    BY <1>1, <1>2, <2>1, <2>3, StopStep
<1>15. CASE ~(N - (a + m + 7) < n)
  <2>1. PICK g : g = SubSeq(unread, 1, n)
    OBVIOUS
  <2>2. g \in Seq(Token) /\ Len(g) = n /\ \A k \in 1 .. n : g[k] = stream[a + m + 7 + k]
    <3>1. \A k \in 1 .. n : k \in 1 .. N - (a + m + 7) /\ k \in 1 .. Len(unread)
      BY <1>12, <1>13, <1>15
    <3>2. \A k \in 1 .. n : unread[k] \in Token
      BY <1>13, <3>1, ElementOfSeq
    <3>3. /\ g \in Seq(Token) /\ Len(g) = IF 1 <= n THEN n - 1 + 1 ELSE 0
          /\ \A k \in 1 .. n - 1 + 1 : g[k] = unread[1 + k - 1]
      BY <2>1, <3>2, SubSeqProperties
    <3>4. Len(g) = n /\ n - 1 + 1 = n
      BY <3>3
    <3>5. \A k \in 1 .. n : g[k] = unread[k]
      BY <3>3
    <3>. QED
      BY <1>13, <3>1, <3>3, <3>4, <3>5
  <2>3. g = sent[reached]
    <3>1. PICK s \in Seq(Token) : s = sent[reached] /\ Len(s) = n /\ Holds(stream, a + m + 7, s)
      <4>1. sent[i] \in Seq(Token)
        BY <1>1, <1>6, LayoutIs DEF Stands, FramingInv
      <4>. QED
        BY <1>6, <1>10, <4>1
    <3>2. \A k \in 1 .. n : a + m + 7 + k <= N
      BY <1>12, <1>15
    <3>3. \A k \in 1 .. n : stream[a + m + 7 + k] = s[k]
      BY <1>12, <3>1, <3>2 DEF Holds
    <3>4. \A k \in 1 .. n : g[k] = s[k]
      BY <2>2, <3>3
    <3>5. g = s
      BY <2>2, <3>1, <3>4, SeqEqual
    <3>. QED
      BY <3>1, <3>5
  <2>4. /\ at' = M /\ frames' = Append(frames, g) /\ block' = NoBlock
        /\ UNCHANGED <<writerFraming, readerFraming, writerVars, started, acc, failure>>
    <3>1. ~(Len(unread) < block.contentLen)
      BY <1>11, <1>13, <1>15
    <3>. QED
      BY <1>9, <1>11, <2>1, <3>1 DEF ReadBody
  <2>5. /\ sent' = sent /\ marks' = marks /\ stream' = stream /\ ended' = ended
        /\ writerFraming' = writerFraming /\ readerFraming' = readerFraming
        /\ started' = started /\ acc' = acc /\ failure' = failure
    BY <2>4 DEF writerVars
  <2>6. /\ frames' \in Seq(Seq(Token)) /\ Len(frames') = i /\ reached' = i + 1
        /\ DOMAIN frames' = 1 .. i
        /\ frames'[i] = g /\ \A k \in 1 .. i - 1 : k \in DOMAIN frames /\ frames'[k] = frames[k]
    BY <1>6, <2>2, <2>4, FramesGrow DEF FramingInv
  <2>7. n <= maxSize
    BY <1>11 DEF FramingInv, FramingTypeInv
  <2>8. FramesFit'
    BY <2>2, <2>4, <2>7, FrameTaken DEF FramingInv
  <2>9. FramingTypeInv'
    <3>1. maxSize \in Nat
      BY LimitsAssumption
    <3>2. block' \in [contentLen : -1 .. maxSize, headerBytes : Nat, body : BOOLEAN]
      BY <2>4, <3>1 DEF NoBlock
    <3>3. at' \in 0 .. Len(stream')
      BY <1>9, <1>12, <1>15, <2>4, <2>5
    <3>. QED
      BY <2>5, <2>6, <3>2, <3>3 DEF FramingInv, FramingTypeInv
  <2>10. InBlock(b)'
    <3>1. at' = frameStart(b, reached)'
      <4>1. i + 1 # 1 /\ i + 1 - 1 = i
        BY <1>6
      <4>2. frameStart(b, reached)' = marks'[i]
        BY <2>6, <4>1 DEF frameStart
      <4>. QED
        BY <1>6, <1>10, <2>4, <2>5, <4>2
    <3>2. \A k \in DOMAIN frames' : frames'[k] = sent'[k]
      <4>1. ASSUME NEW k \in 1 .. i PROVE frames'[k] = sent[k]
        <5>1. CASE k = i
          BY <1>6, <2>3, <2>6, <5>1
        <5>2. CASE k # i
          <6>1. k \in 1 .. i - 1
            BY <1>6, <5>2
          <6>. QED
            BY <1>5, <2>6, <6>1
        <5>. QED
          BY <5>1, <5>2
      <4>. QED
        BY <2>5, <2>6, <4>1
    <3>3. Len(frames') <= Len(sent')
      BY <1>6, <2>5, <2>6
    <3>4. (block = NoBlock)' /\ acc' = << >>
      BY <1>5, <2>4, <2>5 DEF NoBlock
    <3>5. (readerFraming = "content-length" /\ writerFraming = "content-length")'
      BY <1>2, <1>5, <2>5
    <3>. QED
      BY <3>1, <3>2, <3>3, <3>4, <3>5 DEF InBlock
  <2>11. Position(b)' /\ FailureInv(b)' /\ started'
    BY <1>2, <2>5, <2>10 DEF Position, FailureInv
  <2>. QED
    BY <1>1, <2>4, <2>8, <2>9, <2>11, Advance DEF FramingInv
<1>. QED
  BY <1>14, <1>15

(***************************************************************************)
(* One line.                                                               *)
(***************************************************************************)
LineTaken(s, full, eof, t, line) ==
    /\ ~(Len(acc) + Len(s) - 2 > maxSize)
    /\ ~(eof /\ t = << >>)
    /\ ~full => ~(Len(line) > maxSize) /\ ~IsPrefix(ContentLength, line)
    /\ at' = at + Len(s)
    /\ acc' = IF full THEN t ELSE << >>
    /\ frames' = IF full \/ line = << >> THEN frames ELSE Append(frames, line)
    /\ UNCHANGED <<writerFraming, readerFraming, writerVars, started, block, failure>>

LineLimit(s, full, line) ==
    stop("limit") /\ (Len(acc) + Len(s) - 2 > maxSize \/ (~full /\ Len(line) > maxSize))

LineRead(s, full, eof, t, line) ==
    \/ LineLimit(s, full, line)
    \/ stop("EOF") /\ eof /\ t = << >>
    \/ stop("wrong framing")
    \/ LineTaken(s, full, eof, t, line)

LEMMA LineJudged ==
    ASSUME ReadLine
    PROVE  LineRead(slice, sliceFull, sliceEOF, acc \o slice, trimEOL(acc \o slice))
<1>1. PICK s, full, eof : s = slice /\ full = sliceFull /\ eof = sliceEOF
  OBVIOUS
<1>2. PICK t, line : t = acc \o slice /\ line = trimEOL(acc \o slice)
  OBVIOUS
<1>3. IF Len(acc) + Len(s) - 2 > maxSize THEN stop("limit")
      ELSE IF eof /\ t = << >> THEN stop("EOF")
      ELSE IF ~full /\ overLimit(line) THEN stop("limit")
      ELSE IF ~full /\ IsPrefix(ContentLength, line) THEN stop("wrong framing")
      ELSE /\ at' = at + Len(s)
           /\ acc' = IF full THEN t ELSE << >>
           /\ frames' = IF full \/ line = << >> THEN frames ELSE Append(frames, line)
           /\ UNCHANGED <<writerFraming, readerFraming, writerVars, started, block, failure>>
  BY <1>1, <1>2 DEF ReadLine
<1>4. LineRead(s, full, eof, t, line)
  <2>1. CASE Len(acc) + Len(s) - 2 > maxSize
    BY <1>3, <2>1, Zenon DEF LineRead, LineLimit
  <2>2. CASE ~(Len(acc) + Len(s) - 2 > maxSize) /\ eof /\ t = << >>
    BY <1>3, <2>2, Zenon DEF LineRead
  <2>3. CASE ~(Len(acc) + Len(s) - 2 > maxSize) /\ ~(eof /\ t = << >>) /\ ~full /\ overLimit(line)
    BY <1>3, <2>3, Zenon DEF LineRead, LineLimit, overLimit
  <2>4. CASE /\ ~(Len(acc) + Len(s) - 2 > maxSize) /\ ~(eof /\ t = << >>)
             /\ ~(~full /\ overLimit(line)) /\ ~full /\ IsPrefix(ContentLength, line)
    BY <1>3, <2>4, Zenon DEF LineRead
  <2>5. CASE /\ ~(Len(acc) + Len(s) - 2 > maxSize) /\ ~(eof /\ t = << >>)
             /\ ~(~full /\ overLimit(line)) /\ ~(~full /\ IsPrefix(ContentLength, line))
    BY <1>3, <2>5, Zenon DEF LineRead, LineTaken, overLimit
  <2>. QED
    BY <2>1, <2>2, <2>3, <2>4, <2>5
<1>. QED
  BY <1>1, <1>2, <1>4

(* The line so far, from where it started. *)
LEMMA AccSlice ==
    ASSUME FramingTypeInv, NEW a \in Nat, a + Len(acc) = at, Holds(stream, a, acc), ~hasLF(acc),
           NEW s, NEW full, NEW eof, SliceIs(stream, at, s, full, eof)
    PROVE  SliceIs(stream, a, acc \o s, full, eof) /\ Len(acc \o s) = Len(acc) + Len(s)
<1>1. PICK n \in Nat, m \in Nat, N \in Nat : n = Len(acc) /\ m = Len(s) /\ N = Len(stream)
  BY LenProperties DEF FramingTypeInv, SliceIs
<1>2. /\ s \in Seq(Token) /\ acc \in Seq(Token) /\ a + n + m <= N
      /\ \A k \in 1 .. m : s[k] = stream[a + n + k]
      /\ \A k \in 1 .. m - 1 : s[k] # LF
      /\ at = a + n
  BY <1>1 DEF FramingTypeInv, SliceIs
<1>3. PICK t : t = acc \o s
  OBVIOUS
<1>4. Joins(t, acc, s)
  BY <1>2, <1>3, Joined
<1>5. /\ t \in Seq(Token) /\ Len(t) = n + m
      /\ \A k \in 1 .. n : t[k] = acc[k]
      /\ \A k \in 1 .. m : t[n + k] = s[k]
  BY <1>1, <1>4 DEF Joins
<1>6. DOMAIN acc = 1 .. n /\ DOMAIN s = 1 .. m /\ DOMAIN t = 1 .. n + m
  BY <1>1, <1>2, <1>5, LenProperties
<1>7. \A k \in 1 .. n : acc[k] # LF /\ acc[k] = stream[a + k]
  <2>1. \A k \in 1 .. n : acc[k] # LF
    <3>1. ASSUME NEW k \in 1 .. n, acc[k] = LF PROVE FALSE
      BY <1>1, <3>1 DEF hasLF, Contains
    <3>. QED
      BY <3>1
  <2>2. \A k \in 1 .. n : a + k <= N
    BY <1>2
  <2>. QED
    BY <1>1, <2>1, <2>2 DEF Holds
<1>8. \A k \in 1 .. n + m : t[k] = stream[a + k]
  <2>1. ASSUME NEW k \in 1 .. n + m PROVE t[k] = stream[a + k]
    <3>1. CASE k <= n
      <4>1. k \in 1 .. n
        BY <3>1
      <4>. QED
        BY <1>5, <1>7, <4>1
    <3>2. CASE ~(k <= n)
      <4>1. PICK j \in 1 .. m : k = n + j /\ a + k = a + n + j
        <5>1. k - n \in 1 .. m /\ k = n + (k - n) /\ a + k = a + n + (k - n)
          BY <3>2
        <5>. QED
          BY <5>1
      <4>. QED
        BY <1>2, <1>5, <4>1
    <3>. QED
      BY <3>1, <3>2
  <2>. QED
    BY <2>1
<1>9. \A k \in 1 .. n + m - 1 : t[k] # LF
  <2>1. ASSUME NEW k \in 1 .. n + m - 1 PROVE t[k] # LF
    <3>1. CASE k <= n
      <4>1. k \in 1 .. n
        BY <3>1
      <4>. QED
        BY <1>5, <1>7, <4>1
    <3>2. CASE ~(k <= n)
      <4>1. PICK j \in 1 .. m - 1 : k = n + j /\ j \in 1 .. m
        <5>1. k - n \in 1 .. m - 1 /\ k = n + (k - n) /\ k - n \in 1 .. m
          BY <3>2
        <5>. QED
          BY <5>1
      <4>. QED
        BY <1>2, <1>5, <4>1
    <3>. QED
      BY <3>1, <3>2
  <2>. QED
    BY <2>1
<1>10. IF full \/ eof THEN ~hasLF(t) ELSE Len(t) # 0 /\ t[Len(t)] = LF
  <2>1. CASE full \/ eof
    <3>1. ~hasLF(s)
      BY <2>1 DEF SliceIs
    <3>2. \A j \in 1 .. m : s[j] # LF
      <4>1. ASSUME NEW j \in 1 .. m, s[j] = LF PROVE FALSE
        BY <1>6, <3>1, <4>1 DEF hasLF, Contains
      <4>. QED
        BY <4>1
    <3>3. ASSUME NEW k \in 1 .. n + m PROVE t[k] # LF
      <4>1. CASE k <= n
        <5>1. k \in 1 .. n
          BY <4>1
        <5>. QED
          BY <1>5, <1>7, <5>1
      <4>2. CASE ~(k <= n)
        <5>1. k - n \in 1 .. m /\ k = n + (k - n)
          BY <4>2
        <5>2. PICK j \in 1 .. m : k = n + j
          BY <5>1
        <5>. QED
          BY <1>5, <3>2, <5>2
      <4>. QED
        BY <4>1, <4>2
    <3>. QED
      BY <1>5, <1>6, <2>1, <3>3 DEF hasLF, Contains
  <2>2. CASE ~(full \/ eof)
    <3>1. m # 0 /\ s[m] = LF
      BY <1>1, <2>2 DEF SliceIs
    <3>2. m \in 1 .. m /\ n + m # 0
      BY <3>1
    <3>. QED
      BY <1>5, <2>2, <3>1, <3>2
  <2>. QED
    BY <2>1, <2>2
<1>11. /\ ~(full /\ eof) /\ (full => Len(t) # 0) /\ (eof => a + Len(t) = Len(stream))
       /\ a + Len(t) <= Len(stream) /\ Len(t) \in Nat
  <2>1. full => m # 0
    BY <1>1 DEF SliceIs
  <2>2. eof => a + n + m = N
    BY <1>1, <1>2 DEF SliceIs
  <2>3. ~(full /\ eof)
    BY DEF SliceIs
  <2>. QED
    BY <1>1, <1>2, <1>5, <2>1, <2>2, <2>3
<1>12. SliceIs(stream, a, t, full, eof)
  BY <1>5, <1>8, <1>9, <1>10, <1>11 DEF SliceIs
<1>. QED
  BY <1>1, <1>3, <1>5, <1>12

(* The reader after a line, its position apart. *)
LEMMA LineProgress ==
    ASSUME FramingInv, NEW b, FailureInv(b), failure = "none", started,
           NEW s, NEW full, NEW eof, SliceIs(stream, at, s, full, eof),
           NEW t \in Seq(Token), LineTaken(s, full, eof, t, trimEOL(t))
    PROVE  FramingTypeInv' /\ FramesFit' /\ started' /\ FailureInv(b)'
<1>1. PICK line \in Seq(Token) : line = trimEOL(t)
  BY TrimEOLIs
<1>2. /\ sent' = sent /\ marks' = marks /\ stream' = stream /\ ended' = ended
      /\ writerFraming' = writerFraming /\ readerFraming' = readerFraming
      /\ started' = started /\ block' = block /\ failure' = failure
      /\ at' = at + Len(s)
      /\ acc' = IF full THEN t ELSE << >>
      /\ frames' = IF full \/ line = << >> THEN frames ELSE Append(frames, line)
      /\ ~full => ~(Len(line) > maxSize)
  BY <1>1 DEF LineTaken, writerVars
<1>3. at' \in 0 .. Len(stream)
  <2>1. PICK N \in Nat : N = Len(stream) /\ at \in 0 .. N
    BY LenProperties DEF FramingInv, FramingTypeInv
  <2>2. Len(s) \in Nat /\ at + Len(s) <= N
    BY <2>1 DEF SliceIs
  <2>. QED
    BY <1>2, <2>1, <2>2
<1>4. acc' \in Seq(Token)
  BY <1>2
<1>5. frames' \in Seq(Seq(Token)) /\ FramesFit'
  <2>1. CASE full \/ line = << >>
    BY <1>2, <2>1 DEF FramingInv, FramingTypeInv, FramesFit
  <2>2. CASE ~(full \/ line = << >>)
    <3>1. frames' = Append(frames, line)
      BY <1>2, <2>2
    <3>2. Len(line) <= maxSize
      <4>1. Len(line) \in Nat /\ maxSize \in Nat
        BY LimitsAssumption, LenProperties
      <4>. QED
        BY <1>2, <2>2, <4>1
    <3>. QED
      BY <3>1, <3>2, FramesGrow, FrameTaken DEF FramingInv
  <2>. QED
    BY <2>1, <2>2
<1>6. FramingTypeInv'
  BY <1>2, <1>3, <1>4, <1>5 DEF FramingInv, FramingTypeInv
<1>7. started' /\ FailureInv(b)'
  BY <1>2 DEF FailureInv
<1>. QED
  BY <1>5, <1>6, <1>7

(* Nothing to read: the end is clean. *)
LEMMA NoLineAhead ==
    ASSUME FramingInv, NEW b \in {0, 1}, Stands(b), started, at = Len(stream), acc = << >>,
           readerFraming = writerFraming => block = NoBlock,
           NEW s, NEW full, NEW eof, SliceIs(stream, at, s, full, eof), eof => ended,
           LineRead(s, full, eof, acc \o s, trimEOL(acc \o s))
    PROVE  FramingInv'
<1>1. PICK N \in Nat : N = Len(stream)
  BY LenProperties DEF FramingInv, FramingTypeInv
<1>2. Len(s) = 0 /\ s \in Seq(Token)
  BY <1>1 DEF SliceIs
<1>3. s = << >>
  BY <1>2, EmptySeq
<1>4. eof /\ ~full
  BY <1>2 DEF SliceIs
<1>5. acc \o s = << >>
  BY <1>3
<1>6. Len(acc) = 0 /\ maxSize \in Nat
  BY LimitsAssumption
<1>7. trimEOL(acc \o s) = << >>
  BY <1>5 DEF trimEOL, trimLF, trimCR
<1>8. ~LineLimit(s, full, trimEOL(acc \o s))
  <2>1. ~(Len(acc) + Len(s) - 2 > maxSize)
    BY <1>2, <1>6
  <2>2. ~(Len(trimEOL(acc \o s)) > maxSize)
    <3>1. Len(<< >>) = 0
      OBVIOUS
    <3>. QED
      BY <1>6, <1>7, <3>1
  <2>. QED
    BY <2>1, <2>2, Zenon DEF LineLimit
<1>9. ~LineTaken(s, full, eof, acc \o s, trimEOL(acc \o s))
  BY <1>4, <1>5, Zenon DEF LineTaken
<1>10. MayStop(b, "EOF") /\ MayStop(b, "wrong framing")
  BY <1>4 DEF MayStop, Failures
<1>11. stop("EOF") \/ stop("wrong framing")
  BY <1>8, <1>9, Zenon DEF LineRead
<1>. QED
  BY <1>10, <1>11, StopStep

(* Lines where headers were written: nothing is returned, or the stream    *)
(* does not start with a length.                                           *)
LEMMA MistakenLine ==
    ASSUME FramingInv, NEW b \in {0, 1}, Mistaken(b), readerFraming = "ndjson",
           NEW s, NEW full, NEW eof, SliceIs(stream, at, s, full, eof), eof => ended,
           LineTaken(s, full, eof, acc \o s, trimEOL(acc \o s))
    PROVE  Mistaken(b)'
<1>1. PICK t, line : t = acc \o s /\ line = trimEOL(acc \o s)
  OBVIOUS
<1>2. /\ stream' = stream /\ ended' = ended
      /\ writerFraming' = writerFraming /\ readerFraming' = readerFraming
      /\ at' = at + Len(s)
      /\ acc' = IF full THEN t ELSE << >>
      /\ frames' = IF full \/ line = << >> THEN frames ELSE Append(frames, line)
      /\ ~(eof /\ t = << >>)
      /\ ~full => ~IsPrefix(ContentLength, line)
  BY <1>1 DEF LineTaken, writerVars
<1>3. PICK p \in Nat, N \in Nat, m \in Nat : p = at /\ N = Len(stream) /\ m = Len(s)
  <2>1. at \in Nat /\ Len(stream) \in Nat /\ Len(s) \in Nat
    <3>1. Len(stream) \in Nat
      BY LenProperties DEF FramingInv, FramingTypeInv
    <3>2. at \in Nat
      BY <3>1 DEF FramingInv, FramingTypeInv
    <3>. QED
      BY <3>1, <3>2 DEF SliceIs
  <2>. QED
    BY <2>1
<1>4. readerFraming # writerFraming /\ "content-length" # "ndjson"
  BY DEF Mistaken
<1>5. CASE NoLengthFirst(b)
  <2>1. NoLengthFirst(b)'
    <3>1. CASE at >= b + 1 /\ stream[b + 1] # ContentLength[1]
      <4>1. at' >= b + 1
        BY <1>2, <1>3, <3>1
      <4>. QED
        BY <1>2, <3>1, <4>1 DEF NoLengthFirst
    <3>2. CASE at >= b + 2 /\ stream[b + 2] # ContentLength[2]
      <4>1. at' >= b + 2
        BY <1>2, <1>3, <3>2
      <4>. QED
        BY <1>2, <3>2, <4>1 DEF NoLengthFirst
    <3>3. CASE ended /\ Len(stream) < b + 2
      BY <1>2, <3>3 DEF NoLengthFirst
    <3>. QED
      BY <1>5, <3>1, <3>2, <3>3 DEF NoLengthFirst
  <2>. QED
    BY <1>2, <1>4, <2>1 DEF Mistaken
<1>6. CASE frames = << >> /\ at = b + Len(acc) /\ Holds(stream, b, acc) /\ ~hasLF(acc)
  <2>1. SliceIs(stream, b, t, full, eof) /\ Len(t) = Len(acc) + Len(s)
    BY <1>1, <1>6, AccSlice DEF FramingInv
  <2>2. PICK q \in Nat : q = Len(t) /\ at' = b + q
    <3>1. Len(acc) \in Nat
      BY LenProperties DEF FramingInv, FramingTypeInv
    <3>. QED
      BY <1>2, <1>3, <1>6, <2>1, <3>1
  <2>3. CASE full
    <3>1. acc' = t /\ frames' = << >> /\ at' = b + Len(acc')
      BY <1>2, <1>6, <2>2, <2>3
    <3>2. Holds(stream, b, t) /\ ~hasLF(t)
      BY <2>1, <2>3 DEF SliceIs, Holds
    <3>. QED
      BY <1>2, <1>4, <3>1, <3>2 DEF Mistaken
  <2>4. CASE ~full
    <3>1. /\ t \in Seq(Token) /\ b + q <= N
          /\ \A k \in 1 .. q : t[k] = stream[b + k]
          /\ eof => b + q = N
          /\ ~eof => q # 0 /\ t[q] = LF
      BY <1>3, <2>1, <2>2, <2>4 DEF SliceIs
    <3>2. q # 0
      <4>1. q = 0 => t = << >>
        BY <2>2, <3>1, EmptySeq
      <4>. QED
        BY <1>2, <3>1, <4>1
    <3>3. t[1] = stream[b + 1] /\ b + q >= b + 1
      <4>1. 1 \in 1 .. q
        BY <3>2
      <4>. QED
        BY <3>1, <4>1
    <3>4. CASE t[1] # ContentLength[1]
      <4>1. NoLengthFirst(b)'
        BY <1>2, <2>2, <3>3, <3>4 DEF NoLengthFirst
      <4>. QED
        BY <1>2, <1>4, <4>1 DEF Mistaken
    <3>5. CASE t[1] = ContentLength[1] /\ q = 1
      <4>1. eof
        BY <3>1, <3>5, TokensDiffer
      <4>2. ended /\ N < b + 2
        BY <3>1, <3>5, <4>1
      <4>3. NoLengthFirst(b)'
        BY <1>2, <1>3, <4>2 DEF NoLengthFirst
      <4>. QED
        BY <1>2, <1>4, <4>3 DEF Mistaken
    <3>6. CASE t[1] = ContentLength[1] /\ q # 1
      <4>1. 2 \in 1 .. q /\ 1 \in 1 .. q /\ b + q >= b + 2
        BY <3>2, <3>6
      <4>2. t[2] = stream[b + 2]
        BY <3>1, <4>1
      <4>3. CASE t[2] # ContentLength[2]
        <5>1. NoLengthFirst(b)'
          BY <1>2, <2>2, <4>1, <4>2, <4>3 DEF NoLengthFirst
        <5>. QED
          BY <1>2, <1>4, <5>1 DEF Mistaken
      <4>4. CASE t[2] = ContentLength[2]
        <5>1. t[2] \notin {CR, LF}
          BY <4>4, TokensDiffer
        <5>2. 2 <= Len(line)
          BY <1>1, <2>2, <3>1, <4>1, <5>1, TrimKeeps
        <5>3. line \in Seq(Token) /\ Len(line) \in Nat /\ \A k \in 1 .. Len(line) : line[k] = t[k]
          BY <1>1, <3>1, TrimEOLIs
        <5>4. 1 \in 1 .. Len(line) /\ 2 \in 1 .. Len(line)
          BY <5>2, <5>3
        <5>5. line[1] = ContentLength[1] /\ line[2] = ContentLength[2]
          BY <3>6, <4>4, <5>3, <5>4
        <5>6. IsPrefix(ContentLength, line)
          BY <5>2, <5>3, <5>5, PrefixIs
        <5>. QED
          BY <1>2, <2>4, <5>6
      <4>. QED
        BY <4>3, <4>4
    <3>. QED
      BY <3>4, <3>5, <3>6
  <2>. QED
    BY <2>3, <2>4
<1>. QED
  BY <1>4, <1>5, <1>6 DEF Mistaken

(* Whatever is read, the wrong framing cannot stop for the wrong reason. *)
LEMMA MistakenStep ==
    ASSUME FramingInv, NEW b \in {0, 1}, Stands(b), Mistaken(b), readerFraming = "ndjson",
           started, failure = "none",
           NEW s, NEW full, NEW eof, SliceIs(stream, at, s, full, eof), eof => ended,
           LineRead(s, full, eof, acc \o s, trimEOL(acc \o s))
    PROVE  FramingInv'
<1>1. readerFraming # writerFraming
  BY DEF Mistaken
<1>2. MayStop(b, "limit") /\ MayStop(b, "EOF") /\ MayStop(b, "wrong framing")
  BY <1>1 DEF MayStop, Failures
<1>3. CASE stop("limit") \/ stop("EOF") \/ stop("wrong framing")
  BY <1>2, <1>3, StopStep
<1>4. CASE LineTaken(s, full, eof, acc \o s, trimEOL(acc \o s))
  <2>1. acc \o s \in Seq(Token)
    BY DEF SliceIs, FramingInv, FramingTypeInv
  <2>2. FramingTypeInv' /\ FramesFit' /\ started' /\ FailureInv(b)'
    BY <1>4, <2>1, LineProgress DEF Stands
  <2>3. Mistaken(b)'
    BY <1>4, MistakenLine
  <2>4. Position(b)' /\ UNCHANGED <<writerFraming, writerVars>>
    BY <1>4, <2>3 DEF Position, LineTaken
  <2>. QED
    BY <2>2, <2>4, Advance DEF FramingInv
<1>. QED
  BY <1>3, <1>4, Zenon DEF LineRead, LineLimit

LEMMA PrefixOf ==
    ASSUME NEW v \in Seq(Token), NEW u \in Seq(Token), Len(v) <= Len(u), \A k \in 1 .. Len(v) : v[k] = u[k]
    PROVE  IsPrefix(v, u)
<1>1. PICK m \in Nat : m = Len(v) /\ m <= Len(u) /\ Len(u) \in Nat
  BY LenProperties
<1>2. ASSUME NEW q \in Seq(Token), m <= Len(q), Len(q) \in Nat
      PROVE  /\ SubSeq(q, 1, m) \in Seq(Token) /\ Len(SubSeq(q, 1, m)) = m
             /\ \A k \in 1 .. m : SubSeq(q, 1, m)[k] = q[k]
  <2>1. PICK r : r = SubSeq(q, 1, m)
    OBVIOUS
  <2>2. \A k \in 1 .. m : q[k] \in Token
    <3>1. \A k \in 1 .. m : k \in 1 .. Len(q)
      BY <1>2
    <3>. QED
      BY <3>1, ElementOfSeq
  <2>3. /\ r \in Seq(Token) /\ Len(r) = IF 1 <= m THEN m - 1 + 1 ELSE 0
        /\ \A k \in 1 .. m - 1 + 1 : r[k] = q[1 + k - 1]
    BY <2>1, <2>2, SubSeqProperties
  <2>4. Len(r) = m
    BY <2>3
  <2>5. \A k \in 1 .. m : r[k] = q[k]
    BY <2>3
  <2>. QED
    BY <2>1, <2>3, <2>4, <2>5
<1>3. PICK c, d : c = SubSeq(v, 1, m) /\ d = SubSeq(u, 1, m)
  OBVIOUS
<1>4. /\ c \in Seq(Token) /\ Len(c) = m /\ \A k \in 1 .. m : c[k] = v[k]
  BY <1>1, <1>2, <1>3
<1>5. /\ d \in Seq(Token) /\ Len(d) = m /\ \A k \in 1 .. m : d[k] = u[k]
  BY <1>1, <1>2, <1>3
<1>6. \A k \in 1 .. m : c[k] = d[k]
  BY <1>1, <1>4, <1>5
<1>7. c = d
  BY <1>4, <1>5, <1>6, SeqEqual
<1>. QED
  BY <1>1, <1>3, <1>7 DEF IsPrefix

(* A part of a message, read as a line. *)
LEMMA LinePart ==
    ASSUME NEW u \in Seq(Token), ~hasLF(u), NEW t \in Seq(Token), Len(t) <= Len(u),
           \A k \in 1 .. Len(t) : t[k] = u[k]
    PROVE  Len(trimEOL(t)) <= Len(trimCR(u)) /\ IsPrefix(trimEOL(t), u)
<1>1. PICK n \in Nat, q \in Nat : n = Len(u) /\ q = Len(t) /\ q <= n
  BY LenProperties
<1>2. PICK line \in Seq(Token) : line = trimEOL(t)
  BY TrimEOLIs
<1>3. Len(line) \in Nat /\ Len(line) <= q /\ \A k \in 1 .. Len(line) : line[k] = t[k]
  BY <1>1, <1>2, TrimEOLIs
<1>4. PICK l \in Nat : l = Len(line) /\ l <= q
  BY <1>3
<1>5. PICK v : v = trimCR(u)
  OBVIOUS
<1>6. Shorter(v, u, CR)
  BY <1>5, TrimCRIs
<1>7. PICK j \in Nat : j = Len(v) /\ n - 1 <= j
  BY <1>1, <1>6 DEF Shorter
<1>8. l <= j
  <2>1. CASE q = n
    <3>1. t = u
      BY <1>1, <2>1, SeqEqual
    <3>2. line = v
      BY <1>2, <1>5, <3>1, TrimEOLIs
    <3>. QED
      BY <1>4, <1>7, <3>2
  <2>2. CASE q # n
    BY <1>1, <1>4, <1>7, <2>2
  <2>. QED
    BY <2>1, <2>2
<1>9. IsPrefix(line, u)
  <2>1. Len(line) <= Len(u)
    BY <1>1, <1>4
  <2>2. \A k \in 1 .. Len(line) : k \in 1 .. Len(t)
    BY <1>1, <1>4
  <2>3. \A k \in 1 .. Len(line) : line[k] = u[k]
    BY <1>3, <2>2
  <2>. QED
    BY <2>1, <2>3, PrefixOf
<1>. QED
  BY <1>2, <1>4, <1>5, <1>7, <1>8, <1>9

(* The line ahead: u, and where it ends. *)
LineOf(b, u, a) ==
    /\ u = sent[reached] /\ u # << >> /\ u[1] = Brace /\ ~hasLF(u)
    /\ a = frameStart(b, reached) /\ marks[reached] = a + Len(u) + 1
    /\ EndsLine(framed(u), u) /\ Holds(stream, a, framed(u))

LEMMA LineIs ==
    ASSUME FramingTypeInv, NEW b \in {0, 1}, Stands(b), reached <= Len(sent), writerFraming = "ndjson"
    PROVE  \E u \in Seq(Token), a \in Nat : LineOf(b, u, a)
<1>1. PICK i \in Nat, c \in Nat : i = reached /\ c = Len(sent) /\ i \in 1 .. c /\ DOMAIN sent = 1 .. c
  <2>1. PICK f \in Nat, c \in Nat : f = Len(frames) /\ c = Len(sent)
    BY LenProperties DEF FramingTypeInv
  <2>2. reached = f + 1 /\ f + 1 <= c
    BY <2>1 DEF reached
  <2>3. f + 1 \in 1 .. c /\ f + 1 \in Nat
    BY <2>2
  <2>4. DOMAIN sent = 1 .. c
    BY <2>1, LenProperties DEF FramingTypeInv
  <2>. QED
    BY <2>1, <2>2, <2>3, <2>4, Zenon
<1>2. PICK u \in Seq(Token), n \in Nat : u = sent[i] /\ n = Len(u) /\ Sendable(u)
  BY <1>1, LayoutIs DEF Stands
<1>3. u # << >> /\ u[1] = Brace /\ ~hasLF(u)
  BY <1>2 DEF Sendable
<1>4. PICK a \in Nat : a = frameStart(b, i)
  <2>1. i \in 1 .. c + 1
    BY <1>1
  <2>. QED
    BY <1>1, <2>1, LayoutIs DEF Stands
<1>5. PICK l \in Noise \cup {<< >>} : FrameAt(b, i, l)
  BY <1>1 DEF Stands, Layout
<1>6. l = << >> /\ Len(<< >>) = 0
  <2>1. "ndjson" # "content-length"
    OBVIOUS
  <2>. QED
    BY <1>5, <2>1 DEF FrameAt
<1>7. marks[i] = a + 0 + Len(framed(u)) /\ Holds(stream, a + 0, framed(u))
  BY <1>2, <1>4, <1>5, <1>6, Zenon DEF FrameAt
<1>8. Len(framed(u)) = n + 1 /\ a + 0 = a /\ a + 0 + (n + 1) = a + n + 1
  <2>1. Len(framed(u)) = n + 1
    BY <1>2, FramedLine
  <2>2. a + 0 = a /\ a + 0 + (n + 1) = a + n + 1
    OBVIOUS
  <2>. QED
    BY <2>1, <2>2
<1>9. EndsLine(framed(u), u)
  BY <1>2, FramedLine DEF EndsLine
<1>10. LineOf(b, u, a)
  <2>1. marks[i] = a + Len(u) + 1 /\ Holds(stream, a, framed(u))
    BY <1>2, <1>7, <1>8, Zenon
  <2>. QED
    BY <1>1, <1>2, <1>3, <1>4, <1>9, <2>1, Zenon DEF LineOf
<1>. QED
  BY <1>10

(* What was read of the line, whole or not. *)
ReadOf(t, full, eof, u) ==
    /\ full \/ eof => Len(t) <= Len(u) /\ ~hasLF(t)
    /\ ~(full \/ eof) => t = framed(u)
    /\ \A k \in 1 .. Len(t) : k <= Len(u) => t[k] = u[k]

LEMMA ReadOfLine ==
    ASSUME NEW b, NEW u \in Seq(Token), NEW a \in Nat, LineOf(b, u, a), Len(stream) \in Nat,
           NEW t, NEW full, NEW eof, SliceIs(stream, a, t, full, eof)
    PROVE  ReadOf(t, full, eof, u)
<1>1. PICK w \in Seq(Token), n \in Nat, q \in Nat : w = framed(u) /\ n = Len(u) /\ q = Len(t)
  BY LenProperties DEF LineOf, EndsLine, SliceIs
<1>2. /\ Len(w) = n + 1 /\ w[n + 1] = LF /\ Holds(stream, a, w)
      /\ \A k \in 1 .. n : w[k] = u[k]
  BY <1>1 DEF LineOf, EndsLine
<1>3. \A k \in 1 .. n : u[k] # LF
  <2>1. ASSUME NEW k \in 1 .. n, u[k] = LF PROVE FALSE
    <3>1. DOMAIN u = 1 .. n
      BY <1>1, LenProperties
    <3>. QED
      BY <2>1, <3>1 DEF LineOf, hasLF, Contains
  <2>. QED
    BY <2>1
<1>4. Len(w) # 0 /\ w[Len(w)] = LF /\ \A k \in 1 .. Len(w) - 1 : w[k] # LF
  BY <1>2, <1>3
<1>5. IF full \/ eof THEN Len(t) < Len(w) ELSE t = w
  BY <1>2, <1>4, LineAhead
<1>6. \A k \in 1 .. q : k <= n => t[k] = u[k]
  <2>1. ASSUME NEW k \in 1 .. q, k <= n PROVE t[k] = u[k]
    <3>1. t[k] = stream[a + k] /\ a + k <= Len(stream)
      BY <1>1 DEF SliceIs
    <3>2. k \in 1 .. Len(w) /\ k \in 1 .. n
      BY <1>2, <2>1
    <3>3. stream[a + k] = w[k]
      BY <1>2, <3>1, <3>2 DEF Holds
    <3>. QED
      BY <1>2, <3>1, <3>2, <3>3
  <2>. QED
    BY <2>1
<1>7. full \/ eof => Len(t) <= Len(u) /\ ~hasLF(t)
  BY <1>1, <1>2, <1>5 DEF SliceIs
<1>. QED
  BY <1>1, <1>5, <1>6, <1>7, Zenon DEF ReadOf

LEMMA LimitOfLine ==
    ASSUME NEW u \in Seq(Token), EndsLine(framed(u), u), ~hasLF(u), u # << >>, u[1] = Brace,
           NEW t \in Seq(Token), NEW full, NEW eof, ReadOf(t, full, eof, u)
    PROVE  /\ Len(t) - 2 > maxSize => Len(trimCR(u)) > maxSize
           /\ ~full /\ Len(trimEOL(t)) > maxSize => Len(trimCR(u)) > maxSize
           /\ ~full /\ eof => IsPrefix(trimEOL(t), u) /\ (t # << >> => trimEOL(t) # << >>)
           /\ ~full /\ ~eof => trimEOL(t) = trimCR(u) /\ trimEOL(t) # << >>
<1>1. PICK n \in Nat, q \in Nat, M \in Nat : n = Len(u) /\ q = Len(t) /\ M = maxSize
  BY LimitsAssumption, LenProperties
<1>2. PICK v : v = trimCR(u)
  OBVIOUS
<1>3. Shorter(v, u, CR)
  BY <1>2, TrimCRIs
<1>4. PICK j \in Nat : j = Len(v) /\ n - 1 <= j
  BY <1>1, <1>3 DEF Shorter
<1>5. q <= n + 1
  <2>1. CASE full \/ eof
    BY <1>1, <2>1 DEF ReadOf
  <2>2. CASE ~(full \/ eof)
    BY <1>1, <2>2 DEF ReadOf, EndsLine
  <2>. QED
    BY <2>1, <2>2
<1>6. q - 2 > M => j > M
  BY <1>4, <1>5
<1>7. PICK line \in Seq(Token), l \in Nat : line = trimEOL(t) /\ l = Len(line)
  BY TrimEOLIs, LenProperties
<1>8. n # 0 /\ 1 \in 1 .. n
  BY <1>1, EmptySeq
<1>9. q # 0 => line # << >>
  <2>1. ASSUME q # 0 PROVE line # << >>
    <3>1. 1 \in 1 .. q /\ 1 <= n
      BY <1>8, <2>1
    <3>2. t[1] = Brace
      BY <1>1, <3>1 DEF ReadOf
    <3>3. t[1] \notin {CR, LF}
      BY <3>2, TokensDiffer
    <3>4. 1 <= l
      BY <1>1, <1>7, <3>1, <3>3, TrimKeeps
    <3>5. Len(<< >>) = 0
      OBVIOUS
    <3>. QED
      BY <1>7, <3>4, <3>5
  <2>. QED
    BY <2>1
<1>10. CASE ~full /\ eof
  <2>1. q <= n /\ \A k \in 1 .. q : t[k] = u[k]
    BY <1>1, <1>10 DEF ReadOf
  <2>2. Len(line) <= Len(v) /\ IsPrefix(line, u)
    BY <1>1, <1>2, <1>7, <2>1, LinePart
  <2>3. l > M => j > M
    BY <1>4, <1>7, <2>2
  <2>4. t # << >> => q # 0
    BY <1>1, EmptySeq
  <2>. QED
    BY <1>1, <1>2, <1>4, <1>6, <1>7, <1>9, <1>10, <2>2, <2>3, <2>4
<1>11. CASE ~full /\ ~eof
  <2>1. t = framed(u)
    BY <1>11 DEF ReadOf
  <2>2. line = v
    BY <1>2, <1>7, <2>1, TrimEOLOfLine
  <2>3. q # 0
    BY <1>1, <2>1 DEF EndsLine
  <2>. QED
    BY <1>1, <1>2, <1>4, <1>6, <1>7, <1>9, <1>11, <2>2, <2>3
<1>12. CASE full
  BY <1>1, <1>2, <1>4, <1>6, <1>12
<1>. QED
  BY <1>10, <1>11, <1>12

LEMMA LineTakenStep ==
    ASSUME FramingInv, NEW b \in {0, 1}, Stands(b), started, failure = "none",
           readerFraming = "ndjson", writerFraming = "ndjson", block = NoBlock, reached <= Len(sent),
           \A k \in DOMAIN frames : frames[k] = trimCR(sent[k]),
           NEW u \in Seq(Token), NEW a \in Nat, LineOf(b, u, a), a + Len(acc) = at,
           NEW s, NEW full, NEW eof, SliceIs(stream, at, s, full, eof), eof => ended,
           NEW t \in Seq(Token), SliceIs(stream, a, t, full, eof), Len(t) = Len(acc) + Len(s),
           LineTaken(s, full, eof, t, trimEOL(t))
    PROVE  InLine(b)'
<1>1. ReadOf(t, full, eof, u)
  <2>1. Len(stream) \in Nat
    BY LenProperties DEF FramingInv, FramingTypeInv
  <2>. QED
    BY <2>1, ReadOfLine
<1>2. PICK line \in Seq(Token) : line = trimEOL(t)
  BY TrimEOLIs
<1>3. /\ sent' = sent /\ marks' = marks /\ stream' = stream /\ ended' = ended
      /\ writerFraming' = writerFraming /\ readerFraming' = readerFraming
      /\ block' = block
      /\ at' = at + Len(s)
      /\ acc' = IF full THEN t ELSE << >>
      /\ frames' = IF full \/ line = << >> THEN frames ELSE Append(frames, line)
      /\ ~(eof /\ t = << >>)
  BY <1>2 DEF LineTaken, writerVars
<1>4. PICK n \in Nat, q \in Nat, M \in Nat : n = Len(u) /\ q = Len(t) /\ M = a + n + 1
  <2>1. PICK n \in Nat, q \in Nat : n = Len(u) /\ q = Len(t)
    BY LenProperties
  <2>2. a + n + 1 \in Nat
    OBVIOUS
  <2>. QED
    BY <2>1, <2>2
<1>5. marks[reached] = M /\ a = frameStart(b, reached) /\ u = sent[reached]
  BY <1>4, Zenon DEF LineOf
<1>6. at' = a + q
  <2>1. Len(acc) \in Nat /\ Len(s) \in Nat
    BY LenProperties DEF FramingInv, FramingTypeInv, SliceIs
  <2>2. PICK x \in Nat, y \in Nat : x = Len(acc) /\ y = Len(s)
    BY <2>1
  <2>3. q = x + y /\ at' = (a + x) + y
    BY <1>3, <1>4, <2>2
  <2>. QED
    BY <2>3
<1>7. PICK i \in Nat, c \in Nat : i = reached /\ c = Len(sent) /\ i \in 1 .. c
  <2>1. PICK f \in Nat, c \in Nat : f = Len(frames) /\ c = Len(sent)
    BY LenProperties DEF FramingInv, FramingTypeInv
  <2>2. reached = f + 1 /\ f + 1 <= c
    BY <2>1 DEF reached
  <2>3. f + 1 \in 1 .. c /\ f + 1 \in Nat
    BY <2>2
  <2>. QED
    BY <2>1, <2>2, <2>3, Zenon
<1>8. (block = NoBlock)'
  BY <1>3 DEF NoBlock
<1>9. CASE full
  <2>1. frames' = frames /\ acc' = t
    BY <1>3, <1>9
  <2>2. reached' = reached /\ frameStart(b, reached)' = a
    BY <1>3, <1>5, <2>1 DEF reached, frameStart
  <2>3. Holds(stream, a, t) /\ ~hasLF(t)
    BY <1>9 DEF SliceIs, Holds
  <2>4. (Len(frames) <= Len(sent))'
    <3>1. Len(frames) \in Nat /\ Len(sent) \in Nat
      BY LenProperties DEF FramingInv, FramingTypeInv
    <3>2. Len(frames) <= Len(sent)
      BY <3>1 DEF reached
    <3>. QED
      BY <1>3, <2>1, <3>2
  <2>5. (/\ \A k \in DOMAIN frames : frames[k] = trimCR(sent[k])
         /\ at = frameStart(b, reached) + Len(acc)
         /\ Holds(stream, frameStart(b, reached), acc) /\ ~hasLF(acc))'
    BY <1>3, <1>4, <1>6, <2>1, <2>2, <2>3
  <2>. QED
    BY <1>3, <1>8, <2>4, <2>5 DEF InLine
<1>10. CASE ~full
  <2>1. /\ eof => IsPrefix(line, u)
        /\ ~eof => line = trimCR(u)
        /\ line # << >>
    <3>1. EndsLine(framed(u), u) /\ ~hasLF(u) /\ u # << >> /\ u[1] = Brace
      BY DEF LineOf
    <3>2. /\ eof => IsPrefix(line, u) /\ (t # << >> => line # << >>)
          /\ ~eof => line = trimCR(u) /\ line # << >>
      BY <1>1, <1>2, <1>10, <3>1, LimitOfLine
    <3>. QED
      BY <1>3, <3>2
  <2>2. frames' = Append(frames, line) /\ acc' = << >>
    BY <1>3, <1>10, <2>1
  <2>3. /\ Len(frames') = i /\ reached' = i + 1 /\ DOMAIN frames' = 1 .. i
        /\ frames'[i] = line /\ \A k \in 1 .. i - 1 : k \in DOMAIN frames /\ frames'[k] = frames[k]
    BY <1>7, <2>2, FramesGrow DEF FramingInv
  <2>4. \A k \in 1 .. i - 1 : frames'[k] = trimCR(sent[k])
    BY <2>3
  <2>5. (Len(frames) <= Len(sent))'
    BY <1>3, <1>7, <2>3
  <2>6. CASE eof
    <3>1. /\ a + q = Len(stream) /\ ended /\ q # 0
      <4>1. q # 0
        BY <1>3, <1>4, <2>6, EmptySeq
      <4>. QED
        BY <1>4, <2>6, <4>1 DEF SliceIs
    <3>2. q <= n
      BY <1>1, <1>4, <2>6 DEF ReadOf
    <3>3. a < a + q /\ a + q < M
      BY <1>4, <3>1, <3>2
    <3>4. IsPrefix(line, sent[i])
      BY <1>5, <1>7, <2>1, <2>6
    <3>5. frameStart(b, i)' = a /\ marks'[i] = M
      BY <1>3, <1>5, <1>7 DEF frameStart
    <3>6. frames' # << >>
      <4>1. Len(<< >>) = 0 /\ i # 0
        BY <1>7
      <4>. QED
        BY <2>3, <4>1
    <3>7. (/\ ended /\ at = Len(stream) /\ acc = << >> /\ frames # << >>
           /\ \A k \in 1 .. Len(frames) - 1 : frames[k] = trimCR(sent[k])
           /\ IsPrefix(frames[Len(frames)], sent[Len(frames)]))'
      BY <1>3, <1>6, <2>2, <2>3, <2>4, <3>1, <3>4, <3>6
    <3>8. (frameStart(b, Len(frames)) < Len(stream) /\ Len(stream) < marks[Len(frames)])'
      <4>1. frameStart(b, Len(frames))' = frameStart(b, i)'
        BY <2>3 DEF frameStart
      <4>. QED
        BY <1>3, <2>3, <3>1, <3>3, <3>5, <4>1
    <3>. QED
      BY <1>3, <1>8, <2>5, <3>7, <3>8 DEF InLine
  <2>7. CASE ~eof
    <3>1. t = framed(u) /\ q = n + 1
      BY <1>1, <1>4, <1>10, <2>7 DEF ReadOf, LineOf, EndsLine
    <3>2. at' = M
      BY <1>4, <1>6, <3>1
    <3>3. frameStart(b, reached)' = M
      <4>1. i + 1 # 1 /\ i + 1 - 1 = i
        BY <1>7
      <4>2. frameStart(b, reached)' = marks'[i]
        BY <2>3, <4>1 DEF frameStart
      <4>. QED
        BY <1>3, <1>5, <1>7, <4>2
    <3>4. \A k \in 1 .. i : frames'[k] = trimCR(sent[k])
      <4>1. frames'[i] = trimCR(sent[i])
        BY <1>5, <1>7, <2>1, <2>3, <2>7
      <4>2. \A k \in 1 .. i : k = i \/ k \in 1 .. i - 1
        BY <1>7
      <4>. QED
        BY <2>4, <4>1, <4>2
    <3>5. (Holds(stream, frameStart(b, reached), acc) /\ ~hasLF(acc))' /\ at' = frameStart(b, reached)' + Len(acc')
      <4>1. 1 .. Len(<< >>) = {} /\ DOMAIN << >> = {} /\ Len(<< >>) = 0 /\ M + 0 = M
        BY <1>4
      <4>. QED
        BY <2>2, <3>2, <3>3, <4>1 DEF Holds, hasLF, Contains
    <3>6. (/\ \A k \in DOMAIN frames : frames[k] = trimCR(sent[k])
           /\ at = frameStart(b, reached) + Len(acc)
           /\ Holds(stream, frameStart(b, reached), acc) /\ ~hasLF(acc))'
      BY <1>3, <2>3, <3>4, <3>5
    <3>. QED
      BY <1>3, <1>8, <2>5, <3>6 DEF InLine
  <2>. QED
    BY <2>6, <2>7
<1>. QED
  BY <1>9, <1>10

LEMMA InLineStep ==
    ASSUME FramingInv, NEW b \in {0, 1}, Stands(b), started, failure = "none",
           readerFraming = "ndjson", writerFraming = "ndjson", block = NoBlock, reached <= Len(sent),
           \A k \in DOMAIN frames : frames[k] = trimCR(sent[k]),
           at = frameStart(b, reached) + Len(acc), Holds(stream, frameStart(b, reached), acc), ~hasLF(acc),
           NEW s, NEW full, NEW eof, SliceIs(stream, at, s, full, eof), eof => ended,
           LineRead(s, full, eof, acc \o s, trimEOL(acc \o s))
    PROVE  FramingInv'
<1>1. PICK u \in Seq(Token), a \in Nat : LineOf(b, u, a)
  BY LineIs DEF FramingInv
<1>2. a = frameStart(b, reached) /\ u = sent[reached]
  BY <1>1 DEF LineOf
<1>3. a + Len(acc) = at /\ Holds(stream, a, acc)
  BY <1>2
<1>4. PICK t : t = acc \o s
  OBVIOUS
<1>5. SliceIs(stream, a, t, full, eof) /\ Len(t) = Len(acc) + Len(s)
  BY <1>3, <1>4, AccSlice DEF FramingInv
<1>6. t \in Seq(Token)
  BY <1>5 DEF SliceIs
<1>7. ReadOf(t, full, eof, u)
  <2>1. Len(stream) \in Nat
    BY LenProperties DEF FramingInv, FramingTypeInv
  <2>. QED
    BY <1>1, <1>5, <2>1, ReadOfLine
<1>8. CASE LineLimit(s, full, trimEOL(t))
  <2>1. EndsLine(framed(u), u) /\ ~hasLF(u) /\ u # << >> /\ u[1] = Brace
    BY <1>1 DEF LineOf
  <2>2. /\ Len(t) - 2 > maxSize => Len(trimCR(u)) > maxSize
        /\ ~full /\ Len(trimEOL(t)) > maxSize => Len(trimCR(u)) > maxSize
    BY <1>6, <1>7, <2>1, LimitOfLine
  <2>3. Len(trimCR(u)) > maxSize
    BY <1>5, <1>8, <2>2 DEF LineLimit
  <2>4. MayStop(b, "limit")
    BY <1>2, <2>3 DEF MayStop, Failures, asRead
  <2>. QED
    BY <1>8, <2>4, StopStep DEF LineLimit
<1>9. CASE stop("EOF") /\ eof /\ t = << >>
  <2>1. Len(acc) = 0 /\ at = Len(stream)
    <3>1. Len(acc) \in Nat /\ Len(s) \in Nat /\ Len(t) = 0
      BY <1>5, <1>9, LenProperties DEF FramingInv, FramingTypeInv, SliceIs
    <3>2. Len(acc) = 0
      <4>1. PICK x \in Nat, y \in Nat : x = Len(acc) /\ y = Len(s)
        BY <3>1
      <4>2. 0 = x + y
        BY <1>5, <3>1, <4>1, Zenon
      <4>3. x = 0
        BY <4>2
      <4>. QED
        BY <4>1, <4>3
    <3>3. a + Len(t) = Len(stream)
      BY <1>5, <1>9 DEF SliceIs
    <3>. QED
      BY <1>3, <3>1, <3>2, <3>3
  <2>2. acc = << >>
    BY <2>1, EmptySeq DEF FramingInv, FramingTypeInv
  <2>3. MayStop(b, "EOF")
    BY <1>9, <2>1, <2>2 DEF MayStop, Failures
  <2>. QED
    BY <1>9, <2>3, StopStep
<1>10. CASE stop("wrong framing")
  <2>1. MayStop(b, "wrong framing")
    BY DEF MayStop, Failures
  <2>. QED
    BY <1>10, <2>1, StopStep
<1>11. CASE LineTaken(s, full, eof, t, trimEOL(t))
  <2>1. FramingTypeInv' /\ FramesFit' /\ started' /\ FailureInv(b)'
    BY <1>6, <1>11, LineProgress DEF Stands
  <2>2. InLine(b)'
    BY <1>1, <1>3, <1>5, <1>6, <1>11, LineTakenStep
  <2>3. Position(b)' /\ UNCHANGED <<writerFraming, writerVars>>
    BY <1>11, <2>2 DEF Position, LineTaken
  <2>. QED
    BY <2>1, <2>3, Advance DEF FramingInv
<1>. QED
  BY <1>4, <1>8, <1>9, <1>10, <1>11, Zenon DEF LineRead

LEMMA ReadLineStep ==
    ASSUME FramingInv, ReadLine
    PROVE  FramingInv'
<1>1. PICK b \in {0, 1} : Stands(b)
  BY DEF FramingInv
<1>2. PICK s, full, eof : s = slice /\ full = sliceFull /\ eof = sliceEOF
  OBVIOUS
<1>3. SliceIs(stream, at, s, full, eof) /\ (eof => ended)
  BY <1>2, ReadSlice DEF ReadLine, FramingInv, FramingTypeInv
<1>4. LineRead(s, full, eof, acc \o s, trimEOL(acc \o s))
  BY <1>2, LineJudged
<1>5. started /\ failure = "none" /\ readerFraming = "ndjson"
  BY DEF ReadLine, reading
<1>6. CASE NothingLeft
  <2>1. at = Len(stream) /\ acc = << >> /\ block = NoBlock
    BY <1>6 DEF NothingLeft
  <2>. QED
    BY <1>1, <1>3, <1>4, <1>5, <2>1, NoLineAhead
<1>7. CASE InBlock(b)
  <2>1. "content-length" # "ndjson"
    OBVIOUS
  <2>. QED
    BY <1>5, <1>7, <2>1 DEF InBlock
<1>8. CASE InLine(b)
  <2>1. writerFraming = "ndjson" /\ block = NoBlock
    BY <1>8 DEF InLine
  <2>2. CASE ended /\ at = Len(stream) /\ acc = << >>
    BY <1>1, <1>3, <1>4, <1>5, <2>1, <2>2, NoLineAhead
  <2>3. CASE /\ \A k \in DOMAIN frames : frames[k] = trimCR(sent[k])
             /\ at = frameStart(b, reached) + Len(acc)
             /\ Holds(stream, frameStart(b, reached), acc) /\ ~hasLF(acc)
    <3>1. PICK f \in Nat, c \in Nat, N \in Nat : f = Len(frames) /\ c = Len(sent) /\ N = Len(stream)
      BY LenProperties DEF FramingInv, FramingTypeInv
    <3>2. f <= c /\ reached = f + 1
      BY <1>8, <3>1 DEF InLine, reached
    <3>3. CASE f = c
      <4>1. PICK a \in Nat : a = frameStart(b, c + 1)
        <5>1. c + 1 \in 1 .. c + 1
          BY <3>1
        <5>. QED
          BY <1>1, <3>1, <5>1, LayoutIs DEF FramingInv, Stands
      <4>2. N <= a
        BY <1>1, <3>1, <4>1 DEF Stands, Layout
      <4>3. PICK j \in Nat : j = Len(acc)
        BY LenProperties DEF FramingInv, FramingTypeInv
      <4>4. at = a + j
        BY <2>3, <3>2, <3>3, <4>1, <4>3, Zenon
      <4>5. at <= N
        BY <3>1 DEF FramingInv, FramingTypeInv
      <4>6. j = 0 /\ at = N
        BY <3>1, <4>2, <4>3, <4>4, <4>5
      <4>7. acc = << >>
        BY <4>3, <4>6, EmptySeq DEF FramingInv, FramingTypeInv
      <4>. QED
        BY <1>1, <1>3, <1>4, <1>5, <2>1, <3>1, <4>6, <4>7, NoLineAhead
    <3>4. CASE f # c
      <4>1. reached <= Len(sent)
        BY <3>1, <3>2, <3>4
      <4>. QED
        BY <1>1, <1>3, <1>4, <1>5, <2>1, <2>3, <4>1, InLineStep
    <3>. QED
      BY <3>3, <3>4
  <2>. QED
    BY <1>8, <2>2, <2>3 DEF InLine
<1>9. CASE Mistaken(b)
  BY <1>1, <1>3, <1>4, <1>5, <1>9, MistakenStep
<1>. QED
  BY <1>1, <1>5, <1>6, <1>7, <1>8, <1>9 DEF Stands, Position

LEMMA StutterStep ==
    ASSUME FramingInv, UNCHANGED framingVars
    PROVE  FramingInv'
<1>1. PICK b \in {0, 1} : Stands(b)
  BY DEF FramingInv
<1>2. /\ sent' = sent /\ marks' = marks /\ stream' = stream /\ ended' = ended
      /\ writerFraming' = writerFraming /\ readerFraming' = readerFraming
      /\ at' = at /\ started' = started /\ block' = block /\ acc' = acc /\ frames' = frames
      /\ failure' = failure
  BY DEF framingVars, writerVars, readerVars
<1>3. CASE started
  <2>1. PICK e : e = failure
    OBVIOUS
  <2>2. MayStop(b, e)
    BY <1>1, <2>1 DEF MayStop, FailureInv, Stands, FramingInv, FramingTypeInv
  <2>3. stop(e)
    BY <1>2, <2>1 DEF stop, writerVars
  <2>. QED
    BY <1>1, <1>3, <2>2, <2>3, StopStep
<1>4. CASE ~started
  <2>1. Layout(b)'
    BY <1>1, <1>2, LayoutUnchanged DEF Stands, writerVars
  <2>2. Position(b)' /\ FailureInv(b)' /\ FreshReader'
    BY <1>2, <1>4 DEF Position, FailureInv, FreshReader, FramingInv, NoBlock
  <2>3. FramingTypeInv' /\ FramesFit'
    BY <1>2 DEF FramingInv, FramingTypeInv, FramesFit
  <2>. QED
    BY <2>1, <2>2, <2>3 DEF FramingInv, Stands
<1>. QED
  BY <1>3, <1>4

(* Wherever the stream is cut and however the buffer falls, the reader     *)
(* stands between two frames, in the header of one, or in a line           *)
(* (framing.go:153 and 253).                                               *)
THEOREM FramingInvariant == FramingSpec => []FramingInv
<1>1. FramingInit => FramingInv
  BY InitHolds
<1>2. FramingInv /\ [FramingNext]_framingVars => FramingInv'
  <2>. SUFFICES ASSUME FramingInv, [FramingNext]_framingVars
                PROVE  FramingInv'
    OBVIOUS
  <2>1. ASSUME NEW m \in Messages, WriteFrame(m) PROVE FramingInv'
    BY <2>1, WriteFrameStep
  <2>2. ASSUME NEW m \in Messages, NEW line \in Noise, WriteForeign(m, line) PROVE FramingInv'
    BY <2>2, WriteForeignStep
  <2>3. CASE StreamEnds
    BY <2>3, StreamEndsStep
  <2>4. CASE Begin
    BY <2>4, BeginStep
  <2>5. CASE ReadLine
    BY <2>5, ReadLineStep
  <2>6. CASE Sniff
    BY <2>6, SniffStep
  <2>7. CASE ReadHeaderLine
    BY <2>7, ReadHeaderLineStep
  <2>8. CASE ReadBody
    BY <2>8, ReadBodyStep
  <2>9. CASE UNCHANGED framingVars
    BY <2>9, StutterStep
  <2>. QED
    BY <2>1, <2>2, <2>3, <2>4, <2>5, <2>6, <2>7, <2>8, <2>9 DEF FramingNext
<1>. QED
  BY <1>1, <1>2, PTL DEF FramingSpec

(***************************************************************************)
(* What arrived.                                                           *)
(***************************************************************************)
LEMMA MarksOrder ==
    ASSUME FramingTypeInv, NEW b \in {0, 1}, Stands(b), NEW i \in 1 .. Len(sent) + 1, NEW j \in 1 .. Len(sent)
    PROVE  /\ j < i => marks[j] <= frameStart(b, i)
           /\ i <= j => i \in 1 .. Len(sent) /\ marks[i] <= marks[j]
           /\ i # 1 => b < frameStart(b, i) /\ i - 1 \in DOMAIN marks /\ frameStart(b, i) = marks[i - 1]
<1>1. PICK c \in Nat : c = Len(sent) /\ DOMAIN marks = 1 .. c
  BY LayoutIs DEF Stands
<1>2. i \in 1 .. c + 1 /\ j \in 1 .. c
  BY <1>1
<1>3. ASSUME NEW k \in 1 .. c
      PROVE  marks[k] \in Nat /\ b < marks[k] /\ \A h \in 1 .. k - 1 : marks[h] < marks[k]
  BY <1>1, <1>3, LayoutIs DEF Stands
<1>4. ASSUME NEW h \in 1 .. c, NEW k \in 1 .. c, h <= k PROVE marks[h] <= marks[k]
  <2>1. CASE h = k
    BY <1>3, <2>1
  <2>2. CASE h # k
    <3>1. h \in 1 .. k - 1
      BY <1>4, <2>2
    <3>2. marks[h] < marks[k] /\ marks[h] \in Nat /\ marks[k] \in Nat
      BY <1>3, <3>1
    <3>. QED
      BY <3>2
  <2>. QED
    BY <2>1, <2>2
<1>5. i # 1 => i - 1 \in 1 .. c /\ frameStart(b, i) = marks[i - 1]
  BY <1>2 DEF frameStart
<1>6. j < i => marks[j] <= frameStart(b, i)
  <2>1. j < i => i # 1 /\ j <= i - 1
    BY <1>2
  <2>. QED
    BY <1>4, <1>5, <2>1
<1>7. i <= j => i \in 1 .. c /\ marks[i] <= marks[j]
  <2>1. ASSUME i <= j PROVE i \in 1 .. c /\ marks[i] <= marks[j]
    <3>1. i \in 1 .. c
      BY <1>2, <2>1
    <3>2. PICK h \in 1 .. c, k \in 1 .. c : h = i /\ k = j /\ h <= k
      BY <1>2, <2>1, <3>1
    <3>3. marks[h] <= marks[k]
      BY <1>4, <3>2
    <3>. QED
      BY <3>1, <3>2, <3>3
  <2>. QED
    BY <2>1
<1>. QED
  BY <1>1, <1>3, <1>5, <1>6, <1>7

LEMMA ArrivedIs ==
    ASSUME FramingTypeInv, NEW b \in {0, 1}, Stands(b), NEW i \in 1 .. Len(sent) + 1,
           frameStart(b, i) <= Len(stream), i <= Len(sent) => Len(stream) < marks[i]
    PROVE  arrived = 1 .. i - 1 /\ Cardinality(arrived) = i - 1
<1>1. PICK c \in Nat, N \in Nat : c = Len(sent) /\ N = Len(stream) /\ DOMAIN marks = 1 .. c
  BY LayoutIs, LenProperties DEF Stands, FramingTypeInv
<1>2. i \in 1 .. c + 1
  BY <1>1
<1>3. PICK a \in Nat : a = frameStart(b, i) /\ a <= N
  BY <1>1, <1>2, LayoutIs DEF Stands
<1>4. ASSUME NEW j \in 1 .. c PROVE marks[j] <= N <=> j \in 1 .. i - 1
  <2>1. marks[j] \in Nat
    BY <1>1, LayoutIs DEF Stands
  <2>2. CASE j < i
    <3>1. marks[j] <= a
      BY <1>1, <1>2, <1>3, <2>2, MarksOrder
    <3>2. j \in 1 .. i - 1
      BY <1>2, <2>2
    <3>. QED
      BY <1>3, <2>1, <3>1, <3>2
  <2>3. CASE ~(j < i)
    <3>1. i <= j
      BY <1>2, <2>3
    <3>2. i \in 1 .. c /\ marks[i] <= marks[j]
      BY <1>1, <1>2, <3>1, MarksOrder
    <3>3. N < marks[i] /\ marks[i] \in Nat
      BY <1>1, <3>2, LayoutIs DEF Stands
    <3>4. ~(marks[j] <= N)
      BY <2>1, <3>2, <3>3
    <3>5. j \notin 1 .. i - 1
      BY <1>2, <2>3
    <3>. QED
      BY <3>4, <3>5
  <2>. QED
    BY <2>2, <2>3
<1>5. \A j \in 1 .. i - 1 : j \in 1 .. c
  BY <1>2
<1>6. arrived = 1 .. i - 1
  BY <1>1, <1>4, <1>5 DEF arrived
<1>7. Cardinality(1 .. i - 1) = i - 1
  <2>1. PICK n \in Nat : n = i - 1
    BY <1>2
  <2>2. 1 \in Int /\ n \in Int
    OBVIOUS
  <2>3. Cardinality(1 .. n) = IF 1 > n THEN 0 ELSE n - 1 + 1
    BY <2>2, FS_Interval
  <2>4. Cardinality(1 .. n) = n
    BY <2>3
  <2>. QED
    BY <2>1, <2>4
<1>. QED
  BY <1>6, <1>7

(***************************************************************************)
(* The properties.                                                         *)
(***************************************************************************)
LEMMA ReachedIs ==
    ASSUME FramingTypeInv
    PROVE  /\ Len(frames) \in Nat /\ DOMAIN frames = 1 .. Len(frames) /\ reached \in Nat
           /\ reached - 1 = Len(frames) /\ reached = Len(frames) + 1
           /\ Len(sent) \in Nat /\ Len(stream) \in Nat
           /\ Len(frames) <= Len(sent) => reached \in 1 .. Len(sent) + 1
<1>1. PICK f \in Nat, c \in Nat, N \in Nat : /\ f = Len(frames) /\ DOMAIN frames = 1 .. f
                                             /\ c = Len(sent) /\ N = Len(stream)
  BY LenProperties DEF FramingTypeInv
<1>2. reached = f + 1 /\ f + 1 - 1 = f /\ f + 1 \in Nat
  BY <1>1 DEF reached
<1>3. f <= c => f + 1 \in 1 .. c + 1
  BY <1>1
<1>4. reached - 1 = Len(frames) /\ reached = Len(frames) + 1 /\ reached \in Nat
  BY <1>1, <1>2
<1>5. Len(frames) <= Len(sent) => reached \in 1 .. Len(sent) + 1
  BY <1>1, <1>2, <1>3
<1>. QED
  BY <1>1, <1>4, <1>5, Zenon

(* Between two frames, where a block starts. *)
LEMMA InBlockIs ==
    ASSUME FramingTypeInv, NEW b \in {0, 1}, Stands(b), InBlock(b)
    PROVE  /\ frameStart(b, reached) \in Nat /\ frameStart(b, reached) <= at
           /\ block = NoBlock => at = frameStart(b, reached)
<1>1. reached \in 1 .. Len(sent) + 1
  BY ReachedIs DEF InBlock
<1>2. PICK a \in Nat : a = frameStart(b, reached)
  BY <1>1, LayoutIs DEF Stands
<1>3. CASE at = a
  BY <1>2, <1>3
<1>4. CASE reached <= Len(sent) /\ at # a
  <2>1. reached \in 1 .. Len(sent) /\ DOMAIN sent = 1 .. Len(sent)
    <3>1. Len(sent) \in Nat /\ reached \in Nat
      BY ReachedIs
    <3>. QED
      BY <1>1, <1>4, <3>1, LenProperties DEF FramingTypeInv
  <2>2. PICK l \in Noise \cup {<< >>} : FrameAt(b, reached, l)
    BY <2>1 DEF Stands, Layout
  <2>3. PICK n \in 1 .. 9, m \in Nat, x \in Nat : Ahead(b, l, n, x, m)
    BY <1>4, <2>2, FrameAhead DEF InBlock
  <2>4. PICK M \in Nat : M = a + m + n + 7 /\ a < M - n - 2 /\ a < M - n
    <3>1. PICK M \in Nat : M = a + m + n + 7
      OBVIOUS
    <3>2. M - n - 2 = a + m + 5 /\ M - n = a + m + 7
      BY <3>1
    <3>3. a < a + m + 5 /\ a < a + m + 7
      OBVIOUS
    <3>. QED
      BY <3>1, <3>2, <3>3
  <2>5. n = Len(sent[reached]) /\ marks[reached] = M
    BY <1>2, <2>3, <2>4, Zenon DEF Ahead
  <2>6. block # NoBlock /\ a <= at
    <3>1. CASE block.headerBytes > 0 /\ \E line \in Noise : FrameAt(b, reached, line) /\ at = frameStart(b, reached) + Len(line)
      <4>1. PICK line \in Noise : at = a + Len(line)
        BY <1>2, <3>1
      <4>2. Len(line) \in Nat
        BY NoiseAssumption, LenProperties
      <4>3. ~(NoBlock.headerBytes > 0)
        BY DEF NoBlock
      <4>4. a <= at
        BY <4>1, <4>2
      <4>. QED
        BY <3>1, <4>3, <4>4
    <3>2. CASE block.contentLen = n /\ at = M - n - 2
      <4>1. NoBlock.contentLen = -1
        BY DEF NoBlock
      <4>. QED
        BY <2>4, <3>2, <4>1
    <3>3. CASE block.contentLen = n /\ at = M - n
      <4>1. NoBlock.contentLen = -1
        BY DEF NoBlock
      <4>. QED
        BY <2>4, <3>3, <4>1
    <3>. QED
      BY <1>2, <1>4, <2>5, <3>1, <3>2, <3>3, Zenon DEF InBlock
  <2>. QED
    BY <1>2, <2>6
<1>. QED
  BY <1>2, <1>3, <1>4 DEF InBlock

(* The frames are behind the reader, but for the part of a cut line. *)
LEMMA FrameArrived ==
    ASSUME FramingTypeInv, NEW b \in {0, 1}, Stands(b), NEW i \in Nat, i <= Len(sent),
           frameStart(b, i + 1) <= Len(stream), NEW k \in 1 .. i
    PROVE  k \in arrived
<1>1. PICK c \in Nat, N \in Nat : c = Len(sent) /\ N = Len(stream) /\ DOMAIN marks = 1 .. c
  BY LayoutIs, LenProperties DEF Stands, FramingTypeInv
<1>2. i + 1 \in 1 .. c + 1 /\ k \in 1 .. c /\ k < i + 1
  BY <1>1
<1>3. marks[k] <= frameStart(b, i + 1)
  BY <1>1, <1>2, MarksOrder
<1>4. marks[k] \in Nat /\ frameStart(b, i + 1) \in Nat
  BY <1>1, <1>2, LayoutIs DEF Stands
<1>5. marks[k] <= N
  BY <1>1, <1>3, <1>4
<1>. QED
  BY <1>1, <1>2, <1>5 DEF arrived

(* The matching case of FramesAreMessages. *)
LEMMA FramesMatch ==
    ASSUME FramingInv, writerFraming = readerFraming, NEW i \in DOMAIN frames
    PROVE  \/ i \in arrived /\ frames[i] = asRead(sent[i])
           \/ /\ readerFraming = "ndjson" /\ ended
              /\ i = Cardinality(arrived) + 1 /\ IsPrefix(frames[i], sent[i])
<1>1. PICK b \in {0, 1} : Stands(b)
  BY DEF FramingInv
<1>2. PICK f \in Nat, c \in Nat, N \in Nat, p \in Nat :
         /\ f = Len(frames) /\ c = Len(sent) /\ N = Len(stream) /\ p = at
         /\ DOMAIN frames = 1 .. f /\ reached = f + 1 /\ p <= N
  <2>1. at \in Nat /\ at <= Len(stream)
    BY ReachedIs DEF FramingInv, FramingTypeInv
  <2>. QED
    BY <2>1, ReachedIs DEF FramingInv
<1>3. i \in 1 .. f /\ f # 0
  BY <1>2
<1>4. frames # << >>
  <2>1. Len(<< >>) = 0
    OBVIOUS
  <2>. QED
    BY <1>2, <1>3, <2>1, Zenon
<1>5. started
  BY <1>4 DEF FramingInv, FreshReader
<1>6. InBlock(b) \/ InLine(b)
  BY <1>1, <1>4, <1>5 DEF Stands, Position, NothingLeft, Mistaken
<1>7. ASSUME f <= c, frameStart(b, f + 1) <= N PROVE i \in arrived
  BY <1>1, <1>2, <1>3, <1>7, FrameArrived DEF FramingInv
<1>8. CASE InBlock(b)
  <2>1. PICK a \in Nat : a = frameStart(b, f + 1) /\ a <= p
    BY <1>1, <1>2, <1>8, InBlockIs DEF FramingInv
  <2>2. f <= c /\ frames[i] = sent[i] /\ readerFraming = "content-length"
    BY <1>2, <1>8 DEF InBlock
  <2>3. i \in arrived
    BY <1>2, <1>7, <2>1, <2>2
  <2>4. asRead(sent[i]) = sent[i]
    BY <2>2 DEF asRead
  <2>. QED
    BY <2>2, <2>3, <2>4
<1>9. CASE InLine(b)
  <2>1. f <= c /\ readerFraming = "ndjson"
    BY <1>2, <1>9 DEF InLine
  <2>2. \A k : asRead(sent[k]) = trimCR(sent[k])
    BY <2>1 DEF asRead
  <2>3. CASE /\ \A k \in DOMAIN frames : frames[k] = trimCR(sent[k])
             /\ at = frameStart(b, reached) + Len(acc)
    <3>1. PICK a \in Nat, j \in Nat : a = frameStart(b, f + 1) /\ j = Len(acc)
      <4>1. f + 1 \in 1 .. c + 1
        BY <1>2, <2>1
      <4>2. frameStart(b, f + 1) \in Nat
        BY <1>1, <1>2, <4>1, LayoutIs DEF FramingInv, Stands
      <4>3. Len(acc) \in Nat
        BY LenProperties DEF FramingInv, FramingTypeInv
      <4>. QED
        BY <4>2, <4>3
    <3>2. p = a + j
      BY <1>2, <2>3, <3>1, Zenon
    <3>3. a <= N
      BY <1>2, <3>2
    <3>4. i \in arrived
      BY <1>7, <2>1, <3>1, <3>3
    <3>. QED
      BY <2>2, <2>3, <3>4
  <2>4. CASE /\ ended /\ \A k \in 1 .. Len(frames) - 1 : frames[k] = trimCR(sent[k])
             /\ IsPrefix(frames[Len(frames)], sent[Len(frames)])
             /\ frameStart(b, Len(frames)) < Len(stream) /\ Len(stream) < marks[Len(frames)]
    <3>1. f \in 1 .. c + 1
      BY <1>2, <1>3, <2>1
    <3>2. PICK a \in Nat : a = frameStart(b, f) /\ a < N
      BY <1>1, <1>2, <2>4, <3>1, LayoutIs DEF FramingInv, Stands
    <3>3. Cardinality(arrived) = f - 1 /\ arrived = 1 .. f - 1
      <4>1. frameStart(b, f) <= Len(stream) /\ (f <= Len(sent) => Len(stream) < marks[f])
        BY <1>2, <2>4, <3>2
      <4>. QED
        BY <1>1, <1>2, <3>1, <4>1, ArrivedIs DEF FramingInv
    <3>4. CASE i = f
      <4>1. f - 1 + 1 = f
        BY <1>2
      <4>. QED
        BY <1>2, <2>1, <2>4, <3>3, <3>4, <4>1
    <3>5. CASE i # f
      <4>1. i \in 1 .. f - 1
        BY <1>2, <1>3, <3>5
      <4>. QED
        BY <1>2, <2>2, <2>4, <3>3, <4>1
    <3>. QED
      BY <3>4, <3>5
  <2>. QED
    BY <1>9, <2>3, <2>4 DEF InLine
<1>. QED
  BY <1>6, <1>8, <1>9

LEMMA AfterBOMIs ==
    ASSUME FramingTypeInv, NEW b \in {0, 1}, Stands(b), NoLengthFirst(b)
    PROVE  ~IsPrefix(ContentLength, afterBOM)
<1>1. PICK N \in Nat, p \in Nat : N = Len(stream) /\ p = at /\ p <= N
  <2>1. at \in Nat /\ at <= Len(stream) /\ Len(stream) \in Nat
    BY ReachedIs DEF FramingTypeInv
  <2>. QED
    BY <2>1
<1>2. stream # << >> => (stream[1] = BOM <=> b = 1)
  BY <1>1 DEF Stands, Layout
<1>3. PICK u : u = afterBOM
  OBVIOUS
<1>4. u \in Seq(Token) /\ (2 <= Len(u) => N >= b + 2 /\ u[1] = stream[b + 1] /\ u[2] = stream[b + 2])
  <2>1. CASE stream = << >>
    <3>1. u = stream
      BY <1>3, <2>1 DEF afterBOM
    <3>2. Len(u) = 0
      BY <2>1, <3>1
    <3>. QED
      BY <3>1, <3>2 DEF FramingTypeInv
  <2>2. CASE stream # << >> /\ b = 1
    <3>1. u = Tail(stream)
      BY <1>2, <1>3, <2>2 DEF afterBOM
    <3>2. PICK str \in Seq(Token) : str = stream /\ str # << >>
      BY <2>2 DEF FramingTypeInv
    <3>3. Tail(str) \in Seq(Token) /\ Len(Tail(str)) = Len(str) - 1
          /\ \A k \in 1 .. Len(Tail(str)) : Tail(str)[k] = str[k + 1]
      BY <3>2, HeadTailProperties
    <3>4. u \in Seq(Token) /\ Len(u) = N - 1 /\ \A k \in 1 .. N - 1 : u[k] = stream[k + 1]
      BY <1>1, <3>1, <3>2, <3>3
    <3>5. 2 <= Len(u) => N >= b + 2 /\ 1 \in 1 .. N - 1 /\ 2 \in 1 .. N - 1
      BY <1>1, <2>2, <3>4
    <3>6. 2 <= Len(u) => u[1] = stream[1 + 1] /\ u[2] = stream[2 + 1]
      BY <3>4, <3>5
    <3>. QED
      BY <2>2, <3>4, <3>5, <3>6
  <2>3. CASE stream # << >> /\ b = 0
    <3>1. u = stream
      BY <1>2, <1>3, <2>3 DEF afterBOM
    <3>2. Len(u) = N /\ u \in Seq(Token)
      BY <1>1, <3>1 DEF FramingTypeInv
    <3>. QED
      BY <2>3, <3>1, <3>2
  <2>. QED
    BY <2>1, <2>2, <2>3
<1>5. IsPrefix(ContentLength, u) => 2 <= Len(u) /\ u[1] = ContentLength[1] /\ u[2] = ContentLength[2]
  BY <1>4, PrefixIs
<1>6. ~(2 <= Len(u) /\ u[1] = ContentLength[1] /\ u[2] = ContentLength[2])
  <2>1. CASE stream[b + 1] # ContentLength[1]
    BY <1>4, <2>1
  <2>2. CASE stream[b + 2] # ContentLength[2]
    BY <1>4, <2>2
  <2>3. CASE Len(stream) < b + 2
    <3>1. ~(N >= b + 2)
      BY <1>1, <2>3
    <3>. QED
      BY <1>4, <3>1
  <2>. QED
    BY <2>1, <2>2, <2>3 DEF NoLengthFirst
<1>. QED
  BY <1>3, <1>5, <1>6

(* What one side frames is what the other reads, in order, each message    *)
(* once, and a reader of the other framing reads none (framing.go:33).     *)
THEOREM FramingFramesAreMessages == FramingSpec => []FramesAreMessages
<1>1. FramingInv => FramesAreMessages
  <2>. SUFFICES ASSUME FramingInv
                PROVE  FramesAreMessages
    OBVIOUS
  <2>1. ASSUME writerFraming # readerFraming
        PROVE  frames = << >> \/ (writerFraming = "content-length" /\ ~IsPrefix(ContentLength, afterBOM))
    <3>1. PICK b \in {0, 1} : Stands(b)
      BY DEF FramingInv
    <3>2. frames = << >> \/ (readerFraming # "content-length" /\ NoLengthFirst(b))
      <4>1. CASE ~started
        BY <4>1 DEF FramingInv, FreshReader
      <4>2. CASE NothingLeft
        BY <4>2 DEF NothingLeft
      <4>3. CASE Mistaken(b)
        BY <4>3 DEF Mistaken
      <4>4. ~InBlock(b) /\ ~InLine(b)
        BY <2>1 DEF InBlock, InLine
      <4>. QED
        BY <3>1, <4>1, <4>2, <4>3, <4>4 DEF Stands, Position
    <3>3. writerFraming = "content-length" \/ readerFraming = "content-length"
      BY <2>1 DEF FramingInv, FramingTypeInv, Framings
    <3>4. NoLengthFirst(b) => ~IsPrefix(ContentLength, afterBOM)
      BY <3>1, AfterBOMIs DEF FramingInv
    <3>. QED
      BY <3>2, <3>3, <3>4
  <2>2. ASSUME writerFraming = readerFraming, NEW i \in DOMAIN frames
        PROVE  \/ i \in arrived /\ frames[i] = asRead(sent[i])
               \/ /\ readerFraming = "ndjson" /\ ended
                  /\ i = Cardinality(arrived) + 1 /\ IsPrefix(frames[i], sent[i])
    BY <2>2, FramesMatch
  <2>. QED
    BY <2>1, <2>2, Zenon DEF FramesAreMessages
<1>. QED
  BY <1>1, FramingInvariant, PTL

(* At a clean end. *)
LEMMA EndReached ==
    ASSUME FramingInv, NEW b \in {0, 1}, Stands(b), writerFraming = readerFraming, failure = "EOF"
    PROVE  /\ Len(frames) >= Cardinality(arrived)
           /\ readerFraming = "content-length" => betweenFrames
<1>1. PICK f \in Nat, c \in Nat, N \in Nat :
         f = Len(frames) /\ c = Len(sent) /\ N = Len(stream) /\ reached = f + 1 /\ reached - 1 = f
  BY ReachedIs DEF FramingInv
<1>2. ended /\ at = N /\ acc = << >> /\ block = NoBlock /\ started
  BY <1>1 DEF Stands, FailureInv, FramingInv, FreshReader
<1>3. PICK d \in Nat : DOMAIN marks = 1 .. d
  BY LayoutIs DEF FramingInv, Stands
<1>4. ASSUME f <= c, frameStart(b, f + 1) = N
      PROVE  Cardinality(arrived) = f
  <2>1. f + 1 \in 1 .. Len(sent) + 1
    BY <1>1, <1>4
  <2>2. f + 1 <= Len(sent) => Len(stream) < marks[f + 1]
    <3>1. ASSUME f + 1 <= c PROVE N < marks[f + 1]
      <4>1. f + 1 \in 1 .. Len(sent)
        BY <1>1, <3>1
      <4>. QED
        BY <1>4, <4>1, LayoutIs DEF FramingInv, Stands
    <3>. QED
      BY <1>1, <3>1
  <2>3. frameStart(b, f + 1) <= Len(stream)
    BY <1>1, <1>4
  <2>4. Cardinality(arrived) = f + 1 - 1
    BY <2>1, <2>2, <2>3, ArrivedIs DEF FramingInv
  <2>. QED
    BY <2>4
<1>5. CASE NothingLeft
  <2>1. N = 0 /\ f = 0
    <3>1. Len(<< >>) = 0
      OBVIOUS
    <3>. QED
      BY <1>1, <1>5, <3>1, Zenon DEF NothingLeft
  <2>2. arrived = {}
    <3>1. ASSUME NEW j \in DOMAIN marks PROVE ~(marks[j] <= Len(stream))
      <4>1. b < marks[j] /\ marks[j] \in Nat
        BY LayoutIs DEF FramingInv, Stands
      <4>. QED
        BY <1>1, <2>1, <4>1
    <3>. QED
      BY <3>1 DEF arrived
  <2>3. Cardinality(arrived) = 0
    BY <2>2, FS_EmptySet
  <2>4. betweenFrames
    BY <1>1, <2>1 DEF betweenFrames
  <2>. QED
    BY <1>1, <2>1, <2>3, <2>4
<1>6. CASE InBlock(b)
  <2>1. f <= c /\ frameStart(b, f + 1) = N
    <3>1. f <= c
      BY <1>1, <1>6 DEF InBlock
    <3>2. at = frameStart(b, reached)
      BY <1>2, <1>6, InBlockIs DEF FramingInv
    <3>. QED
      BY <1>1, <1>2, <3>1, <3>2
  <2>2. Cardinality(arrived) = f
    BY <1>4, <2>1
  <2>3. betweenFrames
    <3>1. CASE f = 0
      <4>1. N = b
        BY <2>1, <3>1 DEF frameStart
      <4>2. CASE b = 0
        BY <1>1, <4>1, <4>2 DEF betweenFrames
      <4>3. CASE b = 1
        <5>1. stream # << >>
          <6>1. Len(<< >>) = 0
            OBVIOUS
          <6>2. Len(stream) = 1 /\ 0 # 1
            BY <1>1, <4>1, <4>3
          <6>. QED
            BY <6>1, <6>2, Zenon
        <5>2. stream[1] = BOM
          BY <4>3, <5>1 DEF Stands, Layout
        <5>3. stream = <<BOM>>
          <6>1. PICK z \in Seq(Token) : z = <<BOM>> /\ Len(z) = 1 /\ z[1] = BOM
            <7>1. PICK y \in Token : y = BOM
              BY TokensDiffer
            <7>2. <<y>> \in Seq(Token) /\ Len(<<y>>) = 1 /\ <<y>>[1] = y
              OBVIOUS
            <7>. QED
              BY <7>1, <7>2
          <6>2. stream \in Seq(Token) /\ Len(stream) = 1
            BY <1>1, <4>1, <4>3 DEF FramingInv, FramingTypeInv
          <6>3. \A k \in 1 .. 1 : stream[k] = z[k]
            BY <5>2, <6>1
          <6>. QED
            BY <6>1, <6>2, <6>3, SeqEqual
        <5>. QED
          BY <5>3 DEF betweenFrames
      <4>. QED
        BY <4>2, <4>3
    <3>2. CASE f # 0
      <4>1. f + 1 # 1 /\ f + 1 - 1 = f /\ f \in 1 .. c
        BY <1>1, <2>1, <3>2
      <4>2. N = marks[f]
        BY <2>1, <4>1 DEF frameStart
      <4>3. DOMAIN marks = 1 .. c
        BY <1>1, LayoutIs DEF FramingInv, Stands
      <4>. QED
        BY <1>1, <4>1, <4>2, <4>3 DEF betweenFrames
    <3>. QED
      BY <3>1, <3>2
  <2>. QED
    BY <1>1, <2>2, <2>3
<1>7. CASE InLine(b)
  <2>1. f <= c /\ readerFraming # "content-length"
    BY <1>1, <1>7 DEF InLine
  <2>2. CASE at = frameStart(b, reached) + Len(acc)
    <3>1. PICK a \in Nat : a = frameStart(b, f + 1) /\ a + 0 = a
      <4>1. f + 1 \in 1 .. c + 1
        BY <1>1, <2>1
      <4>2. frameStart(b, f + 1) \in Nat
        BY <1>1, <4>1, LayoutIs DEF FramingInv, Stands
      <4>. QED
        BY <4>2
    <3>2. Len(acc) = 0
      BY <1>2
    <3>3. N = a
      BY <1>1, <1>2, <2>2, <3>1, <3>2, Zenon
    <3>4. Cardinality(arrived) = f
      BY <1>4, <2>1, <3>1, <3>3
    <3>. QED
      BY <1>1, <2>1, <3>4
  <2>3. CASE /\ frames # << >>
             /\ frameStart(b, Len(frames)) < Len(stream) /\ Len(stream) < marks[Len(frames)]
    <3>1. f # 0
      BY <1>1, <2>3, EmptySeq DEF FramingInv, FramingTypeInv
    <3>2. f \in 1 .. c + 1
      BY <1>1, <2>1, <3>1
    <3>3. PICK a \in Nat : a = frameStart(b, f)
      BY <1>1, <3>2, LayoutIs DEF FramingInv, Stands
    <3>4. frameStart(b, f) <= Len(stream) /\ (f <= Len(sent) => Len(stream) < marks[f])
      BY <1>1, <2>3, <3>3
    <3>5. Cardinality(arrived) = f - 1
      BY <1>1, <3>2, <3>4, ArrivedIs DEF FramingInv
    <3>. QED
      BY <1>1, <2>1, <3>5
  <2>. QED
    BY <1>7, <2>2, <2>3 DEF InLine
<1>8. ~Mistaken(b)
  BY DEF Mistaken
<1>. QED
  BY <1>2, <1>5, <1>6, <1>7, <1>8 DEF Stands, Position

(* Inside a frame. *)
LEMMA CutInside ==
    ASSUME FramingInv, NEW b \in {0, 1}, Stands(b), reached <= Len(sent),
           frameStart(b, reached) < Len(stream), Len(stream) < marks[reached]
    PROVE  ~betweenFrames
<1>1. PICK c \in Nat, N \in Nat, i \in Nat : c = Len(sent) /\ N = Len(stream) /\ i = reached /\ i \in 1 .. c
  <2>1. reached \in 1 .. Len(sent)
    <3>1. PICK f \in Nat, c \in Nat : reached = f + 1 /\ c = Len(sent)
      BY ReachedIs DEF FramingInv
    <3>2. f + 1 \in 1 .. c
      BY <3>1
    <3>. QED
      BY <3>1, <3>2
  <2>. QED
    BY <2>1, ReachedIs DEF FramingInv
<1>2. i \in 1 .. c + 1 /\ DOMAIN marks = 1 .. c
  <2>1. DOMAIN marks = 1 .. Len(sent)
    BY LayoutIs DEF FramingInv, Stands
  <2>. QED
    BY <1>1, <2>1
<1>3. PICK a \in Nat, M \in Nat : a = frameStart(b, i) /\ M = marks[i] /\ a < N /\ N < M
  <2>1. frameStart(b, i) \in Nat /\ marks[i] \in Nat
    BY <1>1, <1>2, LayoutIs DEF FramingInv, Stands
  <2>. QED
    BY <1>1, <2>1
<1>4. ASSUME NEW j \in 1 .. c PROVE N # marks[j]
  <2>1. CASE j < i
    <3>1. marks[j] <= a
      BY <1>1, <1>2, <1>3, <2>1, MarksOrder DEF FramingInv
    <3>2. marks[j] \in Nat
      BY <1>1, LayoutIs DEF FramingInv, Stands
    <3>. QED
      BY <1>3, <3>1, <3>2
  <2>2. CASE ~(j < i)
    <3>1. i <= j
      BY <1>1, <2>2
    <3>2. M <= marks[j]
      BY <1>1, <1>2, <1>3, <3>1, MarksOrder DEF FramingInv
    <3>3. marks[j] \in Nat
      BY <1>1, LayoutIs DEF FramingInv, Stands
    <3>. QED
      BY <1>3, <3>2, <3>3
  <2>. QED
    BY <2>1, <2>2
<1>5. N # 0
  BY <1>3
<1>6. stream # <<BOM>>
  <2>1. ASSUME stream = <<BOM>> PROVE FALSE
    <3>1. N = 1 /\ stream # << >> /\ stream[1] = BOM
      <4>1. PICK y : y = BOM
        OBVIOUS
      <4>2. Len(<<y>>) = 1 /\ <<y>>[1] = y /\ <<y>> # << >>
        OBVIOUS
      <4>. QED
        BY <1>1, <2>1, <4>1, <4>2
    <3>2. b = 1
      BY <3>1 DEF Stands, Layout
    <3>3. a = 0
      BY <1>3, <3>1
    <3>4. CASE i = 1
      BY <1>3, <3>2, <3>3, <3>4 DEF frameStart
    <3>5. CASE i # 1
      <4>1. b < a
        BY <1>1, <1>2, <1>3, <3>5, MarksOrder DEF FramingInv
      <4>. QED
        BY <3>2, <3>3, <4>1
    <3>. QED
      BY <3>4, <3>5
  <2>. QED
    BY <2>1
<1>. QED
  BY <1>1, <1>2, <1>4, <1>5, <1>6 DEF betweenFrames

(* A clean end follows the last message that arrived, between two frames   *)
(* (framing.go:133).                                                       *)
THEOREM FramingEndIsTruthful == FramingSpec => []EndIsTruthful
<1>1. FramingInv => EndIsTruthful
  <2>. SUFFICES ASSUME FramingInv, writerFraming = readerFraming
                PROVE  /\ failure = "EOF" => Len(frames) >= Cardinality(arrived)
                       /\ readerFraming = "content-length" =>
                             /\ failure = "EOF" => betweenFrames
                             /\ failure = "unexpected EOF" => ~betweenFrames
    BY Zenon DEF EndIsTruthful
  <2>1. PICK b \in {0, 1} : Stands(b)
    BY DEF FramingInv
  <2>2. failure = "unexpected EOF" => ~betweenFrames
    BY <2>1, CutInside DEF Stands, FailureInv
  <2>. QED
    BY <2>1, <2>2, EndReached
<1>. QED
  BY <1>1, FramingInvariant, PTL

(* The limit refuses what exceeds it and nothing else, wherever the reads  *)
(* fall (framing.go:264).                                                  *)
THEOREM FramingLimitExact == FramingSpec => []LimitExact
<1>1. FramingInv => LimitExact
  <2>. SUFFICES ASSUME FramingInv
                PROVE  LimitExact
    OBVIOUS
  <2>1. PICK b \in {0, 1} : Stands(b)
    BY DEF FramingInv
  <2>2. failure = "limit" /\ writerFraming = readerFraming => Len(asRead(sent[reached])) > maxSize
    BY <2>1 DEF Stands, FailureInv
  <2>. QED
    BY <2>2 DEF LimitExact, FramingInv, FramesFit, reached
<1>. QED
  BY <1>1, FramingInvariant, PTL

(***************************************************************************)
(* The batch over HTTP.                                                    *)
(***************************************************************************)

(* What it keeps: requests in the set, each of them, no more than it saw.  *)
Selects(s, n, W) ==
    /\ s \in Seq(1 .. n)
    /\ Len(s) <= n
    /\ \A i \in 1 .. n : i \in W => \E k \in 1 .. Len(s) : s[k] = i

LEMMA KeptIs ==
    ASSUME NEW W, NEW n \in Nat, NEW g, Kept(g, n, W)
    PROVE  Selects(g[n], n, W)
<1>. DEFINE Good(m) == /\ g[m] \in Seq(1 .. n)
                       /\ Len(g[m]) <= m
                       /\ \A i \in 1 .. m : i \in W => \E k \in 1 .. Len(g[m]) : g[m][k] = i
            Bad == {m \in 0 .. n : ~Good(m)}
<1>1. SUFFICES ASSUME Bad # {} PROVE FALSE
  BY DEF Selects
<1>2. PICK m \in Bad : \A k \in Bad : m <= k
  <2>1. Bad \subseteq Nat
    OBVIOUS
  <2>. HIDE DEF Bad
  <2>. QED
    BY <1>1, <2>1, LeastNumber
<1>3. m \in 0 .. n /\ ~Good(m)
  OBVIOUS
<1>4. g[m] = IF m = 0 THEN << >> ELSE IF m \in W THEN Append(g[m - 1], m) ELSE g[m - 1]
  BY <1>3 DEF Kept
<1>5. CASE m = 0
  <2>1. g[m] = << >> /\ Len(g[m]) = 0 /\ g[m] \in Seq(1 .. n)
    BY <1>4, <1>5, EmptySeq
  <2>2. 1 .. m = {}
    BY <1>5
  <2>. QED
    BY <1>3, <1>5, <2>1, <2>2
<1>6. CASE m # 0
  <2>1. m - 1 \in 0 .. n /\ ~(m <= m - 1) /\ m \in 1 .. n
    BY <1>3, <1>6
  <2>2. Good(m - 1)
    BY <1>2, <2>1
  <2>. HIDE DEF Bad
  <2>3. PICK s \in Seq(1 .. n) : s = g[m - 1]
    BY <2>2
  <2>4. /\ Len(s) \in Nat /\ Len(s) <= m - 1
        /\ \A i \in 1 .. m - 1 : i \in W => \E k \in 1 .. Len(s) : s[k] = i
    BY <2>2, <2>3, LenProperties
  <2>5. CASE m \in W
    <3>1. PICK t : t = Append(s, m)
      OBVIOUS
    <3>2. /\ t \in Seq(1 .. n) /\ Len(t) = Len(s) + 1 /\ t[Len(s) + 1] = m
          /\ \A k \in 1 .. Len(s) : t[k] = s[k]
      BY <2>1, <3>1, AppendProperties
    <3>3. Len(t) <= m
      BY <1>3, <2>4, <3>2
    <3>4. ASSUME NEW i \in 1 .. m, i \in W PROVE \E k \in 1 .. Len(t) : t[k] = i
      <4>1. CASE i = m
        <5>1. Len(s) + 1 \in 1 .. Len(t)
          BY <2>4, <3>2
        <5>. QED
          BY <3>2, <4>1, <5>1
      <4>2. CASE i # m
        <5>1. i \in 1 .. m - 1
          BY <1>3, <4>2
        <5>2. PICK k \in 1 .. Len(s) : s[k] = i
          BY <2>4, <3>4, <5>1
        <5>3. k \in 1 .. Len(t)
          BY <2>4, <3>2
        <5>. QED
          BY <3>2, <5>2, <5>3
      <4>. QED
        BY <4>1, <4>2
    <3>5. g[m] = t
      BY <1>4, <1>6, <2>3, <2>5, <3>1
    <3>. QED
      BY <1>3, <3>2, <3>3, <3>4, <3>5
  <2>6. CASE m \notin W
    <3>1. g[m] = s
      BY <1>4, <1>6, <2>3, <2>6
    <3>2. Len(s) <= m
      BY <1>3, <2>4
    <3>3. ASSUME NEW i \in 1 .. m, i \in W PROVE \E k \in 1 .. Len(s) : s[k] = i
      <4>1. i \in 1 .. m - 1
        BY <1>3, <2>6, <3>3
      <4>. QED
        BY <2>4, <3>3, <4>1
    <3>. QED
      BY <1>3, <3>1, <3>2, <3>3
  <2>. QED
    BY <2>5, <2>6
<1>. QED
  BY <1>5, <1>6 DEF Selects

(***************************************************************************)
(* The inductive invariant.                                                *)
(***************************************************************************)
Stages == {"idle", "posted", "answered", "read", "scanning", "done"}

TypeInv ==
    /\ op \in Ops \cup {NoOp}
    /\ stage \in Stages
    /\ seq \in Nat
    /\ httpReply.status \in Nat /\ httpReply.body \in Body

(* Every spec but a notification has an id, and no two the same one. *)
Numbered(s, d) ==
    /\ d \in Seq(Nat) /\ Len(d) = Len(s)
    /\ \A i \in DOMAIN s : d[i] = NoNumber <=> s[i].notify
    /\ \A i, k \in DOMAIN s : d[i] = d[k] /\ d[i] # NoNumber => i = k

IdsInv ==
    /\ stage # "idle" /\ ~(stage = "done" /\ outcome = "batchTooLarge") => Numbered(op.specs, ids)
    /\ stage \in {"posted", "answered", "read", "scanning"} => op \in Ops

(* Who answered, and what: the handler from the specs and their ids. *)
handled ==
    IF maxBodySize > 0 /\ Len(op.specs) > maxBodySize
    THEN [status |-> 413, body |-> [Empty EXCEPT !.shape = "junk"]]
    ELSE [status |-> status(HandleRPCJSONRawMessage), body |-> HandleRPCJSONRawMessage]

ReplyInv ==
    /\ stage \in {"idle", "posted"} => from = "nobody"
    /\ stage = "posted" => cut = Uncut
    /\ stage = "answered" => cut = Uncut
    /\ from = "handler" => httpReply = handled
    /\ stage \in {"read", "scanning"} =>
          /\ httpReply.status \in 200 .. 299
          /\ cut.read \in 0 .. Len(entries)
          /\ cut.by = "nothing" => cut.read = Len(entries)

(* Until the entries are scanned every id is awaited and nothing is known. *)
awaited == {ids[i] : i \in Specs} \ {NoNumber}

WaitInv ==
    stage \in {"posted", "answered", "read"} =>
        expected = awaited /\ scanned = 0 /\ results = [i \in Specs |-> Zero]

(* k is the first entry with that id. *)
IsFirst(k, id) ==
    /\ k \in DOMAIN entries /\ entries[k].id = id
    /\ \A m \in 1 .. k - 1 : entries[m].id # id

(* A spec is awaited as long as no entry had its id, and afterwards has    *)
(* what the first of them said.                                            *)
Scanned(i) ==
    IF op.specs[i].notify THEN results[i] = Zero
    ELSE IF ids[i] \in expected THEN \A k \in 1 .. scanned : entries[k].id # ids[i]
    ELSE \E k \in 1 .. scanned :
            IsFirst(k, ids[i]) /\ results[i] = [result |-> entries[k].out, of |-> ids[i]]

ScanningInv ==
    stage = "scanning" =>
        /\ op.kind = "batch" /\ httpReply.body.shape = "array"
        /\ scanned \in Nat /\ scanned <= cut.read /\ scanned <= Len(ids)
        /\ expected \subseteq awaited
        /\ DOMAIN results = Specs
        /\ \A i \in Specs : Scanned(i)

IInv == TypeInv /\ IdsInv /\ ReplyInv /\ WaitInv /\ ScanningInv
        /\ ResultsLineUp /\ HandlerIsUnderstood

(***************************************************************************)
(* The ids the client draws.                                               *)
(***************************************************************************)
LEMMA CallsCounted ==
    ASSUME NEW s \in Seq(Spec1), NEW i \in DOMAIN s
    PROVE  /\ callsUpTo(s, i) \in Nat
           /\ ~s[i].notify => callsUpTo(s, i) > 0
           /\ \A k \in DOMAIN s : i < k /\ ~s[k].notify => callsUpTo(s, i) < callsUpTo(s, k)
<1>. DEFINE calls(k) == {j \in 1 .. k : ~s[j].notify}
<1>1. Len(s) \in Nat /\ DOMAIN s = 1 .. Len(s)
  BY LenProperties
<1>2. \A k \in DOMAIN s : IsFiniteSet(calls(k)) /\ Cardinality(calls(k)) \in Nat
  <2>. TAKE k \in DOMAIN s
  <2>1. IsFiniteSet(1 .. k)
    BY <1>1, FS_Interval
  <2>. QED
    BY <2>1, FS_Subset, FS_CardinalityType
<1>3. ASSUME ~s[i].notify PROVE Cardinality(calls(i)) > 0
  <2>1. i \in calls(i)
    BY <1>1, <1>3
  <2>. HIDE DEF calls
  <2>2. PICK n \in Nat : n = Cardinality(calls(i))
    BY <1>2
  <2>3. n # 0
    BY <1>2, <2>1, <2>2, FS_EmptySet
  <2>. QED
    BY <2>2, <2>3
<1>4. ASSUME NEW k \in DOMAIN s, i < k, ~s[k].notify
      PROVE  Cardinality(calls(i)) < Cardinality(calls(k))
  <2>1. calls(i) \subseteq calls(k) /\ k \in calls(k) /\ k \notin calls(i)
    BY <1>1, <1>4
  <2>. HIDE DEF calls
  <2>. QED
    BY <1>2, <2>1, FS_Subset
<1>. QED
  BY <1>2, <1>3, <1>4 DEF callsUpTo

(* MarshalBatch numbers the specs, whatever was drawn before. *)
LEMMA MarshalNumbers ==
    ASSUME NEW s \in Seq(Spec1), seq \in Nat
    PROVE  Numbered(s, MarshalBatch(s))
<1>. DEFINE d == MarshalBatch(s)
<1>1. Len(s) \in Nat /\ DOMAIN s = 1 .. Len(s)
  BY LenProperties
<1>2. \A i \in DOMAIN s : d[i] = IF s[i].notify THEN 0 ELSE seq + callsUpTo(s, i)
  BY DEF MarshalBatch, NoNumber
<1>3. \A i \in DOMAIN s : d[i] \in Nat /\ (d[i] = 0 <=> s[i].notify)
  BY <1>2, CallsCounted
<1>4. d \in Seq(Nat) /\ Len(d) = Len(s)
  <2>1. DOMAIN d = 1 .. Len(s) /\ d = [i \in DOMAIN s |-> d[i]]
    BY <1>1 DEF MarshalBatch
  <2>2. d \in [1 .. Len(s) -> Nat]
    BY <1>1, <1>3, <2>1
  <2>. HIDE DEF d
  <2>. QED
    BY <1>1, <2>2
<1>5. ASSUME NEW i \in DOMAIN s, NEW k \in DOMAIN s, d[i] = d[k], d[i] # 0, i < k PROVE FALSE
  <2>1. ~s[i].notify /\ ~s[k].notify
    BY <1>3, <1>5
  <2>2. callsUpTo(s, i) < callsUpTo(s, k) /\ callsUpTo(s, i) \in Nat /\ callsUpTo(s, k) \in Nat
    BY <1>5, <2>1, CallsCounted
  <2>3. d[i] = seq + callsUpTo(s, i) /\ d[k] = seq + callsUpTo(s, k)
    BY <1>2, <2>1
  <2>4. d[i] = d[k]
    BY <1>5
  <2>. HIDE DEF d
  <2>5. PICK a, b \in Nat : a = callsUpTo(s, i) /\ b = callsUpTo(s, k)
    BY <2>2
  <2>6. seq + a = seq + b /\ a < b
    BY <2>2, <2>3, <2>4, <2>5
  <2>. QED
    BY <2>6
<1>. HIDE DEF d
<1>6. \A i, k \in DOMAIN s : d[i] = d[k] /\ d[i] # 0 => i = k
  BY <1>1, <1>5
<1>. QED
  BY <1>3, <1>4, <1>6 DEF Numbered, NoNumber, d

(***************************************************************************)
(* The handler's reply.                                                    *)
(***************************************************************************)
(* What a request is answered with, one entry each. *)
Answers(es) ==
    /\ Len(es) <= Len(op.specs)
    /\ \A k \in 1 .. Len(es) : \E i \in Specs : es[k] = response(i)
    /\ \A i \in Specs : ~op.specs[i].notify => \E k \in 1 .. Len(es) : es[k] = response(i)

LEMMA SpecsTyped ==
    ASSUME TypeInv
    PROVE  /\ op.specs \in Seq(Spec1)
           /\ Len(op.specs) \in Nat /\ Specs = 1 .. Len(op.specs)
           /\ \A i \in Specs : op.specs[i] \in Spec1
<1>1. op.specs \in Seq(Spec1)
  <2>1. CASE op \in Ops
    BY <2>1, OpsAssumption
  <2>2. CASE op = NoOp
    <3>1. op.specs = << >>
      BY <2>2 DEF NoOp
    <3>. QED
      BY <3>1, EmptySeq
  <2>. QED
    BY <2>1, <2>2 DEF TypeInv
<1>. QED
  BY <1>1, LenProperties, ElementOfSeq DEF Specs

LEMMA ResponsesAre ==
    ASSUME TypeInv
    PROVE  /\ responses \in Seq(Specs)
           /\ Len(responses) <= Len(op.specs)
           /\ \A i \in Specs : answers(i) => \E k \in 1 .. Len(responses) : responses[k] = i
<1>1. PICK n \in Nat : n = Len(op.specs) /\ Specs = 1 .. n
  BY SpecsTyped
<1>. DEFINE W == {i \in 0 .. n : answers(i)}
<1>2. answering = CHOOSE g : Kept(g, n, W)
  <2>1. \A g : g = [i \in 0 .. n |-> IF i = 0 THEN << >>
                                    ELSE IF answers(i) THEN Append(g[i - 1], i) ELSE g[i - 1]]
                <=> Kept(g, n, W)
    BY DEF Kept
  <2>. QED
    BY <1>1, <2>1 DEF answering
<1>3. Kept(answering, n, W)
  BY <1>2, KeptExists
<1>4. responses = answering[n]
  BY <1>1 DEF responses
<1>5. \A i \in Specs : answers(i) => i \in W
  BY <1>1
<1>. HIDE DEF W
<1>6. Selects(answering[n], n, W)
  <2>1. PICK g, V : g = answering /\ V = W
    OBVIOUS
  <2>2. Kept(g, n, V)
    BY <1>3, <2>1
  <2>3. Selects(g[n], n, V)
    BY <2>2, KeptIs
  <2>. QED
    BY <2>1, <2>3
<1>. QED
  BY <1>1, <1>4, <1>5, <1>6 DEF Selects

LEMMA HandlerReplies ==
    ASSUME TypeInv, Numbered(op.specs, ids)
    PROVE  /\ handled.status \in {200, 204, 413} /\ handled.body \in Body
           /\ handled.status # 413 =>
                 \/ op.kind = "batch" /\ handled.body.shape = "object"
                 \/ handled.body.shape = "empty" /\ \A i \in Specs : op.specs[i].notify
                 \/ /\ handled.body.shape = (IF op.kind = "batch" THEN "array" ELSE "object")
                    /\ handled.body.entries # << >>
                    /\ Answers(handled.body.entries)
<1>1. PICK n \in Nat : n = Len(op.specs) /\ Specs = 1 .. n
  BY SpecsTyped
<1>2. PICK ks : ks = responses
  OBVIOUS
<1>3. /\ ks \in Seq(1 .. n) /\ Len(ks) \in Nat /\ Len(ks) <= n /\ DOMAIN ks = 1 .. Len(ks)
      /\ \A i \in 1 .. n : answers(i) => \E k \in 1 .. Len(ks) : ks[k] = i
      /\ \A k \in 1 .. Len(ks) : ks[k] \in 1 .. n
  BY <1>1, <1>2, ResponsesAre, LenProperties, ElementOfSeq
<1>4. PICK es : es = [k \in 1 .. Len(ks) |-> response(ks[k])]
  OBVIOUS
<1>5. \A i \in 1 .. n : response(i) \in [id : Int, out : {"result", "error"}]
  <2>1. \A i \in 1 .. n : ids[i] \in Int
    BY <1>1, LenProperties, ElementOfSeq DEF Numbered
  <2>. TAKE i \in 1 .. n
  <2>2. PICK a, b : /\ a = (IF op.specs[i].notify THEN NullNumber ELSE ids[i])
                    /\ b = (IF op.specs[i].runs = "result" THEN "result" ELSE "error")
    OBVIOUS
  <2>3. a \in Int /\ b \in {"result", "error"}
    BY <2>1, <2>2 DEF NullNumber
  <2>4. response(i) = [id |-> a, out |-> b]
    BY <2>2 DEF response
  <2>. QED
    BY <2>3, <2>4
<1>6. es \in Seq([id : Int, out : {"result", "error"}]) /\ Len(es) = Len(ks)
  <2>1. es \in [1 .. Len(ks) -> [id : Int, out : {"result", "error"}]]
    BY <1>3, <1>4, <1>5
  <2>2. \A E : es \in [1 .. Len(ks) -> E] => es \in Seq(E) /\ Len(es) = Len(ks)
    BY <1>3, <1>4
  <2>. QED
    BY <2>1, <2>2
<1>7. Answers(es)
  <2>1. Len(es) <= Len(op.specs)
    BY <1>1, <1>3, <1>6
  <2>2. \A k \in 1 .. Len(es) : es[k] = response(ks[k]) /\ ks[k] \in Specs
    BY <1>1, <1>3, <1>4, <1>6
  <2>3. \A i \in Specs : ~op.specs[i].notify => \E k \in 1 .. Len(es) : es[k] = response(i)
    <3>1. \A i \in Specs : ~op.specs[i].notify => \E k \in 1 .. Len(ks) : ks[k] = i
      BY <1>1, <1>3 DEF answers
    <3>. QED
      BY <1>6, <2>2, <3>1
  <2>. QED
    BY <2>1, <2>2, <2>3 DEF Answers
<1>8. CASE maxBodySize > 0 /\ Len(op.specs) > maxBodySize
  <2>1. handled = [status |-> 413, body |-> [shape |-> "junk", entries |-> << >>]]
    BY <1>8 DEF handled, Empty
  <2>2. << >> \in Seq([id : Int, out : {"result", "error"}])
    BY EmptySeq
  <2>. QED
    BY <2>1, <2>2 DEF Body
<1>9. CASE ~(maxBodySize > 0 /\ Len(op.specs) > maxBodySize)
  <2>1. PICK b : b = HandleRPCJSONRawMessage
    OBVIOUS
  <2>2. handled = [status |-> status(b), body |-> b]
    BY <1>9, <2>1 DEF handled
  <2>3. CASE op.kind = "batch" /\ maxServerBatch > 0 /\ Len(op.specs) > maxServerBatch
    <3>1. b = IF \A i \in Specs : op.specs[i].notify THEN Empty ELSE LimitRefusal
      BY <2>1, <2>3 DEF HandleRPCJSONRawMessage
    <3>2. CASE \A i \in Specs : op.specs[i].notify
      <4>1. b = [shape |-> "empty", entries |-> << >>]
        BY <3>1, <3>2 DEF Empty
      <4>2. << >> \in Seq([id : Int, out : {"result", "error"}])
        BY EmptySeq
      <4>3. b \in Body /\ b.shape = "empty"
        BY <4>1, <4>2 DEF Body
      <4>4. handled.status = 204 /\ handled.body = b
        BY <2>2, <4>3 DEF status
      <4>. QED
        BY <3>2, <4>3, <4>4
    <3>3. CASE ~\A i \in Specs : op.specs[i].notify
      <4>1. b = [shape |-> "object", entries |-> << [id |-> NullNumber, out |-> "error"] >>]
        BY <3>1, <3>3 DEF LimitRefusal
      <4>2. PICK f : f = [id |-> NullNumber, out |-> "error"]
        OBVIOUS
      <4>3. f \in [id : Int, out : {"result", "error"}]
        <5>1. -1 \in Int
          OBVIOUS
        <5>. QED
          BY <4>2, <5>1 DEF NullNumber
      <4>4. <<f>> \in Seq([id : Int, out : {"result", "error"}])
        BY <4>3
      <4>5. b \in Body /\ b.shape = "object"
        BY <4>1, <4>2, <4>4 DEF Body
      <4>6. handled.status = 200 /\ handled.body = b
        BY <2>2, <4>5 DEF status
      <4>. QED
        BY <2>3, <4>5, <4>6
    <3>. QED
      BY <3>2, <3>3
  <2>4. CASE ~(op.kind = "batch" /\ maxServerBatch > 0 /\ Len(op.specs) > maxServerBatch)
    <3>1. b = [shape |-> IF ks = << >> THEN "empty" ELSE IF op.kind = "batch" THEN "array" ELSE "object",
               entries |-> es]
      BY <1>2, <1>3, <1>4, <2>1, <2>4 DEF HandleRPCJSONRawMessage
    <3>2. b \in Body /\ b.entries = es
      BY <1>6, <3>1 DEF Body
    <3>3. handled.status = (IF b.shape = "empty" THEN 204 ELSE 200) /\ handled.body = b
      BY <2>2 DEF status
    <3>4. CASE ks = << >>
      <4>1. Len(ks) = 0
        BY <3>4, EmptySeq
      <4>2. \A i \in Specs : op.specs[i].notify
        BY <1>1, <1>3, <4>1 DEF answers
      <4>3. b.shape = "empty"
        BY <3>1, <3>4
      <4>. QED
        BY <3>2, <3>3, <4>2, <4>3
    <3>5. CASE ks # << >>
      <4>1. b.shape = IF op.kind = "batch" THEN "array" ELSE "object"
        BY <3>1, <3>5
      <4>2. es # << >>
        <5>1. Len(ks) # 0
          BY <1>3, <3>5, EmptySeq
        <5>. QED
          BY <1>6, <5>1, EmptySeq
      <4>3. handled.status = 200 /\ handled.body = b
        BY <3>3, <4>1
      <4>. QED
        BY <1>7, <3>2, <4>1, <4>2, <4>3
    <3>. QED
      BY <3>4, <3>5
  <2>. QED
    BY <2>3, <2>4
<1>. QED
  BY <1>8, <1>9

(* The handler's reply depends on the request alone. *)
LEMMA HandledUnchanged ==
    ASSUME UNCHANGED <<op, ids>>
    PROVE  handled' = handled
<1>1. op' = op /\ ids' = ids
  OBVIOUS
<1>2. \A i : answers(i)' = answers(i) /\ response(i)' = response(i)
  BY <1>1 DEF answers, response
<1>3. answering' = answering
  BY <1>1, <1>2 DEF answering
<1>4. responses' = responses
  BY <1>1, <1>3 DEF responses
<1>5. HandleRPCJSONRawMessage' = HandleRPCJSONRawMessage
  BY <1>1, <1>2, <1>4 DEF HandleRPCJSONRawMessage, Specs
<1>. QED
  BY <1>1, <1>5 DEF handled, status

(***************************************************************************)
(* The first entry with an id.                                             *)
(***************************************************************************)
LEMMA EntriesTyped ==
    ASSUME TypeInv
    PROVE  /\ Len(entries) \in Nat /\ DOMAIN entries = 1 .. Len(entries)
           /\ \A k \in DOMAIN entries : entries[k].id \in Int
<1>1. \A E : entries \in Seq(E) =>
         /\ Len(entries) \in Nat /\ DOMAIN entries = 1 .. Len(entries)
         /\ \A k \in DOMAIN entries : entries[k] \in E
  BY LenProperties, ElementOfSeq
<1>2. entries \in Seq([id : Int, out : {"result", "error"}])
  BY DEF TypeInv, entries, Body
<1>3. /\ Len(entries) \in Nat /\ DOMAIN entries = 1 .. Len(entries)
      /\ \A k \in DOMAIN entries : entries[k] \in [id : Int, out : {"result", "error"}]
  BY <1>1, <1>2
<1>. QED
  BY <1>3

LEMMA FirstExists ==
    ASSUME TypeInv, NEW id, \E k \in DOMAIN entries : entries[k].id = id
    PROVE  IsFirst(first(id), id)
<1>. DEFINE S == {k \in DOMAIN entries : entries[k].id = id}
<1>1. S \subseteq Nat /\ S # {} /\ DOMAIN entries \subseteq Nat
  BY EntriesTyped
<1>2. PICK k \in S : \A m \in S : k <= m
  <2>. HIDE DEF S
  <2>. QED
    BY <1>1, LeastNumber
<1>3. k \in DOMAIN entries /\ entries[k].id = id
  OBVIOUS
<1>4. ASSUME NEW m \in 1 .. k - 1 PROVE entries[m].id # id
  <2>1. m \in DOMAIN entries /\ ~(k <= m)
    BY <1>3, EntriesTyped
  <2>. QED
    BY <1>2, <2>1
<1>. QED
  BY <1>3, <1>4 DEF first, IsFirst

LEMMA FirstIs ==
    ASSUME TypeInv, NEW id, NEW k, IsFirst(k, id)
    PROVE  first(id) = k
<1>1. IsFirst(first(id), id)
  BY FirstExists DEF IsFirst
<1>2. PICK m : m = first(id)
  OBVIOUS
<1>3. IsFirst(m, id) /\ m \in Nat /\ k \in Nat /\ m >= 1 /\ k >= 1
  BY <1>1, <1>2, EntriesTyped DEF IsFirst
<1>4. ~(m < k) /\ ~(k < m)
  BY <1>3 DEF IsFirst
<1>. QED
  BY <1>2, <1>3, <1>4

(***************************************************************************)
(* Each action.                                                            *)
(***************************************************************************)
LEMMA StartStep ==
    ASSUME IInv, NEW o \in Ops, Start(o)
    PROVE  IInv'
<1>1. /\ op' = o /\ from' = "nobody" /\ httpReply' = NoReply /\ cut' = Uncut /\ scanned' = 0
      /\ results' = [i \in DOMAIN o.specs |-> Zero]
      /\ seq \in Nat
  BY DEF Start, IInv, TypeInv
<1>2. o.specs \in Seq(Spec1) /\ Len(o.specs) \in Nat /\ DOMAIN o.specs = 1 .. Len(o.specs)
  BY OpsAssumption, LenProperties
<1>3. NoReply.status \in Nat /\ NoReply.body \in Body
  <2>1. << >> \in Seq([id : Int, out : {"result", "error"}])
    BY EmptySeq
  <2>2. Empty \in Body
    BY <2>1 DEF Empty, Body
  <2>. QED
    BY <2>2 DEF NoReply
<1>4. ~batchReturned' /\ ~(from = "handler")'
  BY <1>1 DEF batchReturned
<1>5. ResultsLineUp' /\ HandlerIsUnderstood'
  BY <1>4 DEF ResultsLineUp, HandlerIsUnderstood
<1>6. CASE o.specs = << >>
  <2>1. stage' = "done" /\ outcome' = "ok" /\ ids' = << >> /\ seq' = seq
    BY <1>6 DEF Start, return
  <2>2. Numbered(<< >>, << >>)
    <3>1. << >> \in Seq(Nat) /\ Len(<< >>) = 0 /\ DOMAIN << >> = {}
      BY EmptySeq
    <3>. QED
      BY <3>1 DEF Numbered
  <2>3. TypeInv'
    BY <1>1, <1>3, <2>1 DEF TypeInv, Stages
  <2>4. IdsInv'
    BY <1>1, <1>6, <2>1, <2>2 DEF IdsInv
  <2>5. ReplyInv' /\ WaitInv' /\ ScanningInv'
    BY <1>1, <2>1 DEF ReplyInv, WaitInv, ScanningInv
  <2>. QED
    BY <1>5, <2>3, <2>4, <2>5 DEF IInv
<1>7. CASE o.specs # << >> /\ o.kind = "batch" /\ maxBatchSpecs > 0 /\ Len(o.specs) > maxBatchSpecs
  <2>1. stage' = "done" /\ outcome' = "batchTooLarge" /\ seq' = seq
    BY <1>7 DEF Start, return
  <2>2. TypeInv'
    BY <1>1, <1>3, <2>1 DEF TypeInv, Stages
  <2>3. IdsInv'
    BY <2>1 DEF IdsInv
  <2>4. ReplyInv' /\ WaitInv' /\ ScanningInv'
    BY <1>1, <2>1 DEF ReplyInv, WaitInv, ScanningInv
  <2>. QED
    BY <1>5, <2>2, <2>3, <2>4 DEF IInv
<1>8. CASE o.specs # << >>
           /\ ~(o.kind = "batch" /\ maxBatchSpecs > 0 /\ Len(o.specs) > maxBatchSpecs)
  <2>1. /\ stage' = "posted" /\ ids' = MarshalBatch(o.specs)
        /\ seq' = seq + callsUpTo(o.specs, Len(o.specs))
        /\ expected' = {MarshalBatch(o.specs)[i] : i \in DOMAIN o.specs} \ {NoNumber}
    BY <1>8 DEF Start
  <2>2. Numbered(o.specs, MarshalBatch(o.specs))
    BY <1>1, <1>2, MarshalNumbers
  <2>3. seq' \in Nat
    <3>1. Len(o.specs) \in DOMAIN o.specs
      <4>1. Len(o.specs) # 0
        BY <1>2, <1>8, EmptySeq
      <4>. QED
        BY <1>2, <4>1
    <3>2. callsUpTo(o.specs, Len(o.specs)) \in Nat
      BY <1>2, <3>1, CallsCounted
    <3>. QED
      BY <1>1, <2>1, <3>2
  <2>4. TypeInv'
    BY <1>1, <1>3, <2>1, <2>3 DEF TypeInv, Stages
  <2>5. IdsInv'
    BY <1>1, <2>1, <2>2 DEF IdsInv
  <2>6. ReplyInv' /\ ScanningInv'
    BY <1>1, <2>1 DEF ReplyInv, ScanningInv
  <2>7. WaitInv'
    BY <1>1, <2>1 DEF WaitInv, awaited, Specs
  <2>. QED
    BY <1>5, <2>4, <2>5, <2>6, <2>7 DEF IInv
<1>. QED
  BY <1>6, <1>7, <1>8

LEMMA AgainStep ==
    ASSUME IInv, Again
    PROVE  IInv'
<1>1. /\ op' = NoOp /\ stage' = "idle" /\ from' = "nobody" /\ httpReply' = NoReply /\ seq' = seq
      /\ seq \in Nat
  BY DEF Again, IInv, TypeInv
<1>2. NoReply.status \in Nat /\ NoReply.body \in Body
  <2>1. << >> \in Seq([id : Int, out : {"result", "error"}])
    BY EmptySeq
  <2>2. Empty \in Body
    BY <2>1 DEF Empty, Body
  <2>. QED
    BY <2>2 DEF NoReply
<1>3. TypeInv'
  BY <1>1, <1>2 DEF TypeInv, Stages
<1>4. IdsInv' /\ ReplyInv' /\ WaitInv' /\ ScanningInv'
  BY <1>1 DEF IdsInv, ReplyInv, WaitInv, ScanningInv
<1>5. ResultsLineUp' /\ HandlerIsUnderstood'
  BY <1>1 DEF ResultsLineUp, batchReturned, HandlerIsUnderstood
<1>. QED
  BY <1>3, <1>4, <1>5 DEF IInv

LEMMA ServeHTTPStep ==
    ASSUME IInv, ServeHTTP
    PROVE  IInv'
<1>1. /\ stage = "posted" /\ stage' = "answered" /\ from' = "handler" /\ httpReply' = handled
      /\ UNCHANGED <<op, seq, ids, cut, expected, scanned, results, outcome>>
  BY DEF ServeHTTP, handled
<1>2. Numbered(op.specs, ids) /\ op \in Ops /\ cut = Uncut /\ TypeInv
  BY <1>1 DEF IInv, IdsInv, ReplyInv
<1>3. handled.status \in Nat /\ handled.body \in Body
  BY <1>2, HandlerReplies
<1>4. TypeInv'
  BY <1>1, <1>2, <1>3 DEF TypeInv, Stages
<1>5. IdsInv'
  BY <1>1, <1>2 DEF IdsInv
<1>6. ReplyInv'
  BY <1>1, <1>2, HandledUnchanged DEF ReplyInv
<1>7. WaitInv'
  BY <1>1 DEF IInv, WaitInv, awaited, Specs
<1>8. ScanningInv' /\ ResultsLineUp' /\ HandlerIsUnderstood'
  BY <1>1 DEF ScanningInv, ResultsLineUp, batchReturned, HandlerIsUnderstood
<1>. QED
  BY <1>4, <1>5, <1>6, <1>7, <1>8 DEF IInv

LEMMA GatewayStep ==
    ASSUME IInv, GatewayAnswers
    PROVE  IInv'
<1>1. /\ stage = "posted" /\ stage' = "answered" /\ from' = "gateway" /\ httpReply' \in ForeignReplies
      /\ UNCHANGED <<op, seq, ids, cut, expected, scanned, results, outcome>>
  BY DEF GatewayAnswers
<1>2. Numbered(op.specs, ids) /\ op \in Ops /\ cut = Uncut /\ TypeInv
  BY <1>1 DEF IInv, IdsInv, ReplyInv
<1>3. TypeInv'
  BY <1>1, <1>2, RepliesAssumption DEF TypeInv, Stages
<1>4. IdsInv'
  BY <1>1, <1>2 DEF IdsInv
<1>5. ReplyInv'
  BY <1>1, <1>2 DEF ReplyInv
<1>6. WaitInv'
  BY <1>1 DEF IInv, WaitInv, awaited, Specs
<1>7. ScanningInv' /\ ResultsLineUp' /\ HandlerIsUnderstood'
  BY <1>1 DEF ScanningInv, ResultsLineUp, batchReturned, HandlerIsUnderstood
<1>. QED
  BY <1>3, <1>4, <1>5, <1>6, <1>7 DEF IInv

(* The steps that end the call, or go on reading it, change neither the    *)
(* request nor the reply.                                                  *)
LEMMA Reading ==
    ASSUME IInv, UNCHANGED <<op, seq, ids, from, httpReply, cut>>, stage' \in Stages,
           stage \in {"posted", "answered", "read", "scanning"},
           stage' \in {"scanning", "done"}, stage' = "scanning" => stage \in {"read", "scanning"}
    PROVE  TypeInv' /\ IdsInv' /\ ReplyInv' /\ WaitInv'
<1>1. TypeInv'
  BY DEF IInv, TypeInv
<1>2. IdsInv'
  BY DEF IInv, IdsInv
<1>3. ReplyInv'
  BY HandledUnchanged DEF IInv, ReplyInv, entries
<1>4. WaitInv'
  BY DEF WaitInv
<1>. QED
  BY <1>1, <1>2, <1>3, <1>4

LEMMA PostFailsStep ==
    ASSUME IInv, PostFails
    PROVE  IInv'
<1>1. /\ stage = "posted" /\ stage' = "done" /\ outcome' = "doRequest"
      /\ UNCHANGED <<op, seq, ids, from, httpReply, cut, expected, scanned, results>>
  BY DEF PostFails, return
<1>2. TypeInv' /\ IdsInv' /\ ReplyInv' /\ WaitInv'
  BY <1>1, Reading DEF Stages
<1>3. from = "nobody"
  BY <1>1 DEF IInv, ReplyInv
<1>4. ScanningInv' /\ ResultsLineUp' /\ HandlerIsUnderstood'
  BY <1>1, <1>3 DEF ScanningInv, ResultsLineUp, batchReturned, HandlerIsUnderstood
<1>. QED
  BY <1>2, <1>4 DEF IInv

LEMMA ReadResponseStep ==
    ASSUME IInv, ReadResponse
    PROVE  IInv'
<1>1. /\ stage = "answered"
      /\ cut' \in {[read |-> Len(entries), by |-> "nothing"]}
                  \cup [read : 0 .. Len(entries) - 1, by : {"within", "after"}]
      /\ UNCHANGED <<op, seq, ids, from, httpReply, expected, scanned, results>>
  BY DEF ReadResponse
<1>2. Numbered(op.specs, ids) /\ op \in Ops /\ TypeInv /\ (from = "handler" => httpReply = handled)
  BY <1>1 DEF IInv, IdsInv, ReplyInv
<1>3. CASE httpReply.status \notin 200 .. 299
  <2>1. stage' = "done" /\ outcome' = "status"
    BY <1>3 DEF ReadResponse, return
  <2>2. from = "handler" => httpReply.status = 413
    BY <1>2, <1>3, HandlerReplies
  <2>3. TypeInv'
    BY <1>1, <1>2, <2>1 DEF TypeInv, Stages
  <2>4. IdsInv'
    BY <1>1, <1>2, <2>1 DEF IdsInv
  <2>5. ReplyInv'
    BY <1>1, <1>2, <2>1, HandledUnchanged DEF ReplyInv
  <2>6. WaitInv' /\ ScanningInv' /\ ResultsLineUp'
    BY <2>1 DEF WaitInv, ScanningInv, ResultsLineUp, batchReturned
  <2>7. HandlerIsUnderstood'
    BY <1>1, <2>2 DEF HandlerIsUnderstood
  <2>. QED
    BY <2>3, <2>4, <2>5, <2>6, <2>7 DEF IInv
<1>4. CASE httpReply.status \in 200 .. 299
  <2>1. stage' = "read"
    BY <1>4 DEF ReadResponse
  <2>2. TypeInv'
    BY <1>1, <1>2, <2>1 DEF TypeInv, Stages
  <2>3. IdsInv'
    BY <1>1, <1>2, <2>1 DEF IdsInv
  <2>4. cut'.read \in 0 .. Len(entries) /\ (cut'.by = "nothing" => cut'.read = Len(entries))
    <3>1. PICK n \in Nat : n = Len(entries)
      BY <1>2, EntriesTyped
    <3>2. CASE cut' = [read |-> n, by |-> "nothing"]
      BY <3>1, <3>2
    <3>3. CASE cut' \in [read : 0 .. n - 1, by : {"within", "after"}]
      BY <3>1, <3>3
    <3>. QED
      BY <1>1, <3>1, <3>2, <3>3
  <2>5. ReplyInv'
    BY <1>1, <1>2, <1>4, <2>1, <2>4, HandledUnchanged DEF ReplyInv, entries
  <2>6. WaitInv'
    BY <1>1, <2>1 DEF IInv, WaitInv, awaited, Specs
  <2>7. ScanningInv' /\ ResultsLineUp' /\ HandlerIsUnderstood'
    BY <2>1 DEF ScanningInv, ResultsLineUp, batchReturned, HandlerIsUnderstood
  <2>. QED
    BY <2>2, <2>3, <2>4, <2>5, <2>6, <2>7 DEF IInv
<1>. QED
  BY <1>3, <1>4

(* What a read answer of the handler says. *)
LEMMA ReadFromHandler ==
    ASSUME IInv, stage \in {"read", "scanning"}, from = "handler",
           ~(op.kind = "batch" /\ httpReply.body.shape = "object")
    PROVE  \/ httpReply.body.shape = "empty" /\ \A i \in Specs : op.specs[i].notify
           \/ /\ httpReply.body.shape = (IF op.kind = "batch" THEN "array" ELSE "object")
              /\ entries # << >>
              /\ Answers(entries)
<1>1. TypeInv /\ Numbered(op.specs, ids) /\ httpReply = handled /\ httpReply.status \in 200 .. 299
  BY DEF IInv, IdsInv, ReplyInv
<1>2. handled.status # 413
  BY <1>1
<1>. QED
  BY <1>1, <1>2, HandlerReplies DEF entries

LEMMA OneSpec ==
    ASSUME TypeInv, op.kind \in {"call", "notify"}
    PROVE  Specs = {1} /\ Len(op.specs) = 1 /\ (op.specs[1].notify <=> op.kind = "notify")
<1>1. op \in Ops
  BY DEF TypeInv, NoOp
<1>2. Len(op.specs) = 1 /\ op.specs \in Seq(Spec1)
        /\ (op.specs[1].notify <=> op.kind = "notify")
  BY <1>1, OpsAssumption
<1>3. DOMAIN op.specs = 1 .. 1
  BY <1>2, LenProperties
<1>. QED
  BY <1>2, <1>3 DEF Specs

LEMMA NotifyStep ==
    ASSUME IInv, Notify
    PROVE  IInv'
<1>1. /\ stage = "read" /\ op.kind = "notify" /\ stage' = "done" /\ outcome' = "ok"
      /\ UNCHANGED <<op, seq, ids, from, httpReply, cut, expected, scanned, results>>
  BY DEF Notify, return
<1>2. TypeInv' /\ IdsInv' /\ ReplyInv' /\ WaitInv'
  BY <1>1, Reading DEF Stages
<1>3. \A i \in Specs : op.specs[i].notify
  BY <1>1, OneSpec DEF IInv
<1>4. ScanningInv' /\ ResultsLineUp'
  BY <1>1 DEF ScanningInv, ResultsLineUp, batchReturned
<1>5. HandlerIsUnderstood'
  BY <1>1, <1>3 DEF HandlerIsUnderstood, Specs
<1>. QED
  BY <1>2, <1>4, <1>5 DEF IInv

LEMMA CallStep ==
    ASSUME IInv, Call
    PROVE  IInv'
<1>1. /\ stage = "read" /\ op.kind = "call" /\ stage' = "done"
      /\ UNCHANGED <<op, seq, ids, from, httpReply, cut, expected, scanned>>
  BY DEF Call, return
<1>2. TypeInv' /\ IdsInv' /\ ReplyInv' /\ WaitInv'
  BY <1>1, Reading DEF Stages
<1>3. ScanningInv' /\ ResultsLineUp'
  BY <1>1 DEF ScanningInv, ResultsLineUp, batchReturned
<1>4. ASSUME from = "handler", cut.by = "nothing"
      PROVE  outcome' = "ok" /\ \A i \in Specs : results'[i] = [result |-> response(i).out, of |-> ids[i]]
  <2>1. Specs = {1} /\ Len(op.specs) = 1 /\ ~op.specs[1].notify
    BY <1>1, OneSpec DEF IInv
  <2>2. httpReply.body.shape = "object" /\ entries # << >> /\ Answers(entries)
    BY <1>1, <1>4, <2>1, ReadFromHandler
  <2>3. entries[1] = response(1)
    <3>1. Len(entries) = 1
      <4>1. PICK n \in Nat : n = Len(entries)
        BY EntriesTyped DEF IInv
      <4>2. n <= 1
        BY <2>1, <2>2, <4>1 DEF Answers
      <4>3. n # 0
        <5>1. \A E : entries \in Seq(E) /\ Len(entries) = 0 => entries = << >>
          BY EmptySeq
        <5>2. entries \in Seq([id : Int, out : {"result", "error"}])
          BY DEF IInv, TypeInv, entries, Body
        <5>. QED
          BY <2>2, <4>1, <5>1, <5>2
      <4>. QED
        BY <4>1, <4>2, <4>3
    <3>2. 1 \in 1 .. Len(entries)
      BY <3>1
    <3>. QED
      BY <2>1, <2>2, <3>2 DEF Answers
  <2>4. entries[1].id = ids[1]
    BY <2>1, <2>3 DEF response
  <2>5. /\ outcome' = "ok"
        /\ results' = [results EXCEPT ![1] = [result |-> entries[1].out, of |-> ids[1]]]
    BY <1>1, <1>4, <2>2, <2>4 DEF Call, return
  <2>6. results = [i \in Specs |-> Zero]
    BY <1>1 DEF IInv, WaitInv
  <2>7. results'[1] = [result |-> entries[1].out, of |-> ids[1]]
    BY <2>1, <2>5, <2>6
  <2>. QED
    BY <2>1, <2>3, <2>5, <2>7
<1>5. HandlerIsUnderstood'
  <2>1. \A i : response(i)' = response(i)
    BY <1>1 DEF response
  <2>. QED
    BY <1>1, <1>4, <2>1 DEF HandlerIsUnderstood, Specs
<1>. QED
  BY <1>2, <1>3, <1>5 DEF IInv

(* No id is awaited only of a batch without a call. *)
LEMMA AwaitedAre ==
    ASSUME IInv, op \in Ops, Numbered(op.specs, ids)
    PROVE  /\ \A i \in Specs : ids[i] \in Nat /\ (op.specs[i].notify <=> ids[i] \notin awaited)
           /\ \A id \in awaited : \E i \in Specs : ids[i] = id /\ ~op.specs[i].notify
           /\ \A i, k \in Specs : ~op.specs[i].notify /\ ids[i] = ids[k] => i = k
           /\ Len(ids) = Len(op.specs) /\ DOMAIN ids = Specs
<1>1. /\ ids \in Seq(Nat) /\ Len(ids) = Len(op.specs) /\ Specs = 1 .. Len(op.specs)
  BY SpecsTyped DEF IInv, Numbered
<1>2. DOMAIN ids = Specs /\ \A i \in Specs : ids[i] \in Nat
  BY <1>1, LenProperties, ElementOfSeq
<1>3. \A i \in Specs : ids[i] = NoNumber <=> op.specs[i].notify
  BY DEF Numbered, Specs
<1>4. \A i \in Specs : op.specs[i].notify <=> ids[i] \notin awaited
  BY <1>3 DEF awaited
<1>5. \A id \in awaited : \E i \in Specs : ids[i] = id /\ ~op.specs[i].notify
  BY <1>3 DEF awaited
<1>6. \A i, k \in Specs : ~op.specs[i].notify /\ ids[i] = ids[k] => i = k
  BY <1>3 DEF Numbered, Specs
<1>. QED
  BY <1>1, <1>2, <1>4, <1>5, <1>6

LEMMA CallBatchStep ==
    ASSUME IInv, CallBatch
    PROVE  IInv'
<1>1. /\ stage = "read" /\ op.kind = "batch" /\ stage' \in {"scanning", "done"}
      /\ UNCHANGED <<op, seq, ids, from, httpReply, cut, expected, scanned, results>>
  BY DEF CallBatch, return
<1>2. TypeInv' /\ IdsInv' /\ ReplyInv' /\ WaitInv'
  BY <1>1, Reading DEF Stages
<1>3. /\ op \in Ops /\ Numbered(op.specs, ids) /\ expected = awaited /\ scanned = 0
      /\ results = [i \in Specs |-> Zero]
  BY <1>1 DEF IInv, IdsInv, WaitInv
<1>4. \A i : response(i)' = response(i)
  BY <1>1 DEF response
<1>5. CASE expected = {}
  <2>1. stage' = "done" /\ outcome' = "ok"
    BY <1>5 DEF CallBatch, return
  <2>2. \A i \in Specs : op.specs[i].notify /\ results[i] = Zero
    BY <1>3, <1>5, AwaitedAre
  <2>3. ResultsLineUp'
    BY <1>1, <2>2 DEF ResultsLineUp, Specs
  <2>4. HandlerIsUnderstood'
    BY <1>1, <2>1, <2>2 DEF HandlerIsUnderstood, Specs
  <2>5. ScanningInv'
    BY <2>1 DEF ScanningInv
  <2>. QED
    BY <1>2, <2>3, <2>4, <2>5 DEF IInv
<1>6. CASE expected # {} /\ httpReply.body.shape # "array"
  <2>1. stage' = "done" /\ outcome' # "ok"
    BY <1>6 DEF CallBatch, return
  <2>2. ~\A i \in Specs : op.specs[i].notify
    BY <1>3, <1>6, AwaitedAre
  <2>3. ~(from = "handler" /\ httpReply.body.shape # "object")
    BY <1>1, <1>6, <2>2, ReadFromHandler
  <2>4. HandlerIsUnderstood'
    BY <1>1, <2>3 DEF HandlerIsUnderstood
  <2>5. ScanningInv' /\ ResultsLineUp'
    BY <2>1 DEF ScanningInv, ResultsLineUp, batchReturned
  <2>. QED
    BY <1>2, <2>4, <2>5 DEF IInv
<1>7. CASE expected # {} /\ httpReply.body.shape = "array"
  <2>1. stage' = "scanning"
    BY <1>7 DEF CallBatch
  <2>2. ASSUME NEW i \in Specs PROVE Scanned(i)
    BY <1>3, AwaitedAre DEF Scanned
  <2>3. \A i : Scanned(i)' = Scanned(i)
    BY <1>1 DEF Scanned, IsFirst, entries
  <2>4. scanned <= cut.read /\ scanned <= Len(ids)
    <3>1. cut.read \in 0 .. Len(entries) /\ Len(entries) \in Nat
      BY <1>1, EntriesTyped DEF IInv, ReplyInv
    <3>2. Len(ids) \in Nat
      BY <1>3, AwaitedAre, SpecsTyped DEF IInv
    <3>. QED
      BY <1>3, <3>1, <3>2
  <2>5. ScanningInv'
    BY <1>1, <1>3, <1>7, <2>2, <2>3, <2>4 DEF ScanningInv, awaited, Specs
  <2>6. ResultsLineUp' /\ HandlerIsUnderstood'
    BY <2>1 DEF ResultsLineUp, batchReturned, HandlerIsUnderstood
  <2>. QED
    BY <1>2, <2>5, <2>6 DEF IInv
<1>. QED
  BY <1>5, <1>6, <1>7

LEMMA ScanEntryStep ==
    ASSUME IInv, ScanEntry
    PROVE  IInv'
<1>1. /\ stage = "scanning" /\ mayScan
      /\ UNCHANGED <<op, seq, ids, from, httpReply, cut>>
  BY DEF ScanEntry
<1>2. /\ op \in Ops /\ Numbered(op.specs, ids)
      /\ op.kind = "batch" /\ httpReply.body.shape = "array"
      /\ scanned \in Nat /\ scanned <= cut.read /\ scanned <= Len(ids)
      /\ expected \subseteq awaited /\ DOMAIN results = Specs
      /\ \A i \in Specs : Scanned(i)
  BY <1>1 DEF IInv, IdsInv, ScanningInv
<1>3. /\ cut.read \in Nat /\ cut.read <= Len(entries) /\ Len(entries) \in Nat
      /\ (cut.by = "nothing" => cut.read = Len(entries))
      /\ DOMAIN entries = 1 .. Len(entries)
      /\ Len(ids) \in Nat /\ DOMAIN ids = Specs
  BY <1>1, <1>2, EntriesTyped, AwaitedAre, SpecsTyped DEF IInv, ReplyInv
<1>4. CASE scanned = cut.read
  <2>1. stage' = "done" /\ outcome' = "decode"
    BY <1>4 DEF ScanEntry, return
  <2>2. cut.by # "nothing"
    BY <1>1, <1>3, <1>4 DEF mayScan, more
  <2>3. TypeInv' /\ IdsInv' /\ ReplyInv' /\ WaitInv'
    BY <1>1, <2>1, Reading DEF Stages
  <2>4. ScanningInv' /\ ResultsLineUp' /\ HandlerIsUnderstood'
    BY <1>1, <2>1, <2>2 DEF ScanningInv, ResultsLineUp, batchReturned, HandlerIsUnderstood
  <2>. QED
    BY <2>3, <2>4 DEF IInv
<1>5. CASE scanned # cut.read
  <2>1. PICK n \in Nat : n = scanned + 1 /\ n - 1 = scanned /\ n >= 1
    BY <1>2
  <2>2. PICK e : e = entries[n]
    OBVIOUS
  <2>3. /\ stage' = stage /\ outcome' = outcome /\ scanned' = n
        /\ results' = IF e.id \in expected
                      THEN [results EXCEPT ![indexOf(e.id)] = [result |-> e.out, of |-> e.id]]
                      ELSE results
        /\ expected' = IF e.id \in expected THEN expected \ {e.id} ELSE expected
    BY <1>5, <2>1, <2>2 DEF ScanEntry, met
  <2>4. n <= cut.read /\ n <= Len(ids) /\ n \in DOMAIN entries
    <3>1. scanned < Len(ids)
      BY <1>1 DEF mayScan
    <3>. QED
      BY <1>2, <1>3, <1>5, <2>1, <3>1
  <2>5. TypeInv' /\ IdsInv' /\ ReplyInv' /\ WaitInv'
    BY <1>1, <2>3, Reading DEF Stages
  <2>6. \A k, id : IsFirst(k, id)' = IsFirst(k, id) /\ entries' = entries
    BY <1>1 DEF IsFirst, entries
  <2>7. \A k \in 1 .. n : k = n \/ k \in 1 .. scanned
    BY <2>1
  <2>8. \A k \in 1 .. scanned : k \in 1 .. n
    BY <1>2, <2>1
  <2>9. ASSUME NEW i \in Specs PROVE Scanned(i)' /\ i \in DOMAIN results'
    <3>1. Scanned(i)
      BY <1>2
    <3>2. CASE e.id \notin expected
      <4>1. results' = results /\ expected' = expected /\ scanned' = n
        BY <2>3, <3>2
      <4>2. CASE op.specs[i].notify
        BY <1>1, <1>2, <3>1, <4>1, <4>2 DEF Scanned
      <4>3. CASE ~op.specs[i].notify /\ ids[i] \in expected
        <5>1. \A k \in 1 .. n : entries[k].id # ids[i]
          BY <2>2, <2>7, <3>1, <3>2, <4>3 DEF Scanned
        <5>. QED
          BY <1>1, <1>2, <2>6, <4>1, <4>3, <5>1 DEF Scanned
      <4>4. CASE ~op.specs[i].notify /\ ids[i] \notin expected
        <5>1. PICK k \in 1 .. scanned :
                 IsFirst(k, ids[i]) /\ results[i] = [result |-> entries[k].out, of |-> ids[i]]
          BY <3>1, <4>4 DEF Scanned
        <5>2. k \in 1 .. n
          BY <2>8
        <5>. QED
          BY <1>1, <1>2, <2>6, <4>1, <4>4, <5>1, <5>2 DEF Scanned
      <4>. QED
        BY <4>2, <4>3, <4>4
    <3>3. CASE e.id \in expected
      <4>1. PICK j \in Specs : ids[j] = e.id /\ ~op.specs[j].notify
        BY <1>2, <3>3, AwaitedAre
      <4>2. indexOf(e.id) = j
        <5>1. \A k \in DOMAIN ids : ids[k] = e.id => k = j
          BY <1>2, <1>3, <4>1, AwaitedAre
        <5>. QED
          BY <1>3, <4>1, <5>1 DEF indexOf
      <4>3. PICK x : x = [result |-> e.out, of |-> e.id]
        OBVIOUS
      <4>4. /\ results' = [results EXCEPT ![j] = x] /\ expected' = expected \ {e.id}
            /\ scanned' = n
        BY <2>3, <3>3, <4>2, <4>3
      <4>5. CASE i = j
        <5>1. results'[i] = x /\ i \in DOMAIN results'
          BY <1>2, <4>4, <4>5
        <5>2. ids[i] \notin expected' /\ ids[i] = e.id /\ ids[i] \in expected
          BY <3>3, <4>1, <4>4, <4>5
        <5>3. \A k \in 1 .. scanned : entries[k].id # ids[i]
          BY <3>1, <4>1, <4>5, <5>2 DEF Scanned
        <5>4. IsFirst(n, ids[i])
          BY <2>1, <2>2, <2>4, <5>2, <5>3 DEF IsFirst
        <5>5. n \in 1 .. n
          BY <2>1
        <5>. QED
          BY <1>1, <2>2, <2>6, <4>1, <4>3, <4>4, <4>5, <5>1, <5>2, <5>4, <5>5 DEF Scanned
      <4>6. CASE i # j
        <5>1. results'[i] = results[i] /\ i \in DOMAIN results'
          BY <1>2, <4>4, <4>6
        <5>2. ids[i] # e.id
          BY <1>2, <4>1, <4>6, AwaitedAre
        <5>3. ids[i] \in expected' <=> ids[i] \in expected
          BY <4>4, <5>2
        <5>4. CASE op.specs[i].notify
          BY <1>1, <3>1, <5>1, <5>4 DEF Scanned
        <5>5. CASE ~op.specs[i].notify /\ ids[i] \in expected
          <6>1. \A k \in 1 .. n : entries[k].id # ids[i]
            BY <2>2, <2>7, <3>1, <5>2, <5>5 DEF Scanned
          <6>. QED
            BY <1>1, <2>6, <4>4, <5>1, <5>3, <5>5, <6>1 DEF Scanned
        <5>6. CASE ~op.specs[i].notify /\ ids[i] \notin expected
          <6>1. PICK k \in 1 .. scanned :
                   IsFirst(k, ids[i]) /\ results[i] = [result |-> entries[k].out, of |-> ids[i]]
            BY <3>1, <5>6 DEF Scanned
          <6>2. k \in 1 .. n
            BY <2>8
          <6>. QED
            BY <1>1, <2>6, <4>4, <5>1, <5>3, <5>6, <6>1, <6>2 DEF Scanned
        <5>. QED
          BY <5>1, <5>4, <5>5, <5>6
      <4>. QED
        BY <4>5, <4>6
    <3>. QED
      BY <3>2, <3>3
  <2>10. DOMAIN results' = Specs /\ expected' \subseteq awaited
    BY <1>2, <2>3
  <2>11. ScanningInv'
    BY <1>1, <1>2, <2>3, <2>4, <2>9, <2>10 DEF ScanningInv, awaited, Specs
  <2>12. ResultsLineUp' /\ HandlerIsUnderstood'
    BY <1>1, <2>3 DEF ResultsLineUp, batchReturned, HandlerIsUnderstood
  <2>. QED
    BY <2>5, <2>11, <2>12 DEF IInv
<1>. QED
  BY <1>4, <1>5

(* What the caller of a batch gets in the end. *)
LEMMA FinishLinesUp ==
    ASSUME IInv, Finish, NEW i \in Specs
    PROVE  IF op.specs[i].notify THEN results'[i] = Zero
           ELSE IF /\ \E k \in DOMAIN entries : entries[k].id = ids[i]
                   /\ first(ids[i]) <= cut.read /\ first(ids[i]) <= Len(ids)
           THEN results'[i] = [result |-> entries[first(ids[i])].out, of |-> ids[i]]
           ELSE results'[i] = Missing(ids[i])
<1>1. /\ stage = "scanning" /\ ~mayScan
      /\ results'[i] = IF ids[i] \in expected THEN Missing(ids[i]) ELSE results[i]
  BY DEF Finish
<1>2. /\ op \in Ops /\ Numbered(op.specs, ids)
      /\ scanned \in Nat /\ scanned <= cut.read /\ scanned <= Len(ids)
      /\ expected \subseteq awaited /\ Scanned(i)
  BY <1>1 DEF IInv, IdsInv, ScanningInv
<1>3. /\ cut.read \in Nat /\ cut.read <= Len(entries) /\ Len(entries) \in Nat
      /\ DOMAIN entries = 1 .. Len(entries) /\ Len(ids) \in Nat
  BY <1>1, <1>2, EntriesTyped, AwaitedAre, SpecsTyped DEF IInv, ReplyInv
<1>4. CASE op.specs[i].notify
  <2>1. ids[i] \notin expected
    BY <1>2, <1>4, AwaitedAre
  <2>. QED
    BY <1>1, <1>2, <1>4, <2>1 DEF Scanned
<1>5. CASE ~op.specs[i].notify /\ ids[i] \in expected
  <2>1. \A k \in 1 .. scanned : entries[k].id # ids[i]
    BY <1>2, <1>5 DEF Scanned
  <2>2. scanned >= cut.read \/ scanned >= Len(ids)
    <3>1. ~(scanned < cut.read /\ scanned < Len(ids))
      BY <1>1, <1>5 DEF mayScan, more
    <3>. QED
      BY <1>2, <1>3, <3>1
  <2>3. ASSUME \E k \in DOMAIN entries : entries[k].id = ids[i],
               first(ids[i]) <= cut.read, first(ids[i]) <= Len(ids)
        PROVE  FALSE
    <3>1. PICK k : k = first(ids[i])
      OBVIOUS
    <3>2. IsFirst(k, ids[i])
      BY <2>3, <3>1, FirstExists DEF IInv
    <3>3. k \in 1 .. Len(entries) /\ entries[k].id = ids[i]
      BY <1>3, <3>2 DEF IsFirst
    <3>4. k \in 1 .. scanned
      BY <1>2, <1>3, <2>2, <2>3, <3>1, <3>3
    <3>. QED
      BY <2>1, <3>3, <3>4
  <2>. QED
    BY <1>1, <1>5, <2>3
<1>6. CASE ~op.specs[i].notify /\ ids[i] \notin expected
  <2>1. PICK k \in 1 .. scanned :
           IsFirst(k, ids[i]) /\ results[i] = [result |-> entries[k].out, of |-> ids[i]]
    BY <1>2, <1>6 DEF Scanned
  <2>2. first(ids[i]) = k
    BY <2>1, FirstIs DEF IInv
  <2>3. k \in DOMAIN entries /\ entries[k].id = ids[i] /\ k <= cut.read /\ k <= Len(ids)
    BY <1>2, <1>3, <2>1 DEF IsFirst
  <2>. QED
    BY <1>1, <1>6, <2>1, <2>2, <2>3
<1>. QED
  BY <1>4, <1>5, <1>6

LEMMA FinishStep ==
    ASSUME IInv, Finish
    PROVE  IInv'
<1>1. /\ stage = "scanning" /\ stage' = "done" /\ outcome' = "ok"
      /\ UNCHANGED <<op, seq, ids, from, httpReply, cut, expected, scanned>>
  BY DEF Finish, return
<1>2. TypeInv' /\ IdsInv' /\ ReplyInv' /\ WaitInv'
  BY <1>1, Reading DEF Stages
<1>3. ScanningInv'
  BY <1>1 DEF ScanningInv
<1>4. \A id : first(id)' = first(id)
  BY <1>1 DEF first, entries
<1>5. ResultsLineUp'
  BY <1>1, <1>4, FinishLinesUp DEF ResultsLineUp, Specs, entries
<1>6. ASSUME from = "handler", cut.by = "nothing", NEW i \in Specs, ~op.specs[i].notify
      PROVE  results'[i] = [result |-> response(i).out, of |-> ids[i]]
  <2>1. /\ op \in Ops /\ Numbered(op.specs, ids) /\ TypeInv
        /\ op.kind = "batch" /\ httpReply.body.shape = "array"
        /\ cut.read = Len(entries)
    BY <1>1, <1>6 DEF IInv, IdsInv, ScanningInv, ReplyInv
  <2>2. Answers(entries)
    BY <1>1, <1>6, <2>1, ReadFromHandler
  <2>3. /\ Len(entries) \in Nat /\ DOMAIN entries = 1 .. Len(entries)
        /\ Len(entries) <= Len(ids)
    BY <2>1, <2>2, EntriesTyped, AwaitedAre DEF Answers
  <2>4. PICK k \in DOMAIN entries : entries[k] = response(i)
    BY <1>6, <2>2, <2>3 DEF Answers
  <2>5. entries[k].id = ids[i]
    BY <1>6, <2>4 DEF response
  <2>6. PICK m : m = first(ids[i])
    OBVIOUS
  <2>7. m \in DOMAIN entries /\ entries[m].id = ids[i]
    BY <2>1, <2>5, <2>6, FirstExists DEF IsFirst
  <2>8. PICK j \in Specs : entries[m] = response(j)
    BY <2>2, <2>3, <2>7 DEF Answers
  <2>9. j = i
    <3>1. ids[i] \in Nat
      BY <2>1, AwaitedAre
    <3>2. ids[i] # NullNumber
      BY <3>1 DEF NullNumber
    <3>3. ids[i] = ids[j]
      BY <2>7, <2>8, <3>2 DEF response
    <3>. QED
      BY <1>6, <2>1, <3>3, AwaitedAre
  <2>10. m <= cut.read /\ m <= Len(ids)
    <3>1. Len(ids) \in Nat
      BY <2>1, AwaitedAre, SpecsTyped
    <3>. QED
      BY <2>1, <2>3, <2>7, <3>1
  <2>11. results'[i] = [result |-> entries[m].out, of |-> ids[i]]
    BY <1>6, <2>5, <2>6, <2>10, FinishLinesUp
  <2>. QED
    BY <2>8, <2>9, <2>11
<1>7. HandlerIsUnderstood'
  <2>1. \A i : response(i)' = response(i)
    BY <1>1 DEF response
  <2>. QED
    BY <1>1, <1>6, <2>1 DEF HandlerIsUnderstood, Specs
<1>. QED
  BY <1>2, <1>3, <1>5, <1>7 DEF IInv

(***************************************************************************)
(* The theorems.                                                           *)
(***************************************************************************)
(* The invariant holds of the client and handler as they start, and each   *)
(* of their steps keeps it, whatever a gateway answers.                    *)
THEOREM HttpInvariant == HttpSpec => []IInv
<1>1. HttpInit => IInv
  <2>. SUFFICES ASSUME HttpInit PROVE IInv
    OBVIOUS
  <2>1. << >> \in Seq([id : Int, out : {"result", "error"}])
    BY EmptySeq
  <2>2. TypeInv
    BY <2>1 DEF HttpInit, TypeInv, Stages, NoReply, Empty, Body
  <2>3. IdsInv /\ ReplyInv /\ WaitInv /\ ScanningInv
    BY DEF HttpInit, IdsInv, ReplyInv, WaitInv, ScanningInv
  <2>4. ResultsLineUp /\ HandlerIsUnderstood
    BY DEF HttpInit, ResultsLineUp, batchReturned, HandlerIsUnderstood
  <2>. QED
    BY <2>2, <2>3, <2>4 DEF IInv
<1>2. IInv /\ [HttpNext]_httpVars => IInv'
  <2>. SUFFICES ASSUME IInv, [HttpNext]_httpVars PROVE IInv'
    OBVIOUS
  <2>1. CASE \E o \in Ops : Start(o)
    BY <2>1, StartStep
  <2>2. CASE ServeHTTP
    BY <2>2, ServeHTTPStep
  <2>3. CASE GatewayAnswers
    BY <2>3, GatewayStep
  <2>4. CASE PostFails
    BY <2>4, PostFailsStep
  <2>5. CASE ReadResponse
    BY <2>5, ReadResponseStep
  <2>6. CASE Notify
    BY <2>6, NotifyStep
  <2>7. CASE Call
    BY <2>7, CallStep
  <2>8. CASE CallBatch
    BY <2>8, CallBatchStep
  <2>9. CASE ScanEntry
    BY <2>9, ScanEntryStep
  <2>10. CASE Finish
    BY <2>10, FinishStep
  <2>11. CASE Again
    BY <2>11, AgainStep
  <2>12. CASE UNCHANGED httpVars
    <3>1. UNCHANGED <<op, stage, seq, ids, from, httpReply, cut, expected, scanned, results, outcome>>
      BY <2>12 DEF httpVars
    <3>2. TypeInv' /\ IdsInv' /\ WaitInv'
      BY <3>1 DEF IInv, TypeInv, IdsInv, WaitInv, awaited, Specs
    <3>3. ReplyInv'
      BY <3>1, HandledUnchanged DEF IInv, ReplyInv, entries
    <3>4. ScanningInv'
      BY <3>1 DEF IInv, ScanningInv, Scanned, IsFirst, awaited, Specs, entries
    <3>5. ResultsLineUp'
      <4>1. \A id : first(id)' = first(id)
        BY <3>1 DEF first, entries
      <4>. QED
        BY <3>1, <4>1 DEF IInv, ResultsLineUp, batchReturned, Specs, entries
    <3>6. HandlerIsUnderstood'
      BY <3>1 DEF IInv, HandlerIsUnderstood, response, Specs
    <3>. QED
      BY <3>2, <3>3, <3>4, <3>5, <3>6 DEF IInv
  <2>. QED
    BY <2>1, <2>2, <2>3, <2>4, <2>5, <2>6, <2>7, <2>8, <2>9, <2>10, <2>11, <2>12 DEF HttpNext
<1>. QED
  BY <1>1, <1>2, PTL DEF HttpSpec

(* Whatever the other end answers and wherever the answer is cut, a batch  *)
(* that returns gives each call the first answer with its id, or an error  *)
(* that says there was none (client.go:160-190).                           *)
THEOREM HttpResultsLineUp == HttpSpec => []ResultsLineUp
<1>1. IInv => ResultsLineUp
  BY DEF IInv
<1>. QED
  BY <1>1, HttpInvariant, PTL

(* What the handler says of each call is what the caller gets, for every   *)
(* batch and every limit: the ids drawn are distinct, none is null, and no *)
(* more entries come back than were sent.                                  *)
THEOREM HttpHandlerIsUnderstood == HttpSpec => []HandlerIsUnderstood
<1>1. IInv => HandlerIsUnderstood
  BY DEF IInv
<1>. QED
  BY <1>1, HttpInvariant, PTL
=============================================================================
