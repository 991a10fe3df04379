-------------------------- MODULE StdioServeProofs --------------------------
(***************************************************************************)
(* Proofs about StdioServe for every limit, every number of messages and   *)
(* background goroutines, and every interleaving.                          *)
(***************************************************************************)
EXTENDS StdioServe, FiniteSetTheorems, TLAPS

(***************************************************************************)
(* The inductive invariant.                                                *)
(***************************************************************************)
InFlight == {m \in Messages : pc[m] \notin {"none", "done"}}

(* With a limit of one there is a message in flight only while Serve's own *)
(* goroutine dispatches it, otherwise every message in flight has a token. *)
SlotInv ==
    /\ limit = 1 => slots = 0 /\ main # "slot"
    /\ limit = 1 => \A m \in Messages :
          pc[m] \notin {"none", "done"} => main = "inline" /\ m = read
    /\ limit # 1 => slots = Cardinality(InFlight) /\ main # "inline"

(* How far Serve's goroutine has got. *)
MainInv ==
    /\ main = "slot" => read \in Messages /\ pc[read] = "none"
    /\ main = "inline" => read \in Messages
    /\ main \in {"latching", "deciding", "returned"} =>
          \A m \in Messages : pc[m] \in {"none", "done"}
    /\ main \in {"deciding", "returned"} =>
          latched /\ \A w \in Writers : pc[w] \notin {"writing", "failing"}
    /\ \A m \in Messages : m > read => pc[m] = "none"
    /\ \A p \in Pushers : pc[p] # "running"

(* The mutex is held from the first byte of a frame until the write is     *)
(* over; a writer is latched by a failure or by Serve as it leaves.        *)
LockInv ==
    /\ \A w \in Writers : lock = w <=> pc[w] \in {"writing", "failing"}
    /\ latched => \A w \in Writers : pc[w] # "writing"
    /\ latched => \/ connErr # "none" \/ main \in {"deciding", "returned"}
                  \/ \E w \in Writers : pc[w] = "failing"

(* What is on the wire, and which replies are. *)
WireInv ==
    /\ \A k \in DOMAIN wire : pc[wire[k].from] \in {"failing", "done"}
    /\ \A j, k \in DOMAIN wire : wire[j].from = wire[k].from => j = k
    /\ ~latched => \A k \in DOMAIN wire : wire[k].whole
    /\ RepliesInOrder
    /\ \A m \in Messages :
          /\ pc[m] \in {"none", "running"} => m \notin owed
          /\ m \in owed /\ pc[m] = "done" =>
                connErr # "none" \/ \E k \in DOMAIN wire : wire[k].from = m

(* Serve leaves for a reason, and the reason is still there when it        *)
(* chooses its result.                                                     *)
EndInv ==
    /\ main \in {"top", "reading", "inline", "slot", "exit"} /\ connDone =>
          ctxDone \/ connErr # "none"
    /\ main \in {"exit", "draining", "latching", "deciding"} =>
          connErr # "none" \/ eofClean \/ ctxDone \/ readErr
    /\ ResultIsTruthful

IInv == TypeOK /\ SlotInv /\ MainInv /\ LockInv /\ WireInv /\ EndInv

(* What the assumptions say of the constants. *)
LEMMA Bounds ==
    /\ MaxMessages \in Nat /\ MaxCalls \subseteq Nat \ {0}
    /\ Messages = 1 .. MaxMessages /\ Writers = Messages \cup Pushers
    /\ None \notin Writers /\ \A p \in Pushers : p \notin Messages
BY MaxMessagesAssumption, MaxCallsAssumption, PushersAssumption DEF Messages, Writers

(* A sequence with one more element. *)
LEMMA Appended ==
    ASSUME NEW S, NEW s \in Seq(S), NEW x \in S
    PROVE  LET n == Len(s) + 1
           IN  /\ Len(Append(s, x)) = n /\ n \in Nat \ {0}
               /\ DOMAIN Append(s, x) = 1 .. n /\ DOMAIN s = 1 .. n - 1
               /\ Append(s, x)[n] = x
               /\ \A k \in 1 .. n - 1 : Append(s, x)[k] = s[k] /\ s[k] \in S
OBVIOUS

(* The messages in flight can be counted, and one can be taken from them. *)
LEMMA InFlightCounts ==
    /\ IsFiniteSet(InFlight) /\ Cardinality(InFlight) \in Nat
    /\ \A m \in InFlight : /\ Cardinality(InFlight \ {m}) = Cardinality(InFlight) - 1
                           /\ Cardinality(InFlight \ {m}) \in Nat
<1>1. IsFiniteSet(Messages)
  BY Bounds, FS_Interval
<1>2. IsFiniteSet(InFlight)
  BY <1>1, FS_Subset DEF InFlight
<1>. QED
  BY <1>2, FS_RemoveElement, FS_CardinalityType

(* The goroutine of a message gives back the slot it had when it ends, and *)
(* that of a Notify had none: the deferred functions of Serve.             *)
LEMMA WriterEnds ==
    ASSUME TypeOK, SlotInv, NEW w \in Writers, pc[w] \notin {"none", "done"},
           pc' = [pc EXCEPT ![w] = "done"],
           slots' = IF w \in Messages /\ limit # 1 THEN slots - 1 ELSE slots,
           UNCHANGED <<limit, main, read>>
    PROVE  slots' \in 0 .. limit /\ SlotInv'
<1>1. CASE w \in Messages /\ limit # 1
  <2>1. w \in InFlight
    BY <1>1 DEF InFlight
  <2>2. InFlight' = InFlight \ {w}
    BY Bounds DEF InFlight, TypeOK
  <2>3. slots' = Cardinality(InFlight') /\ slots' \in Nat
    BY <1>1, <2>1, <2>2, InFlightCounts DEF SlotInv
  <2>4. slots' \in 0 .. limit
    BY <1>1, <2>3, Bounds DEF TypeOK
  <2>. QED
    BY <1>1, <2>3, <2>4 DEF SlotInv
<1>2. CASE w \in Messages /\ limit = 1
  BY <1>2, Bounds DEF TypeOK, SlotInv
<1>3. CASE w \notin Messages
  <2>1. InFlight' = InFlight
    BY <1>3, Bounds DEF InFlight, TypeOK
  <2>2. \A m \in Messages : pc'[m] = pc[m]
    BY <1>3, Bounds DEF TypeOK
  <2>. QED
    BY <1>3, <2>1, <2>2 DEF TypeOK, SlotInv
<1>. QED
  BY <1>1, <1>2, <1>3

(* CheckCanceled keeps the invariant: the loop starts a round, unless the  *)
(* connection is over.                                                     *)
LEMMA CheckCanceledStep ==
    ASSUME IInv, CheckCanceled
    PROVE  IInv'
<1>0. /\ main' = IF connDone THEN "exit" ELSE "reading"
      /\ UNCHANGED <<limit, read, slots, pc, lock, latched, wire, owed,
            ctxDone, connDone, connErr, readErr, eofClean, result>>
      /\ main = "top"
  BY DEF CheckCanceled, ioVars, ctxVars, endVars
<1>1. TypeOK'
  BY <1>0, Bounds DEF IInv, TypeOK
<1>2. SlotInv'
  BY <1>0, Bounds DEF IInv, TypeOK, SlotInv, MainInv, InFlight
<1>3. MainInv'
  BY <1>0, Bounds DEF IInv, TypeOK, SlotInv, MainInv, LockInv
<1>4. LockInv'
  BY <1>0, Bounds DEF IInv, TypeOK, MainInv, LockInv
<1>5. WireInv'
  BY <1>0, Bounds DEF IInv, TypeOK, SlotInv, MainInv, LockInv, WireInv, RepliesInOrder
<1>6. EndInv'
  BY <1>0, Bounds DEF IInv, TypeOK, MainInv, EndInv, ResultIsTruthful
<1>. QED
  BY <1>1, <1>2, <1>3, <1>4, <1>5, <1>6 DEF IInv

(* ReadFrameInline keeps the invariant: a message is read and dispatched   *)
(* by Serve itself.                                                        *)
LEMMA ReadFrameInlineStep ==
    ASSUME IInv, limit = 1, ReadFrame
    PROVE  IInv'
<1>0. /\ read' = read + 1
      /\ main' = "inline"
      /\ pc' = [pc EXCEPT ![read + 1] = "running"]
      /\ UNCHANGED <<limit, slots, lock, latched, wire, owed, ctxDone,
            connDone, connErr, readErr, eofClean, result>>
      /\ main = "reading" /\ read < MaxMessages
  BY DEF ReadFrame, goto, ioVars, ctxVars, endVars
<1>1. TypeOK'
  BY <1>0, Bounds DEF IInv, TypeOK
<1>2. SlotInv'
  BY <1>0, Bounds DEF IInv, TypeOK, SlotInv, MainInv, InFlight
<1>3. MainInv'
  BY <1>0, Bounds DEF IInv, TypeOK, SlotInv, MainInv, LockInv
<1>4. LockInv'
  BY <1>0, Bounds DEF IInv, TypeOK, MainInv, LockInv
<1>5. WireInv'
  BY <1>0, Bounds DEF IInv, TypeOK, SlotInv, MainInv, LockInv, WireInv, RepliesInOrder
<1>6. EndInv'
  BY <1>0, Bounds DEF IInv, TypeOK, MainInv, EndInv, ResultIsTruthful
<1>. QED
  BY <1>1, <1>2, <1>3, <1>4, <1>5, <1>6 DEF IInv

(* ReadFrameSlot keeps the invariant: a message is read and waits for a    *)
(* slot.                                                                   *)
LEMMA ReadFrameSlotStep ==
    ASSUME IInv, limit # 1, ReadFrame
    PROVE  IInv'
<1>0. /\ read' = read + 1
      /\ main' = "slot"
      /\ UNCHANGED <<limit, slots, pc, lock, latched, wire, owed, ctxDone,
            connDone, connErr, readErr, eofClean, result>>
      /\ main = "reading" /\ read < MaxMessages
  BY DEF ReadFrame, ioVars, ctxVars, endVars
<1>1. TypeOK'
  BY <1>0, Bounds DEF IInv, TypeOK
<1>2. SlotInv'
  BY <1>0, Bounds DEF IInv, TypeOK, SlotInv, MainInv, InFlight
<1>3. MainInv'
  BY <1>0, Bounds DEF IInv, TypeOK, SlotInv, MainInv, LockInv
<1>4. LockInv'
  BY <1>0, Bounds DEF IInv, TypeOK, MainInv, LockInv
<1>5. WireInv'
  BY <1>0, Bounds DEF IInv, TypeOK, SlotInv, MainInv, LockInv, WireInv, RepliesInOrder
<1>6. EndInv'
  BY <1>0, Bounds DEF IInv, TypeOK, MainInv, EndInv, ResultIsTruthful
<1>. QED
  BY <1>1, <1>2, <1>3, <1>4, <1>5, <1>6 DEF IInv

(* ReadEOF keeps the invariant: the peer closes the stream.                *)
LEMMA ReadEOFStep ==
    ASSUME IInv, ReadEOF
    PROVE  IInv'
<1>0. /\ eofClean' = ~ctxDone
      /\ main' = "exit"
      /\ UNCHANGED <<limit, read, slots, pc, lock, latched, wire, owed,
            ctxDone, connDone, connErr, readErr, result>>
      /\ main = "reading"
  BY DEF ReadEOF, ioVars, ctxVars, endVars
<1>1. TypeOK'
  BY <1>0, Bounds DEF IInv, TypeOK
<1>2. SlotInv'
  BY <1>0, Bounds DEF IInv, TypeOK, SlotInv, MainInv, InFlight
<1>3. MainInv'
  BY <1>0, Bounds DEF IInv, TypeOK, SlotInv, MainInv, LockInv
<1>4. LockInv'
  BY <1>0, Bounds DEF IInv, TypeOK, MainInv, LockInv
<1>5. WireInv'
  BY <1>0, Bounds DEF IInv, TypeOK, SlotInv, MainInv, LockInv, WireInv, RepliesInOrder
<1>6. EndInv'
  BY <1>0, Bounds DEF IInv, TypeOK, MainInv, EndInv, ResultIsTruthful
<1>. QED
  BY <1>1, <1>2, <1>3, <1>4, <1>5, <1>6 DEF IInv

(* ReadFails keeps the invariant: the stream breaks.                       *)
LEMMA ReadFailsStep ==
    ASSUME IInv, ReadFails
    PROVE  IInv'
<1>0. /\ readErr' = TRUE
      /\ main' = "exit"
      /\ UNCHANGED <<limit, read, slots, pc, lock, latched, wire, owed,
            ctxDone, connDone, connErr, eofClean, result>>
      /\ main = "reading"
  BY DEF ReadFails, ioVars, ctxVars, endVars
<1>1. TypeOK'
  BY <1>0, Bounds DEF IInv, TypeOK
<1>2. SlotInv'
  BY <1>0, Bounds DEF IInv, TypeOK, SlotInv, MainInv, InFlight
<1>3. MainInv'
  BY <1>0, Bounds DEF IInv, TypeOK, SlotInv, MainInv, LockInv
<1>4. LockInv'
  BY <1>0, Bounds DEF IInv, TypeOK, MainInv, LockInv
<1>5. WireInv'
  BY <1>0, Bounds DEF IInv, TypeOK, SlotInv, MainInv, LockInv, WireInv, RepliesInOrder
<1>6. EndInv'
  BY <1>0, Bounds DEF IInv, TypeOK, MainInv, EndInv, ResultIsTruthful
<1>. QED
  BY <1>1, <1>2, <1>3, <1>4, <1>5, <1>6 DEF IInv

(* InlineReturns keeps the invariant: the dispatch of Serve itself         *)
(* returns.                                                                *)
LEMMA InlineReturnsStep ==
    ASSUME IInv, InlineReturns
    PROVE  IInv'
<1>0. /\ main' = "top"
      /\ UNCHANGED <<limit, read, slots, pc, lock, latched, wire, owed,
            ctxDone, connDone, connErr, readErr, eofClean, result>>
      /\ main = "inline" /\ pc[read] = "done"
  BY DEF InlineReturns, inlineDone, ioVars, ctxVars, endVars
<1>1. TypeOK'
  BY <1>0, Bounds DEF IInv, TypeOK
<1>2. SlotInv'
  BY <1>0, Bounds DEF IInv, TypeOK, SlotInv, MainInv, InFlight
<1>3. MainInv'
  BY <1>0, Bounds DEF IInv, TypeOK, SlotInv, MainInv, LockInv
<1>4. LockInv'
  BY <1>0, Bounds DEF IInv, TypeOK, MainInv, LockInv
<1>5. WireInv'
  BY <1>0, Bounds DEF IInv, TypeOK, SlotInv, MainInv, LockInv, WireInv, RepliesInOrder
<1>6. EndInv'
  BY <1>0, Bounds DEF IInv, TypeOK, MainInv, EndInv, ResultIsTruthful
<1>. QED
  BY <1>1, <1>2, <1>3, <1>4, <1>5, <1>6 DEF IInv

(* TakeSlot keeps the invariant: a message gets a slot.                    *)
LEMMA TakeSlotStep ==
    ASSUME IInv, TakeSlot
    PROVE  IInv'
<1>0. /\ slots' = slots + 1
      /\ pc' = [pc EXCEPT ![read] = "running"]
      /\ main' = "top"
      /\ UNCHANGED <<limit, read, lock, latched, wire, owed, ctxDone, connDone,
            connErr, readErr, eofClean, result>>
      /\ main = "slot" /\ slots < limit
  BY DEF TakeSlot, slotFree, goto, ioVars, ctxVars, endVars
<1>1. TypeOK'
  <2>1. slots + 1 \in 0 .. limit /\ limit \in Nat
    BY <1>0, Bounds DEF IInv, TypeOK
  <2>. QED
    BY <1>0, <2>1, Bounds DEF IInv, TypeOK
<1>2. SlotInv'
  <2>1. read \in Messages /\ pc[read] = "none" /\ limit # 1
    BY <1>0 DEF IInv, SlotInv, MainInv
  <2>2. InFlight' = InFlight \cup {read} /\ read \notin InFlight
    BY <1>0, <2>1, Bounds DEF InFlight, IInv, TypeOK
  <2>3. Cardinality(InFlight \cup {read}) = Cardinality(InFlight) + 1
    BY <2>2, InFlightCounts, FS_AddElement
  <2>4. Cardinality(InFlight') = slots'
    BY <1>0, <2>1, <2>2, <2>3 DEF IInv, SlotInv
  <2>. QED
    BY <1>0, <2>1, <2>4 DEF SlotInv
<1>3. MainInv'
  BY <1>0, Bounds DEF IInv, TypeOK, SlotInv, MainInv, LockInv
<1>4. LockInv'
  BY <1>0, Bounds DEF IInv, TypeOK, MainInv, LockInv
<1>5. WireInv'
  BY <1>0, Bounds DEF IInv, TypeOK, SlotInv, MainInv, LockInv, WireInv, RepliesInOrder
<1>6. EndInv'
  BY <1>0, Bounds DEF IInv, TypeOK, MainInv, EndInv, ResultIsTruthful
<1>. QED
  BY <1>1, <1>2, <1>3, <1>4, <1>5, <1>6 DEF IInv

(* SlotCanceled keeps the invariant: the message that waits for a slot is  *)
(* given up.                                                               *)
LEMMA SlotCanceledStep ==
    ASSUME IInv, SlotCanceled
    PROVE  IInv'
<1>0. /\ main' = "exit"
      /\ UNCHANGED <<limit, read, slots, pc, lock, latched, wire, owed,
            ctxDone, connDone, connErr, readErr, eofClean, result>>
      /\ main = "slot" /\ connDone
  BY DEF SlotCanceled, ioVars, ctxVars, endVars
<1>1. TypeOK'
  BY <1>0, Bounds DEF IInv, TypeOK
<1>2. SlotInv'
  BY <1>0, Bounds DEF IInv, TypeOK, SlotInv, MainInv, InFlight
<1>3. MainInv'
  BY <1>0, Bounds DEF IInv, TypeOK, SlotInv, MainInv, LockInv
<1>4. LockInv'
  BY <1>0, Bounds DEF IInv, TypeOK, MainInv, LockInv
<1>5. WireInv'
  BY <1>0, Bounds DEF IInv, TypeOK, SlotInv, MainInv, LockInv, WireInv, RepliesInOrder
<1>6. EndInv'
  BY <1>0, Bounds DEF IInv, TypeOK, MainInv, EndInv, ResultIsTruthful
<1>. QED
  BY <1>1, <1>2, <1>3, <1>4, <1>5, <1>6 DEF IInv

(* NoReply keeps the invariant: a message without a reply is finished.     *)
LEMMA NoReplyStep ==
    ASSUME IInv, NEW m \in Messages, NoReply(m)
    PROVE  IInv'
<1>0. /\ pc' = [pc EXCEPT ![m] = "done"]
      /\ slots' = IF limit = 1 THEN slots ELSE slots - 1
      /\ UNCHANGED <<limit, main, read, lock, latched, wire, owed, ctxDone,
            connDone, connErr, readErr, eofClean, result>>
      /\ pc[m] = "running"
  BY DEF NoReply, finishMessage, goto, ioVars, ctxVars, endVars
<1>1. TypeOK'
  <2>1. slots' \in 0 .. limit
    BY <1>0, WriterEnds, Bounds DEF IInv
  <2>. QED
    BY <1>0, <2>1, Bounds DEF IInv, TypeOK
<1>2. SlotInv'
  <2>. QED
    BY <1>0, WriterEnds, Bounds DEF IInv
<1>3. MainInv'
  BY <1>0, Bounds DEF IInv, TypeOK, SlotInv, MainInv, LockInv
<1>4. LockInv'
  BY <1>0, Bounds DEF IInv, TypeOK, MainInv, LockInv
<1>5. WireInv'
  BY <1>0, Bounds DEF IInv, TypeOK, SlotInv, MainInv, LockInv, WireInv, RepliesInOrder
<1>6. EndInv'
  BY <1>0, Bounds DEF IInv, TypeOK, MainInv, EndInv, ResultIsTruthful
<1>. QED
  BY <1>1, <1>2, <1>3, <1>4, <1>5, <1>6 DEF IInv

(* HasReply keeps the invariant: a message has a reply.                    *)
LEMMA HasReplyStep ==
    ASSUME IInv, NEW m \in Messages, HasReply(m)
    PROVE  IInv'
<1>0. /\ pc' = [pc EXCEPT ![m] = "write"]
      /\ owed' = owed \cup {m}
      /\ UNCHANGED <<limit, main, read, slots, lock, latched, wire, ctxDone,
            connDone, connErr, readErr, eofClean, result>>
      /\ pc[m] = "running"
  BY DEF HasReply, goto, ioVars, ctxVars, endVars
<1>1. TypeOK'
  BY <1>0, Bounds DEF IInv, TypeOK
<1>2. SlotInv'
  BY <1>0, Bounds DEF IInv, TypeOK, SlotInv, MainInv, InFlight
<1>3. MainInv'
  BY <1>0, Bounds DEF IInv, TypeOK, SlotInv, MainInv, LockInv
<1>4. LockInv'
  BY <1>0, Bounds DEF IInv, TypeOK, MainInv, LockInv
<1>5. WireInv'
  BY <1>0, Bounds DEF IInv, TypeOK, SlotInv, MainInv, LockInv, WireInv, RepliesInOrder
<1>6. EndInv'
  BY <1>0, Bounds DEF IInv, TypeOK, MainInv, EndInv, ResultIsTruthful
<1>. QED
  BY <1>1, <1>2, <1>3, <1>4, <1>5, <1>6 DEF IInv

(* DispatchPanics keeps the invariant: a dispatch panics.                  *)
LEMMA DispatchPanicsStep ==
    ASSUME IInv, NEW m \in Messages, DispatchPanics(m)
    PROVE  IInv'
<1>0. /\ pc' = [pc EXCEPT ![m] = "done"]
      /\ slots' = IF limit = 1 THEN slots ELSE slots - 1
      /\ connErr' = IF connErr = "none" THEN "panic" ELSE connErr
      /\ connDone' = TRUE
      /\ UNCHANGED <<limit, main, read, lock, latched, wire, owed, ctxDone,
            readErr, eofClean, result>>
      /\ pc[m] = "running"
  BY DEF DispatchPanics, finishMessage, goto, fail, cancelOnFail, ioVars, ctxVars,
         endVars
<1>1. TypeOK'
  <2>1. slots' \in 0 .. limit
    BY <1>0, WriterEnds, Bounds DEF IInv
  <2>. QED
    BY <1>0, <2>1, Bounds DEF IInv, TypeOK
<1>2. SlotInv'
  <2>. QED
    BY <1>0, WriterEnds, Bounds DEF IInv
<1>3. MainInv'
  BY <1>0, Bounds DEF IInv, TypeOK, SlotInv, MainInv, LockInv
<1>4. LockInv'
  BY <1>0, Bounds DEF IInv, TypeOK, MainInv, LockInv
<1>5. WireInv'
  BY <1>0, Bounds DEF IInv, TypeOK, SlotInv, MainInv, LockInv, WireInv, RepliesInOrder
<1>6. EndInv'
  BY <1>0, Bounds DEF IInv, TypeOK, MainInv, EndInv, ResultIsTruthful
<1>. QED
  BY <1>1, <1>2, <1>3, <1>4, <1>5, <1>6 DEF IInv

(* BeginNotify keeps the invariant: a background goroutine calls Notify.   *)
LEMMA BeginNotifyStep ==
    ASSUME IInv, NEW p \in Pushers, BeginNotify(p)
    PROVE  IInv'
<1>0. /\ pc' = [pc EXCEPT ![p] = "write"]
      /\ UNCHANGED <<limit, main, read, slots, lock, latched, wire, owed,
            ctxDone, connDone, connErr, readErr, eofClean, result>>
      /\ pc[p] = "none"
  BY DEF BeginNotify, goto, ioVars, ctxVars, endVars
<1>1. TypeOK'
  BY <1>0, Bounds DEF IInv, TypeOK
<1>2. SlotInv'
  <2>1. \A m \in Messages : pc'[m] = pc[m]
    BY <1>0, Bounds DEF IInv, TypeOK
  <2>2. InFlight' = InFlight
    BY <2>1 DEF InFlight
  <2>. QED
    BY <1>0, <2>1, <2>2 DEF IInv, SlotInv
<1>3. MainInv'
  BY <1>0, Bounds DEF IInv, TypeOK, SlotInv, MainInv, LockInv
<1>4. LockInv'
  BY <1>0, Bounds DEF IInv, TypeOK, MainInv, LockInv
<1>5. WireInv'
  BY <1>0, Bounds DEF IInv, TypeOK, SlotInv, MainInv, LockInv, WireInv, RepliesInOrder
<1>6. EndInv'
  BY <1>0, Bounds DEF IInv, TypeOK, MainInv, EndInv, ResultIsTruthful
<1>. QED
  BY <1>1, <1>2, <1>3, <1>4, <1>5, <1>6 DEF IInv

(* WriteRefused keeps the invariant: the latched writer refuses a frame.   *)
LEMMA WriteRefusedStep ==
    ASSUME IInv, NEW w \in Writers, WriteRefused(w)
    PROVE  IInv'
<1>0. /\ pc' = [pc EXCEPT ![w] = "done"]
      /\ slots' = IF w \in Messages /\ limit # 1 THEN slots - 1 ELSE slots
      /\ UNCHANGED <<limit, main, read, lock, latched, wire, owed, ctxDone,
            connDone, connErr, readErr, eofClean, result>>
      /\ pc[w] = "write" /\ lock = None /\ latched
  BY DEF WriteRefused, finishWriter, finishMessage, goto, ioVars, ctxVars, endVars
<1>1. TypeOK'
  <2>1. slots' \in 0 .. limit
    BY <1>0, WriterEnds, Bounds DEF IInv
  <2>. QED
    BY <1>0, <2>1, Bounds DEF IInv, TypeOK
<1>2. SlotInv'
  <2>. QED
    BY <1>0, WriterEnds, Bounds DEF IInv
<1>3. MainInv'
  BY <1>0, Bounds DEF IInv, TypeOK, SlotInv, MainInv, LockInv
<1>4. LockInv'
  BY <1>0, Bounds DEF IInv, TypeOK, MainInv, LockInv
<1>5. WireInv'
  BY <1>0, Bounds DEF IInv, TypeOK, SlotInv, MainInv, LockInv, WireInv, RepliesInOrder
<1>6. EndInv'
  BY <1>0, Bounds DEF IInv, TypeOK, MainInv, EndInv, ResultIsTruthful
<1>. QED
  BY <1>1, <1>2, <1>3, <1>4, <1>5, <1>6 DEF IInv

(* BeginWrite keeps the invariant: a write begins.                         *)
LEMMA BeginWriteStep ==
    ASSUME IInv, NEW w \in Writers, BeginWrite(w)
    PROVE  IInv'
<1>0. /\ pc' = [pc EXCEPT ![w] = "writing"]
      /\ lock' = w
      /\ UNCHANGED <<limit, main, read, slots, latched, wire, owed, ctxDone,
            connDone, connErr, readErr, eofClean, result>>
      /\ pc[w] = "write" /\ lock = None /\ ~latched
  BY DEF BeginWrite, goto, ioVars, ctxVars, endVars
<1>1. TypeOK'
  BY <1>0, Bounds DEF IInv, TypeOK
<1>2. SlotInv'
  BY <1>0, Bounds DEF IInv, TypeOK, SlotInv, MainInv, InFlight
<1>3. MainInv'
  BY <1>0, Bounds DEF IInv, TypeOK, SlotInv, MainInv, LockInv
<1>4. LockInv'
  BY <1>0, Bounds DEF IInv, TypeOK, MainInv, LockInv
<1>5. WireInv'
  BY <1>0, Bounds DEF IInv, TypeOK, SlotInv, MainInv, LockInv, WireInv, RepliesInOrder
<1>6. EndInv'
  BY <1>0, Bounds DEF IInv, TypeOK, MainInv, EndInv, ResultIsTruthful
<1>. QED
  BY <1>1, <1>2, <1>3, <1>4, <1>5, <1>6 DEF IInv

(* WriteFrame keeps the invariant: a frame is written.                     *)
LEMMA WriteFrameStep ==
    ASSUME IInv, NEW w \in Writers, WriteFrame(w)
    PROVE  IInv'
<1>0. /\ pc' = [pc EXCEPT ![w] = "done"]
      /\ slots' = IF w \in Messages /\ limit # 1 THEN slots - 1 ELSE slots
      /\ lock' = None
      /\ wire' = Append(wire, [from |-> w, whole |-> TRUE])
      /\ UNCHANGED <<limit, main, read, latched, owed, ctxDone, connDone,
            connErr, readErr, eofClean, result>>
      /\ pc[w] = "writing"
  BY DEF WriteFrame, finishWriter, finishMessage, goto, ioVars, ctxVars, endVars
<1>1. TypeOK'
  <2>1. slots' \in 0 .. limit
    BY <1>0, WriterEnds, Bounds DEF IInv
  <2>2. wire' \in Seq([from: Writers, whole: BOOLEAN])
    BY <1>0 DEF IInv, TypeOK
  <2>. QED
    BY <1>0, <2>1, <2>2, Bounds DEF IInv, TypeOK
<1>2. SlotInv'
  <2>. QED
    BY <1>0, WriterEnds, Bounds DEF IInv
<1>3. MainInv'
  BY <1>0, Bounds DEF IInv, TypeOK, SlotInv, MainInv, LockInv
<1>4. LockInv'
  BY <1>0, Bounds DEF IInv, TypeOK, MainInv, LockInv
<1>5. WireInv'
  <2>0. PICK f \in [from: Writers, whole: BOOLEAN] :
            f.from = w /\ f.whole = TRUE /\ f = [from |-> w, whole |-> TRUE]
    OBVIOUS
  <2>. DEFINE n == Len(wire) + 1
  <2>a. wire' = Append(wire, f)
    BY <1>0, <2>0
  <2>. DEFINE Frames == [from: Writers, whole: BOOLEAN]
  <2>b. f \in Frames /\ wire \in Seq(Frames)
    BY <2>0 DEF IInv, TypeOK
  <2>c. \A g \in Frames : g.from \in Writers
    OBVIOUS
  <2>. HIDE DEF Frames
  <2>d. /\ Len(wire') = n /\ n \in Nat \ {0} /\ DOMAIN wire' = 1 .. n /\ DOMAIN wire = 1 .. n - 1
        /\ wire'[n] = f /\ \A k \in 1 .. n - 1 : wire'[k] = wire[k] /\ wire[k] \in Frames
    BY <2>a, <2>b, Appended
  <2>1. /\ Len(wire') = n /\ n \in Nat \ {0} /\ DOMAIN wire' = 1 .. n /\ DOMAIN wire = 1 .. n - 1
        /\ wire'[n].from = w /\ wire'[n].whole = TRUE
        /\ \A k \in 1 .. n - 1 : wire'[k] = wire[k] /\ wire[k].from \in Writers
    BY <2>0, <2>c, <2>d
  <2>. HIDE DEF n
  <2>2. ~latched
    BY <1>0 DEF IInv, LockInv
  <2>3. \A k \in DOMAIN wire : wire[k].from # w /\ wire[k].whole
    BY <1>0, <2>2 DEF IInv, WireInv
  <2>4. \A k \in DOMAIN wire' : pc'[wire'[k].from] \in {"failing", "done"}
    BY <1>0, <2>1 DEF IInv, TypeOK, WireInv
  <2>5. \A j, k \in DOMAIN wire' : wire'[j].from = wire'[k].from => j = k
    BY <2>1, <2>3 DEF IInv, WireInv
  <2>6. ~latched' => \A k \in DOMAIN wire' : wire'[k].whole
    BY <1>0, <2>1, <2>2, <2>3
  <2>7. ASSUME NEW k \in DOMAIN wire', NEW l \in DOMAIN wire', k < l
        PROVE  /\ wire'[k].whole
               /\ limit' = 1 /\ {wire'[k].from, wire'[l].from} \subseteq Messages
                     => wire'[k].from < wire'[l].from
    <3>1. wire'[k].whole
      BY <2>1, <2>3, <2>7
    <3>2. CASE l # n
      BY <1>0, <2>1, <2>7, <3>1, <3>2 DEF IInv, WireInv, RepliesInOrder
    <3>3. CASE l = n
      <4>1. SUFFICES ASSUME limit = 1, wire[k].from \in Messages, w \in Messages
                     PROVE  wire[k].from < w
        BY <1>0, <2>1, <2>7, <3>1, <3>3
      <4>2. w = read
        BY <1>0, <4>1 DEF IInv, SlotInv
      <4>3. k \in DOMAIN wire
        BY <2>1, <2>7, <3>3
      <4>4. pc[wire[k].from] # "none" /\ wire[k].from # w
        BY <2>3, <4>3 DEF IInv, WireInv
      <4>. QED
        BY <4>1, <4>2, <4>4, Bounds DEF IInv, TypeOK, MainInv
    <3>. QED
      BY <3>2, <3>3
  <2>8. ASSUME NEW m \in Messages
        PROVE  /\ pc'[m] \in {"none", "running"} => m \notin owed'
               /\ m \in owed' /\ pc'[m] = "done" =>
                     connErr' # "none" \/ \E k \in DOMAIN wire' : wire'[k].from = m
    <3>1. CASE m = w
      BY <1>0, <2>1, <3>1, Bounds DEF IInv, TypeOK
    <3>2. CASE m # w
      <4>1. pc'[m] = pc[m]
        BY <1>0, <3>2, Bounds DEF IInv, TypeOK
      <4>. QED
        BY <1>0, <2>1, <4>1 DEF IInv, WireInv
    <3>. QED
      BY <3>1, <3>2
  <2>9. RepliesInOrder'
    BY <2>7 DEF RepliesInOrder
  <2>. QED
    BY <2>4, <2>5, <2>6, <2>8, <2>9 DEF WireInv
<1>6. EndInv'
  BY <1>0, Bounds DEF IInv, TypeOK, MainInv, EndInv, ResultIsTruthful
<1>. QED
  BY <1>1, <1>2, <1>3, <1>4, <1>5, <1>6 DEF IInv

(* Unframeable keeps the invariant: a frame that cannot be written is      *)
(* lost.                                                                   *)
LEMMA UnframeableStep ==
    ASSUME IInv, NEW w \in Writers, Unframeable(w)
    PROVE  IInv'
<1>0. /\ pc' = [pc EXCEPT ![w] = "done"]
      /\ slots' = IF w \in Messages /\ limit # 1 THEN slots - 1 ELSE slots
      /\ lock' = None
      /\ owed' = owed \ {w}
      /\ UNCHANGED <<limit, main, read, latched, wire, ctxDone, connDone,
            connErr, readErr, eofClean, result>>
      /\ pc[w] = "writing"
  BY DEF Unframeable, finishWriter, finishMessage, goto, ioVars, ctxVars, endVars
<1>1. TypeOK'
  <2>1. slots' \in 0 .. limit
    BY <1>0, WriterEnds, Bounds DEF IInv
  <2>. QED
    BY <1>0, <2>1, Bounds DEF IInv, TypeOK
<1>2. SlotInv'
  <2>. QED
    BY <1>0, WriterEnds, Bounds DEF IInv
<1>3. MainInv'
  BY <1>0, Bounds DEF IInv, TypeOK, SlotInv, MainInv, LockInv
<1>4. LockInv'
  BY <1>0, Bounds DEF IInv, TypeOK, MainInv, LockInv
<1>5. WireInv'
  BY <1>0, Bounds DEF IInv, TypeOK, SlotInv, MainInv, LockInv, WireInv, RepliesInOrder
<1>6. EndInv'
  BY <1>0, Bounds DEF IInv, TypeOK, MainInv, EndInv, ResultIsTruthful
<1>. QED
  BY <1>1, <1>2, <1>3, <1>4, <1>5, <1>6 DEF IInv

(* WriteBreaks keeps the invariant: a write breaks.                        *)
LEMMA WriteBreaksStep ==
    ASSUME IInv, NEW w \in Writers, WriteBreaks(w)
    PROVE  IInv'
<1>0. /\ pc' = [pc EXCEPT ![w] = "failing"]
      /\ latched' = TRUE
      /\ wire' = Append(wire, [from |-> w, whole |-> FALSE])
      /\ UNCHANGED <<limit, main, read, slots, lock, owed, ctxDone, connDone,
            connErr, readErr, eofClean, result>>
      /\ pc[w] = "writing"
  BY DEF WriteBreaks, latchOnFailure, goto, ioVars, ctxVars, endVars
<1>1. TypeOK'
  BY <1>0, Bounds DEF IInv, TypeOK
<1>2. SlotInv'
  BY <1>0, Bounds DEF IInv, TypeOK, SlotInv, MainInv, InFlight
<1>3. MainInv'
  BY <1>0, Bounds DEF IInv, TypeOK, SlotInv, MainInv, LockInv
<1>4. LockInv'
  BY <1>0, Bounds DEF IInv, TypeOK, MainInv, LockInv
<1>5. WireInv'
  <2>0. PICK f \in [from: Writers, whole: BOOLEAN] :
            f.from = w /\ f.whole = FALSE /\ f = [from |-> w, whole |-> FALSE]
    OBVIOUS
  <2>. DEFINE n == Len(wire) + 1
  <2>a. wire' = Append(wire, f)
    BY <1>0, <2>0
  <2>. DEFINE Frames == [from: Writers, whole: BOOLEAN]
  <2>b. f \in Frames /\ wire \in Seq(Frames)
    BY <2>0 DEF IInv, TypeOK
  <2>c. \A g \in Frames : g.from \in Writers
    OBVIOUS
  <2>. HIDE DEF Frames
  <2>d. /\ Len(wire') = n /\ n \in Nat \ {0} /\ DOMAIN wire' = 1 .. n /\ DOMAIN wire = 1 .. n - 1
        /\ wire'[n] = f /\ \A k \in 1 .. n - 1 : wire'[k] = wire[k] /\ wire[k] \in Frames
    BY <2>a, <2>b, Appended
  <2>1. /\ Len(wire') = n /\ n \in Nat \ {0} /\ DOMAIN wire' = 1 .. n /\ DOMAIN wire = 1 .. n - 1
        /\ wire'[n].from = w /\ wire'[n].whole = FALSE
        /\ \A k \in 1 .. n - 1 : wire'[k] = wire[k] /\ wire[k].from \in Writers
    BY <2>0, <2>c, <2>d
  <2>. HIDE DEF n
  <2>2. ~latched
    BY <1>0 DEF IInv, LockInv
  <2>3. \A k \in DOMAIN wire : wire[k].from # w /\ wire[k].whole
    BY <1>0, <2>2 DEF IInv, WireInv
  <2>4. \A k \in DOMAIN wire' : pc'[wire'[k].from] \in {"failing", "done"}
    BY <1>0, <2>1 DEF IInv, TypeOK, WireInv
  <2>5. \A j, k \in DOMAIN wire' : wire'[j].from = wire'[k].from => j = k
    BY <2>1, <2>3 DEF IInv, WireInv
  <2>6. ~latched' => \A k \in DOMAIN wire' : wire'[k].whole
    BY <1>0, <2>1, <2>2, <2>3
  <2>7. ASSUME NEW k \in DOMAIN wire', NEW l \in DOMAIN wire', k < l
        PROVE  /\ wire'[k].whole
               /\ limit' = 1 /\ {wire'[k].from, wire'[l].from} \subseteq Messages
                     => wire'[k].from < wire'[l].from
    <3>1. wire'[k].whole
      BY <2>1, <2>3, <2>7
    <3>2. CASE l # n
      BY <1>0, <2>1, <2>7, <3>1, <3>2 DEF IInv, WireInv, RepliesInOrder
    <3>3. CASE l = n
      <4>1. SUFFICES ASSUME limit = 1, wire[k].from \in Messages, w \in Messages
                     PROVE  wire[k].from < w
        BY <1>0, <2>1, <2>7, <3>1, <3>3
      <4>2. w = read
        BY <1>0, <4>1 DEF IInv, SlotInv
      <4>3. k \in DOMAIN wire
        BY <2>1, <2>7, <3>3
      <4>4. pc[wire[k].from] # "none" /\ wire[k].from # w
        BY <2>3, <4>3 DEF IInv, WireInv
      <4>. QED
        BY <4>1, <4>2, <4>4, Bounds DEF IInv, TypeOK, MainInv
    <3>. QED
      BY <3>2, <3>3
  <2>8. ASSUME NEW m \in Messages
        PROVE  /\ pc'[m] \in {"none", "running"} => m \notin owed'
               /\ m \in owed' /\ pc'[m] = "done" =>
                     connErr' # "none" \/ \E k \in DOMAIN wire' : wire'[k].from = m
    <3>1. CASE m = w
      BY <1>0, <2>1, <3>1, Bounds DEF IInv, TypeOK
    <3>2. CASE m # w
      <4>1. pc'[m] = pc[m]
        BY <1>0, <3>2, Bounds DEF IInv, TypeOK
      <4>. QED
        BY <1>0, <2>1, <4>1 DEF IInv, WireInv
    <3>. QED
      BY <3>1, <3>2
  <2>9. RepliesInOrder'
    BY <2>7 DEF RepliesInOrder
  <2>. QED
    BY <2>4, <2>5, <2>6, <2>8, <2>9 DEF WireInv
<1>6. EndInv'
  BY <1>0, Bounds DEF IInv, TypeOK, MainInv, EndInv, ResultIsTruthful
<1>. QED
  BY <1>1, <1>2, <1>3, <1>4, <1>5, <1>6 DEF IInv

(* WriteFailed keeps the invariant: a broken write fails the connection.   *)
LEMMA WriteFailedStep ==
    ASSUME IInv, NEW w \in Writers, WriteFailed(w)
    PROVE  IInv'
<1>0. /\ pc' = [pc EXCEPT ![w] = "done"]
      /\ slots' = IF w \in Messages /\ limit # 1 THEN slots - 1 ELSE slots
      /\ lock' = None
      /\ connErr' = IF connErr = "none" THEN "write" ELSE connErr
      /\ connDone' = TRUE
      /\ UNCHANGED <<limit, main, read, latched, wire, owed, ctxDone, readErr,
            eofClean, result>>
      /\ pc[w] = "failing"
  BY DEF WriteFailed, finishWriter, finishMessage, goto, fail, cancelOnFail, ioVars,
         ctxVars, endVars
<1>1. TypeOK'
  <2>1. slots' \in 0 .. limit
    BY <1>0, WriterEnds, Bounds DEF IInv
  <2>. QED
    BY <1>0, <2>1, Bounds DEF IInv, TypeOK
<1>2. SlotInv'
  <2>. QED
    BY <1>0, WriterEnds, Bounds DEF IInv
<1>3. MainInv'
  BY <1>0, Bounds DEF IInv, TypeOK, SlotInv, MainInv, LockInv
<1>4. LockInv'
  BY <1>0, Bounds DEF IInv, TypeOK, MainInv, LockInv
<1>5. WireInv'
  BY <1>0, Bounds DEF IInv, TypeOK, SlotInv, MainInv, LockInv, WireInv, RepliesInOrder
<1>6. EndInv'
  BY <1>0, Bounds DEF IInv, TypeOK, MainInv, EndInv, ResultIsTruthful
<1>. QED
  BY <1>1, <1>2, <1>3, <1>4, <1>5, <1>6 DEF IInv

(* CancelInFlight keeps the invariant: serve leaves.                       *)
LEMMA CancelInFlightStep ==
    ASSUME IInv, CancelInFlight
    PROVE  IInv'
<1>0. /\ connDone' = (connDone \/ ~eofClean)
      /\ main' = "draining"
      /\ UNCHANGED <<limit, read, slots, pc, lock, latched, wire, owed,
            ctxDone, connErr, readErr, eofClean, result>>
      /\ main = "exit"
  BY DEF CancelInFlight, ioVars, ctxVars, endVars
<1>1. TypeOK'
  BY <1>0, Bounds DEF IInv, TypeOK
<1>2. SlotInv'
  BY <1>0, Bounds DEF IInv, TypeOK, SlotInv, MainInv, InFlight
<1>3. MainInv'
  BY <1>0, Bounds DEF IInv, TypeOK, SlotInv, MainInv, LockInv
<1>4. LockInv'
  BY <1>0, Bounds DEF IInv, TypeOK, MainInv, LockInv
<1>5. WireInv'
  BY <1>0, Bounds DEF IInv, TypeOK, SlotInv, MainInv, LockInv, WireInv, RepliesInOrder
<1>6. EndInv'
  BY <1>0, Bounds DEF IInv, TypeOK, MainInv, EndInv, ResultIsTruthful
<1>. QED
  BY <1>1, <1>2, <1>3, <1>4, <1>5, <1>6 DEF IInv

(* Drain keeps the invariant: serve has waited for its messages.           *)
LEMMA DrainStep ==
    ASSUME IInv, Drain
    PROVE  IInv'
<1>0. /\ main' = "latching"
      /\ UNCHANGED <<limit, read, slots, pc, lock, latched, wire, owed,
            ctxDone, connDone, connErr, readErr, eofClean, result>>
      /\ main = "draining"
      /\ \A m \in Messages : pc[m] \in {"none", "done"}
  BY DEF Drain, drained, ioVars, ctxVars, endVars
<1>1. TypeOK'
  BY <1>0, Bounds DEF IInv, TypeOK
<1>2. SlotInv'
  BY <1>0, Bounds DEF IInv, TypeOK, SlotInv, MainInv, InFlight
<1>3. MainInv'
  BY <1>0, Bounds DEF IInv, TypeOK, SlotInv, MainInv, LockInv
<1>4. LockInv'
  BY <1>0, Bounds DEF IInv, TypeOK, MainInv, LockInv
<1>5. WireInv'
  BY <1>0, Bounds DEF IInv, TypeOK, SlotInv, MainInv, LockInv, WireInv, RepliesInOrder
<1>6. EndInv'
  BY <1>0, Bounds DEF IInv, TypeOK, MainInv, EndInv, ResultIsTruthful
<1>. QED
  BY <1>1, <1>2, <1>3, <1>4, <1>5, <1>6 DEF IInv

(* LatchWriter keeps the invariant: serve latches the writer.              *)
LEMMA LatchWriterStep ==
    ASSUME IInv, LatchWriter
    PROVE  IInv'
<1>0. /\ latched' = TRUE
      /\ main' = "deciding"
      /\ UNCHANGED <<limit, read, slots, pc, lock, wire, owed, ctxDone,
            connDone, connErr, readErr, eofClean, result>>
      /\ main = "latching" /\ lock = None
  BY DEF LatchWriter, mutexFree, latchOnExit, ioVars, ctxVars, endVars
<1>1. TypeOK'
  BY <1>0, Bounds DEF IInv, TypeOK
<1>2. SlotInv'
  BY <1>0, Bounds DEF IInv, TypeOK, SlotInv, MainInv, InFlight
<1>3. MainInv'
  BY <1>0, Bounds DEF IInv, TypeOK, SlotInv, MainInv, LockInv
<1>4. LockInv'
  BY <1>0, Bounds DEF IInv, TypeOK, MainInv, LockInv
<1>5. WireInv'
  BY <1>0, Bounds DEF IInv, TypeOK, SlotInv, MainInv, LockInv, WireInv, RepliesInOrder
<1>6. EndInv'
  BY <1>0, Bounds DEF IInv, TypeOK, MainInv, EndInv, ResultIsTruthful
<1>. QED
  BY <1>1, <1>2, <1>3, <1>4, <1>5, <1>6 DEF IInv

(* Decide keeps the invariant: serve chooses its result.                   *)
LEMMA DecideStep ==
    ASSUME IInv, Decide
    PROVE  IInv'
<1>0. /\ result' = CASE connErr # "none" -> "connError"
                     [] connErr = "none" /\ eofClean -> "nil"
                     [] connErr = "none" /\ ~eofClean /\ ctxDone -> "ctxError"
                     [] connErr = "none" /\ ~eofClean /\ ~ctxDone /\ readErr -> "readError"
                     [] OTHER -> "nil"
      /\ main' = "returned"
      /\ connDone' = TRUE
      /\ UNCHANGED <<limit, read, slots, pc, lock, latched, wire, owed,
            ctxDone, connErr, readErr, eofClean>>
      /\ main = "deciding"
  BY DEF Decide, ioVars, ctxVars, endVars
<1>1. TypeOK'
  BY <1>0, Bounds DEF IInv, TypeOK
<1>2. SlotInv'
  BY <1>0, Bounds DEF IInv, TypeOK, SlotInv, MainInv, InFlight
<1>3. MainInv'
  BY <1>0, Bounds DEF IInv, TypeOK, SlotInv, MainInv, LockInv
<1>4. LockInv'
  BY <1>0, Bounds DEF IInv, TypeOK, MainInv, LockInv
<1>5. WireInv'
  BY <1>0, Bounds DEF IInv, TypeOK, SlotInv, MainInv, LockInv, WireInv, RepliesInOrder
<1>6. EndInv'
  BY <1>0, Bounds DEF IInv, TypeOK, MainInv, EndInv, ResultIsTruthful
<1>. QED
  BY <1>1, <1>2, <1>3, <1>4, <1>5, <1>6 DEF IInv

(* CancelCtx keeps the invariant: the caller cancels.                      *)
LEMMA CancelCtxStep ==
    ASSUME IInv, CancelCtx
    PROVE  IInv'
<1>0. /\ ctxDone' = TRUE
      /\ UNCHANGED <<limit, main, read, slots, pc, lock, latched, wire, owed,
            connDone, connErr, readErr, eofClean, result>>
      /\ main # "returned"
  BY DEF CancelCtx, ioVars, ctxVars, endVars
<1>1. TypeOK'
  BY <1>0, Bounds DEF IInv, TypeOK
<1>2. SlotInv'
  BY <1>0, Bounds DEF IInv, TypeOK, SlotInv, MainInv, InFlight
<1>3. MainInv'
  BY <1>0, Bounds DEF IInv, TypeOK, SlotInv, MainInv, LockInv
<1>4. LockInv'
  BY <1>0, Bounds DEF IInv, TypeOK, MainInv, LockInv
<1>5. WireInv'
  BY <1>0, Bounds DEF IInv, TypeOK, SlotInv, MainInv, LockInv, WireInv, RepliesInOrder
<1>6. EndInv'
  BY <1>0, Bounds DEF IInv, TypeOK, MainInv, EndInv, ResultIsTruthful
<1>. QED
  BY <1>1, <1>2, <1>3, <1>4, <1>5, <1>6 DEF IInv

(* PropagateCancel keeps the invariant: the cancellation reaches the       *)
(* connection.                                                             *)
LEMMA PropagateCancelStep ==
    ASSUME IInv, PropagateCancel
    PROVE  IInv'
<1>0. /\ connDone' = TRUE
      /\ UNCHANGED <<limit, main, read, slots, pc, lock, latched, wire, owed,
            ctxDone, connErr, readErr, eofClean, result>>
      /\ ctxDone
  BY DEF PropagateCancel, ioVars, ctxVars, endVars
<1>1. TypeOK'
  BY <1>0, Bounds DEF IInv, TypeOK
<1>2. SlotInv'
  BY <1>0, Bounds DEF IInv, TypeOK, SlotInv, MainInv, InFlight
<1>3. MainInv'
  BY <1>0, Bounds DEF IInv, TypeOK, SlotInv, MainInv, LockInv
<1>4. LockInv'
  BY <1>0, Bounds DEF IInv, TypeOK, MainInv, LockInv
<1>5. WireInv'
  BY <1>0, Bounds DEF IInv, TypeOK, SlotInv, MainInv, LockInv, WireInv, RepliesInOrder
<1>6. EndInv'
  BY <1>0, Bounds DEF IInv, TypeOK, MainInv, EndInv, ResultIsTruthful
<1>. QED
  BY <1>1, <1>2, <1>3, <1>4, <1>5, <1>6 DEF IInv

(***************************************************************************)
(* The invariant holds at the start and every step keeps it.               *)
(***************************************************************************)

(* A call of Serve starts in a state that satisfies the invariant. *)
LEMMA IInvInit == Init => IInv
<1>. SUFFICES ASSUME Init PROVE IInv
  OBVIOUS
<1>1. TypeOK
  <2>1. limit \in Nat \ {0} /\ read \in 0 .. MaxMessages /\ slots \in 0 .. limit
    BY Bounds DEF Init
  <2>2. pc \in [Writers -> {"none", "running", "write", "writing", "failing", "done"}]
    BY DEF Init
  <2>3. wire \in Seq([from: Writers, whole: BOOLEAN])
    BY DEF Init
  <2>. QED
    BY <2>1, <2>2, <2>3 DEF Init, TypeOK
<1>2. SlotInv
  <2>1. InFlight = {}
    BY Bounds DEF Init, InFlight
  <2>. QED
    BY <2>1, FS_EmptySet, Bounds DEF Init, SlotInv
<1>3. MainInv
  BY Bounds DEF Init, MainInv
<1>4. LockInv
  BY Bounds DEF Init, LockInv
<1>5. WireInv
  BY Bounds DEF Init, WireInv, RepliesInOrder
<1>6. EndInv
  BY DEF Init, EndInv, ResultIsTruthful
<1>. QED
  BY <1>1, <1>2, <1>3, <1>4, <1>5, <1>6 DEF IInv

(* Every step keeps the invariant. *)
LEMMA IInvStep == IInv /\ [Next]_vars => IInv'
<1>. SUFFICES ASSUME IInv, [Next]_vars PROVE IInv'
  OBVIOUS
<1>1. CASE MainStep
  BY <1>1, CheckCanceledStep, InlineReturnsStep, TakeSlotStep, SlotCanceledStep,
     CancelInFlightStep, DrainStep, LatchWriterStep, DecideStep DEF MainStep
<1>2. CASE ReadFrame \/ ReadEOF \/ ReadFails
  BY <1>2, ReadFrameInlineStep, ReadFrameSlotStep, ReadEOFStep, ReadFailsStep
<1>3. ASSUME NEW m \in Messages, DispatchEnds(m) PROVE IInv'
  BY <1>3, NoReplyStep, HasReplyStep, DispatchPanicsStep DEF DispatchEnds
<1>4. ASSUME NEW p \in Pushers, BeginNotify(p) PROVE IInv'
  BY <1>4, BeginNotifyStep
<1>5. ASSUME NEW w \in Writers, WriterStep(w) PROVE IInv'
  BY <1>5, WriteRefusedStep, BeginWriteStep, WriteFrameStep, UnframeableStep,
     WriteBreaksStep, WriteFailedStep DEF WriterStep
<1>6. CASE CancelCtx \/ PropagateCancel
  BY <1>6, CancelCtxStep, PropagateCancelStep
<1>7. CASE UNCHANGED vars
  <2>0. UNCHANGED <<limit, main, read, slots, pc, lock, latched, wire, owed, ctxDone,
                    connDone, connErr, readErr, eofClean, result>>
    BY <1>7 DEF vars, ioVars, ctxVars, endVars
  <2>1. TypeOK'
    BY <2>0 DEF IInv, TypeOK
  <2>2. SlotInv'
    BY <2>0 DEF IInv, SlotInv, InFlight
  <2>3. MainInv' /\ LockInv'
    BY <2>0 DEF IInv, MainInv, LockInv
  <2>4. WireInv'
    BY <2>0 DEF IInv, WireInv, RepliesInOrder
  <2>5. EndInv'
    BY <2>0 DEF IInv, EndInv, ResultIsTruthful
  <2>. QED
    BY <2>1, <2>2, <2>3, <2>4, <2>5 DEF IInv
<1>. QED
  BY <1>1, <1>2, <1>3, <1>4, <1>5, <1>6, <1>7 DEF Next, Done

(* Every reachable state of a call of Serve satisfies the inductive        *)
(* invariant: the types, who holds a slot and the mutex, what is on the    *)
(* wire, why Serve leaves and what it returns.                             *)
THEOREM StdioServeInvariant == Spec => []IInv
BY IInvInit, IInvStep, PTL DEF Spec

(***************************************************************************)
(* The properties.                                                         *)
(***************************************************************************)

(* Every variable has its type; "slots" never exceeds its capacity, and no *)
(* token is given back that was not taken.                                 *)
THEOREM StdioServeTypeOK == Spec => []TypeOK
<1>1. IInv => TypeOK
  BY DEF IInv
<1>. QED
  BY <1>1, StdioServeInvariant, PTL

(* What Serve returns says how the connection ended, and by then the       *)
(* writer is latched and nobody is in the middle of a frame.               *)
THEOREM StdioServeResult == Spec => []ResultIsTruthful
<1>1. IInv => ResultIsTruthful
  BY DEF IInv, EndInv
<1>. QED
  BY <1>1, StdioServeInvariant, PTL

(* No frame follows a partial one, and with a limit of one the replies are *)
(* written in the order of the messages.                                   *)
THEOREM StdioServeOrder == Spec => []RepliesInOrder
<1>1. IInv => RepliesInOrder
  BY DEF IInv, WireInv
<1>. QED
  BY <1>1, StdioServeInvariant, PTL

(* When Serve returns nil every reply is on the wire, once. *)
THEOREM StdioServeOrderlyShutdown == Spec => []OrderlyShutdownRepliesAll
<1>1. IInv => OrderlyShutdownRepliesAll
  <2>. SUFFICES ASSUME IInv, main = "returned", result = "nil", NEW m \in owed
                PROVE  Cardinality({k \in DOMAIN wire : wire[k].from = m}) = 1
    BY DEF OrderlyShutdownRepliesAll
  <2>1. connErr = "none"
    BY DEF IInv, EndInv, ResultIsTruthful
  <2>2. m \in Messages /\ pc[m] \in {"none", "done"}
    BY DEF IInv, TypeOK, MainInv
  <2>3. PICK k \in DOMAIN wire : wire[k].from = m
    BY <2>1, <2>2 DEF IInv, WireInv
  <2>4. {j \in DOMAIN wire : wire[j].from = m} = {k}
    BY <2>3 DEF IInv, WireInv
  <2>. QED
    BY <2>4, FS_Singleton
<1>. QED
  BY <1>1, StdioServeInvariant, PTL

=============================================================================
