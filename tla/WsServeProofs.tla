--------------------------- MODULE WsServeProofs ---------------------------
(***************************************************************************)
(* Proofs about WsServe for every limit, every number of messages and      *)
(* background goroutines, and every interleaving.                          *)
(***************************************************************************)
EXTENDS WsServe, FiniteSetTheorems, TLAPS

(***************************************************************************)
(* The inductive invariant.                                                *)
(***************************************************************************)

(* Every variable has its type. *)
TypeInv ==
    /\ limit \in MaxCalls
    /\ main \in {"reading", "slot", "exit", "draining", "returned"}
    /\ read \in 0 .. MaxMessages
    /\ slots \in Nat
    /\ pc \in [Writers -> {"none", "running", "write", "writing", "failing",
                           "closing", "done"}]
    /\ owed \in SUBSET Messages
    /\ lock \in Writers \cup {None}
    /\ wire \in Seq(Writers)
    /\ conn \in {"open", "down"}
    /\ ctxDone \in BOOLEAN

(* A message has a goroutine once it has a slot, and owes a reply from the *)
(* moment its dispatch produced one.                                       *)
PlaceInv ==
    /\ main = "slot" => read \in Messages /\ pc[read] = "none"
    /\ \A m \in Messages :
          /\ m > read => pc[m] = "none"
          /\ m \in owed => pc[m] \notin {"none", "running"}
          /\ pc[m] \in {"write", "writing", "failing", "closing"} => m \in owed
    /\ \A p \in Pushers : pc[p] # "running"

(* The mutex is held across a write and across the teardown after it. *)
LockInv == \A w \in Writers : lock = w <=> pc[w] \in {"writing", "failing", "closing"}

(* Every frame on the wire is that of a writer that has finished, and a    *)
(* reply that is not there was lost with the connection.                   *)
WireInv ==
    /\ \A k \in DOMAIN wire : pc[wire[k]] = "done"
    /\ \A j, k \in DOMAIN wire : wire[j] = wire[k] => j = k
    /\ \A w \in Writers : pc[w] = "closing" => ctxDone
    /\ \A m \in owed :
          /\ pc[m] = "done"
          /\ \A k \in DOMAIN wire : wire[k] # m
          => conn = "down" /\ ctxDone

IInv == TypeInv /\ PlaceInv /\ LockInv /\ WireInv /\ InFlightBound

(* The messages that hold a slot. *)
inFlight == {m \in Messages : pc[m] \notin {"none", "done"}}

(* What the assumptions say of the constants. *)
LEMMA Bounds ==
    /\ MaxMessages \in Nat /\ MaxCalls \subseteq Nat \ {0}
    /\ Messages = 1 .. MaxMessages /\ Writers = Messages \cup Pushers
    /\ None \notin Writers /\ \A p \in Pushers : p \notin Messages
BY WsMaxMessagesAssumption, WsMaxCallsAssumption, WsPushersAssumption DEF Messages, Writers

(* The tokens are those of the messages in flight, each of which holds one. *)
LEMMA SlotsAreHeld ==
    ASSUME TypeInv, InFlightBound
    PROVE  /\ IsFiniteSet(inFlight) /\ Cardinality(inFlight) = slots
           /\ \A m \in inFlight : slots > 0 /\ Cardinality(inFlight \ {m}) = slots - 1
<1>1. IsFiniteSet(Messages)
  BY Bounds, FS_Interval
<1>2. IsFiniteSet(inFlight)
  BY <1>1, FS_Subset DEF inFlight
<1>3. Cardinality(inFlight) = slots
  BY DEF InFlightBound, inFlight
<1>4. ASSUME NEW m \in inFlight
      PROVE  slots > 0 /\ Cardinality(inFlight \ {m}) = slots - 1
  <2>1. Cardinality(inFlight \ {m}) = Cardinality(inFlight) - 1
    BY <1>2, FS_RemoveElement
  <2>2. Cardinality(inFlight \ {m}) \in Nat
    BY <1>2, FS_RemoveElement, FS_CardinalityType
  <2>. QED
    BY <1>3, <2>1, <2>2 DEF TypeInv
<1>. QED
  BY <1>2, <1>3, <1>4

(* The goroutine of a message gives its slot back when it ends, by finish. *)
LEMMA SlotReturned ==
    ASSUME TypeInv, InFlightBound, NEW m \in Messages, pc[m] \notin {"none", "done"},
           pc' = [pc EXCEPT ![m] = "done"], slots' = slots - 1, limit' = limit
    PROVE  slots' \in Nat /\ InFlightBound'
<1>1. m \in inFlight
  BY DEF inFlight
<1>2. inFlight' = inFlight \ {m}
  BY Bounds DEF inFlight, TypeInv
<1>3. slots > 0 /\ Cardinality(inFlight') = slots'
  BY <1>1, <1>2, SlotsAreHeld
<1>4. slots' \in Nat /\ slots' <= limit'
  BY <1>3, Bounds DEF TypeInv, InFlightBound
<1>. QED
  BY <1>3, <1>4 DEF InFlightBound, inFlight

(* A background goroutine holds no slot. *)
LEMMA SlotsUntouched ==
    ASSUME TypeInv, InFlightBound, NEW p \in Pushers, NEW l,
           pc' = [pc EXCEPT ![p] = l], slots' = slots, limit' = limit
    PROVE  InFlightBound'
<1>1. \A m \in Messages : pc'[m] = pc[m]
  BY Bounds DEF TypeInv
<1>. QED
  BY <1>1 DEF InFlightBound

(* What a write is the end of: the goroutine of a message, or a Notify. *)
LEMMA WriterEnds ==
    ASSUME IInv, NEW w \in Writers, pc[w] \notin {"none", "done"},
           pc' = [pc EXCEPT ![w] = "done"], limit' = limit,
           slots' = IF w \in Messages THEN slots - 1 ELSE slots
    PROVE  slots' \in Nat /\ InFlightBound'
<1>1. CASE w \in Messages
  BY <1>1, SlotReturned DEF IInv
<1>2. CASE w \notin Messages
  <2>1. w \in Pushers /\ slots' = slots
    BY <1>2, Bounds
  <2>. QED
    BY <2>1, SlotsUntouched DEF IInv, TypeInv
<1>. QED
  BY <1>1, <1>2

(* ReadFrame keeps the invariant: a message is read.                       *)
LEMMA ReadFrameStep ==
    ASSUME IInv, ReadFrame
    PROVE  IInv'
<1>0. /\ read' = read + 1
      /\ main' = "slot"
      /\ UNCHANGED <<limit, slots, pc, owed, lock, wire, conn, ctxDone>>
      /\ main = "reading" /\ read < MaxMessages
  BY DEF ReadFrame, msgVars, ioVars
<1>1. TypeInv'
  BY <1>0, Bounds DEF IInv, TypeInv
<1>2. PlaceInv'
  BY <1>0, Bounds DEF IInv, TypeInv, PlaceInv
<1>3. LockInv'
  BY <1>0, Bounds DEF IInv, TypeInv, LockInv
<1>4. WireInv'
  BY <1>0, Bounds DEF IInv, TypeInv, PlaceInv, LockInv, WireInv
<1>5. InFlightBound'
  BY <1>0, Bounds DEF IInv, TypeInv, InFlightBound
<1>. QED
  BY <1>1, <1>2, <1>3, <1>4, <1>5 DEF IInv

(* ReadFails keeps the invariant: reading is over.                         *)
LEMMA ReadFailsStep ==
    ASSUME IInv, ReadFails
    PROVE  IInv'
<1>0. /\ conn' = "down"
      /\ main' = "exit"
      /\ UNCHANGED <<limit, read, slots, pc, owed, lock, wire, ctxDone>>
      /\ main = "reading"
  BY DEF ReadFails, msgVars, ioVars
<1>1. TypeInv'
  BY <1>0, Bounds DEF IInv, TypeInv
<1>2. PlaceInv'
  BY <1>0, Bounds DEF IInv, TypeInv, PlaceInv
<1>3. LockInv'
  BY <1>0, Bounds DEF IInv, TypeInv, LockInv
<1>4. WireInv'
  BY <1>0, Bounds DEF IInv, TypeInv, PlaceInv, LockInv, WireInv
<1>5. InFlightBound'
  BY <1>0, Bounds DEF IInv, TypeInv, InFlightBound
<1>. QED
  BY <1>1, <1>2, <1>3, <1>4, <1>5 DEF IInv

(* TakeSlot keeps the invariant: a message gets a slot.                    *)
LEMMA TakeSlotStep ==
    ASSUME IInv, TakeSlot
    PROVE  IInv'
<1>0. /\ slots' = slots + 1
      /\ pc' = [pc EXCEPT ![read] = "running"]
      /\ main' = "reading"
      /\ UNCHANGED <<limit, read, owed, lock, wire, conn, ctxDone>>
      /\ main = "slot" /\ slots < limit
  BY DEF TakeSlot, slotFree, goto, msgVars, ioVars
<1>1. TypeInv'
  <2>1. limit \in Nat /\ slots + 1 \in Nat
    BY Bounds DEF IInv, TypeInv
  <2>. QED
    BY <1>0, <2>1, Bounds DEF IInv, TypeInv
<1>2. PlaceInv'
  BY <1>0, Bounds DEF IInv, TypeInv, PlaceInv
<1>3. LockInv'
  <2>1. read \in Messages /\ pc[read] = "none"
    BY <1>0 DEF IInv, PlaceInv
  <2>. QED
    BY <1>0, <2>1, Bounds DEF IInv, TypeInv, LockInv
<1>4. WireInv'
  BY <1>0, Bounds DEF IInv, TypeInv, PlaceInv, LockInv, WireInv
<1>5. InFlightBound'
  <2>1. read \in Messages /\ pc[read] = "none"
    BY <1>0 DEF IInv, PlaceInv
  <2>2. inFlight' = inFlight \cup {read} /\ read \notin inFlight
    BY <1>0, <2>1, Bounds DEF inFlight, IInv, TypeInv
  <2>3. Cardinality(inFlight') = slots'
    BY <1>0, <2>2, SlotsAreHeld, FS_AddElement DEF IInv
  <2>. QED
    BY <1>0, <2>3, Bounds DEF InFlightBound, inFlight, IInv, TypeInv
<1>. QED
  BY <1>1, <1>2, <1>3, <1>4, <1>5 DEF IInv

(* CancelInFlight keeps the invariant: the handler leaves and cancels.     *)
LEMMA CancelInFlightStep ==
    ASSUME IInv, CancelInFlight
    PROVE  IInv'
<1>0. /\ ctxDone' = TRUE
      /\ main' = "draining"
      /\ UNCHANGED <<limit, read, slots, pc, owed, lock, wire, conn>>
      /\ main = "exit"
  BY DEF CancelInFlight, cancelOnExit, msgVars, ioVars
<1>1. TypeInv'
  BY <1>0, Bounds DEF IInv, TypeInv
<1>2. PlaceInv'
  BY <1>0, Bounds DEF IInv, TypeInv, PlaceInv
<1>3. LockInv'
  BY <1>0, Bounds DEF IInv, TypeInv, LockInv
<1>4. WireInv'
  BY <1>0, Bounds DEF IInv, TypeInv, PlaceInv, LockInv, WireInv
<1>5. InFlightBound'
  BY <1>0, Bounds DEF IInv, TypeInv, InFlightBound
<1>. QED
  BY <1>1, <1>2, <1>3, <1>4, <1>5 DEF IInv

(* Drain keeps the invariant: the handler has waited for its messages.     *)
LEMMA DrainStep ==
    ASSUME IInv, Drain
    PROVE  IInv'
<1>0. /\ conn' = "down"
      /\ main' = "returned"
      /\ UNCHANGED <<limit, read, slots, pc, owed, lock, wire, ctxDone>>
      /\ main = "draining"
  BY DEF Drain, msgVars, ioVars
<1>1. TypeInv'
  BY <1>0, Bounds DEF IInv, TypeInv
<1>2. PlaceInv'
  BY <1>0, Bounds DEF IInv, TypeInv, PlaceInv
<1>3. LockInv'
  BY <1>0, Bounds DEF IInv, TypeInv, LockInv
<1>4. WireInv'
  BY <1>0, Bounds DEF IInv, TypeInv, PlaceInv, LockInv, WireInv
<1>5. InFlightBound'
  BY <1>0, Bounds DEF IInv, TypeInv, InFlightBound
<1>. QED
  BY <1>1, <1>2, <1>3, <1>4, <1>5 DEF IInv

(* NoReply keeps the invariant: a message without a reply is finished.     *)
LEMMA NoReplyStep ==
    ASSUME IInv, NEW m \in Messages, NoReply(m)
    PROVE  IInv'
<1>0. /\ pc' = [pc EXCEPT ![m] = "done"]
      /\ slots' = slots - 1
      /\ UNCHANGED <<main, limit, read, owed, lock, wire, conn, ctxDone>>
      /\ pc[m] = "running"
  BY DEF NoReply, finish, released, goto, msgVars, ioVars
<1>1. TypeInv'
  <2>1. slots' \in Nat
    BY <1>0, SlotReturned DEF IInv
  <2>. QED
    BY <1>0, <2>1, Bounds DEF IInv, TypeInv
<1>2. PlaceInv'
  BY <1>0, Bounds DEF IInv, TypeInv, PlaceInv
<1>3. LockInv'
  BY <1>0, Bounds DEF IInv, TypeInv, LockInv
<1>4. WireInv'
  BY <1>0, Bounds DEF IInv, TypeInv, PlaceInv, LockInv, WireInv
<1>5. InFlightBound'
  <2>. QED
    BY <1>0, SlotReturned DEF IInv
<1>. QED
  BY <1>1, <1>2, <1>3, <1>4, <1>5 DEF IInv

(* HasReply keeps the invariant: a message has a reply.                    *)
LEMMA HasReplyStep ==
    ASSUME IInv, NEW m \in Messages, HasReply(m)
    PROVE  IInv'
<1>0. /\ pc' = [pc EXCEPT ![m] = "write"]
      /\ owed' = owed \cup {m}
      /\ UNCHANGED <<main, limit, read, slots, lock, wire, conn, ctxDone>>
      /\ pc[m] = "running"
  BY DEF HasReply, goto, msgVars, ioVars
<1>1. TypeInv'
  BY <1>0, Bounds DEF IInv, TypeInv
<1>2. PlaceInv'
  BY <1>0, Bounds DEF IInv, TypeInv, PlaceInv
<1>3. LockInv'
  BY <1>0, Bounds DEF IInv, TypeInv, LockInv
<1>4. WireInv'
  BY <1>0, Bounds DEF IInv, TypeInv, PlaceInv, LockInv, WireInv
<1>5. InFlightBound'
  BY <1>0, Bounds DEF IInv, TypeInv, InFlightBound
<1>. QED
  BY <1>1, <1>2, <1>3, <1>4, <1>5 DEF IInv

(* BeginNotify keeps the invariant: a background goroutine calls Notify.   *)
LEMMA BeginNotifyStep ==
    ASSUME IInv, NEW p \in Pushers, BeginNotify(p)
    PROVE  IInv'
<1>0. /\ pc' = [pc EXCEPT ![p] = "write"]
      /\ UNCHANGED <<main, limit, read, slots, owed, lock, wire, conn,
            ctxDone>>
      /\ pc[p] = "none"
  BY DEF BeginNotify, goto, msgVars, ioVars
<1>1. TypeInv'
  BY <1>0, Bounds DEF IInv, TypeInv
<1>2. PlaceInv'
  BY <1>0, Bounds DEF IInv, TypeInv, PlaceInv
<1>3. LockInv'
  BY <1>0, Bounds DEF IInv, TypeInv, LockInv
<1>4. WireInv'
  BY <1>0, Bounds DEF IInv, TypeInv, PlaceInv, LockInv, WireInv
<1>5. InFlightBound'
  BY <1>0, Bounds DEF IInv, TypeInv, InFlightBound
<1>. QED
  BY <1>1, <1>2, <1>3, <1>4, <1>5 DEF IInv

(* BeginWrite keeps the invariant: a write begins.                         *)
LEMMA BeginWriteStep ==
    ASSUME IInv, NEW w \in Writers, BeginWrite(w)
    PROVE  IInv'
<1>0. /\ pc' = [pc EXCEPT ![w] = "writing"]
      /\ lock' = w
      /\ UNCHANGED <<main, limit, read, slots, owed, wire, conn, ctxDone>>
      /\ pc[w] = "write" /\ lock = None
  BY DEF BeginWrite, goto, msgVars, ioVars
<1>1. TypeInv'
  BY <1>0, Bounds DEF IInv, TypeInv
<1>2. PlaceInv'
  BY <1>0, Bounds DEF IInv, TypeInv, PlaceInv
<1>3. LockInv'
  BY <1>0, Bounds DEF IInv, TypeInv, LockInv
<1>4. WireInv'
  BY <1>0, Bounds DEF IInv, TypeInv, PlaceInv, LockInv, WireInv
<1>5. InFlightBound'
  BY <1>0, Bounds DEF IInv, TypeInv, InFlightBound
<1>. QED
  BY <1>1, <1>2, <1>3, <1>4, <1>5 DEF IInv

(* WriteFrame keeps the invariant: a frame is written.                     *)
LEMMA WriteFrameStep ==
    ASSUME IInv, NEW w \in Writers, WriteFrame(w)
    PROVE  IInv'
<1>0. /\ pc' = [pc EXCEPT ![w] = "done"]
      /\ lock' = None
      /\ wire' = Append(wire, w)
      /\ slots' = IF w \in Messages THEN slots - 1 ELSE slots
      /\ UNCHANGED <<main, limit, read, owed, conn, ctxDone>>
      /\ pc[w] = "writing"
  BY DEF WriteFrame, finish, released, goto, msgVars, ioVars
<1>1. TypeInv'
  <2>1. slots' \in Nat
    BY <1>0, WriterEnds
  <2>2. wire' \in Seq(Writers)
    BY <1>0 DEF IInv, TypeInv
  <2>. QED
    BY <1>0, <2>1, <2>2, Bounds DEF IInv, TypeInv
<1>2. PlaceInv'
  BY <1>0, Bounds DEF IInv, TypeInv, PlaceInv
<1>3. LockInv'
  BY <1>0, Bounds DEF IInv, TypeInv, LockInv
<1>4. WireInv'
  <2>0. DEFINE n == Len(wire) + 1
  <2>1. /\ Len(wire') = n /\ n \in Nat \ {0} /\ DOMAIN wire' = 1 .. n /\ DOMAIN wire = 1 .. n - 1
        /\ wire'[n] = w /\ \A k \in 1 .. n - 1 : wire'[k] = wire[k] /\ wire[k] \in Writers
    BY <1>0 DEF IInv, TypeInv
  <2>. HIDE DEF n
  <2>2. \A k \in DOMAIN wire : wire[k] # w
    BY <1>0 DEF IInv, WireInv
  <2>3. \A k \in DOMAIN wire' : pc'[wire'[k]] = "done"
    BY <1>0, <2>1 DEF IInv, TypeInv, WireInv
  <2>4. \A j, k \in DOMAIN wire' : wire'[j] = wire'[k] => j = k
    BY <2>1, <2>2 DEF IInv, WireInv
  <2>5. \A v \in Writers : pc'[v] = "closing" => ctxDone'
    BY <1>0 DEF IInv, TypeInv, WireInv
  <2>6. ASSUME NEW m \in owed', pc'[m] = "done", \A k \in DOMAIN wire' : wire'[k] # m
        PROVE  conn' = "down" /\ ctxDone'
    <3>1. m # w
      BY <2>1, <2>6
    <3>2. m \in owed /\ pc[m] = "done" /\ \A k \in DOMAIN wire : wire[k] # m
      BY <1>0, <2>1, <2>6, <3>1, Bounds DEF IInv, TypeInv
    <3>. QED
      BY <1>0, <3>2 DEF IInv, WireInv
  <2>. QED
    BY <2>3, <2>4, <2>5, <2>6 DEF WireInv
<1>5. InFlightBound'
  <2>. QED
    BY <1>0, WriterEnds
<1>. QED
  BY <1>1, <1>2, <1>3, <1>4, <1>5 DEF IInv

(* WriteFails keeps the invariant: a write fails; the mutex stays held.    *)
LEMMA WriteFailsStep ==
    ASSUME IInv, NEW w \in Writers, WriteFails(w)
    PROVE  IInv'
<1>0. /\ pc' = [pc EXCEPT ![w] = "failing"]
      /\ UNCHANGED <<main, limit, read, slots, owed, lock, wire, conn,
            ctxDone>>
      /\ pc[w] = "writing"
  BY DEF WriteFails, lockHeld, goto, msgVars, ioVars
<1>1. TypeInv'
  BY <1>0, Bounds DEF IInv, TypeInv
<1>2. PlaceInv'
  BY <1>0, Bounds DEF IInv, TypeInv, PlaceInv
<1>3. LockInv'
  BY <1>0, Bounds DEF IInv, TypeInv, LockInv
<1>4. WireInv'
  BY <1>0, Bounds DEF IInv, TypeInv, PlaceInv, LockInv, WireInv
<1>5. InFlightBound'
  BY <1>0, Bounds DEF IInv, TypeInv, InFlightBound
<1>. QED
  BY <1>1, <1>2, <1>3, <1>4, <1>5 DEF IInv

(* CancelOnError keeps the invariant: the failure cancels everybody.       *)
LEMMA CancelOnErrorStep ==
    ASSUME IInv, NEW w \in Writers, CancelOnError(w)
    PROVE  IInv'
<1>0. /\ pc' = [pc EXCEPT ![w] = "closing"]
      /\ ctxDone' = TRUE
      /\ UNCHANGED <<main, limit, read, slots, owed, lock, wire, conn>>
      /\ pc[w] = "failing"
  BY DEF CancelOnError, goto, msgVars, ioVars
<1>1. TypeInv'
  BY <1>0, Bounds DEF IInv, TypeInv
<1>2. PlaceInv'
  BY <1>0, Bounds DEF IInv, TypeInv, PlaceInv
<1>3. LockInv'
  BY <1>0, Bounds DEF IInv, TypeInv, LockInv
<1>4. WireInv'
  BY <1>0, Bounds DEF IInv, TypeInv, PlaceInv, LockInv, WireInv
<1>5. InFlightBound'
  BY <1>0, Bounds DEF IInv, TypeInv, InFlightBound
<1>. QED
  BY <1>1, <1>2, <1>3, <1>4, <1>5 DEF IInv

(* CloseNow keeps the invariant: the failure takes the connection down.    *)
LEMMA CloseNowStep ==
    ASSUME IInv, NEW w \in Writers, CloseNow(w)
    PROVE  IInv'
<1>0. /\ pc' = [pc EXCEPT ![w] = "done"]
      /\ lock' = None
      /\ conn' = "down"
      /\ slots' = IF w \in Messages THEN slots - 1 ELSE slots
      /\ UNCHANGED <<main, limit, read, owed, wire, ctxDone>>
      /\ pc[w] = "closing"
  BY DEF CloseNow, closeNow, unlocked, finish, released, goto, msgVars, ioVars
<1>1. TypeInv'
  <2>1. slots' \in Nat
    BY <1>0, WriterEnds DEF IInv
  <2>. QED
    BY <1>0, <2>1, Bounds DEF IInv, TypeInv
<1>2. PlaceInv'
  BY <1>0, Bounds DEF IInv, TypeInv, PlaceInv
<1>3. LockInv'
  BY <1>0, Bounds DEF IInv, TypeInv, LockInv
<1>4. WireInv'
  BY <1>0, Bounds DEF IInv, TypeInv, PlaceInv, LockInv, WireInv
<1>5. InFlightBound'
  <2>. QED
    BY <1>0, WriterEnds
<1>. QED
  BY <1>1, <1>2, <1>3, <1>4, <1>5 DEF IInv

(* PeerDrops keeps the invariant: the peer goes away.                      *)
LEMMA PeerDropsStep ==
    ASSUME IInv, PeerDrops
    PROVE  IInv'
<1>0. /\ conn' = "down"
      /\ UNCHANGED <<main, limit, read, slots, pc, owed, lock, wire, ctxDone>>
  BY DEF PeerDrops, msgVars, ioVars
<1>1. TypeInv'
  BY <1>0, Bounds DEF IInv, TypeInv
<1>2. PlaceInv'
  BY <1>0, Bounds DEF IInv, TypeInv, PlaceInv
<1>3. LockInv'
  BY <1>0, Bounds DEF IInv, TypeInv, LockInv
<1>4. WireInv'
  BY <1>0, Bounds DEF IInv, TypeInv, PlaceInv, LockInv, WireInv
<1>5. InFlightBound'
  BY <1>0, Bounds DEF IInv, TypeInv, InFlightBound
<1>. QED
  BY <1>1, <1>2, <1>3, <1>4, <1>5 DEF IInv

(***************************************************************************)
(* The invariant holds at the start and every step keeps it.               *)
(***************************************************************************)

(* A fresh connection satisfies the invariant. *)
LEMMA IInvInit == Init => IInv
<1>. SUFFICES ASSUME Init PROVE IInv
  OBVIOUS
<1>1. TypeInv
  <2>1. wire \in Seq(Writers) /\ read \in 0 .. MaxMessages /\ slots \in Nat
    BY Bounds DEF Init
  <2>2. pc \in [Writers -> {"none", "running", "write", "writing", "failing", "closing", "done"}]
    BY DEF Init
  <2>. QED
    BY <2>1, <2>2 DEF Init, TypeInv
<1>2. PlaceInv
  BY Bounds DEF Init, PlaceInv
<1>3. LockInv
  BY Bounds DEF Init, LockInv
<1>4. WireInv
  BY Bounds DEF Init, WireInv
<1>5. InFlightBound
  <2>1. {m \in Messages : pc[m] \notin {"none", "done"}} = {}
    BY Bounds DEF Init
  <2>2. slots = 0 /\ limit \in Nat
    BY Bounds DEF Init
  <2>. QED
    BY <2>1, <2>2, FS_EmptySet DEF InFlightBound
<1>. QED
  BY <1>1, <1>2, <1>3, <1>4, <1>5 DEF IInv

(* Every step keeps the invariant. *)
LEMMA IInvStep == IInv /\ [Next]_vars => IInv'
<1>. SUFFICES ASSUME IInv, [Next]_vars PROVE IInv'
  OBVIOUS
<1>1. CASE MainStep
  BY <1>1, TakeSlotStep, CancelInFlightStep, DrainStep DEF MainStep
<1>2. CASE ReadFrame \/ ReadFails
  BY <1>2, ReadFrameStep, ReadFailsStep
<1>3. ASSUME NEW m \in Messages, DispatchEnds(m) PROVE IInv'
  BY <1>3, NoReplyStep, HasReplyStep DEF DispatchEnds
<1>4. ASSUME NEW p \in Pushers, BeginNotify(p) PROVE IInv'
  BY <1>4, BeginNotifyStep
<1>5. ASSUME NEW w \in Writers, WriterStep(w) PROVE IInv'
  BY <1>5, BeginWriteStep, CancelOnErrorStep, CloseNowStep DEF WriterStep
<1>6. ASSUME NEW w \in Writers, WriteEnds(w) PROVE IInv'
  BY <1>6, WriteFrameStep, WriteFailsStep DEF WriteEnds
<1>7. CASE PeerDrops
  BY <1>7, PeerDropsStep
<1>8. CASE UNCHANGED vars
  <2>0. UNCHANGED <<limit, main, read, slots, pc, owed, lock, wire, conn, ctxDone>>
    BY <1>8 DEF vars, msgVars, ioVars
  <2>1. TypeInv'
    BY <2>0 DEF IInv, TypeInv
  <2>2. PlaceInv'
    BY <2>0 DEF IInv, PlaceInv
  <2>3. LockInv' /\ WireInv'
    BY <2>0 DEF IInv, LockInv, WireInv
  <2>4. InFlightBound'
    BY <2>0 DEF IInv, InFlightBound
  <2>. QED
    BY <2>1, <2>2, <2>3, <2>4 DEF IInv
<1>. QED
  BY <1>1, <1>2, <1>3, <1>4, <1>5, <1>6, <1>7, <1>8 DEF Next, Done

(* Every reachable state of a connection satisfies the inductive invariant:*)
(* the types, who has a goroutine, a slot and a reply to write, who holds  *)
(* the writer's mutex and what became of every reply that is finished.     *)
THEOREM WsServeInvariant == Spec => []IInv
BY IInvInit, IInvStep, PTL DEF Spec

(***************************************************************************)
(* The properties.                                                         *)
(***************************************************************************)

(* WithMaxConcurrentCalls: as many tokens are in "slots" as messages are   *)
(* in flight, and never more than the limit, however each message ends.    *)
THEOREM WsServeInFlightBound == Spec => []InFlightBound
<1>1. IInv => InFlightBound
  BY DEF IInv
<1>. QED
  BY <1>1, WsServeInvariant, PTL

(* A reply that is not written exactly once is not written at all, and the *)
(* failed write has cancelled everybody and taken the connection down.     *)
THEOREM WsServeLostReply == Spec => []LostReplyMeansTeardown
<1>1. IInv => LostReplyMeansTeardown
  <2>. SUFFICES ASSUME IInv, NEW m \in owed, pc[m] = "done"
                PROVE  LET written == {k \in DOMAIN wire : wire[k] = m}
                       IN  \/ Cardinality(written) = 1
                           \/ written = {} /\ conn = "down" /\ ctxDone
    BY DEF LostReplyMeansTeardown
  <2>. DEFINE written == {k \in DOMAIN wire : wire[k] = m}
  <2>1. CASE \E k \in DOMAIN wire : wire[k] = m
    <3>1. PICK k \in DOMAIN wire : wire[k] = m
      BY <2>1
    <3>2. written = {k}
      BY <3>1 DEF IInv, WireInv
    <3>. QED
      BY <3>2, FS_Singleton
  <2>2. CASE \A k \in DOMAIN wire : wire[k] # m
    BY <2>2 DEF IInv, WireInv
  <2>. QED
    BY <2>1, <2>2
<1>. QED
  BY <1>1, WsServeInvariant, PTL

(* From a failed write until its teardown is over nobody puts a frame on   *)
(* the wire, neither one that was waiting for the mutex nor a Notify.      *)
THEOREM WsServeNothingAfterFailure == Spec => NothingAfterFailure
<1>1. IInv /\ [Next]_vars
      => [(\E w \in Writers : pc[w] \in {"failing", "closing"}) => UNCHANGED wire]_vars
  <2>. SUFFICES ASSUME IInv, Next, NEW w \in Writers, pc[w] \in {"failing", "closing"}
                PROVE  UNCHANGED wire
    OBVIOUS
  <2>1. ASSUME NEW v \in Writers PROVE ~WriteFrame(v)
    <3>1. SUFFICES ASSUME pc[v] = "writing" PROVE FALSE
      BY DEF WriteFrame
    <3>. QED
      BY <3>1, Bounds DEF IInv, LockInv
  <2>2. CASE MainStep \/ ReadFrame \/ ReadFails \/ PeerDrops \/ Done
    BY <2>2 DEF MainStep, TakeSlot, CancelInFlight, Drain, ReadFrame, ReadFails, PeerDrops,
                Done, vars, msgVars, ioVars
  <2>3. ASSUME NEW m \in Messages, DispatchEnds(m) PROVE UNCHANGED wire
    BY <2>3 DEF DispatchEnds, NoReply, HasReply, ioVars
  <2>4. ASSUME NEW p \in Pushers, BeginNotify(p) PROVE UNCHANGED wire
    BY <2>4 DEF BeginNotify, ioVars
  <2>5. ASSUME NEW v \in Writers, WriterStep(v) \/ WriteFails(v) PROVE UNCHANGED wire
    BY <2>5 DEF WriterStep, BeginWrite, CancelOnError, CloseNow, WriteFails, ioVars
  <2>. QED
    BY <2>1, <2>2, <2>3, <2>4, <2>5 DEF Next, WriteEnds
<1>. QED
  BY <1>1, WsServeInvariant, PTL DEF Spec, NothingAfterFailure

=============================================================================
