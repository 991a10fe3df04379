------------------------- MODULE StdioClientProofs -------------------------
(***************************************************************************)
(* Proofs about StdioClient for every number of calls and notifications,   *)
(* every set of frames a peer may send, and every interleaving.            *)
(***************************************************************************)
EXTENDS StdioClient, FiniteSetTheorems, TLAPS

(***************************************************************************)
(* The inductive invariant.                                                *)
(***************************************************************************)
Shutting == {"once", "closing", "failing", "shut"}
Fresh == {"start", "nextID", "register"}

(* Which code a goroutine runs. *)
PlaceInv ==
    /\ \A p \in Procs : pc[p] \in Fresh \cup Shutting \cup
          {"send", "refused", "writing", "waiting", "unregister", "returned"}
    /\ \A p \in Notifies :
          pc[p] \notin {"nextID", "register", "waiting", "unregister"}
    /\ pc[Reader] \in Shutting \cup
          {"reading", "read", "handling", "handler", "sending", "latch", "returned"}
    /\ pc[Closer] \in Shutting \cup {"start", "latch", "returned"}

drawn == {p \in Calls : id[p] # NoID}

(* c.seq counts the ids drawn, which are all different. *)
DrawInv ==
    /\ seq = Cardinality(drawn)
    /\ \A p \in Calls :
          /\ pc[p] \in {"start", "nextID"} => id[p] = NoID
          /\ id[p] = NoID => pc[p] \in {"start", "nextID", "returned"}
    /\ \A p, q \in drawn : id[p] = id[q] => p = q

(* The writer's mutex is held from the first byte of a frame until the     *)
(* write is over, a failure included; a latched writer writes nothing, and *)
(* one that is not latched has written only whole frames.                  *)
LockInv ==
    /\ \A p \in Procs : lock = p <=> pc[p] \in {"writing"} \cup Shutting
    /\ latched => \A p \in Procs : pc[p] # "writing"
    /\ ~latched => \A k \in 1 .. Len(wire) : wire[k] = "whole"
    /\ PartialFrameIsLast

(* Whoever shuts down has latched the writer, one goroutine at a time is   *)
(* inside the Once, and it closes the channel before it drops the map.     *)
OnceInv ==
    /\ \A t \in Threads : pc[t] \in Shutting => latched
    /\ pc[Closer] = "returned" => latched
    /\ once # "free" => latched
    /\ \A t \in Threads : pc[t] \in {"closing", "failing"} => once = "running"
    /\ \A s, t \in Threads :
          pc[s] \in {"closing", "failing"} /\ pc[t] \in {"closing", "failing"} => s = t
    /\ closed => once # "free"

(* A call that is in the map is there under its own id, has been told      *)
(* nothing, and is under way, or the map is about to be dropped.           *)
EntryOK(k) ==
    LET p == pending[k] IN
    p # None =>
        /\ id[p] = k
        /\ pc[p] \notin Fresh
        /\ p \notin targets
        /\ chan[p] = NoFrame
        /\ pc[p] = "returned" => once = "running"
        /\ pc[p] = "waiting" => once # "done"

MapInv == \A k \in Keys : EntryOK(k)

(* What the read loop took from the map, and what is in a channel, answers *)
(* the call it is meant for.                                               *)
answersCall(f, p) ==
    /\ isResponse(f) /\ (f.method => f.body = "empty")
    /\ f.id = id[p] \/ (f.body = "error" /\ isNullID(f.id))

DeliveryInv ==
    /\ frame.method => frame.body = "empty"
    /\ targets # {} => pc[Reader] = "sending"
    /\ \A p \in targets :
          pc[p] \notin Fresh /\ chan[p] = NoFrame /\ answersCall(frame, p)
    /\ \A p \in Calls : chan[p] # NoFrame =>
          pc[p] \notin Fresh /\ answersCall(chan[p], p)

(* An answer ends a call. *)
OutcomeInv ==
    /\ \A p \in Procs : outcome[p] \in {"success", "rpcError"} =>
          p \in Calls /\ pc[p] = "returned"
    /\ Correlated

IInv ==
    /\ TypeOK /\ PlaceInv /\ DrawInv /\ LockInv /\ OnceInv
    /\ MapInv /\ DeliveryInv /\ OutcomeInv

(* The goroutines are different from one another. *)
LEMMA Distinct ==
    /\ Reader \in Threads /\ Closer \in Threads /\ Reader # Closer
    /\ Reader \notin Procs /\ Closer \notin Procs /\ None \notin Threads
    /\ Calls \subseteq Procs /\ Notifies \subseteq Procs /\ Procs \subseteq Threads
    /\ Procs = Calls \cup Notifies /\ Threads = Procs \cup {Reader, Closer}
    /\ \A p \in Calls : p \notin Notifies
BY ThreadsAssumption DEF Procs, Threads

(* The initial states satisfy the invariant. *)
LEMMA IInvInit == Init => IInv
<1>. SUFFICES ASSUME Init PROVE IInv
  OBVIOUS
<1>1. /\ Cardinality({}) = 0 /\ Cardinality(Calls) \in Nat
      /\ drawn = {}
  BY FS_EmptySet, FS_CardinalityType, ThreadsAssumption, Distinct DEF Init, drawn
<1>2. NoFrame \in Frame
  BY DEF NoFrame, Frame, NoID
<1>3. TypeOK
  <2>1. /\ pending \in [Keys -> Calls \cup {None}]
        /\ chan \in [Calls -> Frame] /\ got \in [Calls -> Frame]
        /\ id \in [Procs -> 0 .. seq]
    BY <1>2 DEF Init, NoID
  <2>2. seq \in 0 .. Cardinality(Calls) /\ inbound \in 0 .. MaxFrames
    BY <1>1, MaxFramesAssumption DEF Init
  <2>3. wire \in Seq({"whole", "partial"}) /\ frame \in Frame /\ targets \in SUBSET Calls
    BY <1>2 DEF Init
  <2>. QED
    BY <2>1, <2>2, <2>3 DEF Init, TypeOK
<1>4. PlaceInv
  BY Distinct DEF Init, PlaceInv, Shutting, Fresh
<1>5. DrawInv
  BY <1>1, Distinct DEF Init, DrawInv
<1>6. LockInv
  BY Distinct DEF Init, LockInv, Shutting, PartialFrameIsLast
<1>7. OnceInv
  BY Distinct DEF Init, OnceInv, Shutting
<1>8. MapInv
  BY DEF Init, MapInv, EntryOK
<1>9. DeliveryInv
  BY DEF Init, DeliveryInv, NoFrame
<1>10. OutcomeInv
  BY Distinct DEF Init, OutcomeInv, Correlated
<1>. QED
  BY <1>3, <1>4, <1>5, <1>6, <1>7, <1>8, <1>9, <1>10 DEF IInv

(***************************************************************************)
(* The steps of Call and Notify.                                           *)
(***************************************************************************)


(* A caller that only moves on, away from the writer. *)
LEMMA CallerMoves ==
    ASSUME IInv, NEW p \in Procs,
           NEW l \in {"nextID", "send", "refused", "unregister", "returned"},
           NEW o \in {"none", "sent", "context", "closed", "closedCause",
                      "writeError", "notSent"},
           pc' = [pc EXCEPT ![p] = l],
           outcome' = [outcome EXCEPT ![p] = o],
           UNCHANGED <<pending, chan, seq, id, got, once, cause, closed, lock, latched,
                       wire, stream, inbound, frame, targets>>,
           pc[p] \notin {"writing", "returned"} \cup Shutting,
           p \in Notifies => l \notin {"nextID", "unregister"},
           p \in Calls => /\ l = "nextID" => pc[p] = "start"
                          /\ pc[p] \in Fresh => l \in {"nextID", "returned"} /\ id[p] = NoID
                          /\ l = "returned" /\ pc[p] = "waiting" => closed
                          /\ l = "returned" => pc[p] \in {"start", "waiting"}
    PROVE  IInv'
<1>1. TypeOK'
  BY Distinct DEF IInv, TypeOK
<1>2. PlaceInv'
  BY Distinct DEF IInv, TypeOK, PlaceInv, Fresh, Shutting
<1>3. DrawInv'
  BY Distinct DEF IInv, TypeOK, DrawInv, drawn, Fresh
<1>4. LockInv'
  BY Distinct DEF IInv, TypeOK, LockInv, PartialFrameIsLast, Shutting
<1>5. OnceInv'
  BY Distinct DEF IInv, TypeOK, OnceInv, Shutting
<1>6. MapInv'
  BY Distinct DEF IInv, TypeOK, MapInv, EntryOK, Fresh, OnceInv
<1>7. DeliveryInv'
  BY Distinct DEF IInv, TypeOK, DeliveryInv, answersCall, Fresh
<1>8. OutcomeInv'
  BY Distinct DEF IInv, TypeOK, OutcomeInv, Correlated
<1>. QED
  BY <1>1, <1>2, <1>3, <1>4, <1>5, <1>6, <1>7, <1>8 DEF IInv

(* DrawID keeps the invariant: a call draws a fresh id. *)
LEMMA DrawIDStep ==
    ASSUME IInv, NEW p \in Procs, p \in Calls, DrawID(p)
    PROVE  IInv'
<1>0. /\ seq' = seq + 1
      /\ id' = [id EXCEPT ![p] = seq + 1]
      /\ pc' = [pc EXCEPT ![p] = "register"]
      /\ UNCHANGED <<pending, chan, outcome, got, once, cause, closed, lock,
            latched, wire, stream, inbound, frame, targets>>
      /\ pc[p] = "nextID"
  BY DEF DrawID, nextID, goto, finish, callVars, closeVars, writerVars, readVars
<1>a. /\ IsFiniteSet(drawn) /\ p \notin drawn /\ drawn' = drawn \cup {p}
      /\ Cardinality(drawn) \in Nat /\ seq \in Nat
  BY <1>0, Distinct, ThreadsAssumption, FS_Subset, FS_CardinalityType
     DEF IInv, TypeOK, DrawInv, drawn, NoID
<1>b. /\ Cardinality(drawn') = seq + 1
      /\ Cardinality(drawn') <= Cardinality(Calls)
      /\ Cardinality(Calls) \in Nat
  BY <1>a, FS_AddElement, FS_Subset, FS_CardinalityType, ThreadsAssumption
     DEF IInv, DrawInv, drawn
<1>1. TypeOK'
  <2>1. seq' \in 0 .. Cardinality(Calls) /\ id' \in [Procs -> 0 .. seq']
    BY <1>0, <1>a, <1>b DEF IInv, TypeOK
  <2>. QED
    BY <1>0, <2>1, Distinct DEF IInv, TypeOK
<1>2. PlaceInv'
  BY <1>0, Distinct DEF IInv, TypeOK, PlaceInv, Fresh, Shutting
<1>3. DrawInv'
  <2>1. \A q \in drawn : id[q] # seq + 1 /\ id'[q] = id[q] /\ q # p
    BY <1>0, <1>a, Distinct DEF IInv, TypeOK, drawn
  <2>2. \A q, r \in drawn' : id'[q] = id'[r] => q = r
    BY <1>0, <1>a, <2>1, Distinct DEF IInv, TypeOK, DrawInv
  <2>3. \A q \in Calls : /\ pc'[q] \in {"start", "nextID"} => id'[q] = NoID
                         /\ id'[q] = NoID => pc'[q] \in {"start", "nextID", "returned"}
    BY <1>0, <1>a, Distinct DEF IInv, TypeOK, DrawInv, NoID
  <2>. QED
    BY <1>0, <1>b, <2>2, <2>3 DEF DrawInv
<1>4. LockInv'
  BY <1>0, Distinct DEF IInv, TypeOK, LockInv, PartialFrameIsLast, Shutting
<1>5. OnceInv'
  BY <1>0, Distinct DEF IInv, TypeOK, OnceInv, Shutting
<1>6. MapInv'
  BY <1>0, Distinct DEF IInv, TypeOK, MapInv, EntryOK, Fresh
<1>7. DeliveryInv'
  BY <1>0, Distinct DEF IInv, TypeOK, DeliveryInv, answersCall, Fresh
<1>8. OutcomeInv'
  BY <1>0, Distinct DEF IInv, TypeOK, OutcomeInv, Correlated
<1>. QED
  BY <1>1, <1>2, <1>3, <1>4, <1>5, <1>6, <1>7, <1>8 DEF IInv

(* Register keeps the invariant: a call registers under its id. *)
LEMMA RegisterStep ==
    ASSUME IInv, NEW p \in Procs, Register(p)
    PROVE  IInv'
<1>0. /\ pending' = [pending EXCEPT ![id[p]] = p]
      /\ pc' = [pc EXCEPT ![p] = "send"]
      /\ UNCHANGED <<chan, seq, id, outcome, got, once, cause, closed, lock,
            latched, wire, stream, inbound, frame, targets>>
      /\ pc[p] = "register"
  BY DEF Register, goto, finish, callVars, closeVars, writerVars, readVars
<1>a. p \in Calls /\ id[p] # NoID
  BY <1>0, Distinct DEF IInv, TypeOK, PlaceInv, DrawInv
<1>1. TypeOK'
  <2>1. pending' \in [Keys -> Calls \cup {None}]
    BY <1>0, <1>a DEF IInv, TypeOK
  <2>. QED
    BY <1>0, <2>1, Distinct DEF IInv, TypeOK
<1>2. PlaceInv'
  BY <1>0, Distinct DEF IInv, TypeOK, PlaceInv, Fresh, Shutting
<1>3. DrawInv'
  BY <1>0, Distinct DEF IInv, TypeOK, DrawInv, drawn
<1>4. LockInv'
  BY <1>0, Distinct DEF IInv, TypeOK, LockInv, PartialFrameIsLast, Shutting
<1>5. OnceInv'
  BY <1>0, Distinct DEF IInv, TypeOK, OnceInv, Shutting
<1>6. MapInv'
  <2>. SUFFICES ASSUME NEW k \in Keys PROVE EntryOK(k)'
    BY DEF MapInv
  <2>1. CASE k = id[p]
    <3>1. p \notin targets /\ chan[p] = NoFrame
      BY <1>0, <1>a DEF IInv, DeliveryInv, Fresh
    <3>2. pending'[k] = p /\ pc'[p] = "send"
      BY <1>0, <2>1, Distinct DEF IInv, TypeOK
    <3>. QED
      BY <1>0, <2>1, <3>1, <3>2 DEF EntryOK, Fresh
  <2>2. CASE k # id[p]
    <3>1. pending'[k] = pending[k] /\ pending[k] \in Calls \cup {None} /\ EntryOK(k)
      BY <1>0, <2>2 DEF IInv, TypeOK, MapInv
    <3>. QED
      BY <1>0, <3>1, Distinct DEF IInv, TypeOK, EntryOK, Fresh
  <2>. QED
    BY <2>1, <2>2
<1>7. DeliveryInv'
  BY <1>0, Distinct DEF IInv, TypeOK, DeliveryInv, answersCall, Fresh
<1>8. OutcomeInv'
  BY <1>0, Distinct DEF IInv, TypeOK, OutcomeInv, Correlated
<1>. QED
  BY <1>1, <1>2, <1>3, <1>4, <1>5, <1>6, <1>7, <1>8 DEF IInv

(* BeginWrite keeps the invariant: a write begins. *)
LEMMA BeginWriteStep ==
    ASSUME IInv, NEW p \in Procs, BeginWrite(p)
    PROVE  IInv'
<1>0. /\ lock' = p
      /\ pc' = [pc EXCEPT ![p] = "writing"]
      /\ UNCHANGED <<pending, chan, seq, id, outcome, got, once, cause, closed,
            latched, wire, stream, inbound, frame, targets>>
      /\ pc[p] = "send" /\ lock = None /\ ~latched
  BY DEF BeginWrite, goto, finish, callVars, closeVars, writerVars, readVars
<1>1. TypeOK'
  BY <1>0, Distinct DEF IInv, TypeOK
<1>2. PlaceInv'
  BY <1>0, Distinct DEF IInv, TypeOK, PlaceInv, Fresh, Shutting
<1>3. DrawInv'
  BY <1>0, Distinct DEF IInv, TypeOK, DrawInv, drawn
<1>4. LockInv'
  BY <1>0, Distinct DEF IInv, TypeOK, LockInv, PartialFrameIsLast, Shutting
<1>5. OnceInv'
  BY <1>0, Distinct DEF IInv, TypeOK, OnceInv, Shutting
<1>6. MapInv'
  BY <1>0, Distinct DEF IInv, TypeOK, MapInv, EntryOK, Fresh
<1>7. DeliveryInv'
  BY <1>0, Distinct DEF IInv, TypeOK, DeliveryInv, answersCall, Fresh
<1>8. OutcomeInv'
  BY <1>0, Distinct DEF IInv, TypeOK, OutcomeInv, Correlated
<1>. QED
  BY <1>1, <1>2, <1>3, <1>4, <1>5, <1>6, <1>7, <1>8 DEF IInv

(* Unframeable keeps the invariant: a frame is refused. *)
LEMMA UnframeableStep ==
    ASSUME IInv, NEW p \in Procs, Unframeable(p)
    PROVE  IInv'
<1>0. /\ lock' = None
      /\ outcome' = [outcome EXCEPT ![p] = "notSent"]
      /\ pc' = [pc EXCEPT ![p] = IF p \in Calls THEN "unregister" ELSE "returned"]
      /\ UNCHANGED <<pending, chan, seq, id, got, once, cause, closed, latched,
            wire, stream, inbound, frame, targets>>
      /\ pc[p] = "writing"
  BY DEF Unframeable, leaveSend, goto, finish, callVars, closeVars, writerVars, readVars
<1>1. TypeOK'
  BY <1>0, Distinct DEF IInv, TypeOK
<1>2. PlaceInv'
  BY <1>0, Distinct DEF IInv, TypeOK, PlaceInv, Fresh, Shutting
<1>3. DrawInv'
  BY <1>0, Distinct DEF IInv, TypeOK, DrawInv, drawn
<1>4. LockInv'
  BY <1>0, Distinct DEF IInv, TypeOK, LockInv, PartialFrameIsLast, Shutting
<1>5. OnceInv'
  BY <1>0, Distinct DEF IInv, TypeOK, OnceInv, Shutting
<1>6. MapInv'
  BY <1>0, Distinct DEF IInv, TypeOK, MapInv, EntryOK, Fresh
<1>7. DeliveryInv'
  BY <1>0, Distinct DEF IInv, TypeOK, DeliveryInv, answersCall, Fresh
<1>8. OutcomeInv'
  BY <1>0, Distinct DEF IInv, TypeOK, OutcomeInv, Correlated
<1>. QED
  BY <1>1, <1>2, <1>3, <1>4, <1>5, <1>6, <1>7, <1>8 DEF IInv

(* WriteBreaks keeps the invariant: a write breaks. *)
LEMMA WriteBreaksStep ==
    ASSUME IInv, NEW p \in Procs, WriteBreaks(p)
    PROVE  IInv'
<1>0. /\ wire' = Append(wire, "partial")
      /\ latched' = TRUE
      /\ pc' = [pc EXCEPT ![p] = "once"]
      /\ UNCHANGED <<pending, chan, seq, id, outcome, got, once, cause, closed,
            lock, stream, inbound, frame, targets>>
      /\ pc[p] = "writing"
  BY DEF WriteBreaks, latchOnFailure, goto, finish, callVars, closeVars, writerVars, readVars
<1>1. TypeOK'
  BY <1>0, Distinct DEF IInv, TypeOK
<1>2. PlaceInv'
  BY <1>0, Distinct DEF IInv, TypeOK, PlaceInv, Fresh, Shutting
<1>3. DrawInv'
  BY <1>0, Distinct DEF IInv, TypeOK, DrawInv, drawn
<1>4. LockInv'
  BY <1>0, Distinct DEF IInv, TypeOK, LockInv, PartialFrameIsLast, Shutting
<1>5. OnceInv'
  BY <1>0, Distinct DEF IInv, TypeOK, OnceInv, Shutting
<1>6. MapInv'
  BY <1>0, Distinct DEF IInv, TypeOK, MapInv, EntryOK, Fresh
<1>7. DeliveryInv'
  BY <1>0, Distinct DEF IInv, TypeOK, DeliveryInv, answersCall, Fresh
<1>8. OutcomeInv'
  BY <1>0, Distinct DEF IInv, TypeOK, OutcomeInv, Correlated
<1>. QED
  BY <1>1, <1>2, <1>3, <1>4, <1>5, <1>6, <1>7, <1>8 DEF IInv

(* WriteFailed keeps the invariant: a broken write is over. *)
LEMMA WriteFailedStep ==
    ASSUME IInv, NEW p \in Procs, WriteFailed(p)
    PROVE  IInv'
<1>0. /\ lock' = None
      /\ outcome' = [outcome EXCEPT ![p] = "writeError"]
      /\ pc' = [pc EXCEPT ![p] = IF p \in Calls THEN "unregister" ELSE "returned"]
      /\ UNCHANGED <<pending, chan, seq, id, got, once, cause, closed, latched,
            wire, stream, inbound, frame, targets>>
      /\ pc[p] = "shut"
  BY DEF WriteFailed, leaveSend, goto, finish, callVars, closeVars, writerVars, readVars
<1>1. TypeOK'
  BY <1>0, Distinct DEF IInv, TypeOK
<1>2. PlaceInv'
  BY <1>0, Distinct DEF IInv, TypeOK, PlaceInv, Fresh, Shutting
<1>3. DrawInv'
  BY <1>0, Distinct DEF IInv, TypeOK, DrawInv, drawn
<1>4. LockInv'
  BY <1>0, Distinct DEF IInv, TypeOK, LockInv, PartialFrameIsLast, Shutting
<1>5. OnceInv'
  BY <1>0, Distinct DEF IInv, TypeOK, OnceInv, Shutting
<1>6. MapInv'
  BY <1>0, Distinct DEF IInv, TypeOK, MapInv, EntryOK, Fresh
<1>7. DeliveryInv'
  BY <1>0, Distinct DEF IInv, TypeOK, DeliveryInv, answersCall, Fresh
<1>8. OutcomeInv'
  BY <1>0, Distinct DEF IInv, TypeOK, OutcomeInv, Correlated
<1>. QED
  BY <1>1, <1>2, <1>3, <1>4, <1>5, <1>6, <1>7, <1>8 DEF IInv

(* Unregister keeps the invariant: a call gives up. *)
LEMMA UnregisterStep ==
    ASSUME IInv, NEW p \in Procs, Unregister(p)
    PROVE  IInv'
<1>0. /\ pending' = [pending EXCEPT ![id[p]] = None]
      /\ pc' = [pc EXCEPT ![p] = "returned"]
      /\ UNCHANGED <<chan, seq, id, outcome, got, once, cause, closed, lock,
            latched, wire, stream, inbound, frame, targets>>
      /\ pc[p] = "unregister"
  BY DEF Unregister, unregistered, goto, finish, callVars, closeVars, writerVars, readVars
<1>1. TypeOK'
  BY <1>0, Distinct DEF IInv, TypeOK
<1>2. PlaceInv'
  BY <1>0, Distinct DEF IInv, TypeOK, PlaceInv, Fresh, Shutting
<1>3. DrawInv'
  BY <1>0, Distinct DEF IInv, TypeOK, DrawInv, drawn
<1>4. LockInv'
  BY <1>0, Distinct DEF IInv, TypeOK, LockInv, PartialFrameIsLast, Shutting
<1>5. OnceInv'
  BY <1>0, Distinct DEF IInv, TypeOK, OnceInv, Shutting
<1>6. MapInv'
  BY <1>0, Distinct DEF IInv, TypeOK, MapInv, EntryOK, Fresh
<1>7. DeliveryInv'
  BY <1>0, Distinct DEF IInv, TypeOK, DeliveryInv, answersCall, Fresh
<1>8. OutcomeInv'
  BY <1>0, Distinct DEF IInv, TypeOK, OutcomeInv, Correlated
<1>. QED
  BY <1>1, <1>2, <1>3, <1>4, <1>5, <1>6, <1>7, <1>8 DEF IInv

(* TakeResponse keeps the invariant: a call takes its response. *)
LEMMA TakeResponseStep ==
    ASSUME IInv, NEW p \in Calls, TakeResponse(p)
    PROVE  IInv'
<1>0. /\ chan' = [chan EXCEPT ![p] = NoFrame]
      /\ got' = [got EXCEPT ![p] = chan[p]]
      /\ outcome' = [outcome EXCEPT ![p] = IF chan[p].body = "error" THEN "rpcError" ELSE "success"]
      /\ pc' = [pc EXCEPT ![p] = "returned"]
      /\ UNCHANGED <<pending, seq, id, once, cause, closed, lock, latched,
            wire, stream, inbound, frame, targets>>
      /\ pc[p] = "waiting" /\ chan[p] # NoFrame
  BY DEF TakeResponse, goto, finish, callVars, closeVars, writerVars, readVars
<1>a. NoFrame \in Frame
  BY DEF NoFrame, Frame, NoID
<1>f. PICK f \in Frame : f = chan[p]
  BY DEF IInv, TypeOK
<1>o. PICK o \in {"rpcError", "success"} :
         o = IF f.body = "error" THEN "rpcError" ELSE "success"
  OBVIOUS
<1>b. outcome' = [outcome EXCEPT ![p] = o] /\ got' = [got EXCEPT ![p] = f]
  BY <1>0, <1>f, <1>o
<1>1. TypeOK'
  <2>1. /\ chan' \in [Calls -> Frame] /\ got' \in [Calls -> Frame]
    BY <1>0, <1>a, <1>b DEF IInv, TypeOK
  <2>. QED
    BY <1>0, <1>b, <2>1, Distinct DEF IInv, TypeOK
<1>2. PlaceInv'
  BY <1>0, Distinct DEF IInv, TypeOK, PlaceInv, Fresh, Shutting
<1>3. DrawInv'
  BY <1>0, Distinct DEF IInv, TypeOK, DrawInv, drawn
<1>4. LockInv'
  BY <1>0, Distinct DEF IInv, TypeOK, LockInv, PartialFrameIsLast, Shutting
<1>5. OnceInv'
  BY <1>0, Distinct DEF IInv, TypeOK, OnceInv, Shutting
<1>6. MapInv'
  BY <1>0, Distinct DEF IInv, TypeOK, MapInv, EntryOK, Fresh
<1>7. DeliveryInv'
  BY <1>0, Distinct DEF IInv, TypeOK, DeliveryInv, answersCall, Fresh
<1>8. OutcomeInv'
  <2>1. answersCall(f, p)
    BY <1>0, <1>f DEF IInv, DeliveryInv
  <2>2. id[p] # NoID
    BY <1>0, Distinct DEF IInv, TypeOK, DrawInv
  <2>3. id[p] # NullID
    BY Distinct DEF IInv, TypeOK, NullID
  <2>4. /\ o = "success" => f.id = id[p] /\ f.body # "error" /\ ~f.method
        /\ o = "rpcError" => f.body = "error" /\ (f.id = id[p] \/ isNullID(f.id))
    BY <1>o, <2>1, <2>2, <2>3
       DEF Frame, answersCall, isResponse, isPush, isRequestFrame
  <2>. QED
    BY <1>0, <1>b, <2>4, Distinct DEF IInv, TypeOK, OutcomeInv, Correlated
<1>. QED
  BY <1>1, <1>2, <1>3, <1>4, <1>5, <1>6, <1>7, <1>8 DEF IInv

(* LatchWriter keeps the invariant: the writer is latched while nobody writes. *)
LEMMA LatchWriterStep ==
    ASSUME IInv, NEW t \in {Reader, Closer}, LatchWriter(t)
    PROVE  IInv'
<1>0. /\ latched' = TRUE
      /\ pc' = [pc EXCEPT ![t] = "once"]
      /\ UNCHANGED <<pending, chan, seq, id, outcome, got, once, cause, closed,
            lock, wire, stream, inbound, frame, targets>>
      /\ pc[t] = "latch" /\ lock = None
  BY DEF LatchWriter, latch, goto, finish, callVars, closeVars, writerVars, readVars
<1>1. TypeOK'
  BY <1>0, Distinct DEF IInv, TypeOK
<1>2. PlaceInv'
  BY <1>0, Distinct DEF IInv, TypeOK, PlaceInv, Fresh, Shutting
<1>3. DrawInv'
  BY <1>0, Distinct DEF IInv, TypeOK, DrawInv, drawn
<1>4. LockInv'
  BY <1>0, Distinct DEF IInv, TypeOK, LockInv, PartialFrameIsLast, Shutting
<1>5. OnceInv'
  BY <1>0, Distinct DEF IInv, TypeOK, OnceInv, Shutting
<1>6. MapInv'
  BY <1>0, Distinct DEF IInv, TypeOK, MapInv, EntryOK, Fresh
<1>7. DeliveryInv'
  BY <1>0, Distinct DEF IInv, TypeOK, DeliveryInv, answersCall, Fresh
<1>8. OutcomeInv'
  BY <1>0, Distinct DEF IInv, TypeOK, OutcomeInv, Correlated
<1>. QED
  BY <1>1, <1>2, <1>3, <1>4, <1>5, <1>6, <1>7, <1>8 DEF IInv

(* OnceFirst keeps the invariant: the first goroutine enters the Once. *)
LEMMA OnceFirstStep ==
    ASSUME IInv, NEW t \in Threads, OnceFirst(t)
    PROVE  IInv'
<1>0. /\ once' = "running"
      /\ cause' = fatalCause(t)
      /\ pc' = [pc EXCEPT ![t] = "closing"]
      /\ UNCHANGED <<pending, chan, seq, id, outcome, got, closed, lock,
            latched, wire, stream, inbound, frame, targets>>
      /\ pc[t] = "once" /\ once = "free"
  BY DEF OnceFirst, goto, finish, callVars, closeVars, writerVars, readVars
<1>1. TypeOK'
  <2>1. fatalCause(t) \in {"none", "read", "write"}
    BY DEF fatalCause
  <2>. QED
    BY <1>0, <2>1, Distinct DEF IInv, TypeOK
<1>2. PlaceInv'
  BY <1>0, Distinct DEF IInv, TypeOK, PlaceInv, Fresh, Shutting
<1>3. DrawInv'
  BY <1>0, Distinct DEF IInv, TypeOK, DrawInv, drawn
<1>4. LockInv'
  BY <1>0, Distinct DEF IInv, TypeOK, LockInv, PartialFrameIsLast, Shutting
<1>5. OnceInv'
  BY <1>0, Distinct DEF IInv, TypeOK, OnceInv, Shutting
<1>6. MapInv'
  BY <1>0, Distinct DEF IInv, TypeOK, MapInv, EntryOK, Fresh
<1>7. DeliveryInv'
  BY <1>0, Distinct DEF IInv, TypeOK, DeliveryInv, answersCall, Fresh
<1>8. OutcomeInv'
  BY <1>0, Distinct DEF IInv, TypeOK, OutcomeInv, Correlated
<1>. QED
  BY <1>1, <1>2, <1>3, <1>4, <1>5, <1>6, <1>7, <1>8 DEF IInv

(* CloseClosed keeps the invariant: it closes the channel. *)
LEMMA CloseClosedStep ==
    ASSUME IInv, NEW t \in Threads, CloseClosed(t)
    PROVE  IInv'
<1>0. /\ closed' = TRUE
      /\ pc' = [pc EXCEPT ![t] = "failing"]
      /\ UNCHANGED <<pending, chan, seq, id, outcome, got, once, cause, lock,
            latched, wire, stream, inbound, frame, targets>>
      /\ pc[t] = "closing"
  BY DEF CloseClosed, closeClosed, goto, finish, callVars, closeVars, writerVars, readVars
<1>1. TypeOK'
  BY <1>0, Distinct DEF IInv, TypeOK
<1>2. PlaceInv'
  BY <1>0, Distinct DEF IInv, TypeOK, PlaceInv, Fresh, Shutting
<1>3. DrawInv'
  BY <1>0, Distinct DEF IInv, TypeOK, DrawInv, drawn
<1>4. LockInv'
  BY <1>0, Distinct DEF IInv, TypeOK, LockInv, PartialFrameIsLast, Shutting
<1>5. OnceInv'
  BY <1>0, Distinct DEF IInv, TypeOK, OnceInv, Shutting
<1>6. MapInv'
  BY <1>0, Distinct DEF IInv, TypeOK, MapInv, EntryOK, Fresh
<1>7. DeliveryInv'
  BY <1>0, Distinct DEF IInv, TypeOK, DeliveryInv, answersCall, Fresh
<1>8. OutcomeInv'
  BY <1>0, Distinct DEF IInv, TypeOK, OutcomeInv, Correlated
<1>. QED
  BY <1>1, <1>2, <1>3, <1>4, <1>5, <1>6, <1>7, <1>8 DEF IInv

(* FailPending keeps the invariant: it drops the map. *)
LEMMA FailPendingStep ==
    ASSUME IInv, NEW t \in Threads, FailPending(t)
    PROVE  IInv'
<1>0. /\ pending' = [k \in Keys |-> None]
      /\ once' = "done"
      /\ pc' = [pc EXCEPT ![t] = "shut"]
      /\ UNCHANGED <<chan, seq, id, outcome, got, cause, closed, lock, latched,
            wire, stream, inbound, frame, targets>>
      /\ pc[t] = "failing"
  BY DEF FailPending, goto, finish, callVars, closeVars, writerVars, readVars
<1>1. TypeOK'
  BY <1>0, Distinct DEF IInv, TypeOK
<1>2. PlaceInv'
  BY <1>0, Distinct DEF IInv, TypeOK, PlaceInv, Fresh, Shutting
<1>3. DrawInv'
  BY <1>0, Distinct DEF IInv, TypeOK, DrawInv, drawn
<1>4. LockInv'
  BY <1>0, Distinct DEF IInv, TypeOK, LockInv, PartialFrameIsLast, Shutting
<1>5. OnceInv'
  BY <1>0, Distinct DEF IInv, TypeOK, OnceInv, Shutting
<1>6. MapInv'
  BY <1>0, Distinct DEF IInv, TypeOK, MapInv, EntryOK, Fresh
<1>7. DeliveryInv'
  BY <1>0, Distinct DEF IInv, TypeOK, DeliveryInv, answersCall, Fresh
<1>8. OutcomeInv'
  BY <1>0, Distinct DEF IInv, TypeOK, OutcomeInv, Correlated
<1>. QED
  BY <1>1, <1>2, <1>3, <1>4, <1>5, <1>6, <1>7, <1>8 DEF IInv

(* OnceLater keeps the invariant: a later goroutine finds the Once done. *)
LEMMA OnceLaterStep ==
    ASSUME IInv, NEW t \in Threads, OnceLater(t)
    PROVE  IInv'
<1>0. /\ pc' = [pc EXCEPT ![t] = "shut"]
      /\ UNCHANGED <<pending, chan, seq, id, outcome, got, once, cause, closed,
            lock, latched, wire, stream, inbound, frame, targets>>
      /\ pc[t] = "once" /\ once = "done"
  BY DEF OnceLater, goto, finish, callVars, closeVars, writerVars, readVars
<1>1. TypeOK'
  BY <1>0, Distinct DEF IInv, TypeOK
<1>2. PlaceInv'
  BY <1>0, Distinct DEF IInv, TypeOK, PlaceInv, Fresh, Shutting
<1>3. DrawInv'
  BY <1>0, Distinct DEF IInv, TypeOK, DrawInv, drawn
<1>4. LockInv'
  BY <1>0, Distinct DEF IInv, TypeOK, LockInv, PartialFrameIsLast, Shutting
<1>5. OnceInv'
  BY <1>0, Distinct DEF IInv, TypeOK, OnceInv, Shutting
<1>6. MapInv'
  BY <1>0, Distinct DEF IInv, TypeOK, MapInv, EntryOK, Fresh
<1>7. DeliveryInv'
  BY <1>0, Distinct DEF IInv, TypeOK, DeliveryInv, answersCall, Fresh
<1>8. OutcomeInv'
  BY <1>0, Distinct DEF IInv, TypeOK, OutcomeInv, Correlated
<1>. QED
  BY <1>1, <1>2, <1>3, <1>4, <1>5, <1>6, <1>7, <1>8 DEF IInv

(* EndShutdown keeps the invariant: close returns, or the read loop exits. *)
LEMMA EndShutdownStep ==
    ASSUME IInv, NEW t \in Threads, EndShutdown(t)
    PROVE  IInv'
<1>0. /\ pc' = [pc EXCEPT ![t] = "returned"]
      /\ UNCHANGED <<pending, chan, seq, id, outcome, got, once, cause, closed,
            lock, latched, wire, stream, inbound, frame, targets>>
      /\ t \in {Reader, Closer} /\ pc[t] = "shut"
  BY DEF EndShutdown, goto, finish, callVars, closeVars, writerVars, readVars
<1>1. TypeOK'
  BY <1>0, Distinct DEF IInv, TypeOK
<1>2. PlaceInv'
  BY <1>0, Distinct DEF IInv, TypeOK, PlaceInv, Fresh, Shutting
<1>3. DrawInv'
  BY <1>0, Distinct DEF IInv, TypeOK, DrawInv, drawn
<1>4. LockInv'
  BY <1>0, Distinct DEF IInv, TypeOK, LockInv, PartialFrameIsLast, Shutting
<1>5. OnceInv'
  BY <1>0, Distinct DEF IInv, TypeOK, OnceInv, Shutting
<1>6. MapInv'
  BY <1>0, Distinct DEF IInv, TypeOK, MapInv, EntryOK, Fresh
<1>7. DeliveryInv'
  BY <1>0, Distinct DEF IInv, TypeOK, DeliveryInv, answersCall, Fresh
<1>8. OutcomeInv'
  BY <1>0, Distinct DEF IInv, TypeOK, OutcomeInv, Correlated
<1>. QED
  BY <1>1, <1>2, <1>3, <1>4, <1>5, <1>6, <1>7, <1>8 DEF IInv

(* BeginClose keeps the invariant: close is called. *)
LEMMA BeginCloseStep ==
    ASSUME IInv, BeginClose
    PROVE  IInv'
<1>0. /\ pc' = [pc EXCEPT ![Closer] = "latch"]
      /\ UNCHANGED <<pending, chan, seq, id, outcome, got, once, cause, closed,
            lock, latched, wire, stream, inbound, frame, targets>>
      /\ pc[Closer] = "start"
  BY DEF BeginClose, goto, finish, callVars, closeVars, writerVars, readVars
<1>1. TypeOK'
  BY <1>0, Distinct DEF IInv, TypeOK
<1>2. PlaceInv'
  BY <1>0, Distinct DEF IInv, TypeOK, PlaceInv, Fresh, Shutting
<1>3. DrawInv'
  BY <1>0, Distinct DEF IInv, TypeOK, DrawInv, drawn
<1>4. LockInv'
  BY <1>0, Distinct DEF IInv, TypeOK, LockInv, PartialFrameIsLast, Shutting
<1>5. OnceInv'
  BY <1>0, Distinct DEF IInv, TypeOK, OnceInv, Shutting
<1>6. MapInv'
  BY <1>0, Distinct DEF IInv, TypeOK, MapInv, EntryOK, Fresh
<1>7. DeliveryInv'
  BY <1>0, Distinct DEF IInv, TypeOK, DeliveryInv, answersCall, Fresh
<1>8. OutcomeInv'
  BY <1>0, Distinct DEF IInv, TypeOK, OutcomeInv, Correlated
<1>. QED
  BY <1>1, <1>2, <1>3, <1>4, <1>5, <1>6, <1>7, <1>8 DEF IInv

(* Deliver keeps the invariant: a response finds its call. *)
LEMMA DeliverStep ==
    ASSUME IInv, Deliver
    PROVE  IInv'
<1>0. /\ pending' = [pending EXCEPT ![frame.id] = None]
      /\ targets' = {pending[frame.id]}
      /\ pc' = [pc EXCEPT ![Reader] = "sending"]
      /\ UNCHANGED <<chan, seq, id, outcome, got, once, cause, closed, lock,
            latched, wire, stream, inbound, frame>>
      /\ pc[Reader] = "handling" /\ isResponse(frame)
      /\ frame.id \in Keys /\ pending[frame.id] # None
  BY DEF Deliver, delivered, waiterOf, goto, finish, callVars, closeVars, writerVars, readVars
<1>1. TypeOK'
  BY <1>0, Distinct DEF IInv, TypeOK
<1>2. PlaceInv'
  BY <1>0, Distinct DEF IInv, TypeOK, PlaceInv, Fresh, Shutting
<1>3. DrawInv'
  BY <1>0, Distinct DEF IInv, TypeOK, DrawInv, drawn
<1>4. LockInv'
  BY <1>0, Distinct DEF IInv, TypeOK, LockInv, PartialFrameIsLast, Shutting
<1>5. OnceInv'
  BY <1>0, Distinct DEF IInv, TypeOK, OnceInv, Shutting
<1>6. MapInv'
  BY <1>0, Distinct DEF IInv, TypeOK, MapInv, EntryOK, Fresh
<1>7. DeliveryInv'
  <2>1. PICK q \in Calls : q = pending[frame.id]
    BY <1>0 DEF IInv, TypeOK
  <2>2. /\ pc[q] \notin Fresh /\ chan[q] = NoFrame /\ answersCall(frame, q)
        /\ targets' = {q}
    BY <1>0, <2>1 DEF IInv, MapInv, EntryOK, DeliveryInv, answersCall
  <2>3. pc'[q] = pc[q] /\ pc'[Reader] = "sending"
    BY <1>0, <2>1, Distinct DEF IInv, TypeOK
  <2>4. \A c \in Calls : chan'[c] # NoFrame =>
           pc'[c] \notin Fresh /\ answersCall(chan[c], c)
    BY <1>0, Distinct DEF IInv, TypeOK, DeliveryInv
  <2>. QED
    BY <1>0, <2>2, <2>3, <2>4 DEF IInv, DeliveryInv, answersCall
<1>8. OutcomeInv'
  BY <1>0, Distinct DEF IInv, TypeOK, OutcomeInv, Correlated
<1>. QED
  BY <1>1, <1>2, <1>3, <1>4, <1>5, <1>6, <1>7, <1>8 DEF IInv

(* FailPendingWith keeps the invariant: a rejection without an id is for every call. *)
LEMMA FailPendingWithStep ==
    ASSUME IInv, FailPendingWith
    PROVE  IInv'
<1>0. /\ targets' = {pending[k] : k \in Keys} \ {None}
      /\ pending' = [k \in Keys |-> None]
      /\ pc' = [pc EXCEPT ![Reader] = "sending"]
      /\ UNCHANGED <<chan, seq, id, outcome, got, once, cause, closed, lock,
            latched, wire, stream, inbound, frame>>
      /\ pc[Reader] = "handling" /\ isResponse(frame)
      /\ frame.body = "error" /\ isNullID(frame.id)
  BY DEF FailPendingWith, rejected, goto, finish, callVars, closeVars, writerVars, readVars
<1>1. TypeOK'
  BY <1>0, Distinct DEF IInv, TypeOK
<1>2. PlaceInv'
  BY <1>0, Distinct DEF IInv, TypeOK, PlaceInv, Fresh, Shutting
<1>3. DrawInv'
  BY <1>0, Distinct DEF IInv, TypeOK, DrawInv, drawn
<1>4. LockInv'
  BY <1>0, Distinct DEF IInv, TypeOK, LockInv, PartialFrameIsLast, Shutting
<1>5. OnceInv'
  BY <1>0, Distinct DEF IInv, TypeOK, OnceInv, Shutting
<1>6. MapInv'
  BY <1>0, Distinct DEF IInv, TypeOK, MapInv, EntryOK, Fresh
<1>7. DeliveryInv'
  <2>1. ASSUME NEW q \in targets'
        PROVE  pc[q] \notin Fresh /\ chan[q] = NoFrame /\ answersCall(frame, q)
               /\ q \in Calls
    BY <1>0, <2>1 DEF IInv, TypeOK, MapInv, EntryOK, DeliveryInv, answersCall
  <2>. QED
    BY <1>0, <2>1, Distinct DEF IInv, TypeOK, DeliveryInv, answersCall, Fresh
<1>8. OutcomeInv'
  BY <1>0, Distinct DEF IInv, TypeOK, OutcomeInv, Correlated
<1>. QED
  BY <1>1, <1>2, <1>3, <1>4, <1>5, <1>6, <1>7, <1>8 DEF IInv

(* SendToCall keeps the invariant: the read loop sends to a channel. *)
LEMMA SendToCallStep ==
    ASSUME IInv, NEW p \in Calls, SendToCall(p)
    PROVE  IInv'
<1>0. /\ chan' = [chan EXCEPT ![p] = frame]
      /\ targets' = targets \ {p}
      /\ UNCHANGED <<pc, pending, seq, id, outcome, got, once, cause, closed,
            lock, latched, wire, stream, inbound, frame>>
      /\ pc[Reader] = "sending" /\ p \in targets
  BY DEF SendToCall, goto, finish, callVars, closeVars, writerVars, readVars
<1>1. TypeOK'
  BY <1>0, Distinct DEF IInv, TypeOK
<1>2. PlaceInv'
  BY <1>0, Distinct DEF IInv, TypeOK, PlaceInv, Fresh, Shutting
<1>3. DrawInv'
  BY <1>0, Distinct DEF IInv, TypeOK, DrawInv, drawn
<1>4. LockInv'
  BY <1>0, Distinct DEF IInv, TypeOK, LockInv, PartialFrameIsLast, Shutting
<1>5. OnceInv'
  BY <1>0, Distinct DEF IInv, TypeOK, OnceInv, Shutting
<1>6. MapInv'
  BY <1>0, Distinct DEF IInv, TypeOK, MapInv, EntryOK, Fresh
<1>7. DeliveryInv'
  BY <1>0, Distinct DEF IInv, TypeOK, DeliveryInv, answersCall, Fresh
<1>8. OutcomeInv'
  BY <1>0, Distinct DEF IInv, TypeOK, OutcomeInv, Correlated
<1>. QED
  BY <1>1, <1>2, <1>3, <1>4, <1>5, <1>6, <1>7, <1>8 DEF IInv

(* WriteFrame keeps the invariant: a whole frame goes out: the writer was not latched. *)
LEMMA WriteFrameStep ==
    ASSUME IInv, NEW p \in Procs, WriteFrame(p)
    PROVE  IInv'
<1>l. PICK l \in {"waiting", "returned"} : l = IF p \in Calls THEN "waiting" ELSE "returned"
  OBVIOUS
<1>o. PICK o \in {"none", "sent", "success", "rpcError", "context", "closed",
                  "closedCause", "writeError", "notSent"} :
         o = IF p \in Calls THEN outcome[p] ELSE "sent"
  BY Distinct DEF IInv, TypeOK
<1>0. /\ wire' = Append(wire, "whole")
      /\ lock' = None
      /\ pc' = [pc EXCEPT ![p] = l]
      /\ outcome' = [outcome EXCEPT ![p] = o]
      /\ UNCHANGED <<pending, chan, seq, id, got, once, cause, closed, latched, stream,
            inbound, frame, targets>>
      /\ pc[p] = "writing"
  <2>1. CASE p \in Calls
    <3>1. outcome = [outcome EXCEPT ![p] = outcome[p]]
      BY Distinct DEF IInv, TypeOK
    <3>. QED
      BY <2>1, <3>1, <1>l, <1>o
         DEF WriteFrame, goto, finish, closeVars, readVars
  <2>2. CASE p \notin Calls
    BY <2>2, <1>l, <1>o DEF WriteFrame, goto, finish, closeVars, readVars
  <2>. QED
    BY <2>1, <2>2
<1>a. /\ p \in Calls => l = "waiting" /\ o = outcome[p]
      /\ p \in Notifies => l = "returned" /\ o = "sent"
  BY <1>l, <1>o, Distinct
<1>b. ~latched /\ once = "free" /\ ~closed
  BY <1>0 DEF IInv, LockInv, OnceInv, TypeOK
<1>1. TypeOK'
  BY <1>0, Distinct DEF IInv, TypeOK
<1>2. PlaceInv'
  BY <1>0, <1>a, Distinct DEF IInv, TypeOK, PlaceInv, Fresh, Shutting
<1>3. DrawInv'
  BY <1>0, Distinct DEF IInv, TypeOK, DrawInv, drawn
<1>4. LockInv'
  BY <1>0, <1>b, Distinct DEF IInv, TypeOK, LockInv, PartialFrameIsLast, Shutting
<1>5. OnceInv'
  BY <1>0, Distinct DEF IInv, TypeOK, OnceInv, Shutting
<1>6. MapInv'
  BY <1>0, <1>a, <1>b, Distinct DEF IInv, TypeOK, MapInv, EntryOK, Fresh
<1>7. DeliveryInv'
  BY <1>0, Distinct DEF IInv, TypeOK, DeliveryInv, answersCall, Fresh
<1>8. OutcomeInv'
  BY <1>0, <1>a, Distinct DEF IInv, TypeOK, OutcomeInv, Correlated
<1>. QED
  BY <1>1, <1>2, <1>3, <1>4, <1>5, <1>6, <1>7, <1>8 DEF IInv

(* The read loop moves on with nothing left to send. *)
LEMMA ReaderMoves ==
    ASSUME IInv, targets = {},
           NEW l \in {"reading", "read", "handling", "handler", "latch", "returned"},
           NEW f \in Frame, f.method => f.body = "empty",
           NEW n \in 0 .. MaxFrames, NEW s \in {"open", "ended", "broken"},
           pc[Reader] \in {"reading", "read", "handling", "handler", "sending"},
           pc' = [pc EXCEPT ![Reader] = l],
           frame' = f, inbound' = n, stream' = s,
           UNCHANGED <<pending, chan, seq, id, outcome, got, once, cause, closed, lock,
                       latched, wire, targets>>
    PROVE  IInv'
<1>1. TypeOK'
  BY Distinct DEF IInv, TypeOK
<1>2. PlaceInv'
  BY Distinct DEF IInv, TypeOK, PlaceInv, Fresh, Shutting
<1>3. DrawInv'
  BY Distinct DEF IInv, TypeOK, DrawInv, drawn
<1>4. LockInv'
  BY Distinct DEF IInv, TypeOK, LockInv, PartialFrameIsLast, Shutting
<1>5. OnceInv'
  BY Distinct DEF IInv, TypeOK, OnceInv, Shutting
<1>6. MapInv'
  BY Distinct DEF IInv, TypeOK, MapInv, EntryOK, Fresh
<1>7. DeliveryInv'
  BY Distinct DEF IInv, TypeOK, DeliveryInv, answersCall, Fresh
<1>8. OutcomeInv'
  BY Distinct DEF IInv, TypeOK, OutcomeInv, Correlated
<1>. QED
  BY <1>1, <1>2, <1>3, <1>4, <1>5, <1>6, <1>7, <1>8 DEF IInv

(* What the read loop does with a frame it does not deliver, and its ends. *)
LEMMA ReaderSteps ==
    ASSUME IInv,
           \/ StopReading \/ HandleFrame \/ DropFrame \/ HandlePush \/ HandlerReturns
           \/ AllSent \/ \E f \in PeerFrames : ReadFrame(f)
           \/ \E end \in {"ended", "broken"} : ReadEnds(end)
    PROVE  IInv'
<1>1. /\ NoFrame \in Frame /\ ~NoFrame.method
      /\ frame \in Frame /\ (frame.method => frame.body = "empty")
      /\ inbound \in 0 .. MaxFrames /\ stream \in {"open", "ended", "broken"}
      /\ pc[Reader] # "sending" => targets = {}
  BY DEF NoFrame, Frame, NoID, IInv, TypeOK, DeliveryInv
<1>2. CASE StopReading
  <2>1. /\ pc[Reader] = "read" /\ pc' = [pc EXCEPT ![Reader] = "returned"]
        /\ frame' = NoFrame /\ inbound' = inbound /\ stream' = stream
        /\ UNCHANGED <<pending, chan, seq, id, outcome, got, once, cause, closed, lock,
                       latched, wire, targets>>
    BY <1>2 DEF StopReading, goto, callVars, closeVars, writerVars
  <2>. QED
    BY <1>1, <2>1, ReaderMoves
<1>3. CASE HandleFrame
  <2>1. /\ pc[Reader] = "read" /\ pc' = [pc EXCEPT ![Reader] = "handling"]
        /\ frame' = frame /\ inbound' = inbound /\ stream' = stream
        /\ UNCHANGED <<pending, chan, seq, id, outcome, got, once, cause, closed, lock,
                       latched, wire, targets>>
    BY <1>3 DEF HandleFrame, goto, callVars, closeVars, writerVars, readVars
  <2>. QED
    BY <1>1, <2>1, ReaderMoves
<1>4. CASE DropFrame \/ HandlerReturns \/ AllSent
  <2>1. /\ pc[Reader] \in {"handling", "handler", "sending"} /\ targets = {}
        /\ pc' = [pc EXCEPT ![Reader] = "reading"]
        /\ frame' = NoFrame /\ inbound' = inbound /\ stream' = stream
        /\ UNCHANGED <<pending, chan, seq, id, outcome, got, once, cause, closed, lock,
                       latched, wire, targets>>
    BY <1>1, <1>4 DEF DropFrame, HandlerReturns, AllSent, goto, callVars, closeVars, writerVars
  <2>. QED
    BY <1>1, <2>1, ReaderMoves
<1>5. CASE HandlePush
  <2>1. /\ pc[Reader] = "handling" /\ pc' = [pc EXCEPT ![Reader] = "handler"]
        /\ frame' = frame /\ inbound' = inbound /\ stream' = stream
        /\ UNCHANGED <<pending, chan, seq, id, outcome, got, once, cause, closed, lock,
                       latched, wire, targets>>
    BY <1>5 DEF HandlePush, goto, callVars, closeVars, writerVars
  <2>. QED
    BY <1>1, <2>1, ReaderMoves
<1>6. ASSUME NEW f \in PeerFrames, ReadFrame(f) PROVE IInv'
  <2>1. f \in Frame /\ (f.method => f.body = "empty")
    BY PeerFramesAssumption
  <2>2. /\ pc[Reader] = "reading" /\ pc' = [pc EXCEPT ![Reader] = "read"]
        /\ frame' = f /\ inbound' = inbound + 1 /\ stream' = stream
        /\ UNCHANGED <<pending, chan, seq, id, outcome, got, once, cause, closed, lock,
                       latched, wire, targets>>
    BY <1>6 DEF ReadFrame, goto, callVars, closeVars, writerVars
  <2>3. inbound + 1 \in 0 .. MaxFrames
    BY <1>1, <1>6, MaxFramesAssumption DEF ReadFrame
  <2>. QED
    BY <1>1, <2>1, <2>2, <2>3, ReaderMoves
<1>7. ASSUME NEW end \in {"ended", "broken"}, ReadEnds(end) PROVE IInv'
  <2>1. /\ pc[Reader] = "reading" /\ pc' = [pc EXCEPT ![Reader] = "latch"]
        /\ frame' = frame /\ inbound' = inbound /\ stream' = end
        /\ UNCHANGED <<pending, chan, seq, id, outcome, got, once, cause, closed, lock,
                       latched, wire, targets>>
    BY <1>7 DEF ReadEnds, goto, callVars, closeVars, writerVars
  <2>. QED
    BY <1>1, <2>1, ReaderMoves
<1>. QED
  BY <1>2, <1>3, <1>4, <1>5, <1>6, <1>7

(* The steps of a caller between two looks at shared state. *)
LEMMA CallerSteps ==
    ASSUME IInv, NEW p \in Procs,
           \/ EnterClosed(p) \/ Enter(p) \/ MarshalFails(p) \/ WriteRefused(p)
           \/ ReportRefusal(p) \/ (p \in Calls /\ (SeeClosed(p) \/ ContextDone(p)))
    PROVE  IInv'
<1>1. /\ closedErr \in {"closed", "closedCause"}
      /\ p \in Calls /\ pc[p] = "start" => id[p] = NoID
      /\ outcome \in [Procs -> {"none", "sent", "success", "rpcError", "context", "closed",
                                "closedCause", "writeError", "notSent"}]
      /\ p \in Calls \/ p \in Notifies
      /\ ~(p \in Calls /\ p \in Notifies)
  BY Distinct DEF closedErr, IInv, DrawInv, TypeOK
<1>2. CASE EnterClosed(p)
  BY <1>1, <1>2, CallerMoves
     DEF EnterClosed, goto, finish, closeVars, writerVars, readVars, Fresh, Shutting
<1>3. CASE MarshalFails(p)
  BY <1>1, <1>3, CallerMoves
     DEF MarshalFails, leaveSend, goto, finish, closeVars, writerVars, readVars, Fresh, Shutting
<1>4. CASE ReportRefusal(p)
  BY <1>1, <1>4, CallerMoves
     DEF ReportRefusal, leaveSend, goto, finish, closeVars, writerVars, readVars, Fresh, Shutting
<1>5. CASE p \in Calls /\ SeeClosed(p)
  BY <1>1, <1>5, CallerMoves
     DEF SeeClosed, goto, finish, closeVars, writerVars, readVars, Fresh, Shutting
<1>6. CASE p \in Calls /\ ContextDone(p)
  BY <1>1, <1>6, CallerMoves
     DEF ContextDone, goto, finish, closeVars, writerVars, readVars, Fresh, Shutting
<1>7. CASE Enter(p) \/ WriteRefused(p)
  <2>1. PICK o \in {"none", "sent", "success", "rpcError", "context", "closed",
                    "closedCause", "writeError", "notSent"} : o = outcome[p]
    BY <1>1
  <2>2. outcome' = [outcome EXCEPT ![p] = o]
    BY <1>1, <1>7, <2>1 DEF Enter, WriteRefused, callVars
  <2>3. o \notin {"success", "rpcError"} \/ p \notin Calls
    BY <1>7, <2>1 DEF IInv, OutcomeInv, Enter, WriteRefused
  <2>4. CASE o \in {"success", "rpcError"}
    BY <2>1, <2>3, <2>4, <1>1, <1>7, Distinct DEF IInv, OutcomeInv
  <2>5. CASE o \notin {"success", "rpcError"} /\ Enter(p)
    <3>1. PICK l \in {"nextID", "send"} : l = IF p \in Calls THEN "nextID" ELSE "send"
      OBVIOUS
    <3>2. pc[p] = "start" /\ pc' = [pc EXCEPT ![p] = l]
      BY <2>5, <3>1 DEF Enter, goto
    <3>. QED
      BY <1>1, <2>2, <2>5, <3>1, <3>2, CallerMoves
         DEF Enter, callVars, closeVars, writerVars, readVars, Fresh, Shutting
  <2>6. CASE o \notin {"success", "rpcError"} /\ WriteRefused(p)
    <3>1. pc[p] = "send" /\ pc' = [pc EXCEPT ![p] = "refused"]
      BY <2>6 DEF WriteRefused, goto
    <3>. QED
      BY <1>1, <2>2, <2>6, <3>1, CallerMoves
         DEF WriteRefused, callVars, closeVars, writerVars, readVars, Fresh, Shutting
  <2>. QED
    BY <1>7, <2>4, <2>5, <2>6
<1>. QED
  BY <1>2, <1>3, <1>4, <1>5, <1>6, <1>7

(***************************************************************************)
(* The theorems.                                                           *)
(***************************************************************************)

(* Every step preserves the invariant. *)
LEMMA IInvStep == IInv /\ [Next]_vars => IInv'
<1>. SUFFICES ASSUME IInv, [Next]_vars PROVE IInv'
  OBVIOUS
<1>1. ASSUME NEW p \in Procs, ProcStep(p) \/ WriteStep(p) \/ MarshalFails(p)
      PROVE  IInv'
  <2>1. CASE DrawID(p)
    <3>1. p \in Calls
      BY <2>1, Distinct DEF IInv, PlaceInv, DrawID
    <3>. QED
      BY <2>1, <3>1, DrawIDStep
  <2>. QED
    BY <1>1, <2>1, CallerSteps, RegisterStep, BeginWriteStep, WriteFrameStep,
       UnframeableStep, WriteBreaksStep, WriteFailedStep, UnregisterStep, TakeResponseStep
       DEF ProcStep, WriteStep
<1>2. ASSUME NEW p \in Calls, ContextDone(p) PROVE IInv'
  BY <1>2, CallerSteps, Distinct
<1>3. ASSUME NEW t \in Threads, ShutdownStep(t) PROVE IInv'
  BY <1>3, OnceFirstStep, CloseClosedStep, FailPendingStep, OnceLaterStep, EndShutdownStep
     DEF ShutdownStep
<1>4. CASE BeginClose \/ LatchWriter(Closer)
  BY <1>4, BeginCloseStep, LatchWriterStep
<1>5. CASE ReaderStep
  BY <1>5, ReaderSteps, DeliverStep, FailPendingWithStep, SendToCallStep, LatchWriterStep
     DEF ReaderStep
<1>6. CASE \/ \E f \in PeerFrames : ReadFrame(f)
           \/ \E end \in {"ended", "broken"} : ReadEnds(end)
  BY <1>6, ReaderSteps
<1>7. CASE Done \/ UNCHANGED vars
  <2>1. UNCHANGED <<pc, pending, chan, seq, id, outcome, got, once, cause, closed, lock,
                    latched, wire, stream, inbound, frame, targets>>
    BY <1>7 DEF Done, vars, callVars, closeVars, writerVars, readVars
  <2>2. TypeOK' /\ PlaceInv' /\ DrawInv'
    BY <2>1 DEF IInv, TypeOK, PlaceInv, DrawInv, drawn
  <2>3. LockInv' /\ OnceInv'
    BY <2>1 DEF IInv, LockInv, PartialFrameIsLast, OnceInv
  <2>4. MapInv' /\ DeliveryInv' /\ OutcomeInv'
    BY <2>1 DEF IInv, MapInv, EntryOK, DeliveryInv, answersCall, OutcomeInv, Correlated
  <2>. QED
    BY <2>2, <2>3, <2>4 DEF IInv
<1>. QED
  BY <1>1, <1>2, <1>3, <1>4, <1>5, <1>6, <1>7 DEF Next

(* The inductive invariant holds in every reachable state. *)
THEOREM StdioClientInvariant == Spec => []IInv
BY IInvInit, IInvStep, PTL DEF Spec

(* Client: "responses correlate by id, so out-of-order replies are fine":  *)
(* whatever the peer sends and in whatever order, a call is answered only  *)
(* by a response to it, or by an error that names no call.                 *)
THEOREM StdioClientCorrelated == Spec => []Correlated
<1>1. IInv => Correlated
  BY DEF IInv, OutcomeInv
<1>. QED
  BY <1>1, StdioClientInvariant, PTL

(* deliver and failPendingWith, "buffered: never blocks": the read loop    *)
(* never sends to a full channel, and never twice to the same call.        *)
THEOREM StdioClientSendNeverBlocks == Spec => []SendNeverBlocks
<1>1. IInv => SendNeverBlocks
  <2>. SUFFICES ASSUME IInv, NEW p \in targets
       PROVE  chan[p] = NoFrame /\ \A k \in Keys : pending[k] # p
    BY DEF SendNeverBlocks
  <2>1. p # None
    BY Distinct DEF IInv, TypeOK
  <2>. QED
    BY <2>1 DEF IInv, DeliveryInv, MapInv, EntryOK
<1>. QED
  BY <1>1, StdioClientInvariant, PTL

(* connWriter: after a failure in the middle of a frame nothing is         *)
(* appended to the stream, by whichever goroutine.                         *)
THEOREM StdioClientPartialFrameIsLast == Spec => []PartialFrameIsLast
<1>1. IInv => PartialFrameIsLast
  BY DEF IInv, LockInv
<1>. QED
  BY <1>1, StdioClientInvariant, PTL

(* Call: however the calls end, nothing of them stays in c.pending.        *)
THEOREM StdioClientNoPendingLeak == Spec => []NoPendingLeak
<1>1. IInv => NoPendingLeak
  <2>. SUFFICES ASSUME IInv, \A p \in Procs : pc[p] = "returned", once # "running"
       PROVE  pending = [k \in Keys |-> None]
    BY DEF NoPendingLeak
  <2>1. ASSUME NEW k \in Keys PROVE pending[k] = None
    BY Distinct DEF IInv, TypeOK, MapInv, EntryOK
  <2>2. pending \in [Keys -> Calls \cup {None}]
    BY DEF IInv, TypeOK
  <2>. QED
    BY <2>1, <2>2
<1>. QED
  BY <1>1, StdioClientInvariant, PTL

(* Close: "no frame can be sent after Close returns".  Close waits for the *)
(* mutex to latch the writer, and a latched writer writes nothing.         *)
THEOREM StdioClientNothingSentAfterClose == Spec => NothingSentAfterClose
<1>1. IInv /\ [Next]_vars => (pc[Closer] = "returned" => UNCHANGED wire)
  <2>. SUFFICES ASSUME IInv, [Next]_vars, pc[Closer] = "returned"
       PROVE  wire' = wire
    OBVIOUS
  <2>1. latched /\ \A p \in Procs : pc[p] # "writing"
    BY DEF IInv, OnceInv, LockInv
  <2>2. CASE \E p \in Procs : ProcStep(p) \/ WriteStep(p) \/ MarshalFails(p)
    BY <2>1, <2>2
       DEF ProcStep, WriteStep, MarshalFails, EnterClosed, Enter, DrawID, Register,
           WriteRefused, ReportRefusal, BeginWrite, WriteFailed, Unregister, TakeResponse,
           SeeClosed, WriteFrame, Unframeable, WriteBreaks, writerVars
  <2>3. CASE \/ \E p \in Calls : ContextDone(p)
             \/ \E t \in Threads : ShutdownStep(t)
             \/ BeginClose \/ LatchWriter(Closer)
    BY <2>3 DEF ContextDone, ShutdownStep, OnceFirst, CloseClosed, FailPending, OnceLater,
                EndShutdown, BeginClose, LatchWriter, writerVars
  <2>4. CASE \/ ReaderStep \/ \E f \in PeerFrames : ReadFrame(f)
             \/ \E end \in {"ended", "broken"} : ReadEnds(end)
    BY <2>4 DEF ReaderStep, StopReading, HandleFrame, DropFrame, HandlePush, HandlerReturns,
                Deliver, FailPendingWith, AllSent, LatchWriter, SendToCall, ReadFrame,
                ReadEnds, writerVars
  <2>5. CASE Done \/ UNCHANGED vars
    BY <2>5 DEF Done, vars, writerVars
  <2>. QED
    BY <2>2, <2>3, <2>4, <2>5 DEF Next
<1>. QED
  BY <1>1, StdioClientInvariant, PTL DEF Spec, NothingSentAfterClose

=============================================================================
