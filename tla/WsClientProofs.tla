--------------------------- MODULE WsClientProofs ---------------------------
(***************************************************************************)
(* Proofs about WsClient for every set of goroutines, every plan of calls, *)
(* every set of frames the peer may send, and every interleaving.          *)
(***************************************************************************)
EXTENDS WsClient, FiniteSetTheorems, WellFoundedInduction, TLAPS

(***************************************************************************)
(* The inductive invariant.                                                *)
(***************************************************************************)
ProcPlaces == {"start", "draw", "send", "writing", "waiting", "unregister", "returned"}
ReaderPlaces == {"reading", "handling", "handler", "scanning", "sending",
                 "once", "closing", "failing", "returned"}
CloserPlaces == {"start", "once", "closing", "failing", "returned"}

(* Every variable has its type. *)
TypeInv ==
    /\ pc \in [Threads -> ProcPlaces \cup ReaderPlaces]
    /\ \A p \in Procs : pc[p] \in ProcPlaces
    /\ pc[Reader] \in ReaderPlaces /\ pc[Closer] \in CloserPlaces
    /\ plan \in Plans
    /\ seq \in 0 .. MaxSeq
    /\ ids \in [Procs -> Seq(Keys \cup {NoID})]
    /\ pending \in SUBSET Keys
    /\ chan \in [Keys -> Entry]
    /\ DOMAIN results = Procs /\ \A p \in Procs : results[p] \in [DOMAIN specs(p) -> Entry]
    /\ outcome \in [Procs -> {"none", "ok", "tooLarge", "closed", "notSent", "writeError",
                              "context"}]
    /\ conn \in {"open", "down"}
    /\ once \in {"free", "running", "done"}
    /\ closed \in BOOLEAN
    /\ frame \in PeerFrames \cup {NoFrame}
    /\ limit \in Nat
    /\ scanned \in 0 .. Len(frame.entries)
    /\ targets \in SUBSET Keys
    /\ owed \in SUBSET Keys

(* How many ids a caller has drawn, and for what. *)
DrawnInv ==
    \A p \in Procs :
        /\ pc[p] = "start" \/ plan[p].op = "Notify" => ids[p] = << >>
        /\ Len(ids[p]) <= Len(specs(p))
        /\ \A i \in DOMAIN ids[p] : ids[p][i] <= seq /\ (ids[p][i] # NoID <=> specs(p)[i] = "call")
        /\ pc[p] \in {"draw", "waiting", "unregister"} => plan[p].op # "Notify"
        /\ pc[p] \in {"send", "writing", "waiting", "unregister"} /\ plan[p].op # "Notify" =>
              Len(ids[p]) = Len(specs(p))

(* An id belongs to one caller, and means nothing to the client before     *)
(* that caller has registered it.                                          *)
FreshInv ==
    /\ \A p, q \in Procs : p # q => idsOf(p) \cap idsOf(q) = {}
    /\ \A k \in Keys :
          (k > seq \/ \E p \in Procs : k \in idsOf(p) /\ pc[p] \in {"start", "draw"})
             => k \notin pending /\ k \notin targets /\ chan[k] = NoEntry
    /\ \A k \in pending : k \notin targets /\ chan[k] = NoEntry
    /\ \A p \in Procs : \A i \in DOMAIN specs(p) :
          results[p][i] # NoEntry =>
             /\ pc[p] \notin {"start", "draw"}
             /\ i \in DOMAIN ids[p] /\ ids[p][i] # NoID /\ ids[p][i] \notin pending

(* What is in a channel, or on its way there, is for the id of the channel.*)
ChanInv ==
    /\ \A k \in Keys : chan[k] # NoEntry => chan[k].id = k \/ isRejection(chan[k])
    /\ pc[Reader] = "sending" => \A k \in targets : sent.id = k \/ isRejection(sent)

(* A caller that waits has something to wait for, one that returned ok has *)
(* all its responses, and one that takes its ids out of the map has failed.*)
ResultInv ==
    /\ \A p \in Procs : pc[p] = "waiting" => unanswered(p) # {}
    /\ \A p \in Procs : outcome[p] = "ok" => pc[p] = "returned"
    /\ \A p \in Procs : outcome[p] = "none" <=> pc[p] \notin {"unregister", "returned"}
    /\ ResultsAlign

(* What the read loop has in hand. *)
ReaderInv ==
    /\ pc[Reader] \in {"handling", "handler", "scanning", "sending"} => frame \in PeerFrames
    /\ pc[Reader] = "scanning" => frame.array
    /\ pc[Reader] = "sending" /\ frame.array => scanned > 0
    /\ pc[Reader] \in {"reading", "handling"} => scanned = 0

(* Who runs the function of c.closeOnce. *)
OnceInv ==
    /\ closed <=> once # "free"
    /\ \A t \in {Reader, Closer} : pc[t] \in {"closing", "failing"} => once = "running"
    /\ ~(pc[Reader] \in {"closing", "failing"} /\ pc[Closer] \in {"closing", "failing"})
    /\ \A t \in {Reader, Closer} : pc[t] = "failing" => conn = "down"
    /\ once = "done" => conn = "down"

(* Whose the ids in the map are. *)
LeakInv ==
    /\ \A k \in pending : \E p \in Procs : k \in idsOf(p)
    /\ \A p \in Procs : \A k \in idsOf(p) \cap pending :
          \/ pc[p] \in {"send", "writing", "unregister"}
          \/ pc[p] = "waiting" /\ once # "done"
          \/ pc[p] = "returned" /\ once = "running"

(* The response at position i of the frame in hand is for the j-th spec of *)
(* p: the scan has not come to it and its id is in the map, it is on its   *)
(* way to the channel, or it is there, was taken, or p did without it.     *)
Fate(i, p, j) ==
    LET e == frame.entries[i]
    IN  /\ ids[p][j] = e.id /\ pc[p] \notin {"start", "draw"}
        /\ \/ scanned < i /\ e.id \in pending
           \/ pc[Reader] = "sending" /\ scanned = i /\ e.id \in targets
           \/ /\ e.id \notin pending
              /\ \/ results[p][j] = e \/ chan[e.id] = e
                 \/ outcome[p] \notin {"none", "ok"} \/ closed

(* That is so at every position the limit lets the scan come to. *)
OwedInv ==
    frame.array /\ pc[Reader] \in {"scanning", "sending"} =>
        \A i \in covered : \E p \in Procs : \E j \in DOMAIN ids[p] : Fate(i, p, j)

IInv ==
    /\ TypeInv /\ DrawnInv /\ FreshInv /\ ChanInv /\ ResultInv
    /\ ReaderInv /\ OnceInv /\ LeakInv /\ OwedInv

(***************************************************************************)
(* Facts about the constants and the operators.                            *)
(***************************************************************************)

(* What the assumptions say of the goroutines and of the ids. *)
LEMMA Constants ==
    /\ MaxSeq \in Nat /\ Keys = 1 .. MaxSeq /\ NoID = 0 /\ NoID \notin Keys
    /\ Threads = Procs \cup {Reader, Closer} /\ Reader # Closer
    /\ Reader \notin Procs /\ Closer \notin Procs
    /\ NoEntry \in Entry /\ NoFrame.array = TRUE /\ NoFrame.entries = << >>
BY WsThreadsAssumption, WsBoundsAssumption
   DEF Keys, NoID, NullID, Threads, NoEntry, NoFrame, Entry

(* What a caller may have set out to do. *)
LEMMA PlanFacts ==
    ASSUME plan \in Plans, NEW p \in Procs
    PROVE  /\ plan[p].op \in {"Call", "Notify", "CallBatch"}
           /\ specs(p) \in Seq({"call", "notify"})
           /\ plan[p].op = "Notify" => Len(specs(p)) = 1 /\ specs(p)[1] = "notify"
<1>1. /\ plan[p] \in Request
      /\ plan[p].op = "Notify" => plan[p].specs = <<"notify">>
  BY WsPlansAssumption
<1>2. /\ plan[p].op \in {"Call", "Notify", "CallBatch"}
      /\ plan[p].specs \in Seq({"call", "notify"})
  BY <1>1 DEF Request
<1>3. plan[p].op = "Notify" => Len(plan[p].specs) = 1 /\ plan[p].specs[1] = "notify"
  BY <1>1
<1>. QED
  BY <1>2, <1>3 DEF specs

(* What a frame of the peer looks like. *)
LEMMA FrameFacts ==
    ASSUME NEW f \in PeerFrames \cup {NoFrame}
    PROVE  /\ f.array \in BOOLEAN /\ f.entries \in Seq(Entry)
           /\ f \in PeerFrames /\ ~f.array => Len(f.entries) = 1
<1>1. CASE f \in PeerFrames
  BY <1>1, WsPeerFramesAssumption DEF Frame
<1>2. CASE f = NoFrame
  BY <1>2 DEF NoFrame
<1>. QED
  BY <1>1, <1>2

(* The ids of a caller are keys. *)
LEMMA IdsAreKeys ==
    ASSUME TypeInv, NEW p \in Procs
    PROVE  idsOf(p) \subseteq Keys
BY DEF TypeInv, idsOf

(* A notification has no id. *)
LEMMA NotifyHasNoIds ==
    ASSUME DrawnInv, NEW p \in Procs, plan[p].op = "Notify"
    PROVE  idsOf(p) = {} /\ unanswered(p) = {}
BY DEF DrawnInv, idsOf, unanswered

(* What the read loop may take from the frame in hand. *)
LEMMA FrameInHand ==
    ASSUME TypeInv, ReaderInv, pc[Reader] \in {"handling", "scanning", "sending"}
    PROVE  /\ frame.array \in BOOLEAN /\ frame.entries \in Seq(Entry)
           /\ Len(frame.entries) \in Nat /\ DOMAIN frame.entries = 1 .. Len(frame.entries)
           /\ ~frame.array => Len(frame.entries) = 1
           /\ pc[Reader] = "sending" => sent \in Entry
<1>1. frame \in PeerFrames
  BY DEF ReaderInv
<1>2. /\ frame.array \in BOOLEAN /\ frame.entries \in Seq(Entry)
      /\ ~frame.array => Len(frame.entries) = 1
  BY <1>1, FrameFacts
<1>3. /\ Len(frame.entries) \in Nat /\ DOMAIN frame.entries = 1 .. Len(frame.entries)
      /\ \A i \in 1 .. Len(frame.entries) : frame.entries[i] \in Entry
  BY <1>2
<1>4. ASSUME pc[Reader] = "sending" PROVE sent \in Entry
  BY <1>2, <1>3, <1>4 DEF sent, object, TypeInv, ReaderInv
<1>. QED
  BY <1>2, <1>3, <1>4

(* The map is finite. *)
LEMMA PendingIsFinite ==
    ASSUME TypeInv
    PROVE  IsFiniteSet(pending) /\ Cardinality(pending) \in Nat
<1>1. IsFiniteSet(Keys)
  BY Constants, FS_Interval
<1>. QED
  BY <1>1, FS_Subset, FS_CardinalityType DEF TypeInv

(* A nonempty set of positions has a first one. *)
LEMMA LeastElement ==
    ASSUME NEW S, S \subseteq Nat, S # {}
    PROVE  \E i \in S : \A j \in S : i <= j
<1>. DEFINE R == {ss \in Nat \X Nat : ss[1] < ss[2]}
<1>1. IsWellFoundedOn(R, Nat)
  BY NatLessThanWellFounded, Zenon DEF OpToRel
<1>2. \A x, y \in Nat : y < x => <<y, x>> \in R
  OBVIOUS
<1>. HIDE DEF R
<1>3. PICK x \in S : \A y \in S : ~ (<<y, x>> \in R)
  BY <1>1, WFMin
<1>4. \A y \in S : ~(y < x)
  BY <1>2, <1>3
<1>. QED
  BY <1>4

(* The select of a waiting caller looks at a spec that is not answered yet.*)
LEMMA CurrentIsUnanswered ==
    ASSUME NEW p \in Procs, unanswered(p) \subseteq Nat, unanswered(p) # {}
    PROVE  current(p) \in unanswered(p)
BY LeastElement DEF current

(* A sequence with one more element. *)
LEMMA Appended ==
    ASSUME NEW S, NEW s \in Seq(S), NEW x \in S
    PROVE  LET n == Len(s) + 1
           IN  /\ Append(s, x) \in Seq(S) /\ Len(Append(s, x)) = n /\ n \in Nat \ {0}
               /\ DOMAIN Append(s, x) = 1 .. n /\ DOMAIN s = 1 .. n - 1
               /\ Append(s, x)[n] = x
               /\ \A k \in 1 .. n - 1 : Append(s, x)[k] = s[k] /\ s[k] \in S
OBVIOUS

(* What is at a position the limit lets the scan come to. *)
LEMMA CoveredFacts ==
    ASSUME IInv, pc[Reader] \in {"scanning", "sending"}, NEW i \in covered
    PROVE  /\ i \in 1 .. Len(frame.entries) /\ i <= limit
           /\ frame.entries[i].id \in owed /\ frame.entries[i].id \in Keys
           /\ frame.entries[i] # NoEntry
<1>1. DOMAIN frame.entries = 1 .. Len(frame.entries)
  BY FrameInHand DEF IInv
<1>2. /\ i \in 1 .. Len(frame.entries) /\ i <= limit
      /\ frame.entries[i].id \in owed /\ frame.entries[i].body # "junk"
  BY <1>1 DEF covered
<1>. QED
  BY <1>2 DEF IInv, TypeInv, NoEntry

(* A step that leaves the frame alone, and after which every response      *)
(* still to be accounted for is so, for the same caller, keeps OwedInv.    *)
LEMMA OwedStep ==
    ASSUME IInv, UNCHANGED <<frame, limit, owed>>,
           pc'[Reader] \in {"scanning", "sending"} => pc[Reader] \in {"scanning", "sending"},
           ASSUME NEW i \in covered, NEW q \in Procs, NEW j \in DOMAIN ids[q], Fate(i, q, j),
                  frame.array, pc[Reader] \in {"scanning", "sending"}
           PROVE  \E jj \in DOMAIN ids'[q] : Fate(i, q, jj)'
    PROVE  OwedInv'
<1>. SUFFICES ASSUME frame.array, pc[Reader] \in {"scanning", "sending"}, NEW i \in covered
              PROVE  \E q \in Procs : \E jj \in DOMAIN ids'[q] : Fate(i, q, jj)'
  BY DEF OwedInv, covered
<1>1. PICK q \in Procs : \E j \in DOMAIN ids[q] : Fate(i, q, j)
  BY DEF IInv, OwedInv
<1>2. PICK j \in DOMAIN ids[q] : Fate(i, q, j)
  BY <1>1
<1>. QED
  BY <1>2

(* A step that moves nothing of what the read loop has to do with keeps    *)
(* it, the callers going on or giving up.                                  *)
LEMMA OwedKept ==
    ASSUME IInv, UNCHANGED <<pending, chan, results, frame, limit, scanned, targets, owed>>,
           pc'[Reader] = pc[Reader] \/ pc'[Reader] \notin {"scanning", "sending"},
           \A q \in Procs : \A j \in DOMAIN ids[q] :
               j \in DOMAIN ids'[q] /\ ids'[q][j] = ids[q][j],
           \A q \in Procs : pc[q] \notin {"start", "draw"} => pc'[q] \notin {"start", "draw"},
           \A q \in Procs : outcome[q] \notin {"none", "ok"} => outcome'[q] \notin {"none", "ok"},
           closed => closed'
    PROVE  OwedInv'
<1>1. CASE pc'[Reader] \notin {"scanning", "sending"}
  BY <1>1 DEF OwedInv
<1>2. CASE pc'[Reader] = pc[Reader]
  <2>1. ASSUME NEW i \in covered, NEW q \in Procs, NEW j \in DOMAIN ids[q], Fate(i, q, j)
        PROVE  Fate(i, q, j)'
    BY <1>2, <2>1 DEF Fate
  <2>. QED
    BY <1>2, <2>1, OwedStep
<1>. QED
  BY <1>1, <1>2

(* RejectLocally keeps the invariant: an empty or an oversized batch is    *)
(* refused.                                                                *)
LEMMA RejectLocallyStep ==
    ASSUME IInv, NEW p \in Procs, RejectLocally(p)
    PROVE  IInv'
<1>0. /\ pc' = [pc EXCEPT ![p] = "returned"]
      /\ outcome' \in {[outcome EXCEPT ![p] = "ok"], [outcome EXCEPT ![p] = "tooLarge"]}
      /\ UNCHANGED <<plan, seq, ids, pending, chan, results, lock, conn, once,
            closed, inbound, frame, limit, scanned, targets, owed>>
      /\ pc[p] = "start"
      /\ outcome'[p] = "ok" => specs(p) = << >>
  BY DEF RejectLocally, return, goto, IInv, TypeInv, callVars, closeVars, readVars
<1>a. sent' = sent /\ \A q \in Procs : idsOf(q)' = idsOf(q) /\ unanswered(q)' = unanswered(q)
  BY <1>0 DEF idsOf, unanswered, sent, object
<1>1. TypeInv'
  BY <1>0, Constants, <1>a
     DEF IInv, TypeInv, specs, ProcPlaces, ReaderPlaces, CloserPlaces
<1>2. DrawnInv'
  BY <1>0, Constants, <1>a DEF IInv, TypeInv, DrawnInv, specs
<1>3. FreshInv'
  BY <1>0, Constants, <1>a DEF IInv, TypeInv, DrawnInv, FreshInv, specs
<1>4. ChanInv'
  BY <1>0, Constants, <1>a DEF IInv, TypeInv, ChanInv
<1>5. ResultInv'
  BY <1>0, Constants, <1>a DEF IInv, TypeInv, DrawnInv, ResultInv, ResultsAlign, specs
<1>6. ReaderInv'
  BY <1>0, Constants, <1>a DEF IInv, TypeInv, ReaderInv
<1>7. OnceInv'
  BY <1>0, Constants, <1>a DEF IInv, TypeInv, OnceInv
<1>8. LeakInv'
  BY <1>0, Constants, <1>a DEF IInv, TypeInv, DrawnInv, FreshInv, OnceInv, LeakInv
<1>9. OwedInv'
  BY <1>0, Constants, OwedKept DEF IInv, TypeInv, ResultInv
<1>. QED
  BY <1>1, <1>2, <1>3, <1>4, <1>5, <1>6, <1>7, <1>8, <1>9 DEF IInv

(* EnterClosed keeps the invariant: a call on a closed client is refused.  *)
LEMMA EnterClosedStep ==
    ASSUME IInv, NEW p \in Procs, EnterClosed(p)
    PROVE  IInv'
<1>0. /\ pc' = [pc EXCEPT ![p] = "returned"]
      /\ outcome' = [outcome EXCEPT ![p] = "closed"]
      /\ UNCHANGED <<plan, seq, ids, pending, chan, results, lock, conn, once,
            closed, inbound, frame, limit, scanned, targets, owed>>
      /\ pc[p] = "start"
  BY DEF EnterClosed, return, goto, callVars, closeVars, readVars
<1>a. sent' = sent /\ \A q \in Procs : idsOf(q)' = idsOf(q) /\ unanswered(q)' = unanswered(q)
  BY <1>0 DEF idsOf, unanswered, sent, object
<1>1. TypeInv'
  BY <1>0, Constants, <1>a
     DEF IInv, TypeInv, specs, ProcPlaces, ReaderPlaces, CloserPlaces
<1>2. DrawnInv'
  BY <1>0, Constants, <1>a DEF IInv, TypeInv, DrawnInv, specs
<1>3. FreshInv'
  BY <1>0, Constants, <1>a DEF IInv, TypeInv, DrawnInv, FreshInv, specs
<1>4. ChanInv'
  BY <1>0, Constants, <1>a DEF IInv, TypeInv, ChanInv
<1>5. ResultInv'
  BY <1>0, Constants, <1>a DEF IInv, TypeInv, DrawnInv, ResultInv, ResultsAlign, specs
<1>6. ReaderInv'
  BY <1>0, Constants, <1>a DEF IInv, TypeInv, ReaderInv
<1>7. OnceInv'
  BY <1>0, Constants, <1>a DEF IInv, TypeInv, OnceInv
<1>8. LeakInv'
  BY <1>0, Constants, <1>a DEF IInv, TypeInv, DrawnInv, FreshInv, OnceInv, LeakInv
<1>9. OwedInv'
  BY <1>0, Constants, OwedKept DEF IInv, TypeInv, ResultInv
<1>. QED
  BY <1>1, <1>2, <1>3, <1>4, <1>5, <1>6, <1>7, <1>8, <1>9 DEF IInv

(* Enter keeps the invariant: a call begins.                               *)
LEMMA EnterStep ==
    ASSUME IInv, NEW p \in Procs, Enter(p)
    PROVE  IInv'
<1>0. /\ pc' = [pc EXCEPT ![p] = IF plan[p].op = "Notify" THEN "send" ELSE "draw"]
      /\ UNCHANGED <<plan, seq, ids, pending, chan, results, outcome, lock,
            conn, once, closed, inbound, frame, limit, scanned, targets, owed>>
      /\ pc[p] = "start"
  BY DEF Enter, goto, callVars, closeVars, readVars
<1>a. sent' = sent /\ \A q \in Procs : idsOf(q)' = idsOf(q) /\ unanswered(q)' = unanswered(q)
  BY <1>0 DEF idsOf, unanswered, sent, object
<1>1. TypeInv'
  BY <1>0, Constants, <1>a
     DEF IInv, TypeInv, specs, ProcPlaces, ReaderPlaces, CloserPlaces
<1>2. DrawnInv'
  BY <1>0, Constants, <1>a DEF IInv, TypeInv, DrawnInv, specs
<1>3. FreshInv'
  BY <1>0, Constants, <1>a DEF IInv, TypeInv, DrawnInv, FreshInv, specs
<1>4. ChanInv'
  BY <1>0, Constants, <1>a DEF IInv, TypeInv, ChanInv
<1>5. ResultInv'
  BY <1>0, Constants, <1>a DEF IInv, TypeInv, DrawnInv, ResultInv, ResultsAlign, specs
<1>6. ReaderInv'
  BY <1>0, Constants, <1>a DEF IInv, TypeInv, ReaderInv
<1>7. OnceInv'
  BY <1>0, Constants, <1>a DEF IInv, TypeInv, OnceInv
<1>8. LeakInv'
  BY <1>0, Constants, <1>a DEF IInv, TypeInv, DrawnInv, FreshInv, OnceInv, LeakInv
<1>9. OwedInv'
  BY <1>0, Constants, OwedKept DEF IInv, TypeInv, ResultInv
<1>. QED
  BY <1>1, <1>2, <1>3, <1>4, <1>5, <1>6, <1>7, <1>8, <1>9 DEF IInv

(* DrawID keeps the invariant: a caller draws a fresh id for a call, and   *)
(* none for a notification.                                                *)
LEMMA DrawIDStep ==
    ASSUME IInv, NEW p \in Procs, DrawID(p)
    PROVE  IInv'
<1>. DEFINE n == Len(ids[p]) + 1
<1>1. PICK v \in Keys \cup {NoID} :
         /\ ids' = [ids EXCEPT ![p] = Append(ids[p], v)]
         /\ v # NoID <=> specs(p)[n] = "call"
         /\ v # NoID => v = seq + 1 /\ seq' = seq + 1
         /\ v = NoID => seq' = seq
  <2>1. CASE specs(p)[n] = "call"
    <3>1. /\ seq < MaxSeq /\ seq' = seq + 1
          /\ ids' = [ids EXCEPT ![p] = Append(ids[p], seq + 1)]
      BY <2>1 DEF DrawID
    <3>2. seq + 1 \in Keys /\ seq + 1 # NoID
      BY <3>1, Constants DEF IInv, TypeInv
    <3>. QED
      BY <2>1, <3>1, <3>2
  <2>2. CASE specs(p)[n] # "call"
    BY <2>2, Constants DEF DrawID
  <2>. QED
    BY <2>1, <2>2
<1>0. /\ UNCHANGED <<pc, plan, pending, chan, results, outcome, lock, conn, once, closed,
            inbound, frame, limit, scanned, targets, owed>>
      /\ pc[p] = "draw" /\ Len(ids[p]) < Len(specs(p))
  BY DEF DrawID, closeVars, readVars
<1>2. /\ ids'[p] \in Seq(Keys \cup {NoID}) /\ Len(ids'[p]) = n /\ n \in Nat \ {0}
      /\ DOMAIN ids'[p] = 1 .. n /\ DOMAIN ids[p] = 1 .. n - 1 /\ ids'[p][n] = v
      /\ \A k \in 1 .. n - 1 : ids'[p][k] = ids[p][k] /\ ids[p][k] \in Keys \cup {NoID}
  <2>1. ids'[p] = Append(ids[p], v)
    BY <1>1 DEF IInv, TypeInv
  <2>. QED
    BY <2>1, Appended DEF IInv, TypeInv
<1>3. \A q \in Procs : q # p => ids'[q] = ids[q]
  BY <1>1 DEF IInv, TypeInv
<1>. HIDE DEF n
<1>a. /\ \A q \in Procs : q # p => idsOf(q)' = idsOf(q) /\ unanswered(q)' = unanswered(q)
      /\ idsOf(p)' \subseteq idsOf(p) \cup ({v} \ {NoID}) /\ idsOf(p) \subseteq idsOf(p)'
      /\ sent' = sent
  <2>1. \A q \in Procs : q # p => idsOf(q)' = idsOf(q) /\ unanswered(q)' = unanswered(q)
    BY <1>0, <1>3 DEF idsOf, unanswered
  <2>2. idsOf(p)' \subseteq idsOf(p) \cup ({v} \ {NoID})
    <3>. SUFFICES ASSUME NEW i \in 1 .. n, ids'[p][i] # NoID
                  PROVE  ids'[p][i] \in idsOf(p) \cup ({v} \ {NoID})
      BY <1>2 DEF idsOf
    <3>1. CASE i = n
      BY <1>2, <3>1
    <3>2. CASE i # n
      BY <1>2, <3>2 DEF idsOf
    <3>. QED
      BY <3>1, <3>2
  <2>3. idsOf(p) \subseteq idsOf(p)'
    BY <1>2 DEF idsOf
  <2>. QED
    BY <1>0, <2>1, <2>2, <2>3 DEF sent, object
<1>b. seq' \in 0 .. MaxSeq /\ seq <= seq' /\ seq \in Nat /\ seq' \in Nat
  BY <1>1, Constants DEF IInv, TypeInv
<1>4. plan[p].op # "Notify" /\ n <= Len(specs(p)) /\ specs(p) \in Seq({"call", "notify"})
      /\ Len(specs(p)) \in Nat
  BY <1>0, <1>2, PlanFacts DEF n, IInv, TypeInv, DrawnInv
<1>c. TypeInv'
  <2>1. ids' \in [Procs -> Seq(Keys \cup {NoID})]
    BY <1>1, <1>2, <1>3 DEF IInv, TypeInv
  <2>. QED
    BY <1>0, <1>b, <2>1 DEF IInv, TypeInv, specs, ProcPlaces, ReaderPlaces, CloserPlaces
<1>d. DrawnInv'
  <2>1. ASSUME NEW q \in Procs, NEW i \in DOMAIN ids'[q]
        PROVE  ids'[q][i] <= seq' /\ (ids'[q][i] # NoID <=> specs(q)[i] = "call")
    <3>1. CASE q # p
      <4>1. ids[q][i] <= seq /\ (ids[q][i] # NoID <=> specs(q)[i] = "call")
        BY <1>3, <2>1, <3>1 DEF IInv, DrawnInv
      <4>2. ids[q][i] \in Nat
        BY <1>3, <2>1, <3>1, Constants DEF IInv, TypeInv
      <4>. QED
        BY <1>3, <1>b, <3>1, <4>1, <4>2
    <3>2. CASE q = p /\ i # n
      <4>1. ids[p][i] <= seq /\ (ids[p][i] # NoID <=> specs(p)[i] = "call")
        BY <1>2, <2>1, <3>2 DEF IInv, DrawnInv
      <4>2. ids'[p][i] = ids[p][i] /\ ids[p][i] \in Nat
        BY <1>2, <2>1, <3>2, Constants
      <4>. QED
        BY <1>b, <3>2, <4>1, <4>2
    <3>3. CASE q = p /\ i = n
      BY <1>1, <1>2, <1>b, <3>3, Constants DEF n
    <3>. QED
      BY <3>1, <3>2, <3>3
  <2>2. ASSUME NEW q \in Procs
        PROVE  /\ pc[q] = "start" \/ plan[q].op = "Notify" => ids'[q] = << >>
               /\ Len(ids'[q]) <= Len(specs(q))
               /\ pc[q] \in {"draw", "waiting", "unregister"} => plan[q].op # "Notify"
               /\ pc[q] \in {"send", "writing", "waiting", "unregister"}
                     /\ plan[q].op # "Notify" => Len(ids'[q]) = Len(specs(q))
    <3>1. CASE q = p
      BY <1>0, <1>2, <1>4, <3>1
    <3>2. CASE q # p
      BY <1>3, <3>2 DEF IInv, DrawnInv
    <3>. QED
      BY <3>1, <3>2
  <2>. QED
    BY <1>0, <2>1, <2>2 DEF DrawnInv, specs
<1>e. FreshInv'
  <2>1. \A q \in Procs : \A k \in idsOf(q) : k \in Nat /\ k <= seq
    BY IdsAreKeys, Constants DEF IInv, DrawnInv, idsOf
  <2>2. \A q \in Procs : q # p => idsOf(q) \cap idsOf(p)' = {}
    BY <1>1, <1>a, <1>b, <2>1 DEF IInv, FreshInv
  <2>3. \A q, r \in Procs : q # r => idsOf(q)' \cap idsOf(r)' = {}
    BY <1>a, <2>2 DEF IInv, FreshInv
  <2>4. ASSUME NEW k \in Keys,
               k > seq' \/ \E q \in Procs : k \in idsOf(q)' /\ pc[q] \in {"start", "draw"}
        PROVE  k \notin pending /\ k \notin targets /\ chan[k] = NoEntry
    <3>1. k > seq \/ \E q \in Procs : k \in idsOf(q) /\ pc[q] \in {"start", "draw"}
      BY <1>0, <1>1, <1>a, <1>b, <2>4, Constants
    <3>. QED
      BY <3>1 DEF IInv, FreshInv
  <2>5. ASSUME NEW q \in Procs, NEW i \in DOMAIN specs(q), results[q][i] # NoEntry
        PROVE  /\ pc[q] \notin {"start", "draw"}
               /\ i \in DOMAIN ids'[q] /\ ids'[q][i] # NoID /\ ids'[q][i] \notin pending
    <3>1. q # p
      BY <1>0, <2>5 DEF IInv, FreshInv
    <3>. QED
      BY <1>3, <2>5, <3>1 DEF IInv, FreshInv
  <2>. QED
    BY <1>0, <2>3, <2>4, <2>5 DEF IInv, FreshInv, specs
<1>f. ChanInv'
  BY <1>0, <1>a DEF IInv, ChanInv
<1>g. ResultInv'
  <2>1. ASSUME NEW q \in Procs, NEW i \in DOMAIN specs(q), results[q][i] # NoEntry
        PROVE  /\ specs(q)[i] = "call"
               /\ results[q][i].id = ids'[q][i] \/ isRejection(results[q][i])
    <3>1. q # p
      BY <1>0, <2>1 DEF IInv, FreshInv
    <3>. QED
      BY <1>3, <2>1, <3>1 DEF IInv, ResultInv, ResultsAlign
  <2>2. \A q \in Procs : pc[q] = "waiting" => unanswered(q)' # {}
    BY <1>0, <1>a DEF IInv, ResultInv
  <2>. QED
    BY <1>0, <2>1, <2>2 DEF IInv, ResultInv, ResultsAlign, specs
<1>h. ReaderInv' /\ OnceInv'
  BY <1>0 DEF IInv, ReaderInv, OnceInv
<1>i. LeakInv'
  <2>1. ASSUME NEW k \in pending PROVE \E q \in Procs : k \in idsOf(q)'
    BY <1>a, <2>1 DEF IInv, LeakInv
  <2>2. idsOf(p)' \cap pending = {}
    BY <1>0, <1>e DEF FreshInv, IInv, TypeInv
  <2>. QED
    BY <1>0, <1>a, <2>1, <2>2 DEF IInv, LeakInv
<1>j. OwedInv'
  <2>1. \A q \in Procs : \A j \in DOMAIN ids[q] :
            j \in DOMAIN ids'[q] /\ ids'[q][j] = ids[q][j]
    BY <1>2, <1>3
  <2>. QED
    BY <1>0, <2>1, OwedKept
<1>. QED
  BY <1>c, <1>d, <1>e, <1>f, <1>g, <1>h, <1>i, <1>j DEF IInv

(* Register keeps the invariant: a call or batch registers its ids.        *)
LEMMA RegisterStep ==
    ASSUME IInv, NEW p \in Procs, Register(p)
    PROVE  IInv'
<1>0. /\ pc' = [pc EXCEPT ![p] = "send"]
      /\ pending' = pending \cup idsOf(p)
      /\ UNCHANGED <<plan, seq, ids, chan, results, outcome, lock, conn, once,
            closed, inbound, frame, limit, scanned, targets, owed>>
      /\ pc[p] = "draw"
      /\ Len(ids[p]) = Len(specs(p))
  BY DEF Register, goto, callVars, closeVars, readVars
<1>a. sent' = sent /\ \A q \in Procs : idsOf(q)' = idsOf(q) /\ unanswered(q)' = unanswered(q)
  BY <1>0 DEF idsOf, unanswered, sent, object
<1>1. TypeInv'
  <2>1. pending' \in SUBSET Keys
    BY <1>0, IdsAreKeys DEF IInv, TypeInv
  <2>. QED
    BY <1>0, <2>1, Constants
       DEF IInv, TypeInv, specs, ProcPlaces, ReaderPlaces, CloserPlaces
<1>2. DrawnInv'
  BY <1>0, Constants, <1>a DEF IInv, TypeInv, DrawnInv, specs
<1>3. FreshInv'
  <2>1. \A k \in idsOf(p) : k \in Keys /\ k <= seq /\ k \notin targets /\ chan[k] = NoEntry
    BY <1>0, IdsAreKeys DEF IInv, DrawnInv, FreshInv, idsOf
  <2>2. \A q \in Procs : q # p => idsOf(q) \cap idsOf(p) = {}
    BY DEF IInv, FreshInv
  <2>3. ASSUME NEW k \in Keys,
               k > seq \/ \E q \in Procs : k \in idsOf(q) /\ pc'[q] \in {"start", "draw"}
        PROVE  k \notin pending' /\ k \notin targets /\ chan[k] = NoEntry
    <3>1. k \notin idsOf(p)
      BY <1>0, <2>1, <2>2, <2>3, Constants DEF IInv, TypeInv
    <3>. QED
      BY <1>0, <2>3, <3>1, Constants DEF IInv, TypeInv, FreshInv
  <2>4. ASSUME NEW q \in Procs, NEW i \in DOMAIN specs(q), results[q][i] # NoEntry
        PROVE  /\ pc'[q] \notin {"start", "draw"}
               /\ i \in DOMAIN ids[q] /\ ids[q][i] # NoID /\ ids[q][i] \notin pending'
    <3>1. q # p /\ i \in DOMAIN ids[q] /\ ids[q][i] # NoID /\ ids[q][i] \notin pending
          /\ pc[q] \notin {"start", "draw"}
      BY <1>0, <2>4 DEF IInv, FreshInv
    <3>2. ids[q][i] \in idsOf(q)
      BY <3>1 DEF idsOf
    <3>. QED
      BY <1>0, <2>2, <3>1, <3>2, Constants DEF IInv, TypeInv
  <2>. QED
    BY <1>0, <1>a, <2>1, <2>3, <2>4 DEF IInv, FreshInv, specs
<1>4. ChanInv'
  BY <1>0, Constants, <1>a DEF IInv, TypeInv, ChanInv
<1>5. ResultInv'
  BY <1>0, Constants, <1>a DEF IInv, TypeInv, DrawnInv, ResultInv, ResultsAlign, specs
<1>6. ReaderInv'
  BY <1>0, Constants, <1>a DEF IInv, TypeInv, ReaderInv
<1>7. OnceInv'
  BY <1>0, Constants, <1>a DEF IInv, TypeInv, OnceInv
<1>8. LeakInv'
  BY <1>0, Constants, <1>a DEF IInv, TypeInv, DrawnInv, FreshInv, OnceInv, LeakInv
<1>9. OwedInv'
  <2>1. pc'[Reader] = pc[Reader]
    BY <1>0, Constants DEF IInv, TypeInv
  <2>2. ASSUME NEW i \in covered, NEW q \in Procs, NEW j \in DOMAIN ids[q], Fate(i, q, j),
               pc[Reader] \in {"scanning", "sending"}
        PROVE  Fate(i, q, j)'
    <3>1. q # p /\ pc'[q] = pc[q] /\ ids[q][j] = frame.entries[i].id
      BY <1>0, <2>2, Constants DEF Fate, IInv, TypeInv
    <3>2. frame.entries[i].id \in idsOf(q)
      BY <2>2, <3>1, CoveredFacts, Constants DEF idsOf
    <3>3. frame.entries[i].id \notin idsOf(p)
      BY <3>1, <3>2 DEF IInv, FreshInv
    <3>. QED
      BY <1>0, <2>1, <2>2, <3>1, <3>3 DEF Fate
  <2>. QED
    BY <1>0, <2>1, <2>2, OwedStep
<1>. QED
  BY <1>1, <1>2, <1>3, <1>4, <1>5, <1>6, <1>7, <1>8, <1>9 DEF IInv

(* MarshalFailsCall keeps the invariant: a call cannot be encoded.         *)
LEMMA MarshalFailsCallStep ==
    ASSUME IInv, NEW p \in Procs, plan[p].op = "Call", MarshalFails(p)
    PROVE  IInv'
<1>0. /\ pc' = [pc EXCEPT ![p] = "unregister"]
      /\ outcome' = [outcome EXCEPT ![p] = "notSent"]
      /\ UNCHANGED <<plan, seq, ids, pending, chan, results, lock, conn, once,
            closed, inbound, frame, limit, scanned, targets, owed>>
      /\ pc[p] = "send"
  BY DEF MarshalFails, goto, callVars, closeVars, readVars
<1>a. sent' = sent /\ \A q \in Procs : idsOf(q)' = idsOf(q) /\ unanswered(q)' = unanswered(q)
  BY <1>0 DEF idsOf, unanswered, sent, object
<1>1. TypeInv'
  BY <1>0, Constants, <1>a
     DEF IInv, TypeInv, specs, ProcPlaces, ReaderPlaces, CloserPlaces
<1>2. DrawnInv'
  BY <1>0, Constants, <1>a DEF IInv, TypeInv, DrawnInv, specs
<1>3. FreshInv'
  BY <1>0, Constants, <1>a DEF IInv, TypeInv, DrawnInv, FreshInv, specs
<1>4. ChanInv'
  BY <1>0, Constants, <1>a DEF IInv, TypeInv, ChanInv
<1>5. ResultInv'
  BY <1>0, Constants, <1>a DEF IInv, TypeInv, DrawnInv, ResultInv, ResultsAlign, specs
<1>6. ReaderInv'
  BY <1>0, Constants, <1>a DEF IInv, TypeInv, ReaderInv
<1>7. OnceInv'
  BY <1>0, Constants, <1>a DEF IInv, TypeInv, OnceInv
<1>8. LeakInv'
  BY <1>0, Constants, <1>a DEF IInv, TypeInv, DrawnInv, FreshInv, OnceInv, LeakInv
<1>9. OwedInv'
  BY <1>0, Constants, OwedKept DEF IInv, TypeInv, ResultInv
<1>. QED
  BY <1>1, <1>2, <1>3, <1>4, <1>5, <1>6, <1>7, <1>8, <1>9 DEF IInv

(* MarshalFailsBatch keeps the invariant: a batch cannot be encoded.       *)
LEMMA MarshalFailsBatchStep ==
    ASSUME IInv, NEW p \in Procs, plan[p].op = "CallBatch", MarshalFails(p)
    PROVE  IInv'
<1>0. /\ pc' = [pc EXCEPT ![p] = "returned"]
      /\ outcome' = [outcome EXCEPT ![p] = "notSent"]
      /\ UNCHANGED <<plan, seq, ids, pending, chan, results, lock, conn, once,
            closed, inbound, frame, limit, scanned, targets, owed>>
      /\ pc[p] = "draw"
  BY DEF MarshalFails, goto, callVars, closeVars, readVars
<1>a. sent' = sent /\ \A q \in Procs : idsOf(q)' = idsOf(q) /\ unanswered(q)' = unanswered(q)
  BY <1>0 DEF idsOf, unanswered, sent, object
<1>1. TypeInv'
  BY <1>0, Constants, <1>a
     DEF IInv, TypeInv, specs, ProcPlaces, ReaderPlaces, CloserPlaces
<1>2. DrawnInv'
  BY <1>0, Constants, <1>a DEF IInv, TypeInv, DrawnInv, specs
<1>3. FreshInv'
  BY <1>0, Constants, <1>a DEF IInv, TypeInv, DrawnInv, FreshInv, specs
<1>4. ChanInv'
  BY <1>0, Constants, <1>a DEF IInv, TypeInv, ChanInv
<1>5. ResultInv'
  BY <1>0, Constants, <1>a DEF IInv, TypeInv, DrawnInv, ResultInv, ResultsAlign, specs
<1>6. ReaderInv'
  BY <1>0, Constants, <1>a DEF IInv, TypeInv, ReaderInv
<1>7. OnceInv'
  BY <1>0, Constants, <1>a DEF IInv, TypeInv, OnceInv
<1>8. LeakInv'
  BY <1>0, Constants, <1>a DEF IInv, TypeInv, DrawnInv, FreshInv, OnceInv, LeakInv
<1>9. OwedInv'
  BY <1>0, Constants, OwedKept DEF IInv, TypeInv, ResultInv
<1>. QED
  BY <1>1, <1>2, <1>3, <1>4, <1>5, <1>6, <1>7, <1>8, <1>9 DEF IInv

(* MarshalFailsNotify keeps the invariant: a notification cannot be        *)
(* encoded.                                                                *)
LEMMA MarshalFailsNotifyStep ==
    ASSUME IInv, NEW p \in Procs, plan[p].op = "Notify", MarshalFails(p)
    PROVE  IInv'
<1>0. /\ pc' = [pc EXCEPT ![p] = "returned"]
      /\ outcome' = [outcome EXCEPT ![p] = "notSent"]
      /\ UNCHANGED <<plan, seq, ids, pending, chan, results, lock, conn, once,
            closed, inbound, frame, limit, scanned, targets, owed>>
      /\ pc[p] = "send"
  BY DEF MarshalFails, goto, callVars, closeVars, readVars
<1>a. sent' = sent /\ \A q \in Procs : idsOf(q)' = idsOf(q) /\ unanswered(q)' = unanswered(q)
  BY <1>0 DEF idsOf, unanswered, sent, object
<1>1. TypeInv'
  BY <1>0, Constants, <1>a
     DEF IInv, TypeInv, specs, ProcPlaces, ReaderPlaces, CloserPlaces
<1>2. DrawnInv'
  BY <1>0, Constants, <1>a DEF IInv, TypeInv, DrawnInv, specs
<1>3. FreshInv'
  BY <1>0, Constants, <1>a DEF IInv, TypeInv, DrawnInv, FreshInv, specs
<1>4. ChanInv'
  BY <1>0, Constants, <1>a DEF IInv, TypeInv, ChanInv
<1>5. ResultInv'
  BY <1>0, Constants, <1>a DEF IInv, TypeInv, DrawnInv, ResultInv, ResultsAlign, specs
<1>6. ReaderInv'
  BY <1>0, Constants, <1>a DEF IInv, TypeInv, ReaderInv
<1>7. OnceInv'
  BY <1>0, Constants, <1>a DEF IInv, TypeInv, OnceInv
<1>8. LeakInv'
  <2>1. idsOf(p) = {}
    BY NotifyHasNoIds DEF IInv
  <2>. QED
    BY <1>0, <1>a, <2>1, Constants DEF IInv, TypeInv, DrawnInv, FreshInv, OnceInv, LeakInv
<1>9. OwedInv'
  BY <1>0, Constants, OwedKept DEF IInv, TypeInv, ResultInv
<1>. QED
  BY <1>1, <1>2, <1>3, <1>4, <1>5, <1>6, <1>7, <1>8, <1>9 DEF IInv

(* BeginWrite keeps the invariant: a write begins.                         *)
LEMMA BeginWriteStep ==
    ASSUME IInv, NEW p \in Procs, BeginWrite(p)
    PROVE  IInv'
<1>0. /\ pc' = [pc EXCEPT ![p] = "writing"]
      /\ lock' = p
      /\ UNCHANGED <<plan, seq, ids, pending, chan, results, outcome, conn,
            once, closed, inbound, frame, limit, scanned, targets, owed>>
      /\ pc[p] = "send"
  BY DEF BeginWrite, goto, callVars, closeVars, readVars
<1>a. sent' = sent /\ \A q \in Procs : idsOf(q)' = idsOf(q) /\ unanswered(q)' = unanswered(q)
  BY <1>0 DEF idsOf, unanswered, sent, object
<1>1. TypeInv'
  BY <1>0, Constants, <1>a
     DEF IInv, TypeInv, specs, ProcPlaces, ReaderPlaces, CloserPlaces
<1>2. DrawnInv'
  BY <1>0, Constants, <1>a DEF IInv, TypeInv, DrawnInv, specs
<1>3. FreshInv'
  BY <1>0, Constants, <1>a DEF IInv, TypeInv, DrawnInv, FreshInv, specs
<1>4. ChanInv'
  BY <1>0, Constants, <1>a DEF IInv, TypeInv, ChanInv
<1>5. ResultInv'
  BY <1>0, Constants, <1>a DEF IInv, TypeInv, DrawnInv, ResultInv, ResultsAlign, specs
<1>6. ReaderInv'
  BY <1>0, Constants, <1>a DEF IInv, TypeInv, ReaderInv
<1>7. OnceInv'
  BY <1>0, Constants, <1>a DEF IInv, TypeInv, OnceInv
<1>8. LeakInv'
  BY <1>0, Constants, <1>a DEF IInv, TypeInv, DrawnInv, FreshInv, OnceInv, LeakInv
<1>9. OwedInv'
  BY <1>0, Constants, OwedKept DEF IInv, TypeInv, ResultInv
<1>. QED
  BY <1>1, <1>2, <1>3, <1>4, <1>5, <1>6, <1>7, <1>8, <1>9 DEF IInv

(* WriteFrameAll keeps the invariant: a frame without calls is written.    *)
LEMMA WriteFrameAllStep ==
    ASSUME IInv, NEW p \in Procs, unanswered(p) = {}, WriteFrame(p)
    PROVE  IInv'
<1>0. /\ pc' = [pc EXCEPT ![p] = "returned"]
      /\ lock' = None
      /\ outcome' = [outcome EXCEPT ![p] = "ok"]
      /\ UNCHANGED <<plan, seq, ids, pending, chan, results, conn, once,
            closed, inbound, frame, limit, scanned, targets, owed>>
      /\ pc[p] = "writing"
  BY DEF WriteFrame, return, goto, callVars, closeVars, readVars
<1>a. sent' = sent /\ \A q \in Procs : idsOf(q)' = idsOf(q) /\ unanswered(q)' = unanswered(q)
  BY <1>0 DEF idsOf, unanswered, sent, object
<1>1. TypeInv'
  BY <1>0, Constants, <1>a
     DEF IInv, TypeInv, specs, ProcPlaces, ReaderPlaces, CloserPlaces
<1>2. DrawnInv'
  BY <1>0, Constants, <1>a DEF IInv, TypeInv, DrawnInv, specs
<1>3. FreshInv'
  BY <1>0, Constants, <1>a DEF IInv, TypeInv, DrawnInv, FreshInv, specs
<1>4. ChanInv'
  BY <1>0, Constants, <1>a DEF IInv, TypeInv, ChanInv
<1>5. ResultInv'
  <2>1. ASSUME NEW i \in DOMAIN specs(p), specs(p)[i] = "call"
        PROVE  results[p][i] # NoEntry
    <3>1. plan[p].op # "Notify"
      BY <2>1, PlanFacts DEF IInv, TypeInv
    <3>2. i \in DOMAIN ids[p]
      BY <1>0, <3>1, PlanFacts DEF IInv, TypeInv, DrawnInv
    <3>. QED
      BY <2>1, <3>2 DEF IInv, DrawnInv, unanswered
  <2>. QED
    BY <1>0, <1>a, <2>1, Constants DEF IInv, TypeInv, ResultInv, ResultsAlign, specs
<1>6. ReaderInv'
  BY <1>0, Constants, <1>a DEF IInv, TypeInv, ReaderInv
<1>7. OnceInv'
  BY <1>0, Constants, <1>a DEF IInv, TypeInv, OnceInv
<1>8. LeakInv'
  <2>1. idsOf(p) \cap pending = {}
    <3>. SUFFICES ASSUME NEW i \in DOMAIN ids[p], ids[p][i] # NoID
                  PROVE  ids[p][i] \notin pending
      BY DEF idsOf
    <3>1. results[p][i] # NoEntry
      BY DEF unanswered
    <3>2. i \in DOMAIN specs(p)
      BY PlanFacts DEF IInv, TypeInv, DrawnInv
    <3>. QED
      BY <3>1, <3>2 DEF IInv, FreshInv
  <2>. QED
    BY <1>0, <1>a, <2>1, Constants DEF IInv, TypeInv, OnceInv, LeakInv
<1>9. OwedInv'
  BY <1>0, Constants, OwedKept DEF IInv, TypeInv, ResultInv
<1>. QED
  BY <1>1, <1>2, <1>3, <1>4, <1>5, <1>6, <1>7, <1>8, <1>9 DEF IInv

(* WriteFrameWait keeps the invariant: a frame with calls is written.      *)
LEMMA WriteFrameWaitStep ==
    ASSUME IInv, NEW p \in Procs, unanswered(p) # {}, WriteFrame(p)
    PROVE  IInv'
<1>0. /\ pc' = [pc EXCEPT ![p] = "waiting"]
      /\ lock' = None
      /\ UNCHANGED <<plan, seq, ids, pending, chan, results, outcome, conn,
            once, closed, inbound, frame, limit, scanned, targets, owed>>
      /\ pc[p] = "writing"
      /\ conn = "open"
  BY DEF WriteFrame, goto, callVars, closeVars, readVars
<1>a. sent' = sent /\ \A q \in Procs : idsOf(q)' = idsOf(q) /\ unanswered(q)' = unanswered(q)
  BY <1>0 DEF idsOf, unanswered, sent, object
<1>1. TypeInv'
  BY <1>0, Constants, <1>a
     DEF IInv, TypeInv, specs, ProcPlaces, ReaderPlaces, CloserPlaces
<1>2. DrawnInv'
  <2>1. plan[p].op # "Notify"
    BY NotifyHasNoIds DEF IInv
  <2>. QED
    BY <1>0, <2>1, Constants DEF IInv, TypeInv, DrawnInv, specs
<1>3. FreshInv'
  BY <1>0, Constants, <1>a DEF IInv, TypeInv, DrawnInv, FreshInv, specs
<1>4. ChanInv'
  BY <1>0, Constants, <1>a DEF IInv, TypeInv, ChanInv
<1>5. ResultInv'
  BY <1>0, Constants, <1>a DEF IInv, TypeInv, DrawnInv, ResultInv, ResultsAlign, specs
<1>6. ReaderInv'
  BY <1>0, Constants, <1>a DEF IInv, TypeInv, ReaderInv
<1>7. OnceInv'
  BY <1>0, Constants, <1>a DEF IInv, TypeInv, OnceInv
<1>8. LeakInv'
  BY <1>0, Constants, <1>a DEF IInv, TypeInv, DrawnInv, FreshInv, OnceInv, LeakInv
<1>9. OwedInv'
  BY <1>0, Constants, OwedKept DEF IInv, TypeInv, ResultInv
<1>. QED
  BY <1>1, <1>2, <1>3, <1>4, <1>5, <1>6, <1>7, <1>8, <1>9 DEF IInv

(* WriteFails keeps the invariant: a write fails.                          *)
LEMMA WriteFailsStep ==
    ASSUME IInv, NEW p \in Procs, WriteFails(p)
    PROVE  IInv'
<1>0. /\ pc' = [pc EXCEPT ![p] = IF plan[p].op = "Notify" THEN "returned" ELSE "unregister"]
      /\ conn' \in {conn, "down"}
      /\ lock' = None
      /\ outcome' = [outcome EXCEPT ![p] = "writeError"]
      /\ UNCHANGED <<plan, seq, ids, pending, chan, results, once, closed,
            inbound, frame, limit, scanned, targets, owed>>
      /\ pc[p] = "writing"
  BY DEF WriteFails, goto, callVars, closeVars, readVars
<1>a. sent' = sent /\ \A q \in Procs : idsOf(q)' = idsOf(q) /\ unanswered(q)' = unanswered(q)
  BY <1>0 DEF idsOf, unanswered, sent, object
<1>1. TypeInv'
  BY <1>0, Constants, <1>a
     DEF IInv, TypeInv, specs, ProcPlaces, ReaderPlaces, CloserPlaces
<1>2. DrawnInv'
  BY <1>0, Constants, <1>a DEF IInv, TypeInv, DrawnInv, specs
<1>3. FreshInv'
  BY <1>0, Constants, <1>a DEF IInv, TypeInv, DrawnInv, FreshInv, specs
<1>4. ChanInv'
  BY <1>0, Constants, <1>a DEF IInv, TypeInv, ChanInv
<1>5. ResultInv'
  BY <1>0, Constants, <1>a DEF IInv, TypeInv, DrawnInv, ResultInv, ResultsAlign, specs
<1>6. ReaderInv'
  BY <1>0, Constants, <1>a DEF IInv, TypeInv, ReaderInv
<1>7. OnceInv'
  BY <1>0, Constants, <1>a DEF IInv, TypeInv, OnceInv
<1>8. LeakInv'
  <2>1. plan[p].op = "Notify" => idsOf(p) = {}
    BY NotifyHasNoIds DEF IInv
  <2>. QED
    BY <1>0, <1>a, <2>1, Constants DEF IInv, TypeInv, DrawnInv, FreshInv, OnceInv, LeakInv
<1>9. OwedInv'
  BY <1>0, Constants, OwedKept DEF IInv, TypeInv, ResultInv
<1>. QED
  BY <1>1, <1>2, <1>3, <1>4, <1>5, <1>6, <1>7, <1>8, <1>9 DEF IInv

(* Unregister keeps the invariant: a call gives its ids up.                *)
LEMMA UnregisterStep ==
    ASSUME IInv, NEW p \in Procs, Unregister(p)
    PROVE  IInv'
<1>0. /\ pc' = [pc EXCEPT ![p] = "returned"]
      /\ pending' = pending \ idsOf(p)
      /\ UNCHANGED <<plan, seq, ids, chan, results, outcome, lock, conn, once,
            closed, inbound, frame, limit, scanned, targets, owed>>
      /\ pc[p] = "unregister"
  BY DEF Unregister, goto, unregistered, callVars, closeVars, readVars
<1>a. sent' = sent /\ \A q \in Procs : idsOf(q)' = idsOf(q) /\ unanswered(q)' = unanswered(q)
  BY <1>0 DEF idsOf, unanswered, sent, object
<1>1. TypeInv'
  BY <1>0, Constants, <1>a
     DEF IInv, TypeInv, specs, ProcPlaces, ReaderPlaces, CloserPlaces
<1>2. DrawnInv'
  BY <1>0, Constants, <1>a DEF IInv, TypeInv, DrawnInv, specs
<1>3. FreshInv'
  BY <1>0, Constants, <1>a DEF IInv, TypeInv, DrawnInv, FreshInv, specs
<1>4. ChanInv'
  BY <1>0, Constants, <1>a DEF IInv, TypeInv, ChanInv
<1>5. ResultInv'
  BY <1>0, Constants, <1>a DEF IInv, TypeInv, DrawnInv, ResultInv, ResultsAlign, specs
<1>6. ReaderInv'
  BY <1>0, Constants, <1>a DEF IInv, TypeInv, ReaderInv
<1>7. OnceInv'
  BY <1>0, Constants, <1>a DEF IInv, TypeInv, OnceInv
<1>8. LeakInv'
  BY <1>0, Constants, <1>a DEF IInv, TypeInv, DrawnInv, FreshInv, OnceInv, LeakInv
<1>9. OwedInv'
  <2>1. pc'[Reader] = pc[Reader]
    BY <1>0, Constants DEF IInv, TypeInv
  <2>2. outcome[p] \notin {"none", "ok"}
    BY <1>0 DEF IInv, ResultInv
  <2>3. ASSUME NEW i \in covered, NEW q \in Procs, NEW j \in DOMAIN ids[q], Fate(i, q, j),
               pc[Reader] \in {"scanning", "sending"}
        PROVE  Fate(i, q, j)'
    <3>1. pc'[q] \notin {"start", "draw"} /\ ids[q][j] = frame.entries[i].id
      BY <1>0, <2>3, Constants DEF Fate, IInv, TypeInv
    <3>2. frame.entries[i].id \in idsOf(q)
      BY <2>3, <3>1, CoveredFacts, Constants DEF idsOf
    <3>3. CASE q = p
      BY <1>0, <2>1, <2>2, <2>3, <3>1, <3>2, <3>3 DEF Fate
    <3>4. CASE q # p
      <4>1. frame.entries[i].id \notin idsOf(p)
        BY <3>2, <3>4 DEF IInv, FreshInv
      <4>. QED
        BY <1>0, <2>1, <2>3, <3>1, <4>1 DEF Fate
    <3>. QED
      BY <3>3, <3>4
  <2>. QED
    BY <1>0, <2>1, <2>3, OwedStep
<1>. QED
  BY <1>1, <1>2, <1>3, <1>4, <1>5, <1>6, <1>7, <1>8, <1>9 DEF IInv

(* TakeResponse keeps the invariant: a caller takes the response to the    *)
(* spec its select looks at, and returns with the last one.                *)
LEMMA TakeResponseStep ==
    ASSUME IInv, NEW p \in Procs, TakeResponse(p)
    PROVE  IInv'
<1>. DEFINE j == current(p)
<1>. DEFINE k == ids[p][j]
<1>0. /\ UNCHANGED <<plan, seq, ids, pending, lock, conn, once, closed, inbound, frame,
            limit, scanned, targets, owed>>
      /\ pc[p] = "waiting" /\ chan[k] # NoEntry
      /\ results' = [results EXCEPT ![p][j] = chan[k]]
      /\ chan' = [chan EXCEPT ![k] = NoEntry]
      /\ \/ Cardinality(unanswered(p)) = 1 /\ return(p, "ok")
         \/ Cardinality(unanswered(p)) # 1 /\ UNCHANGED <<pc, outcome>>
  BY DEF TakeResponse, awaitedID, closeVars, readVars
<1>1. /\ DOMAIN ids[p] = DOMAIN specs(p) /\ DOMAIN ids[p] \subseteq Nat
      /\ IsFiniteSet(DOMAIN ids[p]) /\ plan[p].op # "Notify"
  <2>1. Len(ids[p]) = Len(specs(p)) /\ plan[p].op # "Notify"
    BY <1>0 DEF IInv, DrawnInv
  <2>2. DOMAIN ids[p] = 1 .. Len(ids[p]) /\ Len(ids[p]) \in Nat
    BY DEF IInv, TypeInv
  <2>3. DOMAIN specs(p) = 1 .. Len(specs(p))
    BY PlanFacts DEF IInv, TypeInv
  <2>4. IsFiniteSet(1 .. Len(ids[p]))
    BY <2>2, FS_Interval
  <2>. QED
    BY <2>1, <2>2, <2>3, <2>4
<1>2. j \in unanswered(p)
  <2>1. unanswered(p) # {}
    BY <1>0 DEF IInv, ResultInv
  <2>2. unanswered(p) \subseteq Nat
    BY <1>1 DEF unanswered
  <2>. QED
    BY <2>1, <2>2, CurrentIsUnanswered
<1>. HIDE DEF j
<1>3. j \in DOMAIN ids[p] /\ j \in DOMAIN specs(p) /\ k # NoID /\ results[p][j] = NoEntry
  BY <1>1, <1>2 DEF unanswered
<1>4. k \in Keys /\ k \in idsOf(p)
  BY <1>3 DEF IInv, TypeInv, idsOf
<1>. HIDE DEF k
<1>5. PICK e \in Entry : e = chan[k] /\ e # NoEntry /\ (e.id = k \/ isRejection(e))
  BY <1>0, <1>4 DEF IInv, TypeInv, ChanInv
<1>6. /\ \A q \in Procs : q # p => results'[q] = results[q]
      /\ \A i \in DOMAIN specs(p) : results'[p][i] = IF i = j THEN e ELSE results[p][i]
      /\ results'[p] \in [DOMAIN specs(p) -> Entry] /\ DOMAIN results' = Procs
  <2>1. results' = [results EXCEPT ![p] = [results[p] EXCEPT ![j] = e]]
    BY <1>0, <1>5
  <2>2. results[p] \in [DOMAIN specs(p) -> Entry] /\ DOMAIN results = Procs
    BY DEF IInv, TypeInv
  <2>3. results'[p] = [results[p] EXCEPT ![j] = e]
    BY <2>1, <2>2
  <2>. QED
    BY <2>1, <2>2, <2>3
<1>7. /\ sent' = sent
      /\ \A q \in Procs : idsOf(q)' = idsOf(q)
      /\ \A q \in Procs : q # p => unanswered(q)' = unanswered(q)
      /\ unanswered(p)' = unanswered(p) \ {j}
  <2>1. \A q \in Procs : q # p => unanswered(q)' = unanswered(q)
    BY <1>0, <1>6 DEF unanswered
  <2>2. unanswered(p)' = unanswered(p) \ {j}
    BY <1>0, <1>1, <1>5, <1>6 DEF unanswered
  <2>. QED
    BY <1>0, <2>1, <2>2 DEF sent, object, idsOf
<1>8. /\ pc' = [pc EXCEPT ![p] = "returned"] \/ pc' = pc
      /\ outcome' = [outcome EXCEPT ![p] = "ok"] \/ outcome' = outcome
      /\ pc'[p] = "returned" <=> outcome'[p] = "ok"
      /\ pc'[p] = "returned" => unanswered(p)' = {}
      /\ pc'[p] # "returned" => pc'[p] = "waiting" /\ unanswered(p)' # {}
  <2>1. outcome[p] # "ok"
    BY <1>0 DEF IInv, ResultInv
  <2>2. IsFiniteSet(unanswered(p))
    BY <1>1, FS_Subset DEF unanswered
  <2>3. CASE Cardinality(unanswered(p)) = 1
    <3>1. unanswered(p) = {j}
      BY <1>2, <2>2, <2>3, FS_Singleton
    <3>2. unanswered(p)' = {}
      BY <1>7, <3>1
    <3>3. pc' = [pc EXCEPT ![p] = "returned"] /\ outcome' = [outcome EXCEPT ![p] = "ok"]
      BY <1>0, <2>3 DEF return, goto
    <3>4. pc'[p] = "returned" /\ outcome'[p] = "ok"
      BY <3>3, Constants DEF IInv, TypeInv
    <3>. QED
      BY <3>2, <3>3, <3>4
  <2>4. CASE Cardinality(unanswered(p)) # 1
    <3>1. unanswered(p) # {j}
      BY <2>4, FS_Singleton
    <3>2. unanswered(p)' # {}
      BY <1>2, <1>7, <3>1
    <3>. QED
      BY <1>0, <2>1, <2>4, <3>2
  <2>. QED
    BY <2>3, <2>4
<1>9. /\ \A t \in Threads : t # p => pc'[t] = pc[t]
      /\ \A q \in Procs : q # p => pc'[q] = pc[q] /\ outcome'[q] = outcome[q]
      /\ pc'[Reader] = pc[Reader] /\ pc'[Closer] = pc[Closer] /\ pc'[p] \in {"waiting", "returned"}
  BY <1>0, <1>8, Constants DEF IInv, TypeInv
<1>a. TypeInv'
  <2>1. chan' \in [Keys -> Entry]
    BY <1>0, Constants DEF IInv, TypeInv
  <2>2. pc' \in [Threads -> ProcPlaces \cup ReaderPlaces] /\ \A q \in Procs : pc'[q] \in ProcPlaces
    BY <1>8, <1>9, Constants DEF IInv, TypeInv, ProcPlaces
  <2>3. outcome' \in [Procs -> {"none", "ok", "tooLarge", "closed", "notSent", "writeError",
                                "context"}]
    BY <1>8 DEF IInv, TypeInv
  <2>4. \A q \in Procs : results'[q] \in [DOMAIN specs(q) -> Entry]
    BY <1>6 DEF IInv, TypeInv
  <2>. QED
    BY <1>0, <1>6, <1>9, <2>1, <2>2, <2>3, <2>4 DEF IInv, TypeInv, specs
<1>b. DrawnInv'
  BY <1>0, <1>1, <1>9 DEF IInv, DrawnInv, specs
<1>c. FreshInv'
  <2>1. \A i \in Keys : chan[i] = NoEntry => chan'[i] = NoEntry
    BY <1>0, <1>4 DEF IInv, TypeInv
  <2>2. k \notin pending
    BY <1>0, <1>4, <1>5 DEF IInv, FreshInv
  <2>3. ASSUME NEW q \in Procs, NEW i \in DOMAIN specs(q), results'[q][i] # NoEntry
        PROVE  /\ pc'[q] \notin {"start", "draw"}
               /\ i \in DOMAIN ids[q] /\ ids[q][i] # NoID /\ ids[q][i] \notin pending
    <3>1. CASE q = p /\ i = j
      BY <1>3, <1>9, <2>2, <3>1 DEF k
    <3>2. CASE q = p /\ i # j
      BY <1>6, <1>9, <2>3, <3>2 DEF IInv, FreshInv
    <3>3. CASE q # p
      BY <1>6, <1>9, <2>3, <3>3 DEF IInv, FreshInv
    <3>. QED
      BY <3>1, <3>2, <3>3
  <2>4. \A i \in Keys :
           (i > seq \/ \E q \in Procs : i \in idsOf(q) /\ pc'[q] \in {"start", "draw"})
              => i \notin pending /\ i \notin targets /\ chan'[i] = NoEntry
    BY <1>9, <2>1 DEF IInv, FreshInv
  <2>5. \A i \in pending : i \notin targets /\ chan'[i] = NoEntry
    BY <2>1 DEF IInv, TypeInv, FreshInv
  <2>6. \A q, r \in Procs : q # r => idsOf(q)' \cap idsOf(r)' = {}
    BY <1>7 DEF IInv, FreshInv
  <2>. QED
    BY <1>0, <1>7, <2>3, <2>4, <2>5, <2>6 DEF FreshInv, specs
<1>d. ChanInv'
  <2>1. \A i \in Keys : chan'[i] # NoEntry => chan'[i] = chan[i]
    BY <1>0, <1>4 DEF IInv, TypeInv
  <2>2. \A i \in Keys : chan'[i] # NoEntry => chan'[i].id = i \/ isRejection(chan'[i])
    BY <2>1 DEF IInv, ChanInv
  <2>. QED
    BY <1>0, <1>7, <1>9, <2>2 DEF IInv, ChanInv
<1>e. ResultInv'
  <2>1. ASSUME NEW q \in Procs, NEW i \in DOMAIN specs(q)
        PROVE  /\ results'[q][i] # NoEntry =>
                     /\ specs(q)[i] = "call"
                     /\ results'[q][i].id = ids[q][i] \/ isRejection(results'[q][i])
               /\ outcome'[q] = "ok" /\ specs(q)[i] = "call" => results'[q][i] # NoEntry
    <3>1. CASE q # p
      BY <1>6, <1>9, <3>1 DEF IInv, ResultInv, ResultsAlign
    <3>2. CASE q = p
      <4>1. outcome'[p] = "ok" /\ specs(p)[i] = "call" => results'[p][i] # NoEntry
        BY <1>0, <1>1, <1>8, <2>1, <3>2 DEF unanswered, IInv, DrawnInv
      <4>2. CASE i = j
        <5>1. results'[p][i] = e /\ specs(p)[i] = "call"
          BY <1>3, <1>6, <4>2 DEF IInv, DrawnInv, k
        <5>. QED
          BY <1>5, <3>2, <4>1, <4>2, <5>1 DEF k
      <4>3. CASE i # j
        <5>1. results'[p][i] = results[p][i]
          BY <1>6, <2>1, <3>2, <4>3
        <5>. QED
          BY <2>1, <3>2, <4>1, <5>1 DEF IInv, ResultInv, ResultsAlign
      <4>. QED
        BY <4>2, <4>3
    <3>. QED
      BY <3>1, <3>2
  <2>2. \A q \in Procs : pc'[q] = "waiting" => unanswered(q)' # {}
    BY <1>7, <1>8, <1>9 DEF IInv, ResultInv
  <2>3. \A q \in Procs : /\ outcome'[q] = "ok" => pc'[q] = "returned"
                         /\ outcome'[q] = "none" <=> pc'[q] \notin {"unregister", "returned"}
    <3>1. /\ outcome'[p] = "ok" => pc'[p] = "returned"
          /\ outcome'[p] = "none" <=> pc'[p] = "waiting"
      <4>1. outcome[p] = "none"
        BY <1>0 DEF IInv, ResultInv
      <4>. QED
        BY <1>8, <1>9, <4>1 DEF IInv, TypeInv
    <3>. QED
      BY <1>9, <3>1 DEF IInv, ResultInv
  <2>. QED
    BY <1>0, <2>1, <2>2, <2>3 DEF ResultInv, ResultsAlign, specs
<1>f. ReaderInv' /\ OnceInv'
  BY <1>0, <1>9 DEF IInv, ReaderInv, OnceInv
<1>g. LeakInv'
  <2>1. ASSUME pc'[p] = "returned" PROVE idsOf(p) \cap pending = {}
    <3>. SUFFICES ASSUME NEW i \in DOMAIN ids[p], ids[p][i] # NoID
                  PROVE  ids[p][i] \notin pending
      BY DEF idsOf
    <3>1. results'[p][i] # NoEntry
      BY <1>0, <1>8, <2>1 DEF unanswered
    <3>. QED
      BY <1>0, <1>1, <1>c, <3>1 DEF FreshInv, specs
  <2>. QED
    BY <1>0, <1>7, <1>9, <2>1 DEF IInv, LeakInv
<1>h. OwedInv'
  <2>1. ASSUME NEW i \in covered, NEW q \in Procs, NEW jj \in DOMAIN ids[q], Fate(i, q, jj),
               pc[Reader] \in {"scanning", "sending"}
        PROVE  \E l \in DOMAIN ids[q] : Fate(i, q, l)'
    <3>. DEFINE r == frame.entries[i]
    <3>1. /\ r.id \in Keys /\ r # NoEntry
          /\ ids[q][jj] = r.id /\ r.id \in idsOf(q) /\ pc'[q] \notin {"start", "draw"}
      BY <1>9, <2>1, CoveredFacts, Constants DEF Fate, idsOf
    <3>2. outcome[q] \notin {"none", "ok"} => outcome'[q] \notin {"none", "ok"}
      BY <1>0, <1>9 DEF IInv, ResultInv
    <3>. HIDE DEF r
    <3>3. ASSUME results[q][jj] = r PROVE results'[q][jj] = r
      <4>1. q = p => jj \in DOMAIN specs(p) /\ jj # j
        BY <1>1, <1>3, <3>1, <3>3
      <4>. QED
        BY <1>6, <3>3, <4>1
    <3>4. CASE chan[r.id] = r /\ r.id = k
      <4>. PICK l \in DOMAIN ids[p] : l = j
        BY <1>3
      <4>1. q = p /\ results'[p][l] = r
        BY <1>3, <1>4, <1>5, <1>6, <3>1, <3>4 DEF IInv, FreshInv
      <4>2. r.id \notin pending /\ ids[p][l] = r.id
        BY <3>1, <3>4, <4>1 DEF IInv, FreshInv, k
      <4>3. Fate(i, p, l)'
        BY <1>0, <3>1, <4>1, <4>2 DEF Fate, r
      <4>. QED
        BY <4>1, <4>3
    <3>5. CASE ~(chan[r.id] = r /\ r.id = k)
      <4>1. chan[r.id] = r => chan'[r.id] = r
        BY <1>0, <3>1, <3>5 DEF IInv, TypeInv
      <4>2. Fate(i, q, jj)'
        BY <1>0, <1>9, <2>1, <3>1, <3>2, <3>3, <4>1 DEF Fate, r
      <4>. QED
        BY <4>2
    <3>. QED
      BY <3>4, <3>5
  <2>. QED
    BY <1>0, <1>9, <2>1, OwedStep
<1>. QED
  BY <1>a, <1>b, <1>c, <1>d, <1>e, <1>f, <1>g, <1>h DEF IInv

(* ContextDone keeps the invariant: the context of a caller ends.          *)
LEMMA ContextDoneStep ==
    ASSUME IInv, NEW p \in Procs, ContextDone(p)
    PROVE  IInv'
<1>0. /\ pc' = [pc EXCEPT ![p] = "unregister"]
      /\ outcome' = [outcome EXCEPT ![p] = "context"]
      /\ UNCHANGED <<plan, seq, ids, pending, chan, results, lock, conn, once,
            closed, inbound, frame, limit, scanned, targets, owed>>
      /\ pc[p] = "waiting"
  BY DEF ContextDone, goto, callVars, closeVars, readVars
<1>a. sent' = sent /\ \A q \in Procs : idsOf(q)' = idsOf(q) /\ unanswered(q)' = unanswered(q)
  BY <1>0 DEF idsOf, unanswered, sent, object
<1>1. TypeInv'
  BY <1>0, Constants, <1>a
     DEF IInv, TypeInv, specs, ProcPlaces, ReaderPlaces, CloserPlaces
<1>2. DrawnInv'
  BY <1>0, Constants, <1>a DEF IInv, TypeInv, DrawnInv, specs
<1>3. FreshInv'
  BY <1>0, Constants, <1>a DEF IInv, TypeInv, DrawnInv, FreshInv, specs
<1>4. ChanInv'
  BY <1>0, Constants, <1>a DEF IInv, TypeInv, ChanInv
<1>5. ResultInv'
  BY <1>0, Constants, <1>a DEF IInv, TypeInv, DrawnInv, ResultInv, ResultsAlign, specs
<1>6. ReaderInv'
  BY <1>0, Constants, <1>a DEF IInv, TypeInv, ReaderInv
<1>7. OnceInv'
  BY <1>0, Constants, <1>a DEF IInv, TypeInv, OnceInv
<1>8. LeakInv'
  BY <1>0, Constants, <1>a DEF IInv, TypeInv, DrawnInv, FreshInv, OnceInv, LeakInv
<1>9. OwedInv'
  BY <1>0, Constants, OwedKept DEF IInv, TypeInv, ResultInv
<1>. QED
  BY <1>1, <1>2, <1>3, <1>4, <1>5, <1>6, <1>7, <1>8, <1>9 DEF IInv

(* SeeClosed keeps the invariant: a caller sees that the client was        *)
(* closed.                                                                 *)
LEMMA SeeClosedStep ==
    ASSUME IInv, NEW p \in Procs, SeeClosed(p)
    PROVE  IInv'
<1>0. /\ pc' = [pc EXCEPT ![p] = "returned"]
      /\ outcome' = [outcome EXCEPT ![p] = "closed"]
      /\ UNCHANGED <<plan, seq, ids, pending, chan, results, lock, conn, once,
            closed, inbound, frame, limit, scanned, targets, owed>>
      /\ pc[p] = "waiting"
      /\ closed
  BY DEF SeeClosed, return, goto, callVars, closeVars, readVars
<1>a. sent' = sent /\ \A q \in Procs : idsOf(q)' = idsOf(q) /\ unanswered(q)' = unanswered(q)
  BY <1>0 DEF idsOf, unanswered, sent, object
<1>1. TypeInv'
  BY <1>0, Constants, <1>a
     DEF IInv, TypeInv, specs, ProcPlaces, ReaderPlaces, CloserPlaces
<1>2. DrawnInv'
  BY <1>0, Constants, <1>a DEF IInv, TypeInv, DrawnInv, specs
<1>3. FreshInv'
  BY <1>0, Constants, <1>a DEF IInv, TypeInv, DrawnInv, FreshInv, specs
<1>4. ChanInv'
  BY <1>0, Constants, <1>a DEF IInv, TypeInv, ChanInv
<1>5. ResultInv'
  BY <1>0, Constants, <1>a DEF IInv, TypeInv, DrawnInv, ResultInv, ResultsAlign, specs
<1>6. ReaderInv'
  BY <1>0, Constants, <1>a DEF IInv, TypeInv, ReaderInv
<1>7. OnceInv'
  BY <1>0, Constants, <1>a DEF IInv, TypeInv, OnceInv
<1>8. LeakInv'
  BY <1>0, Constants, <1>a DEF IInv, TypeInv, DrawnInv, FreshInv, OnceInv, LeakInv
<1>9. OwedInv'
  BY <1>0, Constants, OwedKept DEF IInv, TypeInv, ResultInv
<1>. QED
  BY <1>1, <1>2, <1>3, <1>4, <1>5, <1>6, <1>7, <1>8, <1>9 DEF IInv

(* BeginClose keeps the invariant: close is called.                        *)
LEMMA BeginCloseStep ==
    ASSUME IInv, BeginClose
    PROVE  IInv'
<1>0. /\ pc' = [pc EXCEPT ![Closer] = "once"]
      /\ UNCHANGED <<plan, seq, ids, pending, chan, results, outcome, lock,
            conn, once, closed, inbound, frame, limit, scanned, targets, owed>>
      /\ pc[Closer] = "start"
  BY DEF BeginClose, goto, callVars, closeVars, readVars
<1>a. sent' = sent /\ \A q \in Procs : idsOf(q)' = idsOf(q) /\ unanswered(q)' = unanswered(q)
  BY <1>0 DEF idsOf, unanswered, sent, object
<1>1. TypeInv'
  BY <1>0, Constants, <1>a
     DEF IInv, TypeInv, specs, ProcPlaces, ReaderPlaces, CloserPlaces
<1>2. DrawnInv'
  BY <1>0, Constants, <1>a DEF IInv, TypeInv, DrawnInv, specs
<1>3. FreshInv'
  BY <1>0, Constants, <1>a DEF IInv, TypeInv, DrawnInv, FreshInv, specs
<1>4. ChanInv'
  BY <1>0, Constants, <1>a DEF IInv, TypeInv, ChanInv
<1>5. ResultInv'
  BY <1>0, Constants, <1>a DEF IInv, TypeInv, DrawnInv, ResultInv, ResultsAlign, specs
<1>6. ReaderInv'
  BY <1>0, Constants, <1>a DEF IInv, TypeInv, ReaderInv
<1>7. OnceInv'
  BY <1>0, Constants, <1>a DEF IInv, TypeInv, OnceInv
<1>8. LeakInv'
  BY <1>0, Constants, <1>a DEF IInv, TypeInv, DrawnInv, FreshInv, OnceInv, LeakInv
<1>9. OwedInv'
  BY <1>0, Constants, OwedKept DEF IInv, TypeInv, ResultInv
<1>. QED
  BY <1>1, <1>2, <1>3, <1>4, <1>5, <1>6, <1>7, <1>8, <1>9 DEF IInv

(* CloseClosed keeps the invariant: the function of the Once begins.       *)
LEMMA CloseClosedStep ==
    ASSUME IInv, NEW t \in {Reader, Closer}, CloseClosed(t)
    PROVE  IInv'
<1>0. /\ pc' = [pc EXCEPT ![t] = "closing"]
      /\ once' = "running"
      /\ closed' = TRUE
      /\ UNCHANGED <<plan, seq, ids, pending, chan, results, outcome, lock,
            conn, inbound, frame, limit, scanned, targets, owed>>
      /\ pc[t] = "once"
      /\ once = "free"
  BY DEF CloseClosed, goto, closeClosed, callVars, closeVars, readVars
<1>a. sent' = sent /\ \A q \in Procs : idsOf(q)' = idsOf(q) /\ unanswered(q)' = unanswered(q)
  BY <1>0 DEF idsOf, unanswered, sent, object
<1>1. TypeInv'
  BY <1>0, Constants, <1>a
     DEF IInv, TypeInv, specs, ProcPlaces, ReaderPlaces, CloserPlaces
<1>2. DrawnInv'
  BY <1>0, Constants, <1>a DEF IInv, TypeInv, DrawnInv, specs
<1>3. FreshInv'
  BY <1>0, Constants, <1>a DEF IInv, TypeInv, DrawnInv, FreshInv, specs
<1>4. ChanInv'
  BY <1>0, Constants, <1>a DEF IInv, TypeInv, ChanInv
<1>5. ResultInv'
  BY <1>0, Constants, <1>a DEF IInv, TypeInv, DrawnInv, ResultInv, ResultsAlign, specs
<1>6. ReaderInv'
  BY <1>0, Constants, <1>a DEF IInv, TypeInv, ReaderInv
<1>7. OnceInv'
  BY <1>0, Constants, <1>a DEF IInv, TypeInv, OnceInv
<1>8. LeakInv'
  BY <1>0, Constants, <1>a DEF IInv, TypeInv, DrawnInv, FreshInv, OnceInv, LeakInv
<1>9. OwedInv'
  BY <1>0, Constants, OwedKept DEF IInv, TypeInv, ResultInv
<1>. QED
  BY <1>1, <1>2, <1>3, <1>4, <1>5, <1>6, <1>7, <1>8, <1>9 DEF IInv

(* CloseConn keeps the invariant: the connection is closed.                *)
LEMMA CloseConnStep ==
    ASSUME IInv, NEW t \in {Reader, Closer}, CloseConn(t)
    PROVE  IInv'
<1>0. /\ pc' = [pc EXCEPT ![t] = "failing"]
      /\ conn' = "down"
      /\ UNCHANGED <<plan, seq, ids, pending, chan, results, outcome, lock,
            once, closed, inbound, frame, limit, scanned, targets, owed>>
      /\ pc[t] = "closing"
  BY DEF CloseConn, goto, connAfterClose, callVars, closeVars, readVars
<1>a. sent' = sent /\ \A q \in Procs : idsOf(q)' = idsOf(q) /\ unanswered(q)' = unanswered(q)
  BY <1>0 DEF idsOf, unanswered, sent, object
<1>1. TypeInv'
  BY <1>0, Constants, <1>a
     DEF IInv, TypeInv, specs, ProcPlaces, ReaderPlaces, CloserPlaces
<1>2. DrawnInv'
  BY <1>0, Constants, <1>a DEF IInv, TypeInv, DrawnInv, specs
<1>3. FreshInv'
  BY <1>0, Constants, <1>a DEF IInv, TypeInv, DrawnInv, FreshInv, specs
<1>4. ChanInv'
  BY <1>0, Constants, <1>a DEF IInv, TypeInv, ChanInv
<1>5. ResultInv'
  BY <1>0, Constants, <1>a DEF IInv, TypeInv, DrawnInv, ResultInv, ResultsAlign, specs
<1>6. ReaderInv'
  BY <1>0, Constants, <1>a DEF IInv, TypeInv, ReaderInv
<1>7. OnceInv'
  BY <1>0, Constants, <1>a DEF IInv, TypeInv, OnceInv
<1>8. LeakInv'
  BY <1>0, Constants, <1>a DEF IInv, TypeInv, DrawnInv, FreshInv, OnceInv, LeakInv
<1>9. OwedInv'
  BY <1>0, Constants, OwedKept DEF IInv, TypeInv, ResultInv
<1>. QED
  BY <1>1, <1>2, <1>3, <1>4, <1>5, <1>6, <1>7, <1>8, <1>9 DEF IInv

(* FailPending keeps the invariant: the map is dropped.                    *)
LEMMA FailPendingStep ==
    ASSUME IInv, NEW t \in {Reader, Closer}, FailPending(t)
    PROVE  IInv'
<1>0. /\ pc' = [pc EXCEPT ![t] = "returned"]
      /\ pending' = {}
      /\ once' = "done"
      /\ UNCHANGED <<plan, seq, ids, chan, results, outcome, lock, conn,
            closed, inbound, frame, limit, scanned, targets, owed>>
      /\ pc[t] = "failing"
  BY DEF FailPending, goto, callVars, closeVars, readVars
<1>a. sent' = sent /\ \A q \in Procs : idsOf(q)' = idsOf(q) /\ unanswered(q)' = unanswered(q)
  BY <1>0 DEF idsOf, unanswered, sent, object
<1>1. TypeInv'
  BY <1>0, Constants, <1>a
     DEF IInv, TypeInv, specs, ProcPlaces, ReaderPlaces, CloserPlaces
<1>2. DrawnInv'
  BY <1>0, Constants, <1>a DEF IInv, TypeInv, DrawnInv, specs
<1>3. FreshInv'
  BY <1>0, Constants, <1>a DEF IInv, TypeInv, DrawnInv, FreshInv, specs
<1>4. ChanInv'
  BY <1>0, Constants, <1>a DEF IInv, TypeInv, ChanInv
<1>5. ResultInv'
  BY <1>0, Constants, <1>a DEF IInv, TypeInv, DrawnInv, ResultInv, ResultsAlign, specs
<1>6. ReaderInv'
  BY <1>0, Constants, <1>a DEF IInv, TypeInv, ReaderInv
<1>7. OnceInv'
  BY <1>0, Constants, <1>a DEF IInv, TypeInv, OnceInv
<1>8. LeakInv'
  BY <1>0, Constants, <1>a DEF IInv, TypeInv, DrawnInv, FreshInv, OnceInv, LeakInv
<1>9. OwedInv'
  <2>1. closed /\ (pc'[Reader] = pc[Reader] \/ pc'[Reader] = "returned")
        /\ \A q \in Procs : pc'[q] = pc[q]
    BY <1>0, Constants DEF IInv, TypeInv, OnceInv
  <2>2. ASSUME NEW i \in covered, NEW q \in Procs, NEW j \in DOMAIN ids[q], Fate(i, q, j),
               pc'[Reader] = pc[Reader]
        PROVE  Fate(i, q, j)'
    BY <1>0, <2>1, <2>2 DEF Fate
  <2>3. CASE pc'[Reader] = pc[Reader]
    BY <1>0, <2>2, <2>3, OwedStep
  <2>4. CASE pc'[Reader] = "returned"
    BY <2>4 DEF OwedInv
  <2>. QED
    BY <2>1, <2>3, <2>4
<1>. QED
  BY <1>1, <1>2, <1>3, <1>4, <1>5, <1>6, <1>7, <1>8, <1>9 DEF IInv

(* OnceLater keeps the invariant: a later call finds the Once done.        *)
LEMMA OnceLaterStep ==
    ASSUME IInv, NEW t \in {Reader, Closer}, OnceLater(t)
    PROVE  IInv'
<1>0. /\ pc' = [pc EXCEPT ![t] = "returned"]
      /\ UNCHANGED <<plan, seq, ids, pending, chan, results, outcome, lock,
            conn, once, closed, inbound, frame, limit, scanned, targets, owed>>
      /\ pc[t] = "once"
  BY DEF OnceLater, goto, callVars, closeVars, readVars
<1>a. sent' = sent /\ \A q \in Procs : idsOf(q)' = idsOf(q) /\ unanswered(q)' = unanswered(q)
  BY <1>0 DEF idsOf, unanswered, sent, object
<1>1. TypeInv'
  BY <1>0, Constants, <1>a
     DEF IInv, TypeInv, specs, ProcPlaces, ReaderPlaces, CloserPlaces
<1>2. DrawnInv'
  BY <1>0, Constants, <1>a DEF IInv, TypeInv, DrawnInv, specs
<1>3. FreshInv'
  BY <1>0, Constants, <1>a DEF IInv, TypeInv, DrawnInv, FreshInv, specs
<1>4. ChanInv'
  BY <1>0, Constants, <1>a DEF IInv, TypeInv, ChanInv
<1>5. ResultInv'
  BY <1>0, Constants, <1>a DEF IInv, TypeInv, DrawnInv, ResultInv, ResultsAlign, specs
<1>6. ReaderInv'
  BY <1>0, Constants, <1>a DEF IInv, TypeInv, ReaderInv
<1>7. OnceInv'
  BY <1>0, Constants, <1>a DEF IInv, TypeInv, OnceInv
<1>8. LeakInv'
  BY <1>0, Constants, <1>a DEF IInv, TypeInv, DrawnInv, FreshInv, OnceInv, LeakInv
<1>9. OwedInv'
  BY <1>0, Constants, OwedKept DEF IInv, TypeInv, ResultInv
<1>. QED
  BY <1>1, <1>2, <1>3, <1>4, <1>5, <1>6, <1>7, <1>8, <1>9 DEF IInv

(* ReadFrame keeps the invariant: a frame arrives.                         *)
LEMMA ReadFrameStep ==
    ASSUME IInv, NEW f \in PeerFrames, ReadFrame(f)
    PROVE  IInv'
<1>0. /\ inbound' = inbound + 1
      /\ frame' = f
      /\ pc' = [pc EXCEPT ![Reader] = "handling"]
      /\ UNCHANGED <<plan, seq, ids, pending, chan, results, outcome, lock,
            conn, once, closed, limit, scanned, targets, owed>>
      /\ pc[Reader] = "reading"
  BY DEF ReadFrame, goto, callVars, closeVars, readVars
<1>a. \A q \in Procs : idsOf(q)' = idsOf(q) /\ unanswered(q)' = unanswered(q)
  BY <1>0 DEF idsOf, unanswered
<1>1. TypeInv'
  <2>1. scanned \in 0 .. Len(f.entries)
    BY <1>0, FrameFacts DEF IInv, ReaderInv
  <2>. QED
    BY <1>0, <2>1, Constants
       DEF IInv, TypeInv, specs, ProcPlaces, ReaderPlaces, CloserPlaces
<1>2. DrawnInv'
  BY <1>0, Constants, <1>a DEF IInv, TypeInv, DrawnInv, specs
<1>3. FreshInv'
  BY <1>0, Constants, <1>a DEF IInv, TypeInv, DrawnInv, FreshInv, specs
<1>4. ChanInv'
  BY <1>0, Constants, <1>a DEF IInv, TypeInv, ChanInv
<1>5. ResultInv'
  BY <1>0, Constants, <1>a DEF IInv, TypeInv, DrawnInv, ResultInv, ResultsAlign, specs
<1>6. ReaderInv'
  BY <1>0, Constants, <1>a DEF IInv, TypeInv, ReaderInv
<1>7. OnceInv'
  BY <1>0, Constants, <1>a DEF IInv, TypeInv, OnceInv
<1>8. LeakInv'
  BY <1>0, Constants, <1>a DEF IInv, TypeInv, DrawnInv, FreshInv, OnceInv, LeakInv
<1>9. OwedInv'
  BY <1>0, Constants DEF IInv, TypeInv, OwedInv
<1>. QED
  BY <1>1, <1>2, <1>3, <1>4, <1>5, <1>6, <1>7, <1>8, <1>9 DEF IInv

(* ReadFails keeps the invariant: reading is over.                         *)
LEMMA ReadFailsStep ==
    ASSUME IInv, ReadFails
    PROVE  IInv'
<1>0. /\ conn' = "down"
      /\ pc' = [pc EXCEPT ![Reader] = "once"]
      /\ UNCHANGED <<plan, seq, ids, pending, chan, results, outcome, lock,
            once, closed, inbound, frame, limit, scanned, targets, owed>>
      /\ pc[Reader] = "reading"
  BY DEF ReadFails, goto, callVars, closeVars, readVars
<1>a. sent' = sent /\ \A q \in Procs : idsOf(q)' = idsOf(q) /\ unanswered(q)' = unanswered(q)
  BY <1>0 DEF idsOf, unanswered, sent, object
<1>1. TypeInv'
  BY <1>0, Constants, <1>a
     DEF IInv, TypeInv, specs, ProcPlaces, ReaderPlaces, CloserPlaces
<1>2. DrawnInv'
  BY <1>0, Constants, <1>a DEF IInv, TypeInv, DrawnInv, specs
<1>3. FreshInv'
  BY <1>0, Constants, <1>a DEF IInv, TypeInv, DrawnInv, FreshInv, specs
<1>4. ChanInv'
  BY <1>0, Constants, <1>a DEF IInv, TypeInv, ChanInv
<1>5. ResultInv'
  BY <1>0, Constants, <1>a DEF IInv, TypeInv, DrawnInv, ResultInv, ResultsAlign, specs
<1>6. ReaderInv'
  BY <1>0, Constants, <1>a DEF IInv, TypeInv, ReaderInv
<1>7. OnceInv'
  BY <1>0, Constants, <1>a DEF IInv, TypeInv, OnceInv
<1>8. LeakInv'
  BY <1>0, Constants, <1>a DEF IInv, TypeInv, DrawnInv, FreshInv, OnceInv, LeakInv
<1>9. OwedInv'
  BY <1>0, Constants, OwedKept DEF IInv, TypeInv, ResultInv
<1>. QED
  BY <1>1, <1>2, <1>3, <1>4, <1>5, <1>6, <1>7, <1>8, <1>9 DEF IInv

(* DropFrame keeps the invariant: a frame that is for nobody.              *)
LEMMA DropFrameStep ==
    ASSUME IInv, DropFrame
    PROVE  IInv'
<1>0. /\ pc' = [pc EXCEPT ![Reader] = "reading"]
      /\ frame' = NoFrame
      /\ limit' = 0
      /\ scanned' = 0
      /\ owed' = {}
      /\ UNCHANGED <<plan, seq, ids, pending, chan, results, outcome, lock,
            conn, once, closed, inbound, targets>>
      /\ pc[Reader] = "handling"
  BY DEF DropFrame, goto, readNext, callVars, closeVars, readVars
<1>a. \A q \in Procs : idsOf(q)' = idsOf(q) /\ unanswered(q)' = unanswered(q)
  BY <1>0 DEF idsOf, unanswered
<1>1. TypeInv'
  BY <1>0, Constants, <1>a
     DEF IInv, TypeInv, specs, ProcPlaces, ReaderPlaces, CloserPlaces
<1>2. DrawnInv'
  BY <1>0, Constants, <1>a DEF IInv, TypeInv, DrawnInv, specs
<1>3. FreshInv'
  BY <1>0, Constants, <1>a DEF IInv, TypeInv, DrawnInv, FreshInv, specs
<1>4. ChanInv'
  BY <1>0, Constants, <1>a DEF IInv, TypeInv, ChanInv
<1>5. ResultInv'
  BY <1>0, Constants, <1>a DEF IInv, TypeInv, DrawnInv, ResultInv, ResultsAlign, specs
<1>6. ReaderInv'
  BY <1>0, Constants, <1>a DEF IInv, TypeInv, ReaderInv
<1>7. OnceInv'
  BY <1>0, Constants, <1>a DEF IInv, TypeInv, OnceInv
<1>8. LeakInv'
  BY <1>0, Constants, <1>a DEF IInv, TypeInv, DrawnInv, FreshInv, OnceInv, LeakInv
<1>9. OwedInv'
  BY <1>0, Constants DEF IInv, TypeInv, OwedInv
<1>. QED
  BY <1>1, <1>2, <1>3, <1>4, <1>5, <1>6, <1>7, <1>8, <1>9 DEF IInv

(* HandlePush keeps the invariant: the peer's notification goes to the     *)
(* handler.                                                                *)
LEMMA HandlePushStep ==
    ASSUME IInv, HandlePush
    PROVE  IInv'
<1>0. /\ pc' = [pc EXCEPT ![Reader] = "handler"]
      /\ UNCHANGED <<plan, seq, ids, pending, chan, results, outcome, lock,
            conn, once, closed, inbound, frame, limit, scanned, targets, owed>>
      /\ pc[Reader] = "handling"
      /\ ~frame.array
  BY DEF HandlePush, goto, single, callVars, closeVars, readVars
<1>a. sent' = sent /\ \A q \in Procs : idsOf(q)' = idsOf(q) /\ unanswered(q)' = unanswered(q)
  BY <1>0 DEF idsOf, unanswered, sent, object
<1>1. TypeInv'
  BY <1>0, Constants, <1>a
     DEF IInv, TypeInv, specs, ProcPlaces, ReaderPlaces, CloserPlaces
<1>2. DrawnInv'
  BY <1>0, Constants, <1>a DEF IInv, TypeInv, DrawnInv, specs
<1>3. FreshInv'
  BY <1>0, Constants, <1>a DEF IInv, TypeInv, DrawnInv, FreshInv, specs
<1>4. ChanInv'
  BY <1>0, Constants, <1>a DEF IInv, TypeInv, ChanInv
<1>5. ResultInv'
  BY <1>0, Constants, <1>a DEF IInv, TypeInv, DrawnInv, ResultInv, ResultsAlign, specs
<1>6. ReaderInv'
  BY <1>0, Constants, <1>a DEF IInv, TypeInv, ReaderInv
<1>7. OnceInv'
  BY <1>0, Constants, <1>a DEF IInv, TypeInv, OnceInv
<1>8. LeakInv'
  BY <1>0, Constants, <1>a DEF IInv, TypeInv, DrawnInv, FreshInv, OnceInv, LeakInv
<1>9. OwedInv'
  BY <1>0, Constants DEF IInv, TypeInv, OwedInv
<1>. QED
  BY <1>1, <1>2, <1>3, <1>4, <1>5, <1>6, <1>7, <1>8, <1>9 DEF IInv

(* HandlerReturns keeps the invariant: the handler returns.                *)
LEMMA HandlerReturnsStep ==
    ASSUME IInv, HandlerReturns
    PROVE  IInv'
<1>0. /\ pc' = [pc EXCEPT ![Reader] = "reading"]
      /\ frame' = NoFrame
      /\ limit' = 0
      /\ scanned' = 0
      /\ owed' = {}
      /\ UNCHANGED <<plan, seq, ids, pending, chan, results, outcome, lock,
            conn, once, closed, inbound, targets>>
      /\ pc[Reader] = "handler"
  BY DEF HandlerReturns, goto, readNext, callVars, closeVars, readVars
<1>a. \A q \in Procs : idsOf(q)' = idsOf(q) /\ unanswered(q)' = unanswered(q)
  BY <1>0 DEF idsOf, unanswered
<1>1. TypeInv'
  BY <1>0, Constants, <1>a
     DEF IInv, TypeInv, specs, ProcPlaces, ReaderPlaces, CloserPlaces
<1>2. DrawnInv'
  BY <1>0, Constants, <1>a DEF IInv, TypeInv, DrawnInv, specs
<1>3. FreshInv'
  BY <1>0, Constants, <1>a DEF IInv, TypeInv, DrawnInv, FreshInv, specs
<1>4. ChanInv'
  BY <1>0, Constants, <1>a DEF IInv, TypeInv, ChanInv
<1>5. ResultInv'
  BY <1>0, Constants, <1>a DEF IInv, TypeInv, DrawnInv, ResultInv, ResultsAlign, specs
<1>6. ReaderInv'
  BY <1>0, Constants, <1>a DEF IInv, TypeInv, ReaderInv
<1>7. OnceInv'
  BY <1>0, Constants, <1>a DEF IInv, TypeInv, OnceInv
<1>8. LeakInv'
  BY <1>0, Constants, <1>a DEF IInv, TypeInv, DrawnInv, FreshInv, OnceInv, LeakInv
<1>9. OwedInv'
  BY <1>0, Constants DEF IInv, TypeInv, OwedInv
<1>. QED
  BY <1>1, <1>2, <1>3, <1>4, <1>5, <1>6, <1>7, <1>8, <1>9 DEF IInv

(* Deliver keeps the invariant: a response is taken for its call.          *)
LEMMA DeliverStep ==
    ASSUME IInv, Deliver
    PROVE  IInv'
<1>0. /\ pc' = [pc EXCEPT ![Reader] = "sending"]
      /\ pending' = pending \ {object.id}
      /\ targets' = {object.id}
      /\ UNCHANGED <<plan, seq, ids, chan, results, outcome, lock, conn, once,
            closed, inbound, frame, limit, scanned, owed>>
      /\ pc[Reader] = "handling"
      /\ ~frame.array
      /\ object.id \in pending
  BY DEF Deliver, goto, deliver, delivered, single, callVars, closeVars, readVars
<1>a. sent' = sent /\ \A q \in Procs : idsOf(q)' = idsOf(q) /\ unanswered(q)' = unanswered(q)
  BY <1>0 DEF idsOf, unanswered, sent, object
<1>1. TypeInv'
  BY <1>0, Constants, <1>a
     DEF IInv, TypeInv, specs, ProcPlaces, ReaderPlaces, CloserPlaces
<1>2. DrawnInv'
  BY <1>0, Constants, <1>a DEF IInv, TypeInv, DrawnInv, specs
<1>3. FreshInv'
  BY <1>0, Constants, <1>a DEF IInv, TypeInv, DrawnInv, FreshInv, specs
<1>4. ChanInv'
  <2>1. sent' = object
    BY <1>0 DEF sent, object
  <2>. QED
    BY <1>0, <2>1 DEF IInv, ChanInv
<1>5. ResultInv'
  BY <1>0, Constants, <1>a DEF IInv, TypeInv, DrawnInv, ResultInv, ResultsAlign, specs
<1>6. ReaderInv'
  BY <1>0, Constants, <1>a DEF IInv, TypeInv, ReaderInv
<1>7. OnceInv'
  BY <1>0, Constants, <1>a DEF IInv, TypeInv, OnceInv
<1>8. LeakInv'
  BY <1>0, Constants, <1>a DEF IInv, TypeInv, DrawnInv, FreshInv, OnceInv, LeakInv
<1>9. OwedInv'
  BY <1>0, Constants DEF IInv, TypeInv, OwedInv
<1>. QED
  BY <1>1, <1>2, <1>3, <1>4, <1>5, <1>6, <1>7, <1>8, <1>9 DEF IInv

(* FailPendingWith keeps the invariant: a rejection without an id is for   *)
(* every call.                                                             *)
LEMMA FailPendingWithStep ==
    ASSUME IInv, FailPendingWith
    PROVE  IInv'
<1>0. /\ pc' = [pc EXCEPT ![Reader] = "sending"]
      /\ pending' = {}
      /\ targets' = pending
      /\ UNCHANGED <<plan, seq, ids, chan, results, outcome, lock, conn, once,
            closed, inbound, frame, limit, scanned, owed>>
      /\ pc[Reader] = "handling"
      /\ ~frame.array
      /\ isRejection(object)
  BY DEF FailPendingWith, goto, single, callVars, closeVars, readVars
<1>a. sent' = sent /\ \A q \in Procs : idsOf(q)' = idsOf(q) /\ unanswered(q)' = unanswered(q)
  BY <1>0 DEF idsOf, unanswered, sent, object
<1>1. TypeInv'
  BY <1>0, Constants, <1>a
     DEF IInv, TypeInv, specs, ProcPlaces, ReaderPlaces, CloserPlaces
<1>2. DrawnInv'
  BY <1>0, Constants, <1>a DEF IInv, TypeInv, DrawnInv, specs
<1>3. FreshInv'
  BY <1>0, Constants, <1>a DEF IInv, TypeInv, DrawnInv, FreshInv, specs
<1>4. ChanInv'
  <2>1. sent' = object
    BY <1>0 DEF sent, object
  <2>. QED
    BY <1>0, <2>1 DEF IInv, ChanInv
<1>5. ResultInv'
  BY <1>0, Constants, <1>a DEF IInv, TypeInv, DrawnInv, ResultInv, ResultsAlign, specs
<1>6. ReaderInv'
  BY <1>0, Constants, <1>a DEF IInv, TypeInv, ReaderInv
<1>7. OnceInv'
  BY <1>0, Constants, <1>a DEF IInv, TypeInv, OnceInv
<1>8. LeakInv'
  BY <1>0, Constants, <1>a DEF IInv, TypeInv, DrawnInv, FreshInv, OnceInv, LeakInv
<1>9. OwedInv'
  BY <1>0, Constants DEF IInv, TypeInv, OwedInv
<1>. QED
  BY <1>1, <1>2, <1>3, <1>4, <1>5, <1>6, <1>7, <1>8, <1>9 DEF IInv

(* BeginBatch keeps the invariant: a batch is gone through.                *)
LEMMA BeginBatchStep ==
    ASSUME IInv, BeginBatch
    PROVE  IInv'
<1>0. /\ pc' = [pc EXCEPT ![Reader] = "scanning"]
      /\ limit' = Cardinality(pending) /\ owed' = pending
      /\ UNCHANGED <<plan, seq, ids, pending, chan, results, outcome, lock,
            conn, once, closed, inbound, frame, scanned, targets>>
      /\ pc[Reader] = "handling"
      /\ frame.array
  BY DEF BeginBatch, goto, callVars, closeVars, readVars
<1>a. sent' = sent /\ \A q \in Procs : idsOf(q)' = idsOf(q) /\ unanswered(q)' = unanswered(q)
  BY <1>0 DEF idsOf, unanswered, sent, object
<1>1. TypeInv'
  <2>1. Cardinality(pending) \in Nat
    BY PendingIsFinite DEF IInv
  <2>. QED
    BY <1>0, <2>1, Constants
       DEF IInv, TypeInv, specs, ProcPlaces, ReaderPlaces, CloserPlaces
<1>2. DrawnInv'
  BY <1>0, Constants, <1>a DEF IInv, TypeInv, DrawnInv, specs
<1>3. FreshInv'
  BY <1>0, Constants, <1>a DEF IInv, TypeInv, DrawnInv, FreshInv, specs
<1>4. ChanInv'
  BY <1>0, Constants, <1>a DEF IInv, TypeInv, ChanInv
<1>5. ResultInv'
  BY <1>0, Constants, <1>a DEF IInv, TypeInv, DrawnInv, ResultInv, ResultsAlign, specs
<1>6. ReaderInv'
  BY <1>0, Constants, <1>a DEF IInv, TypeInv, ReaderInv
<1>7. OnceInv'
  BY <1>0, Constants, <1>a DEF IInv, TypeInv, OnceInv
<1>8. LeakInv'
  BY <1>0, Constants, <1>a DEF IInv, TypeInv, DrawnInv, FreshInv, OnceInv, LeakInv
<1>9. OwedInv'
  <2>1. pc'[Reader] = "scanning" /\ \A p \in Procs : pc'[p] = pc[p]
    BY <1>0, Constants DEF IInv, TypeInv
  <2>2. DOMAIN frame.entries = 1 .. Len(frame.entries) /\ Len(frame.entries) \in Nat
    BY <1>0, FrameInHand DEF IInv
  <2>. SUFFICES ASSUME NEW i \in 1 .. Len(frame.entries), frame.entries[i].id \in pending
                PROVE  \E p \in Procs : \E j \in DOMAIN ids[p] : Fate(i, p, j)'
    BY <1>0, <2>2 DEF OwedInv, covered
  <2>3. PICK p \in Procs : frame.entries[i].id \in idsOf(p)
    BY DEF IInv, LeakInv
  <2>4. PICK j \in DOMAIN ids[p] : ids[p][j] = frame.entries[i].id
    BY <2>3 DEF idsOf
  <2>5. pc[p] \notin {"start", "draw"} /\ scanned < i
    BY <1>0, <2>2, <2>3 DEF IInv, LeakInv, ReaderInv
  <2>6. Fate(i, p, j)'
    BY <1>0, <2>1, <2>4, <2>5 DEF Fate
  <2>. QED
    BY <2>4, <2>6
<1>. QED
  BY <1>1, <1>2, <1>3, <1>4, <1>5, <1>6, <1>7, <1>8, <1>9 DEF IInv

(* ScanDeliver keeps the invariant: an entry of a batch is taken for its   *)
(* call.                                                                   *)
LEMMA ScanDeliverStep ==
    ASSUME IInv, ScanDeliver
    PROVE  IInv'
<1>0. /\ pc' = [pc EXCEPT ![Reader] = "sending"]
      /\ pending' = pending \ {entry.id}
      /\ targets' = {entry.id}
      /\ scanned' = scanned + 1
      /\ UNCHANGED <<plan, seq, ids, chan, results, outcome, lock, conn, once,
            closed, inbound, frame, limit, owed>>
      /\ pc[Reader] = "scanning"
      /\ entry.id \in pending
      /\ scanned < Len(frame.entries)
  BY DEF ScanDeliver, goto, deliver, delivered, mayScan, callVars, closeVars, readVars
<1>a. \A q \in Procs : idsOf(q)' = idsOf(q) /\ unanswered(q)' = unanswered(q)
  BY <1>0 DEF idsOf, unanswered
<1>1. TypeInv'
  <2>1. scanned + 1 \in 0 .. Len(frame.entries)
    BY <1>0, FrameInHand DEF IInv, TypeInv
  <2>. QED
    BY <1>0, <2>1, Constants
       DEF IInv, TypeInv, specs, ProcPlaces, ReaderPlaces, CloserPlaces
<1>2. DrawnInv'
  BY <1>0, Constants, <1>a DEF IInv, TypeInv, DrawnInv, specs
<1>3. FreshInv'
  BY <1>0, Constants, <1>a DEF IInv, TypeInv, DrawnInv, FreshInv, specs
<1>4. ChanInv'
  <2>1. sent' = entry
    BY <1>0 DEF sent, entry, IInv, ReaderInv
  <2>. QED
    BY <1>0, <2>1 DEF IInv, ChanInv
<1>5. ResultInv'
  BY <1>0, Constants, <1>a DEF IInv, TypeInv, DrawnInv, ResultInv, ResultsAlign, specs
<1>6. ReaderInv'
  BY <1>0, Constants, <1>a DEF IInv, TypeInv, ReaderInv
<1>7. OnceInv'
  BY <1>0, Constants, <1>a DEF IInv, TypeInv, OnceInv
<1>8. LeakInv'
  BY <1>0, Constants, <1>a DEF IInv, TypeInv, DrawnInv, FreshInv, OnceInv, LeakInv
<1>9. OwedInv'
  <2>1. pc'[Reader] = "sending" /\ \A q \in Procs : pc'[q] = pc[q]
    BY <1>0, Constants DEF IInv, TypeInv
  <2>2. ASSUME NEW i \in covered, NEW q \in Procs, NEW j \in DOMAIN ids[q], Fate(i, q, j)
        PROVE  Fate(i, q, j)'
    <3>1. i \in 1 .. Len(frame.entries) /\ scanned \in Nat
      BY <1>0, CoveredFacts DEF IInv, TypeInv
    <3>2. CASE i <= scanned
      BY <1>0, <2>1, <2>2, <3>1, <3>2 DEF Fate
    <3>3. CASE i = scanned + 1
      BY <1>0, <2>1, <2>2, <3>1, <3>3 DEF Fate, entry
    <3>4. CASE i > scanned + 1
      <4>1. frame.entries[i].id # entry.id
        BY <3>1, <3>4 DEF covered, entry
      <4>. QED
        BY <1>0, <2>1, <2>2, <3>1, <3>4, <4>1 DEF Fate
    <3>. QED
      BY <3>1, <3>2, <3>3, <3>4
  <2>. QED
    BY <1>0, <2>1, <2>2, OwedStep
<1>. QED
  BY <1>1, <1>2, <1>3, <1>4, <1>5, <1>6, <1>7, <1>8, <1>9 DEF IInv

(* ScanDrop keeps the invariant: an entry of a batch is for nobody.        *)
LEMMA ScanDropStep ==
    ASSUME IInv, ScanDrop
    PROVE  IInv'
<1>0. /\ scanned' = scanned + 1
      /\ UNCHANGED <<pc, plan, seq, ids, pending, chan, results, outcome, lock,
            conn, once, closed, inbound, frame, limit, targets, owed>>
      /\ pc[Reader] = "scanning"
      /\ entry.id \notin pending
      /\ scanned < Len(frame.entries)
  BY DEF ScanDrop, mayScan, callVars, closeVars, readVars
<1>a. \A q \in Procs : idsOf(q)' = idsOf(q) /\ unanswered(q)' = unanswered(q)
  BY <1>0 DEF idsOf, unanswered
<1>1. TypeInv'
  <2>1. scanned + 1 \in 0 .. Len(frame.entries)
    BY <1>0, FrameInHand DEF IInv, TypeInv
  <2>. QED
    BY <1>0, <2>1, Constants
       DEF IInv, TypeInv, specs, ProcPlaces, ReaderPlaces, CloserPlaces
<1>2. DrawnInv'
  BY <1>0, Constants, <1>a DEF IInv, TypeInv, DrawnInv, specs
<1>3. FreshInv'
  BY <1>0, Constants, <1>a DEF IInv, TypeInv, DrawnInv, FreshInv, specs
<1>4. ChanInv'
  BY <1>0, Constants, <1>a DEF IInv, TypeInv, ChanInv
<1>5. ResultInv'
  BY <1>0, Constants, <1>a DEF IInv, TypeInv, DrawnInv, ResultInv, ResultsAlign, specs
<1>6. ReaderInv'
  BY <1>0, Constants, <1>a DEF IInv, TypeInv, ReaderInv
<1>7. OnceInv'
  BY <1>0, Constants, <1>a DEF IInv, TypeInv, OnceInv
<1>8. LeakInv'
  BY <1>0, Constants, <1>a DEF IInv, TypeInv, DrawnInv, FreshInv, OnceInv, LeakInv
<1>9. OwedInv'
  <2>1. ASSUME NEW i \in covered, NEW q \in Procs, NEW j \in DOMAIN ids[q], Fate(i, q, j)
        PROVE  Fate(i, q, j)'
    <3>1. i \in 1 .. Len(frame.entries) /\ scanned \in Nat
      BY <1>0, CoveredFacts DEF IInv, TypeInv
    <3>2. frame.entries[i].id \in pending => i # scanned + 1
      BY <1>0 DEF entry
    <3>. QED
      BY <1>0, <2>1, <3>1, <3>2 DEF Fate
  <2>. QED
    BY <1>0, <2>1, OwedStep
<1>. QED
  BY <1>1, <1>2, <1>3, <1>4, <1>5, <1>6, <1>7, <1>8, <1>9 DEF IInv

(* EndBatch keeps the invariant: a batch has been gone through.            *)
LEMMA EndBatchStep ==
    ASSUME IInv, EndBatch
    PROVE  IInv'
<1>0. /\ pc' = [pc EXCEPT ![Reader] = "reading"]
      /\ frame' = NoFrame
      /\ limit' = 0
      /\ scanned' = 0
      /\ owed' = {}
      /\ UNCHANGED <<plan, seq, ids, pending, chan, results, outcome, lock,
            conn, once, closed, inbound, targets>>
      /\ pc[Reader] = "scanning"
  BY DEF EndBatch, goto, readNext, callVars, closeVars, readVars
<1>a. \A q \in Procs : idsOf(q)' = idsOf(q) /\ unanswered(q)' = unanswered(q)
  BY <1>0 DEF idsOf, unanswered
<1>1. TypeInv'
  BY <1>0, Constants, <1>a
     DEF IInv, TypeInv, specs, ProcPlaces, ReaderPlaces, CloserPlaces
<1>2. DrawnInv'
  BY <1>0, Constants, <1>a DEF IInv, TypeInv, DrawnInv, specs
<1>3. FreshInv'
  BY <1>0, Constants, <1>a DEF IInv, TypeInv, DrawnInv, FreshInv, specs
<1>4. ChanInv'
  BY <1>0, Constants, <1>a DEF IInv, TypeInv, ChanInv
<1>5. ResultInv'
  BY <1>0, Constants, <1>a DEF IInv, TypeInv, DrawnInv, ResultInv, ResultsAlign, specs
<1>6. ReaderInv'
  BY <1>0, Constants, <1>a DEF IInv, TypeInv, ReaderInv
<1>7. OnceInv'
  BY <1>0, Constants, <1>a DEF IInv, TypeInv, OnceInv
<1>8. LeakInv'
  BY <1>0, Constants, <1>a DEF IInv, TypeInv, DrawnInv, FreshInv, OnceInv, LeakInv
<1>9. OwedInv'
  BY <1>0, Constants DEF IInv, TypeInv, OwedInv
<1>. QED
  BY <1>1, <1>2, <1>3, <1>4, <1>5, <1>6, <1>7, <1>8, <1>9 DEF IInv

(* SendToCall keeps the invariant: a response is sent to a channel.        *)
LEMMA SendToCallStep ==
    ASSUME IInv, NEW k \in Keys, SendToCall(k)
    PROVE  IInv'
<1>0. /\ chan' = [chan EXCEPT ![k] = sent]
      /\ targets' = targets \ {k}
      /\ UNCHANGED <<pc, plan, seq, ids, pending, results, outcome, lock, conn,
            once, closed, inbound, frame, limit, scanned, owed>>
      /\ pc[Reader] = "sending"
      /\ k \in targets /\ chan[k] = NoEntry
  BY DEF SendToCall, callVars, closeVars, readVars
<1>a. sent' = sent /\ \A q \in Procs : idsOf(q)' = idsOf(q) /\ unanswered(q)' = unanswered(q)
  BY <1>0 DEF idsOf, unanswered, sent, object
<1>1. TypeInv'
  <2>1. sent \in Entry
    BY <1>0, FrameInHand DEF IInv
  <2>. QED
    BY <1>0, <2>1, Constants
       DEF IInv, TypeInv, specs, ProcPlaces, ReaderPlaces, CloserPlaces
<1>2. DrawnInv'
  BY <1>0, Constants, <1>a DEF IInv, TypeInv, DrawnInv, specs
<1>3. FreshInv'
  BY <1>0, Constants, <1>a DEF IInv, TypeInv, DrawnInv, FreshInv, specs
<1>4. ChanInv'
  <2>1. sent.id = k \/ isRejection(sent)
    BY <1>0 DEF IInv, ChanInv
  <2>2. \A j \in Keys : chan'[j] = IF j = k THEN sent ELSE chan[j]
    BY <1>0 DEF IInv, TypeInv
  <2>3. ASSUME NEW j \in Keys, chan'[j] # NoEntry
        PROVE  chan'[j].id = j \/ isRejection(chan'[j])
    <3>1. CASE j = k
      <4>1. chan'[j] = sent
        BY <2>2, <3>1
      <4>. QED
        BY <2>1, <3>1, <4>1
    <3>2. CASE j # k
      <4>1. chan'[j] = chan[j]
        BY <2>2, <3>2
      <4>. QED
        BY <2>3, <4>1 DEF IInv, ChanInv
    <3>. QED
      BY <3>1, <3>2
  <2>. QED
    BY <1>0, <1>a, <2>3 DEF IInv, ChanInv
<1>5. ResultInv'
  BY <1>0, Constants, <1>a DEF IInv, TypeInv, DrawnInv, ResultInv, ResultsAlign, specs
<1>6. ReaderInv'
  BY <1>0, Constants, <1>a DEF IInv, TypeInv, ReaderInv
<1>7. OnceInv'
  BY <1>0, Constants, <1>a DEF IInv, TypeInv, OnceInv
<1>8. LeakInv'
  BY <1>0, Constants, <1>a DEF IInv, TypeInv, DrawnInv, FreshInv, OnceInv, LeakInv
<1>9. OwedInv'
  <2>1. ASSUME NEW i \in covered, NEW q \in Procs, NEW j \in DOMAIN ids[q], Fate(i, q, j),
               frame.array
        PROVE  Fate(i, q, j)'
    <3>. DEFINE e == frame.entries[i]
    <3>1. e.id \in Keys /\ e # NoEntry
      BY <1>0, CoveredFacts
    <3>2. k \notin pending /\ chan'[k] = sent /\ \A l \in Keys : l # k => chan'[l] = chan[l]
      BY <1>0 DEF IInv, TypeInv, FreshInv
    <3>3. CASE e.id # k
      BY <1>0, <2>1, <3>1, <3>2, <3>3 DEF Fate
    <3>4. CASE e.id = k
      <4>1. scanned = i => sent = e
        BY <2>1 DEF sent
      <4>. QED
        BY <1>0, <2>1, <3>1, <3>2, <3>4, <4>1 DEF Fate
    <3>. QED
      BY <3>3, <3>4
  <2>. QED
    BY <1>0, <2>1, OwedStep
<1>. QED
  BY <1>1, <1>2, <1>3, <1>4, <1>5, <1>6, <1>7, <1>8, <1>9 DEF IInv

(* AllSentBatch keeps the invariant: the scan of a batch goes on.          *)
LEMMA AllSentBatchStep ==
    ASSUME IInv, frame.array, AllSent
    PROVE  IInv'
<1>0. /\ pc' = [pc EXCEPT ![Reader] = "scanning"]
      /\ UNCHANGED <<plan, seq, ids, pending, chan, results, outcome, lock,
            conn, once, closed, inbound, frame, limit, scanned, targets, owed>>
      /\ pc[Reader] = "sending"
      /\ targets = {}
  BY DEF AllSent, goto, callVars, closeVars, readVars
<1>a. sent' = sent /\ \A q \in Procs : idsOf(q)' = idsOf(q) /\ unanswered(q)' = unanswered(q)
  BY <1>0 DEF idsOf, unanswered, sent, object
<1>1. TypeInv'
  BY <1>0, Constants, <1>a
     DEF IInv, TypeInv, specs, ProcPlaces, ReaderPlaces, CloserPlaces
<1>2. DrawnInv'
  BY <1>0, Constants, <1>a DEF IInv, TypeInv, DrawnInv, specs
<1>3. FreshInv'
  BY <1>0, Constants, <1>a DEF IInv, TypeInv, DrawnInv, FreshInv, specs
<1>4. ChanInv'
  BY <1>0, Constants, <1>a DEF IInv, TypeInv, ChanInv
<1>5. ResultInv'
  BY <1>0, Constants, <1>a DEF IInv, TypeInv, DrawnInv, ResultInv, ResultsAlign, specs
<1>6. ReaderInv'
  BY <1>0, Constants, <1>a DEF IInv, TypeInv, ReaderInv
<1>7. OnceInv'
  BY <1>0, Constants, <1>a DEF IInv, TypeInv, OnceInv
<1>8. LeakInv'
  BY <1>0, Constants, <1>a DEF IInv, TypeInv, DrawnInv, FreshInv, OnceInv, LeakInv
<1>9. OwedInv'
  <2>1. pc'[Reader] = "scanning" /\ \A q \in Procs : pc'[q] = pc[q]
    BY <1>0, Constants DEF IInv, TypeInv
  <2>2. ASSUME NEW i \in covered, NEW q \in Procs, NEW j \in DOMAIN ids[q], Fate(i, q, j)
        PROVE  Fate(i, q, j)'
    BY <1>0, <2>1, <2>2 DEF Fate
  <2>. QED
    BY <1>0, <2>1, <2>2, OwedStep
<1>. QED
  BY <1>1, <1>2, <1>3, <1>4, <1>5, <1>6, <1>7, <1>8, <1>9 DEF IInv

(* AllSentSingle keeps the invariant: a response has been sent.            *)
LEMMA AllSentSingleStep ==
    ASSUME IInv, ~frame.array, AllSent
    PROVE  IInv'
<1>0. /\ pc' = [pc EXCEPT ![Reader] = "reading"]
      /\ frame' = NoFrame
      /\ limit' = 0
      /\ scanned' = 0
      /\ owed' = {}
      /\ UNCHANGED <<plan, seq, ids, pending, chan, results, outcome, lock,
            conn, once, closed, inbound, targets>>
      /\ pc[Reader] = "sending"
      /\ targets = {}
  BY DEF AllSent, goto, readNext, callVars, closeVars, readVars
<1>a. \A q \in Procs : idsOf(q)' = idsOf(q) /\ unanswered(q)' = unanswered(q)
  BY <1>0 DEF idsOf, unanswered
<1>1. TypeInv'
  BY <1>0, Constants, <1>a
     DEF IInv, TypeInv, specs, ProcPlaces, ReaderPlaces, CloserPlaces
<1>2. DrawnInv'
  BY <1>0, Constants, <1>a DEF IInv, TypeInv, DrawnInv, specs
<1>3. FreshInv'
  BY <1>0, Constants, <1>a DEF IInv, TypeInv, DrawnInv, FreshInv, specs
<1>4. ChanInv'
  BY <1>0, Constants, <1>a DEF IInv, TypeInv, ChanInv
<1>5. ResultInv'
  BY <1>0, Constants, <1>a DEF IInv, TypeInv, DrawnInv, ResultInv, ResultsAlign, specs
<1>6. ReaderInv'
  BY <1>0, Constants, <1>a DEF IInv, TypeInv, ReaderInv
<1>7. OnceInv'
  BY <1>0, Constants, <1>a DEF IInv, TypeInv, OnceInv
<1>8. LeakInv'
  BY <1>0, Constants, <1>a DEF IInv, TypeInv, DrawnInv, FreshInv, OnceInv, LeakInv
<1>9. OwedInv'
  BY <1>0, Constants DEF IInv, TypeInv, OwedInv
<1>. QED
  BY <1>1, <1>2, <1>3, <1>4, <1>5, <1>6, <1>7, <1>8, <1>9 DEF IInv

(***************************************************************************)
(* The invariant holds at the start and every step keeps it.               *)
(***************************************************************************)

(* A new client satisfies the invariant. *)
LEMMA IInvInit == Init => IInv
<1>. SUFFICES ASSUME Init PROVE IInv
  OBVIOUS
<1>1. \A p \in Procs : idsOf(p) = {} /\ ids[p] = << >> /\ pc[p] = "start"
  BY Constants DEF Init, idsOf
<1>2. pc[Reader] = "reading" /\ pc[Closer] = "start"
  BY Constants DEF Init
<1>3. TypeInv
  <2>1. pc \in [Threads -> ProcPlaces \cup ReaderPlaces]
    BY DEF Init, ProcPlaces, ReaderPlaces
  <2>2. \A p \in Procs : pc[p] \in ProcPlaces
    BY <1>1 DEF ProcPlaces
  <2>3. pc[Reader] \in ReaderPlaces /\ pc[Closer] \in CloserPlaces
    BY <1>2 DEF ReaderPlaces, CloserPlaces
  <2>4. ids \in [Procs -> Seq(Keys \cup {NoID})]
    BY DEF Init
  <2>5. DOMAIN results = Procs /\ \A p \in Procs : results[p] \in [DOMAIN specs(p) -> Entry]
    BY Constants DEF Init, specs
  <2>6. frame \in PeerFrames \cup {NoFrame} /\ scanned \in 0 .. Len(frame.entries) /\ limit \in Nat
    BY Constants DEF Init
  <2>7. /\ plan \in Plans /\ seq \in 0 .. MaxSeq /\ pending \in SUBSET Keys
        /\ chan \in [Keys -> Entry] /\ targets \in SUBSET Keys /\ owed \in SUBSET Keys
    BY Constants DEF Init
  <2>8. /\ outcome \in [Procs -> {"none", "ok", "tooLarge", "closed", "notSent", "writeError",
                                  "context"}]
        /\ conn \in {"open", "down"} /\ once \in {"free", "running", "done"} /\ closed \in BOOLEAN
    BY DEF Init
  <2>. QED
    BY <2>1, <2>2, <2>3, <2>4, <2>5, <2>6, <2>7, <2>8 DEF TypeInv
<1>4. DrawnInv
  <2>1. \A p \in Procs : specs(p) \in Seq({"call", "notify"})
    BY <1>3, PlanFacts DEF TypeInv
  <2>. QED
    BY <1>1, <2>1 DEF DrawnInv
<1>5. FreshInv
  BY <1>1, Constants DEF Init, FreshInv, specs
<1>6. ChanInv
  BY <1>2 DEF Init, ChanInv
<1>7. ResultInv
  BY <1>1 DEF Init, ResultInv, ResultsAlign, specs
<1>8. ReaderInv /\ OnceInv
  BY <1>2 DEF Init, ReaderInv, OnceInv
<1>9. LeakInv /\ OwedInv
  BY <1>1, <1>2 DEF Init, LeakInv, OwedInv
<1>. QED
  BY <1>3, <1>4, <1>5, <1>6, <1>7, <1>8, <1>9 DEF IInv

(* Every step keeps the invariant. *)
LEMMA IInvStep == IInv /\ [Next]_vars => IInv'
<1>. SUFFICES ASSUME IInv, [Next]_vars PROVE IInv'
  OBVIOUS
<1>1. ASSUME NEW p \in Procs, ProcStep(p) PROVE IInv'
  BY <1>1, RejectLocallyStep, EnterClosedStep, EnterStep, DrawIDStep, RegisterStep,
     BeginWriteStep, UnregisterStep, TakeResponseStep, SeeClosedStep DEF ProcStep
<1>2. ASSUME NEW p \in Procs, MarshalFails(p) \/ ContextDone(p) PROVE IInv'
  <2>1. plan[p].op \in {"Call", "Notify", "CallBatch"}
    BY PlanFacts DEF IInv, TypeInv
  <2>. QED
    BY <1>2, <2>1, MarshalFailsCallStep, MarshalFailsBatchStep, MarshalFailsNotifyStep,
       ContextDoneStep
<1>3. ASSUME NEW p \in Procs, WriteFrame(p) \/ WriteFails(p) PROVE IInv'
  BY <1>3, WriteFrameAllStep, WriteFrameWaitStep, WriteFailsStep
<1>4. CASE BeginClose
  BY <1>4, BeginCloseStep
<1>5. ASSUME NEW t \in {Reader, Closer}, CloseStep(t) PROVE IInv'
  BY <1>5, CloseClosedStep, CloseConnStep, FailPendingStep, OnceLaterStep DEF CloseStep
<1>6. CASE ReaderStep
  <2>1. CASE AllSent
    <3>1. frame.array \/ ~frame.array
      OBVIOUS
    <3>. QED
      BY <2>1, <3>1, AllSentBatchStep, AllSentSingleStep
  <2>2. ASSUME NEW k \in Keys, SendToCall(k) PROVE IInv'
    BY <2>2, SendToCallStep
  <2>. QED
    BY <1>6, <2>1, <2>2, DropFrameStep, HandlePushStep, HandlerReturnsStep, DeliverStep,
       FailPendingWithStep, BeginBatchStep, ScanDeliverStep, ScanDropStep, EndBatchStep
       DEF ReaderStep
<1>7. CASE ReadFails
  BY <1>7, ReadFailsStep
<1>8. ASSUME NEW f \in PeerFrames, ReadFrame(f) PROVE IInv'
  BY <1>8, ReadFrameStep
<1>9. CASE UNCHANGED vars
  <2>0. UNCHANGED <<pc, plan, seq, ids, pending, chan, results, outcome, lock, conn, once,
                    closed, inbound, frame, limit, scanned, targets, owed>>
    BY <1>9 DEF vars, callVars, closeVars, readVars
  <2>a. sent' = sent /\ \A q \in Procs : idsOf(q)' = idsOf(q) /\ unanswered(q)' = unanswered(q)
    BY <2>0 DEF idsOf, unanswered, sent, object
  <2>1. TypeInv'
    BY <2>0 DEF IInv, TypeInv, specs
  <2>2. DrawnInv' /\ FreshInv'
    BY <2>0, <2>a DEF IInv, DrawnInv, FreshInv, specs
  <2>3. ChanInv' /\ ResultInv'
    BY <2>0, <2>a DEF IInv, ChanInv, ResultInv, ResultsAlign, specs
  <2>4. ReaderInv' /\ OnceInv' /\ LeakInv'
    BY <2>0, <2>a DEF IInv, ReaderInv, OnceInv, LeakInv
  <2>5. OwedInv'
    BY <2>0, OwedKept DEF IInv
  <2>. QED
    BY <2>1, <2>2, <2>3, <2>4, <2>5 DEF IInv
<1>. QED
  BY <1>1, <1>2, <1>3, <1>4, <1>5, <1>6, <1>7, <1>8, <1>9 DEF Next, Done

(* Every reachable state of a client satisfies the inductive invariant:    *)
(* the types, whose every id is, what is in the channels and the results,  *)
(* who runs the function of the Once, whose ids are in the map, and how    *)
(* far the frame in hand has been gone through.                            *)
THEOREM WsClientInvariant == Spec => []IInv
BY IInvInit, IInvStep, PTL DEF Spec

(***************************************************************************)
(* The properties.                                                         *)
(***************************************************************************)

(* A response taken for a spec is the response to that spec, or a          *)
(* rejection without an id, and ok means that every call has one.          *)
THEOREM WsClientResultsAlign == Spec => []ResultsAlign
<1>1. IInv => ResultsAlign
  BY DEF IInv, ResultInv
<1>. QED
  BY <1>1, WsClientInvariant, PTL

(* When every caller has returned and Close is not in the middle of its    *)
(* work, no id is left in the map.                                         *)
THEOREM WsClientNoPendingLeak == Spec => []NoPendingLeak
<1>1. IInv => NoPendingLeak
  <2>. SUFFICES ASSUME IInv, \A p \in Procs : pc[p] = "returned", once # "running",
                       NEW k \in pending
                PROVE  FALSE
    BY DEF NoPendingLeak
  <2>1. PICK p \in Procs : k \in idsOf(p)
    BY DEF IInv, LeakInv
  <2>. QED
    BY <2>1 DEF IInv, LeakInv
<1>. QED
  BY <1>1, WsClientInvariant, PTL

(* When the read loop is done with a batch frame, every response in its    *)
(* first entries, as many as there were calls in the map when it began,    *)
(* has reached the caller it was for, unless that caller gave up or the    *)
(* client was closed: whatever the other entries are, and whoever          *)
(* registered, gave up or was answered meanwhile.                          *)
THEOREM WsClientAnswersDelivered == Spec => AnswersDelivered
<1>. DEFINE Delivered(i) ==
       \E p \in Procs : \E j \in DOMAIN ids[p] :
           LET e == frame.entries[i]
           IN  /\ ids[p][j] = e.id /\ e.id \notin pending
               /\ \/ results[p][j] = e \/ chan[e.id] = e
                  \/ outcome[p] \notin {"none", "ok"} \/ closed
<1>1. ASSUME IInv, [Next]_vars, pc[Reader] = "scanning", pc'[Reader] = "reading", NEW i \in covered
      PROVE  Delivered(i)
  <2>1. EndBatch
    <3>1. ASSUME NEW t \in Threads, t # Reader, NEW l, pc' = [pc EXCEPT ![t] = l]
          PROVE  FALSE
      BY <1>1, <3>1 DEF IInv, TypeInv
    <3>2. ASSUME NEW l, l # "reading", pc' = [pc EXCEPT ![Reader] = l]
          PROVE  FALSE
      BY <1>1, <3>2, Constants DEF IInv, TypeInv
    <3>3. pc' # pc
      BY <1>1
    <3>4. ASSUME NEW q \in Procs,
                 ProcStep(q) \/ MarshalFails(q) \/ ContextDone(q) \/ WriteFrame(q) \/ WriteFails(q)
          PROVE  FALSE
      <4>1. q \in Threads /\ q # Reader
        BY Constants
      <4>2. UNCHANGED pc \/ \E l : pc' = [pc EXCEPT ![q] = l]
        BY <3>4 DEF ProcStep, MarshalFails, ContextDone, WriteFrame, WriteFails, RejectLocally,
             EnterClosed, Enter, DrawID, Register, BeginWrite, Unregister, TakeResponse, SeeClosed,
             goto, return
      <4>. QED
        BY <3>1, <3>3, <4>1, <4>2
    <3>5. ASSUME BeginClose \/ \E t \in {Reader, Closer} : CloseStep(t)
          PROVE  FALSE
      BY <1>1, <3>1, <3>2, <3>5, Constants
         DEF BeginClose, CloseStep, CloseClosed, CloseConn, FailPending, OnceLater, goto
    <3>6. ASSUME \/ DropFrame \/ HandlePush \/ HandlerReturns \/ Deliver \/ FailPendingWith
                 \/ BeginBatch \/ AllSent \/ ReadFails
                 \/ (\E k \in Keys : SendToCall(k)) \/ \E f \in PeerFrames : ReadFrame(f)
          PROVE  FALSE
      BY <1>1, <3>6 DEF DropFrame, HandlePush, HandlerReturns, Deliver, FailPendingWith,
         BeginBatch, AllSent, ReadFails, SendToCall, ReadFrame
    <3>7. ~ScanDeliver /\ ~ScanDrop /\ ~Done
      BY <3>2, <3>3 DEF ScanDeliver, deliver, goto, ScanDrop, Done, vars
    <3>. QED
      BY <1>1, <3>3, <3>4, <3>5, <3>6, <3>7 DEF Next, ReaderStep, vars
  <2>2. frame.array /\ scanned \in Nat /\ limit \in Nat /\ Len(frame.entries) \in Nat
    BY <1>1, FrameInHand DEF IInv, TypeInv, ReaderInv
  <2>3. i \in 1 .. Len(frame.entries) /\ i <= limit
    BY <1>1, CoveredFacts
  <2>4. ~(scanned < i)
    <3>. SUFFICES ASSUME scanned < i PROVE FALSE
      OBVIOUS
    <3>1. scanned < Len(frame.entries) /\ scanned < limit /\ scanned + 1 \in 1 .. i
      BY <2>2, <2>3
    <3>2. entry.body # "junk"
      BY <3>1 DEF covered, entry
    <3>. QED
      BY <2>1, <3>1, <3>2 DEF EndBatch, mayScan
  <2>5. PICK p \in Procs : \E j \in DOMAIN ids[p] : Fate(i, p, j)
    BY <1>1, <2>2 DEF IInv, OwedInv
  <2>. QED
    BY <1>1, <2>4, <2>5 DEF Fate
<1>2. IInv /\ [Next]_vars =>
          [pc[Reader] = "scanning" /\ pc'[Reader] = "reading" =>
              \A i \in covered : Delivered(i)]_vars
  BY <1>1
<1>. QED
  BY <1>2, WsClientInvariant, PTL DEF Spec, AnswersDelivered

=============================================================================
