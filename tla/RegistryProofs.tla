--------------------------- MODULE RegistryProofs ---------------------------
(***************************************************************************)
(* Proofs about Registry for every set of writers, readers, changes, names *)
(* and codes, and every interleaving: the snapshots are immutable, and the *)
(* copy-on-write registry implements RegistrySpec.                         *)
(***************************************************************************)
EXTENDS Registry, TLAPS

(***************************************************************************)
(* The inductive invariant.                                                *)
(***************************************************************************)

(* Where the goroutines are, who holds j.mu, and whose call has ended.     *)
PlaceInv ==
    /\ \A w \in Writers :
          /\ pc[w] \in {"start", "clone", "mutate", "compose", "store", "done"}
          /\ lock = w <=> pc[w] \in {"clone", "mutate", "compose", "store"}
          /\ outcome[w] = "pending" <=> pc[w] # "done"
    /\ \A r \in Readers : pc[r] \in {"start", "info", "method", "error", "done"}

(* d does not write to a map that c refers to. *)
Apart(d, c) ==
    d.errors # c.errors /\ d.methods \notin {c.methods, c.composed} /\ d.info # c.info

(* The maps of a clone belong to the writer that made it. *)
CloneInv ==
    \A w \in Writers : pc[w] \in {"mutate", "compose", "store"} =>
        \A c \in published : Apart(next[w], c)

(* The dispatch map of c is its methods map wrapped in its middleware.     *)
Wrapped(c, h) ==
    \A n \in Names : h.methods[c.composed][n] =
                        A!chain(c.middlewares, h.methods[c.methods][n])

(* The methods map and the info map of c have the same names. *)
Lockstep(c, h) ==
    \A n \in Names : h.methods[c.methods][n] # << >> <=> h.info[c.info][n] # Default

(* Whatever a request can see is in step. *)
StepInv == \A c \in published : Wrapped(c, heap) /\ Lockstep(c, heap)

(* How far a writer's clone is from the snapshot it was made from, which   *)
(* is the published one still.                                             *)
ChangeInv ==
    \A w \in Writers :
        /\ pc[w] = "mutate" =>
              deref(next[w], heap) = deref(cfg, heap) /\ next[w].composed = cfg.composed
        /\ pc[w] \in {"compose", "store"} =>
              /\ ~refused(op[w], deref(cfg, heap))
              /\ deref(next[w], heap) = A!changed(op[w], deref(cfg, heap))
        /\ pc[w] = "compose" => recomposes(op[w])
        /\ pc[w] = "store" => Wrapped(next[w], heap)

(* What a request has found is what its snapshot says. *)
AnswerInv ==
    \A r \in Readers :
        /\ answer[r].given <=> pc[r] = "done"
        /\ pc[r] \in {"start", "info"} => answer[r] = NoAnswer
        /\ pc[r] \in {"method", "error", "done"} =>
              answer[r].info = heap.info[held[r].info][ask[r].name]
        /\ pc[r] \in {"error", "done"} =>
              answer[r].chain = heap.methods[held[r].composed][ask[r].name]
        /\ pc[r] = "done" => answer[r].known = heap.errors[held[r].errors][ask[r].code]

IInv == TypeOK /\ PlaceInv /\ CloneInv /\ StepInv /\ ChangeInv /\ AnswerInv

(***************************************************************************)
(* Facts about the heap and the configs.                                   *)
(***************************************************************************)
ErrorMap == [Codes -> BOOLEAN]
MethodMap == [Names -> Seq(Values)]
InfoMap == [Names -> Values \cup {Default}]
Heap == [errors: Seq(ErrorMap), methods: Seq(MethodMap), info: Seq(InfoMap)]

(* The configs whose maps are in h. *)
ConfigIn(h) ==
    [errors: 1 .. Len(h.errors), methods: 1 .. Len(h.methods),
     composed: 1 .. Len(h.methods), info: 1 .. Len(h.info),
     middlewares: Seq(Values), interceptors: Seq(Values),
     settings: [Settings -> Values \cup {Default}]]

(* TypeOK in these terms. *)
LEMMA TypeFacts ==
    ASSUME TypeOK
    PROVE  /\ heap \in Heap /\ cfg \in ConfigIn(heap)
           /\ next \in [Writers -> ConfigIn(heap)] /\ held \in [Readers -> ConfigIn(heap)]
           /\ \A c \in published : c \in ConfigIn(heap)
BY DEF TypeOK, Config, ConfigIn, Heap, ErrorMap, MethodMap, InfoMap, published

(* The maps c refers to are the same in h and g. *)
SameMaps(c, h, g) ==
    /\ g.errors[c.errors] = h.errors[c.errors]
    /\ g.methods[c.methods] = h.methods[c.methods]
    /\ g.methods[c.composed] = h.methods[c.composed]
    /\ g.info[c.info] = h.info[c.info]

(* What a config says is in its maps. *)
LEMMA SameMapsSameMeaning ==
    ASSUME NEW c, NEW h, NEW g, SameMaps(c, h, g)
    PROVE  /\ deref(c, g) = deref(c, h)
           /\ Wrapped(c, g) <=> Wrapped(c, h)
           /\ Lockstep(c, g) <=> Lockstep(c, h)
BY DEF SameMaps, deref, Wrapped, Lockstep

(* Maps are never removed from the heap. *)
LEMMA ConfigsRemain ==
    ASSUME NEW h \in Heap, NEW g \in Heap, NEW c \in ConfigIn(h),
           Len(h.errors) <= Len(g.errors), Len(h.methods) <= Len(g.methods),
           Len(h.info) <= Len(g.info)
    PROVE  c \in ConfigIn(g)
<1>1. /\ Len(h.errors) \in Nat /\ Len(h.methods) \in Nat /\ Len(h.info) \in Nat
      /\ Len(g.errors) \in Nat /\ Len(g.methods) \in Nat /\ Len(g.info) \in Nat
  BY DEF Heap
<1>2. /\ 1 .. Len(h.errors) \subseteq 1 .. Len(g.errors)
      /\ 1 .. Len(h.methods) \subseteq 1 .. Len(g.methods)
      /\ 1 .. Len(h.info) \subseteq 1 .. Len(g.info)
  BY <1>1
<1>. QED
  BY <1>2 DEF ConfigIn

(* A sequence with one more element. *)
LEMMA Appended ==
    ASSUME NEW S, NEW s \in Seq(S), NEW x \in S
    PROVE  LET n == Len(s) + 1
           IN  /\ Append(s, x) \in Seq(S) /\ Len(Append(s, x)) = n /\ n \in Nat \ {0}
               /\ Append(s, x)[n] = x
               /\ \A k \in 1 .. Len(s) : Append(s, x)[k] = s[k] /\ k # n
OBVIOUS

(* The maps of the heap, by their addresses. *)
LEMMA MapsOf ==
    ASSUME NEW h \in Heap, NEW c \in ConfigIn(h)
    PROVE  /\ h.errors \in Seq(ErrorMap) /\ h.methods \in Seq(MethodMap) /\ h.info \in Seq(InfoMap)
           /\ c.errors \in 1 .. Len(h.errors) /\ c.methods \in 1 .. Len(h.methods)
           /\ c.composed \in 1 .. Len(h.methods) /\ c.info \in 1 .. Len(h.info)
           /\ h.errors[c.errors] \in ErrorMap /\ h.methods[c.methods] \in MethodMap
           /\ h.methods[c.composed] \in MethodMap /\ h.info[c.info] \in InfoMap
           /\ c.middlewares \in Seq(Values) /\ c.interceptors \in Seq(Values)
           /\ c.settings \in [Settings -> Values \cup {Default}]
<1>1. /\ h.errors \in Seq(ErrorMap) /\ h.methods \in Seq(MethodMap) /\ h.info \in Seq(InfoMap)
  BY DEF Heap
<1>2. /\ c.errors \in 1 .. Len(h.errors) /\ c.methods \in 1 .. Len(h.methods)
      /\ c.composed \in 1 .. Len(h.methods) /\ c.info \in 1 .. Len(h.info)
      /\ c.middlewares \in Seq(Values) /\ c.interceptors \in Seq(Values)
      /\ c.settings \in [Settings -> Values \cup {Default}]
  BY DEF ConfigIn
<1>. QED
  BY <1>1, <1>2

(* A sequence with one element replaced. *)
LEMMA Replaced ==
    ASSUME NEW S, NEW s \in Seq(S), NEW i \in 1 .. Len(s), NEW m \in S
    PROVE  LET t == [s EXCEPT ![i] = m]
           IN  /\ t \in Seq(S) /\ Len(t) = Len(s) /\ t[i] = m
               /\ \A j \in 1 .. Len(s) : j # i => t[j] = s[j]
OBVIOUS

(* A sequence of maps with one entry of one map set. *)
LEMMA MapUpdated ==
    ASSUME NEW K, NEW V, NEW s \in Seq([K -> V]), NEW i \in 1 .. Len(s), NEW k \in K,
           NEW x \in V, NEW t, t = [s EXCEPT ![i][k] = x]
    PROVE  /\ t \in Seq([K -> V]) /\ Len(t) = Len(s)
           /\ t[i] = [s[i] EXCEPT ![k] = x]
           /\ \A j \in 1 .. Len(s) : j # i => t[j] = s[j]
<1>. DEFINE M == [K -> V]
<1>1. s \in Seq(M) /\ s[i] \in M
  OBVIOUS
<1>2. PICK m : m = [s[i] EXCEPT ![k] = x]
  OBVIOUS
<1>3. m \in M
  BY <1>1, <1>2
<1>4. t = [s EXCEPT ![i] = m]
  BY <1>2
<1>. HIDE DEF M
<1>5. t \in Seq(M) /\ Len(t) = Len(s) /\ t[i] = m /\ \A j \in 1 .. Len(s) : j # i => t[j] = s[j]
  BY <1>1, <1>3, <1>4, Replaced
<1>. QED
  BY <1>2, <1>5 DEF M

(* Changes have the keys and values of their kind. *)
LEMMA OpFacts ==
    ASSUME NEW o \in Ops
    PROVE  /\ o.kind \in Kinds /\ o.value \in Values
           /\ o.kind = "method" => o.key \in Names
           /\ o.kind = "error" => o.key \in Codes
           /\ o.kind = "setting" => o.key \in Settings
BY OpsAssumption DEF Op

(* Where a writer holds j.mu, and where it has a clone. *)
Locked == {"clone", "mutate", "compose", "store"}
Cloned == {"mutate", "compose", "store"}

(* No two writers hold j.mu. *)
LEMMA OneWriter ==
    ASSUME PlaceInv, NEW w \in Writers, NEW v \in Writers,
           pc[w] \in Locked, pc[v] \in Locked
    PROVE  v = w
BY DEF PlaceInv, Locked

Undisturbed == \A c \in published : SameMaps(c, heap, heap')

(* What readers see does not change while the maps of their snapshots do not. *)
LEMMA SnapshotsKept ==
    ASSUME StepInv, AnswerInv, Undisturbed, UNCHANGED <<ask, cfg, held, answer>>,
           \A r \in Readers : pc'[r] = pc[r]
    PROVE  StepInv' /\ AnswerInv'
<1>1. published' = published
  BY DEF published
<1>2. StepInv'
  <2>1. SUFFICES ASSUME NEW c \in published
                 PROVE  Wrapped(c, heap') /\ Lockstep(c, heap')
    BY <1>1 DEF StepInv
  <2>2. SameMaps(c, heap, heap') /\ Wrapped(c, heap) /\ Lockstep(c, heap)
    BY DEF StepInv, Undisturbed
  <2>. QED
    BY <2>2, SameMapsSameMeaning
<1>3. ASSUME NEW r \in Readers
      PROVE  /\ heap'.info[held[r].info] = heap.info[held[r].info]
             /\ heap'.methods[held[r].composed] = heap.methods[held[r].composed]
             /\ heap'.errors[held[r].errors] = heap.errors[held[r].errors]
  <2>1. held[r] \in published
    BY DEF published
  <2>. QED
    BY <2>1 DEF Undisturbed, SameMaps
<1>4. AnswerInv'
  BY <1>3 DEF AnswerInv
<1>. QED
  BY <1>2, <1>4

(* Only the writer that holds j.mu has anything to show for its clone. *)
LEMMA OnlyItsClone ==
    ASSUME NEW w \in Writers, PlaceInv', lock' = w,
           pc'[w] \in Cloned => \A c \in published' : Apart(next'[w], c),
           pc'[w] = "mutate" => deref(next'[w], heap') = deref(cfg', heap')
                                /\ next'[w].composed = cfg'.composed,
           pc'[w] \in {"compose", "store"} =>
              /\ ~refused(op'[w], deref(cfg', heap'))
              /\ deref(next'[w], heap') = A!changed(op'[w], deref(cfg', heap')),
           pc'[w] = "compose" => recomposes(op'[w]),
           pc'[w] = "store" => Wrapped(next'[w], heap')
    PROVE  CloneInv' /\ ChangeInv'
<1>1. \A v \in Writers : v # w => pc'[v] \notin Locked
  BY DEF PlaceInv, Locked
<1>2. CloneInv'
  BY <1>1 DEF CloneInv, Locked, Cloned
<1>3. ChangeInv'
  BY <1>1 DEF ChangeInv, Locked
<1>. QED
  BY <1>2, <1>3

(* No writer has a clone. *)
LEMMA NoClone ==
    ASSUME PlaceInv', lock' \notin Writers
    PROVE  CloneInv' /\ ChangeInv'
<1>1. \A v \in Writers : pc'[v] \notin Locked
  BY DEF PlaceInv, Locked
<1>2. CloneInv'
  BY <1>1 DEF CloneInv, Locked
<1>3. ChangeInv'
  BY <1>1 DEF ChangeInv, Locked
<1>. QED
  BY <1>2, <1>3

(* The goroutines of a writer's step. *)
LEMMA WriterPlaces ==
    ASSUME TypeOK, PlaceInv, NEW w \in Writers,
           NEW l \in {"clone", "mutate", "compose", "store", "done"}, goto(w, l),
           l # "done" => lock' = w /\ (lock = w \/ lock = Nobody) /\ outcome' = outcome
                         /\ pc[w] # "done",
           l = "done" => /\ lock = w /\ lock' = Nobody
                         /\ \E o \in {"ok", "error", "panic"} :
                               outcome' = [outcome EXCEPT ![w] = o]
    PROVE  PlaceInv' /\ \A r \in Readers : pc'[r] = pc[r]
<1>1. \A r \in Readers : r # w /\ pc'[r] = pc[r]
  BY ThreadsAssumption DEF goto, TypeOK
<1>2. pc'[w] = l /\ \A v \in Writers : v # w => pc'[v] = pc[v]
  BY DEF goto, TypeOK
<1>3. \A v \in Writers : v # Nobody
  BY ThreadsAssumption
<1>4. CASE l # "done"
  BY <1>1, <1>2, <1>3, <1>4 DEF PlaceInv
<1>5. CASE l = "done"
  <2>1. PICK o \in {"ok", "error", "panic"} : outcome' = [outcome EXCEPT ![w] = o]
    BY <1>5
  <2>2. outcome'[w] # "pending" /\ \A v \in Writers : v # w => outcome'[v] = outcome[v]
    BY <2>1 DEF TypeOK
  <2>. QED
    BY <1>1, <1>2, <1>3, <1>5, <2>2 DEF PlaceInv
<1>. QED
  BY <1>4, <1>5

(* The types of a step, from the maps and configs it leaves. *)
LEMMA TypesKept ==
    ASSUME TypeOK, UNCHANGED <<op, ask>>,
           heap' \in Heap, cfg' \in ConfigIn(heap'), next' \in [Writers -> ConfigIn(heap')],
           held' \in [Readers -> ConfigIn(heap')],
           lock' \in Writers \cup {Nobody},
           NEW t \in Writers \cup Readers,
           NEW l \in {"clone", "mutate", "compose", "store", "info", "method", "error", "done"},
           goto(t, l),
           outcome' \in [Writers -> {"pending", "ok", "error", "panic"}],
           answer' \in [Readers -> [given: BOOLEAN, info: Values \cup {Default},
                                    chain: Seq(Values), known: BOOLEAN]]
    PROVE  TypeOK'
<1>1. pc' \in [Writers \cup Readers ->
                 {"start", "clone", "mutate", "compose", "store", "info",
                  "method", "error", "done"}]
  BY DEF TypeOK, goto
<1>. QED
  BY <1>1 DEF TypeOK, Config, ConfigIn, Heap, ErrorMap, MethodMap, InfoMap

(* A writer's step that leaves the heap alone. *)
LEMMA HeapKept ==
    ASSUME UNCHANGED heap
    PROVE  Undisturbed
BY DEF Undisturbed, SameMaps

LEMMA AcquireStep ==
    ASSUME IInv, NEW w \in Writers, Acquire(w)
    PROVE  IInv' /\ Undisturbed
<1>. USE DEF IInv, Acquire
<1>1. TypeOK'
  BY TypeFacts, TypesKept DEF TypeOK
<1>2. PlaceInv' /\ \A r \in Readers : pc'[r] = pc[r]
  BY WriterPlaces DEF mutexFree
<1>3. Undisturbed
  BY HeapKept
<1>4. StepInv' /\ AnswerInv'
  BY <1>2, <1>3, SnapshotsKept
<1>5. pc'[w] = "clone"
  BY DEF goto, TypeOK
<1>6. CloneInv' /\ ChangeInv'
  BY <1>2, <1>5, OnlyItsClone DEF Cloned
<1>. QED
  BY <1>1, <1>2, <1>3, <1>4, <1>6

(* Leaving update without publishing anything. *)
LEMMA LeaveStep ==
    ASSUME IInv, NEW w \in Writers, pc[w] \in Locked, NEW o \in {"error", "panic"}, leave(w, o),
           UNCHANGED <<op, ask, heap, cfg, next, held, answer>>
    PROVE  IInv' /\ Undisturbed
<1>. USE DEF IInv, leave
<1>1. outcome' \in [Writers -> {"pending", "ok", "error", "panic"}]
  BY DEF TypeOK
<1>2. TypeOK'
  BY <1>1, TypeFacts, TypesKept DEF TypeOK
<1>3. lock = w
  BY DEF PlaceInv, Locked
<1>4. PlaceInv' /\ \A r \in Readers : pc'[r] = pc[r]
  BY <1>3, WriterPlaces
<1>5. Undisturbed
  BY HeapKept
<1>6. StepInv' /\ AnswerInv'
  BY <1>4, <1>5, SnapshotsKept
<1>7. CloneInv' /\ ChangeInv'
  BY <1>4, NoClone, ThreadsAssumption
<1>. QED
  BY <1>2, <1>4, <1>5, <1>6, <1>7

LEMMA CloneStep ==
    ASSUME IInv, NEW w \in Writers, Clone(w)
    PROVE  IInv' /\ Undisturbed
<1>. USE DEF IInv, Clone
<1>. DEFINE d == [cfg EXCEPT !.errors = Len(heap.errors) + 1,
                             !.methods = Len(heap.methods) + 1,
                             !.info = Len(heap.info) + 1]
<1>1. /\ heap \in Heap /\ cfg \in ConfigIn(heap)
      /\ next \in [Writers -> ConfigIn(heap)] /\ held \in [Readers -> ConfigIn(heap)]
      /\ \A c \in published : c \in ConfigIn(heap)
  BY TypeFacts
<1>2. next' = [next EXCEPT ![w] = d] /\ next'[w] = d
  BY <1>1 DEF methodsOfClone
<1>3. /\ heap.errors \in Seq(ErrorMap) /\ heap.errors[cfg.errors] \in ErrorMap
      /\ heap.methods \in Seq(MethodMap) /\ heap.methods[cfg.methods] \in MethodMap
      /\ heap.info \in Seq(InfoMap) /\ heap.info[cfg.info] \in InfoMap
  BY <1>1, MapsOf
<1>4. /\ heap'.errors = Append(heap.errors, heap.errors[cfg.errors])
      /\ heap'.methods = Append(heap.methods, heap.methods[cfg.methods])
      /\ heap'.info = Append(heap.info, heap.info[cfg.info])
  OBVIOUS
<1>5. /\ heap'.errors \in Seq(ErrorMap) /\ Len(heap'.errors) = Len(heap.errors) + 1
      /\ heap'.errors[Len(heap.errors) + 1] = heap.errors[cfg.errors]
      /\ \A k \in 1 .. Len(heap.errors) :
            heap'.errors[k] = heap.errors[k] /\ k # Len(heap.errors) + 1
  BY <1>3, <1>4, Appended
<1>6. /\ heap'.methods \in Seq(MethodMap) /\ Len(heap'.methods) = Len(heap.methods) + 1
      /\ heap'.methods[Len(heap.methods) + 1] = heap.methods[cfg.methods]
      /\ \A k \in 1 .. Len(heap.methods) :
            heap'.methods[k] = heap.methods[k] /\ k # Len(heap.methods) + 1
  BY <1>3, <1>4, Appended
<1>7. /\ heap'.info \in Seq(InfoMap) /\ Len(heap'.info) = Len(heap.info) + 1
      /\ heap'.info[Len(heap.info) + 1] = heap.info[cfg.info]
      /\ \A k \in 1 .. Len(heap.info) :
            heap'.info[k] = heap.info[k] /\ k # Len(heap.info) + 1
  BY <1>3, <1>4, Appended
<1>8. /\ Len(heap.errors) \in Nat /\ Len(heap.methods) \in Nat /\ Len(heap.info) \in Nat
  BY <1>3
<1>9. heap' = [errors |-> heap'.errors, methods |-> heap'.methods, info |-> heap'.info]
  OBVIOUS
<1>10. heap' \in Heap
  BY <1>5, <1>6, <1>7, <1>9 DEF Heap
<1>11. ConfigIn(heap) \subseteq ConfigIn(heap')
  <2>1. /\ Len(heap.errors) <= Len(heap'.errors) /\ Len(heap.methods) <= Len(heap'.methods)
        /\ Len(heap.info) <= Len(heap'.info)
    BY <1>5, <1>6, <1>7, <1>8
  <2>2. PICK h \in Heap : h = heap
    BY <1>1
  <2>3. PICK g \in Heap : g = heap'
    BY <1>10
  <2>. QED
    BY <2>1, <2>2, <2>3, ConfigsRemain
<1>12. d \in ConfigIn(heap')
  <2>1. cfg \in ConfigIn(heap')
    BY <1>1, <1>11
  <2>2. /\ Len(heap.errors) + 1 \in 1 .. Len(heap'.errors)
        /\ Len(heap.methods) + 1 \in 1 .. Len(heap'.methods)
        /\ Len(heap.info) + 1 \in 1 .. Len(heap'.info)
    BY <1>5, <1>6, <1>7, <1>8
  <2>. QED
    BY <2>1, <2>2 DEF ConfigIn
<1>13. TypeOK'
  <2>1. next' \in [Writers -> ConfigIn(heap')]
    BY <1>1, <1>2, <1>11, <1>12
  <2>2. cfg' \in ConfigIn(heap') /\ held' \in [Readers -> ConfigIn(heap')]
    BY <1>1, <1>11
  <2>. QED
    BY <1>10, <2>1, <2>2, TypesKept DEF TypeOK
<1>14. lock = w
  BY DEF PlaceInv
<1>15. PlaceInv' /\ \A r \in Readers : pc'[r] = pc[r]
  BY <1>14, WriterPlaces
<1>16. Undisturbed
  BY <1>1, <1>5, <1>6, <1>7, MapsOf DEF Undisturbed, SameMaps
<1>17. StepInv' /\ AnswerInv'
  BY <1>15, <1>16, SnapshotsKept
<1>18. pc'[w] = "mutate"
  BY DEF goto, TypeOK
<1>19. \A c \in published' : Apart(next'[w], c)
  <2>1. published' = published
    BY DEF published
  <2>2. SUFFICES ASSUME NEW c \in published
                 PROVE  Apart(d, c)
    BY <1>2, <2>1
  <2>3. d.errors = Len(heap.errors) + 1 /\ d.methods = Len(heap.methods) + 1
        /\ d.info = Len(heap.info) + 1
    BY <1>1 DEF ConfigIn
  <2>4. /\ c.errors \in 1 .. Len(heap.errors) /\ c.methods \in 1 .. Len(heap.methods)
        /\ c.composed \in 1 .. Len(heap.methods) /\ c.info \in 1 .. Len(heap.info)
    BY <1>1, MapsOf
  <2>. QED
    BY <2>3, <2>4, <1>5, <1>6, <1>7 DEF Apart
<1>20. deref(d, heap') = deref(cfg, heap') /\ d.composed = cfg.composed
  <2>1. cfg \in published
    BY DEF published
  <2>2. deref(cfg, heap') = deref(cfg, heap)
    BY <2>1, <1>16, SameMapsSameMeaning DEF Undisturbed
  <2>3. /\ d.errors = Len(heap.errors) + 1 /\ d.methods = Len(heap.methods) + 1
        /\ d.info = Len(heap.info) + 1 /\ d.composed = cfg.composed
        /\ d.middlewares = cfg.middlewares /\ d.interceptors = cfg.interceptors
        /\ d.settings = cfg.settings
    BY <1>1 DEF ConfigIn
  <2>4. deref(d, heap') = deref(cfg, heap)
    BY <2>3, <1>5, <1>6, <1>7 DEF deref
  <2>. QED
    BY <2>2, <2>3, <2>4
<1>21. CloneInv' /\ ChangeInv'
  BY <1>2, <1>14, <1>15, <1>18, <1>19, <1>20, OnlyItsClone
<1>. QED
  BY <1>13, <1>15, <1>16, <1>17, <1>21

LEMMA MutateRefusesStep ==
    ASSUME IInv, NEW w \in Writers, MutateRefuses(w)
    PROVE  IInv' /\ Undisturbed
BY LeaveStep DEF MutateRefuses, Locked

LEMMA ComposePanicsStep ==
    ASSUME IInv, NEW w \in Writers, ComposePanics(w)
    PROVE  IInv' /\ Undisturbed
BY LeaveStep DEF ComposePanics, Locked

(* Nothing a snapshot refers to is written to in the maps of a clone. *)
LEMMA OwnMaps ==
    ASSUME NEW h \in Heap, NEW g, NEW d \in ConfigIn(h), NEW c \in ConfigIn(h), Apart(d, c),
           \A k \in 1 .. Len(h.errors) : k # d.errors => g.errors[k] = h.errors[k],
           \A k \in 1 .. Len(h.methods) : k # d.methods => g.methods[k] = h.methods[k],
           \A k \in 1 .. Len(h.info) : k # d.info => g.info[k] = h.info[k]
    PROVE  SameMaps(c, h, g)
BY MapsOf DEF Apart, SameMaps

(* g is h after the change o of map entries, in the maps of d. *)
EntriesSet(o, d, h, g) ==
    \/ /\ o.kind = "method"
       /\ g = [h EXCEPT !.methods[d.methods][o.key] = <<o.value>>,
                        !.info[d.info][o.key] = o.value]
    \/ /\ o.kind = "error"
       /\ g = [h EXCEPT !.errors[d.errors][o.key] = TRUE]

(* What a change of map entries does to the heap. *)
LEMMA MapsChanged ==
    ASSUME NEW h \in Heap, NEW d \in ConfigIn(h), NEW o \in Ops, NEW g,
           EntriesSet(o, d, h, g)
    PROVE  /\ g \in Heap
           /\ Len(g.errors) = Len(h.errors) /\ Len(g.methods) = Len(h.methods)
           /\ Len(g.info) = Len(h.info)
           /\ \A k \in 1 .. Len(h.errors) : k # d.errors => g.errors[k] = h.errors[k]
           /\ \A k \in 1 .. Len(h.methods) : k # d.methods => g.methods[k] = h.methods[k]
           /\ \A k \in 1 .. Len(h.info) : k # d.info => g.info[k] = h.info[k]
           /\ deref(d, g) = A!changed(o, deref(d, h))
           /\ o.kind = "error" => g.methods = h.methods
<1>1. /\ h.errors \in Seq(ErrorMap) /\ h.methods \in Seq(MethodMap) /\ h.info \in Seq(InfoMap)
      /\ d.errors \in 1 .. Len(h.errors) /\ d.methods \in 1 .. Len(h.methods)
      /\ d.info \in 1 .. Len(h.info)
      /\ h.methods[d.methods] \in MethodMap /\ h.info[d.info] \in InfoMap
      /\ h.errors[d.errors] \in ErrorMap
  BY MapsOf
<1>2. /\ o.value \in Values
      /\ o.kind = "method" => o.key \in Names
      /\ o.kind = "error" => o.key \in Codes
  BY OpFacts
<1>3. h = [errors |-> h.errors, methods |-> h.methods, info |-> h.info]
  BY DEF Heap
<1>4. CASE o.kind = "method"
  <2>1. PICK m : m = [h.methods EXCEPT ![d.methods][o.key] = <<o.value>>]
    OBVIOUS
  <2>2. PICK i : i = [h.info EXCEPT ![d.info][o.key] = o.value]
    OBVIOUS
  <2>3. <<o.value>> \in Seq(Values) /\ o.key \in Names /\ o.value \in Values \cup {Default}
    BY <1>2, <1>4
  <2>4. /\ m \in Seq(MethodMap) /\ Len(m) = Len(h.methods)
        /\ m[d.methods] = [h.methods[d.methods] EXCEPT ![o.key] = <<o.value>>]
        /\ \A k \in 1 .. Len(h.methods) : k # d.methods => m[k] = h.methods[k]
    <3>1. PICK V : V = Seq(Values)
      OBVIOUS
    <3>2. PICK v \in V : v = <<o.value>>
      BY <2>3, <3>1
    <3>3. PICK z : z = [h.methods[d.methods] EXCEPT ![o.key] = v]
      OBVIOUS
    <3>4. z \in MethodMap
      BY <1>1, <2>3, <3>1, <3>2, <3>3 DEF MethodMap
    <3>5. m = [h.methods EXCEPT ![d.methods] = z]
      BY <2>1, <3>2, <3>3
    <3>6. /\ m \in Seq(MethodMap) /\ Len(m) = Len(h.methods) /\ m[d.methods] = z
          /\ \A k \in 1 .. Len(h.methods) : k # d.methods => m[k] = h.methods[k]
      BY <1>1, <3>4, <3>5, Replaced
    <3>. QED
      BY <3>2, <3>3, <3>6
  <2>5. /\ i \in Seq(InfoMap) /\ Len(i) = Len(h.info)
        /\ i[d.info] = [h.info[d.info] EXCEPT ![o.key] = o.value]
        /\ \A k \in 1 .. Len(h.info) : k # d.info => i[k] = h.info[k]
    BY <1>1, <2>2, <2>3, MapUpdated DEF InfoMap
  <2>6. g = [errors |-> h.errors, methods |-> m, info |-> i]
    BY <1>3, <1>4, <2>1, <2>2 DEF EntriesSet
  <2>7. g.errors = h.errors /\ g.methods = m /\ g.info = i /\ g \in Heap
    BY <1>1, <2>4, <2>5, <2>6 DEF Heap
  <2>8. A!changed(o, deref(d, h)) = [deref(d, h) EXCEPT !.methods[o.key] = <<o.value>>,
                                                        !.info[o.key] = o.value]
    BY <1>4 DEF A!changed
  <2>9. deref(d, g) = A!changed(o, deref(d, h))
    <3>1. PICK c : c = deref(d, h)
      OBVIOUS
    <3>2. c = [methods |-> h.methods[d.methods], info |-> h.info[d.info],
               errors |-> h.errors[d.errors], middlewares |-> d.middlewares,
               interceptors |-> d.interceptors, settings |-> d.settings]
      BY <3>1 DEF deref
    <3>3. PICK a : a = [c EXCEPT !.methods = m[d.methods]]
      OBVIOUS
    <3>4. a = [methods |-> m[d.methods], info |-> h.info[d.info],
               errors |-> h.errors[d.errors], middlewares |-> d.middlewares,
               interceptors |-> d.interceptors, settings |-> d.settings]
      BY <3>2, <3>3
    <3>5. [a EXCEPT !.info = i[d.info]] =
             [methods |-> m[d.methods], info |-> i[d.info], errors |-> h.errors[d.errors],
              middlewares |-> d.middlewares, interceptors |-> d.interceptors,
              settings |-> d.settings]
      BY <3>4
    <3>6. [c EXCEPT !.methods[o.key] = <<o.value>>, !.info[o.key] = o.value] =
             [c EXCEPT !.methods = m[d.methods], !.info = i[d.info]]
      BY <2>4, <2>5, <3>2
    <3>7. [c EXCEPT !.methods = m[d.methods], !.info = i[d.info]] =
             [a EXCEPT !.info = i[d.info]]
      BY <3>3
    <3>. QED
      BY <2>7, <2>8, <3>1, <3>5, <3>6, <3>7 DEF deref
  <2>. QED
    BY <1>4, <2>4, <2>5, <2>7, <2>9
<1>5. CASE o.kind = "error"
  <2>1. PICK e : e = [h.errors EXCEPT ![d.errors][o.key] = TRUE]
    OBVIOUS
  <2>2. /\ e \in Seq(ErrorMap) /\ Len(e) = Len(h.errors)
        /\ e[d.errors] = [h.errors[d.errors] EXCEPT ![o.key] = TRUE]
        /\ \A k \in 1 .. Len(h.errors) : k # d.errors => e[k] = h.errors[k]
    BY <1>1, <1>2, <1>5, <2>1, MapUpdated DEF ErrorMap
  <2>3. g = [errors |-> e, methods |-> h.methods, info |-> h.info]
    BY <1>3, <1>5, <2>1 DEF EntriesSet
  <2>4. g.errors = e /\ g.methods = h.methods /\ g.info = h.info /\ g \in Heap
    BY <1>1, <2>2, <2>3 DEF Heap
  <2>5. A!changed(o, deref(d, h)) = [deref(d, h) EXCEPT !.errors[o.key] = TRUE]
    BY <1>5 DEF A!changed
  <2>6. deref(d, g) = A!changed(o, deref(d, h))
    <3>1. PICK c : c = deref(d, h)
      OBVIOUS
    <3>2. c = [methods |-> h.methods[d.methods], info |-> h.info[d.info],
               errors |-> h.errors[d.errors], middlewares |-> d.middlewares,
               interceptors |-> d.interceptors, settings |-> d.settings]
      BY <3>1 DEF deref
    <3>3. [c EXCEPT !.errors[o.key] = TRUE] = [c EXCEPT !.errors = e[d.errors]]
      BY <2>2, <3>2
    <3>4. [c EXCEPT !.errors = e[d.errors]] =
             [methods |-> h.methods[d.methods], info |-> h.info[d.info],
              errors |-> e[d.errors], middlewares |-> d.middlewares,
              interceptors |-> d.interceptors, settings |-> d.settings]
      BY <3>2
    <3>. QED
      BY <2>4, <2>5, <3>1, <3>3, <3>4 DEF deref
  <2>. QED
    BY <2>2, <2>4, <2>6
<1>. QED
  BY <1>4, <1>5 DEF EntriesSet

(* What a change of fields does to a config. *)
LEMMA FieldsChanged ==
    ASSUME NEW h, NEW d \in ConfigIn(h), NEW o \in Ops, NEW c,
           \/ o.kind = "use" /\ c = [d EXCEPT !.middlewares = Append(@, o.value)]
           \/ o.kind = "interceptor" /\ c = [d EXCEPT !.interceptors = Append(@, o.value)]
           \/ o.kind = "setting" /\ c = [d EXCEPT !.settings[o.key] = o.value]
    PROVE  /\ c \in ConfigIn(h)
           /\ c.errors = d.errors /\ c.methods = d.methods /\ c.info = d.info
           /\ c.composed = d.composed
           /\ o.kind # "use" => c.middlewares = d.middlewares
           /\ deref(c, h) = A!changed(o, deref(d, h))
<1>1. o.value \in Values /\ (o.kind = "setting" => o.key \in Settings)
  BY OpFacts
<1>2. PICK g : g = deref(d, h)
  OBVIOUS
<1>3. g = [methods |-> h.methods[d.methods], info |-> h.info[d.info],
           errors |-> h.errors[d.errors], middlewares |-> d.middlewares,
           interceptors |-> d.interceptors, settings |-> d.settings]
  BY <1>2 DEF deref
<1>4. CASE o.kind = "use"
  <2>1. c = [d EXCEPT !.middlewares = Append(d.middlewares, o.value)]
    BY <1>4
  <2>2. Append(d.middlewares, o.value) \in Seq(Values)
    BY <1>1 DEF ConfigIn
  <2>3. PICK u \in Seq(Values) : u = Append(d.middlewares, o.value)
    BY <2>2
  <2>4. /\ c \in ConfigIn(h)
        /\ c.errors = d.errors /\ c.methods = d.methods /\ c.info = d.info
        /\ c.composed = d.composed /\ c.interceptors = d.interceptors
        /\ c.settings = d.settings /\ c.middlewares = u
    BY <2>1, <2>3 DEF ConfigIn
  <2>5. A!changed(o, g) = [g EXCEPT !.middlewares = u]
    BY <1>3, <1>4, <2>3 DEF A!changed
  <2>6. deref(c, h) = [g EXCEPT !.middlewares = u]
    BY <1>3, <2>4 DEF deref
  <2>. QED
    BY <1>2, <1>4, <2>4, <2>5, <2>6
<1>5. CASE o.kind = "interceptor"
  <2>1. c = [d EXCEPT !.interceptors = Append(d.interceptors, o.value)]
    BY <1>5
  <2>2. Append(d.interceptors, o.value) \in Seq(Values)
    BY <1>1 DEF ConfigIn
  <2>3. PICK u \in Seq(Values) : u = Append(d.interceptors, o.value)
    BY <2>2
  <2>4. /\ c \in ConfigIn(h)
        /\ c.errors = d.errors /\ c.methods = d.methods /\ c.info = d.info
        /\ c.composed = d.composed /\ c.middlewares = d.middlewares
        /\ c.settings = d.settings /\ c.interceptors = u
    BY <2>1, <2>3 DEF ConfigIn
  <2>5. A!changed(o, g) = [g EXCEPT !.interceptors = u]
    BY <1>3, <1>5, <2>3 DEF A!changed
  <2>6. deref(c, h) = [g EXCEPT !.interceptors = u]
    BY <1>3, <2>4 DEF deref
  <2>. QED
    BY <1>2, <2>4, <2>5, <2>6
<1>6. CASE o.kind = "setting"
  <2>1. c = [d EXCEPT !.settings = [d.settings EXCEPT ![o.key] = o.value]]
    BY <1>6
  <2>2. [d.settings EXCEPT ![o.key] = o.value] \in [Settings -> Values \cup {Default}]
    BY <1>1 DEF ConfigIn
  <2>3. PICK u \in [Settings -> Values \cup {Default}] :
           u = [d.settings EXCEPT ![o.key] = o.value]
    BY <2>2
  <2>4. /\ c \in ConfigIn(h)
        /\ c.errors = d.errors /\ c.methods = d.methods /\ c.info = d.info
        /\ c.composed = d.composed /\ c.middlewares = d.middlewares
        /\ c.interceptors = d.interceptors /\ c.settings = u
    BY <2>1, <2>3 DEF ConfigIn
  <2>5. A!changed(o, g) = [g EXCEPT !.settings = u]
    BY <1>3, <1>6, <2>3 DEF A!changed
  <2>6. deref(c, h) = [g EXCEPT !.settings = u]
    BY <1>3, <2>4 DEF deref
  <2>. QED
    BY <1>2, <2>4, <2>5, <2>6
<1>. QED
  BY <1>4, <1>5, <1>6

LEMMA MutateMapsStep ==
    ASSUME IInv, NEW w \in Writers, MutateMaps(w)
    PROVE  IInv' /\ Undisturbed
<1>. USE DEF IInv
<1>1. PICK o \in Ops : o = op[w]
  BY DEF TypeOK
<1>2. /\ heap \in Heap /\ cfg \in ConfigIn(heap)
      /\ next \in [Writers -> ConfigIn(heap)] /\ held \in [Readers -> ConfigIn(heap)]
      /\ \A c \in published : c \in ConfigIn(heap)
  BY TypeFacts
<1>3. PICK d \in ConfigIn(heap) : d = next[w]
  BY <1>2
<1>4. /\ pc[w] = "mutate" /\ ~refused(o, deref(d, heap))
      /\ UNCHANGED <<op, ask, cfg, lock, next, outcome, held, answer>>
      /\ goto(w, IF recomposes(o) THEN "compose" ELSE "store")
      /\ o.kind \in {"method", "error"}
  BY <1>1, <1>3 DEF MutateMaps
<1>5. EntriesSet(o, d, heap, heap')
  BY <1>1, <1>3 DEF MutateMaps, EntriesSet
<1>6. /\ heap' \in Heap
      /\ Len(heap'.errors) = Len(heap.errors) /\ Len(heap'.methods) = Len(heap.methods)
      /\ Len(heap'.info) = Len(heap.info)
      /\ \A k \in 1 .. Len(heap.errors) : k # d.errors => heap'.errors[k] = heap.errors[k]
      /\ \A k \in 1 .. Len(heap.methods) : k # d.methods => heap'.methods[k] = heap.methods[k]
      /\ \A k \in 1 .. Len(heap.info) : k # d.info => heap'.info[k] = heap.info[k]
      /\ deref(d, heap') = A!changed(o, deref(d, heap))
      /\ o.kind = "error" => heap'.methods = heap.methods
  <2>1. PICK h \in Heap : h = heap
    BY <1>2
  <2>2. PICK g : g = heap'
    OBVIOUS
  <2>3. EntriesSet(o, d, h, g)
    BY <1>5, <2>1, <2>2
  <2>4. d \in ConfigIn(h)
    BY <2>1
  <2>5. /\ g \in Heap
        /\ Len(g.errors) = Len(h.errors) /\ Len(g.methods) = Len(h.methods)
        /\ Len(g.info) = Len(h.info)
        /\ \A k \in 1 .. Len(h.errors) : k # d.errors => g.errors[k] = h.errors[k]
        /\ \A k \in 1 .. Len(h.methods) : k # d.methods => g.methods[k] = h.methods[k]
        /\ \A k \in 1 .. Len(h.info) : k # d.info => g.info[k] = h.info[k]
        /\ deref(d, g) = A!changed(o, deref(d, h))
        /\ o.kind = "error" => g.methods = h.methods
    BY <2>3, <2>4, MapsChanged
  <2>. QED
    BY <2>1, <2>2, <2>5
<1>7. ConfigIn(heap') = ConfigIn(heap)
  BY <1>6 DEF ConfigIn
<1>8. PICK l \in {"compose", "store"} : l = IF recomposes(o) THEN "compose" ELSE "store"
  OBVIOUS
<1>9. goto(w, l)
  BY <1>4, <1>8
<1>10. TypeOK'
  BY <1>2, <1>4, <1>6, <1>7, <1>9, TypesKept DEF TypeOK
<1>11. lock = w
  BY <1>4 DEF PlaceInv
<1>12. PlaceInv' /\ \A r \in Readers : pc'[r] = pc[r]
  BY <1>4, <1>8, <1>9, <1>11, WriterPlaces
<1>13. \A c \in published : Apart(d, c)
  BY <1>3, <1>4 DEF CloneInv
<1>14. Undisturbed
  <2>1. SUFFICES ASSUME NEW c \in published
                 PROVE  SameMaps(c, heap, heap')
    BY DEF Undisturbed
  <2>2. Apart(d, c) /\ c \in ConfigIn(heap)
    BY <1>2, <1>13
  <2>3. PICK h \in Heap : h = heap
    BY <1>2
  <2>4. PICK g : g = heap'
    OBVIOUS
  <2>5. SameMaps(c, h, g)
    BY <1>6, <2>2, <2>3, <2>4, OwnMaps
  <2>. QED
    BY <2>3, <2>4, <2>5
<1>15. StepInv' /\ AnswerInv'
  BY <1>4, <1>12, <1>14, SnapshotsKept
<1>16. pc'[w] = l
  BY <1>9 DEF goto, TypeOK
<1>17. published' = published
  BY <1>4 DEF published
<1>18. cfg \in published
  BY DEF published
<1>19. deref(cfg, heap') = deref(cfg, heap)
  BY <1>14, <1>18, SameMapsSameMeaning DEF Undisturbed
<1>20. deref(d, heap) = deref(cfg, heap) /\ d.composed = cfg.composed
  BY <1>3, <1>4 DEF ChangeInv
<1>21. Wrapped(cfg, heap)
  BY <1>18 DEF StepInv
<1>22. l = "store" => Wrapped(d, heap')
  <2>1. SUFFICES ASSUME l = "store"
                 PROVE  Wrapped(d, heap')
    OBVIOUS
  <2>2. o.kind = "error"
    BY <1>4, <1>8, <2>1 DEF recomposes
  <2>3. heap'.methods = heap.methods
    BY <1>6, <2>2
  <2>4. heap.methods[d.methods] = heap.methods[cfg.methods] /\ d.middlewares = cfg.middlewares
    BY <1>20 DEF deref
  <2>. QED
    BY <1>20, <1>21, <2>3, <2>4 DEF Wrapped
<1>23. l = "compose" => recomposes(o)
  BY <1>8
<1>24. next'[w] = d /\ op'[w] = o /\ cfg' = cfg
  BY <1>1, <1>3, <1>4
<1>25. CloneInv' /\ ChangeInv'
  <2>1. \A c \in published' : Apart(next'[w], c)
    BY <1>13, <1>17, <1>24
  <2>2. /\ ~refused(op'[w], deref(cfg', heap'))
        /\ deref(next'[w], heap') = A!changed(op'[w], deref(cfg', heap'))
    BY <1>4, <1>6, <1>19, <1>20, <1>24
  <2>3. lock' = w
    BY <1>4, <1>11
  <2>. QED
    BY <1>12, <1>16, <1>22, <1>23, <1>24, <2>1, <2>2, <2>3, OnlyItsClone
<1>. QED
  BY <1>10, <1>12, <1>14, <1>15, <1>25

LEMMA MutateFieldsStep ==
    ASSUME IInv, NEW w \in Writers, MutateFields(w)
    PROVE  IInv' /\ Undisturbed
<1>. USE DEF IInv
<1>1. PICK o \in Ops : o = op[w]
  BY DEF TypeOK
<1>2. /\ heap \in Heap /\ cfg \in ConfigIn(heap)
      /\ next \in [Writers -> ConfigIn(heap)] /\ held \in [Readers -> ConfigIn(heap)]
  BY TypeFacts
<1>3. PICK d \in ConfigIn(heap) : d = next[w]
  BY <1>2
<1>4. /\ pc[w] = "mutate"
      /\ UNCHANGED <<op, ask, heap, cfg, lock, outcome, held, answer>>
      /\ goto(w, IF recomposes(o) THEN "compose" ELSE "store")
      /\ o.kind \in {"use", "interceptor", "setting"}
  BY <1>1 DEF MutateFields
<1>5. PICK c : c = next'[w]
  OBVIOUS
<1>6. /\ next' = [next EXCEPT ![w] = c]
      /\ \/ o.kind = "use" /\ c = [d EXCEPT !.middlewares = Append(@, o.value)]
         \/ o.kind = "interceptor" /\ c = [d EXCEPT !.interceptors = Append(@, o.value)]
         \/ o.kind = "setting" /\ c = [d EXCEPT !.settings[o.key] = o.value]
  <2>1. CASE o.kind = "use"
    BY <1>1, <1>2, <1>3, <1>5, <2>1 DEF MutateFields
  <2>2. CASE o.kind = "interceptor"
    BY <1>1, <1>2, <1>3, <1>5, <2>2 DEF MutateFields
  <2>3. CASE o.kind = "setting"
    BY <1>1, <1>2, <1>3, <1>5, <2>3 DEF MutateFields
  <2>. QED
    BY <1>4, <2>1, <2>2, <2>3
<1>7. /\ c \in ConfigIn(heap)
      /\ c.errors = d.errors /\ c.methods = d.methods /\ c.info = d.info
      /\ c.composed = d.composed
      /\ o.kind # "use" => c.middlewares = d.middlewares
      /\ deref(c, heap) = A!changed(o, deref(d, heap))
  BY <1>6, FieldsChanged
<1>8. PICK l \in {"compose", "store"} : l = IF recomposes(o) THEN "compose" ELSE "store"
  OBVIOUS
<1>9. goto(w, l)
  BY <1>4, <1>8
<1>10. TypeOK'
  <2>1. next' \in [Writers -> ConfigIn(heap)]
    BY <1>2, <1>6, <1>7
  <2>. QED
    BY <1>2, <1>4, <1>9, <2>1, TypesKept DEF TypeOK
<1>11. lock = w
  BY <1>4 DEF PlaceInv
<1>12. PlaceInv' /\ \A r \in Readers : pc'[r] = pc[r]
  BY <1>4, <1>8, <1>9, <1>11, WriterPlaces
<1>13. Undisturbed
  BY <1>4, HeapKept
<1>14. StepInv' /\ AnswerInv'
  BY <1>4, <1>12, <1>13, SnapshotsKept
<1>15. pc'[w] = l
  BY <1>9 DEF goto, TypeOK
<1>16. \A x \in published' : Apart(c, x)
  BY <1>3, <1>4, <1>7 DEF CloneInv, Apart, published
<1>17. deref(d, heap) = deref(cfg, heap) /\ d.composed = cfg.composed
  BY <1>3, <1>4 DEF ChangeInv
<1>18. l = "store" => Wrapped(c, heap)
  <2>1. SUFFICES ASSUME l = "store"
                 PROVE  Wrapped(c, heap)
    OBVIOUS
  <2>2. c.middlewares = d.middlewares
    BY <1>7, <1>8, <2>1 DEF recomposes
  <2>3. Wrapped(cfg, heap)
    BY DEF StepInv, published
  <2>4. heap.methods[d.methods] = heap.methods[cfg.methods] /\ d.middlewares = cfg.middlewares
    BY <1>17 DEF deref
  <2>. QED
    BY <1>7, <1>17, <2>2, <2>3, <2>4 DEF Wrapped
<1>19. ~refused(o, deref(cfg, heap))
  BY <1>4 DEF refused
<1>20. CloneInv' /\ ChangeInv'
  <2>1. op'[w] = o /\ heap' = heap /\ cfg' = cfg /\ lock' = w
    BY <1>1, <1>4, <1>11
  <2>2. l = "compose" => recomposes(o)
    BY <1>8
  <2>. QED
    BY <1>5, <1>7, <1>12, <1>15, <1>16, <1>17, <1>18, <1>19, <2>1, <2>2, OnlyItsClone
<1>. QED
  BY <1>10, <1>12, <1>13, <1>14, <1>20

LEMMA ComposeNothingStep ==
    ASSUME IInv, NEW w \in Writers, ComposeNothing(w)
    PROVE  IInv' /\ Undisturbed
<1>. USE DEF IInv
<1>1. /\ heap \in Heap /\ cfg \in ConfigIn(heap)
      /\ next \in [Writers -> ConfigIn(heap)] /\ held \in [Readers -> ConfigIn(heap)]
  BY TypeFacts
<1>2. PICK d \in ConfigIn(heap) : d = next[w]
  BY <1>1
<1>3. PICK c : c = [d EXCEPT !.composed = d.methods]
  OBVIOUS
<1>4. /\ pc[w] = "compose" /\ d.middlewares = << >> /\ next' = [next EXCEPT ![w] = c]
      /\ goto(w, "store")
      /\ UNCHANGED <<op, ask, heap, cfg, lock, outcome, held, answer>>
  BY <1>2, <1>3 DEF ComposeNothing
<1>5. /\ c \in ConfigIn(heap) /\ c.composed = d.methods
      /\ c.errors = d.errors /\ c.methods = d.methods /\ c.info = d.info
      /\ c.middlewares = << >> /\ deref(c, heap) = deref(d, heap)
  BY <1>3, <1>4 DEF ConfigIn, deref
<1>6. TypeOK'
  <2>1. next' \in [Writers -> ConfigIn(heap)]
    BY <1>1, <1>4, <1>5
  <2>. QED
    BY <1>1, <1>4, <2>1, TypesKept DEF TypeOK
<1>7. lock = w
  BY <1>4 DEF PlaceInv
<1>8. PlaceInv' /\ \A r \in Readers : pc'[r] = pc[r]
  BY <1>4, <1>7, WriterPlaces
<1>9. Undisturbed
  BY <1>4, HeapKept
<1>10. StepInv' /\ AnswerInv'
  BY <1>4, <1>8, <1>9, SnapshotsKept
<1>11. pc'[w] = "store"
  BY <1>4 DEF goto, TypeOK
<1>12. \A x \in published' : Apart(c, x)
  BY <1>2, <1>4, <1>5 DEF CloneInv, Apart, published
<1>13. Wrapped(c, heap)
  <2>1. SUFFICES ASSUME NEW n \in Names
                 PROVE  heap.methods[d.methods][n] = A!chain(<< >>, heap.methods[d.methods][n])
    BY <1>5 DEF Wrapped
  <2>2. heap.methods[d.methods] \in MethodMap
    BY <1>1, MapsOf
  <2>3. heap.methods[d.methods][n] \in Seq(Values)
    BY <2>2 DEF MethodMap
  <2>4. PICK h \in Seq(Values) : h = heap.methods[d.methods][n]
    BY <2>3
  <2>5. << >> \o h = h
    OBVIOUS
  <2>. QED
    BY <2>4, <2>5 DEF A!chain
<1>14. ~refused(op[w], deref(cfg, heap)) /\ deref(d, heap) = A!changed(op[w], deref(cfg, heap))
  BY <1>2, <1>4 DEF ChangeInv
<1>15. CloneInv' /\ ChangeInv'
  <2>1. next'[w] = c /\ op' = op /\ cfg' = cfg /\ heap' = heap /\ lock' = w
    BY <1>1, <1>4, <1>7
  <2>. QED
    BY <1>5, <1>8, <1>11, <1>12, <1>13, <1>14, <2>1, OnlyItsClone
<1>. QED
  BY <1>6, <1>8, <1>9, <1>10, <1>15

LEMMA ComposeStep ==
    ASSUME IInv, NEW w \in Writers, Compose(w)
    PROVE  IInv' /\ Undisturbed
<1>. USE DEF IInv
<1>1. /\ heap \in Heap /\ cfg \in ConfigIn(heap)
      /\ next \in [Writers -> ConfigIn(heap)] /\ held \in [Readers -> ConfigIn(heap)]
      /\ \A c \in published : c \in ConfigIn(heap)
  BY TypeFacts
<1>2. PICK d \in ConfigIn(heap) : d = next[w]
  BY <1>1
<1>3. PICK m : m = [n \in Names |-> wrapped(d.middlewares, heap.methods[d.methods][n])]
  OBVIOUS
<1>4. PICK c : c = [d EXCEPT !.composed = Len(heap.methods) + 1]
  OBVIOUS
<1>5. /\ pc[w] = "compose" /\ goto(w, "store")
      /\ next' = [next EXCEPT ![w] = c]
      /\ heap' = [heap EXCEPT !.methods = Append(heap.methods, m)]
      /\ UNCHANGED <<op, ask, cfg, lock, outcome, held, answer>>
  BY <1>2, <1>3, <1>4 DEF Compose
<1>6. /\ heap.methods \in Seq(MethodMap) /\ heap.errors \in Seq(ErrorMap)
      /\ heap.info \in Seq(InfoMap)
      /\ heap.methods[d.methods] \in MethodMap /\ d.middlewares \in Seq(Values)
      /\ d.methods \in 1 .. Len(heap.methods)
  BY <1>1, MapsOf
<1>7. m \in MethodMap
  <2>1. SUFFICES ASSUME NEW n \in Names
                 PROVE  wrapped(d.middlewares, heap.methods[d.methods][n]) \in Seq(Values)
    BY <1>3 DEF MethodMap
  <2>2. PICK h \in Seq(Values) : h = heap.methods[d.methods][n]
    BY <1>6 DEF MethodMap
  <2>3. PICK u \in Seq(Values) : u = d.middlewares
    BY <1>6
  <2>4. u \o h \in Seq(Values) /\ << >> \in Seq(Values)
    OBVIOUS
  <2>. QED
    BY <2>2, <2>3, <2>4 DEF wrapped
<1>8. /\ heap'.methods = Append(heap.methods, m) /\ heap'.errors = heap.errors
      /\ heap'.info = heap.info
      /\ heap' = [errors |-> heap'.errors, methods |-> heap'.methods, info |-> heap'.info]
  BY <1>1, <1>5 DEF Heap
<1>9. /\ heap'.methods \in Seq(MethodMap) /\ Len(heap'.methods) = Len(heap.methods) + 1
      /\ heap'.methods[Len(heap.methods) + 1] = m
      /\ \A k \in 1 .. Len(heap.methods) :
            heap'.methods[k] = heap.methods[k] /\ k # Len(heap.methods) + 1
  BY <1>6, <1>7, <1>8, Appended
<1>10. heap' \in Heap
  BY <1>6, <1>8, <1>9 DEF Heap
<1>11. Len(heap.errors) \in Nat /\ Len(heap.methods) \in Nat /\ Len(heap.info) \in Nat
  BY <1>6
<1>12. ConfigIn(heap) \subseteq ConfigIn(heap')
  <2>1. /\ Len(heap.errors) <= Len(heap'.errors) /\ Len(heap.methods) <= Len(heap'.methods)
        /\ Len(heap.info) <= Len(heap'.info)
    BY <1>8, <1>9, <1>11
  <2>2. PICK h \in Heap : h = heap
    BY <1>1
  <2>3. PICK g \in Heap : g = heap'
    BY <1>10
  <2>. QED
    BY <2>1, <2>2, <2>3, ConfigsRemain
<1>13. /\ c \in ConfigIn(heap') /\ c.composed = Len(heap.methods) + 1
       /\ c.errors = d.errors /\ c.methods = d.methods /\ c.info = d.info
       /\ c.middlewares = d.middlewares /\ c.interceptors = d.interceptors
       /\ c.settings = d.settings
  <2>1. d \in ConfigIn(heap')
    BY <1>12
  <2>2. Len(heap.methods) + 1 \in 1 .. Len(heap'.methods)
    BY <1>9, <1>11
  <2>. QED
    BY <1>4, <2>1, <2>2 DEF ConfigIn
<1>14. TypeOK'
  <2>1. next' \in [Writers -> ConfigIn(heap')]
    BY <1>1, <1>5, <1>12, <1>13
  <2>2. cfg' \in ConfigIn(heap') /\ held' \in [Readers -> ConfigIn(heap')]
    BY <1>1, <1>5, <1>12
  <2>. QED
    BY <1>5, <1>10, <2>1, <2>2, TypesKept DEF TypeOK
<1>15. lock = w
  BY <1>5 DEF PlaceInv
<1>16. PlaceInv' /\ \A r \in Readers : pc'[r] = pc[r]
  BY <1>5, <1>15, WriterPlaces
<1>17. Undisturbed
  BY <1>1, <1>8, <1>9, MapsOf DEF Undisturbed, SameMaps
<1>18. StepInv' /\ AnswerInv'
  BY <1>5, <1>16, <1>17, SnapshotsKept
<1>19. pc'[w] = "store"
  BY <1>5 DEF goto, TypeOK
<1>20. \A x \in published' : Apart(c, x)
  BY <1>2, <1>5, <1>13 DEF CloneInv, Apart, published
<1>21. Wrapped(c, heap')
  <2>1. heap'.methods[d.methods] = heap.methods[d.methods]
    BY <1>6, <1>9
  <2>2. \A n \in Names : m[n] = A!chain(d.middlewares, heap.methods[d.methods][n])
    BY <1>3 DEF A!chain, wrapped
  <2>. QED
    BY <1>9, <1>13, <2>1, <2>2 DEF Wrapped
<1>22. ~refused(op[w], deref(cfg, heap)) /\ deref(d, heap) = A!changed(op[w], deref(cfg, heap))
  BY <1>2, <1>5 DEF ChangeInv
<1>23. deref(cfg, heap') = deref(cfg, heap)
  BY <1>17, SameMapsSameMeaning DEF Undisturbed, published
<1>24. deref(c, heap') = deref(d, heap)
  BY <1>6, <1>8, <1>9, <1>13 DEF deref
<1>25. CloneInv' /\ ChangeInv'
  <2>1. next'[w] = c /\ op' = op /\ cfg' = cfg /\ lock' = w
    BY <1>1, <1>5, <1>15
  <2>. QED
    BY <1>16, <1>19, <1>20, <1>21, <1>22, <1>23, <1>24, <2>1, OnlyItsClone
<1>. QED
  BY <1>14, <1>16, <1>17, <1>18, <1>25

(* A change keeps the methods and their info in lockstep. *)
LEMMA LockstepChanged ==
    ASSUME NEW h \in Heap, NEW c \in ConfigIn(h), NEW d \in ConfigIn(h), NEW o \in Ops,
           Lockstep(c, h), deref(d, h) = A!changed(o, deref(c, h))
    PROVE  Lockstep(d, h)
<1>1. /\ o.value \in Values /\ o.value # Default /\ o.kind \in Kinds
      /\ o.kind = "method" => o.key \in Names
  BY OpFacts, ValuesAssumption
<1>2. h.methods[c.methods] \in MethodMap /\ h.info[c.info] \in InfoMap
  BY MapsOf
<1>3. PICK g : g = deref(c, h)
  OBVIOUS
<1>4. g.methods = h.methods[c.methods] /\ g.info = h.info[c.info]
      /\ DOMAIN g = {"methods", "info", "errors", "middlewares", "interceptors", "settings"}
  BY <1>3 DEF deref
<1>5. PICK e : e = A!changed(o, g)
  OBVIOUS
<1>6. h.methods[d.methods] = e.methods /\ h.info[d.info] = e.info
  BY <1>3, <1>5 DEF deref
<1>7. CASE o.kind = "method"
  <2>1. e = [g EXCEPT !.methods[o.key] = <<o.value>>, !.info[o.key] = o.value]
    BY <1>5, <1>7 DEF A!changed
  <2>2. e.methods = [g.methods EXCEPT ![o.key] = <<o.value>>]
    BY <1>4, <2>1
  <2>3. e.info = [g.info EXCEPT ![o.key] = o.value]
    BY <1>4, <2>1
  <2>4. <<o.value>> # << >>
    OBVIOUS
  <2>5. SUFFICES ASSUME NEW n \in Names
                 PROVE  e.methods[n] # << >> <=> e.info[n] # Default
    BY <1>6 DEF Lockstep
  <2>6. CASE n = o.key
    BY <1>1, <1>2, <1>4, <2>2, <2>3, <2>4, <2>6 DEF MethodMap, InfoMap
  <2>7. CASE n # o.key
    BY <1>2, <1>4, <2>2, <2>3, <2>7 DEF MethodMap, InfoMap, Lockstep
  <2>. QED
    BY <2>6, <2>7
<1>8. CASE o.kind # "method"
  <2>1. e.methods = g.methods /\ e.info = g.info
    <3>1. CASE o.kind = "error"
      BY <1>4, <1>5, <3>1 DEF A!changed
    <3>2. CASE o.kind = "use"
      BY <1>4, <1>5, <3>2 DEF A!changed
    <3>3. CASE o.kind = "interceptor"
      BY <1>4, <1>5, <3>3 DEF A!changed
    <3>4. CASE o.kind = "setting"
      BY <1>4, <1>5, <3>4 DEF A!changed
    <3>. QED
      BY <1>1, <1>8, <3>1, <3>2, <3>3, <3>4 DEF Kinds
  <2>. QED
    BY <1>4, <1>6, <2>1 DEF Lockstep
<1>. QED
  BY <1>7, <1>8

LEMMA StoreStep ==
    ASSUME IInv, NEW w \in Writers, Store(w)
    PROVE  IInv' /\ Undisturbed
<1>. USE DEF IInv
<1>1. /\ heap \in Heap /\ cfg \in ConfigIn(heap)
      /\ next \in [Writers -> ConfigIn(heap)] /\ held \in [Readers -> ConfigIn(heap)]
  BY TypeFacts
<1>2. /\ pc[w] = "store" /\ cfg' = next[w] /\ lock' = Nobody /\ goto(w, "done")
      /\ outcome' = [outcome EXCEPT ![w] = "ok"]
      /\ UNCHANGED <<op, ask, heap, next, held, answer>>
  BY DEF Store, leave
<1>3. TypeOK'
  <2>1. outcome' \in [Writers -> {"pending", "ok", "error", "panic"}]
    BY <1>2 DEF TypeOK
  <2>2. cfg' \in ConfigIn(heap)
    BY <1>1, <1>2
  <2>. QED
    BY <1>1, <1>2, <2>1, <2>2, TypesKept DEF TypeOK
<1>4. lock = w
  BY <1>2 DEF PlaceInv
<1>5. PlaceInv' /\ \A r \in Readers : pc'[r] = pc[r]
  BY <1>2, <1>4, WriterPlaces
<1>6. Undisturbed
  BY <1>2, HeapKept
<1>7. Wrapped(next[w], heap)
  BY <1>2 DEF ChangeInv
<1>8. Lockstep(next[w], heap)
  <2>1. deref(next[w], heap) = A!changed(op[w], deref(cfg, heap))
    BY <1>2 DEF ChangeInv
  <2>2. Lockstep(cfg, heap)
    BY DEF StepInv, published
  <2>3. op[w] \in Ops /\ next[w] \in ConfigIn(heap)
    BY <1>1 DEF TypeOK
  <2>. QED
    BY <1>1, <2>1, <2>2, <2>3, LockstepChanged
<1>9. StepInv'
  <2>1. \A c \in published' : c \in published \/ c = next[w]
    BY <1>2 DEF published
  <2>. QED
    BY <1>2, <1>7, <1>8, <2>1 DEF StepInv
<1>10. AnswerInv'
  BY <1>2, <1>5 DEF AnswerInv
<1>11. CloneInv' /\ ChangeInv'
  BY <1>2, <1>5, NoClone, ThreadsAssumption
<1>. QED
  BY <1>3, <1>5, <1>6, <1>9, <1>10, <1>11

(***************************************************************************)
(* Requests.                                                               *)
(***************************************************************************)

(* The goroutines of a request's step. *)
LEMMA ReaderPlaces ==
    ASSUME TypeOK, PlaceInv, NEW r \in Readers, NEW l \in {"info", "method", "error", "done"},
           goto(r, l), UNCHANGED <<lock, outcome>>
    PROVE  /\ PlaceInv' /\ pc'[r] = l
           /\ \A w \in Writers : pc'[w] = pc[w]
           /\ \A q \in Readers : q # r => pc'[q] = pc[q]
<1>1. /\ pc'[r] = l
      /\ \A w \in Writers : w # r /\ pc'[w] = pc[w]
      /\ \A q \in Readers : q # r => pc'[q] = pc[q]
  BY ThreadsAssumption DEF goto, TypeOK
<1>. QED
  BY <1>1 DEF PlaceInv

(* A request's step does not disturb the writers. *)
LEMMA ReaderStep ==
    ASSUME CloneInv, StepInv, ChangeInv, published' \subseteq published,
           \A w \in Writers : pc'[w] = pc[w], UNCHANGED <<op, heap, cfg, next>>
    PROVE  CloneInv' /\ StepInv' /\ ChangeInv' /\ Undisturbed
<1>1. CloneInv'
  BY DEF CloneInv
<1>2. StepInv'
  BY DEF StepInv
<1>3. ChangeInv'
  BY DEF ChangeInv
<1>. QED
  BY <1>1, <1>2, <1>3, HeapKept

(* What a request reads in its snapshot. *)
LEMMA ReadTypes ==
    ASSUME TypeOK, NEW r \in Readers
    PROVE  /\ heap.info[held[r].info][ask[r].name] \in Values \cup {Default}
           /\ heap.methods[held[r].composed][ask[r].name] \in Seq(Values)
           /\ heap.errors[held[r].errors][ask[r].code] \in BOOLEAN
<1>1. heap \in Heap /\ held[r] \in ConfigIn(heap)
  BY TypeFacts
<1>2. PICK c \in ConfigIn(heap) : c = held[r]
  BY <1>1
<1>3. /\ heap.errors[c.errors] \in ErrorMap /\ heap.methods[c.composed] \in MethodMap
      /\ heap.info[c.info] \in InfoMap
  BY <1>1, MapsOf
<1>4. ask[r].name \in Names /\ ask[r].code \in Codes
  BY DEF TypeOK
<1>. QED
  BY <1>2, <1>3, <1>4 DEF ErrorMap, MethodMap, InfoMap

LEMMA LoadStep ==
    ASSUME IInv, NEW r \in Readers, Load(r)
    PROVE  IInv' /\ Undisturbed
<1>. USE DEF IInv
<1>1. /\ heap \in Heap /\ cfg \in ConfigIn(heap)
      /\ next \in [Writers -> ConfigIn(heap)] /\ held \in [Readers -> ConfigIn(heap)]
  BY TypeFacts
<1>2. /\ pc[r] = "start" /\ held' = [held EXCEPT ![r] = cfg] /\ goto(r, "info")
      /\ UNCHANGED <<op, ask, heap, cfg, lock, next, outcome, answer>>
  BY DEF Load
<1>3. TypeOK'
  <2>1. held' \in [Readers -> ConfigIn(heap)]
    BY <1>1, <1>2
  <2>. QED
    BY <1>1, <1>2, <2>1, TypesKept DEF TypeOK
<1>4. /\ PlaceInv' /\ pc'[r] = "info"
      /\ \A w \in Writers : pc'[w] = pc[w]
      /\ \A q \in Readers : q # r => pc'[q] = pc[q]
  BY <1>2, ReaderPlaces
<1>5. held'[r] = cfg /\ \A q \in Readers : q # r => held'[q] = held[q]
  BY <1>1, <1>2
<1>6. published' \subseteq published
  BY <1>2, <1>5 DEF published
<1>7. CloneInv' /\ StepInv' /\ ChangeInv' /\ Undisturbed
  BY <1>2, <1>4, <1>6, ReaderStep
<1>8. AnswerInv'
  BY <1>2, <1>4, <1>5 DEF AnswerInv
<1>. QED
  BY <1>3, <1>4, <1>7, <1>8

(* A lookup only adds to the answer. *)
LEMMA LookupStep ==
    ASSUME IInv, NEW r \in Readers, NEW l \in {"method", "error", "done"}, goto(r, l),
           NEW a \in [given: BOOLEAN, info: Values \cup {Default},
                      chain: Seq(Values), known: BOOLEAN],
           answer' = [answer EXCEPT ![r] = a],
           UNCHANGED <<op, ask, heap, cfg, lock, next, outcome, held>>,
           a.given <=> l = "done",
           a.info = heap.info[held[r].info][ask[r].name],
           l \in {"error", "done"} => a.chain = heap.methods[held[r].composed][ask[r].name],
           l = "done" => a.known = heap.errors[held[r].errors][ask[r].code]
    PROVE  IInv' /\ Undisturbed
<1>. USE DEF IInv
<1>1. TypeOK'
  <2>1. answer' \in [Readers -> [given: BOOLEAN, info: Values \cup {Default},
                                 chain: Seq(Values), known: BOOLEAN]]
    BY DEF TypeOK
  <2>. QED
    <3>1. /\ heap' \in Heap /\ cfg' \in ConfigIn(heap')
          /\ next' \in [Writers -> ConfigIn(heap')] /\ held' \in [Readers -> ConfigIn(heap')]
      BY TypeFacts
    <3>2. /\ lock' \in Writers \cup {Nobody}
          /\ outcome' \in [Writers -> {"pending", "ok", "error", "panic"}]
      BY DEF TypeOK
    <3>. QED
      BY <2>1, <3>1, <3>2, TypesKept
<1>2. /\ PlaceInv' /\ pc'[r] = l
      /\ \A w \in Writers : pc'[w] = pc[w]
      /\ \A q \in Readers : q # r => pc'[q] = pc[q]
  BY ReaderPlaces
<1>3. published' = published
  BY DEF published
<1>4. CloneInv' /\ StepInv' /\ ChangeInv' /\ Undisturbed
  BY <1>2, <1>3, ReaderStep
<1>5. answer'[r] = a /\ \A q \in Readers : q # r => answer'[q] = answer[q]
  BY DEF TypeOK
<1>6. AnswerInv'
  <2>1. SUFFICES ASSUME NEW q \in Readers
                 PROVE  /\ answer'[q].given <=> pc'[q] = "done"
                        /\ pc'[q] \in {"start", "info"} => answer'[q] = NoAnswer
                        /\ pc'[q] \in {"method", "error", "done"} =>
                              answer'[q].info = heap.info[held[q].info][ask[q].name]
                        /\ pc'[q] \in {"error", "done"} =>
                              answer'[q].chain = heap.methods[held[q].composed][ask[q].name]
                        /\ pc'[q] = "done" =>
                              answer'[q].known = heap.errors[held[q].errors][ask[q].code]
    BY DEF AnswerInv
  <2>2. CASE q = r
    BY <1>2, <1>5, <2>2
  <2>3. CASE q # r
    BY <1>2, <1>5, <2>3 DEF AnswerInv
  <2>. QED
    BY <2>2, <2>3
<1>. QED
  BY <1>1, <1>2, <1>4, <1>6

LEMMA LookupInfoStep ==
    ASSUME IInv, NEW r \in Readers, LookupInfo(r)
    PROVE  IInv' /\ Undisturbed
<1>. USE DEF IInv
<1>1. PICK v \in Values \cup {Default} : v = heap.info[held[r].info][ask[r].name]
  BY ReadTypes
<1>2. PICK a : a = [answer[r] EXCEPT !.info = v]
  OBVIOUS
<1>3. answer[r] = NoAnswer /\ pc[r] = "info"
  BY DEF LookupInfo, AnswerInv
<1>4. /\ a.given = FALSE /\ a.info = v
      /\ a \in [given: BOOLEAN, info: Values \cup {Default},
                chain: Seq(Values), known: BOOLEAN]
  <2>1. answer[r] \in [given: BOOLEAN, info: Values \cup {Default},
                       chain: Seq(Values), known: BOOLEAN]
    BY DEF TypeOK
  <2>2. answer[r].given = FALSE
    BY <1>3 DEF NoAnswer
  <2>. QED
    BY <1>2, <2>1, <2>2
<1>5. /\ answer' = [answer EXCEPT ![r] = a] /\ goto(r, "method")
      /\ UNCHANGED <<op, ask, heap, cfg, lock, next, outcome, held>>
  BY <1>1, <1>2 DEF LookupInfo
<1>. QED
  BY <1>1, <1>4, <1>5, LookupStep

LEMMA LookupMethodStep ==
    ASSUME IInv, NEW r \in Readers, LookupMethod(r)
    PROVE  IInv' /\ Undisturbed
<1>. USE DEF IInv
<1>1. PICK v \in Seq(Values) : v = heap.methods[held[r].composed][ask[r].name]
  BY ReadTypes
<1>2. PICK a : a = [answer[r] EXCEPT !.chain = v]
  OBVIOUS
<1>3. /\ pc[r] = "method" /\ ~answer[r].given
      /\ answer[r].info = heap.info[held[r].info][ask[r].name]
      /\ answer[r] \in [given: BOOLEAN, info: Values \cup {Default},
                        chain: Seq(Values), known: BOOLEAN]
  BY DEF LookupMethod, AnswerInv, TypeOK
<1>4. /\ ~a.given /\ a.info = answer[r].info /\ a.chain = v
      /\ a \in [given: BOOLEAN, info: Values \cup {Default},
                chain: Seq(Values), known: BOOLEAN]
  BY <1>2, <1>3
<1>5. /\ answer' = [answer EXCEPT ![r] = a] /\ goto(r, "error")
      /\ UNCHANGED <<op, ask, heap, cfg, lock, next, outcome, held>>
  BY <1>1, <1>2 DEF LookupMethod
<1>. QED
  BY <1>1, <1>3, <1>4, <1>5, LookupStep

LEMMA LookupErrorStep ==
    ASSUME IInv, NEW r \in Readers, LookupError(r)
    PROVE  IInv' /\ Undisturbed
<1>. USE DEF IInv
<1>1. PICK v \in BOOLEAN : v = heap.errors[held[r].errors][ask[r].code]
  BY ReadTypes
<1>2. PICK a : a = [answer[r] EXCEPT !.known = v, !.given = TRUE]
  OBVIOUS
<1>3. /\ pc[r] = "error"
      /\ answer[r].info = heap.info[held[r].info][ask[r].name]
      /\ answer[r].chain = heap.methods[held[r].composed][ask[r].name]
      /\ answer[r] \in [given: BOOLEAN, info: Values \cup {Default},
                        chain: Seq(Values), known: BOOLEAN]
  BY DEF LookupError, AnswerInv, TypeOK
<1>4. /\ a.given /\ a.info = answer[r].info /\ a.chain = answer[r].chain /\ a.known = v
      /\ a \in [given: BOOLEAN, info: Values \cup {Default},
                chain: Seq(Values), known: BOOLEAN]
  BY <1>2, <1>3
<1>5. /\ answer' = [answer EXCEPT ![r] = a] /\ goto(r, "done")
      /\ UNCHANGED <<op, ask, heap, cfg, lock, next, outcome, held>>
  BY <1>1, <1>2 DEF LookupError
<1>. QED
  BY <1>1, <1>3, <1>4, <1>5, LookupStep

(***************************************************************************)
(* The invariant.                                                          *)
(***************************************************************************)
LEMMA InitInv == Init => IInv
<1>. SUFFICES ASSUME Init PROVE IInv
  OBVIOUS
<1>1. /\ heap = InitialHeap /\ cfg = InitialConfig /\ lock = Nobody
      /\ pc = [t \in Writers \cup Readers |-> "start"]
      /\ outcome = [w \in Writers |-> "pending"]
      /\ next = [w \in Writers |-> InitialConfig]
      /\ held = [r \in Readers |-> InitialConfig]
      /\ answer = [r \in Readers |-> NoAnswer]
  BY DEF Init
<1>2. /\ heap.errors = << Initial.errors >>
      /\ heap.methods = << Initial.methods, Initial.methods >>
      /\ heap.info = << Initial.info >>
      /\ heap = [errors |-> heap.errors, methods |-> heap.methods, info |-> heap.info]
  BY <1>1 DEF InitialHeap
<1>3. /\ Initial.errors \in ErrorMap /\ Initial.methods \in MethodMap
      /\ Initial.info \in InfoMap
      /\ Initial.settings \in [Settings -> Values \cup {Default}]
  <2>1. << >> \in Seq(Values)
    OBVIOUS
  <2>. QED
    BY <2>1 DEF Initial, ErrorMap, MethodMap, InfoMap
<1>4. /\ heap.errors \in Seq(ErrorMap) /\ Len(heap.errors) = 1
      /\ heap.methods \in Seq(MethodMap) /\ Len(heap.methods) = 2
      /\ heap.info \in Seq(InfoMap) /\ Len(heap.info) = 1
      /\ heap.methods[1] = Initial.methods /\ heap.methods[2] = Initial.methods
      /\ heap.info[1] = Initial.info
  <2>1. PICK e \in ErrorMap : e = Initial.errors
    BY <1>3
  <2>2. PICK m \in MethodMap : m = Initial.methods
    BY <1>3
  <2>3. PICK i \in InfoMap : i = Initial.info
    BY <1>3
  <2>. QED
    BY <1>2, <2>1, <2>2, <2>3
<1>5. heap \in Heap
  BY <1>2, <1>4 DEF Heap
<1>6. InitialConfig \in ConfigIn(heap)
  <2>1. << >> \in Seq(Values)
    OBVIOUS
  <2>2. 1 \in 1 .. Len(heap.errors) /\ 1 \in 1 .. Len(heap.methods)
        /\ 2 \in 1 .. Len(heap.methods) /\ 1 \in 1 .. Len(heap.info)
    BY <1>4
  <2>. QED
    BY <1>3, <2>1, <2>2 DEF InitialConfig, ConfigIn
<1>7. TypeOK
  <2>1. NoAnswer \in [given: BOOLEAN, info: Values \cup {Default},
                      chain: Seq(Values), known: BOOLEAN]
    <3>1. << >> \in Seq(Values)
      OBVIOUS
    <3>. QED
      BY <3>1 DEF NoAnswer
  <2>2. /\ next \in [Writers -> ConfigIn(heap)] /\ held \in [Readers -> ConfigIn(heap)]
        /\ cfg \in ConfigIn(heap)
    BY <1>1, <1>6
  <2>. QED
    BY <1>1, <1>5, <2>1, <2>2
       DEF Init, TypeOK, Config, ConfigIn, Heap, ErrorMap, MethodMap, InfoMap
<1>8. PlaceInv
  BY <1>1, ThreadsAssumption DEF PlaceInv
<1>9. CloneInv /\ ChangeInv
  BY <1>1 DEF CloneInv, ChangeInv
<1>10. StepInv
  <2>1. \A c \in published : c = InitialConfig
    BY <1>1 DEF published
  <2>2. Wrapped(InitialConfig, heap)
    BY <1>4 DEF Wrapped, InitialConfig, Initial, A!chain
  <2>3. Lockstep(InitialConfig, heap)
    BY <1>4 DEF Lockstep, InitialConfig, Initial
  <2>. QED
    BY <2>1, <2>2, <2>3 DEF StepInv
<1>11. AnswerInv
  BY <1>1, ThreadsAssumption DEF AnswerInv, NoAnswer
<1>. QED
  BY <1>7, <1>8, <1>9, <1>10, <1>11 DEF IInv

LEMMA StutterStep ==
    ASSUME IInv, UNCHANGED vars
    PROVE  IInv' /\ Undisturbed
<1>. USE DEF IInv
<1>1. UNCHANGED <<op, ask, heap, cfg, lock, pc, next, outcome, held, answer>>
  BY DEF vars
<1>2. TypeOK'
  BY <1>1 DEF TypeOK, Config
<1>3. published' = published
  BY <1>1 DEF published
<1>4. PlaceInv'
  BY <1>1 DEF PlaceInv
<1>5. CloneInv' /\ StepInv' /\ ChangeInv' /\ Undisturbed
  BY <1>1, <1>3, ReaderStep
<1>6. AnswerInv'
  BY <1>1 DEF AnswerInv
<1>. QED
  BY <1>2, <1>4, <1>5, <1>6

LEMMA NextInv ==
    ASSUME IInv, [Next]_vars
    PROVE  IInv' /\ Undisturbed
<1>1. CASE \E w \in Writers : update(w)
  <2>1. PICK w \in Writers : update(w)
    BY <1>1
  <2>. QED
    BY <2>1, AcquireStep, CloneStep, MutateRefusesStep, MutateMapsStep, MutateFieldsStep,
       ComposeNothingStep, ComposeStep, ComposePanicsStep, StoreStep DEF update
<1>2. CASE \E r \in Readers : Load(r) \/ LookupInfo(r) \/ LookupMethod(r) \/ LookupError(r)
  BY <1>2, LoadStep, LookupInfoStep, LookupMethodStep, LookupErrorStep
<1>3. CASE Done \/ UNCHANGED vars
  BY <1>3, StutterStep DEF Done
<1>. QED
  BY <1>1, <1>2, <1>3 DEF Next

(* The snapshots and clones of a JSONRPC value are what IInv says.         *)
THEOREM RegistryInvariant == Spec => []IInv
<1>1. IInv /\ [Next]_vars => IInv'
  BY NextInv
<1>. QED
  BY InitInv, <1>1, PTL DEF Spec

(* registerMethod and compose keep the published dispatch map in step with *)
(* the methods, their middleware and their info.                           *)
THEOREM RegistryComposedInStep == Spec => []ComposedInStep
<1>1. IInv => ComposedInStep
  BY DEF IInv, StepInv, published, Wrapped, Lockstep, ComposedInStep
<1>. QED
  BY <1>1, RegistryInvariant, PTL

(* No step of any writer changes a map that the published snapshot or the  *)
(* snapshot of a request refers to.                                        *)
THEOREM RegistrySnapshotsAreImmutable == Spec => SnapshotsAreImmutable
<1>1. IInv /\ [Next]_vars =>
         [\A c \in published :
            /\ heap'.errors[c.errors] = heap.errors[c.errors]
            /\ heap'.methods[c.methods] = heap.methods[c.methods]
            /\ heap'.methods[c.composed] = heap.methods[c.composed]
            /\ heap'.info[c.info] = heap.info[c.info]]_vars
  BY NextInv DEF Undisturbed, SameMaps
<1>. QED
  BY <1>1, RegistryInvariant, PTL DEF Spec, SnapshotsAreImmutable

(***************************************************************************)
(* The refinement: Store is Change, MutateRefuses is Refuse, ComposePanics *)
(* is FactoryPanics, Load is Load and LookupError is Answer; every other   *)
(* step is a stutter of RegistrySpec.                                      *)
(***************************************************************************)

(* The mapped variables. *)
Reg == deref(cfg, heap)
Snap == [r \in Readers |-> IF pc[r] = "start" THEN NotLoaded
                           ELSE [loaded |-> TRUE, reg |-> deref(held[r], heap)]]
Answers == [r \in Readers |-> IF answer[r].given THEN answer[r] ELSE NoAnswer]

(* What a step that does not disturb the snapshots leaves alone. *)
LEMMA SnapKept ==
    ASSUME Undisturbed, held' = held,
           \A r \in Readers : pc'[r] = "start" <=> pc[r] = "start"
    PROVE  Snap' = Snap
<1>1. \A r \in Readers : deref(held[r], heap') = deref(held[r], heap)
  BY SameMapsSameMeaning DEF Undisturbed, published
<1>. QED
  BY <1>1 DEF Snap

LEMMA RegKept ==
    ASSUME Undisturbed, cfg' = cfg
    PROVE  Reg' = Reg
BY SameMapsSameMeaning DEF Undisturbed, published, Reg

(* A writer's step before it publishes or fails. *)
LEMMA WriterStutters ==
    ASSUME Undisturbed, TypeOK, NEW w \in Writers, NEW l, goto(w, l),
           UNCHANGED <<op, ask, cfg, outcome, held, answer>>
    PROVE  UNCHANGED A!vars
<1>1. \A r \in Readers : pc'[r] = pc[r]
  BY ThreadsAssumption DEF goto, TypeOK
<1>2. Reg' = Reg /\ Snap' = Snap /\ Answers' = Answers
  BY <1>1, RegKept, SnapKept DEF Answers
<1>. QED
  BY <1>2 DEF A!vars, Reg, Snap, Answers

(* A writer's last step. *)
LEMMA WriterLeaves ==
    ASSUME IInv, Undisturbed, NEW w \in Writers, NEW o, leave(w, o), pc[w] \in Locked,
           UNCHANGED <<op, ask, held, answer>>
    PROVE  /\ outcome[w] = "pending" /\ outcome' = [outcome EXCEPT ![w] = o]
           /\ Snap' = Snap /\ Answers' = Answers
<1>1. \A r \in Readers : pc'[r] = pc[r]
  BY ThreadsAssumption DEF leave, goto, TypeOK, IInv
<1>2. outcome[w] = "pending"
  BY DEF IInv, PlaceInv, Locked
<1>. QED
  BY <1>1, <1>2, SnapKept DEF Answers, leave

LEMMA RefuseImplemented ==
    ASSUME IInv, Undisturbed, NEW w \in Writers, MutateRefuses(w)
    PROVE  A!Refuse(w)
<1>1. /\ outcome[w] = "pending" /\ outcome' = [outcome EXCEPT ![w] = "error"]
      /\ Snap' = Snap /\ Answers' = Answers
  BY WriterLeaves DEF MutateRefuses, Locked
<1>2. UNCHANGED <<op, ask, cfg>> /\ Reg' = Reg
  BY RegKept DEF MutateRefuses
<1>3. refused(op[w], Reg)
  BY DEF MutateRefuses, IInv, ChangeInv, Reg
<1>4. A!refused(op[w], deref(cfg, heap)) /\ UNCHANGED deref(cfg, heap)
  BY <1>2, <1>3 DEF Reg, refused, A!refused
<1>5. UNCHANGED [r \in Readers |->
                    IF pc[r] = "start" THEN NotLoaded
                    ELSE [loaded |-> TRUE, reg |-> deref(held[r], heap)]]
  BY <1>1 DEF Snap
<1>6. UNCHANGED [r \in Readers |-> IF answer[r].given THEN answer[r] ELSE NoAnswer]
  BY <1>1 DEF Answers
<1>. QED
  BY <1>1, <1>2, <1>4, <1>5, <1>6 DEF A!Refuse

LEMMA PanicImplemented ==
    ASSUME IInv, Undisturbed, NEW w \in Writers, ComposePanics(w)
    PROVE  A!FactoryPanics(w)
<1>1. /\ outcome[w] = "pending" /\ outcome' = [outcome EXCEPT ![w] = "panic"]
      /\ Snap' = Snap /\ Answers' = Answers
  BY WriterLeaves DEF ComposePanics, Locked
<1>2. UNCHANGED <<op, ask, cfg>> /\ Reg' = Reg
  BY RegKept DEF ComposePanics
<1>3. ~refused(op[w], Reg) /\ recomposes(op[w])
  BY DEF ComposePanics, IInv, ChangeInv, Reg
<1>4. /\ ~A!refused(op[w], deref(cfg, heap)) /\ A!recomposes(op[w])
      /\ UNCHANGED deref(cfg, heap)
  BY <1>2, <1>3 DEF Reg, refused, A!refused, recomposes, A!recomposes
<1>5. UNCHANGED [r \in Readers |->
                    IF pc[r] = "start" THEN NotLoaded
                    ELSE [loaded |-> TRUE, reg |-> deref(held[r], heap)]]
  BY <1>1 DEF Snap
<1>6. UNCHANGED [r \in Readers |-> IF answer[r].given THEN answer[r] ELSE NoAnswer]
  BY <1>1 DEF Answers
<1>. QED
  BY <1>1, <1>2, <1>3, <1>4, <1>5, <1>6 DEF A!FactoryPanics

LEMMA ChangeImplemented ==
    ASSUME IInv, Undisturbed, NEW w \in Writers, Store(w)
    PROVE  A!Change(w)
<1>1. /\ outcome[w] = "pending" /\ outcome' = [outcome EXCEPT ![w] = "ok"]
      /\ Snap' = Snap /\ Answers' = Answers
  BY WriterLeaves DEF Store, Locked
<1>2. UNCHANGED <<op, ask>> /\ cfg' = next[w] /\ heap' = heap
  BY DEF Store
<1>3. ~refused(op[w], Reg) /\ deref(next[w], heap) = A!changed(op[w], Reg)
  BY DEF Store, IInv, ChangeInv, Reg
<1>4. Reg' = A!changed(op[w], Reg)
  BY <1>2, <1>3 DEF Reg
<1>5. ~A!refused(op[w], deref(cfg, heap))
  BY <1>3 DEF Reg, refused, A!refused
<1>6. UNCHANGED [r \in Readers |->
                    IF pc[r] = "start" THEN NotLoaded
                    ELSE [loaded |-> TRUE, reg |-> deref(held[r], heap)]]
  BY <1>1 DEF Snap
<1>7. UNCHANGED [r \in Readers |-> IF answer[r].given THEN answer[r] ELSE NoAnswer]
  BY <1>1 DEF Answers
<1>8. deref(cfg, heap)' = A!changed(op[w], deref(cfg, heap))
  BY <1>4 DEF Reg
<1>. QED
  BY <1>1, <1>2, <1>5, <1>6, <1>7, <1>8 DEF A!Change

LEMMA LoadImplemented ==
    ASSUME IInv, NEW r \in Readers, Load(r)
    PROVE  A!Load(r)
<1>1. /\ pc[r] = "start" /\ held' = [held EXCEPT ![r] = cfg] /\ goto(r, "info")
      /\ UNCHANGED <<op, ask, heap, cfg, outcome, answer>>
  BY DEF Load
<1>2. /\ pc'[r] = "info" /\ held'[r] = cfg
      /\ \A q \in Readers : q # r => pc'[q] = pc[q] /\ held'[q] = held[q]
  BY <1>1 DEF goto, IInv, TypeOK
<1>3. Snap' = [Snap EXCEPT ![r] = [loaded |-> TRUE, reg |-> Reg]]
  BY <1>1, <1>2 DEF Snap, Reg
<1>4. ~Snap[r].loaded
  BY <1>1 DEF Snap, NotLoaded
<1>5. Reg' = Reg /\ Answers' = Answers
  BY <1>1 DEF Reg, Answers
<1>. QED
  BY <1>1, <1>3, <1>4, <1>5 DEF A!Load, Reg, Snap, Answers

(* A lookup before the last. *)
LEMMA LookupStutters ==
    ASSUME IInv, NEW r \in Readers, LookupInfo(r) \/ LookupMethod(r)
    PROVE  UNCHANGED A!vars
<1>1. UNCHANGED <<op, ask, heap, cfg, outcome, held>>
  BY DEF LookupInfo, LookupMethod
<1>2. pc[r] \in {"info", "method"} /\ pc'[r] \in {"method", "error"}
      /\ \A q \in Readers : q # r => pc'[q] = pc[q]
  BY DEF LookupInfo, LookupMethod, goto, IInv, TypeOK
<1>3. Reg' = Reg /\ Snap' = Snap
  <2>1. \A q \in Readers : pc'[q] = "start" <=> pc[q] = "start"
    BY <1>2
  <2>. QED
    BY <1>1, <2>1, HeapKept, SnapKept, RegKept
<1>4. Answers' = Answers
  <2>1. ~answer[r].given
    BY <1>2 DEF IInv, AnswerInv
  <2>2. answer'[r].given = answer[r].given /\ \A q \in Readers : q # r => answer'[q] = answer[q]
    BY DEF LookupInfo, LookupMethod, IInv, TypeOK
  <2>. QED
    BY <2>1, <2>2 DEF Answers
<1>. QED
  BY <1>1, <1>3, <1>4 DEF A!vars, Reg, Snap, Answers

(* The last lookup answers from the snapshot as RegistrySpec would. *)
LEMMA AnswerImplemented ==
    ASSUME IInv, NEW r \in Readers, LookupError(r)
    PROVE  A!Answer(r)
<1>1. /\ pc[r] = "error" /\ goto(r, "done")
      /\ answer' = [answer EXCEPT ![r].known = heap.errors[held[r].errors][ask[r].code],
                                  ![r].given = TRUE]
      /\ UNCHANGED <<op, ask, heap, cfg, outcome, held>>
  BY DEF LookupError
<1>2. \A q \in Readers : pc'[q] = "start" <=> pc[q] = "start"
  BY <1>1 DEF goto, IInv, TypeOK
<1>3. Reg' = Reg /\ Snap' = Snap
  BY <1>1, <1>2, HeapKept, SnapKept, RegKept
<1>4. PICK c : c = held[r]
  OBVIOUS
<1>5. Snap[r].loaded /\ Snap[r].reg = deref(c, heap)
  BY <1>1, <1>4 DEF Snap
<1>6. ~answer[r].given
  BY <1>1 DEF IInv, AnswerInv
<1>7. PICK a : a = [given |-> TRUE, info |-> Snap[r].reg.info[ask[r].name],
                    chain |-> A!chain(Snap[r].reg.middlewares, Snap[r].reg.methods[ask[r].name]),
                    known |-> Snap[r].reg.errors[ask[r].code]]
  OBVIOUS
<1>8. /\ Snap[r].reg.info = heap.info[c.info] /\ Snap[r].reg.middlewares = c.middlewares
      /\ Snap[r].reg.methods = heap.methods[c.methods]
      /\ Snap[r].reg.errors = heap.errors[c.errors]
  BY <1>5 DEF deref
<1>9. answer'[r] = a
  <2>1. PICK b : b = answer[r]
    OBVIOUS
  <2>2. /\ b \in [given: BOOLEAN, info: Values \cup {Default}, chain: Seq(Values), known: BOOLEAN]
        /\ b.info = heap.info[c.info][ask[r].name]
        /\ b.chain = heap.methods[c.composed][ask[r].name]
    BY <1>1, <1>4, <2>1 DEF IInv, TypeOK, AnswerInv
  <2>3. heap.methods[c.composed][ask[r].name] =
           A!chain(c.middlewares, heap.methods[c.methods][ask[r].name])
    BY <1>4 DEF IInv, StepInv, published, Wrapped, TypeOK
  <2>4. answer'[r] = [b EXCEPT !.known = heap.errors[c.errors][ask[r].code], !.given = TRUE]
    BY <1>1, <1>4, <2>1 DEF IInv, TypeOK
  <2>. QED
    BY <1>7, <1>8, <2>2, <2>3, <2>4
<1>10. \A q \in Readers : q # r => answer'[q] = answer[q]
  BY <1>1 DEF IInv, TypeOK
<1>11. ~Answers[r].given
  BY <1>6 DEF Answers, NoAnswer
<1>12. Answers' = [Answers EXCEPT ![r] = a]
  <2>1. a.given
    BY <1>7
  <2>2. answer'[r].given
    BY <1>9, <2>1
  <2>. QED
    BY <1>9, <1>10, <2>2 DEF Answers
<1>. QED
  BY <1>1, <1>3, <1>5, <1>7, <1>11, <1>12 DEF A!Answer, Reg, Snap, Answers

(* New() has the configuration RegistrySpec starts from. *)
LEMMA InitImplemented == Init => A!Init
<1>. SUFFICES ASSUME Init PROVE A!Init
  OBVIOUS
<1>1. /\ op \in [Writers -> Ops] /\ ask \in [Readers -> [name: Names, code: Codes]]
      /\ outcome = [w \in Writers |-> "pending"]
      /\ heap = InitialHeap /\ cfg = InitialConfig
      /\ \A r \in Readers : pc[r] = "start" /\ answer[r] = NoAnswer
  BY DEF Init
<1>2. Snap = [r \in Readers |-> NotLoaded]
  BY <1>1 DEF Snap
<1>3. Answers = [r \in Readers |-> NoAnswer]
  BY <1>1 DEF Answers, NoAnswer
<1>4. Reg = Initial
  <2>1. /\ heap.errors[1] = Initial.errors /\ heap.methods[1] = Initial.methods
        /\ heap.info[1] = Initial.info
    BY <1>1 DEF InitialHeap
  <2>2. /\ cfg.errors = 1 /\ cfg.methods = 1 /\ cfg.info = 1
        /\ cfg.middlewares = << >> /\ cfg.interceptors = << >> /\ cfg.settings = Initial.settings
    BY <1>1 DEF InitialConfig
  <2>3. /\ Initial.middlewares = << >> /\ Initial.interceptors = << >>
        /\ Initial = [methods |-> Initial.methods, info |-> Initial.info,
                      errors |-> Initial.errors, middlewares |-> Initial.middlewares,
                      interceptors |-> Initial.interceptors, settings |-> Initial.settings]
    BY DEF Initial
  <2>. QED
    BY <2>1, <2>2, <2>3 DEF Reg, deref
<1>5. [r \in Readers |->
                    IF pc[r] = "start" THEN NotLoaded
                    ELSE [loaded |-> TRUE, reg |-> deref(held[r], heap)]] =
         [r \in Readers |-> NotLoaded]
  BY <1>2 DEF Snap
<1>6. [r \in Readers |-> IF answer[r].given THEN answer[r] ELSE NoAnswer] =
         [r \in Readers |-> NoAnswer]
  BY <1>3 DEF Answers
<1>7. deref(cfg, heap) = Initial
  BY <1>4 DEF Reg
<1>8. A!Initial = Initial /\ A!NotLoaded = NotLoaded /\ A!NoAnswer = NoAnswer
  <2>1. A!Initial = Initial
    BY DEF Initial, A!Initial, Default, A!Default
  <2>2. A!NotLoaded = NotLoaded
    BY <2>1 DEF NotLoaded, A!NotLoaded
  <2>3. A!NoAnswer = NoAnswer
    BY DEF NoAnswer, A!NoAnswer, Default, A!Default
  <2>. QED
    BY <2>1, <2>2, <2>3
<1>. QED
  BY <1>1, <1>5, <1>6, <1>7, <1>8 DEF A!Init

LEMMA NextImplemented ==
    ASSUME IInv, [Next]_vars
    PROVE  [A!Next]_(A!vars)
<1>1. Undisturbed
  BY NextInv
<1>2. CASE \E w \in Writers : update(w)
  <2>1. PICK w \in Writers : update(w)
    BY <1>2
  <2>2. CASE \/ Acquire(w) \/ Clone(w) \/ MutateMaps(w) \/ MutateFields(w)
             \/ ComposeNothing(w) \/ Compose(w)
    <3>1. /\ \E l \in {"clone", "mutate", "compose", "store"} : goto(w, l)
          /\ UNCHANGED <<op, ask, cfg, outcome, held, answer>>
      BY <2>2 DEF Acquire, Clone, MutateMaps, MutateFields, ComposeNothing, Compose
    <3>. QED
      BY <1>1, <3>1, WriterStutters DEF IInv
  <2>3. CASE MutateRefuses(w) \/ ComposePanics(w) \/ Store(w)
    BY <1>1, <2>3, RefuseImplemented, PanicImplemented, ChangeImplemented DEF A!Next
  <2>. QED
    BY <2>1, <2>2, <2>3 DEF update
<1>3. CASE \E r \in Readers : Load(r) \/ LookupInfo(r) \/ LookupMethod(r) \/ LookupError(r)
  BY <1>3, LoadImplemented, LookupStutters, AnswerImplemented DEF A!Next
<1>4. CASE Done \/ UNCHANGED vars
  <2>1. UNCHANGED <<op, ask, heap, cfg, lock, pc, next, outcome, held, answer>>
    BY <1>4 DEF Done, vars
  <2>. QED
    BY <2>1 DEF A!vars, deref
<1>. QED
  BY <1>2, <1>3, <1>4 DEF Next

(* Setters, registrations and Use are atomic, none is lost, a failed one   *)
(* leaves no trace, and a request sees one configuration throughout: the   *)
(* copy-on-write registry implements RegistrySpec.                         *)
THEOREM RegistryImplementsSpec == Spec => AtomicRegistry
<1>1. IInv /\ [Next]_vars => [A!Next]_(A!vars)
  BY NextImplemented
<1>. QED
  BY <1>1, InitImplemented, RegistryInvariant, PTL DEF Spec, AtomicRegistry, A!Spec
=============================================================================
