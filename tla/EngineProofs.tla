---------------------------- MODULE EngineProofs ----------------------------
(* The theorems about Engine, for any set of workers, sizes, number of regions *)
(* and of failures.                                                            *)
EXTENDS Engine, NatFacts

-----------------------------------------------------------------------------
(* What every step of Heap keeps, for any threads, sizes and number of regions: *)
(* the types, the lock, and the shape of the list.  Engine's steps are made of  *)
(* these.                                                                       *)

Inner == {"memalign", "grow", "head", "unlock"}
Steps == Inner \cup {"out", "lock", "walk"}

HeapTypes ==
  /\ pc \in [Threads -> Steps] /\ size \in [Threads -> Nat]
  /\ new \in [Threads -> Regions \cup {NULL}]
  /\ owner \in Threads \cup {NULL} /\ depth \in Nat
  /\ next \in [Regions -> Regions \cup {NULL}] /\ object \in Regions \cup {NULL}
  /\ \A r \in DOMAIN regions : r \in Regions /\ regions[r] \in Nat

\* A thread past the lock holds it.
Locked == \A t \in Threads : pc[t] \in Inner => owner = t /\ depth >= 1

Top == IF object = NULL THEN 0 ELSE object

\* The regions are numbered as they come, and each is followed by the one
\* before; one that is being added is next to the head.
Chain ==
  exists /\ ~Destroying =>
    /\ \A t \in Threads : pc[t] = "head" => new[t] = Top + 1
    /\ DOMAIN regions = 1 .. Top \cup Adding
    /\ \A r \in DOMAIN regions : next[r] = IF r = 1 THEN NULL ELSE r - 1

HeapInv == HeapTypes /\ Locked /\ Chain

-----------------------------------------------------------------------------
(* Sizes. *)

\* heap.c 52-59: 304 bytes are added twice and 16 once, and whole pages given.
LEMMA PoolFits ==
  ASSUME NEW s \in Nat, s * 2 <= grow_increment, grow_increment % Page = 0
  PROVE  PoolEnd(s) <= RegionEnd(s)
<1>1. ObjectSize(s) = grow_increment + 304
  BY HeapAssumption DEF ObjectSize, Larger, sizeof_heap_obj_t
<1>2. PoolEnd(s) = grow_increment + 608
  BY <1>1, HeapAssumption DEF PoolEnd, sizeof_heap_obj_t
<1>3. RegionEnd(s) = ((grow_increment + 4415) \div 4096) * 4096
  BY <1>1, HeapAssumption DEF RegionEnd, Page, tlsf_pool_overhead
<1>4. grow_increment \in Nat /\ grow_increment % 4096 = 0
  BY HeapAssumption DEF Page
<1>5. (grow_increment + 4415) \div 4096 = grow_increment \div 4096 + 1
  BY <1>4
<1>6. grow_increment = (grow_increment \div 4096) * 4096
  BY <1>4
<1> QED
  BY <1>2, <1>3, <1>4, <1>5, <1>6

LEMMA TypesPoolInside == HeapTypes => PoolInside
BY PoolFits DEF HeapTypes, PoolInside

-----------------------------------------------------------------------------
(* The list. *)

\* A set with the top and with every number the one before has all of them.
LEMMA DownFromTop ==
  ASSUME NEW n \in Nat, NEW S, n = 0 \/ n \in S, \A q \in S \cap 2 .. n : q - 1 \in S
  PROVE  1 .. n \subseteq S
<1> DEFINE D == {k \in Nat : k < n => n - k \in S}
<1>1. 0 \in D
  OBVIOUS
<1>2. ASSUME NEW k \in Nat, k \in D PROVE k + 1 \in D
  <2> SUFFICES ASSUME k + 1 < n PROVE n - (k + 1) \in S
    OBVIOUS
  <2> DEFINE q == n - k
  <2>1. q \in S \cap 2 .. n /\ n - (k + 1) = q - 1
    BY <1>2
  <2> HIDE DEF q
  <2> QED
    BY <2>1
<1> HIDE DEF D
<1>3. Nat \subseteq D
  BY <1>1, <1>2, InductionOverSet
<1>4. ASSUME NEW r \in 1 .. n PROVE r \in S
  <2>1. n - r \in Nat /\ n - r < n
    OBVIOUS
  <2>2. n - r \in D
    BY <1>3, <2>1
  <2> QED
    BY <2>1, <2>2 DEF D
<1> QED
  BY <1>4

LEMMA ChainAllListed == HeapInv => AllListed
<1> SUFFICES ASSUME HeapInv, exists, ~Destroying
             PROVE  DOMAIN regions \ Adding = Listed
  BY DEF AllListed
<1>1. Top \in Nat /\ Top <= MaxRegions /\ (object = NULL <=> Top = 0)
      /\ (object # NULL => object = Top)
  BY HeapAssumption DEF HeapInv, HeapTypes, Top, Regions
<1>2. Adding \subseteq {Top + 1} /\ DOMAIN regions = 1 .. Top \cup Adding
  BY DEF HeapInv, Chain, Adding
<1>3. \A r \in 1 .. Top : r \in Regions /\ next[r] = IF r = 1 THEN NULL ELSE r - 1
  BY <1>1, <1>2, HeapAssumption DEF HeapInv, Chain, Regions
<1>4. DOMAIN regions \ Adding = 1 .. Top
  BY <1>1, <1>2
<1>5. Listed \subseteq 1 .. Top
  <2>1. 1 .. Top \in SUBSET Regions
    BY <1>3
  <2>2. object \in 1 .. Top \cup {NULL}
    BY <1>1
  <2>3. \A q \in 1 .. Top : next[q] \in 1 .. Top \cup {NULL}
    BY <1>1, <1>3
  <2> QED
    BY <2>1, <2>2, <2>3 DEF Listed
<1>6. ASSUME NEW r \in 1 .. Top, NEW S \in SUBSET Regions, object \in S \cup {NULL},
             \A q \in S : next[q] \in S \cup {NULL}
      PROVE  r \in S
  <2>1. Top \in S
    BY <1>1, <1>6
  <2>2. ASSUME NEW q \in S \cap 2 .. Top PROVE q - 1 \in S
    <3>1. next[q] = q - 1 /\ q - 1 \in 1 .. Top
      BY <1>1, <1>3
    <3>2. q - 1 # NULL
      BY <1>1, <3>1, HeapAssumption
    <3> QED
      BY <1>6, <3>1, <3>2
  <2> QED
    BY <1>1, <2>1, <2>2, DownFromTop
<1>7. 1 .. Top \subseteq Listed
  BY <1>3, <1>6 DEF Listed
<1> QED
  BY <1>4, <1>5, <1>7
-----------------------------------------------------------------------------
(* The steps. *)

LEMMA InitHeapInv == HeapInit => HeapInv
<1> SUFFICES ASSUME HeapInit PROVE HeapInv
  OBVIOUS
<1>1. HeapTypes
  BY DEF HeapInit, HeapTypes, Steps
<1>2. Locked
  BY DEF HeapInit, Locked, Inner
<1>3. Chain
  BY DEF HeapInit, Chain, Top, Adding
<1> QED
  BY <1>1, <1>2, <1>3 DEF HeapInv

\* A thread that goes from one step to another, none of them at the head of the
\* list or on the walk along it, leaves the list alone.
LEMMA ListKept ==
  ASSUME HeapInv, NEW t \in Threads, NEW step, Goto(t, step),
         pc[t] \notin {"head", "walk"}, step \notin {"head", "walk"},
         \A u \in Threads : u # t => new'[u] = new[u],
         UNCHANGED <<regions, next, object, exists>>
  PROVE  Chain'
<1>1. \A u \in Threads : pc'[u] = IF u = t THEN step ELSE pc[u]
  BY DEF HeapInv, HeapTypes, Goto
<1>2. \A u \in Threads : /\ (pc'[u] = "walk") <=> (pc[u] = "walk")
                         /\ (pc'[u] = "head") <=> (pc[u] = "head")
                         /\ (pc[u] = "head") => (new'[u] = new[u])
  BY <1>1
<1>3. Destroying' <=> Destroying
  BY <1>2 DEF Destroying
<1>4. Adding' = Adding
  BY <1>2 DEF Adding
<1>5. Top' = Top
  BY DEF Top
<1> QED
  BY <1>2, <1>3, <1>4, <1>5 DEF HeapInv, Chain

LEMMA CallStep ==
  ASSUME HeapInv, NEW t \in Threads, NEW s \in Nat, Call(t, s)
  PROVE  HeapInv'
<1>0. /\ pc[t] = "out" /\ pc' = [pc EXCEPT ![t] = "lock"] /\ size' = [size EXCEPT ![t] = s]
      /\ UNCHANGED <<new, owner, depth, regions, next, object, exists>>
  BY DEF Call, Goto
<1>1. HeapTypes'
  BY <1>0 DEF HeapInv, HeapTypes, Steps, Inner
<1>2. Locked'
  BY <1>0 DEF HeapInv, HeapTypes, Locked, Inner
<1>3. Chain'
  BY <1>0, ListKept DEF Goto
<1> QED
  BY <1>1, <1>2, <1>3 DEF HeapInv

LEMMA LockStep ==
  ASSUME HeapInv, NEW t \in Threads, Lock(t)
  PROVE  HeapInv'
<1> DEFINE step == IF size[t] = 0 THEN "unlock" ELSE "memalign"
<1>0. /\ pc' = [pc EXCEPT ![t] = step] /\ owner' = t /\ depth' = depth + 1
      /\ step \in {"unlock", "memalign"} /\ pc[t] = "lock" /\ owner \in {NULL, t}
      /\ UNCHANGED <<size, new, regions, next, object, exists>>
  BY DEF Lock, MayLock, Goto
<1> HIDE DEF step
<1>1. HeapTypes'
  BY <1>0 DEF HeapInv, HeapTypes, Steps, Inner
<1>2. Locked'
  <2> SUFFICES ASSUME NEW u \in Threads, pc'[u] \in Inner PROVE owner' = u /\ depth' >= 1
    BY DEF Locked
  <2>1. depth' >= 1
    BY <1>0 DEF HeapInv, HeapTypes
  <2>2. u # t => pc[u] \in Inner
    BY <1>0 DEF HeapInv, HeapTypes
  <2>3. u # t => owner = u /\ owner # NULL
    BY <2>2, HeapAssumption DEF HeapInv, Locked
  <2> QED
    BY <1>0, <2>1, <2>3
<1>3. Chain'
  BY <1>0, ListKept DEF Goto
<1> QED
  BY <1>1, <1>2, <1>3 DEF HeapInv

\* Inside the lock, and going on in it.
LEMMA StillLocked ==
  ASSUME HeapInv, NEW t \in Threads, NEW step, Goto(t, step), pc[t] \in Inner,
         UNCHANGED <<owner, depth>>
  PROVE  Locked'
BY DEF HeapInv, HeapTypes, Locked, Goto

LEMMA MemalignStep ==
  ASSUME HeapInv, NEW t \in Threads, Memalign(t)
  PROVE  HeapInv'
<1>0. PICK step \in {"unlock", "grow"} : Goto(t, step)
  BY DEF Memalign
<1>a. pc[t] = "memalign" /\ UNCHANGED <<size, new, owner, depth, regions, next, object, exists>>
  BY DEF Memalign
<1>1. HeapTypes'
  BY <1>0, <1>a DEF HeapInv, HeapTypes, Steps, Inner, Goto
<1>2. Locked'
  BY <1>0, <1>a, StillLocked DEF Inner
<1>3. Chain'
  BY <1>0, <1>a, ListKept
<1> QED
  BY <1>1, <1>2, <1>3 DEF HeapInv

\* Nobody else is inside the lock.
LEMMA Alone ==
  ASSUME HeapInv, NEW t \in Threads, pc[t] \in Inner, NEW u \in Threads, pc[u] \in Inner
  PROVE  u = t
BY DEF HeapInv, Locked

LEMMA GrowStep ==
  ASSUME HeapInv, NEW t \in Threads, Grow(t)
  PROVE  HeapInv'
<1>1. PICK r \in Regions \ DOMAIN regions :
        /\ \A q \in Regions \ DOMAIN regions : r <= q
        /\ regions' = [q \in DOMAIN regions \cup {r} |-> IF q = r THEN size[t] ELSE regions[q]]
        /\ next' = [next EXCEPT ![r] = object]
        /\ new' = [new EXCEPT ![t] = r]
  BY DEF Grow
<1>2. /\ pc[t] = "grow" /\ pc' = [pc EXCEPT ![t] = "head"]
      /\ UNCHANGED <<size, owner, depth, object, exists>>
  BY DEF Grow, Goto
<1>3. HeapTypes'
  <2>1. DOMAIN regions' = DOMAIN regions \cup {r}
    BY <1>1
  <2>2. \A q \in DOMAIN regions' : q \in Regions /\ regions'[q] \in Nat
    BY <1>1, <2>1 DEF HeapInv, HeapTypes
  <2> QED
    BY <1>1, <1>2, <2>2 DEF HeapInv, HeapTypes, Steps, Inner
<1>4. Locked'
  BY <1>2, StillLocked DEF Inner, Goto
<1>5. Chain'
  <2>1. \A u \in Threads : pc'[u] = IF u = t THEN "head" ELSE pc[u]
    BY <1>2 DEF HeapInv, HeapTypes
  <2>2. Destroying' <=> Destroying
    BY <1>2, <2>1 DEF Destroying
  <2>3. \A u \in Threads : pc[u] # "head"
    BY <1>2, Alone DEF Inner
  <2>4. \A u \in Threads : pc'[u] = "head" => u = t
    BY <2>1, <2>3
  <2>5. new'[t] = r /\ pc'[t] = "head"
    BY <1>1, <2>1 DEF HeapInv, HeapTypes
  <2>6. Adding = {} /\ Adding' = {r}
    BY <2>3, <2>4, <2>5 DEF Adding
  <2>7. Top' = Top
    BY <1>2 DEF Top
  <2> SUFFICES ASSUME exists, ~Destroying
               PROVE  /\ r = Top + 1
                      /\ DOMAIN regions' = 1 .. Top \cup {r}
                      /\ \A q \in DOMAIN regions' : next'[q] = IF q = 1 THEN NULL ELSE q - 1
    BY <1>2, <2>2, <2>4, <2>5, <2>6, <2>7 DEF Chain
  <2>8. DOMAIN regions = 1 .. Top
    BY <2>6 DEF HeapInv, Chain
  <2>9. Top \in Nat /\ (object = NULL <=> Top = 0) /\ (object # NULL => object = Top)
    BY HeapAssumption DEF HeapInv, HeapTypes, Top, Regions
  <2>10. r = Top + 1
    <3>1. r \in Nat /\ r >= Top + 1 /\ r <= MaxRegions
      BY <1>1, <2>8, <2>9, HeapAssumption DEF Regions
    <3>2. Top + 1 \in Regions \ DOMAIN regions
      BY <2>8, <2>9, <3>1, HeapAssumption DEF Regions
    <3> QED
      BY <1>1, <2>9, <3>1, <3>2
  <2>11. DOMAIN regions' = 1 .. Top \cup {r}
    BY <1>1, <2>8
  <2>12. next'[r] = IF r = 1 THEN NULL ELSE r - 1
    <3>1. next'[r] = object
      BY <1>1 DEF HeapInv, HeapTypes
    <3> QED
      BY <2>9, <2>10, <3>1
  <2>13. \A q \in 1 .. Top : next'[q] = IF q = 1 THEN NULL ELSE q - 1
    <3>1. \A q \in 1 .. Top : next[q] = IF q = 1 THEN NULL ELSE q - 1
      BY <2>8 DEF HeapInv, Chain
    <3>2. \A q \in 1 .. Top : q # r
      BY <2>9, <2>10
    <3>3. \A q \in 1 .. Top : next'[q] = next[q]
      BY <1>1, <2>8, <3>2 DEF HeapInv, HeapTypes
    <3> QED
      BY <3>1, <3>3
  <2> QED
    BY <2>10, <2>11, <2>12, <2>13
<1> QED
  BY <1>3, <1>4, <1>5 DEF HeapInv

LEMMA GrowFailsStep ==
  ASSUME HeapInv, NEW t \in Threads, GrowFails(t)
  PROVE  HeapInv'
<1>0. /\ pc[t] = "grow" /\ Goto(t, "out") /\ size' = [size EXCEPT ![t] = 0]
      /\ UNCHANGED <<new, owner, depth, regions, next, object, exists>>
  BY DEF GrowFails
<1>1. HeapTypes'
  BY <1>0 DEF HeapInv, HeapTypes, Steps, Inner, Goto
<1>2. Locked'
  BY <1>0, StillLocked DEF Inner
<1>3. Chain'
  BY <1>0, ListKept
<1> QED
  BY <1>1, <1>2, <1>3 DEF HeapInv

LEMMA SetHeadStep ==
  ASSUME HeapInv, NEW t \in Threads, SetHead(t)
  PROVE  HeapInv'
<1>0. /\ pc[t] = "head" /\ pc' = [pc EXCEPT ![t] = "unlock"] /\ object' = new[t]
      /\ UNCHANGED <<size, new, owner, depth, regions, next, exists>>
  BY DEF SetHead, Goto
<1>1. HeapTypes'
  BY <1>0 DEF HeapInv, HeapTypes, Steps, Inner
<1>2. Locked'
  BY <1>0, StillLocked DEF Inner, Goto
<1>3. Chain'
  <2>1. \A u \in Threads : pc'[u] = IF u = t THEN "unlock" ELSE pc[u]
    BY <1>0 DEF HeapInv, HeapTypes
  <2>2. Destroying' <=> Destroying
    BY <1>0, <2>1 DEF Destroying
  <2>3. \A u \in Threads : pc[u] = "head" => u = t
    BY <1>0, Alone DEF Inner
  <2>4. \A u \in Threads : pc'[u] # "head"
    BY <2>1, <2>3
  <2>5. Adding = {new[t]} /\ Adding' = {}
    BY <1>0, <2>3, <2>4 DEF Adding
  <2> SUFFICES ASSUME exists, ~Destroying
               PROVE  /\ DOMAIN regions = 1 .. Top'
                      /\ \A q \in DOMAIN regions : next[q] = IF q = 1 THEN NULL ELSE q - 1
    BY <1>0, <2>2, <2>4, <2>5 DEF Chain
  <2>6. Top \in Nat
    BY HeapAssumption DEF HeapInv, HeapTypes, Top, Regions
  <2>7. new[t] = Top + 1 /\ DOMAIN regions = 1 .. Top \cup {Top + 1}
    BY <1>0, <2>5 DEF HeapInv, Chain
  <2>8. new[t] # NULL
    <3>1. new[t] \in Regions
      BY <2>7 DEF HeapInv, HeapTypes
    <3> QED
      BY <3>1, HeapAssumption DEF Regions
  <2>9. Top' = Top + 1
    BY <1>0, <2>7, <2>8 DEF Top
  <2>10. \A q \in DOMAIN regions : next[q] = IF q = 1 THEN NULL ELSE q - 1
    BY DEF HeapInv, Chain
  <2> QED
    BY <2>6, <2>7, <2>9, <2>10
<1> QED
  BY <1>1, <1>2, <1>3 DEF HeapInv

LEMMA UnlockStep ==
  ASSUME HeapInv, NEW t \in Threads, Unlock(t)
  PROVE  HeapInv'
<1>0. /\ pc[t] = "unlock" /\ pc' = [pc EXCEPT ![t] = "out"]
      /\ depth' = depth - 1 /\ owner' = IF depth' = 0 THEN NULL ELSE owner
      /\ size' = [size EXCEPT ![t] = 0] /\ new' = [new EXCEPT ![t] = NULL]
      /\ UNCHANGED <<regions, next, object, exists>>
  BY DEF Unlock, Unlocked, Goto
<1>1. HeapTypes'
  <2>1. depth' \in Nat
    BY <1>0 DEF HeapInv, HeapTypes, Locked, Inner
  <2>2. owner' \in Threads \cup {NULL}
    BY <1>0 DEF HeapInv, HeapTypes
  <2> QED
    BY <1>0, <2>1, <2>2 DEF HeapInv, HeapTypes, Steps, Inner
<1>2. Locked'
  <2>1. \A u \in Threads : pc'[u] = IF u = t THEN "out" ELSE pc[u]
    BY <1>0 DEF HeapInv, HeapTypes
  <2>2. \A u \in Threads : pc'[u] \notin Inner
    BY <1>0, <2>1, Alone DEF Inner
  <2> QED
    BY <2>2 DEF Locked
<1>3. Chain'
  <2>1. \A u \in Threads : u # t => new'[u] = new[u]
    BY <1>0 DEF HeapInv, HeapTypes
  <2> QED
    BY <1>0, <2>1, ListKept DEF Goto
<1> QED
  BY <1>1, <1>2, <1>3 DEF HeapInv

LEMMA InsideStep ==
  ASSUME HeapInv, NEW t \in Threads, Inside(t)
  PROVE  HeapInv'
BY MemalignStep, GrowStep, GrowFailsStep, SetHeadStep, UnlockStep DEF Inside

\* From here on nothing is promised of the list.
LEMMA DestroyStep ==
  ASSUME HeapInv, NEW t \in Threads, heapDestroy(t)
  PROVE  HeapInv'
<1>0. /\ pc[t] = "out" /\ pc' = [pc EXCEPT ![t] = "walk"] /\ new' = [new EXCEPT ![t] = object]
      /\ UNCHANGED <<size, owner, depth, regions, next, object, exists>>
  BY DEF heapDestroy, Goto
<1>1. HeapTypes'
  BY <1>0 DEF HeapInv, HeapTypes, Steps, Inner
<1>2. Locked'
  BY <1>0 DEF HeapInv, HeapTypes, Locked, Inner
<1>3. Destroying'
  BY <1>0 DEF HeapInv, HeapTypes, Destroying
<1> QED
  BY <1>1, <1>2, <1>3 DEF HeapInv, Chain

LEMMA WalkStep ==
  ASSUME HeapInv, NEW t \in Threads, Walk(t)
  PROVE  HeapInv'
<1>0. /\ pc[t] = "walk" /\ new[t] # NULL
      /\ regions' = [r \in DOMAIN regions \ {new[t]} |-> regions[r]]
      /\ new' = [new EXCEPT ![t] = next[new[t]]]
      /\ UNCHANGED <<pc, size, owner, depth, next, object, exists>>
  BY DEF Walk
<1>1. HeapTypes'
  <2>1. next[new[t]] \in Regions \cup {NULL}
    BY <1>0 DEF HeapInv, HeapTypes
  <2>2. \A r \in DOMAIN regions' : r \in Regions /\ regions'[r] \in Nat
    BY <1>0 DEF HeapInv, HeapTypes
  <2> QED
    BY <1>0, <2>1, <2>2 DEF HeapInv, HeapTypes
<1>2. Locked'
  BY <1>0 DEF HeapInv, Locked
<1>3. Destroying'
  BY <1>0 DEF Destroying
<1> QED
  BY <1>1, <1>2, <1>3 DEF HeapInv, Chain

LEMMA WalkedStep ==
  ASSUME HeapInv, NEW t \in Threads, Walked(t)
  PROVE  HeapInv'
<1>0. /\ pc[t] = "walk" /\ pc' = [pc EXCEPT ![t] = "out"] /\ ~exists'
      /\ UNCHANGED <<size, new, owner, depth, regions, next, object>>
  BY DEF Walked, Goto
<1>1. HeapTypes'
  BY <1>0 DEF HeapInv, HeapTypes, Steps, Inner
<1>2. Locked'
  BY <1>0 DEF HeapInv, HeapTypes, Locked, Inner
<1> QED
  BY <1>0, <1>1, <1>2 DEF HeapInv, Chain

LEMMA HeapStutter == ASSUME HeapInv, UNCHANGED heap PROVE HeapInv'
BY DEF heap, HeapInv, HeapTypes, Locked, Chain, Top, Adding, Destroying

-----------------------------------------------------------------------------
(* Engine. *)

\* Where main is when workers may run, and when the heap is gone.
Ordered ==
  /\ at \in 1 .. 14
  /\ started \subseteq {render} \cup Workers
  /\ at > 10 => started \cap Workers = {}
  /\ Destroying \/ ~exists => at = 14

EngineInv == HeapInv /\ Ordered /\ LateIsRender

\* main.c 19-35: the calls at which threads are started, joined and the heap ends.
LEMMA ProgramFacts ==
  /\ Len(Program) = 13
  /\ Program[3].what = Workers /\ Program[6].what = {render}
  /\ Program[10].do = "stop"
  /\ \A k \in 1 .. 13 : /\ Program[k].do = "start" => k \in {3, 6}
                        /\ Program[k].do = "end" => k = 13
                        /\ Program[k].do = "stop" => k = 10
BY DEF Program, Make, Start, Loop, Stop, Destroy, EndHeap

LEMMA ThreadsAre == main \in Threads /\ main # render /\ main \notin Workers
                    /\ \A t \in Threads : t = main \/ t = render \/ t \in Workers
BY EngineAssumption

LEMMA InitEngineInv == Init => EngineInv
BY InitHeapInv DEF Init, EngineInv, Ordered, LateIsRender, HeapInit, Destroying

\* A step that begins or ends no walk along the list.
LEMMA WalkKept ==
  ASSUME HeapInv, NEW t \in Threads, NEW step, Goto(t, step),
         pc[t] # "walk", step # "walk"
  PROVE  Destroying' <=> Destroying
<1>1. \A u \in Threads : pc'[u] = IF u = t THEN step ELSE pc[u]
  BY DEF HeapInv, HeapTypes, Goto
<1> QED
  BY <1>1 DEF Destroying

\* What the heap's own steps do to what Ordered is about.
LEMMA HeapFrame ==
  ASSUME HeapInv, NEW t \in Threads, Lock(t) \/ Inside(t) \/ Walk(t) \/ Walked(t)
  PROVE  Destroying' \/ ~exists' => Destroying \/ ~exists
<1>1. CASE Lock(t)
  <2>1. PICK step \in {"unlock", "memalign"} : Goto(t, step)
    BY <1>1 DEF Lock
  <2> QED
    BY <1>1, <2>1, WalkKept DEF Lock
<1>2. CASE Inside(t)
  <2>1. /\ UNCHANGED exists /\ pc[t] # "walk"
        /\ \E step \in {"unlock", "grow", "head", "out"} : Goto(t, step)
    BY <1>2 DEF Inside, Memalign, Grow, GrowFails, SetHead, Unlock
  <2> QED
    BY <2>1, WalkKept
<1>3. CASE Walk(t) \/ Walked(t)
  BY <1>3 DEF Walk, Walked, Destroying
<1> QED
  BY <1>1, <1>2, <1>3

LEMMA CallFrame ==
  ASSUME HeapInv, NEW t \in Threads, heapAlloc(t) \/ heapFree(t)
  PROVE  HeapInv' /\ (Destroying' <=> Destroying) /\ UNCHANGED exists
<1>1. PICK s \in Nat : Call(t, s)
  BY HeapAssumption DEF heapAlloc, heapFree
<1>2. pc[t] = "out" /\ Goto(t, "lock") /\ UNCHANGED exists
  BY <1>1 DEF Call
<1> QED
  BY <1>1, <1>2, CallStep, WalkKept

\* main makes, frees or allocates one thing.
LEMMA MainCalls ==
  ASSUME EngineInv, MakeThing \/ DestroyThing \/ Frame
  PROVE  EngineInv'
<1>0. /\ (heapAlloc(main) \/ heapFree(main))
      /\ at' = at \/ (at' = at + 1 /\ at <= 13 /\ Program[at].do \in {"make", "destroy"})
      /\ UNCHANGED <<started, late>>
  BY ProgramFacts DEF MakeThing, DestroyThing, Frame, Doing, Returned, EngineInv, Ordered
<1>1. HeapInv' /\ (Destroying' <=> Destroying) /\ UNCHANGED exists
  BY <1>0, CallFrame, ThreadsAre DEF EngineInv
<1>2. Ordered'
  <2>1. at' = at + 1 => at # 10
    BY <1>0, ProgramFacts DEF EngineInv, Ordered
  <2> QED
    BY <1>0, <1>1, <2>1 DEF EngineInv, Ordered
<1> QED
  BY <1>0, <1>1, <1>2 DEF EngineInv, LateIsRender

\* Nothing happens in the heap.
LEMMA OutsideSteps ==
  ASSUME EngineInv, UNCHANGED heap, Ordered', LateIsRender'
  PROVE  EngineInv'
BY HeapStutter DEF EngineInv

LEMMA MainGoesOn ==
  ASSUME EngineInv, StartThreads \/ Quit \/ StopWorkers \/ Join
  PROVE  EngineInv'
<1>0. UNCHANGED <<heap, late>>
  BY DEF StartThreads, Quit, StopWorkers, Join
<1>1. (Destroying' <=> Destroying) /\ UNCHANGED exists
  BY <1>0 DEF heap, Destroying
<1>2. at \in 1 .. 14 /\ (Program[at].do \in {"start", "loop", "stop"} /\ ~Returned => at <= 13)
  BY ProgramFacts DEF EngineInv, Ordered, Returned
<1>3. CASE StartThreads
  <2>1. at \in {3, 6} /\ at' = at + 1 /\ started' = started \cup Program[at].what
    BY <1>2, <1>3, ProgramFacts DEF StartThreads, Doing
  <2>2. Program[at].what \subseteq {render} \cup Workers
    BY <2>1, ProgramFacts
  <2>3. Ordered'
    BY <1>1, <2>1, <2>2 DEF EngineInv, Ordered
  <2> QED
    BY <1>0, <2>3, OutsideSteps DEF EngineInv, LateIsRender
<1>4. CASE Quit
  <2>1. at <= 13 /\ at # 10 /\ at' = at + 1 /\ started' = started
    BY <1>2, <1>4, ProgramFacts DEF Quit, Doing
  <2>2. Ordered'
    BY <1>1, <2>1 DEF EngineInv, Ordered
  <2> QED
    BY <1>0, <2>2, OutsideSteps DEF EngineInv, LateIsRender
<1>5. CASE StopWorkers
  <2>1. Ordered'
    BY <1>1, <1>5 DEF StopWorkers, EngineInv, Ordered
  <2> QED
    BY <1>0, <2>1, OutsideSteps DEF EngineInv, LateIsRender
<1>6. CASE Join
  <2>1. at = 10 /\ at' = at + 1 /\ started' = started /\ started \cap Workers = {}
    BY <1>2, <1>6, ProgramFacts DEF Join, Doing
  <2>2. Ordered'
    BY <1>1, <2>1 DEF EngineInv, Ordered
  <2> QED
    BY <1>0, <2>2, OutsideSteps DEF EngineInv, LateIsRender
<1> QED
  BY <1>3, <1>4, <1>5, <1>6

LEMMA HeapEnds == ASSUME EngineInv, DestroyHeap PROVE EngineInv'
<1>1. at = 13 /\ at' = 14 /\ UNCHANGED <<started, late>>
  <2>1. at \in 1 .. 13 /\ Program[at].do = "end" /\ at' = at + 1 /\ UNCHANGED <<started, late>>
    BY ProgramFacts DEF DestroyHeap, Doing, Returned, EngineInv, Ordered
  <2> QED
    BY <2>1, ProgramFacts
<1>2. HeapInv'
  BY DestroyStep, ThreadsAre DEF EngineInv, DestroyHeap
<1> QED
  BY <1>1, <1>2 DEF EngineInv, Ordered, LateIsRender

\* A worker that runs finds the heap there.
LEMMA Works == ASSUME EngineInv, NEW t \in Threads, Work(t) PROVE EngineInv'
<1>0. /\ t \in started /\ t # main
      /\ (heapAlloc(t) \/ heapFree(t))
      /\ late' = late \cup Late(t) /\ UNCHANGED <<at, started>>
  BY DEF Work
<1>1. HeapInv' /\ (Destroying' <=> Destroying) /\ UNCHANGED exists
  BY <1>0, CallFrame DEF EngineInv
<1>2. Late(t) \subseteq {<<render, "heap">>}
  <2>1. CASE t = render
    BY <2>1 DEF Late
  <2>2. CASE t \in Workers
    <3>0. t \in started \cap Workers
      BY <1>0, <2>2
    <3>1. ~(at > 10)
      BY <3>0 DEF EngineInv, Ordered
    <3>2. exists /\ ~Destroying
      BY <3>1 DEF EngineInv, Ordered
    <3> QED
      BY <3>2 DEF Late
  <2> QED
    BY <1>0, <2>1, <2>2, ThreadsAre
<1> QED
  BY <1>0, <1>1, <1>2 DEF EngineInv, Ordered, LateIsRender

LEMMA WorkerEnds == ASSUME EngineInv, NEW t \in Threads, EndWorker(t) PROVE EngineInv'
<1>1. UNCHANGED <<heap, at, late>> /\ started' = started \ {t}
  BY DEF EndWorker
<1>2. Ordered'
  BY <1>1 DEF EngineInv, Ordered, heap, Destroying
<1> QED
  BY <1>1, <1>2, OutsideSteps DEF EngineInv, LateIsRender

LEMMA GpuMade == ASSUME EngineInv, CreateGpu PROVE EngineInv'
<1>1. UNCHANGED <<heap, at, started>> /\ late' \subseteq late \cup {<<render, "window">>}
  BY DEF CreateGpu
<1>2. Ordered'
  BY <1>1 DEF EngineInv, Ordered, heap, Destroying
<1> QED
  BY <1>1, <1>2, OutsideSteps DEF EngineInv, LateIsRender

\* What concerns only the window and the renderer's queue.
LEMMA FramesGoOn == ASSUME EngineInv, Pump \/ Push \/ Take \/ Close PROVE EngineInv'
<1>1. UNCHANGED <<heap, at, started, late>>
  BY DEF Pump, Push, Take, TakenBy, Close
<1>2. Ordered'
  BY <1>1 DEF EngineInv, Ordered, heap, Destroying
<1> QED
  BY <1>1, <1>2, OutsideSteps DEF EngineInv, LateIsRender

LEMMA HeapGoesOn ==
  ASSUME EngineInv, NEW t \in Threads, Locks(t) \/ InCall(t)
  PROVE  EngineInv'
<1>1. (Lock(t) \/ Inside(t) \/ Walk(t) \/ Walked(t)) /\ UNCHANGED engine
  BY DEF Locks, InCall
<1>2. HeapInv'
  BY <1>1, LockStep, InsideStep, WalkStep, WalkedStep DEF EngineInv
<1>3. Ordered'
  BY <1>1, HeapFrame DEF EngineInv, Ordered, engine
<1> QED
  BY <1>1, <1>2, <1>3 DEF EngineInv, LateIsRender, engine

LEMMA NextEngineInv == EngineInv /\ [Next]_vars => EngineInv'
<1> SUFFICES ASSUME EngineInv, [Next]_vars PROVE EngineInv'
  OBVIOUS
<1>1. CASE Main
  BY <1>1, MainCalls, MainGoesOn, FramesGoOn, HeapEnds DEF Main
<1>2. CASE Take \/ Close
  BY <1>2, FramesGoOn
<1>3. ASSUME NEW t \in Threads, Work(t) \/ EndWorker(t) \/ Locks(t) \/ InCall(t)
      PROVE  EngineInv'
  BY <1>3, Works, WorkerEnds, HeapGoesOn
<1>4. CASE CreateGpu
  BY <1>4, GpuMade
<1>5. CASE UNCHANGED vars
  <2>1. UNCHANGED heap /\ UNCHANGED engine
    BY <1>5 DEF vars
  <2>2. Ordered' /\ LateIsRender'
    BY <2>1 DEF EngineInv, Ordered, LateIsRender, engine, heap, Destroying
  <2> QED
    BY <2>1, <2>2, OutsideSteps
<1> QED
  BY <1>1, <1>2, <1>3, <1>4, <1>5 DEF Next

LEMMA Invariant == Spec => []EngineInv
BY InitEngineInv, NextEngineInv, PTL DEF Spec

(* heap.c 46-71: however many threads make the heap grow, the list that *)
(* heapDestroy walks has every region.                                   *)
THEOREM ListComplete == Spec => []AllListed
<1>1. EngineInv => AllListed
  BY ChainAllListed DEF EngineInv
<1> QED
  BY Invariant, <1>1, PTL

(* heap.c 52-59: the pool ends inside its region, for every request up to half *)
(* a grow_increment of whole pages.                                            *)
THEOREM PoolsFit == Spec => []PoolInside
<1>1. EngineInv => PoolInside
  BY TypesPoolInside DEF EngineInv, HeapInv
<1> QED
  BY Invariant, <1>1, PTL

(* main.c 32-35: fsDestroy comes before heapDestroy and waits for the workers,  *)
(* so only the render thread can use what main has destroyed.                   *)
THEOREM OnlyRenderIsLate == Spec => []LateIsRender
<1>1. EngineInv => LateIsRender
  BY DEF EngineInv
<1> QED
  BY Invariant, <1>1, PTL
=============================================================================
