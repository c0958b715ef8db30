-------------------------------- MODULE Heap --------------------------------
(***************************************************************************)
(* heap.c: the lock around the allocator, the regions it grows by and the  *)
(* list heapDestroy frees them from.  tlsf itself is vendored: it may find *)
(* room in the regions there are or not, and always does in a fresh one.   *)
(*                                                                         *)
(* A Windows mutex is recursive, and heapAlloc returns with it locked when *)
(* VirtualAlloc fails.                                                     *)
(***************************************************************************)
EXTENDS Integers, FiniteSets

CONSTANTS
  Threads,
  NULL,
  grow_increment,
  Sizes,       \* what is asked for, in bytes
  MaxRegions,  \* bound: regions the heap grows by
  Failures     \* bound: times VirtualAlloc fails for the thread that keeps the lock

ASSUME HeapAssumption ==
  /\ grow_increment \in Nat /\ Sizes \subseteq Nat
  /\ MaxRegions \in Nat /\ Failures \in Nat /\ NULL \notin Threads \cup 1 .. MaxRegions

VARIABLES
  pc,        \* [Threads -> step], "out" outside of heap.c
  size,      \* what each thread asks for, or 0
  new,       \* the region each thread is adding, or heapDestroy is at
  owner,     \* of the mutex
  depth,     \* how often it has been locked
  regions,   \* [region -> the size it was made for]: what VirtualAlloc gave
  next,      \* [region -> the next in the list]
  object,    \* the head of the list
  exists,    \* between heapCreate and heapDestroy
  failed     \* history: an allocation has failed

heap == <<pc, size, new, owner, depth, regions, next, object, exists, failed>>

Regions == 1 .. MaxRegions

HeapInit ==
  /\ pc = [t \in Threads |-> "out"] /\ size = [t \in Threads |-> 0]
  /\ new = [t \in Threads |-> NULL]
  /\ owner = NULL /\ depth = 0
  /\ regions = [r \in {} |-> 0] /\ next = [r \in Regions |-> NULL] /\ object = NULL
  /\ exists = TRUE /\ failed = FALSE

Goto(t, step) == pc' = [pc EXCEPT ![t] = step]

-----------------------------------------------------------------------------
(* Sizes, in bytes. *)

Page == 4096
sizeof_heap_obj_t == 304
tlsf_pool_overhead == 16

Larger(a, b) == IF a > b THEN a ELSE b

\* object_size
ObjectSize(s) == Larger(grow_increment, s * 2) + sizeof_heap_obj_t

\* What VirtualAlloc gives: whole pages.
RegionEnd(s) == ((ObjectSize(s) + tlsf_pool_overhead + Page - 1) \div Page) * Page

\* Bug: the pool is given twice what is asked for in any case.
PoolTwice(s) == sizeof_heap_obj_t + ObjectSize(s) + s * 2

\* Where the pool ends that tlsf_add_pool makes behind the heap_obj_t.
PoolEnd(s) == sizeof_heap_obj_t + ObjectSize(s)

-----------------------------------------------------------------------------
(* heapAlloc and heapFree. *)

Call(t, s) ==
  /\ pc[t] = "out"
  /\ size' = [size EXCEPT ![t] = s] /\ Goto(t, "lock")
  /\ UNCHANGED <<new, owner, depth, regions, next, object, exists, failed>>

heapAlloc(t) == \E s \in Sizes : Call(t, s)

\* Freeing is asked for as size 0.
heapFree(t) == Call(t, 0)

\* Bug: nobody waits.
NeverWaits(t) == TRUE

MayLock(t) == owner \in {NULL, t}

Lock(t) ==
  /\ pc[t] = "lock" /\ MayLock(t)
  /\ owner' = t /\ depth' = depth + 1
  /\ Goto(t, IF size[t] = 0 THEN "unlock" ELSE "memalign")
  /\ UNCHANGED <<size, new, regions, next, object, exists, failed>>

\* tlsf_memalign, the first time.  It finds room when the bounds are reached.
Memalign(t) ==
  /\ pc[t] = "memalign"
  /\ \/ DOMAIN regions # {} /\ Goto(t, "unlock")
     \/ (DOMAIN regions # Regions \/ depth <= Failures) /\ Goto(t, "grow")
  /\ UNCHANGED <<size, new, owner, depth, regions, next, object, exists, failed>>

\* VirtualAlloc, tlsf_add_pool, and object->next = heap->object.
Grow(t) ==
  /\ pc[t] = "grow"
  /\ \E r \in Regions \ DOMAIN regions :
       /\ \A q \in Regions \ DOMAIN regions : r <= q
       /\ regions' = [q \in DOMAIN regions \cup {r} |-> IF q = r THEN size[t] ELSE regions[q]]
       /\ next' = [next EXCEPT ![r] = object]
       /\ new' = [new EXCEPT ![t] = r]
  /\ Goto(t, "head")
  /\ UNCHANGED <<size, owner, depth, object, exists, failed>>

\* VirtualAlloc fails: NULL is returned and the mutex stays locked.
GrowFails(t) ==
  /\ pc[t] = "grow" /\ depth <= Failures
  /\ Goto(t, "out") /\ size' = [size EXCEPT ![t] = 0]
  /\ failed' = TRUE
  /\ UNCHANGED <<new, owner, depth, regions, next, object, exists>>

\* heap->object = object, and tlsf_memalign again
SetHead(t) ==
  /\ pc[t] = "head"
  /\ object' = new[t]
  /\ Goto(t, "unlock")
  /\ UNCHANGED <<size, new, owner, depth, regions, next, exists, failed>>

\* Bug: the mutex is not unlocked after the heap has grown.
ForgottenIfGrown(t) == depth - (IF new[t] = NULL THEN 1 ELSE 0)

\* mutexUnlock
Unlocked(t) == depth - 1

Unlock(t) ==
  /\ pc[t] = "unlock"
  /\ depth' = Unlocked(t) /\ owner' = IF depth' = 0 THEN NULL ELSE owner
  /\ Goto(t, "out") /\ size' = [size EXCEPT ![t] = 0] /\ new' = [new EXCEPT ![t] = NULL]
  /\ UNCHANGED <<regions, next, object, exists, failed>>

Inside(t) ==
  \/ Memalign(t) \/ Grow(t) \/ GrowFails(t) \/ SetHead(t) \/ Unlock(t)

-----------------------------------------------------------------------------
(* heapDestroy does not take the lock. *)

heapDestroy(t) ==
  /\ pc[t] = "out"
  /\ Goto(t, "walk") /\ new' = [new EXCEPT ![t] = object]
  /\ UNCHANGED <<size, owner, depth, regions, next, object, exists, failed>>

\* next = object->next, and VirtualFree of the object.
Walk(t) ==
  /\ pc[t] = "walk" /\ new[t] # NULL
  /\ regions' = [r \in DOMAIN regions \ {new[t]} |-> regions[r]]
  /\ new' = [new EXCEPT ![t] = next[new[t]]]
  /\ UNCHANGED <<pc, size, owner, depth, next, object, exists, failed>>

Walked(t) ==
  /\ pc[t] = "walk" /\ new[t] = NULL
  /\ exists' = FALSE /\ Goto(t, "out")
  /\ UNCHANGED <<size, new, owner, depth, regions, next, object, failed>>

-----------------------------------------------------------------------------
(* Properties. *)

\* The regions from the head of the list on: those in every set that has the
\* head and what comes next to its members.
Listed ==
  {r \in Regions :
     \A S \in SUBSET Regions :
       /\ object \in S \cup {NULL}
       /\ \A q \in S : next[q] \in S \cup {NULL}
       => r \in S}

Adding == {new[t] : t \in {u \in Threads : pc[u] = "head"}}

Destroying == \E t \in Threads : pc[t] = "walk"

\* The list heapDestroy walks has every region the system gave, so none is lost
\* when two threads make the heap grow at once.
AllListed == exists /\ ~Destroying => DOMAIN regions \ Adding = Listed

\* tlsf is given memory up to sizeof(heap_obj_t) past what is asked for (line 59).
\* It ends inside the region if at most half a grow_increment was asked for.
PoolInside ==
  \A r \in DOMAIN regions :
    regions[r] * 2 <= grow_increment /\ grow_increment % Page = 0 =>
      PoolEnd(regions[r]) <= RegionEnd(regions[r])
=============================================================================
