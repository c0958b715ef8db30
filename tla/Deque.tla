------------------------------- MODULE Deque -------------------------------
(***************************************************************************)
(* deque.c: a queue of static capacity on a ring of slots, guarded by two  *)
(* counting semaphores.  Every operation has the same five steps, and      *)
(* threads interleave between any two of them:                             *)
(*   semaphoreGet       wait for a token of the semaphore                  *)
(*   atomicInc/Dec      claim an index, its old value modulo the length    *)
(*   items[index]       write or read the claimed slot                     *)
(*   cur_size++ / --    a load and a store, with nothing to protect them   *)
(*   semaphoreRelease   hand a token to the other semaphore                *)
(***************************************************************************)
EXTENDS Integers, Sequences, FiniteSets

CONSTANTS
  Producers,   \* threads that push
  Consumers,   \* threads that pop
  PushOps,     \* the push functions they call: PushFront, PushBack
  PopOps,      \* the pop functions they call: PopFront, PopBack
  Items,       \* what they push
  Garbage,     \* what a slot nobody wrote, or memory outside items, holds
  Length,      \* the capacity given to dequeCreate
  IntMax,      \* the largest int
  MaxPushes    \* bound: no push starts once this many have claimed a slot

Threads == Producers \cup Consumers

ASSUME ThreadsAssumption ==
  /\ IsFiniteSet(Producers) /\ IsFiniteSet(Consumers)
  /\ Producers \cap Consumers = {}
ASSUME OpsAssumption ==
  PushOps \subseteq {"PushFront", "PushBack"} /\ PopOps \subseteq {"PopFront", "PopBack"}
ASSUME GarbageAssumption == Garbage \notin Items
ASSUME NumbersAssumption ==
  /\ Length \in Nat \ {0} /\ IntMax \in Nat /\ MaxPushes \in Nat
  /\ Length <= IntMax

VARIABLES
  used, free,           \* the counts of the two semaphores
  items,                \* the slots
  head_idx, tail_idx,   \* ints, never reduced modulo the length
  cur_size,
  pc,                   \* the step each thread takes next
  op, val, idx, reg,    \* a call's function, item, slot, loaded cur_size
  sent,                 \* history: the items of all pushes, in claim order
  received              \* history: what the pops returned, in return order

shared == <<used, free, items, head_idx, tail_idx, cur_size>>
local  == <<op, val, idx, reg>>
vars   == <<shared, pc, local, sent, received>>

Slots == 0 .. Length - 1
Steps == {"idle", "claim", "access", "load", "store", "release"}
IsPush(t) == op[t] \in {"PushFront", "PushBack"}

-----------------------------------------------------------------------------
(* Arithmetic of C, and the semaphores.  The definitions marked as bugs are   *)
(* variants that the properties are tested with; the specification does not   *)
(* use them.                                                                  *)

\* InterlockedIncrement and InterlockedDecrement wrap around.
Wrap(n) == IF n > IntMax THEN -IntMax - 1
           ELSE IF n < -IntMax - 1 THEN IntMax ELSE n

\* Bug: the index runs over one slot too many.
WideMod(a) == a % (Length + 1)

\* a % length rounds towards zero: the result has the sign of a.
CMod(a) == IF a >= 0 THEN a % Length ELSE -((-a) % Length)

\* Bug: the token is not handed back.
NotReleased(count) == count

\* ReleaseSemaphore fails, unnoticed, when the count is at its maximum.
Released(count) == IF count < Length THEN count + 1 ELSE count

\* Bug: semaphoreGet does not wait.
NeverWaits(count) == TRUE

\* WaitForSingleObject on a semaphore.
CanGet(count) == count > 0

-----------------------------------------------------------------------------
Init ==
  /\ used = 0 /\ free = Length
  /\ items = [s \in Slots |-> Garbage]
  /\ head_idx = 0 /\ tail_idx = 0 /\ cur_size = 0
  /\ pc = [t \in Threads |-> "idle"]
  /\ op = [t \in Threads |-> "none"]
  /\ val = [t \in Threads |-> Garbage]
  /\ idx = [t \in Threads |-> 0]
  /\ reg = [t \in Threads |-> 0]
  /\ sent = << >> /\ received = << >>

Goto(t, step) == pc' = [pc EXCEPT ![t] = step]

\* A producer calls o with item i and gets a token of free.
PushGet(t, o, i) ==
  /\ pc[t] = "idle" /\ t \in Producers /\ Len(sent) < MaxPushes
  /\ CanGet(free)
  /\ free' = free - 1
  /\ op' = [op EXCEPT ![t] = o]
  /\ val' = [val EXCEPT ![t] = i]
  /\ Goto(t, "claim")
  /\ UNCHANGED <<used, items, head_idx, tail_idx, cur_size, idx, reg, sent, received>>

\* A consumer calls o and gets a token of used.
PopGet(t, o) ==
  /\ pc[t] = "idle" /\ t \in Consumers
  /\ CanGet(used)
  /\ used' = used - 1
  /\ op' = [op EXCEPT ![t] = o]
  /\ Goto(t, "claim")
  /\ UNCHANGED <<free, items, head_idx, tail_idx, cur_size, val, idx, reg, sent, received>>

Claim(t, o, index) ==
  /\ pc[t] = "claim" /\ op[t] = o
  /\ idx' = [idx EXCEPT ![t] = CMod(index)]
  /\ Goto(t, "access")
  /\ UNCHANGED <<used, free, items, cur_size, op, val, reg, received>>

ClaimPushFront(t) ==
  /\ Claim(t, "PushFront", head_idx)
  /\ head_idx' = Wrap(head_idx - 1)
  /\ sent' = Append(sent, val[t])
  /\ UNCHANGED tail_idx

ClaimPopFront(t) ==
  /\ Claim(t, "PopFront", head_idx)
  /\ head_idx' = Wrap(head_idx + 1)
  /\ UNCHANGED <<tail_idx, sent>>

ClaimPushBack(t) ==
  /\ Claim(t, "PushBack", tail_idx)
  /\ tail_idx' = Wrap(tail_idx + 1)
  /\ sent' = Append(sent, val[t])
  /\ UNCHANGED head_idx

ClaimPopBack(t) ==
  /\ Claim(t, "PopBack", tail_idx)
  /\ tail_idx' = Wrap(tail_idx - 1)
  /\ UNCHANGED <<head_idx, sent>>

\* A write outside items hits memory this module does not model.
Write(t) ==
  /\ pc[t] = "access" /\ IsPush(t)
  /\ items' = [s \in Slots |-> IF s = idx[t] THEN val[t] ELSE items[s]]
  /\ Goto(t, "load")
  /\ UNCHANGED <<used, free, head_idx, tail_idx, cur_size, local, sent, received>>

\* A read outside items yields whatever is there.
Read(t) ==
  /\ pc[t] = "access" /\ ~IsPush(t)
  /\ val' = [val EXCEPT ![t] = IF idx[t] \in Slots THEN items[idx[t]] ELSE Garbage]
  /\ Goto(t, "load")
  /\ UNCHANGED <<shared, op, idx, reg, sent, received>>

LoadSize(t) ==
  /\ pc[t] = "load"
  /\ reg' = [reg EXCEPT ![t] = cur_size]
  /\ Goto(t, "store")
  /\ UNCHANGED <<shared, op, val, idx, sent, received>>

StoreSize(t) ==
  /\ pc[t] = "store"
  /\ cur_size' = IF IsPush(t) THEN reg[t] + 1 ELSE reg[t] - 1
  /\ Goto(t, "release")
  /\ UNCHANGED <<used, free, items, head_idx, tail_idx, local, sent, received>>

PushRelease(t) ==
  /\ pc[t] = "release" /\ IsPush(t)
  /\ used' = Released(used)
  /\ Goto(t, "idle")
  /\ UNCHANGED <<free, items, head_idx, tail_idx, cur_size, local, sent, received>>

\* semaphoreRelease and the return of the popped item.
PopRelease(t) ==
  /\ pc[t] = "release" /\ ~IsPush(t)
  /\ free' = Released(free)
  /\ received' = Append(received, val[t])
  /\ Goto(t, "idle")
  /\ UNCHANGED <<used, items, head_idx, tail_idx, cur_size, local, sent>>

\* The steps of a call that has begun.
Continue(t) ==
  \/ ClaimPushFront(t) \/ ClaimPopFront(t) \/ ClaimPushBack(t) \/ ClaimPopBack(t)
  \/ Write(t) \/ Read(t)
  \/ LoadSize(t) \/ StoreSize(t)
  \/ PushRelease(t) \/ PopRelease(t)

Push(t) == \E o \in PushOps, i \in Items : PushGet(t, o, i)
Pop(t)  == \E o \in PopOps : PopGet(t, o)

Next == \E t \in Threads : Push(t) \/ Pop(t) \/ Continue(t)

Spec == Init /\ [][Next]_vars

\* Threads are scheduled, and a consumer is a loop that pops for ever, as the
\* worker loops of fs.c are.  Nobody is obliged to push.
Fairness ==
  /\ \A t \in Threads : WF_vars(Continue(t))
  /\ \A t \in Consumers : WF_vars(Pop(t))

FairSpec == Spec /\ Fairness

-----------------------------------------------------------------------------
SharedType ==
  /\ used \in 0 .. Length /\ free \in 0 .. Length
  /\ items \in [Slots -> Items \cup {Garbage}]
  /\ head_idx \in Int /\ tail_idx \in Int /\ cur_size \in Int

ThreadsType ==
  /\ pc \in [Threads -> Steps]
  /\ op \in [Threads -> PushOps \cup PopOps \cup {"none"}]
  /\ val \in [Threads -> Items \cup {Garbage}]
  /\ idx \in [Threads -> Int] /\ reg \in [Threads -> Int]

\* A call in progress is one its thread may make.
CallsType ==
  /\ \A t \in Producers : pc[t] # "idle" => op[t] \in PushOps /\ val[t] \in Items
  /\ \A t \in Consumers : pc[t] # "idle" => op[t] \in PopOps

HistoryType == sent \in Seq(Items) /\ received \in Seq(Items \cup {Garbage})

\* Every variable has its type.  The ints need not stay in the slots.
TypeOK == SharedType /\ ThreadsType /\ CallsType /\ HistoryType

InFlight == {t \in Threads : pc[t] # "idle"}

\* deque.c 37-69: every call in progress holds exactly one token, whatever the
\* mix of operations and threads, so the two semaphores never lose or invent
\* capacity and no release meets a full semaphore.
SemConservation == used + free + Cardinality(InFlight) = Length

\* The indices are free running; the tokens alone keep the claimed pushes
\* within one lap of the claimed pops.  For PushBack with PopFront, on any
\* number of threads, until an index wraps.
IndexWindow == 0 <= tail_idx - head_idx /\ tail_idx - head_idx <= Length

\* Pops return the pushed items in the order of the pushes, none twice, none
\* skipped: the promise of PushBack and PopFront in deque.h.
FIFO ==
  /\ Len(received) <= Len(sent)
  /\ \A k \in 1 .. Len(received) : received[k] = sent[k]

\* No thread reads or writes a slot that another thread is about to write.
NoSlotRace ==
  \A t, u \in Threads :
    (t # u /\ pc[t] = "access" /\ pc[u] = "access" /\ IsPush(t)) => idx[t] # idx[u]

\* "RETURN: item that has been popped": what a pop returns is something that
\* somebody pushed (deque.h 29-32, 38-41).
PoppedWasPushed == \A k \in 1 .. Len(received) : received[k] \in Items

(* Why one producer that pushes at the back and one consumer that pops at   *)
(* the front are in FIFO order: the inductive form of the invariants above.  *)

Claimed(t) == IF pc[t] \in {"access", "load", "store", "release"} THEN 1 ELSE 0
At(t, step) == IF pc[t] = step THEN 1 ELSE 0

\* The indices count the claims, the semaphores the tokens between them.
Counts(p, c) ==
  /\ tail_idx = Len(sent)
  /\ head_idx = Len(received) + Claimed(c)
  /\ used = (tail_idx - Claimed(p)) - (head_idx + At(c, "claim"))
  /\ free = Length - (tail_idx + At(p, "claim")) + Len(received)
  /\ Len(sent) + At(p, "claim") <= MaxPushes

\* Every item written and not yet returned is in its slot.
Kept(p) ==
  \A k \in Len(received) + 1 .. Len(sent) - At(p, "access") :
    items[(k - 1) % Length] = sent[k]

\* What the threads carry between claim and return.
Carried(p, c) ==
  /\ pc[p] = "access" =>
       idx[p] = (tail_idx - 1) % Length /\ val[p] = sent[tail_idx]
  /\ pc[c] = "access" => idx[c] = (head_idx - 1) % Length
  /\ pc[c] \in {"load", "store", "release"} => val[c] = sent[head_idx]

FifoInv ==
  /\ FIFO
  /\ \A p \in Producers, c \in Consumers :
       Counts(p, c) /\ Kept(p) /\ Carried(p, c)

\* Each push is answered by a pop: no item stays in the queue for ever.
Delivered ==
  \A k \in 1 .. MaxPushes : (Len(sent) >= k) ~> (Len(received) >= k)

\* A push takes effect when it claims its slot, a pop when it returns.
BQ == INSTANCE BoundedQueue WITH
        Capacity  <- Length,
        queue     <- SubSeq(sent, Len(received) + 1, Len(sent)),
        delivered <- received
ImplementsBoundedQueue == BQ!Spec
=============================================================================
