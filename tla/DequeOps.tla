------------------------------ MODULE DequeOps ------------------------------
(***************************************************************************)
(* dequePushBack and the two pops as the two steps another thread can      *)
(* tell apart, for the modules that use a deque (deque.c 45-69):           *)
(*   PushClaim   semaphoreGet(free), atomicInc(tail_idx)                   *)
(*   PushWrite   items[index] = item, semaphoreRelease(used)               *)
(*   PopClaim    semaphoreGet(used), atomicInc(head_idx)                   *)
(*   PopBackClaim  semaphoreGet(used), atomicDec(tail_idx)                 *)
(*   PopRead     read items[index], semaphoreRelease(free)                 *)
(* A second producer can still release a token for a slot that the first   *)
(* has claimed and not written.  The indices are kept modulo the length    *)
(* (Deque shows what happens when they wrap) and cur_size, which fs.c does *)
(* not read, is left out.                                                  *)
(***************************************************************************)
EXTENDS Naturals

CONSTANTS
  QueueLength,  \* the capacity given to dequeCreate
  Garbage       \* the content of a slot nobody wrote

ASSUME QueueLengthAssumption == QueueLength \in Nat \ {0}

NewDeque ==
  [used |-> 0, free |-> QueueLength, head |-> 0, tail |-> 0,
   slots |-> [s \in 0 .. QueueLength - 1 |-> Garbage]]

Deques(Contents) ==
  [used : 0 .. QueueLength, free : 0 .. QueueLength,
   head : 0 .. QueueLength - 1, tail : 0 .. QueueLength - 1,
   slots : [0 .. QueueLength - 1 -> Contents]]

NextIndex(n) == (n + 1) % QueueLength

\* Bug: a pop goes ahead as soon as a slot is claimed.
PopsClaimed(d) == d.free < QueueLength

\* The semaphores block a push on a full deque and a pop on an empty one.
CanPush(d) == d.free > 0
CanPop(d)  == d.used > 0

PushClaim(d) == [d EXCEPT !.free = @ - 1, !.tail = NextIndex(@)]
PushWrite(d, slot, item) == [d EXCEPT !.slots[slot] = item, !.used = @ + 1]

PopClaim(d) == [d EXCEPT !.used = @ - 1, !.head = NextIndex(@)]

\* Bug: the slot of a popped item is not given back.
NotGivenBack(d) == d

PopRead(d)  == [d EXCEPT !.free = @ + 1]

\* dequePopBack reads the slot at the old tail_idx, one behind the last item.
PopBackClaim(d) ==
  [d EXCEPT !.used = @ - 1, !.tail = (@ + QueueLength - 1) % QueueLength]

\* The slots that hold a released item, oldest first.
Waiting(d) == {(d.head + k) % QueueLength : k \in 0 .. d.used - 1}
=============================================================================
