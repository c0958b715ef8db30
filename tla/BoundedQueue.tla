---------------------------- MODULE BoundedQueue ----------------------------
(***************************************************************************)
(* What deque.h promises to a user who pushes at the back and pops at the  *)
(* front: a thread-safe FIFO queue of static capacity.  A push waits while *)
(* the queue is full, a pop waits while it is empty, and the items come    *)
(* out in the order in which they went in.                                 *)
(***************************************************************************)
EXTENDS Naturals, Sequences

CONSTANTS
  Items,      \* the values a caller may push
  Capacity    \* the capacity given when the queue was created

VARIABLES
  queue,      \* the items pushed and not yet popped, oldest first
  delivered   \* every item popped so far, in the order of the pops

qvars == <<queue, delivered>>

Init ==
  /\ queue = << >>
  /\ delivered = << >>

Put(i) ==
  /\ Len(queue) < Capacity
  /\ queue' = Append(queue, i)
  /\ UNCHANGED delivered

Take ==
  /\ queue # << >>
  /\ delivered' = Append(delivered, Head(queue))
  /\ queue' = Tail(queue)

Next == Take \/ \E i \in Items : Put(i)

Spec == Init /\ [][Next]_qvars
=============================================================================
