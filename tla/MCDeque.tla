------------------------------ MODULE MCDeque ------------------------------
(* Values for model checking Deque: who pushes, who pops, and how. *)
EXTENDS Deque, TLC

CONSTANTS p1, p2, c1, c2, a, b, junk

One == {p1}
Two == {p1, p2}
Reader == {c1}
Readers == {c1, c2}
AB == {a, b}
OnlyA == {a}
Back == {"PushBack"}
FromFront == {"PopFront"}
FromBack == {"PopBack"}
AnyPush == {"PushFront", "PushBack"}
AnyPop == {"PopFront", "PopBack"}
Interchangeable == Permutations(Two) \cup Permutations(Readers)
=============================================================================
