-------------------------------- MODULE MCFs --------------------------------
(* Values for model checking Fs: the requests of each kind, what may fail; and *)
(* the sizes of FsCodec worked out for small files.                            *)
EXTENDS Fs, FsCodec

CONSTANTS r1, r2, r3, r4

None == {}
R1 == {r1}
R2 == {r2}
R3 == {r3}
R12 == {r1, r2}
R24 == {r2, r4}
R34 == {r3, r4}
R123 == {r1, r2, r3}
R124 == {r1, r2, r4}
R1234 == {r1, r2, r3, r4}
EveryFailure == {"path", "open", "size", "read", "write", "decompress"}
OpenFails == {"open"}

Smaller(a, b) == IF a < b THEN a ELSE b

\* What is left of the c bytes behind the header of a file of n bytes.
LeftOf(n, c) == SubSeq([k \in 1 .. c |-> k], 1, Smaller(n - sizeof_int, c))
ASSUME SmallFiles ==
  \A n \in 0 .. 3 * DwordRange, c \in 1 .. 24 :
    Survives(n, c) <=> n <= LZ4_MAX_INPUT_SIZE /\ Len(LeftOf(n, c)) = c
ASSUME WritesInside ==
  \A n \in 0 .. 3 * DwordRange :
    Written(n) <= Allocated(n) <=> n % DwordRange <= LZ4_MAX_INPUT_SIZE
=============================================================================
