------------------------------- MODULE FsCodec -------------------------------
(***************************************************************************)
(* What a compressed write puts into a file and what a compressed read     *)
(* makes of it (fs.c 88-104, 149-267), in numbers of bytes.  The size of a *)
(* write goes through an int and a DWORD on its way.  lz4 is vendored:     *)
(* that n bytes compress to some c bytes, and c bytes that are all there   *)
(* decompress to the n bytes they came from, is taken for granted.         *)
(***************************************************************************)
EXTENDS Integers

CONSTANTS
  HalfRange,           \* an int goes from -HalfRange to HalfRange - 1: 2^31
  LZ4_MAX_INPUT_SIZE   \* the most bytes lz4 takes at once: 0x7E000000

sizeof_int == 4

DwordRange == 2 * HalfRange

ASSUME WidthAssumption ==
  /\ HalfRange \in Nat /\ LZ4_MAX_INPUT_SIZE \in Nat
  /\ sizeof_int < LZ4_MAX_INPUT_SIZE
  /\ LZ4_MAX_INPUT_SIZE + LZ4_MAX_INPUT_SIZE \div 255 + 16 + sizeof_int < HalfRange

\* A size as an int, and an int as a DWORD.
ToInt(n) ==
  LET low == n % DwordRange IN IF low < HalfRange THEN low ELSE low - DwordRange
Dword(i) == IF i < 0 THEN i + DwordRange ELSE i

Bytes(size) == 0 .. size - 1

\* fsWrite keeps the size of its caller as an int.
WorkSize(n) == ToInt(n)

\* What lz4 promises that so many bytes never exceed; 0 if it does not take them.
LZ4_compressBound(i) ==
  IF Dword(i) > LZ4_MAX_INPUT_SIZE THEN 0 ELSE i + i \div 255 + 16

\* fileCompress: the size of the compressed data, c for input that lz4 takes,
\* and behind it the data.
Allocated(n) == LZ4_compressBound(WorkSize(n)) + sizeof_int
CompressedSize(n, c) == IF LZ4_compressBound(WorkSize(n)) = 0 THEN 0 ELSE c

\* fileWrite writes work->size bytes, which is still the size before.
Written(n) == Dword(WorkSize(n))

\* A compressed read gives back the n bytes of a write whose WorkSize(n) bytes
\* became c: lz4 got all of them, fileRead finds all that lz4 made of them, and
\* fileDecompress, which makes as much room as the file is long, has room for
\* them.
Survives(n, c) ==
  /\ WorkSize(n) = n /\ CompressedSize(n, c) > 0
  /\ Bytes(sizeof_int + CompressedSize(n, c)) \subseteq Bytes(Written(n))
  /\ n <= ToInt(Written(n))
=============================================================================
