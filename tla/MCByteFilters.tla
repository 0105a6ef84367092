---------------------------- MODULE MCByteFilters ----------------------------
(* Blocks for TLC: around one and two registers of elements (16 and 32) for *)
(* every case of the type's size, and those long enough for the loops over  *)
(* the rows of bits (128 elements for sse2, 256 for avx2).                  *)
EXTENDS ByteFilters

CONSTANTS Typesizes, Sizes

Block(t, s, r) == [typesize |-> t, size |-> s, tail |-> r]
RoundBlocks == {Block(4, 32, 0), Block(24, 32, 0)}
LongBlocks == {Block(1, 136, 0), Block(2, 144, 1), Block(4, 264, 3)}
MCBlocks ==
  {Block(t, s, IF t = 1 THEN 0 ELSE 1) : t \in Typesizes, s \in Sizes} \cup RoundBlocks \cup LongBlocks
=============================================================================
