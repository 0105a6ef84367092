----------------------------- MODULE ByteFilters -----------------------------
(***************************************************************************)
(* One block through one filter and back: the case of a filter in          *)
(* pipeline_c, then the one in pipeline_d, with the routines of whichever  *)
(* implementation shuffle.c chose on the host that compresses and on the   *)
(* one that decompresses.  A chunk is a file format: the two hosts need    *)
(* not have the same processor.                                            *)
(***************************************************************************)
EXTENDS VectorFilters, FiniteSets

CONSTANTS
  Blocks,      \* of [typesize, size, tail]: elements, and bytes after them
  Precisions   \* values of filters_meta for trunc_prec

ASSUME BlocksAssumption == Blocks \subseteq [typesize : Nat \ {0}, size : Nat \ {0}, tail : Nat]
ASSUME PrecisionsAssumption == Precisions \subseteq 1 .. 52

Implementations == {"generic", "sse2", "avx2", "neon"}
Filters == {"shuffle", "bitshuffle", "delta", "trunc_prec"}

VARIABLES
  block,      \* its shape
  filter,
  prec_bits,  \* filters_meta, when the filter is trunc_prec
  offset,     \* of the block in the chunk: 0 for the reference of delta
  phase,
  data        \* what the last filter left in its destination

vars == <<block, filter, prec_bits, offset, phase, data>>

blocksize == block.typesize * block.size + block.tail
Positions == 0 .. blocksize - 1

\* Input bits are numbered from 0; those of the reference block, when it is
\* another one, and what a buffer held before are numbered apart.
Src == [k \in Positions |-> [p \in 0 .. 7 |-> {8 * k + p}]]
Dref == IF offset = 0 THEN Src ELSE [k \in Positions |-> [p \in 0 .. 7 |-> {8 * (k + blocksize) + p}]]
StaleByte == [p \in 0 .. 7 |-> {-1}]
Stale == [k \in Positions |-> StaleByte]

Init ==
  /\ block \in Blocks /\ block.tail < block.typesize
  /\ filter \in Filters
  /\ prec_bits \in Precisions /\ (filter # "trunc_prec" => prec_bits = 1)
  /\ filter = "trunc_prec" => block.typesize \in {4, 8} /\ prec_bits <= Mantissa(block.typesize)
  /\ offset \in {0, blocksize} /\ (filter # "delta" => offset = 0)
  /\ phase = "new" /\ data = Src
-----------------------------------------------------------------------------
(* What host_implementation points to *)
VectorWidth(impl) == IF impl = "sse2" THEN 16 ELSE 32

shuffle(impl, src, dest) ==
  CASE impl = "generic" -> shuffle_generic_inline(block.typesize, 0, blocksize, src, dest)
    [] impl = "neon" -> shuffle_neon(block.typesize, blocksize, src, dest)
    [] OTHER -> shuffle_vector(VectorWidth(impl), block.typesize, blocksize, src, dest)

unshuffle(impl, src, dest) ==
  CASE impl = "generic" -> unshuffle_generic_inline(block.typesize, 0, blocksize, src, dest)
    [] impl = "neon" -> unshuffle_neon(block.typesize, blocksize, src, dest)
    [] OTHER -> unshuffle_vector(VectorWidth(impl), block.typesize, blocksize, src, dest)

\* bitshuffle and bitunshuffle copy the block when its elements do not come
\* in eights.
InEights(size) == size % 8 = 0

bitshuffle(impl, src, dest, tmp) ==
  IF ~InEights(block.size) THEN src
  ELSE IF impl \in {"generic", "neon"}
  THEN trans_bit_elem_scal(src, dest, block.size, block.typesize, tmp)
  ELSE trans_bit_elem_vector(VectorWidth(impl), src, dest, block.size, block.typesize, tmp)

bitunshuffle(impl, src, dest, tmp) ==
  IF ~InEights(block.size) THEN src
  ELSE IF impl \in {"generic", "neon"}
  THEN untrans_bit_elem_scal(src, dest, block.size, block.typesize, tmp)
  ELSE untrans_bit_elem_vector(VectorWidth(impl), src, dest, block.size, block.typesize, tmp)

\* pipeline_c, one slot
Apply(impl) ==
  CASE filter = "shuffle" -> shuffle(impl, Src, Stale)
    [] filter = "bitshuffle" -> bitshuffle(impl, Src, Stale, Stale)
    [] filter = "delta" -> delta_encoder(Dref, offset, blocksize, block.typesize, Src, Stale)
    [] filter = "trunc_prec" -> truncate_precision(prec_bits, block.typesize, blocksize, Src, Stale)

\* pipeline_d, one slot; trunc_prec is not undone
Undo(impl) ==
  CASE filter = "shuffle" -> unshuffle(impl, data, Stale)
    [] filter = "bitshuffle" -> bitunshuffle(impl, data, Stale, Stale)
    [] filter = "delta" -> delta_decoder(Dref, offset, blocksize, block.typesize, data)
    [] filter = "trunc_prec" -> data

Compress ==
  /\ phase = "new" /\ phase' = "filtered"
  /\ \E impl \in Implementations : data' = Apply(impl)
  /\ UNCHANGED <<block, filter, prec_bits, offset>>

Decompress ==
  /\ phase = "filtered" /\ phase' = "undone"
  /\ \E impl \in Implementations : data' = Undo(impl)
  /\ UNCHANGED <<block, filter, prec_bits, offset>>

Next == Compress \/ Decompress
Spec == Init /\ [][Next]_vars
-----------------------------------------------------------------------------
(* Properties *)

\* Where the whole elements are
Whole == 0 .. block.typesize * block.size - 1

\* Bit p of byte k, counted through the elements, and where the two
\* transpositions bring it
Shuffled(k) == (k % block.size) * block.typesize + k \div block.size
Bitshuffled(k, p) ==
  LET bit == 8 * k + p
      element == bit % block.size
  IN element * 8 * block.typesize + bit \div block.size

(* Types: a buffer of the block's length; each of its bits is cleared, a   *)
(* bit of the input or what was in the buffer before, or, after delta, the *)
(* XOR of two.                                                             *)
TypeOK ==
  /\ phase \in {"new", "filtered", "undone"}
  /\ DOMAIN data = Positions
  /\ \A k \in Positions : \A bit \in {data[k][p] : p \in 0 .. 7} :
       /\ bit \subseteq -1 .. 16 * blocksize - 1
       /\ Cardinality(bit) <= IF filter = "delta" THEN 2 ELSE 1

(* The networks of unpack instructions and the swaps of TRANS_BIT_8X8      *)
(* compute the transpositions that the chunk format is made of: byte k of  *)
(* a shuffled block, and every bit of a bitshuffled one, is the same from  *)
(* each implementation (shuffle.c:281-316), so that it does not matter     *)
(* which one a host chose (:340-346).                                      *)
SameFormat ==
  phase = "filtered" =>
    /\ filter = "shuffle" => \A k \in Whole : data[k] = Src[Shuffled(k)]
    /\ filter = "bitshuffle" /\ block.size % 8 = 0 =>
         \A k \in Whole, p \in 0 .. 7 : data[k][p] = {Bitshuffled(k, p)}

(* Each implementation gives back every bit of every whole element that    *)
(* any of them filtered; trunc_prec keeps the bits above those it zeroes,  *)
(* sign, exponent and prec_bits of the mantissa (trunc-prec.c:19-45).      *)
Restored ==
  phase = "undone" =>
    \A k \in Whole, p \in 0 .. 7 :
      \/ data[k][p] = Src[k][p]
      \/ /\ filter = "trunc_prec" /\ data[k][p] = {}
         /\ 8 * (k % block.typesize) + p < Mantissa(block.typesize) - prec_bits

(* The bytes after the last whole element come back after shuffle, and     *)
(* after bitshuffle where it only copies; bitshuffle, trunc_prec and, for  *)
(* a typesize of 4 or 8, delta never write them (delta.c:32-90,            *)
(* trunc-prec.c:60).  This is what FilterPipeline takes for granted.       *)
TailAsModelled ==
  phase = "undone" /\ (filter = "delta" => block.typesize \in {4, 8}) =>
    \A k \in Positions \ Whole :
      data[k] = IF filter = "shuffle" \/ (filter = "bitshuffle" /\ block.size % 8 # 0)
                THEN Src[k] ELSE StaleByte
=============================================================================
