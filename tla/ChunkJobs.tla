----------------------------- MODULE ChunkJobs -----------------------------
(* The data of one compression or decompression request, as the fields of  *)
(* blosc2_context that describe it (context.h) and nothing else.           *)
(*                                                                         *)
(* Sizes are counted in units of 4 bytes, the size of one entry of bstarts *)
(* and of a quarter of the Blosc-1 header.  The contents of buffers are    *)
(* never spelled out: a buffer is the set of the regions that were last    *)
(* written to it, and a region says which block it holds and in what form. *)
EXTENDS Integers, FiniteSets

CONSTANTS
  Jobs,        \* the requests a caller may make (records, see IsJob)
  BlockSize    \* context->blocksize

MIN_HEADER == 4        \* BLOSC_MIN_HEADER_LENGTH, 16 bytes
EXTENDED_HEADER == 8   \* BLOSC_EXTENDED_HEADER_LENGTH, 32 bytes
MAX_OVERHEAD == 4      \* BLOSC_MAX_OVERHEAD, 16 bytes

(* A request.  nfull blocks are full and left units follow them; dest has  *)
(* destsize units.  memcpyed is the flag the header starts with, aligned   *)
(* says whether sourcesize is a multiple of L1.  csize[b] is what blosc_c  *)
(* returns for block b, and bad the blocks whose stream blosc_d rejects:   *)
(* both are functions of the data.  delta: the chunk used the delta filter *)
(* as its only filter.  A request to decompress into too small a dest ends *)
(* in initialize_context_decompression and is none of these; a source      *)
(* without bytes is smaller than BLOSC_MIN_BUFFERSIZE, and so is copied.   *)
NBlocks(j) == IF j.left > 0 THEN j.nfull + 1 ELSE j.nfull

SourceSize(j) == j.nfull * BlockSize + j.left

Blocks(j) == 0 .. (NBlocks(j) - 1)

IsJob(j) ==
  /\ j.compress \in BOOLEAN
  /\ j.nfull \in Nat
  /\ j.left \in 0 .. (BlockSize - 1)
  /\ j.destsize \in Nat
  /\ j.header \in {MIN_HEADER, EXTENDED_HEADER}
  /\ j.memcpyed \in BOOLEAN
  /\ j.aligned \in BOOLEAN
  /\ j.delta \in BOOLEAN
  /\ j.csize \in [Blocks(j) -> Int]
  /\ j.bad \in SUBSET Blocks(j)
  /\ ~j.compress => SourceSize(j) <= j.destsize
  /\ (j.compress /\ NBlocks(j) = 0) => j.memcpyed

ASSUME BlockSizeAssumption == BlockSize \in Nat \ {0}
ASSUME JobsAssumption == \A j \in Jobs : IsJob(j)
-----------------------------------------------------------------------------
\* bsize of the loops over blocks: the last block may be a leftover
BlockLen(j, b) == IF j.left > 0 /\ b = j.nfull THEN j.left ELSE BlockSize

\* The output_bytes a request starts with: room for the header and bstarts
\* when compressing, nothing when decompressing.
FirstOutput(j) == IF j.compress THEN j.header + NBlocks(j) ELSE 0

\* What f, of the numbers below n, adds up to over the members of S
SumOver(f, S, n) ==
  LET sum[k \in 0 .. n] ==
        IF k = 0 THEN 0 ELSE sum[k - 1] + (IF k - 1 \in S THEN f[k - 1] ELSE 0)
  IN  sum[n]
-----------------------------------------------------------------------------
(* Regions of a destination buffer *)
Region(b, at, len, form) == [block |-> b, at |-> at, len |-> len, form |-> form]

Disjoint(r, s) == r.at + r.len <= s.at \/ s.at + s.len <= r.at

\* A memcpy to a buffer: what it overlaps is no longer whole.
Write(buf, r) == {s \in buf : Disjoint(r, s)} \cup {r}

\* Block b stored as it is behind the header, or at its place in a
\* decompressed buffer.
Stored(j, b) == Region(b, MAX_OVERHEAD + b * BlockSize, BlockLen(j, b), "raw")
Plain(j, b) == Region(b, b * BlockSize, BlockLen(j, b), "raw")
Packed(j, b, at) == Region(b, at, j.csize[b], "packed")

\* The blocks that can be read back from a buffer that is the result `code`
\* of the request j: what blosc_d or getitem finds through bstarts, what the
\* memcpy of a MEMCPYED chunk finds, or the plain data.
Readable(j, memcpyed, bstarts, buf, code) ==
  {b \in Blocks(j) :
     CASE j.compress /\ ~memcpyed ->
            /\ Packed(j, b, bstarts[b]) \in buf
            /\ bstarts[b] >= FirstOutput(j)
            /\ bstarts[b] + j.csize[b] <= code
       [] j.compress /\ memcpyed -> Stored(j, b) \in buf
       [] OTHER -> Plain(j, b) \in buf}
=============================================================================
