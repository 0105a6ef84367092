----------------------------- MODULE ChunkLayout -----------------------------
(***************************************************************************)
(* How a buffer is cut into blocks (btune_cparams) and blocks into splits  *)
(* (split_block, blosc_c), where the pieces go in the chunk, and how       *)
(* blosc_d and _blosc_getitem find them again.  The compression is that of *)
(* serial_blosc, or that of t_blosc with its blocks in their order, where  *)
(* a block is first made in a buffer of its own.  A codec is any choice of *)
(* a size, 0 when it does not shrink its input; codecs are those that take *)
(* the room they have as an int (blosclz, lz4), so that less than none     *)
(* gives 0.  dest has room for the header and the block starts.  A context *)
(* is used for one buffer after another: the global one, whose chunks have *)
(* the header of Blosc-1, or one of the caller's, with the extended header.*)
(***************************************************************************)
EXTENDS Integers, Sequences, SequencesExt

CONSTANTS
  L1,               \* size of the L1 cache
  MIN_BUFFERSIZE,   \* BLOSC_MIN_BUFFERSIZE
  MAX_SPLITS,
  MAX_TYPESIZE,     \* BLOSC_MAX_TYPESIZE
  MIN_HEADER,       \* BLOSC_MIN_HEADER_LENGTH
  EXTENDED_HEADER,  \* BLOSC_EXTENDED_HEADER_LENGTH
  INT,              \* sizeof(int32_t)
  Requests,         \* what the caller may ask to compress
  Ranges,           \* for each request, the ranges of items read: <<start, n>>
  Again,            \* requests that may follow, in the global context
  SizesAgain        \* of buffers that may follow, in a context of the caller

ASSUME SizesPositive ==
  {L1, MIN_BUFFERSIZE, MAX_SPLITS, MAX_TYPESIZE, MIN_HEADER, EXTENDED_HEADER, INT} \subseteq Nat \ {0}
\* 32 KB, 128 and 4 bytes; headers of 16 and 32
ASSUME SizesInProportion == L1 >= 4 /\ MIN_BUFFERSIZE >= INT /\ MIN_HEADER <= EXTENDED_HEADER
ASSUME RequestsKnown ==
  Requests \subseteq [sourcesize : Nat, typesize : Nat \ {0}, clevel : 0 .. 9, splits : BOOLEAN,
                      hcr : BOOLEAN, blocksize : Nat, room : Nat, threads : BOOLEAN,
                      extended : BOOLEAN]
ASSUME AgainKnown == Again \subseteq Requests /\ SizesAgain \subseteq Nat
ASSUME RangesKnown == Ranges \in [Requests -> SUBSET (Int \X Nat)]

VARIABLES
  request,        \* blocksize: what btune_cparams finds in the context
  asked,          \* the block size that the caller asked for
  scratch,        \* block size and typesize the workers' buffers were laid out for
  phase,          \* of the call: "job", "copy", "done"
  j, split,       \* block and split that are next
  spent, ctbytes, \* ntbytes and ctbytes of blosc_c
  output_bytes,   \* of the chunk so far
  bstarts,        \* where each block starts
  pieces,         \* of the block: [block, split, at, len, form]
  chunk,          \* what was written: pieces as well
  memcpyed, result,
  items           \* what getitem returned

vars == <<request, asked, scratch, phase, j, split, spent, ctbytes, output_bytes, bstarts, pieces,
          chunk, memcpyed, result, items>>

Least(a, b) == IF a < b THEN a ELSE b
Most(a, b) == IF a > b THEN a ELSE b

-----------------------------------------------------------------------------
(* Blocks *)

SourceSize == request.sourcesize
TypeSize == IF request.typesize > MAX_TYPESIZE THEN 1 ELSE request.typesize

\* Block sizes by compression level, for L1 or for twice L1
Automatic ==
  LET base == IF request.hcr THEN 2 * L1 ELSE L1
  IN  CASE request.clevel = 0 -> base \div 4
        [] request.clevel \in 1 .. 4 -> base
        [] request.clevel = 5 -> 2 * base
        [] request.clevel = 6 -> 4 * base
        [] request.clevel \in 7 .. 8 -> 8 * base
        [] request.clevel = 9 -> IF request.hcr THEN 16 * base ELSE 8 * base

Wanted(user) ==
  IF user > 0 THEN Most(user, MIN_BUFFERSIZE)
  ELSE IF SourceSize >= L1 THEN Automatic ELSE SourceSize

btune_cparams(user) ==
  LET b == Least(Wanted(user), SourceSize)
  IN  IF SourceSize < TypeSize THEN 1
      ELSE IF b > TypeSize THEN (b \div TypeSize) * TypeSize ELSE b

BlockSize == btune_cparams(request.blocksize)
Leftover == SourceSize % BlockSize
NBlocks == SourceSize \div BlockSize + (IF Leftover > 0 THEN 1 ELSE 0)
IsLeftover(b) == b = NBlocks - 1 /\ Leftover > 0
BlockLen(b) == IF IsLeftover(b) THEN Leftover ELSE BlockSize

split_block ==
  request.splits /\ TypeSize <= MAX_SPLITS /\ BlockSize \div TypeSize >= MIN_BUFFERSIZE

\* Leftovers split like the others
SplitsOfAll(b) == IF split_block THEN TypeSize ELSE 1

Splits(b) == IF split_block /\ ~IsLeftover(b) THEN TypeSize ELSE 1

NeBlock(b) == BlockLen(b) \div Splits(b)

\* do_job: more than one block, and threads to share them
Threaded == request.threads /\ SourceSize \div BlockSize > 1

\* write_compression_header; blosc2_compress_ctx asks for the extended one
Header == IF request.extended THEN EXTENDED_HEADER ELSE MIN_HEADER

\* BLOSC_MAX_OVERHEAD: where stored data begins, over the filters of an
\* extended header
OVERHEAD == MIN_HEADER

DestSize == Header + INT * NBlocks + request.room

Ebsize == BlockSize + TypeSize * INT

-----------------------------------------------------------------------------
\* Where a call begins
FirstPhase == IF request.clevel = 0 \/ SourceSize < MIN_BUFFERSIZE THEN "copy" ELSE "job"
FirstOutput == Header + INT * NBlocks
FirstSpent == IF Threaded THEN 0 ELSE FirstOutput
NoStarts == [b \in 0 .. NBlocks - 1 |-> 0]

\* The temporaries of t_blosc, laid out anew when the block size changes
ForThisJob == [blocksize |-> BlockSize, typesize |-> TypeSize]
NeverResized(old, job) == IF old.blocksize = 0 THEN job ELSE old
Resized(old, job) == IF old.blocksize # job.blocksize THEN job ELSE old

Init ==
  /\ request \in Requests /\ asked = request.blocksize
  /\ scratch = IF Threaded THEN ForThisJob ELSE [blocksize |-> 0, typesize |-> 0]
  /\ phase = FirstPhase /\ memcpyed = (FirstPhase = "copy")
  /\ j = 0 /\ split = 0
  /\ output_bytes = FirstOutput /\ spent = FirstSpent /\ ctbytes = 0
  /\ bstarts = NoStarts
  /\ pieces = {} /\ chunk = {}
  /\ result = -1
  /\ items = <<>>

Fixed == UNCHANGED <<request, asked, scratch, items>>

\* What blosc_c may use for the block: the chunk, or a buffer of its own
Maxbytes == IF Threaded THEN Ebsize ELSE DestSize

\* Sizes a codec may return for n bytes and this much room
CodecSizes(n, maxout) == {0} \cup ({1, n - 1, n} \cap 1 .. maxout)

\* A split that does not shrink is copied when there is room for it.
RawFits(room, n) == n <= room

GiveUp ==
  /\ phase' = "copy" /\ memcpyed' = TRUE
  /\ Fixed /\ UNCHANGED <<j, split, spent, ctbytes, output_bytes, bstarts, pieces, chunk, result>>

(* One turn of the loop of blosc_c *)
CompressSplit ==
  /\ phase = "job" /\ j < NBlocks /\ split < Splits(j)
  /\ LET n == NeBlock(j)
         room == Maxbytes - (spent + INT)
         maxout == Least(n, room)
     IN  \/ /\ \/ room = 0
               \/ 0 \in CodecSizes(n, maxout) /\ ~RawFits(room, n)
            /\ GiveUp
         \/ /\ room # 0
            /\ \E c \in CodecSizes(n, maxout) :
                 LET raw == c \in {0, n}
                     len == IF raw THEN n ELSE c
                 IN  /\ raw => RawFits(room, n)
                     /\ pieces' = pieces \cup
                          {[block |-> j, split |-> split, at |-> ctbytes + INT, len |-> len,
                            form |-> IF raw THEN "raw" ELSE "coded"]}
                     /\ spent' = spent + INT + len /\ ctbytes' = ctbytes + INT + len
            /\ split' = split + 1
            /\ Fixed /\ UNCHANGED <<phase, j, output_bytes, bstarts, chunk, memcpyed, result>>

Apart(a, b) == a.at + a.len <= b.at \/ b.at + b.len <= a.at

\* What is written over something else leaves nothing of it
Written(old, new) == {a \in old : \A b \in new : Apart(a, b)} \cup new

\* Each piece where the next one belongs
PlaceBlockShifted(at) == {[p EXCEPT !.at = @ + at + p.len + INT] : p \in pieces}

PlaceBlock(at) == {[p EXCEPT !.at = @ + at] : p \in pieces}

\* No look at the size of dest
AnyPlace(cbytes) == TRUE
Fits(cbytes) == ~Threaded \/ output_bytes + cbytes <= DestSize

(* The end of blosc_c for the block, and the next one *)
NextBlock ==
  /\ phase = "job" /\ j < NBlocks /\ split = Splits(j)
  /\ \/ ~Fits(ctbytes) /\ GiveUp
     \/ /\ Fits(ctbytes)
        /\ bstarts' = [bstarts EXCEPT ![j] = output_bytes]
        /\ chunk' = Written(chunk, PlaceBlock(output_bytes))
        /\ output_bytes' = output_bytes + ctbytes
        /\ spent' = IF Threaded THEN 0 ELSE output_bytes + ctbytes
        /\ j' = j + 1 /\ split' = 0 /\ pieces' = {} /\ ctbytes' = 0
        /\ Fixed /\ UNCHANGED <<phase, memcpyed, result>>

EndJob ==
  /\ phase = "job" /\ j = NBlocks
  /\ phase' = "done" /\ result' = output_bytes
  /\ Fixed /\ UNCHANGED <<j, split, spent, ctbytes, output_bytes, bstarts, pieces, chunk, memcpyed>>

CopyFits == SourceSize + OVERHEAD <= DestSize

Stored(b) ==
  [block |-> b, split |-> 0, at |-> OVERHEAD + b * BlockSize, len |-> BlockLen(b), form |-> "raw"]

(* The plain copy, block after block or at once: the source after OVERHEAD *)
Copy ==
  /\ phase = "copy"
  /\ phase' = "done"
  /\ IF CopyFits
     THEN /\ chunk' = Written(chunk, {Stored(b) : b \in 0 .. NBlocks - 1})
          /\ result' = SourceSize + OVERHEAD
     ELSE UNCHANGED chunk /\ result' = 0
  /\ Fixed /\ UNCHANGED <<j, split, spent, ctbytes, output_bytes, bstarts, pieces, memcpyed>>

-----------------------------------------------------------------------------
(* Reading *)

\* What blosc_d finds at a position where it expects n bytes of split i
FoundAt(at, b, i, n) ==
  {p \in chunk : p.at = at + INT /\ p.block = b /\ p.split = i /\ (p.form = "raw" <=> p.len = n)}

\* blosc_d: from split to split, each after the length of the last one
Walk(b) ==
  LET at[i \in 0 .. Splits(b)] ==
        IF i = 0 THEN bstarts[b]
        ELSE LET found == FoundAt(at[i - 1], b, i - 1, NeBlock(b))
             IN  IF at[i - 1] >= 0 /\ found # {}
                 THEN at[i - 1] + INT + (CHOOSE p \in found : TRUE).len
                 ELSE -1
  IN  at[Splits(b)]

\* The block comes back: all of its bytes, since NeBlock * Splits is BlockLen
blosc_d(b) ==
  IF memcpyed
  THEN Stored(b) \in chunk
  ELSE Walk(b) >= 0

\* Items up to the end of the block, wherever the request stops
StopAtBlock(stopb) == BlockSize
ClipStop(stopb) == Least(stopb, BlockSize)

\* The blocks getitem copies from, and the bytes it copies out of one:
\* [from, upto) of the source
Touched(start, stop) ==
  {b \in 0 .. NBlocks - 1 :
     start * TypeSize - b * BlockSize < BlockSize /\ stop * TypeSize - b * BlockSize > 0}

FromBlock(b, start, stop) ==
  [from |-> b * BlockSize + Most(start * TypeSize - b * BlockSize, 0),
   upto |-> b * BlockSize + ClipStop(stop * TypeSize - b * BlockSize)]

(* _blosc_getitem, of a compressed chunk *)
GetItem(start, n) ==
  LET stop == start + n
      outside == start < 0 \/ start * TypeSize > SourceSize \/ stop < 0 \/ stop * TypeSize > SourceSize
  IN  /\ phase = "done" /\ result > 0 /\ items = <<>>
      /\ items' = << [start |-> start, stop |-> stop, error |-> outside,
                      got |-> IF outside THEN <<>>
                              ELSE [b \in Touched(start, stop) |-> FromBlock(b, start, stop)]] >>
      /\ UNCHANGED <<request, asked, scratch, phase, j, split, spent, ctbytes, output_bytes, bstarts,
                     pieces, chunk, memcpyed, result>>

-----------------------------------------------------------------------------
(* The next buffer, whose request is given *)
Begin ==
  /\ phase = "done"
  /\ scratch' = IF Threaded' THEN Resized(scratch, ForThisJob') ELSE scratch
  /\ phase' = FirstPhase' /\ memcpyed' = (FirstPhase' = "copy")
  /\ j' = 0 /\ split' = 0
  /\ output_bytes' = FirstOutput' /\ spent' = FirstSpent' /\ ctbytes' = 0
  /\ bstarts' = NoStarts'
  /\ pieces' = {} /\ chunk' = {}
  /\ result' = -1
  /\ items' = <<>>

(* blosc_compress: all parameters are those of the call *)
CompressGlobal ==
  ~request.extended /\ \E q \in Again : ~q.extended /\ request' = q /\ asked' = q.blocksize /\ Begin

(* blosc2_compress_ctx: all but the size are the context's, and its        *)
(* blocksize is the one that btune_cparams left there                      *)
CompressCtx ==
  request.extended /\ \E n \in SizesAgain :
    request' = [request EXCEPT !.sourcesize = n, !.blocksize = BlockSize] /\ asked' = asked /\ Begin

Next ==
  \/ CompressSplit \/ NextBlock \/ EndJob \/ Copy
  \/ request \in Requests /\ \E range \in Ranges[request] : GetItem(range[1], range[2])
  \/ CompressGlobal \/ CompressCtx

Spec == Init /\ [][Next]_vars

-----------------------------------------------------------------------------
(* Properties *)

(* Types, and that output_bytes never passes the end of dest.              *)
TypeOK ==
  /\ DestSize \in Nat /\ phase \in {"job", "copy", "done"}
  /\ j \in 0 .. NBlocks /\ split \in 0 .. TypeSize
  /\ spent \in 0 .. Maxbytes /\ output_bytes \in 0 .. DestSize
  /\ DOMAIN bstarts = 0 .. NBlocks - 1
  /\ memcpyed \in BOOLEAN /\ result \in -1 .. DestSize

(* Blocks and splits leave no byte of the source out (btune.c:40-115,      *)
(* blosc.c:653-660): splits share their block evenly, no block is empty or *)
(* reaches past the end, every byte of the source is in one, and blocks    *)
(* that hold more than one item hold whole items.                          *)
NothingLeftOut ==
  /\ BlockSize > TypeSize => BlockSize % TypeSize = 0
  /\ \A b \in 0 .. NBlocks - 1 :
       /\ Splits(b) * NeBlock(b) = BlockLen(b) /\ BlockLen(b) > 0
       /\ b * BlockSize + BlockLen(b) <= SourceSize
  /\ \A i \in 0 .. SourceSize - 1 :
       \E b \in 0 .. NBlocks - 1 : i - b * BlockSize \in 0 .. BlockLen(b) - 1

(* A piece that is written stays in dest, behind the header and the block  *)
(* starts of a compressed chunk (behind OVERHEAD when it is stored), and   *)
(* apart from every other.                                                 *)
PiecesApart ==
  \A p \in chunk :
    /\ p.at >= (IF memcpyed /\ phase = "done" THEN OVERHEAD ELSE Header + INT * NBlocks)
    /\ p.at + p.len <= DestSize
    /\ \A q \in chunk : p # q => Apart(p, q)

(* Every block of a chunk that was made is found by the walk of blosc_d.   *)
Restored == phase = "done" /\ result > 0 => \A b \in 0 .. NBlocks - 1 : blosc_d(b)

(* blosc.h: with a dest of nbytes + BLOSC_MAX_OVERHEAD "the compression    *)
(* will always succeed"; and it fails only when the plain copy has no room.*)
AlwaysSucceeds == phase = "done" => (result > 0 <=> SourceSize + OVERHEAD <= DestSize \/ ~memcpyed)

(* A block in a buffer of its own always fits: a thread gives up only      *)
(* because of the size of dest (blosc.c:1975, 2013).  tmp2 may be shorter  *)
(* than maxbytes says, laid out for a smaller typesize and the same block  *)
(* size (blosc.c:1918); what is written beyond its end goes over the start *)
(* of tmp3, where the filtered block may be, but only over splits that     *)
(* were compressed before.                                                 *)
OwnBufferSuffices ==
  Threaded /\ phase = "job" /\ j < NBlocks /\ split < Splits(j) =>
    LET beyond == spent + INT + NeBlock(j) - (scratch.blocksize + INT * scratch.typesize)
    IN  /\ RawFits(Ebsize - (spent + INT), NeBlock(j))
        /\ beyond <= split * NeBlock(j)

ItemExact(item) ==
  LET g == item.got
      from == item.start * TypeSize
      upto == item.stop * TypeSize
  IN  /\ item.error <=> from < 0 \/ upto > SourceSize
      /\ ~item.error =>
           IF from = upto THEN \A b \in DOMAIN g : g[b].from = g[b].upto
           ELSE /\ \E b \in DOMAIN g : g[b].from = from /\ \A c \in DOMAIN g : b <= c
                /\ \E b \in DOMAIN g : g[b].upto = upto /\ \A c \in DOMAIN g : c <= b
                /\ \A b, c \in DOMAIN g :
                     b < c => b + 1 \in DOMAIN g /\ g[b].upto = g[b + 1].from

(* getitem gives the items that were asked for, one after the other: from  *)
(* block to block it goes on where it stopped, and skips none.  It is an   *)
(* error exactly when some are not in the chunk.                           *)
ItemsExact == \A i \in DOMAIN items : ItemExact(items[i])

(* btune.c says that the blocksize "*must absolutely* be a multiple of the *)
(* typesize".                                                              *)
BlocksizeIsMultiple == SourceSize >= TypeSize => BlockSize % TypeSize = 0

(* blosc.h:491-492 says of cparams.blocksize "0; meaning automatic".       *)
AutomaticStays == asked = 0 => BlockSize = btune_cparams(0)
=============================================================================
