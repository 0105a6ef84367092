--------------------------- MODULE FilterPipeline ---------------------------
(***************************************************************************)
(* The filter pipeline of a chunk of two blocks: pipeline_c while a block  *)
(* is compressed, blosc_d and pipeline_d while it is decompressed or read  *)
(* by getitem.  Every step of a loop over the five slots is an action, and *)
(* the buffers the loops turn around are part of the state, so that what   *)
(* comes out depends on which buffer each filter reads and writes.         *)
(*                                                                         *)
(* A buffer holds block b under a stack of layers, one per filter that was *)
(* applied to it, or Junk: data nothing undoes.  TRUNC_PREC clears bits no *)
(* one can bring back, so only the bits it keeps are followed.  Block 1,   *)
(* the last, may have a tail, bytes after its last whole element, which    *)
(* not every filter copies.  typesize is 4 or 8, what truncate_precision   *)
(* accepts; the blocks are visited in the order of serial_blosc.           *)
(***************************************************************************)
EXTENDS Integers, Sequences

CONSTANTS MAX_FILTERS,   \* BLOSC_MAX_FILTERS
          Codes          \* filter codes in use

VARIABLES
  filters,        \* context->filters, slots 0 .. MAX_FILTERS - 1
  alone,          \* context->nthreads == 1
  dref_not_init,  \* context->dref_not_init
  eights,         \* a block has a multiple of eight elements
  tail,           \* block 1 has a tail
  mode,           \* what is being done
  block,          \* to which block
  slot,           \* i of the loop over the slots
  buf,            \* contents of the buffers
  chunk,          \* what the codec was given for each block
  role            \* _src, _dest and _tmp: the buffers they point to

vars == <<filters, alone, dref_not_init, eights, tail, mode, block, slot, buf, chunk, role>>

AllCodes == {"nofilter", "shuffle", "bitshuffle", "delta", "trunc_prec"}

ASSUME FilterCodes == Codes \subseteq AllCodes
ASSUME SlotCount == MAX_FILTERS \in Nat \ {0}

Slots == 0 .. MAX_FILTERS - 1
NoBlock == -1

-----------------------------------------------------------------------------
(* Contents *)

\* .tail: the tail of block 1 is there
Raw(b) == [of |-> b, layers |-> <<>>, tail |-> b = 1]
Spoiled(c) == [c EXCEPT !.of = NoBlock, !.layers = <<>>]
Junk == Spoiled(Raw(0))

Plain(c, b) == c.of = b /\ c.layers = <<>>

Under(c, l) == IF c.of = NoBlock THEN c ELSE [c EXCEPT !.layers = Append(@, l)]

Top(c) == IF c.layers = <<>> THEN "none" ELSE c.layers[Len(c.layers)]

Undone(c, l) ==
  IF Top(c) = l THEN [c EXCEPT !.layers = SubSeq(@, 1, Len(@) - 1)] ELSE Spoiled(c)

\* XOR with the reference: the same operation twice is none
Xored(c) == IF Top(c) = "delta" THEN Undone(c, "delta") ELSE Under(c, "delta")

\* delta_encoder: block 0 is coded against itself; its first element is
\* taken from the reference, whatever the filters before made of it.
DeltaEncoded(b, c) ==
  IF b # 0 \/ c.layers \in {<<>>, <<"delta">>} THEN Xored(c) ELSE Spoiled(c)

\* delta_decoder in place, with the buffer of the reference dref
DeltaDecoded(offset, c, dref) ==
  IF offset = 0
  THEN IF c.of = 0 /\ c.layers = <<"delta">> THEN Undone(c, "delta") ELSE Spoiled(c)
  ELSE IF Plain(dref, 0) THEN Xored(c) ELSE Spoiled(c)

\* truncate_precision: the mask fits only elements that are not shuffled
Truncated(c) ==
  IF \E k \in DOMAIN c.layers : c.layers[k] \in {"shuffle", "bitshuffle"} THEN Spoiled(c) ELSE c

\* bitshuffle and bitunshuffle copy when the elements do not come in eights
BitLayer(c) == IF eights THEN Under(c, "bitshuffle") ELSE c

BitUndone(c, scratchIsSource) ==
  CASE ~eights -> c
    [] eights /\ scratchIsSource -> Spoiled(c)   \* its first pass overwrites its input
    [] OTHER -> Undone(c, "bitshuffle")

\* Filters that go through whole elements and no further
ElementsOnly(f) == f \in {"delta", "trunc_prec"} \/ (f = "bitshuffle" /\ eights)

\* Filter f writes c to buffer x
Put(f, x, c) ==
  [buf EXCEPT ![x] =
     IF ElementsOnly(f) /\ tail /\ block = 1 THEN [c EXCEPT !.tail = buf[x].tail] ELSE c]

-----------------------------------------------------------------------------
(* Looking ahead in the pipeline *)

DoNothing(f, m) == f = "nofilter" \/ (m = "d" /\ f = "trunc_prec")

Busy(m) == {i \in Slots : ~DoNothing(filters[i], m)}

\* The filter the decompression meets after slot i
next_filter(i, m) ==
  LET below == {k \in Busy(m) : k < i}
  IN  IF below = {} THEN "nofilter"
      ELSE filters[CHOOSE k \in below : \A l \in below : l <= k]

\* The last slot the decompression visits
last_filter(m) ==
  IF Busy(m) = {} THEN -1 ELSE CHOOSE k \in Busy(m) : \A l \in Busy(m) : k <= l

-----------------------------------------------------------------------------
Output(b) == IF b = 0 THEN "dest0" ELSE "dest1"     \* dest + offset
Input(b) == IF b = 0 THEN "src0" ELSE "src1"        \* src + offset
Buffers == {"src0", "src1", "dest0", "dest1", "tmp", "tmp2", "tmp3", "tmp4"}

\* Where a decompression leaves its block: getitem gives tmp2 as dest and 0
\* as offset, for every block.
Target == IF mode = "getitem" THEN "tmp2" ELSE Output(block)
Reference == IF mode = "getitem" THEN "tmp2" ELSE "dest0"
Offset == IF mode = "getitem" THEN 0 ELSE block

\* Buffers not swapped
CycledInPlace(r) == [src |-> r.dest, dest |-> r.dest, tmp |-> r.tmp]
\* The old source taken for the new scratch
CycledKeepsTmp(r) == [src |-> r.dest, dest |-> r.tmp, tmp |-> r.src]

Cycled(r) == [src |-> r.dest, dest |-> r.tmp, tmp |-> r.dest]

Init ==
  /\ filters \in [Slots -> Codes]
  /\ alone \in BOOLEAN
  /\ eights \in BOOLEAN /\ tail \in BOOLEAN
  /\ dref_not_init = TRUE
  /\ mode = "start"
  /\ block = 0
  /\ slot = 0
  /\ buf = [x \in Buffers |-> IF x = "src0" THEN Raw(0) ELSE IF x = "src1" THEN Raw(1) ELSE Junk]
  /\ chunk = [b \in {0, 1} |-> Junk]
  /\ role = [src |-> "src0", dest |-> "tmp", tmp |-> "tmp2"]

Fixed == UNCHANGED <<filters, alone, eights, tail>>

(* blosc_c: without filters the codec reads the caller's buffer *)
BeginC(b) ==
  /\ mode' = "compress" /\ block' = b
  /\ slot' = IF last_filter("c") < 0 THEN MAX_FILTERS ELSE 0
  /\ role' = [src |-> Input(b), dest |-> "tmp", tmp |-> "tmp2"]

FilterC ==
  /\ mode = "compress" /\ slot < MAX_FILTERS
  /\ LET f == filters[slot]
         c == buf[role.src]
     IN  /\ buf' = CASE f = "nofilter" -> buf
                     [] f = "shuffle" -> Put(f, role.dest, Under(c, f))
                     [] f = "bitshuffle" -> [Put(f, role.dest, BitLayer(c)) EXCEPT !["tmp4"] = Spoiled(@)]
                     [] f = "delta" -> Put(f, role.dest, DeltaEncoded(block, c))
                     [] OTHER -> Put(f, role.dest, Truncated(c))
         /\ role' = IF f = "nofilter" THEN role ELSE Cycled(role)
  /\ slot' = slot + 1
  /\ Fixed /\ UNCHANGED <<dref_not_init, mode, block, chunk>>

(* The codec compresses what the pipeline returned, and the next block *)
Compressed ==
  /\ mode = "compress" /\ slot = MAX_FILTERS
  /\ chunk' = [chunk EXCEPT ![block] = buf[role.src]]
  /\ IF block = 0
     THEN BeginC(1)
     ELSE mode' = "compressed" /\ UNCHANGED <<block, slot, role>>
  /\ Fixed /\ UNCHANGED <<buf, dref_not_init>>

StartCompression ==
  /\ mode = "start"
  /\ BeginC(0)
  /\ Fixed /\ UNCHANGED <<buf, chunk, dref_not_init>>

-----------------------------------------------------------------------------
(* blosc_d: where the codec writes the block *)
CodecOutput(target) ==
  IF last_filter("d") >= 0 /\ next_filter(MAX_FILTERS, "d") # "delta" THEN "tmp" ELSE target

BeginD(b, m, target, second) ==
  /\ mode' = m /\ block' = b
  /\ slot' = IF last_filter("d") < 0 THEN -1 ELSE MAX_FILTERS - 1
  /\ buf' = [buf EXCEPT ![CodecOutput(target)] = chunk[b]]
  /\ role' = [src |-> "tmp", dest |-> second, tmp |-> "tmp4"]

StartDecompression ==
  /\ mode = "compressed"
  /\ dref_not_init' = TRUE
  /\ BeginD(0, "decompress", Output(0), "tmp2")
  /\ Fixed /\ UNCHANGED chunk

\* Not in place for the filter before a delta
FilterOutputLast(i) == IF last_filter("d") = i THEN Target ELSE role.dest

\* The buffer slot i writes: pipeline_d goes to the target for its last
\* filter and for the one before a delta, which is undone in place.
FilterOutput(i) ==
  IF last_filter("d") = i \/ next_filter(i, "d") = "delta" THEN Target ELSE role.dest

\* The thread of block 0 decodes the reference once; the others decode always
DeltaRuns == alone \/ Offset # 0 \/ dref_not_init

FilterD ==
  /\ mode \in {"decompress", "getitem"} /\ slot >= 0
  /\ LET f == filters[slot]
         out == FilterOutput(slot)
         r == [role EXCEPT !.dest = out]
         c == buf[role.src]
     IN  /\ buf' = CASE f = "shuffle" -> Put(f, out, IF out = role.src THEN Spoiled(c) ELSE Undone(c, f))
                     [] f = "bitshuffle" ->
                          [Put(f, out, BitUndone(c, role.tmp = role.src)) EXCEPT
                             ![role.tmp] = IF eights /\ role.tmp # out THEN Spoiled(@) ELSE @]
                     [] f = "delta" /\ DeltaRuns ->
                          Put(f, out, DeltaDecoded(Offset, buf[out], buf[Reference]))
                     [] OTHER -> buf
         /\ dref_not_init' = (dref_not_init /\ ~(f = "delta" /\ ~alone /\ Offset = 0))
         /\ slot' = IF last_filter("d") = slot THEN -1 ELSE slot - 1
         /\ role' = IF last_filter("d") # slot /\ f \notin {"nofilter", "trunc_prec"}
                    THEN Cycled(r) ELSE r
  /\ Fixed /\ UNCHANGED <<mode, block, chunk>>

Decompressed ==
  /\ mode = "decompress" /\ slot < 0
  /\ IF block = 0
     THEN BeginD(1, "decompress", Output(1), "tmp2")
     ELSE mode' = "decompressed" /\ UNCHANGED <<block, slot, buf, role>>
  /\ Fixed /\ UNCHANGED <<chunk, dref_not_init>>

(* _blosc_getitem of items of block b, with the context that decompressed *)
StartGetItem(b) ==
  /\ mode \in {"decompressed", "got"}
  /\ BeginD(b, "getitem", "tmp2", "tmp3")
  /\ Fixed /\ UNCHANGED <<chunk, dref_not_init>>

Got ==
  /\ mode = "getitem" /\ slot < 0
  /\ mode' = "got"
  /\ Fixed /\ UNCHANGED <<dref_not_init, block, slot, buf, chunk, role>>

Next ==
  \/ StartCompression \/ FilterC \/ Compressed
  \/ StartDecompression \/ FilterD \/ Decompressed
  \/ \E b \in {0, 1} : StartGetItem(b)
  \/ Got

Spec == Init /\ [][Next]_vars

-----------------------------------------------------------------------------
(* Properties *)

(* Types of the variables; what a buffer holds is a block under at most as *)
(* many layers as there are slots.                                         *)
TypeOK ==
  /\ filters \in [Slots -> AllCodes]
  /\ {alone, eights, tail, dref_not_init} \subseteq BOOLEAN
  /\ mode \in {"start", "compress", "compressed", "decompress", "decompressed", "getitem", "got"}
  /\ block \in {0, 1}
  /\ slot \in -1 .. MAX_FILTERS
  /\ DOMAIN buf = Buffers
  /\ \A x \in Buffers : buf[x].of \in {NoBlock, 0, 1} /\ Len(buf[x].layers) <= MAX_FILTERS
  /\ DOMAIN chunk = {0, 1}
  /\ role \in [src : Buffers, dest : Buffers, tmp : Buffers]

\* What a pipeline must look like to be undone: a bit shuffle is its last
\* filter (bitunshuffle of a later one uses its own input as scratch), a
\* delta its first one (it codes the block in place, before the others),
\* and a truncation sees the elements as they came.
Supported ==
  \A i \in Busy("d"), k \in Slots :
    k > i =>
      /\ filters[k] # "delta"
      /\ k \in Busy("d") => filters[i] # "bitshuffle"
      /\ filters[k] = "trunc_prec" => filters[i] = "delta"

(* The supported ones of all pipelines of MAX_FILTERS slots give back what *)
(* was compressed (pipeline_c, then pipeline_d); with one thread and with  *)
(* blocks that bitshuffle does not just copy, only they do.  The tail of   *)
(* the last block comes back when every filter copies it.                  *)
RoundTrip ==
  mode = "decompressed" =>
    LET right == \A b \in {0, 1} : Plain(buf[Output(b)], b)
    IN  /\ Supported => right
        /\ alone /\ eights /\ right => Supported
        /\ (\A i \in Slots : ~ElementsOnly(filters[i])) => buf["dest1"].tail

(* The items of a supported pipeline are read right exactly when it has no *)
(* delta, or the block is the first and the context runs one thread        *)
(* (_blosc_getitem calls blosc_d with offset 0 for every block).           *)
ItemsRead ==
  mode = "got" /\ Supported =>
    (Plain(buf["tmp2"], block) <=> ((\E i \in Slots : filters[i] = "delta") => alone /\ block = 0))

(* No filter of pipeline_c, nor of pipeline_d when the pipeline is         *)
(* supported, reads a buffer it is writing, and the caller's source is     *)
(* never written.                                                          *)
BuffersApart ==
  /\ buf["src0"] = Raw(0) /\ buf["src1"] = Raw(1)
  /\ mode = "compress" => role.src # role.dest
  /\ mode \in {"decompress", "getitem"} /\ slot \in Slots /\ Supported =>
       \/ filters[slot] \in {"nofilter", "delta", "trunc_prec"}
       \/ role.src # FilterOutput(slot)

(* README_HEADER.rst says that the filters of the five slots are applied   *)
(* "sequentially following the slot order"; were that so also backwards,   *)
(* every pipeline that loses nothing would give the data back.             *)
EveryPipelineRoundTrips ==
  mode = "decompressed" /\ (\A i \in Slots : filters[i] # "trunc_prec") =>
    \A b \in {0, 1} : Plain(buf[Output(b)], b)

(* blosc.h says that blosc_decompress decompresses src into dest: all of   *)
(* it, with the bytes after the last whole element, unless the pipeline    *)
(* loses data on purpose.                                                  *)
TailComesBack ==
  mode = "decompressed" /\ Supported /\ (\A i \in Slots : filters[i] # "trunc_prec")
    => buf["dest1"].tail

(* blosc.h says that getitem gets the items of src: those a decompression  *)
(* of the chunk gives.                                                     *)
ItemsAreTheChunks ==
  mode = "got" => (Plain(buf["tmp2"], block) <=> Plain(buf[Output(block)], block))

=============================================================================
