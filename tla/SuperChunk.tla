----------------------------- MODULE SuperChunk ------------------------------
(***************************************************************************)
(* A super-chunk (schunk.c): chunks appended to it, its counters, and its  *)
(* packed form, one buffer with a header, the chunks and a table of their  *)
(* offsets.  The packed header is memory: words of 4 bytes, since the      *)
(* functions do not agree on where its 8-byte fields are, and one that     *)
(* reads between two fields gets a half of each.  All numbers fit in a     *)
(* word, so that the second half of a field is 0.                          *)
(***************************************************************************)
EXTENDS Integers, Sequences, SequencesExt

CONSTANTS
  HEADER,       \* sizeof(blosc2_schunk)
  Buffers,      \* what is appended: [nbytes, cbytes], cbytes of its chunk
  MaxChunks     \* bound on the chunks of a super-chunk

POINTER == 8    \* sizeof(void*) and sizeof(int64_t)

NoChunk == [nbytes |-> 0, cbytes |-> 0]
Kinds == 1 .. 4                \* filters, codec, metadata, userdata

ASSUME HeaderSize == HEADER \in Nat /\ HEADER % 4 = 0 /\ HEADER >= 96
ASSUME BufferSizes == Buffers \subseteq [nbytes : Nat \ {0}, cbytes : Nat \ {0}]

VARIABLES
  data,            \* schunk->data
  ancillary,       \* the four special chunks, NoChunk when NULL
  nbytes, cbytes,  \* schunk->nbytes, schunk->cbytes
  packed,          \* the packed buffer
  unpacked,        \* what blosc2_unpack_schunk made of it
  read             \* and blosc2_packed_decompress_chunk of its last chunk

vars == <<data, ancillary, nbytes, cbytes, packed, unpacked, read>>

Undefined == "undefined"
Nothing == [state |-> "none"]

\* The sum of the first n of the sizes
SumTo(sizes, n) ==
  LET sum[i \in 0 .. n] == IF i = 0 THEN 0 ELSE sum[i - 1] + sizes[i] IN sum[n]

Sizes(chunks) == [i \in DOMAIN chunks |-> chunks[i].cbytes]
Lengths(chunks) == [i \in DOMAIN chunks |-> chunks[i].nbytes]

-----------------------------------------------------------------------------
(* Memory of the packed header *)

Word(o) == o \div 4

\* What malloc left, and what the copy of the struct brings besides numbers
Unset == -1
\* A number of 2^32 or more, which is none of those written
Huge == -2

Write64(words, o, v) == [words EXCEPT ![Word(o)] = v, ![Word(o) + 1] = 0]

Read64(words, o) ==
  LET lo == words[Word(o)]
      hi == words[Word(o) + 1]
  IN  IF Unset \in {lo, hi} THEN Unset ELSE IF hi = 0 THEN lo ELSE Huge

-----------------------------------------------------------------------------
Init ==
  /\ data = <<>>
  /\ ancillary \in [Kinds -> {NoChunk} \cup Buffers]
  /\ nbytes = 0
  /\ cbytes = HEADER
  /\ packed = Nothing /\ unpacked = Nothing /\ read = Nothing

\* The counters before the pointer of the chunk was counted
CountOnlyData(c) == nbytes' = nbytes + c.nbytes /\ cbytes' = cbytes + c.cbytes

Count(c) == nbytes' = nbytes + c.nbytes /\ cbytes' = cbytes + c.cbytes + POINTER

(* blosc2_append_buffer, whose compression may fail *)
AppendBuffer(c) ==
  /\ Len(data) < MaxChunks
  /\ data' = data \o <<c>>
  /\ Count(c)
  /\ UNCHANGED <<ancillary, packed, unpacked, read>>

-----------------------------------------------------------------------------
(* blosc2_pack_schunk *)

\* With a pointer for each chunk
blosc2_get_packed_length ==
  HEADER + SumTo(Sizes(ancillary), 4)
    + SumTo([i \in DOMAIN data |-> POINTER + data[i].cbytes], Len(data))

\* The table of offsets ends the buffer.
TableOffset == blosc2_get_packed_length - POINTER * Len(data)

\* One after the other
Place(chunks, from) == [i \in DOMAIN chunks |-> from + SumTo(Sizes(chunks), i - 1)]

\* As if there were no special chunks
DataStartHeader == HEADER
DataStart == HEADER + SumTo(Sizes(ancillary), 4)

\* Offsets of the special chunks, 0 for those there are not
AncillaryOffsets ==
  [k \in Kinds |-> IF ancillary[k] = NoChunk THEN 0 ELSE HEADER + SumTo(Sizes(ancillary), k - 1)]

\* Its own count of what it packed
PackedBytes == DataStart + SumTo(Sizes(data), Len(data)) + POINTER * Len(data)
PackedNbytes ==
  HEADER + SumTo(Lengths(ancillary), 4) + SumTo(Lengths(data), Len(data)) + POINTER * Len(data)

Malloced == [w \in 0 .. Word(HEADER) - 1 |-> Unset]

\* The first forty bytes of the struct end with its nchunks.
CopyStruct(m) == Write64(m, 32, Len(data))

CopyAncillary(m) ==
  LET one == Write64(m, 40, AncillaryOffsets[1])
      two == Write64(one, 48, AncillaryOffsets[2])
      three == Write64(two, 56, AncillaryOffsets[3])
  IN  Write64(three, 64, AncillaryOffsets[4])

WriteFields(m) ==
  LET table == Write64(CopyAncillary(m), 72, TableOffset)
      chunks == Write64(table, 16, Len(data))
      bytes == Write64(chunks, 24, PackedNbytes)
  IN  Write64(bytes, 32, PackedBytes)

\* The copy after the fields
FieldsThenStruct == CopyStruct(WriteFields(Malloced))
PackedWords == WriteFields(CopyStruct(Malloced))

Pack ==
  /\ packed = Nothing
  /\ packed' = [state |-> "packed", words |-> PackedWords, length |-> blosc2_get_packed_length,
                chunks |-> data, offsets |-> Place(data, DataStart),
                table |-> TableOffset]
  /\ UNCHANGED <<data, ancillary, nbytes, cbytes, unpacked, read>>

-----------------------------------------------------------------------------
(* The functions that read a packed super-chunk *)

\* Fields where the readers look for them
Nchunks == Read64(packed.words, 28)
TableAt == Read64(packed.words, 52 + 8 * 4)
PackedLength == Read64(packed.words, 44)
AncillaryAt(k) == Read64(packed.words, 52 + 8 * (k - 1))

Unpack ==
  /\ packed.state = "packed" /\ unpacked = Nothing
  /\ unpacked' =
       IF Nchunks = Len(packed.chunks) /\ TableAt = packed.table
       THEN [state |-> "unpacked", data |-> packed.chunks,
             special |-> [k \in Kinds |-> AncillaryAt(k)]]
       ELSE [state |-> Undefined]
  /\ UNCHANGED <<data, ancillary, nbytes, cbytes, packed, read>>

\* blosc2_packed_decompress_chunk of the last chunk
ReadPacked ==
  /\ packed.state = "packed" /\ packed.chunks # <<>> /\ read = Nothing
  /\ read' = IF Len(packed.chunks) <= Nchunks /\ TableAt = packed.table
             THEN [state |-> "read", chunk |-> Last(packed.chunks)] ELSE [state |-> Undefined]
  /\ UNCHANGED <<data, ancillary, nbytes, cbytes, packed, unpacked>>

\* packed_append_chunk: what it does with fields it misreads is undefined
PackedAppendBuffer(c) ==
  /\ packed.state = "packed" /\ Len(packed.chunks) < MaxChunks
  /\ packed' =
       IF <<Nchunks, PackedLength, TableAt>> # <<Len(packed.chunks), packed.length, packed.table>>
       THEN [packed EXCEPT !.state = Undefined]
       ELSE LET at == PackedLength - POINTER * Nchunks
            IN  [packed EXCEPT
                   !.chunks = @ \o <<c>>, !.offsets = @ \o <<at>>,
                   !.table = TableAt + c.cbytes, !.length = @ + c.cbytes + POINTER,
                   !.words = LET n == Write64(@, 28, Nchunks + 1)
                                 l == Write64(n, 44, PackedLength + c.cbytes + POINTER)
                             IN  Write64(l, 52 + 8 * 3, AncillaryAt(4) + c.cbytes)]
  /\ UNCHANGED <<data, ancillary, nbytes, cbytes, unpacked, read>>

Next ==
  \/ \E c \in Buffers : AppendBuffer(c) \/ PackedAppendBuffer(c)
  \/ Pack \/ Unpack \/ ReadPacked

Spec == Init /\ [][Next]_vars

-----------------------------------------------------------------------------
(* Properties *)

(* Types of the variables, and that a packed header has all its numbers.   *)
TypeOK ==
  /\ \A i \in DOMAIN data : data[i] \in Buffers
  /\ Len(data) <= MaxChunks
  /\ ancillary \in [Kinds -> {NoChunk} \cup Buffers]
  /\ nbytes \in Nat /\ cbytes \in Nat
  /\ packed = Nothing \/ packed.state \in {"packed", Undefined}
  /\ packed.state = "packed" =>
       \A o \in {16, 24, 32, 40, 48, 56, 64, 72} : Read64(packed.words, o) \in Nat

(* The counter of a super-chunk is the length it has when packed, but for  *)
(* the special chunks, which only the packing counts (schunk.c:78, 158).   *)
CountersMatchPacking == cbytes + SumTo(Sizes(ancillary), 4) = blosc2_get_packed_length

Segments ==
  {<<0, HEADER>>, <<packed.table, POINTER * Len(packed.chunks)>>}
  \cup {<<packed.offsets[i], packed.chunks[i].cbytes>> : i \in DOMAIN packed.chunks}
  \cup {<<Read64(packed.words, 32 + 8 * k), ancillary[k].cbytes>> :
          k \in {j \in Kinds : ancillary[j] # NoChunk}}

Apart(a, b) == a[1] + a[2] <= b[1] \/ b[1] + b[2] <= a[1]

(* The packing puts the header, the special chunks at the offsets the      *)
(* header has for them, the chunks and the table side by side, and fills   *)
(* the buffer, whose length it computed before (the assertion of           *)
(* schunk.c:246).                                                          *)
PackedApart ==
  packed.state = "packed" =>
    /\ \A a, b \in Segments : a # b => Apart(a, b)
    /\ \A a \in Segments : a[1] >= 0 /\ a[1] + a[2] <= packed.length
    /\ \A byte \in 0 .. packed.length - 1 : \E a \in Segments : byte - a[1] \in 0 .. a[2] - 1

(* README_PACKED_HEADER.rst has the number of chunks, the lengths and the  *)
(* table of offsets at bytes 16, 24, 32 and 72 of a packed super-chunk.    *)
PackedAsDocumented ==
  packed.state = "packed" =>
    /\ Read64(packed.words, 16) = Len(packed.chunks)
    /\ Read64(packed.words, 32) = packed.length
    /\ Read64(packed.words, 72) = packed.table
    /\ Read64(packed.words, 24) =
         HEADER + SumTo(Lengths(ancillary), 4)
           + SumTo(Lengths(packed.chunks), Len(packed.chunks)) + POINTER * Len(packed.chunks)

(* blosc.h says of blosc2_unpack_schunk "Unpack a packed super-chunk".     *)
UnpackRestores == unpacked # Nothing => unpacked.state = "unpacked" /\ unpacked.data = packed.chunks
=============================================================================
