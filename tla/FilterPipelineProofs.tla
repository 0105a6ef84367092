------------------------ MODULE FilterPipelineProofs ------------------------
(***************************************************************************)
(* FilterPipeline for any number of slots and any filters in them: which   *)
(* buffers the loops of pipeline_c and pipeline_d turn around, which       *)
(* pipelines give back what was compressed, and which items are read.      *)
(***************************************************************************)
EXTENDS FilterPipeline, SequenceTheorems, WellFoundedInduction, NaturalsInduction, TLAPS

-----------------------------------------------------------------------------
(* Looking ahead *)

LEMMA SlotNumbers ==
  /\ MAX_FILTERS \in Nat /\ MAX_FILTERS >= 1
  /\ \A m : Busy(m) \subseteq Slots /\ Busy(m) \subseteq Nat
BY SlotCount DEF Busy, Slots

LEMMA GreatestChosen ==
  ASSUME NEW S, S \subseteq Nat, NEW i \in S, \A l \in S : l <= i
  PROVE  (CHOOSE k \in S : \A l \in S : l <= k) = i
<1>1. \E k \in S : \A l \in S : l <= k
  OBVIOUS
<1>2. PICK c : c = CHOOSE k \in S : \A l \in S : l <= k
  OBVIOUS
<1>3. c \in S /\ \A l \in S : l <= c
  BY <1>1, <1>2
<1>4. c = i
  BY <1>3
<1> QED
  BY <1>2, <1>4

\* The next filter from above a busy slot is the one in that slot.
LEMMA NextIsBusy ==
  ASSUME NEW i, NEW m, i \in Busy(m)
  PROVE  next_filter(i + 1, m) = filters[i]
<1> DEFINE below == {k \in Busy(m) : k < i + 1}
<1>1. Busy(m) \subseteq Nat /\ i \in Nat
  BY SlotNumbers
<1>2. i \in below /\ below \subseteq Nat /\ \A l \in below : l <= i
  BY <1>1
<1>3. next_filter(i + 1, m) =
        IF below = {} THEN "nofilter" ELSE filters[CHOOSE k \in below : \A l \in below : l <= k]
  BY DEF next_filter
<1> HIDE DEF below
<1>4. (CHOOSE k \in below : \A l \in below : l <= k) = i
  BY <1>2, GreatestChosen
<1> QED
  BY <1>2, <1>3, <1>4

\* Above a slot that does nothing, it is the one from that slot.
LEMMA NextSkips ==
  ASSUME NEW i \in Nat, NEW m, i \notin Busy(m)
  PROVE  next_filter(i + 1, m) = next_filter(i, m)
<1>1. Busy(m) \subseteq Nat
  BY SlotNumbers
<1>2. ASSUME NEW k \in Busy(m) PROVE k < i + 1 <=> k < i
  <2>1. k # i
    OBVIOUS
  <2>2. k \in Nat
    BY <1>1
  <2>3. \A x, y \in Nat : x # y => (x < y + 1 <=> x < y)
    OBVIOUS
  <2> QED
    BY <2>1, <2>2, <2>3
<1> DEFINE Below(x) == {k \in Busy(m) : k < x}
<1>3. Below(i + 1) = Below(i)
  BY <1>2, Zenon
<1>4. \A x : next_filter(x, m) =
               IF Below(x) = {} THEN "nofilter"
               ELSE filters[CHOOSE k \in Below(x) : \A l \in Below(x) : l <= k]
  BY DEF next_filter
<1> HIDE DEF Below
<1> QED
  BY <1>3, <1>4, Zenon

\* The lowest busy slot is the last one of a decompression.
LEMMA LowestIsLast ==
  ASSUME NEW i, NEW m, i \in Busy(m), \A l \in Busy(m) : i <= l
  PROVE  last_filter(m) = i
<1> DEFINE last == CHOOSE k \in Busy(m) : \A l \in Busy(m) : k <= l
<1>1. Busy(m) \subseteq Nat
  BY SlotNumbers
<1>2. last \in Busy(m) /\ \A l \in Busy(m) : last <= l
  OBVIOUS
<1>3. last = i
  BY <1>1, <1>2
<1>4. last_filter(m) = last
  BY DEF last_filter
<1> QED
  BY <1>3, <1>4

\* In a supported pipeline a delta filter is the last of a decompression.
LEMMA DeltaIsLast ==
  ASSUME Supported, NEW i \in Slots, filters[i] = "delta"
  PROVE  i \in Busy("d") /\ last_filter("d") = i
<1>1. i \in Busy("d")
  BY DEF Busy, DoNothing
<1>2. \A l \in Busy("d") : i <= l
  <2> SUFFICES ASSUME NEW l \in Busy("d"), ~(i <= l)
               PROVE  FALSE
    OBVIOUS
  <2>1. i > l
    BY <1>1, SlotNumbers
  <2> QED
    BY <2>1 DEF Supported
<1> QED
  BY <1>1, <1>2, LowestIsLast

-----------------------------------------------------------------------------
(* The invariant *)
Sources == {"src0", "src1"}
Decoding == mode \in {"decompress", "getitem"}

Types ==
  /\ DOMAIN buf = Buffers
  /\ role \in [src : Buffers, dest : Buffers \ Sources, tmp : Buffers \ Sources]
  /\ block \in {0, 1} /\ slot \in -1 .. MAX_FILTERS
  /\ Decoding => slot < MAX_FILTERS

SourcesKept == buf["src0"] = Raw(0) /\ buf["src1"] = Raw(1)

\* pipeline_c goes to and fro between tmp and tmp2.
Alternates == mode = "compress" => role.src # role.dest /\ role.dest # role.tmp

\* pipeline_d goes to and fro between two buffers neither of which is its
\* target, until the filter that comes next is a delta.
AwayFromTarget ==
  Decoding /\ slot \in Slots /\ Supported =>
    \/ next_filter(slot + 1, "d") = "delta"
    \/ /\ role.src # role.dest /\ role.dest # role.tmp
       /\ Target \notin {role.src, role.dest, role.tmp}

PipelineInv == Types /\ SourcesKept /\ Alternates /\ AwayFromTarget

LEMMA PutKeeps ==
  ASSUME DOMAIN buf = Buffers, NEW f, NEW x, NEW c
  PROVE  /\ DOMAIN Put(f, x, c) = Buffers
         /\ \A y \in Buffers : y # x => Put(f, x, c)[y] = buf[y]
BY DEF Put

LEMMA BufferNames ==
  /\ {Input(0), Input(1), Output(0), Output(1), Target, Reference} \subseteq Buffers
  /\ Target \notin Sources \cup {"tmp", "tmp3", "tmp4"}
  /\ Target = "tmp2" <=> mode = "getitem"
BY DEF Input, Output, Target, Reference, Buffers, Sources

-----------------------------------------------------------------------------
(* Steps *)
LEMMA PipelineInit == Init => PipelineInv
<1> SUFFICES ASSUME Init PROVE PipelineInv
  OBVIOUS
<1>1. Types
  BY SlotNumbers DEF Init, Types, Decoding, Buffers, Sources
<1>2. SourcesKept
  BY DEF Init, SourcesKept, Buffers
<1>3. Alternates /\ AwayFromTarget
  BY DEF Init, Alternates, AwayFromTarget, Decoding
<1> QED
  BY <1>1, <1>2, <1>3 DEF PipelineInv

LEMMA CompressionBegins ==
  ASSUME PipelineInv, NEW b \in {0, 1}, BeginC(b), buf' = buf
  PROVE  PipelineInv'
<1>1. /\ mode' = "compress" /\ block' = b /\ slot' \in {0, MAX_FILTERS}
      /\ role' = [src |-> Input(b), dest |-> "tmp", tmp |-> "tmp2"]
  BY DEF BeginC
<1>2. Types'
  BY <1>1, SlotNumbers DEF PipelineInv, Types, Decoding, Input, Buffers, Sources
<1>3. SourcesKept'
  BY DEF PipelineInv, SourcesKept
<1>4. Alternates'
  BY <1>1 DEF Alternates, Input
<1>5. AwayFromTarget'
  BY <1>1 DEF AwayFromTarget, Decoding
<1> QED
  BY <1>2, <1>3, <1>4, <1>5 DEF PipelineInv

LEMMA FilterCStep ==
  ASSUME PipelineInv, FilterC
  PROVE  PipelineInv'
<1> DEFINE f == filters[slot]
           c == buf[role.src]
<1>1. /\ mode = "compress" /\ mode' = mode /\ block' = block /\ slot' = slot + 1
      /\ slot < MAX_FILTERS
  BY DEF FilterC
<1>2. /\ DOMAIN buf = Buffers /\ block \in {0, 1} /\ slot \in -1 .. MAX_FILTERS
      /\ role \in [src : Buffers, dest : Buffers \ Sources, tmp : Buffers \ Sources]
      /\ role.src # role.dest /\ role.dest # role.tmp
  BY <1>1 DEF PipelineInv, Types, Decoding, Alternates
<1>3. role' = role \/ role' = [src |-> role.dest, dest |-> role.tmp, tmp |-> role.dest]
  BY DEF FilterC, Cycled
<1>4. \/ buf' = buf
      \/ \E d : buf' = Put(f, role.dest, d)
      \/ \E d : buf' = [Put(f, role.dest, d) EXCEPT !["tmp4"] = Spoiled(@)]
  BY DEF FilterC
<1>5. /\ DOMAIN buf' = Buffers
      /\ \A y \in Sources : buf'[y] = buf[y]
  <2>1. role.dest \notin Sources /\ "tmp4" \notin Sources /\ Sources \subseteq Buffers
    BY <1>2 DEF Sources, Buffers
  <2>2. ASSUME NEW d
        PROVE  /\ DOMAIN Put(f, role.dest, d) = Buffers
               /\ \A y \in Sources : Put(f, role.dest, d)[y] = buf[y]
    BY <1>2, <2>1, PutKeeps
  <2>3. CASE \E d : buf' = [Put(f, role.dest, d) EXCEPT !["tmp4"] = Spoiled(@)]
    <3>1. PICK d : buf' = [Put(f, role.dest, d) EXCEPT !["tmp4"] = Spoiled(@)]
      BY <2>3
    <3> DEFINE p == Put(f, role.dest, d)
    <3>2. DOMAIN p = Buffers /\ \A y \in Sources : p[y] = buf[y]
      BY <2>2
    <3> HIDE DEF p
    <3>3. buf' = [p EXCEPT !["tmp4"] = Spoiled(@)]
      BY <3>1 DEF p
    <3> QED
      BY <2>1, <3>2, <3>3
  <2> QED
    BY <1>2, <1>4, <2>2, <2>3
<1>6. Types'
  <2>1. slot' \in -1 .. MAX_FILTERS
    BY <1>1, <1>2, SlotNumbers
  <2>2. role' \in [src : Buffers, dest : Buffers \ Sources, tmp : Buffers \ Sources]
    BY <1>2, <1>3
  <2> QED
    BY <1>1, <1>2, <1>5, <2>1, <2>2 DEF Types, Decoding
<1>7. SourcesKept'
  BY <1>5 DEF PipelineInv, SourcesKept, Sources
<1>8. Alternates'
  BY <1>2, <1>3 DEF Alternates
<1>9. AwayFromTarget'
  BY <1>1 DEF AwayFromTarget, Decoding
<1> QED
  BY <1>6, <1>7, <1>8, <1>9 DEF PipelineInv

LEMMA DecompressionBegins ==
  ASSUME PipelineInv, NEW b \in {0, 1}, NEW m, NEW target, NEW second, BeginD(b, m, target, second),
         \/ m = "decompress" /\ target = Output(b) /\ second = "tmp2"
         \/ m = "getitem" /\ target = "tmp2" /\ second = "tmp3"
  PROVE  PipelineInv'
<1>1. /\ mode' = m /\ block' = b /\ slot' \in {-1, MAX_FILTERS - 1}
      /\ buf' = [buf EXCEPT ![CodecOutput(target)] = chunk[b]]
      /\ role' = [src |-> "tmp", dest |-> second, tmp |-> "tmp4"]
  BY DEF BeginD
<1>2. CodecOutput(target) \notin Sources
  BY DEF CodecOutput, Output, Sources
<1>3. Types'
  BY <1>1, SlotNumbers DEF PipelineInv, Types, Decoding, Buffers, Sources
<1>4. SourcesKept'
  BY <1>1, <1>2 DEF PipelineInv, Types, Decoding, SourcesKept, Sources, Buffers
<1>5. Alternates'
  BY <1>1 DEF Alternates
<1>6. AwayFromTarget'
  <2>1. Target' = IF m = "getitem" THEN "tmp2" ELSE Output(b)
    BY <1>1 DEF Target, Output
  <2>2. Target' \notin {"tmp", second, "tmp4"}
    BY <2>1 DEF Output
  <2>3. second # "tmp" /\ second # "tmp4"
    OBVIOUS
  <2> QED
    BY <1>1, <2>2, <2>3 DEF AwayFromTarget
<1> QED
  BY <1>3, <1>4, <1>5, <1>6 DEF PipelineInv

\* The loop of pipeline_d stays away from its target until a delta is next.
LEMMA DecodingTurns ==
  ASSUME PipelineInv, FilterD, slot' \in Slots, Supported, Target' = Target
  PROVE  \/ next_filter(slot' + 1, "d") = "delta"
         \/ /\ role'.src # role'.dest /\ role'.dest # role'.tmp
            /\ Target' \notin {role'.src, role'.dest, role'.tmp}
<1> DEFINE f == filters[slot]
           out == FilterOutput(slot)
           r == [role EXCEPT !.dest = out]
<1>1. /\ Decoding /\ slot \in -1 .. MAX_FILTERS /\ slot >= 0 /\ slot < MAX_FILTERS
      /\ MAX_FILTERS \in Nat
      /\ role \in [src : Buffers, dest : Buffers \ Sources, tmp : Buffers \ Sources]
      /\ role' = IF last_filter("d") # slot /\ f \notin {"nofilter", "trunc_prec"}
                 THEN Cycled(r) ELSE r
      /\ slot' = IF last_filter("d") = slot THEN -1 ELSE slot - 1
  BY SlotNumbers DEF FilterD, Decoding, PipelineInv, Types
<1>2. last_filter("d") # slot /\ slot' = slot - 1
  BY <1>1 DEF Slots
<1>3. slot \in Slots /\ slot \in Nat /\ slot' + 1 = slot
  BY <1>1, <1>2, SlotNumbers DEF Slots
<1>4. f # "delta"
  BY <1>2, <1>3, DeltaIsLast
<1>5. SUFFICES ASSUME next_filter(slot, "d") # "delta"
               PROVE  /\ role'.src # role'.dest /\ role'.dest # role'.tmp
                      /\ Target' \notin {role'.src, role'.dest, role'.tmp}
  BY <1>3
<1>6. next_filter(slot + 1, "d") # "delta"
  <2>1. CASE slot \in Busy("d")
    BY <1>4, <2>1, NextIsBusy
  <2>2. CASE slot \notin Busy("d")
    BY <1>3, <1>5, <2>2, NextSkips
  <2> QED
    BY <2>1, <2>2
<1>7. /\ role.src # role.dest /\ role.dest # role.tmp
      /\ Target \notin {role.src, role.dest, role.tmp}
  BY <1>1, <1>3, <1>6 DEF PipelineInv, AwayFromTarget
<1>8. out = role.dest
  BY <1>2, <1>5 DEF FilterOutput
<1>9. r = role
  BY <1>1, <1>8
<1>10. role' = role \/ role' = [src |-> role.dest, dest |-> role.tmp, tmp |-> role.dest]
  BY <1>1, <1>9 DEF Cycled
<1> QED
  BY <1>7, <1>10

LEMMA FilterDStep ==
  ASSUME PipelineInv, FilterD
  PROVE  PipelineInv'
<1> DEFINE f == filters[slot]
           out == FilterOutput(slot)
<1>1. /\ Decoding /\ mode' = mode /\ block' = block /\ filters' = filters
      /\ slot \in -1 .. MAX_FILTERS /\ slot >= 0 /\ slot < MAX_FILTERS /\ MAX_FILTERS \in Nat
      /\ DOMAIN buf = Buffers /\ block \in {0, 1}
      /\ role \in [src : Buffers, dest : Buffers \ Sources, tmp : Buffers \ Sources]
  BY SlotNumbers DEF FilterD, Decoding, PipelineInv, Types, Fixed
<1>2. out \in Buffers \ Sources
  BY <1>1, BufferNames DEF FilterOutput
<1>3. slot' \in -1 .. MAX_FILTERS /\ slot' < MAX_FILTERS
  BY <1>1 DEF FilterD
<1>4. role' = [role EXCEPT !.dest = out] \/ role' = Cycled([role EXCEPT !.dest = out])
  BY DEF FilterD
<1>5. role' \in [src : Buffers, dest : Buffers \ Sources, tmp : Buffers \ Sources]
  BY <1>1, <1>2, <1>4 DEF Cycled
<1>6. \/ buf' = buf
      \/ \E d : buf' = Put(f, out, d)
      \/ \E d, e : buf' = [Put(f, out, d) EXCEPT ![role.tmp] = e]
  <2>1. CASE f = "bitshuffle"
    <3> DEFINE p == Put(f, out, BitUndone(buf[role.src], role.tmp = role.src))
    <3>1. buf' = [p EXCEPT ![role.tmp] = IF eights /\ role.tmp # out THEN Spoiled(@) ELSE @]
      BY <2>1 DEF FilterD
    <3> HIDE DEF p
    <3>2. buf' = [p EXCEPT ![role.tmp] =
                    IF eights /\ role.tmp # out THEN Spoiled(p[role.tmp]) ELSE p[role.tmp]]
      BY <3>1
    <3>3. \E e : buf' = [p EXCEPT ![role.tmp] = e]
      BY <3>2
    <3> QED
      BY <3>3 DEF p
  <2>2. CASE f # "bitshuffle"
    BY <2>2 DEF FilterD
  <2> QED
    BY <2>1, <2>2
<1>7. DOMAIN buf' = Buffers /\ \A y \in Sources : buf'[y] = buf[y]
  <2>1. out \notin Sources /\ role.tmp \notin Sources /\ Sources \subseteq Buffers
    BY <1>1, <1>2 DEF Sources, Buffers
  <2> HIDE DEF out, f
  <2>2. ASSUME NEW d
        PROVE  DOMAIN Put(f, out, d) = Buffers /\ \A y \in Sources : Put(f, out, d)[y] = buf[y]
    BY <1>1, <2>1, PutKeeps
  <2>3. CASE \E d, e : buf' = [Put(f, out, d) EXCEPT ![role.tmp] = e]
    <3>1. PICK d, e : buf' = [Put(f, out, d) EXCEPT ![role.tmp] = e]
      BY <2>3
    <3> DEFINE p == Put(f, out, d)
    <3>2. DOMAIN p = Buffers /\ \A y \in Sources : p[y] = buf[y]
      BY <2>2
    <3> HIDE DEF p
    <3>3. buf' = [p EXCEPT ![role.tmp] = e]
      BY <3>1 DEF p
    <3> QED
      BY <2>1, <3>2, <3>3
  <2> QED
    BY <1>1, <1>6, <2>2, <2>3
<1>8. Types'
  BY <1>1, <1>3, <1>5, <1>7 DEF Types
<1>9. SourcesKept'
  BY <1>7 DEF PipelineInv, SourcesKept, Sources
<1>10. Alternates'
  BY <1>1 DEF Alternates, Decoding
<1>11. AwayFromTarget'
  <2>1. Target' = Target
    BY <1>1 DEF Target, Output
  <2>2. Supported' = Supported
    BY <1>1 DEF Supported, Busy
  <2>3. SUFFICES ASSUME slot' \in Slots, Supported
                 PROVE  \/ next_filter(slot + 1, "d")' = "delta"
                        \/ /\ role'.src # role'.dest /\ role'.dest # role'.tmp
                           /\ Target' \notin {role'.src, role'.dest, role'.tmp}
    BY <2>2 DEF AwayFromTarget
  <2>4. next_filter(slot + 1, "d")' = next_filter(slot' + 1, "d")
    BY <1>1 DEF next_filter, Busy
  <2> QED
    BY <2>1, <2>3, <2>4, DecodingTurns
<1> QED
  BY <1>8, <1>9, <1>10, <1>11 DEF PipelineInv

LEMMA OtherSteps ==
  ASSUME PipelineInv,
         \/ Compressed \/ Decompressed \/ Got \/ StartCompression \/ StartDecompression
         \/ \E b \in {0, 1} : StartGetItem(b)
  PROVE  PipelineInv'
<1> USE DEF Fixed
<1>1. ASSUME UNCHANGED <<slot, buf, role, block>>, mode' \in {"compressed", "decompressed", "got"}
      PROVE  PipelineInv'
  <2>1. Types'
    BY <1>1 DEF PipelineInv, Types, Decoding
  <2>2. SourcesKept'
    BY <1>1 DEF PipelineInv, SourcesKept
  <2>3. Alternates' /\ AwayFromTarget'
    BY <1>1 DEF Alternates, AwayFromTarget, Decoding
  <2> QED
    BY <2>1, <2>2, <2>3 DEF PipelineInv
<1>2. CASE Compressed
  <2>1. CASE block = 0
    BY <1>2, <2>1, CompressionBegins DEF Compressed
  <2>2. CASE block # 0
    BY <1>1, <1>2, <2>2 DEF Compressed
  <2> QED
    BY <2>1, <2>2
<1>3. CASE Decompressed
  <2>1. CASE block = 0
    BY <1>3, <2>1, DecompressionBegins DEF Decompressed
  <2>2. CASE block # 0
    BY <1>1, <1>3, <2>2 DEF Decompressed
  <2> QED
    BY <2>1, <2>2
<1>4. CASE Got
  BY <1>1, <1>4 DEF Got
<1>5. CASE StartCompression
  BY <1>5, CompressionBegins DEF StartCompression
<1>6. CASE StartDecompression
  BY <1>6, DecompressionBegins DEF StartDecompression
<1>7. CASE \E b \in {0, 1} : StartGetItem(b)
  BY <1>7, DecompressionBegins DEF StartGetItem
<1> QED
  BY <1>2, <1>3, <1>4, <1>5, <1>6, <1>7

LEMMA PipelineKept == Spec => []PipelineInv
<1>1. PipelineInv /\ [Next]_vars => PipelineInv'
  <2> SUFFICES ASSUME PipelineInv, [Next]_vars PROVE PipelineInv'
    OBVIOUS
  <2>1. CASE FilterC
    BY <2>1, FilterCStep
  <2>2. CASE FilterD
    BY <2>2, FilterDStep
  <2>3. CASE \/ Compressed \/ Decompressed \/ Got \/ StartCompression \/ StartDecompression
             \/ \E b \in {0, 1} : StartGetItem(b)
    BY <2>3, OtherSteps
  <2>4. CASE UNCHANGED vars
    <3>1. UNCHANGED <<filters, mode, block, slot, buf, role>>
      BY <2>4 DEF vars
    <3>2. Target' = Target /\ Supported' = Supported
          /\ \A i : next_filter(i, "d")' = next_filter(i, "d")
      BY <3>1 DEF Target, Output, Supported, Busy, next_filter
    <3>3. Types' /\ SourcesKept' /\ Alternates'
      BY <3>1 DEF PipelineInv, Types, Decoding, SourcesKept, Alternates
    <3>4. AwayFromTarget'
      BY <3>1, <3>2 DEF PipelineInv, AwayFromTarget, Decoding
    <3> QED
      BY <3>3, <3>4 DEF PipelineInv
  <2> QED
    BY <2>1, <2>2, <2>3, <2>4 DEF Next
<1> QED
  BY <1>1, PipelineInit, PTL DEF Spec

(* With any number of slots, no filter of pipeline_c reads the buffer it   *)
(* writes (blosc.c:577-620), nor does one of pipeline_d in a supported     *)
(* pipeline (blosc.c:753-824), and the caller's source stays as it was.    *)
THEOREM BuffersStayApart == Spec => []BuffersApart
<1>1. PipelineInv => BuffersApart
  <2> SUFFICES ASSUME PipelineInv PROVE BuffersApart
    OBVIOUS
  <2>1. SourcesKept /\ (mode = "compress" => role.src # role.dest)
    BY DEF PipelineInv, Alternates
  <2>2. ASSUME Decoding, slot \in Slots, Supported,
               filters[slot] \notin {"nofilter", "delta", "trunc_prec"}
        PROVE  role.src # FilterOutput(slot)
    <3>1. slot \in Busy("d")
      BY <2>2 DEF Busy, DoNothing
    <3>2. next_filter(slot + 1, "d") # "delta"
      BY <2>2, <3>1, NextIsBusy
    <3>3. role.src # role.dest /\ role.src # Target
      BY <2>2, <3>2 DEF PipelineInv, AwayFromTarget
    <3> QED
      BY <3>3 DEF FilterOutput
  <2> QED
    BY <2>1, <2>2 DEF BuffersApart, SourcesKept, Decoding
<1> QED
  BY <1>1, PipelineKept, PTL

-----------------------------------------------------------------------------
(* What the buffers hold *)

Content == [of : {NoBlock, 0, 1}, layers : Seq(AllCodes), tail : BOOLEAN]
Has(c, b, l) == c.of = b /\ c.layers = l

\* Filters that leave a layer
Adds(f) == f \in {"shuffle", "delta"} \/ (f = "bitshuffle" /\ eights)

\* s[i] is what the first i slots lay over a block.
Stacked(s) ==
  /\ s[0] = <<>>
  /\ \A i \in Slots : s[i + 1] = IF Adds(filters[i]) THEN Append(s[i], filters[i]) ELSE s[i]

HasDelta == \E i \in Slots : filters[i] = "delta"
ReadsRight == mode \in {"getitem", "got"} /\ HasDelta => alone /\ block = 0
CopiesTail == \A i \in Slots : ~ElementsOnly(filters[i])

WellFormed ==
  /\ filters \in [Slots -> AllCodes]
  /\ alone \in BOOLEAN /\ eights \in BOOLEAN /\ tail \in BOOLEAN /\ dref_not_init \in BOOLEAN
  /\ chunk \in [{0, 1} -> Content]
  /\ \A x \in Buffers : buf[x] \in Content

\* Every block is coded by the slots the loop is past.
Coded(s) ==
  Supported =>
    /\ mode = "compress" => Has(buf[role.src], block, s[slot])
    /\ \A b \in {0, 1} :
         (mode = "compress" /\ b < block) \/ mode \notin {"start", "compress"}
           => Has(chunk[b], b, s[MAX_FILTERS])

\* The loop of pipeline_c goes to and fro between two buffers.
CodesInScratch ==
  mode = "compress" => slot >= 0 /\ {role.dest, role.tmp} \subseteq {"tmp", "tmp2"}

\* Where the loop of pipeline_d has its block
Holder == IF next_filter(slot + 1, "d") = "delta" THEN Target ELSE role.src

\* The loop visits the slots from the last one down to last_filter, and uses
\* its target and the scratch buffers alone; until it meets a filter it has
\* the output of the codec for its source.
Visits ==
  Decoding =>
    /\ {role.src, role.dest, role.tmp} \subseteq {"tmp", "tmp2", "tmp3", "tmp4", Target}
    /\ slot >= 0 => last_filter("d") >= 0 /\ slot >= last_filter("d")
    /\ slot >= 0 /\ (\A k \in Busy("d") : k <= slot) => role.src = "tmp" /\ role.tmp = "tmp4"

\* Every block is decoded down to the slot the loop is at, with the delta
\* of an item read undone only by one thread and in block 0.
Uncoded(s) ==
  Supported =>
    /\ Decoding /\ slot >= 0 => Has(buf[Holder], block, s[slot + 1])
    /\ Decoding /\ slot < 0 => (Plain(buf[Target], block) <=> ReadsRight)
    /\ mode = "got" => (Plain(buf["tmp2"], block) <=> ReadsRight)
    /\ mode = "decompressed" => Plain(buf["dest0"], 0) /\ Plain(buf["dest1"], 1)
    /\ mode = "decompress" /\ block = 1 => Plain(buf["dest0"], 0)

\* The thread of block 0 decodes the reference, once.
ReferenceOnce ==
  Supported /\ HasDelta =>
    /\ mode = "decompress" /\ block = 0 /\ slot >= 0 => dref_not_init
    /\ ~alone /\ (\/ mode \in {"decompressed", "getitem", "got"}
                  \/ mode = "decompress" /\ (block = 1 \/ slot < 0)) => ~dref_not_init

TailThere ==
  CopiesTail =>
    /\ mode = "compress" /\ block = 1 => buf[role.src].tail
    /\ mode \notin {"start", "compress"} => chunk[1].tail
    /\ mode = "decompress" /\ block = 1 =>
         IF slot < 0 THEN buf["dest1"].tail ELSE buf[role.src].tail
    /\ mode = "decompressed" => buf["dest1"].tail

DataInv(s) ==
  /\ WellFormed /\ Coded(s) /\ CodesInScratch /\ Visits /\ Uncoded(s)
  /\ ReferenceOnce /\ TailThere

-----------------------------------------------------------------------------
(* Induction over the slots *)

\* A set of numbers that is not empty has a least one.
LEMMA LeastNumber ==
  ASSUME NEW S, S \subseteq Nat, S # {}
  PROVE  \E m \in S : \A n \in S : m <= n
<1> DEFINE R == {p \in Nat \X Nat : p[1] < p[2]}
<1>1. IsWellFoundedOn(R, Nat)
  BY NatLessThanWellFounded DEF OpToRel
<1>2. \E m \in S : \A n \in S : ~(<<n, m>> \in R)
  <2> HIDE DEF R
  <2> QED
    BY <1>1, WFMin
<1>3. \A m, n \in Nat : ~(<<n, m>> \in R) => m <= n
  OBVIOUS
<1> HIDE DEF R
<1> QED
  BY <1>2, <1>3

\* Induction, with a set for the property
LEMMA UpTo ==
  ASSUME NEW n \in Nat, NEW S, 0 \in S, \A i \in 0 .. n - 1 : i \in S => i + 1 \in S
  PROVE  \A i \in 0 .. n : i \in S
<1> DEFINE bad == {i \in 0 .. n : i \notin S}
<1>1. SUFFICES ASSUME bad # {} PROVE FALSE
  OBVIOUS
<1>2. bad \subseteq Nat
  OBVIOUS
<1>3. PICK m \in bad : \A i \in bad : m <= i
  <2> HIDE DEF bad
  <2> QED
    BY <1>1, <1>2, LeastNumber
<1>4. m # 0 /\ m \in 0 .. n /\ m \notin S
  OBVIOUS
<1>5. m - 1 \in 0 .. n - 1 /\ m - 1 + 1 = m
  BY <1>4
<1>6. m - 1 \in S
  <2>1. m - 1 \notin bad
    BY <1>3, <1>5
  <2> QED
    BY <1>5, <2>1
<1> QED
  BY <1>4, <1>5, <1>6

-----------------------------------------------------------------------------
(* Layers *)

LEMMA LayersExist == \E s : Stacked(s)
<1> DEFINE Upto(m, s) ==
      /\ s[0] = <<>>
      /\ \A i \in 0 .. m - 1 :
           s[i + 1] = IF Adds(filters[i]) THEN Append(s[i], filters[i]) ELSE s[i]
<1> DEFINE S == {m \in 0 .. MAX_FILTERS : \E s : Upto(m, s)}
<1>1. 0 \in S
  <2>1. Upto(0, [i \in {0} |-> <<>>])
    OBVIOUS
  <2>2. 0 \in 0 .. MAX_FILTERS
    BY SlotNumbers
  <2> HIDE DEF Upto
  <2> QED
    BY <2>1, <2>2
<1>2. ASSUME NEW m \in 0 .. MAX_FILTERS - 1, m \in S PROVE m + 1 \in S
  <2>1. PICK s : Upto(m, s)
    BY <1>2
  <2> DEFINE next == IF Adds(filters[m]) THEN Append(s[m], filters[m]) ELSE s[m]
             h == [i \in 0 .. m + 1 |-> IF i = m + 1 THEN next ELSE s[i]]
  <2> HIDE DEF next
  <2>2. m \in Nat /\ m + 1 \in 0 .. MAX_FILTERS
    BY SlotNumbers
  <2>3. h[0] = <<>>
    BY <2>1, <2>2
  <2>4. ASSUME NEW i \in 0 .. m + 1 - 1
        PROVE  h[i + 1] = IF Adds(filters[i]) THEN Append(h[i], filters[i]) ELSE h[i]
    <3>1. CASE i = m
      <4>1. h[i + 1] = next /\ h[i] = s[m]
        BY <2>2, <3>1
      <4> QED
        BY <3>1, <4>1 DEF next
    <3>2. CASE i # m
      <4>1. i \in 0 .. m - 1 /\ h[i] = s[i] /\ h[i + 1] = s[i + 1]
        BY <2>2, <3>2
      <4> HIDE DEF h
      <4> QED
        BY <2>1, <4>1
    <3> QED
      BY <3>1, <3>2
  <2> HIDE DEF h
  <2>5. Upto(m + 1, h)
    BY <2>3, <2>4
  <2> HIDE DEF Upto
  <2> QED
    BY <2>2, <2>5
<1>3. MAX_FILTERS \in S
  <2> HIDE DEF S
  <2>1. \A m \in 0 .. MAX_FILTERS : m \in S
    BY <1>1, <1>2, UpTo, SlotNumbers
  <2>2. MAX_FILTERS \in 0 .. MAX_FILTERS
    BY SlotNumbers
  <2> QED
    BY <2>1, <2>2
<1>4. PICK s : Upto(MAX_FILTERS, s)
  BY <1>3
<1> QED
  BY <1>4 DEF Stacked, Slots

LEMMA LayersAreCodes ==
  ASSUME NEW s, Stacked(s), filters \in [Slots -> AllCodes]
  PROVE  \A i \in 0 .. MAX_FILTERS : s[i] \in Seq(AllCodes)
<1> DEFINE S == {i \in 0 .. MAX_FILTERS : s[i] \in Seq(AllCodes)}
<1>1. 0 \in S
  <2>1. s[0] = <<>> /\ 0 \in 0 .. MAX_FILTERS
    BY SlotNumbers DEF Stacked
  <2>2. <<>> \in Seq(AllCodes)
    OBVIOUS
  <2> QED
    BY <2>1, <2>2
<1>2. ASSUME NEW i \in 0 .. MAX_FILTERS - 1, i \in S PROVE i + 1 \in S
  <2>1. i \in Slots /\ i + 1 \in 0 .. MAX_FILTERS /\ s[i] \in Seq(AllCodes)
    BY <1>2, SlotNumbers DEF Slots
  <2>2. filters[i] \in AllCodes
    BY <2>1
  <2>3. s[i + 1] \in {Append(s[i], filters[i]), s[i]}
    BY <2>1 DEF Stacked
  <2>4. Append(s[i], filters[i]) \in Seq(AllCodes)
    BY <2>1, <2>2, AppendProperties
  <2>5. s[i + 1] \in Seq(AllCodes)
    BY <2>1, <2>3, <2>4
  <2> QED
    BY <2>1, <2>5
<1> HIDE DEF S
<1>3. \A i \in 0 .. MAX_FILTERS : i \in S
  BY <1>1, <1>2, UpTo, SlotNumbers
<1> QED
  BY <1>3 DEF S

\* Below slot k no filter leaves a layer: the block has none there.
LEMMA NoLayersYet ==
  ASSUME NEW s, Stacked(s), NEW k \in 0 .. MAX_FILTERS,
         \A j \in Slots : j < k => ~Adds(filters[j])
  PROVE  \A i \in 0 .. k : s[i] = <<>>
<1> DEFINE S == {i \in 0 .. k : s[i] = <<>>}
<1>1. k \in Nat /\ MAX_FILTERS \in Nat
  BY SlotNumbers
<1>2. 0 \in S
  BY <1>1 DEF Stacked
<1>3. ASSUME NEW i \in 0 .. k - 1, i \in S PROVE i + 1 \in S
  <2>1. i \in Slots /\ i < k /\ i + 1 \in 0 .. k
    BY <1>1 DEF Slots
  <2> QED
    BY <1>3, <2>1 DEF Stacked
<1> HIDE DEF S
<1>4. \A i \in 0 .. k : i \in S
  BY <1>1, <1>2, <1>3, UpTo
<1> QED
  BY <1>4 DEF S

LEMMA LayersAreBusy ==
  ASSUME NEW i \in Slots, Adds(filters[i])
  PROVE  i \in Busy("d") /\ i \in Busy("c")
BY DEF Adds, Busy, DoNothing

\* In a supported pipeline delta codes a block as it came.
LEMMA DeltaIsFirstLayer ==
  ASSUME NEW s, Stacked(s), Supported, NEW k \in Slots, filters[k] = "delta"
  PROVE  s[k] = <<>> /\ s[k + 1] = <<"delta">>
<1>1. k \in 0 .. MAX_FILTERS /\ k \in 0 .. k
  BY SlotNumbers DEF Slots
<1>2. ASSUME NEW j \in Slots, j < k PROVE ~Adds(filters[j])
  <2>1. j \notin Busy("d")
    BY <1>2, SlotNumbers DEF Supported, Slots
  <2> QED
    BY <2>1, LayersAreBusy
<1>3. s[k] = <<>>
  BY <1>1, <1>2, NoLayersYet
<1>4. Adds(filters[k])
  BY DEF Adds
<1>5. s[k + 1] = Append(<<>>, "delta")
  BY <1>3, <1>4 DEF Stacked
<1>6. Append(<<>>, "delta") = <<"delta">>
  OBVIOUS
<1> QED
  BY <1>3, <1>5, <1>6

\* And trunc_prec sees the elements unshuffled.
LEMMA TruncatesElements ==
  ASSUME NEW s, Stacked(s), Supported, NEW k \in Slots, filters[k] = "trunc_prec",
         filters \in [Slots -> AllCodes]
  PROVE  \A n \in DOMAIN s[k] : s[k][n] = "delta"
<1> DEFINE S == {i \in 0 .. k : \A n \in DOMAIN s[i] : s[i][n] = "delta"}
<1>1. k \in Nat /\ MAX_FILTERS \in Nat /\ k \in 0 .. k /\ 0 \in 0 .. k
  BY SlotNumbers DEF Slots
<1>2. 0 \in S
  BY <1>1 DEF Stacked
<1>3. ASSUME NEW i \in 0 .. k - 1, i \in S PROVE i + 1 \in S
  <2>1. i \in Slots /\ i < k /\ i + 1 \in 0 .. k /\ i \in 0 .. MAX_FILTERS
    BY <1>1 DEF Slots
  <2>2. s[i] \in Seq(AllCodes)
    BY <2>1, LayersAreCodes
  <2>3. CASE Adds(filters[i])
    <3>1. filters[i] = "delta"
      BY <2>1, <2>3, LayersAreBusy DEF Supported, Slots
    <3>2. s[i + 1] = Append(s[i], "delta")
      BY <2>1, <2>3, <3>1 DEF Stacked
    <3>3. ASSUME NEW n \in DOMAIN s[i + 1] PROVE s[i + 1][n] = "delta"
      <4>1. n \in 1 .. Len(s[i]) + 1
        BY <2>2, <3>2
      <4>2. s[i + 1][n] = IF n = Len(s[i]) + 1 THEN "delta" ELSE s[i][n]
        BY <2>2, <3>2, <4>1
      <4> QED
        BY <1>3, <2>2, <4>1, <4>2
    <3> QED
      BY <2>1, <3>3
  <2>4. CASE ~Adds(filters[i])
    <3>1. s[i + 1] = s[i]
      BY <2>1, <2>4 DEF Stacked
    <3> QED
      BY <1>3, <2>1, <3>1
  <2> QED
    BY <2>3, <2>4
<1> HIDE DEF S
<1>4. \A i \in 0 .. k : i \in S
  BY <1>1, <1>2, <1>3, UpTo
<1> QED
  BY <1>1, <1>4 DEF S

-----------------------------------------------------------------------------
(* Operations on contents *)

LEMMA CodeOf == ASSUME NEW c \in Content, NEW b \in {0, 1}, NEW l, Has(c, b, l)
                PROVE  c.of # NoBlock /\ c.of = b /\ c.layers = l
BY DEF Has, NoBlock

LEMMA RawIs ==
  /\ \A b \in {0, 1} : Raw(b) \in Content /\ Has(Raw(b), b, <<>>)
  /\ Raw(1).tail = TRUE
  /\ Junk \in Content
<1>1. <<>> \in Seq(AllCodes)
  OBVIOUS
<1> QED
  BY <1>1 DEF Raw, Content, Has, Junk, Spoiled

LEMMA SpoiledIs ==
  ASSUME NEW c \in Content
  PROVE  /\ Spoiled(c) \in Content
         /\ Spoiled(c).of = NoBlock /\ Spoiled(c).tail = c.tail
<1>1. <<>> \in Seq(AllCodes)
  OBVIOUS
<1> QED
  BY <1>1 DEF Content, Spoiled

LEMMA UnderIs ==
  ASSUME NEW c \in Content, NEW l \in AllCodes
  PROVE  /\ Under(c, l) \in Content /\ Under(c, l).tail = c.tail
         /\ c.of # NoBlock => Has(Under(c, l), c.of, Append(c.layers, l))
<1>1. Append(c.layers, l) \in Seq(AllCodes)
  BY AppendProperties DEF Content
<1> QED
  BY <1>1 DEF Content, Under, Has

LEMMA WithoutTop ==
  ASSUME NEW S, NEW q \in Seq(S)
  PROVE  SubSeq(q, 1, Len(q) - 1) \in Seq(S)
<1>1. Len(q) \in Nat /\ \A i \in 1 .. Len(q) - 1 : q[i] \in S
  BY ElementOfSeq, LenProperties
<1> QED
  BY <1>1, SubSeqProperties

LEMMA TopTaken ==
  ASSUME NEW S, NEW q \in Seq(S), NEW l \in S
  PROVE  SubSeq(Append(q, l), 1, Len(Append(q, l)) - 1) = q
<1> DEFINE a == Append(q, l)
           t == SubSeq(a, 1, Len(a) - 1)
<1>1. a \in Seq(S) /\ Len(a) = Len(q) + 1 /\ \A i \in 1 .. Len(q) : a[i] = q[i]
  BY AppendProperties
<1>2. Len(q) \in Nat /\ \A i \in 1 .. Len(q) : a[i] \in S
  BY <1>1, ElementOfSeq, LenProperties
<1> HIDE DEF a
<1>3. t = SubSeq(a, 1, Len(q))
  BY <1>1, <1>2
<1> HIDE DEF t
<1>4. t \in Seq(S) /\ Len(t) = Len(q) /\ \A i \in 1 .. Len(q) : t[i] = a[i]
  BY <1>2, <1>3, SubSeqProperties
<1>5. t = q
  BY <1>1, <1>2, <1>4, SeqEqual
<1> QED
  BY <1>5 DEF a, t

LEMMA UndoneIs ==
  ASSUME NEW c \in Content, NEW l \in AllCodes
  PROVE  /\ Undone(c, l) \in Content /\ Undone(c, l).tail = c.tail
         /\ \A q \in Seq(AllCodes) :
              c.layers = Append(q, l) => Has(Undone(c, l), c.of, q)
<1>1. c.layers \in Seq(AllCodes)
  BY DEF Content
<1>2. CASE Top(c) = l
  <2>1. c.layers # <<>>
    BY <1>2 DEF Top, AllCodes
  <2>2. Undone(c, l) = [c EXCEPT !.layers = SubSeq(c.layers, 1, Len(c.layers) - 1)]
    BY <1>2 DEF Undone
  <2>3. SubSeq(c.layers, 1, Len(c.layers) - 1) \in Seq(AllCodes)
    BY <1>1, WithoutTop
  <2>4. ASSUME NEW q \in Seq(AllCodes), c.layers = Append(q, l)
        PROVE  SubSeq(c.layers, 1, Len(c.layers) - 1) = q
    BY <2>4, TopTaken
  <2> QED
    BY <2>2, <2>3, <2>4 DEF Content, Has
<1>3. CASE Top(c) # l
  <2>1. Undone(c, l) = Spoiled(c)
    BY <1>3 DEF Undone
  <2>2. ASSUME NEW q \in Seq(AllCodes) PROVE c.layers # Append(q, l)
    BY <1>3, AppendProperties DEF Top
  <2> QED
    BY <2>1, <2>2, SpoiledIs
<1> QED
  BY <1>2, <1>3

LEMMA CodingIs ==
  ASSUME NEW c \in Content
  PROVE  /\ Truncated(c) \in Content /\ Truncated(c).tail = c.tail
         /\ BitLayer(c) \in Content /\ BitLayer(c).tail = c.tail
         /\ Xored(c) \in Content
         /\ \A b : DeltaEncoded(b, c) \in Content
         /\ \A o, d : DeltaDecoded(o, c, d) \in Content
         /\ \A w : BitUndone(c, w) \in Content /\ BitUndone(c, w).tail = c.tail
<1>1. "bitshuffle" \in AllCodes /\ "delta" \in AllCodes
  BY DEF AllCodes
<1>2. Under(c, "bitshuffle") \in Content /\ Under(c, "bitshuffle").tail = c.tail
      /\ Undone(c, "bitshuffle") \in Content /\ Undone(c, "bitshuffle").tail = c.tail
      /\ Under(c, "delta") \in Content /\ Undone(c, "delta") \in Content
      /\ Spoiled(c) \in Content /\ Spoiled(c).tail = c.tail
  BY <1>1, UnderIs, UndoneIs, SpoiledIs
<1> QED
  BY <1>2 DEF Truncated, BitLayer, Xored, DeltaEncoded, DeltaDecoded, BitUndone

LEMMA PutIs ==
  ASSUME WellFormed, DOMAIN buf = Buffers, NEW f, NEW x \in Buffers, NEW c \in Content
  PROVE  /\ \A y \in Buffers : Put(f, x, c)[y] \in Content
         /\ Put(f, x, c)[x].of = c.of /\ Put(f, x, c)[x].layers = c.layers
         /\ ~ElementsOnly(f) => Put(f, x, c)[x] = c
<1>1. buf[x].tail \in BOOLEAN /\ \A y \in Buffers : buf[y] \in Content
  BY DEF WellFormed, Content
<1>2. [c EXCEPT !.tail = buf[x].tail] \in Content
  BY <1>1 DEF Content
<1>3. [c EXCEPT !.tail = buf[x].tail].of = c.of /\ [c EXCEPT !.tail = buf[x].tail].layers = c.layers
  BY DEF Content
<1> DEFINE d == IF ElementsOnly(f) /\ tail /\ block = 1 THEN [c EXCEPT !.tail = buf[x].tail] ELSE c
<1>4. Put(f, x, c) = [buf EXCEPT ![x] = d]
  BY DEF Put
<1>5. d \in Content /\ d.of = c.of /\ d.layers = c.layers /\ (~ElementsOnly(f) => d = c)
  BY <1>2, <1>3
<1> HIDE DEF d
<1> QED
  BY <1>1, <1>4, <1>5

-----------------------------------------------------------------------------
(* A filter of pipeline_c *)

Coding(f, c) ==
  CASE f = "shuffle" -> Under(c, f)
    [] f = "bitshuffle" -> BitLayer(c)
    [] f = "delta" -> DeltaEncoded(block, c)
    [] OTHER -> Truncated(c)

LEMMA SlotCodes ==
  ASSUME WellFormed, NEW k \in Slots
  PROVE  filters[k] \in {"nofilter", "shuffle", "bitshuffle", "delta", "trunc_prec"}
BY DEF WellFormed, AllCodes

LEMMA CodingContent ==
  ASSUME NEW c \in Content, NEW f
  PROVE  Coding(f, c) \in Content /\ (~ElementsOnly(f) => Coding(f, c).tail = c.tail)
<1>1. "shuffle" \in AllCodes
  BY DEF AllCodes
<1>2. Under(c, "shuffle") \in Content /\ Under(c, "shuffle").tail = c.tail
  BY <1>1, UnderIs
<1> QED
  BY <1>2, CodingIs DEF Coding, ElementsOnly

\* A filter lays over the block what the next slot finds there.
LEMMA CodingLays ==
  ASSUME NEW s, Stacked(s), Supported, WellFormed, block \in {0, 1},
         NEW k \in Slots, filters[k] # "nofilter",
         NEW c \in Content, Has(c, block, s[k])
  PROVE  Has(Coding(filters[k], c), block, s[k + 1])
<1> DEFINE f == filters[k]
<1>1. c.of = block /\ c.of # NoBlock /\ c.layers = s[k]
  BY CodeOf
<1>2. s[k + 1] = IF Adds(f) THEN Append(s[k], f) ELSE s[k]
  BY DEF Stacked
<1>3. \A l \in AllCodes : Has(Under(c, l), block, Append(s[k], l))
  BY <1>1, UnderIs
<1>4. f \in AllCodes /\ f \in {"shuffle", "bitshuffle", "delta", "trunc_prec"}
  BY SlotCodes DEF AllCodes
<1>5. CASE f = "shuffle"
  BY <1>2, <1>3, <1>4, <1>5 DEF Coding, Adds
<1>6. CASE f = "bitshuffle"
  <2>1. CASE eights
    BY <1>2, <1>3, <1>4, <1>6, <2>1 DEF Coding, Adds, BitLayer
  <2>2. CASE ~eights
    BY <1>1, <1>2, <1>6, <2>2 DEF Coding, Adds, BitLayer, Has
  <2> QED
    BY <2>1, <2>2
<1>7. CASE f = "delta"
  <2>1. s[k] = <<>>
    BY <1>7, DeltaIsFirstLayer
  <2>2. Top(c) = "none"
    BY <1>1, <2>1 DEF Top
  <2>3. Coding(f, c) = Under(c, "delta")
    BY <1>1, <1>7, <2>1, <2>2 DEF Coding, DeltaEncoded, Xored
  <2> QED
    BY <1>2, <1>3, <1>4, <1>7, <2>3 DEF Adds
<1>8. CASE f = "trunc_prec"
  <2>1. \A n \in DOMAIN c.layers : c.layers[n] = "delta"
    BY <1>1, <1>8, TruncatesElements DEF WellFormed
  <2>2. Coding(f, c) = c
    BY <1>8, <2>1 DEF Coding, Truncated
  <2> QED
    BY <1>1, <1>2, <1>8, <2>2 DEF Adds, Has
<1> QED
  BY <1>4, <1>5, <1>6, <1>7, <1>8

\* What FilterC leaves in the buffers
LEMMA FilterCWrites ==
  ASSUME PipelineInv, WellFormed, CodesInScratch, FilterC
  PROVE  /\ \A x \in Buffers : buf'[x] \in Content
         /\ filters[slot] = "nofilter" => buf'[role'.src] = buf[role.src]
         /\ filters[slot] # "nofilter" =>
              LET d == Coding(filters[slot], buf[role.src])
              IN  /\ buf'[role'.src].of = d.of /\ buf'[role'.src].layers = d.layers
                  /\ ~ElementsOnly(filters[slot]) => buf'[role'.src] = d
<1> DEFINE f == filters[slot]
           c == buf[role.src]
           out == role.dest
           d == Coding(f, c)
           p == Put(f, out, d)
<1>1. /\ mode = "compress" /\ DOMAIN buf = Buffers /\ role.src \in Buffers /\ out \in Buffers
      /\ out # "tmp4"
      /\ \A x \in Buffers : buf[x] \in Content
  BY DEF FilterC, PipelineInv, Types, WellFormed, CodesInScratch
<1>2. d \in Content
  BY <1>1, CodingContent
<1>3. /\ \A y \in Buffers : p[y] \in Content
      /\ p[out].of = d.of /\ p[out].layers = d.layers
      /\ ~ElementsOnly(f) => p[out] = d
      /\ DOMAIN p = Buffers
  <2> HIDE DEF d, f, out
  <2> QED
    BY <1>1, <1>2, PutIs, PutKeeps
<1>4. "tmp4" \in Buffers
  BY DEF Buffers
<1>5. CASE f = "nofilter"
  BY <1>1, <1>5 DEF FilterC
<1>6. CASE f # "nofilter"
  <2>1. role'.src = out
    BY <1>6 DEF FilterC, Cycled
  <2>2. buf' = p \/ buf' = [p EXCEPT !["tmp4"] = Spoiled(p["tmp4"])]
    <3>1. CASE f = "bitshuffle"
      <4>1. buf' = [Put(f, role.dest, BitLayer(c)) EXCEPT !["tmp4"] = Spoiled(@)]
        BY <3>1 DEF FilterC
      <4>2. d = BitLayer(c)
        BY <3>1 DEF Coding
      <4> HIDE DEF d, f
      <4>3. p = Put(f, role.dest, BitLayer(c))
        BY <4>2
      <4> HIDE DEF p
      <4> QED
        BY <4>1, <4>3
    <3>2. CASE f # "bitshuffle"
      BY <1>6, <3>2 DEF FilterC, Coding
    <3> QED
      BY <3>1, <3>2
  <2>3. Spoiled(p["tmp4"]) \in Content
    BY <1>3, <1>4, SpoiledIs
  <2> HIDE DEF p, d
  <2>4. (\A x \in Buffers : buf'[x] \in Content) /\ buf'[out] = p[out]
    BY <1>1, <1>3, <1>4, <2>2, <2>3
  <2> QED
    BY <1>3, <1>6, <2>1, <2>4 DEF d
<1> QED
  BY <1>5, <1>6

\* Nothing above depends on more than the pipeline itself.
LEMMA PipelineFixed ==
  ASSUME Fixed
  PROVE  /\ (Supported' <=> Supported) /\ (HasDelta' <=> HasDelta) /\ (CopiesTail' <=> CopiesTail)
         /\ \A m : Busy(m)' = Busy(m)
         /\ last_filter("d")' = last_filter("d")
         /\ \A i : next_filter(i, "d")' = next_filter(i, "d")
         /\ \A s : (Stacked(s)' <=> Stacked(s))
BY DEF Fixed, Supported, HasDelta, CopiesTail, Busy, last_filter, next_filter, Stacked,
       ElementsOnly, Adds

LEMMA NoDecoding ==
  ASSUME NEW s, mode' \notin {"decompress", "decompressed", "getitem", "got"}
  PROVE  Visits' /\ Uncoded(s)' /\ ReferenceOnce'
BY DEF Visits, Uncoded, ReferenceOnce, Decoding

LEMMA FilterCData ==
  ASSUME NEW s, Stacked(s), PipelineInv, DataInv(s), FilterC
  PROVE  DataInv(s)'
<1> DEFINE f == filters[slot]
           c == buf[role.src]
<1>1. /\ WellFormed /\ Coded(s) /\ CodesInScratch /\ TailThere
      /\ mode = "compress" /\ mode' = mode /\ block' = block /\ chunk' = chunk
      /\ dref_not_init' = dref_not_init /\ slot' = slot + 1 /\ slot < MAX_FILTERS /\ slot >= 0 /\ Fixed
  BY DEF DataInv, FilterC, CodesInScratch
<1>2. (Supported' <=> Supported) /\ (CopiesTail' <=> CopiesTail)
  BY <1>1, PipelineFixed
<1>3. /\ block \in {0, 1} /\ slot \in -1 .. MAX_FILTERS /\ role.src \in Buffers
      /\ c \in Content /\ MAX_FILTERS \in Nat
  BY <1>1, SlotNumbers DEF PipelineInv, Types, WellFormed
<1>4. /\ \A x \in Buffers : buf'[x] \in Content
      /\ f = "nofilter" => buf'[role'.src] = c
      /\ f # "nofilter" =>
           /\ buf'[role'.src].of = Coding(f, c).of /\ buf'[role'.src].layers = Coding(f, c).layers
           /\ ~ElementsOnly(f) => buf'[role'.src] = Coding(f, c)
  BY <1>1, FilterCWrites
<1>5. WellFormed'
  BY <1>1, <1>4 DEF WellFormed, Fixed
<1>6. Coded(s)'
  <2>1. ASSUME Supported PROVE Has(buf'[role'.src], block, s[slot + 1])
    <3>1. Has(c, block, s[slot])
      BY <1>1, <2>1 DEF Coded
    <3>2. slot \in Slots /\ slot' >= 0
      BY <1>1, <1>3 DEF Slots
    <3>3. CASE f = "nofilter"
      <4>1. s[slot + 1] = s[slot]
        BY <3>2, <3>3 DEF Stacked, Adds
      <4> QED
        BY <1>4, <3>1, <3>2, <3>3, <4>1
    <3>4. CASE f # "nofilter"
      <4>1. Has(Coding(f, c), block, s[slot + 1])
        BY <1>1, <1>3, <2>1, <3>1, <3>2, <3>4, CodingLays
      <4> QED
        BY <1>4, <3>2, <3>4, <4>1 DEF Has
    <3> QED
      BY <3>3, <3>4
  <2>2. Supported => \A b \in {0, 1} : b < block => Has(chunk[b], b, s[MAX_FILTERS])
    BY <1>1 DEF Coded
  <2> QED
    BY <1>1, <1>2, <2>1, <2>2 DEF Coded
<1>7. CodesInScratch'
  BY <1>1, <1>3 DEF CodesInScratch, FilterC, Cycled
<1>8. Visits' /\ Uncoded(s)' /\ ReferenceOnce'
  BY <1>1, NoDecoding
<1>9. TailThere'
  <2>1. ASSUME CopiesTail, block = 1 PROVE buf'[role'.src].tail
    <3>1. c.tail
      BY <1>1, <2>1 DEF TailThere
    <3>2. slot \in Slots
      BY <1>1, <1>3 DEF Slots
    <3>3. ~ElementsOnly(f)
      BY <2>1, <3>2 DEF CopiesTail
    <3> QED
      BY <1>3, <1>4, <2>1, <3>1, <3>3, CodingContent
  <2> QED
    BY <1>1, <1>2, <2>1 DEF TailThere
<1> QED
  BY <1>5, <1>6, <1>7, <1>8, <1>9 DEF DataInv

LEMMA LastIsLowest ==
  ASSUME NEW m
  PROVE  /\ Busy(m) = {} => last_filter(m) = -1
         /\ Busy(m) # {} => last_filter(m) \in Busy(m) /\ \A l \in Busy(m) : last_filter(m) <= l
<1>1. CASE Busy(m) = {}
  BY <1>1 DEF last_filter
<1>2. CASE Busy(m) # {}
  <2>1. Busy(m) \subseteq Nat
    BY SlotNumbers
  <2>2. PICK i \in Busy(m) : \A l \in Busy(m) : i <= l
    BY <1>2, <2>1, LeastNumber
  <2>3. last_filter(m) = i
    BY <2>2, LowestIsLast
  <2> QED
    BY <1>2, <2>2, <2>3
<1> QED
  BY <1>1, <1>2

\* Without filters there are no layers.
LEMMA NoFilters ==
  ASSUME NEW s, Stacked(s), NEW m \in {"c", "d"}, last_filter(m) < 0
  PROVE  s[MAX_FILTERS] = <<>>
<1>1. Busy(m) \subseteq Nat
  BY SlotNumbers
<1>2. Busy(m) = {}
  BY <1>1, LastIsLowest
<1>3. \A j \in Slots : j < MAX_FILTERS => ~Adds(filters[j])
  BY <1>2, LayersAreBusy
<1>4. MAX_FILTERS \in 0 .. MAX_FILTERS
  BY SlotNumbers
<1> QED
  BY <1>3, <1>4, NoLayersYet

LEMMA BeginCData ==
  ASSUME NEW s, Stacked(s), PipelineInv, WellFormed, NEW b \in {0, 1}, BeginC(b),
         buf' = buf, Fixed, dref_not_init' = dref_not_init,
         chunk' \in [{0, 1} -> Content],
         Supported => \A a \in {0, 1} : a < b => Has(chunk'[a], a, s[MAX_FILTERS])
  PROVE  DataInv(s)'
<1>1. /\ mode' = "compress" /\ block' = b
      /\ slot' = IF last_filter("c") < 0 THEN MAX_FILTERS ELSE 0
      /\ role' = [src |-> Input(b), dest |-> "tmp", tmp |-> "tmp2"]
  BY DEF BeginC
<1>2. /\ Supported' <=> Supported
  BY PipelineFixed
<1>3. buf'[role'.src] = Raw(b)
  BY <1>1 DEF PipelineInv, SourcesKept, Input
<1>4. WellFormed'
  BY DEF WellFormed, Fixed
<1>5. s[slot'] = <<>>
  <2>1. CASE last_filter("c") < 0
    BY <1>1, <2>1, NoFilters
  <2>2. CASE ~(last_filter("c") < 0)
    BY <1>1, <2>2 DEF Stacked
  <2> QED
    BY <2>1, <2>2
<1>6. Coded(s)'
  BY <1>1, <1>2, <1>3, <1>5, RawIs DEF Coded
<1>7. CodesInScratch'
  BY <1>1, SlotNumbers DEF CodesInScratch
<1>8. Visits' /\ Uncoded(s)' /\ ReferenceOnce'
  BY <1>1, NoDecoding
<1>9. TailThere'
  BY <1>1, <1>3, RawIs DEF TailThere
<1> QED
  BY <1>4, <1>6, <1>7, <1>8, <1>9 DEF DataInv

LEMMA CompressionData ==
  ASSUME NEW s, Stacked(s), PipelineInv, DataInv(s), StartCompression \/ Compressed
  PROVE  DataInv(s)'
<1>1. /\ WellFormed /\ Coded(s) /\ CodesInScratch /\ TailThere
      /\ chunk \in [{0, 1} -> Content]
  BY DEF DataInv, WellFormed
<1>2. CASE StartCompression
  BY <1>1, <1>2, BeginCData DEF StartCompression
<1>3. CASE Compressed
  <2> DEFINE c == buf[role.src]
  <2>1. /\ mode = "compress" /\ slot = MAX_FILTERS /\ Fixed
        /\ chunk' = [chunk EXCEPT ![block] = c]
        /\ buf' = buf /\ dref_not_init' = dref_not_init
        /\ block \in {0, 1} /\ role.src \in Buffers /\ c \in Content
    BY <1>1, <1>3 DEF Compressed, PipelineInv, Types, WellFormed
  <2>2. chunk' \in [{0, 1} -> Content] /\ chunk'[block] = c
    BY <1>1, <2>1
  <2>3. Supported => /\ Has(c, block, s[MAX_FILTERS])
                     /\ \A b \in {0, 1} : b < block => Has(chunk[b], b, s[MAX_FILTERS])
    BY <1>1, <2>1 DEF Coded
  <2>4. CASE block = 0
    BY <1>1, <1>3, <2>1, <2>2, <2>3, <2>4, BeginCData DEF Compressed
  <2>5. CASE block = 1
    <3>1. mode' = "compressed" /\ block' = 1
      BY <1>3, <2>5 DEF Compressed
    <3>2. (Supported' <=> Supported) /\ (CopiesTail' <=> CopiesTail)
      BY <2>1, PipelineFixed
    <3>3. Coded(s)'
      <4>1. chunk'[0] = chunk[0] /\ chunk'[1] = c
        BY <1>1, <2>1, <2>5
      <4>2. Supported => Has(chunk'[0], 0, s[MAX_FILTERS]) /\ Has(chunk'[1], 1, s[MAX_FILTERS])
        BY <2>3, <2>5, <4>1
      <4> QED
        BY <3>1, <3>2, <4>2 DEF Coded
    <3>4. WellFormed'
      BY <1>1, <2>1, <2>2 DEF WellFormed, Fixed
    <3>5. CodesInScratch' /\ Visits' /\ Uncoded(s)' /\ ReferenceOnce'
      BY <3>1, NoDecoding DEF CodesInScratch
    <3>6. TailThere'
      BY <1>1, <2>1, <2>2, <2>5, <3>1, <3>2 DEF TailThere
    <3> QED
      BY <3>3, <3>4, <3>5, <3>6 DEF DataInv
  <2> QED
    BY <2>1, <2>4, <2>5
<1> QED
  BY <1>2, <1>3

-----------------------------------------------------------------------------
(* A decompression begins *)

\* What is found ahead is in one of the slots.
LEMMA NextIsInASlot ==
  ASSUME NEW i, NEW m, next_filter(i, m) = "delta"
  PROVE  HasDelta
<1> DEFINE below == {k \in Busy(m) : k < i}
<1>1. next_filter(i, m) =
        IF below = {} THEN "nofilter" ELSE filters[CHOOSE k \in below : \A l \in below : l <= k]
  BY DEF next_filter
<1>2. below # {} /\ below \subseteq Slots
  BY <1>1, SlotNumbers
<1>3. below \subseteq Nat
  BY SlotNumbers
<1>4. \A l \in below : l <= MAX_FILTERS
  BY <1>2, SlotNumbers DEF Slots
<1> HIDE DEF below
<1>5. \E k \in below : \A l \in below : l <= k
  <2> DEFINE up == {MAX_FILTERS - l : l \in below}
  <2>1. \A l \in below : MAX_FILTERS - l \in Nat
    BY <1>3, <1>4, SlotNumbers
  <2>2. up \subseteq Nat /\ up # {}
    BY <1>2, <2>1
  <2>3. PICK u \in up : \A v \in up : u <= v
    <3> HIDE DEF up
    <3> QED
      BY <2>2, LeastNumber
  <2>4. PICK k \in below : u = MAX_FILTERS - k
    OBVIOUS
  <2>5. ASSUME NEW l \in below PROVE l <= k
    <3>1. MAX_FILTERS - k <= MAX_FILTERS - l
      BY <2>3, <2>4
    <3> QED
      BY <1>3, <3>1, SlotNumbers
  <2> QED
    BY <2>5
<1>6. PICK k \in below : k = CHOOSE j \in below : \A l \in below : l <= j
  BY <1>5
<1> QED
  BY <1>1, <1>2, <1>6 DEF HasDelta

LEMMA CopiedWithoutDelta == CopiesTail => ~HasDelta
BY DEF CopiesTail, HasDelta, ElementsOnly

LEMMA BeginDData ==
  ASSUME NEW s, Stacked(s), PipelineInv, WellFormed, Fixed, UNCHANGED chunk,
         dref_not_init' \in BOOLEAN,
         NEW b \in {0, 1}, NEW m, NEW target, NEW second, BeginD(b, m, target, second),
         \/ m = "decompress" /\ target = Output(b) /\ second = "tmp2"
         \/ m = "getitem" /\ target = "tmp2" /\ second = "tmp3",
         Supported => \A a \in {0, 1} : Has(chunk[a], a, s[MAX_FILTERS]),
         CopiesTail => chunk[1].tail,
         m = "decompress" /\ b = 1 /\ Supported => Plain(buf["dest0"], 0),
         Supported /\ HasDelta => IF m = "decompress" /\ b = 0 THEN dref_not_init'
                                  ELSE ~alone => ~dref_not_init'
  PROVE  DataInv(s)'
<1> DEFINE out == CodecOutput(target)
           none == last_filter("d") < 0
<1>1. /\ mode' = m /\ block' = b
      /\ slot' = IF none THEN -1 ELSE MAX_FILTERS - 1
      /\ buf' = [buf EXCEPT ![out] = chunk[b]]
      /\ role' = [src |-> "tmp", dest |-> second, tmp |-> "tmp4"]
  BY DEF BeginD
<1>2. /\ (Supported' <=> Supported) /\ (CopiesTail' <=> CopiesTail) /\ (HasDelta' <=> HasDelta)
      /\ Busy("d")' = Busy("d")
      /\ last_filter("d")' = last_filter("d")
      /\ \A i : next_filter(i, "d")' = next_filter(i, "d")
  BY PipelineFixed
<1>3. Target' = target
  BY <1>1 DEF Target, Output
<1>4. /\ DOMAIN buf = Buffers /\ out \in Buffers /\ target \in Buffers
      /\ out \in {"tmp", target}
      /\ chunk[b] \in Content /\ MAX_FILTERS \in Nat /\ MAX_FILTERS >= 1
  BY SlotNumbers DEF PipelineInv, Types, WellFormed, CodecOutput, Output, Buffers
<1>5. out = IF none \/ next_filter(MAX_FILTERS, "d") = "delta" THEN target ELSE "tmp"
  <2>1. last_filter("d") \in Int
    BY LastIsLowest, SlotNumbers
  <2> QED
    BY <2>1 DEF CodecOutput
<1>6. WellFormed'
  BY <1>1, <1>4 DEF WellFormed, Fixed
<1>7. /\ buf'[out] = chunk[b]
      /\ \A x \in Buffers : x # out => buf'[x] = buf[x]
  BY <1>1, <1>4
<1>8. Coded(s)'
  BY <1>1, <1>2 DEF Coded
<1>9. CodesInScratch'
  BY <1>1 DEF CodesInScratch
<1>10. Visits'
  <2>1. ASSUME slot' >= 0 PROVE last_filter("d") >= 0 /\ slot' >= last_filter("d")
    <3>1. ~none /\ slot' = MAX_FILTERS - 1
      BY <1>1, <2>1
    <3>2. last_filter("d") \in Busy("d")
      BY <3>1, LastIsLowest
    <3>3. last_filter("d") \in 0 .. MAX_FILTERS - 1
      BY <3>2, SlotNumbers DEF Slots
    <3> QED
      BY <1>4, <3>1, <3>3
  <2> QED
    BY <1>1, <1>2, <2>1 DEF Visits
<1>11. Uncoded(s)'
  <2>1. ASSUME Supported, slot' >= 0 PROVE Has(buf'[Holder'], block', s[slot' + 1])
    <3>1. ~none /\ slot' + 1 = MAX_FILTERS
      BY <1>1, <1>4, <2>1
    <3>2. next_filter(slot + 1, "d")' = next_filter(MAX_FILTERS, "d")
      BY <1>2, <3>1 DEF next_filter
    <3>3. Holder' = out
      BY <1>1, <1>3, <1>5, <3>1, <3>2 DEF Holder
    <3> QED
      BY <1>1, <1>7, <3>1, <3>3, <2>1
  <2>2. ASSUME Supported, slot' < 0 PROVE Plain(buf'[Target'], block') /\ ReadsRight'
    <3>1. none
      BY <1>1, <1>4, <2>2
    <3>2. s[MAX_FILTERS] = <<>> /\ out = target
      BY <1>5, <3>1, NoFilters
    <3>3. ~HasDelta
      <4>1. Busy("d") = {}
        <5>1. Busy("d") \subseteq Nat
          BY SlotNumbers
        <5> QED
          BY <3>1, <5>1, LastIsLowest
      <4> QED
        BY <4>1 DEF HasDelta, Busy, DoNothing
    <3>4. Plain(buf'[Target'], block')
      BY <1>1, <1>3, <1>7, <2>2, <3>2 DEF Plain, Has
    <3> QED
      BY <1>2, <3>3, <3>4 DEF ReadsRight
  <2>3. ASSUME Supported, m = "decompress", b = 1 PROVE Plain(buf'["dest0"], 0)
    BY <1>4, <1>7, <2>3 DEF Output, Buffers
  <2> QED
    BY <1>1, <1>2, <2>1, <2>2, <2>3 DEF Uncoded
<1>12. ReferenceOnce'
  <2>1. HasDelta => ~none
    <3> SUFFICES ASSUME HasDelta, none PROVE FALSE
      OBVIOUS
    <3>1. Busy("d") # {}
      BY DEF HasDelta, Busy, DoNothing
    <3>2. last_filter("d") \in Nat
      BY <3>1, LastIsLowest, SlotNumbers
    <3> QED
      BY <3>2
  <2>2. HasDelta => slot' >= 0
    BY <1>1, <1>4, <2>1
  <2>3. slot' \in Int
    BY <1>1, <1>4
  <2>4. HasDelta => ~(slot' < 0)
    BY <2>2, <2>3
  <2>5. alone' = alone
    BY DEF Fixed
  <2> QED
    BY <1>1, <1>2, <2>2, <2>4, <2>5 DEF ReferenceOnce
<1>13. TailThere'
  <2>1. ASSUME CopiesTail, m = "decompress", b = 1
        PROVE  IF slot' < 0 THEN buf'["dest1"].tail ELSE buf'[role'.src].tail
    <3>1. target = "dest1" /\ chunk[b].tail
      BY <2>1 DEF Output
    <3>2. next_filter(MAX_FILTERS, "d") # "delta"
      BY <2>1, NextIsInASlot, CopiedWithoutDelta
    <3>3. CASE none
      BY <1>1, <1>7, <1>5, <3>1, <3>3
    <3>4. CASE ~none
      <4>1. out = "tmp"
        BY <1>5, <3>2, <3>4
      <4>2. ~(slot' < 0) /\ role'.src = "tmp"
        BY <1>1, <1>4, <3>4
      <4> QED
        BY <1>7, <3>1, <4>1, <4>2
    <3> QED
      BY <3>3, <3>4
  <2> QED
    BY <1>1, <1>2, <2>1 DEF TailThere
<1> QED
  BY <1>6, <1>8, <1>9, <1>10, <1>11, <1>12, <1>13 DEF DataInv

-----------------------------------------------------------------------------
(* A filter of pipeline_d *)

\* What a filter that runs writes to its output
Undoing(f) ==
  LET c == buf[role.src]
      out == FilterOutput(slot)
  IN  CASE f = "shuffle" -> IF out = role.src THEN Spoiled(c) ELSE Undone(c, f)
        [] f = "bitshuffle" -> BitUndone(c, role.tmp = role.src)
        [] OTHER -> DeltaDecoded(Offset, buf[out], buf[Reference])

Runs(f) == f \in {"shuffle", "bitshuffle"} \/ (f = "delta" /\ DeltaRuns)

LEMMA FilterDIs ==
  ASSUME PipelineInv, WellFormed, Visits, FilterD
  PROVE  /\ Decoding /\ mode' = mode /\ block' = block /\ chunk' = chunk /\ Fixed
         /\ DOMAIN buf = Buffers /\ block \in {0, 1}
         /\ role.src \in Buffers /\ role.tmp \in Buffers /\ FilterOutput(slot) \in Buffers
         /\ MAX_FILTERS \in Nat /\ slot \in Nat /\ slot \in Slots /\ slot < MAX_FILTERS
         /\ last_filter("d") \in Busy("d") /\ last_filter("d") \in Nat /\ last_filter("d") <= slot
         /\ \A l \in Busy("d") : last_filter("d") <= l
         /\ slot' = IF last_filter("d") = slot THEN -1 ELSE slot - 1
         /\ slot' < 0 <=> last_filter("d") = slot
         /\ Target' = Target
<1>1. /\ Decoding /\ mode' = mode /\ block' = block /\ chunk' = chunk /\ Fixed
      /\ slot' = IF last_filter("d") = slot THEN -1 ELSE slot - 1
      /\ slot >= 0
  BY DEF FilterD, Decoding
<1>2. /\ DOMAIN buf = Buffers /\ block \in {0, 1} /\ slot \in -1 .. MAX_FILTERS
      /\ slot < MAX_FILTERS /\ role \in [src : Buffers, dest : Buffers \ Sources, tmp : Buffers \ Sources]
  BY <1>1 DEF PipelineInv, Types
<1>3. MAX_FILTERS \in Nat /\ slot \in Nat /\ slot \in Slots
  BY <1>1, <1>2, SlotNumbers DEF Slots
<1>4. FilterOutput(slot) \in Buffers
  BY <1>2, BufferNames DEF FilterOutput
<1>5. last_filter("d") >= 0 /\ slot >= last_filter("d")
  BY <1>1 DEF Visits
<1>6. last_filter("d") \in Busy("d") /\ \A l \in Busy("d") : last_filter("d") <= l
  BY <1>5, LastIsLowest
<1>7. last_filter("d") \in Nat /\ last_filter("d") <= slot
  BY <1>5, <1>6, SlotNumbers
<1>8. Target' = Target
  BY <1>1 DEF Target, Output
<1>9. slot' < 0 <=> last_filter("d") = slot
  BY <1>1, <1>3, <1>7
<1> QED
  BY <1>1, <1>2, <1>3, <1>4, <1>6, <1>7, <1>8, <1>9

LEMMA UndoingContent ==
  ASSUME PipelineInv, WellFormed, Visits, FilterD, NEW f
  PROVE  /\ Undoing(f) \in Content
         /\ f \in {"shuffle", "bitshuffle"} => Undoing(f).tail = buf[role.src].tail
<1> DEFINE c == buf[role.src]
           out == FilterOutput(slot)
<1>1. c \in Content /\ buf[out] \in Content
  BY FilterDIs DEF WellFormed
<1>2. "shuffle" \in AllCodes
  BY DEF AllCodes
<1>3. /\ Spoiled(c) \in Content /\ Undone(c, "shuffle") \in Content
      /\ Spoiled(c).tail = c.tail /\ Undone(c, "shuffle").tail = c.tail
  BY <1>1, <1>2, SpoiledIs, UndoneIs
<1>4. /\ \A w : BitUndone(c, w) \in Content /\ BitUndone(c, w).tail = c.tail
      /\ \A o, d : DeltaDecoded(o, buf[out], d) \in Content
  BY <1>1, CodingIs
<1> QED
  BY <1>3, <1>4 DEF Undoing

LEMMA FilterDWrites ==
  ASSUME PipelineInv, WellFormed, Visits, FilterD
  PROVE  LET f == filters[slot]
             out == FilterOutput(slot)
         IN  /\ \A x \in Buffers : buf'[x] \in Content
             /\ ~Runs(f) => buf' = buf
             /\ Runs(f) => /\ buf'[out].of = Undoing(f).of
                           /\ buf'[out].layers = Undoing(f).layers
                           /\ ~ElementsOnly(f) => buf'[out] = Undoing(f)
             /\ \A x \in Buffers : x \notin {out, role.tmp} => buf'[x] = buf[x]
<1> DEFINE f == filters[slot]
           out == FilterOutput(slot)
           d == Undoing(f)
           p == Put(f, out, d)
<1>1. /\ DOMAIN buf = Buffers /\ out \in Buffers /\ role.tmp \in Buffers /\ slot \in Slots
      /\ \A x \in Buffers : buf[x] \in Content
  BY FilterDIs DEF WellFormed
<1>2. d \in Content
  BY UndoingContent
<1>3. /\ \A y \in Buffers : p[y] \in Content
      /\ p[out].of = d.of /\ p[out].layers = d.layers
      /\ ~ElementsOnly(f) => p[out] = d
      /\ DOMAIN p = Buffers
      /\ \A y \in Buffers : y # out => p[y] = buf[y]
  <2> HIDE DEF d, f, out
  <2> QED
    BY <1>1, <1>2, PutIs, PutKeeps
<1>4. CASE f = "bitshuffle"
  <2>1. d = BitUndone(buf[role.src], role.tmp = role.src)
    BY <1>4 DEF Undoing
  <2>2. buf' = [Put(f, out, BitUndone(buf[role.src], role.tmp = role.src)) EXCEPT
                  ![role.tmp] = IF eights /\ role.tmp # out THEN Spoiled(@) ELSE @]
    BY <1>4 DEF FilterD
  <2> HIDE DEF d
  <2>3. p = Put(f, out, BitUndone(buf[role.src], role.tmp = role.src))
    BY <2>1
  <2> HIDE DEF p
  <2>4. buf' = [p EXCEPT ![role.tmp] =
                  IF eights /\ role.tmp # out THEN Spoiled(p[role.tmp]) ELSE p[role.tmp]]
    BY <2>2, <2>3
  <2>5. Spoiled(p[role.tmp]) \in Content
    BY <1>1, <1>3, SpoiledIs
  <2> HIDE DEF f, out
  <2>6. /\ buf'[out] = p[out]
        /\ \A x \in Buffers : buf'[x] \in Content
        /\ \A x \in Buffers : x \notin {out, role.tmp} => buf'[x] = p[x]
    BY <1>1, <1>3, <2>4, <2>5
  <2>7. Runs(f)
    BY <1>4 DEF Runs
  <2> QED
    BY <1>3, <2>6, <2>7 DEF f, out, d
<1>5. CASE f # "bitshuffle"
  <2>1. IF Runs(f) THEN buf' = p ELSE buf' = buf
    BY <1>5 DEF FilterD, Runs, Undoing
  <2> HIDE DEF p
  <2> QED
    BY <1>1, <1>3, <2>1
<1> QED
  BY <1>4, <1>5

\* A shuffle takes off the layer its twin laid.
LEMMA ShufflesUndone ==
  ASSUME NEW s, Stacked(s), Supported, PipelineInv, DataInv(s), FilterD,
         filters[slot] \in {"shuffle", "bitshuffle"}
  PROVE  Has(buf'[FilterOutput(slot)], block, s[slot])
<1> DEFINE f == filters[slot]
           c == buf[role.src]
           out == FilterOutput(slot)
<1>1. WellFormed /\ Visits /\ Uncoded(s)
  BY DEF DataInv
<1>2. /\ Decoding /\ slot \in Slots /\ slot \in Nat /\ role.src \in Buffers /\ MAX_FILTERS \in Nat
      /\ block \in {0, 1}
  BY <1>1, FilterDIs
<1>3. slot \in Busy("d")
  BY <1>2 DEF Busy, DoNothing
<1>4. next_filter(slot + 1, "d") # "delta"
  BY <1>3, NextIsBusy
<1>5. Holder = role.src
  BY <1>4 DEF Holder
<1>6. Has(c, block, s[slot + 1])
  BY <1>1, <1>2, <1>5 DEF Uncoded
<1>7. c \in Content /\ c.of = block /\ c.layers = s[slot + 1] /\ c.of # NoBlock
  BY <1>1, <1>2, <1>6, CodeOf DEF WellFormed
<1>8. s[slot + 1] = IF Adds(f) THEN Append(s[slot], f) ELSE s[slot]
  BY <1>2 DEF Stacked
<1>9. s[slot] \in Seq(AllCodes)
  <2>1. slot \in 0 .. MAX_FILTERS
    BY <1>2 DEF Slots
  <2> QED
    BY <1>1, <2>1, LayersAreCodes DEF WellFormed
<1>10. f \in AllCodes
  BY DEF AllCodes
<1>11. Adds(f) => Has(Undone(c, f), block, s[slot])
  BY <1>7, <1>8, <1>9, <1>10, UndoneIs
<1>12. Has(Undoing(f), block, s[slot])
  <2>1. CASE f = "shuffle"
    <3>1. out # role.src
      <4>1. role.src # role.dest /\ Target \notin {role.src, role.dest, role.tmp}
        BY <1>2, <1>4 DEF PipelineInv, AwayFromTarget
      <4> QED
        BY <4>1 DEF FilterOutput
    <3> QED
      BY <1>11, <2>1, <3>1 DEF Undoing, Adds
  <2>2. CASE f = "bitshuffle"
    <3>1. \A k \in Busy("d") : k <= slot
      <4> SUFFICES ASSUME NEW k \in Busy("d"), ~(k <= slot) PROVE FALSE
        OBVIOUS
      <4>1. k \in Nat /\ k \in Slots /\ k > slot
        BY <1>2, SlotNumbers
      <4> QED
        BY <1>3, <2>2, <4>1 DEF Supported
    <3>2. role.src = "tmp" /\ role.tmp = "tmp4"
      BY <1>1, <1>2, <3>1 DEF Visits
    <3>3. Undoing(f) = BitUndone(c, FALSE)
      BY <2>2, <3>2 DEF Undoing
    <3>4. CASE eights
      BY <1>11, <2>2, <3>3, <3>4 DEF BitUndone, Adds
    <3>5. CASE ~eights
      BY <1>6, <1>8, <2>2, <3>3, <3>5 DEF BitUndone, Adds
    <3> QED
      BY <3>4, <3>5
  <2> QED
    BY <2>1, <2>2
<1>13. buf'[out].of = Undoing(f).of /\ buf'[out].layers = Undoing(f).layers
  BY <1>1, FilterDWrites DEF Runs
<1> QED
  BY <1>12, <1>13 DEF Has

\* The last filter of a supported pipeline, when it is no delta, and the
\* delta leave the block as it was.
LEMMA NothingBelowLast ==
  ASSUME NEW s, Stacked(s), last_filter("d") \in Busy("d")
  PROVE  s[last_filter("d")] = <<>>
<1> DEFINE k == last_filter("d")
<1>1. k \in Slots /\ k \in Nat /\ \A l \in Busy("d") : k <= l
  BY LastIsLowest, SlotNumbers
<1>2. k \in 0 .. MAX_FILTERS /\ k \in 0 .. k
  BY <1>1, SlotNumbers DEF Slots
<1>3. \A j \in Slots : j < k => ~Adds(filters[j])
  <2> SUFFICES ASSUME NEW j \in Slots, j < k, Adds(filters[j]) PROVE FALSE
    OBVIOUS
  <2>1. j \in Busy("d")
    BY LayersAreBusy
  <2>2. k <= j /\ j \in Nat
    BY <1>1, <2>1, SlotNumbers
  <2> QED
    BY <1>1, <2>2
<1> HIDE DEF k
<1>4. s[k] = <<>>
  BY <1>2, <1>3, NoLayersYet
<1> QED
  BY <1>4 DEF k

LEMMA DeltaUndone ==
  ASSUME NEW s, Stacked(s), Supported, PipelineInv, DataInv(s), FilterD,
         filters[slot] = "delta"
  PROVE  Plain(buf'[Target], block) <=> ReadsRight
<1> DEFINE c == buf[Target]
<1>1. WellFormed /\ Visits /\ Uncoded(s) /\ ReferenceOnce
  BY DEF DataInv
<1>2. /\ Decoding /\ slot \in Slots /\ slot \in Nat /\ block \in {0, 1}
  BY <1>1, FilterDIs
<1>3. slot \in Busy("d") /\ last_filter("d") = slot /\ HasDelta
  BY <1>2, DeltaIsLast DEF HasDelta
<1>4. Holder = Target
  BY <1>3, NextIsBusy DEF Holder
<1>5. FilterOutput(slot) = Target
  BY <1>3 DEF FilterOutput
<1>6. Has(c, block, <<"delta">>)
  <2>1. s[slot + 1] = <<"delta">>
    BY <1>2, DeltaIsFirstLayer
  <2> QED
    BY <1>1, <1>2, <1>4, <2>1 DEF Uncoded
<1>7. c \in Content /\ Target \in Buffers
  BY <1>1, BufferNames DEF WellFormed
<1>8. c.of = block /\ c.layers = <<"delta">>
  BY <1>6 DEF Has
<1>9. Top(c) = "delta" /\ <<"delta">> # <<>> /\ <<"delta">> = Append(<<>>, "delta")
  BY <1>8 DEF Top
<1>10. Plain(Undone(c, "delta"), block)
  <2>1. "delta" \in AllCodes /\ <<>> \in Seq(AllCodes)
    BY DEF AllCodes
  <2>2. Has(Undone(c, "delta"), c.of, <<>>)
    BY <1>7, <1>8, <1>9, <2>1, UndoneIs
  <2> QED
    BY <1>8, <2>2 DEF Has, Plain
<1>11. ~Plain(Spoiled(c), block)
  BY <1>2, <1>7, SpoiledIs DEF Plain, NoBlock
<1>12. /\ ~DeltaRuns => buf'[Target] = c
       /\ DeltaRuns => LET d == DeltaDecoded(Offset, c, buf[Reference])
                       IN  buf'[Target].of = d.of /\ buf'[Target].layers = d.layers
  BY <1>1, <1>5, FilterDWrites DEF Runs, Undoing
<1>13. CASE mode = "decompress"
  <2>1. Offset = block /\ Reference = "dest0" /\ ReadsRight
    BY <1>13 DEF Offset, Reference, ReadsRight
  <2>2. DeltaRuns
    <3>1. block = 0 => dref_not_init
      BY <1>1, <1>2, <1>3, <1>13 DEF ReferenceOnce
    <3> QED
      BY <1>2, <2>1, <3>1 DEF DeltaRuns
  <2>3. DeltaDecoded(Offset, c, buf[Reference]) = Undone(c, "delta")
    <3>1. CASE block = 0
      BY <1>8, <2>1, <3>1 DEF DeltaDecoded
    <3>2. CASE block = 1
      <4>1. Plain(buf["dest0"], 0)
        BY <1>1, <1>13, <3>2 DEF Uncoded
      <4> QED
        BY <1>9, <2>1, <3>2, <4>1 DEF DeltaDecoded, Xored
    <3> QED
      BY <1>2, <3>1, <3>2
  <2> QED
    BY <1>10, <1>12, <2>1, <2>2, <2>3 DEF Plain
<1>14. CASE mode = "getitem"
  <2>1. Offset = 0 /\ (ReadsRight <=> alone /\ block = 0)
    BY <1>3, <1>14 DEF Offset, ReadsRight
  <2>2. CASE alone
    <3>1. DeltaRuns
      BY <2>2 DEF DeltaRuns
    <3>2. DeltaDecoded(Offset, c, buf[Reference]) =
            IF block = 0 THEN Undone(c, "delta") ELSE Spoiled(c)
      BY <1>8, <2>1 DEF DeltaDecoded
    <3> QED
      BY <1>10, <1>11, <1>12, <2>1, <2>2, <3>1, <3>2 DEF Plain
  <2>3. CASE ~alone
    <3>1. ~dref_not_init
      BY <1>1, <1>3, <1>14, <2>3 DEF ReferenceOnce
    <3>2. ~DeltaRuns
      BY <2>1, <2>3, <3>1 DEF DeltaRuns
    <3> QED
      BY <1>8, <1>9, <1>12, <2>1, <2>3, <3>2 DEF Plain
  <2> QED
    BY <2>2, <2>3
<1> QED
  BY <1>2, <1>13, <1>14 DEF Decoding

\* The buffer pipeline_d has its block in moves with every filter that is
\* not the last one.
LEMMA HolderSteps ==
  ASSUME PipelineInv, WellFormed, Visits, FilterD
  PROVE  LET f == filters[slot]
             out == FilterOutput(slot)
         IN  /\ f \in {"shuffle", "bitshuffle"} => Holder = role.src
             /\ f \in {"shuffle", "bitshuffle"} /\ slot' >= 0 => Holder' = out
             /\ f \in {"nofilter", "trunc_prec"} => slot' >= 0 /\ Holder' = Holder /\ buf' = buf
             /\ f = "delta" => Holder = Target
             /\ slot' < 0 => out = Target
<1> DEFINE f == filters[slot]
           out == FilterOutput(slot)
<1>1. /\ slot \in Slots /\ slot \in Nat /\ Target' = Target /\ Fixed
      /\ slot' = IF last_filter("d") = slot THEN -1 ELSE slot - 1
      /\ slot' < 0 <=> last_filter("d") = slot
      /\ last_filter("d") \in Busy("d")
  BY FilterDIs
<1>2. ASSUME slot' >= 0
      PROVE  Holder' = IF next_filter(slot, "d") = "delta" THEN Target ELSE role'.src
  <2>1. slot' + 1 = slot
    BY <1>1, <1>2
  <2>2. next_filter(slot + 1, "d")' = next_filter(slot' + 1, "d")
    BY <1>1 DEF next_filter, Busy, Fixed
  <2> QED
    BY <1>1, <2>1, <2>2 DEF Holder
<1>3. slot' < 0 => out = Target
  BY <1>1 DEF FilterOutput
<1>4. ASSUME f \in {"shuffle", "bitshuffle", "delta"} PROVE next_filter(slot + 1, "d") = f
  <2>1. slot \in Busy("d")
    BY <1>1, <1>4 DEF Busy, DoNothing
  <2> QED
    BY <2>1, NextIsBusy
<1>5. ASSUME f \in {"shuffle", "bitshuffle"} PROVE Holder = role.src
  BY <1>4, <1>5 DEF Holder
<1>6. f = "delta" => Holder = Target
  BY <1>4 DEF Holder
<1>7. ASSUME f \in {"shuffle", "bitshuffle"}, slot' >= 0 PROVE Holder' = out
  <2>1. last_filter("d") # slot
    BY <1>1, <1>7
  <2>2. role'.src = out
    BY <1>7, <2>1 DEF FilterD, Cycled
  <2> QED
    BY <1>2, <1>7, <2>2 DEF FilterOutput
<1>8. ASSUME f \in {"nofilter", "trunc_prec"} PROVE slot' >= 0 /\ Holder' = Holder /\ buf' = buf
  <2>1. slot \notin Busy("d")
    BY <1>8 DEF Busy, DoNothing
  <2>2. last_filter("d") # slot
    BY <1>1, <2>1
  <2>3. slot' \in Int /\ slot' >= 0
    BY <1>1, <2>2
  <2>4. next_filter(slot, "d") = next_filter(slot + 1, "d")
    BY <1>1, <2>1, NextSkips
  <2>5. role'.src = role.src
    BY <1>8 DEF FilterD
  <2>6. buf' = buf
    BY <1>8, FilterDWrites DEF Runs
  <2> QED
    BY <1>2, <2>3, <2>4, <2>5, <2>6 DEF Holder
<1> QED
  BY <1>3, <1>5, <1>6, <1>7, <1>8

\* Where the block is after slot i of pipeline_d
LEMMA HolderMoves ==
  ASSUME NEW s, Stacked(s), Supported, PipelineInv, DataInv(s), FilterD, slot' >= 0
  PROVE  Has(buf'[Holder'], block, s[slot' + 1])
<1> DEFINE f == filters[slot]
<1>1. /\ WellFormed /\ Visits /\ Uncoded(s)
  BY DEF DataInv
<1>2. /\ Decoding /\ slot \in Slots /\ slot \in Nat /\ last_filter("d") # slot
      /\ slot' = slot - 1 /\ slot' + 1 = slot
  BY <1>1, FilterDIs
<1>3. f # "delta"
  BY <1>2, DeltaIsLast
<1>4. CASE f \in {"shuffle", "bitshuffle"}
  <2>1. Has(buf'[FilterOutput(slot)], block, s[slot])
    BY <1>4, ShufflesUndone
  <2> QED
    BY <1>1, <1>2, <1>4, <2>1, HolderSteps
<1>5. CASE f \notin {"shuffle", "bitshuffle"}
  <2>1. f \in {"nofilter", "trunc_prec"}
    BY <1>1, <1>2, <1>3, <1>5, SlotCodes
  <2>2. s[slot] = s[slot + 1]
    BY <1>2, <2>1 DEF Stacked, Adds
  <2> QED
    BY <1>1, <1>2, <2>1, <2>2, HolderSteps DEF Uncoded
<1> QED
  BY <1>4, <1>5

LEMMA BlockDecoded ==
  ASSUME NEW s, Stacked(s), Supported, PipelineInv, DataInv(s), FilterD, slot' < 0
  PROVE  Plain(buf'[Target], block) <=> ReadsRight
<1>1. /\ WellFormed /\ Visits
  BY DEF DataInv
<1>2. slot \in Slots /\ last_filter("d") = slot /\ slot \in Busy("d")
  BY <1>1, FilterDIs
<1>3. filters[slot] \in {"shuffle", "bitshuffle", "delta"}
  BY <1>1, <1>2, SlotCodes DEF Busy, DoNothing
<1>4. CASE filters[slot] = "delta"
  BY <1>4, DeltaUndone
<1>5. CASE filters[slot] # "delta"
  <2>1. ~HasDelta
    BY <1>2, <1>5, DeltaIsLast DEF HasDelta
  <2>2. FilterOutput(slot) = Target
    BY <1>2 DEF FilterOutput
  <2>3. Has(buf'[Target], block, <<>>)
    BY <1>2, <1>3, <1>5, <2>2, ShufflesUndone, NothingBelowLast
  <2> QED
    BY <2>1, <2>3 DEF Has, Plain, ReadsRight
<1> QED
  BY <1>4, <1>5

LEMMA FilterDData ==
  ASSUME NEW s, Stacked(s), PipelineInv, DataInv(s), FilterD
  PROVE  DataInv(s)'
<1> DEFINE f == filters[slot]
           out == FilterOutput(slot)
           scratch == {"tmp", "tmp2", "tmp3", "tmp4", Target}
<1>1. /\ WellFormed /\ Coded(s) /\ Visits /\ Uncoded(s) /\ ReferenceOnce /\ TailThere
  BY DEF DataInv
<1>2. /\ Decoding /\ mode' = mode /\ block' = block /\ chunk' = chunk /\ Fixed
      /\ DOMAIN buf = Buffers /\ block \in {0, 1}
      /\ role.src \in Buffers /\ role.tmp \in Buffers /\ out \in Buffers
      /\ MAX_FILTERS \in Nat /\ slot \in Nat /\ slot \in Slots /\ slot < MAX_FILTERS
      /\ last_filter("d") \in Busy("d") /\ last_filter("d") \in Nat /\ last_filter("d") <= slot
      /\ \A l \in Busy("d") : last_filter("d") <= l
      /\ slot' = IF last_filter("d") = slot THEN -1 ELSE slot - 1
      /\ (slot' < 0 <=> last_filter("d") = slot)
      /\ Target' = Target
  BY <1>1, FilterDIs
<1>3. /\ (Supported' <=> Supported) /\ (CopiesTail' <=> CopiesTail) /\ (HasDelta' <=> HasDelta)
      /\ Busy("d")' = Busy("d") /\ last_filter("d")' = last_filter("d")
      /\ alone' = alone
  BY <1>2, PipelineFixed DEF Fixed
<1>4. /\ \A x \in Buffers : buf'[x] \in Content
      /\ ~Runs(f) => buf' = buf
      /\ Runs(f) => /\ buf'[out].of = Undoing(f).of
                    /\ buf'[out].layers = Undoing(f).layers
                    /\ ~ElementsOnly(f) => buf'[out] = Undoing(f)
      /\ \A x \in Buffers : x \notin {out, role.tmp} => buf'[x] = buf[x]
  BY <1>1, FilterDWrites
<1>5. /\ role' = IF last_filter("d") # slot /\ f \notin {"nofilter", "trunc_prec"}
                 THEN Cycled([role EXCEPT !.dest = out]) ELSE [role EXCEPT !.dest = out]
      /\ dref_not_init' = (dref_not_init /\ ~(f = "delta" /\ ~alone /\ Offset = 0))
      /\ role \in [src : Buffers, dest : Buffers \ Sources, tmp : Buffers \ Sources]
  BY DEF FilterD, PipelineInv, Types
<1>6. {role.src, role.dest, role.tmp} \subseteq scratch /\ out \in scratch
  BY <1>1, <1>2 DEF Visits, FilterOutput
<1>7. WellFormed'
  BY <1>1, <1>2, <1>4, <1>5 DEF WellFormed, Fixed
<1>8. Coded(s)'
  BY <1>1, <1>2, <1>3 DEF Coded, Decoding
<1>9. CodesInScratch'
  BY <1>2 DEF CodesInScratch, Decoding
<1>10. Visits'
  <2>1. {role'.src, role'.dest, role'.tmp} \subseteq scratch
    <3>1. role'.src \in {role.src, out} /\ role'.dest \in {out, role.tmp} /\ role'.tmp \in {role.tmp, out}
      BY <1>5 DEF Cycled
    <3> QED
      BY <1>6, <3>1
  <2>2. ASSUME slot' >= 0 PROVE slot' >= last_filter("d")
    BY <1>2, <2>2
  <2>3. ASSUME slot' >= 0, \A k \in Busy("d") : k <= slot' PROVE role'.src = "tmp" /\ role'.tmp = "tmp4"
    <3>1. slot' = slot - 1 /\ last_filter("d") # slot
      BY <1>2, <2>3
    <3>2. slot \notin Busy("d")
      BY <1>2, <2>3, <3>1
    <3>3. f \in {"nofilter", "trunc_prec"}
      BY <1>1, <1>2, <3>2, SlotCodes DEF Busy, DoNothing
    <3>4. \A k \in Busy("d") : k <= slot
      BY <1>2, <2>3, <3>1, SlotNumbers
    <3>5. role.src = "tmp" /\ role.tmp = "tmp4"
      BY <1>1, <1>2, <3>4 DEF Visits
    <3> QED
      BY <1>5, <3>3, <3>5
  <2> QED
    BY <1>2, <1>3, <2>1, <2>2, <2>3 DEF Visits
<1>11. Uncoded(s)'
  <2>1. ASSUME Supported, slot' >= 0 PROVE Has(buf'[Holder'], block, s[slot' + 1])
    BY <2>1, HolderMoves
  <2>2. ASSUME Supported, slot' < 0 PROVE Plain(buf'[Target'], block') <=> ReadsRight'
    <3>1. Plain(buf'[Target], block) <=> ReadsRight
      BY <2>2, BlockDecoded
    <3>2. ReadsRight' <=> ReadsRight
      BY <1>2, <1>3 DEF ReadsRight
    <3> QED
      BY <1>2, <3>1, <3>2
  <2>3. ASSUME Supported, mode = "decompress", block = 1 PROVE Plain(buf'["dest0"], 0)
    <3>1. "dest0" \notin scratch /\ "dest0" \in Buffers
      BY <2>3 DEF Target, Output, Buffers
    <3>2. buf'["dest0"] = buf["dest0"]
      BY <1>4, <1>6, <3>1
    <3> QED
      BY <1>1, <2>3, <3>2 DEF Uncoded
  <2> QED
    BY <1>2, <1>3, <2>1, <2>2, <2>3 DEF Uncoded, Decoding
<1>12. ReferenceOnce'
  <2> SUFFICES ASSUME Supported, HasDelta
      PROVE  /\ mode = "decompress" /\ block = 0 /\ slot' >= 0 => dref_not_init'
             /\ ~alone /\ (\/ mode \in {"decompressed", "getitem", "got"}
                           \/ mode = "decompress" /\ (block = 1 \/ slot' < 0)) => ~dref_not_init'
    BY <1>2, <1>3 DEF ReferenceOnce
  <2>1. PICK i \in Slots : filters[i] = "delta"
    BY DEF HasDelta
  <2>2. last_filter("d") = i
    BY <2>1, DeltaIsLast
  <2>3. f = "delta" => slot = i
    BY <1>2, <2>2, DeltaIsLast
  <2>4. ASSUME mode = "decompress", block = 0, slot' >= 0 PROVE dref_not_init'
    <3>1. dref_not_init
      BY <1>1, <1>2, <2>4 DEF ReferenceOnce
    <3>2. slot # i
      BY <1>2, <2>2, <2>4
    <3> QED
      BY <1>5, <2>3, <3>1, <3>2
  <2>5. ASSUME ~alone, \/ mode \in {"decompressed", "getitem", "got"}
                       \/ mode = "decompress" /\ (block = 1 \/ slot' < 0)
        PROVE  ~dref_not_init'
    <3>1. CASE mode = "decompress" /\ block = 0
      <4>1. slot = i /\ f = "delta"
        BY <1>2, <2>1, <2>2, <2>5, <3>1
      <4>2. Offset = 0
        BY <3>1 DEF Offset
      <4> QED
        BY <1>5, <2>5, <4>1, <4>2
    <3>2. CASE ~(mode = "decompress" /\ block = 0)
      <4>1. ~dref_not_init
        BY <1>1, <1>2, <2>5, <3>2 DEF ReferenceOnce, Decoding
      <4> QED
        BY <1>5, <4>1
    <3> QED
      BY <3>1, <3>2
  <2> QED
    BY <2>4, <2>5
<1>13. TailThere'
  <2>1. ASSUME CopiesTail, mode = "decompress", block = 1
        PROVE  IF slot' < 0 THEN buf'["dest1"].tail ELSE buf'[role'.src].tail
    <3>1. buf[role.src].tail
      BY <1>1, <1>2, <2>1 DEF TailThere
    <3>2. ~ElementsOnly(f)
      BY <1>2, <2>1 DEF CopiesTail
    <3>3. f \in {"nofilter", "shuffle", "bitshuffle"}
      BY <1>1, <1>2, <3>2, SlotCodes DEF ElementsOnly
    <3>4. CASE f = "nofilter"
      <4>1. slot \notin Busy("d") /\ last_filter("d") # slot
        BY <1>2, <3>4 DEF Busy, DoNothing
      <4>2. ~(slot' < 0) /\ role'.src = role.src /\ buf' = buf
        BY <1>2, <1>4, <1>5, <3>4, <4>1 DEF Runs
      <4> QED
        BY <3>1, <4>2
    <3>5. CASE f # "nofilter"
      <4>1. Undoing(f).tail = buf[role.src].tail
        BY <1>1, <3>3, <3>5, UndoingContent
      <4>2. buf'[out].tail
        BY <1>4, <3>1, <3>2, <3>3, <3>5, <4>1 DEF Runs
      <4>3. CASE last_filter("d") = slot
        <5>1. out = "dest1" /\ slot' < 0
          BY <1>2, <2>1, <4>3 DEF FilterOutput, Target, Output
        <5> QED
          BY <4>2, <5>1
      <4>4. CASE last_filter("d") # slot
        <5>1. role'.src = out /\ ~(slot' < 0)
          BY <1>2, <1>5, <3>3, <3>5, <4>4 DEF Cycled
        <5> QED
          BY <4>2, <5>1
      <4> QED
        BY <4>3, <4>4
    <3> QED
      BY <3>4, <3>5
  <2> QED
    BY <1>1, <1>2, <1>3, <2>1 DEF TailThere, Decoding
<1> QED
  BY <1>7, <1>8, <1>9, <1>10, <1>11, <1>12, <1>13 DEF DataInv

-----------------------------------------------------------------------------
(* The other steps *)

LEMMA StartDecompressionData ==
  ASSUME NEW s, Stacked(s), PipelineInv, DataInv(s), StartDecompression
  PROVE  DataInv(s)'
<1>1. /\ WellFormed /\ Coded(s) /\ TailThere /\ mode = "compressed"
  BY DEF DataInv, StartDecompression
<1>2. /\ Supported => \A a \in {0, 1} : Has(chunk[a], a, s[MAX_FILTERS])
      /\ CopiesTail => chunk[1].tail
  BY <1>1 DEF Coded, TailThere
<1>3. /\ Fixed /\ UNCHANGED chunk /\ dref_not_init' = TRUE
      /\ BeginD(0, "decompress", Output(0), "tmp2")
  BY DEF StartDecompression
<1>4. Supported /\ HasDelta => IF "decompress" = "decompress" /\ 0 = 0 THEN dref_not_init'
                               ELSE ~alone => ~dref_not_init'
  BY <1>3
<1>5. "decompress" = "decompress" /\ 0 = 1 /\ Supported => Plain(buf["dest0"], 0)
  OBVIOUS
<1>6. dref_not_init' \in BOOLEAN /\ 0 \in {0, 1}
  BY <1>3
<1> QED
  BY <1>1, <1>2, <1>3, <1>4, <1>5, <1>6, BeginDData

LEMMA DecompressedData ==
  ASSUME NEW s, Stacked(s), PipelineInv, DataInv(s), Decompressed
  PROVE  DataInv(s)'
<1>1. /\ WellFormed /\ Coded(s) /\ Uncoded(s) /\ ReferenceOnce /\ TailThere
      /\ mode = "decompress" /\ slot < 0 /\ block \in {0, 1} /\ Fixed
      /\ chunk' = chunk /\ dref_not_init' = dref_not_init
  BY DEF DataInv, Decompressed, PipelineInv, Types
<1>2. /\ Supported => \A a \in {0, 1} : Has(chunk[a], a, s[MAX_FILTERS])
      /\ CopiesTail => chunk[1].tail
  BY <1>1 DEF Coded, TailThere
<1>3. Supported => Plain(buf[Output(block)], block)
  BY <1>1 DEF Uncoded, Decoding, Target, ReadsRight
<1>4. Supported /\ HasDelta => (~alone => ~dref_not_init)
  BY <1>1 DEF ReferenceOnce
<1>5. CASE block = 0
  <2>1. Supported => Plain(buf["dest0"], 0)
    BY <1>3, <1>5 DEF Output
  <2>2. BeginD(1, "decompress", Output(1), "tmp2")
    BY <1>5 DEF Decompressed
  <2>3. dref_not_init' \in BOOLEAN
    BY <1>1 DEF WellFormed
  <2>4. Supported /\ HasDelta => IF "decompress" = "decompress" /\ 1 = 0 THEN dref_not_init'
                                 ELSE ~alone => ~dref_not_init'
    BY <1>1, <1>4
  <2>5. UNCHANGED chunk /\ 1 \in {0, 1}
    BY <1>1
  <2> QED
    BY <1>1, <1>2, <2>1, <2>2, <2>3, <2>4, <2>5, BeginDData
<1>6. CASE block = 1
  <2>1. /\ mode' = "decompressed" /\ block' = block /\ slot' = slot /\ buf' = buf
    BY <1>6 DEF Decompressed
  <2>2. /\ (Supported' <=> Supported) /\ (CopiesTail' <=> CopiesTail) /\ (HasDelta' <=> HasDelta)
        /\ alone' = alone
    BY <1>1, PipelineFixed DEF Fixed
  <2>3. WellFormed' /\ CodesInScratch' /\ Visits'
    BY <1>1, <2>1 DEF WellFormed, Fixed, CodesInScratch, Visits, Decoding
  <2>4. Coded(s)'
    BY <1>1, <1>2, <2>1, <2>2 DEF Coded
  <2>5. Uncoded(s)'
    <3>1. Supported => Plain(buf["dest1"], 1) /\ Plain(buf["dest0"], 0)
      BY <1>1, <1>3, <1>6 DEF Output, Uncoded
    <3> QED
      BY <2>1, <2>2, <3>1 DEF Uncoded, Decoding
  <2>6. ReferenceOnce'
    BY <1>1, <1>4, <2>1, <2>2 DEF ReferenceOnce
  <2>7. TailThere'
    BY <1>1, <1>6, <2>1, <2>2 DEF TailThere
  <2> QED
    BY <2>3, <2>4, <2>5, <2>6, <2>7 DEF DataInv
<1> QED
  BY <1>1, <1>5, <1>6

LEMMA GetItemData ==
  ASSUME NEW s, Stacked(s), PipelineInv, DataInv(s), NEW b \in {0, 1}, StartGetItem(b)
  PROVE  DataInv(s)'
<1>1. /\ WellFormed /\ Coded(s) /\ ReferenceOnce /\ TailThere
      /\ mode \in {"decompressed", "got"} /\ Fixed
      /\ chunk' = chunk /\ dref_not_init' = dref_not_init
      /\ BeginD(b, "getitem", "tmp2", "tmp3")
  BY DEF DataInv, StartGetItem
<1>2. /\ Supported => \A a \in {0, 1} : Has(chunk[a], a, s[MAX_FILTERS])
      /\ CopiesTail => chunk[1].tail
  BY <1>1 DEF Coded, TailThere
<1>3. Supported /\ HasDelta => (~alone => ~dref_not_init)
  BY <1>1 DEF ReferenceOnce
<1>4. dref_not_init' \in BOOLEAN
  BY <1>1 DEF WellFormed
<1> QED
  BY <1>1, <1>2, <1>3, <1>4, BeginDData

LEMMA GotData ==
  ASSUME NEW s, Stacked(s), PipelineInv, DataInv(s), Got
  PROVE  DataInv(s)'
<1>1. /\ WellFormed /\ Coded(s) /\ Uncoded(s) /\ ReferenceOnce /\ TailThere
      /\ mode = "getitem" /\ mode' = "got" /\ slot < 0 /\ Fixed
      /\ UNCHANGED <<dref_not_init, block, slot, buf, chunk, role>>
  BY DEF DataInv, Got
<1>2. /\ (Supported' <=> Supported) /\ (CopiesTail' <=> CopiesTail) /\ (HasDelta' <=> HasDelta)
      /\ alone' = alone
  BY <1>1, PipelineFixed DEF Fixed
<1>3. WellFormed' /\ CodesInScratch' /\ Visits'
  BY <1>1 DEF WellFormed, Fixed, CodesInScratch, Visits, Decoding
<1>4. Coded(s)'
  BY <1>1, <1>2 DEF Coded
<1>5. Uncoded(s)'
  <2>1. Supported => (Plain(buf["tmp2"], block) <=> ReadsRight)
    BY <1>1 DEF Uncoded, Decoding, Target
  <2>2. ReadsRight' <=> ReadsRight
    BY <1>1, <1>2 DEF ReadsRight
  <2> QED
    BY <1>1, <1>2, <2>1, <2>2 DEF Uncoded, Decoding
<1>6. ReferenceOnce'
  BY <1>1, <1>2 DEF ReferenceOnce
<1>7. TailThere'
  BY <1>1, <1>2 DEF TailThere
<1> QED
  BY <1>3, <1>4, <1>5, <1>6, <1>7 DEF DataInv

\* The layers stay the same, and with them the invariant.
DataKnown == \A s : Stacked(s) => DataInv(s)

LEMMA DataInit == Init => DataKnown
<1> SUFFICES ASSUME Init, NEW s, Stacked(s) PROVE DataInv(s)
  BY DEF DataKnown
<1>1. WellFormed
  BY RawIs, FilterCodes DEF Init, WellFormed, Buffers
<1>2. CodesInScratch /\ Visits /\ Uncoded(s) /\ ReferenceOnce /\ TailThere /\ Coded(s)
  BY DEF Init, CodesInScratch, Visits, Uncoded, ReferenceOnce, TailThere, Coded, Decoding
<1> QED
  BY <1>1, <1>2 DEF DataInv

LEMMA DataStutters ==
  ASSUME NEW s, DataInv(s), UNCHANGED vars
  PROVE  DataInv(s)'
<1>1. /\ Fixed /\ UNCHANGED <<dref_not_init, mode, block, slot, buf, chunk, role>>
  BY DEF vars, Fixed
<1>2. /\ (Supported' <=> Supported) /\ (CopiesTail' <=> CopiesTail) /\ (HasDelta' <=> HasDelta)
      /\ Busy("d")' = Busy("d") /\ last_filter("d")' = last_filter("d")
      /\ Target' = Target /\ (ReadsRight' <=> ReadsRight) /\ Holder' = Holder /\ alone' = alone
  <2>1. \A i : next_filter(i, "d")' = next_filter(i, "d")
    BY <1>1, PipelineFixed
  <2>2. (HasDelta' <=> HasDelta) /\ Target' = Target /\ alone' = alone
    BY <1>1, PipelineFixed DEF Target, Output, Fixed
  <2>3. Holder' = Holder
    <3>1. next_filter(slot + 1, "d")' = next_filter(slot + 1, "d")
      BY <1>1 DEF next_filter, Busy, Fixed
    <3> QED
      BY <1>1, <2>2, <3>1 DEF Holder
  <2>4. ReadsRight' <=> ReadsRight
    BY <1>1, <2>2 DEF ReadsRight
  <2> QED
    BY <1>1, <2>2, <2>3, <2>4, PipelineFixed
<1>3. WellFormed'
  BY <1>1 DEF DataInv, WellFormed, Fixed
<1>4. Coded(s)' /\ CodesInScratch' /\ TailThere'
  BY <1>1, <1>2 DEF DataInv, Coded, CodesInScratch, TailThere
<1>5. Visits' /\ ReferenceOnce'
  BY <1>1, <1>2 DEF DataInv, Visits, ReferenceOnce, Decoding
<1>6. Uncoded(s)'
  BY <1>1, <1>2 DEF DataInv, Uncoded, Decoding
<1> QED
  BY <1>3, <1>4, <1>5, <1>6 DEF DataInv

LEMMA DataStep == PipelineInv /\ DataKnown /\ [Next]_vars => DataKnown'
<1> SUFFICES ASSUME PipelineInv, DataKnown, [Next]_vars, NEW s, Stacked(s)'
             PROVE  DataInv(s)'
  BY DEF DataKnown
<1>1. Fixed
  BY DEF Next, vars, Fixed, StartCompression, FilterC, Compressed, StartDecompression, FilterD,
         Decompressed, StartGetItem, Got
<1>2. Stacked(s)
  BY <1>1, PipelineFixed
<1>3. DataInv(s)
  BY <1>2 DEF DataKnown
<1> QED
  BY <1>2, <1>3, CompressionData, FilterCData, FilterDData, StartDecompressionData,
     DecompressedData, GetItemData, GotData, DataStutters DEF Next

LEMMA DataAlways == Spec => []DataKnown
BY PipelineKept, DataInit, DataStep, PTL DEF Spec

(* With any number of slots, any filters in them and any number of         *)
(* threads, an item of a supported pipeline is read right exactly when     *)
(* there is no delta, or one thread reads the first block: _blosc_getitem  *)
(* gives blosc_d the offset 0 for every block (blosc.c:1764-1815).         *)
THEOREM ItemsAreRead == Spec => []ItemsRead
<1>1. DataKnown => ItemsRead
  <2> SUFFICES ASSUME DataKnown, mode = "got", Supported
               PROVE  Plain(buf["tmp2"], block) <=> ReadsRight
    BY DEF ItemsRead, ReadsRight, HasDelta
  <2>1. PICK s : Stacked(s)
    BY LayersExist
  <2>2. Uncoded(s)
    BY <2>1 DEF DataKnown, DataInv
  <2> QED
    BY <2>2 DEF Uncoded
<1> QED
  BY <1>1, DataAlways, PTL

-----------------------------------------------------------------------------
(* What an unsupported pipeline does to block 0 *)

Shuffling(f) == f \in {"shuffle", "bitshuffle"}
Mixed(c) == \E n \in DOMAIN c.layers : Shuffling(c.layers[n])

\* Three ways to lose the block: a trunc_prec or delta that sees shuffled
\* elements, two deltas below all other filters, and a bitshuffle that is not
\* the first to be undone.
SpoilsBelow(n) ==
  \E i, k \in Slots : i < k /\ k < n /\ Shuffling(filters[i]) /\ filters[k] \in {"trunc_prec", "delta"}
DeltaTwice(i, j) ==
  /\ i \in Busy("d") /\ j \in Busy("d") /\ i < j
  /\ filters[i] = "delta" /\ filters[j] = "delta"
  /\ \A k \in Busy("d") : k = i \/ k >= j
BitsLate(i) ==
  /\ i \in Busy("d") /\ filters[i] = "bitshuffle"
  /\ \E k \in Busy("d") : i < k
  /\ \A k \in Slots : filters[k] = "delta" => \A l \in Busy("d") : k <= l

\* How many filters are before slot n
Worked(i) == i \in Slots /\ filters[i] # "nofilter"
OneBefore(n) == \E i \in Slots : Worked(i) /\ i < n
TwoBefore(n) == \E i, k \in Slots : Worked(i) /\ Worked(k) /\ i < k /\ k < n

LostInCoding ==
  eights =>
    /\ mode = "compress" /\ block = 0 =>
         LET c == buf[role.src]
         IN  /\ (\E i \in Slots : i < slot /\ Shuffling(filters[i])) => c.of = NoBlock \/ Mixed(c)
             /\ SpoilsBelow(slot) => c.of = NoBlock
    /\ mode # "start" /\ ~(mode = "compress" /\ block = 0) =>
         (SpoilsBelow(MAX_FILTERS) => chunk[0].of = NoBlock)

\* Once block 1 is coded by two filters, no buffer but the caller's holds
\* block 0.
FirstBlockGone ==
  /\ mode \in {"start", "compress", "compressed"} =>
       \A x \in {"tmp3", "tmp4", "dest0", "dest1"} : buf[x].of # 0
  /\ mode = "compress" /\ block = 1 =>
       /\ buf[role.src].of # 0
       /\ OneBefore(slot) => role.tmp = role.src /\ {role.src, role.dest} = {"tmp", "tmp2"}
       /\ TwoBefore(slot) => buf[role.dest].of # 0
  /\ mode = "compressed" /\ TwoBefore(MAX_FILTERS) => buf["tmp"].of # 0 /\ buf["tmp2"].of # 0
  /\ eights /\ mode = "decompress" /\ block = 0 /\ SpoilsBelow(MAX_FILTERS) =>
       \A x \in Buffers \ Sources : buf[x].of # 0

FirstDecoded == mode = "decompress" /\ block = 0

ScratchIsSource == Decoding /\ slot >= 0 /\ (\E k \in Busy("d") : k > slot) => role.src = role.tmp

LostTwice ==
  alone /\ FirstDecoded =>
    \A i, j \in Slots : DeltaTwice(i, j) =>
      /\ slot >= 0 /\ slot < j => buf[Target].of # 0 \/ buf[Target].layers = <<>>
      /\ slot < 0 => buf[Target].of # 0

LostBits ==
  eights /\ FirstDecoded =>
    \A i \in Slots : BitsLate(i) =>
      /\ slot >= 0 /\ slot < i => buf[Holder].of # 0
      /\ slot < 0 => buf[Target].of # 0

NeverBack ==
  alone /\ eights /\ ~Supported /\ (mode = "decompressed" \/ (mode = "decompress" /\ block = 1)) =>
    ~Plain(buf["dest0"], 0)

LossInv ==
  LostInCoding /\ FirstBlockGone /\ ScratchIsSource /\ LostTwice /\ LostBits /\ NeverBack

\* An unsupported pipeline loses the block in one of the three ways.
LEMMA NotSupported ==
  ASSUME WellFormed, ~Supported
  PROVE  \/ SpoilsBelow(MAX_FILTERS)
         \/ \E i, j \in Slots : DeltaTwice(i, j)
         \/ \E i \in Slots : BitsLate(i)
<1>1. /\ Busy("d") \subseteq Slots /\ Busy("d") \subseteq Nat
      /\ \A k \in Slots : k \in Nat /\ k < MAX_FILTERS
  BY SlotNumbers DEF Slots
<1>2. \A i \in Busy("d") : filters[i] \in {"shuffle", "bitshuffle", "delta"}
  BY <1>1, SlotCodes DEF Busy, DoNothing
<1>3. ASSUME NEW i \in Busy("d"), NEW k \in Slots, i < k, filters[k] = "delta",
             ~SpoilsBelow(MAX_FILTERS)
      PROVE  \E a, b \in Slots : DeltaTwice(a, b)
  <2>1. \A l \in Busy("d") : l < k => filters[l] = "delta"
    <3> SUFFICES ASSUME NEW l \in Busy("d"), l < k, filters[l] # "delta" PROVE FALSE
      OBVIOUS
    <3>1. Shuffling(filters[l])
      BY <1>2 DEF Shuffling
    <3> QED
      BY <1>1, <1>3, <3>1 DEF SpoilsBelow
  <2>2. PICK a \in Busy("d") : \A l \in Busy("d") : a <= l
    BY <1>1, LeastNumber
  <2> DEFINE rest == {l \in Busy("d") : a < l}
  <2>3. k \in rest /\ rest \subseteq Nat
    <3>1. k \in Busy("d")
      BY <1>3 DEF Busy, DoNothing
    <3> QED
      BY <1>1, <1>3, <2>2, <3>1
  <2>4. PICK b \in rest : \A l \in rest : b <= l
    <3> HIDE DEF rest
    <3> QED
      BY <2>3, LeastNumber
  <2>5. filters[a] = "delta"
    BY <1>1, <1>3, <2>1, <2>2
  <2>6. filters[b] = "delta"
    <3>1. b <= k /\ b \in Busy("d")
      BY <2>3, <2>4
    <3> QED
      BY <1>1, <1>3, <2>1, <3>1
  <2>7. \A l \in Busy("d") : l = a \/ l >= b
    <3> SUFFICES ASSUME NEW l \in Busy("d"), l # a PROVE l >= b
      OBVIOUS
    <3>1. l \in rest
      BY <1>1, <2>2
    <3> QED
      BY <1>1, <2>4, <3>1
  <2>8. DeltaTwice(a, b)
    BY <2>4, <2>5, <2>6, <2>7 DEF DeltaTwice
  <2> QED
    BY <1>1, <2>4, <2>8
<1>4. PICK i \in Busy("d"), k \in Slots :
         /\ k > i
         /\ \/ filters[k] = "delta"
            \/ k \in Busy("d") /\ filters[i] = "bitshuffle"
            \/ filters[k] = "trunc_prec" /\ filters[i] # "delta"
  BY DEF Supported
<1>5. CASE \E a \in Busy("d"), b \in Slots : a < b /\ filters[b] = "delta"
  BY <1>3, <1>5
<1>6. CASE filters[k] = "trunc_prec" /\ filters[i] # "delta"
  <2>1. Shuffling(filters[i])
    BY <1>2, <1>6 DEF Shuffling
  <2> QED
    BY <1>1, <1>4, <1>6, <2>1 DEF SpoilsBelow
<1>7. CASE /\ k \in Busy("d") /\ filters[i] = "bitshuffle"
           /\ ~\E a \in Busy("d"), b \in Slots : a < b /\ filters[b] = "delta"
  <2>1. \A b \in Slots : filters[b] = "delta" => \A l \in Busy("d") : b <= l
    BY <1>1, <1>7
  <2>2. BitsLate(i)
    BY <1>4, <1>7, <2>1 DEF BitsLate
  <2> QED
    BY <1>1, <2>2
<1> QED
  BY <1>1, <1>4, <1>5, <1>6, <1>7

\* No operation turns one block into another.
LEMMA BlockOf ==
  ASSUME NEW c \in Content
  PROVE  /\ \A f : Coding(f, c).of \in {c.of, NoBlock}
         /\ \A l : Undone(c, l).of \in {c.of, NoBlock} /\ Under(c, l).of = c.of
         /\ \A w : BitUndone(c, w).of \in {c.of, NoBlock}
         /\ \A o, d : DeltaDecoded(o, c, d).of \in {c.of, NoBlock}
<1>1. /\ \A l : Under(c, l).of = c.of
      /\ \A l : Undone(c, l).of \in {c.of, NoBlock}
      /\ Spoiled(c).of = NoBlock
  BY SpoiledIs DEF Under, Undone, Content
<1>2. Xored(c).of \in {c.of, NoBlock}
  BY <1>1 DEF Xored
<1>3. \A b : DeltaEncoded(b, c).of \in {c.of, NoBlock}
  BY <1>1, <1>2 DEF DeltaEncoded
<1>4. \A f : Coding(f, c).of \in {c.of, NoBlock}
  BY <1>1, <1>3 DEF Coding, BitLayer, Truncated
<1>5. \A w : BitUndone(c, w).of \in {c.of, NoBlock}
  BY <1>1 DEF BitUndone
<1>6. \A o, d : DeltaDecoded(o, c, d).of \in {c.of, NoBlock}
  BY <1>1, <1>2 DEF DeltaDecoded
<1> QED
  BY <1>1, <1>4, <1>5, <1>6

\* Buffers FilterC does not write; one that bitshuffle spoils holds nothing.
LEMMA FilterCElsewhere ==
  ASSUME PipelineInv, WellFormed, CodesInScratch, FilterC, NEW x \in Buffers,
         x # role.dest \/ filters[slot] = "nofilter"
  PROVE  /\ x # "tmp4" => buf'[x] = buf[x]
         /\ buf'[x].of \in {buf[x].of, NoBlock}
<1> DEFINE f == filters[slot]
<1>1. DOMAIN buf = Buffers /\ buf[x] \in Content
  BY DEF PipelineInv, Types, WellFormed
<1>2. CASE f = "nofilter"
  BY <1>2 DEF FilterC
<1>3. CASE x # role.dest
  <2>1. \A d : Put(f, role.dest, d)[x] = buf[x] /\ DOMAIN Put(f, role.dest, d) = Buffers
    BY <1>1, <1>3, PutKeeps
  <2>2. \/ buf' = buf
        \/ \E d : buf' = Put(f, role.dest, d)
        \/ \E d : buf' = [Put(f, role.dest, d) EXCEPT !["tmp4"] = Spoiled(@)]
    BY DEF FilterC
  <2>3. CASE \E d : buf' = [Put(f, role.dest, d) EXCEPT !["tmp4"] = Spoiled(@)]
    <3>1. PICK d : buf' = [Put(f, role.dest, d) EXCEPT !["tmp4"] = Spoiled(@)]
      BY <2>3
    <3> DEFINE p == Put(f, role.dest, d)
    <3>2. p[x] = buf[x] /\ DOMAIN p = Buffers
      BY <2>1
    <3> HIDE DEF p
    <3>3. buf' = [p EXCEPT !["tmp4"] = Spoiled(p["tmp4"])]
      BY <3>1 DEF p
    <3>4. x # "tmp4" => buf'[x] = p[x]
      BY <3>2, <3>3
    <3>5. x = "tmp4" => buf'[x] = Spoiled(buf[x])
      BY <3>2, <3>3
    <3> QED
      BY <1>1, <3>2, <3>4, <3>5, SpoiledIs
  <2> QED
    BY <2>1, <2>2, <2>3
<1> QED
  BY <1>2, <1>3

LEMMA LossWhileCoding ==
  ASSUME PipelineInv, WellFormed, CodesInScratch, LostInCoding, FilterC
  PROVE  LostInCoding'
<1> DEFINE f == filters[slot]
           c == buf[role.src]
           d == buf'[role'.src]
<1>1. /\ mode = "compress" /\ mode' = mode /\ block' = block /\ chunk' = chunk /\ Fixed
      /\ slot' = slot + 1 /\ slot < MAX_FILTERS /\ slot \in Nat /\ slot \in Slots
      /\ MAX_FILTERS \in Nat /\ block \in {0, 1} /\ role.src \in Buffers /\ c \in Content
      /\ filters' = filters /\ eights' = eights
  BY SlotNumbers DEF FilterC, CodesInScratch, PipelineInv, Types, Slots, WellFormed, Fixed
<1>2. /\ f = "nofilter" => d = c
      /\ f # "nofilter" => d.of = Coding(f, c).of /\ d.layers = Coding(f, c).layers
  BY FilterCWrites
<1>3. \A n : SpoilsBelow(n)' <=> SpoilsBelow(n)
  BY <1>1 DEF SpoilsBelow
<1>4. \A k \in Slots : k \in Nat /\ (k < slot + 1 <=> k < slot \/ k = slot)
  BY <1>1, SlotNumbers DEF Slots
<1>5. SUFFICES ASSUME eights, block = 0
               PROVE  /\ (\E i \in Slots : i < slot + 1 /\ Shuffling(filters[i]))
                            => d.of = NoBlock \/ Mixed(d)
                      /\ SpoilsBelow(slot + 1) => d.of = NoBlock
  BY <1>1, <1>3 DEF LostInCoding, Shuffling, Mixed
<1>6. /\ (\E i \in Slots : i < slot /\ Shuffling(filters[i])) => c.of = NoBlock \/ Mixed(c)
      /\ SpoilsBelow(slot) => c.of = NoBlock
  BY <1>1, <1>5 DEF LostInCoding
<1>7. c.of = NoBlock => d.of = NoBlock
  BY <1>1, <1>2, BlockOf
<1>8. Spoiled(c).of = NoBlock
  BY <1>1, SpoiledIs
<1>9. Shuffling(f) => d.of = NoBlock \/ Mixed(d)
  <2> SUFFICES ASSUME Shuffling(f), c.of # NoBlock PROVE Mixed(d)
    BY <1>7
  <2>1. f \in AllCodes /\ f # "nofilter"
    BY DEF Shuffling, AllCodes
  <2>2. Coding(f, c) = Under(c, f)
    BY <1>5 DEF Shuffling, Coding, BitLayer
  <2>3. d.layers = Append(c.layers, f)
    BY <1>1, <1>2, <2>1, <2>2, UnderIs DEF Has
  <2>4. c.layers \in Seq(AllCodes)
    BY <1>1 DEF Content
  <2>5. /\ Len(c.layers) + 1 \in DOMAIN d.layers
        /\ d.layers[Len(c.layers) + 1] = f
    <3>1. Len(d.layers) = Len(c.layers) + 1 /\ d.layers \in Seq(AllCodes)
          /\ d.layers[Len(c.layers) + 1] = f
      BY <2>1, <2>3, <2>4, AppendProperties
    <3>2. DOMAIN d.layers = 1 .. Len(d.layers) /\ Len(c.layers) \in Nat
      BY <2>4, <3>1, LenProperties
    <3> QED
      BY <3>1, <3>2
  <2> QED
    BY <2>5 DEF Mixed
<1>10. f \in {"trunc_prec", "delta"} /\ Mixed(c) => d.of = NoBlock
  <2> SUFFICES ASSUME f \in {"trunc_prec", "delta"}, Mixed(c) PROVE d.of = NoBlock
    OBVIOUS
  <2>1. c.layers \notin {<<>>, <<"delta">>}
    BY DEF Mixed, Shuffling
  <2>2. Coding(f, c) = Spoiled(c)
    BY <1>5, <2>1 DEF Coding, DeltaEncoded, Truncated, Mixed, Shuffling
  <2> QED
    BY <1>2, <1>8, <2>2
<1>11. ~Shuffling(f) /\ Mixed(c) => d.of = NoBlock \/ Mixed(d)
  <2> SUFFICES ASSUME ~Shuffling(f), Mixed(c), f \notin {"trunc_prec", "delta"} PROVE Mixed(d)
    BY <1>10
  <2>1. f = "nofilter"
    BY <1>1, SlotCodes DEF Shuffling
  <2> QED
    BY <1>2, <2>1
<1>12. (\E i \in Slots : i < slot + 1 /\ Shuffling(filters[i])) => d.of = NoBlock \/ Mixed(d)
  BY <1>4, <1>6, <1>7, <1>9, <1>11
<1>13. SpoilsBelow(slot + 1) => d.of = NoBlock
  <2> SUFFICES ASSUME SpoilsBelow(slot + 1) PROVE d.of = NoBlock
    OBVIOUS
  <2>1. PICK i, k \in Slots :
           i < k /\ k < slot + 1 /\ Shuffling(filters[i]) /\ filters[k] \in {"trunc_prec", "delta"}
    BY DEF SpoilsBelow
  <2>2. CASE k < slot
    BY <1>6, <1>7, <2>1, <2>2 DEF SpoilsBelow
  <2>3. CASE k = slot
    BY <1>6, <1>7, <1>10, <2>1, <2>3
  <2> QED
    BY <1>4, <2>1, <2>2, <2>3
<1> QED
  BY <1>12, <1>13

LEMMA GoneWhileCoding ==
  ASSUME PipelineInv, WellFormed, CodesInScratch, FirstBlockGone, FilterC
  PROVE  FirstBlockGone'
<1> DEFINE f == filters[slot]
           c == buf[role.src]
<1>1. /\ mode = "compress" /\ mode' = mode /\ block' = block /\ filters' = filters
      /\ slot' = slot + 1 /\ slot \in Nat /\ slot \in Slots /\ block \in {0, 1}
      /\ role.src \in Buffers /\ role.dest \in Buffers /\ role.tmp \in Buffers /\ c \in Content
      /\ {role.dest, role.tmp} = {"tmp", "tmp2"}
      /\ role' = IF f = "nofilter" THEN role ELSE Cycled(role)
  BY SlotNumbers DEF FilterC, CodesInScratch, PipelineInv, Types, Slots, WellFormed, Fixed, Alternates
<1>2. {"tmp3", "tmp4", "dest0", "dest1", "tmp", "tmp2"} \subseteq Buffers /\ NoBlock # 0
  BY DEF Buffers, NoBlock
<1>3. \A x \in {"tmp3", "tmp4", "dest0", "dest1"} : buf'[x].of # 0
  <2> SUFFICES ASSUME NEW x \in {"tmp3", "tmp4", "dest0", "dest1"} PROVE buf'[x].of # 0
    OBVIOUS
  <2>1. x # role.dest /\ x \in Buffers /\ buf[x].of # 0
    BY <1>1, <1>2 DEF FirstBlockGone
  <2>2. buf'[x].of \in {buf[x].of, NoBlock}
    BY <2>1, FilterCElsewhere
  <2> QED
    BY <1>2, <2>1, <2>2
<1>4. \A k \in Slots : k \in Nat /\ (k < slot + 1 <=> k < slot \/ k = slot)
  BY <1>1, SlotNumbers DEF Slots
<1>5. ASSUME block = 1
      PROVE  /\ buf'[role'.src].of # 0
             /\ OneBefore(slot + 1) => role'.tmp = role'.src /\ {role'.src, role'.dest} = {"tmp", "tmp2"}
             /\ TwoBefore(slot + 1) => buf'[role'.dest].of # 0
  <2>1. /\ c.of # 0
        /\ OneBefore(slot) => role.tmp = role.src /\ {role.src, role.dest} = {"tmp", "tmp2"}
        /\ TwoBefore(slot) => buf[role.dest].of # 0
    BY <1>1, <1>5 DEF FirstBlockGone
  <2>2. buf'[role'.src].of \in {c.of, NoBlock}
    BY <1>1, FilterCWrites, BlockOf
  <2>3. CASE f = "nofilter"
    <3>1. ~Worked(slot)
      BY <2>3 DEF Worked
    <3>2. OneBefore(slot + 1) => OneBefore(slot)
      BY <1>4, <3>1 DEF OneBefore
    <3>3. TwoBefore(slot + 1) => TwoBefore(slot)
      BY <1>4, <3>1 DEF TwoBefore
    <3>4. buf'[role.dest] = buf[role.dest]
      BY <1>1, <2>3, FilterCElsewhere
    <3> QED
      BY <1>1, <1>2, <2>1, <2>2, <2>3, <3>2, <3>3, <3>4
  <2>4. CASE f # "nofilter"
    <3>1. role'.src = role.dest /\ role'.dest = role.tmp /\ role'.tmp = role.dest
      BY <1>1, <2>4 DEF Cycled
    <3>2. TwoBefore(slot + 1) => OneBefore(slot)
      BY <1>1, <1>4 DEF TwoBefore, OneBefore
    <3>3. ASSUME OneBefore(slot) PROVE buf'[role'.dest].of # 0
      <4>1. role'.dest = role.src /\ role.src # role.dest /\ role.src # "tmp4"
        BY <1>1, <2>1, <3>1, <3>3
      <4>2. buf'[role.src] = c
        BY <1>1, <4>1, FilterCElsewhere
      <4> QED
        BY <2>1, <4>1, <4>2
    <3> QED
      BY <1>1, <1>2, <2>1, <2>2, <3>1, <3>2, <3>3
  <2> QED
    BY <2>3, <2>4
<1> QED
  BY <1>1, <1>3, <1>5 DEF FirstBlockGone, OneBefore, TwoBefore, Worked

LEMMA FilterDElsewhere ==
  ASSUME PipelineInv, WellFormed, Visits, FilterD, NEW x \in Buffers,
         x # FilterOutput(slot)
  PROVE  buf'[x].of \in {buf[x].of, NoBlock}
<1> DEFINE f == filters[slot]
           out == FilterOutput(slot)
<1>1. DOMAIN buf = Buffers /\ buf[x] \in Content /\ role.tmp \in Buffers
  BY FilterDIs DEF WellFormed
<1>2. CASE f # "bitshuffle" \/ x # role.tmp
  <2>1. \/ buf' = buf
        \/ \E d : buf' = Put(f, out, d)
        \/ x # role.tmp
    BY <1>2 DEF FilterD
  <2>2. \A d : Put(f, out, d)[x] = buf[x]
    BY <1>1, PutKeeps
  <2> QED
    BY <2>1, <2>2, FilterDWrites
<1>3. CASE f = "bitshuffle" /\ x = role.tmp
  <2> DEFINE p == Put(f, out, BitUndone(buf[role.src], role.tmp = role.src))
  <2>1. buf' = [p EXCEPT ![role.tmp] = IF eights /\ role.tmp # out THEN Spoiled(@) ELSE @]
    BY <1>3 DEF FilterD
  <2>2. p[x] = buf[x] /\ DOMAIN p = Buffers
    BY <1>1, PutKeeps
  <2> HIDE DEF p
  <2>3. buf'[x] \in {p[x], Spoiled(p[x])}
    BY <1>1, <1>3, <2>1, <2>2
  <2> QED
    BY <1>1, <2>2, <2>3, SpoiledIs
<1> QED
  BY <1>2, <1>3

\* What a filter writes is of the block it reads, or of none.
LEMMA UndoingOf ==
  ASSUME PipelineInv, WellFormed, Visits, FilterD, Runs(filters[slot])
  PROVE  LET f == filters[slot]
             out == FilterOutput(slot)
         IN  /\ f \in {"shuffle", "bitshuffle"} => buf'[out].of \in {buf[role.src].of, NoBlock}
             /\ f = "delta" => buf'[out].of \in {buf[out].of, NoBlock}
<1> DEFINE f == filters[slot]
           out == FilterOutput(slot)
<1>1. buf[role.src] \in Content /\ buf[out] \in Content
  BY FilterDIs DEF WellFormed
<1>2. buf'[out].of = Undoing(f).of
  BY FilterDWrites
<1>3. Spoiled(buf[role.src]).of = NoBlock
  BY <1>1, SpoiledIs
<1> QED
  BY <1>1, <1>2, <1>3, BlockOf DEF Undoing

LEMMA GoneWhileDecoding ==
  ASSUME PipelineInv, WellFormed, Visits, FirstBlockGone, FilterD
  PROVE  FirstBlockGone'
<1> DEFINE f == filters[slot]
           out == FilterOutput(slot)
<1>1. /\ Decoding /\ mode' = mode /\ block' = block /\ filters' = filters /\ eights' = eights
      /\ out \in Buffers /\ role.src \in Buffers
  BY FilterDIs DEF Fixed
<1>2. SpoilsBelow(MAX_FILTERS)' <=> SpoilsBelow(MAX_FILTERS)
  BY <1>1 DEF SpoilsBelow
<1>3. SUFFICES ASSUME \A x \in Buffers \ Sources : buf[x].of # 0,
                      NEW x \in Buffers \ Sources
               PROVE  buf'[x].of # 0
  BY <1>1, <1>2 DEF FirstBlockGone, Decoding
<1>4. NoBlock # 0
  BY DEF NoBlock
<1>5. role.src \notin Sources /\ out \notin Sources
  <2>1. {role.src, role.dest} \subseteq {"tmp", "tmp2", "tmp3", "tmp4", Target}
    BY <1>1 DEF Visits
  <2>2. Target \notin Sources
    BY BufferNames
  <2>3. {"tmp", "tmp2", "tmp3", "tmp4", Target} \cap Sources = {}
    BY <2>2 DEF Sources
  <2> QED
    BY <2>1, <2>3 DEF FilterOutput
<1>6. CASE x # out
  BY <1>3, <1>4, <1>6, FilterDElsewhere
<1>7. CASE x = out
  <2>1. buf[role.src].of # 0 /\ buf[out].of # 0
    BY <1>1, <1>3, <1>5
  <2>2. CASE Runs(f)
    BY <1>4, <1>7, <2>1, <2>2, UndoingOf DEF Runs
  <2>3. CASE ~Runs(f)
    BY <1>7, <2>1, <2>3, FilterDWrites
  <2> QED
    BY <2>2, <2>3
<1> QED
  BY <1>6, <1>7

LEMMA ScratchTurns ==
  ASSUME PipelineInv, WellFormed, Visits, ScratchIsSource, FilterD
  PROVE  ScratchIsSource'
<1> DEFINE f == filters[slot]
           out == FilterOutput(slot)
<1>1. /\ Decoding /\ Busy("d")' = Busy("d") /\ slot \in Nat /\ slot \in Slots
      /\ slot' = IF last_filter("d") = slot THEN -1 ELSE slot - 1
      /\ (slot' < 0 <=> last_filter("d") = slot)
      /\ Busy("d") \subseteq Nat
  BY FilterDIs, PipelineFixed, SlotNumbers
<1>2. role' = IF last_filter("d") # slot /\ f \notin {"nofilter", "trunc_prec"}
              THEN Cycled([role EXCEPT !.dest = out]) ELSE [role EXCEPT !.dest = out]
  BY DEF FilterD
<1>3. SUFFICES ASSUME slot' >= 0, NEW k \in Busy("d"), k > slot'
               PROVE  role'.src = role'.tmp
  BY <1>1 DEF ScratchIsSource
<1>4. last_filter("d") # slot /\ slot' = slot - 1 /\ k \in Nat
  BY <1>1, <1>3
<1>5. CASE slot \in Busy("d")
  <2>1. f \notin {"nofilter", "trunc_prec"}
    BY <1>5 DEF Busy, DoNothing
  <2> QED
    BY <1>2, <1>4, <2>1 DEF Cycled
<1>6. CASE slot \notin Busy("d")
  <2>1. k > slot
    BY <1>1, <1>3, <1>4, <1>6
  <2>2. role.src = role.tmp
    BY <1>1, <2>1 DEF ScratchIsSource
  <2>3. f \in {"nofilter", "trunc_prec"}
    BY <1>1, <1>6, SlotCodes DEF Busy, DoNothing
  <2>4. role \in [src : Buffers, dest : Buffers \ Sources, tmp : Buffers \ Sources]
    BY DEF PipelineInv, Types
  <2> QED
    BY <1>2, <2>2, <2>3, <2>4
<1> QED
  BY <1>5, <1>6

\* Two deltas below all others: the second one is undone from nothing.
LEMMA TwiceWhileDecoding ==
  ASSUME PipelineInv, WellFormed, Visits, LostTwice, FilterD
  PROVE  LostTwice'
<1> DEFINE f == filters[slot]
           out == FilterOutput(slot)
           c == buf[Target]
<1>1. /\ Decoding /\ mode' = mode /\ block' = block /\ Fixed
      /\ slot \in Nat /\ slot \in Slots /\ Target' = Target
      /\ slot' = IF last_filter("d") = slot THEN -1 ELSE slot - 1
      /\ (slot' < 0 <=> last_filter("d") = slot)
      /\ \A l \in Busy("d") : last_filter("d") <= l
      /\ last_filter("d") \in Busy("d") /\ last_filter("d") <= slot
      /\ Busy("d") \subseteq Nat
  BY FilterDIs, SlotNumbers
<1>2. \A i, j : DeltaTwice(i, j)' <=> DeltaTwice(i, j)
  BY <1>1 DEF DeltaTwice, Fixed, Busy
<1>3. alone' = alone
  BY <1>1 DEF Fixed
<1>4. SUFFICES ASSUME alone, FirstDecoded, NEW i \in Slots, NEW j \in Slots, DeltaTwice(i, j)
               PROVE  /\ slot' >= 0 /\ slot' < j => buf'[Target].of # 0 \/ buf'[Target].layers = <<>>
                      /\ slot' < 0 => buf'[Target].of # 0
  BY <1>1, <1>2, <1>3 DEF LostTwice, FirstDecoded, Slots
<1>5. /\ slot >= 0 /\ slot < j => c.of # 0 \/ c.layers = <<>>
      /\ i \in Busy("d") /\ j \in Busy("d") /\ i < j /\ i \in Nat /\ j \in Nat
      /\ filters[i] = "delta" /\ filters[j] = "delta"
      /\ \A k \in Busy("d") : k = i \/ k >= j
  BY <1>1, <1>4 DEF LostTwice, DeltaTwice
<1>6. last_filter("d") = i
  <2>1. \A l \in Busy("d") : i <= l
    BY <1>1, <1>5
  <2> QED
    BY <1>5, <2>1, LowestIsLast
<1>7. Offset = 0 /\ DeltaRuns
  BY <1>4 DEF Offset, DeltaRuns, FirstDecoded
<1>8. c \in Content /\ NoBlock # 0 /\ Target \in Buffers
  BY BufferNames DEF WellFormed, NoBlock
<1>9. ASSUME f = "delta", out = Target
      PROVE  /\ buf'[Target].of # 0 \/ buf'[Target].layers = <<>>
             /\ c.of # 0 \/ c.layers = <<>> => buf'[Target].of # 0
  <2> DEFINE d == DeltaDecoded(0, c, buf[Reference])
  <2>1. buf'[Target].of = d.of /\ buf'[Target].layers = d.layers
    BY <1>7, <1>9, FilterDWrites DEF Runs, Undoing
  <2>2. CASE c.of = 0 /\ c.layers = <<"delta">>
    <3>1. d = Undone(c, "delta") /\ <<"delta">> # <<>> /\ <<"delta">> = Append(<<>>, "delta")
      BY <2>2 DEF DeltaDecoded
    <3>2. "delta" \in AllCodes /\ <<>> \in Seq(AllCodes)
      BY DEF AllCodes
    <3>3. \A q \in Seq(AllCodes) : c.layers = Append(q, "delta") => Has(Undone(c, "delta"), c.of, q)
      BY <1>8, <3>2, UndoneIs
    <3>4. Has(Undone(c, "delta"), c.of, <<>>)
      BY <2>2, <3>1, <3>2, <3>3
    <3>5. d.layers = <<>>
      BY <3>1, <3>4 DEF Has
    <3> QED
      BY <2>1, <2>2, <3>1, <3>5
  <2>3. CASE ~(c.of = 0 /\ c.layers = <<"delta">>)
    <3>1. d = Spoiled(c)
      BY <2>3 DEF DeltaDecoded
    <3>2. d.of # 0
      BY <1>8, <3>1, SpoiledIs
    <3> QED
      BY <2>1, <3>2
  <2> QED
    BY <2>2, <2>3
<1>10. ASSUME slot' < 0 PROVE buf'[Target].of # 0
  <2>1. slot = i /\ out = Target
    BY <1>1, <1>6, <1>10 DEF FilterOutput
  <2>2. slot < j /\ slot >= 0 /\ f = "delta"
    BY <1>1, <1>5, <2>1
  <2> QED
    BY <1>5, <1>9, <2>1, <2>2
<1>11. ASSUME slot' >= 0, slot' < j PROVE buf'[Target].of # 0 \/ buf'[Target].layers = <<>>
  <2>1. slot' = slot - 1 /\ slot # i /\ slot <= j
    BY <1>1, <1>5, <1>6, <1>11
  <2>2. CASE slot = j
    <3>1. next_filter(j, "d") = "delta"
      <4> DEFINE below == {k \in Busy("d") : k < j}
      <4>1. i \in below /\ below \subseteq Nat /\ \A l \in below : l <= i
        BY <1>1, <1>5
      <4>2. next_filter(j, "d") =
              IF below = {} THEN "nofilter"
              ELSE filters[CHOOSE k \in below : \A l \in below : l <= k]
        BY DEF next_filter
      <4> HIDE DEF below
      <4> QED
        BY <1>5, <4>1, <4>2, GreatestChosen
    <3>2. out = Target
      BY <2>2, <3>1 DEF FilterOutput
    <3>3. f = "delta"
      BY <1>5, <2>2
    <3> HIDE DEF f, out, c
    <3> QED
      BY <1>9, <3>2, <3>3
  <2>3. CASE slot < j
    <3>1. slot \notin Busy("d")
      BY <1>1, <1>5, <2>1, <2>3
    <3>2. ~Runs(f)
      BY <1>1, <3>1 DEF Busy, DoNothing, Runs
    <3> QED
      BY <1>1, <1>5, <2>3, <3>2, FilterDWrites
  <2> QED
    BY <1>1, <1>5, <2>1, <2>2, <2>3
<1> QED
  BY <1>10, <1>11

\* A bitshuffle that is not the first to be undone has its source for scratch.
LEMMA BitsWhileDecoding ==
  ASSUME PipelineInv, WellFormed, Visits, ScratchIsSource, LostBits, FilterD
  PROVE  LostBits'
<1> DEFINE f == filters[slot]
           out == FilterOutput(slot)
           c == buf[role.src]
<1>1. /\ Decoding /\ mode' = mode /\ block' = block /\ Fixed
      /\ slot \in Nat /\ slot \in Slots /\ Target' = Target
      /\ slot' = IF last_filter("d") = slot THEN -1 ELSE slot - 1
      /\ (slot' < 0 <=> last_filter("d") = slot)
      /\ \A l \in Busy("d") : last_filter("d") <= l
      /\ last_filter("d") \in Busy("d") /\ last_filter("d") <= slot
      /\ Busy("d") \subseteq Nat
  BY FilterDIs, SlotNumbers
<1>2. \A i : BitsLate(i)' <=> BitsLate(i)
  BY <1>1 DEF BitsLate, Fixed, Busy, Slots
<1>3. eights' = eights
  BY <1>1 DEF Fixed
<1>4. SUFFICES ASSUME eights, FirstDecoded, NEW i \in Slots, BitsLate(i)
               PROVE  /\ slot' >= 0 /\ slot' < i => buf'[Holder'].of # 0
                      /\ slot' < 0 => buf'[Target].of # 0
  BY <1>1, <1>2, <1>3 DEF LostBits, FirstDecoded, Slots
<1>5. /\ slot >= 0 /\ slot < i => buf[Holder].of # 0
      /\ i \in Busy("d") /\ i \in Nat /\ filters[i] = "bitshuffle"
      /\ \E k \in Busy("d") : i < k
      /\ \A k \in Slots : filters[k] = "delta" => \A l \in Busy("d") : k <= l
  BY <1>1, <1>4 DEF LostBits, BitsLate
<1>6. c \in Content /\ NoBlock # 0
  BY FilterDIs DEF WellFormed, NoBlock
<1>7. ASSUME slot <= i, f \in {"shuffle", "bitshuffle"} PROVE buf'[out].of # 0
  <2>1. CASE slot = i
    <3>1. role.src = role.tmp
      BY <1>1, <1>5, <2>1 DEF ScratchIsSource
    <3>2. Undoing(f) = Spoiled(c)
      BY <1>4, <1>5, <2>1, <3>1 DEF Undoing, BitUndone
    <3>3. buf'[out].of = Undoing(f).of
      BY <1>7, FilterDWrites DEF Runs
    <3> QED
      BY <1>6, <3>2, <3>3, SpoiledIs
  <2>2. CASE slot # i
    <3>1. c.of # 0
      BY <1>1, <1>5, <1>7, <2>2, HolderSteps
    <3> QED
      BY <1>6, <1>7, <3>1, UndoingOf DEF Runs
  <2> QED
    BY <2>1, <2>2
<1>8. f = "delta" => slot = last_filter("d") /\ slot < i
  <2> SUFFICES ASSUME f = "delta" PROVE slot = last_filter("d") /\ slot < i
    OBVIOUS
  <2>1. slot \in Busy("d") /\ \A l \in Busy("d") : slot <= l
    BY <1>1, <1>5 DEF Busy, DoNothing
  <2>2. slot = last_filter("d")
    BY <2>1, LowestIsLast
  <2>3. slot <= i /\ slot # i
    BY <1>5, <2>1
  <2> QED
    BY <1>1, <1>5, <2>2, <2>3
<1>9. f \in {"nofilter", "shuffle", "bitshuffle", "delta", "trunc_prec"}
  BY <1>1, SlotCodes
<1>10. ASSUME slot' < 0 PROVE buf'[Target].of # 0
  <2>1. slot = last_filter("d") /\ out = Target /\ slot <= i
    BY <1>1, <1>5, <1>10, HolderSteps
  <2>2. CASE f \in {"shuffle", "bitshuffle"}
    BY <1>7, <2>1, <2>2
  <2>3. CASE f = "delta"
    <3>1. buf[Target].of # 0
      BY <1>1, <1>5, <1>8, <2>3, HolderSteps
    <3>2. CASE Runs(f)
      BY <1>6, <2>1, <2>3, <3>1, <3>2, UndoingOf
    <3>3. CASE ~Runs(f)
      BY <3>1, <3>3, FilterDWrites
    <3> QED
      BY <3>2, <3>3
  <2>4. CASE f \in {"nofilter", "trunc_prec"}
    <3>1. slot' >= 0
      BY <2>4, HolderSteps
    <3> QED
      BY <1>1, <1>10, <3>1
  <2> QED
    BY <1>9, <2>2, <2>3, <2>4
<1>11. ASSUME slot' >= 0, slot' < i PROVE buf'[Holder'].of # 0
  <2>1. last_filter("d") # slot /\ slot' = slot - 1 /\ slot <= i
    BY <1>1, <1>5, <1>11
  <2>2. CASE f \in {"shuffle", "bitshuffle"}
    BY <1>7, <1>11, <2>1, <2>2, HolderSteps
  <2>3. CASE f \in {"nofilter", "trunc_prec"}
    <3>1. slot # i /\ slot < i
      BY <1>1, <1>5, <2>1, <2>3
    <3> QED
      BY <1>1, <1>5, <2>3, <3>1, HolderSteps
  <2> QED
    BY <1>8, <1>9, <2>1, <2>2, <2>3
<1> QED
  BY <1>10, <1>11

LEMMA FilterDLoss ==
  ASSUME PipelineInv, WellFormed, Visits, LossInv, FilterD
  PROVE  LossInv'
<1>1. /\ Decoding /\ mode' = mode /\ block' = block /\ chunk' = chunk /\ Fixed
      /\ FilterOutput(slot) \in Buffers
  BY FilterDIs
<1>2. /\ LostInCoding /\ FirstBlockGone /\ ScratchIsSource /\ LostTwice /\ LostBits /\ NeverBack
  BY DEF LossInv
<1>3. LostInCoding'
  BY <1>1, <1>2 DEF LostInCoding, Decoding, Fixed, SpoilsBelow
<1>4. NeverBack'
  <2> SUFFICES ASSUME alone, eights, ~Supported, mode = "decompress", block = 1
               PROVE  ~Plain(buf'["dest0"], 0)
    BY <1>1, PipelineFixed DEF NeverBack, Decoding, Fixed
  <2>1. {role.src, role.dest, role.tmp} \subseteq {"tmp", "tmp2", "tmp3", "tmp4", "dest1"}
        /\ Target = "dest1"
    BY <1>1 DEF Visits, Target, Output
  <2>2. "dest0" \notin {FilterOutput(slot), role.tmp} /\ "dest0" \in Buffers
    BY <2>1 DEF FilterOutput, Buffers
  <2>3. buf'["dest0"] = buf["dest0"]
    BY <2>2, FilterDWrites
  <2> QED
    BY <1>2, <2>3 DEF NeverBack
<1> QED
  BY <1>2, <1>3, <1>4, GoneWhileDecoding, ScratchTurns, TwiceWhileDecoding, BitsWhileDecoding
     DEF LossInv

LEMMA FilterCLoss ==
  ASSUME PipelineInv, WellFormed, CodesInScratch, LossInv, FilterC
  PROVE  LossInv'
<1>1. mode' = "compress"
  BY DEF FilterC
<1>2. ScratchIsSource' /\ LostTwice' /\ LostBits' /\ NeverBack'
  BY <1>1 DEF ScratchIsSource, LostTwice, LostBits, NeverBack, FirstDecoded, Decoding
<1> QED
  BY <1>2, LossWhileCoding, GoneWhileCoding DEF LossInv

\* A loop over no filters spoils nothing.
LEMMA NothingWorks ==
  ASSUME NEW m \in {"c", "d"}, last_filter(m) < 0
  PROVE  /\ Busy(m) = {}
         /\ \A i \in Slots : ~Shuffling(filters[i]) /\ filters[i] # "delta"
         /\ m = "c" => \A i \in Slots : ~Worked(i)
<1>1. Busy(m) = {}
  BY LastIsLowest, SlotNumbers
<1> QED
  BY <1>1 DEF Busy, DoNothing, Shuffling, Worked

LEMMA BeginCLoss ==
  ASSUME PipelineInv, WellFormed, NEW b \in {0, 1}, BeginC(b), buf' = buf, Fixed,
         \A x \in {"tmp3", "tmp4", "dest0", "dest1"} : buf[x].of # 0,
         b = 1 /\ eights /\ SpoilsBelow(MAX_FILTERS) => chunk'[0].of = NoBlock
  PROVE  LossInv'
<1>1. /\ mode' = "compress" /\ block' = b /\ filters' = filters /\ eights' = eights
      /\ slot' = IF last_filter("c") < 0 THEN MAX_FILTERS ELSE 0
      /\ role' = [src |-> Input(b), dest |-> "tmp", tmp |-> "tmp2"]
  BY DEF BeginC, Fixed
<1>2. ScratchIsSource' /\ LostTwice' /\ LostBits' /\ NeverBack'
  BY <1>1 DEF ScratchIsSource, LostTwice, LostBits, NeverBack, FirstDecoded, Decoding
<1>3. \A i \in Slots : i < slot' => ~Worked(i) /\ ~Shuffling(filters[i])
  <2>1. CASE last_filter("c") < 0
    BY <2>1, NothingWorks
  <2>2. CASE ~(last_filter("c") < 0)
    <3>1. slot' = 0
      BY <1>1, <2>2
    <3> QED
      BY <3>1, SlotNumbers DEF Slots
  <2> QED
    BY <2>1, <2>2
<1>4. \A i, k \in Slots : i < k /\ k < slot' => i < slot'
  BY <1>1, SlotNumbers DEF Slots
<1>5. ~OneBefore(slot') /\ ~TwoBefore(slot') /\ ~SpoilsBelow(slot')
  BY <1>3, <1>4 DEF OneBefore, TwoBefore, SpoilsBelow
<1>6. LostInCoding'
  <2>1. SpoilsBelow(MAX_FILTERS)' <=> SpoilsBelow(MAX_FILTERS)
    BY <1>1 DEF SpoilsBelow
  <2>2. ~(\E i \in Slots : i < slot' /\ Shuffling(filters'[i]))
    BY <1>1, <1>3
  <2>3. ~(\E i, k \in Slots : i < k /\ k < slot' /\ Shuffling(filters'[i])
                              /\ filters'[k] \in {"trunc_prec", "delta"})
    BY <1>1, <1>5 DEF SpoilsBelow
  <2> QED
    BY <1>1, <2>1, <2>2, <2>3 DEF LostInCoding, SpoilsBelow
<1>7. FirstBlockGone'
  <2>1. b = 1 => buf'[role'.src].of # 0
    BY <1>1 DEF PipelineInv, SourcesKept, Input, Raw
  <2>2. /\ ~(\E i \in Slots : (i \in Slots /\ filters'[i] # "nofilter") /\ i < slot')
        /\ ~(\E i, k \in Slots : (i \in Slots /\ filters'[i] # "nofilter")
                                  /\ (k \in Slots /\ filters'[k] # "nofilter") /\ i < k /\ k < slot')
    BY <1>1, <1>5 DEF OneBefore, TwoBefore, Worked
  <2> QED
    BY <1>1, <2>1, <2>2 DEF FirstBlockGone, OneBefore, TwoBefore, Worked
<1> QED
  BY <1>2, <1>6, <1>7 DEF LossInv

LEMMA CompressionLoss ==
  ASSUME PipelineInv, WellFormed, CodesInScratch, LossInv, StartCompression \/ Compressed
  PROVE  LossInv'
<1>1. LostInCoding /\ FirstBlockGone
  BY DEF LossInv
<1>2. CASE StartCompression
  BY <1>1, <1>2, BeginCLoss DEF StartCompression, FirstBlockGone
<1>3. CASE Compressed
  <2>1. /\ mode = "compress" /\ slot = MAX_FILTERS /\ Fixed /\ block \in {0, 1}
        /\ chunk' = [chunk EXCEPT ![block] = buf[role.src]]
        /\ buf' = buf /\ chunk \in [{0, 1} -> Content]
    BY <1>3 DEF Compressed, PipelineInv, Types, WellFormed
  <2>2. \A x \in {"tmp3", "tmp4", "dest0", "dest1"} : buf[x].of # 0
    BY <1>1, <2>1 DEF FirstBlockGone
  <2>3. eights /\ SpoilsBelow(MAX_FILTERS) => chunk'[0].of = NoBlock
    <3>1. CASE block = 0
      BY <1>1, <2>1, <3>1 DEF LostInCoding
    <3>2. CASE block = 1
      BY <1>1, <2>1, <3>2 DEF LostInCoding
    <3> QED
      BY <2>1, <3>1, <3>2
  <2>4. CASE block = 0
    BY <1>3, <2>1, <2>2, <2>3, <2>4, BeginCLoss DEF Compressed
  <2>5. CASE block = 1
    <3>1. mode' = "compressed" /\ slot' = slot /\ role' = role /\ filters' = filters /\ eights' = eights
          /\ block' = block
      BY <1>3, <2>1, <2>5 DEF Compressed, Fixed
    <3>2. ScratchIsSource' /\ LostTwice' /\ LostBits' /\ NeverBack'
      BY <3>1 DEF ScratchIsSource, LostTwice, LostBits, NeverBack, FirstDecoded, Decoding
    <3>3. LostInCoding'
      BY <2>3, <3>1 DEF LostInCoding, SpoilsBelow
    <3>4. FirstBlockGone'
      <4>1. TwoBefore(MAX_FILTERS) => OneBefore(MAX_FILTERS)
        BY SlotNumbers DEF TwoBefore, OneBefore, Slots
      <4>2. TwoBefore(MAX_FILTERS) => buf["tmp"].of # 0 /\ buf["tmp2"].of # 0
        BY <1>1, <2>1, <2>5, <4>1 DEF FirstBlockGone
      <4> QED
        BY <2>1, <2>2, <3>1, <4>2 DEF FirstBlockGone, TwoBefore, Worked
    <3> QED
      BY <3>2, <3>3, <3>4 DEF LossInv
  <2> QED
    BY <2>1, <2>4, <2>5
<1> QED
  BY <1>2, <1>3

LEMMA BeginDLoss ==
  ASSUME PipelineInv, WellFormed, Fixed, UNCHANGED chunk,
         NEW b \in {0, 1}, NEW m, NEW target, NEW second, BeginD(b, m, target, second),
         \/ m = "decompress" /\ target = Output(b) /\ second = "tmp2"
         \/ m = "getitem" /\ target = "tmp2" /\ second = "tmp3",
         eights /\ SpoilsBelow(MAX_FILTERS) => chunk[0].of = NoBlock,
         m = "decompress" /\ b = 0 /\ eights /\ SpoilsBelow(MAX_FILTERS) =>
           \A x \in Buffers \ Sources : buf[x].of # 0,
         m = "decompress" /\ b = 1 /\ alone /\ eights /\ ~Supported => ~Plain(buf["dest0"], 0)
  PROVE  LossInv'
<1> DEFINE out == CodecOutput(target)
<1>1. /\ mode' = m /\ block' = b /\ filters' = filters /\ eights' = eights /\ alone' = alone
      /\ slot' = IF last_filter("d") < 0 THEN -1 ELSE MAX_FILTERS - 1
      /\ buf' = [buf EXCEPT ![out] = chunk[b]]
  BY DEF BeginD, Fixed
<1>2. /\ DOMAIN buf = Buffers /\ out \in {"tmp", target} /\ MAX_FILTERS \in Nat /\ MAX_FILTERS >= 1
      /\ \A i \in Slots : i \in Nat /\ i <= MAX_FILTERS - 1
      /\ Busy("d") \subseteq Slots /\ Busy("d")' = Busy("d")
  BY SlotNumbers, PipelineFixed DEF PipelineInv, Types, CodecOutput, Slots
<1>3. \A x \in Buffers : buf'[x] = IF x = out THEN chunk[b] ELSE buf[x]
  BY <1>1, <1>2
<1>4. LostInCoding'
  <2>1. SpoilsBelow(MAX_FILTERS)' <=> SpoilsBelow(MAX_FILTERS)
    BY <1>1 DEF SpoilsBelow
  <2> QED
    BY <1>1, <2>1 DEF LostInCoding
<1>5. FirstBlockGone'
  <2>1. SpoilsBelow(MAX_FILTERS)' <=> SpoilsBelow(MAX_FILTERS)
    BY <1>1 DEF SpoilsBelow
  <2>2. ASSUME m = "decompress", b = 0, eights, SpoilsBelow(MAX_FILTERS)
        PROVE  \A x \in Buffers \ Sources : buf'[x].of # 0
    <3>1. chunk[b].of # 0
      BY <2>2 DEF NoBlock
    <3> QED
      BY <1>3, <2>2, <3>1
  <2> QED
    BY <1>1, <2>1, <2>2 DEF FirstBlockGone
<1>6. ScratchIsSource'
  <2>1. ASSUME slot' >= 0, NEW k \in Busy("d"), k > slot' PROVE FALSE
    BY <1>1, <1>2, <2>1
  <2> QED
    BY <1>2, <2>1 DEF ScratchIsSource
<1>7. slot' < 0 => Busy("d") = {}
  <2>1. slot' < 0 => last_filter("d") < 0
    BY <1>1, <1>2
  <2> QED
    BY <2>1, NothingWorks
<1>8. \A i \in Slots : slot' >= 0 => ~(slot' < i)
  BY <1>1, <1>2
<1>9. LostTwice'
  <2>1. \A i, j : DeltaTwice(i, j)' <=> DeltaTwice(i, j)
    BY <1>1, <1>2 DEF DeltaTwice
  <2> QED
    BY <1>7, <1>8, <2>1 DEF LostTwice, DeltaTwice
<1>10. LostBits'
  <2>1. \A i : BitsLate(i)' <=> BitsLate(i)
    BY <1>1, <1>2 DEF BitsLate
  <2> QED
    BY <1>7, <1>8, <2>1 DEF LostBits, BitsLate
<1>11. NeverBack'
  <2>1. m = "decompress" /\ b = 1 => buf'["dest0"] = buf["dest0"]
    BY <1>2, <1>3 DEF Output, Buffers
  <2>2. Supported' <=> Supported
    BY PipelineFixed
  <2> QED
    BY <1>1, <2>1, <2>2 DEF NeverBack
<1> QED
  BY <1>4, <1>5, <1>6, <1>9, <1>10, <1>11 DEF LossInv

LEMMA StartDecompressionLoss ==
  ASSUME PipelineInv, WellFormed, LossInv, StartDecompression
  PROVE  LossInv'
<1>1. /\ LostInCoding /\ FirstBlockGone /\ mode = "compressed" /\ Fixed /\ UNCHANGED chunk
      /\ BeginD(0, "decompress", Output(0), "tmp2")
  BY DEF LossInv, StartDecompression
<1>2. eights /\ SpoilsBelow(MAX_FILTERS) => chunk[0].of = NoBlock
  BY <1>1 DEF LostInCoding
<1>3. SpoilsBelow(MAX_FILTERS) => TwoBefore(MAX_FILTERS)
  BY DEF SpoilsBelow, TwoBefore, Worked, Shuffling
<1>4. SpoilsBelow(MAX_FILTERS) => \A x \in Buffers \ Sources : buf[x].of # 0
  <2>1. Buffers \ Sources = {"dest0", "dest1", "tmp", "tmp2", "tmp3", "tmp4"}
    BY DEF Buffers, Sources
  <2> QED
    BY <1>1, <1>3, <2>1 DEF FirstBlockGone
<1>5. 0 \in {0, 1} /\ ~(0 = 1)
  OBVIOUS
<1> QED
  BY <1>1, <1>2, <1>4, <1>5, BeginDLoss

LEMMA DecompressedLoss ==
  ASSUME PipelineInv, WellFormed, LossInv, Decompressed
  PROVE  LossInv'
<1>1. /\ LostInCoding /\ FirstBlockGone /\ LostTwice /\ LostBits /\ NeverBack
      /\ mode = "decompress" /\ slot < 0 /\ Fixed /\ UNCHANGED chunk /\ block \in {0, 1}
  BY DEF LossInv, Decompressed, PipelineInv, Types
<1>2. eights /\ SpoilsBelow(MAX_FILTERS) => chunk[0].of = NoBlock
  BY <1>1 DEF LostInCoding
<1>3. CASE block = 0
  <2>1. ASSUME alone, eights, ~Supported PROVE ~Plain(buf["dest0"], 0)
    <3>1. Target = "dest0" /\ FirstDecoded
      BY <1>1, <1>3 DEF Target, Output, FirstDecoded
    <3>2. CASE SpoilsBelow(MAX_FILTERS)
      <4>1. "dest0" \in Buffers \ Sources
        BY DEF Buffers, Sources
      <4> QED
        BY <1>1, <1>3, <2>1, <3>2, <4>1 DEF FirstBlockGone, Plain
    <3>3. CASE \E i, j \in Slots : DeltaTwice(i, j)
      BY <1>1, <2>1, <3>1, <3>3 DEF LostTwice, Plain
    <3>4. CASE \E i \in Slots : BitsLate(i)
      BY <1>1, <2>1, <3>1, <3>4 DEF LostBits, Plain
    <3> QED
      BY <2>1, <3>2, <3>3, <3>4, NotSupported
  <2>2. BeginD(1, "decompress", Output(1), "tmp2") /\ 1 \in {0, 1} /\ ~(1 = 0)
    BY <1>3 DEF Decompressed
  <2> QED
    BY <1>1, <1>2, <2>1, <2>2, BeginDLoss
<1>4. CASE block = 1
  <2>1. mode' = "decompressed" /\ buf' = buf /\ filters' = filters /\ eights' = eights /\ alone' = alone
    BY <1>1, <1>4 DEF Decompressed, Fixed
  <2>2. ScratchIsSource' /\ LostTwice' /\ LostBits' /\ FirstBlockGone'
    BY <2>1 DEF ScratchIsSource, LostTwice, LostBits, FirstBlockGone, FirstDecoded, Decoding
  <2>3. LostInCoding'
    BY <1>1, <1>2, <2>1 DEF LostInCoding, SpoilsBelow
  <2>4. NeverBack'
    BY <1>1, <1>4, <2>1, PipelineFixed DEF NeverBack
  <2> QED
    BY <2>2, <2>3, <2>4 DEF LossInv
<1> QED
  BY <1>1, <1>3, <1>4

LEMMA GetItemLoss ==
  ASSUME PipelineInv, WellFormed, LossInv, NEW b \in {0, 1}, StartGetItem(b)
  PROVE  LossInv'
<1>1. /\ LostInCoding /\ mode \in {"decompressed", "got"} /\ Fixed /\ UNCHANGED chunk
      /\ BeginD(b, "getitem", "tmp2", "tmp3")
  BY DEF LossInv, StartGetItem
<1>2. eights /\ SpoilsBelow(MAX_FILTERS) => chunk[0].of = NoBlock
  BY <1>1 DEF LostInCoding
<1>3. "getitem" # "decompress"
  OBVIOUS
<1> QED
  BY <1>1, <1>2, <1>3, BeginDLoss

LEMMA GotLoss ==
  ASSUME LossInv, Got \/ UNCHANGED vars
  PROVE  LossInv'
<1>1. CASE Got
  <2>1. /\ LostInCoding /\ mode = "getitem" /\ mode' = "got" /\ chunk' = chunk
        /\ filters' = filters /\ eights' = eights
    BY <1>1 DEF LossInv, Got, Fixed
  <2>2. ScratchIsSource' /\ LostTwice' /\ LostBits' /\ FirstBlockGone' /\ NeverBack'
    BY <2>1 DEF ScratchIsSource, LostTwice, LostBits, FirstBlockGone, NeverBack, FirstDecoded, Decoding
  <2>3. LostInCoding'
    BY <2>1 DEF LostInCoding, SpoilsBelow
  <2> QED
    BY <2>2, <2>3 DEF LossInv
<1>2. CASE UNCHANGED vars
  <2>1. /\ Fixed /\ UNCHANGED <<filters, alone, eights, mode, block, slot, buf, chunk, role>>
    BY <1>2 DEF vars, Fixed
  <2>2. /\ (Supported' <=> Supported) /\ Busy("d")' = Busy("d")
        /\ \A n : (SpoilsBelow(n)' <=> SpoilsBelow(n))
        /\ \A n : (OneBefore(n)' <=> OneBefore(n)) /\ (TwoBefore(n)' <=> TwoBefore(n))
        /\ Target' = Target
    BY <2>1, PipelineFixed DEF SpoilsBelow, OneBefore, TwoBefore, Worked, Target, Output
  <2>3. LostInCoding'
    BY <2>1 DEF LossInv, LostInCoding, SpoilsBelow
  <2>4. FirstBlockGone'
    BY <2>1 DEF LossInv, FirstBlockGone, SpoilsBelow, OneBefore, TwoBefore, Worked
  <2>5. ScratchIsSource' /\ NeverBack'
    BY <2>1, <2>2 DEF LossInv, ScratchIsSource, NeverBack, Decoding
  <2>6. LostTwice'
    BY <2>1, <2>2 DEF LossInv, LostTwice, DeltaTwice, FirstDecoded
  <2>7. LostBits'
    <3>1. next_filter(slot + 1, "d")' = next_filter(slot + 1, "d")
      BY <2>1 DEF next_filter, Busy
    <3>2. Holder' = Holder
      BY <2>1, <2>2, <3>1 DEF Holder
    <3> QED
      BY <2>1, <2>2, <3>2 DEF LossInv, LostBits, BitsLate, FirstDecoded
  <2> QED
    BY <2>3, <2>4, <2>5, <2>6, <2>7 DEF LossInv
<1> QED
  BY <1>1, <1>2

LEMMA LossInit == Init => LossInv
<1> SUFFICES ASSUME Init PROVE LossInv
  OBVIOUS
<1>1. Junk.of # 0
  BY RawIs, SpoiledIs DEF Junk, NoBlock
<1>2. mode = "start" /\ \A x \in {"tmp3", "tmp4", "dest0", "dest1"} : buf[x].of # 0
  BY <1>1 DEF Init, Buffers
<1> QED
  BY <1>2 DEF LossInv, LostInCoding, FirstBlockGone, ScratchIsSource, LostTwice, LostBits,
     NeverBack, FirstDecoded, Decoding

LEMMA LossStep == PipelineInv /\ DataKnown /\ LossInv /\ [Next]_vars => LossInv'
<1> SUFFICES ASSUME PipelineInv, DataKnown, LossInv, [Next]_vars PROVE LossInv'
  OBVIOUS
<1>1. WellFormed /\ CodesInScratch /\ Visits
  BY LayersExist DEF DataKnown, DataInv
<1> QED
  BY <1>1, CompressionLoss, FilterCLoss, FilterDLoss, StartDecompressionLoss, DecompressedLoss,
     GetItemLoss, GotLoss DEF Next

LEMMA LossAlways == Spec => []LossInv
BY PipelineKept, DataAlways, LossInit, LossStep, PTL DEF Spec

(* With any number of slots and any filters in them, every supported       *)
(* pipeline gives both blocks back, whatever the number of threads; with   *)
(* one thread and whole groups of eight elements no other one does; and    *)
(* the tail of the last block comes back when every filter copies it       *)
(* (blosc.c:577-620 and 753-824).                                          *)
THEOREM BlocksComeBack == Spec => []RoundTrip
<1>1. DataKnown /\ LossInv => RoundTrip
  <2> SUFFICES ASSUME DataKnown, LossInv, mode = "decompressed" PROVE RoundTrip
    BY DEF RoundTrip
  <2>1. PICK s : Stacked(s)
    BY LayersExist
  <2>2. Uncoded(s) /\ TailThere
    BY <2>1 DEF DataKnown, DataInv
  <2>3. Supported => \A b \in {0, 1} : Plain(buf[Output(b)], b)
    BY <2>2 DEF Uncoded, Output
  <2>4. alone /\ eights /\ (\A b \in {0, 1} : Plain(buf[Output(b)], b)) => Supported
    BY DEF LossInv, NeverBack, Output
  <2>5. (\A i \in Slots : ~ElementsOnly(filters[i])) => buf["dest1"].tail
    BY <2>2 DEF TailThere, CopiesTail
  <2> QED
    BY <2>3, <2>4, <2>5 DEF RoundTrip
<1> QED
  BY <1>1, DataAlways, LossAlways, PTL
=============================================================================
