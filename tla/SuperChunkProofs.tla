--------------------------- MODULE SuperChunkProofs --------------------------
(***************************************************************************)
(* SuperChunk for any buffers and any number of chunks: the counters of a  *)
(* super-chunk are the length of its packed form, and the packed form is   *)
(* filled by its pieces, each where the header and the table say.          *)
(***************************************************************************)
EXTENDS SuperChunk, WellFoundedInduction, NaturalsInduction, TLAPS

-----------------------------------------------------------------------------
(* Numbers *)

\* A set of numbers that is not empty has a least one.
LEMMA LeastNumber ==
  ASSUME NEW S, S \subseteq Nat, S # {}
  PROVE  \E m \in S : \A n \in S : m <= n
<1> DEFINE R == {p \in Nat \X Nat : p[1] < p[2]}
<1>1. IsWellFoundedOn(R, Nat)
  BY NatLessThanWellFounded DEF OpToRel
<1>2. \E m \in S : \A n \in S : ~(<<n, m>> \in R)
  <2> HIDE DEF R
  <2> QED
    BY <1>1, WFMin
<1>3. \A m, n \in Nat : ~(<<n, m>> \in R) => m <= n
  OBVIOUS
<1> HIDE DEF R
<1> QED
  BY <1>2, <1>3

\* Induction, with a set for the property
LEMMA UpTo ==
  ASSUME NEW n \in Nat, NEW S, 0 \in S, \A i \in 0 .. n - 1 : i \in S => i + 1 \in S
  PROVE  \A i \in 0 .. n : i \in S
<1> DEFINE bad == {i \in 0 .. n : i \notin S}
<1>1. SUFFICES ASSUME bad # {} PROVE FALSE
  OBVIOUS
<1>2. bad \subseteq Nat
  OBVIOUS
<1>3. PICK m \in bad : \A i \in bad : m <= i
  <2> HIDE DEF bad
  <2> QED
    BY <1>1, <1>2, LeastNumber
<1>4. m # 0 /\ m \in 0 .. n /\ m \notin S
  OBVIOUS
<1>5. m - 1 \in 0 .. n - 1 /\ m - 1 + 1 = m
  BY <1>4
<1>6. m - 1 \in S
  <2>1. m - 1 \notin bad
    BY <1>3, <1>5
  <2> QED
    BY <1>5, <2>1
<1> QED
  BY <1>4, <1>5, <1>6

-----------------------------------------------------------------------------
(* Sums *)

\* The partial sums of f up to n
IsSums(g, f, n) == g = [i \in 0 .. n |-> IF i = 0 THEN 0 ELSE g[i - 1] + f[i]]

LEMMA SumsExist ==
  ASSUME NEW f, NEW n \in Nat
  PROVE  \E g : IsSums(g, f, n)
<1> DEFINE S == {m \in 0 .. n : \E g : IsSums(g, f, m)}
<1>1. 0 \in S
  <2>1. IsSums([i \in 0 .. 0 |-> 0], f, 0)
    BY DEF IsSums
  <2> QED
    BY <2>1
<1>2. ASSUME NEW m \in 0 .. n - 1, m \in S PROVE m + 1 \in S
  <2>1. PICK g : IsSums(g, f, m)
    BY <1>2
  <2> DEFINE h == [i \in 0 .. m + 1 |-> IF i = m + 1 THEN g[m] + f[m + 1] ELSE g[i]]
  <2>2. m \in Nat /\ m + 1 \in 0 .. n
    OBVIOUS
  <2>3. ASSUME NEW i \in 0 .. m + 1 PROVE h[i] = IF i = 0 THEN 0 ELSE h[i - 1] + f[i]
    <3>1. CASE i = 0
      BY <2>1, <2>2, <3>1 DEF IsSums
    <3>2. CASE i = m + 1
      <4>1. h[m] = g[m] /\ h[m + 1] = g[m] + f[m + 1] /\ i - 1 = m /\ i # 0
        BY <2>2, <3>2
      <4> QED
        BY <3>2, <4>1
    <3>3. CASE i \in 1 .. m
      <4>1. i - 1 \in 0 .. m + 1 /\ i - 1 # m + 1 /\ i # m + 1 /\ i # 0 /\ i \in 0 .. m
        BY <2>2, <3>3
      <4>2. h[i] = g[i] /\ h[i - 1] = g[i - 1]
        BY <4>1
      <4>3. g[i] = g[i - 1] + f[i]
        BY <2>1, <4>1 DEF IsSums
      <4> QED
        BY <4>1, <4>2, <4>3
    <3> QED
      BY <2>2, <3>1, <3>2, <3>3
  <2>4. IsSums(h, f, m + 1)
    <3>1. h = [i \in 0 .. m + 1 |-> h[i]]
      OBVIOUS
    <3> HIDE DEF h
    <3> QED
      BY <2>3, <3>1 DEF IsSums
  <2> HIDE DEF h
  <2> QED
    BY <2>2, <2>4
<1> HIDE DEF S
<1>3. n \in S
  BY <1>1, <1>2, UpTo
<1> QED
  BY <1>3 DEF S

LEMMA SumsAgree ==
  ASSUME NEW f, NEW n \in Nat, NEW m \in 0 .. n, NEW g, NEW h, IsSums(g, f, n), IsSums(h, f, m)
  PROVE  g[m] = h[m]
<1> DEFINE S == {i \in 0 .. m : g[i] = h[i]}
<1>1. 0 \in S
  BY DEF IsSums
<1>2. ASSUME NEW i \in 0 .. m - 1, i \in S PROVE i + 1 \in S
  <2>1. i + 1 \in 0 .. m /\ i + 1 \in 0 .. n /\ i + 1 # 0 /\ i + 1 - 1 = i
    OBVIOUS
  <2>2. g[i + 1] = g[i] + f[i + 1] /\ h[i + 1] = h[i] + f[i + 1]
    BY <2>1 DEF IsSums
  <2> QED
    BY <1>2, <2>1, <2>2
<1>3. m \in Nat
  OBVIOUS
<1> HIDE DEF S
<1>4. m \in S
  BY <1>1, <1>2, <1>3, UpTo
<1> QED
  BY <1>4 DEF S

\* What SumTo computes, step by step
LEMMA SumSteps ==
  ASSUME NEW f, NEW n \in Nat
  PROVE  SumTo(f, 0) = 0 /\ SumTo(f, n + 1) = SumTo(f, n) + f[n + 1]
<1> DEFINE sums(m) == CHOOSE g : IsSums(g, f, m)
<1>1. \A m \in Nat : IsSums(sums(m), f, m)
  BY SumsExist
<1>2. \A m : SumTo(f, m) = sums(m)[m]
  BY DEF SumTo, IsSums
<1> HIDE DEF sums
<1>3. sums(0)[0] = 0
  BY <1>1 DEF IsSums
<1>4. n + 1 \in Nat /\ n \in 0 .. n + 1 /\ n + 1 \in 0 .. n + 1 /\ n + 1 # 0 /\ n + 1 - 1 = n
  OBVIOUS
<1>5. sums(n + 1)[n + 1] = sums(n + 1)[n] + f[n + 1]
  BY <1>1, <1>4 DEF IsSums
<1>6. sums(n + 1)[n] = sums(n)[n]
  BY <1>1, <1>4, SumsAgree
<1> QED
  BY <1>2, <1>3, <1>5, <1>6

\* Sums of numbers are numbers, and grow.
LEMMA SumsGrow ==
  ASSUME NEW f, NEW n \in Nat, \A i \in 1 .. n : f[i] \in Nat
  PROVE  /\ \A i \in 0 .. n : SumTo(f, i) \in Nat
         /\ \A i \in 0 .. n : \A j \in i .. n : SumTo(f, i) <= SumTo(f, j)
<1> DEFINE S == {i \in 0 .. n : SumTo(f, i) \in Nat}
<1>1. \A i \in Nat : SumTo(f, 0) = 0 /\ SumTo(f, i + 1) = SumTo(f, i) + f[i + 1]
  BY SumSteps
<1>2. 0 \in S
  BY <1>1
<1>3. ASSUME NEW i \in 0 .. n - 1, i \in S PROVE i + 1 \in S
  <2>1. i \in Nat /\ i + 1 \in 1 .. n /\ i + 1 \in 0 .. n
    OBVIOUS
  <2> QED
    BY <1>1, <1>3, <2>1
<1> HIDE DEF S
<1>4. \A i \in 0 .. n : i \in S
  BY <1>2, <1>3, UpTo
<1>5. \A i \in 0 .. n : SumTo(f, i) \in Nat
  BY <1>4 DEF S
<1>6. ASSUME NEW i \in 0 .. n, NEW j \in i .. n PROVE SumTo(f, i) <= SumTo(f, j)
  <2> DEFINE T == {d \in 0 .. n - i : SumTo(f, i) <= SumTo(f, i + d)}
  <2>1. 0 \in T
    BY <1>5
  <2>2. ASSUME NEW d \in 0 .. n - i - 1, d \in T PROVE d + 1 \in T
    <3>1. i + d \in Nat /\ i + d + 1 \in 1 .. n /\ i + d \in 0 .. n /\ i + (d + 1) = i + d + 1
          /\ d + 1 \in 0 .. n - i
      OBVIOUS
    <3>2. SumTo(f, i + d + 1) = SumTo(f, i + d) + f[i + d + 1]
      BY <1>1, <3>1
    <3>3. f[i + d + 1] \in Nat /\ SumTo(f, i + d) \in Nat /\ SumTo(f, i) \in Nat
      BY <1>5, <3>1
    <3>4. SumTo(f, i) <= SumTo(f, i + d)
      BY <2>2
    <3> HIDE DEF T
    <3>5. SumTo(f, i) <= SumTo(f, i + (d + 1))
      BY <3>1, <3>2, <3>3, <3>4
    <3> QED
      BY <3>1, <3>5 DEF T
  <2>3. n - i \in Nat /\ j - i \in 0 .. n - i /\ i + (j - i) = j
    OBVIOUS
  <2> HIDE DEF T
  <2>4. j - i \in T
    BY <2>1, <2>2, <2>3, UpTo
  <2> QED
    BY <2>3, <2>4 DEF T
<1> QED
  BY <1>5, <1>6

\* A sum depends on what it adds up only.
LEMMA SumsSame ==
  ASSUME NEW f, NEW g, NEW n \in Nat, \A i \in 1 .. n : f[i] = g[i]
  PROVE  \A i \in 0 .. n : SumTo(f, i) = SumTo(g, i)
<1> DEFINE S == {i \in 0 .. n : SumTo(f, i) = SumTo(g, i)}
<1>1. \A i \in Nat : /\ SumTo(f, 0) = 0 /\ SumTo(f, i + 1) = SumTo(f, i) + f[i + 1]
                     /\ SumTo(g, 0) = 0 /\ SumTo(g, i + 1) = SumTo(g, i) + g[i + 1]
  BY SumSteps
<1>2. 0 \in S
  BY <1>1
<1>3. ASSUME NEW i \in 0 .. n - 1, i \in S PROVE i + 1 \in S
  <2>1. i \in Nat /\ i + 1 \in 1 .. n /\ i + 1 \in 0 .. n
    OBVIOUS
  <2> QED
    BY <1>1, <1>3, <2>1
<1> HIDE DEF S
<1>4. \A i \in 0 .. n : i \in S
  BY <1>2, <1>3, UpTo
<1> QED
  BY <1>4 DEF S

\* The pointers of a loop that adds one to each size may be added at its end.
LEMMA SumsWithPointers ==
  ASSUME NEW f, NEW c, NEW n \in Nat,
         \A i \in 1 .. n : c[i] \in Nat /\ f[i] = POINTER + c[i]
  PROVE  SumTo(f, n) = SumTo(c, n) + POINTER * n
<1> DEFINE S == {i \in 0 .. n : SumTo(f, i) = SumTo(c, i) + POINTER * i}
<1>1. \A i \in Nat : /\ SumTo(f, 0) = 0 /\ SumTo(f, i + 1) = SumTo(f, i) + f[i + 1]
                     /\ SumTo(c, 0) = 0 /\ SumTo(c, i + 1) = SumTo(c, i) + c[i + 1]
  BY SumSteps
<1>2. \A i \in 0 .. n : SumTo(c, i) \in Nat
  BY SumsGrow
<1>3. 0 \in S
  BY <1>1 DEF POINTER
<1>4. ASSUME NEW i \in 0 .. n - 1, i \in S PROVE i + 1 \in S
  <2>1. i \in Nat /\ i + 1 \in 1 .. n /\ i + 1 \in 0 .. n /\ i \in 0 .. n
    OBVIOUS
  <2>2. SumTo(f, i) = SumTo(c, i) + POINTER * i
    BY <1>4
  <2>3. SumTo(c, i) \in Nat /\ c[i + 1] \in Nat /\ f[i + 1] = POINTER + c[i + 1]
    BY <1>2, <2>1
  <2>4. SumTo(f, i + 1) = SumTo(f, i) + f[i + 1] /\ SumTo(c, i + 1) = SumTo(c, i) + c[i + 1]
    BY <1>1, <2>1
  <2>5. \A a, b \in Nat : (a + POINTER * i) + (POINTER + b) = (a + b) + POINTER * (i + 1)
    BY <2>1 DEF POINTER
  <2>6. SumTo(f, i + 1) = SumTo(c, i + 1) + POINTER * (i + 1)
    BY ZenonT(60), <2>2, <2>3, <2>4, <2>5
  <2> QED
    BY <2>1, <2>6
<1> HIDE DEF S
<1>5. n \in S
  BY SMTT(60), <1>3, <1>4, UpTo
<1> QED
  BY <1>5 DEF S

\* Every number below a sum belongs to one of the sizes.
LEMMA SumsCover ==
  ASSUME NEW f, NEW n \in Nat, \A i \in 1 .. n : f[i] \in Nat,
         NEW x \in Nat, x < SumTo(f, n)
  PROVE  \E k \in 1 .. n : SumTo(f, k - 1) <= x /\ x < SumTo(f, k - 1) + f[k]
<1> DEFINE past == {k \in 0 .. n : x < SumTo(f, k)}
<1>1. \A i \in 0 .. n : SumTo(f, i) \in Nat
  BY SumsGrow
<1>2. past \subseteq Nat /\ n \in past
  OBVIOUS
<1>3. PICK k \in past : \A i \in past : k <= i
  <2> HIDE DEF past
  <2> QED
    BY <1>2, LeastNumber
<1>4. k \in 0 .. n /\ x < SumTo(f, k)
  OBVIOUS
<1>5. k # 0
  BY <1>4, SumSteps
<1>6. k \in 1 .. n /\ k - 1 \in 0 .. n /\ k - 1 \in Nat /\ k - 1 + 1 = k /\ ~(k <= k - 1)
  BY <1>4, <1>5
<1>7. SumTo(f, k) = SumTo(f, k - 1) + f[k]
  BY <1>6, SumSteps
<1>8. SumTo(f, k - 1) <= x
  <2>1. k - 1 \notin past
    BY <1>3, <1>6
  <2>2. ~(x < SumTo(f, k - 1))
    BY <1>6, <2>1
  <2> QED
    BY <1>1, <1>6, <2>2
<1> QED
  BY <1>4, <1>6, <1>7, <1>8

-----------------------------------------------------------------------------
(* Chunks *)
Pointers(chunks) == [i \in DOMAIN chunks |-> POINTER + chunks[i].cbytes]

LEMMA ChunkFacts ==
  ASSUME NEW chunks \in Seq(Buffers)
  PROVE  /\ Len(chunks) \in Nat /\ DOMAIN chunks = 1 .. Len(chunks)
         /\ \A i \in 1 .. Len(chunks) :
              /\ chunks[i].cbytes \in Nat \ {0} /\ chunks[i].nbytes \in Nat \ {0}
              /\ Sizes(chunks)[i] = chunks[i].cbytes /\ Lengths(chunks)[i] = chunks[i].nbytes
              /\ Pointers(chunks)[i] = POINTER + chunks[i].cbytes
BY BufferSizes DEF Sizes, Lengths, Pointers

LEMMA AncillaryFacts ==
  ASSUME ancillary \in [Kinds -> {NoChunk} \cup Buffers]
  PROVE  \A k \in 1 .. 4 :
           /\ Sizes(ancillary)[k] = ancillary[k].cbytes /\ ancillary[k].cbytes \in Nat
           /\ Lengths(ancillary)[k] = ancillary[k].nbytes /\ ancillary[k].nbytes \in Nat
           /\ ancillary[k] # NoChunk => ancillary[k].cbytes > 0
           /\ ancillary[k] = NoChunk => ancillary[k].cbytes = 0
BY BufferSizes DEF Kinds, NoChunk, Sizes, Lengths

\* The sums of the sizes of chunks
LEMMA ChunkSums ==
  ASSUME NEW chunks \in Seq(Buffers)
  PROVE  /\ \A i \in 0 .. Len(chunks) : SumTo(Sizes(chunks), i) \in Nat
         /\ \A i \in 0 .. Len(chunks) : \A j \in i .. Len(chunks) :
              SumTo(Sizes(chunks), i) <= SumTo(Sizes(chunks), j)
         /\ SumTo(Lengths(chunks), Len(chunks)) \in Nat
         /\ SumTo(Pointers(chunks), Len(chunks))
              = SumTo(Sizes(chunks), Len(chunks)) + POINTER * Len(chunks)
<1>1. Len(chunks) \in Nat
  BY ChunkFacts
<1>2. \A i \in 1 .. Len(chunks) : /\ Sizes(chunks)[i] \in Nat /\ Lengths(chunks)[i] \in Nat
                                  /\ Pointers(chunks)[i] = POINTER + Sizes(chunks)[i]
  BY ChunkFacts
<1>3. /\ \A i \in 0 .. Len(chunks) : SumTo(Sizes(chunks), i) \in Nat
      /\ \A i \in 0 .. Len(chunks) : \A j \in i .. Len(chunks) :
              SumTo(Sizes(chunks), i) <= SumTo(Sizes(chunks), j)
  BY <1>1, <1>2, SumsGrow
<1>4. SumTo(Lengths(chunks), Len(chunks)) \in Nat
  <2>1. \A i \in 1 .. Len(chunks) : Lengths(chunks)[i] \in Nat
    BY <1>2
  <2>2. Len(chunks) \in 0 .. Len(chunks)
    BY <1>1
  <2> QED
    BY <1>1, <2>1, <2>2, SumsGrow
<1>5. SumTo(Pointers(chunks), Len(chunks)) = SumTo(Sizes(chunks), Len(chunks)) + POINTER * Len(chunks)
  BY <1>1, <1>2, SumsWithPointers
<1> QED
  BY <1>3, <1>4, <1>5

LEMMA AncillarySums ==
  ASSUME ancillary \in [Kinds -> {NoChunk} \cup Buffers]
  PROVE  /\ \A i \in 0 .. 4 : SumTo(Sizes(ancillary), i) \in Nat
         /\ \A i \in 0 .. 4 : \A j \in i .. 4 : SumTo(Sizes(ancillary), i) <= SumTo(Sizes(ancillary), j)
         /\ SumTo(Lengths(ancillary), 4) \in Nat
         /\ \A k \in Kinds : AncillaryOffsets[k] \in Nat
<1>1. \A k \in 1 .. 4 : Sizes(ancillary)[k] \in Nat /\ Lengths(ancillary)[k] \in Nat
  BY AncillaryFacts
<1>2. 4 \in Nat
  OBVIOUS
<1>3. /\ \A i \in 0 .. 4 : SumTo(Sizes(ancillary), i) \in Nat
      /\ \A i \in 0 .. 4 : \A j \in i .. 4 : SumTo(Sizes(ancillary), i) <= SumTo(Sizes(ancillary), j)
  BY <1>1, <1>2, SumsGrow
<1>4. SumTo(Lengths(ancillary), 4) \in Nat
  BY SMTT(60), <1>1, <1>2, SumsGrow
<1>5. ASSUME NEW k \in Kinds PROVE AncillaryOffsets[k] \in Nat
  <2>1. k - 1 \in 0 .. 4
    BY DEF Kinds
  <2>2. SumTo(Sizes(ancillary), k - 1) \in Nat
    BY <1>3, <2>1
  <2> QED
    BY <2>2, HeaderSize DEF AncillaryOffsets
<1> QED
  BY <1>3, <1>4, <1>5

\* One more chunk
LEMMA OneMore ==
  ASSUME NEW chunks \in Seq(Buffers), NEW c \in Buffers
  PROVE  /\ chunks \o <<c>> \in Seq(Buffers)
         /\ Len(chunks \o <<c>>) = Len(chunks) + 1
         /\ SumTo(Pointers(chunks \o <<c>>), Len(chunks) + 1)
              = SumTo(Pointers(chunks), Len(chunks)) + POINTER + c.cbytes
<1> DEFINE more == chunks \o <<c>>
           n == Len(chunks)
<1>1. more \in Seq(Buffers) /\ Len(more) = n + 1 /\ n \in Nat /\ more[n + 1] = c
      /\ \A i \in 1 .. n : more[i] = chunks[i]
  OBVIOUS
<1> HIDE DEF more
<1>2. \A i \in 1 .. n : Pointers(more)[i] = Pointers(chunks)[i]
  BY <1>1, ChunkFacts
<1>3. n \in 0 .. n /\ n + 1 \in 1 .. n + 1
  BY <1>1
<1>4. Pointers(more)[n + 1] = POINTER + c.cbytes
  BY <1>1, <1>3, ChunkFacts
<1>5. SumTo(Pointers(more), n) = SumTo(Pointers(chunks), n)
  BY <1>1, <1>2, <1>3, SumsSame
<1>6. SumTo(Pointers(more), n + 1) = SumTo(Pointers(more), n) + Pointers(more)[n + 1]
  BY <1>1, SumSteps
<1>7. c.cbytes \in Nat /\ SumTo(Pointers(chunks), n) \in Nat
  <2>1. SumTo(Sizes(chunks), n) \in Nat /\ SumTo(Pointers(chunks), n) = SumTo(Sizes(chunks), n) + POINTER * n
    BY <1>1, <1>3, ChunkSums
  <2> QED
    BY <1>1, <2>1, BufferSizes DEF POINTER
<1>8. SumTo(Pointers(more), n + 1) = SumTo(Pointers(chunks), n) + POINTER + c.cbytes
  BY <1>4, <1>5, <1>6, <1>7 DEF POINTER
<1> QED
  BY <1>1, <1>8 DEF more

-----------------------------------------------------------------------------
(* The header in memory *)
LEMMA HeaderWords ==
  /\ Word(16) = 4 /\ Word(24) = 6 /\ Word(28) = 7 /\ Word(32) = 8 /\ Word(72) = 18
  /\ Word(40) = 10 /\ Word(48) = 12 /\ Word(56) = 14 /\ Word(64) = 16
  /\ 0 .. 23 \subseteq 0 .. Word(HEADER) - 1
<1>1. HEADER \div 4 \in Int /\ HEADER \div 4 >= 24
  BY HeaderSize
<1> QED
  BY <1>1 DEF Word

LEMMA Written ==
  ASSUME NEW m, 0 .. 23 \subseteq DOMAIN m, NEW o, NEW v, Word(o) \in 0 .. 22
  PROVE  LET w == Write64(m, o, v)
         IN  /\ DOMAIN w = DOMAIN m
             /\ w[Word(o)] = v /\ w[Word(o) + 1] = 0
             /\ \A x \in 0 .. 23 : x # Word(o) /\ x # Word(o) + 1 => w[x] = m[x]
<1>1. Word(o) \in DOMAIN m /\ Word(o) + 1 \in DOMAIN m /\ Word(o) # Word(o) + 1
  OBVIOUS
<1> QED
  BY <1>1 DEF Write64

LEMMA FieldRead ==
  ASSUME NEW m, NEW o, m[Word(o)] \in Nat, m[Word(o) + 1] = 0
  PROVE  Read64(m, o) = m[Word(o)]
BY DEF Read64, Unset

\* What blosc2_pack_schunk leaves in the words of the header
LEMMA HeaderWritten ==
  /\ PackedWords[4] = Len(data) /\ PackedWords[5] = 0
  /\ PackedWords[6] = PackedNbytes /\ PackedWords[7] = 0
  /\ PackedWords[8] = PackedBytes /\ PackedWords[9] = 0
  /\ PackedWords[10] = AncillaryOffsets[1] /\ PackedWords[11] = 0
  /\ PackedWords[12] = AncillaryOffsets[2] /\ PackedWords[13] = 0
  /\ PackedWords[14] = AncillaryOffsets[3] /\ PackedWords[15] = 0
  /\ PackedWords[16] = AncillaryOffsets[4] /\ PackedWords[17] = 0
  /\ PackedWords[18] = TableOffset /\ PackedWords[19] = 0
<1> DEFINE m0 == CopyStruct(Malloced)
           m1 == Write64(m0, 40, AncillaryOffsets[1])
           m2 == Write64(m1, 48, AncillaryOffsets[2])
           m3 == Write64(m2, 56, AncillaryOffsets[3])
           m4 == Write64(m3, 64, AncillaryOffsets[4])
           m5 == Write64(m4, 72, TableOffset)
           m6 == Write64(m5, 16, Len(data))
           m7 == Write64(m6, 24, PackedNbytes)
           m8 == Write64(m7, 32, PackedBytes)
<1>1. PackedWords = m8
  BY DEF PackedWords, WriteFields, CopyAncillary
<1>2. 0 .. 23 \subseteq DOMAIN m0
  BY HeaderWords DEF CopyStruct, Malloced, Write64
<1> HIDE DEF m0
<1>3. 0 .. 23 \subseteq DOMAIN m1 /\ m1[10] = AncillaryOffsets[1] /\ m1[11] = 0
  BY <1>2, HeaderWords, Written
<1> HIDE DEF m1
<1>4. 0 .. 23 \subseteq DOMAIN m2 /\ m2[12] = AncillaryOffsets[2] /\ m2[13] = 0
      /\ \A x \in {10, 11} : m2[x] = m1[x]
  BY <1>3, HeaderWords, Written
<1> HIDE DEF m2
<1>5. 0 .. 23 \subseteq DOMAIN m3 /\ m3[14] = AncillaryOffsets[3] /\ m3[15] = 0
      /\ \A x \in 10 .. 13 : m3[x] = m2[x]
  BY <1>4, HeaderWords, Written
<1> HIDE DEF m3
<1>6. 0 .. 23 \subseteq DOMAIN m4 /\ m4[16] = AncillaryOffsets[4] /\ m4[17] = 0
      /\ \A x \in 10 .. 15 : m4[x] = m3[x]
  BY <1>5, HeaderWords, Written
<1> HIDE DEF m4
<1>7. 0 .. 23 \subseteq DOMAIN m5 /\ m5[18] = TableOffset /\ m5[19] = 0
      /\ \A x \in 10 .. 17 : m5[x] = m4[x]
  BY <1>6, HeaderWords, Written
<1> HIDE DEF m5
<1>8. 0 .. 23 \subseteq DOMAIN m6 /\ m6[4] = Len(data) /\ m6[5] = 0
      /\ \A x \in 10 .. 19 : m6[x] = m5[x]
  <2>1. Word(16) = 4 /\ Word(16) \in 0 .. 22
    BY HeaderWords
  <2>2. /\ DOMAIN m6 = DOMAIN m5 /\ m6[Word(16)] = Len(data) /\ m6[Word(16) + 1] = 0
        /\ \A x \in 0 .. 23 : x # Word(16) /\ x # Word(16) + 1 => m6[x] = m5[x]
    BY SMTT(60), <1>7, <2>1, Written
  <2> HIDE DEF m6
  <2> QED
    BY SMTT(60), <1>7, <2>1, <2>2
<1> HIDE DEF m6
<1>9. 0 .. 23 \subseteq DOMAIN m7 /\ m7[6] = PackedNbytes /\ m7[7] = 0
      /\ \A x \in 4 .. 5 \cup 10 .. 19 : m7[x] = m6[x]
  <2>1. Word(24) = 6 /\ Word(24) \in 0 .. 22
    BY HeaderWords
  <2>2. /\ DOMAIN m7 = DOMAIN m6 /\ m7[Word(24)] = PackedNbytes /\ m7[Word(24) + 1] = 0
        /\ \A x \in 0 .. 23 : x # Word(24) /\ x # Word(24) + 1 => m7[x] = m6[x]
    BY SMTT(60), <1>8, <2>1, Written
  <2> HIDE DEF m7
  <2> QED
    BY SMTT(60), <1>8, <2>1, <2>2
<1> HIDE DEF m7
<1>10. m8[8] = PackedBytes /\ m8[9] = 0 /\ \A x \in 4 .. 7 \cup 10 .. 19 : m8[x] = m7[x]
  BY <1>9, HeaderWords, Written
<1> HIDE DEF m8
<1>11. m8[4] = Len(data) /\ m8[5] = 0 /\ m8[6] = PackedNbytes /\ m8[7] = 0
  BY SMTT(60), <1>8, <1>9, <1>10
<1>12. m8[10] = AncillaryOffsets[1] /\ m8[11] = 0 /\ m8[12] = AncillaryOffsets[2] /\ m8[13] = 0
  BY SMTT(60), <1>3, <1>4, <1>5, <1>6, <1>7, <1>8, <1>9, <1>10
<1>13. m8[14] = AncillaryOffsets[3] /\ m8[15] = 0 /\ m8[16] = AncillaryOffsets[4] /\ m8[17] = 0
  BY SMTT(60), <1>5, <1>6, <1>7, <1>8, <1>9, <1>10
<1>14. m8[18] = TableOffset /\ m8[19] = 0
  BY <1>7, <1>8, <1>9, <1>10
<1> QED
  BY <1>1, <1>10, <1>11, <1>12, <1>13, <1>14

-----------------------------------------------------------------------------
(* The invariant *)
Appended ==
  /\ data \in Seq(Buffers) /\ ancillary \in [Kinds -> {NoChunk} \cup Buffers]
  /\ cbytes = HEADER + SumTo(Pointers(data), Len(data))
  /\ "state" \in DOMAIN packed

\* Where the pieces are, and the fields of the header, word by word
Laid ==
  packed.state = "packed" =>
    /\ packed.chunks \in Seq(Buffers)
    /\ packed.table = DataStart + SumTo(Sizes(packed.chunks), Len(packed.chunks))
    /\ packed.length = packed.table + POINTER * Len(packed.chunks)
    /\ packed.offsets = Place(packed.chunks, DataStart)
    /\ packed.words[4] = Len(packed.chunks) /\ packed.words[5] = 0
    /\ packed.words[6] = HEADER + SumTo(Lengths(ancillary), 4)
                           + SumTo(Lengths(packed.chunks), Len(packed.chunks))
                           + POINTER * Len(packed.chunks)
    /\ packed.words[7] = 0
    /\ packed.words[8] = packed.length /\ packed.words[9] = 0
    /\ \A k \in Kinds : packed.words[8 + 2 * k] = AncillaryOffsets[k] /\ packed.words[9 + 2 * k] = 0
    /\ packed.words[18] = packed.table /\ packed.words[19] = 0

SchunkInv == Appended /\ Laid

LEMMA PackedNumbers ==
  ASSUME SchunkInv, packed.state = "packed"
  PROVE  /\ DataStart \in Nat /\ DataStart >= HEADER /\ HEADER \in Nat /\ HEADER >= 96
         /\ Len(packed.chunks) \in Nat
         /\ packed.table \in Nat /\ packed.table >= DataStart
         /\ packed.length \in Nat /\ packed.length >= packed.table
         /\ packed.words[6] \in Nat
<1>1. packed.chunks \in Seq(Buffers) /\ ancillary \in [Kinds -> {NoChunk} \cup Buffers]
  BY DEF SchunkInv, Appended, Laid
<1>2. Len(packed.chunks) \in Nat /\ Len(packed.chunks) \in 0 .. Len(packed.chunks)
  BY <1>1, ChunkFacts
<1>3. /\ SumTo(Sizes(packed.chunks), Len(packed.chunks)) \in Nat
      /\ SumTo(Lengths(packed.chunks), Len(packed.chunks)) \in Nat
  BY <1>1, <1>2, ChunkSums
<1>4. SumTo(Sizes(ancillary), 4) \in Nat /\ SumTo(Lengths(ancillary), 4) \in Nat
  BY <1>1, AncillarySums
<1>5. DataStart \in Nat /\ DataStart >= HEADER /\ HEADER \in Nat /\ HEADER >= 96
  BY <1>4, HeaderSize DEF DataStart
<1>6. /\ packed.table = DataStart + SumTo(Sizes(packed.chunks), Len(packed.chunks))
      /\ packed.length = packed.table + POINTER * Len(packed.chunks)
      /\ packed.words[6] = HEADER + SumTo(Lengths(ancillary), 4)
                             + SumTo(Lengths(packed.chunks), Len(packed.chunks))
                             + POINTER * Len(packed.chunks)
  BY DEF SchunkInv, Laid
<1>7. POINTER * Len(packed.chunks) \in Nat
  BY <1>2 DEF POINTER
<1> QED
  BY SMTT(60), <1>2, <1>3, <1>4, <1>5, <1>6, <1>7

LEMMA SchunkInit == Init => SchunkInv
<1> SUFFICES ASSUME Init PROVE SchunkInv
  OBVIOUS
<1>1. data \in Seq(Buffers) /\ Len(data) = 0
  BY DEF Init
<1>2. cbytes = HEADER + SumTo(Pointers(data), Len(data))
  BY <1>1, SumSteps, HeaderSize DEF Init
<1>3. Appended
  BY <1>1, <1>2 DEF Init, Appended, Nothing
<1>4. Laid
  BY DEF Init, Laid, Nothing
<1> QED
  BY <1>3, <1>4 DEF SchunkInv

LEMMA AppendKeeps ==
  ASSUME SchunkInv, NEW c \in Buffers, AppendBuffer(c)
  PROVE  SchunkInv'
<1>1. /\ data' = data \o <<c>> /\ cbytes' = cbytes + c.cbytes + POINTER
      /\ ancillary' = ancillary /\ packed' = packed
  BY DEF AppendBuffer, Count
<1>2. /\ data \in Seq(Buffers) /\ "state" \in DOMAIN packed
      /\ cbytes = HEADER + SumTo(Pointers(data), Len(data))
      /\ ancillary \in [Kinds -> {NoChunk} \cup Buffers]
  BY DEF SchunkInv, Appended
<1>3. data' \in Seq(Buffers) /\ Len(data') = Len(data) + 1
      /\ SumTo(Pointers(data'), Len(data')) = SumTo(Pointers(data), Len(data)) + POINTER + c.cbytes
  BY <1>1, <1>2, OneMore
<1>4. SumTo(Pointers(data), Len(data)) \in Nat /\ c.cbytes \in Nat /\ HEADER \in Nat
  <2>1. Len(data) \in Nat /\ Len(data) \in 0 .. Len(data)
    BY <1>2, ChunkFacts
  <2>2. SumTo(Sizes(data), Len(data)) \in Nat
        /\ SumTo(Pointers(data), Len(data)) = SumTo(Sizes(data), Len(data)) + POINTER * Len(data)
    BY <1>2, <2>1, ChunkSums
  <2> QED
    BY <2>1, <2>2, BufferSizes, HeaderSize DEF POINTER
<1>5. cbytes' = HEADER + SumTo(Pointers(data'), Len(data'))
  <2>1. PICK s : s = SumTo(Pointers(data), Len(data))
    OBVIOUS
  <2>2. s \in Nat /\ c.cbytes \in Nat /\ HEADER \in Nat /\ cbytes = HEADER + s
    BY <1>2, <1>4, <2>1
  <2>3. cbytes' = HEADER + s + c.cbytes + POINTER
    BY <1>1, <2>2
  <2>4. SumTo(Pointers(data'), Len(data')) = s + POINTER + c.cbytes
    BY <1>3, <2>1
  <2>5. HEADER + s + c.cbytes + POINTER = HEADER + (s + POINTER + c.cbytes)
    BY <2>2 DEF POINTER
  <2> QED
    BY <2>3, <2>4, <2>5
<1>6. Appended'
  BY <1>1, <1>2, <1>3, <1>5 DEF Appended, Pointers
<1>7. Laid'
  BY <1>1 DEF SchunkInv, Laid, DataStart, AncillaryOffsets, Place
<1> QED
  BY <1>6, <1>7 DEF SchunkInv

LEMMA PackKeeps ==
  ASSUME SchunkInv, Pack
  PROVE  SchunkInv'
<1> DEFINE new == [state |-> "packed", words |-> PackedWords, length |-> blosc2_get_packed_length,
                   chunks |-> data, offsets |-> Place(data, DataStart), table |-> TableOffset]
<1>1. packed' = new /\ data' = data /\ ancillary' = ancillary /\ cbytes' = cbytes
  BY DEF Pack
<1>2. /\ data \in Seq(Buffers) /\ ancillary \in [Kinds -> {NoChunk} \cup Buffers]
  BY DEF SchunkInv, Appended
<1>3. Appended'
  BY <1>1 DEF SchunkInv, Appended, Pointers
<1>4. blosc2_get_packed_length = DataStart + SumTo(Pointers(data), Len(data))
  BY DEF blosc2_get_packed_length, DataStart, Pointers
<1>5. Len(data) \in Nat /\ Len(data) \in 0 .. Len(data)
  BY <1>2, ChunkFacts
<1>6. SumTo(Sizes(data), Len(data)) \in Nat
      /\ SumTo(Pointers(data), Len(data)) = SumTo(Sizes(data), Len(data)) + POINTER * Len(data)
  BY <1>2, <1>5, ChunkSums
<1>7. DataStart \in Nat
  BY SMTT(60), <1>2, AncillarySums, HeaderSize DEF DataStart
<1>8. TableOffset = DataStart + SumTo(Sizes(data), Len(data))
      /\ blosc2_get_packed_length = TableOffset + POINTER * Len(data)
      /\ PackedBytes = blosc2_get_packed_length
  <2>1. POINTER * Len(data) \in Nat
    BY <1>5 DEF POINTER
  <2>2. \A d, s, p \in Nat : d + (s + p) - p = d + s /\ d + (s + p) = d + s + p
    OBVIOUS
  <2> QED
    BY <1>4, <1>6, <1>7, <2>1, <2>2 DEF TableOffset, PackedBytes
<1>9. \A k \in Kinds : PackedWords[8 + 2 * k] = AncillaryOffsets[k] /\ PackedWords[9 + 2 * k] = 0
  <2>1. \A k \in Kinds : k = 1 \/ k = 2 \/ k = 3 \/ k = 4
    BY DEF Kinds
  <2> QED
    BY SMTT(60), <2>1, HeaderWritten
<1>10. Laid'
  <2>1. DataStart' = DataStart /\ AncillaryOffsets' = AncillaryOffsets
    BY <1>1 DEF DataStart, AncillaryOffsets
  <2>2. /\ new.chunks = data /\ new.table = TableOffset /\ new.length = blosc2_get_packed_length
        /\ new.offsets = Place(data, DataStart) /\ new.words = PackedWords
    OBVIOUS
  <2> HIDE DEF new
  <2>3. /\ packed'.chunks = data /\ packed'.table = TableOffset /\ packed'.offsets = Place(data, DataStart)
        /\ packed'.length = blosc2_get_packed_length /\ packed'.words = PackedWords
    BY <1>1, <2>2
  <2>4. /\ packed'.chunks \in Seq(Buffers)
        /\ packed'.table = DataStart + SumTo(Sizes(packed'.chunks), Len(packed'.chunks))
        /\ packed'.length = packed'.table + POINTER * Len(packed'.chunks)
        /\ packed'.offsets = Place(packed'.chunks, DataStart)
    BY <1>2, <1>8, <2>3
  <2>5. /\ packed'.words[4] = Len(packed'.chunks) /\ packed'.words[5] = 0
        /\ packed'.words[7] = 0
        /\ packed'.words[8] = packed'.length /\ packed'.words[9] = 0
        /\ packed'.words[18] = packed'.table /\ packed'.words[19] = 0
    BY <1>8, <2>3, HeaderWritten
  <2>6. packed'.words[6] = HEADER + SumTo(Lengths(ancillary), 4)
                           + SumTo(Lengths(packed'.chunks), Len(packed'.chunks))
                           + POINTER * Len(packed'.chunks)
    BY <2>3, HeaderWritten DEF PackedNbytes
  <2>7. \A k \in Kinds : packed'.words[8 + 2 * k] = AncillaryOffsets[k] /\ packed'.words[9 + 2 * k] = 0
    BY <1>9, <2>3
  <2> QED
    BY <1>1, <2>1, <2>4, <2>5, <2>6, <2>7 DEF Laid, Place, Sizes, Lengths
<1> QED
  BY <1>3, <1>10 DEF SchunkInv

\* packed_append_chunk finds the number of chunks twelve bytes after where
\* blosc2_pack_schunk put it, and never goes on.
LEMMA PackedAppendKeeps ==
  ASSUME SchunkInv, NEW c \in Buffers, PackedAppendBuffer(c)
  PROVE  SchunkInv'
<1>1. packed.state = "packed" /\ "state" \in DOMAIN packed
      /\ packed.words[7] = 0 /\ packed.words[8] = packed.length
  BY DEF PackedAppendBuffer, SchunkInv, Appended, Laid
<1>2. packed.length \in Nat /\ packed.length # 0 /\ Len(packed.chunks) \in Nat
  BY <1>1, PackedNumbers
<1>3. Nchunks = Huge
  <2>1. packed.words[Word(28)] = 0 /\ packed.words[Word(28) + 1] = packed.length
    BY <1>1, HeaderWords
  <2>2. Unset # 0 /\ Unset # packed.length
    BY <1>2 DEF Unset
  <2>3. Read64(packed.words, 28) = Huge
    BY <1>2, <2>1, <2>2 DEF Read64
  <2> QED
    BY <2>3 DEF Nchunks
<1>4. Nchunks # Len(packed.chunks)
  BY <1>2, <1>3 DEF Huge
<1>5. packed' = [packed EXCEPT !.state = Undefined]
  BY <1>4 DEF PackedAppendBuffer
<1>6. packed'.state = "undefined" /\ "state" \in DOMAIN packed'
  BY <1>1, <1>5 DEF Undefined
<1>7. Appended'
  BY <1>6 DEF PackedAppendBuffer, SchunkInv, Appended, Pointers
<1>8. Laid'
  BY <1>6 DEF Laid
<1> QED
  BY <1>7, <1>8 DEF SchunkInv

LEMMA SchunkKept == Spec => []SchunkInv
<1>1. SchunkInv /\ [Next]_vars => SchunkInv'
  <2> SUFFICES ASSUME SchunkInv, [Next]_vars PROVE SchunkInv'
    OBVIOUS
  <2>1. CASE \E c \in Buffers : AppendBuffer(c)
    BY <2>1, AppendKeeps
  <2>2. CASE \E c \in Buffers : PackedAppendBuffer(c)
    BY <2>2, PackedAppendKeeps
  <2>3. CASE Pack
    BY <2>3, PackKeeps
  <2>4. CASE Unpack \/ ReadPacked \/ UNCHANGED vars
    <3>1. UNCHANGED <<data, ancillary, cbytes, packed>>
      BY <2>4 DEF Unpack, ReadPacked, vars
    <3>2. Appended'
      BY <3>1 DEF SchunkInv, Appended, Pointers
    <3>3. Laid'
      BY <3>1 DEF SchunkInv, Laid, DataStart, AncillaryOffsets, Place
    <3> QED
      BY <3>2, <3>3 DEF SchunkInv
  <2> QED
    BY <2>1, <2>2, <2>3, <2>4 DEF Next
<1> QED
  BY <1>1, SchunkInit, PTL DEF Spec

-----------------------------------------------------------------------------
(* The properties *)

(* The counter schunk->cbytes is at every moment the length that            *)
(* blosc2_get_packed_length computes, but for the special chunks            *)
(* (schunk.c:78, 158).                                                      *)
THEOREM CountersAgree == Spec => []CountersMatchPacking
<1>1. SchunkInv => CountersMatchPacking
  <2> SUFFICES ASSUME SchunkInv PROVE CountersMatchPacking
    OBVIOUS
  <2> DEFINE s == SumTo(Pointers(data), Len(data))
             a == SumTo(Sizes(ancillary), 4)
  <2>1. /\ data \in Seq(Buffers) /\ ancillary \in [Kinds -> {NoChunk} \cup Buffers]
        /\ cbytes = HEADER + s
    BY DEF SchunkInv, Appended
  <2>2. Len(data) \in Nat /\ Len(data) \in 0 .. Len(data)
    BY <2>1, ChunkFacts
  <2>3. s \in Nat
    <3>1. SumTo(Sizes(data), Len(data)) \in Nat /\ s = SumTo(Sizes(data), Len(data)) + POINTER * Len(data)
      BY <2>1, <2>2, ChunkSums
    <3> QED
      BY <2>2, <3>1 DEF POINTER
  <2>4. a \in Nat /\ HEADER \in Nat
    BY <2>1, AncillarySums, HeaderSize
  <2>5. blosc2_get_packed_length = HEADER + a + s
    BY DEF blosc2_get_packed_length, Pointers
  <2> HIDE DEF s, a
  <2>6. HEADER + s + a = HEADER + a + s
    BY <2>3, <2>4
  <2>7. cbytes + a = blosc2_get_packed_length
    BY <2>1, <2>5, <2>6
  <2> QED
    BY <2>7 DEF CountersMatchPacking, a
<1> QED
  BY <1>1, SchunkKept, PTL

(* The number of chunks, the lengths and the table are where                *)
(* README_PACKED_HEADER.rst says, whatever was written over the copy of     *)
(* the struct (schunk.c:201-252).                                           *)
THEOREM HeaderAsDocumented == Spec => []PackedAsDocumented
<1>1. SchunkInv => PackedAsDocumented
  <2> SUFFICES ASSUME SchunkInv, packed.state = "packed" PROVE PackedAsDocumented
    BY DEF PackedAsDocumented
  <2> DEFINE w == packed.words
  <2>1. /\ w[4] = Len(packed.chunks) /\ w[5] = 0 /\ w[7] = 0
        /\ w[6] = HEADER + SumTo(Lengths(ancillary), 4)
                    + SumTo(Lengths(packed.chunks), Len(packed.chunks))
                    + POINTER * Len(packed.chunks)
        /\ w[8] = packed.length /\ w[9] = 0
        /\ w[18] = packed.table /\ w[19] = 0
    BY DEF SchunkInv, Laid
  <2>2. /\ w[4] \in Nat /\ w[6] \in Nat /\ w[8] \in Nat /\ w[18] \in Nat
    BY <2>1, PackedNumbers
  <2>3. Word(16) = 4 /\ Word(24) = 6 /\ Word(32) = 8 /\ Word(72) = 18
    BY HeaderWords
  <2> HIDE DEF w
  <2>4. Read64(w, 16) = w[4] /\ Read64(w, 24) = w[6] /\ Read64(w, 32) = w[8] /\ Read64(w, 72) = w[18]
    <3>1. w[Word(16)] \in Nat /\ w[Word(16) + 1] = 0 /\ w[Word(24)] \in Nat /\ w[Word(24) + 1] = 0
      BY SMTT(60), <2>1, <2>2, <2>3
    <3>2. w[Word(32)] \in Nat /\ w[Word(32) + 1] = 0 /\ w[Word(72)] \in Nat /\ w[Word(72) + 1] = 0
      BY SMTT(60), <2>1, <2>2, <2>3
    <3>3. Read64(w, 16) = w[Word(16)] /\ Read64(w, 24) = w[Word(24)]
      BY <3>1, FieldRead
    <3>4. Read64(w, 32) = w[Word(32)] /\ Read64(w, 72) = w[Word(72)]
      BY <3>2, FieldRead
    <3> QED
      BY <2>3, <3>3, <3>4
  <2> QED
    BY <2>1, <2>4 DEF PackedAsDocumented, w
<1> QED
  BY <1>1, SchunkKept, PTL

\* A chunk lies between the data's start and the table.
LEMMA ChunkPlaced ==
  ASSUME SchunkInv, packed.state = "packed", NEW i \in DOMAIN packed.chunks
  PROVE  LET c == packed.chunks
         IN  /\ i \in 1 .. Len(c) /\ c[i].cbytes \in Nat
             /\ SumTo(Sizes(c), i - 1) \in Nat /\ SumTo(Sizes(c), i) \in Nat
             /\ SumTo(Sizes(c), i) = SumTo(Sizes(c), i - 1) + c[i].cbytes
             /\ packed.offsets[i] = DataStart + SumTo(Sizes(c), i - 1)
             /\ packed.offsets[i] + c[i].cbytes = DataStart + SumTo(Sizes(c), i)
             /\ packed.offsets[i] \in Nat /\ packed.offsets[i] >= DataStart
             /\ packed.offsets[i] + c[i].cbytes <= packed.table
<1> DEFINE c == packed.chunks
           S(j) == SumTo(Sizes(c), j)
<1>1. c \in Seq(Buffers) /\ packed.offsets = Place(c, DataStart)
      /\ packed.table = DataStart + S(Len(c))
  BY DEF SchunkInv, Laid
<1>2. Len(c) \in Nat /\ i \in 1 .. Len(c) /\ c[i].cbytes \in Nat /\ Sizes(c)[i] = c[i].cbytes
  BY <1>1, ChunkFacts
<1>3. packed.offsets[i] = DataStart + S(i - 1)
  BY <1>1 DEF Place
<1>4. DataStart \in Nat
  BY PackedNumbers
<1>5. i - 1 \in Nat /\ i - 1 + 1 = i /\ i - 1 \in 0 .. Len(c) /\ i \in 0 .. Len(c)
      /\ Len(c) \in i .. Len(c)
  BY <1>2
<1>6. S(i) = S(i - 1) + c[i].cbytes
  BY <1>2, <1>5, SumSteps
<1>7. S(i - 1) \in Nat /\ S(i) \in Nat /\ S(Len(c)) \in Nat /\ S(i) <= S(Len(c))
  <2>1. Len(c) \in 0 .. Len(c)
    BY <1>2
  <2> QED
    BY <1>1, <1>5, <2>1, ChunkSums
<1> HIDE DEF c, S
<1>8. /\ packed.offsets[i] + c[i].cbytes = DataStart + S(i)
      /\ packed.offsets[i] \in Nat /\ packed.offsets[i] >= DataStart
      /\ packed.offsets[i] + c[i].cbytes <= packed.table
  BY SMTT(60), <1>1, <1>2, <1>3, <1>4, <1>6, <1>7
<1> QED
  BY <1>2, <1>3, <1>6, <1>7, <1>8 DEF c, S

\* A special chunk lies between the header and the data's start.
LEMMA AncillaryPlaced ==
  ASSUME SchunkInv, packed.state = "packed", NEW k \in Kinds, ancillary[k] # NoChunk
  PROVE  LET at == Read64(packed.words, 32 + 8 * k)
             A(j) == SumTo(Sizes(ancillary), j)
         IN  /\ ancillary[k].cbytes \in Nat /\ A(k - 1) \in Nat /\ A(k) \in Nat
             /\ A(k) = A(k - 1) + ancillary[k].cbytes
             /\ at = HEADER + A(k - 1) /\ at \in Nat /\ at >= HEADER
             /\ at + ancillary[k].cbytes = HEADER + A(k)
             /\ at + ancillary[k].cbytes <= DataStart
<1> DEFINE at == Read64(packed.words, 32 + 8 * k)
           A(j) == SumTo(Sizes(ancillary), j)
<1>1. ancillary \in [Kinds -> {NoChunk} \cup Buffers]
  BY DEF SchunkInv, Appended
<1>2. ancillary[k].cbytes \in Nat /\ Sizes(ancillary)[k] = ancillary[k].cbytes
  BY <1>1, AncillaryFacts DEF Kinds
<1>3. k - 1 \in Nat /\ k - 1 + 1 = k /\ k - 1 \in 0 .. 4 /\ k \in 0 .. 4 /\ 4 \in k .. 4 /\ 4 \in 0 .. 4
  BY DEF Kinds
<1>4. A(k) = A(k - 1) + ancillary[k].cbytes
  BY <1>2, <1>3, SumSteps
<1>5. A(k - 1) \in Nat /\ A(k) \in Nat /\ A(4) \in Nat /\ A(k) <= A(4) /\ AncillaryOffsets[k] \in Nat
  BY <1>1, <1>3, AncillarySums
<1>6. AncillaryOffsets[k] = HEADER + A(k - 1)
  BY DEF AncillaryOffsets
<1>7. Word(32 + 8 * k) = 8 + 2 * k
  <2>1. k = 1 \/ k = 2 \/ k = 3 \/ k = 4
    BY DEF Kinds
  <2> QED
    BY <2>1 DEF Word
<1>8. packed.words[8 + 2 * k] = AncillaryOffsets[k] /\ packed.words[8 + 2 * k + 1] = 0
  <2>1. packed.words[8 + 2 * k] = AncillaryOffsets[k] /\ packed.words[9 + 2 * k] = 0
    BY DEF SchunkInv, Laid
  <2>2. 9 + 2 * k = 8 + 2 * k + 1
    BY DEF Kinds
  <2> QED
    BY <2>1, <2>2
<1>9. at = AncillaryOffsets[k]
  BY <1>5, <1>7, <1>8, FieldRead
<1>10. HEADER \in Nat /\ DataStart = HEADER + A(4)
  BY HeaderSize DEF DataStart
<1> HIDE DEF at, A
<1>11. /\ at \in Nat /\ at >= HEADER /\ at + ancillary[k].cbytes = HEADER + A(k)
       /\ at + ancillary[k].cbytes <= DataStart
  BY <1>2, <1>4, <1>5, <1>6, <1>9, <1>10
<1> QED
  BY <1>2, <1>4, <1>5, <1>6, <1>9, <1>11 DEF at, A

\* Segments by what they hold
HeaderSegment == <<0, HEADER>>
TableSegment == <<packed.table, POINTER * Len(packed.chunks)>>
ChunkSegment(i) == <<packed.offsets[i], packed.chunks[i].cbytes>>
AncillarySegment(k) == <<Read64(packed.words, 32 + 8 * k), ancillary[k].cbytes>>
Present == {k \in Kinds : ancillary[k] # NoChunk}

Within(a, lo, hi) == a[1] \in Nat /\ a[2] \in Nat /\ lo <= a[1] /\ a[1] + a[2] <= hi

LEMMA SegmentsOf ==
  Segments = {HeaderSegment, TableSegment} \cup {ChunkSegment(i) : i \in DOMAIN packed.chunks}
               \cup {AncillarySegment(k) : k \in Present}
BY DEF Segments, HeaderSegment, TableSegment, ChunkSegment, AncillarySegment, Present

LEMMA SegmentsWithin ==
  ASSUME SchunkInv, packed.state = "packed"
  PROVE  /\ Within(HeaderSegment, 0, HEADER)
         /\ Within(TableSegment, packed.table, packed.length)
         /\ \A i \in DOMAIN packed.chunks : Within(ChunkSegment(i), DataStart, packed.table)
         /\ \A k \in Present : Within(AncillarySegment(k), HEADER, DataStart)
<1>1. Within(HeaderSegment, 0, HEADER)
  BY HeaderSize DEF Within, HeaderSegment
<1>2. Within(TableSegment, packed.table, packed.length)
  <2>1. Len(packed.chunks) \in Nat /\ packed.table \in Nat
        /\ packed.length = packed.table + POINTER * Len(packed.chunks)
    BY PackedNumbers DEF SchunkInv, Laid
  <2> QED
    BY <2>1 DEF Within, TableSegment, POINTER
<1>3. ASSUME NEW i \in DOMAIN packed.chunks PROVE Within(ChunkSegment(i), DataStart, packed.table)
  BY ChunkPlaced DEF Within, ChunkSegment
<1>4. ASSUME NEW k \in Present PROVE Within(AncillarySegment(k), HEADER, DataStart)
  BY AncillaryPlaced DEF Within, AncillarySegment, Present
<1> QED
  BY <1>1, <1>2, <1>3, <1>4

LEMMA WithinApart ==
  ASSUME NEW a, NEW b, NEW lo \in Nat, NEW hi \in Nat, NEW from \in Nat, NEW to \in Nat,
         hi <= from, Within(a, lo, hi), Within(b, from, to)
  PROVE  Apart(a, b) /\ Apart(b, a)
BY DEF Within, Apart

LEMMA ChunksApart ==
  ASSUME SchunkInv, packed.state = "packed",
         NEW i \in DOMAIN packed.chunks, NEW j \in DOMAIN packed.chunks, i < j
  PROVE  Apart(ChunkSegment(i), ChunkSegment(j)) /\ Apart(ChunkSegment(j), ChunkSegment(i))
<1> DEFINE c == packed.chunks
           S(x) == SumTo(Sizes(c), x)
<1>1. c \in Seq(Buffers)
  BY DEF SchunkInv, Laid
<1>2. /\ i \in 1 .. Len(c) /\ j \in 1 .. Len(c) /\ Len(c) \in Nat
      /\ packed.offsets[i] + c[i].cbytes = DataStart + S(i)
      /\ packed.offsets[j] = DataStart + S(j - 1)
      /\ S(i) \in Nat /\ S(j - 1) \in Nat
  BY <1>1, ChunkFacts, ChunkPlaced
<1>3. i \in 0 .. Len(c) /\ j - 1 \in i .. Len(c)
  BY <1>2
<1>4. S(i) <= S(j - 1)
  BY <1>1, <1>3, ChunkSums
<1>5. DataStart \in Nat
  BY PackedNumbers
<1> HIDE DEF S
<1>6. packed.offsets[i] + c[i].cbytes <= packed.offsets[j]
  BY <1>2, <1>4, <1>5
<1> QED
  BY <1>6 DEF Apart, ChunkSegment

LEMMA AncillariesApart ==
  ASSUME SchunkInv, packed.state = "packed", NEW k \in Present, NEW l \in Present, k < l
  PROVE  /\ Apart(AncillarySegment(k), AncillarySegment(l))
         /\ Apart(AncillarySegment(l), AncillarySegment(k))
<1> DEFINE A(x) == SumTo(Sizes(ancillary), x)
<1>1. ancillary \in [Kinds -> {NoChunk} \cup Buffers] /\ k \in Kinds /\ l \in Kinds
  BY DEF SchunkInv, Appended, Present
<1>2. /\ Read64(packed.words, 32 + 8 * k) + ancillary[k].cbytes = HEADER + A(k)
      /\ Read64(packed.words, 32 + 8 * l) = HEADER + A(l - 1)
      /\ A(k) \in Nat /\ A(l - 1) \in Nat
  BY AncillaryPlaced DEF Present
<1>3. k \in 0 .. 4 /\ l - 1 \in k .. 4
  BY <1>1 DEF Kinds
<1>4. A(k) <= A(l - 1)
  BY <1>1, <1>3, AncillarySums
<1> HIDE DEF A
<1>5. Read64(packed.words, 32 + 8 * k) + ancillary[k].cbytes <= Read64(packed.words, 32 + 8 * l)
  BY <1>2, <1>4, HeaderSize
<1> QED
  BY <1>5 DEF Apart, AncillarySegment

LEMMA SegmentsApart ==
  ASSUME SchunkInv, packed.state = "packed", NEW a \in Segments, NEW b \in Segments, a # b
  PROVE  Apart(a, b)
<1> DEFINE OfHeader(x) == x = HeaderSegment
           OfTable(x) == x = TableSegment
           OfChunk(x) == \E i \in DOMAIN packed.chunks : x = ChunkSegment(i)
           OfAncillary(x) == \E k \in Present : x = AncillarySegment(k)
<1>1. \A x \in Segments : OfHeader(x) \/ OfTable(x) \/ OfChunk(x) \/ OfAncillary(x)
  BY SegmentsOf
<1>2. /\ \A x : OfHeader(x) => Within(x, 0, HEADER)
      /\ \A x : OfAncillary(x) => Within(x, HEADER, DataStart)
      /\ \A x : OfChunk(x) => Within(x, DataStart, packed.table)
      /\ \A x : OfTable(x) => Within(x, packed.table, packed.length)
  BY SegmentsWithin
<1>3. /\ 0 \in Nat /\ HEADER \in Nat /\ DataStart \in Nat /\ packed.table \in Nat /\ packed.length \in Nat
      /\ HEADER <= HEADER /\ HEADER <= DataStart /\ DataStart <= DataStart
      /\ HEADER <= packed.table /\ DataStart <= packed.table /\ packed.table <= packed.table
  BY PackedNumbers
<1>4. CASE OfChunk(a) /\ OfChunk(b)
  <2>1. PICK i \in DOMAIN packed.chunks, j \in DOMAIN packed.chunks :
          a = ChunkSegment(i) /\ b = ChunkSegment(j)
    BY <1>4
  <2>2. i # j /\ i \in Nat /\ j \in Nat
    BY <2>1, ChunkPlaced
  <2>3. i < j \/ j < i
    BY <2>2
  <2> QED
    BY <2>1, <2>3, ChunksApart
<1>5. CASE OfAncillary(a) /\ OfAncillary(b)
  <2>1. PICK k \in Present, l \in Present : a = AncillarySegment(k) /\ b = AncillarySegment(l)
    BY <1>5
  <2>2. k # l /\ k \in 1 .. 4 /\ l \in 1 .. 4
    BY <2>1 DEF Present, Kinds
  <2>3. k < l \/ l < k
    BY <2>2
  <2> QED
    BY <2>1, <2>3, AncillariesApart
<1>6. CASE (OfHeader(a) /\ OfHeader(b)) \/ (OfTable(a) /\ OfTable(b))
  BY <1>6
<1> HIDE DEF OfHeader, OfTable, OfChunk, OfAncillary
<1>7. \A x, y : OfHeader(x) /\ (OfAncillary(y) \/ OfChunk(y) \/ OfTable(y)) => Apart(x, y) /\ Apart(y, x)
  BY <1>2, <1>3, WithinApart
<1>8. \A x, y : OfAncillary(x) /\ (OfChunk(y) \/ OfTable(y)) => Apart(x, y) /\ Apart(y, x)
  BY <1>2, <1>3, WithinApart
<1>9. \A x, y : OfChunk(x) /\ OfTable(y) => Apart(x, y) /\ Apart(y, x)
  BY <1>2, <1>3, WithinApart
<1> QED
  BY <1>1, <1>4, <1>5, <1>6, <1>7, <1>8, <1>9

\* Every byte of the buffer is in a segment.
LEMMA SegmentsCover ==
  ASSUME SchunkInv, packed.state = "packed", NEW byte \in 0 .. packed.length - 1
  PROVE  \E a \in Segments : byte - a[1] \in 0 .. a[2] - 1
<1> DEFINE c == packed.chunks
           S(x) == SumTo(Sizes(c), x)
           A(x) == SumTo(Sizes(ancillary), x)
<1>1. c \in Seq(Buffers) /\ ancillary \in [Kinds -> {NoChunk} \cup Buffers]
      /\ packed.table = DataStart + S(Len(c)) /\ packed.length = packed.table + POINTER * Len(c)
  BY DEF SchunkInv, Appended, Laid
<1>2. /\ HEADER \in Nat /\ DataStart \in Nat /\ packed.table \in Nat /\ packed.length \in Nat
      /\ Len(c) \in Nat /\ byte \in Nat /\ byte < packed.length
  BY PackedNumbers
<1>3. CASE byte < HEADER
  <2>1. HeaderSegment \in Segments /\ byte - HeaderSegment[1] \in 0 .. HeaderSegment[2] - 1
    BY <1>2, <1>3, SegmentsOf DEF HeaderSegment
  <2> QED
    BY <2>1
<1>4. CASE byte >= HEADER /\ byte < DataStart
  <2>1. byte - HEADER \in Nat /\ byte - HEADER < A(4)
    <3>1. A(4) \in Nat /\ DataStart = HEADER + A(4)
      BY <1>1, AncillarySums DEF DataStart
    <3> QED
      BY <1>2, <1>4, <3>1
  <2>2. \A k \in 1 .. 4 : Sizes(ancillary)[k] \in Nat /\ Sizes(ancillary)[k] = ancillary[k].cbytes
    BY <1>1, AncillaryFacts
  <2>3. PICK k \in 1 .. 4 : A(k - 1) <= byte - HEADER /\ byte - HEADER < A(k - 1) + Sizes(ancillary)[k]
    <3>1. 4 \in Nat
      OBVIOUS
    <3> QED
      BY <2>1, <2>2, <3>1, SumsCover
  <2>4. A(k - 1) \in Nat /\ k \in Kinds
    <3>1. k - 1 \in 0 .. 4 /\ k \in Kinds
      BY DEF Kinds
    <3> QED
      BY <1>1, <3>1, AncillarySums
  <2>5. ancillary[k] # NoChunk
    <3>1. ancillary[k].cbytes # 0
      BY <2>1, <2>2, <2>3, <2>4
    <3> QED
      BY <3>1 DEF NoChunk
  <2>6. Read64(packed.words, 32 + 8 * k) = HEADER + A(k - 1)
    BY <2>4, <2>5, AncillaryPlaced
  <2>7. byte - (HEADER + A(k - 1)) \in 0 .. ancillary[k].cbytes - 1
    <3>1. \A b, h, t, z \in Nat : t <= b - h /\ b - h < t + z => b - (h + t) \in 0 .. z - 1
      OBVIOUS
    <3>2. ancillary[k].cbytes \in Nat /\ A(k - 1) <= byte - HEADER
          /\ byte - HEADER < A(k - 1) + ancillary[k].cbytes
      BY <2>2, <2>3
    <3> HIDE DEF A
    <3> QED
      BY <1>2, <2>4, <3>1, <3>2
  <2>8. AncillarySegment(k) \in Segments
    BY <2>4, <2>5, SegmentsOf DEF Present
  <2>9. byte - AncillarySegment(k)[1] \in 0 .. AncillarySegment(k)[2] - 1
    BY <2>6, <2>7 DEF AncillarySegment
  <2> QED
    BY <2>8, <2>9
<1>5. CASE byte >= DataStart /\ byte < packed.table
  <2>1. byte - DataStart \in Nat /\ byte - DataStart < S(Len(c))
    <3>1. Len(c) \in 0 .. Len(c)
      BY <1>2
    <3>2. S(Len(c)) \in Nat
      BY <1>1, <3>1, ChunkSums
    <3> QED
      BY <1>1, <1>2, <1>5, <3>2
  <2>2. \A i \in 1 .. Len(c) : Sizes(c)[i] \in Nat /\ Sizes(c)[i] = c[i].cbytes
    BY <1>1, ChunkFacts
  <2>3. PICK i \in 1 .. Len(c) : S(i - 1) <= byte - DataStart /\ byte - DataStart < S(i - 1) + Sizes(c)[i]
    BY <1>2, <2>1, <2>2, SumsCover
  <2>4. i \in DOMAIN c
    BY <1>1, ChunkFacts
  <2>5. S(i - 1) \in Nat /\ packed.offsets[i] = DataStart + S(i - 1) /\ c[i].cbytes \in Nat
    BY <2>4, ChunkPlaced
  <2>6. byte - packed.offsets[i] \in 0 .. c[i].cbytes - 1
    BY SMTT(60), <1>2, <2>2, <2>3, <2>5
  <2>7. ChunkSegment(i) \in Segments
    BY <2>4, SegmentsOf
  <2>8. byte - ChunkSegment(i)[1] \in 0 .. ChunkSegment(i)[2] - 1
    BY <2>6 DEF ChunkSegment
  <2> QED
    BY <2>7, <2>8
<1>6. CASE byte >= packed.table
  <2>1. byte - packed.table \in 0 .. POINTER * Len(c) - 1
    BY SMTT(60), <1>1, <1>2, <1>6 DEF POINTER
  <2>2. TableSegment \in Segments
    BY SegmentsOf
  <2> QED
    BY <2>1, <2>2 DEF TableSegment
<1> QED
  BY <1>2, <1>3, <1>4, <1>5, <1>6

(* The header, the special chunks at the offsets the header has for them,   *)
(* the chunks and the table fill the buffer and no two of them overlap      *)
(* (blosc2_pack_schunk, schunk.c:201-252, and its assertion at 246).        *)
THEOREM PackingApart == Spec => []PackedApart
<1>1. SchunkInv => PackedApart
  <2> SUFFICES ASSUME SchunkInv, packed.state = "packed" PROVE PackedApart
    BY DEF PackedApart
  <2>1. \A a, b \in Segments : a # b => Apart(a, b)
    BY SegmentsApart
  <2>2. ASSUME NEW a \in Segments PROVE a[1] >= 0 /\ a[1] + a[2] <= packed.length
    <3>1. \/ Within(a, 0, HEADER) \/ Within(a, HEADER, DataStart)
          \/ Within(a, DataStart, packed.table) \/ Within(a, packed.table, packed.length)
      BY SegmentsOf, SegmentsWithin
    <3>2. /\ HEADER \in Nat /\ DataStart \in Nat /\ packed.table \in Nat /\ packed.length \in Nat
          /\ HEADER <= DataStart /\ DataStart <= packed.table /\ packed.table <= packed.length
      BY PackedNumbers
    <3> QED
      BY <3>1, <3>2 DEF Within
  <2>3. \A byte \in 0 .. packed.length - 1 : \E a \in Segments : byte - a[1] \in 0 .. a[2] - 1
    BY SegmentsCover
  <2> QED
    BY <2>1, <2>2, <2>3 DEF PackedApart
<1> QED
  BY <1>1, SchunkKept, PTL
=============================================================================
