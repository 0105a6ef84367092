---------------------------- MODULE VectorFilters ----------------------------
(***************************************************************************)
(* shuffle and bitshuffle with SSE2 and AVX2, shuffle with NEON:           *)
(* shuffle-sse2.c, shuffle-avx2.c, shuffle-neon.c, bitshuffle-sse2.c and   *)
(* bitshuffle-avx2.c.                                                      *)
(*                                                                         *)
(* A register is a function of its w bytes, 16 for SSE2, 32 for AVX2 and 8 *)
(* or 16 for NEON, an array of registers one of 0 .. n - 1.  All run the   *)
(* same kind of network of unpack instructions, which work in lanes of at  *)
(* most 16 bytes; AVX2 adds the permutations that cross its two lanes.     *)
(***************************************************************************)
EXTENDS GenericFilters, Sequences

Lane == 16
RoundedDown(n, m) == n - (n % m)
Register(w, f(_)) == [i \in 0 .. w - 1 |-> f(i)]
Load(buf, at, w) == LET At(i) == buf[at + i] IN Register(w, At)
Map(x, f(_)) == [k \in DOMAIN x |-> f(x[k])]
-----------------------------------------------------------------------------
(* Instructions *)

\* unpacklo (hi = 0) and unpackhi of units of u bytes, both halves of vzip
Unpack(u, hi, a, b) ==
  LET half == IF Lane - 1 \in DOMAIN a THEN Lane \div 2 ELSE Lane \div 4
  IN [i \in DOMAIN a |->
        LET q == (i % (2 * half)) \div u
            from == 2 * half * (i \div (2 * half)) + half * hi + u * (q \div 2) + (i % u)
        IN IF q % 2 = 0 THEN a[from] ELSE b[from]]

\* shuffle_epi8, shuffle_epi32, shufflelo and shufflehi_epi16, permute4x64,
\* permutevar8x32: units of u bytes in a new order in every group of g bytes
Permute(a, g, u, order) ==
  [i \in DOMAIN a |-> a[g * (i \div g) + u * order[(i % g) \div u + 1] + (i % u)]]

D8 == <<0, 2, 1, 3>>
X4E == <<2, 3, 0, 1>>
X8D == <<1, 3, 0, 2>>
X72 == <<2, 0, 3, 1>>
EvenOdd == <<0, 2, 4, 6, 8, 10, 12, 14, 1, 3, 5, 7, 9, 11, 13, 15>>
Zipped == <<0, 8, 1, 9, 2, 10, 3, 11, 4, 12, 5, 13, 6, 14, 7, 15>>

\* permute2x128 and blend: the lane h of a, then of b
Halves(a, b, h, g) == [i \in DOMAIN a |-> IF i < Lane THEN a[Lane * h + i] ELSE b[Lane * g + i - Lane]]

\* slli_epi16 by 1 and movemask_epi8
Slli(a) ==
  [i \in DOMAIN a |->
     [p \in 0 .. 7 |-> IF p > 0 THEN a[i][p - 1] ELSE IF i % 2 = 1 THEN a[i - 1][7] ELSE {}]]
MoveMask(a, w) == [b \in 0 .. w \div 8 - 1 |-> [p \in 0 .. 7 |-> a[8 * b + p][7]]]

\* bt of the eight rounds of a loop over the bits, from the highest one on
Bits(a, w) ==
  LET shifted[kk \in 0 .. 7] == IF kk = 0 THEN a ELSE Slli(shifted[kk - 1])
  IN [kk \in 0 .. 7 |-> MoveMask(shifted[kk], w)]
-----------------------------------------------------------------------------
(* Networks *)

\* unpacklo and unpackhi of registers s apart, side by side
Interleave(x, u, s) ==
  [m \in DOMAIN x |->
     LET k == m \div 2
         l == k + (k \div s) * s
     IN Unpack(u, m % 2, x[l], x[l + s])]

\* The low halves, then the high halves of neighbours, in groups of g
Separate(x, u, g) ==
  [m \in DOMAIN x |->
     LET l == g * (m \div g) + 2 * (m % (g \div 2))
     IN Unpack(u, (m % g) \div (g \div 2), x[l], x[l + 1])]

Transpose2(x) ==     \* sse2
  LET Bytes(a) ==
        LET b == Permute(Permute(a, 8, 2, D8), 16, 4, D8)
            c == Permute(Unpack(1, 0, b, Permute(b, 16, 4, X4E)), 16, 4, D8)
        IN Permute(Unpack(2, 0, c, Permute(c, 16, 4, X4E)), 16, 4, D8)
  IN Interleave(Map(x, Bytes), 8, 1)

Transpose2Lanes(x) ==     \* avx2
  LET y0 == Permute(Permute(x[0], 16, 1, EvenOdd), 32, 8, D8)
      y1 == Permute(Permute(x[1], 16, 1, EvenOdd), 32, 8, X8D)
  IN [k \in 0 .. 1 |-> IF k = 0 THEN Halves(y0, y1, 0, 1)
                       ELSE Permute(Halves(y1, y0, 0, 1), 32, 8, X4E)]

Transpose4(x) ==
  LET Bytes(a) ==
        LET b == Unpack(1, 0, Permute(a, 16, 4, D8), Permute(a, 16, 4, X8D))
        IN Unpack(2, 0, b, Permute(b, 16, 4, X4E))
  IN Interleave(Interleave(Map(x, Bytes), 4, 1), 8, 2)

Transpose8(x) ==
  LET Bytes(a) == Unpack(1, 0, a, Permute(a, 16, 4, X4E))
  IN Interleave(Interleave(Interleave(Map(x, Bytes), 2, 1), 4, 2), 8, 4)

Transpose16(x) == Interleave(Interleave(Interleave(Interleave(x, 1, 1), 2, 2), 4, 4), 8, 8)

\* What avx2 does after the network, across the lanes
LanesApart(typesize, a) == a
JoinLanes(typesize, a) ==
  CASE typesize = 4 -> Permute(a, 32, 4, <<0, 4, 1, 5, 2, 6, 3, 7>>)
    [] typesize = 8 -> Unpack(2, 0, Permute(a, 32, 8, D8), Permute(a, 32, 8, X72))
    [] OTHER -> Permute(Permute(a, 32, 8, D8), 16, 1, Zipped)

\* Registers of w elements, one for every byte of the type
Transpose(typesize, w, x) ==
  LET y == CASE typesize = 4 -> Transpose4(x) [] typesize = 8 -> Transpose8(x)
             [] OTHER -> Transpose16(x)
      Join(a) == JoinLanes(typesize, a)
  IN IF typesize = 2 THEN IF w = 16 THEN Transpose2(x) ELSE Transpose2Lanes(x)
     ELSE IF w = 16 THEN y ELSE Map(y, Join)

\* The registers of unshuffle in the order in which they are stored
AsComputed(x, order) == x
Reordered(x, order) == [k \in DOMAIN x |-> x[order[k + 1]]]

Order4 == D8
Order8 == <<0, 4, 2, 6, 1, 5, 3, 7>>
Order16 == <<0, 8, 4, 12, 2, 10, 6, 14, 1, 9, 5, 13, 3, 11, 7, 15>>
Order8Lanes == <<0, 2, 1, 3, 4, 6, 5, 7>>
Order16Lanes == <<0, 4, 2, 6, 1, 5, 3, 7, 8, 12, 10, 14, 9, 13, 11, 15>>

\* avx2: the low lanes of registers half apart, then the high ones
SplitLanes(x, half) ==
  [k \in DOMAIN x |-> LET j == k % half h == k \div half IN Halves(x[j], x[j + half], h, h)]

Untranspose(typesize, w, x) ==
  LET Crossed(a) == Permute(a, 32, 8, D8)
      pairs == Separate(x, 1, typesize)
      quads == Separate(pairs, 2, typesize)
      all == Separate(Separate(quads, 4, 16), 8, 16)
  IN CASE typesize = 2 -> IF w = 16 THEN pairs ELSE Separate(Map(x, Crossed), 1, 2)
       [] typesize = 4 -> IF w = 16 THEN Reordered(quads, Order4) ELSE SplitLanes(quads, 2)
       [] typesize = 8 -> IF w = 16 THEN Reordered(Separate(quads, 4, 8), Order8)
                          ELSE Reordered(Separate(Map(quads, Crossed), 4, 8), Order8Lanes)
       [] OTHER -> IF w = 16 THEN Reordered(all, Order16)
                   ELSE Reordered(SplitLanes(all, 8), Order16Lanes)
-----------------------------------------------------------------------------
(* shuffle and unshuffle *)

\* A type of more than 16 bytes is taken 16 at a time.  The first step is
\* shorter; of two that write the same byte the later one, at the larger
\* offset_into_type, remains.
TileWidth(typesize) == IF typesize > Lane THEN Lane ELSE typesize
OffsetIntoType(typesize, byte) ==
  LET rem == typesize % Lane
  IN IF typesize <= Lane \/ byte < rem THEN 0 ELSE byte - ((byte - rem) % Lane)

\* Registers of the w elements from element j on, at offset o into the type
LoadElements(src, typesize, w, j, o) ==
  IF typesize <= Lane THEN [k \in 0 .. typesize - 1 |-> Load(src, j * typesize + k * w, w)]
  ELSE [k \in 0 .. Lane - 1 |->
          LET perReg == w \div Lane
              At(i) == src[(j + k * perReg + i \div Lane) * typesize + o + (i % Lane)]
          IN Register(w, At)]

Vectorized(typesize, w, n) == n >= typesize * w /\ (typesize \in {2, 4, 8, 16} \/ typesize > Lane)

\* The loops over the steps of w elements; Regs(j, o) are the registers
\* stored for the elements from j on, at offset o into the type.
Steps(typesize, w, n) == {w * t : t \in 0 .. n \div (typesize * w) - 1}
Offsets(typesize) == {OffsetIntoType(typesize, b) : b \in 0 .. typesize - 1}

ShuffleSteps(w, typesize, n, src, dest, Regs(_, _)) ==
  LET ne == Elements(typesize, n)
      bytes == RoundedDown(n, typesize * w)
      regs == [j \in Steps(typesize, w, n) |-> [o \in Offsets(typesize) |-> Regs(j, o)]]
      Write(k) ==
        LET i == k % ne
            byte == k \div ne
            o == OffsetIntoType(typesize, byte)
        IN IF i < bytes \div typesize THEN regs[RoundedDown(i, w)][o][byte - o][i % w] ELSE dest[k]
      done == Stored(dest, 0 .. ne * typesize - 1, Write)
  IN IF bytes < n THEN shuffle_generic_inline(typesize, bytes, n, src, done) ELSE done

UnshuffleSteps(w, typesize, n, src, dest, Regs(_, _)) ==
  LET bytes == RoundedDown(n, typesize * w)
      regs == [j \in Steps(typesize, w, n) |-> [o \in Offsets(typesize) |-> Regs(j, o)]]
      Write(k) ==
        LET i == k \div typesize
            o == OffsetIntoType(typesize, k % typesize)
            at == (i % w) * TileWidth(typesize) + (k % typesize) - o   \* register after register
        IN regs[RoundedDown(i, w)][o][at \div w][at % w]
      done == Stored(dest, 0 .. bytes - 1, Write)
  IN IF bytes < n THEN unshuffle_generic_inline(typesize, bytes, n, src, done) ELSE done

\* The registers that unshuffle loads: one for every byte of the type
Rows(src, typesize, w, n, j, o) ==
  [k \in 0 .. TileWidth(typesize) - 1 |-> Load(src, j + Elements(typesize, n) * (o + k), w)]

shuffle_vector(w, typesize, n, src, dest) ==
  LET Regs(j, o) == Transpose(TileWidth(typesize), w, LoadElements(src, typesize, w, j, o))
  IN IF Vectorized(typesize, w, n) THEN ShuffleSteps(w, typesize, n, src, dest, Regs)
     ELSE shuffle_generic_inline(typesize, 0, n, src, dest)

unshuffle_vector(w, typesize, n, src, dest) ==
  LET Regs(j, o) == Untranspose(TileWidth(typesize), w, Rows(src, typesize, w, n, j, o))
  IN IF Vectorized(typesize, w, n) THEN UnshuffleSteps(w, typesize, n, src, dest, Regs)
     ELSE unshuffle_generic_inline(typesize, 0, n, src, dest)
-----------------------------------------------------------------------------
(* shuffle and unshuffle with NEON; of a type it has no network for,       *)
(* vectorized_chunk_size is not initialized.  If it is not 0, the generic  *)
(* routine goes through the whole block; blocksize % 0 is undefined        *)
(* (shuffle-neon.c:431, 487), and gives blocksize on ARM, whose division   *)
(* by 0 is 0: the generic routine again.                                   *)

NeonWidth(typesize) == IF typesize \in {2, 4} THEN 16 ELSE 8
NeonVectorized(typesize, n) == typesize \in {2, 4, 8, 16} /\ n >= typesize * NeonWidth(typesize)

Neon8(x) == Interleave(Interleave(Interleave(x, 1, 1), 2, 2), 4, 4)

\* vld2q and vld4q take the elements apart as they load them, vst2q and
\* vst4q put them together.
NeonTranspose(typesize, w, x) ==
  LET At(i) == x[i \div w][i % w]
      y == Interleave(Interleave(Interleave(x, 1, 2), 2, 4), 4, 8)
  IN CASE typesize = 8 -> Neon8(x)
       [] typesize = 16 -> y
       [] OTHER -> [k \in 0 .. typesize - 1 |-> [i \in 0 .. w - 1 |-> At(i * typesize + k)]]

NeonUntranspose(typesize, w, x) ==
  LET y == Neon8(x)
  IN CASE typesize = 8 -> y
       [] typesize = 16 -> [k \in 0 .. 15 |-> y[k \div 2 + 8 * (k % 2)]]
       [] OTHER -> [k \in 0 .. typesize - 1 |->
                      [i \in 0 .. w - 1 |-> x[(w * k + i) % typesize][(w * k + i) \div typesize]]]

shuffle_neon(typesize, n, src, dest) ==
  LET w == NeonWidth(typesize)
      Regs(j, o) == NeonTranspose(typesize, w, LoadElements(src, typesize, w, j, o))
  IN IF NeonVectorized(typesize, n) THEN ShuffleSteps(w, typesize, n, src, dest, Regs)
     ELSE shuffle_generic_inline(typesize, 0, n, src, dest)

unshuffle_neon(typesize, n, src, dest) ==
  LET w == NeonWidth(typesize)
      Regs(j, o) == NeonUntranspose(typesize, w, Rows(src, typesize, w, n, j, o))
  IN IF NeonVectorized(typesize, n) THEN UnshuffleSteps(w, typesize, n, src, dest, Regs)
     ELSE unshuffle_generic_inline(typesize, 0, n, src, dest)
-----------------------------------------------------------------------------
(* bitshuffle and bitunshuffle *)

\* trans_byte_elem_SSE_16, _32 and _64
ElemNetwork(elem_size, x) ==
  LET twice == Interleave(Interleave(x, 1, 1), 1, 1)
  IN CASE elem_size = 2 -> Interleave(Interleave(twice, 1, 1), 1, 1)
       [] elem_size = 4 -> Interleave(Interleave(twice, 1, 1), 8, 2)
       [] OTHER -> Interleave(Interleave(twice, 4, 2), 8, 4)

trans_byte_elem_SSE(in, out, size, elem_size) ==
  LET tiles == [t \in 0 .. size \div 16 - 1 |->
                  ElemNetwork(elem_size, [k \in 0 .. elem_size - 1 |->
                                            Load(in, elem_size * 16 * t + 16 * k, 16)])]
      Write(k) ==
        LET i == k % size
        IN IF i < RoundedDown(size, 16) THEN tiles[i \div 16][k \div size][i % 16] ELSE out[k]
  IN trans_byte_elem_remainder(in, Stored(out, 0 .. size * elem_size - 1, Write),
                               size, elem_size, RoundedDown(size, 16))

\* A larger type is taken apart into pieces of 8 or 4 bytes first.
trans_byte_elem_sse2(in, out, size, elem_size, tmp_buf) ==
  LET piece == IF elem_size % 8 = 0 THEN 8 ELSE 4
      n == elem_size \div piece
      pieces == trans_elem(in, out, size, n, piece)
      bytes == trans_byte_elem_SSE(pieces, tmp_buf, size * n, piece)
      Copy(k) == in[k]
  IN IF elem_size = 1 THEN Stored(out, 0 .. size - 1, Copy)
     ELSE IF elem_size \in {2, 4, 8} THEN trans_byte_elem_SSE(in, out, size, elem_size)
     ELSE IF elem_size % 4 # 0 THEN trans_byte_elem_remainder(in, out, size, elem_size, 0)
     ELSE trans_elem(bytes, pieces, piece, n, size)

trans_bit_byte_vector(w, in, out, nbyte) ==
  LET row == nbyte \div 8
      per == w \div 8
      bits == [t \in 0 .. nbyte \div w - 1 |-> Bits(Load(in, w * t, w), w)]
      Write(k) ==
        LET c == k % row
        IN IF c < per * (nbyte \div w) THEN bits[c \div per][7 - (k \div row)][c % per] ELSE out[k]
  IN trans_bit_byte_remainder(in, Stored(out, 0 .. nbyte - 1, Write), nbyte, RoundedDown(nbyte, w))

trans_bit_elem_vector(w, in, out, size, elem_size, tmp_buf) ==
  LET bytes == trans_byte_elem_sse2(in, out, size, elem_size, tmp_buf)
      bits == trans_bit_byte_vector(w, bytes, tmp_buf, size * elem_size)
  IN trans_bitrow_eight(bits, bytes, size, elem_size)

\* Eight rows of bits, w of their columns; two columns in each register
RowNetwork(in, nbyte_row, w, row, column) ==
  LET x == [k \in 0 .. 7 |-> Load(in, (row + k) * nbyte_row + column, w)]
  IN Separate(Separate(Separate(x, 1, 8), 2, 4), 4, 2)

trans_byte_bitrow_sse2(in, out, size, elem_size) ==
  LET nrows == 8 * elem_size
      nbyte_row == size \div 8
      tiles == [i \in 0 .. elem_size - 1 |-> [t \in 0 .. nbyte_row \div 16 - 1 |->
                  RowNetwork(in, nbyte_row, 16, 8 * i, 16 * t)]]
      Write(k) ==
        LET r == k % nrows
            c == k \div nrows
        IN IF c < RoundedDown(nbyte_row, 16)
           THEN tiles[r \div 8][c \div 16][(c % 16) \div 2][8 * (c % 2) + (r % 8)]
           ELSE in[r * nbyte_row + c]
  IN Stored(out, 0 .. size * elem_size - 1, Write)

trans_byte_bitrow_avx2(in, out, size, elem_size) ==
  LET nrows == 8 * elem_size
      nbyte_row == size \div 8
      storage == [i \in 0 .. elem_size - 1 |-> [t \in 0 .. nbyte_row \div 32 - 1 |->
                    RowNetwork(in, nbyte_row, 32, 8 * i, 32 * t)]]
      tiles == [i \in 0 .. elem_size \div 4 - 1 |-> [t \in 0 .. nbyte_row \div 32 - 1 |-> [m \in 0 .. 7 |->
                  Separate([hh \in 0 .. 3 |-> storage[4 * i + hh][t][m]], 8, 4)]]]
      Write(k) ==
        LET r == k % nrows
            c == k \div nrows
            y == tiles[r \div 32][c \div 32][(c % 16) \div 2]
            h == (c % 32) \div 16
        IN IF c < RoundedDown(nbyte_row, 32)
           THEN Halves(y[2 * (c % 2)], y[2 * (c % 2) + 1], h, h)[r % 32]
           ELSE in[r * nbyte_row + c]
  IN IF elem_size % 4 # 0 THEN trans_byte_bitrow_sse2(in, out, size, elem_size)
     ELSE Stored(out, 0 .. size * elem_size - 1, Write)

\* avx2 leaves types that are no multiple of 4 to sse2, sse2 odd ones to scal
shuffle_bit_eightelem_vector(w, in, out, size, elem_size) ==
  LET v == IF elem_size % 4 # 0 THEN 16 ELSE w
      per == v \div 8
      eight == 8 * elem_size
      bits == [t \in 0 .. (size * elem_size) \div v - 1 |-> Bits(Load(in, v * t, v), v)]
      Write(k) ==
        LET c == k % elem_size
            at == eight * (k \div eight) + v * (c \div per)
        IN bits[at \div v][7 - ((k % eight) \div elem_size)][c % per]
  IN IF elem_size % 2 # 0 THEN shuffle_bit_eightelem_scal(in, out, size, elem_size)
     ELSE Stored(out, 0 .. size * elem_size - 1, Write)

untrans_bit_elem_vector(w, in, out, size, elem_size, tmp_buf) ==
  LET rows == IF w = 16 THEN trans_byte_bitrow_sse2(in, tmp_buf, size, elem_size)
              ELSE trans_byte_bitrow_avx2(in, tmp_buf, size, elem_size)
  IN shuffle_bit_eightelem_vector(w, rows, out, size, elem_size)
=============================================================================
