--------------------------- MODULE GenericFilters ---------------------------
(***************************************************************************)
(* The filters of a block on its bytes, in plain C: shuffle-generic.h,     *)
(* bitshuffle-generic.c, delta.c and trunc-prec.c (little endian).         *)
(*                                                                         *)
(* A bit is the set of the input bits it is the XOR of, so that what holds *)
(* of one input whose bits are all different holds of every input.  A      *)
(* cleared bit is {}.  A byte is a function of 0 .. 7, a buffer one of the *)
(* positions of its bytes; each operator returns the buffer that the loops *)
(* of its function leave in the one they write to.                         *)
(***************************************************************************)
EXTENDS Integers

Xor(a, b) == (a \ b) \cup (b \ a)
XorByte(x, y) == [p \in 0 .. 7 |-> Xor(x[p], y[p])]

\* buf, with the positions in at written as f says
Stored(buf, at, f(_)) == [k \in DOMAIN buf |-> IF k \in at THEN f(k) ELSE buf[k]]
-----------------------------------------------------------------------------
(* shuffle, from the element after the ones vectorized on *)
Elements(typesize, n) == n \div typesize

\* The bytes that are written: the leftover ones are copied.
WholeElements(typesize, n) == 0 .. n - (n % typesize) - 1
BlockBytes(typesize, n) == 0 .. n - 1

shuffle_generic_inline(typesize, vectorized, n, src, dest) ==
  LET ne == Elements(typesize, n)
      Write(k) ==
        IF k >= ne * typesize THEN src[k]
        ELSE IF k % ne >= vectorized \div typesize THEN src[(k % ne) * typesize + k \div ne]
        ELSE dest[k]
  IN Stored(dest, BlockBytes(typesize, n), Write)

unshuffle_generic_inline(typesize, vectorized, n, src, dest) ==
  LET ne == Elements(typesize, n)
      Write(k) ==
        IF k >= ne * typesize THEN src[k]
        ELSE IF k \div typesize >= vectorized \div typesize
        THEN src[(k % typesize) * ne + k \div typesize] ELSE dest[k]
  IN Stored(dest, BlockBytes(typesize, n), Write)
-----------------------------------------------------------------------------
(* The passes of bitshuffle; size is the number of elements *)

trans_byte_elem_remainder(in, out, size, elem_size, start) ==
  LET Write(k) == IF k % size >= start THEN in[(k % size) * elem_size + k \div size] ELSE out[k]
  IN Stored(out, 0 .. size * elem_size - 1, Write)

\* Eight bytes, as one word of 64 bits
Word(buf, at) == [p \in 0 .. 63 |-> buf[at + p \div 8][p % 8]]
ByteOf(word, i) == [p \in 0 .. 7 |-> word[8 * i + p]]

\* A step of TRANS_BIT_8X8 swaps the bits in Mask with those so far above.
Distance(s) == 7 * 2^s

Mask(s) == {p \in 0 .. 63 : (p \div 2^s) % 2 = 1 /\ (p \div (8 * 2^s)) % 2 = 0}

SwapStep(x, s) ==
  LET by == Distance(s)
      t == [p \in 0 .. 63 |-> IF p \in Mask(s) THEN Xor(x[p], x[p + by]) ELSE {}]
  IN [p \in 0 .. 63 |-> Xor(x[p], Xor(t[p], IF p >= by THEN t[p - by] ELSE {}))]

TRANS_BIT_8X8(x) == SwapStep(SwapStep(SwapStep(x, 0), 1), 2)

trans_bit_byte_remainder(in, out, nbyte, start) ==
  LET row == nbyte \div 8
      words == [i \in start \div 8 .. row - 1 |-> TRANS_BIT_8X8(Word(in, 8 * i))]
      Write(k) == IF k % row >= start \div 8 THEN ByteOf(words[k % row], k \div row) ELSE out[k]
  IN Stored(out, 0 .. nbyte - 1, Write)

trans_elem(in, out, lda, ldb, elem_size) ==
  LET Write(k) ==
        LET q == k \div elem_size
        IN in[((q % lda) * ldb + q \div lda) * elem_size + (k % elem_size)]
  IN Stored(out, 0 .. lda * ldb * elem_size - 1, Write)

trans_bitrow_eight(in, out, size, elem_size) == trans_elem(in, out, 8, elem_size, size \div 8)

\* out and tmp_buf, the buffer of the middle pass, begin with what is there.
trans_bit_elem_scal(in, out, size, elem_size, tmp_buf) ==
  LET bytes == trans_byte_elem_remainder(in, out, size, elem_size, 0)
      bits == trans_bit_byte_remainder(bytes, tmp_buf, size * elem_size, 0)
  IN trans_bitrow_eight(bits, bytes, size, elem_size)

trans_byte_bitrow_scal(in, out, size, elem_size) ==
  LET nrows == 8 * elem_size
      Write(k) == in[(k % nrows) * (size \div 8) + k \div nrows]
  IN Stored(out, 0 .. size * elem_size - 1, Write)

shuffle_bit_eightelem_scal(in, out, size, elem_size) ==
  LET eight == 8 * elem_size
      words == [i \in 0 .. (size * elem_size) \div 8 - 1 |-> TRANS_BIT_8X8(Word(in, 8 * i))]
      Write(k) ==
        ByteOf(words[(k \div eight) * elem_size + (k % elem_size)], (k % eight) \div elem_size)
  IN Stored(out, 0 .. size * elem_size - 1, Write)

untrans_bit_elem_scal(in, out, size, elem_size, tmp_buf) ==
  shuffle_bit_eightelem_scal(trans_byte_bitrow_scal(in, tmp_buf, size, elem_size),
                             out, size, elem_size)
-----------------------------------------------------------------------------
(* delta, in words of w bytes *)
DeltaWidth(typesize) ==
  IF typesize \in {1, 2, 4, 8} THEN typesize ELSE IF typesize % 8 = 0 THEN 8 ELSE 1

\* Where the bytes are that delta goes through
DeltaBytes(typesize, n) == 0 .. (n \div DeltaWidth(typesize)) * DeltaWidth(typesize) - 1

delta_encoder(dref, offset, n, typesize, src, dest) ==
  LET w == DeltaWidth(typesize)
      Write(k) ==
        IF offset # 0 THEN XorByte(src[k], dref[k])
        ELSE IF k < w THEN dref[k] ELSE XorByte(src[k], dref[k - w])
  IN Stored(dest, DeltaBytes(typesize, n), Write)

\* The reference block is decoded in place: dref is dest, and has been
\* decoded up to the word before.
delta_decoder(dref, offset, n, typesize, dest) ==
  LET w == DeltaWidth(typesize)
      decoded[k \in DOMAIN dest] == IF k < w THEN dest[k] ELSE XorByte(dest[k], decoded[k - w])
      Write(k) == IF offset # 0 THEN XorByte(dest[k], dref[k]) ELSE decoded[k]
  IN Stored(dest, DeltaBytes(typesize, n), Write)
-----------------------------------------------------------------------------
(* trunc_prec, of floats and doubles *)
Mantissa(typesize) == IF typesize = 4 THEN 23 ELSE 52   \* BITS_MANTISSA

truncate_precision(prec_bits, typesize, n, src, dest) ==
  LET zeroed == Mantissa(typesize) - prec_bits
      Write(k) == [p \in 0 .. 7 |-> IF 8 * (k % typesize) + p < zeroed THEN {} ELSE src[k][p]]
  IN Stored(dest, 0 .. Elements(typesize, n) * typesize - 1, Write)
=============================================================================
