-------------------------- MODULE ByteFiltersProofs --------------------------
(***************************************************************************)
(* ByteFilters for any number of elements of any size and any bytes after  *)
(* them: every implementation of shuffle and bitshuffle, the networks of   *)
(* SSE2, AVX2 and NEON among them, computes the transposition that the     *)
(* format is made of, so that each undoes what any other did.              *)
(***************************************************************************)
EXTENDS ByteFilters, WellFoundedInduction, TLAPS

-----------------------------------------------------------------------------
(* Registers.  Byte i of register m is Entry(x, m, i); i and m are written *)
(* in bits, Number(z, a, b, c, d), z the lane of sixteen bytes.  An        *)
(* instruction that moves whole units then moves bits of the two numbers   *)
(* from place to place, whatever the bytes are, and so does a network.     *)

Bit == 0 .. 1
Number(z, a, b, c, d) == 16 * z + 8 * a + 4 * b + 2 * c + d
Item(r, i) == r[i]
Entry(x, m, i) == x[m][i]
Below(n) == 0 .. n - 1
Units == {1, 2, 4, 8}
Widths == {16, 32}
Stride(s, n) == s \in {1, 2, 4, 8} /\ 2 * s <= n
Group(g, n) == g \in {2, 4, 8, 16} /\ g <= n
Lanes(w) == 0 .. w \div 16 - 1
IsRegister(x, w) == DOMAIN x = 0 .. w - 1
Registers(x, n, w) == n \in {2, 4, 8, 16} /\ DOMAIN x = 0 .. n - 1 /\ \A m \in 0 .. n - 1 : IsRegister(x[m], w)

Address(n, w, a, b, c, d, z, e, f, g, h) ==
  /\ w \in Widths /\ z \in Lanes(w) /\ a \in Bit /\ b \in Bit /\ c \in Bit /\ d \in Bit
  /\ e \in Bit /\ f \in Bit /\ g \in Bit /\ h \in Bit /\ Number(0, a, b, c, d) \in Below(n)

\* Units of one, two, four and eight bytes
LEMMA Unpack1 ==
  ASSUME NEW w \in Widths, NEW x, IsRegister(x, w), NEW y, NEW hi \in Bit,
         NEW z \in Lanes(w), NEW a \in Bit, NEW b \in Bit, NEW c \in Bit, NEW d \in Bit
  PROVE  Item(Unpack(1, hi, x, y), Number(z, a, b, c, d)) = Item(IF d = 0 THEN x ELSE y, Number(z, hi, a, b, c))
<1> DEFINE i == Number(z, a, b, c, d)
           q == (i % 16) \div 1
           from == 16 * (i \div 16) + 8 * hi + 1 * (q \div 2) + (i % 1)
<1>1. z \in Bit /\ 15 \in DOMAIN x /\ i \in DOMAIN x
  BY DEF Number, Bit, Widths, Lanes, IsRegister
<1>2. Unpack(1, hi, x, y)[i] = IF q % 2 = 0 THEN x[from] ELSE y[from]
  BY <1>1 DEF Unpack, Lane
<1>3. q % 2 = d /\ from = Number(z, hi, a, b, c)
  BY <1>1 DEF Number, Bit
<1> QED
  BY <1>2, <1>3 DEF Item

LEMMA Unpack2 ==
  ASSUME NEW w \in Widths, NEW x, IsRegister(x, w), NEW y, NEW hi \in Bit,
         NEW z \in Lanes(w), NEW a \in Bit, NEW b \in Bit, NEW c \in Bit, NEW d \in Bit
  PROVE  Item(Unpack(2, hi, x, y), Number(z, a, b, c, d)) = Item(IF c = 0 THEN x ELSE y, Number(z, hi, a, b, d))
<1> DEFINE i == Number(z, a, b, c, d)
           q == (i % 16) \div 2
           from == 16 * (i \div 16) + 8 * hi + 2 * (q \div 2) + (i % 2)
<1>1. z \in Bit /\ 15 \in DOMAIN x /\ i \in DOMAIN x
  BY DEF Number, Bit, Widths, Lanes, IsRegister
<1>2. Unpack(2, hi, x, y)[i] = IF q % 2 = 0 THEN x[from] ELSE y[from]
  BY <1>1 DEF Unpack, Lane
<1>3. q % 2 = c /\ from = Number(z, hi, a, b, d)
  BY <1>1 DEF Number, Bit
<1> QED
  BY <1>2, <1>3 DEF Item

LEMMA Unpack4 ==
  ASSUME NEW w \in Widths, NEW x, IsRegister(x, w), NEW y, NEW hi \in Bit,
         NEW z \in Lanes(w), NEW a \in Bit, NEW b \in Bit, NEW c \in Bit, NEW d \in Bit
  PROVE  Item(Unpack(4, hi, x, y), Number(z, a, b, c, d)) = Item(IF b = 0 THEN x ELSE y, Number(z, hi, a, c, d))
<1> DEFINE i == Number(z, a, b, c, d)
           q == (i % 16) \div 4
           from == 16 * (i \div 16) + 8 * hi + 4 * (q \div 2) + (i % 4)
<1>1. z \in Bit /\ 15 \in DOMAIN x /\ i \in DOMAIN x
  BY DEF Number, Bit, Widths, Lanes, IsRegister
<1>2. Unpack(4, hi, x, y)[i] = IF q % 2 = 0 THEN x[from] ELSE y[from]
  BY <1>1 DEF Unpack, Lane
<1>3. q % 2 = b /\ from = Number(z, hi, a, c, d)
  BY <1>1 DEF Number, Bit
<1> QED
  BY <1>2, <1>3 DEF Item

LEMMA Unpack8 ==
  ASSUME NEW w \in Widths, NEW x, IsRegister(x, w), NEW y, NEW hi \in Bit,
         NEW z \in Lanes(w), NEW a \in Bit, NEW b \in Bit, NEW c \in Bit, NEW d \in Bit
  PROVE  Item(Unpack(8, hi, x, y), Number(z, a, b, c, d)) = Item(IF a = 0 THEN x ELSE y, Number(z, hi, b, c, d))
<1> DEFINE i == Number(z, a, b, c, d)
           q == (i % 16) \div 8
           from == 16 * (i \div 16) + 8 * hi + 8 * (q \div 2) + (i % 8)
<1>1. z \in Bit /\ 15 \in DOMAIN x /\ i \in DOMAIN x
  BY DEF Number, Bit, Widths, Lanes, IsRegister
<1>2. Unpack(8, hi, x, y)[i] = IF q % 2 = 0 THEN x[from] ELSE y[from]
  BY <1>1 DEF Unpack, Lane
<1>3. q % 2 = a /\ from = Number(z, hi, b, c, d)
  BY <1>1 DEF Number, Bit
<1> QED
  BY <1>2, <1>3 DEF Item

\* Interleave of registers s apart, in units of one to eight bytes: the bit
\* of the register that was s apart is now the one of the unit.
LEMMA Interleave1 ==
  ASSUME NEW n, NEW w, NEW x, Registers(x, n, w), Stride(1, n), NEW a, NEW b, NEW c, NEW d,
         NEW z, NEW e, NEW f, NEW g, NEW h, Address(n, w, a, b, c, d, z, e, f, g, h)
  PROVE  /\ Entry(Interleave(x, 1, 1), Number(0, a, b, c, d), Number(z, e, f, g, h))
              = Entry(x, Number(0, a, b, c, h), Number(z, d, e, f, g))
         /\ Entry(Interleave(x, 2, 1), Number(0, a, b, c, d), Number(z, e, f, g, h))
              = Entry(x, Number(0, a, b, c, g), Number(z, d, e, f, h))
         /\ Entry(Interleave(x, 4, 1), Number(0, a, b, c, d), Number(z, e, f, g, h))
              = Entry(x, Number(0, a, b, c, f), Number(z, d, e, g, h))
         /\ Entry(Interleave(x, 8, 1), Number(0, a, b, c, d), Number(z, e, f, g, h))
              = Entry(x, Number(0, a, b, c, e), Number(z, d, f, g, h))
<1> DEFINE m == Number(0, a, b, c, d)
           k == m \div 2
           l == k + (k \div 1) * 1
<1> /\ w \in Widths /\ z \in Lanes(w) /\ a \in Bit /\ b \in Bit /\ c \in Bit /\ d \in Bit
    /\ e \in Bit /\ f \in Bit /\ g \in Bit /\ h \in Bit /\ Number(0, a, b, c, d) \in Below(n)
  BY DEF Address
<1>1. m \in DOMAIN x
  BY DEF Number, Bit, Below, Widths, Registers
<1>2. /\ m % 2 = d /\ l = Number(0, a, b, c, 0) /\ l + 1 = Number(0, a, b, c, 1)
      /\ l \in 0 .. n - 1
  BY DEF Number, Bit, Below, Registers, Stride, Group
<1>3. \A v : Interleave(x, v, 1)[m] = Unpack(v, d, x[Number(0, a, b, c, 0)], x[Number(0, a, b, c, 1)])
  BY <1>1, <1>2 DEF Interleave
<1>4. IsRegister(x[Number(0, a, b, c, 0)], w)
  BY <1>2 DEF Registers
<1> DEFINE X == x[Number(0, a, b, c, 0)]
           Y == x[Number(0, a, b, c, 1)]
           i == Number(z, e, f, g, h)
<1> HIDE DEF m, X, Y
<1>5. Item(Interleave(x, 1, 1)[m], i) = Item(IF h = 0 THEN X ELSE Y, Number(z, d, e, f, g))
  BY <1>3, <1>4, Unpack1 DEF X, Y
<1>6. Item(Interleave(x, 2, 1)[m], i) = Item(IF g = 0 THEN X ELSE Y, Number(z, d, e, f, h))
  BY <1>3, <1>4, Unpack2 DEF X, Y
<1>7. Item(Interleave(x, 4, 1)[m], i) = Item(IF f = 0 THEN X ELSE Y, Number(z, d, e, g, h))
  BY <1>3, <1>4, Unpack4 DEF X, Y
<1>8. Item(Interleave(x, 8, 1)[m], i) = Item(IF e = 0 THEN X ELSE Y, Number(z, d, f, g, h))
  BY <1>3, <1>4, Unpack8 DEF X, Y
<1>9. \A p \in Bit : (IF p = 0 THEN X ELSE Y) = x[Number(0, a, b, c, p)]
  BY DEF Bit, X, Y
<1> QED
  BY <1>5, <1>6, <1>7, <1>8, <1>9 DEF m, Entry, Item

LEMMA Interleave2 ==
  ASSUME NEW n, NEW w, NEW x, Registers(x, n, w), Stride(2, n), NEW a, NEW b, NEW c, NEW d,
         NEW z, NEW e, NEW f, NEW g, NEW h, Address(n, w, a, b, c, d, z, e, f, g, h)
  PROVE  /\ Entry(Interleave(x, 1, 2), Number(0, a, b, c, d), Number(z, e, f, g, h))
              = Entry(x, Number(0, a, b, h, c), Number(z, d, e, f, g))
         /\ Entry(Interleave(x, 2, 2), Number(0, a, b, c, d), Number(z, e, f, g, h))
              = Entry(x, Number(0, a, b, g, c), Number(z, d, e, f, h))
         /\ Entry(Interleave(x, 4, 2), Number(0, a, b, c, d), Number(z, e, f, g, h))
              = Entry(x, Number(0, a, b, f, c), Number(z, d, e, g, h))
         /\ Entry(Interleave(x, 8, 2), Number(0, a, b, c, d), Number(z, e, f, g, h))
              = Entry(x, Number(0, a, b, e, c), Number(z, d, f, g, h))
<1> DEFINE m == Number(0, a, b, c, d)
           k == m \div 2
           l == k + (k \div 2) * 2
<1> /\ w \in Widths /\ z \in Lanes(w) /\ a \in Bit /\ b \in Bit /\ c \in Bit /\ d \in Bit
    /\ e \in Bit /\ f \in Bit /\ g \in Bit /\ h \in Bit /\ Number(0, a, b, c, d) \in Below(n)
  BY DEF Address
<1>1. m \in DOMAIN x
  BY DEF Number, Bit, Below, Widths, Registers
<1>2. /\ m % 2 = d /\ l = Number(0, a, b, 0, c) /\ l + 2 = Number(0, a, b, 1, c)
      /\ l \in 0 .. n - 1
  BY DEF Number, Bit, Below, Registers, Stride, Group
<1>3. \A v : Interleave(x, v, 2)[m] = Unpack(v, d, x[Number(0, a, b, 0, c)], x[Number(0, a, b, 1, c)])
  BY <1>1, <1>2 DEF Interleave
<1>4. IsRegister(x[Number(0, a, b, 0, c)], w)
  BY <1>2 DEF Registers
<1> DEFINE X == x[Number(0, a, b, 0, c)]
           Y == x[Number(0, a, b, 1, c)]
           i == Number(z, e, f, g, h)
<1> HIDE DEF m, X, Y
<1>5. Item(Interleave(x, 1, 2)[m], i) = Item(IF h = 0 THEN X ELSE Y, Number(z, d, e, f, g))
  BY <1>3, <1>4, Unpack1 DEF X, Y
<1>6. Item(Interleave(x, 2, 2)[m], i) = Item(IF g = 0 THEN X ELSE Y, Number(z, d, e, f, h))
  BY <1>3, <1>4, Unpack2 DEF X, Y
<1>7. Item(Interleave(x, 4, 2)[m], i) = Item(IF f = 0 THEN X ELSE Y, Number(z, d, e, g, h))
  BY <1>3, <1>4, Unpack4 DEF X, Y
<1>8. Item(Interleave(x, 8, 2)[m], i) = Item(IF e = 0 THEN X ELSE Y, Number(z, d, f, g, h))
  BY <1>3, <1>4, Unpack8 DEF X, Y
<1>9. \A p \in Bit : (IF p = 0 THEN X ELSE Y) = x[Number(0, a, b, p, c)]
  BY DEF Bit, X, Y
<1> QED
  BY <1>5, <1>6, <1>7, <1>8, <1>9 DEF m, Entry, Item

LEMMA Interleave4 ==
  ASSUME NEW n, NEW w, NEW x, Registers(x, n, w), Stride(4, n), NEW a, NEW b, NEW c, NEW d,
         NEW z, NEW e, NEW f, NEW g, NEW h, Address(n, w, a, b, c, d, z, e, f, g, h)
  PROVE  /\ Entry(Interleave(x, 1, 4), Number(0, a, b, c, d), Number(z, e, f, g, h))
              = Entry(x, Number(0, a, h, b, c), Number(z, d, e, f, g))
         /\ Entry(Interleave(x, 2, 4), Number(0, a, b, c, d), Number(z, e, f, g, h))
              = Entry(x, Number(0, a, g, b, c), Number(z, d, e, f, h))
         /\ Entry(Interleave(x, 4, 4), Number(0, a, b, c, d), Number(z, e, f, g, h))
              = Entry(x, Number(0, a, f, b, c), Number(z, d, e, g, h))
         /\ Entry(Interleave(x, 8, 4), Number(0, a, b, c, d), Number(z, e, f, g, h))
              = Entry(x, Number(0, a, e, b, c), Number(z, d, f, g, h))
<1> DEFINE m == Number(0, a, b, c, d)
           k == m \div 2
           l == k + (k \div 4) * 4
<1> /\ w \in Widths /\ z \in Lanes(w) /\ a \in Bit /\ b \in Bit /\ c \in Bit /\ d \in Bit
    /\ e \in Bit /\ f \in Bit /\ g \in Bit /\ h \in Bit /\ Number(0, a, b, c, d) \in Below(n)
  BY DEF Address
<1>1. m \in DOMAIN x
  BY DEF Number, Bit, Below, Widths, Registers
<1>2. /\ m % 2 = d /\ l = Number(0, a, 0, b, c) /\ l + 4 = Number(0, a, 1, b, c)
      /\ l \in 0 .. n - 1
  BY DEF Number, Bit, Below, Registers, Stride, Group
<1>3. \A v : Interleave(x, v, 4)[m] = Unpack(v, d, x[Number(0, a, 0, b, c)], x[Number(0, a, 1, b, c)])
  BY <1>1, <1>2 DEF Interleave
<1>4. IsRegister(x[Number(0, a, 0, b, c)], w)
  BY <1>2 DEF Registers
<1> DEFINE X == x[Number(0, a, 0, b, c)]
           Y == x[Number(0, a, 1, b, c)]
           i == Number(z, e, f, g, h)
<1> HIDE DEF m, X, Y
<1>5. Item(Interleave(x, 1, 4)[m], i) = Item(IF h = 0 THEN X ELSE Y, Number(z, d, e, f, g))
  BY <1>3, <1>4, Unpack1 DEF X, Y
<1>6. Item(Interleave(x, 2, 4)[m], i) = Item(IF g = 0 THEN X ELSE Y, Number(z, d, e, f, h))
  BY <1>3, <1>4, Unpack2 DEF X, Y
<1>7. Item(Interleave(x, 4, 4)[m], i) = Item(IF f = 0 THEN X ELSE Y, Number(z, d, e, g, h))
  BY <1>3, <1>4, Unpack4 DEF X, Y
<1>8. Item(Interleave(x, 8, 4)[m], i) = Item(IF e = 0 THEN X ELSE Y, Number(z, d, f, g, h))
  BY <1>3, <1>4, Unpack8 DEF X, Y
<1>9. \A p \in Bit : (IF p = 0 THEN X ELSE Y) = x[Number(0, a, p, b, c)]
  BY DEF Bit, X, Y
<1> QED
  BY <1>5, <1>6, <1>7, <1>8, <1>9 DEF m, Entry, Item

LEMMA Interleave8 ==
  ASSUME NEW n, NEW w, NEW x, Registers(x, n, w), Stride(8, n), NEW a, NEW b, NEW c, NEW d,
         NEW z, NEW e, NEW f, NEW g, NEW h, Address(n, w, a, b, c, d, z, e, f, g, h)
  PROVE  /\ Entry(Interleave(x, 1, 8), Number(0, a, b, c, d), Number(z, e, f, g, h))
              = Entry(x, Number(0, h, a, b, c), Number(z, d, e, f, g))
         /\ Entry(Interleave(x, 2, 8), Number(0, a, b, c, d), Number(z, e, f, g, h))
              = Entry(x, Number(0, g, a, b, c), Number(z, d, e, f, h))
         /\ Entry(Interleave(x, 4, 8), Number(0, a, b, c, d), Number(z, e, f, g, h))
              = Entry(x, Number(0, f, a, b, c), Number(z, d, e, g, h))
         /\ Entry(Interleave(x, 8, 8), Number(0, a, b, c, d), Number(z, e, f, g, h))
              = Entry(x, Number(0, e, a, b, c), Number(z, d, f, g, h))
<1> DEFINE m == Number(0, a, b, c, d)
           k == m \div 2
           l == k + (k \div 8) * 8
<1> /\ w \in Widths /\ z \in Lanes(w) /\ a \in Bit /\ b \in Bit /\ c \in Bit /\ d \in Bit
    /\ e \in Bit /\ f \in Bit /\ g \in Bit /\ h \in Bit /\ Number(0, a, b, c, d) \in Below(n)
  BY DEF Address
<1>1. m \in DOMAIN x
  BY DEF Number, Bit, Below, Widths, Registers
<1>2. /\ m % 2 = d /\ l = Number(0, 0, a, b, c) /\ l + 8 = Number(0, 1, a, b, c)
      /\ l \in 0 .. n - 1
  BY DEF Number, Bit, Below, Registers, Stride, Group
<1>3. \A v : Interleave(x, v, 8)[m] = Unpack(v, d, x[Number(0, 0, a, b, c)], x[Number(0, 1, a, b, c)])
  BY <1>1, <1>2 DEF Interleave
<1>4. IsRegister(x[Number(0, 0, a, b, c)], w)
  BY <1>2 DEF Registers
<1> DEFINE X == x[Number(0, 0, a, b, c)]
           Y == x[Number(0, 1, a, b, c)]
           i == Number(z, e, f, g, h)
<1> HIDE DEF m, X, Y
<1>5. Item(Interleave(x, 1, 8)[m], i) = Item(IF h = 0 THEN X ELSE Y, Number(z, d, e, f, g))
  BY <1>3, <1>4, Unpack1 DEF X, Y
<1>6. Item(Interleave(x, 2, 8)[m], i) = Item(IF g = 0 THEN X ELSE Y, Number(z, d, e, f, h))
  BY <1>3, <1>4, Unpack2 DEF X, Y
<1>7. Item(Interleave(x, 4, 8)[m], i) = Item(IF f = 0 THEN X ELSE Y, Number(z, d, e, g, h))
  BY <1>3, <1>4, Unpack4 DEF X, Y
<1>8. Item(Interleave(x, 8, 8)[m], i) = Item(IF e = 0 THEN X ELSE Y, Number(z, d, f, g, h))
  BY <1>3, <1>4, Unpack8 DEF X, Y
<1>9. \A p \in Bit : (IF p = 0 THEN X ELSE Y) = x[Number(0, p, a, b, c)]
  BY DEF Bit, X, Y
<1> QED
  BY <1>5, <1>6, <1>7, <1>8, <1>9 DEF m, Entry, Item

\* Separate in groups of two, four, eight and sixteen
LEMMA Separate2 ==
  ASSUME NEW n, NEW w, NEW x, Registers(x, n, w), Group(2, n), NEW a, NEW b, NEW c, NEW d,
         NEW z, NEW e, NEW f, NEW g, NEW h, Address(n, w, a, b, c, d, z, e, f, g, h)
  PROVE  /\ Entry(Separate(x, 1, 2), Number(0, a, b, c, d), Number(z, e, f, g, h))
              = Entry(x, Number(0, a, b, c, h), Number(z, d, e, f, g))
         /\ Entry(Separate(x, 2, 2), Number(0, a, b, c, d), Number(z, e, f, g, h))
              = Entry(x, Number(0, a, b, c, g), Number(z, d, e, f, h))
         /\ Entry(Separate(x, 4, 2), Number(0, a, b, c, d), Number(z, e, f, g, h))
              = Entry(x, Number(0, a, b, c, f), Number(z, d, e, g, h))
         /\ Entry(Separate(x, 8, 2), Number(0, a, b, c, d), Number(z, e, f, g, h))
              = Entry(x, Number(0, a, b, c, e), Number(z, d, f, g, h))
<1> DEFINE m == Number(0, a, b, c, d)
           l == 2 * (m \div 2) + 2 * (m % (2 \div 2))
<1> /\ w \in Widths /\ z \in Lanes(w) /\ a \in Bit /\ b \in Bit /\ c \in Bit /\ d \in Bit
    /\ e \in Bit /\ f \in Bit /\ g \in Bit /\ h \in Bit /\ Number(0, a, b, c, d) \in Below(n)
  BY DEF Address
<1>1. m \in DOMAIN x
  BY DEF Number, Bit, Below, Widths, Registers
<1>2. /\ (m % 2) \div (2 \div 2) = d /\ l = Number(0, a, b, c, 0) /\ l + 1 = Number(0, a, b, c, 1)
      /\ l \in 0 .. n - 1
  BY DEF Number, Bit, Below, Registers, Stride, Group
<1>3. \A v : Separate(x, v, 2)[m] = Unpack(v, d, x[Number(0, a, b, c, 0)], x[Number(0, a, b, c, 1)])
  BY <1>1, <1>2 DEF Separate
<1>4. IsRegister(x[Number(0, a, b, c, 0)], w)
  BY <1>2 DEF Registers
<1> DEFINE X == x[Number(0, a, b, c, 0)]
           Y == x[Number(0, a, b, c, 1)]
           i == Number(z, e, f, g, h)
<1> HIDE DEF m, X, Y
<1>5. Item(Separate(x, 1, 2)[m], i) = Item(IF h = 0 THEN X ELSE Y, Number(z, d, e, f, g))
  BY <1>3, <1>4, Unpack1 DEF X, Y
<1>6. Item(Separate(x, 2, 2)[m], i) = Item(IF g = 0 THEN X ELSE Y, Number(z, d, e, f, h))
  BY <1>3, <1>4, Unpack2 DEF X, Y
<1>7. Item(Separate(x, 4, 2)[m], i) = Item(IF f = 0 THEN X ELSE Y, Number(z, d, e, g, h))
  BY <1>3, <1>4, Unpack4 DEF X, Y
<1>8. Item(Separate(x, 8, 2)[m], i) = Item(IF e = 0 THEN X ELSE Y, Number(z, d, f, g, h))
  BY <1>3, <1>4, Unpack8 DEF X, Y
<1>9. \A p \in Bit : (IF p = 0 THEN X ELSE Y) = x[Number(0, a, b, c, p)]
  BY DEF Bit, X, Y
<1> QED
  BY <1>5, <1>6, <1>7, <1>8, <1>9 DEF m, Entry, Item

LEMMA Separate4 ==
  ASSUME NEW n, NEW w, NEW x, Registers(x, n, w), Group(4, n), NEW a, NEW b, NEW c, NEW d,
         NEW z, NEW e, NEW f, NEW g, NEW h, Address(n, w, a, b, c, d, z, e, f, g, h)
  PROVE  /\ Entry(Separate(x, 1, 4), Number(0, a, b, c, d), Number(z, e, f, g, h))
              = Entry(x, Number(0, a, b, d, h), Number(z, c, e, f, g))
         /\ Entry(Separate(x, 2, 4), Number(0, a, b, c, d), Number(z, e, f, g, h))
              = Entry(x, Number(0, a, b, d, g), Number(z, c, e, f, h))
         /\ Entry(Separate(x, 4, 4), Number(0, a, b, c, d), Number(z, e, f, g, h))
              = Entry(x, Number(0, a, b, d, f), Number(z, c, e, g, h))
         /\ Entry(Separate(x, 8, 4), Number(0, a, b, c, d), Number(z, e, f, g, h))
              = Entry(x, Number(0, a, b, d, e), Number(z, c, f, g, h))
<1> DEFINE m == Number(0, a, b, c, d)
           l == 4 * (m \div 4) + 2 * (m % (4 \div 2))
<1> /\ w \in Widths /\ z \in Lanes(w) /\ a \in Bit /\ b \in Bit /\ c \in Bit /\ d \in Bit
    /\ e \in Bit /\ f \in Bit /\ g \in Bit /\ h \in Bit /\ Number(0, a, b, c, d) \in Below(n)
  BY DEF Address
<1>1. m \in DOMAIN x
  BY DEF Number, Bit, Below, Widths, Registers
<1>2. /\ (m % 4) \div (4 \div 2) = c /\ l = Number(0, a, b, d, 0) /\ l + 1 = Number(0, a, b, d, 1)
      /\ l \in 0 .. n - 1
  BY DEF Number, Bit, Below, Registers, Stride, Group
<1>3. \A v : Separate(x, v, 4)[m] = Unpack(v, c, x[Number(0, a, b, d, 0)], x[Number(0, a, b, d, 1)])
  BY <1>1, <1>2 DEF Separate
<1>4. IsRegister(x[Number(0, a, b, d, 0)], w)
  BY <1>2 DEF Registers
<1> DEFINE X == x[Number(0, a, b, d, 0)]
           Y == x[Number(0, a, b, d, 1)]
           i == Number(z, e, f, g, h)
<1> HIDE DEF m, X, Y
<1>5. Item(Separate(x, 1, 4)[m], i) = Item(IF h = 0 THEN X ELSE Y, Number(z, c, e, f, g))
  BY <1>3, <1>4, Unpack1 DEF X, Y
<1>6. Item(Separate(x, 2, 4)[m], i) = Item(IF g = 0 THEN X ELSE Y, Number(z, c, e, f, h))
  BY <1>3, <1>4, Unpack2 DEF X, Y
<1>7. Item(Separate(x, 4, 4)[m], i) = Item(IF f = 0 THEN X ELSE Y, Number(z, c, e, g, h))
  BY <1>3, <1>4, Unpack4 DEF X, Y
<1>8. Item(Separate(x, 8, 4)[m], i) = Item(IF e = 0 THEN X ELSE Y, Number(z, c, f, g, h))
  BY <1>3, <1>4, Unpack8 DEF X, Y
<1>9. \A p \in Bit : (IF p = 0 THEN X ELSE Y) = x[Number(0, a, b, d, p)]
  BY DEF Bit, X, Y
<1> QED
  BY <1>5, <1>6, <1>7, <1>8, <1>9 DEF m, Entry, Item

LEMMA Separate8 ==
  ASSUME NEW n, NEW w, NEW x, Registers(x, n, w), Group(8, n), NEW a, NEW b, NEW c, NEW d,
         NEW z, NEW e, NEW f, NEW g, NEW h, Address(n, w, a, b, c, d, z, e, f, g, h)
  PROVE  /\ Entry(Separate(x, 1, 8), Number(0, a, b, c, d), Number(z, e, f, g, h))
              = Entry(x, Number(0, a, c, d, h), Number(z, b, e, f, g))
         /\ Entry(Separate(x, 2, 8), Number(0, a, b, c, d), Number(z, e, f, g, h))
              = Entry(x, Number(0, a, c, d, g), Number(z, b, e, f, h))
         /\ Entry(Separate(x, 4, 8), Number(0, a, b, c, d), Number(z, e, f, g, h))
              = Entry(x, Number(0, a, c, d, f), Number(z, b, e, g, h))
         /\ Entry(Separate(x, 8, 8), Number(0, a, b, c, d), Number(z, e, f, g, h))
              = Entry(x, Number(0, a, c, d, e), Number(z, b, f, g, h))
<1> DEFINE m == Number(0, a, b, c, d)
           l == 8 * (m \div 8) + 2 * (m % (8 \div 2))
<1> /\ w \in Widths /\ z \in Lanes(w) /\ a \in Bit /\ b \in Bit /\ c \in Bit /\ d \in Bit
    /\ e \in Bit /\ f \in Bit /\ g \in Bit /\ h \in Bit /\ Number(0, a, b, c, d) \in Below(n)
  BY DEF Address
<1>1. m \in DOMAIN x
  BY DEF Number, Bit, Below, Widths, Registers
<1>2. /\ (m % 8) \div (8 \div 2) = b /\ l = Number(0, a, c, d, 0) /\ l + 1 = Number(0, a, c, d, 1)
      /\ l \in 0 .. n - 1
  BY SMTT(60) DEF Number, Bit, Below, Registers, Stride, Group
<1>3. \A v : Separate(x, v, 8)[m] = Unpack(v, b, x[Number(0, a, c, d, 0)], x[Number(0, a, c, d, 1)])
  BY <1>1, <1>2 DEF Separate
<1>4. IsRegister(x[Number(0, a, c, d, 0)], w)
  BY <1>2 DEF Registers
<1> DEFINE X == x[Number(0, a, c, d, 0)]
           Y == x[Number(0, a, c, d, 1)]
           i == Number(z, e, f, g, h)
<1> HIDE DEF m, X, Y
<1>5. Item(Separate(x, 1, 8)[m], i) = Item(IF h = 0 THEN X ELSE Y, Number(z, b, e, f, g))
  BY <1>3, <1>4, Unpack1 DEF X, Y
<1>6. Item(Separate(x, 2, 8)[m], i) = Item(IF g = 0 THEN X ELSE Y, Number(z, b, e, f, h))
  BY <1>3, <1>4, Unpack2 DEF X, Y
<1>7. Item(Separate(x, 4, 8)[m], i) = Item(IF f = 0 THEN X ELSE Y, Number(z, b, e, g, h))
  BY <1>3, <1>4, Unpack4 DEF X, Y
<1>8. Item(Separate(x, 8, 8)[m], i) = Item(IF e = 0 THEN X ELSE Y, Number(z, b, f, g, h))
  BY <1>3, <1>4, Unpack8 DEF X, Y
<1>9. \A p \in Bit : (IF p = 0 THEN X ELSE Y) = x[Number(0, a, c, d, p)]
  BY DEF Bit, X, Y
<1> QED
  BY <1>5, <1>6, <1>7, <1>8, <1>9 DEF m, Entry, Item

LEMMA Separate16 ==
  ASSUME NEW n, NEW w, NEW x, Registers(x, n, w), Group(16, n), NEW a, NEW b, NEW c, NEW d,
         NEW z, NEW e, NEW f, NEW g, NEW h, Address(n, w, a, b, c, d, z, e, f, g, h)
  PROVE  /\ Entry(Separate(x, 1, 16), Number(0, a, b, c, d), Number(z, e, f, g, h))
              = Entry(x, Number(0, b, c, d, h), Number(z, a, e, f, g))
         /\ Entry(Separate(x, 2, 16), Number(0, a, b, c, d), Number(z, e, f, g, h))
              = Entry(x, Number(0, b, c, d, g), Number(z, a, e, f, h))
         /\ Entry(Separate(x, 4, 16), Number(0, a, b, c, d), Number(z, e, f, g, h))
              = Entry(x, Number(0, b, c, d, f), Number(z, a, e, g, h))
         /\ Entry(Separate(x, 8, 16), Number(0, a, b, c, d), Number(z, e, f, g, h))
              = Entry(x, Number(0, b, c, d, e), Number(z, a, f, g, h))
<1> DEFINE m == Number(0, a, b, c, d)
           l == 16 * (m \div 16) + 2 * (m % (16 \div 2))
<1> /\ w \in Widths /\ z \in Lanes(w) /\ a \in Bit /\ b \in Bit /\ c \in Bit /\ d \in Bit
    /\ e \in Bit /\ f \in Bit /\ g \in Bit /\ h \in Bit /\ Number(0, a, b, c, d) \in Below(n)
  BY DEF Address
<1>1. m \in DOMAIN x
  BY DEF Number, Bit, Below, Widths, Registers
<1>2. /\ (m % 16) \div (16 \div 2) = a /\ l = Number(0, b, c, d, 0) /\ l + 1 = Number(0, b, c, d, 1)
      /\ l \in 0 .. n - 1
  BY DEF Number, Bit, Below, Registers, Stride, Group
<1>3. \A v : Separate(x, v, 16)[m] = Unpack(v, a, x[Number(0, b, c, d, 0)], x[Number(0, b, c, d, 1)])
  BY <1>1, <1>2 DEF Separate
<1>4. IsRegister(x[Number(0, b, c, d, 0)], w)
  BY <1>2 DEF Registers
<1> DEFINE X == x[Number(0, b, c, d, 0)]
           Y == x[Number(0, b, c, d, 1)]
           i == Number(z, e, f, g, h)
<1> HIDE DEF m, X, Y
<1>5. Item(Separate(x, 1, 16)[m], i) = Item(IF h = 0 THEN X ELSE Y, Number(z, a, e, f, g))
  BY <1>3, <1>4, Unpack1 DEF X, Y
<1>6. Item(Separate(x, 2, 16)[m], i) = Item(IF g = 0 THEN X ELSE Y, Number(z, a, e, f, h))
  BY <1>3, <1>4, Unpack2 DEF X, Y
<1>7. Item(Separate(x, 4, 16)[m], i) = Item(IF f = 0 THEN X ELSE Y, Number(z, a, e, g, h))
  BY <1>3, <1>4, Unpack4 DEF X, Y
<1>8. Item(Separate(x, 8, 16)[m], i) = Item(IF e = 0 THEN X ELSE Y, Number(z, a, f, g, h))
  BY <1>3, <1>4, Unpack8 DEF X, Y
<1>9. \A p \in Bit : (IF p = 0 THEN X ELSE Y) = x[Number(0, b, c, d, p)]
  BY DEF Bit, X, Y
<1> QED
  BY <1>5, <1>6, <1>7, <1>8, <1>9 DEF m, Entry, Item

\* The results are registers again.
LEMMA InterleaveRegisters ==
  ASSUME NEW n, NEW w \in Widths, NEW x, Registers(x, n, w), NEW u,
         NEW s, Stride(s, n)
  PROVE  Registers(Interleave(x, u, s), n, w)
<1>1. DOMAIN Interleave(x, u, s) = 0 .. n - 1
  BY DEF Interleave, Registers
<1> n \in {2, 4, 8, 16} /\ s \in {1, 2, 4, 8} /\ 2 * s <= n
  BY DEF Registers, Stride, Group
<1>2. ASSUME NEW m \in 0 .. n - 1 PROVE IsRegister(Interleave(x, u, s)[m], w)
  <2> DEFINE k == m \div 2
             l == k + (k \div s) * s
  <2>1. l \in 0 .. n - 1
    <3>1. CASE s = 1
      BY <3>1
    <3>2. CASE s = 2
      BY <3>2
    <3>3. CASE s = 4
      BY <3>3
    <3>4. CASE s = 8
      BY <3>4
    <3> QED
      BY <3>1, <3>2, <3>3, <3>4
  <2>2. Interleave(x, u, s)[m] = Unpack(u, m % 2, x[l], x[l + s])
    BY DEF Interleave, Registers
  <2> HIDE DEF l
  <2> QED
    BY <2>1, <2>2 DEF Unpack, Registers, IsRegister
<1> QED
  BY <1>1, <1>2 DEF Registers


LEMMA SeparateRegisters ==
  ASSUME NEW n, NEW w \in Widths, NEW x, Registers(x, n, w), NEW u,
         NEW g, Group(g, n)
  PROVE  Registers(Separate(x, u, g), n, w)
<1>1. DOMAIN Separate(x, u, g) = 0 .. n - 1
  BY DEF Separate, Registers
<1> n \in {2, 4, 8, 16} /\ g \in {2, 4, 8, 16} /\ g <= n
  BY DEF Registers, Stride, Group
<1>2. ASSUME NEW m \in 0 .. n - 1 PROVE IsRegister(Separate(x, u, g)[m], w)
  <2> DEFINE l == g * (m \div g) + 2 * (m % (g \div 2))
             hi == (m % g) \div (g \div 2)
  <2>1. l \in 0 .. n - 1
    <3>1. CASE g = 2
      BY <3>1
    <3>2. CASE g = 4
      BY <3>2
    <3>3. CASE g = 8
      BY <3>3
    <3>4. CASE g = 16
      BY <3>4
    <3> QED
      BY <3>1, <3>2, <3>3, <3>4
  <2>2. Separate(x, u, g)[m] = Unpack(u, hi, x[l], x[l + 1])
    BY DEF Separate, Registers
  <2> HIDE DEF l, hi
  <2> QED
    BY <2>1, <2>2 DEF Unpack, Registers, IsRegister
<1> QED
  BY <1>1, <1>2 DEF Registers

\* The permutations, by the size of the group of bytes they reorder
LEMMA Permute8 ==
  ASSUME NEW w \in Widths, NEW x, IsRegister(x, w),
         NEW z \in Lanes(w), NEW a \in Bit, NEW b \in Bit, NEW c \in Bit, NEW d \in Bit
  PROVE  /\ Item(Permute(x, 8, 2, D8), Number(z, a, b, c, d)) = Item(x, Number(z, a, c, b, d))
<1> DEFINE i == Number(z, a, b, c, d)
<1>1. z \in Bit /\ i \in DOMAIN x
  BY DEF Number, Bit, Widths, Lanes, IsRegister
<1>2. \A u, o : Permute(x, 8, u, o)[i] = x[8 * (i \div 8) + u * o[(i % 8) \div u + 1] + (i % u)]
  BY <1>1 DEF Permute
<1>3. 8 * (i \div 8) + 2 * D8[(i % 8) \div 2 + 1] + (i % 2) = Number(z, a, c, b, d)
  BY <1>1 DEF Number, Bit, D8
<1> QED
  BY <1>2, <1>3 DEF Item

LEMMA Permute16 ==
  ASSUME NEW w \in Widths, NEW x, IsRegister(x, w),
         NEW z \in Lanes(w), NEW a \in Bit, NEW b \in Bit, NEW c \in Bit, NEW d \in Bit
  PROVE  /\ Item(Permute(x, 16, 4, D8), Number(z, a, b, c, d)) = Item(x, Number(z, b, a, c, d))
         /\ Item(Permute(x, 16, 4, X4E), Number(z, a, b, c, d)) = Item(x, Number(z, 1 - a, b, c, d))
         /\ Item(Permute(x, 16, 4, X8D), Number(z, a, b, c, d)) = Item(x, Number(z, b, 1 - a, c, d))
         /\ Item(Permute(x, 16, 1, EvenOdd), Number(z, a, b, c, d)) = Item(x, Number(z, b, c, d, a))
         /\ Item(Permute(x, 16, 1, Zipped), Number(z, a, b, c, d)) = Item(x, Number(z, d, a, b, c))
<1> DEFINE i == Number(z, a, b, c, d)
<1>1. z \in Bit /\ i \in DOMAIN x
  BY DEF Number, Bit, Widths, Lanes, IsRegister
<1>2. \A u, o : Permute(x, 16, u, o)[i] = x[16 * (i \div 16) + u * o[(i % 16) \div u + 1] + (i % u)]
  BY <1>1 DEF Permute
<1>3. 16 * (i \div 16) + 4 * D8[(i % 16) \div 4 + 1] + (i % 4) = Number(z, b, a, c, d)
  BY <1>1 DEF Number, Bit, D8
<1>4. 16 * (i \div 16) + 4 * X4E[(i % 16) \div 4 + 1] + (i % 4) = Number(z, 1 - a, b, c, d)
  BY <1>1 DEF Number, Bit, X4E
<1>5. 16 * (i \div 16) + 4 * X8D[(i % 16) \div 4 + 1] + (i % 4) = Number(z, b, 1 - a, c, d)
  BY <1>1 DEF Number, Bit, X8D
<1>6. 16 * (i \div 16) + 1 * EvenOdd[(i % 16) \div 1 + 1] + (i % 1) = Number(z, b, c, d, a)
  BY <1>1 DEF Number, Bit, EvenOdd
<1>7. 16 * (i \div 16) + 1 * Zipped[(i % 16) \div 1 + 1] + (i % 1) = Number(z, d, a, b, c)
  BY <1>1 DEF Number, Bit, Zipped
<1> QED
  BY <1>2, <1>3, <1>4, <1>5, <1>6, <1>7 DEF Item

LEMMA Permute32 ==
  ASSUME NEW w, w = 32, NEW x, IsRegister(x, w),
         NEW z \in Lanes(w), NEW a \in Bit, NEW b \in Bit, NEW c \in Bit, NEW d \in Bit
  PROVE  /\ Item(Permute(x, 32, 8, D8), Number(z, a, b, c, d)) = Item(x, Number(a, z, b, c, d))
         /\ Item(Permute(x, 32, 8, X8D), Number(z, a, b, c, d)) = Item(x, Number(a, 1 - z, b, c, d))
         /\ Item(Permute(x, 32, 8, X4E), Number(z, a, b, c, d)) = Item(x, Number(1 - z, a, b, c, d))
         /\ Item(Permute(x, 32, 8, X72), Number(z, a, b, c, d)) = Item(x, Number(1 - a, z, b, c, d))
         /\ Item(Permute(x, 32, 4, <<0, 4, 1, 5, 2, 6, 3, 7>>), Number(z, a, b, c, d)) = Item(x, Number(b, z, a, c, d))
<1> DEFINE i == Number(z, a, b, c, d)
<1>1. z \in Bit /\ i \in DOMAIN x
  BY DEF Number, Bit, Widths, Lanes, IsRegister
<1>2. \A u, o : Permute(x, 32, u, o)[i] = x[32 * (i \div 32) + u * o[(i % 32) \div u + 1] + (i % u)]
  BY <1>1 DEF Permute
<1>3. 32 * (i \div 32) + 8 * D8[(i % 32) \div 8 + 1] + (i % 8) = Number(a, z, b, c, d)
  BY <1>1 DEF Number, Bit, D8
<1>4. 32 * (i \div 32) + 8 * X8D[(i % 32) \div 8 + 1] + (i % 8) = Number(a, 1 - z, b, c, d)
  BY <1>1 DEF Number, Bit, X8D
<1>5. 32 * (i \div 32) + 8 * X4E[(i % 32) \div 8 + 1] + (i % 8) = Number(1 - z, a, b, c, d)
  BY <1>1 DEF Number, Bit, X4E
<1>6. 32 * (i \div 32) + 8 * X72[(i % 32) \div 8 + 1] + (i % 8) = Number(1 - a, z, b, c, d)
  BY <1>1 DEF Number, Bit, X72
<1>7. 32 * (i \div 32) + 4 * <<0, 4, 1, 5, 2, 6, 3, 7>>[(i % 32) \div 4 + 1] + (i % 4) = Number(b, z, a, c, d)
  BY <1>1 DEF Number, Bit
<1> QED
  BY <1>2, <1>3, <1>4, <1>5, <1>6, <1>7 DEF Item

LEMMA PermuteRegister ==
  ASSUME NEW w, NEW x, IsRegister(x, w), NEW g, NEW u, NEW o
  PROVE  IsRegister(Permute(x, g, u, o), w)
BY DEF Permute, IsRegister

\* Lanes of two registers side by side
LEMMA HalvesAre ==
  ASSUME NEW x, NEW y, IsRegister(x, 32), NEW i \in Bit, NEW j \in Bit,
         NEW z \in Bit, NEW a \in Bit, NEW b \in Bit, NEW c \in Bit, NEW d \in Bit
  PROVE  /\ IsRegister(Halves(x, y, i, j), 32)
         /\ Item(Halves(x, y, i, j), Number(z, a, b, c, d))
              = IF z = 0 THEN Item(x, Number(i, a, b, c, d)) ELSE Item(y, Number(j, a, b, c, d))
<1> DEFINE k == Number(z, a, b, c, d)
<1>1. k \in DOMAIN x /\ (k < 16 <=> z = 0)
  BY DEF Number, Bit, IsRegister
<1>2. Halves(x, y, i, j)[k] = IF k < 16 THEN x[16 * i + k] ELSE y[16 * j + k - 16]
  BY <1>1 DEF Halves, Lane
<1>3. z = 0 => 16 * i + k = Number(i, a, b, c, d)
  BY DEF Number, Bit
<1>4. z # 0 => 16 * j + k - 16 = Number(j, a, b, c, d)
  BY DEF Number, Bit
<1> QED
  BY <1>1, <1>2, <1>3, <1>4 DEF Halves, IsRegister, Item

-----------------------------------------------------------------------------
(* Networks of the same instruction, one step after the other *)

\* Four steps on sixteen registers swap the two numbers.
LEMMA Transpose16Is ==
  ASSUME NEW w, NEW x, Registers(x, 16, w), NEW a, NEW b, NEW c, NEW d,
         NEW z, NEW e, NEW f, NEW g, NEW h, Address(16, w, a, b, c, d, z, e, f, g, h)
  PROVE  /\ Registers(Transpose16(x), 16, w) /\ Address(16, w, e, f, g, h, z, a, b, c, d)
         /\ Entry(Transpose16(x), Number(0, a, b, c, d), Number(z, e, f, g, h))
              = Entry(x, Number(0, e, f, g, h), Number(z, a, b, c, d))
<1> DEFINE x1 == Interleave(x, 1, 1)
           x2 == Interleave(x1, 2, 2)
           x3 == Interleave(x2, 4, 4)
           x4 == Interleave(x3, 8, 8)
<1>a. Transpose16(x) = x4
  BY DEF Transpose16
<1>0. Registers(x, 16, w)
  OBVIOUS
<1>1. Registers(x1, 16, w) /\ Stride(1, 16)
  <2>1. Stride(1, 16)
    BY DEF Stride
  <2>2. w \in Widths
    BY DEF Address
  <2> QED
    BY <1>0, <2>1, <2>2, InterleaveRegisters
<1>2. Registers(x2, 16, w) /\ Stride(2, 16)
  <2>1. Stride(2, 16)
    BY DEF Stride
  <2>2. w \in Widths
    BY DEF Address
  <2> QED
    BY <1>1, <2>1, <2>2, InterleaveRegisters
<1>3. Registers(x3, 16, w) /\ Stride(4, 16)
  <2>1. Stride(4, 16)
    BY DEF Stride
  <2>2. w \in Widths
    BY DEF Address
  <2> QED
    BY <1>2, <2>1, <2>2, InterleaveRegisters
<1>4. Registers(x4, 16, w) /\ Stride(8, 16)
  <2>1. Stride(8, 16)
    BY DEF Stride
  <2>2. w \in Widths
    BY DEF Address
  <2> QED
    BY <1>3, <2>1, <2>2, InterleaveRegisters
<1> HIDE DEF x1, x2, x3, x4
<1>5. Address(16, w, e, a, b, c, z, d, f, g, h) /\ Entry(x4, Number(0, a, b, c, d), Number(z, e, f, g, h))
        = Entry(x3, Number(0, e, a, b, c), Number(z, d, f, g, h))
  <2>1. Address(16, w, e, a, b, c, z, d, f, g, h)
    BY DEF Address, Below, Number, Bit
  <2> QED
    BY <1>3, <1>4, <2>1, Interleave8 DEF x4
<1>6. Address(16, w, e, f, a, b, z, c, d, g, h) /\ Entry(x3, Number(0, e, a, b, c), Number(z, d, f, g, h))
        = Entry(x2, Number(0, e, f, a, b), Number(z, c, d, g, h))
  <2>1. Address(16, w, e, f, a, b, z, c, d, g, h)
    BY DEF Address, Below, Number, Bit
  <2> QED
    BY <1>2, <1>3, <2>1, <1>5, Interleave4 DEF x3
<1>7. Address(16, w, e, f, g, a, z, b, c, d, h) /\ Entry(x2, Number(0, e, f, a, b), Number(z, c, d, g, h))
        = Entry(x1, Number(0, e, f, g, a), Number(z, b, c, d, h))
  <2>1. Address(16, w, e, f, g, a, z, b, c, d, h)
    BY DEF Address, Below, Number, Bit
  <2> QED
    BY <1>1, <1>2, <2>1, <1>6, Interleave2 DEF x2
<1>8. Address(16, w, e, f, g, h, z, a, b, c, d) /\ Entry(x1, Number(0, e, f, g, a), Number(z, b, c, d, h))
        = Entry(x, Number(0, e, f, g, h), Number(z, a, b, c, d))
  <2>1. Address(16, w, e, f, g, h, z, a, b, c, d)
    BY DEF Address, Below, Number, Bit
  <2> QED
    BY <1>0, <1>1, <2>1, <1>7, Interleave1 DEF x1
<1> QED
  BY <1>a, <1>4, <1>5, <1>6, <1>7, <1>8

\* The networks of trans_byte_elem_SSE, for pieces of 2, 4 and 8 bytes
LEMMA ElemNetwork2Is ==
  ASSUME NEW w, NEW x, Registers(x, 2, w), NEW d,
         NEW z, NEW e, NEW f, NEW g, NEW h, Address(2, w, 0, 0, 0, d, z, e, f, g, h)
  PROVE  /\ Registers(ElemNetwork(2, x), 2, w) /\ Address(2, w, 0, 0, 0, e, z, f, g, h, d)
         /\ Entry(ElemNetwork(2, x), Number(0, 0, 0, 0, d), Number(z, e, f, g, h))
              = Entry(x, Number(0, 0, 0, 0, e), Number(z, f, g, h, d))
<1> DEFINE x1 == Interleave(x, 1, 1)
           x2 == Interleave(x1, 1, 1)
           x3 == Interleave(x2, 1, 1)
           x4 == Interleave(x3, 1, 1)
<1>a. ElemNetwork(2, x) = x4
  BY DEF ElemNetwork
<1>0. Registers(x, 2, w)
  OBVIOUS
<1>1. Registers(x1, 2, w) /\ Stride(1, 2)
  <2>1. Stride(1, 2)
    BY DEF Stride
  <2>2. w \in Widths
    BY DEF Address
  <2> QED
    BY <1>0, <2>1, <2>2, InterleaveRegisters
<1>2. Registers(x2, 2, w) /\ Stride(1, 2)
  <2>1. Stride(1, 2)
    BY DEF Stride
  <2>2. w \in Widths
    BY DEF Address
  <2> QED
    BY <1>1, <2>1, <2>2, InterleaveRegisters
<1>3. Registers(x3, 2, w) /\ Stride(1, 2)
  <2>1. Stride(1, 2)
    BY DEF Stride
  <2>2. w \in Widths
    BY DEF Address
  <2> QED
    BY <1>2, <2>1, <2>2, InterleaveRegisters
<1>4. Registers(x4, 2, w) /\ Stride(1, 2)
  <2>1. Stride(1, 2)
    BY DEF Stride
  <2>2. w \in Widths
    BY DEF Address
  <2> QED
    BY <1>3, <2>1, <2>2, InterleaveRegisters
<1> HIDE DEF x1, x2, x3, x4
<1>5. Address(2, w, 0, 0, 0, h, z, d, e, f, g) /\ Entry(x4, Number(0, 0, 0, 0, d), Number(z, e, f, g, h))
        = Entry(x3, Number(0, 0, 0, 0, h), Number(z, d, e, f, g))
  <2>1. Address(2, w, 0, 0, 0, h, z, d, e, f, g)
    BY DEF Address, Below, Number, Bit
  <2> QED
    BY <1>3, <1>4, <2>1, Interleave1 DEF x4
<1>6. Address(2, w, 0, 0, 0, g, z, h, d, e, f) /\ Entry(x3, Number(0, 0, 0, 0, h), Number(z, d, e, f, g))
        = Entry(x2, Number(0, 0, 0, 0, g), Number(z, h, d, e, f))
  <2>1. Address(2, w, 0, 0, 0, g, z, h, d, e, f)
    BY DEF Address, Below, Number, Bit
  <2> QED
    BY <1>2, <1>3, <2>1, <1>5, Interleave1 DEF x3
<1>7. Address(2, w, 0, 0, 0, f, z, g, h, d, e) /\ Entry(x2, Number(0, 0, 0, 0, g), Number(z, h, d, e, f))
        = Entry(x1, Number(0, 0, 0, 0, f), Number(z, g, h, d, e))
  <2>1. Address(2, w, 0, 0, 0, f, z, g, h, d, e)
    BY DEF Address, Below, Number, Bit
  <2> QED
    BY <1>1, <1>2, <2>1, <1>6, Interleave1 DEF x2
<1>8. Address(2, w, 0, 0, 0, e, z, f, g, h, d) /\ Entry(x1, Number(0, 0, 0, 0, f), Number(z, g, h, d, e))
        = Entry(x, Number(0, 0, 0, 0, e), Number(z, f, g, h, d))
  <2>1. Address(2, w, 0, 0, 0, e, z, f, g, h, d)
    BY DEF Address, Below, Number, Bit
  <2> QED
    BY <1>0, <1>1, <2>1, <1>7, Interleave1 DEF x1
<1> QED
  BY <1>a, <1>4, <1>5, <1>6, <1>7, <1>8

LEMMA ElemNetwork4Is ==
  ASSUME NEW w, NEW x, Registers(x, 4, w), NEW c, NEW d,
         NEW z, NEW e, NEW f, NEW g, NEW h, Address(4, w, 0, 0, c, d, z, e, f, g, h)
  PROVE  /\ Registers(ElemNetwork(4, x), 4, w) /\ Address(4, w, 0, 0, e, f, z, g, h, c, d)
         /\ Entry(ElemNetwork(4, x), Number(0, 0, 0, c, d), Number(z, e, f, g, h))
              = Entry(x, Number(0, 0, 0, e, f), Number(z, g, h, c, d))
<1> DEFINE x1 == Interleave(x, 1, 1)
           x2 == Interleave(x1, 1, 1)
           x3 == Interleave(x2, 1, 1)
           x4 == Interleave(x3, 8, 2)
<1>a. ElemNetwork(4, x) = x4
  BY DEF ElemNetwork
<1>0. Registers(x, 4, w)
  OBVIOUS
<1>1. Registers(x1, 4, w) /\ Stride(1, 4)
  <2>1. Stride(1, 4)
    BY DEF Stride
  <2>2. w \in Widths
    BY DEF Address
  <2> QED
    BY <1>0, <2>1, <2>2, InterleaveRegisters
<1>2. Registers(x2, 4, w) /\ Stride(1, 4)
  <2>1. Stride(1, 4)
    BY DEF Stride
  <2>2. w \in Widths
    BY DEF Address
  <2> QED
    BY <1>1, <2>1, <2>2, InterleaveRegisters
<1>3. Registers(x3, 4, w) /\ Stride(1, 4)
  <2>1. Stride(1, 4)
    BY DEF Stride
  <2>2. w \in Widths
    BY DEF Address
  <2> QED
    BY <1>2, <2>1, <2>2, InterleaveRegisters
<1>4. Registers(x4, 4, w) /\ Stride(2, 4)
  <2>1. Stride(2, 4)
    BY DEF Stride
  <2>2. w \in Widths
    BY DEF Address
  <2> QED
    BY <1>3, <2>1, <2>2, InterleaveRegisters
<1> HIDE DEF x1, x2, x3, x4
<1>5. Address(4, w, 0, 0, e, c, z, d, f, g, h) /\ Entry(x4, Number(0, 0, 0, c, d), Number(z, e, f, g, h))
        = Entry(x3, Number(0, 0, 0, e, c), Number(z, d, f, g, h))
  <2>1. Address(4, w, 0, 0, e, c, z, d, f, g, h)
    BY DEF Address, Below, Number, Bit
  <2> QED
    BY <1>3, <1>4, <2>1, Interleave2 DEF x4
<1>6. Address(4, w, 0, 0, e, h, z, c, d, f, g) /\ Entry(x3, Number(0, 0, 0, e, c), Number(z, d, f, g, h))
        = Entry(x2, Number(0, 0, 0, e, h), Number(z, c, d, f, g))
  <2>1. Address(4, w, 0, 0, e, h, z, c, d, f, g)
    BY DEF Address, Below, Number, Bit
  <2> QED
    BY <1>2, <1>3, <2>1, <1>5, Interleave1 DEF x3
<1>7. Address(4, w, 0, 0, e, g, z, h, c, d, f) /\ Entry(x2, Number(0, 0, 0, e, h), Number(z, c, d, f, g))
        = Entry(x1, Number(0, 0, 0, e, g), Number(z, h, c, d, f))
  <2>1. Address(4, w, 0, 0, e, g, z, h, c, d, f)
    BY DEF Address, Below, Number, Bit
  <2> QED
    BY <1>1, <1>2, <2>1, <1>6, Interleave1 DEF x2
<1>8. Address(4, w, 0, 0, e, f, z, g, h, c, d) /\ Entry(x1, Number(0, 0, 0, e, g), Number(z, h, c, d, f))
        = Entry(x, Number(0, 0, 0, e, f), Number(z, g, h, c, d))
  <2>1. Address(4, w, 0, 0, e, f, z, g, h, c, d)
    BY DEF Address, Below, Number, Bit
  <2> QED
    BY <1>0, <1>1, <2>1, <1>7, Interleave1 DEF x1
<1> QED
  BY <1>a, <1>4, <1>5, <1>6, <1>7, <1>8

LEMMA ElemNetwork8Is ==
  ASSUME NEW w, NEW x, Registers(x, 8, w), NEW b, NEW c, NEW d,
         NEW z, NEW e, NEW f, NEW g, NEW h, Address(8, w, 0, b, c, d, z, e, f, g, h)
  PROVE  /\ Registers(ElemNetwork(8, x), 8, w) /\ Address(8, w, 0, e, f, g, z, h, b, c, d)
         /\ Entry(ElemNetwork(8, x), Number(0, 0, b, c, d), Number(z, e, f, g, h))
              = Entry(x, Number(0, 0, e, f, g), Number(z, h, b, c, d))
<1> DEFINE x1 == Interleave(x, 1, 1)
           x2 == Interleave(x1, 1, 1)
           x3 == Interleave(x2, 4, 2)
           x4 == Interleave(x3, 8, 4)
<1>a. ElemNetwork(8, x) = x4
  BY DEF ElemNetwork
<1>0. Registers(x, 8, w)
  OBVIOUS
<1>1. Registers(x1, 8, w) /\ Stride(1, 8)
  <2>1. Stride(1, 8)
    BY DEF Stride
  <2>2. w \in Widths
    BY DEF Address
  <2> QED
    BY <1>0, <2>1, <2>2, InterleaveRegisters
<1>2. Registers(x2, 8, w) /\ Stride(1, 8)
  <2>1. Stride(1, 8)
    BY DEF Stride
  <2>2. w \in Widths
    BY DEF Address
  <2> QED
    BY <1>1, <2>1, <2>2, InterleaveRegisters
<1>3. Registers(x3, 8, w) /\ Stride(2, 8)
  <2>1. Stride(2, 8)
    BY DEF Stride
  <2>2. w \in Widths
    BY DEF Address
  <2> QED
    BY <1>2, <2>1, <2>2, InterleaveRegisters
<1>4. Registers(x4, 8, w) /\ Stride(4, 8)
  <2>1. Stride(4, 8)
    BY DEF Stride
  <2>2. w \in Widths
    BY DEF Address
  <2> QED
    BY <1>3, <2>1, <2>2, InterleaveRegisters
<1> HIDE DEF x1, x2, x3, x4
<1>5. Address(8, w, 0, e, b, c, z, d, f, g, h) /\ Entry(x4, Number(0, 0, b, c, d), Number(z, e, f, g, h))
        = Entry(x3, Number(0, 0, e, b, c), Number(z, d, f, g, h))
  <2>1. Address(8, w, 0, e, b, c, z, d, f, g, h)
    BY DEF Address, Below, Number, Bit
  <2> QED
    BY <1>3, <1>4, <2>1, Interleave4 DEF x4
<1>6. Address(8, w, 0, e, f, b, z, c, d, g, h) /\ Entry(x3, Number(0, 0, e, b, c), Number(z, d, f, g, h))
        = Entry(x2, Number(0, 0, e, f, b), Number(z, c, d, g, h))
  <2>1. Address(8, w, 0, e, f, b, z, c, d, g, h)
    BY DEF Address, Below, Number, Bit
  <2> QED
    BY <1>2, <1>3, <2>1, <1>5, Interleave2 DEF x3
<1>7. Address(8, w, 0, e, f, h, z, b, c, d, g) /\ Entry(x2, Number(0, 0, e, f, b), Number(z, c, d, g, h))
        = Entry(x1, Number(0, 0, e, f, h), Number(z, b, c, d, g))
  <2>1. Address(8, w, 0, e, f, h, z, b, c, d, g)
    BY DEF Address, Below, Number, Bit
  <2> QED
    BY <1>1, <1>2, <2>1, <1>6, Interleave1 DEF x2
<1>8. Address(8, w, 0, e, f, g, z, h, b, c, d) /\ Entry(x1, Number(0, 0, e, f, h), Number(z, b, c, d, g))
        = Entry(x, Number(0, 0, e, f, g), Number(z, h, b, c, d))
  <2>1. Address(8, w, 0, e, f, g, z, h, b, c, d)
    BY DEF Address, Below, Number, Bit
  <2> QED
    BY <1>0, <1>1, <2>1, <1>7, Interleave1 DEF x1
<1> QED
  BY <1>a, <1>4, <1>5, <1>6, <1>7, <1>8

\* The networks of unshuffle, before the registers are put in order
LEMMA Pairs2Is ==
  ASSUME NEW w, NEW x, Registers(x, 2, w), NEW d,
         NEW z, NEW e, NEW f, NEW g, NEW h, Address(2, w, 0, 0, 0, d, z, e, f, g, h)
  PROVE  /\ Registers(Separate(x, 1, 2), 2, w) /\ Address(2, w, 0, 0, 0, h, z, d, e, f, g)
         /\ Entry(Separate(x, 1, 2), Number(0, 0, 0, 0, d), Number(z, e, f, g, h))
              = Entry(x, Number(0, 0, 0, 0, h), Number(z, d, e, f, g))
<1> DEFINE x1 == Separate(x, 1, 2)
<1>a. Separate(x, 1, 2) = x1
  OBVIOUS
<1>0. Registers(x, 2, w)
  OBVIOUS
<1>1. Registers(x1, 2, w) /\ Group(2, 2)
  <2>1. Group(2, 2)
    BY DEF Group
  <2>2. w \in Widths
    BY DEF Address
  <2> QED
    BY <1>0, <2>1, <2>2, SeparateRegisters
<1> HIDE DEF x1
<1>2. Address(2, w, 0, 0, 0, h, z, d, e, f, g) /\ Entry(x1, Number(0, 0, 0, 0, d), Number(z, e, f, g, h))
        = Entry(x, Number(0, 0, 0, 0, h), Number(z, d, e, f, g))
  <2>1. Address(2, w, 0, 0, 0, h, z, d, e, f, g)
    BY DEF Address, Below, Number, Bit
  <2> QED
    BY <1>0, <1>1, <2>1, Separate2 DEF x1
<1> QED
  BY <1>a, <1>1, <1>2

LEMMA Quads4Is ==
  ASSUME NEW w, NEW x, Registers(x, 4, w), NEW c, NEW d,
         NEW z, NEW e, NEW f, NEW g, NEW h, Address(4, w, 0, 0, c, d, z, e, f, g, h)
  PROVE  /\ Registers(Separate(Separate(x, 1, 4), 2, 4), 4, w) /\ Address(4, w, 0, 0, g, h, z, d, c, e, f)
         /\ Entry(Separate(Separate(x, 1, 4), 2, 4), Number(0, 0, 0, c, d), Number(z, e, f, g, h))
              = Entry(x, Number(0, 0, 0, g, h), Number(z, d, c, e, f))
<1> DEFINE x1 == Separate(x, 1, 4)
           x2 == Separate(x1, 2, 4)
<1>a. Separate(Separate(x, 1, 4), 2, 4) = x2
  OBVIOUS
<1>0. Registers(x, 4, w)
  OBVIOUS
<1>1. Registers(x1, 4, w) /\ Group(4, 4)
  <2>1. Group(4, 4)
    BY DEF Group
  <2>2. w \in Widths
    BY DEF Address
  <2> QED
    BY <1>0, <2>1, <2>2, SeparateRegisters
<1>2. Registers(x2, 4, w) /\ Group(4, 4)
  <2>1. Group(4, 4)
    BY DEF Group
  <2>2. w \in Widths
    BY DEF Address
  <2> QED
    BY <1>1, <2>1, <2>2, SeparateRegisters
<1> HIDE DEF x1, x2
<1>3. Address(4, w, 0, 0, d, g, z, c, e, f, h) /\ Entry(x2, Number(0, 0, 0, c, d), Number(z, e, f, g, h))
        = Entry(x1, Number(0, 0, 0, d, g), Number(z, c, e, f, h))
  <2>1. Address(4, w, 0, 0, d, g, z, c, e, f, h)
    BY DEF Address, Below, Number, Bit
  <2> QED
    BY <1>1, <1>2, <2>1, Separate4 DEF x2
<1>4. Address(4, w, 0, 0, g, h, z, d, c, e, f) /\ Entry(x1, Number(0, 0, 0, d, g), Number(z, c, e, f, h))
        = Entry(x, Number(0, 0, 0, g, h), Number(z, d, c, e, f))
  <2>1. Address(4, w, 0, 0, g, h, z, d, c, e, f)
    BY DEF Address, Below, Number, Bit
  <2> QED
    BY <1>0, <1>1, <2>1, <1>3, Separate4 DEF x1
<1> QED
  BY <1>a, <1>2, <1>3, <1>4

LEMMA Quads8Is ==
  ASSUME NEW w, NEW x, Registers(x, 8, w), NEW b, NEW c, NEW d,
         NEW z, NEW e, NEW f, NEW g, NEW h, Address(8, w, 0, b, c, d, z, e, f, g, h)
  PROVE  /\ Registers(Separate(Separate(x, 1, 8), 2, 8), 8, w) /\ Address(8, w, 0, d, g, h, z, c, b, e, f)
         /\ Entry(Separate(Separate(x, 1, 8), 2, 8), Number(0, 0, b, c, d), Number(z, e, f, g, h))
              = Entry(x, Number(0, 0, d, g, h), Number(z, c, b, e, f))
<1> DEFINE x1 == Separate(x, 1, 8)
           x2 == Separate(x1, 2, 8)
<1>a. Separate(Separate(x, 1, 8), 2, 8) = x2
  OBVIOUS
<1>0. Registers(x, 8, w)
  OBVIOUS
<1>1. Registers(x1, 8, w) /\ Group(8, 8)
  <2>1. Group(8, 8)
    BY DEF Group
  <2>2. w \in Widths
    BY DEF Address
  <2> QED
    BY <1>0, <2>1, <2>2, SeparateRegisters
<1>2. Registers(x2, 8, w) /\ Group(8, 8)
  <2>1. Group(8, 8)
    BY DEF Group
  <2>2. w \in Widths
    BY DEF Address
  <2> QED
    BY <1>1, <2>1, <2>2, SeparateRegisters
<1> HIDE DEF x1, x2
<1>3. Address(8, w, 0, c, d, g, z, b, e, f, h) /\ Entry(x2, Number(0, 0, b, c, d), Number(z, e, f, g, h))
        = Entry(x1, Number(0, 0, c, d, g), Number(z, b, e, f, h))
  <2>1. Address(8, w, 0, c, d, g, z, b, e, f, h)
    BY DEF Address, Below, Number, Bit
  <2> QED
    BY <1>1, <1>2, <2>1, Separate8 DEF x2
<1>4. Address(8, w, 0, d, g, h, z, c, b, e, f) /\ Entry(x1, Number(0, 0, c, d, g), Number(z, b, e, f, h))
        = Entry(x, Number(0, 0, d, g, h), Number(z, c, b, e, f))
  <2>1. Address(8, w, 0, d, g, h, z, c, b, e, f)
    BY DEF Address, Below, Number, Bit
  <2> QED
    BY <1>0, <1>1, <2>1, <1>3, Separate8 DEF x1
<1> QED
  BY <1>a, <1>2, <1>3, <1>4

LEMMA All16Is ==
  ASSUME NEW w, NEW x, Registers(x, 16, w), NEW a, NEW b, NEW c, NEW d,
         NEW z, NEW e, NEW f, NEW g, NEW h, Address(16, w, a, b, c, d, z, e, f, g, h)
  PROVE  /\ Registers(Separate(Separate(Separate(Separate(x, 1, 16), 2, 16), 4, 16), 8, 16), 16, w) /\ Address(16, w, e, f, g, h, z, d, c, b, a)
         /\ Entry(Separate(Separate(Separate(Separate(x, 1, 16), 2, 16), 4, 16), 8, 16), Number(0, a, b, c, d), Number(z, e, f, g, h))
              = Entry(x, Number(0, e, f, g, h), Number(z, d, c, b, a))
<1> DEFINE x1 == Separate(x, 1, 16)
           x2 == Separate(x1, 2, 16)
           x3 == Separate(x2, 4, 16)
           x4 == Separate(x3, 8, 16)
<1>a. Separate(Separate(Separate(Separate(x, 1, 16), 2, 16), 4, 16), 8, 16) = x4
  OBVIOUS
<1>0. Registers(x, 16, w)
  OBVIOUS
<1>1. Registers(x1, 16, w) /\ Group(16, 16)
  <2>1. Group(16, 16)
    BY DEF Group
  <2>2. w \in Widths
    BY DEF Address
  <2> QED
    BY <1>0, <2>1, <2>2, SeparateRegisters
<1>2. Registers(x2, 16, w) /\ Group(16, 16)
  <2>1. Group(16, 16)
    BY DEF Group
  <2>2. w \in Widths
    BY DEF Address
  <2> QED
    BY <1>1, <2>1, <2>2, SeparateRegisters
<1>3. Registers(x3, 16, w) /\ Group(16, 16)
  <2>1. Group(16, 16)
    BY DEF Group
  <2>2. w \in Widths
    BY DEF Address
  <2> QED
    BY <1>2, <2>1, <2>2, SeparateRegisters
<1>4. Registers(x4, 16, w) /\ Group(16, 16)
  <2>1. Group(16, 16)
    BY DEF Group
  <2>2. w \in Widths
    BY DEF Address
  <2> QED
    BY <1>3, <2>1, <2>2, SeparateRegisters
<1> HIDE DEF x1, x2, x3, x4
<1>5. Address(16, w, b, c, d, e, z, a, f, g, h) /\ Entry(x4, Number(0, a, b, c, d), Number(z, e, f, g, h))
        = Entry(x3, Number(0, b, c, d, e), Number(z, a, f, g, h))
  <2>1. Address(16, w, b, c, d, e, z, a, f, g, h)
    BY DEF Address, Below, Number, Bit
  <2> QED
    BY <1>3, <1>4, <2>1, Separate16 DEF x4
<1>6. Address(16, w, c, d, e, f, z, b, a, g, h) /\ Entry(x3, Number(0, b, c, d, e), Number(z, a, f, g, h))
        = Entry(x2, Number(0, c, d, e, f), Number(z, b, a, g, h))
  <2>1. Address(16, w, c, d, e, f, z, b, a, g, h)
    BY DEF Address, Below, Number, Bit
  <2> QED
    BY <1>2, <1>3, <2>1, <1>5, Separate16 DEF x3
<1>7. Address(16, w, d, e, f, g, z, c, b, a, h) /\ Entry(x2, Number(0, c, d, e, f), Number(z, b, a, g, h))
        = Entry(x1, Number(0, d, e, f, g), Number(z, c, b, a, h))
  <2>1. Address(16, w, d, e, f, g, z, c, b, a, h)
    BY DEF Address, Below, Number, Bit
  <2> QED
    BY <1>1, <1>2, <2>1, <1>6, Separate16 DEF x2
<1>8. Address(16, w, e, f, g, h, z, d, c, b, a) /\ Entry(x1, Number(0, d, e, f, g), Number(z, c, b, a, h))
        = Entry(x, Number(0, e, f, g, h), Number(z, d, c, b, a))
  <2>1. Address(16, w, e, f, g, h, z, d, c, b, a)
    BY DEF Address, Below, Number, Bit
  <2> QED
    BY <1>0, <1>1, <2>1, <1>7, Separate16 DEF x1
<1> QED
  BY <1>a, <1>4, <1>5, <1>6, <1>7, <1>8

\* The network of trans_byte_bitrow, on eight rows of bits
LEMMA RowsSeparated ==
  ASSUME NEW w, NEW x, Registers(x, 8, w), NEW b, NEW c, NEW d,
         NEW z, NEW e, NEW f, NEW g, NEW h, Address(8, w, 0, b, c, d, z, e, f, g, h)
  PROVE  /\ Registers(Separate(Separate(Separate(x, 1, 8), 2, 4), 4, 2), 8, w) /\ Address(8, w, 0, f, g, h, z, b, c, d, e)
         /\ Entry(Separate(Separate(Separate(x, 1, 8), 2, 4), 4, 2), Number(0, 0, b, c, d), Number(z, e, f, g, h))
              = Entry(x, Number(0, 0, f, g, h), Number(z, b, c, d, e))
<1> DEFINE x1 == Separate(x, 1, 8)
           x2 == Separate(x1, 2, 4)
           x3 == Separate(x2, 4, 2)
<1>a. Separate(Separate(Separate(x, 1, 8), 2, 4), 4, 2) = x3
  OBVIOUS
<1>0. Registers(x, 8, w)
  OBVIOUS
<1>1. Registers(x1, 8, w) /\ Group(8, 8)
  <2>1. Group(8, 8)
    BY DEF Group
  <2>2. w \in Widths
    BY DEF Address
  <2> QED
    BY <1>0, <2>1, <2>2, SeparateRegisters
<1>2. Registers(x2, 8, w) /\ Group(4, 8)
  <2>1. Group(4, 8)
    BY DEF Group
  <2>2. w \in Widths
    BY DEF Address
  <2> QED
    BY <1>1, <2>1, <2>2, SeparateRegisters
<1>3. Registers(x3, 8, w) /\ Group(2, 8)
  <2>1. Group(2, 8)
    BY DEF Group
  <2>2. w \in Widths
    BY DEF Address
  <2> QED
    BY <1>2, <2>1, <2>2, SeparateRegisters
<1> HIDE DEF x1, x2, x3
<1>4. Address(8, w, 0, b, c, f, z, d, e, g, h) /\ Entry(x3, Number(0, 0, b, c, d), Number(z, e, f, g, h))
        = Entry(x2, Number(0, 0, b, c, f), Number(z, d, e, g, h))
  <2>1. Address(8, w, 0, b, c, f, z, d, e, g, h)
    BY DEF Address, Below, Number, Bit
  <2> QED
    BY <1>2, <1>3, <2>1, Separate2 DEF x3
<1>5. Address(8, w, 0, b, f, g, z, c, d, e, h) /\ Entry(x2, Number(0, 0, b, c, f), Number(z, d, e, g, h))
        = Entry(x1, Number(0, 0, b, f, g), Number(z, c, d, e, h))
  <2>1. Address(8, w, 0, b, f, g, z, c, d, e, h)
    BY DEF Address, Below, Number, Bit
  <2> QED
    BY <1>1, <1>2, <2>1, <1>4, Separate4 DEF x2
<1>6. Address(8, w, 0, f, g, h, z, b, c, d, e) /\ Entry(x1, Number(0, 0, b, f, g), Number(z, c, d, e, h))
        = Entry(x, Number(0, 0, f, g, h), Number(z, b, c, d, e))
  <2>1. Address(8, w, 0, f, g, h, z, b, c, d, e)
    BY DEF Address, Below, Number, Bit
  <2> QED
    BY <1>0, <1>1, <2>1, <1>5, Separate8 DEF x1
<1> QED
  BY <1>a, <1>3, <1>4, <1>5, <1>6

-----------------------------------------------------------------------------
(* What is done to one register: the bytes of a type brought together, and *)
(* the lanes put in order                                                  *)

\* The place of a byte in a register of w
Place(w, z, a, b, c, d) ==
  w \in Widths /\ z \in Lanes(w) /\ a \in Bit /\ b \in Bit /\ c \in Bit /\ d \in Bit

\* With 32 bytes the lane is a bit like the others.
LEMMA LaneIsBit ==
  ASSUME NEW w, w \in Widths, NEW z, z \in Lanes(w)
  PROVE  z \in Bit /\ 0 \in Lanes(w)
BY DEF Lanes, Bit, Widths

LEMMA UnpackRegister ==
  ASSUME NEW w, NEW x, NEW y, IsRegister(x, w), NEW u, NEW hi
  PROVE  IsRegister(Unpack(u, hi, x, y), w)
BY DEF Unpack, IsRegister

\* The two low halves, byte by byte and two by two
LEMMA UnpackedLow1 ==
  ASSUME NEW w, NEW x, NEW y, IsRegister(x, w), NEW z, NEW a, NEW b, NEW c, NEW d, Place(w, z, a, b, c, d)
  PROVE  Item(Unpack(1, 0, x, y), Number(z, a, b, c, d))
           = IF d = 0 THEN Item(x, Number(z, 0, a, b, c)) ELSE Item(y, Number(z, 0, a, b, c))
<1>1. /\ w \in Widths /\ z \in Lanes(w) /\ a \in Bit /\ b \in Bit /\ c \in Bit /\ d \in Bit /\ 0 \in Bit
  BY DEF Place, Bit
<1>2. Item(Unpack(1, 0, x, y), Number(z, a, b, c, d)) = Item(IF d = 0 THEN x ELSE y, Number(z, 0, a, b, c))
  BY <1>1, Unpack1
<1> QED
  BY <1>2

LEMMA UnpackedLow2 ==
  ASSUME NEW w, NEW x, NEW y, IsRegister(x, w), NEW z, NEW a, NEW b, NEW c, NEW d, Place(w, z, a, b, c, d)
  PROVE  Item(Unpack(2, 0, x, y), Number(z, a, b, c, d))
           = IF c = 0 THEN Item(x, Number(z, 0, a, b, d)) ELSE Item(y, Number(z, 0, a, b, d))
<1>1. /\ w \in Widths /\ z \in Lanes(w) /\ a \in Bit /\ b \in Bit /\ c \in Bit /\ d \in Bit /\ 0 \in Bit
  BY DEF Place, Bit
<1>2. Item(Unpack(2, 0, x, y), Number(z, a, b, c, d)) = Item(IF c = 0 THEN x ELSE y, Number(z, 0, a, b, d))
  BY <1>1, Unpack2
<1> QED
  BY <1>2

LEMMA PlaceIs ==
  ASSUME NEW w, NEW z, NEW a, NEW b, NEW c, NEW d, Place(w, z, a, b, c, d)
  PROVE  /\ w \in Widths /\ z \in Lanes(w) /\ a \in Bit /\ b \in Bit /\ c \in Bit /\ d \in Bit /\ z \in Bit
         /\ 0 \in Bit /\ 1 - 0 = 1 /\ \A p \in Bit : p = 0 \/ p = 1
BY DEF Place, Bit, Lanes, Widths

\* A register unpacked with its own upper half
LEMMA Folded1 ==
  ASSUME NEW w, NEW x, IsRegister(x, w), NEW z, NEW a, NEW b, NEW c, NEW d, Place(w, z, a, b, c, d)
  PROVE  Item(Unpack(1, 0, x, Permute(x, 16, 4, X4E)), Number(z, a, b, c, d)) = Item(x, Number(z, d, a, b, c))
<1>1. Item(Permute(x, 16, 4, X4E), Number(z, 0, a, b, c)) = Item(x, Number(z, 1, a, b, c))
  BY PlaceIs, Permute16
<1>2. d = 0 \/ d = 1
  BY PlaceIs
<1>3. Item(Unpack(1, 0, x, Permute(x, 16, 4, X4E)), Number(z, a, b, c, d))
        = IF d = 0 THEN Item(x, Number(z, 0, a, b, c)) ELSE Item(Permute(x, 16, 4, X4E), Number(z, 0, a, b, c))
  BY UnpackedLow1
<1> QED
  BY <1>1, <1>2, <1>3

LEMMA Folded2 ==
  ASSUME NEW w, NEW x, IsRegister(x, w), NEW z, NEW a, NEW b, NEW c, NEW d, Place(w, z, a, b, c, d)
  PROVE  Item(Unpack(2, 0, x, Permute(x, 16, 4, X4E)), Number(z, a, b, c, d)) = Item(x, Number(z, c, a, b, d))
<1>1. Item(Permute(x, 16, 4, X4E), Number(z, 0, a, b, d)) = Item(x, Number(z, 1, a, b, d))
  BY PlaceIs, Permute16
<1>2. c = 0 \/ c = 1
  BY PlaceIs
<1>3. Item(Unpack(2, 0, x, Permute(x, 16, 4, X4E)), Number(z, a, b, c, d))
        = IF c = 0 THEN Item(x, Number(z, 0, a, b, d)) ELSE Item(Permute(x, 16, 4, X4E), Number(z, 0, a, b, d))
  BY UnpackedLow2
<1> QED
  BY <1>1, <1>2, <1>3

\* What the networks for types of two, four and eight bytes do in each register
Bytes2(a) ==
  LET b == Permute(Permute(a, 8, 2, D8), 16, 4, D8)
      c == Permute(Unpack(1, 0, b, Permute(b, 16, 4, X4E)), 16, 4, D8)
  IN Permute(Unpack(2, 0, c, Permute(c, 16, 4, X4E)), 16, 4, D8)
Bytes4(a) ==
  LET b == Unpack(1, 0, Permute(a, 16, 4, D8), Permute(a, 16, 4, X8D))
  IN Unpack(2, 0, b, Permute(b, 16, 4, X4E))
Bytes8(a) == Unpack(1, 0, a, Permute(a, 16, 4, X4E))

\* The bytes of each type brought together within one register
LEMMA Bytes2Are ==
  ASSUME NEW w, NEW x, IsRegister(x, w), NEW z, NEW a, NEW b, NEW c, NEW d, Place(w, z, a, b, c, d)
  PROVE  IsRegister(Bytes2(x), w) /\ Item(Bytes2(x), Number(z, a, b, c, d)) = Item(x, Number(z, b, c, d, a))
<1> DEFINE p1 == Permute(x, 8, 2, D8)
           p2 == Permute(p1, 16, 4, D8)
           p3 == Unpack(1, 0, p2, Permute(p2, 16, 4, X4E))
           p4 == Permute(p3, 16, 4, D8)
           p5 == Unpack(2, 0, p4, Permute(p4, 16, 4, X4E))
           p6 == Permute(p5, 16, 4, D8)
<1>0. Bytes2(x) = p6
  BY DEF Bytes2
<1>1. IsRegister(p1, w)
  BY PermuteRegister
<1>2. IsRegister(p2, w)
  BY <1>1, PermuteRegister
<1>3. IsRegister(p3, w)
  BY <1>2, UnpackRegister
<1>4. IsRegister(p4, w)
  BY <1>3, PermuteRegister
<1>5. IsRegister(p5, w)
  BY <1>4, UnpackRegister
<1>6. IsRegister(p6, w)
  BY <1>5, PermuteRegister
<1> HIDE DEF p1, p2, p3, p4, p5, p6
<1>a. /\ Place(w, z, b, a, c, d) /\ Place(w, z, c, b, a, d) /\ Place(w, z, b, c, a, d) /\ Place(w, z, d, b, c, a)
      /\ Place(w, z, b, d, c, a) /\ Place(w, z, b, c, d, a)
  BY DEF Place
<1>7. Item(p6, Number(z, a, b, c, d)) = Item(p5, Number(z, b, a, c, d))
  BY <1>5, PlaceIs, Permute16 DEF p6
<1>8. Item(p5, Number(z, b, a, c, d)) = Item(p4, Number(z, c, b, a, d))
  BY <1>4, <1>a, Folded2 DEF p5
<1>9. Item(p4, Number(z, c, b, a, d)) = Item(p3, Number(z, b, c, a, d))
  BY <1>3, PlaceIs, Permute16 DEF p4
<1>10. Item(p3, Number(z, b, c, a, d)) = Item(p2, Number(z, d, b, c, a))
  BY <1>2, <1>a, Folded1 DEF p3
<1>11. Item(p2, Number(z, d, b, c, a)) = Item(p1, Number(z, b, d, c, a))
  BY <1>1, PlaceIs, Permute16 DEF p2
<1>12. Item(p1, Number(z, b, d, c, a)) = Item(x, Number(z, b, c, d, a))
  BY PlaceIs, Permute8 DEF p1
<1> QED
  BY <1>0, <1>6, <1>7, <1>8, <1>9, <1>10, <1>11, <1>12

LEMMA Bytes4Are ==
  ASSUME NEW w, NEW x, IsRegister(x, w), NEW z, NEW a, NEW b, NEW c, NEW d, Place(w, z, a, b, c, d)
  PROVE  IsRegister(Bytes4(x), w) /\ Item(Bytes4(x), Number(z, a, b, c, d)) = Item(x, Number(z, c, d, a, b))
<1> DEFINE lo == Permute(x, 16, 4, D8)
           hi == Permute(x, 16, 4, X8D)
           y == Unpack(1, 0, lo, hi)
           up == Unpack(2, 0, y, Permute(y, 16, 4, X4E))
<1>0. Bytes4(x) = up
  BY DEF Bytes4
<1>1. IsRegister(lo, w)
  BY PermuteRegister
<1>2. IsRegister(y, w)
  BY <1>1, UnpackRegister
<1>3. IsRegister(up, w)
  BY <1>2, UnpackRegister
<1> HIDE DEF lo, hi, y, up
<1>a. Place(w, z, c, a, b, d) /\ Place(w, z, 0, c, a, b)
  BY DEF Place, Bit
<1>4. Item(up, Number(z, a, b, c, d)) = Item(y, Number(z, c, a, b, d))
  BY <1>2, Folded2 DEF up
<1>5. Item(y, Number(z, c, a, b, d))
        = IF d = 0 THEN Item(lo, Number(z, 0, c, a, b)) ELSE Item(hi, Number(z, 0, c, a, b))
  BY <1>1, <1>a, UnpackedLow1 DEF y
<1>6. Item(lo, Number(z, 0, c, a, b)) = Item(x, Number(z, c, 0, a, b))
  BY PlaceIs, Permute16 DEF lo
<1>7. Item(hi, Number(z, 0, c, a, b)) = Item(x, Number(z, c, 1, a, b))
  BY PlaceIs, Permute16 DEF hi
<1>8. d = 0 \/ d = 1
  BY PlaceIs
<1> QED
  BY <1>0, <1>3, <1>4, <1>5, <1>6, <1>7, <1>8

LEMMA Bytes8Are ==
  ASSUME NEW w, NEW x, IsRegister(x, w), NEW z, NEW a, NEW b, NEW c, NEW d, Place(w, z, a, b, c, d)
  PROVE  IsRegister(Bytes8(x), w) /\ Item(Bytes8(x), Number(z, a, b, c, d)) = Item(x, Number(z, d, a, b, c))
BY Folded1, UnpackRegister DEF Bytes8

\* What avx2 does after the network
LEMMA JoinLanes4Is ==
  ASSUME NEW x, IsRegister(x, 32), NEW z, NEW a, NEW b, NEW c, NEW d, Place(32, z, a, b, c, d)
  PROVE  /\ IsRegister(JoinLanes(4, x), 32)
         /\ Item(JoinLanes(4, x), Number(z, a, b, c, d)) = Item(x, Number(b, z, a, c, d))
<1>1. JoinLanes(4, x) = Permute(x, 32, 4, <<0, 4, 1, 5, 2, 6, 3, 7>>)
  BY DEF JoinLanes
<1>2. IsRegister(JoinLanes(4, x), 32)
  BY <1>1, PermuteRegister
<1>3. z \in Lanes(32) /\ a \in Bit /\ b \in Bit /\ c \in Bit /\ d \in Bit
  BY DEF Place
<1>4. Item(Permute(x, 32, 4, <<0, 4, 1, 5, 2, 6, 3, 7>>), Number(z, a, b, c, d)) = Item(x, Number(b, z, a, c, d))
  BY <1>3, Permute32
<1> QED
  BY <1>1, <1>2, <1>4

LEMMA CrossedIs ==
  ASSUME NEW x, IsRegister(x, 32), NEW z, NEW a, NEW b, NEW c, NEW d, Place(32, z, a, b, c, d)
  PROVE  /\ IsRegister(Permute(x, 32, 8, D8), 32) /\ IsRegister(Permute(x, 32, 8, X72), 32)
         /\ IsRegister(Permute(x, 32, 8, X8D), 32) /\ IsRegister(Permute(x, 32, 8, X4E), 32)
         /\ Item(Permute(x, 32, 8, D8), Number(z, a, b, c, d)) = Item(x, Number(a, z, b, c, d))
         /\ Item(Permute(x, 32, 8, X72), Number(z, a, b, c, d)) = Item(x, Number(1 - a, z, b, c, d))
         /\ Item(Permute(x, 32, 8, X8D), Number(z, a, b, c, d)) = Item(x, Number(a, 1 - z, b, c, d))
         /\ Item(Permute(x, 32, 8, X4E), Number(z, a, b, c, d)) = Item(x, Number(1 - z, a, b, c, d))
<1>1. z \in Lanes(32) /\ a \in Bit /\ b \in Bit /\ c \in Bit /\ d \in Bit
  BY DEF Place
<1> QED
  BY <1>1, Permute32, PermuteRegister

LEMMA JoinLanes8Is ==
  ASSUME NEW x, IsRegister(x, 32), NEW z, NEW a, NEW b, NEW c, NEW d, Place(32, z, a, b, c, d)
  PROVE  /\ IsRegister(JoinLanes(8, x), 32)
         /\ Item(JoinLanes(8, x), Number(z, a, b, c, d)) = Item(x, Number(c, z, a, b, d))
<1> DEFINE lo == Permute(x, 32, 8, D8)
           hi == Permute(x, 32, 8, X72)
<1>1. JoinLanes(8, x) = Unpack(2, 0, lo, hi)
  BY DEF JoinLanes
<1>2. IsRegister(lo, 32) /\ IsRegister(hi, 32)
  BY PermuteRegister
<1>3. IsRegister(JoinLanes(8, x), 32)
  BY <1>1, <1>2, UnpackRegister
<1>4. Place(32, z, 0, a, b, d) /\ 1 - 0 = 1 /\ (c = 0 \/ c = 1)
  BY DEF Place, Bit
<1>5. Item(lo, Number(z, 0, a, b, d)) = Item(x, Number(0, z, a, b, d))
  BY <1>4, CrossedIs
<1>6. Item(hi, Number(z, 0, a, b, d)) = Item(x, Number(1, z, a, b, d))
  BY <1>4, CrossedIs
<1> HIDE DEF lo, hi
<1>7. Item(Unpack(2, 0, lo, hi), Number(z, a, b, c, d))
        = IF c = 0 THEN Item(lo, Number(z, 0, a, b, d)) ELSE Item(hi, Number(z, 0, a, b, d))
  BY <1>2, UnpackedLow2
<1> QED
  BY <1>1, <1>3, <1>4, <1>5, <1>6, <1>7

LEMMA JoinLanes16Is ==
  ASSUME NEW x, IsRegister(x, 32), NEW z, NEW a, NEW b, NEW c, NEW d, Place(32, z, a, b, c, d)
  PROVE  /\ IsRegister(JoinLanes(16, x), 32)
         /\ Item(JoinLanes(16, x), Number(z, a, b, c, d)) = Item(x, Number(d, z, a, b, c))
<1> DEFINE y == Permute(x, 32, 8, D8)
<1>1. JoinLanes(16, x) = Permute(y, 16, 1, Zipped)
  BY DEF JoinLanes
<1>2. IsRegister(y, 32)
  BY PermuteRegister
<1>3. IsRegister(JoinLanes(16, x), 32)
  BY <1>1, <1>2, PermuteRegister
<1>4. Place(32, z, d, a, b, c)
  BY DEF Place
<1>5. Item(y, Number(z, d, a, b, c)) = Item(x, Number(d, z, a, b, c))
  BY <1>4, CrossedIs
<1> HIDE DEF y
<1>6. Item(Permute(y, 16, 1, Zipped), Number(z, a, b, c, d)) = Item(y, Number(z, d, a, b, c))
  BY <1>2, PlaceIs, Permute16
<1> QED
  BY <1>1, <1>3, <1>5, <1>6

-----------------------------------------------------------------------------
(* The same to all the registers, and the networks of shuffle on them *)

Mapped2(x) == [k \in DOMAIN x |-> Bytes2(x[k])]
\* The same done to every register
LEMMA Mapped2Is ==
  ASSUME NEW n, NEW w, NEW x, Registers(x, n, w), NEW a, NEW b, NEW c, NEW d,
         NEW z, NEW e, NEW f, NEW g, NEW h, Address(n, w, a, b, c, d, z, e, f, g, h)
  PROVE  /\ Registers(Mapped2(x), n, w)
         /\ Entry(Mapped2(x), Number(0, a, b, c, d), Number(z, e, f, g, h)) = Entry(x, Number(0, a, b, c, d), Number(z, f, g, h, e))
<1>1. ASSUME NEW k \in 0 .. n - 1 PROVE IsRegister(Bytes2(x[k]), w)
  BY PermuteRegister, UnpackRegister DEF Registers, Bytes2, Bytes4, Bytes8
<1>2. Registers(Mapped2(x), n, w)
  BY <1>1 DEF Mapped2, Registers
<1> DEFINE m == Number(0, a, b, c, d)
<1>3. m \in 0 .. n - 1
  BY DEF Address, Below
<1>4. IsRegister(x[m], w)
  BY <1>3 DEF Registers
<1>7. Mapped2(x)[m] = Bytes2(x[m])
  BY <1>3 DEF Registers, Mapped2
<1>5. Place(w, z, e, f, g, h)
  BY DEF Address, Place
<1> DEFINE y == x[m]
<1>8. IsRegister(y, w)
  BY <1>4
<1> HIDE DEF m, y
<1>6. Item(Bytes2(y), Number(z, e, f, g, h)) = Item(y, Number(z, f, g, h, e))
  BY <1>8, <1>5, Bytes2Are
<1> QED
  BY <1>2, <1>7, <1>6 DEF Entry, Item, m, y

Mapped4(x) == [k \in DOMAIN x |-> Bytes4(x[k])]
LEMMA Mapped4Is ==
  ASSUME NEW n, NEW w, NEW x, Registers(x, n, w), NEW a, NEW b, NEW c, NEW d,
         NEW z, NEW e, NEW f, NEW g, NEW h, Address(n, w, a, b, c, d, z, e, f, g, h)
  PROVE  /\ Registers(Mapped4(x), n, w)
         /\ Entry(Mapped4(x), Number(0, a, b, c, d), Number(z, e, f, g, h)) = Entry(x, Number(0, a, b, c, d), Number(z, g, h, e, f))
<1>1. ASSUME NEW k \in 0 .. n - 1 PROVE IsRegister(Bytes4(x[k]), w)
  BY PermuteRegister, UnpackRegister DEF Registers, Bytes2, Bytes4, Bytes8
<1>2. Registers(Mapped4(x), n, w)
  BY <1>1 DEF Mapped4, Registers
<1> DEFINE m == Number(0, a, b, c, d)
<1>3. m \in 0 .. n - 1
  BY DEF Address, Below
<1>4. IsRegister(x[m], w)
  BY <1>3 DEF Registers
<1>7. Mapped4(x)[m] = Bytes4(x[m])
  BY <1>3 DEF Registers, Mapped4
<1>5. Place(w, z, e, f, g, h)
  BY DEF Address, Place
<1> DEFINE y == x[m]
<1>8. IsRegister(y, w)
  BY <1>4
<1> HIDE DEF m, y
<1>6. Item(Bytes4(y), Number(z, e, f, g, h)) = Item(y, Number(z, g, h, e, f))
  BY <1>8, <1>5, Bytes4Are
<1> QED
  BY <1>2, <1>7, <1>6 DEF Entry, Item, m, y

Mapped8(x) == [k \in DOMAIN x |-> Bytes8(x[k])]
LEMMA Mapped8Is ==
  ASSUME NEW n, NEW w, NEW x, Registers(x, n, w), NEW a, NEW b, NEW c, NEW d,
         NEW z, NEW e, NEW f, NEW g, NEW h, Address(n, w, a, b, c, d, z, e, f, g, h)
  PROVE  /\ Registers(Mapped8(x), n, w)
         /\ Entry(Mapped8(x), Number(0, a, b, c, d), Number(z, e, f, g, h)) = Entry(x, Number(0, a, b, c, d), Number(z, h, e, f, g))
<1>1. ASSUME NEW k \in 0 .. n - 1 PROVE IsRegister(Bytes8(x[k]), w)
  BY PermuteRegister, UnpackRegister DEF Registers, Bytes2, Bytes4, Bytes8
<1>2. Registers(Mapped8(x), n, w)
  BY <1>1 DEF Mapped8, Registers
<1> DEFINE m == Number(0, a, b, c, d)
<1>3. m \in 0 .. n - 1
  BY DEF Address, Below
<1>4. IsRegister(x[m], w)
  BY <1>3 DEF Registers
<1>7. Mapped8(x)[m] = Bytes8(x[m])
  BY <1>3 DEF Registers, Mapped8
<1>5. Place(w, z, e, f, g, h)
  BY DEF Address, Place
<1> DEFINE y == x[m]
<1>8. IsRegister(y, w)
  BY <1>4
<1> HIDE DEF m, y
<1>6. Item(Bytes8(y), Number(z, e, f, g, h)) = Item(y, Number(z, h, e, f, g))
  BY <1>8, <1>5, Bytes8Are
<1> QED
  BY <1>2, <1>7, <1>6 DEF Entry, Item, m, y

Joined4(x) == [k \in DOMAIN x |-> JoinLanes(4, x[k])]
LEMMA Joined4Is ==
  ASSUME NEW n, NEW x, Registers(x, n, 32), NEW a, NEW b, NEW c, NEW d,
         NEW z, NEW e, NEW f, NEW g, NEW h, Address(n, 32, a, b, c, d, z, e, f, g, h)
  PROVE  /\ Registers(Joined4(x), n, 32)
         /\ Entry(Joined4(x), Number(0, a, b, c, d), Number(z, e, f, g, h)) = Entry(x, Number(0, a, b, c, d), Number(f, z, e, g, h))
<1>1. ASSUME NEW k \in 0 .. n - 1 PROVE IsRegister(JoinLanes(4, x[k]), 32)
  <2>1. IsRegister(x[k], 32)
    BY DEF Registers
  <2> QED
    BY <2>1, PermuteRegister, UnpackRegister DEF JoinLanes
<1>2. Registers(Joined4(x), n, 32)
  BY <1>1 DEF Joined4, Registers
<1> DEFINE m == Number(0, a, b, c, d)
<1>3. m \in 0 .. n - 1
  BY DEF Address, Below
<1>4. IsRegister(x[m], 32)
  BY <1>3 DEF Registers
<1>7. Joined4(x)[m] = JoinLanes(4, x[m])
  BY <1>3 DEF Registers, Joined4
<1>5. Place(32, z, e, f, g, h)
  BY DEF Address, Place
<1> DEFINE y == x[m]
<1>8. IsRegister(y, 32)
  BY <1>4
<1> HIDE DEF m, y
<1>6. Item(JoinLanes(4, y), Number(z, e, f, g, h)) = Item(y, Number(f, z, e, g, h))
  BY <1>8, <1>5, JoinLanes4Is
<1> QED
  BY <1>2, <1>7, <1>6 DEF Entry, Item, m, y

Joined8(x) == [k \in DOMAIN x |-> JoinLanes(8, x[k])]
LEMMA Joined8Is ==
  ASSUME NEW n, NEW x, Registers(x, n, 32), NEW a, NEW b, NEW c, NEW d,
         NEW z, NEW e, NEW f, NEW g, NEW h, Address(n, 32, a, b, c, d, z, e, f, g, h)
  PROVE  /\ Registers(Joined8(x), n, 32)
         /\ Entry(Joined8(x), Number(0, a, b, c, d), Number(z, e, f, g, h)) = Entry(x, Number(0, a, b, c, d), Number(g, z, e, f, h))
<1>1. ASSUME NEW k \in 0 .. n - 1 PROVE IsRegister(JoinLanes(8, x[k]), 32)
  <2>1. IsRegister(x[k], 32)
    BY DEF Registers
  <2> QED
    BY <2>1, PermuteRegister, UnpackRegister DEF JoinLanes
<1>2. Registers(Joined8(x), n, 32)
  BY <1>1 DEF Joined8, Registers
<1> DEFINE m == Number(0, a, b, c, d)
<1>3. m \in 0 .. n - 1
  BY DEF Address, Below
<1>4. IsRegister(x[m], 32)
  BY <1>3 DEF Registers
<1>7. Joined8(x)[m] = JoinLanes(8, x[m])
  BY <1>3 DEF Registers, Joined8
<1>5. Place(32, z, e, f, g, h)
  BY DEF Address, Place
<1> DEFINE y == x[m]
<1>8. IsRegister(y, 32)
  BY <1>4
<1> HIDE DEF m, y
<1>6. Item(JoinLanes(8, y), Number(z, e, f, g, h)) = Item(y, Number(g, z, e, f, h))
  BY <1>8, <1>5, JoinLanes8Is
<1> QED
  BY <1>2, <1>7, <1>6 DEF Entry, Item, m, y

Joined16(x) == [k \in DOMAIN x |-> JoinLanes(16, x[k])]
LEMMA Joined16Is ==
  ASSUME NEW n, NEW x, Registers(x, n, 32), NEW a, NEW b, NEW c, NEW d,
         NEW z, NEW e, NEW f, NEW g, NEW h, Address(n, 32, a, b, c, d, z, e, f, g, h)
  PROVE  /\ Registers(Joined16(x), n, 32)
         /\ Entry(Joined16(x), Number(0, a, b, c, d), Number(z, e, f, g, h)) = Entry(x, Number(0, a, b, c, d), Number(h, z, e, f, g))
<1>1. ASSUME NEW k \in 0 .. n - 1 PROVE IsRegister(JoinLanes(16, x[k]), 32)
  <2>1. IsRegister(x[k], 32)
    BY DEF Registers
  <2> QED
    BY <2>1, PermuteRegister, UnpackRegister DEF JoinLanes
<1>2. Registers(Joined16(x), n, 32)
  BY <1>1 DEF Joined16, Registers
<1> DEFINE m == Number(0, a, b, c, d)
<1>3. m \in 0 .. n - 1
  BY DEF Address, Below
<1>4. IsRegister(x[m], 32)
  BY <1>3 DEF Registers
<1>7. Joined16(x)[m] = JoinLanes(16, x[m])
  BY <1>3 DEF Registers, Joined16
<1>5. Place(32, z, e, f, g, h)
  BY DEF Address, Place
<1> DEFINE y == x[m]
<1>8. IsRegister(y, 32)
  BY <1>4
<1> HIDE DEF m, y
<1>6. Item(JoinLanes(16, y), Number(z, e, f, g, h)) = Item(y, Number(h, z, e, f, g))
  BY <1>8, <1>5, JoinLanes16Is
<1> QED
  BY <1>2, <1>7, <1>6 DEF Entry, Item, m, y

CrossedAll(x) == [k \in DOMAIN x |-> Permute(x[k], 32, 8, D8)]
LEMMA CrossedAllIs ==
  ASSUME NEW n, NEW x, Registers(x, n, 32), NEW a, NEW b, NEW c, NEW d,
         NEW z, NEW e, NEW f, NEW g, NEW h, Address(n, 32, a, b, c, d, z, e, f, g, h)
  PROVE  /\ Registers(CrossedAll(x), n, 32)
         /\ Entry(CrossedAll(x), Number(0, a, b, c, d), Number(z, e, f, g, h)) = Entry(x, Number(0, a, b, c, d), Number(e, z, f, g, h))
<1>1. ASSUME NEW k \in 0 .. n - 1 PROVE IsRegister(Permute(x[k], 32, 8, D8), 32)
  <2>1. IsRegister(x[k], 32)
    BY DEF Registers
  <2> QED
    BY <2>1, PermuteRegister, UnpackRegister DEF JoinLanes
<1>2. Registers(CrossedAll(x), n, 32)
  BY <1>1 DEF CrossedAll, Registers
<1> DEFINE m == Number(0, a, b, c, d)
<1>3. m \in 0 .. n - 1
  BY DEF Address, Below
<1>4. IsRegister(x[m], 32)
  BY <1>3 DEF Registers
<1>7. CrossedAll(x)[m] = Permute(x[m], 32, 8, D8)
  BY <1>3 DEF Registers, CrossedAll
<1>5. Place(32, z, e, f, g, h)
  BY DEF Address, Place
<1> DEFINE y == x[m]
<1>8. IsRegister(y, 32)
  BY <1>4
<1> HIDE DEF m, y
<1>6. Item(Permute(y, 32, 8, D8), Number(z, e, f, g, h)) = Item(y, Number(e, z, f, g, h))
  BY <1>8, <1>5, CrossedIs
<1> QED
  BY <1>2, <1>7, <1>6 DEF Entry, Item, m, y

\* The networks of shuffle for types of 2, 4 and 8 bytes
LEMMA Transpose2Is ==
  ASSUME NEW x, Registers(x, 2, 16), NEW d,
         NEW e, NEW f, NEW g, NEW h, Address(2, 16, 0, 0, 0, d, 0, e, f, g, h)
  PROVE  /\ Registers(Transpose2(x), 2, 16) /\ Address(2, 16, 0, 0, 0, e, 0, f, g, h, d)
         /\ Entry(Transpose2(x), Number(0, 0, 0, 0, d), Number(0, e, f, g, h))
              = Entry(x, Number(0, 0, 0, 0, e), Number(0, f, g, h, d))
<1> DEFINE x1 == Mapped2(x)
           x2 == Interleave(x1, 8, 1)
<1>a. Transpose2(x) = x2
  BY DEF Transpose2, Mapped2, Bytes2, Map
<1>0. Registers(x, 2, 16)
  OBVIOUS
<1>1. Registers(x1, 2, 16)
  BY <1>0, Mapped2Is
<1>2. Registers(x2, 2, 16) /\ Stride(1, 2)
  <2>1. Stride(1, 2)
    BY DEF Stride
  <2>2. 16 \in Widths
    BY DEF Address
  <2> QED
    BY <1>1, <2>1, <2>2, InterleaveRegisters
<1> HIDE DEF x1, x2
<1>3. Address(2, 16, 0, 0, 0, e, 0, d, f, g, h) /\ Entry(x2, Number(0, 0, 0, 0, d), Number(0, e, f, g, h))
        = Entry(x1, Number(0, 0, 0, 0, e), Number(0, d, f, g, h))
  <2>1. Address(2, 16, 0, 0, 0, e, 0, d, f, g, h)
    BY DEF Address, Below, Number, Bit, Lanes, Widths
  <2> QED
    BY <1>1, <1>2, <2>1, Interleave1 DEF x2
<1>4. Address(2, 16, 0, 0, 0, e, 0, f, g, h, d) /\ Entry(x1, Number(0, 0, 0, 0, e), Number(0, d, f, g, h))
        = Entry(x, Number(0, 0, 0, 0, e), Number(0, f, g, h, d))
  <2>1. Address(2, 16, 0, 0, 0, e, 0, f, g, h, d)
    BY DEF Address, Below, Number, Bit, Lanes, Widths
  <2> QED
    BY <1>0, <1>1, <2>1, <1>3, Mapped2Is DEF x1
<1> QED
  BY <1>a, <1>2, <1>3, <1>4

LEMMA Transpose4Is ==
  ASSUME NEW w, NEW x, Registers(x, 4, w), NEW c, NEW d,
         NEW z, NEW e, NEW f, NEW g, NEW h, Address(4, w, 0, 0, c, d, z, e, f, g, h)
  PROVE  /\ Registers(Transpose4(x), 4, w) /\ Address(4, w, 0, 0, e, f, z, g, h, c, d)
         /\ Entry(Transpose4(x), Number(0, 0, 0, c, d), Number(z, e, f, g, h))
              = Entry(x, Number(0, 0, 0, e, f), Number(z, g, h, c, d))
<1> DEFINE x1 == Mapped4(x)
           x2 == Interleave(x1, 4, 1)
           x3 == Interleave(x2, 8, 2)
<1>a. Transpose4(x) = x3
  BY DEF Transpose4, Mapped4, Bytes4, Map
<1>0. Registers(x, 4, w)
  OBVIOUS
<1>1. Registers(x1, 4, w)
  BY <1>0, Mapped4Is
<1>2. Registers(x2, 4, w) /\ Stride(1, 4)
  <2>1. Stride(1, 4)
    BY DEF Stride
  <2>2. w \in Widths
    BY DEF Address
  <2> QED
    BY <1>1, <2>1, <2>2, InterleaveRegisters
<1>3. Registers(x3, 4, w) /\ Stride(2, 4)
  <2>1. Stride(2, 4)
    BY DEF Stride
  <2>2. w \in Widths
    BY DEF Address
  <2> QED
    BY <1>2, <2>1, <2>2, InterleaveRegisters
<1> HIDE DEF x1, x2, x3
<1>4. Address(4, w, 0, 0, e, c, z, d, f, g, h) /\ Entry(x3, Number(0, 0, 0, c, d), Number(z, e, f, g, h))
        = Entry(x2, Number(0, 0, 0, e, c), Number(z, d, f, g, h))
  <2>1. Address(4, w, 0, 0, e, c, z, d, f, g, h)
    BY DEF Address, Below, Number, Bit, Lanes, Widths
  <2> QED
    BY <1>2, <1>3, <2>1, Interleave2 DEF x3
<1>5. Address(4, w, 0, 0, e, f, z, c, d, g, h) /\ Entry(x2, Number(0, 0, 0, e, c), Number(z, d, f, g, h))
        = Entry(x1, Number(0, 0, 0, e, f), Number(z, c, d, g, h))
  <2>1. Address(4, w, 0, 0, e, f, z, c, d, g, h)
    BY DEF Address, Below, Number, Bit, Lanes, Widths
  <2> QED
    BY <1>1, <1>2, <2>1, <1>4, Interleave1 DEF x2
<1>6. Address(4, w, 0, 0, e, f, z, g, h, c, d) /\ Entry(x1, Number(0, 0, 0, e, f), Number(z, c, d, g, h))
        = Entry(x, Number(0, 0, 0, e, f), Number(z, g, h, c, d))
  <2>1. Address(4, w, 0, 0, e, f, z, g, h, c, d)
    BY DEF Address, Below, Number, Bit, Lanes, Widths
  <2> QED
    BY <1>0, <1>1, <2>1, <1>5, Mapped4Is DEF x1
<1> QED
  BY <1>a, <1>3, <1>4, <1>5, <1>6

LEMMA Transpose8Is ==
  ASSUME NEW w, NEW x, Registers(x, 8, w), NEW b, NEW c, NEW d,
         NEW z, NEW e, NEW f, NEW g, NEW h, Address(8, w, 0, b, c, d, z, e, f, g, h)
  PROVE  /\ Registers(Transpose8(x), 8, w) /\ Address(8, w, 0, e, f, g, z, h, b, c, d)
         /\ Entry(Transpose8(x), Number(0, 0, b, c, d), Number(z, e, f, g, h))
              = Entry(x, Number(0, 0, e, f, g), Number(z, h, b, c, d))
<1> DEFINE x1 == Mapped8(x)
           x2 == Interleave(x1, 2, 1)
           x3 == Interleave(x2, 4, 2)
           x4 == Interleave(x3, 8, 4)
<1>a. Transpose8(x) = x4
  BY DEF Transpose8, Mapped8, Bytes8, Map
<1>0. Registers(x, 8, w)
  OBVIOUS
<1>1. Registers(x1, 8, w)
  BY <1>0, Mapped8Is
<1>2. Registers(x2, 8, w) /\ Stride(1, 8)
  <2>1. Stride(1, 8)
    BY DEF Stride
  <2>2. w \in Widths
    BY DEF Address
  <2> QED
    BY <1>1, <2>1, <2>2, InterleaveRegisters
<1>3. Registers(x3, 8, w) /\ Stride(2, 8)
  <2>1. Stride(2, 8)
    BY DEF Stride
  <2>2. w \in Widths
    BY DEF Address
  <2> QED
    BY <1>2, <2>1, <2>2, InterleaveRegisters
<1>4. Registers(x4, 8, w) /\ Stride(4, 8)
  <2>1. Stride(4, 8)
    BY DEF Stride
  <2>2. w \in Widths
    BY DEF Address
  <2> QED
    BY <1>3, <2>1, <2>2, InterleaveRegisters
<1> HIDE DEF x1, x2, x3, x4
<1>5. Address(8, w, 0, e, b, c, z, d, f, g, h) /\ Entry(x4, Number(0, 0, b, c, d), Number(z, e, f, g, h))
        = Entry(x3, Number(0, 0, e, b, c), Number(z, d, f, g, h))
  <2>1. Address(8, w, 0, e, b, c, z, d, f, g, h)
    BY DEF Address, Below, Number, Bit, Lanes, Widths
  <2> QED
    BY <1>3, <1>4, <2>1, Interleave4 DEF x4
<1>6. Address(8, w, 0, e, f, b, z, c, d, g, h) /\ Entry(x3, Number(0, 0, e, b, c), Number(z, d, f, g, h))
        = Entry(x2, Number(0, 0, e, f, b), Number(z, c, d, g, h))
  <2>1. Address(8, w, 0, e, f, b, z, c, d, g, h)
    BY DEF Address, Below, Number, Bit, Lanes, Widths
  <2> QED
    BY <1>2, <1>3, <2>1, <1>5, Interleave2 DEF x3
<1>7. Address(8, w, 0, e, f, g, z, b, c, d, h) /\ Entry(x2, Number(0, 0, e, f, b), Number(z, c, d, g, h))
        = Entry(x1, Number(0, 0, e, f, g), Number(z, b, c, d, h))
  <2>1. Address(8, w, 0, e, f, g, z, b, c, d, h)
    BY DEF Address, Below, Number, Bit, Lanes, Widths
  <2> QED
    BY <1>1, <1>2, <2>1, <1>6, Interleave1 DEF x2
<1>8. Address(8, w, 0, e, f, g, z, h, b, c, d) /\ Entry(x1, Number(0, 0, e, f, g), Number(z, b, c, d, h))
        = Entry(x, Number(0, 0, e, f, g), Number(z, h, b, c, d))
  <2>1. Address(8, w, 0, e, f, g, z, h, b, c, d)
    BY DEF Address, Below, Number, Bit, Lanes, Widths
  <2> QED
    BY <1>0, <1>1, <2>1, <1>7, Mapped8Is DEF x1
<1> QED
  BY <1>a, <1>4, <1>5, <1>6, <1>7, <1>8

LEMMA Crossed2Is ==
  ASSUME NEW x, Registers(x, 2, 32), NEW d,
         NEW z, NEW e, NEW f, NEW g, NEW h, Address(2, 32, 0, 0, 0, d, z, e, f, g, h)
  PROVE  /\ Registers(Separate(CrossedAll(x), 1, 2), 2, 32) /\ Address(2, 32, 0, 0, 0, h, d, z, e, f, g)
         /\ Entry(Separate(CrossedAll(x), 1, 2), Number(0, 0, 0, 0, d), Number(z, e, f, g, h))
              = Entry(x, Number(0, 0, 0, 0, h), Number(d, z, e, f, g))
<1> DEFINE x1 == CrossedAll(x)
           x2 == Separate(x1, 1, 2)
<1>a. Separate(CrossedAll(x), 1, 2) = x2
  OBVIOUS
<1>0. Registers(x, 2, 32)
  OBVIOUS
<1>1. Registers(x1, 2, 32)
  BY <1>0, CrossedAllIs
<1>2. Registers(x2, 2, 32) /\ Group(2, 2)
  <2>1. Group(2, 2)
    BY DEF Group
  <2>2. 32 \in Widths
    BY DEF Address
  <2> QED
    BY <1>1, <2>1, <2>2, SeparateRegisters
<1> HIDE DEF x1, x2
<1>3. Address(2, 32, 0, 0, 0, h, z, d, e, f, g) /\ Entry(x2, Number(0, 0, 0, 0, d), Number(z, e, f, g, h))
        = Entry(x1, Number(0, 0, 0, 0, h), Number(z, d, e, f, g))
  <2>1. Address(2, 32, 0, 0, 0, h, z, d, e, f, g)
    BY DEF Address, Below, Number, Bit, Lanes, Widths
  <2> QED
    BY <1>1, <1>2, <2>1, Separate2 DEF x2
<1>4. Address(2, 32, 0, 0, 0, h, d, z, e, f, g) /\ Entry(x1, Number(0, 0, 0, 0, h), Number(z, d, e, f, g))
        = Entry(x, Number(0, 0, 0, 0, h), Number(d, z, e, f, g))
  <2>1. Address(2, 32, 0, 0, 0, h, d, z, e, f, g)
    BY DEF Address, Below, Number, Bit, Lanes, Widths
  <2> QED
    BY <1>0, <1>1, <2>1, <1>3, CrossedAllIs DEF x1
<1> QED
  BY <1>a, <1>2, <1>3, <1>4

LEMMA Crossed8Is ==
  ASSUME NEW x, Registers(x, 8, 32), NEW b, NEW c, NEW d,
         NEW z, NEW e, NEW f, NEW g, NEW h, Address(8, 32, 0, b, c, d, z, e, f, g, h)
  PROVE  /\ Registers(Separate(CrossedAll(Separate(Separate(x, 1, 8), 2, 8)), 4, 8), 8, 32) /\ Address(8, 32, 0, f, g, h, b, d, c, z, e)
         /\ Entry(Separate(CrossedAll(Separate(Separate(x, 1, 8), 2, 8)), 4, 8), Number(0, 0, b, c, d), Number(z, e, f, g, h))
              = Entry(x, Number(0, 0, f, g, h), Number(b, d, c, z, e))
<1> DEFINE x1 == Separate(x, 1, 8)
           x2 == Separate(x1, 2, 8)
           x3 == CrossedAll(x2)
           x4 == Separate(x3, 4, 8)
<1>a. Separate(CrossedAll(Separate(Separate(x, 1, 8), 2, 8)), 4, 8) = x4
  OBVIOUS
<1>0. Registers(x, 8, 32)
  OBVIOUS
<1>1. Registers(x1, 8, 32) /\ Group(8, 8)
  <2>1. Group(8, 8)
    BY DEF Group
  <2>2. 32 \in Widths
    BY DEF Address
  <2> QED
    BY <1>0, <2>1, <2>2, SeparateRegisters
<1>2. Registers(x2, 8, 32) /\ Group(8, 8)
  <2>1. Group(8, 8)
    BY DEF Group
  <2>2. 32 \in Widths
    BY DEF Address
  <2> QED
    BY <1>1, <2>1, <2>2, SeparateRegisters
<1>3. Registers(x3, 8, 32)
  BY <1>2, CrossedAllIs
<1>4. Registers(x4, 8, 32) /\ Group(8, 8)
  <2>1. Group(8, 8)
    BY DEF Group
  <2>2. 32 \in Widths
    BY DEF Address
  <2> QED
    BY <1>3, <2>1, <2>2, SeparateRegisters
<1> HIDE DEF x1, x2, x3, x4
<1>5. Address(8, 32, 0, c, d, f, z, b, e, g, h) /\ Entry(x4, Number(0, 0, b, c, d), Number(z, e, f, g, h))
        = Entry(x3, Number(0, 0, c, d, f), Number(z, b, e, g, h))
  <2>1. Address(8, 32, 0, c, d, f, z, b, e, g, h)
    BY DEF Address, Below, Number, Bit, Lanes, Widths
  <2> QED
    BY <1>3, <1>4, <2>1, Separate8 DEF x4
<1>6. Address(8, 32, 0, c, d, f, b, z, e, g, h) /\ Entry(x3, Number(0, 0, c, d, f), Number(z, b, e, g, h))
        = Entry(x2, Number(0, 0, c, d, f), Number(b, z, e, g, h))
  <2>1. Address(8, 32, 0, c, d, f, b, z, e, g, h)
    BY DEF Address, Below, Number, Bit, Lanes, Widths
  <2> QED
    BY <1>2, <1>3, <2>1, <1>5, CrossedAllIs DEF x3
<1>7. Address(8, 32, 0, d, f, g, b, c, z, e, h) /\ Entry(x2, Number(0, 0, c, d, f), Number(b, z, e, g, h))
        = Entry(x1, Number(0, 0, d, f, g), Number(b, c, z, e, h))
  <2>1. Address(8, 32, 0, d, f, g, b, c, z, e, h)
    BY DEF Address, Below, Number, Bit, Lanes, Widths
  <2> QED
    BY <1>1, <1>2, <2>1, <1>6, Separate8 DEF x2
<1>8. Address(8, 32, 0, f, g, h, b, d, c, z, e) /\ Entry(x1, Number(0, 0, d, f, g), Number(b, c, z, e, h))
        = Entry(x, Number(0, 0, f, g, h), Number(b, d, c, z, e))
  <2>1. Address(8, 32, 0, f, g, h, b, d, c, z, e)
    BY DEF Address, Below, Number, Bit, Lanes, Widths
  <2> QED
    BY <1>0, <1>1, <2>1, <1>7, Separate8 DEF x1
<1> QED
  BY <1>a, <1>4, <1>5, <1>6, <1>7, <1>8

LEMMA Plain8Is ==
  ASSUME NEW x, Registers(x, 8, 16), NEW b, NEW c, NEW d,
         NEW e, NEW f, NEW g, NEW h, Address(8, 16, 0, b, c, d, 0, e, f, g, h)
  PROVE  /\ Registers(Separate(Separate(Separate(x, 1, 8), 2, 8), 4, 8), 8, 16) /\ Address(8, 16, 0, f, g, h, 0, d, c, b, e)
         /\ Entry(Separate(Separate(Separate(x, 1, 8), 2, 8), 4, 8), Number(0, 0, b, c, d), Number(0, e, f, g, h))
              = Entry(x, Number(0, 0, f, g, h), Number(0, d, c, b, e))
<1> DEFINE x1 == Separate(x, 1, 8)
           x2 == Separate(x1, 2, 8)
           x3 == Separate(x2, 4, 8)
<1>a. Separate(Separate(Separate(x, 1, 8), 2, 8), 4, 8) = x3
  OBVIOUS
<1>0. Registers(x, 8, 16)
  OBVIOUS
<1>1. Registers(x1, 8, 16) /\ Group(8, 8)
  <2>1. Group(8, 8)
    BY DEF Group
  <2>2. 16 \in Widths
    BY DEF Address
  <2> QED
    BY <1>0, <2>1, <2>2, SeparateRegisters
<1>2. Registers(x2, 8, 16) /\ Group(8, 8)
  <2>1. Group(8, 8)
    BY DEF Group
  <2>2. 16 \in Widths
    BY DEF Address
  <2> QED
    BY <1>1, <2>1, <2>2, SeparateRegisters
<1>3. Registers(x3, 8, 16) /\ Group(8, 8)
  <2>1. Group(8, 8)
    BY DEF Group
  <2>2. 16 \in Widths
    BY DEF Address
  <2> QED
    BY <1>2, <2>1, <2>2, SeparateRegisters
<1> HIDE DEF x1, x2, x3
<1>4. Address(8, 16, 0, c, d, f, 0, b, e, g, h) /\ Entry(x3, Number(0, 0, b, c, d), Number(0, e, f, g, h))
        = Entry(x2, Number(0, 0, c, d, f), Number(0, b, e, g, h))
  <2>1. Address(8, 16, 0, c, d, f, 0, b, e, g, h)
    BY DEF Address, Below, Number, Bit, Lanes, Widths
  <2> QED
    BY <1>2, <1>3, <2>1, Separate8 DEF x3
<1>5. Address(8, 16, 0, d, f, g, 0, c, b, e, h) /\ Entry(x2, Number(0, 0, c, d, f), Number(0, b, e, g, h))
        = Entry(x1, Number(0, 0, d, f, g), Number(0, c, b, e, h))
  <2>1. Address(8, 16, 0, d, f, g, 0, c, b, e, h)
    BY DEF Address, Below, Number, Bit, Lanes, Widths
  <2> QED
    BY <1>1, <1>2, <2>1, <1>4, Separate8 DEF x2
<1>6. Address(8, 16, 0, f, g, h, 0, d, c, b, e) /\ Entry(x1, Number(0, 0, d, f, g), Number(0, c, b, e, h))
        = Entry(x, Number(0, 0, f, g, h), Number(0, d, c, b, e))
  <2>1. Address(8, 16, 0, f, g, h, 0, d, c, b, e)
    BY DEF Address, Below, Number, Bit, Lanes, Widths
  <2> QED
    BY <1>0, <1>1, <2>1, <1>5, Separate8 DEF x1
<1> QED
  BY <1>a, <1>3, <1>4, <1>5, <1>6

-----------------------------------------------------------------------------
(* The registers of unshuffle in their order; the networks for each type   *)
(* and width                                                               *)

\* The orders in which unshuffle stores its registers
LEMMA Reordered4Is ==
  ASSUME NEW w, NEW x, Registers(x, 4, w), NEW c, NEW d,
         NEW z, NEW e, NEW f, NEW g, NEW h, Address(4, w, 0, 0, c, d, z, e, f, g, h)
  PROVE  /\ Registers(Reordered(x, Order4), 4, w)
         /\ Entry(Reordered(x, Order4), Number(0, 0, 0, c, d), Number(z, e, f, g, h)) = Entry(x, Number(0, 0, 0, d, c), Number(z, e, f, g, h))
<1>1. \A k \in 0 .. 3 : Order4[k + 1] \in 0 .. 3
  BY DEF Order4, D8
<1>2. Registers(Reordered(x, Order4), 4, w)
  BY <1>1 DEF Reordered, Registers
<1>3. Number(0, 0, 0, c, d) \in 0 .. 3 /\ Order4[Number(0, 0, 0, c, d) + 1] = Number(0, 0, 0, d, c)
  BY DEF Address, Number, Bit, Order4, D8
<1> DEFINE m == Number(0, 0, 0, c, d)
<1>4. m \in 0 .. 3 /\ Order4[m + 1] = Number(0, 0, 0, d, c)
  BY <1>3
<1> HIDE DEF m
<1>5. Reordered(x, Order4)[m] = x[Order4[m + 1]]
  BY <1>4 DEF Reordered, Registers
<1> QED
  BY <1>2, <1>4, <1>5 DEF Entry, m

LEMMA Reordered8Is ==
  ASSUME NEW w, NEW x, Registers(x, 8, w), NEW b, NEW c, NEW d,
         NEW z, NEW e, NEW f, NEW g, NEW h, Address(8, w, 0, b, c, d, z, e, f, g, h)
  PROVE  /\ Registers(Reordered(x, Order8), 8, w)
         /\ Entry(Reordered(x, Order8), Number(0, 0, b, c, d), Number(z, e, f, g, h)) = Entry(x, Number(0, 0, d, c, b), Number(z, e, f, g, h))
<1>1. \A k \in 0 .. 7 : Order8[k + 1] \in 0 .. 7
  BY DEF Order8
<1>2. Registers(Reordered(x, Order8), 8, w)
  BY <1>1 DEF Reordered, Registers
<1>3. Number(0, 0, b, c, d) \in 0 .. 7 /\ Order8[Number(0, 0, b, c, d) + 1] = Number(0, 0, d, c, b)
  BY DEF Address, Number, Bit, Order8
<1> DEFINE m == Number(0, 0, b, c, d)
<1>4. m \in 0 .. 7 /\ Order8[m + 1] = Number(0, 0, d, c, b)
  BY <1>3
<1> HIDE DEF m
<1>5. Reordered(x, Order8)[m] = x[Order8[m + 1]]
  BY <1>4 DEF Reordered, Registers
<1> QED
  BY <1>2, <1>4, <1>5 DEF Entry, m

LEMMA Reordered16Is ==
  ASSUME NEW w, NEW x, Registers(x, 16, w), NEW a, NEW b, NEW c, NEW d,
         NEW z, NEW e, NEW f, NEW g, NEW h, Address(16, w, a, b, c, d, z, e, f, g, h)
  PROVE  /\ Registers(Reordered(x, Order16), 16, w)
         /\ Entry(Reordered(x, Order16), Number(0, a, b, c, d), Number(z, e, f, g, h)) = Entry(x, Number(0, d, c, b, a), Number(z, e, f, g, h))
<1>1. \A k \in 0 .. 15 : Order16[k + 1] \in 0 .. 15
  BY DEF Order16
<1>2. Registers(Reordered(x, Order16), 16, w)
  BY <1>1 DEF Reordered, Registers
<1>3. Number(0, a, b, c, d) \in 0 .. 15 /\ Order16[Number(0, a, b, c, d) + 1] = Number(0, d, c, b, a)
  BY DEF Address, Number, Bit, Order16
<1> DEFINE m == Number(0, a, b, c, d)
<1>4. m \in 0 .. 15 /\ Order16[m + 1] = Number(0, d, c, b, a)
  BY <1>3
<1> HIDE DEF m
<1>5. Reordered(x, Order16)[m] = x[Order16[m + 1]]
  BY <1>4 DEF Reordered, Registers
<1> QED
  BY <1>2, <1>4, <1>5 DEF Entry, m

LEMMA ReorderedLanes8Is ==
  ASSUME NEW w, NEW x, Registers(x, 8, w), NEW b, NEW c, NEW d,
         NEW z, NEW e, NEW f, NEW g, NEW h, Address(8, w, 0, b, c, d, z, e, f, g, h)
  PROVE  /\ Registers(Reordered(x, Order8Lanes), 8, w)
         /\ Entry(Reordered(x, Order8Lanes), Number(0, 0, b, c, d), Number(z, e, f, g, h)) = Entry(x, Number(0, 0, b, d, c), Number(z, e, f, g, h))
<1>1. \A k \in 0 .. 7 : Order8Lanes[k + 1] \in 0 .. 7
  BY DEF Order8Lanes
<1>2. Registers(Reordered(x, Order8Lanes), 8, w)
  BY <1>1 DEF Reordered, Registers
<1>3. Number(0, 0, b, c, d) \in 0 .. 7 /\ Order8Lanes[Number(0, 0, b, c, d) + 1] = Number(0, 0, b, d, c)
  BY DEF Address, Number, Bit, Order8Lanes
<1> DEFINE m == Number(0, 0, b, c, d)
<1>4. m \in 0 .. 7 /\ Order8Lanes[m + 1] = Number(0, 0, b, d, c)
  BY <1>3
<1> HIDE DEF m
<1>5. Reordered(x, Order8Lanes)[m] = x[Order8Lanes[m + 1]]
  BY <1>4 DEF Reordered, Registers
<1> QED
  BY <1>2, <1>4, <1>5 DEF Entry, m

LEMMA ReorderedLanes16Is ==
  ASSUME NEW w, NEW x, Registers(x, 16, w), NEW a, NEW b, NEW c, NEW d,
         NEW z, NEW e, NEW f, NEW g, NEW h, Address(16, w, a, b, c, d, z, e, f, g, h)
  PROVE  /\ Registers(Reordered(x, Order16Lanes), 16, w)
         /\ Entry(Reordered(x, Order16Lanes), Number(0, a, b, c, d), Number(z, e, f, g, h)) = Entry(x, Number(0, a, d, c, b), Number(z, e, f, g, h))
<1>1. \A k \in 0 .. 15 : Order16Lanes[k + 1] \in 0 .. 15
  BY DEF Order16Lanes
<1>2. Registers(Reordered(x, Order16Lanes), 16, w)
  BY <1>1 DEF Reordered, Registers
<1>3. Number(0, a, b, c, d) \in 0 .. 15 /\ Order16Lanes[Number(0, a, b, c, d) + 1] = Number(0, a, d, c, b)
  BY DEF Address, Number, Bit, Order16Lanes
<1> DEFINE m == Number(0, a, b, c, d)
<1>4. m \in 0 .. 15 /\ Order16Lanes[m + 1] = Number(0, a, d, c, b)
  BY <1>3
<1> HIDE DEF m
<1>5. Reordered(x, Order16Lanes)[m] = x[Order16Lanes[m + 1]]
  BY <1>4 DEF Reordered, Registers
<1> QED
  BY <1>2, <1>4, <1>5 DEF Entry, m

\* Lanes of registers that are half of all apart
LEMMA SplitLanes2Is ==
  ASSUME NEW x, Registers(x, 4, 32), NEW c, NEW d,
         NEW z, NEW e, NEW f, NEW g, NEW h, Address(4, 32, 0, 0, c, d, z, e, f, g, h)
  PROVE  /\ Registers(SplitLanes(x, 2), 4, 32)
         /\ Entry(SplitLanes(x, 2), Number(0, 0, 0, c, d), Number(z, e, f, g, h)) = Entry(x, Number(0, 0, 0, z, d), Number(c, e, f, g, h))
<1>1. ASSUME NEW k \in 0 .. 3 PROVE IsRegister(Halves(x[k % 2], x[(k % 2) + 2], k \div 2, k \div 2), 32)
  <2>1. k % 2 \in 0 .. 3
    OBVIOUS
  <2>2. IsRegister(x[k % 2], 32)
    BY <2>1 DEF Registers
  <2> QED
    BY <2>2 DEF Halves, IsRegister
<1>2. Registers(SplitLanes(x, 2), 4, 32)
  BY <1>1 DEF SplitLanes, Registers
<1> DEFINE m == Number(0, 0, 0, c, d)
           X == x[Number(0, 0, 0, 0, d)]
           Y == x[Number(0, 0, 0, 1, d)]
<1>3. m \in 0 .. 3 /\ m % 2 = Number(0, 0, 0, 0, d) /\ (m % 2) + 2 = Number(0, 0, 0, 1, d) /\ m \div 2 = c /\ Number(0, 0, 0, 0, d) \in 0 .. 3
  BY DEF Address, Number, Bit
<1>4. SplitLanes(x, 2)[m] = Halves(X, Y, c, c) /\ IsRegister(X, 32)
  BY <1>3 DEF SplitLanes, Registers
<1>5. z \in Bit /\ e \in Bit /\ f \in Bit /\ g \in Bit /\ h \in Bit /\ c \in Bit
  BY DEF Address, Lanes, Bit
<1> HIDE DEF m, X, Y
<1>6. Item(Halves(X, Y, c, c), Number(z, e, f, g, h)) = IF z = 0 THEN Item(X, Number(c, e, f, g, h)) ELSE Item(Y, Number(c, e, f, g, h))
  BY <1>4, <1>5, HalvesAre
<1>7. z = 0 \/ z = 1
  BY <1>5 DEF Bit
<1> QED
  BY <1>2, <1>4, <1>6, <1>7 DEF m, X, Y, Entry, Item

LEMMA SplitLanes8Is ==
  ASSUME NEW x, Registers(x, 16, 32), NEW a, NEW b, NEW c, NEW d,
         NEW z, NEW e, NEW f, NEW g, NEW h, Address(16, 32, a, b, c, d, z, e, f, g, h)
  PROVE  /\ Registers(SplitLanes(x, 8), 16, 32)
         /\ Entry(SplitLanes(x, 8), Number(0, a, b, c, d), Number(z, e, f, g, h)) = Entry(x, Number(0, z, b, c, d), Number(a, e, f, g, h))
<1>1. ASSUME NEW k \in 0 .. 15 PROVE IsRegister(Halves(x[k % 8], x[(k % 8) + 8], k \div 8, k \div 8), 32)
  <2>1. k % 8 \in 0 .. 15
    OBVIOUS
  <2>2. IsRegister(x[k % 8], 32)
    BY <2>1 DEF Registers
  <2> QED
    BY <2>2 DEF Halves, IsRegister
<1>2. Registers(SplitLanes(x, 8), 16, 32)
  BY <1>1 DEF SplitLanes, Registers
<1> DEFINE m == Number(0, a, b, c, d)
           X == x[Number(0, 0, b, c, d)]
           Y == x[Number(0, 1, b, c, d)]
<1>3. m \in 0 .. 15 /\ m % 8 = Number(0, 0, b, c, d) /\ (m % 8) + 8 = Number(0, 1, b, c, d) /\ m \div 8 = a /\ Number(0, 0, b, c, d) \in 0 .. 15
  BY DEF Address, Number, Bit
<1>4. SplitLanes(x, 8)[m] = Halves(X, Y, a, a) /\ IsRegister(X, 32)
  BY <1>3 DEF SplitLanes, Registers
<1>5. z \in Bit /\ e \in Bit /\ f \in Bit /\ g \in Bit /\ h \in Bit /\ a \in Bit
  BY DEF Address, Lanes, Bit
<1> HIDE DEF m, X, Y
<1>6. Item(Halves(X, Y, a, a), Number(z, e, f, g, h)) = IF z = 0 THEN Item(X, Number(a, e, f, g, h)) ELSE Item(Y, Number(a, e, f, g, h))
  BY <1>4, <1>5, HalvesAre
<1>7. z = 0 \/ z = 1
  BY <1>5 DEF Bit
<1> QED
  BY <1>2, <1>4, <1>6, <1>7 DEF m, X, Y, Entry, Item

\* Transpose(type, width): the bits of register and byte change places.
LEMMA Shuffle4x16 ==
  ASSUME NEW x, Registers(x, 4, 16), NEW c, NEW d,
         NEW e, NEW f, NEW g, NEW h, Address(4, 16, 0, 0, c, d, 0, e, f, g, h)
  PROVE  /\ Registers(Transpose(4, 16, x), 4, 16) /\ Address(4, 16, 0, 0, e, f, 0, g, h, c, d)
         /\ Entry(Transpose(4, 16, x), Number(0, 0, 0, c, d), Number(0, e, f, g, h))
              = Entry(x, Number(0, 0, 0, e, f), Number(0, g, h, c, d))
<1> DEFINE x1 == Mapped4(x)
           x2 == Interleave(x1, 4, 1)
           x3 == Interleave(x2, 8, 2)
<1>a. Transpose(4, 16, x) = x3
  BY DEF Transpose, Transpose4, Mapped4, Bytes4, Map
<1>0. Registers(x, 4, 16)
  OBVIOUS
<1>1. Registers(x1, 4, 16)
  BY <1>0, Mapped4Is
<1>2. Registers(x2, 4, 16) /\ Stride(1, 4)
  <2>1. Stride(1, 4)
    BY DEF Stride
  <2>2. 16 \in Widths
    BY DEF Address
  <2> QED
    BY <1>1, <2>1, <2>2, InterleaveRegisters
<1>3. Registers(x3, 4, 16) /\ Stride(2, 4)
  <2>1. Stride(2, 4)
    BY DEF Stride
  <2>2. 16 \in Widths
    BY DEF Address
  <2> QED
    BY <1>2, <2>1, <2>2, InterleaveRegisters
<1> HIDE DEF x1, x2, x3
<1>4. Address(4, 16, 0, 0, e, c, 0, d, f, g, h) /\ Entry(x3, Number(0, 0, 0, c, d), Number(0, e, f, g, h))
        = Entry(x2, Number(0, 0, 0, e, c), Number(0, d, f, g, h))
  <2>1. Address(4, 16, 0, 0, e, c, 0, d, f, g, h)
    BY DEF Address, Below, Number, Bit, Lanes, Widths
  <2> QED
    BY <1>2, <1>3, <2>1, Interleave2 DEF x3
<1>5. Address(4, 16, 0, 0, e, f, 0, c, d, g, h) /\ Entry(x2, Number(0, 0, 0, e, c), Number(0, d, f, g, h))
        = Entry(x1, Number(0, 0, 0, e, f), Number(0, c, d, g, h))
  <2>1. Address(4, 16, 0, 0, e, f, 0, c, d, g, h)
    BY DEF Address, Below, Number, Bit, Lanes, Widths
  <2> QED
    BY <1>1, <1>2, <2>1, <1>4, Interleave1 DEF x2
<1>6. Address(4, 16, 0, 0, e, f, 0, g, h, c, d) /\ Entry(x1, Number(0, 0, 0, e, f), Number(0, c, d, g, h))
        = Entry(x, Number(0, 0, 0, e, f), Number(0, g, h, c, d))
  <2>1. Address(4, 16, 0, 0, e, f, 0, g, h, c, d)
    BY DEF Address, Below, Number, Bit, Lanes, Widths
  <2> QED
    BY <1>0, <1>1, <2>1, <1>5, Mapped4Is DEF x1
<1> QED
  BY <1>a, <1>3, <1>4, <1>5, <1>6

LEMMA Shuffle8x16 ==
  ASSUME NEW x, Registers(x, 8, 16), NEW b, NEW c, NEW d,
         NEW e, NEW f, NEW g, NEW h, Address(8, 16, 0, b, c, d, 0, e, f, g, h)
  PROVE  /\ Registers(Transpose(8, 16, x), 8, 16) /\ Address(8, 16, 0, e, f, g, 0, h, b, c, d)
         /\ Entry(Transpose(8, 16, x), Number(0, 0, b, c, d), Number(0, e, f, g, h))
              = Entry(x, Number(0, 0, e, f, g), Number(0, h, b, c, d))
<1> DEFINE x1 == Mapped8(x)
           x2 == Interleave(x1, 2, 1)
           x3 == Interleave(x2, 4, 2)
           x4 == Interleave(x3, 8, 4)
<1>a. Transpose(8, 16, x) = x4
  BY DEF Transpose, Transpose8, Mapped8, Bytes8, Map
<1>0. Registers(x, 8, 16)
  OBVIOUS
<1>1. Registers(x1, 8, 16)
  BY <1>0, Mapped8Is
<1>2. Registers(x2, 8, 16) /\ Stride(1, 8)
  <2>1. Stride(1, 8)
    BY DEF Stride
  <2>2. 16 \in Widths
    BY DEF Address
  <2> QED
    BY <1>1, <2>1, <2>2, InterleaveRegisters
<1>3. Registers(x3, 8, 16) /\ Stride(2, 8)
  <2>1. Stride(2, 8)
    BY DEF Stride
  <2>2. 16 \in Widths
    BY DEF Address
  <2> QED
    BY <1>2, <2>1, <2>2, InterleaveRegisters
<1>4. Registers(x4, 8, 16) /\ Stride(4, 8)
  <2>1. Stride(4, 8)
    BY DEF Stride
  <2>2. 16 \in Widths
    BY DEF Address
  <2> QED
    BY <1>3, <2>1, <2>2, InterleaveRegisters
<1> HIDE DEF x1, x2, x3, x4
<1>5. Address(8, 16, 0, e, b, c, 0, d, f, g, h) /\ Entry(x4, Number(0, 0, b, c, d), Number(0, e, f, g, h))
        = Entry(x3, Number(0, 0, e, b, c), Number(0, d, f, g, h))
  <2>1. Address(8, 16, 0, e, b, c, 0, d, f, g, h)
    BY DEF Address, Below, Number, Bit, Lanes, Widths
  <2> QED
    BY <1>3, <1>4, <2>1, Interleave4 DEF x4
<1>6. Address(8, 16, 0, e, f, b, 0, c, d, g, h) /\ Entry(x3, Number(0, 0, e, b, c), Number(0, d, f, g, h))
        = Entry(x2, Number(0, 0, e, f, b), Number(0, c, d, g, h))
  <2>1. Address(8, 16, 0, e, f, b, 0, c, d, g, h)
    BY DEF Address, Below, Number, Bit, Lanes, Widths
  <2> QED
    BY <1>2, <1>3, <2>1, <1>5, Interleave2 DEF x3
<1>7. Address(8, 16, 0, e, f, g, 0, b, c, d, h) /\ Entry(x2, Number(0, 0, e, f, b), Number(0, c, d, g, h))
        = Entry(x1, Number(0, 0, e, f, g), Number(0, b, c, d, h))
  <2>1. Address(8, 16, 0, e, f, g, 0, b, c, d, h)
    BY DEF Address, Below, Number, Bit, Lanes, Widths
  <2> QED
    BY <1>1, <1>2, <2>1, <1>6, Interleave1 DEF x2
<1>8. Address(8, 16, 0, e, f, g, 0, h, b, c, d) /\ Entry(x1, Number(0, 0, e, f, g), Number(0, b, c, d, h))
        = Entry(x, Number(0, 0, e, f, g), Number(0, h, b, c, d))
  <2>1. Address(8, 16, 0, e, f, g, 0, h, b, c, d)
    BY DEF Address, Below, Number, Bit, Lanes, Widths
  <2> QED
    BY <1>0, <1>1, <2>1, <1>7, Mapped8Is DEF x1
<1> QED
  BY <1>a, <1>4, <1>5, <1>6, <1>7, <1>8

LEMMA Shuffle16x16 ==
  ASSUME NEW x, Registers(x, 16, 16), NEW a, NEW b, NEW c, NEW d,
         NEW e, NEW f, NEW g, NEW h, Address(16, 16, a, b, c, d, 0, e, f, g, h)
  PROVE  /\ Registers(Transpose(16, 16, x), 16, 16) /\ Address(16, 16, e, f, g, h, 0, a, b, c, d)
         /\ Entry(Transpose(16, 16, x), Number(0, a, b, c, d), Number(0, e, f, g, h))
              = Entry(x, Number(0, e, f, g, h), Number(0, a, b, c, d))
<1> DEFINE x1 == Interleave(x, 1, 1)
           x2 == Interleave(x1, 2, 2)
           x3 == Interleave(x2, 4, 4)
           x4 == Interleave(x3, 8, 8)
<1>a. Transpose(16, 16, x) = x4
  BY DEF Transpose, Transpose16
<1>0. Registers(x, 16, 16)
  OBVIOUS
<1>1. Registers(x1, 16, 16) /\ Stride(1, 16)
  <2>1. Stride(1, 16)
    BY DEF Stride
  <2>2. 16 \in Widths
    BY DEF Address
  <2> QED
    BY <1>0, <2>1, <2>2, InterleaveRegisters
<1>2. Registers(x2, 16, 16) /\ Stride(2, 16)
  <2>1. Stride(2, 16)
    BY DEF Stride
  <2>2. 16 \in Widths
    BY DEF Address
  <2> QED
    BY <1>1, <2>1, <2>2, InterleaveRegisters
<1>3. Registers(x3, 16, 16) /\ Stride(4, 16)
  <2>1. Stride(4, 16)
    BY DEF Stride
  <2>2. 16 \in Widths
    BY DEF Address
  <2> QED
    BY <1>2, <2>1, <2>2, InterleaveRegisters
<1>4. Registers(x4, 16, 16) /\ Stride(8, 16)
  <2>1. Stride(8, 16)
    BY DEF Stride
  <2>2. 16 \in Widths
    BY DEF Address
  <2> QED
    BY <1>3, <2>1, <2>2, InterleaveRegisters
<1> HIDE DEF x1, x2, x3, x4
<1>5. Address(16, 16, e, a, b, c, 0, d, f, g, h) /\ Entry(x4, Number(0, a, b, c, d), Number(0, e, f, g, h))
        = Entry(x3, Number(0, e, a, b, c), Number(0, d, f, g, h))
  <2>1. Address(16, 16, e, a, b, c, 0, d, f, g, h)
    BY DEF Address, Below, Number, Bit, Lanes, Widths
  <2> QED
    BY <1>3, <1>4, <2>1, Interleave8 DEF x4
<1>6. Address(16, 16, e, f, a, b, 0, c, d, g, h) /\ Entry(x3, Number(0, e, a, b, c), Number(0, d, f, g, h))
        = Entry(x2, Number(0, e, f, a, b), Number(0, c, d, g, h))
  <2>1. Address(16, 16, e, f, a, b, 0, c, d, g, h)
    BY DEF Address, Below, Number, Bit, Lanes, Widths
  <2> QED
    BY <1>2, <1>3, <2>1, <1>5, Interleave4 DEF x3
<1>7. Address(16, 16, e, f, g, a, 0, b, c, d, h) /\ Entry(x2, Number(0, e, f, a, b), Number(0, c, d, g, h))
        = Entry(x1, Number(0, e, f, g, a), Number(0, b, c, d, h))
  <2>1. Address(16, 16, e, f, g, a, 0, b, c, d, h)
    BY DEF Address, Below, Number, Bit, Lanes, Widths
  <2> QED
    BY <1>1, <1>2, <2>1, <1>6, Interleave2 DEF x2
<1>8. Address(16, 16, e, f, g, h, 0, a, b, c, d) /\ Entry(x1, Number(0, e, f, g, a), Number(0, b, c, d, h))
        = Entry(x, Number(0, e, f, g, h), Number(0, a, b, c, d))
  <2>1. Address(16, 16, e, f, g, h, 0, a, b, c, d)
    BY DEF Address, Below, Number, Bit, Lanes, Widths
  <2> QED
    BY <1>0, <1>1, <2>1, <1>7, Interleave1 DEF x1
<1> QED
  BY <1>a, <1>4, <1>5, <1>6, <1>7, <1>8

LEMMA Shuffle2x16 ==
  ASSUME NEW x, Registers(x, 2, 16), NEW d,
         NEW e, NEW f, NEW g, NEW h, Address(2, 16, 0, 0, 0, d, 0, e, f, g, h)
  PROVE  /\ Registers(Transpose(2, 16, x), 2, 16) /\ Address(2, 16, 0, 0, 0, e, 0, f, g, h, d)
         /\ Entry(Transpose(2, 16, x), Number(0, 0, 0, 0, d), Number(0, e, f, g, h))
              = Entry(x, Number(0, 0, 0, 0, e), Number(0, f, g, h, d))
<1> DEFINE x1 == Mapped2(x)
           x2 == Interleave(x1, 8, 1)
<1>a. Transpose(2, 16, x) = x2
  BY DEF Transpose, Transpose2, Mapped2, Bytes2, Map
<1>0. Registers(x, 2, 16)
  OBVIOUS
<1>1. Registers(x1, 2, 16)
  BY <1>0, Mapped2Is
<1>2. Registers(x2, 2, 16) /\ Stride(1, 2)
  <2>1. Stride(1, 2)
    BY DEF Stride
  <2>2. 16 \in Widths
    BY DEF Address
  <2> QED
    BY <1>1, <2>1, <2>2, InterleaveRegisters
<1> HIDE DEF x1, x2
<1>3. Address(2, 16, 0, 0, 0, e, 0, d, f, g, h) /\ Entry(x2, Number(0, 0, 0, 0, d), Number(0, e, f, g, h))
        = Entry(x1, Number(0, 0, 0, 0, e), Number(0, d, f, g, h))
  <2>1. Address(2, 16, 0, 0, 0, e, 0, d, f, g, h)
    BY DEF Address, Below, Number, Bit, Lanes, Widths
  <2> QED
    BY <1>1, <1>2, <2>1, Interleave1 DEF x2
<1>4. Address(2, 16, 0, 0, 0, e, 0, f, g, h, d) /\ Entry(x1, Number(0, 0, 0, 0, e), Number(0, d, f, g, h))
        = Entry(x, Number(0, 0, 0, 0, e), Number(0, f, g, h, d))
  <2>1. Address(2, 16, 0, 0, 0, e, 0, f, g, h, d)
    BY DEF Address, Below, Number, Bit, Lanes, Widths
  <2> QED
    BY <1>0, <1>1, <2>1, <1>3, Mapped2Is DEF x1
<1> QED
  BY <1>a, <1>2, <1>3, <1>4

LEMMA Shuffle4x32 ==
  ASSUME NEW x, Registers(x, 4, 32), NEW c, NEW d,
         NEW z, NEW e, NEW f, NEW g, NEW h, Address(4, 32, 0, 0, c, d, z, e, f, g, h)
  PROVE  /\ Registers(Transpose(4, 32, x), 4, 32) /\ Address(4, 32, 0, 0, z, e, f, g, h, c, d)
         /\ Entry(Transpose(4, 32, x), Number(0, 0, 0, c, d), Number(z, e, f, g, h))
              = Entry(x, Number(0, 0, 0, z, e), Number(f, g, h, c, d))
<1> DEFINE x1 == Mapped4(x)
           x2 == Interleave(x1, 4, 1)
           x3 == Interleave(x2, 8, 2)
           x4 == Joined4(x3)
<1>a. Transpose(4, 32, x) = x4
  BY DEF Transpose, Transpose4, Mapped4, Bytes4, Map, Joined4
<1>0. Registers(x, 4, 32)
  OBVIOUS
<1>1. Registers(x1, 4, 32)
  BY <1>0, Mapped4Is
<1>2. Registers(x2, 4, 32) /\ Stride(1, 4)
  <2>1. Stride(1, 4)
    BY DEF Stride
  <2>2. 32 \in Widths
    BY DEF Address
  <2> QED
    BY <1>1, <2>1, <2>2, InterleaveRegisters
<1>3. Registers(x3, 4, 32) /\ Stride(2, 4)
  <2>1. Stride(2, 4)
    BY DEF Stride
  <2>2. 32 \in Widths
    BY DEF Address
  <2> QED
    BY <1>2, <2>1, <2>2, InterleaveRegisters
<1>4. Registers(x4, 4, 32)
  BY <1>3, Joined4Is
<1> HIDE DEF x1, x2, x3, x4
<1>5. Address(4, 32, 0, 0, c, d, f, z, e, g, h) /\ Entry(x4, Number(0, 0, 0, c, d), Number(z, e, f, g, h))
        = Entry(x3, Number(0, 0, 0, c, d), Number(f, z, e, g, h))
  <2>1. Address(4, 32, 0, 0, c, d, f, z, e, g, h)
    BY DEF Address, Below, Number, Bit, Lanes, Widths
  <2> QED
    BY <1>3, <1>4, <2>1, Joined4Is DEF x4
<1>6. Address(4, 32, 0, 0, z, c, f, d, e, g, h) /\ Entry(x3, Number(0, 0, 0, c, d), Number(f, z, e, g, h))
        = Entry(x2, Number(0, 0, 0, z, c), Number(f, d, e, g, h))
  <2>1. Address(4, 32, 0, 0, z, c, f, d, e, g, h)
    BY DEF Address, Below, Number, Bit, Lanes, Widths
  <2> QED
    BY <1>2, <1>3, <2>1, <1>5, Interleave2 DEF x3
<1>7. Address(4, 32, 0, 0, z, e, f, c, d, g, h) /\ Entry(x2, Number(0, 0, 0, z, c), Number(f, d, e, g, h))
        = Entry(x1, Number(0, 0, 0, z, e), Number(f, c, d, g, h))
  <2>1. Address(4, 32, 0, 0, z, e, f, c, d, g, h)
    BY DEF Address, Below, Number, Bit, Lanes, Widths
  <2> QED
    BY <1>1, <1>2, <2>1, <1>6, Interleave1 DEF x2
<1>8. Address(4, 32, 0, 0, z, e, f, g, h, c, d) /\ Entry(x1, Number(0, 0, 0, z, e), Number(f, c, d, g, h))
        = Entry(x, Number(0, 0, 0, z, e), Number(f, g, h, c, d))
  <2>1. Address(4, 32, 0, 0, z, e, f, g, h, c, d)
    BY DEF Address, Below, Number, Bit, Lanes, Widths
  <2> QED
    BY <1>0, <1>1, <2>1, <1>7, Mapped4Is DEF x1
<1> QED
  BY <1>a, <1>4, <1>5, <1>6, <1>7, <1>8

LEMMA Shuffle8x32 ==
  ASSUME NEW x, Registers(x, 8, 32), NEW b, NEW c, NEW d,
         NEW z, NEW e, NEW f, NEW g, NEW h, Address(8, 32, 0, b, c, d, z, e, f, g, h)
  PROVE  /\ Registers(Transpose(8, 32, x), 8, 32) /\ Address(8, 32, 0, z, e, f, g, h, b, c, d)
         /\ Entry(Transpose(8, 32, x), Number(0, 0, b, c, d), Number(z, e, f, g, h))
              = Entry(x, Number(0, 0, z, e, f), Number(g, h, b, c, d))
<1> DEFINE x1 == Mapped8(x)
           x2 == Interleave(x1, 2, 1)
           x3 == Interleave(x2, 4, 2)
           x4 == Interleave(x3, 8, 4)
           x5 == Joined8(x4)
<1>a. Transpose(8, 32, x) = x5
  BY DEF Transpose, Transpose8, Mapped8, Bytes8, Map, Joined8
<1>0. Registers(x, 8, 32)
  OBVIOUS
<1>1. Registers(x1, 8, 32)
  BY <1>0, Mapped8Is
<1>2. Registers(x2, 8, 32) /\ Stride(1, 8)
  <2>1. Stride(1, 8)
    BY DEF Stride
  <2>2. 32 \in Widths
    BY DEF Address
  <2> QED
    BY <1>1, <2>1, <2>2, InterleaveRegisters
<1>3. Registers(x3, 8, 32) /\ Stride(2, 8)
  <2>1. Stride(2, 8)
    BY DEF Stride
  <2>2. 32 \in Widths
    BY DEF Address
  <2> QED
    BY <1>2, <2>1, <2>2, InterleaveRegisters
<1>4. Registers(x4, 8, 32) /\ Stride(4, 8)
  <2>1. Stride(4, 8)
    BY DEF Stride
  <2>2. 32 \in Widths
    BY DEF Address
  <2> QED
    BY <1>3, <2>1, <2>2, InterleaveRegisters
<1>5. Registers(x5, 8, 32)
  BY <1>4, Joined8Is
<1> HIDE DEF x1, x2, x3, x4, x5
<1>6. Address(8, 32, 0, b, c, d, g, z, e, f, h) /\ Entry(x5, Number(0, 0, b, c, d), Number(z, e, f, g, h))
        = Entry(x4, Number(0, 0, b, c, d), Number(g, z, e, f, h))
  <2>1. Address(8, 32, 0, b, c, d, g, z, e, f, h)
    BY DEF Address, Below, Number, Bit, Lanes, Widths
  <2> QED
    BY <1>4, <1>5, <2>1, Joined8Is DEF x5
<1>7. Address(8, 32, 0, z, b, c, g, d, e, f, h) /\ Entry(x4, Number(0, 0, b, c, d), Number(g, z, e, f, h))
        = Entry(x3, Number(0, 0, z, b, c), Number(g, d, e, f, h))
  <2>1. Address(8, 32, 0, z, b, c, g, d, e, f, h)
    BY DEF Address, Below, Number, Bit, Lanes, Widths
  <2> QED
    BY <1>3, <1>4, <2>1, <1>6, Interleave4 DEF x4
<1>8. Address(8, 32, 0, z, e, b, g, c, d, f, h) /\ Entry(x3, Number(0, 0, z, b, c), Number(g, d, e, f, h))
        = Entry(x2, Number(0, 0, z, e, b), Number(g, c, d, f, h))
  <2>1. Address(8, 32, 0, z, e, b, g, c, d, f, h)
    BY DEF Address, Below, Number, Bit, Lanes, Widths
  <2> QED
    BY <1>2, <1>3, <2>1, <1>7, Interleave2 DEF x3
<1>9. Address(8, 32, 0, z, e, f, g, b, c, d, h) /\ Entry(x2, Number(0, 0, z, e, b), Number(g, c, d, f, h))
        = Entry(x1, Number(0, 0, z, e, f), Number(g, b, c, d, h))
  <2>1. Address(8, 32, 0, z, e, f, g, b, c, d, h)
    BY DEF Address, Below, Number, Bit, Lanes, Widths
  <2> QED
    BY <1>1, <1>2, <2>1, <1>8, Interleave1 DEF x2
<1>10. Address(8, 32, 0, z, e, f, g, h, b, c, d) /\ Entry(x1, Number(0, 0, z, e, f), Number(g, b, c, d, h))
        = Entry(x, Number(0, 0, z, e, f), Number(g, h, b, c, d))
  <2>1. Address(8, 32, 0, z, e, f, g, h, b, c, d)
    BY DEF Address, Below, Number, Bit, Lanes, Widths
  <2> QED
    BY <1>0, <1>1, <2>1, <1>9, Mapped8Is DEF x1
<1> QED
  BY <1>a, <1>5, <1>6, <1>7, <1>8, <1>9, <1>10

LEMMA Shuffle16x32 ==
  ASSUME NEW x, Registers(x, 16, 32), NEW a, NEW b, NEW c, NEW d,
         NEW z, NEW e, NEW f, NEW g, NEW h, Address(16, 32, a, b, c, d, z, e, f, g, h)
  PROVE  /\ Registers(Transpose(16, 32, x), 16, 32) /\ Address(16, 32, z, e, f, g, h, a, b, c, d)
         /\ Entry(Transpose(16, 32, x), Number(0, a, b, c, d), Number(z, e, f, g, h))
              = Entry(x, Number(0, z, e, f, g), Number(h, a, b, c, d))
<1> DEFINE x1 == Interleave(x, 1, 1)
           x2 == Interleave(x1, 2, 2)
           x3 == Interleave(x2, 4, 4)
           x4 == Interleave(x3, 8, 8)
           x5 == Joined16(x4)
<1>a. Transpose(16, 32, x) = x5
  BY DEF Transpose, Transpose16, Map, Joined16
<1>0. Registers(x, 16, 32)
  OBVIOUS
<1>1. Registers(x1, 16, 32) /\ Stride(1, 16)
  <2>1. Stride(1, 16)
    BY DEF Stride
  <2>2. 32 \in Widths
    BY DEF Address
  <2> QED
    BY <1>0, <2>1, <2>2, InterleaveRegisters
<1>2. Registers(x2, 16, 32) /\ Stride(2, 16)
  <2>1. Stride(2, 16)
    BY DEF Stride
  <2>2. 32 \in Widths
    BY DEF Address
  <2> QED
    BY <1>1, <2>1, <2>2, InterleaveRegisters
<1>3. Registers(x3, 16, 32) /\ Stride(4, 16)
  <2>1. Stride(4, 16)
    BY DEF Stride
  <2>2. 32 \in Widths
    BY DEF Address
  <2> QED
    BY <1>2, <2>1, <2>2, InterleaveRegisters
<1>4. Registers(x4, 16, 32) /\ Stride(8, 16)
  <2>1. Stride(8, 16)
    BY DEF Stride
  <2>2. 32 \in Widths
    BY DEF Address
  <2> QED
    BY <1>3, <2>1, <2>2, InterleaveRegisters
<1>5. Registers(x5, 16, 32)
  BY <1>4, Joined16Is
<1> HIDE DEF x1, x2, x3, x4, x5
<1>6. Address(16, 32, a, b, c, d, h, z, e, f, g) /\ Entry(x5, Number(0, a, b, c, d), Number(z, e, f, g, h))
        = Entry(x4, Number(0, a, b, c, d), Number(h, z, e, f, g))
  <2>1. Address(16, 32, a, b, c, d, h, z, e, f, g)
    BY DEF Address, Below, Number, Bit, Lanes, Widths
  <2> QED
    BY <1>4, <1>5, <2>1, Joined16Is DEF x5
<1>7. Address(16, 32, z, a, b, c, h, d, e, f, g) /\ Entry(x4, Number(0, a, b, c, d), Number(h, z, e, f, g))
        = Entry(x3, Number(0, z, a, b, c), Number(h, d, e, f, g))
  <2>1. Address(16, 32, z, a, b, c, h, d, e, f, g)
    BY DEF Address, Below, Number, Bit, Lanes, Widths
  <2> QED
    BY <1>3, <1>4, <2>1, <1>6, Interleave8 DEF x4
<1>8. Address(16, 32, z, e, a, b, h, c, d, f, g) /\ Entry(x3, Number(0, z, a, b, c), Number(h, d, e, f, g))
        = Entry(x2, Number(0, z, e, a, b), Number(h, c, d, f, g))
  <2>1. Address(16, 32, z, e, a, b, h, c, d, f, g)
    BY DEF Address, Below, Number, Bit, Lanes, Widths
  <2> QED
    BY <1>2, <1>3, <2>1, <1>7, Interleave4 DEF x3
<1>9. Address(16, 32, z, e, f, a, h, b, c, d, g) /\ Entry(x2, Number(0, z, e, a, b), Number(h, c, d, f, g))
        = Entry(x1, Number(0, z, e, f, a), Number(h, b, c, d, g))
  <2>1. Address(16, 32, z, e, f, a, h, b, c, d, g)
    BY DEF Address, Below, Number, Bit, Lanes, Widths
  <2> QED
    BY <1>1, <1>2, <2>1, <1>8, Interleave2 DEF x2
<1>10. Address(16, 32, z, e, f, g, h, a, b, c, d) /\ Entry(x1, Number(0, z, e, f, a), Number(h, b, c, d, g))
        = Entry(x, Number(0, z, e, f, g), Number(h, a, b, c, d))
  <2>1. Address(16, 32, z, e, f, g, h, a, b, c, d)
    BY DEF Address, Below, Number, Bit, Lanes, Widths
  <2> QED
    BY <1>0, <1>1, <2>1, <1>9, Interleave1 DEF x1
<1> QED
  BY <1>a, <1>5, <1>6, <1>7, <1>8, <1>9, <1>10

\* Untranspose(type, width): they change back.
LEMMA Unshuffle2x16 ==
  ASSUME NEW x, Registers(x, 2, 16), NEW d,
         NEW e, NEW f, NEW g, NEW h, Address(2, 16, 0, 0, 0, d, 0, e, f, g, h)
  PROVE  /\ Registers(Untranspose(2, 16, x), 2, 16) /\ Address(2, 16, 0, 0, 0, h, 0, d, e, f, g)
         /\ Entry(Untranspose(2, 16, x), Number(0, 0, 0, 0, d), Number(0, e, f, g, h))
              = Entry(x, Number(0, 0, 0, 0, h), Number(0, d, e, f, g))
<1> DEFINE x1 == Separate(x, 1, 2)
<1>a. Untranspose(2, 16, x) = x1
  BY DEF Untranspose
<1>0. Registers(x, 2, 16)
  OBVIOUS
<1>1. Registers(x1, 2, 16) /\ Group(2, 2)
  <2>1. Group(2, 2)
    BY DEF Group
  <2>2. 16 \in Widths
    BY DEF Address
  <2> QED
    BY <1>0, <2>1, <2>2, SeparateRegisters
<1> HIDE DEF x1
<1>2. Address(2, 16, 0, 0, 0, h, 0, d, e, f, g) /\ Entry(x1, Number(0, 0, 0, 0, d), Number(0, e, f, g, h))
        = Entry(x, Number(0, 0, 0, 0, h), Number(0, d, e, f, g))
  <2>1. Address(2, 16, 0, 0, 0, h, 0, d, e, f, g)
    BY DEF Address, Below, Number, Bit, Lanes, Widths
  <2> QED
    BY <1>0, <1>1, <2>1, Separate2 DEF x1
<1> QED
  BY <1>a, <1>1, <1>2

LEMMA Unshuffle2x32 ==
  ASSUME NEW x, Registers(x, 2, 32), NEW d,
         NEW z, NEW e, NEW f, NEW g, NEW h, Address(2, 32, 0, 0, 0, d, z, e, f, g, h)
  PROVE  /\ Registers(Untranspose(2, 32, x), 2, 32) /\ Address(2, 32, 0, 0, 0, h, d, z, e, f, g)
         /\ Entry(Untranspose(2, 32, x), Number(0, 0, 0, 0, d), Number(z, e, f, g, h))
              = Entry(x, Number(0, 0, 0, 0, h), Number(d, z, e, f, g))
<1> DEFINE x1 == CrossedAll(x)
           x2 == Separate(x1, 1, 2)
<1>a. Untranspose(2, 32, x) = x2
  BY DEF Untranspose, CrossedAll, Map
<1>0. Registers(x, 2, 32)
  OBVIOUS
<1>1. Registers(x1, 2, 32)
  BY <1>0, CrossedAllIs
<1>2. Registers(x2, 2, 32) /\ Group(2, 2)
  <2>1. Group(2, 2)
    BY DEF Group
  <2>2. 32 \in Widths
    BY DEF Address
  <2> QED
    BY <1>1, <2>1, <2>2, SeparateRegisters
<1> HIDE DEF x1, x2
<1>3. Address(2, 32, 0, 0, 0, h, z, d, e, f, g) /\ Entry(x2, Number(0, 0, 0, 0, d), Number(z, e, f, g, h))
        = Entry(x1, Number(0, 0, 0, 0, h), Number(z, d, e, f, g))
  <2>1. Address(2, 32, 0, 0, 0, h, z, d, e, f, g)
    BY DEF Address, Below, Number, Bit, Lanes, Widths
  <2> QED
    BY <1>1, <1>2, <2>1, Separate2 DEF x2
<1>4. Address(2, 32, 0, 0, 0, h, d, z, e, f, g) /\ Entry(x1, Number(0, 0, 0, 0, h), Number(z, d, e, f, g))
        = Entry(x, Number(0, 0, 0, 0, h), Number(d, z, e, f, g))
  <2>1. Address(2, 32, 0, 0, 0, h, d, z, e, f, g)
    BY DEF Address, Below, Number, Bit, Lanes, Widths
  <2> QED
    BY <1>0, <1>1, <2>1, <1>3, CrossedAllIs DEF x1
<1> QED
  BY <1>a, <1>2, <1>3, <1>4

LEMMA Unshuffle4x16 ==
  ASSUME NEW x, Registers(x, 4, 16), NEW c, NEW d,
         NEW e, NEW f, NEW g, NEW h, Address(4, 16, 0, 0, c, d, 0, e, f, g, h)
  PROVE  /\ Registers(Untranspose(4, 16, x), 4, 16) /\ Address(4, 16, 0, 0, g, h, 0, c, d, e, f)
         /\ Entry(Untranspose(4, 16, x), Number(0, 0, 0, c, d), Number(0, e, f, g, h))
              = Entry(x, Number(0, 0, 0, g, h), Number(0, c, d, e, f))
<1> DEFINE x1 == Separate(x, 1, 4)
           x2 == Separate(x1, 2, 4)
           x3 == Reordered(x2, Order4)
<1>a. Untranspose(4, 16, x) = x3
  BY DEF Untranspose
<1>0. Registers(x, 4, 16)
  OBVIOUS
<1>1. Registers(x1, 4, 16) /\ Group(4, 4)
  <2>1. Group(4, 4)
    BY DEF Group
  <2>2. 16 \in Widths
    BY DEF Address
  <2> QED
    BY <1>0, <2>1, <2>2, SeparateRegisters
<1>2. Registers(x2, 4, 16) /\ Group(4, 4)
  <2>1. Group(4, 4)
    BY DEF Group
  <2>2. 16 \in Widths
    BY DEF Address
  <2> QED
    BY <1>1, <2>1, <2>2, SeparateRegisters
<1>3. Registers(x3, 4, 16)
  BY <1>2, Reordered4Is
<1> HIDE DEF x1, x2, x3
<1>4. Address(4, 16, 0, 0, d, c, 0, e, f, g, h) /\ Entry(x3, Number(0, 0, 0, c, d), Number(0, e, f, g, h))
        = Entry(x2, Number(0, 0, 0, d, c), Number(0, e, f, g, h))
  <2>1. Address(4, 16, 0, 0, d, c, 0, e, f, g, h)
    BY DEF Address, Below, Number, Bit, Lanes, Widths
  <2> QED
    BY <1>2, <1>3, <2>1, Reordered4Is DEF x3
<1>5. Address(4, 16, 0, 0, c, g, 0, d, e, f, h) /\ Entry(x2, Number(0, 0, 0, d, c), Number(0, e, f, g, h))
        = Entry(x1, Number(0, 0, 0, c, g), Number(0, d, e, f, h))
  <2>1. Address(4, 16, 0, 0, c, g, 0, d, e, f, h)
    BY DEF Address, Below, Number, Bit, Lanes, Widths
  <2> QED
    BY <1>1, <1>2, <2>1, <1>4, Separate4 DEF x2
<1>6. Address(4, 16, 0, 0, g, h, 0, c, d, e, f) /\ Entry(x1, Number(0, 0, 0, c, g), Number(0, d, e, f, h))
        = Entry(x, Number(0, 0, 0, g, h), Number(0, c, d, e, f))
  <2>1. Address(4, 16, 0, 0, g, h, 0, c, d, e, f)
    BY DEF Address, Below, Number, Bit, Lanes, Widths
  <2> QED
    BY <1>0, <1>1, <2>1, <1>5, Separate4 DEF x1
<1> QED
  BY <1>a, <1>3, <1>4, <1>5, <1>6

LEMMA Unshuffle4x32 ==
  ASSUME NEW x, Registers(x, 4, 32), NEW c, NEW d,
         NEW z, NEW e, NEW f, NEW g, NEW h, Address(4, 32, 0, 0, c, d, z, e, f, g, h)
  PROVE  /\ Registers(Untranspose(4, 32, x), 4, 32) /\ Address(4, 32, 0, 0, g, h, c, d, z, e, f)
         /\ Entry(Untranspose(4, 32, x), Number(0, 0, 0, c, d), Number(z, e, f, g, h))
              = Entry(x, Number(0, 0, 0, g, h), Number(c, d, z, e, f))
<1> DEFINE x1 == Separate(x, 1, 4)
           x2 == Separate(x1, 2, 4)
           x3 == SplitLanes(x2, 2)
<1>a. Untranspose(4, 32, x) = x3
  BY DEF Untranspose
<1>0. Registers(x, 4, 32)
  OBVIOUS
<1>1. Registers(x1, 4, 32) /\ Group(4, 4)
  <2>1. Group(4, 4)
    BY DEF Group
  <2>2. 32 \in Widths
    BY DEF Address
  <2> QED
    BY <1>0, <2>1, <2>2, SeparateRegisters
<1>2. Registers(x2, 4, 32) /\ Group(4, 4)
  <2>1. Group(4, 4)
    BY DEF Group
  <2>2. 32 \in Widths
    BY DEF Address
  <2> QED
    BY <1>1, <2>1, <2>2, SeparateRegisters
<1>3. Registers(x3, 4, 32)
  BY <1>2, SplitLanes2Is
<1> HIDE DEF x1, x2, x3
<1>4. Address(4, 32, 0, 0, z, d, c, e, f, g, h) /\ Entry(x3, Number(0, 0, 0, c, d), Number(z, e, f, g, h))
        = Entry(x2, Number(0, 0, 0, z, d), Number(c, e, f, g, h))
  <2>1. Address(4, 32, 0, 0, z, d, c, e, f, g, h)
    BY DEF Address, Below, Number, Bit, Lanes, Widths
  <2> QED
    BY <1>2, <1>3, <2>1, SplitLanes2Is DEF x3
<1>5. Address(4, 32, 0, 0, d, g, c, z, e, f, h) /\ Entry(x2, Number(0, 0, 0, z, d), Number(c, e, f, g, h))
        = Entry(x1, Number(0, 0, 0, d, g), Number(c, z, e, f, h))
  <2>1. Address(4, 32, 0, 0, d, g, c, z, e, f, h)
    BY DEF Address, Below, Number, Bit, Lanes, Widths
  <2> QED
    BY <1>1, <1>2, <2>1, <1>4, Separate4 DEF x2
<1>6. Address(4, 32, 0, 0, g, h, c, d, z, e, f) /\ Entry(x1, Number(0, 0, 0, d, g), Number(c, z, e, f, h))
        = Entry(x, Number(0, 0, 0, g, h), Number(c, d, z, e, f))
  <2>1. Address(4, 32, 0, 0, g, h, c, d, z, e, f)
    BY DEF Address, Below, Number, Bit, Lanes, Widths
  <2> QED
    BY <1>0, <1>1, <2>1, <1>5, Separate4 DEF x1
<1> QED
  BY <1>a, <1>3, <1>4, <1>5, <1>6

LEMMA Unshuffle8x16 ==
  ASSUME NEW x, Registers(x, 8, 16), NEW b, NEW c, NEW d,
         NEW e, NEW f, NEW g, NEW h, Address(8, 16, 0, b, c, d, 0, e, f, g, h)
  PROVE  /\ Registers(Untranspose(8, 16, x), 8, 16) /\ Address(8, 16, 0, f, g, h, 0, b, c, d, e)
         /\ Entry(Untranspose(8, 16, x), Number(0, 0, b, c, d), Number(0, e, f, g, h))
              = Entry(x, Number(0, 0, f, g, h), Number(0, b, c, d, e))
<1> DEFINE x1 == Separate(x, 1, 8)
           x2 == Separate(x1, 2, 8)
           x3 == Separate(x2, 4, 8)
           x4 == Reordered(x3, Order8)
<1>a. Untranspose(8, 16, x) = x4
  BY DEF Untranspose
<1>0. Registers(x, 8, 16)
  OBVIOUS
<1>1. Registers(x1, 8, 16) /\ Group(8, 8)
  <2>1. Group(8, 8)
    BY DEF Group
  <2>2. 16 \in Widths
    BY DEF Address
  <2> QED
    BY <1>0, <2>1, <2>2, SeparateRegisters
<1>2. Registers(x2, 8, 16) /\ Group(8, 8)
  <2>1. Group(8, 8)
    BY DEF Group
  <2>2. 16 \in Widths
    BY DEF Address
  <2> QED
    BY <1>1, <2>1, <2>2, SeparateRegisters
<1>3. Registers(x3, 8, 16) /\ Group(8, 8)
  <2>1. Group(8, 8)
    BY DEF Group
  <2>2. 16 \in Widths
    BY DEF Address
  <2> QED
    BY <1>2, <2>1, <2>2, SeparateRegisters
<1>4. Registers(x4, 8, 16)
  BY <1>3, Reordered8Is
<1> HIDE DEF x1, x2, x3, x4
<1>5. Address(8, 16, 0, d, c, b, 0, e, f, g, h) /\ Entry(x4, Number(0, 0, b, c, d), Number(0, e, f, g, h))
        = Entry(x3, Number(0, 0, d, c, b), Number(0, e, f, g, h))
  <2>1. Address(8, 16, 0, d, c, b, 0, e, f, g, h)
    BY DEF Address, Below, Number, Bit, Lanes, Widths
  <2> QED
    BY <1>3, <1>4, <2>1, Reordered8Is DEF x4
<1>6. Address(8, 16, 0, c, b, f, 0, d, e, g, h) /\ Entry(x3, Number(0, 0, d, c, b), Number(0, e, f, g, h))
        = Entry(x2, Number(0, 0, c, b, f), Number(0, d, e, g, h))
  <2>1. Address(8, 16, 0, c, b, f, 0, d, e, g, h)
    BY DEF Address, Below, Number, Bit, Lanes, Widths
  <2> QED
    BY <1>2, <1>3, <2>1, <1>5, Separate8 DEF x3
<1>7. Address(8, 16, 0, b, f, g, 0, c, d, e, h) /\ Entry(x2, Number(0, 0, c, b, f), Number(0, d, e, g, h))
        = Entry(x1, Number(0, 0, b, f, g), Number(0, c, d, e, h))
  <2>1. Address(8, 16, 0, b, f, g, 0, c, d, e, h)
    BY DEF Address, Below, Number, Bit, Lanes, Widths
  <2> QED
    BY <1>1, <1>2, <2>1, <1>6, Separate8 DEF x2
<1>8. Address(8, 16, 0, f, g, h, 0, b, c, d, e) /\ Entry(x1, Number(0, 0, b, f, g), Number(0, c, d, e, h))
        = Entry(x, Number(0, 0, f, g, h), Number(0, b, c, d, e))
  <2>1. Address(8, 16, 0, f, g, h, 0, b, c, d, e)
    BY DEF Address, Below, Number, Bit, Lanes, Widths
  <2> QED
    BY <1>0, <1>1, <2>1, <1>7, Separate8 DEF x1
<1> QED
  BY <1>a, <1>4, <1>5, <1>6, <1>7, <1>8

LEMMA Unshuffle8x32 ==
  ASSUME NEW x, Registers(x, 8, 32), NEW b, NEW c, NEW d,
         NEW z, NEW e, NEW f, NEW g, NEW h, Address(8, 32, 0, b, c, d, z, e, f, g, h)
  PROVE  /\ Registers(Untranspose(8, 32, x), 8, 32) /\ Address(8, 32, 0, f, g, h, b, c, d, z, e)
         /\ Entry(Untranspose(8, 32, x), Number(0, 0, b, c, d), Number(z, e, f, g, h))
              = Entry(x, Number(0, 0, f, g, h), Number(b, c, d, z, e))
<1> DEFINE x1 == Separate(x, 1, 8)
           x2 == Separate(x1, 2, 8)
           x3 == CrossedAll(x2)
           x4 == Separate(x3, 4, 8)
           x5 == Reordered(x4, Order8Lanes)
<1>a. Untranspose(8, 32, x) = x5
  BY DEF Untranspose, CrossedAll, Map
<1>0. Registers(x, 8, 32)
  OBVIOUS
<1>1. Registers(x1, 8, 32) /\ Group(8, 8)
  <2>1. Group(8, 8)
    BY DEF Group
  <2>2. 32 \in Widths
    BY DEF Address
  <2> QED
    BY <1>0, <2>1, <2>2, SeparateRegisters
<1>2. Registers(x2, 8, 32) /\ Group(8, 8)
  <2>1. Group(8, 8)
    BY DEF Group
  <2>2. 32 \in Widths
    BY DEF Address
  <2> QED
    BY <1>1, <2>1, <2>2, SeparateRegisters
<1>3. Registers(x3, 8, 32)
  BY <1>2, CrossedAllIs
<1>4. Registers(x4, 8, 32) /\ Group(8, 8)
  <2>1. Group(8, 8)
    BY DEF Group
  <2>2. 32 \in Widths
    BY DEF Address
  <2> QED
    BY <1>3, <2>1, <2>2, SeparateRegisters
<1>5. Registers(x5, 8, 32)
  BY <1>4, ReorderedLanes8Is
<1> HIDE DEF x1, x2, x3, x4, x5
<1>6. Address(8, 32, 0, b, d, c, z, e, f, g, h) /\ Entry(x5, Number(0, 0, b, c, d), Number(z, e, f, g, h))
        = Entry(x4, Number(0, 0, b, d, c), Number(z, e, f, g, h))
  <2>1. Address(8, 32, 0, b, d, c, z, e, f, g, h)
    BY DEF Address, Below, Number, Bit, Lanes, Widths
  <2> QED
    BY <1>4, <1>5, <2>1, ReorderedLanes8Is DEF x5
<1>7. Address(8, 32, 0, d, c, f, z, b, e, g, h) /\ Entry(x4, Number(0, 0, b, d, c), Number(z, e, f, g, h))
        = Entry(x3, Number(0, 0, d, c, f), Number(z, b, e, g, h))
  <2>1. Address(8, 32, 0, d, c, f, z, b, e, g, h)
    BY DEF Address, Below, Number, Bit, Lanes, Widths
  <2> QED
    BY <1>3, <1>4, <2>1, <1>6, Separate8 DEF x4
<1>8. Address(8, 32, 0, d, c, f, b, z, e, g, h) /\ Entry(x3, Number(0, 0, d, c, f), Number(z, b, e, g, h))
        = Entry(x2, Number(0, 0, d, c, f), Number(b, z, e, g, h))
  <2>1. Address(8, 32, 0, d, c, f, b, z, e, g, h)
    BY DEF Address, Below, Number, Bit, Lanes, Widths
  <2> QED
    BY <1>2, <1>3, <2>1, <1>7, CrossedAllIs DEF x3
<1>9. Address(8, 32, 0, c, f, g, b, d, z, e, h) /\ Entry(x2, Number(0, 0, d, c, f), Number(b, z, e, g, h))
        = Entry(x1, Number(0, 0, c, f, g), Number(b, d, z, e, h))
  <2>1. Address(8, 32, 0, c, f, g, b, d, z, e, h)
    BY DEF Address, Below, Number, Bit, Lanes, Widths
  <2> QED
    BY <1>1, <1>2, <2>1, <1>8, Separate8 DEF x2
<1>10. Address(8, 32, 0, f, g, h, b, c, d, z, e) /\ Entry(x1, Number(0, 0, c, f, g), Number(b, d, z, e, h))
        = Entry(x, Number(0, 0, f, g, h), Number(b, c, d, z, e))
  <2>1. Address(8, 32, 0, f, g, h, b, c, d, z, e)
    BY DEF Address, Below, Number, Bit, Lanes, Widths
  <2> QED
    BY <1>0, <1>1, <2>1, <1>9, Separate8 DEF x1
<1> QED
  BY <1>a, <1>5, <1>6, <1>7, <1>8, <1>9, <1>10

LEMMA Unshuffle16x16 ==
  ASSUME NEW x, Registers(x, 16, 16), NEW a, NEW b, NEW c, NEW d,
         NEW e, NEW f, NEW g, NEW h, Address(16, 16, a, b, c, d, 0, e, f, g, h)
  PROVE  /\ Registers(Untranspose(16, 16, x), 16, 16) /\ Address(16, 16, e, f, g, h, 0, a, b, c, d)
         /\ Entry(Untranspose(16, 16, x), Number(0, a, b, c, d), Number(0, e, f, g, h))
              = Entry(x, Number(0, e, f, g, h), Number(0, a, b, c, d))
<1> DEFINE x1 == Separate(x, 1, 16)
           x2 == Separate(x1, 2, 16)
           x3 == Separate(x2, 4, 16)
           x4 == Separate(x3, 8, 16)
           x5 == Reordered(x4, Order16)
<1>a. Untranspose(16, 16, x) = x5
  BY DEF Untranspose
<1>0. Registers(x, 16, 16)
  OBVIOUS
<1>1. Registers(x1, 16, 16) /\ Group(16, 16)
  <2>1. Group(16, 16)
    BY DEF Group
  <2>2. 16 \in Widths
    BY DEF Address
  <2> QED
    BY <1>0, <2>1, <2>2, SeparateRegisters
<1>2. Registers(x2, 16, 16) /\ Group(16, 16)
  <2>1. Group(16, 16)
    BY DEF Group
  <2>2. 16 \in Widths
    BY DEF Address
  <2> QED
    BY <1>1, <2>1, <2>2, SeparateRegisters
<1>3. Registers(x3, 16, 16) /\ Group(16, 16)
  <2>1. Group(16, 16)
    BY DEF Group
  <2>2. 16 \in Widths
    BY DEF Address
  <2> QED
    BY <1>2, <2>1, <2>2, SeparateRegisters
<1>4. Registers(x4, 16, 16) /\ Group(16, 16)
  <2>1. Group(16, 16)
    BY DEF Group
  <2>2. 16 \in Widths
    BY DEF Address
  <2> QED
    BY <1>3, <2>1, <2>2, SeparateRegisters
<1>5. Registers(x5, 16, 16)
  BY <1>4, Reordered16Is
<1> HIDE DEF x1, x2, x3, x4, x5
<1>6. Address(16, 16, d, c, b, a, 0, e, f, g, h) /\ Entry(x5, Number(0, a, b, c, d), Number(0, e, f, g, h))
        = Entry(x4, Number(0, d, c, b, a), Number(0, e, f, g, h))
  <2>1. Address(16, 16, d, c, b, a, 0, e, f, g, h)
    BY DEF Address, Below, Number, Bit, Lanes, Widths
  <2> QED
    BY <1>4, <1>5, <2>1, Reordered16Is DEF x5
<1>7. Address(16, 16, c, b, a, e, 0, d, f, g, h) /\ Entry(x4, Number(0, d, c, b, a), Number(0, e, f, g, h))
        = Entry(x3, Number(0, c, b, a, e), Number(0, d, f, g, h))
  <2>1. Address(16, 16, c, b, a, e, 0, d, f, g, h)
    BY DEF Address, Below, Number, Bit, Lanes, Widths
  <2> QED
    BY <1>3, <1>4, <2>1, <1>6, Separate16 DEF x4
<1>8. Address(16, 16, b, a, e, f, 0, c, d, g, h) /\ Entry(x3, Number(0, c, b, a, e), Number(0, d, f, g, h))
        = Entry(x2, Number(0, b, a, e, f), Number(0, c, d, g, h))
  <2>1. Address(16, 16, b, a, e, f, 0, c, d, g, h)
    BY DEF Address, Below, Number, Bit, Lanes, Widths
  <2> QED
    BY <1>2, <1>3, <2>1, <1>7, Separate16 DEF x3
<1>9. Address(16, 16, a, e, f, g, 0, b, c, d, h) /\ Entry(x2, Number(0, b, a, e, f), Number(0, c, d, g, h))
        = Entry(x1, Number(0, a, e, f, g), Number(0, b, c, d, h))
  <2>1. Address(16, 16, a, e, f, g, 0, b, c, d, h)
    BY DEF Address, Below, Number, Bit, Lanes, Widths
  <2> QED
    BY <1>1, <1>2, <2>1, <1>8, Separate16 DEF x2
<1>10. Address(16, 16, e, f, g, h, 0, a, b, c, d) /\ Entry(x1, Number(0, a, e, f, g), Number(0, b, c, d, h))
        = Entry(x, Number(0, e, f, g, h), Number(0, a, b, c, d))
  <2>1. Address(16, 16, e, f, g, h, 0, a, b, c, d)
    BY DEF Address, Below, Number, Bit, Lanes, Widths
  <2> QED
    BY <1>0, <1>1, <2>1, <1>9, Separate16 DEF x1
<1> QED
  BY <1>a, <1>5, <1>6, <1>7, <1>8, <1>9, <1>10

LEMMA Unshuffle16x32 ==
  ASSUME NEW x, Registers(x, 16, 32), NEW a, NEW b, NEW c, NEW d,
         NEW z, NEW e, NEW f, NEW g, NEW h, Address(16, 32, a, b, c, d, z, e, f, g, h)
  PROVE  /\ Registers(Untranspose(16, 32, x), 16, 32) /\ Address(16, 32, e, f, g, h, a, b, c, d, z)
         /\ Entry(Untranspose(16, 32, x), Number(0, a, b, c, d), Number(z, e, f, g, h))
              = Entry(x, Number(0, e, f, g, h), Number(a, b, c, d, z))
<1> DEFINE x1 == Separate(x, 1, 16)
           x2 == Separate(x1, 2, 16)
           x3 == Separate(x2, 4, 16)
           x4 == Separate(x3, 8, 16)
           x5 == SplitLanes(x4, 8)
           x6 == Reordered(x5, Order16Lanes)
<1>a. Untranspose(16, 32, x) = x6
  BY DEF Untranspose
<1>0. Registers(x, 16, 32)
  OBVIOUS
<1>1. Registers(x1, 16, 32) /\ Group(16, 16)
  <2>1. Group(16, 16)
    BY DEF Group
  <2>2. 32 \in Widths
    BY DEF Address
  <2> QED
    BY <1>0, <2>1, <2>2, SeparateRegisters
<1>2. Registers(x2, 16, 32) /\ Group(16, 16)
  <2>1. Group(16, 16)
    BY DEF Group
  <2>2. 32 \in Widths
    BY DEF Address
  <2> QED
    BY <1>1, <2>1, <2>2, SeparateRegisters
<1>3. Registers(x3, 16, 32) /\ Group(16, 16)
  <2>1. Group(16, 16)
    BY DEF Group
  <2>2. 32 \in Widths
    BY DEF Address
  <2> QED
    BY <1>2, <2>1, <2>2, SeparateRegisters
<1>4. Registers(x4, 16, 32) /\ Group(16, 16)
  <2>1. Group(16, 16)
    BY DEF Group
  <2>2. 32 \in Widths
    BY DEF Address
  <2> QED
    BY <1>3, <2>1, <2>2, SeparateRegisters
<1>5. Registers(x5, 16, 32)
  BY <1>4, SplitLanes8Is
<1>6. Registers(x6, 16, 32)
  BY <1>5, ReorderedLanes16Is
<1> HIDE DEF x1, x2, x3, x4, x5, x6
<1>7. Address(16, 32, a, d, c, b, z, e, f, g, h) /\ Entry(x6, Number(0, a, b, c, d), Number(z, e, f, g, h))
        = Entry(x5, Number(0, a, d, c, b), Number(z, e, f, g, h))
  <2>1. Address(16, 32, a, d, c, b, z, e, f, g, h)
    BY DEF Address, Below, Number, Bit, Lanes, Widths
  <2> QED
    BY <1>5, <1>6, <2>1, ReorderedLanes16Is DEF x6
<1>8. Address(16, 32, z, d, c, b, a, e, f, g, h) /\ Entry(x5, Number(0, a, d, c, b), Number(z, e, f, g, h))
        = Entry(x4, Number(0, z, d, c, b), Number(a, e, f, g, h))
  <2>1. Address(16, 32, z, d, c, b, a, e, f, g, h)
    BY DEF Address, Below, Number, Bit, Lanes, Widths
  <2> QED
    BY <1>4, <1>5, <2>1, <1>7, SplitLanes8Is DEF x5
<1>9. Address(16, 32, d, c, b, e, a, z, f, g, h) /\ Entry(x4, Number(0, z, d, c, b), Number(a, e, f, g, h))
        = Entry(x3, Number(0, d, c, b, e), Number(a, z, f, g, h))
  <2>1. Address(16, 32, d, c, b, e, a, z, f, g, h)
    BY DEF Address, Below, Number, Bit, Lanes, Widths
  <2> QED
    BY <1>3, <1>4, <2>1, <1>8, Separate16 DEF x4
<1>10. Address(16, 32, c, b, e, f, a, d, z, g, h) /\ Entry(x3, Number(0, d, c, b, e), Number(a, z, f, g, h))
        = Entry(x2, Number(0, c, b, e, f), Number(a, d, z, g, h))
  <2>1. Address(16, 32, c, b, e, f, a, d, z, g, h)
    BY DEF Address, Below, Number, Bit, Lanes, Widths
  <2> QED
    BY <1>2, <1>3, <2>1, <1>9, Separate16 DEF x3
<1>11. Address(16, 32, b, e, f, g, a, c, d, z, h) /\ Entry(x2, Number(0, c, b, e, f), Number(a, d, z, g, h))
        = Entry(x1, Number(0, b, e, f, g), Number(a, c, d, z, h))
  <2>1. Address(16, 32, b, e, f, g, a, c, d, z, h)
    BY DEF Address, Below, Number, Bit, Lanes, Widths
  <2> QED
    BY <1>1, <1>2, <2>1, <1>10, Separate16 DEF x2
<1>12. Address(16, 32, e, f, g, h, a, b, c, d, z) /\ Entry(x1, Number(0, b, e, f, g), Number(a, c, d, z, h))
        = Entry(x, Number(0, e, f, g, h), Number(a, b, c, d, z))
  <2>1. Address(16, 32, e, f, g, h, a, b, c, d, z)
    BY DEF Address, Below, Number, Bit, Lanes, Widths
  <2> QED
    BY <1>0, <1>1, <2>1, <1>11, Separate16 DEF x1
<1> QED
  BY <1>a, <1>6, <1>7, <1>8, <1>9, <1>10, <1>11, <1>12

-----------------------------------------------------------------------------
(* Types of two bytes in avx2; NEON, whose registers may hold half a lane *)

\* The even bytes, then the odd ones
LEMMA EvenOddIs ==
  ASSUME NEW x, IsRegister(x, 32), NEW z, NEW a, NEW b, NEW c, NEW d, Place(32, z, a, b, c, d)
  PROVE  Item(Permute(x, 16, 1, EvenOdd), Number(z, a, b, c, d)) = Item(x, Number(z, b, c, d, a))
BY PlaceIs, Permute16

\* avx2, types of two bytes
LEMMA Shuffle2x32 ==
  ASSUME NEW x, Registers(x, 2, 32), NEW d,
         NEW z, NEW e, NEW f, NEW g, NEW h, Address(2, 32, 0, 0, 0, d, z, e, f, g, h)
  PROVE  /\ Registers(Transpose(2, 32, x), 2, 32)
         /\ Entry(Transpose(2, 32, x), Number(0, 0, 0, 0, d), Number(z, e, f, g, h))
              = Entry(x, Number(0, 0, 0, 0, z), Number(e, f, g, h, d))
<1> DEFINE even == Permute(x[0], 16, 1, EvenOdd)
           odd == Permute(x[1], 16, 1, EvenOdd)
           y0 == Permute(even, 32, 8, D8)
           y1 == Permute(odd, 32, 8, X8D)
           low == Halves(y0, y1, 0, 1)
           high == Halves(y1, y0, 0, 1)
           last == Permute(high, 32, 8, X4E)
<1>1. Transpose(2, 32, x) = [k \in 0 .. 1 |-> IF k = 0 THEN low ELSE last]
  BY DEF Transpose, Transpose2Lanes
<1>2. IsRegister(x[0], 32) /\ IsRegister(x[1], 32)
  BY DEF Registers
<1>3. IsRegister(even, 32) /\ IsRegister(odd, 32)
  BY <1>2, PermuteRegister
<1>4. IsRegister(y0, 32) /\ IsRegister(y1, 32)
  BY <1>3, PermuteRegister
<1>5. IsRegister(low, 32) /\ IsRegister(high, 32)
  BY <1>4 DEF Halves, IsRegister
<1>6. IsRegister(last, 32)
  BY <1>5, PermuteRegister
<1> HIDE DEF even, odd, y0, y1, low, high, last
<1>7. /\ z \in Bit /\ e \in Bit /\ f \in Bit /\ g \in Bit /\ h \in Bit /\ d \in Bit /\ 0 \in Bit /\ 1 \in Bit
      /\ 1 - z \in Bit /\ 1 - (1 - z) = z
      /\ 32 \in Widths /\ \A p \in Bit : p \in Lanes(32) /\ (p = 0 \/ p = 1)
  BY DEF Address, Lanes, Bit, Widths
<1>8. Place(32, z, e, f, g, h) /\ Place(32, 1 - z, e, f, g, h)
  BY <1>7 DEF Place
<1>9. ASSUME NEW p \in Bit
      PROVE  /\ Item(y0, Number(p, e, f, g, h)) = Item(x[0], Number(e, f, g, h, p))
             /\ Item(y1, Number(p, e, f, g, h)) = Item(x[1], Number(e, f, g, h, 1 - p))
  <2>1. Place(32, p, e, f, g, h) /\ 1 - p \in Bit
    BY <1>7 DEF Place, Bit
  <2>2. Item(y0, Number(p, e, f, g, h)) = Item(even, Number(e, p, f, g, h))
    BY <1>3, <2>1, CrossedIs DEF y0
  <2>3. Item(y1, Number(p, e, f, g, h)) = Item(odd, Number(e, 1 - p, f, g, h))
    BY <1>3, <2>1, CrossedIs DEF y1
  <2>4. Item(even, Number(e, p, f, g, h)) = Item(x[0], Number(e, f, g, h, p))
    <3>1. Place(32, e, p, f, g, h)
    BY <1>7 DEF Place
  <3> QED
    BY <1>2, <3>1, EvenOddIs DEF even
  <2>5. Item(odd, Number(e, 1 - p, f, g, h)) = Item(x[1], Number(e, f, g, h, 1 - p))
    <3>1. Place(32, e, 1 - p, f, g, h)
    BY <1>7, <2>1 DEF Place
  <3> QED
    BY <1>2, <3>1, EvenOddIs DEF odd
  <2> QED
    BY <2>2, <2>3, <2>4, <2>5
<1>10. Item(low, Number(z, e, f, g, h))
         = IF z = 0 THEN Item(y0, Number(0, e, f, g, h)) ELSE Item(y1, Number(1, e, f, g, h))
  BY <1>4, <1>7, HalvesAre DEF low
<1>11. Item(last, Number(z, e, f, g, h)) = Item(high, Number(1 - z, e, f, g, h))
  BY <1>5, <1>8, CrossedIs DEF last
<1>12. Item(high, Number(1 - z, e, f, g, h))
         = IF 1 - z = 0 THEN Item(y1, Number(0, e, f, g, h)) ELSE Item(y0, Number(1, e, f, g, h))
  BY <1>4, <1>7, HalvesAre DEF high
<1>13. 1 - 0 = 1 /\ 1 - 1 = 0
  OBVIOUS
<1>14. Item(low, Number(z, e, f, g, h)) = Item(x[z], Number(e, f, g, h, 0))
  <2>1. CASE z = 0
    BY <2>1, <1>7, <1>9, <1>10
  <2>2. CASE z = 1
    BY <2>2, <1>7, <1>9, <1>10, <1>13
  <2> QED
    BY <2>1, <2>2, <1>7
<1>15. Item(last, Number(z, e, f, g, h)) = Item(x[z], Number(e, f, g, h, 1))
  <2>1. CASE z = 0
    BY <2>1, <1>7, <1>9, <1>11, <1>12, <1>13
  <2>2. CASE z = 1
    BY <2>2, <1>7, <1>9, <1>11, <1>12, <1>13
  <2> QED
    BY <2>1, <2>2, <1>7
<1>16. Registers(Transpose(2, 32, x), 2, 32)
  BY <1>1, <1>5, <1>6 DEF Registers
<1>17. Number(0, 0, 0, 0, d) = d /\ Number(0, 0, 0, 0, z) = z
  BY <1>7 DEF Number, Bit
<1>18. Transpose(2, 32, x)[d] = IF d = 0 THEN low ELSE last
  BY <1>1, <1>7 DEF Bit
<1> QED
  BY <1>7, <1>14, <1>15, <1>16, <1>17, <1>18 DEF Entry, Item

\* Registers of eight bytes, and the unpack instructions on them
NeonRegisters(x, n) == n \in {8, 16} /\ DOMAIN x = 0 .. n - 1 /\ \A m \in 0 .. n - 1 : DOMAIN x[m] = 0 .. 7
NeonAddress(n, a, b, c, d, f, g, h) ==
  /\ a \in Bit /\ b \in Bit /\ c \in Bit /\ d \in Bit /\ f \in Bit /\ g \in Bit /\ h \in Bit
  /\ Number(0, a, b, c, d) \in Below(n)
NeonPlace(f, g, h) == f \in Bit /\ g \in Bit /\ h \in Bit

\* vzip of registers of 8 and of 16 bytes
LEMMA NeonUnpack1 ==
  ASSUME NEW x, DOMAIN x = 0 .. 7, NEW y, NEW hi, hi \in Bit, NEW f, NEW g, NEW h, NeonPlace(f, g, h)
  PROVE  Item(Unpack(1, hi, x, y), Number(0, 0, f, g, h)) = Item(IF h = 0 THEN x ELSE y, Number(0, 0, hi, f, g))
<1> DEFINE i == Number(0, 0, f, g, h)
           q == (i % 8) \div 1
           from == 8 * (i \div 8) + 4 * hi + 1 * (q \div 2) + (i % 1)
<1>1. 15 \notin DOMAIN x /\ i \in DOMAIN x
  BY DEF Number, Bit, NeonPlace
<1>2. Unpack(1, hi, x, y)[i] = IF q % 2 = 0 THEN x[from] ELSE y[from]
  BY <1>1 DEF Unpack, Lane
<1>3. q % 2 = h /\ from = Number(0, 0, hi, f, g)
  BY <1>1 DEF Number, Bit, NeonPlace
<1> QED
  BY <1>2, <1>3 DEF Item

LEMMA NeonUnpack2 ==
  ASSUME NEW x, DOMAIN x = 0 .. 7, NEW y, NEW hi, hi \in Bit, NEW f, NEW g, NEW h, NeonPlace(f, g, h)
  PROVE  Item(Unpack(2, hi, x, y), Number(0, 0, f, g, h)) = Item(IF g = 0 THEN x ELSE y, Number(0, 0, hi, f, h))
<1> DEFINE i == Number(0, 0, f, g, h)
           q == (i % 8) \div 2
           from == 8 * (i \div 8) + 4 * hi + 2 * (q \div 2) + (i % 2)
<1>1. 15 \notin DOMAIN x /\ i \in DOMAIN x
  BY DEF Number, Bit, NeonPlace
<1>2. Unpack(2, hi, x, y)[i] = IF q % 2 = 0 THEN x[from] ELSE y[from]
  BY <1>1 DEF Unpack, Lane
<1>3. q % 2 = g /\ from = Number(0, 0, hi, f, h)
  BY <1>1 DEF Number, Bit, NeonPlace
<1> QED
  BY <1>2, <1>3 DEF Item

LEMMA NeonUnpack4 ==
  ASSUME NEW x, DOMAIN x = 0 .. 7, NEW y, NEW hi, hi \in Bit, NEW f, NEW g, NEW h, NeonPlace(f, g, h)
  PROVE  Item(Unpack(4, hi, x, y), Number(0, 0, f, g, h)) = Item(IF f = 0 THEN x ELSE y, Number(0, 0, hi, g, h))
<1> DEFINE i == Number(0, 0, f, g, h)
           q == (i % 8) \div 4
           from == 8 * (i \div 8) + 4 * hi + 4 * (q \div 2) + (i % 4)
<1>1. 15 \notin DOMAIN x /\ i \in DOMAIN x
  BY DEF Number, Bit, NeonPlace
<1>2. Unpack(4, hi, x, y)[i] = IF q % 2 = 0 THEN x[from] ELSE y[from]
  BY <1>1 DEF Unpack, Lane
<1>3. q % 2 = f /\ from = Number(0, 0, hi, g, h)
  BY <1>1 DEF Number, Bit, NeonPlace
<1> QED
  BY <1>2, <1>3 DEF Item

\* Interleave with NEON
LEMMA NeonInterleave1 ==
  ASSUME NEW n, NEW x, NeonRegisters(x, n), 2 * 1 <= n, NEW a, NEW b, NEW c, NEW d,
         NEW f, NEW g, NEW h, NeonAddress(n, a, b, c, d, f, g, h)
  PROVE  /\ Entry(Interleave(x, 1, 1), Number(0, a, b, c, d), Number(0, 0, f, g, h))
              = Entry(x, Number(0, a, b, c, h), Number(0, 0, d, f, g))
         /\ Entry(Interleave(x, 2, 1), Number(0, a, b, c, d), Number(0, 0, f, g, h))
              = Entry(x, Number(0, a, b, c, g), Number(0, 0, d, f, h))
         /\ Entry(Interleave(x, 4, 1), Number(0, a, b, c, d), Number(0, 0, f, g, h))
              = Entry(x, Number(0, a, b, c, f), Number(0, 0, d, g, h))
<1> DEFINE m == Number(0, a, b, c, d)
           k == m \div 2
           l == k + (k \div 1) * 1
<1> /\ a \in Bit /\ b \in Bit /\ c \in Bit /\ d \in Bit
    /\ f \in Bit /\ g \in Bit /\ h \in Bit /\ Number(0, a, b, c, d) \in Below(n)
  BY DEF NeonAddress
<1>0. NeonPlace(f, g, h)
  BY DEF NeonPlace
<1>1. m \in DOMAIN x
  BY DEF Number, Bit, Below, NeonRegisters
<1>2. /\ m % 2 = d /\ l = Number(0, a, b, c, 0) /\ l + 1 = Number(0, a, b, c, 1)
      /\ l \in 0 .. n - 1
  BY DEF Number, Bit, Below, NeonRegisters
<1>3. \A v : Interleave(x, v, 1)[m] = Unpack(v, d, x[Number(0, a, b, c, 0)], x[Number(0, a, b, c, 1)])
  BY <1>1, <1>2 DEF Interleave
<1>4. DOMAIN x[Number(0, a, b, c, 0)] = 0 .. 7
  BY <1>2 DEF NeonRegisters
<1> DEFINE X == x[Number(0, a, b, c, 0)]
           Y == x[Number(0, a, b, c, 1)]
           i == Number(0, 0, f, g, h)
<1> HIDE DEF m, X, Y
<1>5. Item(Interleave(x, 1, 1)[m], i) = Item(IF h = 0 THEN X ELSE Y, Number(0, 0, d, f, g))
  BY <1>0, <1>3, <1>4, NeonUnpack1 DEF X, Y
<1>6. Item(Interleave(x, 2, 1)[m], i) = Item(IF g = 0 THEN X ELSE Y, Number(0, 0, d, f, h))
  BY <1>0, <1>3, <1>4, NeonUnpack2 DEF X, Y
<1>7. Item(Interleave(x, 4, 1)[m], i) = Item(IF f = 0 THEN X ELSE Y, Number(0, 0, d, g, h))
  BY <1>0, <1>3, <1>4, NeonUnpack4 DEF X, Y
<1>9. \A p \in Bit : (IF p = 0 THEN X ELSE Y) = x[Number(0, a, b, c, p)]
  BY DEF Bit, X, Y
<1> QED
  BY <1>5, <1>6, <1>7, <1>9 DEF m, Entry, Item

LEMMA NeonInterleave2 ==
  ASSUME NEW n, NEW x, NeonRegisters(x, n), 2 * 2 <= n, NEW a, NEW b, NEW c, NEW d,
         NEW f, NEW g, NEW h, NeonAddress(n, a, b, c, d, f, g, h)
  PROVE  /\ Entry(Interleave(x, 1, 2), Number(0, a, b, c, d), Number(0, 0, f, g, h))
              = Entry(x, Number(0, a, b, h, c), Number(0, 0, d, f, g))
         /\ Entry(Interleave(x, 2, 2), Number(0, a, b, c, d), Number(0, 0, f, g, h))
              = Entry(x, Number(0, a, b, g, c), Number(0, 0, d, f, h))
         /\ Entry(Interleave(x, 4, 2), Number(0, a, b, c, d), Number(0, 0, f, g, h))
              = Entry(x, Number(0, a, b, f, c), Number(0, 0, d, g, h))
<1> DEFINE m == Number(0, a, b, c, d)
           k == m \div 2
           l == k + (k \div 2) * 2
<1> /\ a \in Bit /\ b \in Bit /\ c \in Bit /\ d \in Bit
    /\ f \in Bit /\ g \in Bit /\ h \in Bit /\ Number(0, a, b, c, d) \in Below(n)
  BY DEF NeonAddress
<1>0. NeonPlace(f, g, h)
  BY DEF NeonPlace
<1>1. m \in DOMAIN x
  BY DEF Number, Bit, Below, NeonRegisters
<1>2. /\ m % 2 = d /\ l = Number(0, a, b, 0, c) /\ l + 2 = Number(0, a, b, 1, c)
      /\ l \in 0 .. n - 1
  BY DEF Number, Bit, Below, NeonRegisters
<1>3. \A v : Interleave(x, v, 2)[m] = Unpack(v, d, x[Number(0, a, b, 0, c)], x[Number(0, a, b, 1, c)])
  BY <1>1, <1>2 DEF Interleave
<1>4. DOMAIN x[Number(0, a, b, 0, c)] = 0 .. 7
  BY <1>2 DEF NeonRegisters
<1> DEFINE X == x[Number(0, a, b, 0, c)]
           Y == x[Number(0, a, b, 1, c)]
           i == Number(0, 0, f, g, h)
<1> HIDE DEF m, X, Y
<1>5. Item(Interleave(x, 1, 2)[m], i) = Item(IF h = 0 THEN X ELSE Y, Number(0, 0, d, f, g))
  BY <1>0, <1>3, <1>4, NeonUnpack1 DEF X, Y
<1>6. Item(Interleave(x, 2, 2)[m], i) = Item(IF g = 0 THEN X ELSE Y, Number(0, 0, d, f, h))
  BY <1>0, <1>3, <1>4, NeonUnpack2 DEF X, Y
<1>7. Item(Interleave(x, 4, 2)[m], i) = Item(IF f = 0 THEN X ELSE Y, Number(0, 0, d, g, h))
  BY <1>0, <1>3, <1>4, NeonUnpack4 DEF X, Y
<1>9. \A p \in Bit : (IF p = 0 THEN X ELSE Y) = x[Number(0, a, b, p, c)]
  BY DEF Bit, X, Y
<1> QED
  BY <1>5, <1>6, <1>7, <1>9 DEF m, Entry, Item

LEMMA NeonInterleave4 ==
  ASSUME NEW n, NEW x, NeonRegisters(x, n), 2 * 4 <= n, NEW a, NEW b, NEW c, NEW d,
         NEW f, NEW g, NEW h, NeonAddress(n, a, b, c, d, f, g, h)
  PROVE  /\ Entry(Interleave(x, 1, 4), Number(0, a, b, c, d), Number(0, 0, f, g, h))
              = Entry(x, Number(0, a, h, b, c), Number(0, 0, d, f, g))
         /\ Entry(Interleave(x, 2, 4), Number(0, a, b, c, d), Number(0, 0, f, g, h))
              = Entry(x, Number(0, a, g, b, c), Number(0, 0, d, f, h))
         /\ Entry(Interleave(x, 4, 4), Number(0, a, b, c, d), Number(0, 0, f, g, h))
              = Entry(x, Number(0, a, f, b, c), Number(0, 0, d, g, h))
<1> DEFINE m == Number(0, a, b, c, d)
           k == m \div 2
           l == k + (k \div 4) * 4
<1> /\ a \in Bit /\ b \in Bit /\ c \in Bit /\ d \in Bit
    /\ f \in Bit /\ g \in Bit /\ h \in Bit /\ Number(0, a, b, c, d) \in Below(n)
  BY DEF NeonAddress
<1>0. NeonPlace(f, g, h)
  BY DEF NeonPlace
<1>1. m \in DOMAIN x
  BY DEF Number, Bit, Below, NeonRegisters
<1>2. /\ m % 2 = d /\ l = Number(0, a, 0, b, c) /\ l + 4 = Number(0, a, 1, b, c)
      /\ l \in 0 .. n - 1
  BY DEF Number, Bit, Below, NeonRegisters
<1>3. \A v : Interleave(x, v, 4)[m] = Unpack(v, d, x[Number(0, a, 0, b, c)], x[Number(0, a, 1, b, c)])
  BY <1>1, <1>2 DEF Interleave
<1>4. DOMAIN x[Number(0, a, 0, b, c)] = 0 .. 7
  BY <1>2 DEF NeonRegisters
<1> DEFINE X == x[Number(0, a, 0, b, c)]
           Y == x[Number(0, a, 1, b, c)]
           i == Number(0, 0, f, g, h)
<1> HIDE DEF m, X, Y
<1>5. Item(Interleave(x, 1, 4)[m], i) = Item(IF h = 0 THEN X ELSE Y, Number(0, 0, d, f, g))
  BY <1>0, <1>3, <1>4, NeonUnpack1 DEF X, Y
<1>6. Item(Interleave(x, 2, 4)[m], i) = Item(IF g = 0 THEN X ELSE Y, Number(0, 0, d, f, h))
  BY <1>0, <1>3, <1>4, NeonUnpack2 DEF X, Y
<1>7. Item(Interleave(x, 4, 4)[m], i) = Item(IF f = 0 THEN X ELSE Y, Number(0, 0, d, g, h))
  BY <1>0, <1>3, <1>4, NeonUnpack4 DEF X, Y
<1>9. \A p \in Bit : (IF p = 0 THEN X ELSE Y) = x[Number(0, a, p, b, c)]
  BY DEF Bit, X, Y
<1> QED
  BY <1>5, <1>6, <1>7, <1>9 DEF m, Entry, Item

LEMMA NeonInterleave8 ==
  ASSUME NEW n, NEW x, NeonRegisters(x, n), 2 * 8 <= n, NEW a, NEW b, NEW c, NEW d,
         NEW f, NEW g, NEW h, NeonAddress(n, a, b, c, d, f, g, h)
  PROVE  /\ Entry(Interleave(x, 1, 8), Number(0, a, b, c, d), Number(0, 0, f, g, h))
              = Entry(x, Number(0, h, a, b, c), Number(0, 0, d, f, g))
         /\ Entry(Interleave(x, 2, 8), Number(0, a, b, c, d), Number(0, 0, f, g, h))
              = Entry(x, Number(0, g, a, b, c), Number(0, 0, d, f, h))
         /\ Entry(Interleave(x, 4, 8), Number(0, a, b, c, d), Number(0, 0, f, g, h))
              = Entry(x, Number(0, f, a, b, c), Number(0, 0, d, g, h))
<1> DEFINE m == Number(0, a, b, c, d)
           k == m \div 2
           l == k + (k \div 8) * 8
<1> /\ a \in Bit /\ b \in Bit /\ c \in Bit /\ d \in Bit
    /\ f \in Bit /\ g \in Bit /\ h \in Bit /\ Number(0, a, b, c, d) \in Below(n)
  BY DEF NeonAddress
<1>0. NeonPlace(f, g, h)
  BY DEF NeonPlace
<1>1. m \in DOMAIN x
  BY DEF Number, Bit, Below, NeonRegisters
<1>2. /\ m % 2 = d /\ l = Number(0, 0, a, b, c) /\ l + 8 = Number(0, 1, a, b, c)
      /\ l \in 0 .. n - 1
  BY DEF Number, Bit, Below, NeonRegisters
<1>3. \A v : Interleave(x, v, 8)[m] = Unpack(v, d, x[Number(0, 0, a, b, c)], x[Number(0, 1, a, b, c)])
  BY <1>1, <1>2 DEF Interleave
<1>4. DOMAIN x[Number(0, 0, a, b, c)] = 0 .. 7
  BY <1>2 DEF NeonRegisters
<1> DEFINE X == x[Number(0, 0, a, b, c)]
           Y == x[Number(0, 1, a, b, c)]
           i == Number(0, 0, f, g, h)
<1> HIDE DEF m, X, Y
<1>5. Item(Interleave(x, 1, 8)[m], i) = Item(IF h = 0 THEN X ELSE Y, Number(0, 0, d, f, g))
  BY <1>0, <1>3, <1>4, NeonUnpack1 DEF X, Y
<1>6. Item(Interleave(x, 2, 8)[m], i) = Item(IF g = 0 THEN X ELSE Y, Number(0, 0, d, f, h))
  BY <1>0, <1>3, <1>4, NeonUnpack2 DEF X, Y
<1>7. Item(Interleave(x, 4, 8)[m], i) = Item(IF f = 0 THEN X ELSE Y, Number(0, 0, d, g, h))
  BY <1>0, <1>3, <1>4, NeonUnpack4 DEF X, Y
<1>9. \A p \in Bit : (IF p = 0 THEN X ELSE Y) = x[Number(0, p, a, b, c)]
  BY DEF Bit, X, Y
<1> QED
  BY <1>5, <1>6, <1>7, <1>9 DEF m, Entry, Item

LEMMA NeonInterleaveRegisters ==
  ASSUME NEW n, NEW x, NeonRegisters(x, n), NEW u, NEW s, Stride(s, n)
  PROVE  NeonRegisters(Interleave(x, u, s), n)
<1>1. DOMAIN Interleave(x, u, s) = 0 .. n - 1
  BY DEF Interleave, NeonRegisters
<1> n \in {8, 16} /\ s \in {1, 2, 4, 8} /\ 2 * s <= n
  BY DEF NeonRegisters, Stride
<1>2. ASSUME NEW m \in 0 .. n - 1 PROVE DOMAIN Interleave(x, u, s)[m] = 0 .. 7
  <2> DEFINE k == m \div 2
             l == k + (k \div s) * s
  <2>1. l \in 0 .. n - 1
    <3>1. CASE s = 1
      BY <3>1
    <3>2. CASE s = 2
      BY <3>2
    <3>3. CASE s = 4
      BY <3>3
    <3>4. CASE s = 8
      BY <3>4
    <3> QED
      BY <3>1, <3>2, <3>3, <3>4
  <2>2. Interleave(x, u, s)[m] = Unpack(u, m % 2, x[l], x[l + s])
    BY DEF Interleave, NeonRegisters
  <2> HIDE DEF l
  <2> QED
    BY <2>1, <2>2 DEF Unpack, NeonRegisters
<1> QED
  BY <1>1, <1>2 DEF NeonRegisters

\* The networks of NEON for 8 and 16 bytes
LEMMA Neon8Is ==
  ASSUME NEW x, NeonRegisters(x, 8), NEW b, NEW c, NEW d, NEW f, NEW g, NEW h, NeonAddress(8, 0, b, c, d, f, g, h)
  PROVE  /\ NeonRegisters(Neon8(x), 8) /\ NeonAddress(8, 0, f, g, h, b, c, d)
         /\ Entry(Neon8(x), Number(0, 0, b, c, d), Number(0, 0, f, g, h))
              = Entry(x, Number(0, 0, f, g, h), Number(0, 0, b, c, d))
<1> DEFINE x1 == Interleave(x, 1, 1)
           x2 == Interleave(x1, 2, 2)
           x3 == Interleave(x2, 4, 4)
<1>a. Neon8(x) = x3
  BY DEF Neon8
<1>0. NeonRegisters(x, 8)
  OBVIOUS
<1>1. NeonRegisters(x1, 8)
  <2>1. Stride(1, 8)
    BY DEF Stride
  <2> QED
    BY <1>0, <2>1, NeonInterleaveRegisters
<1>2. NeonRegisters(x2, 8)
  <2>1. Stride(2, 8)
    BY DEF Stride
  <2> QED
    BY <1>1, <2>1, NeonInterleaveRegisters
<1>3. NeonRegisters(x3, 8)
  <2>1. Stride(4, 8)
    BY DEF Stride
  <2> QED
    BY <1>2, <2>1, NeonInterleaveRegisters
<1> HIDE DEF x1, x2, x3
<1>4. NeonAddress(8, 0, f, b, c, d, g, h) /\ Entry(x3, Number(0, 0, b, c, d), Number(0, 0, f, g, h))
        = Entry(x2, Number(0, 0, f, b, c), Number(0, 0, d, g, h))
  <2>1. NeonAddress(8, 0, f, b, c, d, g, h)
    BY DEF NeonAddress, Below, Number, Bit
  <2> QED
    BY <1>2, <2>1, NeonInterleave4 DEF x3
<1>5. NeonAddress(8, 0, f, g, b, c, d, h) /\ Entry(x2, Number(0, 0, f, b, c), Number(0, 0, d, g, h))
        = Entry(x1, Number(0, 0, f, g, b), Number(0, 0, c, d, h))
  <2>1. NeonAddress(8, 0, f, g, b, c, d, h)
    BY DEF NeonAddress, Below, Number, Bit
  <2> QED
    BY <1>1, <2>1, <1>4, NeonInterleave2 DEF x2
<1>6. NeonAddress(8, 0, f, g, h, b, c, d) /\ Entry(x1, Number(0, 0, f, g, b), Number(0, 0, c, d, h))
        = Entry(x, Number(0, 0, f, g, h), Number(0, 0, b, c, d))
  <2>1. NeonAddress(8, 0, f, g, h, b, c, d)
    BY DEF NeonAddress, Below, Number, Bit
  <2> QED
    BY <1>0, <2>1, <1>5, NeonInterleave1 DEF x1
<1> QED
  BY <1>a, <1>3, <1>4, <1>5, <1>6

LEMMA Neon16Is ==
  ASSUME NEW x, NeonRegisters(x, 16), NEW a, NEW b, NEW c, NEW d, NEW f, NEW g, NEW h, NeonAddress(16, a, b, c, d, f, g, h)
  PROVE  /\ NeonRegisters(NeonTranspose(16, 8, x), 16) /\ NeonAddress(16, f, g, h, a, b, c, d)
         /\ Entry(NeonTranspose(16, 8, x), Number(0, a, b, c, d), Number(0, 0, f, g, h))
              = Entry(x, Number(0, f, g, h, a), Number(0, 0, b, c, d))
<1> DEFINE x1 == Interleave(x, 1, 2)
           x2 == Interleave(x1, 2, 4)
           x3 == Interleave(x2, 4, 8)
<1>a. NeonTranspose(16, 8, x) = x3
  BY DEF NeonTranspose
<1>0. NeonRegisters(x, 16)
  OBVIOUS
<1>1. NeonRegisters(x1, 16)
  <2>1. Stride(2, 16)
    BY DEF Stride
  <2> QED
    BY <1>0, <2>1, NeonInterleaveRegisters
<1>2. NeonRegisters(x2, 16)
  <2>1. Stride(4, 16)
    BY DEF Stride
  <2> QED
    BY <1>1, <2>1, NeonInterleaveRegisters
<1>3. NeonRegisters(x3, 16)
  <2>1. Stride(8, 16)
    BY DEF Stride
  <2> QED
    BY <1>2, <2>1, NeonInterleaveRegisters
<1> HIDE DEF x1, x2, x3
<1>4. NeonAddress(16, f, a, b, c, d, g, h) /\ Entry(x3, Number(0, a, b, c, d), Number(0, 0, f, g, h))
        = Entry(x2, Number(0, f, a, b, c), Number(0, 0, d, g, h))
  <2>1. NeonAddress(16, f, a, b, c, d, g, h)
    BY DEF NeonAddress, Below, Number, Bit
  <2> QED
    BY <1>2, <2>1, NeonInterleave8 DEF x3
<1>5. NeonAddress(16, f, g, a, b, c, d, h) /\ Entry(x2, Number(0, f, a, b, c), Number(0, 0, d, g, h))
        = Entry(x1, Number(0, f, g, a, b), Number(0, 0, c, d, h))
  <2>1. NeonAddress(16, f, g, a, b, c, d, h)
    BY DEF NeonAddress, Below, Number, Bit
  <2> QED
    BY <1>1, <2>1, <1>4, NeonInterleave4 DEF x2
<1>6. NeonAddress(16, f, g, h, a, b, c, d) /\ Entry(x1, Number(0, f, g, a, b), Number(0, 0, c, d, h))
        = Entry(x, Number(0, f, g, h, a), Number(0, 0, b, c, d))
  <2>1. NeonAddress(16, f, g, h, a, b, c, d)
    BY DEF NeonAddress, Below, Number, Bit
  <2> QED
    BY <1>0, <2>1, <1>5, NeonInterleave2 DEF x1
<1> QED
  BY <1>a, <1>3, <1>4, <1>5, <1>6

LEMMA Neon8Of16Is ==
  ASSUME NEW x, NeonRegisters(x, 16), NEW a, NEW b, NEW c, NEW d, NEW f, NEW g, NEW h, NeonAddress(16, a, b, c, d, f, g, h)
  PROVE  /\ NeonRegisters(Neon8(x), 16) /\ NeonAddress(16, a, f, g, h, b, c, d)
         /\ Entry(Neon8(x), Number(0, a, b, c, d), Number(0, 0, f, g, h))
              = Entry(x, Number(0, a, f, g, h), Number(0, 0, b, c, d))
<1> DEFINE x1 == Interleave(x, 1, 1)
           x2 == Interleave(x1, 2, 2)
           x3 == Interleave(x2, 4, 4)
<1>a. Neon8(x) = x3
  BY DEF Neon8
<1>0. NeonRegisters(x, 16)
  OBVIOUS
<1>1. NeonRegisters(x1, 16)
  <2>1. Stride(1, 16)
    BY DEF Stride
  <2> QED
    BY <1>0, <2>1, NeonInterleaveRegisters
<1>2. NeonRegisters(x2, 16)
  <2>1. Stride(2, 16)
    BY DEF Stride
  <2> QED
    BY <1>1, <2>1, NeonInterleaveRegisters
<1>3. NeonRegisters(x3, 16)
  <2>1. Stride(4, 16)
    BY DEF Stride
  <2> QED
    BY <1>2, <2>1, NeonInterleaveRegisters
<1> HIDE DEF x1, x2, x3
<1>4. NeonAddress(16, a, f, b, c, d, g, h) /\ Entry(x3, Number(0, a, b, c, d), Number(0, 0, f, g, h))
        = Entry(x2, Number(0, a, f, b, c), Number(0, 0, d, g, h))
  <2>1. NeonAddress(16, a, f, b, c, d, g, h)
    BY DEF NeonAddress, Below, Number, Bit
  <2> QED
    BY <1>2, <2>1, NeonInterleave4 DEF x3
<1>5. NeonAddress(16, a, f, g, b, c, d, h) /\ Entry(x2, Number(0, a, f, b, c), Number(0, 0, d, g, h))
        = Entry(x1, Number(0, a, f, g, b), Number(0, 0, c, d, h))
  <2>1. NeonAddress(16, a, f, g, b, c, d, h)
    BY DEF NeonAddress, Below, Number, Bit
  <2> QED
    BY <1>1, <2>1, <1>4, NeonInterleave2 DEF x2
<1>6. NeonAddress(16, a, f, g, h, b, c, d) /\ Entry(x1, Number(0, a, f, g, b), Number(0, 0, c, d, h))
        = Entry(x, Number(0, a, f, g, h), Number(0, 0, b, c, d))
  <2>1. NeonAddress(16, a, f, g, h, b, c, d)
    BY DEF NeonAddress, Below, Number, Bit
  <2> QED
    BY <1>0, <2>1, <1>5, NeonInterleave1 DEF x1
<1> QED
  BY <1>a, <1>3, <1>4, <1>5, <1>6

-----------------------------------------------------------------------------
(* shuffle.c's two transpositions, in numbers: byte m of element i *)

\* Every number has its bits.
LEMMA BitsOf ==
  /\ \A i \in 0 .. 1 : \E d \in Bit : i = Number(0, 0, 0, 0, d)
  /\ \A i \in 0 .. 3 : \E c, d \in Bit : i = Number(0, 0, 0, c, d)
  /\ \A i \in 0 .. 7 : \E b, c, d \in Bit : i = Number(0, 0, b, c, d)
  /\ \A i \in 0 .. 15 : \E a, b, c, d \in Bit : i = Number(0, a, b, c, d)
  /\ \A i \in 0 .. 31 : \E z, a, b, c, d \in Bit : i = Number(z, a, b, c, d)
<1>1. ASSUME NEW i \in 0 .. 31 PROVE \E z, a, b, c, d \in Bit : i = Number(z, a, b, c, d)
  <2>1. i \div 16 \in Bit /\ (i \div 8) % 2 \in Bit /\ (i \div 4) % 2 \in Bit /\ (i \div 2) % 2 \in Bit /\ i % 2 \in Bit
    BY DEF Bit
  <2>2. i = Number(i \div 16, (i \div 8) % 2, (i \div 4) % 2, (i \div 2) % 2, i % 2)
    BY DEF Number
  <2> QED
    BY <2>1, <2>2
<1>2. ASSUME NEW i \in 0 .. 31, NEW z \in Bit, NEW a \in Bit, NEW b \in Bit, NEW c \in Bit, NEW d \in Bit, i = Number(z, a, b, c, d)
      PROVE  /\ i < 16 => z = 0
             /\ i < 8 => a = 0
             /\ i < 4 => b = 0
             /\ i < 2 => c = 0
  BY <1>2 DEF Number, Bit
<1>4. \A i \in 0 .. 15 : \E a, b, c, d \in Bit : i = Number(0, a, b, c, d)
  <2> TAKE i \in 0 .. 15
  <2>0. i \in 0 .. 31
    OBVIOUS
  <2>1. PICK z, a, b, c, d \in Bit : i = Number(z, a, b, c, d)
    BY <1>1, <2>0
  <2> QED
    BY <2>1, <2>0, <1>2
<1>5. \A i \in 0 .. 7 : \E b, c, d \in Bit : i = Number(0, 0, b, c, d)
  <2> TAKE i \in 0 .. 7
  <2>0. i \in 0 .. 31
    OBVIOUS
  <2>1. PICK z, a, b, c, d \in Bit : i = Number(z, a, b, c, d)
    BY <1>1, <2>0
  <2>2. z = 0 /\ a = 0
    BY <2>1, <2>0, <1>2
  <2> QED
    BY <2>1, <2>2
<1>6. \A i \in 0 .. 3 : \E c, d \in Bit : i = Number(0, 0, 0, c, d)
  <2> TAKE i \in 0 .. 3
  <2>0. i \in 0 .. 31
    OBVIOUS
  <2>1. PICK z, a, b, c, d \in Bit : i = Number(z, a, b, c, d)
    BY <1>1, <2>0
  <2>2. z = 0 /\ a = 0 /\ b = 0
    BY <2>1, <2>0, <1>2
  <2> QED
    BY <2>1, <2>2
<1>7. \A i \in 0 .. 1 : \E d \in Bit : i = Number(0, 0, 0, 0, d)
  <2> TAKE i \in 0 .. 1
  <2>0. i \in 0 .. 31
    OBVIOUS
  <2>1. PICK z, a, b, c, d \in Bit : i = Number(z, a, b, c, d)
    BY <1>1, <2>0
  <2>2. z = 0 /\ a = 0 /\ b = 0 /\ c = 0
    BY <2>1, <2>0, <1>2
  <2> QED
    BY <2>1, <2>2
<1> QED
  BY <1>1, <1>4, <1>5, <1>6, <1>7

\* Byte m of element i of what a step goes through
NetworkPlace(ts, w, x, m, i) ==
  ts \in {2, 4, 8, 16} /\ w \in {16, 32} /\ Registers(x, ts, w) /\ m \in 0 .. ts - 1 /\ i \in 0 .. w - 1

\* Register m, byte i of what shuffle stores: byte m of element i of the w
\* elements that it loaded.
LEMMA TransposeIs ==
  ASSUME NEW ts, NEW w, NEW x, NEW m, NEW i, NetworkPlace(ts, w, x, m, i)
  PROVE  Entry(Transpose(ts, w, x), m, i) = Entry(x, (i * ts + m) \div w, (i * ts + m) % w)
<1> ts \in {2, 4, 8, 16} /\ w \in {16, 32} /\ Registers(x, ts, w) /\ m \in 0 .. ts - 1 /\ i \in 0 .. w - 1
  BY DEF NetworkPlace
<1>1. CASE ts = 2 /\ w = 16
  <2>1. m \in 0 .. 1 /\ i \in 0 .. 15
    BY <1>1
  <2>2. PICK d \in Bit : m = Number(0, 0, 0, 0, d)
    BY <2>1, BitsOf
  <2>3. PICK e, f, g, h \in Bit : i = Number(0, e, f, g, h)
    BY <2>1, BitsOf
  <2>4. Address(2, 16, 0, 0, 0, d, 0, e, f, g, h)
    BY DEF Address, Below, Number, Bit, Lanes, Widths
  <2>5. (i * 2 + m) \div 16 = Number(0, 0, 0, 0, e) /\ (i * 2 + m) % 16 = Number(0, f, g, h, d)
    BY <2>2, <2>3 DEF Number, Bit
  <2>6. Registers(x, 2, 16)
    BY <1>1
  <2>7. Entry(Transpose(2, 16, x), Number(0, 0, 0, 0, d), Number(0, e, f, g, h)) = Entry(x, Number(0, 0, 0, 0, e), Number(0, f, g, h, d))
    BY <2>4, <2>6, Shuffle2x16
  <2> QED
    BY <1>1, <2>2, <2>3, <2>5, <2>7 DEF Entry
<1>2. CASE ts = 2 /\ w = 32
  <2>1. m \in 0 .. 1 /\ i \in 0 .. 31
    BY <1>2
  <2>2. PICK d \in Bit : m = Number(0, 0, 0, 0, d)
    BY <2>1, BitsOf
  <2>3. PICK z, e, f, g, h \in Bit : i = Number(z, e, f, g, h)
    BY <2>1, BitsOf
  <2>4. Address(2, 32, 0, 0, 0, d, z, e, f, g, h)
    BY DEF Address, Below, Number, Bit, Lanes, Widths
  <2>5. (i * 2 + m) \div 32 = Number(0, 0, 0, 0, z) /\ (i * 2 + m) % 32 = Number(e, f, g, h, d)
    BY <2>2, <2>3 DEF Number, Bit
  <2>6. Registers(x, 2, 32)
    BY <1>2
  <2>7. Entry(Transpose(2, 32, x), Number(0, 0, 0, 0, d), Number(z, e, f, g, h)) = Entry(x, Number(0, 0, 0, 0, z), Number(e, f, g, h, d))
    BY <2>4, <2>6, Shuffle2x32
  <2> QED
    BY <1>2, <2>2, <2>3, <2>5, <2>7 DEF Entry
<1>3. CASE ts = 4 /\ w = 16
  <2>1. m \in 0 .. 3 /\ i \in 0 .. 15
    BY <1>3
  <2>2. PICK c, d \in Bit : m = Number(0, 0, 0, c, d)
    BY <2>1, BitsOf
  <2>3. PICK e, f, g, h \in Bit : i = Number(0, e, f, g, h)
    BY <2>1, BitsOf
  <2>4. Address(4, 16, 0, 0, c, d, 0, e, f, g, h)
    BY DEF Address, Below, Number, Bit, Lanes, Widths
  <2>5. (i * 4 + m) \div 16 = Number(0, 0, 0, e, f) /\ (i * 4 + m) % 16 = Number(0, g, h, c, d)
    BY <2>2, <2>3 DEF Number, Bit
  <2>6. Registers(x, 4, 16)
    BY <1>3
  <2>7. Entry(Transpose(4, 16, x), Number(0, 0, 0, c, d), Number(0, e, f, g, h)) = Entry(x, Number(0, 0, 0, e, f), Number(0, g, h, c, d))
    BY <2>4, <2>6, Shuffle4x16
  <2> QED
    BY <1>3, <2>2, <2>3, <2>5, <2>7 DEF Entry
<1>4. CASE ts = 4 /\ w = 32
  <2>1. m \in 0 .. 3 /\ i \in 0 .. 31
    BY <1>4
  <2>2. PICK c, d \in Bit : m = Number(0, 0, 0, c, d)
    BY <2>1, BitsOf
  <2>3. PICK z, e, f, g, h \in Bit : i = Number(z, e, f, g, h)
    BY <2>1, BitsOf
  <2>4. Address(4, 32, 0, 0, c, d, z, e, f, g, h)
    BY DEF Address, Below, Number, Bit, Lanes, Widths
  <2>5. (i * 4 + m) \div 32 = Number(0, 0, 0, z, e) /\ (i * 4 + m) % 32 = Number(f, g, h, c, d)
    BY <2>2, <2>3 DEF Number, Bit
  <2>6. Registers(x, 4, 32)
    BY <1>4
  <2>7. Entry(Transpose(4, 32, x), Number(0, 0, 0, c, d), Number(z, e, f, g, h)) = Entry(x, Number(0, 0, 0, z, e), Number(f, g, h, c, d))
    BY <2>4, <2>6, Shuffle4x32
  <2> QED
    BY <1>4, <2>2, <2>3, <2>5, <2>7 DEF Entry
<1>5. CASE ts = 8 /\ w = 16
  <2>1. m \in 0 .. 7 /\ i \in 0 .. 15
    BY <1>5
  <2>2. PICK b, c, d \in Bit : m = Number(0, 0, b, c, d)
    BY <2>1, BitsOf
  <2>3. PICK e, f, g, h \in Bit : i = Number(0, e, f, g, h)
    BY <2>1, BitsOf
  <2>4. Address(8, 16, 0, b, c, d, 0, e, f, g, h)
    BY DEF Address, Below, Number, Bit, Lanes, Widths
  <2>5. (i * 8 + m) \div 16 = Number(0, 0, e, f, g) /\ (i * 8 + m) % 16 = Number(0, h, b, c, d)
    BY <2>2, <2>3 DEF Number, Bit
  <2>6. Registers(x, 8, 16)
    BY <1>5
  <2>7. Entry(Transpose(8, 16, x), Number(0, 0, b, c, d), Number(0, e, f, g, h)) = Entry(x, Number(0, 0, e, f, g), Number(0, h, b, c, d))
    BY <2>4, <2>6, Shuffle8x16
  <2> QED
    BY <1>5, <2>2, <2>3, <2>5, <2>7 DEF Entry
<1>6. CASE ts = 8 /\ w = 32
  <2>1. m \in 0 .. 7 /\ i \in 0 .. 31
    BY <1>6
  <2>2. PICK b, c, d \in Bit : m = Number(0, 0, b, c, d)
    BY <2>1, BitsOf
  <2>3. PICK z, e, f, g, h \in Bit : i = Number(z, e, f, g, h)
    BY <2>1, BitsOf
  <2>4. Address(8, 32, 0, b, c, d, z, e, f, g, h)
    BY DEF Address, Below, Number, Bit, Lanes, Widths
  <2>5. (i * 8 + m) \div 32 = Number(0, 0, z, e, f) /\ (i * 8 + m) % 32 = Number(g, h, b, c, d)
    BY <2>2, <2>3 DEF Number, Bit
  <2>6. Registers(x, 8, 32)
    BY <1>6
  <2>7. Entry(Transpose(8, 32, x), Number(0, 0, b, c, d), Number(z, e, f, g, h)) = Entry(x, Number(0, 0, z, e, f), Number(g, h, b, c, d))
    BY <2>4, <2>6, Shuffle8x32
  <2> QED
    BY <1>6, <2>2, <2>3, <2>5, <2>7 DEF Entry
<1>7. CASE ts = 16 /\ w = 16
  <2>1. m \in 0 .. 15 /\ i \in 0 .. 15
    BY <1>7
  <2>2. PICK a, b, c, d \in Bit : m = Number(0, a, b, c, d)
    BY <2>1, BitsOf
  <2>3. PICK e, f, g, h \in Bit : i = Number(0, e, f, g, h)
    BY <2>1, BitsOf
  <2>4. Address(16, 16, a, b, c, d, 0, e, f, g, h)
    BY DEF Address, Below, Number, Bit, Lanes, Widths
  <2>5. (i * 16 + m) \div 16 = Number(0, e, f, g, h) /\ (i * 16 + m) % 16 = Number(0, a, b, c, d)
    BY <2>2, <2>3 DEF Number, Bit
  <2>6. Registers(x, 16, 16)
    BY <1>7
  <2>7. Entry(Transpose(16, 16, x), Number(0, a, b, c, d), Number(0, e, f, g, h)) = Entry(x, Number(0, e, f, g, h), Number(0, a, b, c, d))
    BY <2>4, <2>6, Shuffle16x16
  <2> QED
    BY <1>7, <2>2, <2>3, <2>5, <2>7 DEF Entry
<1>8. CASE ts = 16 /\ w = 32
  <2>1. m \in 0 .. 15 /\ i \in 0 .. 31
    BY <1>8
  <2>2. PICK a, b, c, d \in Bit : m = Number(0, a, b, c, d)
    BY <2>1, BitsOf
  <2>3. PICK z, e, f, g, h \in Bit : i = Number(z, e, f, g, h)
    BY <2>1, BitsOf
  <2>4. Address(16, 32, a, b, c, d, z, e, f, g, h)
    BY DEF Address, Below, Number, Bit, Lanes, Widths
  <2>5. (i * 16 + m) \div 32 = Number(0, z, e, f, g) /\ (i * 16 + m) % 32 = Number(h, a, b, c, d)
    BY <2>2, <2>3 DEF Number, Bit
  <2>6. Registers(x, 16, 32)
    BY <1>8
  <2>7. Entry(Transpose(16, 32, x), Number(0, a, b, c, d), Number(z, e, f, g, h)) = Entry(x, Number(0, z, e, f, g), Number(h, a, b, c, d))
    BY <2>4, <2>6, Shuffle16x32
  <2> QED
    BY <1>8, <2>2, <2>3, <2>5, <2>7 DEF Entry
<1> QED
  BY <1>1, <1>2, <1>3, <1>4, <1>5, <1>6, <1>7, <1>8 DEF Entry

\* Register m, byte i of what unshuffle stores: the byte of the elements, one
\* after the other, at this place.
LEMMA UntransposeIs ==
  ASSUME NEW ts, NEW w, NEW x, NEW m, NEW i, NetworkPlace(ts, w, x, m, i)
  PROVE  Entry(Untranspose(ts, w, x), m, i) = Entry(x, (m * w + i) % ts, (m * w + i) \div ts)
<1> ts \in {2, 4, 8, 16} /\ w \in {16, 32} /\ Registers(x, ts, w) /\ m \in 0 .. ts - 1 /\ i \in 0 .. w - 1
  BY DEF NetworkPlace
<1>1. CASE ts = 2 /\ w = 16
  <2>1. m \in 0 .. 1 /\ i \in 0 .. 15
    BY <1>1
  <2>2. PICK d \in Bit : m = Number(0, 0, 0, 0, d)
    BY <2>1, BitsOf
  <2>3. PICK e, f, g, h \in Bit : i = Number(0, e, f, g, h)
    BY <2>1, BitsOf
  <2>4. Address(2, 16, 0, 0, 0, d, 0, e, f, g, h)
    BY DEF Address, Below, Number, Bit, Lanes, Widths
  <2>5. (m * 16 + i) % 2 = Number(0, 0, 0, 0, h) /\ (m * 16 + i) \div 2 = Number(0, d, e, f, g)
    BY <2>2, <2>3 DEF Number, Bit
  <2>6. Registers(x, 2, 16)
    BY <1>1
  <2>7. Entry(Untranspose(2, 16, x), Number(0, 0, 0, 0, d), Number(0, e, f, g, h)) = Entry(x, Number(0, 0, 0, 0, h), Number(0, d, e, f, g))
    BY <2>4, <2>6, Unshuffle2x16
  <2> QED
    BY <1>1, <2>2, <2>3, <2>5, <2>7 DEF Entry
<1>2. CASE ts = 2 /\ w = 32
  <2>1. m \in 0 .. 1 /\ i \in 0 .. 31
    BY <1>2
  <2>2. PICK d \in Bit : m = Number(0, 0, 0, 0, d)
    BY <2>1, BitsOf
  <2>3. PICK z, e, f, g, h \in Bit : i = Number(z, e, f, g, h)
    BY <2>1, BitsOf
  <2>4. Address(2, 32, 0, 0, 0, d, z, e, f, g, h)
    BY DEF Address, Below, Number, Bit, Lanes, Widths
  <2>5. (m * 32 + i) % 2 = Number(0, 0, 0, 0, h) /\ (m * 32 + i) \div 2 = Number(d, z, e, f, g)
    BY <2>2, <2>3 DEF Number, Bit
  <2>6. Registers(x, 2, 32)
    BY <1>2
  <2>7. Entry(Untranspose(2, 32, x), Number(0, 0, 0, 0, d), Number(z, e, f, g, h)) = Entry(x, Number(0, 0, 0, 0, h), Number(d, z, e, f, g))
    BY <2>4, <2>6, Unshuffle2x32
  <2> QED
    BY <1>2, <2>2, <2>3, <2>5, <2>7 DEF Entry
<1>3. CASE ts = 4 /\ w = 16
  <2>1. m \in 0 .. 3 /\ i \in 0 .. 15
    BY <1>3
  <2>2. PICK c, d \in Bit : m = Number(0, 0, 0, c, d)
    BY <2>1, BitsOf
  <2>3. PICK e, f, g, h \in Bit : i = Number(0, e, f, g, h)
    BY <2>1, BitsOf
  <2>4. Address(4, 16, 0, 0, c, d, 0, e, f, g, h)
    BY DEF Address, Below, Number, Bit, Lanes, Widths
  <2>5. (m * 16 + i) % 4 = Number(0, 0, 0, g, h) /\ (m * 16 + i) \div 4 = Number(0, c, d, e, f)
    BY <2>2, <2>3 DEF Number, Bit
  <2>6. Registers(x, 4, 16)
    BY <1>3
  <2>7. Entry(Untranspose(4, 16, x), Number(0, 0, 0, c, d), Number(0, e, f, g, h)) = Entry(x, Number(0, 0, 0, g, h), Number(0, c, d, e, f))
    BY <2>4, <2>6, Unshuffle4x16
  <2> QED
    BY <1>3, <2>2, <2>3, <2>5, <2>7 DEF Entry
<1>4. CASE ts = 4 /\ w = 32
  <2>1. m \in 0 .. 3 /\ i \in 0 .. 31
    BY <1>4
  <2>2. PICK c, d \in Bit : m = Number(0, 0, 0, c, d)
    BY <2>1, BitsOf
  <2>3. PICK z, e, f, g, h \in Bit : i = Number(z, e, f, g, h)
    BY <2>1, BitsOf
  <2>4. Address(4, 32, 0, 0, c, d, z, e, f, g, h)
    BY DEF Address, Below, Number, Bit, Lanes, Widths
  <2>5. (m * 32 + i) % 4 = Number(0, 0, 0, g, h) /\ (m * 32 + i) \div 4 = Number(c, d, z, e, f)
    BY <2>2, <2>3 DEF Number, Bit
  <2>6. Registers(x, 4, 32)
    BY <1>4
  <2>7. Entry(Untranspose(4, 32, x), Number(0, 0, 0, c, d), Number(z, e, f, g, h)) = Entry(x, Number(0, 0, 0, g, h), Number(c, d, z, e, f))
    BY <2>4, <2>6, Unshuffle4x32
  <2> QED
    BY <1>4, <2>2, <2>3, <2>5, <2>7 DEF Entry
<1>5. CASE ts = 8 /\ w = 16
  <2>1. m \in 0 .. 7 /\ i \in 0 .. 15
    BY <1>5
  <2>2. PICK b, c, d \in Bit : m = Number(0, 0, b, c, d)
    BY <2>1, BitsOf
  <2>3. PICK e, f, g, h \in Bit : i = Number(0, e, f, g, h)
    BY <2>1, BitsOf
  <2>4. Address(8, 16, 0, b, c, d, 0, e, f, g, h)
    BY DEF Address, Below, Number, Bit, Lanes, Widths
  <2>5. (m * 16 + i) % 8 = Number(0, 0, f, g, h) /\ (m * 16 + i) \div 8 = Number(0, b, c, d, e)
    BY <2>2, <2>3 DEF Number, Bit
  <2>6. Registers(x, 8, 16)
    BY <1>5
  <2>7. Entry(Untranspose(8, 16, x), Number(0, 0, b, c, d), Number(0, e, f, g, h)) = Entry(x, Number(0, 0, f, g, h), Number(0, b, c, d, e))
    BY <2>4, <2>6, Unshuffle8x16
  <2> QED
    BY <1>5, <2>2, <2>3, <2>5, <2>7 DEF Entry
<1>6. CASE ts = 8 /\ w = 32
  <2>1. m \in 0 .. 7 /\ i \in 0 .. 31
    BY <1>6
  <2>2. PICK b, c, d \in Bit : m = Number(0, 0, b, c, d)
    BY <2>1, BitsOf
  <2>3. PICK z, e, f, g, h \in Bit : i = Number(z, e, f, g, h)
    BY <2>1, BitsOf
  <2>4. Address(8, 32, 0, b, c, d, z, e, f, g, h)
    BY DEF Address, Below, Number, Bit, Lanes, Widths
  <2>5. (m * 32 + i) % 8 = Number(0, 0, f, g, h) /\ (m * 32 + i) \div 8 = Number(b, c, d, z, e)
    BY <2>2, <2>3 DEF Number, Bit
  <2>6. Registers(x, 8, 32)
    BY <1>6
  <2>7. Entry(Untranspose(8, 32, x), Number(0, 0, b, c, d), Number(z, e, f, g, h)) = Entry(x, Number(0, 0, f, g, h), Number(b, c, d, z, e))
    BY <2>4, <2>6, Unshuffle8x32
  <2> QED
    BY <1>6, <2>2, <2>3, <2>5, <2>7 DEF Entry
<1>7. CASE ts = 16 /\ w = 16
  <2>1. m \in 0 .. 15 /\ i \in 0 .. 15
    BY <1>7
  <2>2. PICK a, b, c, d \in Bit : m = Number(0, a, b, c, d)
    BY <2>1, BitsOf
  <2>3. PICK e, f, g, h \in Bit : i = Number(0, e, f, g, h)
    BY <2>1, BitsOf
  <2>4. Address(16, 16, a, b, c, d, 0, e, f, g, h)
    BY DEF Address, Below, Number, Bit, Lanes, Widths
  <2>5. (m * 16 + i) % 16 = Number(0, e, f, g, h) /\ (m * 16 + i) \div 16 = Number(0, a, b, c, d)
    BY <2>2, <2>3 DEF Number, Bit
  <2>6. Registers(x, 16, 16)
    BY <1>7
  <2>7. Entry(Untranspose(16, 16, x), Number(0, a, b, c, d), Number(0, e, f, g, h)) = Entry(x, Number(0, e, f, g, h), Number(0, a, b, c, d))
    BY <2>4, <2>6, Unshuffle16x16
  <2> QED
    BY <1>7, <2>2, <2>3, <2>5, <2>7 DEF Entry
<1>8. CASE ts = 16 /\ w = 32
  <2>1. m \in 0 .. 15 /\ i \in 0 .. 31
    BY <1>8
  <2>2. PICK a, b, c, d \in Bit : m = Number(0, a, b, c, d)
    BY <2>1, BitsOf
  <2>3. PICK z, e, f, g, h \in Bit : i = Number(z, e, f, g, h)
    BY <2>1, BitsOf
  <2>4. Address(16, 32, a, b, c, d, z, e, f, g, h)
    BY DEF Address, Below, Number, Bit, Lanes, Widths
  <2>5. (m * 32 + i) % 16 = Number(0, e, f, g, h) /\ (m * 32 + i) \div 16 = Number(a, b, c, d, z)
    BY <2>2, <2>3 DEF Number, Bit
  <2>6. Registers(x, 16, 32)
    BY <1>8
  <2>7. Entry(Untranspose(16, 32, x), Number(0, a, b, c, d), Number(z, e, f, g, h)) = Entry(x, Number(0, e, f, g, h), Number(a, b, c, d, z))
    BY <2>4, <2>6, Unshuffle16x32
  <2> QED
    BY <1>8, <2>2, <2>3, <2>5, <2>7 DEF Entry
<1> QED
  BY <1>1, <1>2, <1>3, <1>4, <1>5, <1>6, <1>7, <1>8 DEF Entry

-----------------------------------------------------------------------------
(* Division; the steps of a loop over a block of t * s + r bytes *)

\* Quotient and remainder
LEMMA Division ==
  ASSUME NEW a \in Nat, NEW n \in Nat \ {0}
  PROVE  /\ a \div n \in Nat
         /\ a % n \in 0 .. n - 1
         /\ a = n * (a \div n) + (a % n)
<1>1. n \in Nat /\ n > 0
  OBVIOUS
<1>2. a \div n \in Nat
  BY <1>1, SMT
<1>3. a % n \in 0 .. n - 1
  BY <1>1, SMT
<1>4. a = n * (a \div n) + (a % n)
  BY <1>1, SMT
<1> QED
  BY <1>2, <1>3, <1>4, Zenon

LEMMA ProductGrows ==
  ASSUME NEW a \in Nat, NEW b \in Nat, NEW c \in Nat, a <= b
  PROVE  c * a <= c * b
OBVIOUS

LEMMA Quotient ==
  ASSUME NEW q \in Nat, NEW n \in Nat \ {0}, NEW r \in 0 .. n - 1
  PROVE  (n * q + r) \div n = q /\ (n * q + r) % n = r
<1> DEFINE a == n * q + r
           p == a \div n
           m == a % n
<1>0. n * q \in Nat
  OBVIOUS
<1>1. a \in Nat
  BY <1>0
<1>2. p \in Nat /\ m \in 0 .. n - 1 /\ a = n * p + m
  BY <1>1, Division
<1> HIDE DEF p, m
<1>3. CASE p < q
  <2>1. n * (p + 1) <= n * q
    BY <1>2, <1>3, ProductGrows
  <2>2. n * (p + 1) = n * p + n /\ n * p \in Nat
    BY <1>2
  <2> QED
    BY <1>0, <1>2, <2>1, <2>2
<1>4. CASE q < p
  <2>1. n * (q + 1) <= n * p
    BY <1>2, <1>4, ProductGrows
  <2>2. n * (q + 1) = n * q + n /\ n * p \in Nat
    BY <1>2
  <2> QED
    BY <1>0, <1>2, <2>1, <2>2
<1>5. CASE p = q
  BY <1>0, <1>2, <1>5 DEF p, m
<1> QED
  BY <1>2, <1>3, <1>4, <1>5

LEMMA Multiple ==
  ASSUME NEW t \in Nat \ {0}, NEW c \in Nat
  PROVE  (t * c) \div t = c /\ (t * c) % t = 0
<1>1. (t * c + 0) \div t = c /\ (t * c + 0) % t = 0 /\ t * c + 0 = t * c
  BY Quotient
<1> QED
  BY <1>1

\* The bytes of whole elements, row after row: t rows of s
LEMMA Cell ==
  ASSUME NEW t \in Nat \ {0}, NEW s \in Nat, NEW k \in 0 .. t * s - 1
  PROVE  /\ s \in Nat \ {0} /\ k \in Nat
         /\ k \div s \in 0 .. t - 1 /\ k % s \in 0 .. s - 1 /\ k = s * (k \div s) + (k % s)
<1>1. s # 0
  OBVIOUS
<1>2. k \in Nat /\ s \in Nat \ {0}
  BY <1>1
<1>3. k \div s \in Nat /\ k % s \in 0 .. s - 1 /\ k = s * (k \div s) + (k % s)
  BY <1>2, Division
<1> DEFINE q == k \div s
<1> HIDE DEF q
<1>4. q < t
  <2>1. SUFFICES ASSUME t <= q PROVE FALSE
    BY <1>3 DEF q
  <2>2. s * t <= s * q
    BY <1>3, <2>1, ProductGrows DEF q
  <2>3. s * q <= k /\ s * q \in Nat
    BY <1>3 DEF q
  <2>4. s * t = t * s
    OBVIOUS
  <2> QED
    BY <2>2, <2>3, <2>4
<1> QED
  BY <1>2, <1>3, <1>4 DEF q

\* Place m of row i is one of them
LEMMA InRows ==
  ASSUME NEW t \in Nat, NEW s \in Nat, NEW i \in 0 .. s - 1, NEW m \in 0 .. t - 1
  PROVE  i * t + m \in 0 .. t * s - 1
<1>1. (i + 1) * t <= s * t
  BY ProductGrows
<1>2. (i + 1) * t = i * t + t /\ i * t \in Nat /\ s * t = t * s
  OBVIOUS
<1> QED
  BY <1>1, <1>2

\* Elements and leftover bytes of a block
LEMMA Shape ==
  ASSUME NEW t \in Nat \ {0}, NEW s \in Nat, NEW r \in 0 .. t - 1
  PROVE  /\ t * s + r \in Nat /\ t * s \in Nat /\ (t * s + r) \div t = s /\ (t * s + r) % t = r
         /\ s * t = t * s
<1>1. t * s \in Nat /\ s * t = t * s
  OBVIOUS
<1> QED
  BY <1>1, Quotient

\* Steps of w elements, and what they leave over
StepCount(t, w, n) == n \div (t * w)
StepBytes(t, w, n) == n - (n % (t * w))

\* s elements of t bytes, and r bytes more
Dimensions(t, s, r) == t \in Nat \ {0} /\ s \in Nat /\ r \in 0 .. t - 1
Divided(t, s, r, w, n, q, bytes) ==
  /\ Dimensions(t, s, r) /\ w \in Nat \ {0} /\ n = t * s + r
  /\ q = StepCount(t, w, n) /\ bytes = StepBytes(t, w, n)

\* The steps over w elements of t bytes end within the whole elements.
LEMMA StepsOf ==
  ASSUME NEW t, NEW s, NEW r, NEW w, NEW n, NEW q, NEW bytes, Divided(t, s, r, w, n, q, bytes)
  PROVE  /\ q \in Nat /\ bytes \in Nat /\ bytes = (t * w) * q /\ bytes \div t = w * q /\ bytes <= n
         /\ w * q \in Nat /\ w * q <= s
         /\ bytes = n => r = 0 /\ w * q = s
         /\ bytes = (w * q) * t
<1> /\ t \in Nat \ {0} /\ s \in Nat /\ r \in 0 .. t - 1 /\ w \in Nat \ {0} /\ n = t * s + r
    /\ q = StepCount(t, w, n) /\ bytes = StepBytes(t, w, n)
  BY DEF Divided, Dimensions
<1> DEFINE b == t * w
           m == n % b
<1>1. b \in Nat \ {0} /\ n \in Nat
  BY Shape
<1>2. q \in Nat /\ m \in 0 .. b - 1 /\ n = b * q + m /\ bytes = n - m
  <2>1. q = n \div b /\ bytes = n - m
    BY DEF StepCount, StepBytes
  <2>2. n \div b \in Nat /\ n % b \in 0 .. b - 1 /\ n = b * (n \div b) + (n % b)
    <3> HIDE DEF b
    <3> QED
      BY <1>1, Division
  <2> QED
    BY <2>1, <2>2
<1> HIDE DEF m
<1>3. n - m = b * q /\ b * q \in Nat /\ w * q \in Nat
  BY <1>1, <1>2
<1>4. b * q = t * (w * q)
  BY <1>2
<1>5. (t * (w * q)) \div t = w * q /\ (t * (w * q)) % t = 0
  <2> DEFINE c == w * q
  <2>1. c \in Nat
    BY <1>3
  <2> HIDE DEF c
  <2>2. (t * c) \div t = c /\ (t * c) % t = 0
    BY <2>1, Multiple
  <2> QED
    BY <2>2 DEF c
<1>6. (n - m) \div t = w * q
  BY <1>3, <1>4, <1>5
<1>7. w * q <= s
  <2>1. SUFFICES ASSUME s + 1 <= w * q PROVE FALSE
    BY <1>3
  <2>2. t * (s + 1) <= t * (w * q)
    BY <1>3, <2>1, ProductGrows
  <2>3. t * (s + 1) = t * s + t /\ t * s \in Nat
    OBVIOUS
  <2> QED
    BY <1>2, <1>3, <1>4, <2>2, <2>3
<1>8. n - m = n => r = 0 /\ w * q = s
  <2>1. SUFFICES ASSUME n - m = n PROVE r = 0 /\ w * q = s
    OBVIOUS
  <2>2. n = t * (w * q)
    BY <1>1, <1>2, <1>3, <1>4, <2>1
  <2>3. n \div t = w * q /\ n % t = 0
    BY <1>5, <2>2
  <2>4. n \div t = s /\ n % t = r
    BY Shape
  <2> QED
    BY <2>3, <2>4
<1>9. b * q = (w * q) * t
  BY <1>2
<1> QED
  BY <1>1, <1>2, <1>3, <1>6, <1>7, <1>8, <1>9

\* The step of element i
LEMMA StepOf ==
  ASSUME NEW w \in Nat \ {0}, NEW q \in Nat, NEW i \in Nat, i < w * q
  PROVE  /\ i \div w \in 0 .. q - 1 /\ i % w \in 0 .. w - 1
         /\ i - (i % w) = w * (i \div w) /\ i = w * (i \div w) + (i % w)
<1>1. i \div w \in Nat /\ i % w \in 0 .. w - 1 /\ i = w * (i \div w) + (i % w)
  BY Division
<1> DEFINE p == i \div w
<1> HIDE DEF p
<1>2. p < q
  <2>1. SUFFICES ASSUME q <= p PROVE FALSE
    BY <1>1 DEF p
  <2>2. w * q <= w * p
    BY <1>1, <2>1, ProductGrows DEF p
  <2> QED
    BY <1>1, <2>2 DEF p
<1> QED
  BY <1>1, <1>2 DEF p

-----------------------------------------------------------------------------
(* The format of shuffle, and the generic routines from any element on *)

\* The format of shuffle, and the block it is made from
ShuffledBlock(t, s, r, src) ==
  [k \in 0 .. t * s + r - 1 |-> IF k < t * s THEN src[(k % s) * t + k \div s] ELSE src[k]]
UnshuffledBlock(t, s, r, src) ==
  [k \in 0 .. t * s + r - 1 |-> IF k < t * s THEN src[(k % t) * s + k \div t] ELSE src[k]]

ShuffleBegun(t, s, r, v, src, dest) ==
  /\ Dimensions(t, s, r) /\ v \in Nat /\ DOMAIN dest = 0 .. t * s + r - 1
  /\ \A k \in 0 .. t * s - 1 : k % s < v \div t => dest[k] = src[(k % s) * t + k \div s]
\* From element v \div t on, when those before are in place already
LEMMA GenericShuffle ==
  ASSUME NEW t, NEW s, NEW r, NEW v, NEW src, NEW dest, ShuffleBegun(t, s, r, v, src, dest)
  PROVE  shuffle_generic_inline(t, v, t * s + r, src, dest) = ShuffledBlock(t, s, r, src)
<1> /\ t \in Nat \ {0} /\ s \in Nat /\ r \in 0 .. t - 1 /\ v \in Nat /\ DOMAIN dest = 0 .. t * s + r - 1
  BY DEF ShuffleBegun, Dimensions
<1>b. \A k \in 0 .. t * s - 1 : k % s < v \div t => dest[k] = src[(k % s) * t + k \div s]
  BY DEF ShuffleBegun
<1> DEFINE n == t * s + r
           b == t * s
<1>1. n \div t = s /\ s * t = b /\ b \in Nat /\ n \in Nat
  BY Shape
<1>2. shuffle_generic_inline(t, v, n, src, dest)
        = [k \in DOMAIN dest |->
             IF k \in 0 .. n - 1
             THEN IF k >= (n \div t) * t THEN src[k]
                  ELSE IF k % (n \div t) >= v \div t THEN src[(k % (n \div t)) * t + k \div (n \div t)]
                  ELSE dest[k]
             ELSE dest[k]]
  BY DEF shuffle_generic_inline, Stored, BlockBytes, Elements
<1>3. v \div t \in Nat
  BY Division
<1> HIDE DEF n, b
<1>4. ASSUME NEW k \in 0 .. n - 1
      PROVE  (IF k \in 0 .. n - 1
              THEN IF k >= s * t THEN src[k]
                   ELSE IF k % s >= v \div t THEN src[(k % s) * t + k \div s] ELSE dest[k]
              ELSE dest[k])
             = IF k < b THEN src[(k % s) * t + k \div s] ELSE src[k]
  <2>1. CASE k >= b
    BY <1>1, <2>1
  <2>2. CASE k < b
    <3>1. k \in 0 .. b - 1 /\ ~(k >= s * t)
      BY <1>1, <2>2
    <3>2. k % s \in Nat
      BY <3>1, Cell DEF b
    <3>3. k % s < v \div t => dest[k] = src[(k % s) * t + k \div s]
      BY <3>1, <1>b DEF b
    <3>4. k % s < v \div t \/ k % s >= v \div t
      BY <3>2, <1>3
    <3> QED
      BY <2>2, <3>1, <3>3, <3>4
  <2> QED
    BY <1>1, <2>1, <2>2
<1>5. DOMAIN dest = 0 .. n - 1
  BY DEF n
<1> QED
  BY <1>1, <1>2, <1>4, <1>5 DEF ShuffledBlock, n, b

UnshuffleBegun(t, s, r, v, src, dest) ==
  /\ Dimensions(t, s, r) /\ v \in Nat /\ DOMAIN dest = 0 .. t * s + r - 1
  /\ \A k \in 0 .. t * s - 1 : k \div t < v \div t => dest[k] = src[(k % t) * s + k \div t]
LEMMA GenericUnshuffle ==
  ASSUME NEW t, NEW s, NEW r, NEW v, NEW src, NEW dest, UnshuffleBegun(t, s, r, v, src, dest)
  PROVE  unshuffle_generic_inline(t, v, t * s + r, src, dest) = UnshuffledBlock(t, s, r, src)
<1> /\ t \in Nat \ {0} /\ s \in Nat /\ r \in 0 .. t - 1 /\ v \in Nat /\ DOMAIN dest = 0 .. t * s + r - 1
  BY DEF UnshuffleBegun, Dimensions
<1>b. \A k \in 0 .. t * s - 1 : k \div t < v \div t => dest[k] = src[(k % t) * s + k \div t]
  BY DEF UnshuffleBegun
<1> DEFINE n == t * s + r
           b == t * s
<1>1. n \div t = s /\ s * t = b /\ b \in Nat /\ n \in Nat
  BY Shape
<1>2. unshuffle_generic_inline(t, v, n, src, dest)
        = [k \in DOMAIN dest |->
             IF k \in 0 .. n - 1
             THEN IF k >= (n \div t) * t THEN src[k]
                  ELSE IF k \div t >= v \div t THEN src[(k % t) * (n \div t) + k \div t]
                  ELSE dest[k]
             ELSE dest[k]]
  BY DEF unshuffle_generic_inline, Stored, BlockBytes, Elements
<1>3. v \div t \in Nat
  BY Division
<1> HIDE DEF n, b
<1>4. ASSUME NEW k \in 0 .. n - 1
      PROVE  (IF k \in 0 .. n - 1
              THEN IF k >= s * t THEN src[k]
                   ELSE IF k \div t >= v \div t THEN src[(k % t) * s + k \div t] ELSE dest[k]
              ELSE dest[k])
             = IF k < b THEN src[(k % t) * s + k \div t] ELSE src[k]
  <2>1. CASE k >= b
    BY <1>1, <2>1
  <2>2. CASE k < b
    <3>1. k \in 0 .. b - 1 /\ ~(k >= s * t) /\ k \in Nat
      BY <1>1, <2>2
    <3>2. k \div t \in Nat
      BY <3>1, Division
    <3>3. k \div t < v \div t => dest[k] = src[(k % t) * s + k \div t]
      BY <3>1, <1>b DEF b
    <3>4. k \div t < v \div t \/ k \div t >= v \div t
      BY <3>2, <1>3
    <3> QED
      BY <2>2, <3>1, <3>3, <3>4
  <2> QED
    BY <1>1, <2>1, <2>2
<1>5. DOMAIN dest = 0 .. n - 1
  BY DEF n
<1> QED
  BY <1>1, <1>2, <1>4, <1>5 DEF UnshuffledBlock, n, b

\* ShuffleSteps and UnshuffleSteps of any registers
ShuffledBy(w, typesize, n, src, dest, regs) ==
  LET ne == Elements(typesize, n)
      bytes == RoundedDown(n, typesize * w)
      Write(k) ==
        LET i == k % ne
            byte == k \div ne
            o == OffsetIntoType(typesize, byte)
        IN IF i < bytes \div typesize THEN regs[RoundedDown(i, w)][o][byte - o][i % w] ELSE dest[k]
      done == Stored(dest, 0 .. ne * typesize - 1, Write)
  IN IF bytes < n THEN shuffle_generic_inline(typesize, bytes, n, src, done) ELSE done

UnshuffledBy(w, typesize, n, src, dest, regs) ==
  LET bytes == RoundedDown(n, typesize * w)
      Write(k) ==
        LET i == k \div typesize
            o == OffsetIntoType(typesize, k % typesize)
            at == (i % w) * TileWidth(typesize) + (k % typesize) - o
        IN regs[RoundedDown(i, w)][o][at \div w][at % w]
      done == Stored(dest, 0 .. bytes - 1, Write)
  IN IF bytes < n THEN unshuffle_generic_inline(typesize, bytes, n, src, done) ELSE done

\* The sixteen bytes of a larger type that a byte is stored with
LEMMA OffsetIs ==
  ASSUME NEW t \in Nat \ {0}, NEW byte \in 0 .. t - 1
  PROVE  LET o == OffsetIntoType(t, byte)
         IN /\ o \in Offsets(t) /\ o \in Nat
            /\ byte - o \in 0 .. TileWidth(t) - 1
            /\ o + (byte - o) = byte
<1> DEFINE o == OffsetIntoType(t, byte)
<1>1. o \in Offsets(t)
  BY DEF Offsets
<1>2. CASE t <= 16
  BY <1>1, <1>2 DEF OffsetIntoType, TileWidth, Lane
<1>3. CASE t > 16
  <2>1. CASE byte < t % 16
    BY <1>1, <1>3, <2>1 DEF OffsetIntoType, TileWidth, Lane
  <2>2. CASE ~(byte < t % 16)
    <3> DEFINE e == byte - (t % 16)
               m == e % 16
    <3>1. t % 16 \in Nat /\ byte \in Nat
      OBVIOUS
    <3>2. e \in Nat /\ e = byte - (t % 16)
      BY <2>2, <3>1
    <3>3. o = byte - m
      BY <1>3, <2>2 DEF OffsetIntoType, Lane
    <3> HIDE DEF e
    <3>4. m \in 0 .. 15 /\ m <= e
      BY <3>2
    <3> HIDE DEF m, o
    <3>5. o \in Nat /\ byte - o = m
      BY <3>1, <3>2, <3>3, <3>4
    <3>6. TileWidth(t) = 16
      BY <1>3 DEF TileWidth, Lane
    <3> QED
      BY <1>1, <3>1, <3>3, <3>4, <3>5, <3>6 DEF o
  <2> QED
    BY <2>1, <2>2
<1> QED
  BY <1>2, <1>3

-----------------------------------------------------------------------------
(* The loops over steps of w elements, for any network that transposes *)

\* The registers of a step are what it takes from src.
Tile(regs, j, o) == regs[j][o]
ShuffledTiles(regs, w, t, n, src) ==
  \A j \in Steps(t, w, n) : \A o \in Offsets(t) :
    \A m \in 0 .. TileWidth(t) - 1 : \A i \in 0 .. w - 1 :
      Entry(Tile(regs, j, o), m, i) = src[(j + i) * t + (o + m)]
UnshuffledTiles(regs, w, t, n, s, src) ==
  \A j \in Steps(t, w, n) : \A o \in Offsets(t) :
    \A m \in 0 .. TileWidth(t) - 1 : \A i \in 0 .. w - 1 :
      Entry(Tile(regs, j, o), (i * TileWidth(t) + m) \div w, (i * TileWidth(t) + m) % w)
        = src[(o + m) * s + (j + i)]

\* Registers that hold the transposed elements make a shuffled block,
LEMMA ShuffleByRegisters ==
  ASSUME NEW t \in Nat \ {0}, NEW s \in Nat, NEW r \in 0 .. t - 1, NEW w \in Nat \ {0},
         NEW src, NEW dest, DOMAIN dest = 0 .. t * s + r - 1, NEW regs,
         ShuffledTiles(regs, w, t, t * s + r, src)
  PROVE  ShuffledBy(w, t, t * s + r, src, dest, regs) = ShuffledBlock(t, s, r, src)
<1> DEFINE n == t * s + r
           b == t * s
           q == StepCount(t, w, n)
           bytes == StepBytes(t, w, n)
           Reg(k) == LET o == OffsetIntoType(t, k \div s)
                     IN regs[(k % s) - ((k % s) % w)][o][(k \div s) - o][(k % s) % w]
           done == [k \in DOMAIN dest |-> IF k \in 0 .. s * t - 1
                                          THEN IF k % s < bytes \div t THEN Reg(k) ELSE dest[k]
                                          ELSE dest[k]]
<1>1. n \div t = s /\ s * t = b /\ b \in Nat /\ n \in Nat
  BY Shape
<1>2. ShuffledBy(w, t, n, src, dest, regs)
        = IF bytes < n THEN shuffle_generic_inline(t, bytes, n, src, done) ELSE done
  BY <1>1 DEF ShuffledBy, Stored, RoundedDown, Elements, StepBytes
<1>3. /\ q \in Nat /\ bytes \in Nat /\ bytes \div t = w * q /\ bytes <= n
      /\ w * q \in Nat /\ w * q <= s
      /\ bytes = n => r = 0 /\ w * q = s
  <2>1. Divided(t, s, r, w, n, q, bytes)
    BY DEF Divided, Dimensions
  <2> HIDE DEF n, q, bytes
  <2> QED
    BY <2>1, StepsOf
<1>4. Steps(t, w, n) = {w * u : u \in 0 .. q - 1}
  BY DEF Steps, StepCount
<1> HIDE DEF q
<1>5. ASSUME NEW k \in 0 .. b - 1, k % s < w * q
      PROVE  Reg(k) = src[(k % s) * t + k \div s]
  <2> DEFINE i == k % s
             byte == k \div s
             o == OffsetIntoType(t, byte)
             j == i - (i % w)
  <2>1. i \in 0 .. s - 1 /\ byte \in 0 .. t - 1 /\ i \in Nat
    <3>1. k \in 0 .. t * s - 1
      OBVIOUS
    <3>2. k % s \in 0 .. s - 1 /\ k \div s \in 0 .. t - 1
      BY <3>1, Cell
    <3> QED
      BY <3>2
  <2> HIDE DEF i, byte
  <2>2. /\ i \div w \in 0 .. q - 1 /\ i % w \in 0 .. w - 1 /\ j = w * (i \div w)
    BY <1>3, <1>5, <2>1, StepOf DEF i
  <2>3. j \in Steps(t, w, n)
    BY <1>4, <2>2
  <2>4. /\ o \in Offsets(t) /\ byte - o \in 0 .. TileWidth(t) - 1 /\ o + (byte - o) = byte
    BY <2>1, OffsetIs
  <2>5. j + (i % w) = i
    BY <2>1, <2>2
  <2> HIDE DEF j, o
  <2>6. Entry(Tile(regs, j, o), byte - o, i % w) = src[(j + (i % w)) * t + (o + (byte - o))]
    BY <2>2, <2>3, <2>4 DEF ShuffledTiles
  <2>7. Entry(Tile(regs, j, o), byte - o, i % w) = src[i * t + byte]
    BY <2>4, <2>5, <2>6
  <2> QED
    BY <2>7 DEF i, byte, j, o, Entry, Tile
<1> HIDE DEF Reg
<1>6. DOMAIN done = 0 .. n - 1
  OBVIOUS
<1>7. ASSUME NEW k \in 0 .. b - 1, k % s < bytes \div t
      PROVE  done[k] = src[(k % s) * t + k \div s]
  <2>1. k \in DOMAIN dest /\ k \in 0 .. s * t - 1
    BY <1>1
  <2> QED
    BY <1>3, <1>5, <1>7, <2>1
<1> HIDE DEF done, bytes, n
<1>8. CASE bytes < n
  <2>1. shuffle_generic_inline(t, bytes, n, src, done) = ShuffledBlock(t, s, r, src)
    <3>1. \A k \in 0 .. t * s - 1 : k % s < bytes \div t => done[k] = src[(k % s) * t + k \div s]
      BY <1>7 DEF b
    <3>2. DOMAIN done = 0 .. t * s + r - 1
      BY <1>6 DEF n
    <3>3. bytes \in Nat /\ n = t * s + r
      BY <1>3 DEF n
    <3>4. ShuffleBegun(t, s, r, bytes, src, done)
      BY <3>1, <3>2, <3>3 DEF ShuffleBegun, Dimensions
    <3> QED
      BY <3>3, <3>4, GenericShuffle
  <2> QED
    BY <1>2, <1>8, <2>1 DEF n
<1>9. CASE ~(bytes < n)
  <2>1. r = 0 /\ w * q = s /\ bytes \div t = s
    BY <1>1, <1>3, <1>9
  <2>2. n = b
    BY <1>1, <2>1 DEF n
  <2>3. ASSUME NEW k \in 0 .. n - 1
        PROVE  done[k] = IF k < b THEN src[(k % s) * t + k \div s] ELSE src[k]
    <3>1. k \in 0 .. b - 1 /\ k < b
      BY <1>1, <2>2
    <3>2. k % s \in 0 .. s - 1
      BY <3>1, Cell
    <3>3. k % s < bytes \div t
      BY <2>1, <3>2
    <3> QED
      BY <1>7, <3>1, <3>3
  <2>4. done = ShuffledBlock(t, s, r, src)
    <3>1. done = [k \in 0 .. n - 1 |-> done[k]]
      BY <1>6 DEF done
    <3>2. ShuffledBlock(t, s, r, src) = [k \in 0 .. n - 1 |-> IF k < b THEN src[(k % s) * t + k \div s] ELSE src[k]]
      BY DEF ShuffledBlock, n
    <3> HIDE DEF b
    <3> QED
      BY <2>3, <3>1, <3>2
  <2> QED
    BY <1>2, <1>9, <2>4 DEF n
<1> QED
  BY <1>8, <1>9

\* and those that hold elements make the block they come from.
LEMMA UnshuffleByRegisters ==
  ASSUME NEW t \in Nat \ {0}, NEW s \in Nat, NEW r \in 0 .. t - 1, NEW w \in Nat \ {0},
         NEW src, NEW dest, DOMAIN dest = 0 .. t * s + r - 1, NEW regs,
         UnshuffledTiles(regs, w, t, t * s + r, s, src)
  PROVE  UnshuffledBy(w, t, t * s + r, src, dest, regs) = UnshuffledBlock(t, s, r, src)
<1> DEFINE n == t * s + r
           b == t * s
           q == StepCount(t, w, n)
           bytes == StepBytes(t, w, n)
           Reg(k) == LET i == k \div t
                         o == OffsetIntoType(t, k % t)
                         at == (i % w) * TileWidth(t) + (k % t) - o
                     IN regs[i - (i % w)][o][at \div w][at % w]
           done == [k \in DOMAIN dest |-> IF k \in 0 .. bytes - 1 THEN Reg(k) ELSE dest[k]]
<1>1. n \div t = s /\ s * t = b /\ b \in Nat /\ n \in Nat
  BY Shape
<1>2. UnshuffledBy(w, t, n, src, dest, regs)
        = IF bytes < n THEN unshuffle_generic_inline(t, bytes, n, src, done) ELSE done
  BY <1>1 DEF UnshuffledBy, Stored, RoundedDown, Elements, StepBytes
<1>3. /\ q \in Nat /\ bytes \in Nat /\ bytes \div t = w * q /\ bytes <= n
      /\ w * q \in Nat /\ w * q <= s /\ bytes = (w * q) * t
      /\ bytes = n => r = 0 /\ w * q = s
  <2>1. Divided(t, s, r, w, n, q, bytes)
    BY DEF Divided, Dimensions
  <2> HIDE DEF n, q, bytes
  <2> QED
    BY <2>1, StepsOf
<1>4. Steps(t, w, n) = {w * u : u \in 0 .. q - 1}
  BY DEF Steps, StepCount
<1> HIDE DEF q
<1>5. ASSUME NEW k \in Nat, k \div t < w * q
      PROVE  Reg(k) = src[(k % t) * s + k \div t]
  <2> DEFINE i == k \div t
             byte == k % t
             o == OffsetIntoType(t, byte)
             j == i - (i % w)
             tw == TileWidth(t)
  <2>1. i \in Nat /\ byte \in 0 .. t - 1
    BY Division
  <2> HIDE DEF i, byte
  <2>2. /\ i \div w \in 0 .. q - 1 /\ i % w \in 0 .. w - 1 /\ j = w * (i \div w)
    BY <1>3, <1>5, <2>1, StepOf DEF i
  <2>3. j \in Steps(t, w, n)
    BY <1>4, <2>2
  <2>4. /\ o \in Offsets(t) /\ o \in Nat /\ byte - o \in 0 .. tw - 1 /\ o + (byte - o) = byte
    BY <2>1, OffsetIs
  <2>5. j + (i % w) = i
    BY <2>1, <2>2
  <2>6. tw \in Nat
    BY DEF TileWidth, Lane
  <2> DEFINE c == (i % w) * tw
             at == c + (byte - o)
  <2>7. c + byte - o = at
    <3>1. c \in Int
      BY <2>2, <2>6
    <3> HIDE DEF c, o
    <3> QED
      BY <2>1, <2>4, <3>1
  <2> HIDE DEF j, o, tw
  <2>8. Entry(Tile(regs, j, o), at \div w, at % w) = src[(o + (byte - o)) * s + (j + (i % w))]
    BY <2>2, <2>3, <2>4 DEF tw, UnshuffledTiles
  <2>9. Entry(Tile(regs, j, o), at \div w, at % w) = src[byte * s + i]
    BY <2>4, <2>5, <2>8
  <2> QED
    BY <2>7, <2>9 DEF i, byte, j, o, tw, Entry, Tile
<1> HIDE DEF Reg
<1>6. DOMAIN done = 0 .. n - 1
  OBVIOUS
<1>7. ASSUME NEW k \in 0 .. b - 1, k \div t < bytes \div t
      PROVE  done[k] = src[(k % t) * s + k \div t]
  <2>1. k \in DOMAIN dest /\ k \in Nat
    BY <1>1
  <2>2. k \in 0 .. bytes - 1
    <3>1. k = t * (k \div t) + (k % t) /\ k \div t \in Nat /\ k % t \in 0 .. t - 1
      BY <2>1, Division
    <3> DEFINE c == k \div t
               e == w * q
    <3>2. c \in Nat /\ e \in Nat /\ c + 1 <= e /\ c + 1 \in Nat /\ bytes = e * t
      BY <1>3, <1>7, <3>1
    <3> HIDE DEF c, e
    <3>3. t * (c + 1) <= t * e
      BY <3>2, ProductGrows
    <3>4. t * e = e * t /\ t * (c + 1) = t * c + t /\ t * c \in Nat
      BY <3>2
    <3>5. k = t * c + (k % t) /\ k % t \in 0 .. t - 1
      BY <3>1 DEF c
    <3> DEFINE tc == t * c
               et == e * t
               rest == k % t
    <3>6. et \in Nat /\ tc \in Nat /\ tc + t <= et /\ bytes = et /\ k = tc + rest /\ rest \in 0 .. t - 1
      BY <3>2, <3>3, <3>4, <3>5
    <3> HIDE DEF tc, et, rest
    <3> QED
      BY <2>1, <3>6
  <2>3. done[k] = Reg(k)
    BY <2>1, <2>2
  <2>4. k \div t < w * q
    BY <1>3, <1>7
  <2> QED
    BY <1>5, <2>1, <2>3, <2>4
<1> HIDE DEF done, bytes, n
<1>8. CASE bytes < n
  <2>1. unshuffle_generic_inline(t, bytes, n, src, done) = UnshuffledBlock(t, s, r, src)
    <3>1. \A k \in 0 .. t * s - 1 : k \div t < bytes \div t => done[k] = src[(k % t) * s + k \div t]
      BY <1>7 DEF b
    <3>2. DOMAIN done = 0 .. t * s + r - 1
      BY <1>6 DEF n
    <3>3. bytes \in Nat /\ n = t * s + r
      BY <1>3 DEF n
    <3>4. UnshuffleBegun(t, s, r, bytes, src, done)
      BY <3>1, <3>2, <3>3 DEF UnshuffleBegun, Dimensions
    <3> QED
      BY <3>3, <3>4, GenericUnshuffle
  <2> QED
    BY <1>2, <1>8, <2>1 DEF n
<1>9. CASE ~(bytes < n)
  <2>1. r = 0 /\ w * q = s /\ bytes \div t = s
    BY <1>1, <1>3, <1>9
  <2>2. n = b
    BY <1>1, <2>1 DEF n
  <2>3. ASSUME NEW k \in 0 .. n - 1
        PROVE  done[k] = IF k < b THEN src[(k % t) * s + k \div t] ELSE src[k]
    <3>1. k \in 0 .. b - 1 /\ k < b /\ k \in Nat
      BY <1>1, <2>2
    <3>2. k \div t < s
      <4>1. k \in 0 .. s * t - 1 /\ s # 0
        BY <1>1, <3>1
      <4> QED
        BY <4>1, Cell
    <3>3. k \div t < bytes \div t
      BY <2>1, <3>2
    <3> QED
      BY <1>7, <3>1, <3>3
  <2>4. done = UnshuffledBlock(t, s, r, src)
    <3>1. done = [k \in 0 .. n - 1 |-> done[k]]
      BY <1>6 DEF done
    <3>2. UnshuffledBlock(t, s, r, src) = [k \in 0 .. n - 1 |-> IF k < b THEN src[(k % t) * s + k \div t] ELSE src[k]]
      BY DEF UnshuffledBlock, n
    <3> HIDE DEF b
    <3> QED
      BY <2>3, <3>1, <3>2
  <2> QED
    BY <1>2, <1>9, <2>4 DEF n
<1> QED
  BY <1>8, <1>9

-----------------------------------------------------------------------------
(* What the loops load, for every type and width *)

\* The registers of one step
VectorTiles(w, typesize, n, src) ==
  [j \in Steps(typesize, w, n) |-> [o \in Offsets(typesize) |->
     Transpose(TileWidth(typesize), w, LoadElements(src, typesize, w, j, o))]]
VectorRows(w, typesize, n, src) ==
  [j \in Steps(typesize, w, n) |-> [o \in Offsets(typesize) |->
     Untranspose(TileWidth(typesize), w, Rows(src, typesize, w, n, j, o))]]
NeonTiles(w, typesize, n, src) ==
  [j \in Steps(typesize, w, n) |-> [o \in Offsets(typesize) |->
     NeonTranspose(typesize, w, LoadElements(src, typesize, w, j, o))]]
NeonRows(w, typesize, n, src) ==
  [j \in Steps(typesize, w, n) |-> [o \in Offsets(typesize) |->
     NeonUntranspose(typesize, w, Rows(src, typesize, w, n, j, o))]]

LEMMA VectorByTiles ==
  ASSUME NEW w, NEW t, NEW n, NEW src, NEW dest
  PROVE  /\ Vectorized(t, w, n) =>
              /\ shuffle_vector(w, t, n, src, dest) = ShuffledBy(w, t, n, src, dest, VectorTiles(w, t, n, src))
              /\ unshuffle_vector(w, t, n, src, dest) = UnshuffledBy(w, t, n, src, dest, VectorRows(w, t, n, src))
         /\ ~Vectorized(t, w, n) =>
              /\ shuffle_vector(w, t, n, src, dest) = shuffle_generic_inline(t, 0, n, src, dest)
              /\ unshuffle_vector(w, t, n, src, dest) = unshuffle_generic_inline(t, 0, n, src, dest)
<1>1. Vectorized(t, w, n) => shuffle_vector(w, t, n, src, dest) = ShuffledBy(w, t, n, src, dest, VectorTiles(w, t, n, src))
  BY DEF shuffle_vector, ShuffleSteps, ShuffledBy, VectorTiles, Stored
<1>2. Vectorized(t, w, n) => unshuffle_vector(w, t, n, src, dest) = UnshuffledBy(w, t, n, src, dest, VectorRows(w, t, n, src))
  BY DEF unshuffle_vector, UnshuffleSteps, UnshuffledBy, VectorRows, Stored
<1>3. ~Vectorized(t, w, n) => /\ shuffle_vector(w, t, n, src, dest) = shuffle_generic_inline(t, 0, n, src, dest)
                              /\ unshuffle_vector(w, t, n, src, dest) = unshuffle_generic_inline(t, 0, n, src, dest)
  BY Zenon DEF shuffle_vector, unshuffle_vector
<1> QED
  BY <1>1, <1>2, <1>3

LEMMA NeonByTiles ==
  ASSUME NEW t, NEW n, NEW src, NEW dest, NEW w, w = NeonWidth(t)
  PROVE  /\ NeonVectorized(t, n) =>
              /\ shuffle_neon(t, n, src, dest) = ShuffledBy(w, t, n, src, dest, NeonTiles(w, t, n, src))
              /\ unshuffle_neon(t, n, src, dest) = UnshuffledBy(w, t, n, src, dest, NeonRows(w, t, n, src))
         /\ ~NeonVectorized(t, n) =>
              /\ shuffle_neon(t, n, src, dest) = shuffle_generic_inline(t, 0, n, src, dest)
              /\ unshuffle_neon(t, n, src, dest) = unshuffle_generic_inline(t, 0, n, src, dest)
<1>1. NeonVectorized(t, n) => shuffle_neon(t, n, src, dest) = ShuffledBy(w, t, n, src, dest, NeonTiles(w, t, n, src))
  BY DEF shuffle_neon, ShuffleSteps, ShuffledBy, NeonTiles, Stored
<1>2. NeonVectorized(t, n) => unshuffle_neon(t, n, src, dest) = UnshuffledBy(w, t, n, src, dest, NeonRows(w, t, n, src))
  BY DEF unshuffle_neon, UnshuffleSteps, UnshuffledBy, NeonRows, Stored
<1>3. ~NeonVectorized(t, n) => /\ shuffle_neon(t, n, src, dest) = shuffle_generic_inline(t, 0, n, src, dest)
                               /\ unshuffle_neon(t, n, src, dest) = unshuffle_generic_inline(t, 0, n, src, dest)
  BY Zenon DEF shuffle_neon, unshuffle_neon
<1> QED
  BY <1>1, <1>2, <1>3

\* Byte m of element i of a step, and where it is in registers of w bytes
StepPlace(t, w, i, m) == t \in Nat \ {0} /\ w \in Nat \ {0} /\ i \in 0 .. w - 1 /\ m \in 0 .. t - 1

LEMMA StepPlaceIs ==
  ASSUME NEW t, NEW w, NEW i, NEW m, StepPlace(t, w, i, m)
  PROVE  /\ (i * t + m) \div w \in 0 .. t - 1 /\ (i * t + m) % w \in 0 .. w - 1
         /\ ((i * t + m) \div w) * w + ((i * t + m) % w) = i * t + m
         /\ (i * t + m) % t = m /\ (i * t + m) \div t = i
<1> /\ t \in Nat \ {0} /\ w \in Nat \ {0} /\ i \in 0 .. w - 1 /\ m \in 0 .. t - 1
  BY DEF StepPlace
<1> DEFINE k == i * t + m
<1>1. k \in 0 .. t * w - 1
  BY InRows
<1>2. k = t * i + m
  OBVIOUS
<1>3. k \div t = i /\ k % t = m
  BY <1>2, Quotient
<1> HIDE DEF k
<1>4. k \div w \in 0 .. t - 1 /\ k % w \in 0 .. w - 1 /\ k = w * (k \div w) + (k % w)
  BY <1>1, Cell
<1>5. w * (k \div w) = (k \div w) * w
  BY <1>4
<1> QED
  BY <1>3, <1>4, <1>5 DEF k

WholePlace(t, w, i, m, j) == StepPlace(t, w, i, m) /\ t <= 16 /\ j \in Nat
TilePlace(t, w, g, i, m, j, o) ==
  g = 16 /\ t \in Nat /\ t > 16 /\ w \in {16, 32} /\ i \in 0 .. w - 1 /\ m \in 0 .. 15 /\ j \in Nat /\ o \in Nat

\* What a step loads of src, when types are not taken 16 bytes at a time
LEMMA LoadedWhole ==
  ASSUME NEW t, NEW w, NEW i, NEW m, NEW j, WholePlace(t, w, i, m, j), NEW src
  PROVE  Entry(LoadElements(src, t, w, j, 0), (i * t + m) \div w, (i * t + m) % w) = src[(j + i) * t + (0 + m)]
<1> /\ t \in Nat \ {0} /\ w \in Nat \ {0} /\ i \in 0 .. w - 1 /\ m \in 0 .. t - 1
    /\ StepPlace(t, w, i, m)
  BY DEF WholePlace, StepPlace
<1>0. t <= 16 /\ j \in Nat
  BY DEF WholePlace
<1> DEFINE k == (i * t + m) \div w
           p == (i * t + m) % w
<1>1. k \in 0 .. t - 1 /\ p \in 0 .. w - 1 /\ k * w + p = i * t + m
  BY StepPlaceIs
<1>2. LoadElements(src, t, w, j, 0) = [l \in 0 .. t - 1 |-> [e \in 0 .. w - 1 |-> src[j * t + l * w + e]]]
  BY <1>0 DEF LoadElements, Load, Register, Lane
<1> HIDE DEF k, p
<1>3. LoadElements(src, t, w, j, 0)[k][p] = src[j * t + k * w + p]
  <2>1. LoadElements(src, t, w, j, 0)[k] = [e \in 0 .. w - 1 |-> src[j * t + k * w + e]]
    BY <1>1, <1>2
  <2> QED
    BY <1>1, <2>1
<1>4. j * t + k * w + p = (j + i) * t + (0 + m)
  <2>1. k * w \in Nat /\ j * t \in Nat /\ i * t \in Nat /\ (j + i) * t = j * t + i * t
    BY <1>0, <1>1
  <2> DEFINE kw == k * w
             jt == j * t
             it == i * t
  <2>2. kw \in Nat /\ jt \in Nat /\ it \in Nat /\ p \in Nat /\ m \in Nat /\ kw + p = it + m
    BY <1>1, <2>1
  <2> HIDE DEF kw, jt, it
  <2>3. jt + kw + p = jt + it + (0 + m)
    BY <2>2
  <2> QED
    BY <2>1, <2>3 DEF kw, jt, it
<1> QED
  BY <1>3, <1>4 DEF k, p, Entry

LEMMA LoadedTiles ==
  ASSUME NEW t, NEW w, NEW g, NEW i, NEW m, NEW j, NEW o, TilePlace(t, w, g, i, m, j, o), NEW src
  PROVE  Entry(LoadElements(src, t, w, j, o), (i * g + m) \div w, (i * g + m) % w) = src[(j + i) * t + (o + m)]
<1> g = 16 /\ t \in Nat /\ t > 16 /\ w \in {16, 32} /\ i \in 0 .. w - 1 /\ m \in 0 .. 15 /\ j \in Nat /\ o \in Nat
  BY DEF TilePlace
<1> DEFINE k == (i * 16 + m) \div w
           p == (i * 16 + m) % w
           per == w \div 16
<1>1. k \in 0 .. 15 /\ p \in 0 .. w - 1 /\ j + k * per + p \div 16 = j + i /\ p % 16 = m
  <2>1. CASE w = 16
    BY <2>1
  <2>2. CASE w = 32
    BY <2>2
  <2> QED
    BY <2>1, <2>2
<1>2. LoadElements(src, t, w, j, o)
        = [l \in 0 .. 15 |-> [e \in 0 .. w - 1 |-> src[(j + l * per + e \div 16) * t + o + (e % 16)]]]
  BY DEF LoadElements, Register, Lane
<1> HIDE DEF k, p, per
<1>3. LoadElements(src, t, w, j, o)[k][p] = src[(j + k * per + p \div 16) * t + o + (p % 16)]
  BY <1>1, <1>2
<1>4. LoadElements(src, t, w, j, o)[k][p] = src[(j + i) * t + o + m]
  BY <1>1, <1>3
<1>5. (j + i) * t + o + m = (j + i) * t + (o + m)
  <2> DEFINE a == (j + i) * t
  <2>1. a \in Nat
    OBVIOUS
  <2> HIDE DEF a
  <2>2. a + o + m = a + (o + m)
    BY <2>1
  <2> QED
    BY <2>2 DEF a
<1> QED
  BY <1>4, <1>5 DEF k, p, Entry

LEMMA LoadRegisters ==
  ASSUME NEW t \in {2, 4, 8, 16} \cup {u \in Nat : u > 16}, NEW w \in {16, 32}, NEW j, NEW o, NEW src
  PROVE  Registers(LoadElements(src, t, w, j, o), TileWidth(t), w)
<1>1. CASE t <= 16
  BY <1>1 DEF LoadElements, Load, Register, Lane, Registers, IsRegister, TileWidth
<1>2. CASE t > 16
  BY <1>2 DEF LoadElements, Register, Lane, Registers, IsRegister, TileWidth
<1> QED
  BY <1>1, <1>2

\* What unshuffle loads
LEMMA RowRegisters ==
  ASSUME NEW t \in {2, 4, 8, 16} \cup {u \in Nat : u > 16}, NEW w \in {16, 32}, NEW n, NEW j, NEW o, NEW src
  PROVE  Registers(Rows(src, t, w, n, j, o), TileWidth(t), w)
BY DEF Rows, Load, Register, Lane, Registers, IsRegister, TileWidth

LEMMA StepsAndOffsets ==
  ASSUME NEW t, NEW s, NEW r, Dimensions(t, s, r), NEW w \in Nat \ {0}, NEW n, n = t * s + r,
         NEW j \in Steps(t, w, n), NEW o \in Offsets(t)
  PROVE  j \in Nat /\ o \in Nat /\ (t <= 16 => o = 0)
<1> t \in Nat \ {0} /\ s \in Nat /\ r \in 0 .. t - 1
  BY DEF Dimensions
<1>1. j \in Nat
  BY DEF Steps
<1>2. PICK byte \in 0 .. t - 1 : o = OffsetIntoType(t, byte)
  BY DEF Offsets
<1>3. o \in Nat
  BY <1>2, OffsetIs
<1>4. t <= 16 => o = 0
  BY <1>2 DEF OffsetIntoType, Lane
<1> QED
  BY <1>1, <1>3, <1>4

-----------------------------------------------------------------------------
(* shuffle and unshuffle with SSE2 and AVX2 are the generic ones. *)

\* The types that have a network, and the registers that are used for them
VectorTypes == {2, 4, 8, 16} \cup {u \in Nat : u > 16}
VectorShape(t, s, r, w, n) == Dimensions(t, s, r) /\ t \in VectorTypes /\ w \in {16, 32} /\ n = t * s + r

\* The registers of SSE2 and AVX2 are of this kind.
LEMMA VectorTilesAre ==
  ASSUME NEW t, NEW s, NEW r, NEW w, NEW n, VectorShape(t, s, r, w, n), NEW src
  PROVE  ShuffledTiles(VectorTiles(w, t, n, src), w, t, n, src)
<1> /\ Dimensions(t, s, r) /\ t \in {2, 4, 8, 16} \cup {u \in Nat : u > 16} /\ w \in {16, 32} /\ n = t * s + r
    /\ w \in Nat \ {0}
  BY DEF VectorShape, VectorTypes
<1> DEFINE tw == TileWidth(t)
<1>1. SUFFICES ASSUME NEW j \in Steps(t, w, n), NEW o \in Offsets(t), NEW m \in 0 .. tw - 1, NEW i \in 0 .. w - 1
               PROVE  Entry(Tile(VectorTiles(w, t, n, src), j, o), m, i) = src[(j + i) * t + (o + m)]
  BY DEF ShuffledTiles
<1> DEFINE x == LoadElements(src, t, w, j, o)
<1>2. Tile(VectorTiles(w, t, n, src), j, o) = Transpose(tw, w, x)
  BY DEF Tile, VectorTiles
<1>3. tw \in {2, 4, 8, 16}
  BY DEF TileWidth, Lane
<1>4. Registers(x, tw, w)
  BY LoadRegisters
<1>5. NetworkPlace(tw, w, x, m, i)
  BY <1>3, <1>4 DEF NetworkPlace
<1> HIDE DEF x
<1>6. Entry(Transpose(tw, w, x), m, i) = Entry(x, (i * tw + m) \div w, (i * tw + m) % w)
  <2> HIDE DEF tw
  <2> QED
    BY <1>5, TransposeIs
<1>7. j \in Nat /\ o \in Nat /\ (t <= 16 => o = 0)
  BY StepsAndOffsets
<1>8. Entry(x, (i * tw + m) \div w, (i * tw + m) % w) = src[(j + i) * t + (o + m)]
  <2>1. CASE t <= 16
    <3>1. tw = t /\ o = 0
      BY <1>7, <2>1 DEF TileWidth, Lane
    <3>2. WholePlace(t, w, i, m, j)
      BY <1>7, <2>1, <3>1 DEF WholePlace, StepPlace
    <3>3. Entry(LoadElements(src, t, w, j, 0), (i * t + m) \div w, (i * t + m) % w) = src[(j + i) * t + (0 + m)]
      BY <3>2, LoadedWhole
    <3> QED
      BY <3>1, <3>3 DEF x
  <2>2. CASE t > 16
    <3>1. tw = 16
      BY <2>2 DEF TileWidth, Lane
    <3>2. TilePlace(t, w, tw, i, m, j, o)
      BY <1>7, <2>2, <3>1 DEF TilePlace
    <3> HIDE DEF tw
    <3>3. Entry(LoadElements(src, t, w, j, o), (i * tw + m) \div w, (i * tw + m) % w) = src[(j + i) * t + (o + m)]
      BY <3>2, LoadedTiles
    <3> QED
      BY <3>1, <3>3 DEF x
  <2> QED
    BY <2>1, <2>2
<1> QED
  BY <1>2, <1>6, <1>8 DEF x

\* The rows that unshuffle loads
RowPlace(t, s, r, w, n, j, o, k, e) ==
  /\ Dimensions(t, s, r) /\ n = t * s + r
  /\ j \in Nat /\ o \in Nat /\ k \in 0 .. TileWidth(t) - 1 /\ e \in 0 .. w - 1

LEMMA RowIs ==
  ASSUME NEW t, NEW s, NEW r, NEW w, NEW n, NEW j, NEW o, NEW k, NEW e, RowPlace(t, s, r, w, n, j, o, k, e), NEW src
  PROVE  Entry(Rows(src, t, w, n, j, o), k, e) = src[(o + k) * s + (j + e)]
<1> /\ t \in Nat \ {0} /\ s \in Nat /\ r \in 0 .. t - 1 /\ n = t * s + r
    /\ j \in Nat /\ o \in Nat /\ k \in 0 .. TileWidth(t) - 1 /\ e \in 0 .. w - 1
  BY DEF RowPlace, Dimensions
<1>1. Elements(t, n) = s
  BY Shape DEF Elements
<1>2. Rows(src, t, w, n, j, o)[k] = [f \in 0 .. w - 1 |-> src[j + s * (o + k) + f]]
  BY <1>1 DEF Rows, Load, Register
<1>3. Rows(src, t, w, n, j, o)[k][e] = src[j + s * (o + k) + e]
  BY <1>2
<1>4. k \in Nat /\ e \in Int
  OBVIOUS
<1>5. j + s * (o + k) + e = (o + k) * s + (j + e)
  <2> DEFINE a == s * (o + k)
  <2>1. a \in Nat /\ (o + k) * s = a
    BY <1>4
  <2> HIDE DEF a
  <2>2. j + a + e = a + (j + e)
    BY <1>4, <2>1
  <2> QED
    BY <2>1, <2>2 DEF a
<1> QED
  BY <1>3, <1>5 DEF Entry

\* So are those of unshuffle.
LEMMA VectorRowsAre ==
  ASSUME NEW t, NEW s, NEW r, NEW w, NEW n, VectorShape(t, s, r, w, n), NEW src
  PROVE  UnshuffledTiles(VectorRows(w, t, n, src), w, t, n, s, src)
<1> /\ Dimensions(t, s, r) /\ t \in {2, 4, 8, 16} \cup {u \in Nat : u > 16} /\ w \in {16, 32} /\ n = t * s + r
    /\ w \in Nat \ {0}
  BY DEF VectorShape, VectorTypes
<1> DEFINE tw == TileWidth(t)
<1>1. SUFFICES ASSUME NEW j \in Steps(t, w, n), NEW o \in Offsets(t), NEW m \in 0 .. tw - 1, NEW i \in 0 .. w - 1
               PROVE  Entry(Tile(VectorRows(w, t, n, src), j, o), (i * tw + m) \div w, (i * tw + m) % w)
                        = src[(o + m) * s + (j + i)]
  BY DEF UnshuffledTiles
<1> DEFINE x == Rows(src, t, w, n, j, o)
           k == (i * tw + m) \div w
           p == (i * tw + m) % w
<1>2. Tile(VectorRows(w, t, n, src), j, o) = Untranspose(tw, w, x)
  BY DEF Tile, VectorRows
<1>3. tw \in {2, 4, 8, 16}
  BY DEF TileWidth, Lane
<1>4. Registers(x, tw, w)
  BY RowRegisters
<1>5. StepPlace(tw, w, i, m)
  BY <1>3 DEF StepPlace
<1> HIDE DEF tw, x
<1>6. k \in 0 .. tw - 1 /\ p \in 0 .. w - 1 /\ k * w + p = i * tw + m
      /\ (i * tw + m) % tw = m /\ (i * tw + m) \div tw = i
  BY <1>5, StepPlaceIs
<1> HIDE DEF k, p
<1>7. NetworkPlace(tw, w, x, k, p)
  BY <1>3, <1>4, <1>6 DEF NetworkPlace
<1>8. Entry(Untranspose(tw, w, x), k, p) = Entry(x, m, i)
  <2>1. Entry(Untranspose(tw, w, x), k, p) = Entry(x, (k * w + p) % tw, (k * w + p) \div tw)
    BY <1>7, UntransposeIs
  <2> QED
    BY <1>6, <2>1
<1>9. j \in Nat /\ o \in Nat
  BY StepsAndOffsets
<1>10. RowPlace(t, s, r, w, n, j, o, m, i)
  BY <1>9 DEF RowPlace, tw
<1>11. Entry(x, m, i) = src[(o + m) * s + (j + i)]
  BY <1>10, RowIs DEF x
<1> QED
  BY <1>2, <1>8, <1>11 DEF k, p, tw

\* What the loops over elements leave to the generic routine
LEMMA GenericFromZero ==
  ASSUME NEW t, NEW s, NEW r, Dimensions(t, s, r), NEW n, n = t * s + r, NEW src, NEW dest, DOMAIN dest = 0 .. n - 1
  PROVE  /\ shuffle_generic_inline(t, 0, n, src, dest) = ShuffledBlock(t, s, r, src)
         /\ unshuffle_generic_inline(t, 0, n, src, dest) = UnshuffledBlock(t, s, r, src)
<1> t \in Nat \ {0} /\ s \in Nat /\ r \in 0 .. t - 1
  BY DEF Dimensions
<1>1. 0 \div t = 0 /\ 0 \in Nat
  <2>1. (t * 0) \div t = 0 /\ t * 0 = 0
    BY Multiple
  <2> QED
    BY <2>1
<1>2. ASSUME NEW k \in 0 .. t * s - 1
      PROVE  ~(k % s < 0 \div t) /\ ~(k \div t < 0 \div t)
  <2>1. k % s \in 0 .. s - 1
    BY Cell
  <2>2. k \in 0 .. s * t - 1 /\ s \in Nat \ {0}
    BY Cell
  <2>3. k \div t \in 0 .. s - 1
    BY <2>2, Cell
  <2>4. k % s >= 0 /\ k \div t >= 0
    BY <2>1, <2>3
  <2> QED
    BY <1>1, <2>1, <2>3, <2>4
<1>3. ShuffleBegun(t, s, r, 0, src, dest)
  <2>1. \A k \in 0 .. t * s - 1 : ~(k % s < 0 \div t)
    BY <1>2, Zenon
  <2>2. DOMAIN dest = 0 .. t * s + r - 1
    OBVIOUS
  <2> QED
    BY <1>1, <2>1, <2>2, Zenon DEF ShuffleBegun
<1>4. UnshuffleBegun(t, s, r, 0, src, dest)
  <2>1. \A k \in 0 .. t * s - 1 : ~(k \div t < 0 \div t)
    BY <1>2, Zenon
  <2>2. DOMAIN dest = 0 .. t * s + r - 1
    OBVIOUS
  <2> QED
    BY <1>1, <2>1, <2>2, Zenon DEF UnshuffleBegun
<1> QED
  BY <1>3, <1>4, GenericShuffle, GenericUnshuffle

\* shuffle and unshuffle with SSE2 and AVX2, for every type and every block
LEMMA ShuffleVectorIs ==
  ASSUME NEW t, NEW s, NEW r, Dimensions(t, s, r), NEW w \in {16, 32}, NEW n, n = t * s + r,
         NEW src, NEW dest, DOMAIN dest = 0 .. n - 1
  PROVE  /\ shuffle_vector(w, t, n, src, dest) = ShuffledBlock(t, s, r, src)
         /\ unshuffle_vector(w, t, n, src, dest) = UnshuffledBlock(t, s, r, src)
<1>1. CASE Vectorized(t, w, n)
  <2>1. t \in VectorTypes /\ t \in Nat \ {0} /\ s \in Nat /\ r \in 0 .. t - 1
    BY <1>1 DEF Vectorized, VectorTypes, Dimensions, Lane
  <2>2. VectorShape(t, s, r, w, n)
    BY <2>1 DEF VectorShape
  <2>3. ShuffledTiles(VectorTiles(w, t, n, src), w, t, n, src)
    BY <2>2, VectorTilesAre
  <2>4. UnshuffledTiles(VectorRows(w, t, n, src), w, t, n, s, src)
    BY <2>2, VectorRowsAre
  <2>5. ShuffledBy(w, t, n, src, dest, VectorTiles(w, t, n, src)) = ShuffledBlock(t, s, r, src)
    BY <2>1, <2>3, ShuffleByRegisters
  <2>6. UnshuffledBy(w, t, n, src, dest, VectorRows(w, t, n, src)) = UnshuffledBlock(t, s, r, src)
    BY <2>1, <2>4, UnshuffleByRegisters
  <2> QED
    BY <1>1, <2>5, <2>6, VectorByTiles
<1>2. CASE ~Vectorized(t, w, n)
  BY <1>2, VectorByTiles, GenericFromZero
<1> QED
  BY <1>1, <1>2

-----------------------------------------------------------------------------
(* So are those with NEON; and unshuffle undoes shuffle. *)

NeonSizes(ts, w) == (ts \in {2, 4} /\ w = 16) \/ (ts \in {8, 16} /\ w = 8)
NeonStepPlace(ts, w, x, m, i) ==
  /\ NeonSizes(ts, w) /\ DOMAIN x = 0 .. ts - 1 /\ \A k \in 0 .. ts - 1 : DOMAIN x[k] = 0 .. w - 1
  /\ m \in 0 .. ts - 1 /\ i \in 0 .. w - 1

\* The registers of NEON, which w elements fill
LEMMA NeonTransposeIs ==
  ASSUME NEW ts, NEW w, NEW x, NEW m, NEW i, NeonStepPlace(ts, w, x, m, i)
  PROVE  Entry(NeonTranspose(ts, w, x), m, i) = Entry(x, (i * ts + m) \div w, (i * ts + m) % w)
<1> /\ m \in 0 .. ts - 1 /\ i \in 0 .. w - 1
  BY DEF NeonStepPlace
<1>0. (ts \in {2, 4} /\ w = 16) \/ (ts = 8 /\ w = 8) \/ (ts = 16 /\ w = 8)
  BY DEF NeonStepPlace, NeonSizes
<1>1. CASE ts \in {2, 4} /\ w = 16
  <2>1. NeonTranspose(ts, w, x)
          = [k \in 0 .. ts - 1 |-> [e \in 0 .. w - 1 |-> x[(e * ts + k) \div w][(e * ts + k) % w]]]
    BY <1>1, ts # 8, ts # 16 DEF NeonTranspose
  <2>2. NeonTranspose(ts, w, x)[m] = [e \in 0 .. w - 1 |-> x[(e * ts + m) \div w][(e * ts + m) % w]]
    BY <2>1
  <2> QED
    BY <2>2 DEF Entry
<1>2. CASE ts = 8 /\ w = 8
  <2>1. PICK b, c, d \in Bit : m = Number(0, 0, b, c, d)
    <3>1. m \in 0 .. 7
      BY <1>2
    <3> QED
      BY <3>1, BitsOf
  <2>2. PICK f, g, h \in Bit : i = Number(0, 0, f, g, h)
    <3>1. i \in 0 .. 7
      BY <1>2
    <3> QED
      BY <3>1, BitsOf
  <2>3. NeonAddress(8, 0, b, c, d, f, g, h) /\ NeonRegisters(x, 8)
    BY <1>2 DEF NeonAddress, NeonStepPlace, NeonRegisters, Bit, Below, Number
  <2>4. (i * ts + m) \div w = i /\ (i * ts + m) % w = m
    BY <1>2
  <2>5. Entry(Neon8(x), Number(0, 0, b, c, d), Number(0, 0, f, g, h)) = Entry(x, Number(0, 0, f, g, h), Number(0, 0, b, c, d))
    BY <2>3, Neon8Is
  <2>6. NeonTranspose(ts, w, x) = Neon8(x)
    BY <1>2 DEF NeonTranspose
  <2> QED
    BY <2>1, <2>2, <2>4, <2>5, <2>6
<1>3. CASE ts = 16 /\ w = 8
  <2>1. PICK a, b, c, d \in Bit : m = Number(0, a, b, c, d)
    <3>1. m \in 0 .. 15
      BY <1>3
    <3> QED
      BY <3>1, BitsOf
  <2>2. PICK f, g, h \in Bit : i = Number(0, 0, f, g, h)
    <3>1. i \in 0 .. 7
      BY <1>3
    <3> QED
      BY <3>1, BitsOf
  <2>3. NeonAddress(16, a, b, c, d, f, g, h) /\ NeonRegisters(x, 16)
    BY <1>3 DEF NeonAddress, NeonStepPlace, NeonRegisters, Bit, Below, Number
  <2>4. (i * ts + m) \div w = Number(0, f, g, h, a) /\ (i * ts + m) % w = Number(0, 0, b, c, d)
    BY <1>3, <2>1, <2>2 DEF Number, Bit
  <2>5. Entry(NeonTranspose(16, 8, x), Number(0, a, b, c, d), Number(0, 0, f, g, h)) = Entry(x, Number(0, f, g, h, a), Number(0, 0, b, c, d))
    BY <2>3, Neon16Is
  <2> QED
    BY <1>3, <2>1, <2>2, <2>4, <2>5
<1> QED
  BY <1>0, <1>1, <1>2, <1>3

LEMMA NeonUntransposeIs ==
  ASSUME NEW ts, NEW w, NEW x, NEW m, NEW i, NeonStepPlace(ts, w, x, m, i)
  PROVE  Entry(NeonUntranspose(ts, w, x), m, i) = Entry(x, (m * w + i) % ts, (m * w + i) \div ts)
<1> /\ m \in 0 .. ts - 1 /\ i \in 0 .. w - 1
  BY DEF NeonStepPlace
<1>0. (ts \in {2, 4} /\ w = 16) \/ (ts = 8 /\ w = 8) \/ (ts = 16 /\ w = 8)
  BY DEF NeonStepPlace, NeonSizes
<1>1. CASE ts \in {2, 4} /\ w = 16
  <2>1. NeonUntranspose(ts, w, x)
          = [k \in 0 .. ts - 1 |-> [e \in 0 .. w - 1 |-> x[(w * k + e) % ts][(w * k + e) \div ts]]]
    BY <1>1, ts # 8, ts # 16 DEF NeonUntranspose
  <2>2. NeonUntranspose(ts, w, x)[m] = [e \in 0 .. w - 1 |-> x[(w * m + e) % ts][(w * m + e) \div ts]]
    BY <2>1
  <2>3. w * m = m * w
    BY <1>1
  <2> QED
    BY <2>2, <2>3 DEF Entry
<1>2. CASE ts = 8 /\ w = 8
  <2>1. PICK b, c, d \in Bit : m = Number(0, 0, b, c, d)
    <3>1. m \in 0 .. 7
      BY <1>2
    <3> QED
      BY <3>1, BitsOf
  <2>2. PICK f, g, h \in Bit : i = Number(0, 0, f, g, h)
    <3>1. i \in 0 .. 7
      BY <1>2
    <3> QED
      BY <3>1, BitsOf
  <2>3. NeonAddress(8, 0, b, c, d, f, g, h) /\ NeonRegisters(x, 8)
    BY <1>2 DEF NeonAddress, NeonStepPlace, NeonRegisters, Bit, Below, Number
  <2>4. (m * w + i) % ts = i /\ (m * w + i) \div ts = m
    BY <1>2
  <2>5. Entry(Neon8(x), Number(0, 0, b, c, d), Number(0, 0, f, g, h)) = Entry(x, Number(0, 0, f, g, h), Number(0, 0, b, c, d))
    BY <2>3, Neon8Is
  <2>6. NeonUntranspose(ts, w, x) = Neon8(x)
    BY <1>2 DEF NeonUntranspose
  <2> QED
    BY <2>1, <2>2, <2>4, <2>5, <2>6
<1>3. CASE ts = 16 /\ w = 8
  <2>1. PICK a, b, c, d \in Bit : m = Number(0, a, b, c, d)
    <3>1. m \in 0 .. 15
      BY <1>3
    <3> QED
      BY <3>1, BitsOf
  <2>2. PICK f, g, h \in Bit : i = Number(0, 0, f, g, h)
    <3>1. i \in 0 .. 7
      BY <1>3
    <3> QED
      BY <3>1, BitsOf
  <2>3. NeonAddress(16, d, a, b, c, f, g, h) /\ NeonRegisters(x, 16)
    BY <1>3 DEF NeonAddress, NeonStepPlace, NeonRegisters, Bit, Below, Number
  <2>4. (m * w + i) % ts = Number(0, d, f, g, h) /\ (m * w + i) \div ts = Number(0, 0, a, b, c)
    BY <1>3, <2>1, <2>2 DEF Number, Bit
  <2>5. Entry(Neon8(x), Number(0, d, a, b, c), Number(0, 0, f, g, h)) = Entry(x, Number(0, d, f, g, h), Number(0, 0, a, b, c))
    BY <2>3, Neon8Of16Is
  <2>6. NeonUntranspose(ts, w, x) = [k \in 0 .. 15 |-> Neon8(x)[k \div 2 + 8 * (k % 2)]]
    BY <1>3 DEF NeonUntranspose
  <2>7. m \div 2 + 8 * (m % 2) = Number(0, d, a, b, c)
    BY <2>1 DEF Number, Bit
  <2>8. NeonUntranspose(ts, w, x)[m] = Neon8(x)[Number(0, d, a, b, c)]
    BY <1>3, <2>6, <2>7
  <2> QED
    BY <2>2, <2>4, <2>5, <2>8 DEF Entry
<1> QED
  BY <1>0, <1>1, <1>2, <1>3

NeonShape(t, s, r, w, n) == Dimensions(t, s, r) /\ NeonSizes(t, w) /\ n = t * s + r

LEMMA NeonTilesAre ==
  ASSUME NEW t, NEW s, NEW r, NEW w, NEW n, NeonShape(t, s, r, w, n), NEW src
  PROVE  ShuffledTiles(NeonTiles(w, t, n, src), w, t, n, src)
<1> /\ Dimensions(t, s, r) /\ t \in {2, 4, 8, 16} /\ w \in Nat \ {0} /\ n = t * s + r /\ NeonSizes(t, w)
  BY DEF NeonShape, NeonSizes
<1>0. TileWidth(t) = t
  BY DEF TileWidth, Lane
<1>1. SUFFICES ASSUME NEW j \in Steps(t, w, n), NEW o \in Offsets(t), NEW m \in 0 .. t - 1, NEW i \in 0 .. w - 1
               PROVE  Entry(Tile(NeonTiles(w, t, n, src), j, o), m, i) = src[(j + i) * t + (o + m)]
  BY <1>0 DEF ShuffledTiles
<1> DEFINE x == LoadElements(src, t, w, j, o)
<1>2. Tile(NeonTiles(w, t, n, src), j, o) = NeonTranspose(t, w, x)
  BY DEF Tile, NeonTiles
<1>3. j \in Nat /\ o \in Nat /\ (t <= 16 => o = 0)
  BY StepsAndOffsets
<1>4. NeonStepPlace(t, w, x, m, i)
  BY DEF NeonStepPlace, LoadElements, Load, Register, Lane
<1>5. WholePlace(t, w, i, m, j) /\ o = 0
  BY <1>3 DEF WholePlace, StepPlace
<1>6. Entry(LoadElements(src, t, w, j, 0), (i * t + m) \div w, (i * t + m) % w) = src[(j + i) * t + (0 + m)]
  BY <1>5, LoadedWhole
<1> HIDE DEF x
<1>7. Entry(NeonTranspose(t, w, x), m, i) = Entry(x, (i * t + m) \div w, (i * t + m) % w)
  BY ONLY <1>4, NeonTransposeIs
<1> QED
  BY <1>2, <1>5, <1>6, <1>7 DEF x

LEMMA NeonRowsAre ==
  ASSUME NEW t, NEW s, NEW r, NEW w, NEW n, NeonShape(t, s, r, w, n), NEW src
  PROVE  UnshuffledTiles(NeonRows(w, t, n, src), w, t, n, s, src)
<1> /\ Dimensions(t, s, r) /\ t \in {2, 4, 8, 16} /\ w \in Nat \ {0} /\ n = t * s + r /\ NeonSizes(t, w)
  BY DEF NeonShape, NeonSizes
<1>0. TileWidth(t) = t
  BY DEF TileWidth, Lane
<1>1. SUFFICES ASSUME NEW j \in Steps(t, w, n), NEW o \in Offsets(t), NEW m \in 0 .. t - 1, NEW i \in 0 .. w - 1
               PROVE  Entry(Tile(NeonRows(w, t, n, src), j, o), (i * t + m) \div w, (i * t + m) % w)
                        = src[(o + m) * s + (j + i)]
  BY <1>0 DEF UnshuffledTiles
<1> DEFINE x == Rows(src, t, w, n, j, o)
           k == (i * t + m) \div w
           p == (i * t + m) % w
<1>2. Tile(NeonRows(w, t, n, src), j, o) = NeonUntranspose(t, w, x)
  BY DEF Tile, NeonRows
<1>3. StepPlace(t, w, i, m)
  BY DEF StepPlace
<1>4. k \in 0 .. t - 1 /\ p \in 0 .. w - 1 /\ k * w + p = i * t + m
      /\ (i * t + m) % t = m /\ (i * t + m) \div t = i
  BY <1>3, StepPlaceIs
<1> HIDE DEF k, p
<1>5. NeonStepPlace(t, w, x, k, p)
  BY <1>0, <1>4 DEF NeonStepPlace, Rows, Load, Register
<1>6. j \in Nat /\ o \in Nat
  BY StepsAndOffsets
<1>7. RowPlace(t, s, r, w, n, j, o, m, i)
  BY <1>0, <1>6 DEF RowPlace
<1>8. Entry(x, m, i) = src[(o + m) * s + (j + i)]
  BY <1>7, RowIs
<1> HIDE DEF x
<1>9. Entry(NeonUntranspose(t, w, x), k, p) = Entry(x, (k * w + p) % t, (k * w + p) \div t)
  BY ONLY <1>5, NeonUntransposeIs
<1> QED
  BY <1>2, <1>4, <1>8, <1>9 DEF k, p

\* shuffle and unshuffle with NEON, for every type and every block
LEMMA ShuffleNeonIs ==
  ASSUME NEW t, NEW s, NEW r, Dimensions(t, s, r), NEW n, n = t * s + r,
         NEW src, NEW dest, DOMAIN dest = 0 .. n - 1
  PROVE  /\ shuffle_neon(t, n, src, dest) = ShuffledBlock(t, s, r, src)
         /\ unshuffle_neon(t, n, src, dest) = UnshuffledBlock(t, s, r, src)
<1> DEFINE w == NeonWidth(t)
<1> HIDE DEF w
<1>0. w = NeonWidth(t)
  BY DEF w
<1>1. CASE NeonVectorized(t, n)
  <2>1. t \in Nat \ {0} /\ s \in Nat /\ r \in 0 .. t - 1 /\ NeonSizes(t, w) /\ w \in Nat \ {0}
    BY <1>0, <1>1 DEF NeonVectorized, NeonWidth, NeonSizes, Dimensions
  <2>2. NeonShape(t, s, r, w, n)
    BY <2>1 DEF NeonShape
  <2>3. ShuffledTiles(NeonTiles(w, t, n, src), w, t, n, src)
    BY <2>2, NeonTilesAre
  <2>4. UnshuffledTiles(NeonRows(w, t, n, src), w, t, n, s, src)
    BY <2>2, NeonRowsAre
  <2>5. ShuffledBy(w, t, n, src, dest, NeonTiles(w, t, n, src)) = ShuffledBlock(t, s, r, src)
    BY <2>1, <2>3, ShuffleByRegisters
  <2>6. UnshuffledBy(w, t, n, src, dest, NeonRows(w, t, n, src)) = UnshuffledBlock(t, s, r, src)
    BY <2>1, <2>4, UnshuffleByRegisters
  <2> QED
    BY <1>0, <1>1, <2>5, <2>6, NeonByTiles
<1>2. CASE ~NeonVectorized(t, n)
  BY <1>0, <1>2, NeonByTiles, GenericFromZero
<1> QED
  BY <1>1, <1>2

\* Unshuffling takes every byte of a whole element back to where it was.
LEMMA UnshuffledIs ==
  ASSUME NEW t, NEW s, NEW r, Dimensions(t, s, r), NEW src, DOMAIN src = 0 .. t * s + r - 1
  PROVE  UnshuffledBlock(t, s, r, ShuffledBlock(t, s, r, src)) = [k \in 0 .. t * s + r - 1 |-> src[k]]
<1> t \in Nat \ {0} /\ s \in Nat /\ r \in 0 .. t - 1
  BY DEF Dimensions
<1> DEFINE b == t * s
           n == b + r
           sh == ShuffledBlock(t, s, r, src)
<1>1. b \in Nat /\ s * t = b /\ n \in Nat
  BY Shape
<1>2. sh = [k \in 0 .. n - 1 |-> IF k < b THEN src[(k % s) * t + k \div s] ELSE src[k]]
  BY DEF ShuffledBlock
<1>3. UnshuffledBlock(t, s, r, sh) = [k \in 0 .. n - 1 |-> IF k < b THEN sh[(k % t) * s + k \div t] ELSE sh[k]]
  BY DEF UnshuffledBlock
<1> HIDE DEF sh
<1>4. ASSUME NEW k \in 0 .. n - 1
      PROVE  (IF k < b THEN sh[(k % t) * s + k \div t] ELSE sh[k]) = src[k]
  <2>1. CASE k < b
    <3> DEFINE i == k \div t
               m == k % t
               q == m * s + i
    <3>1. k \in 0 .. s * t - 1 /\ s \in Nat \ {0}
      BY <1>1, <2>1
    <3>2. i \in 0 .. s - 1 /\ m \in 0 .. t - 1 /\ k = t * i + m
      BY <3>1, Cell
    <3> HIDE DEF i, m
    <3>3. q \in 0 .. s * t - 1
      BY <3>2, InRows
    <3>4. q = s * m + i
      BY <3>2
    <3> HIDE DEF q, n, b
    <3>5. q \div s = m /\ q % s = i
      <4>1. m \in Nat /\ i \in 0 .. s - 1 /\ s \in Nat \ {0}
        BY <3>1, <3>2
      <4>2. (s * m + i) \div s = m /\ (s * m + i) % s = i
        BY <4>1, Quotient
      <4> QED
        BY <3>4, <4>2
    <3>6. q \in 0 .. n - 1 /\ q < b
      <4>1. q \in 0 .. b - 1
        BY <1>1, <3>3
      <4> QED
        BY <1>1, <4>1 DEF n
    <3>7. sh[q] = src[i * t + m]
      BY <1>2, <3>5, <3>6
    <3>8. i * t + m = k
      BY <3>2
    <3> QED
      BY <2>1, <3>7, <3>8 DEF q, i, m
  <2>2. CASE ~(k < b)
    <3> HIDE DEF n, b
    <3> QED
      BY <1>2, <2>2
  <2> QED
    BY <2>1, <2>2
<1> HIDE DEF b
<1> QED
  BY <1>3, <1>4 DEF sh, b

-----------------------------------------------------------------------------
(* delta: what is decoded, word after word *)

\* A set of numbers that is not empty has a least one.
LEMMA LeastNumber ==
  ASSUME NEW S, S \subseteq Nat, S # {}
  PROVE  \E m \in S : \A n \in S : m <= n
<1> DEFINE R == {p \in Nat \X Nat : p[1] < p[2]}
<1>1. IsWellFoundedOn(R, Nat)
  BY NatLessThanWellFounded DEF OpToRel
<1>2. \E m \in S : \A n \in S : ~(<<n, m>> \in R)
  <2> HIDE DEF R
  <2> QED
    BY <1>1, WFMin
<1>3. \A m, n \in Nat : ~(<<n, m>> \in R) => m <= n
  OBVIOUS
<1> HIDE DEF R
<1> QED
  BY <1>2, <1>3

IsByte(x) == x = [p \in 0 .. 7 |-> x[p]]
IsBuffer(buf, n) == DOMAIN buf = 0 .. n - 1 /\ \A k \in 0 .. n - 1 : IsByte(buf[k])

\* XOR with the same byte twice
LEMMA XorTwice ==
  ASSUME NEW x, IsByte(x), NEW y
  PROVE  XorByte(XorByte(x, y), y) = x /\ IsByte(XorByte(x, y))
<1>1. \A a, b : Xor(Xor(a, b), b) = a
  BY DEF Xor
<1> DEFINE z == XorByte(x, y)
<1>2. z = [p \in 0 .. 7 |-> Xor(x[p], y[p])]
  BY DEF XorByte
<1>3. IsByte(z)
  BY <1>2 DEF IsByte
<1>4. XorByte(z, y) = [p \in 0 .. 7 |-> Xor(z[p], y[p])]
  BY DEF XorByte
<1> HIDE DEF z
<1>5. ASSUME NEW p \in 0 .. 7 PROVE Xor(z[p], y[p]) = x[p]
  BY <1>1, <1>2
<1>6. x = [p \in 0 .. 7 |-> x[p]]
  BY DEF IsByte
<1>7. XorByte(z, y) = x
  BY <1>4, <1>5, <1>6
<1> QED
  BY <1>3, <1>7 DEF z

\* The words delta goes through: all the whole elements, and for some types more
DeltaEnd(t, n) == (n \div DeltaWidth(t)) * DeltaWidth(t)
\* delta goes through every whole element, and for floats and doubles no
\* further.
LEMMA DeltaWords ==
  ASSUME NEW t, NEW s, NEW r, Dimensions(t, s, r), NEW n, n = t * s + r
  PROVE  /\ DeltaWidth(t) \in Nat \ {0} /\ n \in Nat /\ DeltaEnd(t, n) \in Nat /\ t * s \in Nat
         /\ t * s <= DeltaEnd(t, n) /\ DeltaEnd(t, n) <= n /\ n < DeltaEnd(t, n) + DeltaWidth(t)
         /\ t \in {4, 8} => DeltaEnd(t, n) = t * s
         /\ DeltaBytes(t, n) = 0 .. DeltaEnd(t, n) - 1
<1> t \in Nat \ {0} /\ s \in Nat /\ r \in 0 .. t - 1
  BY DEF Dimensions
<1> DEFINE w == DeltaWidth(t)
           q == n \div w
           m == n % w
           b == t * s
<1>1. w \in Nat \ {0} /\ (t \in {4, 8} => w = t)
  BY DEF DeltaWidth
<1>2. n \in Nat /\ b \in Nat /\ n = b + r /\ n \div t = s /\ s * t = b
  BY Shape
<1>3. \E c \in Nat : t = w * c
  <2>1. CASE t \in {1, 2, 4, 8}
    <3>1. w = t /\ t = t * 1
      BY <2>1 DEF DeltaWidth
    <3> QED
      BY <3>1
  <2>2. CASE ~(t \in {1, 2, 4, 8}) /\ t % 8 = 0
    <3>1. w = 8 /\ t = 8 * (t \div 8) /\ t \div 8 \in Nat
      BY <2>2 DEF DeltaWidth
    <3> QED
      BY <3>1
  <2>3. CASE ~(t \in {1, 2, 4, 8}) /\ t % 8 # 0
    <3>1. w = 1 /\ t = 1 * t
      BY <2>3 DEF DeltaWidth
    <3> QED
      BY <3>1
  <2> QED
    BY <2>1, <2>2, <2>3
<1>4. PICK c \in Nat : t = w * c
  BY <1>3
<1> HIDE DEF w
<1>5. q \in Nat /\ m \in 0 .. w - 1 /\ n = w * q + m
  BY <1>1, <1>2, Division
<1> HIDE DEF q, m
<1>6. q * w = w * q /\ w * q \in Nat
  BY <1>1, <1>5
<1>7. b = w * (c * s) /\ c * s \in Nat
  BY <1>1, <1>4
<1>8. c * s <= q
  <2> DEFINE d == c * s
  <2> HIDE DEF d, b
  <2>1. d \in Nat /\ b = w * d
    BY <1>7 DEF d
  <2>2. SUFFICES ASSUME q + 1 <= d PROVE FALSE
    BY <1>5, <2>1 DEF d
  <2>3. w * (q + 1) <= w * d
    BY <1>1, <1>5, <2>1, <2>2, ProductGrows
  <2>4. w * (q + 1) = w * q + w
    BY <1>1, <1>5
  <2> QED
    BY <1>1, <1>2, <1>5, <1>6, <2>1, <2>3, <2>4
<1>9. w * (c * s) <= w * q
  BY <1>1, <1>5, <1>7, <1>8, ProductGrows
<1>10. DeltaEnd(t, n) = w * q
  BY <1>6 DEF DeltaEnd, w, q
<1>11. t \in {4, 8} => w * q = b
  <2>1. SUFFICES ASSUME t \in {4, 8} PROVE w * q = b
    OBVIOUS
  <2>2. w = t
    BY <1>1, <2>1
  <2>3. q = s
    BY <1>2, <2>2 DEF q
  <2> QED
    BY <2>2, <2>3
<1>12. DeltaBytes(t, n) = 0 .. DeltaEnd(t, n) - 1
  BY DEF DeltaBytes, DeltaEnd
<1> DEFINE wq == w * q
<1>13. wq \in Nat /\ b <= wq /\ n = wq + m /\ b \in Nat
  BY <1>2, <1>5, <1>6, <1>7, <1>9
<1> HIDE DEF wq, b
<1>14. b <= wq /\ wq <= n /\ n < wq + w
  BY <1>1, <1>5, <1>13
<1> QED
  BY <1>1, <1>2, <1>10, <1>11, <1>12, <1>13, <1>14 DEF w, wq, b

DeltaSetting(t, s, r, n, off, dref, src, dest) ==
  /\ Dimensions(t, s, r) /\ n = t * s + r /\ IsBuffer(src, n) /\ DOMAIN dest = 0 .. n - 1
  /\ off = 0 => dref = src

\* Word after word: what delta_decoder reads of the reference block has been
\* decoded before.
LEMMA DeltaRestores ==
  ASSUME NEW t, NEW s, NEW r, NEW n, NEW off, NEW dref, NEW src, NEW dest,
         DeltaSetting(t, s, r, n, off, dref, src, dest)
  PROVE  LET enc == delta_encoder(dref, off, n, t, src, dest)
             dec == delta_decoder(dref, off, n, t, enc)
         IN /\ DOMAIN enc = 0 .. n - 1 /\ DOMAIN dec = 0 .. n - 1
            /\ \A k \in 0 .. n - 1 : dec[k] = IF k \in DeltaBytes(t, n) THEN src[k] ELSE dest[k]
<1> DEFINE enc == delta_encoder(dref, off, n, t, src, dest)
           dec == delta_decoder(dref, off, n, t, enc)
           w == DeltaWidth(t)
           e == DeltaEnd(t, n)
           D == DeltaBytes(t, n)
<1> /\ IsBuffer(src, n) /\ DOMAIN dest = 0 .. n - 1 /\ (off = 0 => dref = src)
  BY DEF DeltaSetting
<1>1. w \in Nat \ {0} /\ n \in Nat /\ e \in Nat /\ e <= n /\ n < e + w /\ D = 0 .. e - 1
  BY DeltaWords DEF DeltaSetting
<1>2. enc = [k \in 0 .. n - 1 |-> IF k \in D
                                  THEN IF off # 0 THEN XorByte(src[k], dref[k])
                                       ELSE IF k < w THEN dref[k] ELSE XorByte(src[k], dref[k - w])
                                  ELSE dest[k]]
  BY DEF delta_encoder, Stored
<1> HIDE DEF enc
<1>3. DOMAIN enc = 0 .. n - 1
  BY <1>2
<1> DEFINE Equation(f) == f = [k \in 0 .. n - 1 |-> IF k < w THEN enc[k] ELSE XorByte(enc[k], f[k - w])]
           decoded == CHOOSE f : Equation(f)
<1>4. dec = [k \in 0 .. n - 1 |-> IF k \in D
                                  THEN IF off # 0 THEN XorByte(enc[k], dref[k]) ELSE decoded[k]
                                  ELSE enc[k]]
  BY <1>3 DEF delta_decoder, Stored
<1> HIDE DEF dec, e, D, w
<1>5. \A k \in 0 .. n - 1 : IsByte(src[k])
  BY DEF IsBuffer
<1>6. CASE off # 0
  <2>1. ASSUME NEW k \in 0 .. n - 1, k \in D PROVE dec[k] = src[k]
    <3>1. enc[k] = XorByte(src[k], dref[k]) /\ dec[k] = XorByte(enc[k], dref[k])
      BY <1>2, <1>4, <1>6, <2>1
    <3> QED
      BY <1>5, <3>1, XorTwice
  <2>2. ASSUME NEW k \in 0 .. n - 1, k \notin D PROVE dec[k] = dest[k]
    BY <1>2, <1>4, <2>2
  <2>3. DOMAIN dec = 0 .. n - 1
    BY <1>4
  <2> QED
    BY <1>3, <2>1, <2>2, <2>3 DEF enc, dec, D
<1>7. CASE off = 0
  <2>1. dref = src
    BY <1>7
  \* The word before one that is left alone has been decoded.
  <2> DEFINE f == [k \in 0 .. n - 1 |-> IF k \in D THEN src[k]
                                        ELSE IF k < w THEN enc[k] ELSE XorByte(enc[k], src[k - w])]
  <2>2. Equation(f)
    <3>1. ASSUME NEW k \in 0 .. n - 1
          PROVE  f[k] = IF k < w THEN enc[k] ELSE XorByte(enc[k], f[k - w])
      <4>1. CASE k < w
        BY <1>2, <1>7, <2>1, <4>1
      <4>2. CASE ~(k < w)
        <5>1. k - w \in 0 .. n - 1 /\ k - w \in D /\ f[k - w] = src[k - w]
          BY <1>1, <4>2
        <5>2. k \in D => enc[k] = XorByte(src[k], src[k - w])
          BY <1>2, <1>7, <2>1, <4>2
        <5>3. k \in D => XorByte(enc[k], src[k - w]) = src[k]
          BY <1>5, <5>2, XorTwice
        <5>4. f[k] = IF k \in D THEN src[k] ELSE XorByte(enc[k], src[k - w])
          BY <4>2
        <5> HIDE DEF f
        <5> QED
          BY <4>2, <5>1, <5>3, <5>4
      <4> QED
        BY <4>1, <4>2
    <3>2. f = [k \in 0 .. n - 1 |-> f[k]]
      OBVIOUS
    <3> HIDE DEF f
    <3> QED
      BY <3>1, <3>2
  <2> HIDE DEF f
  <2>3. Equation(decoded)
    <3> HIDE DEF Equation
    <3> QED
      BY <2>2
  <2> HIDE DEF decoded
  <2>4. \A k \in D : decoded[k] = src[k]
    <3> DEFINE bad == {k \in D : decoded[k] # src[k]}
    <3>1. SUFFICES ASSUME bad # {} PROVE FALSE
      OBVIOUS
    <3>2. bad \subseteq Nat
      BY <1>1
    <3>3. PICK k \in bad : \A l \in bad : k <= l
      <4> HIDE DEF bad
      <4> QED
        BY <3>1, <3>2, LeastNumber
    <3>4. k \in D /\ k \in 0 .. n - 1 /\ k \in 0 .. e - 1 /\ decoded[k] # src[k]
      BY <1>1, <3>3
    <3>5. decoded[k] = IF k < w THEN enc[k] ELSE XorByte(enc[k], decoded[k - w])
      BY <2>3, <3>4
    <3>6. CASE k < w
      BY <1>2, <1>7, <2>1, <3>4, <3>5, <3>6
    <3>7. CASE ~(k < w)
      <4>1. k - w \in D /\ k - w < k
        BY <1>1, <3>4, <3>7
      <4>2. decoded[k - w] = src[k - w]
        BY <1>1, <3>3, <3>4, <4>1
      <4>3. enc[k] = XorByte(src[k], src[k - w])
        BY <1>2, <1>7, <2>1, <3>4, <3>7
      <4>4. XorByte(XorByte(src[k], src[k - w]), src[k - w]) = src[k]
        BY <1>5, <3>4, XorTwice
      <4> QED
        BY <3>4, <3>5, <3>7, <4>2, <4>3, <4>4
    <3> QED
      BY <3>6, <3>7
  <2>5. ASSUME NEW k \in 0 .. n - 1, k \in D PROVE dec[k] = src[k]
    BY <1>4, <1>7, <2>4, <2>5
  <2>6. ASSUME NEW k \in 0 .. n - 1, k \notin D PROVE dec[k] = dest[k]
    BY <1>2, <1>4, <2>6
  <2>7. DOMAIN dec = 0 .. n - 1
    BY <1>4
  <2> QED
    BY <1>3, <2>5, <2>6, <2>7 DEF enc, dec, D
<1> QED
  BY <1>6, <1>7

-----------------------------------------------------------------------------
(* TRANS_BIT_8X8 transposes eight by eight bits. *)

\* XOR with a cleared bit, and with itself
LEMMA XorIs ==
  /\ \A a : Xor(a, Xor({}, {})) = a
  /\ \A a, b : Xor(a, Xor({}, Xor(b, a))) = b
  /\ \A a, b : Xor(a, Xor(Xor(a, b), {})) = b
BY DEF Xor

\* A bit of a word of 64, in the byte abc
BitNumber(a, b, c, d, e, f) == 32 * a + 16 * b + 8 * c + 4 * d + 2 * e + f
WordPlace(a, b, c, d, e, f) == a \in Bit /\ b \in Bit /\ c \in Bit /\ d \in Bit /\ e \in Bit /\ f \in Bit

\* A step of TRANS_BIT_8X8 swaps one bit of the row with one of the column.
LEMMA Swapped1 ==
  ASSUME NEW x, NEW a, NEW b, NEW c, NEW d, NEW e, NEW f, WordPlace(a, b, c, d, e, f)
  PROVE  /\ SwapStep(x, 0)[BitNumber(a, b, c, d, e, f)] = x[BitNumber(a, b, f, d, e, c)]
         /\ WordPlace(a, b, f, d, e, c)
<1> a \in Bit /\ b \in Bit /\ c \in Bit /\ d \in Bit /\ e \in Bit /\ f \in Bit
  BY DEF WordPlace
<1> DEFINE p == BitNumber(a, b, c, d, e, f)
           q == BitNumber(a, b, f, d, e, c)
           t == [i \in 0 .. 63 |-> IF i \in Mask(0) THEN Xor(x[i], x[i + Distance(0)]) ELSE {}]
<1>0. WordPlace(a, b, f, d, e, c)
  BY DEF WordPlace
<1>1. Distance(0) = 7
  BY DEF Distance
<1>2. Mask(0) = {i \in 0 .. 63 : (i \div 1) % 2 = 1 /\ (i \div 8) % 2 = 0}
  <2>1. 2^0 = 1 /\ 8 * 2^0 = 8
    OBVIOUS
  <2> QED
    BY <2>1 DEF Mask
<1>3. p \in 0 .. 63
  BY DEF BitNumber, Bit
<1>t. \A i \in 0 .. 63 : t[i] = IF i \in Mask(0) THEN Xor(x[i], x[i + 7]) ELSE {}
  BY <1>1, Zenon
<1> HIDE DEF t
<1>4. SwapStep(x, 0)[p] = Xor(x[p], Xor(t[p], IF p >= 7 THEN t[p - 7] ELSE {}))
  <2>1. SwapStep(x, 0) = [i \in 0 .. 63 |-> Xor(x[i], Xor(t[i], IF i >= Distance(0) THEN t[i - Distance(0)] ELSE {}))]
    BY Zenon DEF SwapStep, t
  <2> HIDE DEF p
  <2> QED
    BY <1>1, <1>3, <2>1, ZenonT(60)
<1>5. p \in Mask(0) <=> f = 1 /\ c = 0
  BY <1>2, <1>3 DEF BitNumber, Bit
<1>6. p >= 7 => p - 7 \in 0 .. 63
  BY <1>3
<1>7. p >= 7 => (p - 7 \in Mask(0) <=> f = 0 /\ c = 1)
  BY <1>2, <1>6 DEF BitNumber, Bit
<1>8. CASE c = f
  <2>1. q = p
    BY <1>8 DEF BitNumber
  <2>2. t[p] = {} /\ (p >= 7 => t[p - 7] = {})
    BY <1>t, <1>3, <1>5, <1>6, <1>7, <1>8
  <2> HIDE DEF p, q
  <2>3. SwapStep(x, 0)[p] = Xor(x[p], Xor({}, {}))
    BY <1>4, <2>2, Zenon
  <2> QED
    BY <1>0, <2>1, <2>3, XorIs, Zenon DEF p, q
<1>9. CASE c = 1 /\ f = 0
  <2>1. q = p - 7 /\ p >= 7 /\ p - 7 + 7 = p
    BY <1>3, <1>9 DEF BitNumber, Bit
  <2>2. t[p] = {}
    BY <1>t, <1>3, <1>5, <1>9
  <2>3. t[p - 7] = Xor(x[p - 7], x[p - 7 + 7])
    BY <1>t, <1>6, <1>7, <1>9, <2>1
  <2> HIDE DEF p, q
  <2> QED
    BY <1>4, <2>1, <2>2, <2>3, <1>0, XorIs, SMTT(60) DEF p, q
<1>10. CASE c = 0 /\ f = 1
  <2>1. q = p + 7
    BY <1>3, <1>10 DEF BitNumber, Bit
  <2>2. t[p] = Xor(x[p], x[p + 7])
    BY <1>t, <1>3, <1>5, <1>10
  <2>3. p >= 7 => t[p - 7] = {}
    BY <1>t, <1>6, <1>7, <1>10
  <2> HIDE DEF p, q
  <2> QED
    BY <1>4, <2>1, <2>2, <2>3, <1>0, XorIs, SMTT(60) DEF p, q
<1> QED
  BY <1>8, <1>9, <1>10 DEF Bit

LEMMA Swapped2 ==
  ASSUME NEW x, NEW a, NEW b, NEW c, NEW d, NEW e, NEW f, WordPlace(a, b, c, d, e, f)
  PROVE  /\ SwapStep(x, 1)[BitNumber(a, b, c, d, e, f)] = x[BitNumber(a, e, c, d, b, f)]
         /\ WordPlace(a, e, c, d, b, f)
<1> a \in Bit /\ b \in Bit /\ c \in Bit /\ d \in Bit /\ e \in Bit /\ f \in Bit
  BY DEF WordPlace
<1> DEFINE p == BitNumber(a, b, c, d, e, f)
           q == BitNumber(a, e, c, d, b, f)
           t == [i \in 0 .. 63 |-> IF i \in Mask(1) THEN Xor(x[i], x[i + Distance(1)]) ELSE {}]
<1>0. WordPlace(a, e, c, d, b, f)
  BY DEF WordPlace
<1>1. Distance(1) = 14
  BY DEF Distance
<1>2. Mask(1) = {i \in 0 .. 63 : (i \div 2) % 2 = 1 /\ (i \div 16) % 2 = 0}
  <2>1. 2^1 = 2 /\ 8 * 2^1 = 16
    OBVIOUS
  <2> QED
    BY <2>1 DEF Mask
<1>3. p \in 0 .. 63
  BY DEF BitNumber, Bit
<1>t. \A i \in 0 .. 63 : t[i] = IF i \in Mask(1) THEN Xor(x[i], x[i + 14]) ELSE {}
  BY <1>1, Zenon
<1> HIDE DEF t
<1>4. SwapStep(x, 1)[p] = Xor(x[p], Xor(t[p], IF p >= 14 THEN t[p - 14] ELSE {}))
  <2>1. SwapStep(x, 1) = [i \in 0 .. 63 |-> Xor(x[i], Xor(t[i], IF i >= Distance(1) THEN t[i - Distance(1)] ELSE {}))]
    BY Zenon DEF SwapStep, t
  <2> HIDE DEF p
  <2> QED
    BY <1>1, <1>3, <2>1, ZenonT(60)
<1>5. p \in Mask(1) <=> e = 1 /\ b = 0
  BY <1>2, <1>3 DEF BitNumber, Bit
<1>6. p >= 14 => p - 14 \in 0 .. 63
  BY <1>3
<1>7. p >= 14 => (p - 14 \in Mask(1) <=> e = 0 /\ b = 1)
  BY <1>2, <1>6 DEF BitNumber, Bit
<1>8. CASE b = e
  <2>1. q = p
    BY <1>8 DEF BitNumber
  <2>2. t[p] = {} /\ (p >= 14 => t[p - 14] = {})
    BY <1>t, <1>3, <1>5, <1>6, <1>7, <1>8
  <2> HIDE DEF p, q
  <2>3. SwapStep(x, 1)[p] = Xor(x[p], Xor({}, {}))
    BY <1>4, <2>2, Zenon
  <2> QED
    BY <1>0, <2>1, <2>3, XorIs, Zenon DEF p, q
<1>9. CASE b = 1 /\ e = 0
  <2>1. q = p - 14 /\ p >= 14 /\ p - 14 + 14 = p
    BY <1>3, <1>9 DEF BitNumber, Bit
  <2>2. t[p] = {}
    BY <1>t, <1>3, <1>5, <1>9
  <2>3. t[p - 14] = Xor(x[p - 14], x[p - 14 + 14])
    BY <1>t, <1>6, <1>7, <1>9, <2>1
  <2> HIDE DEF p, q
  <2> QED
    BY <1>4, <2>1, <2>2, <2>3, <1>0, XorIs, SMTT(60) DEF p, q
<1>10. CASE b = 0 /\ e = 1
  <2>1. q = p + 14
    BY <1>3, <1>10 DEF BitNumber, Bit
  <2>2. t[p] = Xor(x[p], x[p + 14])
    BY <1>t, <1>3, <1>5, <1>10
  <2>3. p >= 14 => t[p - 14] = {}
    BY <1>t, <1>6, <1>7, <1>10
  <2> HIDE DEF p, q
  <2> QED
    BY <1>4, <2>1, <2>2, <2>3, <1>0, XorIs, SMTT(60) DEF p, q
<1> QED
  BY <1>8, <1>9, <1>10 DEF Bit

LEMMA Swapped4 ==
  ASSUME NEW x, NEW a, NEW b, NEW c, NEW d, NEW e, NEW f, WordPlace(a, b, c, d, e, f)
  PROVE  /\ SwapStep(x, 2)[BitNumber(a, b, c, d, e, f)] = x[BitNumber(d, b, c, a, e, f)]
         /\ WordPlace(d, b, c, a, e, f)
<1> a \in Bit /\ b \in Bit /\ c \in Bit /\ d \in Bit /\ e \in Bit /\ f \in Bit
  BY DEF WordPlace
<1> DEFINE p == BitNumber(a, b, c, d, e, f)
           q == BitNumber(d, b, c, a, e, f)
           t == [i \in 0 .. 63 |-> IF i \in Mask(2) THEN Xor(x[i], x[i + Distance(2)]) ELSE {}]
<1>0. WordPlace(d, b, c, a, e, f)
  BY DEF WordPlace
<1>1. Distance(2) = 28
  BY DEF Distance
<1>2. Mask(2) = {i \in 0 .. 63 : (i \div 4) % 2 = 1 /\ (i \div 32) % 2 = 0}
  <2>1. 2^2 = 4 /\ 8 * 2^2 = 32
    OBVIOUS
  <2> QED
    BY <2>1 DEF Mask
<1>3. p \in 0 .. 63
  BY DEF BitNumber, Bit
<1>t. \A i \in 0 .. 63 : t[i] = IF i \in Mask(2) THEN Xor(x[i], x[i + 28]) ELSE {}
  BY <1>1, Zenon
<1> HIDE DEF t
<1>4. SwapStep(x, 2)[p] = Xor(x[p], Xor(t[p], IF p >= 28 THEN t[p - 28] ELSE {}))
  <2>1. SwapStep(x, 2) = [i \in 0 .. 63 |-> Xor(x[i], Xor(t[i], IF i >= Distance(2) THEN t[i - Distance(2)] ELSE {}))]
    BY Zenon DEF SwapStep, t
  <2> HIDE DEF p
  <2> QED
    BY <1>1, <1>3, <2>1, ZenonT(60)
<1>5. p \in Mask(2) <=> d = 1 /\ a = 0
  BY <1>2, <1>3 DEF BitNumber, Bit
<1>6. p >= 28 => p - 28 \in 0 .. 63
  BY <1>3
<1>7. p >= 28 => (p - 28 \in Mask(2) <=> d = 0 /\ a = 1)
  BY <1>2, <1>6 DEF BitNumber, Bit
<1>8. CASE a = d
  <2>1. q = p
    BY <1>8 DEF BitNumber
  <2>2. t[p] = {} /\ (p >= 28 => t[p - 28] = {})
    BY <1>t, <1>3, <1>5, <1>6, <1>7, <1>8
  <2> HIDE DEF p, q
  <2>3. SwapStep(x, 2)[p] = Xor(x[p], Xor({}, {}))
    BY <1>4, <2>2, Zenon
  <2> QED
    BY <1>0, <2>1, <2>3, XorIs, Zenon DEF p, q
<1>9. CASE a = 1 /\ d = 0
  <2>1. q = p - 28 /\ p >= 28 /\ p - 28 + 28 = p
    BY <1>3, <1>9 DEF BitNumber, Bit
  <2>2. t[p] = {}
    BY <1>t, <1>3, <1>5, <1>9
  <2>3. t[p - 28] = Xor(x[p - 28], x[p - 28 + 28])
    BY <1>t, <1>6, <1>7, <1>9, <2>1
  <2> HIDE DEF p, q
  <2> QED
    BY <1>4, <2>1, <2>2, <2>3, <1>0, XorIs, SMTT(60) DEF p, q
<1>10. CASE a = 0 /\ d = 1
  <2>1. q = p + 28
    BY <1>3, <1>10 DEF BitNumber, Bit
  <2>2. t[p] = Xor(x[p], x[p + 28])
    BY <1>t, <1>3, <1>5, <1>10
  <2>3. p >= 28 => t[p - 28] = {}
    BY <1>t, <1>6, <1>7, <1>10
  <2> HIDE DEF p, q
  <2> QED
    BY <1>4, <2>1, <2>2, <2>3, <1>0, XorIs, SMTT(60) DEF p, q
<1> QED
  BY <1>8, <1>9, <1>10 DEF Bit

\* TRANS_BIT_8X8 is a transposition of eight by eight bits.
LEMMA TransBitIs ==
  ASSUME NEW x, NEW i \in 0 .. 7, NEW p \in 0 .. 7
  PROVE  TRANS_BIT_8X8(x)[8 * i + p] = x[8 * p + i]
<1>1. PICK a, b, c \in Bit : i = Number(0, 0, a, b, c)
  BY BitsOf
<1>2. PICK d, e, f \in Bit : p = Number(0, 0, d, e, f)
  BY BitsOf
<1> DEFINE x1 == SwapStep(x, 0)
           x2 == SwapStep(x1, 1)
           x3 == SwapStep(x2, 2)
<1>3. TRANS_BIT_8X8(x) = x3
  BY DEF TRANS_BIT_8X8
<1>4. WordPlace(a, b, c, d, e, f) /\ WordPlace(d, b, c, a, e, f) /\ WordPlace(d, e, c, a, b, f)
  BY DEF WordPlace
<1>5. 8 * i + p = BitNumber(a, b, c, d, e, f) /\ 8 * p + i = BitNumber(d, e, f, a, b, c)
  BY <1>1, <1>2 DEF Number, BitNumber, Bit
<1> HIDE DEF x3
<1>6. x3[BitNumber(a, b, c, d, e, f)] = x2[BitNumber(d, b, c, a, e, f)]
  BY <1>4, Swapped4 DEF x3
<1> HIDE DEF x2
<1>7. x2[BitNumber(d, b, c, a, e, f)] = x1[BitNumber(d, e, c, a, b, f)]
  BY <1>4, Swapped2 DEF x2
<1> HIDE DEF x1
<1>8. x1[BitNumber(d, e, c, a, b, f)] = x[BitNumber(d, e, f, a, b, c)]
  BY <1>4, Swapped1 DEF x1
<1> QED
  BY <1>3, <1>5, <1>6, <1>7, <1>8

\* Bit i of the eight bytes from at on
BitColumn(buf, at, i) == [p \in 0 .. 7 |-> buf[at + p][i]]

\* A byte of the transposed word is a column of the eight bytes.
LEMMA WordIs ==
  ASSUME NEW buf, NEW at \in Nat, NEW i \in 0 .. 7
  PROVE  ByteOf(TRANS_BIT_8X8(Word(buf, at)), i) = BitColumn(buf, at, i)
<1> DEFINE x == Word(buf, at)
           y == TRANS_BIT_8X8(x)
<1>1. ASSUME NEW p \in 0 .. 7 PROVE y[8 * i + p] = buf[at + p][i]
  <2>1. y[8 * i + p] = x[8 * p + i]
    BY TransBitIs
  <2>2. 8 * p + i \in 0 .. 63 /\ (8 * p + i) \div 8 = p /\ (8 * p + i) % 8 = i
    OBVIOUS
  <2>3. x[8 * p + i] = buf[at + (8 * p + i) \div 8][(8 * p + i) % 8]
    BY <2>2 DEF Word
  <2> QED
    BY <2>1, <2>2, <2>3
<1>2. ByteOf(y, i) = [p \in 0 .. 7 |-> y[8 * i + p]]
  BY DEF ByteOf
<1> HIDE DEF y
<1>3. BitColumn(buf, at, i) = [p \in 0 .. 7 |-> buf[at + p][i]]
  BY DEF BitColumn
<1> QED
  BY <1>1, <1>2, <1>3 DEF y

-----------------------------------------------------------------------------
(* bitshuffle in numbers, and its passes one after the other *)

\* What the passes of bitshuffle leave: s elements of t bytes, s = 8 * e
BytesFrom(t, s, in, out) ==
  [k \in DOMAIN out |-> IF k \in 0 .. t * s - 1 THEN in[(k % s) * t + k \div s] ELSE out[k]]
BitsFrom(row, in, out) ==
  [k \in DOMAIN out |-> IF k \in 0 .. 8 * row - 1 THEN BitColumn(in, 8 * (k % row), k \div row) ELSE out[k]]
RowsFrom(t, e, in, out) ==
  [k \in DOMAIN out |-> IF k \in 0 .. t * (8 * e) - 1 THEN in[(k % (8 * t)) * e + k \div (8 * t)] ELSE out[k]]
EightsFrom(t, e, in, out) ==
  [k \in DOMAIN out |-> IF k \in 0 .. t * (8 * e) - 1
                        THEN BitColumn(in, 8 * ((k \div (8 * t)) * t + (k % t)), (k % (8 * t)) \div t)
                        ELSE out[k]]
BitshuffledFrom(t, e, src, out) ==
  [k \in DOMAIN out |-> IF k \in 0 .. t * (8 * e) - 1
                        THEN [p \in 0 .. 7 |-> src[(8 * (k % e) + p) * t + (k \div e) \div 8][(k \div e) % 8]]
                        ELSE out[k]]

Eights(t, e) == t \in Nat \ {0} /\ e \in Nat \ {0}
BitCell(t, e, k) == Eights(t, e) /\ k \in 0 .. t * (8 * e) - 1

LEMMA Sizes ==
  ASSUME NEW t, NEW e, Eights(t, e)
  PROVE  /\ 8 * e \in Nat \ {0} /\ 8 * t \in Nat \ {0} /\ t * e \in Nat \ {0}
         /\ t * (8 * e) = 8 * (t * e) /\ (8 * e) * t = t * (8 * e) /\ (8 * t) * e = t * (8 * e) /\ e * (8 * t) = t * (8 * e)
         /\ t * (8 * e) \in Nat \ {0} /\ (8 * e) \div 8 = e /\ (8 * (t * e)) \div 8 = t * e
         /\ (t * (8 * e)) \div 8 = t * e
<1> t \in Nat \ {0} /\ e \in Nat \ {0}
  BY DEF Eights
<1>1. t * e \in Nat \ {0} /\ t * (8 * e) = 8 * (t * e)
  OBVIOUS
<1> DEFINE te == t * e
<1> HIDE DEF te
<1>2. te \in Nat \ {0}
  BY <1>1 DEF te
<1>3. (8 * te) \div 8 = te /\ (8 * e) \div 8 = e
  BY <1>2
<1>4. (8 * e) * t = 8 * te /\ (8 * t) * e = 8 * te /\ e * (8 * t) = 8 * te /\ t * (8 * e) = 8 * te
  BY DEF te
<1> QED
  BY <1>2, <1>3, <1>4 DEF te

\* Where bit i of byte column k % e of row k \div e comes from
LEMMA BitCellIs ==
  ASSUME NEW t, NEW e, NEW k, BitCell(t, e, k)
  PROVE  LET q == k \div e
             u == q % 8
             v == q \div 8
             c == k % e
             kk == (u * t + v) * e + c
         IN /\ q \in Nat /\ u \in 0 .. 7 /\ v \in 0 .. t - 1 /\ c \in 0 .. e - 1
            /\ kk \in 0 .. t * (8 * e) - 1 /\ kk \div (t * e) = u /\ kk % (t * e) = v * e + c
<1> DEFINE q == k \div e
           u == q % 8
           v == q \div 8
           c == k % e
           d == v * e + c
           row == t * e
           kk == (u * t + v) * e + c
<1> t \in Nat \ {0} /\ e \in Nat \ {0} /\ k \in 0 .. t * (8 * e) - 1 /\ Eights(t, e)
  BY DEF BitCell, Eights
<1>1. k \in 0 .. (8 * t) * e - 1 /\ 8 * t \in Nat \ {0}
  BY Sizes
<1>2. q \in 0 .. 8 * t - 1 /\ c \in 0 .. e - 1
  <2> DEFINE t8 == 8 * t
  <2> HIDE DEF t8
  <2>1. t8 \in Nat \ {0} /\ k \in 0 .. t8 * e - 1
    BY <1>1 DEF t8
  <2> QED
    BY <2>1, Cell DEF t8
<1> HIDE DEF q, c
<1>3. u \in 0 .. 7 /\ v \in 0 .. t - 1 /\ q \in Nat /\ v \in Nat
  BY <1>2
<1> HIDE DEF u, v
<1>4. d \in 0 .. e * t - 1 /\ d \in 0 .. t * e - 1
  <2>1. v * e + c \in 0 .. e * t - 1
    BY <1>2, <1>3, InRows
  <2>2. e * t = t * e
    OBVIOUS
  <2> QED
    BY <2>1, <2>2
<1>5. kk = row * u + d
  <2>1. (u * t + v) * e = (u * t) * e + v * e
    BY <1>3
  <2>2. (u * t) * e = (t * e) * u
    BY <1>3
  <2> DEFINE a == (t * e) * u
             g == v * e
  <2>3. a \in Nat /\ g \in Nat /\ (u * t + v) * e = a + g
    BY <1>3, <2>1, <2>2
  <2> HIDE DEF a, g
  <2>4. (a + g) + c = a + (g + c)
    BY <1>2, <2>3
  <2> QED
    BY <2>3, <2>4 DEF a, g
<1>6. row \in Nat \ {0} /\ t * (8 * e) = 8 * row
  BY Sizes
<1> HIDE DEF d, kk, row
<1>7. d \in 0 .. row - 1 /\ u \in Nat
  BY <1>3, <1>4 DEF row
<1>8. (row * u + d) \div row = u /\ (row * u + d) % row = d
  BY <1>6, <1>7, Quotient
<1>9. kk \in 0 .. 8 * row - 1
  <2>1. u * row + d \in 0 .. row * 8 - 1
    BY <1>3, <1>6, <1>7, InRows
  <2>2. u * row = row * u
    BY <1>6, <1>7
  <2> QED
    BY <1>5, <1>6, <2>1, <2>2
<1> QED
  BY <1>2, <1>3, <1>5, <1>6, <1>8, <1>9 DEF q, u, v, c, d, kk, row

EightCell(t, e, v, c, p, z) ==
  Eights(t, e) /\ v \in 0 .. t - 1 /\ c \in 0 .. e - 1 /\ p \in 0 .. 7 /\ z = 8 * (v * e + c) + p
LEMMA EightCellIs ==
  ASSUME NEW t, NEW e, NEW v, NEW c, NEW p, NEW z, EightCell(t, e, v, c, p, z)
  PROVE  z \in 0 .. t * (8 * e) - 1 /\ z \div (8 * e) = v /\ z % (8 * e) = 8 * c + p
<1> t \in Nat \ {0} /\ e \in Nat \ {0} /\ Eights(t, e) /\ v \in 0 .. t - 1 /\ c \in 0 .. e - 1 /\ p \in 0 .. 7
  BY DEF EightCell, Eights
<1>0. z = 8 * (v * e + c) + p
  BY DEF EightCell
<1> DEFINE s == 8 * e
           i == 8 * c + p
<1>1. s \in Nat \ {0} /\ i \in 0 .. s - 1 /\ v \in Nat
  OBVIOUS
<1>2. z = s * v + i
  <2> DEFINE ve == v * e
  <2>1. ve \in Nat /\ s * v = 8 * ve
    OBVIOUS
  <2> HIDE DEF ve
  <2>2. 8 * (ve + c) + p = 8 * ve + (8 * c + p)
    BY <2>1
  <2> QED
    BY <1>0, <2>1, <2>2 DEF ve
<1> HIDE DEF s, i
<1>3. (s * v + i) \div s = v /\ (s * v + i) % s = i
  BY <1>1, Quotient
<1>4. v * s + i \in 0 .. s * t - 1
  <2>1. v \in 0 .. t - 1 /\ i \in 0 .. s - 1 /\ t \in Nat /\ s \in Nat
    BY <1>1
  <2> QED
    BY <2>1, InRows
<1>5. v * s = s * v /\ s * t = t * s
  BY <1>1
<1> QED
  BY <1>2, <1>3, <1>4, <1>5 DEF s, i

\* The passes one after the other
LEMMA Passes ==
  ASSUME NEW t, NEW e, Eights(t, e), NEW src, NEW out, NEW tmp, NEW n \in Nat,
         DOMAIN out = 0 .. n - 1, DOMAIN tmp = 0 .. n - 1, t * (8 * e) <= n
  PROVE  LET bytes == BytesFrom(t, 8 * e, src, out)
             bits == BitsFrom(t * e, bytes, tmp)
         IN trans_bitrow_eight(bits, bytes, 8 * e, t) = BitshuffledFrom(t, e, src, out)
<1> DEFINE s == 8 * e
           b == t * (8 * e)
           row == t * e
           bytes == BytesFrom(t, s, src, out)
           bits == BitsFrom(row, bytes, tmp)
<1>1. t \in Nat \ {0} /\ e \in Nat \ {0} /\ b \in Nat /\ b = 8 * row /\ (8 * e) \div 8 = e /\ (8 * t) * e = b
      /\ 8 * t * e = b
  BY Sizes DEF Eights
<1>2. DOMAIN bytes = 0 .. n - 1 /\ \A k \in 0 .. b - 1 : bytes[k] = src[(k % s) * t + k \div s]
  BY <1>1 DEF BytesFrom
<1>2a. \A k \in 0 .. n - 1 : k \notin 0 .. b - 1 => bytes[k] = out[k]
  BY DEF BytesFrom
<1>3. \A k \in 0 .. b - 1 : bits[k] = BitColumn(bytes, 8 * (k % row), k \div row)
  BY <1>1 DEF BitsFrom
<1> HIDE DEF bytes, bits
<1>4. trans_bitrow_eight(bits, bytes, s, t)
        = [k \in 0 .. n - 1 |-> IF k \in 0 .. b - 1
                                THEN bits[(((k \div e) % 8) * t + (k \div e) \div 8) * e + (k % e)]
                                ELSE bytes[k]]
  BY <1>1, <1>2 DEF trans_bitrow_eight, trans_elem, Stored
<1>5. ASSUME NEW k \in 0 .. b - 1
      PROVE  bits[(((k \div e) % 8) * t + (k \div e) \div 8) * e + (k % e)]
               = [p \in 0 .. 7 |-> src[(8 * (k % e) + p) * t + (k \div e) \div 8][(k \div e) % 8]]
  <2> DEFINE q == k \div e
             u == q % 8
             v == q \div 8
             c == k % e
             kk == (u * t + v) * e + c
  <2>1. BitCell(t, e, k)
    BY DEF BitCell
  <2>2. /\ q \in Nat /\ u \in 0 .. 7 /\ v \in 0 .. t - 1 /\ c \in 0 .. e - 1
        /\ kk \in 0 .. b - 1 /\ kk \div row = u /\ kk % row = v * e + c
    BY <2>1, BitCellIs
  <2> HIDE DEF q, u, v, c, kk
  <2>3. bits[kk] = BitColumn(bytes, 8 * (v * e + c), u)
    BY <1>3, <2>2
  <2>4. ASSUME NEW p \in 0 .. 7
        PROVE  bytes[8 * (v * e + c) + p] = src[(8 * c + p) * t + v]
    <3> DEFINE z == 8 * (v * e + c) + p
    <3>1. EightCell(t, e, v, c, p, z)
      BY <2>2 DEF EightCell
    <3>2. z \in 0 .. b - 1 /\ z \div s = v /\ z % s = 8 * c + p
      BY <3>1, EightCellIs
    <3> HIDE DEF z
    <3> QED
      BY <1>2, <3>2 DEF z
  <2>5. bits[kk] = [p \in 0 .. 7 |-> src[(8 * c + p) * t + v][u]]
    BY <2>3, <2>4 DEF BitColumn
  <2> QED
    BY <2>5 DEF q, u, v, c, kk
<1> HIDE DEF b
<1>6. BitshuffledFrom(t, e, src, out)
        = [k \in 0 .. n - 1 |-> IF k \in 0 .. b - 1
                                THEN [p \in 0 .. 7 |-> src[(8 * (k % e) + p) * t + (k \div e) \div 8][(k \div e) % 8]]
                                ELSE out[k]]
  BY DEF BitshuffledFrom, b
<1> QED
  BY <1>2a, <1>4, <1>5, <1>6, SMTT(60) DEF bytes, bits

-----------------------------------------------------------------------------
(* ... and back *)

EightRows(s, k) == s \in Nat \ {0} /\ k \in 0 .. 8 * s - 1
LEMMA Cell8 ==
  ASSUME NEW s, NEW k, EightRows(s, k)
  PROVE  k \in Nat /\ k \div s \in 0 .. 7 /\ k % s \in 0 .. s - 1 /\ k = s * (k \div s) + (k % s)
<1> s \in Nat \ {0} /\ k \in 0 .. 8 * s - 1
  BY DEF EightRows
<1> DEFINE t == 8
<1>1. t \in Nat \ {0} /\ k \in 0 .. t * s - 1 /\ t - 1 = 7 /\ s \in Nat
  OBVIOUS
<1> HIDE DEF t
<1>2. k \in Nat /\ k \div s \in 0 .. t - 1 /\ k % s \in 0 .. s - 1 /\ k = s * (k \div s) + (k % s)
  BY <1>1, Cell
<1> QED
  BY <1>1, <1>2

\* Where bit p of byte k comes from on the way back
LEMMA BackCellIs ==
  ASSUME NEW t, NEW e, NEW k, BitCell(t, e, k)
  PROVE  LET j8 == k \div (8 * t)
             m == k % t
             i == (k % (8 * t)) \div t
         IN /\ m \in 0 .. t - 1 /\ i \in 0 .. 7 /\ j8 \in 0 .. e - 1
            /\ k = (8 * j8 + i) * t + m
<1> DEFINE j8 == k \div (8 * t)
           g == k % (8 * t)
           m == k % t
           i == g \div t
           t8 == 8 * t
<1> t \in Nat \ {0} /\ e \in Nat \ {0} /\ k \in 0 .. t * (8 * e) - 1 /\ Eights(t, e)
  BY DEF BitCell, Eights
<1>1. t8 \in Nat \ {0} /\ e * t8 = t * (8 * e) /\ k \in Nat
  BY Sizes
<1>2. j8 \in 0 .. e - 1 /\ g \in 0 .. t8 - 1 /\ k = t8 * j8 + g
  <2> HIDE DEF t8
  <2>1. k \in 0 .. e * t8 - 1
    BY <1>1
  <2>2. k \div t8 \in 0 .. e - 1 /\ k % t8 \in 0 .. t8 - 1 /\ k = t8 * (k \div t8) + (k % t8)
    BY <1>1, <2>1, Cell
  <2> QED
    BY <2>2 DEF t8
<1> HIDE DEF j8, g
<1>3. g \in 0 .. 8 * t - 1
  BY <1>2 DEF t8
<1> DEFINE h == g % t
<1>4. i \in 0 .. 7 /\ h \in 0 .. t - 1 /\ g = t * i + h
  BY <1>3, Cell8 DEF EightRows
<1> HIDE DEF i, h
<1>5. k = t * (8 * j8 + i) + h
  <2>1. t * (8 * j8 + i) = t8 * j8 + t * i /\ t8 * j8 \in Nat /\ t * i \in Nat
    BY <1>2, <1>4 DEF t8
  <2> DEFINE a == t8 * j8
             f == t * i
  <2> HIDE DEF a, f
  <2>2. (a + f) + h = a + (f + h)
    BY <1>4, <2>1 DEF a, f
  <2> QED
    BY <1>2, <1>4, <2>1, <2>2 DEF a, f
<1>6. m = h
  <2> DEFINE q == 8 * j8 + i
  <2>1. q \in Nat
    BY <1>2, <1>4
  <2> HIDE DEF q
  <2>2. (t * q + h) % t = h
    BY <1>4, <2>1, Quotient
  <2> QED
    BY <1>5, <2>2 DEF q
<1>7. t * (8 * j8 + i) = (8 * j8 + i) * t
  BY <1>2, <1>4
<1> QED
  BY <1>2, <1>4, <1>5, <1>6, <1>7 DEF j8, i, g

\* Byte m, bit p of the element i of eight, in the rows
ColumnCell(t, e, m, p, j8) == Eights(t, e) /\ m \in 0 .. t - 1 /\ p \in 0 .. 7 /\ j8 \in 0 .. e - 1
LEMMA ColumnCellIs ==
  ASSUME NEW t, NEW e, NEW m, NEW p, NEW j8, ColumnCell(t, e, m, p, j8)
  PROVE  LET z == 8 * (j8 * t + m) + p
             y == (8 * m + p) * e + j8
         IN /\ z \in 0 .. t * (8 * e) - 1 /\ z % (8 * t) = 8 * m + p /\ z \div (8 * t) = j8
            /\ y \in 0 .. t * (8 * e) - 1 /\ y \div e = 8 * m + p /\ y % e = j8
            /\ (8 * m + p) \div 8 = m /\ (8 * m + p) % 8 = p
<1> /\ t \in Nat \ {0} /\ e \in Nat \ {0} /\ Eights(t, e) /\ m \in 0 .. t - 1 /\ p \in 0 .. 7
    /\ j8 \in 0 .. e - 1
  BY DEF ColumnCell, Eights
<1> DEFINE z == 8 * (j8 * t + m) + p
           y == (8 * m + p) * e + j8
           l == 8 * m + p
<1>1. z \in 0 .. e * (8 * t) - 1 /\ z \div (8 * t) = j8 /\ z % (8 * t) = l
  <2>1. EightCell(e, t, j8, m, p, z)
    BY DEF EightCell, Eights
  <2> HIDE DEF z
  <2> QED
    BY <2>1, EightCellIs
<1>2. e * (8 * t) = t * (8 * e) /\ 8 * t \in Nat \ {0} /\ e * (8 * t) = t * (8 * e)
  BY Sizes
<1>3. l \in 0 .. 8 * t - 1 /\ l \in Nat /\ l \div 8 = m /\ l % 8 = p
  OBVIOUS
<1> HIDE DEF z, l
<1>4. l * e + j8 \in 0 .. e * (8 * t) - 1
  <2> DEFINE t8 == 8 * t
  <2>1. t8 \in Nat /\ l \in 0 .. t8 - 1 /\ (8 * t) * e = e * (8 * t)
    BY <1>3
  <2>2. t8 * e = e * t8
    BY <2>1
  <2> HIDE DEF t8
  <2>3. l * e + j8 \in 0 .. e * t8 - 1
    BY <2>1, InRows
  <2> QED
    BY <2>3 DEF t8
<1>5. (e * l + j8) \div e = l /\ (e * l + j8) % e = j8
  BY <1>3, Quotient
<1>6. e * l = l * e
  BY <1>3
<1> QED
  BY <1>1, <1>2, <1>3, <1>4, <1>5, <1>6 DEF z, l

\* The rows of bits are taken back to the elements they come from.
LEMMA EightsBack ==
  ASSUME NEW t, NEW e, Eights(t, e), NEW src, NEW stale, NEW out, NEW tmp, NEW n \in Nat,
         IsBuffer(src, n), DOMAIN stale = 0 .. n - 1, DOMAIN out = 0 .. n - 1, DOMAIN tmp = 0 .. n - 1, t * (8 * e) <= n
  PROVE  LET in == BitshuffledFrom(t, e, src, stale)
             back == EightsFrom(t, e, RowsFrom(t, e, in, tmp), out)
         IN /\ DOMAIN back = 0 .. n - 1
            /\ \A k \in 0 .. n - 1 : back[k] = IF k \in 0 .. t * (8 * e) - 1 THEN src[k] ELSE out[k]
<1> DEFINE b == t * (8 * e)
           in == BitshuffledFrom(t, e, src, stale)
           rows == RowsFrom(t, e, in, tmp)
           back == EightsFrom(t, e, rows, out)
<1>1. b \in Nat
  BY Sizes
<1>2. \A k \in 0 .. b - 1 :
        in[k] = [p \in 0 .. 7 |-> src[(8 * (k % e) + p) * t + (k \div e) \div 8][(k \div e) % 8]]
  BY <1>1 DEF BitshuffledFrom
<1>3. \A k \in 0 .. b - 1 : rows[k] = in[(k % (8 * t)) * e + k \div (8 * t)]
  BY <1>1 DEF RowsFrom
<1>4. back = [k \in 0 .. n - 1 |-> IF k \in 0 .. b - 1
                        THEN BitColumn(rows, 8 * ((k \div (8 * t)) * t + (k % t)), (k % (8 * t)) \div t)
                        ELSE out[k]]
  BY DEF EightsFrom
<1> HIDE DEF in, rows, back
<1>5. ASSUME NEW k \in 0 .. b - 1
      PROVE  BitColumn(rows, 8 * ((k \div (8 * t)) * t + (k % t)), (k % (8 * t)) \div t) = src[k]
  <2> DEFINE j8 == k \div (8 * t)
             m == k % t
             i == (k % (8 * t)) \div t
  <2>1. BitCell(t, e, k)
    BY DEF BitCell
  <2>2. m \in 0 .. t - 1 /\ i \in 0 .. 7 /\ j8 \in 0 .. e - 1 /\ k = (8 * j8 + i) * t + m
    BY <2>1, BackCellIs
  <2> HIDE DEF j8, m, i
  <2>3. ASSUME NEW p \in 0 .. 7
        PROVE  rows[8 * (j8 * t + m) + p][i] = src[k][p]
    <3> DEFINE z == 8 * (j8 * t + m) + p
               y == (8 * m + p) * e + j8
    <3>1. ColumnCell(t, e, m, p, j8)
      BY <2>2 DEF ColumnCell
    <3>2. /\ z \in 0 .. b - 1 /\ z % (8 * t) = 8 * m + p /\ z \div (8 * t) = j8
          /\ y \in 0 .. b - 1 /\ y \div e = 8 * m + p /\ y % e = j8
          /\ (8 * m + p) \div 8 = m /\ (8 * m + p) % 8 = p
      BY <3>1, ColumnCellIs
    <3> HIDE DEF z, b
    <3>3. rows[z] = in[y]
      BY <1>3, <3>2
    <3> HIDE DEF y
    <3>4. in[y] = [pp \in 0 .. 7 |-> src[(8 * j8 + pp) * t + m][p]]
      BY <1>2, <3>2, SMTT(60)
    <3>5. in[y][i] = src[(8 * j8 + i) * t + m][p]
      BY <2>2, <3>4
    <3> QED
      BY <2>2, <3>3, <3>5 DEF z
  <2>4. IsByte(src[k])
    BY <1>1 DEF IsBuffer
  <2>5. BitColumn(rows, 8 * (j8 * t + m), i) = [p \in 0 .. 7 |-> src[k][p]]
    BY <2>3 DEF BitColumn
  <2> QED
    BY <2>4, <2>5 DEF IsByte, j8, m, i
<1> HIDE DEF b
<1>6. DOMAIN back = 0 .. n - 1
  BY <1>4
<1> QED
  BY <1>4, <1>5, <1>6 DEF back, rows, in, b
-----------------------------------------------------------------------------
(* The passes in plain C *)

BufferShape(t, e, n, out) == Eights(t, e) /\ n \in Nat /\ t * (8 * e) <= n /\ DOMAIN out = 0 .. n - 1

\* The passes in plain C, on the way there
LEMMA BytesScal ==
  ASSUME NEW t, NEW s, t \in Nat \ {0}, s \in Nat, NEW in, NEW out
  PROVE  trans_byte_elem_remainder(in, out, s, t, 0) = BytesFrom(t, s, in, out)
<1>1. s * t = t * s
  OBVIOUS
<1>2. ASSUME NEW k \in 0 .. t * s - 1 PROVE k % s >= 0
  BY Cell
<1>3. trans_byte_elem_remainder(in, out, s, t, 0)
        = [k \in DOMAIN out |-> IF k \in 0 .. t * s - 1
                                THEN IF k % s >= 0 THEN in[(k % s) * t + k \div s] ELSE out[k]
                                ELSE out[k]]
  BY <1>1 DEF trans_byte_elem_remainder, Stored
<1> DEFINE b == t * s
<1> HIDE DEF b
<1> QED
  BY <1>2, <1>3 DEF BytesFrom, b

BitsStart(row, st, start) == row \in Nat \ {0} /\ st \in Nat /\ start = 8 * st
LEMMA BitsScal ==
  ASSUME NEW row, NEW st, NEW start, BitsStart(row, st, start), NEW in, NEW out
  PROVE  trans_bit_byte_remainder(in, out, 8 * row, start)
           = [k \in DOMAIN out |-> IF k \in 0 .. 8 * row - 1 /\ k % row >= st
                                   THEN BitColumn(in, 8 * (k % row), k \div row) ELSE out[k]]
<1> row \in Nat \ {0} /\ st \in Nat /\ start = 8 * st
  BY DEF BitsStart
<1>1. (8 * row) \div 8 = row /\ start \div 8 = st
  OBVIOUS
<1> DEFINE words == [i \in st .. row - 1 |-> TRANS_BIT_8X8(Word(in, 8 * i))]
<1>2. trans_bit_byte_remainder(in, out, 8 * row, start)
        = [k \in DOMAIN out |-> IF k \in 0 .. 8 * row - 1
                                THEN IF k % row >= st THEN ByteOf(words[k % row], k \div row) ELSE out[k]
                                ELSE out[k]]
  BY <1>1 DEF trans_bit_byte_remainder, Stored
<1>3. ASSUME NEW k \in 0 .. 8 * row - 1, k % row >= st
      PROVE  ByteOf(words[k % row], k \div row) = BitColumn(in, 8 * (k % row), k \div row)
  <2> DEFINE c == k % row
             i == k \div row
  <2>1. c \in 0 .. row - 1 /\ i \in 0 .. 7
    BY Cell8 DEF EightRows
  <2> HIDE DEF c, i
  <2>2. c \in st .. row - 1 /\ 8 * c \in Nat
    BY <1>3, <2>1 DEF c
  <2>3. words[c] = TRANS_BIT_8X8(Word(in, 8 * c))
    BY <2>2
  <2>4. ByteOf(TRANS_BIT_8X8(Word(in, 8 * c)), i) = BitColumn(in, 8 * c, i)
    BY <2>1, <2>2, WordIs
  <2> QED
    BY <2>3, <2>4 DEF c, i
<1> HIDE DEF words
<1> QED
  BY <1>2, <1>3

LEMMA BitshuffleScal ==
  ASSUME NEW t, NEW e, NEW n, NEW out, NEW tmp, NEW src, BufferShape(t, e, n, out), BufferShape(t, e, n, tmp)
  PROVE  trans_bit_elem_scal(src, out, 8 * e, t, tmp) = BitshuffledFrom(t, e, src, out)
<1> DEFINE s == 8 * e
           row == t * e
           bytes == BytesFrom(t, s, src, out)
           bits == BitsFrom(row, bytes, tmp)
<1>1. /\ Eights(t, e) /\ n \in Nat /\ DOMAIN out = 0 .. n - 1 /\ DOMAIN tmp = 0 .. n - 1 /\ t * (8 * e) <= n
      /\ t \in Nat \ {0} /\ e \in Nat \ {0}
  BY DEF BufferShape, Eights
<1>2. s \in Nat /\ row \in Nat \ {0} /\ s * t = 8 * row
  BY <1>1, Sizes
<1>3. trans_byte_elem_remainder(src, out, s, t, 0) = bytes
  <2> HIDE DEF s
  <2> QED
    BY <1>1, <1>2, BytesScal DEF bytes
<1>4. trans_bit_byte_remainder(bytes, tmp, 8 * row, 0) = bits
  <2> HIDE DEF row, bytes
  <2>1. trans_bit_byte_remainder(bytes, tmp, 8 * row, 0)
           = [k \in DOMAIN tmp |-> IF k \in 0 .. 8 * row - 1 /\ k % row >= 0
                                   THEN BitColumn(bytes, 8 * (k % row), k \div row) ELSE tmp[k]]
    <3>1. BitsStart(row, 0, 0)
      BY <1>2 DEF BitsStart
    <3> QED
      BY <3>1, BitsScal
  <2>2. \A k \in 0 .. 8 * row - 1 : k % row >= 0
    BY <1>2
  <2> QED
    BY <2>1, <2>2 DEF BitsFrom, bits
<1>5. trans_bit_elem_scal(src, out, s, t, tmp) = trans_bitrow_eight(bits, bytes, s, t)
  BY <1>2, <1>3, <1>4, Zenon DEF trans_bit_elem_scal
<1>6. trans_bitrow_eight(bits, bytes, s, t) = BitshuffledFrom(t, e, src, out)
  BY <1>1, Passes
<1> QED
  BY <1>5, <1>6

\* and on the way back
LEMMA RowsScal ==
  ASSUME NEW t, NEW e, Eights(t, e), NEW in, NEW out
  PROVE  trans_byte_bitrow_scal(in, out, 8 * e, t) = RowsFrom(t, e, in, out)
<1>1. (8 * e) \div 8 = e /\ (8 * e) * t = t * (8 * e)
  BY Sizes
<1> QED
  BY <1>1 DEF trans_byte_bitrow_scal, Stored, RowsFrom

\* The byte of the word that a byte of the result is in
LEMMA EightsScal ==
  ASSUME NEW t, NEW e, Eights(t, e), NEW in, NEW out
  PROVE  shuffle_bit_eightelem_scal(in, out, 8 * e, t) = EightsFrom(t, e, in, out)
<1> DEFINE b == t * (8 * e)
           row == t * e
           words == [i \in 0 .. row - 1 |-> TRANS_BIT_8X8(Word(in, 8 * i))]
<1>1. (8 * e) * t = b /\ b \div 8 = row /\ ((8 * e) * t) \div 8 = row /\ b = 8 * row /\ row \in Nat \ {0} /\ t \in Nat \ {0}
  BY Sizes DEF Eights
<1>2. shuffle_bit_eightelem_scal(in, out, 8 * e, t)
        = [k \in DOMAIN out |-> IF k \in 0 .. b - 1
             THEN ByteOf(words[(k \div (8 * t)) * t + (k % t)], (k % (8 * t)) \div t) ELSE out[k]]
  <2> DEFINE long == [i \in 0 .. ((8 * e) * t) \div 8 - 1 |-> TRANS_BIT_8X8(Word(in, 8 * i))]
  <2>1. long = words
    BY <1>1
  <2>2. shuffle_bit_eightelem_scal(in, out, 8 * e, t)
          = [k \in DOMAIN out |-> IF k \in 0 .. (8 * e) * t - 1
               THEN ByteOf(long[(k \div (8 * t)) * t + (k % t)], (k % (8 * t)) \div t) ELSE out[k]]
    BY DEF shuffle_bit_eightelem_scal, Stored
  <2> HIDE DEF long
  <2> QED
    BY <1>1, <2>1, <2>2
<1>3. ASSUME NEW k \in 0 .. b - 1
      PROVE  ByteOf(words[(k \div (8 * t)) * t + (k % t)], (k % (8 * t)) \div t)
               = BitColumn(in, 8 * ((k \div (8 * t)) * t + (k % t)), (k % (8 * t)) \div t)
  <2> DEFINE j8 == k \div (8 * t)
             m == k % t
             i == (k % (8 * t)) \div t
             c == j8 * t + m
  <2>1. BitCell(t, e, k)
    BY DEF BitCell
  <2>2. m \in 0 .. t - 1 /\ i \in 0 .. 7 /\ j8 \in 0 .. e - 1
    BY <2>1, BackCellIs
  <2> HIDE DEF j8, m, i
  <2>3. c \in 0 .. row - 1
    <3>1. e \in Nat
      BY DEF Eights
    <3> QED
      BY <1>1, <2>2, <3>1, InRows
  <2> HIDE DEF c
  <2>4. 8 * c \in Nat /\ words[c] = TRANS_BIT_8X8(Word(in, 8 * c))
    BY <2>3
  <2>5. ByteOf(TRANS_BIT_8X8(Word(in, 8 * c)), i) = BitColumn(in, 8 * c, i)
    BY <2>2, <2>4, WordIs
  <2> QED
    BY <2>4, <2>5 DEF c, j8, m, i
<1> HIDE DEF words
<1> QED
  BY <1>2, <1>3 DEF EightsFrom

-----------------------------------------------------------------------------
(* slli and movemask take the bits of a register out one by one. *)

\* y is a, shifted n times
IsShifted(y, a, n, w) ==
  /\ DOMAIN y = 0 .. w - 1
  /\ \A i \in 0 .. w - 1, p \in 0 .. 7 : p >= n => y[i][p] = a[i][p - n]

\* slli moves every bit one up, and the top one out of sight.
LEMMA ShiftedOnce ==
  ASSUME NEW y, NEW a, NEW n \in 0 .. 6, NEW w, IsShifted(y, a, n, w)
  PROVE  IsShifted(Slli(y), a, n + 1, w)
<1>1. DOMAIN y = 0 .. w - 1 /\ \A i \in 0 .. w - 1, p \in 0 .. 7 : p >= n => y[i][p] = a[i][p - n]
  BY DEF IsShifted
<1>2. DOMAIN Slli(y) = 0 .. w - 1
  BY <1>1 DEF Slli
<1>3. ASSUME NEW i \in 0 .. w - 1, NEW p \in 0 .. 7, p >= n + 1
      PROVE  Slli(y)[i][p] = a[i][p - (n + 1)]
  <2>1. p > 0 /\ p - 1 \in 0 .. 7 /\ p - 1 >= n /\ p - 1 - n = p - (n + 1)
    BY <1>3
  <2>2. Slli(y)[i] = [q \in 0 .. 7 |-> IF q > 0 THEN y[i][q - 1] ELSE IF i % 2 = 1 THEN y[i - 1][7] ELSE {}]
    BY <1>1, Zenon DEF Slli
  <2>3. Slli(y)[i][p] = IF p > 0 THEN y[i][p - 1] ELSE IF i % 2 = 1 THEN y[i - 1][7] ELSE {}
    BY <2>2, Zenon
  <2>4. Slli(y)[i][p] = y[i][p - 1]
    BY <2>1, <2>3
  <2> QED
    BY <1>1, <2>1, <2>4
<1> QED
  BY <1>2, <1>3 DEF IsShifted

BitsPlace(w, a, kk, b) == w \in {16, 32} /\ DOMAIN a = 0 .. w - 1 /\ kk \in 0 .. 7 /\ b \in 0 .. w \div 8 - 1
\* Round kk of the loop takes bit 7 - kk of every byte.
LEMMA BitsIs ==
  ASSUME NEW w, NEW a, NEW kk, NEW b, BitsPlace(w, a, kk, b)
  PROVE  Entry(Bits(a, w), kk, b) = [p \in 0 .. 7 |-> a[8 * b + p][7 - kk]]
<1> w \in {16, 32} /\ DOMAIN a = 0 .. w - 1 /\ kk \in 0 .. 7 /\ b \in 0 .. w \div 8 - 1
  BY DEF BitsPlace
<1> DEFINE s1 == Slli(a)
           s2 == Slli(s1)
           s3 == Slli(s2)
           s4 == Slli(s3)
           s5 == Slli(s4)
           s6 == Slli(s5)
           s7 == Slli(s6)
           f == [k \in 0 .. 7 |-> IF k = 0 THEN a ELSE IF k = 1 THEN s1 ELSE IF k = 2 THEN s2
                                  ELSE IF k = 3 THEN s3 ELSE IF k = 4 THEN s4 ELSE IF k = 5 THEN s5
                                  ELSE IF k = 6 THEN s6 ELSE s7]
           Equation(g) == g = [k \in 0 .. 7 |-> IF k = 0 THEN a ELSE Slli(g[k - 1])]
           shifted == CHOOSE g : Equation(g)
<1>1. Bits(a, w) = [k \in 0 .. 7 |-> MoveMask(shifted[k], w)]
  BY DEF Bits
<1>2. /\ s1 = Slli(a) /\ s2 = Slli(s1) /\ s3 = Slli(s2) /\ s4 = Slli(s3) /\ s5 = Slli(s4) /\ s6 = Slli(s5)
      /\ s7 = Slli(s6)
  OBVIOUS
<1> HIDE DEF s1, s2, s3, s4, s5, s6, s7
<1>3. /\ f[0] = a /\ f[1] = s1 /\ f[2] = s2 /\ f[3] = s3 /\ f[4] = s4 /\ f[5] = s5 /\ f[6] = s6 /\ f[7] = s7
      /\ f = [k \in 0 .. 7 |-> f[k]]
  OBVIOUS
<1> HIDE DEF f
<1>4. Equation(f)
  <2>1. ASSUME NEW k \in 0 .. 7 PROVE f[k] = IF k = 0 THEN a ELSE Slli(f[k - 1])
    <3>1. k = 0 \/ k = 1 \/ k = 2 \/ k = 3 \/ k = 4 \/ k = 5 \/ k = 6 \/ k = 7
      OBVIOUS
    <3> QED
      BY <1>2, <1>3, <3>1
  <2> QED
    BY <1>3, <2>1
<1>5. Equation(shifted)
  <2> HIDE DEF Equation
  <2> QED
    BY <1>4
<1> HIDE DEF shifted
<1>6. /\ shifted[0] = a /\ shifted[1] = Slli(shifted[0]) /\ shifted[2] = Slli(shifted[1])
      /\ shifted[3] = Slli(shifted[2]) /\ shifted[4] = Slli(shifted[3]) /\ shifted[5] = Slli(shifted[4])
      /\ shifted[6] = Slli(shifted[5]) /\ shifted[7] = Slli(shifted[6])
  <2>1. \A k \in 0 .. 7 : shifted[k] = IF k = 0 THEN a ELSE Slli(shifted[k - 1])
    <3> SUFFICES ASSUME NEW k \in 0 .. 7 PROVE shifted[k] = IF k = 0 THEN a ELSE Slli(shifted[k - 1])
      OBVIOUS
    <3> QED
      BY <1>5
  <2> HIDE DEF Equation
  <2> QED
    BY <2>1
<1> HIDE DEF Equation
<1>7. IsShifted(shifted[0], a, 0, w)
  BY <1>6 DEF IsShifted
<1>8. IsShifted(shifted[1], a, 1, w)
  BY <1>6, <1>7, 0 \in 0 .. 6, 0 + 1 = 1, ShiftedOnce
<1>9. IsShifted(shifted[2], a, 2, w)
  BY <1>6, <1>8, 1 \in 0 .. 6, 1 + 1 = 2, ShiftedOnce
<1>10. IsShifted(shifted[3], a, 3, w)
  BY <1>6, <1>9, 2 \in 0 .. 6, 2 + 1 = 3, ShiftedOnce
<1>11. IsShifted(shifted[4], a, 4, w)
  BY <1>6, <1>10, 3 \in 0 .. 6, 3 + 1 = 4, ShiftedOnce
<1>12. IsShifted(shifted[5], a, 5, w)
  BY <1>6, <1>11, 4 \in 0 .. 6, 4 + 1 = 5, ShiftedOnce
<1>13. IsShifted(shifted[6], a, 6, w)
  BY <1>6, <1>12, 5 \in 0 .. 6, 5 + 1 = 6, ShiftedOnce
<1>14. IsShifted(shifted[7], a, 7, w)
  BY <1>6, <1>13, 6 \in 0 .. 6, 6 + 1 = 7, ShiftedOnce
<1> DEFINE y == shifted[kk]
<1>15. IsShifted(y, a, kk, w)
  <2>1. kk = 0 \/ kk = 1 \/ kk = 2 \/ kk = 3 \/ kk = 4 \/ kk = 5 \/ kk = 6 \/ kk = 7
    OBVIOUS
  <2> QED
    BY <2>1, <1>7, <1>8, <1>9, <1>10, <1>11, <1>12, <1>13, <1>14
<1>16. Bits(a, w)[kk] = MoveMask(y, w)
  BY <1>1
<1> HIDE DEF y
<1>17. MoveMask(y, w)[b] = [p \in 0 .. 7 |-> y[8 * b + p][7]]
  BY DEF MoveMask
<1>18. ASSUME NEW p \in 0 .. 7 PROVE y[8 * b + p][7] = a[8 * b + p][7 - kk]
  <2>1. 8 * b + p \in 0 .. w - 1
    OBVIOUS
  <2>2. 7 >= kk /\ 7 \in 0 .. 7
    OBVIOUS
  <2> QED
    BY <1>15, <2>1, <2>2 DEF IsShifted
<1> QED
  BY <1>16, <1>17, <1>18 DEF Entry

-----------------------------------------------------------------------------
(* The passes over bits with SSE2 and AVX2 are the generic ones. *)

MovedPlace(w, at, i, b) == w \in {16, 32} /\ at \in Nat /\ i \in 0 .. 7 /\ b \in 0 .. w \div 8 - 1
\* Bits of a register that was loaded from memory
LEMMA MovedBits ==
  ASSUME NEW w, NEW at, NEW i, NEW b, MovedPlace(w, at, i, b), NEW in
  PROVE  Entry(Bits(Load(in, at, w), w), 7 - i, b) = BitColumn(in, at + 8 * b, i)
<1> w \in {16, 32} /\ at \in Nat /\ i \in 0 .. 7 /\ b \in 0 .. w \div 8 - 1
  BY DEF MovedPlace
<1> DEFINE a == Load(in, at, w)
<1>1. a = [x \in 0 .. w - 1 |-> in[at + x]]
  BY DEF Load, Register
<1> HIDE DEF a
<1>2. 7 - i \in 0 .. 7 /\ 7 - (7 - i) = i /\ DOMAIN a = 0 .. w - 1
  BY <1>1
<1>3. Entry(Bits(a, w), 7 - i, b) = [p \in 0 .. 7 |-> a[8 * b + p][7 - (7 - i)]]
  <2>1. BitsPlace(w, a, 7 - i, b)
    BY <1>2 DEF BitsPlace
  <2> QED
    BY <2>1, BitsIs
<1>4. ASSUME NEW p \in 0 .. 7 PROVE a[8 * b + p][7 - (7 - i)] = in[at + 8 * b + p][i]
  <2>1. 8 * b + p \in 0 .. w - 1 /\ at + (8 * b + p) = at + 8 * b + p
    OBVIOUS
  <2>2. a[8 * b + p] = in[at + (8 * b + p)]
    BY <1>1, <2>1
  <2> QED
    BY <1>2, <2>1, <2>2
<1> QED
  BY <1>3, <1>4 DEF BitColumn, a

\* trans_bit_byte with registers and, after them, words
LEMMA BitsVector ==
  ASSUME NEW w \in {16, 32}, NEW row \in Nat \ {0}, NEW in, NEW out
  PROVE  trans_bit_byte_vector(w, in, out, 8 * row) = BitsFrom(row, in, out)
<1> DEFINE n == 8 * row
           per == w \div 8
           q == n \div w
           st == per * q
           bits == [t \in 0 .. q - 1 |-> Bits(Load(in, w * t, w), w)]
           done == [k \in DOMAIN out |-> IF k \in 0 .. n - 1
                      THEN IF k % row < st THEN bits[(k % row) \div per][7 - (k \div row)][(k % row) % per] ELSE out[k]
                      ELSE out[k]]
<1>1. n \div 8 = row /\ per \in {2, 4} /\ q \in Nat /\ w = 8 * per /\ n - (n % w) = w * q
  <2>1. CASE w = 16
    BY <2>1
  <2>2. CASE w = 32
    BY <2>2
  <2> QED
    BY <2>1, <2>2
<1>2. st \in Nat /\ w * q = 8 * st
  BY <1>1
<1>3. trans_bit_byte_vector(w, in, out, n) = trans_bit_byte_remainder(in, done, n, w * q)
  <2>1. n \div 8 = row /\ n \div w = q /\ w \div 8 = per
    BY <1>1
  <2> DEFINE Bytes == [t \in 0 .. (n \div w) - 1 |-> Bits(Load(in, w * t, w), w)]
             Done ==
               [k \in DOMAIN out |-> IF k \in 0 .. n - 1
                 THEN IF k % (n \div 8) < (w \div 8) * (n \div w)
                      THEN Bytes[(k % (n \div 8)) \div (w \div 8)][7 - (k \div (n \div 8))][(k % (n \div 8)) % (w \div 8)]
                      ELSE out[k]
                 ELSE out[k]]
  <2>2. trans_bit_byte_vector(w, in, out, n) = trans_bit_byte_remainder(in, Done, n, n - (n % w))
    <3> HIDE DEF n
    <3> QED
      BY Zenon DEF trans_bit_byte_vector, Stored, RoundedDown
  <2>3. Bytes = bits
    BY <2>1
  <2> HIDE DEF Bytes, bits
  <2>4. Done = done
    <3> HIDE DEF n, per, q
    <3> QED
      BY <2>1, <2>3
  <2> HIDE DEF Done, done
  <2> QED
    BY <1>1, <2>2, <2>4
<1> HIDE DEF n, per, q, st
<1>4. trans_bit_byte_remainder(in, done, 8 * row, w * q)
        = [k \in DOMAIN done |-> IF k \in 0 .. 8 * row - 1 /\ k % row >= st
                                 THEN BitColumn(in, 8 * (k % row), k \div row) ELSE done[k]]
  <2> HIDE DEF done
  <2> QED
    <3>1. BitsStart(row, st, w * q)
      BY <1>2 DEF BitsStart
    <3> QED
      BY <3>1, BitsScal
<1>5. ASSUME NEW k \in DOMAIN out, k \in 0 .. 8 * row - 1, k % row < st
      PROVE  done[k] = BitColumn(in, 8 * (k % row), k \div row)
  <2> DEFINE c == k % row
             i == k \div row
             j == c \div per
             b == c % per
  <2>1. c \in 0 .. row - 1 /\ i \in 0 .. 7
    <3>1. EightRows(row, k)
      BY <1>5 DEF EightRows
    <3> HIDE DEF done
    <3> QED
      BY <3>1, Cell8
  <2>2. done[k] = bits[j][7 - i][b]
    BY <1>5 DEF n
  <2> HIDE DEF c, i, done
  <2>3. j \in 0 .. q - 1 /\ b \in 0 .. per - 1 /\ c = per * j + b
    <3>1. per \in Nat \ {0} /\ c \in Nat /\ c < per * q
      BY <1>1, <1>5, <2>1 DEF c, st
    <3> QED
      BY <1>1, <3>1, StepOf
  <2> HIDE DEF j, b
  <2>4. bits[j] = Bits(Load(in, w * j, w), w)
    BY <2>3
  <2>5. w * j \in Nat /\ b \in 0 .. w \div 8 - 1
    BY <1>1, <2>3 DEF per
  <2>6. bits[j][7 - i][b] = BitColumn(in, w * j + 8 * b, i)
    <3> DEFINE at == w * j
    <3> HIDE DEF at
    <3>1. at \in Nat
      BY <2>5 DEF at
    <3>2. Entry(Bits(Load(in, at, w), w), 7 - i, b) = BitColumn(in, at + 8 * b, i)
      <4>1. MovedPlace(w, at, i, b)
        BY <2>1, <2>5, <3>1 DEF MovedPlace
      <4> QED
        BY <4>1, MovedBits
    <3> QED
      BY <2>4, <3>2 DEF at, Entry
  <2>7. w * j + 8 * b = 8 * c
    <3>1. CASE per = 2
      BY <1>1, <2>3, <3>1
    <3>2. CASE per = 4
      BY <1>1, <2>3, <3>2
    <3> QED
      BY <1>1, <3>1, <3>2
  <2> QED
    BY <2>2, <2>6, <2>7 DEF c, i
<1>6. \A k \in DOMAIN out : k \in 0 .. 8 * row - 1 => k % row \in Nat
  BY Cell8 DEF EightRows
<1>7. DOMAIN done = DOMAIN out /\ \A k \in DOMAIN out : k \notin 0 .. 8 * row - 1 => done[k] = out[k]
  BY DEF n
<1> HIDE DEF done
<1>8. ASSUME NEW k \in DOMAIN out
      PROVE  (IF k \in 0 .. 8 * row - 1 /\ k % row >= st
              THEN BitColumn(in, 8 * (k % row), k \div row) ELSE done[k])
             = IF k \in 0 .. 8 * row - 1 THEN BitColumn(in, 8 * (k % row), k \div row) ELSE out[k]
  BY <1>2, <1>5, <1>6, <1>7
<1> QED
  BY <1>3, <1>4, <1>7, <1>8 DEF BitsFrom, n

\* A register holds whole elements of eight bits a byte.
LEMMA EightsVector ==
  ASSUME NEW t, NEW e, Eights(t, e), NEW w \in {16, 32}, NEW in, NEW out
  PROVE  shuffle_bit_eightelem_vector(w, in, out, 8 * e, t) = EightsFrom(t, e, in, out)
<1> DEFINE v == IF t % 4 # 0 THEN 16 ELSE w
           per == v \div 8
           b == t * (8 * e)
           bits == [x \in 0 .. b \div v - 1 |-> Bits(Load(in, v * x, v), v)]
           At(k) == 8 * t * (k \div (8 * t)) + v * ((k % t) \div per)
<1>0. t \in Nat \ {0} /\ e \in Nat \ {0} /\ (8 * e) * t = b /\ b \in Nat
  BY Sizes DEF Eights
<1>1. CASE t % 2 # 0
  BY <1>1, EightsScal DEF shuffle_bit_eightelem_vector
<1>2. CASE ~(t % 2 # 0)
  <2>1. shuffle_bit_eightelem_vector(w, in, out, 8 * e, t)
          = [k \in DOMAIN out |-> IF k \in 0 .. b - 1
               THEN bits[At(k) \div v][7 - ((k % (8 * t)) \div t)][(k % t) % per] ELSE out[k]]
    <3> DEFINE long == [x \in 0 .. ((8 * e) * t) \div v - 1 |-> Bits(Load(in, v * x, v), v)]
    <3>1. long = bits
      BY <1>0
    <3>2. shuffle_bit_eightelem_vector(w, in, out, 8 * e, t)
            = [k \in DOMAIN out |-> IF k \in 0 .. (8 * e) * t - 1
                 THEN long[At(k) \div v][7 - ((k % (8 * t)) \div t)][(k % t) % per] ELSE out[k]]
      BY <1>2 DEF shuffle_bit_eightelem_vector, Stored
    <3> HIDE DEF long, bits
    <3> QED
      BY <1>0, <3>1, <3>2
  <2>2. v \in {16, 32} /\ per \in {2, 4} /\ v = 8 * per /\ t % per = 0
    <3>1. CASE t % 4 # 0
      BY <1>0, <1>2, <3>1
    <3>2. CASE t % 4 = 0
      BY <1>0, <3>2
    <3> QED
      BY <3>1, <3>2
  <2> HIDE DEF v
  <2>3. \E g \in Nat : t = per * g
    <3>1. CASE per = 2
      <4>1. t = 2 * (t \div 2) /\ t \div 2 \in Nat
        BY <1>0, <2>2, <3>1
      <4> QED
        BY <3>1, <4>1
    <3>2. CASE per = 4
      <4>1. t = 4 * (t \div 4) /\ t \div 4 \in Nat
        BY <1>0, <2>2, <3>2
      <4> QED
        BY <3>2, <4>1
    <3> QED
      BY <2>2, <3>1, <3>2
  <2> HIDE DEF per
  <2>4. PICK g \in Nat : t = per * g
    BY <2>3
  <2>5. ASSUME NEW k \in 0 .. b - 1
        PROVE  bits[At(k) \div v][7 - ((k % (8 * t)) \div t)][(k % t) % per]
                 = BitColumn(in, 8 * ((k \div (8 * t)) * t + (k % t)), (k % (8 * t)) \div t)
    <3> DEFINE j8 == k \div (8 * t)
               m == k % t
               i == (k % (8 * t)) \div t
               c == m \div per
               d == m % per
               y == g * j8 + c
    <3>1. m \in 0 .. t - 1 /\ i \in 0 .. 7 /\ j8 \in 0 .. e - 1
      <4>1. BitCell(t, e, k)
        BY DEF BitCell
      <4> QED
        BY <4>1, BackCellIs
    <3> HIDE DEF j8, m, i
    <3>2. c \in 0 .. g - 1 /\ d \in 0 .. per - 1 /\ m = per * c + d
      <4>1. per \in Nat \ {0} /\ m \in Nat /\ m < per * g
        BY <2>2, <2>4, <3>1
      <4> QED
        BY <4>1, StepOf
    <3> HIDE DEF c, d
    <3>3. y \in 0 .. g * e - 1
      <4>1. e \in Nat /\ j8 * g + c \in 0 .. g * e - 1
        BY <1>0, <3>1, <3>2, InRows
      <4>2. j8 * g = g * j8
        BY <3>1
      <4> QED
        BY <4>1, <4>2
    <3>4. 8 * t * j8 + v * c = v * y
      <4> DEFINE gj == g * j8
      <4>1. gj \in Nat /\ t * j8 = per * gj /\ c \in Nat
        BY <2>2, <2>4, <3>1, <3>2
      <4>2. 8 * t * j8 = 8 * (t * j8)
        BY <1>0, <3>1
      <4> HIDE DEF gj
      <4>3. 8 * (per * gj) + (8 * per) * c = (8 * per) * (gj + c)
        BY <2>2, <4>1
      <4> QED
        BY <2>2, <4>1, <4>2, <4>3 DEF gj
    <3>5. b = v * (g * e) /\ g * e \in Nat
      <4>1. t * (8 * e) = (8 * per) * (g * e)
        BY <1>0, <2>2, <2>4
      <4> QED
        BY <1>0, <2>2, <4>1
    <3>6. b \div v = g * e
      <4> DEFINE ge == g * e
      <4>1. ge \in Nat /\ v \in Nat \ {0}
        BY <2>2, <3>5
      <4> HIDE DEF ge
      <4>2. (v * ge) \div v = ge
        BY <4>1, Multiple
      <4> QED
        BY <3>5, <4>2 DEF ge
    <3> HIDE DEF y
    <3>7. y \in Nat /\ y \in 0 .. b \div v - 1
      BY <3>3, <3>6
    <3>8. (v * y) \div v = y
      <4>1. v \in Nat \ {0} /\ y \in Nat
        BY <2>2, <3>7
      <4> QED
        BY <4>1, Multiple
    <3>9. bits[y] = Bits(Load(in, v * y, v), v)
      <4> HIDE DEF b
      <4> QED
        BY <3>7
    <3>10. bits[y][7 - i][d] = BitColumn(in, v * y + 8 * d, i)
      <4> DEFINE at == v * y
      <4>1. at \in Nat /\ d \in 0 .. v \div 8 - 1
        BY <2>2, <3>2, <3>7
      <4> HIDE DEF at
      <4>2. Entry(Bits(Load(in, at, v), v), 7 - i, d) = BitColumn(in, at + 8 * d, i)
        <5>1. MovedPlace(v, at, i, d)
          BY <2>2, <3>1, <4>1 DEF MovedPlace
        <5> QED
          BY <5>1, MovedBits
      <4> QED
        BY <3>9, <4>2 DEF at, Entry
    <3>11. v * y + 8 * d = 8 * (j8 * t + m)
      <4> DEFINE tj == t * j8
      <4>1. tj \in Nat /\ 8 * t * j8 = 8 * tj /\ j8 * t = tj
        BY <1>0, <3>1
      <4>2. v * c + 8 * d = 8 * m
        <5>1. CASE per = 2
          BY <2>2, <3>2, <5>1
        <5>2. CASE per = 4
          BY <2>2, <3>2, <5>2
        <5> QED
          BY <2>2, <5>1, <5>2
      <4>3. v * c \in Nat /\ v * y = 8 * tj + v * c
        BY <2>2, <3>2, <3>4, <4>1
      <4> DEFINE vc == v * c
      <4> HIDE DEF tj, vc
      <4>4. 8 * tj + vc + 8 * d = 8 * (tj + m)
        BY <3>1, <3>2, <4>1, <4>2, <4>3 DEF vc
      <4> QED
        BY <4>1, <4>3, <4>4 DEF vc
    <3>12. At(k) = v * y
      BY <3>4 DEF j8, m, c
    <3> QED
      BY <3>8, <3>10, <3>11, <3>12 DEF j8, m, i, d
  <2> HIDE DEF bits, At
  <2> QED
    BY <2>1, <2>5 DEF EightsFrom
<1> QED
  BY <1>1, <1>2

-----------------------------------------------------------------------------
(* The passes over bytes, for types of 2, 4 and 8 bytes *)

\* The two larger networks, in the form used below
LEMMA ElemNetwork4Entry ==
  ASSUME NEW x, Registers(x, 4, 16), NEW c, NEW d, NEW e, NEW f, NEW g, NEW h, Address(4, 16, 0, 0, c, d, 0, e, f, g, h)
  PROVE  Entry(ElemNetwork(4, x), Number(0, 0, 0, c, d), Number(0, e, f, g, h)) = Entry(x, Number(0, 0, 0, e, f), Number(0, g, h, c, d))
BY ElemNetwork4Is

LEMMA ElemNetwork8Entry ==
  ASSUME NEW x, Registers(x, 8, 16), NEW b, NEW c, NEW d, NEW e, NEW f, NEW g, NEW h, Address(8, 16, 0, b, c, d, 0, e, f, g, h)
  PROVE  Entry(ElemNetwork(8, x), Number(0, 0, b, c, d), Number(0, e, f, g, h)) = Entry(x, Number(0, 0, e, f, g), Number(0, h, b, c, d))
BY ElemNetwork8Is

\* Byte m of element i of sixteen
ElemPlace(es, x, m, i) == es \in {2, 4, 8} /\ Registers(x, es, 16) /\ m \in 0 .. es - 1 /\ i \in 0 .. 15
LEMMA ElemIs ==
  ASSUME NEW es, NEW x, NEW m, NEW i, ElemPlace(es, x, m, i)
  PROVE  Entry(ElemNetwork(es, x), m, i) = Entry(x, (i * es + m) \div 16, (i * es + m) % 16)
<1> es \in {2, 4, 8} /\ Registers(x, es, 16) /\ m \in 0 .. es - 1 /\ i \in 0 .. 15
  BY DEF ElemPlace
<1>1. PICK e, f, g, h \in Bit : i = Number(0, e, f, g, h)
  BY BitsOf
<1>2. CASE es = 2
  <2>1. PICK d \in Bit : m = Number(0, 0, 0, 0, d)
    <3>1. m \in 0 .. 1
      BY <1>2
    <3> QED
      BY <3>1, BitsOf
  <2>2. Address(2, 16, 0, 0, 0, d, 0, e, f, g, h) /\ Registers(x, 2, 16)
    BY <1>2 DEF Address, Below, Number, Bit, Lanes, Widths
  <2>3. (i * 2 + m) \div 16 = Number(0, 0, 0, 0, e) /\ (i * 2 + m) % 16 = Number(0, f, g, h, d)
    BY <1>1, <2>1 DEF Number, Bit
  <2>4. Entry(ElemNetwork(2, x), Number(0, 0, 0, 0, d), Number(0, e, f, g, h)) = Entry(x, Number(0, 0, 0, 0, e), Number(0, f, g, h, d))
    BY <2>2, ElemNetwork2Is
  <2> QED
    BY <1>1, <1>2, <2>1, <2>3, <2>4
<1>3. CASE es = 4
  <2>1. PICK c, d \in Bit : m = Number(0, 0, 0, c, d)
    <3>1. m \in 0 .. 3
      BY <1>3
    <3> QED
      BY <3>1, BitsOf
  <2>2. Address(4, 16, 0, 0, c, d, 0, e, f, g, h) /\ Registers(x, 4, 16)
    BY <1>3 DEF Address, Below, Number, Bit, Lanes, Widths
  <2>3. (i * 4 + m) \div 16 = Number(0, 0, 0, e, f) /\ (i * 4 + m) % 16 = Number(0, g, h, c, d)
    BY <1>1, <2>1 DEF Number, Bit
  <2>4. Entry(ElemNetwork(4, x), Number(0, 0, 0, c, d), Number(0, e, f, g, h)) = Entry(x, Number(0, 0, 0, e, f), Number(0, g, h, c, d))
    BY <2>2, ElemNetwork4Entry
  <2> QED
    BY <1>1, <1>3, <2>1, <2>3, <2>4
<1>4. CASE es = 8
  <2>1. PICK b, c, d \in Bit : m = Number(0, 0, b, c, d)
    <3>1. m \in 0 .. 7
      BY <1>4
    <3> QED
      BY <3>1, BitsOf
  <2>2. Address(8, 16, 0, b, c, d, 0, e, f, g, h) /\ Registers(x, 8, 16)
    BY <1>4 DEF Address, Below, Number, Bit, Lanes, Widths
  <2>3. (i * 8 + m) \div 16 = Number(0, 0, e, f, g) /\ (i * 8 + m) % 16 = Number(0, h, b, c, d)
    BY <1>1, <2>1 DEF Number, Bit
  <2>4. Entry(ElemNetwork(8, x), Number(0, 0, b, c, d), Number(0, e, f, g, h)) = Entry(x, Number(0, 0, e, f, g), Number(0, h, b, c, d))
    BY <2>2, ElemNetwork8Entry
  <2> QED
    BY <1>1, <1>4, <2>1, <2>3, <2>4
<1> QED
  BY <1>2, <1>3, <1>4

\* What trans_byte_elem_SSE loads
ElemLoaded(es, in, j) == [k \in 0 .. es - 1 |-> Load(in, es * 16 * j + 16 * k, 16)]
LEMMA ElemLoadedIs ==
  ASSUME NEW es \in {2, 4, 8}, NEW in, NEW j \in Nat, NEW m \in 0 .. es - 1, NEW i \in 0 .. 15
  PROVE  Entry(ElemNetwork(es, ElemLoaded(es, in, j)), m, i) = in[(16 * j + i) * es + m]
<1> DEFINE x == ElemLoaded(es, in, j)
           k == (i * es + m) \div 16
           p == (i * es + m) % 16
<1>1. x = [l \in 0 .. es - 1 |-> [y \in 0 .. 15 |-> in[es * 16 * j + 16 * l + y]]]
  BY DEF ElemLoaded, Load, Register
<1> HIDE DEF x
<1>2. ElemPlace(es, x, m, i)
  BY <1>1 DEF ElemPlace, Registers, IsRegister
<1>3. k \in 0 .. es - 1 /\ p \in 0 .. 15 /\ es * 16 * j + 16 * k + p = (16 * j + i) * es + m
  <2>1. CASE es = 2
    BY <2>1
  <2>2. CASE es = 4
    BY <2>2
  <2>3. CASE es = 8
    BY <2>3
  <2> QED
    BY <2>1, <2>2, <2>3
<1>4. Entry(ElemNetwork(es, x), m, i) = Entry(x, k, p)
  BY <1>2, ElemIs
<1> HIDE DEF k, p
<1>5. x[k] = [y \in 0 .. 15 |-> in[es * 16 * j + 16 * k + y]]
  BY <1>1, <1>3
<1>6. x[k][p] = in[es * 16 * j + 16 * k + p]
  BY <1>3, <1>5
<1> QED
  BY <1>3, <1>4, <1>6 DEF x, Entry

\* trans_byte_elem_SSE with tiles and, after them, single bytes
LEMMA BytesSSE ==
  ASSUME NEW es \in {2, 4, 8}, NEW s \in Nat \ {0}, NEW in, NEW out
  PROVE  trans_byte_elem_SSE(in, out, s, es) = BytesFrom(es, s, in, out)
<1> DEFINE v == s - (s % 16)
           q == s \div 16
           tiles == [j \in 0 .. q - 1 |-> ElemNetwork(es, ElemLoaded(es, in, j))]
           done == [k \in DOMAIN out |-> IF k \in 0 .. s * es - 1
                      THEN IF k % s < v THEN tiles[(k % s) \div 16][k \div s][(k % s) % 16] ELSE out[k]
                      ELSE out[k]]
<1>1. trans_byte_elem_SSE(in, out, s, es) = trans_byte_elem_remainder(in, done, s, es, v)
  BY Zenon DEF trans_byte_elem_SSE, Stored, RoundedDown, ElemLoaded
<1>2. q \in Nat /\ v = 16 * q /\ v \in Nat /\ es \in Nat \ {0} /\ s * es = es * s
  OBVIOUS
<1> HIDE DEF q, v
<1>3. trans_byte_elem_remainder(in, done, s, es, v)
        = [k \in DOMAIN out |-> IF k \in 0 .. s * es - 1
             THEN IF k % s >= v THEN in[(k % s) * es + k \div s] ELSE done[k] ELSE done[k]]
  BY DEF trans_byte_elem_remainder, Stored
<1>4. ASSUME NEW k \in DOMAIN out, k \in 0 .. s * es - 1
      PROVE  (IF k % s >= v THEN in[(k % s) * es + k \div s] ELSE done[k]) = in[(k % s) * es + k \div s]
  <2> DEFINE i == k % s
             m == k \div s
             j == i \div 16
             d == i % 16
  <2>1. i \in 0 .. s - 1 /\ m \in 0 .. es - 1
    BY <1>2, <1>4, Cell
  <2> HIDE DEF i, m
  <2>2. ASSUME i < v PROVE done[k] = in[i * es + m]
    <3>1. j \in 0 .. q - 1 /\ d \in 0 .. 15 /\ i = 16 * j + d /\ j \in Nat
      BY <1>2, <2>1, <2>2
    <3>2. done[k] = tiles[j][m][d]
      BY <1>4, <2>2 DEF i, m
    <3> HIDE DEF done, j, d
    <3>3. tiles[j] = ElemNetwork(es, ElemLoaded(es, in, j))
      BY <3>1
    <3>4. Entry(ElemNetwork(es, ElemLoaded(es, in, j)), m, d) = in[(16 * j + d) * es + m]
      BY <2>1, <3>1, ElemLoadedIs
    <3> QED
      BY <3>1, <3>2, <3>3, <3>4 DEF Entry
  <2> QED
    BY <1>2, <2>1, <2>2 DEF i, m
<1>5. \A k \in DOMAIN out : k \notin 0 .. s * es - 1 => done[k] = out[k]
  OBVIOUS
<1> HIDE DEF done
<1> QED
  BY <1>1, <1>2, <1>3, <1>4, <1>5 DEF BytesFrom

-----------------------------------------------------------------------------
(* Larger types, in pieces; bitshuffle with SSE2 and AVX2 *)

\* A byte of s elements, each of n pieces of g bytes, through the three steps
PieceCell(g, n, s, k) ==
  g \in Nat \ {0} /\ n \in Nat \ {0} /\ s \in Nat \ {0} /\ k \in 0 .. (g * n) * s - 1
LEMMA PieceCellIs ==
  ASSUME NEW g, NEW n, NEW s, NEW k, PieceCell(g, n, s, k)
  PROVE  LET q == k \div s
             i == k % s
             m == q % g
             h == q \div g
             j == h * s + i
             kk == (m * n + h) * s + i
             l == j * g + m
         IN /\ i \in 0 .. s - 1 /\ q \in Nat /\ m \in 0 .. g - 1 /\ h \in 0 .. n - 1
            /\ kk \in 0 .. (g * n) * s - 1 /\ kk \div (s * n) = m /\ kk % (s * n) = j
            /\ l \in 0 .. (g * n) * s - 1 /\ l \div g = j /\ l % g = m
            /\ j % s = i /\ j \div s = h /\ (i * n + h) * g + m = i * (g * n) + q
<1> g \in Nat \ {0} /\ n \in Nat \ {0} /\ s \in Nat \ {0} /\ k \in 0 .. (g * n) * s - 1
  BY DEF PieceCell
<1> DEFINE t == g * n
           q == k \div s
           i == k % s
           m == q % g
           h == q \div g
           j == h * s + i
           kk == (m * n + h) * s + i
           l == j * g + m
           sn == s * n
<1>1. t \in Nat \ {0} /\ sn \in Nat \ {0} /\ t * s = g * sn
  OBVIOUS
<1>2. q \in 0 .. t - 1 /\ i \in 0 .. s - 1
  <2> HIDE DEF t
  <2>1. k \in 0 .. t * s - 1 /\ t \in Nat \ {0} /\ s \in Nat
    BY <1>1 DEF t
  <2> QED
    BY <2>1, Cell
<1> HIDE DEF q, i
<1>3. m \in 0 .. g - 1 /\ h \in 0 .. n - 1 /\ q = g * h + m
  <2>1. q \in 0 .. n * g - 1
    BY <1>2
  <2> QED
    BY <2>1, Cell
<1> HIDE DEF m, h
<1>4. j \in 0 .. sn - 1
  BY <1>2, <1>3, InRows
<1>5. j % s = i /\ j \div s = h
  <2>1. (s * h + i) \div s = h /\ (s * h + i) % s = i
    <3>1. s \in Nat \ {0} /\ h \in Nat /\ i \in 0 .. s - 1
      BY <1>2, <1>3
    <3> QED
      BY ONLY <3>1, Quotient
  <2>2. s * h = h * s
    BY <1>3
  <2> QED
    BY <2>1, <2>2
<1>6. kk = sn * m + j
  <2>1. (m * n + h) * s = m * n * s + h * s /\ m * n * s = sn * m
    BY <1>3
  <2> DEFINE a == sn * m
             c == h * s
  <2>2. a \in Nat /\ c \in Nat /\ (m * n + h) * s = a + c
    BY <1>3, <2>1
  <2> HIDE DEF a, c
  <2>3. (a + c) + i = a + (c + i)
    BY <1>2, <2>2
  <2> QED
    BY <2>2, <2>3 DEF a, c
<1>7. (i * n + h) * g + m = i * t + q
  <2>1. (i * n + h) * g = i * n * g + h * g /\ i * n * g = i * t /\ h * g = g * h
    BY <1>2, <1>3
  <2> DEFINE a == i * t
             c == g * h
  <2>2. a \in Nat /\ c \in Nat /\ (i * n + h) * g = a + c
    BY <1>2, <1>3, <2>1
  <2> HIDE DEF a, c
  <2>3. (a + c) + m = a + (c + m)
    BY <1>3, <2>2
  <2> QED
    BY <1>3, <2>2, <2>3 DEF a, c
<1> HIDE DEF t, sn, j
<1>8. (sn * m + j) \div sn = m /\ (sn * m + j) % sn = j
  <2>1. m \in Nat /\ j \in 0 .. sn - 1
    BY <1>3, <1>4
  <2> QED
    BY <1>1, <2>1, Quotient
<1>9. m * sn + j \in 0 .. sn * g - 1
  <2>1. sn \in Nat /\ g \in Nat
    BY <1>1
  <2> QED
    BY <1>3, <1>4, <2>1, InRows
<1>10. m * sn = sn * m /\ sn * g = g * sn
  BY <1>1, <1>3
<1>11. l \in 0 .. g * sn - 1
  <2>1. sn \in Nat /\ g \in Nat
    BY <1>1
  <2> QED
    BY <1>3, <1>4, <2>1, InRows
<1>12. (g * j + m) \div g = j /\ (g * j + m) % g = m
  <2>1. j \in Nat
    BY <1>4
  <2> QED
    BY <1>3, <2>1, Quotient
<1>13. g * j = j * g
  BY <1>4
<1> HIDE DEF kk
<1>14. kk \in 0 .. t * s - 1 /\ kk \div sn = m /\ kk % sn = j
  BY <1>1, <1>6, <1>8, <1>9, <1>10
<1>15. l \in 0 .. t * s - 1 /\ l \div g = j /\ l % g = m
  BY <1>1, <1>11, <1>12, <1>13
<1>16. q \in Nat
  BY <1>1, <1>2
<1> HIDE DEF l
<1> QED
  BY <1>2, <1>3, <1>5, <1>7, <1>14, <1>15, <1>16 DEF q, i, m, h, j, kk, l, t, sn

PieceShape(g, n, s, out, tmp) ==
  /\ g \in Nat \ {0} /\ n \in Nat \ {0} /\ s \in Nat \ {0}
  /\ 0 .. (g * n) * s - 1 \subseteq DOMAIN out /\ 0 .. (g * n) * s - 1 \subseteq DOMAIN tmp
\* Taken apart into pieces, each taken apart into bytes, put together
LEMMA Pieces ==
  ASSUME NEW g, NEW n, NEW s, NEW in, NEW out, NEW tmp, PieceShape(g, n, s, out, tmp)
  PROVE  trans_elem(BytesFrom(g, s * n, trans_elem(in, out, s, n, g), tmp),
                    trans_elem(in, out, s, n, g), g, n, s)
           = BytesFrom(g * n, s, in, out)
<1> DEFINE b == (g * n) * s
           sn == s * n
           pieces == trans_elem(in, out, s, n, g)
           bytes == BytesFrom(g, sn, pieces, tmp)
<1>1. s * n * g = b /\ g * (s * n) = b /\ g * n * s = b
  BY DEF PieceShape
<1>2. pieces = [k \in DOMAIN out |-> IF k \in 0 .. b - 1
                  THEN in[(((k \div g) % s) * n + (k \div g) \div s) * g + (k % g)] ELSE out[k]]
  <2> HIDE DEF b
  <2> QED
    BY <1>1, Zenon DEF trans_elem, Stored
<1>3. \A k \in 0 .. b - 1 : bytes[k] = pieces[(k % sn) * g + k \div sn]
  <2>1. \A k \in 0 .. g * sn - 1 : bytes[k] = pieces[(k % sn) * g + k \div sn]
    <3> HIDE DEF pieces
    <3>1. \A k \in 0 .. g * sn - 1 : k \in DOMAIN tmp
      BY <1>1 DEF PieceShape
    <3> HIDE DEF sn
    <3> QED
      BY <3>1 DEF BytesFrom
  <2> QED
    BY <1>1, <2>1
<1> HIDE DEF pieces, bytes
<1>4. trans_elem(bytes, pieces, g, n, s)
        = [k \in DOMAIN out |-> IF k \in 0 .. b - 1
             THEN bytes[(((k \div s) % g) * n + (k \div s) \div g) * s + (k % s)] ELSE pieces[k]]
  <2>1. DOMAIN pieces = DOMAIN out
    BY <1>2
  <2> HIDE DEF b
  <2> QED
    BY <1>1, <2>1, Zenon DEF trans_elem, Stored
<1>5. ASSUME NEW k \in 0 .. b - 1
      PROVE  bytes[(((k \div s) % g) * n + (k \div s) \div g) * s + (k % s)] = in[(k % s) * (g * n) + k \div s]
  <2>1. PieceCell(g, n, s, k)
    BY DEF PieceCell, PieceShape
  <2> DEFINE q == k \div s
             i == k % s
             m == q % g
             h == q \div g
             j == h * s + i
             kk == (m * n + h) * s + i
             l == j * g + m
  <2>2. /\ kk \in 0 .. b - 1 /\ kk \div sn = m /\ kk % sn = j
        /\ l \in 0 .. b - 1 /\ l \div g = j /\ l % g = m
        /\ j % s = i /\ j \div s = h /\ (i * n + h) * g + m = i * (g * n) + q
    BY <2>1, PieceCellIs
  <2> HIDE DEF b, q, i, m, h, j, kk, l, sn
  <2>3. bytes[kk] = pieces[l]
    BY <1>3, <2>2 DEF l
  <2>4. l \in DOMAIN out
    BY <2>2 DEF b, PieceShape
  <2>5. pieces[l] = in[(i * n + h) * g + m]
    BY <1>2, <2>2, <2>4
  <2> QED
    BY <2>2, <2>3, <2>5 DEF q, i, m, h, kk
<1>6. \A k \in DOMAIN out : k \notin 0 .. b - 1 => pieces[k] = out[k]
  BY <1>2
<1> HIDE DEF b
<1> QED
  BY <1>4, <1>5, <1>6 DEF BytesFrom, b, pieces, bytes, sn

\* However trans_byte_elem_sse2 goes about it, the bytes of the type end up
\* in rows.
LEMMA BytesSse2 ==
  ASSUME NEW t \in Nat \ {0}, NEW s \in Nat \ {0}, NEW in, NEW out, NEW tmp,
         0 .. t * s - 1 \subseteq DOMAIN out, 0 .. t * s - 1 \subseteq DOMAIN tmp
  PROVE  trans_byte_elem_sse2(in, out, s, t, tmp) = BytesFrom(t, s, in, out)
<1>1. CASE t = 1
  <2>1. trans_byte_elem_sse2(in, out, s, t, tmp) = [k \in DOMAIN out |-> IF k \in 0 .. s - 1 THEN in[k] ELSE out[k]]
    BY <1>1 DEF trans_byte_elem_sse2, Stored
  <2>2. ASSUME NEW k \in 0 .. s - 1 PROVE (k % s) * 1 + k \div s = k
    <3>1. (s * 0 + k) \div s = 0 /\ (s * 0 + k) % s = k
      BY Quotient
    <3>2. s * 0 + k = k
      OBVIOUS
    <3> QED
      BY <3>1, <3>2
  <2>3. t * s = s
    BY <1>1
  <2> QED
    BY <1>1, <2>1, <2>2, <2>3 DEF BytesFrom
<1>2. CASE t \in {2, 4, 8}
  <2>1. trans_byte_elem_sse2(in, out, s, t, tmp) = trans_byte_elem_SSE(in, out, s, t)
    BY <1>2 DEF trans_byte_elem_sse2
  <2> QED
    BY <1>2, <2>1, BytesSSE
<1>3. CASE t \notin {1, 2, 4, 8} /\ t % 4 # 0
  <2>1. trans_byte_elem_sse2(in, out, s, t, tmp) = trans_byte_elem_remainder(in, out, s, t, 0)
    BY <1>3 DEF trans_byte_elem_sse2
  <2> QED
    BY <2>1, BytesScal
<1>4. CASE t \notin {1, 2, 4, 8} /\ t % 4 = 0
  <2> DEFINE g == IF t % 8 = 0 THEN 8 ELSE 4
             n == t \div g
             pieces == trans_elem(in, out, s, n, g)
             sn == s * n
  <2>1. g \in {2, 4, 8} /\ n \in Nat \ {0} /\ t = g * n
    <3>1. CASE t % 8 = 0
      BY <3>1
    <3>2. CASE t % 8 # 0
      BY <1>4, <3>2
    <3> QED
      BY <3>1, <3>2
  <2>2. trans_byte_elem_sse2(in, out, s, t, tmp)
          = trans_elem(trans_byte_elem_SSE(pieces, tmp, sn, g), pieces, g, n, s)
    BY <1>4 DEF trans_byte_elem_sse2
  <2> HIDE DEF g, n
  <2>3. sn \in Nat \ {0}
    BY <2>1
  <2> HIDE DEF pieces, sn
  <2>4. trans_byte_elem_SSE(pieces, tmp, sn, g) = BytesFrom(g, sn, pieces, tmp)
    BY <2>1, <2>3, BytesSSE
  <2>5. trans_elem(BytesFrom(g, sn, pieces, tmp), pieces, g, n, s) = BytesFrom(g * n, s, in, out)
    <3>1. PieceShape(g, n, s, out, tmp)
      BY <2>1 DEF PieceShape
    <3>2. trans_elem(BytesFrom(g, s * n, trans_elem(in, out, s, n, g), tmp), trans_elem(in, out, s, n, g), g, n, s)
            = BytesFrom(g * n, s, in, out)
      BY <3>1, Pieces
    <3> QED
      BY <3>2 DEF pieces, sn
  <2> QED
    BY <2>1, <2>2, <2>4, <2>5
<1> QED
  BY <1>1, <1>2, <1>3, <1>4

\* bitshuffle with SSE2 and AVX2, for every type
LEMMA BitshuffleVector ==
  ASSUME NEW t, NEW e, NEW n, NEW out, NEW tmp, BufferShape(t, e, n, out), BufferShape(t, e, n, tmp),
         NEW w \in {16, 32}, NEW src
  PROVE  trans_bit_elem_vector(w, src, out, 8 * e, t, tmp) = BitshuffledFrom(t, e, src, out)
<1> DEFINE s == 8 * e
           row == t * e
           bytes == BytesFrom(t, s, src, out)
           bits == BitsFrom(row, bytes, tmp)
<1>1. /\ Eights(t, e) /\ n \in Nat /\ DOMAIN out = 0 .. n - 1 /\ DOMAIN tmp = 0 .. n - 1 /\ t * (8 * e) <= n
      /\ t \in Nat \ {0} /\ e \in Nat \ {0}
  BY DEF BufferShape, Eights
<1>2. s \in Nat \ {0} /\ row \in Nat \ {0} /\ s * t = 8 * row /\ t * s \in Nat
  BY <1>1, Sizes
<1>3. trans_byte_elem_sse2(src, out, s, t, tmp) = bytes
  <2>1. 0 .. t * s - 1 \subseteq DOMAIN out /\ 0 .. t * s - 1 \subseteq DOMAIN tmp
    <3>1. t * s <= n
      BY <1>1
    <3> DEFINE b == t * s
    <3> HIDE DEF b
    <3>2. b \in Nat /\ b <= n /\ 0 .. b - 1 \subseteq 0 .. n - 1
      BY <1>1, <1>2, <3>1 DEF b
    <3> QED
      BY <1>1, <3>2 DEF b
  <2> HIDE DEF s
  <2> QED
    BY <1>1, <1>2, <2>1, BytesSse2 DEF bytes
<1>4. trans_bit_byte_vector(w, bytes, tmp, 8 * row) = bits
  <2> HIDE DEF row, bytes
  <2> QED
    BY <1>2, BitsVector DEF bits
<1>5. trans_bit_elem_vector(w, src, out, s, t, tmp) = trans_bitrow_eight(bits, bytes, s, t)
  BY <1>2, <1>3, <1>4, Zenon DEF trans_bit_elem_vector
<1>6. trans_bitrow_eight(bits, bytes, s, t) = BitshuffledFrom(t, e, src, out)
  BY <1>1, Passes
<1> QED
  BY <1>5, <1>6

-----------------------------------------------------------------------------
(* The pass over rows of bits, on the way back *)

\* Eight rows of bits, taken apart into registers of two columns each
RowAddress(w, row, nb, col, b, c, d, z, a, f, g, h) ==
  row \in Nat /\ nb \in Nat /\ col \in Nat /\ Address(8, w, 0, b, c, d, z, a, f, g, h)
LEMMA RowNetworkIs ==
  ASSUME NEW w, NEW row, NEW nb, NEW col, NEW in, NEW b, NEW c, NEW d, NEW z, NEW a, NEW f, NEW g, NEW h,
         RowAddress(w, row, nb, col, b, c, d, z, a, f, g, h)
  PROVE  /\ Registers(RowNetwork(in, nb, w, row, col), 8, w)
         /\ Entry(RowNetwork(in, nb, w, row, col), Number(0, 0, b, c, d), Number(z, a, f, g, h))
              = in[(row + Number(0, 0, f, g, h)) * nb + (col + Number(z, b, c, d, a))]
<1> DEFINE x == [k \in 0 .. 7 |-> Load(in, (row + k) * nb + col, w)]
           r == Number(0, 0, f, g, h)
           i == Number(z, b, c, d, a)
<1> row \in Nat /\ nb \in Nat /\ col \in Nat /\ Address(8, w, 0, b, c, d, z, a, f, g, h)
  BY DEF RowAddress
<1>1. x = [k \in 0 .. 7 |-> [p \in 0 .. w - 1 |-> in[((row + k) * nb + col) + p]]]
  BY DEF Load, Register
<1>2. RowNetwork(in, nb, w, row, col) = Separate(Separate(Separate(x, 1, 8), 2, 4), 4, 2)
  BY DEF RowNetwork
<1> HIDE DEF x
<1>3. Registers(x, 8, w)
  BY <1>1 DEF Registers, IsRegister
<1>4. /\ Registers(RowNetwork(in, nb, w, row, col), 8, w)
      /\ Entry(RowNetwork(in, nb, w, row, col), Number(0, 0, b, c, d), Number(z, a, f, g, h)) = Entry(x, r, i)
  BY <1>2, <1>3, RowsSeparated
<1>5. r \in 0 .. 7 /\ i \in 0 .. w - 1 /\ i \in Nat
  <2>1. /\ w \in {16, 32} /\ z \in 0 .. w \div 16 - 1 /\ a \in 0 .. 1 /\ b \in 0 .. 1 /\ c \in 0 .. 1
        /\ d \in 0 .. 1 /\ f \in 0 .. 1 /\ g \in 0 .. 1 /\ h \in 0 .. 1
    BY DEF Address, Bit, Lanes, Widths
  <2> QED
    BY <2>1 DEF Number
<1> HIDE DEF r, i
<1>6. x[r] = [p \in 0 .. w - 1 |-> in[((row + r) * nb + col) + p]]
  BY <1>1, <1>5
<1>7. x[r][i] = in[((row + r) * nb + col) + i]
  BY <1>5, <1>6
<1>8. ((row + r) * nb + col) + i = (row + r) * nb + (col + i)
  <2> DEFINE v == (row + r) * nb
  <2>1. v \in Nat
    BY <1>5
  <2> HIDE DEF v
  <2>2. (v + col) + i = v + (col + i)
    BY <1>5, <2>1
  <2> QED
    BY <2>2 DEF v
<1> QED
  BY <1>4, <1>7, <1>8 DEF Entry, r, i

\* sse2: element i of register m
PairPlace(row, nb, col, m, i) == row \in Nat /\ nb \in Nat /\ col \in Nat /\ m \in 0 .. 7 /\ i \in 0 .. 15
LEMMA PairIs ==
  ASSUME NEW row, NEW nb, NEW col, NEW m, NEW i, PairPlace(row, nb, col, m, i), NEW in
  PROVE  Entry(RowNetwork(in, nb, 16, row, col), m, i)
           = in[(row + (i % 8)) * nb + (col + 2 * m + i \div 8)]
<1> row \in Nat /\ nb \in Nat /\ col \in Nat /\ m \in 0 .. 7 /\ i \in 0 .. 15
  BY DEF PairPlace
<1>1. PICK b, c, d \in Bit : m = Number(0, 0, b, c, d)
  BY BitsOf
<1>2. PICK a, f, g, h \in Bit : i = Number(0, a, f, g, h)
  BY BitsOf
<1>3. RowAddress(16, row, nb, col, b, c, d, 0, a, f, g, h)
  BY DEF RowAddress, Address, Below, Number, Bit, Lanes, Widths
<1>4. i % 8 = Number(0, 0, f, g, h) /\ 2 * m + i \div 8 = Number(0, b, c, d, a)
  BY <1>1, <1>2 DEF Number, Bit
<1>5. Entry(RowNetwork(in, nb, 16, row, col), Number(0, 0, b, c, d), Number(0, a, f, g, h))
        = in[(row + Number(0, 0, f, g, h)) * nb + (col + Number(0, b, c, d, a))]
  BY <1>3, RowNetworkIs
<1>6. col + 2 * m + i \div 8 = col + (2 * m + i \div 8)
  OBVIOUS
<1> QED
  BY <1>1, <1>2, <1>4, <1>5, <1>6

\* avx2: element u of 32 rows, in column 16 * v + 2 * m + c
AcrossPlace(nb, i4, t, m, c, v, u) ==
  nb \in Nat /\ i4 \in Nat /\ t \in Nat /\ m \in 0 .. 7 /\ c \in 0 .. 1 /\ v \in 0 .. 1 /\ u \in 0 .. 31
AcrossRows(in, nb, i4, t, m) == [hh \in 0 .. 3 |-> RowNetwork(in, nb, 32, 8 * (4 * i4 + hh), 32 * t)[m]]
LEMMA AcrossIs ==
  ASSUME NEW nb, NEW i4, NEW t, NEW m, NEW c, NEW v, NEW u, AcrossPlace(nb, i4, t, m, c, v, u), NEW in
  PROVE  LET y == Separate(AcrossRows(in, nb, i4, t, m), 8, 4)
         IN Item(Halves(y[2 * c], y[2 * c + 1], v, v), u)
              = in[(32 * i4 + u) * nb + (32 * t + 16 * v + 2 * m + c)]
<1> /\ nb \in Nat /\ i4 \in Nat /\ t \in Nat /\ m \in 0 .. 7 /\ c \in Bit /\ v \in Bit
    /\ u \in 0 .. 31
  BY DEF AcrossPlace, Bit
<1> DEFINE Net(j) == RowNetwork(in, nb, 32, 8 * (4 * i4 + j), 32 * t)
           x == AcrossRows(in, nb, i4, t, m)
           y == Separate(x, 8, 4)
<1>1. PICK m1, m2, m3 \in Bit : m = Number(0, 0, m1, m2, m3)
  BY BitsOf
<1>2. PICK d, e, f, g, h \in Bit : u = Number(d, e, f, g, h)
  BY BitsOf
<1>3. ASSUME NEW j \in 0 .. 3, NEW z \in Bit, NEW a \in Bit
      PROVE  /\ Registers(Net(j), 8, 32)
             /\ Entry(Net(j), m, Number(z, a, f, g, h))
                  = in[(8 * (4 * i4 + j) + Number(0, 0, f, g, h)) * nb + (32 * t + Number(z, m1, m2, m3, a))]
  <2> DEFINE row == 8 * (4 * i4 + j)
             col == 32 * t
  <2>1. row \in Nat /\ col \in Nat
    OBVIOUS
  <2> HIDE DEF row, col
  <2>2. RowAddress(32, row, nb, col, m1, m2, m3, z, a, f, g, h)
    BY <2>1 DEF RowAddress, Address, Below, Number, Bit, Lanes, Widths
  <2>3. /\ Registers(RowNetwork(in, nb, 32, row, col), 8, 32)
        /\ Entry(RowNetwork(in, nb, 32, row, col), Number(0, 0, m1, m2, m3), Number(z, a, f, g, h))
             = in[(row + Number(0, 0, f, g, h)) * nb + (col + Number(z, m1, m2, m3, a))]
    BY <2>2, RowNetworkIs
  <2> QED
    BY <1>1, <2>3 DEF row, col
<1>4. x = [j \in 0 .. 3 |-> Net(j)[m]]
  BY DEF AcrossRows
<1>5. Registers(x, 4, 32)
  <2>1. \A j \in 0 .. 3 : Registers(Net(j), 8, 32)
    <3>1. 0 \in Bit
      BY DEF Bit
    <3> QED
      BY <1>3, <3>1
  <2> HIDE DEF x, Net
  <2>2. \A j \in 0 .. 3 : IsRegister(Net(j)[m], 32)
    BY <2>1 DEF Registers
  <2> QED
    BY <1>4, <2>2 DEF Registers
<1> DEFINE l == Number(0, 0, 0, d, e)
           n == Number(v, c, f, g, h)
<1>6. ASSUME NEW dd \in Bit
      PROVE  /\ IsRegister(y[2 * c + dd], 32)
             /\ Item(y[2 * c + dd], Number(v, e, f, g, h)) = Entry(x, Number(0, 0, 0, dd, e), n)
  <2>1. Address(4, 32, 0, 0, c, dd, v, e, f, g, h) /\ Group(4, 4) /\ Group(2, 4)
    BY DEF Address, Below, Number, Bit, Lanes, Widths, Group
  <2> HIDE DEF x
  <2>2. Entry(y, Number(0, 0, 0, c, dd), Number(v, e, f, g, h)) = Entry(x, Number(0, 0, 0, dd, e), n)
    BY <1>5, <2>1, Separate4
  <2>3. Registers(y, 4, 32)
    <3>1. 32 \in Widths
      BY DEF Widths
    <3> QED
      BY <1>5, <2>1, <3>1, SeparateRegisters
  <2>4. Number(0, 0, 0, c, dd) = 2 * c + dd /\ 2 * c + dd \in 0 .. 3
    BY DEF Number, Bit
  <2> HIDE DEF y, n
  <2> QED
    BY <2>2, <2>3, <2>4 DEF Registers, Entry, Item
<1>7. l \in 0 .. 3 /\ n = Number(v, c, f, g, h)
  BY DEF Number, Bit
<1>8. Entry(x, l, n) = in[(8 * (4 * i4 + l) + Number(0, 0, f, g, h)) * nb + (32 * t + Number(v, m1, m2, m3, c))]
  <2> HIDE DEF l, Net, x
  <2>1. Entry(x, l, n) = Entry(Net(l), m, n)
    BY <1>4, <1>7 DEF Entry
  <2> QED
    BY <1>3, <1>7, <2>1
<1>9. 8 * (4 * i4 + l) + Number(0, 0, f, g, h) = 32 * i4 + u
  BY <1>2 DEF Number, Bit
<1>10. 32 * t + Number(v, m1, m2, m3, c) = 32 * t + 16 * v + 2 * m + c
  BY <1>1 DEF Number, Bit
<1>11. Item(Halves(y[2 * c], y[2 * c + 1], v, v), u) = Entry(x, l, n)
  <2>1. IsRegister(y[2 * c], 32) /\ IsRegister(y[2 * c + 1], 32)
        /\ Item(y[2 * c], Number(v, e, f, g, h)) = Entry(x, Number(0, 0, 0, 0, e), n)
        /\ Item(y[2 * c + 1], Number(v, e, f, g, h)) = Entry(x, Number(0, 0, 0, 1, e), n)
    <3>1. 0 \in Bit /\ 1 \in Bit /\ 2 * c + 0 = 2 * c
      BY DEF Bit
    <3> HIDE DEF x, y, n
    <3> QED
      BY <1>6, <3>1
  <2> DEFINE y0 == y[2 * c]
             y1 == y[2 * c + 1]
  <2> HIDE DEF y0, y1
  <2>2. Item(Halves(y0, y1, v, v), Number(d, e, f, g, h))
          = IF d = 0 THEN Item(y0, Number(v, e, f, g, h)) ELSE Item(y1, Number(v, e, f, g, h))
    <3>1. IsRegister(y0, 32)
      BY <2>1 DEF y0
    <3> QED
      BY <3>1, HalvesAre
  <2>3. d = 0 \/ d = 1
    BY DEF Bit
  <2> HIDE DEF x, n
  <2> QED
    BY <1>2, <2>1, <2>2, <2>3 DEF y0, y1
<1> HIDE DEF l, n
<1> QED
  BY <1>8, <1>9, <1>10, <1>11

-----------------------------------------------------------------------------
(* bitunshuffle with SSE2 and AVX2 *)

\* Row r and column c of the byte k of a transposed bit matrix
RowColumn(t, e, k, r, c) == Eights(t, e) /\ k \in 0 .. t * (8 * e) - 1 /\ r = k % (8 * t) /\ c = k \div (8 * t)
LEMMA RowColumnIs ==
  ASSUME NEW t, NEW e, NEW k, NEW r, NEW c, RowColumn(t, e, k, r, c)
  PROVE  r \in 0 .. 8 * t - 1 /\ c \in 0 .. e - 1
<1> Eights(t, e) /\ k \in 0 .. t * (8 * e) - 1 /\ r = k % (8 * t) /\ c = k \div (8 * t) /\ t \in Nat \ {0} /\ e \in Nat \ {0}
  BY DEF RowColumn, Eights
<1> DEFINE t8 == 8 * t
<1>1. t8 \in Nat \ {0} /\ e * t8 = t * (8 * e)
  BY Sizes
<1> HIDE DEF t8
<1>2. k \div t8 \in 0 .. e - 1 /\ k % t8 \in 0 .. t8 - 1
  <2>1. k \in 0 .. e * t8 - 1
    BY <1>1
  <2> QED
    BY <1>1, <2>1, Cell
<1> QED
  BY <1>2 DEF t8

\* trans_byte_bitrow_sse2 with tiles and, after them, single bytes
LEMMA RowsSse2 ==
  ASSUME NEW t, NEW e, Eights(t, e), NEW in, NEW out
  PROVE  trans_byte_bitrow_sse2(in, out, 8 * e, t) = RowsFrom(t, e, in, out)
<1> DEFINE b == t * (8 * e)
           q == e \div 16
           tiles == [i \in 0 .. t - 1 |-> [j \in 0 .. q - 1 |-> RowNetwork(in, e, 16, 8 * i, 16 * j)]]
           Tiled(r, c) == tiles[r \div 8][c \div 16][(c % 16) \div 2][8 * (c % 2) + (r % 8)]
<1>1. (8 * e) \div 8 = e /\ (8 * e) * t = b /\ t \in Nat \ {0} /\ e \in Nat \ {0}
  BY Sizes DEF Eights
<1>2. trans_byte_bitrow_sse2(in, out, 8 * e, t)
        = [k \in DOMAIN out |-> IF k \in 0 .. b - 1
             THEN IF k \div (8 * t) < e - (e % 16) THEN Tiled(k % (8 * t), k \div (8 * t))
                  ELSE in[(k % (8 * t)) * e + k \div (8 * t)]
             ELSE out[k]]
  <2> DEFINE s == 8 * e
             long == [i \in 0 .. t - 1 |-> [j \in 0 .. (s \div 8) \div 16 - 1 |-> RowNetwork(in, s \div 8, 16, 8 * i, 16 * j)]]
             Long(r, c) == long[r \div 8][c \div 16][(c % 16) \div 2][8 * (c % 2) + (r % 8)]
  <2>1. long = tiles
    BY <1>1
  <2>2. trans_byte_bitrow_sse2(in, out, s, t)
          = [k \in DOMAIN out |-> IF k \in 0 .. s * t - 1
               THEN IF k \div (8 * t) < (s \div 8) - ((s \div 8) % 16) THEN Long(k % (8 * t), k \div (8 * t))
                    ELSE in[(k % (8 * t)) * (s \div 8) + k \div (8 * t)]
               ELSE out[k]]
    <3> HIDE DEF s
    <3> QED
      BY Zenon DEF trans_byte_bitrow_sse2, Stored, RoundedDown
  <2> HIDE DEF long, tiles
  <2>3. s \div 8 = e /\ s * t = b
    BY <1>1
  <2> HIDE DEF s, b
  <2>4. trans_byte_bitrow_sse2(in, out, s, t)
          = [k \in DOMAIN out |-> IF k \in 0 .. b - 1
               THEN IF k \div (8 * t) < e - (e % 16) THEN Tiled(k % (8 * t), k \div (8 * t))
                    ELSE in[(k % (8 * t)) * e + k \div (8 * t)]
               ELSE out[k]]
    BY <2>1, <2>2, <2>3
  <2> QED
    BY <2>4 DEF s, b
<1>3. ASSUME NEW k \in 0 .. b - 1, k \div (8 * t) < e - (e % 16)
      PROVE  Tiled(k % (8 * t), k \div (8 * t)) = in[(k % (8 * t)) * e + k \div (8 * t)]
  <2> DEFINE r == k % (8 * t)
             c == k \div (8 * t)
             i == r \div 8
             j == c \div 16
             m == (c % 16) \div 2
             p == 8 * (c % 2) + (r % 8)
  <2>1. RowColumn(t, e, k, r, c)
    BY DEF RowColumn
  <2>2. r \in 0 .. 8 * t - 1 /\ c \in 0 .. e - 1
    <3> HIDE DEF r, c
    <3> QED
      BY <2>1, RowColumnIs
  <2>3. c < e - (e % 16)
    BY <1>3
  <2> HIDE DEF r, c
  <2>4. i \in 0 .. t - 1 /\ j \in 0 .. q - 1 /\ m \in 0 .. 7 /\ p \in 0 .. 15 /\ i \in Nat /\ j \in Nat
    BY <1>1, <2>2, <2>3
  <2>5. 8 * i + (p % 8) = r /\ 16 * j + 2 * m + p \div 8 = c
    BY <2>2
  <2> HIDE DEF i, j, m, p
  <2> DEFINE row == 8 * i
             col == 16 * j
  <2>6. tiles[i][j] = RowNetwork(in, e, 16, row, col)
    BY <2>4
  <2> HIDE DEF tiles
  <2>7. Entry(RowNetwork(in, e, 16, row, col), m, p) = in[(row + (p % 8)) * e + (col + 2 * m + p \div 8)]
    <3>1. PairPlace(row, e, col, m, p)
      BY <1>1, <2>4 DEF PairPlace
    <3> HIDE DEF row, col
    <3> QED
      BY <3>1, PairIs
  <2>8. tiles[i][j][m][p] = in[r * e + c]
    BY <2>5, <2>6, <2>7 DEF Entry
  <2> QED
    BY <2>8 DEF i, j, m, p, r, c
<1> HIDE DEF Tiled, b
<1> QED
  BY <1>2, <1>3 DEF RowsFrom, b

\* trans_byte_bitrow_avx2, four tiles at a time
LEMMA RowsAvx2 ==
  ASSUME NEW t, NEW e, Eights(t, e), NEW in, NEW out
  PROVE  trans_byte_bitrow_avx2(in, out, 8 * e, t) = RowsFrom(t, e, in, out)
<1> DEFINE b == t * (8 * e)
           q == e \div 32
           storage == [i \in 0 .. t - 1 |-> [j \in 0 .. q - 1 |-> RowNetwork(in, e, 32, 8 * i, 32 * j)]]
           tiles == [i \in 0 .. t \div 4 - 1 |-> [j \in 0 .. q - 1 |-> [m \in 0 .. 7 |->
                       Separate([hh \in 0 .. 3 |-> storage[4 * i + hh][j][m]], 8, 4)]]]
           Across(r, c) == tiles[r \div 32][c \div 32][(c % 16) \div 2]
           Tiled(r, c) == Halves(Across(r, c)[2 * (c % 2)], Across(r, c)[2 * (c % 2) + 1], (c % 32) \div 16, (c % 32) \div 16)[r % 32]
<1>1. (8 * e) \div 8 = e /\ (8 * e) * t = b /\ t \in Nat \ {0} /\ e \in Nat \ {0}
  BY Sizes DEF Eights
<1>a. CASE t % 4 # 0
  BY <1>a, RowsSse2 DEF trans_byte_bitrow_avx2
<1>b. CASE ~(t % 4 # 0)
  <2>a. trans_byte_bitrow_avx2(in, out, 8 * e, t)
          = [k \in DOMAIN out |-> IF k \in 0 .. b - 1
               THEN IF k \div (8 * t) < e - (e % 32) THEN Tiled(k % (8 * t), k \div (8 * t))
                    ELSE in[(k % (8 * t)) * e + k \div (8 * t)]
               ELSE out[k]]
    <3> DEFINE s == 8 * e
               store == [i \in 0 .. t - 1 |-> [j \in 0 .. (s \div 8) \div 32 - 1 |-> RowNetwork(in, s \div 8, 32, 8 * i, 32 * j)]]
               long == [i \in 0 .. t \div 4 - 1 |-> [j \in 0 .. (s \div 8) \div 32 - 1 |-> [m \in 0 .. 7 |->
                         Separate([hh \in 0 .. 3 |-> store[4 * i + hh][j][m]], 8, 4)]]]
               LongTile(r, c) == long[r \div 32][c \div 32][(c % 16) \div 2]
               Long(r, c) == Halves(LongTile(r, c)[2 * (c % 2)], LongTile(r, c)[2 * (c % 2) + 1], (c % 32) \div 16, (c % 32) \div 16)[r % 32]
    <3>1. store = storage
      BY <1>1
    <3> HIDE DEF store, storage
    <3>2. long = tiles
      BY <1>1, <3>1
    <3>3. trans_byte_bitrow_avx2(in, out, s, t)
            = [k \in DOMAIN out |-> IF k \in 0 .. s * t - 1
                 THEN IF k \div (8 * t) < (s \div 8) - ((s \div 8) % 32) THEN Long(k % (8 * t), k \div (8 * t))
                      ELSE in[(k % (8 * t)) * (s \div 8) + k \div (8 * t)]
                 ELSE out[k]]
      <4> HIDE DEF s
      <4> QED
        BY <1>b, Zenon DEF trans_byte_bitrow_avx2, Stored, RoundedDown, store
    <3> HIDE DEF long, tiles
    <3>4. s \div 8 = e /\ s * t = b
      BY <1>1
    <3> HIDE DEF s, b
    <3>5. trans_byte_bitrow_avx2(in, out, s, t)
            = [k \in DOMAIN out |-> IF k \in 0 .. b - 1
                 THEN IF k \div (8 * t) < e - (e % 32) THEN Tiled(k % (8 * t), k \div (8 * t))
                      ELSE in[(k % (8 * t)) * e + k \div (8 * t)]
                 ELSE out[k]]
      BY <3>2, <3>3, <3>4
    <3> QED
      BY <3>5 DEF s, b
  <2>b. ASSUME NEW k \in 0 .. b - 1, k \div (8 * t) < e - (e % 32)
        PROVE  Tiled(k % (8 * t), k \div (8 * t)) = in[(k % (8 * t)) * e + k \div (8 * t)]
    <3> DEFINE r == k % (8 * t)
               c == k \div (8 * t)
               i4 == r \div 32
               j == c \div 32
               m == (c % 16) \div 2
               cc == c % 2
               v == (c % 32) \div 16
               u == r % 32
    <3>1. RowColumn(t, e, k, r, c)
      BY DEF RowColumn
    <3>2. r \in 0 .. 8 * t - 1 /\ c \in 0 .. e - 1
      <4> HIDE DEF r, c
      <4> QED
        BY <3>1, RowColumnIs
    <3>3. c < e - (e % 32)
      BY <2>b
    <3> HIDE DEF r, c
    <3>4. /\ j \in 0 .. q - 1 /\ m \in 0 .. 7 /\ cc \in 0 .. 1 /\ v \in 0 .. 1 /\ u \in 0 .. 31
          /\ j \in Nat /\ 32 * j + 16 * v + 2 * m + cc = c
      BY <1>1, <3>2, <3>3
    <3>5. i4 \in 0 .. t \div 4 - 1 /\ i4 \in Nat /\ 32 * i4 + u = r /\ \A hh \in 0 .. 3 : 4 * i4 + hh \in 0 .. t - 1
      BY <1>1, <1>b, <3>2
    <3> HIDE DEF i4, j, m, cc, v, u, q
    <3>6. tiles[i4][j][m] = Separate([hh \in 0 .. 3 |-> storage[4 * i4 + hh][j][m]], 8, 4)
      <4> HIDE DEF storage
      <4> QED
        BY <3>4, <3>5
    <3>7. [hh \in 0 .. 3 |-> storage[4 * i4 + hh][j][m]] = AcrossRows(in, e, i4, j, m)
      <4>1. \A hh \in 0 .. 3 : storage[4 * i4 + hh][j] = RowNetwork(in, e, 32, 8 * (4 * i4 + hh), 32 * j)
        BY <3>4, <3>5
      <4> HIDE DEF storage
      <4> QED
        BY <4>1 DEF AcrossRows
    <3> DEFINE y == Separate(AcrossRows(in, e, i4, j, m), 8, 4)
    <3> HIDE DEF tiles, storage
    <3>8. tiles[i4][j][m] = y
      BY <3>6, <3>7
    <3>9. Item(Halves(y[2 * cc], y[2 * cc + 1], v, v), u) = in[(32 * i4 + u) * e + (32 * j + 16 * v + 2 * m + cc)]
      <4>1. AcrossPlace(e, i4, j, m, cc, v, u)
        BY <1>1, <3>4, <3>5 DEF AcrossPlace
      <4> QED
        BY <4>1, AcrossIs
    <3>10. Tiled(r, c) = Halves(y[2 * cc], y[2 * cc + 1], v, v)[u]
      <4>1. Tiled(r, c) = Halves(tiles[i4][j][m][2 * cc], tiles[i4][j][m][2 * cc + 1], v, v)[u]
        BY DEF i4, j, m, cc, v, u
      <4> HIDE DEF Tiled, y
      <4> QED
        BY <3>8, <4>1
    <3> HIDE DEF Tiled, y
    <3> QED
      BY <3>4, <3>5, <3>9, <3>10 DEF Item, r, c
  <2> HIDE DEF Tiled, b
  <2> QED
    BY <2>a, <2>b DEF RowsFrom, b
<1> QED
  BY <1>a, <1>b

\* bitunshuffle with SSE2 and AVX2, and in plain C
LEMMA UntransVector ==
  ASSUME NEW t, NEW e, Eights(t, e), NEW in, NEW out, NEW tmp, NEW w \in {16, 32}
  PROVE  untrans_bit_elem_vector(w, in, out, 8 * e, t, tmp) = EightsFrom(t, e, RowsFrom(t, e, in, tmp), out)
<1>1. trans_byte_bitrow_sse2(in, tmp, 8 * e, t) = RowsFrom(t, e, in, tmp)
      /\ trans_byte_bitrow_avx2(in, tmp, 8 * e, t) = RowsFrom(t, e, in, tmp)
  BY RowsSse2, RowsAvx2
<1> DEFINE rows == RowsFrom(t, e, in, tmp)
           s == 8 * e
<1>2. shuffle_bit_eightelem_vector(w, rows, out, s, t) = EightsFrom(t, e, rows, out)
  <2> HIDE DEF rows
  <2> QED
    BY EightsVector
<1> HIDE DEF s
<1>3. untrans_bit_elem_vector(w, in, out, s, t, tmp) = shuffle_bit_eightelem_vector(w, rows, out, s, t)
  BY <1>1 DEF untrans_bit_elem_vector, s
<1> QED
  BY <1>2, <1>3 DEF s

LEMMA UntransScal ==
  ASSUME NEW t, NEW e, Eights(t, e), NEW in, NEW out, NEW tmp
  PROVE  untrans_bit_elem_scal(in, out, 8 * e, t, tmp) = EightsFrom(t, e, RowsFrom(t, e, in, tmp), out)
BY RowsScal, EightsScal DEF untrans_bit_elem_scal

-----------------------------------------------------------------------------
(* The state: the block's shape, and what the data is in each phase *)

Setting ==
  /\ block \in [typesize : Nat \ {0}, size : Nat \ {0}, tail : Nat] /\ block.tail < block.typesize
  /\ filter \in Filters /\ (filter = "trunc_prec" => block.typesize \in {4, 8})

\* pipeline_c: the same from every implementation
Filtered ==
  /\ filter = "shuffle" => data = ShuffledBlock(block.typesize, block.size, block.tail, Src)
  /\ filter = "bitshuffle" =>
       data = IF InEights(block.size) THEN BitshuffledFrom(block.typesize, block.size \div 8, Src, Stale) ELSE Src
  /\ filter = "delta" => data = delta_encoder(Dref, offset, blocksize, block.typesize, Src, Stale)
  /\ filter = "trunc_prec" => data = truncate_precision(prec_bits, block.typesize, blocksize, Src, Stale)

\* The bytes that a filter writes on the way there and back
Written ==
  CASE filter = "shuffle" -> Positions
    [] filter = "bitshuffle" -> IF InEights(block.size) THEN Whole ELSE Positions
    [] filter = "delta" -> DeltaBytes(block.typesize, blocksize)
    [] filter = "trunc_prec" -> Whole

Truncated(k) ==
  [p \in 0 .. 7 |-> IF 8 * (k % block.typesize) + p < Mantissa(block.typesize) - prec_bits
                    THEN {} ELSE Src[k][p]]

Undone ==
  \A k \in Positions :
    data[k] = IF k \notin Written THEN StaleByte
              ELSE IF filter = "trunc_prec" THEN Truncated(k) ELSE Src[k]

ByteInv ==
  /\ Setting
  /\ phase \in {"new", "filtered", "undone"}
  /\ phase = "new" => data = Src
  /\ phase = "filtered" => Filtered
  /\ phase = "undone" => Undone


-----------------------------------------------------------------------------
(* The block as the lemmas above speak of one *)

LEMMA BlockIs ==
  ASSUME Setting
  PROVE  /\ Dimensions(block.typesize, block.size, block.tail)
         /\ blocksize = block.typesize * block.size + block.tail /\ blocksize \in Nat
         /\ block.size \in Nat \ {0}
         /\ Positions = 0 .. blocksize - 1 /\ Whole = 0 .. block.typesize * block.size - 1
         /\ Whole \subseteq Positions
         /\ IsBuffer(Src, blocksize) /\ DOMAIN Stale = 0 .. blocksize - 1 /\ (offset = 0 => Dref = Src)
<1>1. block.typesize \in Nat \ {0} /\ block.size \in Nat \ {0} /\ block.tail \in Nat
      /\ block.tail < block.typesize
  BY DEF Setting
<1> DEFINE t == block.typesize
           s == block.size
           r == block.tail
           b == t * s
<1> HIDE DEF t, s, r
<1>2. t \in Nat \ {0} /\ s \in Nat \ {0} /\ r \in 0 .. t - 1
  BY <1>1 DEF t, s, r
<1>3. b \in Nat
  BY <1>2
<1> HIDE DEF b
<1>4. blocksize = b + r /\ Positions = 0 .. blocksize - 1 /\ Whole = 0 .. b - 1
  BY DEF blocksize, Positions, Whole, b, t, s, r
<1>5. Whole \subseteq Positions /\ blocksize \in Nat
  BY <1>2, <1>3, <1>4
<1>6. IsBuffer(Src, blocksize)
  <2>1. DOMAIN Src = Positions
    BY DEF Src
  <2>2. ASSUME NEW k \in Positions PROVE IsByte(Src[k])
    <3>1. Src[k] = [p \in 0 .. 7 |-> {8 * k + p}]
      BY DEF Src
    <3> QED
      BY <3>1 DEF IsByte
  <2> QED
    BY <1>4, <2>1, <2>2 DEF IsBuffer
<1>7. DOMAIN Stale = 0 .. blocksize - 1 /\ (offset = 0 => Dref = Src)
  BY <1>4 DEF Stale, Dref
<1>8. Dimensions(t, s, r)
  BY <1>2 DEF Dimensions
<1> QED
  BY <1>2, <1>4, <1>5, <1>6, <1>7, <1>8 DEF b, t, s, r

\* shuffle and unshuffle, whichever implementation the host has
LEMMA ShuffleAlike ==
  ASSUME Setting, NEW impl \in Implementations, NEW src, NEW dest, DOMAIN dest = 0 .. blocksize - 1
  PROVE  /\ shuffle(impl, src, dest) = ShuffledBlock(block.typesize, block.size, block.tail, src)
         /\ unshuffle(impl, src, dest) = UnshuffledBlock(block.typesize, block.size, block.tail, src)
<1> DEFINE t == block.typesize
           s == block.size
           r == block.tail
           n == blocksize
           w == VectorWidth(impl)
<1>1. Dimensions(t, s, r) /\ n = t * s + r /\ DOMAIN dest = 0 .. n - 1
  BY BlockIs
<1>2. /\ shuffle(impl, src, dest) = CASE impl = "generic" -> shuffle_generic_inline(t, 0, n, src, dest)
                                      [] impl = "neon" -> shuffle_neon(t, n, src, dest)
                                      [] OTHER -> shuffle_vector(w, t, n, src, dest)
      /\ unshuffle(impl, src, dest) = CASE impl = "generic" -> unshuffle_generic_inline(t, 0, n, src, dest)
                                        [] impl = "neon" -> unshuffle_neon(t, n, src, dest)
                                        [] OTHER -> unshuffle_vector(w, t, n, src, dest)
  BY DEF shuffle, unshuffle
<1>3. w \in {16, 32}
  BY DEF VectorWidth
<1> HIDE DEF t, s, r, n, w
<1>4. /\ shuffle_generic_inline(t, 0, n, src, dest) = ShuffledBlock(t, s, r, src)
      /\ unshuffle_generic_inline(t, 0, n, src, dest) = UnshuffledBlock(t, s, r, src)
  BY <1>1, GenericFromZero
<1>5. /\ shuffle_neon(t, n, src, dest) = ShuffledBlock(t, s, r, src)
      /\ unshuffle_neon(t, n, src, dest) = UnshuffledBlock(t, s, r, src)
  BY <1>1, ShuffleNeonIs
<1>6. /\ shuffle_vector(w, t, n, src, dest) = ShuffledBlock(t, s, r, src)
      /\ unshuffle_vector(w, t, n, src, dest) = UnshuffledBlock(t, s, r, src)
  BY <1>1, <1>3, ShuffleVectorIs
<1>7. impl = "generic" \/ impl = "neon" \/ (impl # "generic" /\ impl # "neon")
  OBVIOUS
<1> QED
  BY <1>2, <1>4, <1>5, <1>6, <1>7 DEF t, s, r

\* A block of elements in eights, for the lemmas on bitshuffle
LEMMA EightsIs ==
  ASSUME Setting, InEights(block.size)
  PROVE  /\ Eights(block.typesize, block.size \div 8) /\ block.size = 8 * (block.size \div 8)
         /\ BufferShape(block.typesize, block.size \div 8, blocksize, Stale)
<1> DEFINE t == block.typesize
           s == block.size
           r == block.tail
           e == s \div 8
           b == t * s
<1>1. Dimensions(t, s, r) /\ blocksize = b + r /\ s \in Nat \ {0} /\ DOMAIN Stale = 0 .. blocksize - 1
  BY BlockIs
<1>2. s % 8 = 0
  BY DEF InEights
<1> HIDE DEF s, t, r
<1>3. e \in Nat \ {0} /\ s = 8 * e
  BY <1>1, <1>2
<1>4. t \in Nat \ {0} /\ b \in Nat /\ r \in Nat
  BY <1>1 DEF Dimensions
<1> HIDE DEF e
<1>5. Eights(t, e) /\ t * (8 * e) = b
  BY <1>3, <1>4 DEF Eights
<1> HIDE DEF b
<1>6. blocksize \in Nat /\ b <= blocksize
  BY <1>1, <1>4
<1>7. BufferShape(t, e, blocksize, Stale)
  BY <1>1, <1>5, <1>6 DEF BufferShape
<1> QED
  BY <1>3, <1>5, <1>7 DEF e, s, t

\* bitshuffle and bitunshuffle of elements in eights
LEMMA BitshuffleAlike ==
  ASSUME Setting, InEights(block.size), NEW impl \in Implementations, NEW in
  PROVE  LET t == block.typesize
             e == block.size \div 8
         IN /\ bitshuffle(impl, Src, Stale, Stale) = BitshuffledFrom(t, e, Src, Stale)
            /\ bitunshuffle(impl, in, Stale, Stale) = EightsFrom(t, e, RowsFrom(t, e, in, Stale), Stale)
<1> DEFINE t == block.typesize
           s == block.size
           e == s \div 8
           n == blocksize
           w == VectorWidth(impl)
<1>1. Eights(t, e) /\ s = 8 * e /\ BufferShape(t, e, n, Stale)
  BY EightsIs
<1>2. /\ bitshuffle(impl, Src, Stale, Stale)
           = IF impl \in {"generic", "neon"} THEN trans_bit_elem_scal(Src, Stale, s, t, Stale)
             ELSE trans_bit_elem_vector(w, Src, Stale, s, t, Stale)
      /\ bitunshuffle(impl, in, Stale, Stale)
           = IF impl \in {"generic", "neon"} THEN untrans_bit_elem_scal(in, Stale, s, t, Stale)
             ELSE untrans_bit_elem_vector(w, in, Stale, s, t, Stale)
  BY DEF bitshuffle, bitunshuffle
<1>3. w \in {16, 32}
  BY DEF VectorWidth
<1> HIDE DEF t, e, n, w
<1>4. s = 8 * e
  BY <1>1
<1> HIDE DEF s
<1>5. trans_bit_elem_scal(Src, Stale, 8 * e, t, Stale) = BitshuffledFrom(t, e, Src, Stale)
  BY <1>1, BitshuffleScal
<1>6. trans_bit_elem_vector(w, Src, Stale, 8 * e, t, Stale) = BitshuffledFrom(t, e, Src, Stale)
  BY <1>1, <1>3, BitshuffleVector
<1>7. untrans_bit_elem_scal(in, Stale, 8 * e, t, Stale) = EightsFrom(t, e, RowsFrom(t, e, in, Stale), Stale)
  BY <1>1, UntransScal
<1>8. untrans_bit_elem_vector(w, in, Stale, 8 * e, t, Stale) = EightsFrom(t, e, RowsFrom(t, e, in, Stale), Stale)
  BY <1>1, <1>3, UntransVector
<1> QED
  BY <1>2, <1>4, <1>5, <1>6, <1>7, <1>8 DEF t, e, s

\* trunc_prec, which nothing undoes
LEMMA TruncatedIs ==
  ASSUME Setting, filter = "trunc_prec",
         data = truncate_precision(prec_bits, block.typesize, blocksize, Src, Stale)
  PROVE  Undone
<1> DEFINE t == block.typesize
           s == block.size
           r == block.tail
           n == blocksize
<1>1. /\ Dimensions(t, s, r) /\ n = t * s + r /\ Positions = 0 .. n - 1 /\ Whole = 0 .. t * s - 1
      /\ DOMAIN Stale = Positions
  BY BlockIs
<1>2. Elements(t, n) * t = t * s
  <2> HIDE DEF t, s, r, n
  <2>1. t \in Nat \ {0} /\ s \in Nat /\ r \in 0 .. t - 1
    BY <1>1 DEF Dimensions
  <2>2. (t * s + r) \div t = s /\ s * t = t * s
    BY <2>1, Shape
  <2> QED
    BY <1>1, <2>2 DEF Elements
<1>3. data = [k \in Positions |-> IF k \in Whole THEN Truncated(k) ELSE Stale[k]]
  <2>1. data = [k \in DOMAIN Stale |-> IF k \in 0 .. Elements(t, n) * t - 1 THEN Truncated(k) ELSE Stale[k]]
    BY Zenon DEF truncate_precision, Stored, Truncated
  <2> HIDE DEF t, s, n
  <2> QED
    BY <1>1, <1>2, <2>1
<1>4. Written = Whole
  BY DEF Written
<1>5. \A k \in Positions : Stale[k] = StaleByte
  BY DEF Stale
<1> QED
  BY <1>3, <1>4, <1>5 DEF Undone

-----------------------------------------------------------------------------
(* Steps *)

\* The invariant holds at first, and every step keeps it.
LEMMA InitInv == ASSUME BlocksAssumption, Init PROVE ByteInv
BY DEF BlocksAssumption, Init, ByteInv, Setting

LEMMA CompressInv == ASSUME ByteInv, Compress PROVE ByteInv'
<1>1. Setting /\ phase' = "filtered" /\ block' = block /\ filter' = filter /\ prec_bits' = prec_bits /\ offset' = offset
  BY DEF ByteInv, Compress
<1>2. PICK impl \in Implementations : data' = Apply(impl)
  BY DEF Compress
<1>3. Positions' = Positions /\ blocksize' = blocksize /\ Src' = Src /\ Stale' = Stale /\ Dref' = Dref
  <2>1. blocksize' = blocksize
    BY <1>1 DEF blocksize
  <2>2. Positions' = Positions
    BY <2>1 DEF Positions
  <2> QED
    BY <1>1, <2>1, <2>2 DEF Src, Stale, Dref
<1>4. filter = "shuffle" => data' = ShuffledBlock(block.typesize, block.size, block.tail, Src)
  <2> SUFFICES ASSUME filter = "shuffle" PROVE data' = ShuffledBlock(block.typesize, block.size, block.tail, Src)
    OBVIOUS
  <2>1. data' = shuffle(impl, Src, Stale)
    BY <1>2 DEF Apply
  <2>2. DOMAIN Stale = 0 .. blocksize - 1
    BY <1>1, BlockIs
  <2>3. shuffle(impl, Src, Stale) = ShuffledBlock(block.typesize, block.size, block.tail, Src)
    BY <1>1, <2>2, ShuffleAlike
  <2> QED
    BY <2>1, <2>3
<1>5. filter = "bitshuffle" =>
        data' = IF InEights(block.size) THEN BitshuffledFrom(block.typesize, block.size \div 8, Src, Stale) ELSE Src
  <2> SUFFICES ASSUME filter = "bitshuffle"
               PROVE data' = IF InEights(block.size) THEN BitshuffledFrom(block.typesize, block.size \div 8, Src, Stale) ELSE Src
    OBVIOUS
  <2>1. data' = bitshuffle(impl, Src, Stale, Stale)
    BY <1>2 DEF Apply
  <2>2. CASE InEights(block.size)
    <3>1. bitshuffle(impl, Src, Stale, Stale) = BitshuffledFrom(block.typesize, block.size \div 8, Src, Stale)
      BY <1>1, <2>2, BitshuffleAlike
    <3> QED
      BY <2>1, <2>2, <3>1
  <2>3. CASE ~InEights(block.size)
    BY <2>1, <2>3 DEF bitshuffle
  <2> QED
    BY <2>2, <2>3
<1>6. filter = "delta" => data' = delta_encoder(Dref, offset, blocksize, block.typesize, Src, Stale)
  BY <1>2 DEF Apply
<1>7. filter = "trunc_prec" => data' = truncate_precision(prec_bits, block.typesize, blocksize, Src, Stale)
  BY <1>2 DEF Apply
<1>8. Filtered'
  BY <1>1, <1>3, <1>4, <1>5, <1>6, <1>7 DEF Filtered
<1>9. Setting'
  BY <1>1 DEF Setting
<1> QED
  BY <1>1, <1>8, <1>9 DEF ByteInv

\* The last bytes of the block, which are no element, when the loops of
\* bitshuffle leave them
LEMMA BackFromBits ==
  ASSUME Setting, InEights(block.size)
  PROVE  LET t == block.typesize
             e == block.size \div 8
             back == EightsFrom(t, e, RowsFrom(t, e, BitshuffledFrom(t, e, Src, Stale), Stale), Stale)
         IN \A k \in Positions : back[k] = IF k \in Whole THEN Src[k] ELSE StaleByte
<1> DEFINE t == block.typesize
           s == block.size
           e == s \div 8
           n == blocksize
           back == EightsFrom(t, e, RowsFrom(t, e, BitshuffledFrom(t, e, Src, Stale), Stale), Stale)
<1>1. Eights(t, e) /\ s = 8 * e /\ BufferShape(t, e, n, Stale)
  BY EightsIs
<1>2. n \in Nat /\ t * (8 * e) <= n /\ DOMAIN Stale = 0 .. n - 1
  BY <1>1 DEF BufferShape
<1>3. IsBuffer(Src, n) /\ Positions = 0 .. n - 1 /\ Whole = 0 .. t * s - 1
  BY BlockIs
<1>4. Whole = 0 .. t * (8 * e) - 1
  BY <1>1, <1>3
<1>5. \A k \in Positions : Stale[k] = StaleByte
  BY DEF Stale
<1> HIDE DEF t, e, n
<1>6. \A k \in 0 .. n - 1 : back[k] = IF k \in 0 .. t * (8 * e) - 1 THEN Src[k] ELSE Stale[k]
  BY <1>1, <1>2, <1>3, EightsBack
<1> HIDE DEF back
<1>7. \A k \in Positions : back[k] = IF k \in Whole THEN Src[k] ELSE StaleByte
  BY <1>3, <1>4, <1>5, <1>6
<1> QED
  BY <1>7 DEF back, t, e, s

LEMMA DecompressInv == ASSUME ByteInv, Decompress PROVE ByteInv'
<1>1. /\ Setting /\ Filtered /\ phase' = "undone" /\ block' = block /\ filter' = filter
      /\ prec_bits' = prec_bits /\ offset' = offset
  BY DEF ByteInv, Decompress
<1>2. PICK impl \in Implementations : data' = Undo(impl)
  BY DEF Decompress
<1>3. Positions' = Positions /\ blocksize' = blocksize /\ Src' = Src /\ Written' = Written
      /\ (\A k : Truncated(k)' = Truncated(k)) /\ StaleByte' = StaleByte
  <2>1. blocksize' = blocksize /\ Whole' = Whole
    BY <1>1 DEF blocksize, Whole
  <2>2. Positions' = Positions
    BY <2>1 DEF Positions
  <2>3. Src' = Src /\ StaleByte' = StaleByte
    BY <2>2 DEF Src, StaleByte
  <2>4. Written' = Written
    BY <1>1, <2>1, <2>2 DEF Written
  <2>5. \A k : Truncated(k)' = Truncated(k)
    BY <1>1, <2>3 DEF Truncated
  <2> QED
    BY <2>1, <2>2, <2>3, <2>4, <2>5
<1> DEFINE t == block.typesize
           s == block.size
           r == block.tail
           n == blocksize
           Back(buf) == \A k \in Positions : buf[k] = IF k \in Written THEN Src[k] ELSE StaleByte
<1>4. /\ Dimensions(t, s, r) /\ n = t * s + r /\ Positions = 0 .. n - 1 /\ IsBuffer(Src, n)
      /\ DOMAIN Stale = 0 .. n - 1 /\ (offset = 0 => Dref = Src)
  BY <1>1, BlockIs
<1>5. \A k \in Positions : Stale[k] = StaleByte
  BY DEF Stale
<1>6. filter = "shuffle" => Back(data')
  <2> SUFFICES ASSUME filter = "shuffle" PROVE Back(data')
    OBVIOUS
  <2>1. data' = unshuffle(impl, data, Stale) /\ data = ShuffledBlock(t, s, r, Src) /\ Written = Positions
    BY <1>1, <1>2 DEF Undo, Filtered, Written
  <2>2. unshuffle(impl, data, Stale) = UnshuffledBlock(t, s, r, data)
    BY <1>1, <1>4, ShuffleAlike
  <2> HIDE DEF t, s, r, n
  <2>3. DOMAIN Src = 0 .. n - 1 /\ n = t * s + r /\ Dimensions(t, s, r)
    BY <1>4 DEF IsBuffer
  <2>a. n - 1 = t * s + r - 1
    <3> DEFINE b == t * s
    <3>1. b \in Nat /\ r \in Nat
      BY <2>3 DEF Dimensions
    <3> HIDE DEF b
    <3>2. n = b + r
      BY <2>3 DEF b
    <3>3. n - 1 = b + r - 1
      BY <3>1, <3>2
    <3> QED
      BY <3>3 DEF b
  <2>4. DOMAIN Src = 0 .. t * s + r - 1
    BY <2>3, <2>a, Zenon
  <2>5. UnshuffledBlock(t, s, r, ShuffledBlock(t, s, r, Src)) = [k \in 0 .. t * s + r - 1 |-> Src[k]]
    BY <2>3, <2>4, UnshuffledIs
  <2>6. 0 .. t * s + r - 1 = Positions
    BY <1>4, <2>a, Zenon
  <2>7. unshuffle(impl, data, Stale) = UnshuffledBlock(t, s, r, ShuffledBlock(t, s, r, Src))
    BY <2>1, <2>2 DEF t, s, r
  <2>8. data' = [k \in Positions |-> Src[k]]
    BY <2>1, <2>5, <2>6, <2>7
  <2> QED
    BY <2>1, <2>8
<1>7. filter = "bitshuffle" => Back(data')
  <2> SUFFICES ASSUME filter = "bitshuffle" PROVE Back(data')
    OBVIOUS
  <2>1. data' = bitunshuffle(impl, data, Stale, Stale)
    BY <1>2 DEF Undo
  <2>2. CASE InEights(block.size)
    <3> DEFINE e == s \div 8
               back == EightsFrom(t, e, RowsFrom(t, e, BitshuffledFrom(t, e, Src, Stale), Stale), Stale)
    <3>1. data = BitshuffledFrom(t, e, Src, Stale)
      BY <1>1, <2>2 DEF Filtered
    <3>2. bitunshuffle(impl, data, Stale, Stale) = EightsFrom(t, e, RowsFrom(t, e, data, Stale), Stale)
      BY <1>1, <2>2, BitshuffleAlike
    <3>3. \A k \in Positions : back[k] = IF k \in Whole THEN Src[k] ELSE StaleByte
      BY <1>1, <2>2, BackFromBits
    <3>4. Written = Whole
      BY <2>2 DEF Written
    <3>5. data' = back
      BY <2>1, <3>1, <3>2
    <3> HIDE DEF back
    <3> QED
      BY <3>3, <3>4, <3>5
  <2>3. CASE ~InEights(block.size)
    BY <1>1, <2>1, <2>3 DEF bitunshuffle, Filtered, Written
  <2> QED
    BY <2>2, <2>3
<1>8. filter = "delta" => Back(data')
  <2> SUFFICES ASSUME filter = "delta" PROVE Back(data')
    OBVIOUS
  <2> DEFINE enc == delta_encoder(Dref, offset, n, t, Src, Stale)
             dec == delta_decoder(Dref, offset, n, t, enc)
  <2>1. data' = dec /\ Written = DeltaBytes(t, n)
    BY <1>1, <1>2 DEF Undo, Filtered, Written
  <2>2. DeltaSetting(t, s, r, n, offset, Dref, Src, Stale)
    <3> HIDE DEF t, s, r, n
    <3> QED
      BY <1>4 DEF DeltaSetting
  <2> HIDE DEF t, s, r, n
  <2>3. \A k \in 0 .. n - 1 : dec[k] = IF k \in DeltaBytes(t, n) THEN Src[k] ELSE Stale[k]
    BY <2>2, DeltaRestores
  <2> HIDE DEF dec
  <2> QED
    BY <1>4, <1>5, <2>1, <2>3
<1>9. filter = "trunc_prec" => \A k \in Positions : data'[k] = IF k \notin Written THEN StaleByte ELSE Truncated(k)
  <2> SUFFICES ASSUME filter = "trunc_prec"
               PROVE \A k \in Positions : data'[k] = IF k \notin Written THEN StaleByte ELSE Truncated(k)
    OBVIOUS
  <2>1. data' = data /\ data = truncate_precision(prec_bits, block.typesize, blocksize, Src, Stale)
    BY <1>1, <1>2 DEF Undo, Filtered
  <2>2. Undone
    BY <1>1, <2>1, TruncatedIs
  <2> QED
    BY <2>1, <2>2 DEF Undone
<1>10. filter \in Filters
  BY <1>1 DEF Setting
<1>11. \A k \in Positions : data'[k] = IF k \notin Written THEN StaleByte
                                       ELSE IF filter = "trunc_prec" THEN Truncated(k) ELSE Src[k]
  <2>1. CASE filter = "trunc_prec"
    BY <1>9, <2>1
  <2>2. CASE filter # "trunc_prec"
    <3>1. Back(data')
      BY <1>6, <1>7, <1>8, <1>10, <2>2 DEF Filters
    <3> QED
      BY <2>2, <3>1
  <2> QED
    BY <2>1, <2>2
<1>12. Undone'
  BY <1>1, <1>3, <1>11 DEF Undone
<1>13. Setting'
  BY <1>1 DEF Setting
<1> QED
  BY <1>1, <1>12, <1>13 DEF ByteInv

LEMMA StutterInv == ASSUME ByteInv, UNCHANGED vars PROVE ByteInv'
<1>1. /\ block' = block /\ filter' = filter /\ prec_bits' = prec_bits /\ offset' = offset
      /\ phase' = phase /\ data' = data
  BY DEF vars
<1>2. blocksize' = blocksize /\ Whole' = Whole
  BY <1>1 DEF blocksize, Whole
<1>3. Positions' = Positions
  BY <1>2 DEF Positions
<1>4. Src' = Src /\ Stale' = Stale /\ Dref' = Dref /\ StaleByte' = StaleByte
  BY <1>1, <1>2, <1>3 DEF Src, Stale, StaleByte, Dref
<1>5. Written' = Written
  BY <1>1, <1>2, <1>3 DEF Written
<1>6. \A k : Truncated(k)' = Truncated(k)
  BY <1>1, <1>4 DEF Truncated
<1>7. Filtered => Filtered'
  BY <1>1, <1>2, <1>4 DEF Filtered
<1>8. Undone => Undone'
  BY <1>1, <1>3, <1>4, <1>5, <1>6 DEF Undone
<1>9. Setting => Setting'
  BY <1>1 DEF Setting
<1>10. phase = "new" => (data = Src => data' = Src')
  BY <1>1, <1>4
<1> QED
  BY <1>1, <1>7, <1>8, <1>9, <1>10 DEF ByteInv

\* In every phase the data is what the lemmas say of the filter, whichever
\* implementation ran it (shuffle.c:340-346): the inductive invariant.
THEOREM Invariant == Spec => []ByteInv
<1>1. Init => ByteInv
  BY BlocksAssumption, InitInv
<1>2. ByteInv /\ [Next]_vars => ByteInv'
  BY CompressInv, DecompressInv, StutterInv DEF Next
<1> QED
  BY <1>1, <1>2, PTL DEF Spec

-----------------------------------------------------------------------------
(* The properties *)

\* Bit p of byte k, through the elements: 8 * c + p in the row q of t bits
BitPlace(t, e, k, p) == BitCell(t, e, k) /\ p \in 0 .. 7
LEMMA BitPlaceIs ==
  ASSUME NEW t, NEW e, NEW k, NEW p, BitPlace(t, e, k, p)
  PROVE  LET s == 8 * e
             q == k \div e
             c == k % e
             j == (8 * c + p) * t + q \div 8
         IN /\ j \in 0 .. t * s - 1 /\ q % 8 \in 0 .. 7
            /\ 8 * j + (q % 8) = ((8 * k + p) % s) * 8 * t + (8 * k + p) \div s
<1> DEFINE s == 8 * e
           q == k \div e
           c == k % e
           v == q \div 8
           u == q % 8
           a == 8 * c + p
           j == a * t + v
<1>1. BitCell(t, e, k) /\ Eights(t, e) /\ t \in Nat \ {0} /\ e \in Nat \ {0} /\ p \in 0 .. 7
      /\ k \in 0 .. t * (8 * e) - 1
  BY DEF BitPlace, BitCell, Eights
<1>2. q \in Nat /\ u \in 0 .. 7 /\ v \in 0 .. t - 1 /\ c \in 0 .. e - 1
  BY <1>1, BitCellIs
<1>3. k = e * q + c
  <2>1. k \in Nat
    BY <1>1
  <2> QED
    BY <1>1, <2>1, Division
<1> HIDE DEF q, c
<1>4. q = 8 * v + u /\ v \in Nat
  BY <1>2
<1> HIDE DEF v, u
<1>5. s \in Nat \ {0} /\ a \in 0 .. s - 1
  BY <1>1, <1>2
<1>6. 8 * k + p = s * q + a
  <2> DEFINE eq == e * q
  <2>1. eq \in Nat /\ (8 * e) * q = 8 * eq
    BY <1>1, <1>2
  <2> HIDE DEF eq
  <2>2. 8 * (eq + c) + p = 8 * eq + (8 * c + p)
    BY <1>1, <1>2, <2>1
  <2> QED
    BY <1>3, <2>1, <2>2 DEF eq
<1> HIDE DEF s, a
<1>7. (s * q + a) \div s = q /\ (s * q + a) % s = a
  BY <1>2, <1>5, Quotient
<1>8. j \in 0 .. t * s - 1
  BY <1>1, <1>2, <1>5, InRows
<1>9. 8 * j + u = a * 8 * t + q
  <2> DEFINE at == a * t
  <2>1. at \in Nat /\ a * 8 * t = 8 * at
    BY <1>1, <1>5
  <2> HIDE DEF at
  <2>2. 8 * (at + v) + u = 8 * at + (8 * v + u)
    BY <1>2, <1>4, <2>1
  <2> QED
    BY <1>4, <2>1, <2>2 DEF at
<1> QED
  BY <1>2, <1>6, <1>7, <1>8, <1>9 DEF s, q, c, v, u, a

\* The invariant says what each property asks.
LEMMA FormatOf == ASSUME ByteInv PROVE SameFormat
<1> SUFFICES ASSUME phase = "filtered"
             PROVE  /\ filter = "shuffle" => \A k \in Whole : data[k] = Src[Shuffled(k)]
                    /\ filter = "bitshuffle" /\ block.size % 8 = 0 =>
                         \A k \in Whole, p \in 0 .. 7 : data[k][p] = {Bitshuffled(k, p)}
  BY DEF SameFormat
<1> DEFINE t == block.typesize
           s == block.size
           r == block.tail
           e == s \div 8
           n == blocksize
           b == t * s
<1>1. Setting /\ Filtered
  BY DEF ByteInv
<1>2. /\ Dimensions(t, s, r) /\ n = t * s + r /\ n \in Nat /\ s \in Nat \ {0} /\ Positions = 0 .. n - 1
      /\ Whole = 0 .. t * s - 1 /\ Whole \subseteq Positions /\ DOMAIN Stale = 0 .. n - 1
  BY <1>1, BlockIs
<1>3. ASSUME filter = "shuffle", NEW k \in Whole PROVE data[k] = Src[Shuffled(k)]
  <2>1. data = ShuffledBlock(t, s, r, Src)
    BY <1>1, <1>3 DEF Filtered
  <2> HIDE DEF n
  <2>2. t \in Nat \ {0} /\ s \in Nat /\ r \in Nat
    BY <1>2 DEF Dimensions
  <2> HIDE DEF t, s, r
  <2>3. b \in Nat
    BY <2>2
  <2> HIDE DEF b
  <2>4. k \in 0 .. b + r - 1 /\ k < b
    BY <1>2, <1>3, <2>2, <2>3 DEF b
  <2>5. data = [x \in 0 .. b + r - 1 |-> IF x < b THEN Src[(x % s) * t + x \div s] ELSE Src[x]]
    BY <2>1 DEF ShuffledBlock, b
  <2>6. data[k] = Src[(k % s) * t + k \div s]
    BY <2>4, <2>5
  <2> QED
    BY <2>6 DEF Shuffled, s, t
<1>4. ASSUME filter = "bitshuffle", block.size % 8 = 0, NEW k \in Whole, NEW p \in 0 .. 7
      PROVE  data[k][p] = {Bitshuffled(k, p)}
  <2>0. InEights(block.size)
    BY <1>4 DEF InEights
  <2>1. data = BitshuffledFrom(t, e, Src, Stale)
    BY <1>1, <1>4, <2>0 DEF Filtered
  <2>2. Eights(t, e) /\ s = 8 * e
    BY <1>1, <2>0, EightsIs
  <2> DEFINE q == k \div e
             j == (8 * (k % e) + p) * t + q \div 8
             u == q % 8
  <2>3. BitPlace(t, e, k, p)
    BY <1>2, <1>4, <2>2 DEF BitPlace, BitCell
  <2>4. Bitshuffled(k, p) = ((8 * k + p) % s) * 8 * t + (8 * k + p) \div s
    BY DEF Bitshuffled
  <2> HIDE DEF t, e, n, s
  <2>5. /\ j \in 0 .. t * (8 * e) - 1 /\ u \in 0 .. 7
        /\ 8 * j + u = ((8 * k + p) % (8 * e)) * 8 * t + (8 * k + p) \div (8 * e)
    BY <2>3, BitPlaceIs
  <2>6. k \in DOMAIN Stale /\ k \in 0 .. t * (8 * e) - 1
    BY <1>2, <1>4, <2>2
  <2>7. data[k] = [pp \in 0 .. 7 |-> Src[(8 * (k % e) + pp) * t + q \div 8][u]]
    BY <2>1, <2>6 DEF BitshuffledFrom
  <2>8. data[k][p] = Src[j][u]
    BY <1>4, <2>7
  <2>9. j \in Positions
    BY <1>2, <2>2, <2>5
  <2> HIDE DEF j, u
  <2>10. Src[j][u] = {8 * j + u}
    BY <2>5, <2>9 DEF Src
  <2> QED
    BY <2>2, <2>4, <2>5, <2>8, <2>10
<1> QED
  BY <1>3, <1>4

\* Every whole element is written, and nothing but them where the tail is
\* not copied.
LEMMA WrittenIs ==
  ASSUME Setting
  PROVE  /\ Whole \subseteq Written /\ Written \subseteq Positions
         /\ filter = "shuffle" \/ (filter = "bitshuffle" /\ block.size % 8 # 0) => Written = Positions
         /\ ~(filter = "shuffle" \/ (filter = "bitshuffle" /\ block.size % 8 # 0))
              /\ (filter = "delta" => block.typesize \in {4, 8}) => Written = Whole
<1> DEFINE t == block.typesize
           s == block.size
           r == block.tail
           n == blocksize
           b == t * s
           d == DeltaEnd(t, n)
<1>1. /\ Dimensions(t, s, r) /\ n = t * s + r /\ n \in Nat
      /\ Positions = 0 .. n - 1 /\ Whole = 0 .. b - 1 /\ Whole \subseteq Positions
  BY BlockIs
<1>2. /\ d \in Nat /\ b \in Nat /\ b <= d /\ d <= n /\ (t \in {4, 8} => d = b)
      /\ DeltaBytes(t, n) = 0 .. d - 1
  <2> HIDE DEF t, s, r, n
  <2> QED
    BY <1>1, DeltaWords
<1>3. CASE filter = "delta"
  <2>1. Written = DeltaBytes(t, n)
    BY <1>3 DEF Written
  <2> HIDE DEF d, b, n
  <2>2. Whole \subseteq 0 .. d - 1 /\ 0 .. d - 1 \subseteq Positions
    BY <1>1, <1>2
  <2> QED
    BY <1>1, <1>2, <1>3, <2>1, <2>2
<1>4. CASE filter = "shuffle" \/ filter = "trunc_prec"
  BY <1>1, <1>4 DEF Written
<1>5. CASE filter = "bitshuffle"
  BY <1>1, <1>5 DEF Written, InEights
<1> QED
  BY <1>3, <1>4, <1>5 DEF Setting, Filters

LEMMA RestoredOf == ASSUME ByteInv PROVE Restored
<1> SUFFICES ASSUME phase = "undone", NEW k \in Whole, NEW p \in 0 .. 7
             PROVE  \/ data[k][p] = Src[k][p]
                    \/ /\ filter = "trunc_prec" /\ data[k][p] = {}
                       /\ 8 * (k % block.typesize) + p < Mantissa(block.typesize) - prec_bits
  BY DEF Restored
<1>1. Setting /\ Undone
  BY DEF ByteInv
<1>2. k \in Written /\ k \in Positions
  BY <1>1, WrittenIs
<1>3. CASE filter # "trunc_prec"
  BY <1>1, <1>2, <1>3 DEF Undone
<1>4. CASE filter = "trunc_prec"
  <2>1. data[k] = Truncated(k)
    BY <1>1, <1>2, <1>4 DEF Undone
  <2> QED
    BY <1>4, <2>1 DEF Truncated
<1> QED
  BY <1>3, <1>4

LEMMA TailOf == ASSUME ByteInv PROVE TailAsModelled
<1> SUFFICES ASSUME phase = "undone", filter = "delta" => block.typesize \in {4, 8}, NEW k \in Positions \ Whole
             PROVE  data[k] = IF filter = "shuffle" \/ (filter = "bitshuffle" /\ block.size % 8 # 0)
                              THEN Src[k] ELSE StaleByte
  BY DEF TailAsModelled
<1>1. Setting /\ Undone
  BY DEF ByteInv
<1>2. CASE filter = "shuffle" \/ (filter = "bitshuffle" /\ block.size % 8 # 0)
  <2>1. Written = Positions /\ filter # "trunc_prec"
    BY <1>1, <1>2, WrittenIs
  <2> QED
    BY <1>1, <1>2, <2>1 DEF Undone
<1>3. CASE ~(filter = "shuffle" \/ (filter = "bitshuffle" /\ block.size % 8 # 0))
  <2>1. Written = Whole
    BY <1>1, <1>3, WrittenIs
  <2> QED
    BY <1>1, <1>3, <2>1 DEF Undone
<1> QED
  BY <1>2, <1>3

\* Every implementation writes the same chunk: byte k of a shuffled block and
\* every bit of a bitshuffled one, for every size of the type, every number
\* of elements and every number of bytes after them (shuffle.c:281-316).
THEOREM EveryFormatTheSame == Spec => []SameFormat
BY Invariant, FormatOf, PTL

\* Whatever filtered a block and whatever undoes it, every bit of every whole
\* element comes back, but those that trunc_prec zeroes
\* (trunc-prec.c:19-45).
THEOREM EveryElementRestored == Spec => []Restored
BY Invariant, RestoredOf, PTL

\* The bytes after the last whole element come back where FilterPipeline says
\* so, and are never written where it says they are not (delta.c:32-90,
\* trunc-prec.c:60).
THEOREM EveryTailAsModelled == Spec => []TailAsModelled
BY Invariant, TailOf, PTL
=============================================================================
