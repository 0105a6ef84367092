---------------------------- MODULE BloscLZProofs ----------------------------
(***************************************************************************)
(* BloscLZ for every input, every answer of the hash table and every size  *)
(* of the format: blosclz_compress stays inside of the room it was given,  *)
(* and blosclz_decompress gives the input back.                            *)
(*                                                                         *)
(* The second rests on what is written so far being a list of tokens for   *)
(* the input read so far.  Such a list is a set of places, pairs of bytes  *)
(* of both, with a token from each to another of them but from the last:   *)
(* no induction over the tokens is needed, only that one more can be added *)
(* and that the next one can be read.                                      *)
(***************************************************************************)
EXTENDS BloscLZ, WellFoundedInduction, TLAPS

-----------------------------------------------------------------------------
(* Numbers *)

\* A set of numbers that is not empty has a least one.
LEMMA LeastNumber ==
  ASSUME NEW S, S \subseteq Nat, S # {}
  PROVE  Min(S) \in S /\ \A n \in S : Min(S) <= n
<1> DEFINE R == {p \in Nat \X Nat : p[1] < p[2]}
<1>1. IsWellFoundedOn(R, Nat)
  BY NatLessThanWellFounded DEF OpToRel
<1>2. \E m \in S : \A n \in S : ~(<<n, m>> \in R)
  <2> HIDE DEF R
  <2> QED
    BY <1>1, WFMin
<1>3. \A m, n \in Nat : ~(<<n, m>> \in R) => m <= n
  OBVIOUS
<1> HIDE DEF R
<1>4. \E m \in S : \A n \in S : m <= n
  BY <1>2, <1>3
<1>5. Min(S) = CHOOSE m \in S : \A n \in S : m <= n
  BY DEF Min
<1> QED
  BY <1>4, <1>5

LEMMA Division ==
  ASSUME NEW a \in Nat, NEW n \in Nat \ {0}
  PROVE  /\ a \div n \in Nat
         /\ a % n \in 0 .. n - 1
         /\ a = n * (a \div n) + (a % n)
<1>1. n \in Nat /\ n > 0
  OBVIOUS
<1>2. a \div n \in Nat
  BY <1>1, SMT
<1>3. a % n \in 0 .. n - 1
  BY <1>1, SMT
<1>4. a = n * (a \div n) + (a % n)
  BY <1>1, SMT
<1> QED
  BY <1>2, <1>3, <1>4, Zenon

LEMMA QuotientGrows ==
  ASSUME NEW a \in Nat, NEW b \in Nat, NEW n \in Nat \ {0}, a <= b
  PROVE  a \div n <= b \div n
<1>1. /\ a \div n \in Nat /\ b \div n \in Nat
      /\ a = n * (a \div n) + (a % n) /\ a % n \in 0 .. n - 1
      /\ b = n * (b \div n) + (b % n) /\ b % n \in 0 .. n - 1
  BY Division
<1> DEFINE q == a \div n
           r == b \div n
<1>2. SUFFICES ASSUME r < q PROVE FALSE
  BY <1>1
<1> HIDE DEF q, r
<1>3. q \in Nat /\ r \in Nat /\ n * q <= b /\ b < n * r + n
  BY <1>1 DEF q, r
<1>4. PICK k \in Nat : q = r + 1 + k
  <2>1. q - r - 1 \in Nat /\ q = r + 1 + (q - r - 1)
    BY <1>2, <1>3
  <2> QED
    BY <2>1
<1>5. n * q = n * r + n + n * k /\ n * k \in Nat /\ n * r \in Nat
  BY <1>3, <1>4
<1> QED
  BY <1>3, <1>5

LEMMA FormatSizes ==
  /\ Lens \in Nat /\ Highs \in Nat /\ Bytes \in Nat /\ Bytes >= 2
  /\ MAX_COPY \in Nat /\ MAX_COPY > 2
BY Sizes DEF MAX_COPY

LEMMA WordSizes ==
  /\ WordSize \in Nat /\ WordSize >= 2 /\ TailSize \in Nat /\ TailSize >= WordSize + 4
  /\ MinRoom \in Nat /\ MinRoom >= 3 /\ IP_BOUNDARY = 2
BY Sizes DEF IP_BOUNDARY

-----------------------------------------------------------------------------
(* How far a match goes *)
LEMMA MatchEndIs ==
  ASSUME length \in Nat, NEW p0 \in Nat, NEW n \in {3, 5}, p0 < ip_limit, NEW d
  PROVE  MatchEnd(d, p0 + n) \in p0 + 3 .. length
<1> DEFINE from == p0 + n
           ends == WordEnds(d, from)
           p == Min(ends)
<1>1. /\ WordSize \in Nat /\ WordSize >= 2 /\ TailSize \in Nat /\ TailSize >= WordSize + 4
      /\ ip_bound = length - 2 /\ ip_limit = length - TailSize
  BY WordSizes DEF ip_bound, ip_limit
<1>2. from \in Nat /\ from >= p0 + 3 /\ from <= length - WordSize
  BY <1>1
<1>3. \A q \in Nat : NearEnd(q) <=> q >= length - WordSize
  BY <1>1, WordSizes DEF NearEnd
<1> HIDE DEF from
\* Word by word, the comparison gets near the end
<1>4. ends # {}
  <2> DEFINE words == (length - from) \div WordSize
             left == (length - from) % WordSize
             q == from + words * WordSize
  <2>1. /\ words \in Nat /\ left \in 0 .. WordSize - 1
        /\ length - from = WordSize * words + left
    <3>1. length - from \in Nat /\ WordSize \in Nat \ {0}
      BY <1>1, <1>2
    <3> QED
      BY <3>1, Division
  <2> HIDE DEF words, left
  <2>2. WordSize * words = words * WordSize /\ words * WordSize \in Nat
    BY <1>1, <2>1
  <2>3. q \in from .. length /\ q - from = words * WordSize /\ q >= length - WordSize
    BY <1>1, <1>2, <2>1, <2>2
  <2>4. (words * WordSize) % WordSize = 0
    <3>1. WordSize > 0
      BY <1>1
    <3> QED
      BY <1>1, <2>1, <3>1, SMT
  <2>5. q \in Nat /\ NearEnd(q)
    BY <1>2, <1>3, <2>1, <2>2, <2>3
  <2> HIDE DEF q
  <2>6. q \in ends
    BY <2>3, <2>4, <2>5 DEF WordEnds
  <2> QED
    BY <2>6
<1>5. ends \subseteq Nat /\ ends \subseteq from .. length
  BY <1>2 DEF WordEnds
<1>6. p \in from .. length
  <2>1. p \in ends
    BY <1>4, <1>5, LeastNumber
  <2> QED
    BY <1>5, <2>1
<1>7. MatchEnd(d, from) = IF NearEnd(p) THEN IF p < ip_bound THEN p ELSE ip_bound ELSE ByteEnd(d, p)
  BY DEF MatchEnd
<1> HIDE DEF p, ends
<1>8. CASE NearEnd(p)
  <2>1. ip_bound \in p0 + 3 .. length
    BY <1>1, <1>2
  <2>2. p \in p0 + 3 .. length
    BY <1>2, <1>6
  <2> QED
    BY <1>7, <1>8, <2>1, <2>2 DEF from
<1>9. CASE ~NearEnd(p)
  <2>1. p \in Nat /\ p < length - WordSize
    BY <1>1, <1>2, <1>3, <1>6, <1>9
  <2>2. ByteEnd(d, p) \in p .. ip_bound + 1
    <3>1. CASE Stops(d, p) = {}
      BY <1>1, <2>1, <3>1 DEF ByteEnd
    <3>2. CASE Stops(d, p) # {}
      <4>1. Stops(d, p) \subseteq Nat /\ Stops(d, p) \subseteq p .. ip_bound - 1
        BY <2>1 DEF Stops
      <4>2. Min(Stops(d, p)) \in p .. ip_bound - 1
        BY <3>2, <4>1, LeastNumber
      <4>3. ByteEnd(d, p) = Min(Stops(d, p)) + (IF d = 1 THEN 0 ELSE 1)
        BY <3>2 DEF ByteEnd
      <4>4. ip_bound \in Int
        BY <1>1
      <4> QED
        BY <2>1, <4>2, <4>3, <4>4
    <3> QED
      BY <3>1, <3>2
  <2> QED
    BY <1>1, <1>2, <1>6, <1>7, <1>9, <2>1, <2>2 DEF from
<1> QED
  BY <1>8, <1>9

-----------------------------------------------------------------------------
(* What a token takes *)
LEMMA BytesAreNumbers ==
  /\ \A v \in Nat : Byte(v) \in Nat
  /\ \A len, high \in Nat : Control(len, high) \in Nat
<1>1. ASSUME NEW v \in Nat PROVE Byte(v) \in Nat
  <2>1. Bytes \in Nat \ {0}
    BY FormatSizes
  <2> QED
    BY <2>1, Division DEF Byte
<1>2. ASSUME NEW len \in Nat, NEW high \in Nat PROVE Control(len, high) \in Nat
  <2> DEFINE m == (Lens + 1) * (Highs + 1)
             v == len * (Highs + 1) + high
  <2>1. m \in Nat \ {0} /\ v \in Nat
    BY FormatSizes
  <2> HIDE DEF m, v
  <2>2. v % m \in 0 .. m - 1
    BY <2>1, Division
  <2> QED
    BY <2>1, <2>2 DEF Control, m, v
<1> QED
  BY <1>1, <1>2

LEMMA Joined ==
  ASSUME NEW s \in Seq(Nat), NEW t \in Seq(Nat)
  PROVE  s \o t \in Seq(Nat) /\ Len(s \o t) = Len(s) + Len(t)
OBVIOUS

LEMMA LengthBytesAre ==
  ASSUME NEW len \in Nat
  PROVE  /\ LengthBytes(len) \in Seq(Nat)
         /\ Len(LengthBytes(len)) <= len \div (Bytes - 1) + 1
         /\ len \div (Bytes - 1) \in Nat
<1>1. Lens \in Nat /\ Bytes - 1 \in Nat \ {0}
  BY FormatSizes
<1>2. len \div (Bytes - 1) \in Nat
  BY <1>1, Division
<1>3. CASE len < Lens
  <2>1. LengthBytes(len) = <<>>
    BY <1>3 DEF LengthBytes
  <2> QED
    BY <1>2, <2>1
<1>4. CASE ~(len < Lens)
  <2> DEFINE k == (len - Lens) \div (Bytes - 1)
             run == [i \in 1 .. k |-> Bytes - 1]
             rest == Byte((len - Lens) % (Bytes - 1))
  <2>1. len - Lens \in Nat /\ len - Lens <= len
    BY <1>1, <1>4
  <2>2. k \in Nat /\ (len - Lens) % (Bytes - 1) \in Nat
    <3>1. k \in Nat /\ (len - Lens) % (Bytes - 1) \in 0 .. (Bytes - 1) - 1
      BY <1>1, <2>1, Division
    <3> QED
      BY <1>1, <3>1
  <2>3. k <= len \div (Bytes - 1)
    BY <1>1, <2>1, QuotientGrows
  <2>4. rest \in Nat
    BY <2>2, BytesAreNumbers
  <2>5. LengthBytes(len) = run \o <<rest>>
    BY <1>4 DEF LengthBytes, Continued
  <2> HIDE DEF k, rest
  <2>6. run \in Seq(Nat) /\ Len(run) = k
    BY <1>1, <2>2
  <2> HIDE DEF run
  <2>7. <<rest>> \in Seq(Nat) /\ Len(<<rest>>) = 1
    BY <2>4
  <2>8. run \o <<rest>> \in Seq(Nat) /\ Len(run \o <<rest>>) = k + 1
    BY <2>6, <2>7
  <2> QED
    BY <1>2, <2>2, <2>3, <2>5, <2>8
<1> QED
  BY <1>3, <1>4

LEMMA TokenIs ==
  ASSUME NEW len \in Nat, NEW distance \in Nat
  PROVE  /\ Token(len, distance) \in Seq(Nat)
         /\ Len(Token(len, distance)) <= len \div (Bytes - 1) + 5
<1> DEFINE more == LengthBytes(len)
<1>1. /\ more \in Seq(Nat) /\ Len(more) <= len \div (Bytes - 1) + 1
      /\ len \div (Bytes - 1) \in Nat
  BY LengthBytesAre
<1> HIDE DEF more
<1>2. Field(len) \in Nat /\ Highs \in Nat /\ Bytes \in Nat \ {0} /\ Bytes - 1 \in Nat
  BY FormatSizes DEF Field
<1>3. CASE distance < MAX_DISTANCE
  <2> DEFINE first == Control(Field(len), distance \div Bytes)
             last == Byte(distance)
  <2>1. Token(len, distance) = <<first>> \o more \o <<last>>
    BY <1>3 DEF Token, more
  <2>2. first \in Nat /\ last \in Nat
    <3>1. distance \div Bytes \in Nat
      BY <1>2, Division
    <3> QED
      BY <1>2, <3>1, BytesAreNumbers
  <2> HIDE DEF first, last
  <2>3. <<first>> \o more \in Seq(Nat) /\ Len(<<first>> \o more) = 1 + Len(more)
    BY <1>1, <2>2
  <2>4. <<first>> \o more \o <<last>> \in Seq(Nat)
        /\ Len(<<first>> \o more \o <<last>>) = 2 + Len(more)
    BY <1>1, <2>2, <2>3
  <2> QED
    BY <1>1, <2>1, <2>4
<1>4. CASE ~(distance < MAX_DISTANCE)
  <2> DEFINE first == Control(Field(len), Highs)
             far == distance - MAX_DISTANCE
             tail == <<Bytes - 1, Byte(far \div Bytes), Byte(far)>>
  <2>1. Token(len, distance) = <<first>> \o more \o tail
    BY <1>4 DEF Token, more
  <2>2. far \in Nat
    <3>1. Highs * Bytes \in Nat
      BY <1>2
    <3>2. MAX_DISTANCE \in Int
      BY <1>2, <3>1 DEF MAX_DISTANCE
    <3> QED
      BY <1>4, <3>2
  <2>3. first \in Nat /\ Byte(far \div Bytes) \in Nat /\ Byte(far) \in Nat
    <3>1. far \div Bytes \in Nat
      BY <1>2, <2>2, Division
    <3> QED
      BY <1>2, <2>2, <3>1, BytesAreNumbers
  <2> HIDE DEF first, far
  <2>4. tail \in Seq(Nat) /\ Len(tail) = 3
    BY <1>2, <2>3
  <2> HIDE DEF tail
  <2>5. <<first>> \o more \in Seq(Nat) /\ Len(<<first>> \o more) = 1 + Len(more)
    BY <1>1, <2>3
  <2>6. <<first>> \o more \o tail \in Seq(Nat)
        /\ Len(<<first>> \o more \o tail) = 4 + Len(more)
    <3> DEFINE front == <<first>> \o more
    <3>1. front \in Seq(Nat) /\ Len(front) = 1 + Len(more)
      BY <2>5
    <3> HIDE DEF front
    <3>2. front \o tail \in Seq(Nat) /\ Len(front \o tail) = Len(front) + Len(tail)
      BY <2>4, <3>1, Joined
    <3>3. Len(more) \in Nat
      BY <1>1
    <3> QED
      BY <2>4, <3>1, <3>2, <3>3 DEF front
  <2> QED
    BY <1>1, <2>1, <2>6
<1> QED
  BY <1>3, <1>4

-----------------------------------------------------------------------------
(* The invariant: what was written is inside of the room, and the control  *)
(* byte that Match puts right is one of the bytes written.                 *)
LZInv ==
  /\ input \in Seq(Nat) /\ op_limit \in Nat
  /\ out \in Seq(Nat) /\ Len(out) <= op_limit
  /\ phase = "main" => ip \in 0 .. length /\ copy \in 0 .. MAX_COPY - 1 /\ copy < Len(out)

LEMMA MoreElements ==
  ASSUME NEW S, NEW T, S \subseteq T, NEW s \in Seq(S)
  PROVE  s \in Seq(T) /\ Len(s) \in Nat
<1> DEFINE n == Len(s)
<1>1. n \in Nat /\ s \in [1 .. n -> S]
  OBVIOUS
<1> HIDE DEF n
<1>2. s \in [1 .. n -> T]
  BY <1>1
<1>3. s \in Seq(T)
  BY <1>1, <1>2
<1> QED
  BY <1>1, <1>3 DEF n

LEMMA Changed ==
  ASSUME NEW s \in Seq(Nat), NEW k \in Int, NEW v, k \in 1 .. Len(s) => v \in Nat
  PROVE  [s EXCEPT ![k] = v] \in Seq(Nat) /\ Len([s EXCEPT ![k] = v]) = Len(s)
<1> DEFINE n == Len(s)
           t == [s EXCEPT ![k] = v]
<1>1. n \in Nat /\ s \in [1 .. n -> Nat]
  OBVIOUS
<1> HIDE DEF n
<1>2. t \in [1 .. n -> Nat]
  BY <1>1 DEF n
<1> HIDE DEF t
<1>3. t \in Seq(Nat) /\ Len(t) = n
  BY <1>1, <1>2
<1> QED
  BY <1>3 DEF n, t

LEMMA NextCopyIs ==
  ASSUME NEW c \in 0 .. MAX_COPY - 1
  PROVE  NextCopy(c) = IF c = MAX_COPY - 1 THEN 0 ELSE c + 1
<1>1. MAX_COPY \in Nat /\ MAX_COPY > 0
  BY FormatSizes
<1>2. \A m \in Nat : m > 0 => m % m = 0
  BY SMT
<1>3. \A m, x \in Nat : m > 0 /\ x < m => x % m = x
  BY SMT
<1>4. CASE c = MAX_COPY - 1
  <2>1. c + 1 = MAX_COPY
    BY <1>1, <1>4
  <2> QED
    BY <1>1, <1>2, <1>4, <2>1 DEF NextCopy
<1>5. CASE c # MAX_COPY - 1
  <2>1. c + 1 \in Nat /\ c + 1 < MAX_COPY
    BY <1>1, <1>5
  <2> QED
    BY <1>1, <1>3, <1>5, <2>1 DEF NextCopy
<1> QED
  BY <1>4, <1>5

LEMMA FullControl == Control(0, MAX_COPY - 1) \in Nat
<1>1. MAX_COPY - 1 \in Nat
  BY FormatSizes
<1> QED
  BY <1>1, BytesAreNumbers

LEMMA Bytewise ==
  ASSUME input \in Seq(Nat), NEW i \in Nat, i < length
  PROVE  At(i) \in Nat
BY DEF At, length

LEMMA CountPatchedIs ==
  ASSUME out \in Seq(Nat), copy \in 0 .. MAX_COPY - 1, copy < Len(out)
  PROVE  /\ CountPatched(out) \in Seq(Nat)
         /\ Len(CountPatched(out)) <= Len(out)
<1>1. CASE copy > 0
  <2>1. CountPatched(out) = [out EXCEPT ![Len(out) - copy] = Control(0, copy - 1)]
    BY <1>1 DEF CountPatched
  <2>2. Control(0, copy - 1) \in Nat
    <3>1. copy - 1 \in Nat
      BY <1>1, FormatSizes
    <3> QED
      BY <3>1, BytesAreNumbers
  <2>3. Len(out) - copy \in Int /\ Len(out) \in Nat
    BY FormatSizes
  <2>4. CountPatched(out) \in Seq(Nat) /\ Len(CountPatched(out)) = Len(out)
    BY <2>1, <2>2, <2>3, Changed
  <2> QED
    BY <2>3, <2>4
<1>2. CASE ~(copy > 0)
  <2>1. CountPatched(out) = SubSeq(out, 1, Len(out) - 1) /\ Len(out) >= 1
    BY <1>2, FormatSizes DEF CountPatched
  <2> QED
    BY <2>1
<1> QED
  BY <1>1, <1>2

LEMMA LiteralKeeps ==
  ASSUME LZInv, phase = "main", ip < length, Literal
  PROVE  LZInv'
<1>1. CASE GiveUp
  BY <1>1 DEF GiveUp, LZInv, args, length
<1>2. CASE ~GiveUp
  <2> DEFINE next == IF NextCopy(copy) = 0 THEN <<Control(0, MAX_COPY - 1)>> ELSE <<>>
  <2>1. /\ Len(out) + 2 <= op_limit
        /\ ip' = ip + 1 /\ copy' = NextCopy(copy)
        /\ out' = out \o <<At(ip)>> \o next
        /\ UNCHANGED <<args, phase, rd, output>>
    <3>1. ~(Len(out) + 2 > op_limit)
      BY <1>2 DEF Literal
    <3>2. Len(out) \in Nat /\ op_limit \in Nat
      BY DEF LZInv
    <3> QED
      BY <3>1, <3>2 DEF Literal
  <2>2. /\ input \in Seq(Nat) /\ length \in Nat /\ op_limit \in Nat /\ out \in Seq(Nat)
        /\ ip \in 0 .. length /\ copy \in 0 .. MAX_COPY - 1 /\ copy < Len(out)
        /\ MAX_COPY \in Nat /\ MAX_COPY > 2
    BY FormatSizes DEF LZInv, length
  <2>3. NextCopy(copy) = IF copy = MAX_COPY - 1 THEN 0 ELSE copy + 1
    BY <2>2, NextCopyIs
  <2>4. <<At(ip)>> \in Seq(Nat) /\ Len(<<At(ip)>>) = 1
    BY <2>2, Bytewise
  <2>5. next \in Seq(Nat) /\ Len(next) = IF NextCopy(copy) = 0 THEN 1 ELSE 0
    BY FullControl
  <2> HIDE DEF next
  <2>6. out \o <<At(ip)>> \in Seq(Nat) /\ Len(out \o <<At(ip)>>) = Len(out) + 1
    BY <2>2, <2>4, Joined
  <2>7. out' \in Seq(Nat) /\ Len(out') = Len(out) + 1 + Len(next)
    BY <2>1, <2>5, <2>6, Joined
  <2>8. /\ input' = input /\ op_limit' = op_limit /\ length' = length
    BY <2>1 DEF args, length
  <2>9. Len(out') <= op_limit
    BY <2>1, <2>2, <2>5, <2>7
  <2>10. ip' \in 0 .. length
    BY <2>1, <2>2
  <2>11. copy' \in 0 .. MAX_COPY - 1 /\ copy' < Len(out')
    BY <2>1, <2>2, <2>3, <2>5, <2>7
  <2> QED
    BY <2>2, <2>7, <2>8, <2>9, <2>10, <2>11 DEF LZInv
<1> QED
  BY <1>1, <1>2

LEMMA MatchKeeps ==
  ASSUME LZInv, phase = "main", ip < ip_limit, NEW d \in Nat \ {0}, NEW n \in {3, 5}, Match(d, n)
  PROVE  LZInv'
<1> DEFINE o == CountPatched(out)
           end == MatchEnd(d, ip + n)
           len == end - 3 - ip
<1>1. /\ input \in Seq(Nat) /\ length \in Nat /\ op_limit \in Nat /\ out \in Seq(Nat)
      /\ ip \in Nat /\ copy \in 0 .. MAX_COPY - 1 /\ copy < Len(out) /\ Len(out) <= op_limit
      /\ MAX_COPY \in Nat /\ MAX_COPY > 2
  BY FormatSizes DEF LZInv, length
<1>2. CASE GiveUp
  BY <1>2 DEF GiveUp, LZInv, args, length
<1>3. CASE ~GiveUp
  <2>1. /\ ~NoRoom(o, len)
        /\ ip' = ip + len + 2 /\ copy' = 0
        /\ out' = o \o Token(len, d - 1) \o <<Control(0, MAX_COPY - 1)>>
        /\ UNCHANGED <<args, phase, rd, output>>
    BY <1>3 DEF Match
  <2>2. end \in ip + 3 .. length
    BY <1>1, MatchEndIs
  <2> HIDE DEF end
  <2>3. len \in Nat /\ ip + len + 2 \in 0 .. length
    BY <1>1, <2>2
  <2>4. o \in Seq(Nat) /\ Len(o) \in Nat
    BY <1>1, CountPatchedIs
  <2> HIDE DEF o, len
  <2> DEFINE token == Token(len, d - 1)
  <2>5. token \in Seq(Nat) /\ Len(token) <= len \div (Bytes - 1) + 5 /\ Len(token) \in Nat
    <3>1. d - 1 \in Nat
      OBVIOUS
    <3>2. token \in Seq(Nat) /\ Len(token) <= len \div (Bytes - 1) + 5
      BY <2>3, <3>1, TokenIs
    <3> HIDE DEF token
    <3>3. Len(token) \in Nat
      BY <3>2
    <3> QED
      BY <3>2, <3>3
  <2>6. Len(o) + len \div (Bytes - 1) + 6 <= op_limit /\ len \div (Bytes - 1) \in Nat
    <3>1. len \div (Bytes - 1) \in Nat
      BY <2>3, LengthBytesAre
    <3> DEFINE k == len \div (Bytes - 1)
    <3>2. ~(Len(o) + k + 6 > op_limit)
      BY <2>1 DEF NoRoom
    <3> HIDE DEF k
    <3>3. k \in Nat
      BY <3>1 DEF k
    <3>4. Len(o) + k + 6 <= op_limit
      BY <1>1, <2>4, <3>2, <3>3
    <3> QED
      BY <3>1, <3>4 DEF k
  <2> HIDE DEF token
  <2> DEFINE last == <<Control(0, MAX_COPY - 1)>>
  <2>7. last \in Seq(Nat) /\ Len(last) = 1
    BY FullControl
  <2>8. out' = o \o token \o last
    BY <2>1 DEF token
  <2> HIDE DEF last
  <2>9. o \o token \in Seq(Nat) /\ Len(o \o token) = Len(o) + Len(token)
    BY <2>4, <2>5, Joined
  <2>10. out' \in Seq(Nat) /\ Len(out') = Len(o) + Len(token) + 1
    BY <2>7, <2>8, <2>9, Joined
  <2>11. Len(out') <= op_limit /\ 0 < Len(out')
    <3> DEFINE k == len \div (Bytes - 1)
    <3>1. k \in Nat /\ Len(token) <= k + 5 /\ Len(o) + k + 6 <= op_limit
      BY <2>5, <2>6
    <3> HIDE DEF k
    <3> QED
      BY SMTT(60), <1>1, <2>4, <2>5, <2>10, <3>1
  <2>12. /\ input' = input /\ op_limit' = op_limit /\ length' = length
    BY <2>1 DEF args, length
  <2>13. ip' \in 0 .. length /\ copy' \in 0 .. MAX_COPY - 1 /\ copy' < Len(out')
    BY <1>1, <2>1, <2>3, <2>11
  <2> QED
    BY <1>1, <2>10, <2>11, <2>12, <2>13 DEF LZInv
<1> QED
  BY <1>2, <1>3

LEMMA InitKeeps == Init => LZInv
<1> SUFFICES ASSUME Init PROVE LZInv
  OBVIOUS
<1>1. input \in Seq(0 .. Bytes - 1)
  BY InputsAssumption DEF Init
<1>2. input \in Seq(Nat) /\ length \in Nat
  <2>1. 0 .. Bytes - 1 \subseteq Nat
    BY FormatSizes
  <2> QED
    BY <1>1, <2>1, MoreElements DEF length
<1>3. op_limit \in Nat
  BY <1>2, InputsAssumption DEF Init
<1> QED
  BY <1>2, <1>3 DEF Init, LZInv

LEMMA StepKeeps == LZInv /\ [Next]_vars => LZInv'
<1> SUFFICES ASSUME LZInv, [Next]_vars PROVE LZInv'
  OBVIOUS
<1>1. /\ input \in Seq(Nat) /\ length \in Nat /\ op_limit \in Nat /\ out \in Seq(Nat)
      /\ MAX_COPY \in Nat /\ MAX_COPY > 2
  BY FormatSizes DEF LZInv, length
<1>2. CASE TooSmall
  BY <1>2 DEF TooSmall, GiveUp, LZInv, args
<1>3. CASE Start
  <2>1. /\ op_limit >= MinRoom /\ length >= 4 /\ ip' = 2 /\ copy' = 2
        /\ out' = <<Control(0, MAX_COPY - 1), At(0), At(1)>>
        /\ input' = input /\ op_limit' = op_limit
    BY <1>3 DEF Start, args
  <2>2. Control(0, MAX_COPY - 1) \in Nat /\ At(0) \in Nat /\ At(1) \in Nat
    BY <1>1, <2>1, BytesAreNumbers, Bytewise
  <2>3. out' \in Seq(Nat) /\ Len(out') = 3
    BY <2>1, <2>2
  <2>4. Len(out') <= op_limit
    BY <1>1, <2>1, <2>3, WordSizes
  <2>5. length' = length
    BY <2>1 DEF length
  <2> QED
    BY <1>1, <2>1, <2>3, <2>4, <2>5 DEF LZInv
<1>4. CASE CompressRun
  <2>1. phase = "main" /\ ip < ip_limit /\ Match(1, 3)
    BY <1>4 DEF CompressRun
  <2> QED
    BY <2>1, MatchKeeps
<1>5. CASE CompressFound
  <2>1. phase = "main" /\ ip < ip_limit
    BY <1>5 DEF CompressFound
  <2>2. ip \in Nat /\ ip < length
    BY <1>1, <2>1, WordSizes DEF LZInv, ip_limit
  <2>3. PICK ref \in 0 .. ip :
          LET d == ip - ref
          IN IF d = 0 \/ TooFar(d) \/ ~SameBytes(d, IF IsFar(d) THEN 5 ELSE 3) THEN Literal
             ELSE Match(d, IF IsFar(d) THEN 5 ELSE 3)
    BY <1>5 DEF CompressFound
  <2> DEFINE d == ip - ref
             n == IF IsFar(d) THEN 5 ELSE 3
  <2>4. d \in Nat /\ n \in {3, 5}
    BY <2>2
  <2>5. Literal \/ (d # 0 /\ Match(d, n))
    BY <2>3
  <2> HIDE DEF d, n
  <2>6. CASE Literal
    BY <2>1, <2>2, <2>6, LiteralKeeps
  <2>7. CASE d # 0 /\ Match(d, n)
    BY <2>1, <2>4, <2>7, MatchKeeps
  <2> QED
    BY <2>5, <2>6, <2>7
<1>6. CASE LeftOver
  <2>1. phase = "main" /\ ip < length /\ Literal
    BY <1>6 DEF LeftOver
  <2> QED
    BY <2>1, LiteralKeeps
<1>7. CASE Finish
  <2> DEFINE o == CountPatched(out)
  <2>1. /\ phase = "main" /\ phase' = "decompress" /\ out' = [o EXCEPT ![1] = @ + MAX_COPY]
        /\ input' = input /\ op_limit' = op_limit
    BY <1>7 DEF Finish, args
  <2>2. o \in Seq(Nat) /\ Len(o) <= op_limit
    <3>1. o \in Seq(Nat) /\ Len(o) <= Len(out) /\ Len(out) <= op_limit
      BY <2>1, CountPatchedIs DEF LZInv
    <3> QED
      BY <1>1, <3>1
  <2> HIDE DEF o
  <2>3. 1 \in 1 .. Len(o) => o[1] + MAX_COPY \in Nat
    BY <1>1, <2>2
  <2>4. out' = [o EXCEPT ![1] = o[1] + MAX_COPY]
    BY <2>1
  <2>5. out' \in Seq(Nat) /\ Len(out') = Len(o)
    BY <2>2, <2>3, <2>4, Changed
  <2> QED
    BY <1>1, <2>1, <2>2, <2>5 DEF LZInv
<1>8. CASE DecompressLiterals \/ DecompressMatch
  BY <1>8 DEF DecompressLiterals, DecompressMatch, Refuse, Goto, LZInv, args
<1>9. CASE UNCHANGED vars
  BY <1>9 DEF vars, args, LZInv, length
<1> QED
  BY <1>2, <1>3, <1>4, <1>5, <1>6, <1>7, <1>8, <1>9 DEF Next

(* Whatever the hash table answers and however long the matches are,       *)
(* blosclz_compress never writes at op_limit or beyond: the test of        *)
(* blosclz.c:344 leaves room for every form of a token (346-379) and the   *)
(* control byte after it, that of LITERAL (160-171) for the byte and the   *)
(* next control byte.                                                      *)
THEOREM NeverPastLimit == Spec => []InsideRoom
<1>1. LZInv => InsideRoom
  BY DEF LZInv, InsideRoom
<1> QED
  BY <1>1, InitKeeps, StepKeeps, PTL DEF Spec

-----------------------------------------------------------------------------
(* What a token says *)

LEMMA Remainder ==
  ASSUME NEW n \in Nat \ {0}, NEW q \in Nat, NEW r \in 0 .. n - 1
  PROVE  (q * n + r) \div n = q /\ (q * n + r) % n = r
<1> DEFINE a == q * n + r
           p == a \div n
           s == a % n
<1>1. a \in Nat /\ q * n \in Nat /\ q * n = n * q
  OBVIOUS
<1>2. p \in Nat /\ s \in 0 .. n - 1 /\ a = n * p + s
  BY <1>1, Division
<1>3. a = n * q + r
  BY <1>1
<1> HIDE DEF a, p, s
<1>4. \A x, y \in Nat : x < y => n * x + n <= n * y
  <2> TAKE x, y \in Nat
  <2> HAVE x < y
  <2>1. PICK k \in Nat : y = x + 1 + k
    <3>1. y - x - 1 \in Nat /\ y = x + 1 + (y - x - 1)
      OBVIOUS
    <3> QED
      BY <3>1
  <2>2. n * y = n * x + n + n * k /\ n * k \in Nat /\ n * x \in Nat
    BY <2>1
  <2> QED
    BY <2>2
<1>5. n * p \in Nat /\ n * q \in Nat
  BY <1>2
<1>6. ~(p < q) /\ ~(q < p)
  <2>1. p < q => n * p + n <= n * q
    BY <1>2, <1>4
  <2>2. q < p => n * q + n <= n * p
    BY <1>2, <1>4
  <2> QED
    BY <1>2, <1>3, <1>5, <2>1, <2>2
<1>7. p = q
  BY <1>2, <1>6
<1>8. s = r
  BY <1>2, <1>3, <1>5, <1>7
<1> QED
  BY <1>7, <1>8 DEF a, p, s

LEMMA ByteIs ==
  ASSUME NEW v \in 0 .. Bytes - 1
  PROVE  Byte(v) = v
<1>1. Bytes \in Nat \ {0} /\ 0 \in Nat /\ 0 * Bytes + v = v
  BY FormatSizes
<1>2. (0 * Bytes + v) % Bytes = v
  BY <1>1, Remainder
<1> QED
  BY <1>1, <1>2 DEF Byte

LEMMA ControlIs ==
  ASSUME NEW len \in 0 .. Lens, NEW high \in 0 .. MAX_COPY - 1
  PROVE  /\ Control(len, high) = len * MAX_COPY + high
         /\ Control(len, high) \div MAX_COPY = len
         /\ Control(len, high) % MAX_COPY = high
         /\ Control(len, high) < MAX_COPY <=> len = 0
<1> DEFINE v == len * MAX_COPY + high
           m == (Lens + 1) * MAX_COPY
<1>1. MAX_COPY \in Nat \ {0} /\ Lens \in Nat /\ MAX_COPY = Highs + 1 /\ len \in Nat /\ high \in Nat
  BY FormatSizes DEF MAX_COPY
<1>2. m \in Nat \ {0} /\ v \in 0 .. m - 1
  <2>1. PICK k \in Nat : Lens = len + k
    <3>1. Lens - len \in Nat /\ Lens = len + (Lens - len)
      BY <1>1
    <3> QED
      BY <3>1
  <2>2. m = len * MAX_COPY + k * MAX_COPY + MAX_COPY /\ k * MAX_COPY \in Nat
        /\ len * MAX_COPY \in Nat
    BY <1>1, <2>1
  <2> QED
    BY <1>1, <2>2
<1>3. Control(len, high) = v % m
  BY <1>1 DEF Control
<1>4. v \div MAX_COPY = len /\ v % MAX_COPY = high
  BY <1>1, Remainder
<1>5. v < MAX_COPY <=> len = 0
  <2>1. CASE len = 0
    BY <1>1, <2>1
  <2>2. CASE len # 0
    <3>1. PICK k \in Nat : len = 1 + k
      <4>1. len - 1 \in Nat /\ len = 1 + (len - 1)
        BY <2>2
      <4> QED
        BY <4>1
    <3>2. v = MAX_COPY + k * MAX_COPY + high /\ k * MAX_COPY \in Nat
      BY <1>1, <3>1
    <3> QED
      BY <1>1, <2>2, <3>2
  <2> QED
    BY <2>1, <2>2
<1> HIDE DEF v, m
<1>6. v % m = v
  <2>1. 0 * m + v = v /\ 0 \in Nat
    BY <1>2
  <2>2. (0 * m + v) % m = v
    BY <1>2, <2>1, Remainder
  <2> QED
    BY <2>1, <2>2
<1> QED
  BY <1>3, <1>4, <1>5, <1>6 DEF v

LEMMA JoinedAt ==
  ASSUME NEW s \in Seq(Nat), NEW t \in Seq(Nat)
  PROVE  /\ \A i \in 1 .. Len(s) : (s \o t)[i] = s[i]
         /\ \A i \in 1 .. Len(t) : (s \o t)[Len(s) + i] = t[i]
OBVIOUS

\* The bytes of a length that goes on: all of them full but the last.
LEMMA LengthBytesSay ==
  ASSUME NEW len \in Nat
  PROVE  \E k \in Nat :
           /\ LengthBytes(len) \in Seq(Nat) /\ Len(LengthBytes(len)) = k
           /\ len < Lens => k = 0
           /\ len >= Lens =>
                /\ k >= 1
                /\ \A i \in 1 .. k - 1 : LengthBytes(len)[i] = Bytes - 1
                /\ LengthBytes(len)[k] \in 0 .. Bytes - 2
                /\ (k - 1) * (Bytes - 1) + LengthBytes(len)[k] = len - Lens
<1>1. Lens \in Nat /\ Bytes \in Nat /\ Bytes - 1 \in Nat \ {0}
  BY FormatSizes
<1>2. CASE len < Lens
  <2>1. LengthBytes(len) = <<>>
    BY <1>2 DEF LengthBytes
  <2>2. <<>> \in Seq(Nat) /\ Len(<<>>) = 0 /\ ~(len >= Lens)
    BY <1>1, <1>2
  <2> QED
    BY <2>1, <2>2
<1>3. CASE ~(len < Lens)
  <2> DEFINE q == (len - Lens) \div (Bytes - 1)
             r == (len - Lens) % (Bytes - 1)
             run == [i \in 1 .. q |-> Bytes - 1]
             all == run \o <<r>>
  <2>1. len - Lens \in Nat /\ len >= Lens
    BY <1>1, <1>3
  <2>2. q \in Nat /\ r \in 0 .. (Bytes - 1) - 1 /\ len - Lens = (Bytes - 1) * q + r
    BY <1>1, <2>1, Division
  <2>3. Byte(r) = r
    <3>1. r \in 0 .. Bytes - 1
      BY <1>1, <2>2
    <3> HIDE DEF r
    <3> QED
      BY <3>1, ByteIs
  <2>4. LengthBytes(len) = all
    BY <1>3, <2>3 DEF LengthBytes, Continued
  <2> HIDE DEF q, r
  <2>5. run \in Seq(Nat) /\ Len(run) = q /\ \A i \in 1 .. q : run[i] = Bytes - 1
    BY <1>1, <2>2
  <2>6. r \in Nat /\ <<r>> \in Seq(Nat) /\ Len(<<r>>) = 1 /\ <<r>>[1] = r
    BY <1>1, <2>2
  <2> HIDE DEF run
  <2>7. all \in Seq(Nat) /\ Len(all) = q + 1
    BY <2>5, <2>6, Joined
  <2>8. /\ \A i \in 1 .. q : all[i] = Bytes - 1
        /\ all[q + 1] = r
    <3>1. /\ \A i \in 1 .. Len(run) : all[i] = run[i]
          /\ \A i \in 1 .. Len(<<r>>) : all[Len(run) + i] = <<r>>[i]
      BY <2>5, <2>6, JoinedAt
    <3> QED
      BY <2>2, <2>5, <2>6, <3>1
  <2> HIDE DEF all
  <2> DEFINE k == q + 1
  <2>9. (k - 1) * (Bytes - 1) = (Bytes - 1) * q /\ k \in Nat /\ k >= 1 /\ k - 1 = q
    BY <1>1, <2>2
  <2>10. r \in 0 .. Bytes - 2
    BY <1>1, <2>2
  <2> HIDE DEF k
  <2>11. \A i \in 1 .. k - 1 : all[i] = Bytes - 1
    BY <2>8, <2>9
  <2>12. all[k] = r
    BY <2>8 DEF k
  <2>13. Len(all) = k
    BY <2>7 DEF k
  <2>14. (k - 1) * (Bytes - 1) + all[k] = len - Lens
    BY <2>2, <2>9, <2>12
  <2> QED
    BY <1>3, <2>1, <2>4, <2>7, <2>9, <2>10, <2>11, <2>12, <2>13, <2>14
<1> QED
  BY <1>2, <1>3

LEMMA Distances ==
  /\ MAX_DISTANCE \in Nat /\ MAX_DISTANCE > 1
  /\ MAX_DISTANCE = Highs * Bytes + Bytes - 1
  /\ MAX_FARDISTANCE \in Nat /\ MAX_FARDISTANCE > 1
  /\ MAX_FARDISTANCE = Bytes * Bytes - 1 + MAX_DISTANCE - 1
<1>1. Highs \in Nat /\ Highs >= 2 /\ Bytes \in Nat /\ Bytes >= 2
  BY Sizes
<1>2. Highs * Bytes \in Nat /\ Bytes * Bytes \in Nat
  BY <1>1
<1>3. Highs * Bytes >= 2 /\ Bytes * Bytes >= 4
  <2>1. PICK a \in Nat : Highs = a + 2
    <3>1. Highs - 2 \in Nat /\ Highs = (Highs - 2) + 2
      BY <1>1
    <3> QED
      BY <3>1
  <2>2. PICK b \in Nat : Bytes = b + 2
    <3>1. Bytes - 2 \in Nat /\ Bytes = (Bytes - 2) + 2
      BY <1>1
    <3> QED
      BY <3>1
  <2>3. a * b \in Nat /\ b * b \in Nat
    BY <2>1, <2>2
  <2>4. Highs * Bytes = a * b + 2 * a + 2 * b + 4 /\ Bytes * Bytes = b * b + 4 * b + 4
    BY <2>1, <2>2
  <2> QED
    BY <2>1, <2>2, <2>3, <2>4
<1>4. MAX_DISTANCE = Highs * Bytes + Bytes - 1 /\ MAX_DISTANCE \in Nat /\ MAX_DISTANCE > 1
  BY <1>1, <1>2, <1>3 DEF MAX_DISTANCE
<1>5. MAX_FARDISTANCE = Bytes * Bytes - 1 + MAX_DISTANCE - 1
  BY DEF MAX_FARDISTANCE
<1>6. MAX_FARDISTANCE \in Nat /\ MAX_FARDISTANCE > 1
  BY <1>1, <1>2, <1>3, <1>4, <1>5
<1> QED
  BY <1>4, <1>5, <1>6

\* Token t says a match of length len + 2 and distance dist + 1, with k more
\* bytes for the length, as blosclz_decompress reads it.
Says(t, len, dist, k, high) ==
  /\ t \in Seq(Nat) /\ k \in Nat /\ high \in 0 .. MAX_COPY - 1
  /\ Len(t) = k + 2 + (IF t[k + 2] = Bytes - 1 /\ high = Highs THEN 2 ELSE 0)
  /\ t[1] = Control(Field(len), high)
  /\ len < Lens => k = 0
  /\ len >= Lens =>
       /\ k >= 1 /\ (k - 1) * (Bytes - 1) + t[k + 1] = len - Lens
       /\ t[k + 1] \in 0 .. Bytes - 2 /\ \A i \in 2 .. k : t[i] = Bytes - 1
  /\ dist = IF t[k + 2] = Bytes - 1 /\ high = Highs
            THEN t[k + 3] * Bytes + t[k + 4] + MAX_DISTANCE
            ELSE high * Bytes + t[k + 2]

LEMMA TokenSays ==
  ASSUME NEW len \in Nat, NEW dist \in Nat, dist < MAX_FARDISTANCE
  PROVE  \E k, high \in Nat : Says(Token(len, dist), len, dist, k, high)
<1> DEFINE more == LengthBytes(len)
<1>1. PICK k \in Nat :
        /\ more \in Seq(Nat) /\ Len(more) = k
        /\ len < Lens => k = 0
        /\ len >= Lens =>
             /\ k >= 1
             /\ \A i \in 1 .. k - 1 : more[i] = Bytes - 1
             /\ more[k] \in 0 .. Bytes - 2
             /\ (k - 1) * (Bytes - 1) + more[k] = len - Lens
  BY LengthBytesSay
<1> HIDE DEF more
<1>2. /\ Highs \in Nat /\ Lens \in Nat /\ Bytes \in Nat /\ Bytes >= 2 /\ MAX_COPY = Highs + 1
      /\ Field(len) \in Nat /\ Bytes \in Nat \ {0}
  BY FormatSizes DEF MAX_COPY, Field
\* What does not depend on the form of the distance
<1>3. ASSUME NEW high \in 0 .. MAX_COPY - 1, NEW tail \in Seq(Nat)
      PROVE  LET t == <<Control(Field(len), high)>> \o more \o tail
             IN  /\ t \in Seq(Nat) /\ Len(t) = 1 + k + Len(tail)
                 /\ t[1] = Control(Field(len), high)
                 /\ \A i \in 1 .. k : t[1 + i] = more[i]
                 /\ \A i \in 1 .. Len(tail) : t[1 + k + i] = tail[i]
  <2> DEFINE c == Control(Field(len), high)
             front == <<c>> \o more
             t == front \o tail
  <2>1. c \in Nat
    <3>1. high \in Nat
      BY <1>2
    <3> QED
      BY <1>2, <3>1, BytesAreNumbers
  <2> HIDE DEF c
  <2>2. <<c>> \in Seq(Nat) /\ Len(<<c>>) = 1 /\ <<c>>[1] = c
    BY <2>1
  <2>3. /\ front \in Seq(Nat) /\ Len(front) = 1 + k
        /\ \A i \in 1 .. Len(<<c>>) : front[i] = <<c>>[i]
        /\ \A i \in 1 .. k : front[Len(<<c>>) + i] = more[i]
    BY <1>1, <2>2, Joined, JoinedAt
  <2>4. front[1] = c /\ \A i \in 1 .. k : front[1 + i] = more[i]
    BY <2>2, <2>3
  <2> HIDE DEF front
  <2>5. /\ t \in Seq(Nat) /\ Len(t) = 1 + k + Len(tail)
        /\ \A i \in 1 .. 1 + k : t[i] = front[i]
        /\ \A i \in 1 .. Len(tail) : t[1 + k + i] = tail[i]
    <3>1. t \in Seq(Nat) /\ Len(t) = Len(front) + Len(tail)
      BY <2>3, Joined
    <3>2. /\ \A i \in 1 .. Len(front) : t[i] = front[i]
          /\ \A i \in 1 .. Len(tail) : t[Len(front) + i] = tail[i]
      BY <2>3, JoinedAt
    <3>3. Len(front) = 1 + k
      BY <2>3
    <3> HIDE DEF t
    <3> QED
      BY <3>1, <3>2, <3>3
  <2> HIDE DEF t
  <2>6. t[1] = c /\ \A i \in 1 .. k : t[1 + i] = more[i]
    <3>1. 1 \in 1 .. 1 + k /\ \A i \in 1 .. k : 1 + i \in 1 .. 1 + k
      OBVIOUS
    <3> QED
      BY <2>4, <2>5, <3>1
  <2> QED
    BY <2>5, <2>6 DEF c, t, front
\* The length is read from the bytes after the first one.
<1>4. ASSUME NEW t, \A i \in 1 .. k : t[1 + i] = more[i]
      PROVE  len >= Lens =>
               /\ k >= 1 /\ (k - 1) * (Bytes - 1) + t[k + 1] = len - Lens
               /\ t[k + 1] \in 0 .. Bytes - 2 /\ \A i \in 2 .. k : t[i] = Bytes - 1
  <2> HAVE len >= Lens
  <2>1. k >= 1 /\ t[k + 1] = more[k]
    <3>1. k >= 1 /\ 1 + k = k + 1
      BY <1>1
    <3> QED
      BY <1>4, <3>1
  <2>2. ASSUME NEW i \in 2 .. k PROVE t[i] = Bytes - 1
    <3>1. i - 1 \in 1 .. k /\ i - 1 \in 1 .. k - 1 /\ 1 + (i - 1) = i
      OBVIOUS
    <3>2. t[1 + (i - 1)] = more[i - 1]
      BY <1>4, <3>1
    <3> QED
      BY <1>1, <3>1, <3>2
  <2> QED
    BY <1>1, <2>1, <2>2
<1>5. CASE dist < MAX_DISTANCE
  <2> DEFINE high == dist \div Bytes
             low == dist % Bytes
             t == Token(len, dist)
  <2>1. high \in Nat /\ low \in 0 .. Bytes - 1 /\ dist = Bytes * high + low
    BY <1>2, Division
  <2>2. Token(len, dist) = <<Control(Field(len), high)>> \o more \o <<low>>
    <3>1. Byte(dist) = low
      BY DEF Byte
    <3> QED
      BY <1>5, <3>1 DEF Token, more
  <2> HIDE DEF high, low
  <2>3. Bytes * high = high * Bytes /\ high * Bytes \in Nat /\ Bytes * Highs = Highs * Bytes
        /\ Highs * Bytes \in Nat
    BY <1>2, <2>1
  <2>4. high <= Highs
    <3>1. SUFFICES ASSUME high > Highs PROVE FALSE
      BY <1>2, <2>1
    <3>2. PICK x \in Nat : high = Highs + 1 + x
      <4>1. high - Highs - 1 \in Nat /\ high = Highs + 1 + (high - Highs - 1)
        BY <1>2, <2>1, <3>1
      <4> QED
        BY <4>1
    <3>3. high * Bytes = Highs * Bytes + Bytes + x * Bytes /\ x * Bytes \in Nat
      BY <1>2, <3>2
    <3> QED
      BY <1>2, <1>5, <2>1, <2>3, <3>3, Distances
  <2>5. high \in 0 .. MAX_COPY - 1
    BY <1>2, <2>1, <2>4
  <2>6. ~(low = Bytes - 1 /\ high = Highs)
    BY <1>2, <1>5, <2>1, <2>3, Distances
  <2>7. <<low>> \in Seq(Nat) /\ Len(<<low>>) = 1 /\ <<low>>[1] = low
    BY <1>2, <2>1
  <2>8. /\ t \in Seq(Nat) /\ Len(t) = 1 + k + 1 /\ t[1] = Control(Field(len), high)
        /\ \A i \in 1 .. k : t[1 + i] = more[i]
        /\ t[1 + k + 1] = low
    <3> DEFINE last == <<low>>
               u == <<Control(Field(len), high)>> \o more \o last
    <3>1. last \in Seq(Nat) /\ Len(last) = 1 /\ last[1] = low
      BY <2>7
    <3>2. t = u
      BY <2>2
    <3> HIDE DEF last
    <3>3. /\ u \in Seq(Nat) /\ Len(u) = 1 + k + Len(last)
          /\ u[1] = Control(Field(len), high)
          /\ \A i \in 1 .. k : u[1 + i] = more[i]
          /\ \A i \in 1 .. Len(last) : u[1 + k + i] = last[i]
      BY <1>3, <2>5, <3>1
    <3> HIDE DEF t, u
    <3> QED
      BY <3>1, <3>2, <3>3
  <2> HIDE DEF t
  <2>9. t[k + 2] = low /\ Len(t) = k + 2
    <3>1. 1 + k + 1 = k + 2
      OBVIOUS
    <3> QED
      BY <2>8, <3>1
  <2>10. dist = high * Bytes + low
    BY <2>1, <2>3
  <2>11. len >= Lens =>
           /\ k >= 1 /\ (k - 1) * (Bytes - 1) + t[k + 1] = len - Lens
           /\ t[k + 1] \in 0 .. Bytes - 2 /\ \A i \in 2 .. k : t[i] = Bytes - 1
    BY <1>4, <2>8
  <2>12. Len(t) = k + 2 + (IF t[k + 2] = Bytes - 1 /\ high = Highs THEN 2 ELSE 0)
    BY <2>6, <2>9
  <2>13. Says(t, len, dist, k, high)
    BY <1>1, <2>5, <2>6, <2>8, <2>9, <2>10, <2>11, <2>12 DEF Says
  <2> QED
    BY <2>1, <2>13 DEF t
<1>6. CASE ~(dist < MAX_DISTANCE)
  <2> DEFINE far == dist - MAX_DISTANCE
             a == far \div Bytes
             b == far % Bytes
             tail == <<Bytes - 1, a, b>>
             t == Token(len, dist)
  <2>1. far \in Nat /\ far < Bytes * Bytes
    <3>1. Bytes * Bytes \in Nat
      BY <1>2
    <3> QED
      BY <1>6, <3>1, Distances
  <2>2. a \in Nat /\ b \in 0 .. Bytes - 1 /\ far = Bytes * a + b
    BY <1>2, <2>1, Division
  <2>3. a \in 0 .. Bytes - 1
    <3> HIDE DEF a, b, far
    <3>1. SUFFICES ASSUME a >= Bytes PROVE FALSE
      BY <1>2, <2>2
    <3>2. PICK x \in Nat : a = Bytes + x
      <4>1. a - Bytes \in Nat /\ a = Bytes + (a - Bytes)
        BY <1>2, <2>2, <3>1
      <4> QED
        BY <4>1
    <3>3. Bytes * a = Bytes * Bytes + Bytes * x /\ Bytes * x \in Nat /\ Bytes * Bytes \in Nat
      BY <1>2, <3>2
    <3> QED
      BY <1>2, <2>1, <2>2, <3>3
  <2>4. Byte(a) = a /\ Byte(far) = b
    BY <2>3, ByteIs DEF Byte
  <2>5. Token(len, dist) = <<Control(Field(len), Highs)>> \o more \o tail
    BY <1>6, <2>4 DEF Token, more
  <2> HIDE DEF a, b
  <2>6. tail \in Seq(Nat) /\ Len(tail) = 3 /\ tail[1] = Bytes - 1 /\ tail[2] = a /\ tail[3] = b
    BY <1>2, <2>2, <2>3
  <2>7. Highs \in 0 .. MAX_COPY - 1
    BY <1>2
  <2> HIDE DEF tail
  <2>8. /\ t \in Seq(Nat) /\ Len(t) = 1 + k + 3 /\ t[1] = Control(Field(len), Highs)
        /\ \A i \in 1 .. k : t[1 + i] = more[i]
        /\ \A i \in 1 .. 3 : t[1 + k + i] = tail[i]
    <3> DEFINE u == <<Control(Field(len), Highs)>> \o more \o tail
    <3>1. t = u
      BY <2>5
    <3>2. /\ u \in Seq(Nat) /\ Len(u) = 1 + k + Len(tail)
          /\ u[1] = Control(Field(len), Highs)
          /\ \A i \in 1 .. k : u[1 + i] = more[i]
          /\ \A i \in 1 .. Len(tail) : u[1 + k + i] = tail[i]
      BY <1>3, <2>6, <2>7
    <3> HIDE DEF t, u
    <3> QED
      BY <2>6, <3>1, <3>2
  <2> HIDE DEF t
  <2>9. t[k + 2] = Bytes - 1 /\ t[k + 3] = a /\ t[k + 4] = b /\ Len(t) = k + 4
    <3>1. 1 + k + 1 = k + 2 /\ 1 + k + 2 = k + 3 /\ 1 + k + 3 = k + 4
      OBVIOUS
    <3>2. t[1 + k + 1] = tail[1] /\ t[1 + k + 2] = tail[2] /\ t[1 + k + 3] = tail[3]
      BY <2>8
    <3> QED
      BY <2>6, <2>8, <3>1, <3>2
  <2>10. dist = t[k + 3] * Bytes + t[k + 4] + MAX_DISTANCE
    <3>1. Bytes * a = a * Bytes /\ a * Bytes \in Nat
      BY <1>2, <2>2
    <3>2. dist = far + MAX_DISTANCE
      BY Distances
    <3> HIDE DEF far
    <3> QED
      BY <2>1, <2>2, <2>9, <3>1, <3>2
  <2>11. len >= Lens =>
           /\ k >= 1 /\ (k - 1) * (Bytes - 1) + t[k + 1] = len - Lens
           /\ t[k + 1] \in 0 .. Bytes - 2 /\ \A i \in 2 .. k : t[i] = Bytes - 1
    BY <1>4, <2>8
  <2>12. Len(t) = k + 2 + (IF t[k + 2] = Bytes - 1 /\ Highs = Highs THEN 2 ELSE 0)
    BY <2>9
  <2>13. Says(t, len, dist, k, Highs)
    BY <1>1, <2>7, <2>8, <2>9, <2>10, <2>11, <2>12 DEF Says
  <2> QED
    BY <1>2, <2>13 DEF t
<1> QED
  BY <1>5, <1>6

-----------------------------------------------------------------------------
(* What was written, as the tokens it is made of.  A place is a pair: bytes *)
(* of the compressed data, and bytes of the input they stand for.           *)

Lead(o, r) == IF r = 0 THEN o[1] % MAX_COPY ELSE o[r + 1]

\* A run of literals from place m to place q
IsLiterals(s, o, m, q) ==
  /\ Lead(o, m[1]) \in 0 .. MAX_COPY - 1
  /\ q[1] = m[1] + Lead(o, m[1]) + 2 /\ q[2] = m[2] + Lead(o, m[1]) + 1
  /\ \A i \in 0 .. Lead(o, m[1]) : o[m[1] + 2 + i] = s[m[2] + i + 1]

\* A match from place m to place q; the first token is none.
IsMatch(s, o, m, q) ==
  /\ m[1] # 0
  /\ \E len \in Nat \ {0}, d \in 1 .. m[2] :
       /\ d < MAX_FARDISTANCE
       /\ q[1] = m[1] + Len(Token(len, d - 1)) /\ q[2] = m[2] + len + 2
       /\ \A i \in 1 .. Len(Token(len, d - 1)) : o[m[1] + i] = Token(len, d - 1)[i]
       /\ \A p \in m[2] .. q[2] - 1 : s[p + 1] = s[p - d + 1]

IsToken(s, o, m, q) == IsLiterals(s, o, m, q) \/ IsMatch(s, o, m, q)

\* The first r bytes of o are tokens for the first w bytes of the input s.
Tokens(s, o, M, r, w) ==
  /\ r \in Nat /\ w \in Nat /\ M \subseteq (0 .. r) \X (0 .. w)
  /\ <<0, 0>> \in M /\ <<r, w>> \in M
  /\ \A m \in M : m = <<r, w>> \/ \E q \in M : IsToken(s, o, m, q)

\* A token is longer than its first byte, and stands for some input.
LEMMA TokenIsLong ==
  ASSUME NEW s, NEW o, NEW m \in Nat \X Nat, NEW q \in Nat \X Nat, IsToken(s, o, m, q)
  PROVE  q[1] >= m[1] + 2 /\ q[2] > m[2]
<1>1. m[1] \in Nat /\ m[2] \in Nat /\ q[1] \in Nat /\ q[2] \in Nat
  OBVIOUS
<1>2. CASE IsLiterals(s, o, m, q)
  <2> DEFINE c == Lead(o, m[1])
  <2>1. c \in 0 .. MAX_COPY - 1 /\ q[1] = m[1] + c + 2 /\ q[2] = m[2] + c + 1
    BY <1>2 DEF IsLiterals
  <2> HIDE DEF c
  <2> QED
    BY <1>1, <2>1
<1>3. CASE IsMatch(s, o, m, q)
  <2>1. PICK len \in Nat \ {0}, d \in 1 .. m[2] :
          d < MAX_FARDISTANCE /\ q[1] = m[1] + Len(Token(len, d - 1)) /\ q[2] = m[2] + len + 2
    BY <1>3 DEF IsMatch
  <2>2. d - 1 \in Nat /\ d - 1 < MAX_FARDISTANCE
    BY <1>1, <2>1, Distances
  <2>3. PICK k \in Nat, high \in Nat : Says(Token(len, d - 1), len, d - 1, k, high)
    BY <2>2, TokenSays
  <2> DEFINE t == Token(len, d - 1)
             e == IF t[k + 2] = Bytes - 1 /\ high = Highs THEN 2 ELSE 0
  <2>4. Len(t) = k + 2 + e /\ e \in Nat
    BY <2>3 DEF Says
  <2> HIDE DEF t, e
  <2>5. q[1] = m[1] + Len(t) /\ q[2] = m[2] + len + 2
    BY <2>1 DEF t
  <2> QED
    BY <1>1, <2>4, <2>5
<1> QED
  BY <1>2, <1>3 DEF IsToken

\* Tokens are what they are whatever comes after them, and the flag in the
\* first byte changes none.
LEMMA TokensKept ==
  ASSUME NEW s, NEW o, NEW u, NEW M, NEW r, NEW w, Tokens(s, o, M, r, w),
         r > 0 => u[1] % MAX_COPY = o[1] % MAX_COPY,
         \A i \in 2 .. r : u[i] = o[i]
  PROVE  Tokens(s, u, M, r, w)
<1>1. r \in Nat /\ w \in Nat /\ M \subseteq (0 .. r) \X (0 .. w)
  BY DEF Tokens
<1>2. ASSUME NEW m \in M, NEW q \in M, IsToken(s, o, m, q) PROVE IsToken(s, u, m, q)
  <2>1. m[1] \in 0 .. r /\ q[1] \in 0 .. r /\ m \in Nat \X Nat /\ q \in Nat \X Nat
    BY <1>1
  <2>2. q[1] >= m[1] + 2
    BY <1>2, <2>1, TokenIsLong
  <2>3. Lead(u, m[1]) = Lead(o, m[1])
    <3>1. CASE m[1] = 0
      BY <1>1, <2>1, <2>2, <3>1 DEF Lead
    <3>2. CASE m[1] # 0
      <4>1. m[1] + 1 \in 2 .. r
        BY <1>1, <2>1, <2>2, <3>2
      <4> QED
        BY <3>2, <4>1 DEF Lead
    <3> QED
      BY <3>1, <3>2
  <2>4. CASE IsLiterals(s, o, m, q)
    <3> DEFINE c == Lead(o, m[1])
    <3>1. /\ c \in 0 .. MAX_COPY - 1 /\ q[1] = m[1] + c + 2 /\ q[2] = m[2] + c + 1
          /\ \A i \in 0 .. c : o[m[1] + 2 + i] = s[m[2] + i + 1]
      BY <2>4 DEF IsLiterals
    <3> HIDE DEF c
    <3>2. \A i \in 0 .. c : m[1] + 2 + i \in 2 .. r
      BY <1>1, <2>1, <3>1, FormatSizes
    <3>3. \A i \in 0 .. c : u[m[1] + 2 + i] = s[m[2] + i + 1]
      BY <3>1, <3>2
    <3>4. Lead(u, m[1]) = c
      BY <2>3 DEF c
    <3> QED
      BY <3>1, <3>3, <3>4 DEF IsLiterals, IsToken
  <2>5. CASE IsMatch(s, o, m, q)
    <3>1. m[1] # 0
      BY <2>5 DEF IsMatch
    <3>2. PICK len \in Nat \ {0}, d \in 1 .. m[2] :
            /\ d < MAX_FARDISTANCE
            /\ q[1] = m[1] + Len(Token(len, d - 1)) /\ q[2] = m[2] + len + 2
            /\ \A i \in 1 .. Len(Token(len, d - 1)) : o[m[1] + i] = Token(len, d - 1)[i]
            /\ \A p \in m[2] .. q[2] - 1 : s[p + 1] = s[p - d + 1]
      BY <2>5 DEF IsMatch
    <3>3. \A i \in 1 .. Len(Token(len, d - 1)) : u[m[1] + i] = Token(len, d - 1)[i]
      <4> DEFINE t == Token(len, d - 1)
      <4>1. q[1] = m[1] + Len(t) /\ \A i \in 1 .. Len(t) : o[m[1] + i] = t[i]
        BY <3>2
      <4> HIDE DEF t
      <4>2. \A i \in 1 .. Len(t) : i \in Nat /\ i <= Len(t) /\ i >= 1
        <5>1. Len(t) \in Int
          <6>1. d - 1 \in Nat
            BY <2>1
          <6>2. t \in Seq(Nat)
            BY <3>2, <6>1, TokenIs DEF t
          <6> QED
            BY <6>2
        <5> QED
          BY <5>1
      <4>3. Len(t) = q[1] - m[1]
        <5>1. Len(t) \in Int
          <6>1. d - 1 \in Nat
            BY <2>1
          <6>2. t \in Seq(Nat)
            BY <3>2, <6>1, TokenIs DEF t
          <6> QED
            BY <6>2
        <5> QED
          BY <2>1, <4>1, <5>1
      <4>4. \A i \in 1 .. Len(t) : m[1] + i \in 2 .. r
        BY <1>1, <2>1, <3>1, <4>2, <4>3
      <4>5. \A i \in 1 .. Len(t) : u[m[1] + i] = t[i]
        BY <4>1, <4>4
      <4> QED
        BY <4>5 DEF t
    <3> QED
      BY <3>1, <3>2, <3>3 DEF IsMatch, IsToken
  <2> QED
    BY <1>2, <2>4, <2>5 DEF IsToken
<1>3. \A m \in M : m = <<r, w>> \/ \E q \in M : IsToken(s, u, m, q)
  BY <1>2 DEF Tokens
<1> QED
  BY <1>1, <1>3 DEF Tokens

LEMMA OneTokenMore ==
  ASSUME NEW s, NEW o, NEW M, NEW r, NEW w, Tokens(s, o, M, r, w),
         NEW r2 \in Nat, NEW w2 \in Nat, IsToken(s, o, <<r, w>>, <<r2, w2>>)
  PROVE  Tokens(s, o, M \cup {<<r2, w2>>}, r2, w2)
<1> DEFINE N == M \cup {<<r2, w2>>}
<1>1. /\ r \in Nat /\ w \in Nat /\ M \subseteq (0 .. r) \X (0 .. w) /\ <<0, 0>> \in M
      /\ <<r, w>> \in M
      /\ \A m \in M : m = <<r, w>> \/ \E q \in M : IsToken(s, o, m, q)
  BY DEF Tokens
<1>2. r2 >= r /\ w2 >= w
  <2>1. <<r, w>> \in Nat \X Nat /\ <<r2, w2>> \in Nat \X Nat
    BY <1>1
  <2>2. <<r2, w2>>[1] >= <<r, w>>[1] + 2 /\ <<r2, w2>>[2] > <<r, w>>[2]
    BY <2>1, TokenIsLong
  <2> QED
    BY <1>1, <2>2
<1>3. N \subseteq (0 .. r2) \X (0 .. w2)
  <2>1. 0 .. r \subseteq 0 .. r2 /\ 0 .. w \subseteq 0 .. w2 /\ r2 \in 0 .. r2 /\ w2 \in 0 .. w2
    BY <1>1, <1>2
  <2> QED
    BY <1>1, <2>1
<1>4. ASSUME NEW m \in N PROVE m = <<r2, w2>> \/ \E q \in N : IsToken(s, o, m, q)
  <2>1. CASE m = <<r2, w2>>
    BY <2>1
  <2>2. CASE m = <<r, w>>
    BY <2>2
  <2>3. CASE m \in M /\ m # <<r, w>>
    BY <1>1, <2>3
  <2> QED
    BY <2>1, <2>2, <2>3
<1> QED
  BY <1>1, <1>3, <1>4 DEF Tokens

\* At the end of the tokens, and only there, all of the input was read.
LEMMA EndOfTokens ==
  ASSUME NEW s, NEW o, NEW M, NEW r, NEW w, Tokens(s, o, M, r, w), NEW m \in M
  PROVE  /\ m[1] = r => m = <<r, w>>
         /\ m[1] # r => \E q \in M : IsToken(s, o, m, q)
<1>1. /\ r \in Nat /\ w \in Nat /\ M \subseteq (0 .. r) \X (0 .. w)
      /\ m = <<r, w>> \/ \E q \in M : IsToken(s, o, m, q)
  BY DEF Tokens
<1>2. CASE m = <<r, w>>
  BY <1>2
<1>3. ASSUME NEW q \in M, IsToken(s, o, m, q) PROVE m[1] # r
  <2>1. m \in Nat \X Nat /\ q \in Nat \X Nat /\ q[1] \in 0 .. r /\ m[1] \in 0 .. r
    BY <1>1
  <2>2. q[1] >= m[1] + 2
    BY <1>3, <2>1, TokenIsLong
  <2> QED
    BY <1>1, <2>1, <2>2
<1> QED
  BY <1>1, <1>2, <1>3

-----------------------------------------------------------------------------
(* How far a match goes: every byte it stands for repeats the one d before. *)

LEMMA MatchRepeats ==
  ASSUME length \in Nat, ip \in Nat, ip < ip_limit, NEW d \in 1 .. ip, NEW n \in {3, 5},
         SameBytes(d, n)
  PROVE  /\ MatchEnd(d, ip + n) \in ip + 4 .. length
         /\ \A p \in ip .. MatchEnd(d, ip + n) - 2 : At(p) = At(p - d)
<1> DEFINE from == ip + n
           ends == WordEnds(d, from)
           p == Min(ends)
           end == MatchEnd(d, from)
           x == IF d = 1 THEN end ELSE end - 1
<1>1. /\ WordSize \in Nat /\ WordSize >= 2 /\ TailSize \in Nat /\ TailSize >= WordSize + 4
      /\ ip_bound = length - 2 /\ ip_limit = length - TailSize
  BY WordSizes DEF ip_bound, ip_limit
<1>2. from \in Nat /\ from = ip + n /\ from >= ip + 3 /\ from <= length - WordSize
  BY <1>1
<1>3. \A q \in Nat : NearEnd(q) <=> q >= length - WordSize
  BY <1>1, WordSizes DEF NearEnd
<1>4. end \in ip + 3 .. length
  BY MatchEndIs
<1> HIDE DEF from
\* Some word is the last one that is compared, and those before it agree.
<1>5. /\ p \in from .. length /\ (NearEnd(p) \/ Differs(d, p))
      /\ \A q \in from .. p - 1 : AgreesAt(d, q)
  <2>1. ends \subseteq Nat /\ ends \subseteq from .. length
    BY <1>2 DEF WordEnds
  <2>2. ends # {}
    <3> DEFINE words == (length - from) \div WordSize
               left == (length - from) % WordSize
               q == from + words * WordSize
    <3>1. length - from \in Nat /\ WordSize \in Nat \ {0}
      BY <1>1, <1>2
    <3>2. /\ words \in Nat /\ left \in 0 .. WordSize - 1
          /\ length - from = WordSize * words + left
      BY <3>1, Division
    <3> HIDE DEF words, left
    <3>3. WordSize * words = words * WordSize /\ words * WordSize \in Nat
      BY <1>1, <3>2
    <3>4. q \in from .. length /\ q - from = words * WordSize + 0 /\ q >= length - WordSize
      BY <1>1, <1>2, <3>2, <3>3
    <3>5. (words * WordSize + 0) % WordSize = 0
      <4>1. 0 \in 0 .. WordSize - 1 /\ WordSize \in Nat \ {0}
        BY <1>1
      <4> QED
        BY <3>2, <4>1, Remainder
    <3>6. NearEnd(q)
      BY <1>2, <1>3, <3>2, <3>3, <3>4
    <3> HIDE DEF q
    <3>7. q \in ends
      BY <3>4, <3>5, <3>6 DEF WordEnds
    <3> QED
      BY <3>7
  <2>3. p \in ends /\ \A q \in ends : p <= q
    <3> HIDE DEF ends
    <3> QED
      BY <2>1, <2>2, LeastNumber
  <2>4. p \in from .. length /\ (NearEnd(p) \/ Differs(d, p))
    <3> HIDE DEF p
    <3> QED
      BY <2>3 DEF WordEnds
  <2> HIDE DEF p
  <2>5. ASSUME NEW q \in from .. p - 1 PROVE AgreesAt(d, q)
    <3> DEFINE w == (q - from) \div WordSize
               i == (q - from) % WordSize
               b == from + w * WordSize
    <3>1. q - from \in Nat /\ WordSize \in Nat \ {0}
      BY <1>1, <1>2
    <3>2. w \in Nat /\ i \in 0 .. WordSize - 1 /\ q - from = WordSize * w + i
      BY <3>1, Division
    <3> HIDE DEF w, i
    <3>3. WordSize * w = w * WordSize /\ w * WordSize \in Nat
      BY <1>1, <3>2
    <3>4. b \in from .. length /\ b < p /\ b + i = q /\ b - from = w * WordSize + 0
      BY <1>1, <1>2, <2>4, <3>2, <3>3
    <3>5. (w * WordSize + 0) % WordSize = 0
      <4>1. 0 \in 0 .. WordSize - 1 /\ WordSize \in Nat \ {0}
        BY <1>1
      <4> QED
        BY <3>2, <4>1, Remainder
    <3> HIDE DEF b
    <3>6. b \notin ends
      <4>1. SUFFICES ASSUME b \in ends PROVE FALSE
        OBVIOUS
      <4>2. p <= b
        BY <2>3, <4>1
      <4> QED
        BY <1>2, <2>4, <3>4, <4>2
    <3>7. ~Differs(d, b)
      BY <3>4, <3>5, <3>6 DEF WordEnds
    <3>8. AgreesAt(d, b + i)
      BY <3>2, <3>7 DEF Differs
    <3> QED
      BY <3>4, <3>8
  <2> QED
    BY <2>4, <2>5
<1>6. end = IF NearEnd(p) THEN IF p < ip_bound THEN p ELSE ip_bound ELSE ByteEnd(d, p)
  BY DEF MatchEnd
<1> HIDE DEF p, ends, end
\* Then byte by byte
<1>7. end >= ip + 4 /\ \A q \in from .. x - 1 : AgreesAt(d, q)
  <2>1. CASE NearEnd(p)
    <3>1. p >= length - WordSize
      BY <1>2, <1>3, <1>5, <2>1
    <3>2. end <= p /\ end >= ip + 4
      BY <1>1, <1>2, <1>5, <1>6, <2>1, <3>1
    <3> QED
      BY <1>2, <1>4, <1>5, <3>2
  <2>2. CASE ~NearEnd(p)
    <3>1. p \in Nat /\ p < length - WordSize
      BY <1>1, <1>2, <1>3, <1>5, <2>2
    <3>2. CASE Stops(d, p) = {}
      <4>1. end = ip_bound
        BY <1>6, <2>2, <3>2 DEF ByteEnd
      <4>2. \A q \in p .. ip_bound - 1 : AgreesAt(d, q)
        BY <3>2 DEF Stops
      <4> QED
        BY <1>1, <1>2, <1>4, <1>5, <3>1, <4>1, <4>2
    <3>3. CASE Stops(d, p) # {}
      <4> DEFINE stops == Stops(d, p)
                 m == Min(stops)
      <4>1. stops \subseteq Nat /\ stops \subseteq p .. ip_bound - 1
        BY <1>1, <3>1 DEF Stops
      <4>2. m \in stops /\ \A q \in stops : m <= q
        BY <3>3, <4>1, LeastNumber
      <4>3. end = m + (IF d = 1 THEN 0 ELSE 1)
        BY <1>6, <2>2, <3>3 DEF ByteEnd
      <4>4. m \in p .. ip_bound - 1 /\ ~AgreesAt(d, m)
        <5> HIDE DEF m
        <5> QED
          BY <4>1, <4>2 DEF Stops
      <4> HIDE DEF m
      <4>5. ASSUME NEW q \in from .. m - 1 PROVE AgreesAt(d, q)
        <5>1. CASE q < p
          BY <1>2, <1>5, <5>1
        <5>2. CASE ~(q < p)
          <6>1. q \in p .. ip_bound - 1 /\ ~(m <= q)
            BY <1>1, <1>2, <3>1, <4>4, <5>2
          <6>2. q \notin stops
            BY <4>2, <6>1
          <6> QED
            BY <6>1, <6>2 DEF Stops
        <5> QED
          BY <5>1, <5>2
      <4>6. end >= ip + 4
        <5>1. CASE d # 1
          BY <1>1, <1>2, <1>5, <4>3, <4>4, <5>1
        <5>2. CASE d = 1 /\ m > ip + 3
          BY <1>1, <1>2, <1>5, <4>3, <4>4, <5>2
        <5>3. CASE d = 1 /\ m = ip + 3
          <6>1. m - 1 = ip + 2
            BY <5>3
          <6> QED
            BY <4>4, <5>3, <6>1 DEF AgreesAt
        <5> QED
          BY <1>1, <1>2, <1>5, <4>4, <5>1, <5>2, <5>3
      <4>7. \A q \in from .. x - 1 : q \in from .. m - 1
        BY <1>1, <1>2, <1>4, <4>3, <4>4
      <4> QED
        BY <4>5, <4>6, <4>7
    <3> QED
      BY <3>2, <3>3
  <2> QED
    BY <2>1, <2>2
<1>8. ASSUME NEW q \in ip .. end - 2 PROVE At(q) = At(q - d)
  <2>1. q \in Nat /\ end \in Nat
    BY <1>4
  <2>2. CASE q < from
    <3>1. q - ip \in 0 .. n - 1 /\ ip + (q - ip) = q /\ ip - d + (q - ip) = q - d
      BY <1>2, <2>1, <2>2
    <3>2. At(ip + (q - ip)) = At(ip - d + (q - ip))
      BY <3>1 DEF SameBytes
    <3> QED
      BY <3>1, <3>2
  <2>3. CASE q >= from /\ d # 1
    <3>1. q \in from .. x - 1
      BY <1>2, <1>4, <2>1, <2>3
    <3> QED
      BY <1>7, <2>3, <3>1 DEF AgreesAt
  <2>4. CASE q >= from /\ d = 1
    <3>1. q \in from .. x - 1 /\ q + 1 \in from .. x - 1 /\ (q + 1) - 1 = q
      BY <1>2, <1>4, <2>1, <2>4
    <3>2. AgreesAt(1, q) /\ AgreesAt(1, q + 1)
      BY <1>7, <2>4, <3>1
    <3>3. At(q - 1) = At(ip + 2) /\ At((q + 1) - 1) = At(ip + 2)
      BY <3>2 DEF AgreesAt
    <3> QED
      BY <2>4, <3>1, <3>3
  <2> QED
    BY <1>2, <2>1, <2>2, <2>3, <2>4
<1> QED
  BY <1>4, <1>7, <1>8 DEF from, end

-----------------------------------------------------------------------------
(* Copies                                                                  *)

Agree(t, s, w) == \A i \in 1 .. w : t[i] = s[i]
RepeatsNext(t, w, n, d) == \A i \in w + 1 .. w + n : t[i] = t[i - d]

\* When the bytes after the first w repeat those d before, in s and in t, then
\* t is s as soon as the first w bytes are.
LEMMA Repeated ==
  ASSUME NEW s, NEW t, NEW w \in Nat, NEW n \in Nat, NEW d \in 1 .. w,
         Agree(t, s, w), RepeatsNext(t, w, n, d), RepeatsNext(s, w, n, d)
  PROVE  Agree(t, s, w + n)
<1> DEFINE bad == {i \in 1 .. w + n : t[i] # s[i]}
           m == Min(bad)
<1>1. SUFFICES ASSUME bad # {} PROVE FALSE
  BY DEF Agree
<1>2. bad \subseteq Nat
  OBVIOUS
<1>3. m \in bad /\ \A i \in bad : m <= i
  <2> HIDE DEF bad
  <2> QED
    BY <1>1, <1>2, LeastNumber
<1> HIDE DEF m
<1>4. m \in 1 .. w + n /\ t[m] # s[m]
  BY <1>3
<1>5. m \in w + 1 .. w + n
  BY <1>4 DEF Agree
<1>6. m - d \in 1 .. w + n /\ m - d < m
  BY <1>5
<1>7. t[m - d] = s[m - d]
  <2>1. m - d \notin bad
    BY <1>3, <1>6
  <2> QED
    BY <1>6, <2>1
<1>8. t[m] = t[m - d] /\ s[m] = s[m - d]
  BY <1>5 DEF RepeatsNext
<1> QED
  BY <1>4, <1>7, <1>8

LEMMA UpTo ==
  ASSUME NEW n \in Nat, NEW S, 0 \in S, \A i \in 0 .. n - 1 : i \in S => i + 1 \in S
  PROVE  n \in S
<1> DEFINE bad == {i \in 0 .. n : i \notin S}
           m == Min(bad)
<1>1. SUFFICES ASSUME bad # {} PROVE FALSE
  OBVIOUS
<1>2. bad \subseteq Nat
  OBVIOUS
<1>3. m \in bad /\ \A i \in bad : m <= i
  <2> HIDE DEF bad
  <2> QED
    BY <1>1, <1>2, LeastNumber
<1> HIDE DEF m
<1>4. m # 0 /\ m \in 0 .. n /\ m \notin S
  BY <1>3
<1>5. m - 1 \in 0 .. n - 1 /\ m - 1 + 1 = m /\ m - 1 \in 0 .. n
  BY <1>4
<1>6. m - 1 \in S
  <2>1. m - 1 \notin bad
    BY <1>3, <1>5
  <2> QED
    BY <1>5, <2>1
<1> QED
  BY <1>4, <1>5, <1>6

\* t is the old output and bytes that repeat those d before them.
Repeats(t, old, d) ==
  /\ t \in Seq(Nat) /\ Len(t) >= Len(old)
  /\ \A i \in 1 .. Len(old) : t[i] = old[i]
  /\ \A i \in Len(old) + 1 .. Len(t) : t[i] = t[i - d]

\* A unit no longer than the distance reads nothing that is not yet there.
LEMMA ExtendedRepeats ==
  ASSUME NEW old \in Seq(Nat), NEW d \in 1 .. Len(old), NEW u \in 1 .. d, NEW t,
         Repeats(t, old, d)
  PROVE  Repeats(Extended(t, d, u), old, d) /\ Len(Extended(t, d, u)) = Len(t) + u
<1> DEFINE n == Len(t)
           unit == [i \in 1 .. u |-> IF n - d + i <= n THEN t[n - d + i] ELSE Garbage]
           e == t \o unit
<1>1. /\ t \in Seq(Nat) /\ n \in Nat /\ Len(old) \in Nat /\ n >= Len(old) /\ d \in Nat /\ u \in Nat
      /\ \A i \in 1 .. Len(old) : t[i] = old[i]
      /\ \A i \in Len(old) + 1 .. n : t[i] = t[i - d]
  BY DEF Repeats
<1> HIDE DEF n
<1>2. \A i \in 1 .. u : unit[i] = t[n - d + i] /\ n - d + i \in 1 .. n
  BY <1>1
<1>3. unit \in Seq(Nat) /\ Len(unit) = u
  <2>1. ASSUME NEW i \in 1 .. u PROVE unit[i] \in Nat
    <3>1. unit[i] = t[n - d + i] /\ n - d + i \in 1 .. n
      BY <1>2
    <3> HIDE DEF unit
    <3> QED
      BY <1>1, <3>1 DEF n
  <2>2. unit = [i \in 1 .. u |-> unit[i]]
    OBVIOUS
  <2> HIDE DEF unit
  <2>3. unit \in [1 .. u -> Nat]
    BY <2>1, <2>2
  <2> QED
    BY <1>1, <2>3
<1> HIDE DEF unit
<1>4. /\ e \in Seq(Nat) /\ Len(e) = n + u
      /\ \A i \in 1 .. n : e[i] = t[i]
      /\ \A i \in 1 .. u : e[n + i] = unit[i]
  BY <1>1, <1>3, Joined, JoinedAt DEF n
<1>5. Extended(t, d, u) = e
  BY DEF Extended, n, unit
<1> HIDE DEF e
<1>6. \A i \in 1 .. Len(old) : e[i] = old[i]
  BY <1>1, <1>4
<1>7. ASSUME NEW i \in Len(old) + 1 .. n + u PROVE e[i] = e[i - d]
  <2>1. CASE i <= n
    <3>1. i \in Len(old) + 1 .. n /\ i \in 1 .. n /\ i - d \in 1 .. n
      BY <1>1, <2>1
    <3> QED
      BY <1>1, <1>4, <3>1
  <2>2. CASE ~(i <= n)
    <3>1. i - n \in 1 .. u /\ n + (i - n) = i /\ n - d + (i - n) = i - d /\ i - d \in 1 .. n
      BY <1>1, <2>2
    <3>2. e[n + (i - n)] = unit[i - n] /\ unit[i - n] = t[n - d + (i - n)]
      BY <1>2, <1>4, <3>1
    <3>3. e[i - d] = t[i - d]
      BY <1>4, <3>1
    <3> QED
      BY <3>1, <3>2, <3>3
  <2> QED
    BY <2>1, <2>2
<1>8. Repeats(e, old, d)
  BY <1>1, <1>4, <1>6, <1>7 DEF Repeats
<1> QED
  BY <1>4, <1>5, <1>8 DEF n

\* The equation of the function in Copies
IsWritten(f, d, u, k) ==
  f = [i \in 0 .. k |-> IF i = 0 THEN output ELSE Extended(f[i - 1], d, u)]

LEMMA WrittenExists ==
  ASSUME NEW d, NEW u, NEW k \in Nat
  PROVE  \E f : IsWritten(f, d, u, k)
<1> DEFINE S == {m \in 0 .. k : \E f : IsWritten(f, d, u, m)}
<1>1. 0 \in S
  <2>1. IsWritten([i \in 0 .. 0 |-> output], d, u, 0)
    BY DEF IsWritten
  <2> QED
    BY <2>1
<1>2. ASSUME NEW m \in 0 .. k - 1, m \in S PROVE m + 1 \in S
  <2>1. PICK f : IsWritten(f, d, u, m)
    BY <1>2
  <2> DEFINE h == [i \in 0 .. m + 1 |-> IF i = m + 1 THEN Extended(f[m], d, u) ELSE f[i]]
  <2>2. m \in Nat /\ m + 1 \in 0 .. k
    OBVIOUS
  <2>3. ASSUME NEW i \in 0 .. m + 1 PROVE h[i] = IF i = 0 THEN output ELSE Extended(h[i - 1], d, u)
    <3>1. CASE i = 0
      BY <2>1, <2>2, <3>1 DEF IsWritten
    <3>2. CASE i = m + 1
      <4>1. h[m] = f[m] /\ h[m + 1] = Extended(f[m], d, u) /\ i - 1 = m /\ i # 0
        BY <2>2, <3>2
      <4> QED
        BY <3>2, <4>1
    <3>3. CASE i \in 1 .. m
      <4>1. i - 1 \in 0 .. m + 1 /\ i - 1 # m + 1 /\ i # m + 1 /\ i # 0 /\ i \in 0 .. m
        BY <2>2, <3>3
      <4>2. h[i] = f[i] /\ h[i - 1] = f[i - 1]
        BY <4>1
      <4>3. f[i] = Extended(f[i - 1], d, u)
        BY <2>1, <4>1 DEF IsWritten
      <4> QED
        BY <4>1, <4>2, <4>3
    <3> QED
      BY <2>2, <3>1, <3>2, <3>3
  <2>4. IsWritten(h, d, u, m + 1)
    <3>1. h = [i \in 0 .. m + 1 |-> h[i]]
      OBVIOUS
    <3> HIDE DEF h
    <3> QED
      BY <2>3, <3>1 DEF IsWritten
  <2> HIDE DEF h
  <2> QED
    BY <2>2, <2>4
<1> HIDE DEF S
<1>3. k \in S
  BY <1>1, <1>2, UpTo
<1> QED
  BY <1>3 DEF S

LEMMA CopiesRepeat ==
  ASSUME output \in Seq(Nat), NEW d \in 1 .. Len(output), NEW u \in 1 .. d, NEW k \in Nat
  PROVE  Repeats(Copies(d, u, k), output, d) /\ Len(Copies(d, u, k)) = Len(output) + k * u
<1> DEFINE f == CHOOSE g : IsWritten(g, d, u, k)
<1>1. IsWritten(f, d, u, k)
  BY WrittenExists
<1>2. Copies(d, u, k) = f[k]
  BY DEF Copies, IsWritten
<1> HIDE DEF f
<1> DEFINE S == {m \in 0 .. k : Repeats(f[m], output, d) /\ Len(f[m]) = Len(output) + m * u}
<1>3. u \in Nat /\ Len(output) \in Nat
  OBVIOUS
<1>4. 0 \in S
  <2>1. f[0] = output /\ 0 * u = 0
    BY <1>1, <1>3 DEF IsWritten
  <2>2. Repeats(output, output, d)
    BY <1>3 DEF Repeats
  <2> QED
    BY <1>3, <2>1, <2>2
<1>5. ASSUME NEW m \in 0 .. k - 1, m \in S PROVE m + 1 \in S
  <2>1. m + 1 \in 0 .. k /\ m + 1 # 0 /\ (m + 1) - 1 = m /\ m \in Nat
    OBVIOUS
  <2>2. f[m + 1] = Extended(f[m], d, u)
    BY <1>1, <2>1 DEF IsWritten
  <2>3. Repeats(f[m], output, d) /\ Len(f[m]) = Len(output) + m * u
    BY <1>5
  <2>4. Repeats(f[m + 1], output, d) /\ Len(f[m + 1]) = Len(f[m]) + u
    BY <2>2, <2>3, ExtendedRepeats
  <2>5. Len(output) + m * u + u = Len(output) + (m + 1) * u
    <3>1. m * u \in Nat /\ (m + 1) * u = m * u + u
      BY <1>3, <2>1
    <3> QED
      BY <1>3, <3>1
  <2> QED
    BY <2>1, <2>3, <2>4, <2>5
<1> HIDE DEF S
<1>6. k \in S
  BY <1>4, <1>5, UpTo
<1> QED
  BY <1>2, <1>6 DEF S

\* The beginning of s
BeginsAs(t, s) == t \in Seq(Nat) /\ Len(t) <= Len(s) /\ \A i \in 1 .. Len(t) : t[i] = s[i]

\* A copy, of any length and from any distance, is what comes next in an
\* input that repeats itself there.
LEMMA MatchCopied ==
  ASSUME NEW s \in Seq(Nat), BeginsAs(output, s),
         NEW d \in 1 .. Len(output), NEW n \in Nat \ {0}, Len(output) + n <= Len(s),
         \A p \in Len(output) .. Len(output) + n - 1 : s[p + 1] = s[p - d + 1]
  PROVE  LET t == IF d = 1 THEN output \o [i \in 1 .. n |-> Last(output)] ELSE CopyMatch(d, n)
         IN  BeginsAs(t, s) /\ Len(t) = Len(output) + n
<1> DEFINE w == Len(output)
<1>1. /\ output \in Seq(Nat) /\ w \in Nat /\ w >= 1 /\ d \in Nat
      /\ \A i \in 1 .. w : output[i] = s[i]
  BY DEF BeginsAs
<1>2. ASSUME NEW i \in w + 1 .. w + n PROVE s[i] = s[i - d]
  <2>1. i - 1 \in w .. w + n - 1 /\ (i - 1) + 1 = i /\ (i - 1) - d + 1 = i - d
    BY <1>1
  <2>2. s[(i - 1) + 1] = s[(i - 1) - d + 1]
    BY <2>1
  <2> QED
    BY <2>1, <2>2
<1>3. ASSUME NEW t, t \in Seq(Nat), Len(t) = w + n,
             \A i \in 1 .. w : t[i] = output[i],
             \A i \in w + 1 .. w + n : t[i] = t[i - d]
      PROVE  BeginsAs(t, s) /\ Len(t) = w + n
  <2>1. Agree(t, s, w)
    BY <1>1, <1>3 DEF Agree
  <2>2. RepeatsNext(t, w, n, d) /\ RepeatsNext(s, w, n, d)
    BY <1>2, <1>3 DEF RepeatsNext
  <2>3. Agree(t, s, w + n)
    <3>1. d \in 1 .. w /\ w \in Nat /\ n \in Nat
      BY <1>1
    <3> QED
      BY <2>1, <2>2, <3>1, Repeated
  <2>4. Len(t) <= Len(s) /\ Len(t) = w + n
    BY <1>3 DEF w
  <2> QED
    BY <1>3, <2>3, <2>4 DEF BeginsAs, Agree
<1>4. CASE d = 1
  <2> DEFINE last == [i \in 1 .. n |-> Last(output)]
             t == output \o last
  <2>1. Last(output) = output[w] /\ output[w] \in Nat
    BY <1>1 DEF Last
  <2>2. last \in Seq(Nat) /\ Len(last) = n /\ \A i \in 1 .. n : last[i] = output[w]
    BY <2>1
  <2> HIDE DEF last
  <2>3. /\ t \in Seq(Nat) /\ Len(t) = w + n
        /\ \A i \in 1 .. w : t[i] = output[i]
        /\ \A i \in 1 .. n : t[w + i] = last[i]
    BY <1>1, <2>2, Joined, JoinedAt
  <2> HIDE DEF t, w
  <2>4. ASSUME NEW i \in w + 1 .. w + n PROVE t[i] = t[i - d]
    <3>1. i - w \in 1 .. n /\ w + (i - w) = i
      BY SMTT(60), <1>1
    <3>2. t[i] = output[w]
      <4>1. t[w + (i - w)] = last[i - w]
        BY <2>3, <3>1
      <4> QED
        BY <2>2, <3>1, <4>1
    <3>3. CASE i = w + 1
      <4>1. i - d = w /\ w \in 1 .. w
        BY <1>1, <1>4, <3>3
      <4> QED
        BY <2>3, <3>2, <4>1
    <3>4. CASE i # w + 1
      <4>1. i - w - 1 \in 1 .. n /\ w + (i - w - 1) = i - d
        BY <1>1, <1>4, <3>4
      <4>2. t[w + (i - w - 1)] = last[i - w - 1]
        BY <2>3, <4>1
      <4> QED
        BY <2>2, <3>2, <4>1, <4>2
    <3> QED
      BY <3>3, <3>4
  <2>5. BeginsAs(t, s) /\ Len(t) = w + n
    BY <1>3, <2>3, <2>4
  <2> QED
    BY <1>4, <2>5 DEF t, last, w
<1>5. CASE d # 1
  <2> DEFINE u == Unit(d, n)
             k == (n + u - 1) \div u
             r == (n + u - 1) % u
             c == Copies(d, u, k)
             t == SubSeq(c, 1, w + n)
  <2>1. u \in 1 .. d
    BY <1>1, Sizes DEF Unit
  <2> HIDE DEF u
  <2>2. k \in Nat /\ r \in 0 .. u - 1 /\ n + u - 1 = u * k + r
    <3>1. n + u - 1 \in Nat /\ u \in Nat \ {0}
      BY <1>1, <2>1
    <3> QED
      BY <3>1, Division
  <2> HIDE DEF k, r
  <2>3. k * u >= n /\ k * u \in Nat
    <3>1. k * u = u * k /\ u * k \in Nat /\ u \in Nat
      BY <1>1, <2>1, <2>2
    <3> QED
      BY <2>1, <2>2, <3>1
  <2>4. Repeats(c, output, d) /\ Len(c) = w + k * u
    BY <1>1, <2>1, <2>2, CopiesRepeat
  <2>5. CopyMatch(d, n) = t
    BY DEF CopyMatch, u, k
  <2> HIDE DEF c
  <2>6. /\ c \in Seq(Nat) /\ Len(c) >= w + n /\ Len(c) \in Nat
        /\ \A i \in 1 .. w : c[i] = output[i]
        /\ \A i \in w + 1 .. Len(c) : c[i] = c[i - d]
    BY <1>1, <2>3, <2>4 DEF Repeats
  <2>7. t \in Seq(Nat) /\ Len(t) = w + n /\ \A i \in 1 .. w + n : t[i] = c[i]
    <3> DEFINE m == w + n
    <3> HIDE DEF w
    <3>1. m \in 1 .. Len(c)
      BY <1>1, <2>6
    <3>2. t = SubSeq(c, 1, m)
      OBVIOUS
    <3> HIDE DEF m, t
    <3>3. t \in Seq(Nat) /\ Len(t) = m /\ \A i \in 1 .. m : t[i] = c[i]
      BY SMTT(60), <2>6, <3>1, <3>2
    <3> QED
      BY <3>3 DEF m
  <2> HIDE DEF t, w
  <2>8. \A i \in 1 .. w : t[i] = output[i]
    <3>1. \A i \in 1 .. w : i \in 1 .. w + n
      BY <1>1
    <3> QED
      BY <2>6, <2>7, <3>1
  <2>9. ASSUME NEW i \in w + 1 .. w + n PROVE t[i] = t[i - d]
    <3>1. d <= w
      BY DEF w
    <3>2. i \in 1 .. w + n /\ i - d \in 1 .. w + n /\ i \in w + 1 .. Len(c)
      BY SMTT(60), <1>1, <2>6, <3>1
    <3> QED
      BY <2>6, <2>7, <3>2
  <2>10. BeginsAs(t, s) /\ Len(t) = w + n
    BY <1>3, <2>7, <2>8, <2>9
  <2> QED
    BY <1>5, <2>5, <2>10 DEF w
<1> QED
  BY <1>4, <1>5

-----------------------------------------------------------------------------
(* blosclz_decompress reads a match as it was meant. *)
LEMMA LengthRead ==
  ASSUME out \in Seq(Nat), NEW i \in Nat \ {0}, NEW k \in Nat \ {0}, i + k - 1 <= Len(out),
         \A j \in i .. i + k - 2 : out[j] = Bytes - 1, out[i + k - 1] # Bytes - 1
  PROVE  LengthEnd(i) = i + k - 1
<1> DEFINE S == {j \in i .. Len(out) : out[j] # Bytes - 1 \/ j = Len(out)}
           m == Min(S)
<1>1. i + k - 1 \in S /\ S \subseteq Nat
  OBVIOUS
<1>2. m \in S /\ \A j \in S : m <= j
  <2> HIDE DEF S
  <2> QED
    BY <1>1, LeastNumber
<1>3. LengthEnd(i) = m
  BY DEF LengthEnd
<1> HIDE DEF m
<1>4. m \in i .. Len(out) /\ m <= i + k - 1
  BY <1>1, <1>2
<1>5. m = i + k - 1
  <2>1. SUFFICES ASSUME m # i + k - 1 PROVE FALSE
    OBVIOUS
  <2>2. m \in i .. i + k - 2 /\ m # Len(out)
    BY <1>4, <2>1
  <2>3. out[m] = Bytes - 1
    BY <2>2
  <2> QED
    BY <1>2, <2>2, <2>3
<1> QED
  BY <1>3, <1>5

LEMMA MatchRead ==
  ASSUME out \in Seq(Nat), rd \in Nat \ {0}, NEW len \in Nat \ {0}, NEW dist \in Nat,
         dist < MAX_FARDISTANCE,
         rd + Len(Token(len, dist)) <= Len(out),
         \A i \in 1 .. Len(Token(len, dist)) : out[rd + i] = Token(len, dist)[i]
  PROVE  /\ ctrl >= MAX_COPY
         /\ DecompressMatch =>
              IF Len(output) + (len + 2) > length \/ dist + 1 > Len(output) THEN Refuse
              ELSE /\ output' = IF dist + 1 = 1
                                THEN output \o [i \in 1 .. len + 2 |-> Last(output)]
                                ELSE CopyMatch(dist + 1, len + 2)
                   /\ Goto(rd + Len(Token(len, dist)))
                   /\ UNCHANGED <<args, ip, copy, out>>
<1> DEFINE t == Token(len, dist)
<1>1. PICK k \in Nat, hi \in Nat : Says(t, len, dist, k, hi)
  BY TokenSays
<1> DEFINE isfar == t[k + 2] = Bytes - 1 /\ hi = Highs
<1>2. /\ t \in Seq(Nat) /\ hi \in 0 .. MAX_COPY - 1
      /\ Len(t) = k + 2 + (IF isfar THEN 2 ELSE 0)
      /\ t[1] = Control(Field(len), hi)
      /\ len < Lens => k = 0
      /\ len >= Lens =>
           /\ k >= 1 /\ (k - 1) * (Bytes - 1) + t[k + 1] = len - Lens
           /\ t[k + 1] \in 0 .. Bytes - 2 /\ \A i \in 2 .. k : t[i] = Bytes - 1
      /\ dist = IF isfar THEN t[k + 3] * Bytes + t[k + 4] + MAX_DISTANCE ELSE hi * Bytes + t[k + 2]
  BY <1>1 DEF Says
<1> DEFINE extra == IF isfar THEN 2 ELSE 0
<1>3. /\ rd + Len(t) <= Len(out) /\ Len(t) = k + 2 + extra /\ extra \in {0, 2} /\ (isfar => extra = 2)
      /\ \A i \in 1 .. k + 2 + extra : out[rd + i] = t[i]
  BY <1>2
<1> HIDE DEF t, isfar, extra
<1>4. /\ Lens \in Nat /\ Bytes \in Nat /\ Bytes >= 2 /\ Len(out) \in Nat /\ MAX_COPY \in Nat
      /\ Field(len) \in 0 .. Lens /\ Field(len) # 0 /\ (Field(len) = Lens <=> len >= Lens)
  BY FormatSizes, Sizes DEF Field
<1>4a. /\ rd \in Nat /\ rd > 0 /\ extra \in Nat /\ k \in Nat /\ Len(out) \in Nat
       /\ rd + k + 2 <= Len(out)
  BY <1>3, <1>4
\* The control byte
<1>5. ctrl = Control(Field(len), hi)
  <2>1. ctrl = out[rd + 1]
    BY DEF ctrl
  <2>2. 1 \in 1 .. k + 2 + extra
    BY <1>3
  <2> QED
    BY <1>2, <1>3, <2>1, <2>2
<1>6. ctrl \div MAX_COPY = Field(len) /\ ctrl % MAX_COPY = hi /\ ~(ctrl < MAX_COPY)
  BY <1>2, <1>4, <1>5, ControlIs
<1>7. ctrl >= MAX_COPY
  <2>1. ctrl \in Nat
    <3>1. Field(len) \in Nat /\ hi \in Nat
      BY <1>2, <1>4
    <3>2. Control(Field(len), hi) \in Nat
      BY <3>1, BytesAreNumbers
    <3> QED
      BY <1>5, <3>2
  <2> QED
    BY <1>4, <1>6, <2>1
\* The length
<1>8. len >= Lens => /\ LengthEnd(rd + 2) = rd + 1 + k
                     /\ LengthMore(rd + 2) = len - Lens
  <2> HAVE len >= Lens
  <2>1. /\ k >= 1 /\ (k - 1) * (Bytes - 1) + t[k + 1] = len - Lens
        /\ t[k + 1] \in 0 .. Bytes - 2 /\ \A i \in 2 .. k : t[i] = Bytes - 1
    BY <1>2
  <2>2. \A j \in rd + 2 .. rd + 2 + k - 2 : out[j] = Bytes - 1
    <3> TAKE j \in rd + 2 .. rd + 2 + k - 2
    <3>1. j - rd \in 2 .. k /\ j - rd \in 1 .. k + 2 + extra /\ rd + (j - rd) = j
      BY <1>4a
    <3>2. out[rd + (j - rd)] = t[j - rd]
      BY <1>3, <3>1
    <3> QED
      BY <2>1, <3>1, <3>2
  <2>3. out[rd + 1 + k] = t[k + 1]
    <3>1. k + 1 \in 1 .. k + 2 + extra /\ rd + (k + 1) = rd + 1 + k
      BY <1>3
    <3>2. out[rd + (k + 1)] = t[k + 1]
      BY <1>3, <3>1
    <3> QED
      BY <3>1, <3>2
  <2>4. LengthEnd(rd + 2) = rd + 1 + k
    <3> DEFINE i == rd + 2
    <3>1. i \in Nat \ {0} /\ k \in Nat \ {0} /\ i + k - 1 = rd + 1 + k /\ i + k - 1 <= Len(out)
      <4>1. k >= 1
        BY <2>1
      <4> QED
        BY <1>4a, <4>1
    <3>2. out[i + k - 1] # Bytes - 1
      BY <1>4, <2>1, <2>3, <3>1
    <3>3. \A j \in i .. i + k - 2 : out[j] = Bytes - 1
      BY <2>2
    <3> HIDE DEF i
    <3>4. LengthEnd(i) = i + k - 1
      BY <3>1, <3>2, <3>3, LengthRead
    <3> QED
      BY <3>1, <3>4 DEF i
  <2>5. LengthMore(rd + 2) = ((rd + 1 + k) - (rd + 2)) * (Bytes - 1) + out[rd + 1 + k]
    BY <2>4 DEF LengthMore
  <2>6. (rd + 1 + k) - (rd + 2) = k - 1
    OBVIOUS
  <2> QED
    BY <2>1, <2>3, <2>4, <2>5, <2>6
\* The parts of the token, as DecompressMatch names them
<1> DEFINE field == ctrl \div MAX_COPY
           high == ctrl % MAX_COPY
           n == field + (IF field = Lens THEN LengthMore(rd + 2) ELSE 0) + 2
           at == IF field = Lens THEN LengthEnd(rd + 2) + 1 ELSE rd + 2
           far == out[at] = Bytes - 1 /\ high = Highs
           d == 1 + IF far THEN out[at + 1] * Bytes + out[at + 2] + MAX_DISTANCE
                    ELSE high * Bytes + out[at]
<1>9. n = len + 2
  <2>1. CASE len >= Lens
    <3>1. field = Lens /\ LengthMore(rd + 2) = len - Lens
      BY <1>4, <1>6, <1>8, <2>1
    <3> HIDE DEF field
    <3> QED
      BY <1>4, <3>1
  <2>2. CASE ~(len >= Lens)
    <3>1. field = len /\ field # Lens
      BY <1>4, <1>6, <2>2 DEF Field
    <3> HIDE DEF field
    <3> QED
      BY <3>1
  <2> QED
    BY <2>1, <2>2
<1>10. at = rd + (k + 2)
  <2>1. CASE len >= Lens
    <3>1. field = Lens /\ LengthEnd(rd + 2) = rd + 1 + k
      BY <1>4, <1>6, <1>8, <2>1
    <3> HIDE DEF field
    <3> QED
      BY <3>1
  <2>2. CASE ~(len >= Lens)
    <3>1. field # Lens /\ k = 0
      BY <1>2, <1>4, <1>6, <2>2
    <3> HIDE DEF field
    <3> QED
      BY <3>1
  <2> QED
    BY <2>1, <2>2
<1>11. out[at] = t[k + 2] /\ (isfar => out[at + 1] = t[k + 3] /\ out[at + 2] = t[k + 4])
  <2> HIDE DEF at
  <2>1. k + 2 \in 1 .. k + 2 + extra
    BY <1>3
  <2>2. isfar => k + 3 \in 1 .. k + 2 + extra /\ k + 4 \in 1 .. k + 2 + extra
    BY <1>3
  <2>3. at + 1 = rd + (k + 3) /\ at + 2 = rd + (k + 4)
    BY <1>10
  <2> QED
    BY <1>3, <1>10, <2>1, <2>2, <2>3
<1>12. far <=> isfar
  BY <1>6, <1>11 DEF isfar
<1>13. d = dist + 1
  <2>1. high = hi
    BY <1>6
  <2> HIDE DEF far, at, high
  <2>2. CASE isfar
    <3>1. d = 1 + (t[k + 3] * Bytes + t[k + 4] + MAX_DISTANCE)
      BY <1>11, <1>12, <2>2
    <3>2. dist = t[k + 3] * Bytes + t[k + 4] + MAX_DISTANCE
      BY <1>2, <2>2 DEF isfar
    <3> HIDE DEF d
    <3> QED
      BY <3>1, <3>2
  <2>3. CASE ~isfar
    <3>1. d = 1 + (hi * Bytes + t[k + 2])
      BY <1>11, <1>12, <2>1, <2>3
    <3>2. dist = hi * Bytes + t[k + 2]
      BY <1>2, <2>3 DEF isfar
    <3> HIDE DEF d
    <3> QED
      BY <3>1, <3>2
  <2> QED
    BY <2>2, <2>3
<1>14. at + (IF far THEN 2 ELSE 0) = rd + Len(t)
  <2>1. extra = IF far THEN 2 ELSE 0
    BY <1>12 DEF extra
  <2> HIDE DEF far, at
  <2> QED
    BY <1>3, <1>10, <2>1
<1>15. DecompressMatch =>
         IF Len(output) + n > length \/ d > Len(output) THEN Refuse
         ELSE /\ output' = IF d = 1 THEN output \o [i \in 1 .. n |-> Last(output)]
                           ELSE CopyMatch(d, n)
              /\ Goto(at + (IF far THEN 2 ELSE 0))
              /\ UNCHANGED <<args, ip, copy, out>>
  BY DEF DecompressMatch
<1> HIDE DEF field, high, n, at, far, d
<1>16. DecompressMatch =>
         IF Len(output) + (len + 2) > length \/ dist + 1 > Len(output) THEN Refuse
         ELSE /\ output' = IF dist + 1 = 1 THEN output \o [i \in 1 .. len + 2 |-> Last(output)]
                           ELSE CopyMatch(dist + 1, len + 2)
              /\ Goto(rd + Len(t))
              /\ UNCHANGED <<args, ip, copy, out>>
  BY <1>9, <1>13, <1>14, <1>15
<1> QED
  BY <1>7, <1>16 DEF t

-----------------------------------------------------------------------------
(* The invariant of the round trip.  While the input is compressed, what   *)
(* was written is tokens for the input before the current run of literals, *)
(* then the control byte of that run, then its literals.  While it is      *)
(* decompressed, the output is a prefix of the input and the next token    *)
(* one that was written there.                                             *)
Coded ==
  phase = "main" =>
    /\ \E M : Tokens(input, out, M, Len(out) - copy - 1, ip - copy)
    /\ Len(out) - copy - 1 = 0 => copy > 0
    /\ out[Len(out) - copy] = MAX_COPY - 1
    /\ \A i \in 0 .. copy - 1 : out[Len(out) - copy + 1 + i] = input[ip - copy + i + 1]

Decoded ==
  /\ phase = "start" => ip = 0 /\ copy = 0 /\ out = <<>>
  /\ phase \in {"start", "main", "out"} => rd = 0 /\ output = <<>>
  /\ phase = "decompress" =>
       /\ BeginsAs(output, input) /\ rd < Len(out)
       /\ \E M : Tokens(input, out, M, Len(out), Len(input)) /\ <<rd, Len(output)>> \in M
  /\ phase = "done" => output = input
  /\ phase # "refused"

LZComplete == LZInv /\ TypeOK /\ Coded /\ Decoded

LEMMA FullControlIs == Control(0, MAX_COPY - 1) = MAX_COPY - 1
<1>1. MAX_COPY - 1 \in 0 .. MAX_COPY - 1 /\ 0 \in 0 .. Lens /\ 0 * MAX_COPY = 0
  BY FormatSizes
<1>2. Control(0, MAX_COPY - 1) = 0 * MAX_COPY + (MAX_COPY - 1)
  BY <1>1, ControlIs
<1> QED
  BY <1>1, <1>2, FormatSizes

\* A run of literals whose control byte counts them is a token.
LEMMA RunIsToken ==
  ASSUME NEW s, NEW o, NEW r \in Nat, NEW w \in Nat, NEW c \in 1 .. MAX_COPY,
         o[r + 1] = c - 1, \A i \in 0 .. c - 1 : o[r + 2 + i] = s[w + i + 1]
  PROVE  IsToken(s, o, <<r, w>>, <<r + c + 1, w + c>>)
<1>1. MAX_COPY \in Nat /\ MAX_COPY > 2 /\ c \in Nat /\ c - 1 \in 0 .. MAX_COPY - 1
  BY FormatSizes
<1>2. Lead(o, r) = c - 1
  <2>1. CASE r = 0
    <3>1. 0 * MAX_COPY + (c - 1) = c - 1 /\ MAX_COPY \in Nat \ {0}
      BY <1>1
    <3>2. (0 * MAX_COPY + (c - 1)) % MAX_COPY = c - 1
      BY <1>1, <3>1, Remainder
    <3>3. r + 1 = 1
      BY <2>1
    <3> QED
      BY <2>1, <3>1, <3>2, <3>3 DEF Lead
  <2>2. CASE r # 0
    BY <2>2 DEF Lead
  <2> QED
    BY <2>1, <2>2
<1>3. r + c + 1 = r + (c - 1) + 2 /\ w + c = w + (c - 1) + 1
  BY <1>1
<1>4. IsLiterals(s, o, <<r, w>>, <<r + c + 1, w + c>>)
  BY <1>1, <1>2, <1>3 DEF IsLiterals
<1> QED
  BY <1>4 DEF IsToken

\* With its last run put right, all that was written is tokens.
LEMMA PatchedTokens ==
  ASSUME LZInv, Coded, phase = "main"
  PROVE  LET o == CountPatched(out)
         IN  /\ o \in Seq(Nat) /\ Len(o) > 0
             /\ \E M : Tokens(input, o, M, Len(o), ip)
<1> DEFINE o == CountPatched(out)
           r == Len(out) - copy - 1
           w == ip - copy
<1>1. /\ out \in Seq(Nat) /\ Len(out) \in Nat /\ ip \in Nat /\ copy \in 0 .. MAX_COPY - 1
      /\ copy < Len(out) /\ MAX_COPY \in Nat /\ MAX_COPY > 2 /\ copy \in Nat
  <2>1. input \in Seq(Nat) /\ length \in Nat
    BY DEF LZInv, length
  <2> QED
    BY <2>1, FormatSizes DEF LZInv
<1>2. PICK M : Tokens(input, out, M, r, w)
  BY DEF Coded
<1>3. /\ r = 0 => copy > 0
      /\ out[r + 1] = MAX_COPY - 1
      /\ \A i \in 0 .. copy - 1 : out[r + 2 + i] = input[w + i + 1]
  <2>1. r + 1 = Len(out) - copy /\ \A i \in 0 .. copy - 1 : r + 2 + i = Len(out) - copy + 1 + i
    BY <1>1
  <2> QED
    BY <2>1 DEF Coded
<1>4. r \in Nat /\ w \in Nat
  BY <1>2 DEF Tokens
<1>5. o \in Seq(Nat)
  BY <1>1, CountPatchedIs
<1>6. CASE copy > 0
  <2>1. o = [out EXCEPT ![r + 1] = copy - 1]
    <3>1. Control(0, copy - 1) = copy - 1
      <4>1. copy - 1 \in 0 .. MAX_COPY - 1 /\ 0 \in 0 .. Lens
        BY <1>1, <1>6, FormatSizes
      <4>2. Control(0, copy - 1) = 0 * MAX_COPY + (copy - 1)
        BY <4>1, ControlIs
      <4> QED
        BY <1>1, <4>2
    <3>2. o = [out EXCEPT ![Len(out) - copy] = Control(0, copy - 1)]
      BY <1>6 DEF CountPatched
    <3>3. Len(out) - copy = r + 1
      BY <1>1
    <3> QED
      BY <3>1, <3>2, <3>3
  <2>2. r + 1 \in 1 .. Len(out) /\ Len(out) = r + copy + 1 /\ ip = w + copy
    BY <1>1, <1>4
  <2> HIDE DEF o, r, w
  <2>3. /\ Len(o) = Len(out) /\ o[r + 1] = copy - 1
        /\ \A i \in 1 .. Len(out) : i # r + 1 => o[i] = out[i]
    BY <1>1, <2>1, <2>2
  <2>4. Tokens(input, o, M, r, w)
    <3>1. r > 0 => o[1] % MAX_COPY = out[1] % MAX_COPY
      BY <1>1, <1>4, <2>2, <2>3
    <3>2. \A i \in 2 .. r : o[i] = out[i]
      BY <1>1, <1>4, <2>2, <2>3
    <3> QED
      BY <1>2, <3>1, <3>2, TokensKept
  <2>5. IsToken(input, o, <<r, w>>, <<r + copy + 1, w + copy>>)
    <3>1. \A i \in 0 .. copy - 1 : o[r + 2 + i] = input[w + i + 1]
      <4>1. \A i \in 0 .. copy - 1 : r + 2 + i \in 1 .. Len(out) /\ r + 2 + i # r + 1
        BY <1>1, <1>4, <2>2
      <4> QED
        BY <1>3, <2>3, <4>1
    <3>2. copy \in 1 .. MAX_COPY
      BY <1>1, <1>6
    <3> QED
      BY <1>4, <2>3, <3>1, <3>2, RunIsToken
  <2>6. Tokens(input, o, M \cup {<<r + copy + 1, w + copy>>}, r + copy + 1, w + copy)
    <3>1. r + copy + 1 \in Nat /\ w + copy \in Nat
      BY <1>1, <1>4
    <3> QED
      BY <2>4, <2>5, <3>1, OneTokenMore
  <2>7. Len(o) > 0 /\ Len(o) = r + copy + 1
    BY <1>1, <2>2, <2>3
  <2> QED
    BY <1>5, <2>2, <2>6, <2>7 DEF o
<1>7. CASE ~(copy > 0)
  <2>1. copy = 0 /\ r = Len(out) - 1 /\ w = ip /\ r > 0
    BY <1>1, <1>3, <1>4, <1>7
  <2>2. o = SubSeq(out, 1, r)
    BY <1>7, <2>1 DEF CountPatched
  <2> HIDE DEF o, r
  <2>3. Len(o) = r /\ \A i \in 1 .. r : o[i] = out[i]
    BY <1>1, <1>4, <2>1, <2>2
  <2>4. Tokens(input, o, M, r, w)
    <3>1. r > 0 => o[1] % MAX_COPY = out[1] % MAX_COPY
      BY <1>4, <2>3
    <3>2. \A i \in 2 .. r : o[i] = out[i]
      BY <1>4, <2>3
    <3> QED
      BY <1>2, <3>1, <3>2, TokensKept
  <2> QED
    BY <1>5, <2>1, <2>3, <2>4 DEF o
<1> QED
  BY <1>6, <1>7

-----------------------------------------------------------------------------
(* Every step keeps it. *)

\* What the invariant says of a compression, with the types of its parts
LEMMA WhileCompressing ==
  ASSUME LZComplete, phase = "main"
  PROVE  /\ input \in Seq(Nat) /\ length \in Nat /\ length = Len(input)
         /\ op_limit \in Nat /\ out \in Seq(Nat) /\ Len(out) \in Nat
         /\ ip \in 0 .. length /\ ip \in Nat /\ copy \in 0 .. MAX_COPY - 1 /\ copy \in Nat
         /\ copy < Len(out) /\ MAX_COPY \in Nat /\ MAX_COPY > 2
         /\ rd = 0 /\ output = <<>> /\ Len(output) = 0
<1>1. input \in Seq(Nat) /\ length \in Nat /\ length = Len(input)
  BY DEF LZComplete, LZInv, length
<1> QED
  BY <1>1, FormatSizes DEF LZComplete, LZInv, Decoded

LEMMA GiveUpCompletes ==
  ASSUME LZComplete, phase \in {"start", "main"}, GiveUp, LZInv'
  PROVE  LZComplete'
<1>1. /\ phase' = "out" /\ input' = input /\ ip' = ip /\ copy' = copy /\ out' = out
      /\ rd' = rd /\ output' = output /\ length' = length
  BY DEF GiveUp, args, length
<1>2. rd = 0 /\ output = <<>>
  BY DEF LZComplete, Decoded
<1>3. TypeOK'
  BY <1>1 DEF LZComplete, TypeOK
<1>4. Coded' /\ Decoded'
  BY <1>1, <1>2 DEF Coded, Decoded
<1> QED
  BY <1>3, <1>4 DEF LZComplete

LEMMA LiteralCompletes ==
  ASSUME LZComplete, phase = "main", ip < length, Literal
  PROVE  LZComplete'
<1>1. LZInv'
  BY LiteralKeeps DEF LZComplete
<1>2. CASE GiveUp
  BY <1>1, <1>2, GiveUpCompletes
<1>3. CASE ~GiveUp
  <2> DEFINE next == IF NextCopy(copy) = 0 THEN <<Control(0, MAX_COPY - 1)>> ELSE <<>>
             r == Len(out) - copy - 1
             w == ip - copy
  <2>1. /\ ip' = ip + 1 /\ copy' = NextCopy(copy)
        /\ out' = out \o <<At(ip)>> \o next
        /\ phase' = phase /\ rd' = rd /\ output' = output
        /\ input' = input /\ length' = length
    BY <1>3 DEF Literal, args, length
  <2>2. /\ input \in Seq(Nat) /\ length \in Nat /\ length = Len(input)
        /\ op_limit \in Nat /\ out \in Seq(Nat) /\ Len(out) \in Nat
        /\ ip \in 0 .. length /\ ip \in Nat /\ copy \in 0 .. MAX_COPY - 1 /\ copy \in Nat
        /\ copy < Len(out) /\ MAX_COPY \in Nat /\ MAX_COPY > 2
        /\ rd = 0 /\ output = <<>> /\ Len(output) = 0
    BY WhileCompressing
  <2>3. copy' = IF copy = MAX_COPY - 1 THEN 0 ELSE copy + 1
    BY <2>1, <2>2, NextCopyIs
  <2>4. <<At(ip)>> \in Seq(Nat) /\ Len(<<At(ip)>>) = 1 /\ <<At(ip)>>[1] = input[ip + 1]
    BY <2>2, Bytewise DEF At
  <2>5. /\ next \in Seq(Nat)
        /\ copy' = 0 => Len(next) = 1 /\ next[1] = MAX_COPY - 1
        /\ copy' # 0 => next = <<>>
    BY <2>1, FullControl, FullControlIs
  <2> HIDE DEF next
  <2> DEFINE front == out \o <<At(ip)>>
             last == Len(out) + 1
  <2>6. /\ front \in Seq(Nat) /\ Len(front) = last
        /\ \A i \in 1 .. Len(out) : front[i] = out[i]
        /\ front[last] = input[ip + 1]
    <3>1. /\ front \in Seq(Nat) /\ Len(front) = Len(out) + Len(<<At(ip)>>)
          /\ \A i \in 1 .. Len(out) : front[i] = out[i]
          /\ \A i \in 1 .. Len(<<At(ip)>>) : front[Len(out) + i] = <<At(ip)>>[i]
      BY <2>2, <2>4, Joined, JoinedAt
    <3> HIDE DEF front
    <3>2. 1 \in 1 .. Len(<<At(ip)>>)
      BY <2>4
    <3> QED
      BY <2>4, <3>1, <3>2
  <2>7. out' = front \o next
    BY <2>1
  <2> HIDE DEF front
  <2>8. /\ out' \in Seq(Nat) /\ Len(out') = last + Len(next) /\ Len(next) \in Nat
        /\ \A i \in 1 .. last : out'[i] = front[i]
        /\ \A i \in 1 .. Len(next) : out'[last + i] = next[i]
    <3>1. Len(next) \in Nat
      BY <2>5
    <3>2. front \o next \in Seq(Nat) /\ Len(front \o next) = Len(front) + Len(next)
      BY <2>5, <2>6, Joined
    <3>3. /\ \A i \in 1 .. Len(front) : (front \o next)[i] = front[i]
          /\ \A i \in 1 .. Len(next) : (front \o next)[Len(front) + i] = next[i]
      BY <2>5, <2>6, JoinedAt
    <3> HIDE DEF last
    <3>4. Len(front) = last
      BY <2>6
    <3> QED
      BY <2>7, <3>1, <3>2, <3>3, <3>4
  <2>9. /\ \A i \in 1 .. Len(out) : out'[i] = out[i]
        /\ out'[last] = input[ip + 1]
    <3>1. last \in 1 .. last /\ \A i \in 1 .. Len(out) : i \in 1 .. last
      BY <2>2
    <3> QED
      BY <2>6, <2>8, <3>1
  <2>10. PICK M : Tokens(input, out, M, r, w)
    BY DEF LZComplete, Coded
  <2>11. r \in Nat /\ w \in Nat /\ Len(out) = r + copy + 1 /\ ip = w + copy
    <3>1. r \in Nat /\ w \in Nat
      BY <2>10 DEF Tokens
    <3> QED
      BY <2>2, <3>1
  <2>12. /\ r = 0 => copy > 0
         /\ out[r + 1] = MAX_COPY - 1
         /\ \A i \in 0 .. copy - 1 : out[r + 2 + i] = input[w + i + 1]
    <3>1. r + 1 = Len(out) - copy /\ \A i \in 0 .. copy - 1 : r + 2 + i = Len(out) - copy + 1 + i
      BY <2>2
    <3> QED
      BY <3>1 DEF LZComplete, Coded
  <2> HIDE DEF r, w, last
  <2>13. last = r + copy + 2 /\ last = Len(out) + 1
    BY <2>2, <2>11 DEF last
  \* The literals of the run, the new one being the last
  <2>14. Tokens(input, out', M, r, w)
    <3>1. r > 0 => out'[1] % MAX_COPY = out[1] % MAX_COPY
      BY <2>2, <2>9, <2>11
    <3>2. \A i \in 2 .. r : out'[i] = out[i]
      BY <2>2, <2>9, <2>11
    <3> QED
      BY <2>10, <3>1, <3>2, TokensKept
  <2>15. out'[r + 1] = MAX_COPY - 1
    <3>1. r + 1 \in 1 .. Len(out)
      BY <2>2, <2>11
    <3> QED
      BY <2>9, <2>12, <3>1
  <2>16. \A i \in 0 .. copy : out'[r + 2 + i] = input[w + i + 1]
    <3> TAKE i \in 0 .. copy
    <3>1. CASE i = copy
      <4>1. r + 2 + i = last /\ w + i + 1 = ip + 1
        BY <2>2, <2>11, <2>13, <3>1
      <4> QED
        BY <2>9, <4>1
    <3>2. CASE i # copy
      <4>1. i \in 0 .. copy - 1 /\ r + 2 + i \in 1 .. Len(out)
        BY <2>2, <2>11, <3>2
      <4> QED
        BY <2>9, <2>12, <4>1
    <3> QED
      BY <3>1, <3>2
  <2>17. Coded'
    <3>1. CASE copy = MAX_COPY - 1
      <4>1. copy' = 0 /\ Len(out') = last + 1 /\ out'[last + 1] = MAX_COPY - 1
        <5>1. copy' = 0 /\ Len(next) = 1 /\ next[1] = MAX_COPY - 1
          BY <2>3, <2>5, <3>1
        <5>2. 1 \in 1 .. Len(next)
          BY <5>1
        <5> QED
          BY <2>8, <5>1, <5>2
      <4>2. IsToken(input, out', <<r, w>>, <<r + MAX_COPY + 1, w + MAX_COPY>>)
        <5>1. MAX_COPY \in 1 .. MAX_COPY /\ MAX_COPY - 1 = copy
          BY <2>2, <3>1
        <5> QED
          BY <2>11, <2>15, <2>16, <5>1, RunIsToken
      <4>3. Tokens(input, out', M \cup {<<r + MAX_COPY + 1, w + MAX_COPY>>}, r + MAX_COPY + 1, w + MAX_COPY)
        <5>1. r + MAX_COPY + 1 \in Nat /\ w + MAX_COPY \in Nat
          BY <2>2, <2>11
        <5> QED
          BY <2>14, <4>2, <5>1, OneTokenMore
      <4>4. /\ Len(out') - copy' - 1 = r + MAX_COPY + 1 /\ ip' - copy' = w + MAX_COPY
            /\ Len(out') - copy' = last + 1 /\ ~(Len(out') - copy' - 1 = 0)
        <5>1. MAX_COPY = copy + 1 /\ ip' = ip + 1 /\ Len(out') = r + copy + 3 /\ copy \in Nat
          <6>1. MAX_COPY \in Nat /\ copy \in Nat
            BY <2>2
          <6>2. MAX_COPY = copy + 1
            BY <3>1, <6>1
          <6>3. ip' = ip + 1
            BY <2>1
          <6>4. r \in Nat /\ last = r + copy + 2 /\ Len(out') = last + 1
            BY <2>11, <2>13, <4>1
          <6>5. Len(out') = r + copy + 3
            BY <6>1, <6>4
          <6> QED
            BY <6>1, <6>2, <6>3, <6>5
        <5>2. r \in Nat /\ w \in Nat /\ ip = w + copy /\ last = r + copy + 2 /\ copy' = 0
          BY <2>11, <2>13, <4>1
        <5>3. ip' - copy' = w + MAX_COPY
          BY <5>1, <5>2
        <5>4. Len(out') - copy' = last + 1 /\ last + 1 = r + MAX_COPY + 2
          BY <5>1, <5>2
        <5>5. last \in Nat /\ MAX_COPY \in Nat
          BY <5>1, <5>2
        <5>6. Len(out') - copy' - 1 = r + MAX_COPY + 1
          BY <5>1, <5>2, <5>4, <5>5
        <5> QED
          BY <5>1, <5>2, <5>3, <5>4, <5>5, <5>6
      <4>5. 0 .. copy' - 1 = {}
        BY <4>1
      <4> QED
        BY <2>1, <4>1, <4>3, <4>4, <4>5 DEF Coded
    <3>2. CASE copy # MAX_COPY - 1
      <4>1. copy' = copy + 1 /\ Len(out') = last
        <5>1. copy' = copy + 1 /\ copy' # 0
          BY <2>2, <2>3, <3>2
        <5>2. next = <<>> /\ Len(<<>>) = 0
          BY <2>5, <5>1
        <5> QED
          BY <2>2, <2>8, <2>13, <5>1, <5>2
      <4>2. /\ Len(out') - copy' - 1 = r /\ ip' - copy' = w
            /\ Len(out') - copy' = r + 1 /\ copy' > 0 /\ copy' - 1 = copy
        BY <2>1, <2>2, <2>11, <2>13, <4>1
      <4>3. \A i \in 0 .. copy' - 1 :
              out'[Len(out') - copy' + 1 + i] = input'[ip' - copy' + i + 1]
        <5> TAKE i \in 0 .. copy' - 1
        <5>1. i \in 0 .. copy /\ Len(out') - copy' + 1 + i = r + 2 + i /\ ip' - copy' + i + 1 = w + i + 1
          BY <2>11, <4>2
        <5> QED
          BY <2>1, <2>16, <5>1
      <4> QED
        BY <2>1, <2>14, <2>15, <4>2, <4>3 DEF Coded
    <3> QED
      BY <3>1, <3>2
  <2>18. TypeOK'
    <3>1. ip' \in 0 .. length /\ copy' \in 0 .. MAX_COPY - 1
      BY <2>1, <2>2, <2>3
    <3>2. rd' \in 0 .. Len(out') /\ Len(output') <= length
      BY <2>1, <2>2, <2>8, <2>13
    <3> QED
      BY <2>1, <3>1, <3>2 DEF TypeOK
  <2>19. Decoded'
    BY <2>1, <2>2 DEF Decoded
  <2> QED
    BY <1>1, <2>17, <2>18, <2>19 DEF LZComplete
<1> QED
  BY <1>2, <1>3

\* Something was written, so the byte before the current one is there.
LEMMA SomethingBefore ==
  ASSUME LZComplete, phase = "main"
  PROVE  ip >= 1
<1> DEFINE r == Len(out) - copy - 1
           w == ip - copy
<1>1. /\ ip \in Nat /\ copy \in Nat
  BY WhileCompressing
<1>2. PICK M : Tokens(input, out, M, r, w)
  BY DEF LZComplete, Coded
<1>3. r = 0 => copy > 0
  BY DEF LZComplete, Coded
<1> HIDE DEF r
<1>4. w \in Nat /\ r \in Nat
  BY <1>2 DEF Tokens
<1>5. CASE r = 0
  BY <1>1, <1>3, <1>4, <1>5
<1>6. CASE r # 0
  <2> HIDE DEF w
  <2>1. <<0, 0>> \in M /\ M \subseteq (0 .. r) \X (0 .. w)
    BY <1>2 DEF Tokens
  <2>2. <<0, 0>>[1] # r
    BY <1>6
  <2>3. PICK q \in M : IsToken(input, out, <<0, 0>>, q)
    BY <1>2, <2>1, <2>2, EndOfTokens
  <2>4. q \in (0 .. r) \X (0 .. w)
    BY <2>1
  <2>5. q \in Nat \X Nat /\ q[2] <= w
    BY <2>4, <1>4
  <2>6. <<0, 0>> \in Nat \X Nat /\ <<0, 0>>[2] = 0
    OBVIOUS
  <2>7. q[2] > 0
    BY <2>3, <2>5, <2>6, TokenIsLong
  <2>8. w > 0
    BY <1>4, <2>5, <2>7
  <2> QED
    BY <1>1, <2>8 DEF w
<1> QED
  BY <1>5, <1>6

LEMMA StartCompletes ==
  ASSUME LZComplete, Start, LZInv'
  PROVE  LZComplete'
<1> DEFINE first == <<Control(0, MAX_COPY - 1), At(0), At(1)>>
<1>1. /\ length >= 4 /\ phase = "start" /\ phase' = "main" /\ ip' = 2 /\ copy' = 2
      /\ out' = first /\ rd' = rd /\ output' = output
      /\ input' = input /\ length' = length
  BY DEF Start, args, length
<1>2. input \in Seq(Nat) /\ length \in Nat /\ length = Len(input)
  BY DEF LZComplete, LZInv, length
<1>3. rd = 0 /\ output = <<>>
  BY <1>1 DEF LZComplete, Decoded
<1>4. MAX_COPY \in Nat /\ MAX_COPY > 2
  BY FormatSizes
<1>5. /\ Len(first) = 3 /\ first[1] = MAX_COPY - 1
      /\ first[2] = input[1] /\ first[3] = input[2]
  BY FullControlIs DEF At
<1> HIDE DEF first
<1>6. TypeOK'
  BY <1>1, <1>2, <1>3, <1>4, <1>5 DEF TypeOK
<1>7. Decoded'
  BY <1>1, <1>3 DEF Decoded
<1>8. Tokens(input, first, {<<0, 0>>}, 0, 0)
  BY DEF Tokens
<1>9. Coded'
  <2>1. /\ Len(out') - copy' - 1 = 0 /\ ip' - copy' = 0 /\ Len(out') - copy' = 1
        /\ copy' > 0 /\ copy' - 1 = 1
    BY <1>1, <1>5
  <2>2. \A i \in 0 .. 1 : first[1 + 1 + i] = input[0 + i + 1]
    BY <1>5
  <2> QED
    BY <1>1, <1>5, <1>8, <2>1, <2>2 DEF Coded
<1> QED
  BY <1>6, <1>7, <1>9 DEF LZComplete

\* A match is a token, and as long as the input repeats itself.
LEMMA MatchCompletes ==
  ASSUME LZComplete, phase = "main", ip < ip_limit, NEW d \in 1 .. ip, NEW n \in {3, 5},
         d < MAX_FARDISTANCE, SameBytes(d, n), Match(d, n)
  PROVE  LZComplete'
<1>1. LZInv'
  <2>1. ip \in Nat
    BY WhileCompressing
  <2>2. d \in Nat \ {0}
    BY <2>1
  <2> QED
    BY <2>2, MatchKeeps DEF LZComplete
<1>2. CASE GiveUp
  BY <1>1, <1>2, GiveUpCompletes
<1>3. CASE ~GiveUp
  <2> DEFINE o == CountPatched(out)
             end == MatchEnd(d, ip + n)
             len == end - 3 - ip
             tok == Token(len, d - 1)
             full == <<Control(0, MAX_COPY - 1)>>
             last == Len(o) + Len(tok) + 1
             r2 == Len(o) + Len(tok)
             w2 == ip + len + 2
  <2>1. /\ ip' = w2 /\ copy' = 0 /\ out' = o \o tok \o full
        /\ phase' = phase /\ rd' = rd /\ output' = output
        /\ input' = input /\ length' = length
    BY <1>3 DEF Match, args, length
  <2>2. /\ input \in Seq(Nat) /\ length \in Nat /\ length = Len(input)
        /\ ip \in Nat /\ MAX_COPY \in Nat /\ MAX_COPY > 2
        /\ rd = 0 /\ output = <<>> /\ Len(output) = 0
    BY WhileCompressing
  <2>3. end \in ip + 4 .. length /\ \A p \in ip .. end - 2 : At(p) = At(p - d)
    BY <2>2, MatchRepeats
  <2>4. o \in Seq(Nat) /\ Len(o) > 0 /\ \E M : Tokens(input, o, M, Len(o), ip)
    BY PatchedTokens DEF LZComplete
  <2> HIDE DEF o, end
  <2>5. len \in Nat \ {0} /\ len \in Nat /\ d - 1 \in Nat /\ w2 = end - 1 /\ w2 \in 0 .. length
    BY <2>2, <2>3
  <2> HIDE DEF len
  <2>6. tok \in Seq(Nat) /\ full \in Seq(Nat) /\ Len(full) = 1 /\ full[1] = MAX_COPY - 1
    <3>1. tok \in Seq(Nat)
      BY <2>5, TokenIs
    <3>2. full \in Seq(Nat) /\ Len(full) = 1 /\ full[1] = Control(0, MAX_COPY - 1)
      BY FullControl
    <3> QED
      BY <3>1, <3>2, FullControlIs
  <2> HIDE DEF full, tok
  <2> DEFINE front == o \o tok
  <2>7. /\ front \in Seq(Nat) /\ Len(front) = r2
        /\ \A i \in 1 .. Len(o) : front[i] = o[i]
        /\ \A i \in 1 .. Len(tok) : front[Len(o) + i] = tok[i]
    BY <2>4, <2>6, Joined, JoinedAt
  <2>8. out' = front \o full /\ Len(o) \in Nat /\ Len(tok) \in Nat
    BY <2>1, <2>4, <2>6
  <2> HIDE DEF front
  <2>9. /\ out' \in Seq(Nat) /\ Len(out') = r2 + 1
        /\ \A i \in 1 .. r2 : out'[i] = front[i]
        /\ out'[r2 + 1] = MAX_COPY - 1
    <3>1. /\ front \o full \in Seq(Nat) /\ Len(front \o full) = Len(front) + Len(full)
          /\ \A i \in 1 .. Len(front) : (front \o full)[i] = front[i]
          /\ \A i \in 1 .. Len(full) : (front \o full)[Len(front) + i] = full[i]
      BY <2>6, <2>7, Joined, JoinedAt
    <3>2. 1 \in 1 .. Len(full)
      BY <2>6
    <3> HIDE DEF r2
    <3> QED
      BY <2>6, <2>7, <2>8, <3>1, <3>2
  <2>10. /\ \A i \in 1 .. Len(o) : out'[i] = o[i]
         /\ \A i \in 1 .. Len(tok) : out'[Len(o) + i] = tok[i]
    <3>1. /\ \A i \in 1 .. Len(o) : i \in 1 .. r2
          /\ \A i \in 1 .. Len(tok) : Len(o) + i \in 1 .. r2
      BY <2>8
    <3> HIDE DEF r2
    <3> QED
      BY <2>7, <2>9, <3>1
  <2>11. PICK M : Tokens(input, o, M, Len(o), ip)
    BY <2>4
  <2>12. Tokens(input, out', M, Len(o), ip)
    <3>1. 1 \in 1 .. Len(o) /\ \A i \in 2 .. Len(o) : i \in 1 .. Len(o)
      BY <2>4, <2>8
    <3>2. out'[1] = o[1] /\ \A i \in 2 .. Len(o) : out'[i] = o[i]
      BY <2>10, <3>1
    <3> QED
      BY <2>11, <3>2, TokensKept
  <2>13. IsMatch(input, out', <<Len(o), ip>>, <<r2, w2>>)
    <3>1. \A p \in ip .. w2 - 1 : input[p + 1] = input[p - d + 1]
      <4> TAKE p \in ip .. w2 - 1
      <4>1. p \in ip .. end - 2
        BY <2>2, <2>3, <2>5
      <4> QED
        BY <2>3, <4>1 DEF At
    <3>2. <<Len(o), ip>>[1] # 0 /\ <<Len(o), ip>>[1] = Len(o) /\ <<Len(o), ip>>[2] = ip
      BY <2>4
    <3>3. <<r2, w2>>[1] = Len(o) + Len(tok) /\ <<r2, w2>>[2] = w2 /\ w2 = ip + len + 2
      OBVIOUS
    <3> HIDE DEF r2, w2
    <3>4. tok = Token(len, d - 1)
      BY DEF tok
    <3> QED
      BY ZenonT(60), <2>5, <2>10, <3>1, <3>2, <3>3, <3>4 DEF IsMatch
  <2>14. Tokens(input, out', M \cup {<<r2, w2>>}, r2, w2)
    <3>1. r2 \in Nat /\ w2 \in Nat
      BY <2>2, <2>5, <2>8
    <3> HIDE DEF r2, w2
    <3>2. IsToken(input, out', <<Len(o), ip>>, <<r2, w2>>)
      BY <2>13 DEF IsToken
    <3> QED
      BY <2>12, <3>1, <3>2, OneTokenMore
  <2>15. r2 \in Nat /\ r2 > 0
    BY <2>4, <2>8
  <2> HIDE DEF r2, w2
  <2>16. Coded'
    <3>1. /\ Len(out') - copy' - 1 = r2 /\ Len(out') - copy' = r2 + 1 /\ ~(Len(out') - copy' - 1 = 0)
      BY <2>1, <2>9, <2>15
    <3>2. ip' - copy' = w2 /\ 0 .. copy' - 1 = {}
      BY <2>1, <2>5
    <3> QED
      BY <2>1, <2>9, <2>14, <3>1, <3>2 DEF Coded
  <2>17. TypeOK'
    <3>1. ip' \in 0 .. length' /\ copy' \in 0 .. MAX_COPY - 1
      BY <2>1, <2>2, <2>5
    <3>2. rd' \in 0 .. Len(out') /\ Len(output') <= length'
      BY <2>1, <2>2, <2>9, <2>15
    <3> QED
      BY <2>1, <3>1, <3>2 DEF TypeOK
  <2>18. Decoded'
    BY <2>1, <2>2 DEF Decoded
  <2> QED
    BY <1>1, <2>16, <2>17, <2>18 DEF LZComplete
<1> QED
  BY <1>2, <1>3

\* The marker changes the first byte, but not what it says of its literals.
LEMMA FinishCompletes ==
  ASSUME LZComplete, Finish, LZInv'
  PROVE  LZComplete'
<1> DEFINE o == CountPatched(out)
           u == [o EXCEPT ![1] = @ + MAX_COPY]
<1>1. /\ phase = "main" /\ ip = length /\ phase' = "decompress" /\ out' = u
      /\ ip' = ip /\ copy' = copy /\ rd' = rd /\ output' = output
      /\ input' = input /\ length' = length
  BY DEF Finish, args, length
<1>2. /\ input \in Seq(Nat) /\ length \in Nat /\ length = Len(input)
      /\ ip \in 0 .. length /\ copy \in 0 .. MAX_COPY - 1 /\ MAX_COPY \in Nat /\ MAX_COPY > 2
      /\ rd = 0 /\ output = <<>> /\ Len(output) = 0
  BY <1>1, WhileCompressing
<1>3. o \in Seq(Nat) /\ Len(o) > 0 /\ \E M : Tokens(input, o, M, Len(o), ip)
  BY <1>1, PatchedTokens DEF LZComplete
<1> HIDE DEF o
<1>4. Len(o) \in Nat /\ 1 \in 1 .. Len(o) /\ o[1] \in Nat
  BY <1>3
<1>5. u = [o EXCEPT ![1] = o[1] + MAX_COPY]
  OBVIOUS
<1>6. /\ u \in Seq(Nat) /\ Len(u) = Len(o) /\ u[1] = o[1] + MAX_COPY
      /\ \A i \in 2 .. Len(o) : u[i] = o[i]
  BY <1>2, <1>3, <1>4, <1>5
<1> HIDE DEF u
<1>7. u[1] % MAX_COPY = o[1] % MAX_COPY
  <2> DEFINE q == o[1] \div MAX_COPY
             r == o[1] % MAX_COPY
  <2>1. MAX_COPY \in Nat \ {0}
    BY <1>2
  <2>2. q \in Nat /\ r \in 0 .. MAX_COPY - 1 /\ o[1] = MAX_COPY * q + r
    BY <1>4, <2>1, Division
  <2> HIDE DEF q
  <2>3. u[1] = (q + 1) * MAX_COPY + r /\ q + 1 \in Nat
    <3> HIDE DEF r
    <3>1. MAX_COPY * q + MAX_COPY = (q + 1) * MAX_COPY
      BY <2>1, <2>2
    <3>2. MAX_COPY * q \in Nat /\ r \in Nat
      BY <2>1, <2>2
    <3> QED
      BY <1>6, <2>1, <2>2, <3>1, <3>2
  <2>4. ((q + 1) * MAX_COPY + r) % MAX_COPY = r
    <3> HIDE DEF r
    <3> QED
      BY <2>1, <2>2, <2>3, Remainder
  <2> QED
    BY <2>3, <2>4
<1>8. \E M : Tokens(input, u, M, Len(u), Len(input))
  <2>1. PICK M : Tokens(input, o, M, Len(o), ip)
    BY <1>3
  <2>2. Tokens(input, u, M, Len(o), ip)
    BY <1>6, <1>7, <2>1, TokensKept
  <2> QED
    BY <1>1, <1>2, <1>6, <2>2
<1>9. Decoded'
  <2>1. \A M, r, w : Tokens(input, u, M, r, w) => <<0, 0>> \in M
    BY DEF Tokens
  <2>2. \E M : Tokens(input, u, M, Len(u), Len(input)) /\ <<0, 0>> \in M
    BY <1>8, <2>1
  <2>3. BeginsAs(<<>>, input)
    BY <1>2 DEF BeginsAs
  <2>4. 0 < Len(u)
    BY <1>4, <1>6
  <2> QED
    BY <1>1, <1>2, <2>2, <2>3, <2>4 DEF Decoded
<1>10. TypeOK'
  BY <1>1, <1>2, <1>4, <1>6 DEF TypeOK
<1>11. Coded'
  BY <1>1 DEF Coded
<1> QED
  BY <1>9, <1>10, <1>11 DEF LZComplete

\* The next token that blosclz_decompress comes to
LEMMA NextToken ==
  ASSUME LZComplete, phase = "decompress"
  PROVE  \E M : \E q \in M :
           /\ Tokens(input, out, M, Len(out), Len(input))
           /\ IsToken(input, out, <<rd, Len(output)>>, q)
<1>1. BeginsAs(output, input) /\ rd < Len(out)
  BY DEF LZComplete, Decoded
<1>2. PICK M : Tokens(input, out, M, Len(out), Len(input)) /\ <<rd, Len(output)>> \in M
  BY DEF LZComplete, Decoded
<1>3. <<rd, Len(output)>>[1] # Len(out)
  <2>1. Len(out) \in Nat /\ rd \in Nat
    BY DEF LZComplete, LZInv, TypeOK
  <2> QED
    BY <1>1, <2>1
<1>4. \E q \in M : IsToken(input, out, <<rd, Len(output)>>, q)
  BY <1>2, <1>3, EndOfTokens
<1> QED
  BY <1>2, <1>4

\* Once a token is read, the output is a longer beginning of the input, and
\* all of it at the last token.
LEMMA TokenDone ==
  ASSUME LZComplete, phase = "decompress",
         NEW M, NEW q \in M, Tokens(input, out, M, Len(out), Len(input)),
         BeginsAs(output', input), Len(output') = q[2], Goto(q[1]),
         UNCHANGED <<args, ip, copy, out>>
  PROVE  LZComplete'
<1>1. /\ input' = input /\ op_limit' = op_limit /\ length' = length
      /\ ip' = ip /\ copy' = copy /\ out' = out
  BY DEF args, length
<1>2. LZInv /\ TypeOK
  BY DEF LZComplete
<1>3. /\ rd' = q[1] /\ phase' = IF q[1] < Len(out) THEN phase ELSE "done"
  BY DEF Goto
<1>4. /\ input \in Seq(Nat) /\ length = Len(input) /\ length \in Nat
      /\ out \in Seq(Nat) /\ Len(out) \in Nat
  BY <1>2 DEF LZInv, length
<1>5. q \in (0 .. Len(out)) \X (0 .. Len(input))
  BY DEF Tokens
<1>6. /\ q[1] \in 0 .. Len(out) /\ q[2] \in 0 .. Len(input) /\ q = <<q[1], q[2]>>
  BY <1>5
<1>7. phase' # "main" /\ phase' # "start" /\ phase' # "out" /\ phase' # "refused"
  BY <1>3
<1>8. LZInv'
  BY <1>1, <1>2, <1>7 DEF LZInv
<1>9. TypeOK'
  BY <1>1, <1>2, <1>3, <1>4, <1>6 DEF TypeOK
<1>10. Coded'
  BY <1>7 DEF Coded
<1>11. Decoded'
  <2>1. CASE q[1] < Len(out)
    <3>1. phase' = "decompress" /\ rd' < Len(out')
      BY <1>1, <1>3, <2>1
    <3>2. <<rd', Len(output')>> \in M
      BY <1>3, <1>6
    <3>3. \E N : Tokens(input', out', N, Len(out'), Len(input')) /\ <<rd', Len(output')>> \in N
      BY <1>1, <3>2
    <3> QED
      BY <1>1, <3>1, <3>3 DEF Decoded
  <2>2. CASE ~(q[1] < Len(out))
    <3>1. q[1] = Len(out) /\ phase' = "done"
      BY <1>3, <1>4, <1>6, <2>2
    <3>2. q = <<Len(out), Len(input)>>
      BY <3>1, EndOfTokens
    <3>3. Len(output') = Len(input)
      BY <3>2
    <3>4. /\ output' \in Seq(Nat)
          /\ \A i \in 1 .. Len(output') : output'[i] = input[i]
      BY DEF BeginsAs
    <3>5. output' = input
      BY SMTT(60), <1>4, <3>3, <3>4
    <3> QED
      BY <1>1, <3>1, <3>5 DEF Decoded
  <2> QED
    BY <2>1, <2>2
<1> QED
  BY <1>8, <1>9, <1>10, <1>11 DEF LZComplete

\* A match is never read as literals, nor a run of literals as a match.
LEMMA MatchDecodes ==
  ASSUME LZComplete, phase = "decompress",
         NEW M, NEW q \in M, Tokens(input, out, M, Len(out), Len(input)),
         IsMatch(input, out, <<rd, Len(output)>>, q)
  PROVE  /\ ~DecompressLiterals
         /\ DecompressMatch => LZComplete'
<1> DEFINE w == Len(output)
<1>1. /\ input \in Seq(Nat) /\ length = Len(input) /\ length \in Nat
      /\ out \in Seq(Nat) /\ Len(out) \in Nat /\ rd \in Nat
  BY DEF LZComplete, LZInv, TypeOK, length
<1>2. BeginsAs(output, input) /\ w \in Nat
  BY DEF LZComplete, Decoded, BeginsAs
<1>3. q[1] \in 0 .. Len(out) /\ q[2] \in 0 .. Len(input)
  <2>1. q \in (0 .. Len(out)) \X (0 .. Len(input))
    BY DEF Tokens
  <2> QED
    BY <2>1
<1> HIDE DEF w
<1>4. PICK len \in Nat \ {0}, d \in 1 .. w :
        /\ d < MAX_FARDISTANCE
        /\ q[1] = rd + Len(Token(len, d - 1)) /\ q[2] = w + len + 2
        /\ \A i \in 1 .. Len(Token(len, d - 1)) : out[rd + i] = Token(len, d - 1)[i]
        /\ \A p \in w .. q[2] - 1 : input[p + 1] = input[p - d + 1]
  <2>1. <<rd, w>>[1] = rd /\ <<rd, w>>[2] = w
    OBVIOUS
  <2>2. IsMatch(input, out, <<rd, w>>, q)
    BY DEF w
  <2> QED
    BY ZenonT(60), <2>1, <2>2 DEF IsMatch
<1>5. rd # 0
  <2>1. <<rd, w>>[1] = rd /\ IsMatch(input, out, <<rd, w>>, q)
    BY DEF w
  <2> QED
    BY <2>1 DEF IsMatch
<1> DEFINE dist == d - 1
           k == Len(Token(len, dist))
<1>6. /\ dist \in Nat /\ dist + 1 = d /\ dist < MAX_FARDISTANCE /\ rd \in Nat \ {0}
      /\ len + 2 \in Nat \ {0} /\ len \in Nat
  <2>1. d \in Nat /\ d >= 1
    BY <1>2, <1>4
  <2>2. len \in Nat /\ d < MAX_FARDISTANCE /\ MAX_FARDISTANCE \in Nat
    BY <1>4, Distances
  <2> QED
    BY <1>1, <1>5, <2>1, <2>2
<1>7. rd + k <= Len(out) /\ \A i \in 1 .. k : out[rd + i] = Token(len, dist)[i]
  BY <1>3, <1>4
<1> DEFINE Copied == IF dist + 1 = 1 THEN output \o [i \in 1 .. len + 2 |-> Last(output)]
                     ELSE CopyMatch(dist + 1, len + 2)
<1>8. /\ ctrl >= MAX_COPY
      /\ DecompressMatch =>
           IF Len(output) + (len + 2) > length \/ dist + 1 > Len(output) THEN Refuse
           ELSE /\ output' = Copied
                /\ Goto(rd + k)
                /\ UNCHANGED <<args, ip, copy, out>>
  <2>1. len \in Nat \ {0}
    OBVIOUS
  <2> HIDE DEF dist
  <2> QED
    BY <1>1, <1>6, <1>7, <2>1, MatchRead
<1>9. ~DecompressLiterals
  <2>1. ctrl \in Int
    <3>1. rd + 1 \in 1 .. Len(out) /\ 1 \in 1 .. Len(out)
      <4>1. rd < Len(out)
        BY DEF LZComplete, Decoded
      <4> QED
        BY <1>1, <1>6, <4>1
    <3>2. ctrl = out[rd + 1] /\ out[rd + 1] \in Nat
      BY <1>1, <1>5, <3>1 DEF ctrl
    <3> QED
      BY <3>2
  <2>2. MAX_COPY \in Nat
    BY FormatSizes
  <2>3. ~(ctrl < MAX_COPY)
    BY <1>8, <2>1, <2>2
  <2> QED
    BY <2>3 DEF DecompressLiterals
<1>10. ASSUME DecompressMatch PROVE LZComplete'
  <2>1. BeginsAs(Copied, input) /\ Len(Copied) = Len(output) + (len + 2)
    <3>1. Len(output) + (len + 2) <= Len(input)
      BY <1>1, <1>2, <1>3, <1>4 DEF w
    <3>2. \A p \in Len(output) .. Len(output) + (len + 2) - 1 : input[p + 1] = input[p - (dist + 1) + 1]
      <4>1. q[2] - 1 = w + (len + 2) - 1 /\ dist + 1 = d
        BY <1>2, <1>4, <1>6
      <4> QED
        BY <1>4, <4>1 DEF w
    <3>3. dist + 1 \in 1 .. Len(output)
      BY <1>4, <1>6 DEF w
    <3> DEFINE e == dist + 1
               n == len + 2
    <3>4. e \in 1 .. Len(output) /\ n \in Nat \ {0} /\ Len(output) + n <= Len(input)
      BY <1>6, <3>1, <3>3
    <3>5. \A p \in Len(output) .. Len(output) + n - 1 : input[p + 1] = input[p - e + 1]
      BY <3>2
    <3>6. Copied = IF e = 1 THEN output \o [i \in 1 .. n |-> Last(output)] ELSE CopyMatch(e, n)
      OBVIOUS
    <3>7. n = len + 2
      OBVIOUS
    <3> HIDE DEF e, n, Copied
    <3> QED
      BY <1>1, <1>2, <3>4, <3>5, <3>6, <3>7, MatchCopied
  <2> HIDE DEF Copied
  <2>2. ~(Len(output) + (len + 2) > length \/ dist + 1 > Len(output))
    <3> HIDE DEF dist
    <3>1. w = Len(output) /\ w \in Nat /\ len \in Nat /\ length \in Nat /\ d \in 1 .. w
      BY <1>1, <1>2, <1>6 DEF w
    <3>2. w + len + 2 <= length /\ dist + 1 = d
      BY <1>1, <1>3, <1>4, <1>6
    <3> QED
      BY <3>1, <3>2
  <2>3. output' = Copied /\ Goto(rd + k) /\ UNCHANGED <<args, ip, copy, out>>
    BY <1>8, <1>10, <2>2
  <2>4. Goto(q[1])
    BY <1>4, <2>3
  <2>5. Len(output') = q[2]
    BY <1>2, <1>4, <2>1, <2>3 DEF w
  <2>6. BeginsAs(output', input)
    BY <2>1, <2>3
  <2> QED
    BY <2>3, <2>4, <2>5, <2>6, TokenDone
<1> QED
  BY <1>9, <1>10

\* A run of literals comes out as it went in.
LEMMA LiteralsDecode ==
  ASSUME LZComplete, phase = "decompress",
         NEW M, NEW q \in M, Tokens(input, out, M, Len(out), Len(input)),
         IsLiterals(input, out, <<rd, Len(output)>>, q)
  PROVE  /\ ~DecompressMatch
         /\ DecompressLiterals => LZComplete'
<1> DEFINE w == Len(output)
<1>1. /\ input \in Seq(Nat) /\ length = Len(input) /\ length \in Nat
      /\ out \in Seq(Nat) /\ Len(out) \in Nat /\ rd \in Nat /\ MAX_COPY \in Nat
  BY FormatSizes DEF LZComplete, LZInv, TypeOK, length
<1>2. BeginsAs(output, input) /\ output \in Seq(Nat) /\ w \in Nat
  BY DEF LZComplete, Decoded, BeginsAs
<1>3. q[1] \in 0 .. Len(out) /\ q[2] \in 0 .. Len(input)
  <2>1. q \in (0 .. Len(out)) \X (0 .. Len(input))
    BY DEF Tokens
  <2> QED
    BY <2>1
<1>4. ctrl = Lead(out, rd)
  BY DEF ctrl, Lead
<1> HIDE DEF w
<1>5. /\ ctrl \in 0 .. MAX_COPY - 1 /\ q[1] = rd + ctrl + 2 /\ q[2] = w + ctrl + 1
      /\ \A i \in 0 .. ctrl : out[rd + 2 + i] = input[w + i + 1]
  <2>1. <<rd, w>>[1] = rd /\ <<rd, w>>[2] = w /\ IsLiterals(input, out, <<rd, w>>, q)
    BY DEF w
  <2> QED
    BY <1>4, <2>1 DEF IsLiterals
<1>6. ~DecompressMatch
  <2>1. ~(ctrl >= MAX_COPY)
    BY <1>1, <1>5
  <2> QED
    BY <2>1 DEF DecompressMatch
<1>7. ASSUME DecompressLiterals PROVE LZComplete'
  <2> DEFINE piece == SubSeq(out, rd + 2, rd + ctrl + 2)
  <2>1. ~(Len(output) + ctrl + 1 > length \/ rd + 1 + ctrl + 1 > Len(out))
    BY <1>1, <1>2, <1>3, <1>5 DEF w
  <2>2. output' = output \o piece /\ Goto(rd + ctrl + 2) /\ UNCHANGED <<args, ip, copy, out>>
    BY <1>7, <2>1 DEF DecompressLiterals
  <2>3. ctrl \in Nat /\ rd + ctrl + 2 <= Len(out) /\ w + ctrl + 1 <= Len(input)
    BY <1>1, <1>2, <1>3, <1>5
  <2>4. /\ piece \in Seq(Nat) /\ Len(piece) = ctrl + 1
        /\ \A i \in 1 .. ctrl + 1 : piece[i] = out[rd + 1 + i]
    <3> DEFINE c == ctrl
    <3>1. c \in Nat /\ rd + c + 2 <= Len(out)
      BY <2>3
    <3>2. piece = SubSeq(out, rd + 2, rd + c + 2) /\ c = ctrl
      OBVIOUS
    <3> HIDE DEF c, piece
    <3> QED
      BY SMTT(60), <1>1, <3>1, <3>2
  <2> HIDE DEF piece
  <2>5. \A i \in 1 .. ctrl + 1 : piece[i] = input[w + i]
    <3> TAKE i \in 1 .. ctrl + 1
    <3>1. i - 1 \in 0 .. ctrl /\ rd + 2 + (i - 1) = rd + 1 + i /\ w + (i - 1) + 1 = w + i
      BY <1>1, <1>2, <2>3
    <3>2. out[rd + 2 + (i - 1)] = input[w + (i - 1) + 1]
      BY <1>5, <3>1
    <3> QED
      BY <2>4, <3>1, <3>2
  <2>6. /\ output' \in Seq(Nat) /\ Len(output') = w + ctrl + 1
        /\ \A i \in 1 .. w : output'[i] = output[i]
        /\ \A i \in 1 .. ctrl + 1 : output'[w + i] = piece[i]
    <3>1. /\ output \o piece \in Seq(Nat) /\ Len(output \o piece) = Len(output) + Len(piece)
          /\ \A i \in 1 .. Len(output) : (output \o piece)[i] = output[i]
          /\ \A i \in 1 .. Len(piece) : (output \o piece)[Len(output) + i] = piece[i]
      BY <1>2, <2>4, Joined, JoinedAt
    <3>2. w + ctrl + 1 = w + (ctrl + 1)
      BY <1>2, <2>3
    <3> QED
      BY <2>2, <2>4, <3>1, <3>2 DEF w
  <2>7. BeginsAs(output', input)
    <3>1. \A i \in 1 .. Len(output') : output'[i] = input[i]
      <4> TAKE i \in 1 .. Len(output')
      <4>1. CASE i \in 1 .. w
        <5>1. output[i] = input[i]
          BY <1>2, <4>1 DEF BeginsAs, w
        <5> QED
          BY <2>6, <4>1, <5>1
      <4>2. CASE i \notin 1 .. w
        <5>1. i - w \in 1 .. ctrl + 1 /\ w + (i - w) = i
          BY <1>2, <2>3, <2>6, <4>2
        <5>2. output'[w + (i - w)] = piece[i - w] /\ piece[i - w] = input[w + (i - w)]
          BY <2>5, <2>6, <5>1
        <5> QED
          BY <5>1, <5>2
      <4> QED
        BY <4>1, <4>2
    <3> QED
      BY <2>3, <2>6, <3>1 DEF BeginsAs
  <2>8. Len(output') = q[2] /\ Goto(q[1])
    BY <1>5, <2>2, <2>6
  <2> QED
    BY <2>2, <2>7, <2>8, TokenDone
<1> QED
  BY <1>6, <1>7

LEMMA InitCompletes == Init => LZComplete
<1> SUFFICES ASSUME Init PROVE LZComplete
  OBVIOUS
<1>1. LZInv
  BY InitKeeps
<1>2. phase = "start" /\ ip = 0 /\ copy = 0 /\ out = <<>> /\ rd = 0 /\ output = <<>>
  BY DEF Init
<1>3. length \in Nat /\ MAX_COPY \in Nat /\ MAX_COPY > 2
  BY <1>1, FormatSizes DEF LZInv, length
<1>4. TypeOK
  BY <1>2, <1>3 DEF TypeOK
<1>5. Coded /\ Decoded
  BY <1>2 DEF Coded, Decoded
<1> QED
  BY <1>1, <1>4, <1>5 DEF LZComplete

LEMMA StepCompletes == LZComplete /\ [Next]_vars => LZComplete'
<1> SUFFICES ASSUME LZComplete, [Next]_vars PROVE LZComplete'
  OBVIOUS
<1>1. LZInv'
  BY StepKeeps DEF LZComplete
<1>2. CASE TooSmall
  BY <1>1, <1>2, GiveUpCompletes DEF TooSmall
<1>3. CASE Start
  BY <1>1, <1>3, StartCompletes
<1>4. CASE CompressRun
  <2>1. phase = "main" /\ ip < ip_limit /\ IsRun /\ Match(1, 3)
    BY <1>4 DEF CompressRun
  <2>2. ip >= 1 /\ ip \in Nat
    BY <2>1, SomethingBefore, WhileCompressing
  <2>3. 1 \in 1 .. ip /\ 3 \in {3, 5} /\ 1 < MAX_FARDISTANCE
    BY <2>2, Distances
  <2>4. SameBytes(1, 3)
    <3>1. /\ ip + 0 = ip /\ ip - 1 + 0 = ip - 1 /\ ip - 1 + 1 = ip /\ ip - 1 + 2 = ip + 1
      BY <2>2
    <3>2. At(ip) = At(ip - 1) /\ At(ip + 1) = At(ip) /\ At(ip + 2) = At(ip + 1)
      BY <2>1 DEF IsRun
    <3>3. \A i \in 0 .. 3 - 1 : i = 0 \/ i = 1 \/ i = 2
      OBVIOUS
    <3>4. \A i \in 0 .. 3 - 1 : At(ip + i) = At(ip - 1 + i)
      BY <3>1, <3>2, <3>3
    <3> QED
      BY <3>4 DEF SameBytes
  <2> QED
    BY <2>1, <2>3, <2>4, MatchCompletes
<1>5. CASE CompressFound
  <2>1. phase = "main" /\ ip < ip_limit
    BY <1>5 DEF CompressFound
  <2>2. ip \in Nat /\ ip < length /\ length \in Nat
    <3>1. ip \in Nat /\ length \in Nat
      BY <2>1, WhileCompressing
    <3> QED
      BY <2>1, <3>1, WordSizes DEF ip_limit
  <2>3. PICK ref \in 0 .. ip :
          LET d == ip - ref
          IN IF d = 0 \/ TooFar(d) \/ ~SameBytes(d, IF IsFar(d) THEN 5 ELSE 3) THEN Literal
             ELSE Match(d, IF IsFar(d) THEN 5 ELSE 3)
    BY <1>5 DEF CompressFound
  <2> DEFINE d == ip - ref
             n == IF IsFar(d) THEN 5 ELSE 3
  <2>4. n \in {3, 5} /\ d \in 0 .. ip
    BY <2>2
  <2>5. IF d = 0 \/ TooFar(d) \/ ~SameBytes(d, n) THEN Literal ELSE Match(d, n)
    BY <2>3
  <2> HIDE DEF d, n
  <2>6. CASE Literal
    BY <2>1, <2>2, <2>6, LiteralCompletes
  <2>7. CASE ~(d = 0 \/ TooFar(d) \/ ~SameBytes(d, n)) /\ Match(d, n)
    <3>1. d \in 1 .. ip
      BY <2>2, <2>4, <2>7
    <3>2. d < MAX_FARDISTANCE
      <4>1. d \in Nat /\ MAX_FARDISTANCE \in Nat /\ ~(d >= MAX_FARDISTANCE)
        BY <2>2, <2>7, <3>1, Distances DEF TooFar
      <4> QED
        BY <4>1
    <3> QED
      BY <2>1, <2>4, <2>7, <3>1, <3>2, MatchCompletes
  <2> QED
    BY <2>5, <2>6, <2>7
<1>6. CASE LeftOver
  BY <1>6, LiteralCompletes DEF LeftOver
<1>7. CASE Finish
  BY <1>1, <1>7, FinishCompletes
<1>8. CASE DecompressLiterals \/ DecompressMatch
  <2>1. phase = "decompress"
    BY <1>8 DEF DecompressLiterals, DecompressMatch
  <2>2. PICK M : \E q \in M :
           /\ Tokens(input, out, M, Len(out), Len(input))
           /\ IsToken(input, out, <<rd, Len(output)>>, q)
    BY <2>1, NextToken
  <2>3. PICK q \in M : /\ Tokens(input, out, M, Len(out), Len(input))
                       /\ IsToken(input, out, <<rd, Len(output)>>, q)
    BY <2>2
  <2>4. CASE IsLiterals(input, out, <<rd, Len(output)>>, q)
    BY <1>8, <2>1, <2>3, <2>4, LiteralsDecode
  <2>5. CASE IsMatch(input, out, <<rd, Len(output)>>, q)
    BY <1>8, <2>1, <2>3, <2>5, MatchDecodes
  <2> QED
    BY <2>3, <2>4, <2>5 DEF IsToken
<1>9. CASE UNCHANGED vars
  <2>1. /\ input' = input /\ op_limit' = op_limit /\ length' = length /\ phase' = phase
        /\ ip' = ip /\ copy' = copy /\ out' = out /\ rd' = rd /\ output' = output
    BY <1>9 DEF vars, args, length
  <2>2. TypeOK' /\ Coded'
    BY <2>1 DEF LZComplete, TypeOK, Coded
  <2>3. Decoded'
    BY <2>1 DEF LZComplete, Decoded
  <2> QED
    BY <1>1, <2>2, <2>3 DEF LZComplete
<1> QED
  BY <1>2, <1>3, <1>4, <1>5, <1>6, <1>7, <1>8, <1>9 DEF Next

(* The positions of the compression and of the decompression stay inside   *)
(* their buffers, whatever the input, the room and the hash table: ip never*)
(* passes the end of the input (blosclz.c:393-402), copy counts less than a*)
(* full run (blosclz.c:160-171), and the decompression writes no more bytes*)
(* than were compressed (blosclz.c:454, 488).                              *)
THEOREM PositionsStayInside == Spec => []TypeOK
<1>1. LZComplete => TypeOK
  BY DEF LZComplete
<1> QED
  BY InitCompletes, StepCompletes, <1>1, PTL DEF Spec

(* Whatever the hash table answers, and for every input, what blosclz      *)
(* compressed decompresses to the input, and is never refused              *)
(* (blosclz.c:176-413, :421-504).                                          *)
THEOREM EverythingComesBack == Spec => []RoundTrip
<1>1. LZComplete => RoundTrip
  BY DEF LZComplete, Decoded, RoundTrip
<1> QED
  BY InitCompletes, StepCompletes, <1>1, PTL DEF Spec
=============================================================================
