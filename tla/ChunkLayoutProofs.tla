-------------------------- MODULE ChunkLayoutProofs --------------------------
(***************************************************************************)
(* ChunkLayout for every buffer and every parameter of the call: the       *)
(* pieces of a chunk stay apart and inside of dest, and the temporaries of *)
(* a thread are long enough for whatever a codec makes of a block.         *)
(***************************************************************************)
EXTENDS ChunkLayout, WellFoundedInduction, NaturalsInduction, TLAPS

-----------------------------------------------------------------------------
(* Integers *)
LEMMA Division ==
  ASSUME NEW a \in Nat, NEW n \in Nat \ {0}
  PROVE  /\ a \div n \in Nat
         /\ a % n \in 0 .. n - 1
         /\ a = n * (a \div n) + (a % n)
<1>1. n \in Nat /\ n > 0
  OBVIOUS
<1>2. a \div n \in Nat
  BY <1>1, SMT
<1>3. a % n \in 0 .. n - 1
  BY <1>1, SMT
<1>4. a = n * (a \div n) + (a % n)
  BY <1>1, SMT
<1> QED
  BY <1>2, <1>3, <1>4, Zenon

LEMMA ProductGrows ==
  ASSUME NEW a \in Nat, NEW b \in Nat, NEW c \in Nat, a <= b
  PROVE  a * c <= b * c
OBVIOUS

LEMMA Multiple ==
  ASSUME NEW a \in Nat, NEW n \in Nat \ {0}
  PROVE  (a * n) \div n = a /\ (a * n) % n = 0
OBVIOUS

LEMMA ExactDivision ==
  ASSUME NEW a \in Nat, NEW n \in Nat \ {0}, a % n = 0
  PROVE  n * (a \div n) = a
BY Division

LEMMA WholeMultiples ==
  ASSUME NEW a \in Nat, NEW n \in Nat \ {0}
  PROVE  a * n \in Nat /\ n * a = a * n
OBVIOUS

\* Where one product ends another may begin
LEMMA NextProduct ==
  ASSUME NEW a \in Int, NEW b \in Int, NEW n \in Nat \ {0}, a < b
  PROVE  a * n \in Int /\ b * n \in Int /\ a * n + n <= b * n
<1>1. a * n \in Int /\ b * n \in Int
  OBVIOUS
<1>2. DEFINE d == b - a - 1
<1>3. d \in Nat /\ b = a + 1 + d
  OBVIOUS
<1>4. d * n \in Nat
  BY <1>3
<1>5. b * n = a * n + n + d * n
  BY <1>3
<1> QED
  BY <1>1, <1>4, <1>5

LEMMA LeastIs ==
  ASSUME NEW a \in Int, NEW b \in Int
  PROVE  /\ Least(a, b) \in {a, b} /\ Least(a, b) <= a /\ Least(a, b) <= b
         /\ Most(a, b) \in {a, b} /\ Most(a, b) >= a /\ Most(a, b) >= b
BY DEF Least, Most

-----------------------------------------------------------------------------
(* The blocks of a request *)
RequestType ==
  [sourcesize : Nat, typesize : Nat \ {0}, clevel : 0 .. 9, splits : BOOLEAN,
   hcr : BOOLEAN, blocksize : Nat, room : Nat, threads : BOOLEAN, extended : BOOLEAN]

LEMMA ConstantSizes ==
  /\ L1 \in Nat /\ L1 >= 4
  /\ INT \in Nat /\ INT >= 1
  /\ MIN_BUFFERSIZE \in Nat /\ MIN_BUFFERSIZE >= INT
  /\ MAX_TYPESIZE \in Nat /\ MAX_SPLITS \in Nat
  /\ MIN_HEADER \in Nat /\ EXTENDED_HEADER \in Nat /\ MIN_HEADER <= EXTENDED_HEADER
BY SizesPositive, SizesInProportion

LEMMA RequestFields ==
  ASSUME request \in RequestType
  PROVE  /\ SourceSize \in Nat
         /\ TypeSize \in Nat \ {0}
         /\ request.blocksize \in Nat /\ request.room \in Nat
         /\ request.clevel \in 0 .. 9
BY DEF RequestType, SourceSize, TypeSize

LEMMA AutomaticIsPositive ==
  ASSUME request \in RequestType
  PROVE  Automatic \in Nat \ {0}
<1> DEFINE base == IF request.hcr THEN 2 * L1 ELSE L1
<1>1. base \in Nat /\ base >= 4
  BY ConstantSizes
<1>2. request.clevel \in 0 .. 9
  BY RequestFields
<1>3. base \div 4 \in Nat /\ base \div 4 >= 1
  BY <1>1
<1>4. Automatic =
        CASE request.clevel = 0 -> base \div 4
          [] request.clevel \in 1 .. 4 -> base
          [] request.clevel = 5 -> 2 * base
          [] request.clevel = 6 -> 4 * base
          [] request.clevel \in 7 .. 8 -> 8 * base
          [] request.clevel = 9 -> IF request.hcr THEN 16 * base ELSE 8 * base
  BY DEF Automatic
<1> HIDE DEF base
<1>5. CASE request.clevel = 0
  BY <1>3, <1>4, <1>5
<1>6. CASE request.clevel \in 1 .. 4
  BY <1>1, <1>4, <1>6
<1>7. CASE request.clevel \in 5 .. 6
  BY <1>1, <1>4, <1>7
<1>8. CASE request.clevel \in 7 .. 8
  BY <1>1, <1>4, <1>8
<1>9. CASE request.clevel = 9
  BY <1>1, <1>4, <1>9
<1>10. request.clevel = 0 \/ request.clevel \in 1 .. 4 \/ request.clevel \in 5 .. 6
         \/ request.clevel \in 7 .. 8 \/ request.clevel = 9
  BY <1>2
<1> QED
  BY <1>5, <1>6, <1>7, <1>8, <1>9, <1>10, Zenon

\* btune_cparams gives a block size of at least a byte, and one that holds
\* whole items when its blocks are split
LEMMA BlockSizeIs ==
  ASSUME request \in RequestType
  PROVE  /\ BlockSize \in Nat \ {0}
         /\ BlockSize > TypeSize => BlockSize % TypeSize = 0
         /\ split_block => BlockSize % TypeSize = 0 /\ BlockSize \div TypeSize >= MIN_BUFFERSIZE
<1> DEFINE user == request.blocksize
           b == Least(Wanted(user), SourceSize)
<1>1. SourceSize \in Nat /\ TypeSize \in Nat \ {0} /\ user \in Nat
  BY RequestFields
<1>2. Wanted(user) \in Nat /\ (SourceSize >= 1 => Wanted(user) >= 1)
  <2>1. CASE user > 0
    BY <1>1, <2>1, ConstantSizes DEF Wanted, Most
  <2>2. CASE ~(user > 0)
    BY <1>1, <2>2, ConstantSizes, AutomaticIsPositive DEF Wanted
  <2> QED
    BY <2>1, <2>2
<1>3. b \in Nat /\ (SourceSize >= 1 => b >= 1)
  BY <1>1, <1>2, LeastIs DEF Least
<1>4. BlockSize = IF SourceSize < TypeSize THEN 1
                  ELSE IF b > TypeSize THEN (b \div TypeSize) * TypeSize ELSE b
  BY DEF BlockSize, btune_cparams
<1>5. split_block => BlockSize \div TypeSize >= MIN_BUFFERSIZE
  BY DEF split_block
<1> HIDE DEF b, user
<1>6. CASE SourceSize < TypeSize
  <2>1. BlockSize = 1
    BY <1>4, <1>6
  <2>2. TypeSize > 1 => 1 \div TypeSize = 0
    BY <1>1
  <2>3. split_block => TypeSize = 1
    BY <1>1, <1>5, <2>1, <2>2, ConstantSizes
  <2>4. 1 % 1 = 0
    OBVIOUS
  <2>5. ~(BlockSize > TypeSize)
    BY <1>1, <2>1
  <2> QED
    BY <1>5, <2>1, <2>3, <2>4, <2>5
<1>7. CASE ~(SourceSize < TypeSize) /\ b > TypeSize
  <2> DEFINE q == b \div TypeSize
  <2>1. BlockSize = q * TypeSize
    BY <1>4, <1>7
  <2>2. q \in Nat /\ b = TypeSize * q + (b % TypeSize) /\ b % TypeSize \in 0 .. TypeSize - 1
    BY <1>1, <1>3, Division
  <2> HIDE DEF q
  <2>3. q >= 1
    <3>1. SUFFICES ASSUME q = 0 PROVE FALSE
      BY <2>2
    <3>2. TypeSize * q = 0
      BY <1>1, <3>1
    <3> QED
      BY <1>1, <1>3, <1>7, <2>2, <3>2
  <2>4. (q * TypeSize) % TypeSize = 0 /\ q * TypeSize \in Nat
    BY <1>1, <2>2, Multiple, WholeMultiples
  <2>5. 1 * TypeSize <= q * TypeSize
    BY <1>1, <2>2, <2>3, ProductGrows
  <2>6. q * TypeSize # 0
    BY <1>1, <2>4, <2>5
  <2> QED
    BY <1>5, <2>1, <2>4, <2>6
<1>8. CASE ~(SourceSize < TypeSize) /\ ~(b > TypeSize)
  <2>1. BlockSize = b /\ b >= 1
    BY <1>1, <1>3, <1>4, <1>8
  <2>2. b < TypeSize => b \div TypeSize = 0
    BY <1>1, <1>3
  <2>3. split_block => b = TypeSize
    BY <1>1, <1>3, <1>5, <1>8, <2>1, <2>2, ConstantSizes
  <2>4. TypeSize % TypeSize = 0
    BY <1>1
  <2>5. ~(BlockSize > TypeSize)
    BY <1>1, <1>3, <1>8, <2>1
  <2> QED
    BY <1>3, <1>5, <2>1, <2>3, <2>4, <2>5
<1> QED
  BY <1>6, <1>7, <1>8

\* The blocks follow one another and the last one ends with the source
LEMMA BlocksAre ==
  ASSUME request \in RequestType
  PROVE  /\ NBlocks \in Nat /\ Leftover \in Nat
         /\ \A b \in 0 .. NBlocks - 1 :
              /\ BlockLen(b) \in 1 .. BlockSize
              /\ b * BlockSize \in Nat /\ b * BlockSize + BlockLen(b) <= SourceSize
              /\ ~IsLeftover(b) => BlockLen(b) = BlockSize
         /\ \A b \in Nat : b * BlockSize < SourceSize => b \in 0 .. NBlocks - 1
         /\ \A b, c \in 0 .. NBlocks - 1 : b < c => BlockLen(b) = BlockSize
         /\ \A b \in 0 .. NBlocks - 1 :
              BlockLen(b) = BlockSize \/ b * BlockSize + BlockLen(b) = SourceSize
<1> DEFINE q == SourceSize \div BlockSize
<1>1. SourceSize \in Nat /\ BlockSize \in Nat \ {0}
  BY RequestFields, BlockSizeIs
<1>2. /\ q \in Nat /\ Leftover \in 0 .. BlockSize - 1
      /\ SourceSize = BlockSize * q + Leftover
  BY <1>1, Division DEF Leftover
<1>3. NBlocks = q + (IF Leftover > 0 THEN 1 ELSE 0)
  BY DEF NBlocks
<1> HIDE DEF q
<1>4. BlockSize * q = q * BlockSize /\ q * BlockSize \in Nat
  BY <1>1, <1>2
<1>5. NBlocks \in Nat /\ Leftover \in Nat
  BY <1>1, <1>2, <1>3
<1>6. ASSUME NEW b \in 0 .. NBlocks - 1
      PROVE  /\ BlockLen(b) \in 1 .. BlockSize
             /\ b * BlockSize \in Nat /\ b * BlockSize + BlockLen(b) <= SourceSize
             /\ ~IsLeftover(b) => BlockLen(b) = BlockSize
             /\ b < NBlocks - 1 => BlockLen(b) = BlockSize
             /\ BlockLen(b) = BlockSize \/ b * BlockSize + BlockLen(b) = SourceSize
  <2>0. b \in Nat /\ b * BlockSize \in Nat
    BY <1>1, <1>5
  <2>1. CASE IsLeftover(b)
    <3>1. Leftover > 0 /\ b = q /\ BlockLen(b) = Leftover /\ b = NBlocks - 1
      BY <1>2, <1>3, <2>1 DEF IsLeftover, BlockLen
    <3> QED
      BY <1>1, <1>2, <1>4, <1>5, <2>0, <2>1, <3>1
  <2>2. CASE ~IsLeftover(b)
    <3>1. BlockLen(b) = BlockSize
      BY <2>2 DEF BlockLen
    <3>2. b < q
      BY <1>2, <1>3, <1>5, <2>0, <2>2 DEF IsLeftover
    <3>3. b * BlockSize + BlockSize <= q * BlockSize
      BY <1>1, <1>2, <2>0, <3>2, NextProduct
    <3> QED
      BY <1>1, <1>2, <1>4, <2>0, <3>1, <3>3
  <2> QED
    BY <2>1, <2>2
<1>7. ASSUME NEW b \in Nat, b * BlockSize < SourceSize
      PROVE  b \in 0 .. NBlocks - 1
  <2>1. SUFFICES ASSUME b >= NBlocks PROVE FALSE
    BY <1>5
  <2>2. CASE Leftover > 0
    <3>1. q < b
      BY <1>2, <1>3, <2>1, <2>2
    <3>2. q * BlockSize + BlockSize <= b * BlockSize /\ b * BlockSize \in Int
      BY <1>1, <1>2, <3>1, NextProduct
    <3> QED
      BY <1>1, <1>2, <1>4, <1>7, <3>2
  <2>3. CASE ~(Leftover > 0)
    <3>1. q <= b /\ Leftover = 0
      BY <1>2, <1>3, <2>1, <2>3
    <3>2. q * BlockSize <= b * BlockSize /\ b * BlockSize \in Int
      BY <1>1, <1>2, <3>1, ProductGrows
    <3> QED
      BY <1>1, <1>2, <1>4, <1>7, <3>1, <3>2
  <2> QED
    BY <2>2, <2>3
<1>8. \A b, c \in 0 .. NBlocks - 1 : b < c => BlockLen(b) = BlockSize
  <2> SUFFICES ASSUME NEW b \in 0 .. NBlocks - 1, NEW c \in 0 .. NBlocks - 1, b < c
               PROVE  BlockLen(b) = BlockSize
    OBVIOUS
  <2>1. b < NBlocks - 1
    BY <1>5
  <2> QED
    BY <1>6, <2>1
<1> QED
  BY <1>5, <1>6, <1>7, <1>8

\* The splits of a block share it evenly
LEMMA SplitsAre ==
  ASSUME request \in RequestType, NEW b \in 0 .. NBlocks - 1
  PROVE  /\ Splits(b) \in 1 .. TypeSize
         /\ NeBlock(b) \in Nat \ {0}
         /\ Splits(b) * NeBlock(b) = BlockLen(b)
         /\ Splits(b) > 1 => NeBlock(b) >= INT
<1>1. /\ TypeSize \in Nat \ {0} /\ BlockSize \in Nat \ {0}
      /\ split_block => BlockSize % TypeSize = 0 /\ BlockSize \div TypeSize >= MIN_BUFFERSIZE
  BY RequestFields, BlockSizeIs
<1>2. /\ BlockLen(b) \in Nat \ {0}
      /\ ~IsLeftover(b) => BlockLen(b) = BlockSize
  BY <1>1, BlocksAre
<1>3. CASE split_block /\ ~IsLeftover(b)
  <2>1. Splits(b) = TypeSize /\ NeBlock(b) = BlockSize \div TypeSize
    BY <1>2, <1>3 DEF Splits, NeBlock
  <2>2. TypeSize * (BlockSize \div TypeSize) = BlockSize /\ BlockSize \div TypeSize \in Nat
    BY <1>1, <1>3, ExactDivision, Division
  <2>3. BlockSize \div TypeSize >= INT /\ INT >= 1
    BY <1>1, <1>3, <2>2, ConstantSizes
  <2> QED
    BY <1>1, <1>2, <1>3, <2>1, <2>2, <2>3
<1>4. CASE ~(split_block /\ ~IsLeftover(b))
  <2>1. Splits(b) = 1 /\ NeBlock(b) = BlockLen(b) \div 1
    BY <1>4 DEF Splits, NeBlock
  <2>2. BlockLen(b) \div 1 = BlockLen(b)
    BY <1>2
  <2> QED
    BY <1>1, <1>2, <2>1, <2>2
<1> QED
  BY <1>3, <1>4

LEMMA Tiling ==
  ASSUME request \in RequestType
  PROVE  NothingLeftOut
<1>1. SourceSize \in Nat /\ BlockSize \in Nat \ {0}
  BY RequestFields, BlockSizeIs
<1>2. ASSUME NEW b \in 0 .. NBlocks - 1
      PROVE  /\ Splits(b) * NeBlock(b) = BlockLen(b) /\ BlockLen(b) > 0
             /\ b * BlockSize + BlockLen(b) <= SourceSize
  BY <1>1, BlocksAre, SplitsAre
<1>3. ASSUME NEW i \in 0 .. SourceSize - 1
      PROVE  \E b \in 0 .. NBlocks - 1 : i - b * BlockSize \in 0 .. BlockLen(b) - 1
  <2> DEFINE b == i \div BlockSize
  <2>1. /\ b \in Nat /\ i % BlockSize \in 0 .. BlockSize - 1
        /\ i = BlockSize * b + (i % BlockSize)
    <3>1. i \in Nat
      BY <1>1
    <3> QED
      BY <1>1, <3>1, Division
  <2> HIDE DEF b
  <2>2. BlockSize * b = b * BlockSize /\ b * BlockSize \in Nat
    BY <1>1, <2>1
  <2>3. b \in 0 .. NBlocks - 1
    BY <1>1, <2>1, <2>2, BlocksAre
  <2>4. /\ BlockLen(b) \in Nat
        /\ BlockLen(b) = BlockSize \/ b * BlockSize + BlockLen(b) = SourceSize
    BY <1>1, <2>3, BlocksAre
  <2>5. i - b * BlockSize \in 0 .. BlockLen(b) - 1
    BY <1>1, <2>1, <2>2, <2>4
  <2> QED
    BY <2>3, <2>5
<1>4. BlockSize > TypeSize => BlockSize % TypeSize = 0
  BY BlockSizeIs
<1> QED
  BY <1>2, <1>3, <1>4 DEF NothingLeftOut

-----------------------------------------------------------------------------
(* The invariant *)

PieceType == [block : Nat, split : Nat, at : Nat, len : Nat \ {0}, form : {"raw", "coded"}]

\* Pieces between two positions, apart from each other
Within(set, first, last) ==
  /\ \A p \in set : p \in PieceType /\ p.at >= first /\ p.at + p.len <= last
  /\ \A p, q \in set : p # q => Apart(p, q)

RightTypes ==
  /\ request \in RequestType
  /\ scratch \in [blocksize : Nat, typesize : Nat]
  /\ phase \in {"job", "copy", "done"} /\ memcpyed \in BOOLEAN
  /\ j \in Nat /\ split \in Nat /\ spent \in Nat /\ ctbytes \in Nat /\ output_bytes \in Nat

\* Buffers that were laid out for a block size, and for some typesize
Buffers ==
  /\ scratch.blocksize # 0 => scratch.typesize >= 1
  /\ Threaded => scratch.blocksize = BlockSize

\* A copy is made only of what is not compressed
Phases == (phase = "job" => ~memcpyed) /\ (phase = "copy" => memcpyed)

\* In a job, what is spent is what was written: no more than INT bytes and
\* the split itself for each split
Spending ==
  phase = "job" =>
    /\ spent = (IF Threaded THEN 0 ELSE output_bytes) + ctbytes
    /\ spent <= Maxbytes
    /\ output_bytes \in FirstOutput .. DestSize
    /\ j < NBlocks => split <= Splits(j) /\ ctbytes <= split * (INT + NeBlock(j))
    /\ Within(pieces, INT, ctbytes)

\* In the chunk, pieces stay behind the block starts and before the end
InChunk ==
  /\ ~(memcpyed /\ phase = "done") => Within(chunk, FirstOutput, DestSize)
  /\ phase = "job" => Within(chunk, FirstOutput, output_bytes)
  /\ memcpyed /\ phase = "done" => Within(chunk, OVERHEAD, DestSize)

LayoutInv == RightTypes /\ Buffers /\ Phases /\ Spending /\ InChunk /\ ItemsExact

-----------------------------------------------------------------------------
(* Sets of pieces *)
LEMMA WithinMore ==
  ASSUME NEW set, NEW first \in Int, NEW last \in Int, NEW f \in Int, NEW l \in Int,
         Within(set, first, last), f <= first, last <= l
  PROVE  Within(set, f, l)
BY DEF Within, PieceType

LEMMA OneMore ==
  ASSUME NEW set, NEW first \in Int, NEW last \in Int, NEW new \in PieceType,
         Within(set, first, last), first <= last, new.at >= last
  PROVE  Within(set \cup {new}, first, new.at + new.len)
<1> DEFINE end == new.at + new.len
<1>1. new.at \in Nat /\ new.len \in Nat
  BY DEF PieceType
<1>2. \A p \in set : p \in PieceType /\ p.at \in Nat /\ p.len \in Nat /\ p.at >= first /\ p.at + p.len <= last
  BY DEF Within, PieceType
<1>3. ASSUME NEW p \in set \cup {new}
      PROVE  p \in PieceType /\ p.at >= first /\ p.at + p.len <= end
  BY <1>1, <1>2
<1>4. ASSUME NEW p \in set \cup {new}, NEW q \in set \cup {new}, p # q
      PROVE  Apart(p, q)
  <2>1. CASE p \in set /\ q \in set
    BY <1>4, <2>1 DEF Within
  <2>2. CASE p \in set /\ q = new
    BY <1>1, <1>2, <2>2 DEF Apart
  <2>3. CASE p = new /\ q \in set
    BY <1>1, <1>2, <2>3 DEF Apart
  <2> QED
    BY <1>4, <2>1, <2>2, <2>3
<1> QED
  BY <1>3, <1>4 DEF Within

LEMMA AllMoved ==
  ASSUME NEW set, NEW first \in Int, NEW last \in Int, NEW by \in Nat, Within(set, first, last)
  PROVE  Within({[p EXCEPT !.at = @ + by] : p \in set}, first + by, last + by)
<1> DEFINE moved(p) == [p EXCEPT !.at = @ + by]
<1>1. ASSUME NEW p \in set
      PROVE  /\ moved(p) \in PieceType
             /\ p.at \in Nat /\ p.len \in Nat /\ p.at >= first /\ p.at + p.len <= last
             /\ moved(p).at = p.at + by /\ moved(p).len = p.len
  BY DEF Within, PieceType
<1>2. \A p, q \in set : p # q => Apart(p, q)
  BY DEF Within
<1>3. ASSUME NEW p \in set, NEW q \in set, moved(p) # moved(q)
      PROVE  Apart(moved(p), moved(q))
  <2>1. Apart(p, q)
    BY <1>2, <1>3
  <2> HIDE DEF moved
  <2> QED
    BY <1>1, <2>1 DEF Apart
<1> HIDE DEF moved
<1>4. Within({moved(p) : p \in set}, first + by, last + by)
  BY <1>1, <1>3 DEF Within
<1> QED
  BY <1>4 DEF moved

LEMMA BothWithin ==
  ASSUME NEW old, NEW new, NEW first \in Int, NEW last \in Int,
         Within(old, first, last), Within(new, first, last)
  PROVE  Within(Written(old, new), first, last)
<1>1. ASSUME NEW p \in Written(old, new)
      PROVE  p \in PieceType /\ p.at >= first /\ p.at + p.len <= last
  BY DEF Within, Written
<1>2. ASSUME NEW p \in Written(old, new), NEW q \in Written(old, new), p # q
      PROVE  Apart(p, q)
  <2>1. CASE p \in new /\ q \in new
    BY <1>2, <2>1 DEF Within
  <2>2. CASE p \in old /\ q \in old
    BY <1>2, <2>2 DEF Within
  <2>3. CASE p \notin new /\ q \in new
    BY <2>3 DEF Written
  <2>4. CASE p \in new /\ q \notin new
    <3>1. Apart(q, p)
      BY <2>4 DEF Written
    <3> QED
      BY <3>1 DEF Apart
  <2> QED
    BY <2>1, <2>2, <2>3, <2>4 DEF Written
<1> QED
  BY <1>1, <1>2 DEF Within

-----------------------------------------------------------------------------
(* Where a call begins *)
Starts ==
  /\ request \in RequestType
  /\ scratch \in [blocksize : Nat, typesize : Nat] /\ Buffers
  /\ phase = FirstPhase /\ memcpyed = (FirstPhase = "copy")
  /\ j = 0 /\ split = 0 /\ ctbytes = 0
  /\ output_bytes = FirstOutput /\ spent = FirstSpent
  /\ pieces = {} /\ chunk = {} /\ items = <<>>

LEMMA SizesOfDest ==
  ASSUME request \in RequestType
  PROVE  /\ FirstOutput \in Nat /\ DestSize \in Nat /\ Ebsize \in Nat
         /\ OVERHEAD \in Nat /\ OVERHEAD <= FirstOutput /\ FirstOutput <= DestSize
         /\ Maxbytes \in Nat /\ FirstSpent \in 0 .. Maxbytes
<1>1. /\ NBlocks \in Nat /\ request.room \in Nat
      /\ BlockSize \in Nat /\ TypeSize \in Nat
  BY RequestFields, BlocksAre, BlockSizeIs
<1>2. INT * NBlocks \in Nat /\ TypeSize * INT \in Nat
  BY <1>1, ConstantSizes
<1>3. Header \in Nat /\ OVERHEAD \in Nat /\ OVERHEAD <= Header
  BY ConstantSizes DEF Header, OVERHEAD
<1>4. /\ FirstOutput \in Nat /\ DestSize \in Nat /\ Ebsize \in Nat
      /\ OVERHEAD <= FirstOutput /\ FirstOutput <= DestSize
  BY <1>1, <1>2, <1>3 DEF FirstOutput, DestSize, Ebsize
<1>5. Maxbytes \in Nat /\ FirstSpent \in 0 .. Maxbytes
  BY <1>4 DEF Maxbytes, FirstSpent
<1> QED
  BY <1>3, <1>4, <1>5

LEMMA NoPieces ==
  ASSUME NEW first, NEW last
  PROVE  Within({}, first, last)
BY DEF Within

LEMMA StartsWell == Starts => LayoutInv
<1> SUFFICES ASSUME Starts PROVE LayoutInv
  OBVIOUS
<1> USE DEF Starts
<1>1. /\ FirstOutput \in Nat /\ DestSize \in Nat /\ FirstOutput <= DestSize
      /\ Maxbytes \in Nat /\ FirstSpent \in 0 .. Maxbytes
  BY SizesOfDest
<1>2. RightTypes
  BY <1>1 DEF RightTypes, FirstPhase
<1>3. Phases
  BY DEF Phases
<1>4. Spending
  <2>1. spent = (IF Threaded THEN 0 ELSE output_bytes) + ctbytes /\ spent <= Maxbytes
    BY <1>1 DEF FirstSpent
  <2>2. j < NBlocks => split <= Splits(j) /\ ctbytes <= split * (INT + NeBlock(j))
    <3>1. SUFFICES ASSUME 0 < NBlocks
                   PROVE  0 <= Splits(0) /\ 0 <= 0 * (INT + NeBlock(0))
      OBVIOUS
    <3>2. NBlocks \in Nat
      BY BlocksAre
    <3>3. Splits(0) \in 1 .. TypeSize /\ NeBlock(0) \in Nat /\ TypeSize \in Nat
      BY <3>1, <3>2, SplitsAre, RequestFields
    <3>4. INT + NeBlock(0) \in Nat
      BY <3>3, ConstantSizes
    <3> QED
      BY <3>3, <3>4
  <2>3. Within(pieces, INT, ctbytes)
    BY NoPieces
  <2> QED
    BY <1>1, <2>1, <2>2, <2>3 DEF Spending
<1>5. InChunk
  BY NoPieces DEF InChunk
<1>6. ItemsExact
  BY DEF ItemsExact
<1> QED
  BY <1>2, <1>3, <1>4, <1>5, <1>6 DEF LayoutInv

\* What a request says stays the same as long as the request does
LEMMA SameRequest ==
  ASSUME request' = request
  PROVE  /\ SourceSize' = SourceSize /\ TypeSize' = TypeSize /\ BlockSize' = BlockSize
         /\ NBlocks' = NBlocks /\ Threaded' = Threaded /\ Ebsize' = Ebsize
         /\ DestSize' = DestSize /\ Maxbytes' = Maxbytes /\ FirstOutput' = FirstOutput
         /\ \A b : /\ Splits(b)' = Splits(b) /\ NeBlock(b)' = NeBlock(b)
                   /\ BlockLen(b)' = BlockLen(b)
         /\ \A x : ItemExact(x)' = ItemExact(x)
<1>1. SourceSize' = SourceSize /\ TypeSize' = TypeSize /\ Automatic' = Automatic
  BY DEF SourceSize, TypeSize, Automatic
<1>2. BlockSize' = BlockSize
  BY <1>1 DEF BlockSize, btune_cparams, Wanted
<1>3. NBlocks' = NBlocks /\ Leftover' = Leftover
  BY <1>1, <1>2 DEF NBlocks, Leftover
<1>4. split_block' = split_block
  BY <1>1, <1>2 DEF split_block
<1>5. \A b : IsLeftover(b)' = IsLeftover(b)
  BY <1>3 DEF IsLeftover
<1>6. \A b : BlockLen(b)' = BlockLen(b) /\ Splits(b)' = Splits(b)
  BY <1>1, <1>2, <1>3, <1>4, <1>5 DEF BlockLen, Splits
<1>7. \A b : NeBlock(b)' = NeBlock(b)
  BY <1>6 DEF NeBlock
<1>8. Threaded' = Threaded /\ Ebsize' = Ebsize /\ DestSize' = DestSize /\ FirstOutput' = FirstOutput
  BY <1>1, <1>2, <1>3 DEF Threaded, Ebsize, DestSize, FirstOutput, Header
<1>9. Maxbytes' = Maxbytes
  BY <1>8 DEF Maxbytes
<1>10. \A x : ItemExact(x)' = ItemExact(x)
  BY <1>1 DEF ItemExact
<1> QED
  BY <1>1, <1>2, <1>3, <1>6, <1>7, <1>8, <1>9, <1>10

-----------------------------------------------------------------------------
(* The steps of a call *)
LEMMA FixedStays ==
  ASSUME LayoutInv, request' = request, scratch' = scratch
  PROVE  /\ request' \in RequestType /\ scratch' \in [blocksize : Nat, typesize : Nat]
         /\ Buffers'
         /\ items' = items => ItemsExact'
BY SameRequest DEF LayoutInv, RightTypes, Buffers, ItemsExact

LEMMA GiveUpStep ==
  ASSUME LayoutInv, phase = "job", GiveUp
  PROVE  LayoutInv'
<1> USE DEF GiveUp, Fixed
<1>1. RightTypes'
  BY FixedStays DEF LayoutInv, RightTypes
<1>2. Buffers' /\ ItemsExact'
  BY FixedStays
<1>3. Phases'
  BY DEF Phases
<1>4. Spending'
  BY DEF Spending
<1>5. InChunk'
  BY SameRequest DEF LayoutInv, InChunk
<1> QED
  BY <1>1, <1>2, <1>3, <1>4, <1>5 DEF LayoutInv

LEMMA CompressSplitStep ==
  ASSUME LayoutInv, CompressSplit
  PROVE  LayoutInv'
<1> DEFINE n == NeBlock(j)
           room == Maxbytes - (spent + INT)
           maxout == Least(n, room)
<1>1. phase = "job" /\ j < NBlocks /\ split < Splits(j)
  BY DEF CompressSplit
<1>2. CASE GiveUp
  BY <1>1, <1>2, GiveUpStep
<1>3. CASE ~GiveUp
  <2>1. PICK c \in CodecSizes(n, maxout) :
          LET raw == c \in {0, n}
              len == IF raw THEN n ELSE c
          IN  /\ raw => RawFits(room, n)
              /\ pieces' = pieces \cup
                   {[block |-> j, split |-> split, at |-> ctbytes + INT, len |-> len,
                     form |-> IF raw THEN "raw" ELSE "coded"]}
              /\ spent' = spent + INT + len /\ ctbytes' = ctbytes + INT + len
    BY <1>3 DEF CompressSplit
  <2>2. /\ split' = split + 1
        /\ Fixed /\ UNCHANGED <<phase, j, output_bytes, bstarts, chunk, memcpyed, result>>
    BY <1>3 DEF CompressSplit
  <2> DEFINE len == IF c \in {0, n} THEN n ELSE c
             new == [block |-> j, split |-> split, at |-> ctbytes + INT, len |-> len,
                     form |-> IF c \in {0, n} THEN "raw" ELSE "coded"]
  <2>3. /\ c \in {0, n} => RawFits(room, n)
        /\ pieces' = pieces \cup {new}
        /\ spent' = spent + INT + len /\ ctbytes' = ctbytes + INT + len
    BY <2>1
  <2>4. /\ request \in RequestType /\ j \in Nat /\ split \in Nat /\ spent \in Nat
        /\ ctbytes \in Nat /\ output_bytes \in Nat
    BY DEF LayoutInv, RightTypes
  <2>5. j \in 0 .. NBlocks - 1 /\ NBlocks \in Nat
    BY <1>1, <2>4, BlocksAre
  <2>6. n \in Nat \ {0} /\ Splits(j) \in Nat
    BY <2>4, <2>5, SplitsAre, RequestFields
  <2>7. Maxbytes \in Nat /\ INT \in Nat /\ room \in Int
    BY <2>4, SizesOfDest, ConstantSizes
  <2>8. maxout \in Int /\ maxout <= n /\ maxout <= room
    BY <2>6, <2>7, LeastIs DEF Least
  <2>9. c = 0 \/ c \in 1 .. maxout
    BY <2>1 DEF CodecSizes
  <2>10. len \in 1 .. n /\ len <= room
    <3>1. CASE c \in {0, n}
      BY <2>3, <2>6, <2>7, <3>1 DEF RawFits
    <3>2. CASE c \notin {0, n}
      <4>1. len = c /\ c \in 1 .. maxout
        BY <2>9, <3>2
      <4> QED
        BY <2>6, <2>7, <2>8, <4>1
    <3> QED
      BY <3>1, <3>2
  <2>11. new \in PieceType /\ new.at = ctbytes + INT /\ new.len = len
    BY <2>4, <2>6, <2>7, <2>10 DEF PieceType
  <2> HIDE DEF len, new
  <2>12. request' = request /\ scratch' = scratch /\ items' = items
    BY <2>2 DEF Fixed
  <2>13. RightTypes'
    <3>1. spent' \in Nat /\ ctbytes' \in Nat /\ split' \in Nat
      BY <2>2, <2>3, <2>4, <2>6, <2>7, <2>10
    <3> QED
      BY <2>2, <2>12, <3>1, FixedStays DEF LayoutInv, RightTypes
  <2>14. Buffers' /\ ItemsExact'
    BY <2>12, FixedStays
  <2>15. Phases'
    BY <2>2 DEF LayoutInv, Phases
  <2>16. Spending'
    <3>1. /\ spent = (IF Threaded THEN 0 ELSE output_bytes) + ctbytes
          /\ output_bytes \in FirstOutput .. DestSize
          /\ ctbytes <= split * (INT + n)
          /\ Within(pieces, INT, ctbytes)
      BY <1>1 DEF LayoutInv, Spending
    <3>2. spent' = (IF Threaded THEN 0 ELSE output_bytes) + ctbytes'
      BY <2>3, <2>4, <2>6, <2>7, <2>10, <3>1
    <3>3. spent' <= Maxbytes
      BY <2>3, <2>4, <2>6, <2>7, <2>10
    <3>4. split' <= Splits(j)
      BY <1>1, <2>2, <2>4, <2>6
    <3>5. ctbytes' <= split' * (INT + n)
      <4>1. split' * (INT + n) = split * (INT + n) + (INT + n) /\ split * (INT + n) \in Nat
        BY <2>2, <2>4, <2>6, <2>7
      <4> QED
        BY <2>3, <2>4, <2>6, <2>7, <2>10, <3>1, <4>1
    <3>6. Within(pieces', INT, ctbytes')
      <4>1. CASE pieces = {}
        <5>1. \A p \in pieces' : p = new
          BY <2>3, <4>1
        <5> QED
          BY <2>3, <2>4, <2>6, <2>7, <2>10, <2>11, <5>1 DEF Within
      <4>2. CASE pieces # {}
        <5>1. PICK p \in pieces : TRUE
          BY <4>2
        <5>2. INT <= ctbytes
          BY <2>4, <2>7, <3>1, <5>1 DEF Within, PieceType
        <5>3. Within(pieces \cup {new}, INT, new.at + new.len)
          <6>1. INT \in Int /\ ctbytes \in Int /\ new.at >= ctbytes
            BY <2>4, <2>7, <2>11
          <6>2. new \in PieceType /\ Within(pieces, INT, ctbytes)
            BY <2>11, <3>1
          <6> QED
            BY <5>2, <6>1, <6>2, OneMore
        <5>4. new.at + new.len = ctbytes'
          BY <2>3, <2>4, <2>6, <2>7, <2>10, <2>11
        <5> QED
          BY <2>3, <5>3, <5>4
      <4> QED
        BY <4>1, <4>2
    <3>7. j' = j /\ phase' = phase /\ output_bytes' = output_bytes
      BY <2>2
    <3> QED
      BY <2>12, <3>1, <3>2, <3>3, <3>4, <3>5, <3>6, <3>7, SameRequest DEF Spending
  <2>17. InChunk'
    BY <2>2, <2>12, SameRequest DEF LayoutInv, InChunk
  <2> QED
    BY <2>13, <2>14, <2>15, <2>16, <2>17 DEF LayoutInv
<1> QED
  BY <1>2, <1>3

LEMMA NextBlockStep ==
  ASSUME LayoutInv, NextBlock
  PROVE  LayoutInv'
<1>1. phase = "job" /\ j < NBlocks /\ split = Splits(j)
  BY DEF NextBlock
<1>2. CASE GiveUp
  BY <1>1, <1>2, GiveUpStep
<1>3. CASE ~GiveUp
  <2>1. /\ Fits(ctbytes)
        /\ chunk' = Written(chunk, PlaceBlock(output_bytes))
        /\ output_bytes' = output_bytes + ctbytes
        /\ spent' = IF Threaded THEN 0 ELSE output_bytes + ctbytes
        /\ j' = j + 1 /\ split' = 0 /\ pieces' = {} /\ ctbytes' = 0
        /\ Fixed /\ UNCHANGED <<phase, memcpyed, result>>
    BY <1>3 DEF NextBlock
  <2>2. /\ request \in RequestType /\ j \in Nat /\ ctbytes \in Nat /\ output_bytes \in Nat
    BY DEF LayoutInv, RightTypes
  <2>3. /\ FirstOutput \in Nat /\ DestSize \in Nat /\ INT \in Nat /\ NBlocks \in Nat
        /\ Maxbytes \in Nat
    BY <2>2, SizesOfDest, ConstantSizes, BlocksAre
  <2>4. /\ spent = (IF Threaded THEN 0 ELSE output_bytes) + ctbytes /\ spent <= Maxbytes
        /\ output_bytes \in FirstOutput .. DestSize
        /\ Within(pieces, INT, ctbytes)
    BY <1>1 DEF LayoutInv, Spending
  <2>5. output_bytes' \in FirstOutput .. DestSize
    <3>1. CASE Threaded
      BY <2>1, <2>2, <2>3, <2>4, <3>1 DEF Fits
    <3>2. CASE ~Threaded
      BY <2>1, <2>2, <2>3, <2>4, <3>2 DEF Maxbytes
    <3> QED
      BY <3>1, <3>2
  <2>6. request' = request /\ scratch' = scratch /\ items' = items
    BY <2>1 DEF Fixed
  <2>7. spent' \in Nat /\ spent' = (IF Threaded THEN 0 ELSE output_bytes') + ctbytes'
    BY <2>1, <2>2
  <2>8. spent' <= Maxbytes
    BY <2>1, <2>2, <2>3, <2>5 DEF Maxbytes
  <2>9. RightTypes'
    <3>1. /\ spent' \in Nat /\ ctbytes' \in Nat /\ split' \in Nat /\ j' \in Nat
          /\ output_bytes' \in Nat
      BY <2>1, <2>2, <2>7
    <3> QED
      BY <2>1, <2>6, <3>1, FixedStays DEF LayoutInv, RightTypes
  <2>10. Buffers' /\ ItemsExact'
    BY <2>6, FixedStays
  <2>11. Phases'
    BY <2>1 DEF LayoutInv, Phases
  <2>12. Spending'
    <3>1. ASSUME j' < NBlocks
          PROVE  split' <= Splits(j') /\ ctbytes' <= split' * (INT + NeBlock(j'))
      <4>1. j' \in 0 .. NBlocks - 1
        BY <2>1, <2>2, <2>3, <3>1
      <4>2. Splits(j') \in 1 .. TypeSize /\ NeBlock(j') \in Nat /\ TypeSize \in Nat
        BY <2>2, <4>1, SplitsAre, RequestFields
      <4>3. 0 * (INT + NeBlock(j')) = 0
        BY <2>3, <4>2
      <4> QED
        BY <2>1, <4>2, <4>3
    <3>2. Within(pieces', INT, ctbytes')
      BY <2>1, NoPieces
    <3>3. \A b : Splits(b)' = Splits(b) /\ NeBlock(b)' = NeBlock(b)
      BY <2>6, SameRequest
    <3> QED
      BY <2>5, <2>6, <2>7, <2>8, <3>1, <3>2, <3>3, SameRequest DEF Spending
  <2>13. Within(chunk', FirstOutput, output_bytes')
    <3>1. Within(PlaceBlock(output_bytes), INT + output_bytes, ctbytes + output_bytes)
      <4>1. INT \in Int /\ ctbytes \in Int /\ output_bytes \in Nat
        BY <2>2, <2>3
      <4>2. Within({[p EXCEPT !.at = @ + output_bytes] : p \in pieces},
                   INT + output_bytes, ctbytes + output_bytes)
        BY <2>4, <4>1, AllMoved
      <4> QED
        BY <4>2 DEF PlaceBlock
    <3>2. Within(PlaceBlock(output_bytes), FirstOutput, output_bytes')
      BY <2>1, <2>2, <2>3, <2>4, <3>1, WithinMore
    <3>3. Within(chunk, FirstOutput, output_bytes)
      BY <1>1 DEF LayoutInv, InChunk
    <3>4. Within(chunk, FirstOutput, output_bytes')
      BY <2>1, <2>2, <2>3, <3>3, WithinMore
    <3> QED
      BY <2>1, <2>2, <2>3, <3>2, <3>4, BothWithin
  <2>14. InChunk'
    <3>1. Within(chunk', FirstOutput, DestSize)
      BY <2>3, <2>5, <2>13, WithinMore
    <3>2. phase' = "job"
      BY <1>1, <2>1
    <3> QED
      BY <2>6, <2>13, <3>1, <3>2, SameRequest DEF InChunk
  <2> QED
    BY <2>9, <2>10, <2>11, <2>12, <2>14 DEF LayoutInv
<1> QED
  BY <1>2, <1>3

LEMMA EndJobStep ==
  ASSUME LayoutInv, EndJob
  PROVE  LayoutInv'
<1> USE DEF EndJob, Fixed
<1>1. RightTypes'
  BY FixedStays DEF LayoutInv, RightTypes
<1>2. Buffers' /\ ItemsExact'
  BY FixedStays
<1>3. Phases'
  BY DEF Phases
<1>4. Spending'
  BY DEF Spending
<1>5. InChunk'
  <2>1. ~memcpyed /\ memcpyed' = memcpyed
    BY DEF LayoutInv, Phases
  <2> QED
    BY <2>1, SameRequest DEF LayoutInv, InChunk
<1> QED
  BY <1>1, <1>2, <1>3, <1>4, <1>5 DEF LayoutInv

LEMMA StoredWithin ==
  ASSUME request \in RequestType, CopyFits
  PROVE  Within({Stored(b) : b \in 0 .. NBlocks - 1}, OVERHEAD, DestSize)
<1>1. /\ SourceSize \in Nat /\ BlockSize \in Nat \ {0} /\ NBlocks \in Nat /\ OVERHEAD \in Nat
      /\ DestSize \in Nat /\ SourceSize + OVERHEAD <= DestSize
  BY RequestFields, BlockSizeIs, BlocksAre, ConstantSizes, SizesOfDest DEF CopyFits
<1>2. ASSUME NEW b \in 0 .. NBlocks - 1
      PROVE  /\ Stored(b) \in PieceType
             /\ Stored(b).at = OVERHEAD + b * BlockSize /\ Stored(b).len = BlockLen(b)
             /\ b * BlockSize \in Nat /\ BlockLen(b) \in 1 .. BlockSize
             /\ b * BlockSize + BlockLen(b) <= SourceSize
  <2>1. /\ b * BlockSize \in Nat /\ BlockLen(b) \in 1 .. BlockSize
        /\ b * BlockSize + BlockLen(b) <= SourceSize
    BY <1>1, BlocksAre
  <2>2. b \in Nat /\ BlockLen(b) \in Nat /\ OVERHEAD + b * BlockSize \in Nat
    BY <1>1, <2>1
  <2> QED
    BY <2>1, <2>2 DEF Stored, PieceType
<1>3. ASSUME NEW b \in 0 .. NBlocks - 1, NEW c \in 0 .. NBlocks - 1, b < c
      PROVE  Stored(b).at + Stored(b).len <= Stored(c).at
  <2>1. b * BlockSize + BlockSize <= c * BlockSize
    BY <1>1, <1>3, NextProduct
  <2>2. /\ Stored(b).at = OVERHEAD + b * BlockSize /\ Stored(b).len = BlockLen(b)
        /\ b * BlockSize \in Nat /\ BlockLen(b) \in 1 .. BlockSize
    BY <1>2
  <2>3. Stored(c).at = OVERHEAD + c * BlockSize /\ c * BlockSize \in Nat
    BY <1>2
  <2> QED
    BY <1>1, <2>1, <2>2, <2>3
<1>4. ASSUME NEW b \in 0 .. NBlocks - 1, NEW c \in 0 .. NBlocks - 1, Stored(b) # Stored(c)
      PROVE  Apart(Stored(b), Stored(c))
  <2>1. b < c \/ c < b
    BY <1>1, <1>4
  <2> QED
    BY <1>3, <2>1 DEF Apart
<1>5. ASSUME NEW b \in 0 .. NBlocks - 1
      PROVE  Stored(b).at >= OVERHEAD /\ Stored(b).at + Stored(b).len <= DestSize
  BY <1>1, <1>2
<1> QED
  BY <1>2, <1>4, <1>5 DEF Within

LEMMA CopyStep ==
  ASSUME LayoutInv, Copy
  PROVE  LayoutInv'
<1>1. /\ phase = "copy" /\ phase' = "done" /\ Fixed /\ memcpyed /\ memcpyed' = memcpyed
      /\ UNCHANGED <<j, split, spent, ctbytes, output_bytes, bstarts, pieces>>
  BY DEF Copy, LayoutInv, Phases
<1>2. request' = request /\ scratch' = scratch /\ items' = items
  BY <1>1 DEF Fixed
<1>3. RightTypes'
  BY <1>1, <1>2, FixedStays DEF LayoutInv, RightTypes
<1>4. Buffers' /\ ItemsExact'
  BY <1>2, FixedStays
<1>5. Phases'
  BY <1>1 DEF Phases
<1>6. Spending'
  BY <1>1 DEF Spending
<1>7. Within(chunk', OVERHEAD, DestSize)
  <2>1. request \in RequestType
    BY DEF LayoutInv, RightTypes
  <2>2. /\ FirstOutput \in Int /\ DestSize \in Int /\ OVERHEAD \in Int
        /\ OVERHEAD <= FirstOutput
    BY <2>1, SizesOfDest, ConstantSizes
  <2>3. Within(chunk, FirstOutput, DestSize)
    BY <1>1 DEF LayoutInv, InChunk
  <2>4. Within(chunk, OVERHEAD, DestSize)
    BY <2>2, <2>3, WithinMore
  <2>5. CASE CopyFits
    <3>1. chunk' = Written(chunk, {Stored(b) : b \in 0 .. NBlocks - 1})
      BY <2>5 DEF Copy
    <3>2. Within({Stored(b) : b \in 0 .. NBlocks - 1}, OVERHEAD, DestSize)
      BY <2>1, <2>5, StoredWithin
    <3> QED
      BY <2>2, <2>4, <3>1, <3>2, BothWithin
  <2>6. CASE ~CopyFits
    BY <2>4, <2>6 DEF Copy
  <2> QED
    BY <2>5, <2>6
<1>8. InChunk'
  BY <1>1, <1>2, <1>7, SameRequest DEF InChunk
<1> QED
  BY <1>3, <1>4, <1>5, <1>6, <1>8 DEF LayoutInv

-----------------------------------------------------------------------------
(* Reading *)

\* A range of bytes of the source, from block to block
LEMMA BlocksOfRange ==
  ASSUME request \in RequestType, NEW start \in Int, NEW stop \in Int,
         start * TypeSize \in 0 .. stop * TypeSize, stop * TypeSize <= SourceSize
  PROVE  LET g == [b \in Touched(start, stop) |-> FromBlock(b, start, stop)]
             from == start * TypeSize
             upto == stop * TypeSize
         IN  IF from = upto THEN \A b \in DOMAIN g : g[b].from = g[b].upto
             ELSE /\ \E b \in DOMAIN g : g[b].from = from /\ \A c \in DOMAIN g : b <= c
                  /\ \E b \in DOMAIN g : g[b].upto = upto /\ \A c \in DOMAIN g : c <= b
                  /\ \A b, c \in DOMAIN g :
                       b < c => b + 1 \in DOMAIN g /\ g[b].upto = g[b + 1].from
<1> DEFINE from == start * TypeSize
           upto == stop * TypeSize
           g == [b \in Touched(start, stop) |-> FromBlock(b, start, stop)]
           D == Touched(start, stop)
<1>1. /\ SourceSize \in Nat /\ BlockSize \in Nat \ {0} /\ NBlocks \in Nat /\ TypeSize \in Nat \ {0}
  BY RequestFields, BlockSizeIs, BlocksAre
<1>2. from \in Nat /\ upto \in Nat /\ from <= upto /\ upto <= SourceSize
  BY <1>1
<1>3. D = {b \in 0 .. NBlocks - 1 : from - b * BlockSize < BlockSize /\ upto - b * BlockSize > 0}
  BY DEF Touched
<1>4. /\ DOMAIN g = D
      /\ \A b \in D : /\ g[b].from = b * BlockSize + Most(from - b * BlockSize, 0)
                      /\ g[b].upto = b * BlockSize + Least(upto - b * BlockSize, BlockSize)
  BY DEF FromBlock, ClipStop
<1> HIDE DEF from, upto, g, D
\* A block is touched when it begins before the end and ends after the start
<1>5. ASSUME NEW b \in D
      PROVE  /\ b \in 0 .. NBlocks - 1 /\ b \in Nat /\ b * BlockSize \in Nat
             /\ from < b * BlockSize + BlockSize /\ upto > b * BlockSize
  <2>1. b \in 0 .. NBlocks - 1 /\ from - b * BlockSize < BlockSize /\ upto - b * BlockSize > 0
    BY <1>3
  <2>2. b \in Nat /\ b * BlockSize \in Nat
    BY <1>1, <2>1
  <2> QED
    BY <1>1, <1>2, <2>1, <2>2
<1>6. ASSUME NEW b \in Nat, from < b * BlockSize + BlockSize, upto > b * BlockSize
      PROVE  b \in D
  <2>1. b * BlockSize \in Nat
    BY <1>1
  <2>2. b \in 0 .. NBlocks - 1
    BY <1>1, <1>2, <1>6, <2>1, BlocksAre
  <2> QED
    BY <1>1, <1>2, <1>3, <1>6, <2>1, <2>2
<1>7. ASSUME NEW b \in D
      PROVE  /\ g[b].from = IF from < b * BlockSize THEN b * BlockSize ELSE from
             /\ g[b].upto = IF upto < b * BlockSize + BlockSize THEN upto
                            ELSE b * BlockSize + BlockSize
  <2>1. b * BlockSize \in Nat
    BY <1>5
  <2>2. b * BlockSize + Most(from - b * BlockSize, 0)
          = IF from < b * BlockSize THEN b * BlockSize ELSE from
    BY <1>2, <2>1 DEF Most
  <2>3. b * BlockSize + Least(upto - b * BlockSize, BlockSize)
          = IF upto < b * BlockSize + BlockSize THEN upto ELSE b * BlockSize + BlockSize
    BY <1>1, <1>2, <2>1 DEF Least
  <2> QED
    BY <1>4, <2>2, <2>3
<1>8. CASE from = upto
  <2>1. ASSUME NEW b \in D
        PROVE  g[b].from = g[b].upto
    BY <1>1, <1>2, <1>5, <1>7, <1>8
  <2> QED
    BY <1>4, <1>8, <2>1 DEF g, from, upto, D
<1>9. CASE from # upto
  <2>1. \E b \in D : g[b].from = from /\ \A c \in D : b <= c
    <3> DEFINE b == from \div BlockSize
    <3>1. b \in Nat /\ from % BlockSize \in 0 .. BlockSize - 1
          /\ from = BlockSize * b + (from % BlockSize)
      BY <1>1, <1>2, Division
    <3> HIDE DEF b
    <3>2. /\ b * BlockSize \in Nat /\ from >= b * BlockSize
          /\ from < b * BlockSize + BlockSize
      <4>1. BlockSize * b = b * BlockSize /\ b * BlockSize \in Nat
        BY <1>1, <3>1, WholeMultiples
      <4> QED
        BY <1>1, <1>2, <3>1, <4>1
    <3>3. b \in D
      BY <1>1, <1>2, <1>6, <1>9, <3>1, <3>2
    <3>4. g[b].from = from
      BY <1>2, <1>7, <3>2, <3>3
    <3>5. ASSUME NEW c \in D
          PROVE  b <= c
      <4>1. c \in Nat /\ c * BlockSize \in Nat /\ from < c * BlockSize + BlockSize
        BY <1>5
      <4>2. c < b => c * BlockSize + BlockSize <= b * BlockSize
        BY <1>1, <3>1, <4>1, NextProduct
      <4> QED
        BY <1>1, <1>2, <3>1, <3>2, <4>1, <4>2
    <3> QED
      BY <3>3, <3>4, <3>5
  <2>2. \E b \in D : g[b].upto = upto /\ \A c \in D : c <= b
    <3> DEFINE b == (upto - 1) \div BlockSize
    <3>1. b \in Nat /\ (upto - 1) % BlockSize \in 0 .. BlockSize - 1
          /\ upto - 1 = BlockSize * b + ((upto - 1) % BlockSize)
      <4>1. upto - 1 \in Nat
        BY <1>2, <1>9
      <4> QED
        BY <1>1, <4>1, Division
    <3> HIDE DEF b
    <3>2. /\ b * BlockSize \in Nat /\ upto > b * BlockSize
          /\ upto <= b * BlockSize + BlockSize
      <4>1. BlockSize * b = b * BlockSize /\ b * BlockSize \in Nat
        BY <1>1, <3>1, WholeMultiples
      <4> QED
        BY <1>1, <1>2, <3>1, <4>1
    <3>3. b \in D
      BY <1>1, <1>2, <1>6, <1>9, <3>1, <3>2
    <3>4. g[b].upto = upto
      BY <1>1, <1>2, <1>7, <3>2, <3>3
    <3>5. ASSUME NEW c \in D
          PROVE  c <= b
      <4>1. c \in Nat /\ c * BlockSize \in Nat /\ upto > c * BlockSize
        BY <1>5
      <4>2. b < c => b * BlockSize + BlockSize <= c * BlockSize
        BY <1>1, <3>1, <4>1, NextProduct
      <4> QED
        BY <1>1, <1>2, <3>1, <3>2, <4>1, <4>2
    <3> QED
      BY <3>3, <3>4, <3>5
  <2>3. ASSUME NEW b \in D, NEW c \in D, b < c
        PROVE  b + 1 \in D /\ g[b].upto = g[b + 1].from
    <3>1. /\ b \in Nat /\ c \in Nat /\ b * BlockSize \in Nat /\ c * BlockSize \in Nat
          /\ from < b * BlockSize + BlockSize /\ upto > c * BlockSize
      BY <1>5
    <3>2. b * BlockSize + BlockSize <= c * BlockSize
      BY <1>1, <2>3, <3>1, NextProduct
    <3>3. (b + 1) * BlockSize = b * BlockSize + BlockSize
      BY <1>1, <3>1
    <3>4. b + 1 \in D
      BY <1>1, <1>2, <1>6, <3>1, <3>2, <3>3
    <3>5. g[b].upto = b * BlockSize + BlockSize
      BY <1>1, <1>2, <1>7, <3>1, <3>2
    <3>6. g[b + 1].from = b * BlockSize + BlockSize
      BY <1>1, <1>2, <1>7, <3>1, <3>3, <3>4
    <3> QED
      BY <3>4, <3>5, <3>6
  <2> QED
    BY <1>4, <1>9, <2>1, <2>2, <2>3 DEF g, from, upto, D
<1> QED
  BY <1>8, <1>9

LEMMA ProductSign ==
  ASSUME NEW a \in Int, NEW n \in Nat \ {0}
  PROVE  a * n \in Int /\ (a < 0 <=> a * n < 0)
<1>1. a * n \in Int
  OBVIOUS
<1>2. CASE a < 0
  <2>1. a * n + n <= 0 * n
    BY <1>2, NextProduct
  <2> QED
    BY <1>1, <1>2, <2>1
<1>3. CASE ~(a < 0)
  BY <1>3
<1> QED
  BY <1>1, <1>2, <1>3

LEMMA GetItemStep ==
  ASSUME LayoutInv, NEW start \in Int, NEW n \in Nat, GetItem(start, n)
  PROVE  LayoutInv'
<1> DEFINE stop == start + n
           outside == start < 0 \/ start * TypeSize > SourceSize \/ stop < 0 \/ stop * TypeSize > SourceSize
           got == IF outside THEN <<>> ELSE [b \in Touched(start, stop) |-> FromBlock(b, start, stop)]
           item == [start |-> start, stop |-> stop, error |-> outside, got |-> got]
<1>1. /\ items' = <<item>>
      /\ UNCHANGED <<request, asked, scratch, phase, j, split, spent, ctbytes, output_bytes,
                     bstarts, pieces, chunk, memcpyed, result>>
  BY DEF GetItem
<1>2. request \in RequestType /\ SourceSize \in Nat /\ TypeSize \in Nat \ {0}
  BY RequestFields DEF LayoutInv, RightTypes
<1>3. stop \in Int /\ start <= stop
  OBVIOUS
<1>4. /\ item.start = start /\ item.stop = stop /\ item.error = outside
      /\ item.got = got
  OBVIOUS
<1>5. /\ start * TypeSize \in Int /\ stop * TypeSize \in Int
      /\ start < 0 <=> start * TypeSize < 0
      /\ stop < 0 <=> stop * TypeSize < 0
  BY <1>2, <1>3, ProductSign
<1>6. start * TypeSize <= stop * TypeSize
  <2>1. stop * TypeSize = start * TypeSize + n * TypeSize /\ n * TypeSize \in Nat
    BY <1>2
  <2> QED
    BY <1>5, <2>1
<1>7. outside <=> start * TypeSize < 0 \/ stop * TypeSize > SourceSize
  BY <1>2, <1>3, <1>5, <1>6
<1>8. ItemExact(item)
  <2>1. CASE outside
    BY <1>4, <1>7, <2>1 DEF ItemExact
  <2>2. CASE ~outside
    <3>1. start * TypeSize \in 0 .. stop * TypeSize /\ stop * TypeSize <= SourceSize
      BY <1>2, <1>5, <1>6, <1>7, <2>2
    <3>2. got = [b \in Touched(start, stop) |-> FromBlock(b, start, stop)]
      BY <2>2
    <3>3. LET g == got
              from == start * TypeSize
              upto == stop * TypeSize
          IN  IF from = upto THEN \A b \in DOMAIN g : g[b].from = g[b].upto
              ELSE /\ \E b \in DOMAIN g : g[b].from = from /\ \A c \in DOMAIN g : b <= c
                   /\ \E b \in DOMAIN g : g[b].upto = upto /\ \A c \in DOMAIN g : c <= b
                   /\ \A b, c \in DOMAIN g :
                        b < c => b + 1 \in DOMAIN g /\ g[b].upto = g[b + 1].from
      <4> HIDE DEF stop
      <4> QED
        BY <1>2, <1>3, <3>1, <3>2, BlocksOfRange
    <3> HIDE DEF got, outside, stop, item
    <3> QED
      BY <1>4, <1>7, <2>2, <3>3 DEF ItemExact
  <2> QED
    BY <2>1, <2>2
<1>9. ItemsExact'
  <2>1. PICK x : x = item
    OBVIOUS
  <2>2. ItemExact(x) /\ items' = <<x>>
    BY <1>1, <1>8, <2>1
  <2>3. ItemExact(x)'
    BY <1>1, <2>2, SameRequest
  <2> HIDE DEF item
  <2>4. \A i \in DOMAIN items' : items'[i] = x
    BY <2>2
  <2> QED
    BY <2>3, <2>4 DEF ItemsExact
<1> HIDE DEF item
<1>10. RightTypes' /\ Buffers'
  BY <1>1, FixedStays DEF LayoutInv, RightTypes
<1>11. Phases'
  BY <1>1 DEF LayoutInv, Phases
<1>12. Spending'
  BY <1>1, SameRequest DEF LayoutInv, Spending
<1>13. InChunk'
  BY <1>1, SameRequest DEF LayoutInv, InChunk
<1> QED
  BY <1>9, <1>10, <1>11, <1>12, <1>13 DEF LayoutInv

-----------------------------------------------------------------------------
(* The next buffer *)
RequestKnown == request \in RequestType
JobSized == ForThisJob \in [blocksize : Nat \ {0}, typesize : Nat \ {0}]

LEMMA ThisJob == RequestKnown => JobSized
BY BlockSizeIs, RequestFields DEF RequestKnown, JobSized, ForThisJob

LEMMA BeginStep ==
  ASSUME LayoutInv, request' \in RequestType, Begin
  PROVE  LayoutInv'
<1>1. ForThisJob' \in [blocksize : Nat \ {0}, typesize : Nat \ {0}]
  <2>1. RequestKnown' => JobSized'
    BY ThisJob, PTL
  <2> QED
    BY <2>1 DEF RequestKnown, JobSized
<1>2. ForThisJob' = [blocksize |-> BlockSize', typesize |-> TypeSize']
  BY DEF ForThisJob
<1>3. scratch \in [blocksize : Nat, typesize : Nat] /\ (scratch.blocksize # 0 => scratch.typesize >= 1)
  BY DEF LayoutInv, RightTypes, Buffers
<1>4. scratch' = IF Threaded' THEN Resized(scratch, ForThisJob') ELSE scratch
  BY DEF Begin
<1>5. scratch' \in [blocksize : Nat, typesize : Nat] /\ Buffers'
  <2>1. CASE ~Threaded'
    BY <1>3, <1>4, <2>1 DEF Buffers
  <2>2. CASE Threaded'
    BY <1>1, <1>2, <1>3, <1>4, <2>2 DEF Buffers, Resized
  <2> QED
    BY <2>1, <2>2
<1>6. Starts'
  BY <1>5 DEF Begin, Starts
<1>7. Starts' => LayoutInv'
  BY StartsWell, PTL
<1> QED
  BY <1>6, <1>7

LEMMA AgainStep ==
  ASSUME LayoutInv, CompressGlobal \/ CompressCtx
  PROVE  LayoutInv'
<1>1. Begin
  BY DEF CompressGlobal, CompressCtx
<1>2. CASE CompressGlobal
  <2>1. request' \in RequestType
    BY <1>2, AgainKnown, RequestsKnown DEF CompressGlobal, RequestType
  <2> QED
    BY <1>1, <2>1, BeginStep
<1>3. CASE CompressCtx
  <2>1. request \in RequestType
    BY DEF LayoutInv, RightTypes
  <2>2. BlockSize \in Nat
    BY <2>1, BlockSizeIs
  <2>3. request' \in RequestType
    BY <1>3, <2>1, <2>2, AgainKnown DEF CompressCtx, RequestType
  <2> QED
    BY <1>1, <2>3, BeginStep
<1> QED
  BY <1>2, <1>3

-----------------------------------------------------------------------------
(* What blosc_d finds *)

\* A set of numbers that is not empty has a least one.
LEMMA LeastNumber ==
  ASSUME NEW S, S \subseteq Nat, S # {}
  PROVE  \E m \in S : \A n \in S : m <= n
<1> DEFINE R == {p \in Nat \X Nat : p[1] < p[2]}
<1>1. IsWellFoundedOn(R, Nat)
  BY NatLessThanWellFounded DEF OpToRel
<1>2. \E m \in S : \A n \in S : ~(<<n, m>> \in R)
  <2> HIDE DEF R
  <2> QED
    BY <1>1, WFMin
<1>3. \A m, n \in Nat : ~(<<n, m>> \in R) => m <= n
  OBVIOUS
<1> HIDE DEF R
<1> QED
  BY <1>2, <1>3

\* Induction, with a set for the property
LEMMA UpTo ==
  ASSUME NEW n \in Nat, NEW S, 0 \in S, \A i \in 0 .. n - 1 : i \in S => i + 1 \in S
  PROVE  \A i \in 0 .. n : i \in S
<1> DEFINE bad == {i \in 0 .. n : i \notin S}
<1>1. SUFFICES ASSUME bad # {} PROVE FALSE
  OBVIOUS
<1>2. bad \subseteq Nat
  OBVIOUS
<1>3. PICK m \in bad : \A i \in bad : m <= i
  <2> HIDE DEF bad
  <2> QED
    BY <1>1, <1>2, LeastNumber
<1>4. m # 0 /\ m \in 0 .. n /\ m \notin S
  OBVIOUS
<1>5. m - 1 \in 0 .. n - 1 /\ m - 1 + 1 = m
  BY <1>4
<1>6. m - 1 \in S
  <2>1. m - 1 \notin bad
    BY <1>3, <1>5
  <2> QED
    BY <1>5, <2>1
<1> QED
  BY <1>4, <1>5, <1>6

\* Splits 0 to n - 1 of block b, of ne bytes each, one after the other, each
\* behind its length, between two positions
Chain(set, b, ne, from, n, upto) ==
  \E at \in [0 .. n -> Nat] :
    /\ at[0] = from /\ at[n] = upto
    /\ \A i \in 1 .. n : \E p \in set :
         /\ p.block = b /\ p.split = i - 1 /\ (p.form = "raw" <=> p.len = ne)
         /\ p.at = at[i - 1] + INT /\ at[i] = p.at + p.len

LEMMA ChainStarts == \A b, ne : Chain({}, b, ne, 0, 0, 0)
<1> TAKE b, ne
<1> DEFINE at == [i \in 0 .. 0 |-> 0]
<1>1. at \in [0 .. 0 -> Nat] /\ at[0] = 0
  OBVIOUS
<1> HIDE DEF at
<1> QED
  BY <1>1 DEF Chain

LEMMA ChainMore ==
  ASSUME NEW set, NEW b, NEW ne, NEW from, NEW n \in Nat, NEW upto,
         Chain(set, b, ne, from, n, upto),
         NEW p \in PieceType, p.block = b, p.split = n, p.form = "raw" <=> p.len = ne,
         p.at = upto + INT
  PROVE  Chain(set \cup {p}, b, ne, from, n + 1, p.at + p.len)
<1>1. PICK at \in [0 .. n -> Nat] :
        /\ at[0] = from /\ at[n] = upto
        /\ \A i \in 1 .. n : \E q \in set :
             /\ q.block = b /\ q.split = i - 1 /\ (q.form = "raw" <=> q.len = ne)
             /\ q.at = at[i - 1] + INT /\ at[i] = q.at + q.len
  BY DEF Chain
<1> DEFINE end == p.at + p.len
           new == [i \in 0 .. n + 1 |-> IF i = n + 1 THEN end ELSE at[i]]
<1>2. end \in Nat
  BY DEF PieceType
<1>3. /\ new \in [0 .. n + 1 -> Nat] /\ new[n + 1] = end
      /\ \A i \in 0 .. n : new[i] = at[i]
  BY <1>2
<1> HIDE DEF new
<1>4. ASSUME NEW i \in 1 .. n + 1
      PROVE  \E q \in set \cup {p} :
               /\ q.block = b /\ q.split = i - 1 /\ (q.form = "raw" <=> q.len = ne)
               /\ q.at = new[i - 1] + INT /\ new[i] = q.at + q.len
  <2>1. CASE i = n + 1
    <3>1. i - 1 = n /\ n \in 0 .. n
      BY <2>1
    <3>2. new[i - 1] = upto /\ new[i] = p.at + p.len
      BY <1>1, <1>3, <2>1, <3>1
    <3> QED
      BY <3>1, <3>2
  <2>2. CASE i \in 1 .. n
    <3>1. i \in 0 .. n /\ i - 1 \in 0 .. n
      BY <2>2
    <3>2. new[i] = at[i] /\ new[i - 1] = at[i - 1]
      BY <1>3, <3>1
    <3> QED
      BY <1>1, <2>2, <3>2
  <2> QED
    BY <2>1, <2>2
<1>5. new[0] = from
  BY <1>1, <1>3
<1> QED
  BY <1>3, <1>4, <1>5 DEF Chain

LEMMA ChainMoved ==
  ASSUME NEW set, NEW b, NEW ne, NEW n \in Nat, NEW upto \in Nat, NEW by \in Nat,
         Chain(set, b, ne, 0, n, upto), \A p \in set : p \in PieceType
  PROVE  Chain({[p EXCEPT !.at = @ + by] : p \in set}, b, ne, by, n, upto + by)
<1>1. PICK at \in [0 .. n -> Nat] :
        /\ at[0] = 0 /\ at[n] = upto
        /\ \A i \in 1 .. n : \E q \in set :
             /\ q.block = b /\ q.split = i - 1 /\ (q.form = "raw" <=> q.len = ne)
             /\ q.at = at[i - 1] + INT /\ at[i] = q.at + q.len
  BY DEF Chain
<1> DEFINE new == [i \in 0 .. n |-> at[i] + by]
           moved(p) == [p EXCEPT !.at = @ + by]
<1>2. new \in [0 .. n -> Nat] /\ new[0] = by /\ new[n] = upto + by
      /\ \A i \in 0 .. n : new[i] = at[i] + by /\ at[i] \in Nat
  BY <1>1
<1>3. \A p \in set : /\ moved(p).block = p.block /\ moved(p).split = p.split
                     /\ moved(p).form = p.form /\ moved(p).len = p.len
                     /\ moved(p).at = p.at + by /\ p.at \in Nat /\ p.len \in Nat
  BY DEF PieceType
<1> HIDE DEF new, moved
<1>4. ASSUME NEW i \in 1 .. n
      PROVE  \E q \in {moved(p) : p \in set} :
               /\ q.block = b /\ q.split = i - 1 /\ (q.form = "raw" <=> q.len = ne)
               /\ q.at = new[i - 1] + INT /\ new[i] = q.at + q.len
  <2>1. PICK p \in set :
          /\ p.block = b /\ p.split = i - 1 /\ (p.form = "raw" <=> p.len = ne)
          /\ p.at = at[i - 1] + INT /\ at[i] = p.at + p.len
    BY <1>1
  <2>2. i \in 0 .. n /\ i - 1 \in 0 .. n
    OBVIOUS
  <2>3. at[i - 1] \in Nat /\ new[i - 1] = at[i - 1] + by /\ new[i] = at[i] + by
    BY <1>2, <2>2
  <2>4. moved(p).at = new[i - 1] + INT /\ new[i] = moved(p).at + moved(p).len
    <3>1. INT \in Nat /\ p.at \in Nat /\ p.len \in Nat /\ moved(p).at = p.at + by /\ moved(p).len = p.len
      BY <1>3, ConstantSizes
    <3>2. \A x, y, z \in Nat : (x + y) + z = (x + z) + y
      OBVIOUS
    <3>3. p.at + by = new[i - 1] + INT
      BY <2>1, <2>3, <3>1, <3>2
    <3>4. new[i] = (p.at + by) + p.len
      BY SMTT(60), <2>1, <2>3, <3>1, <3>2
    <3> QED
      BY <3>1, <3>3, <3>4
  <2> QED
    BY <1>3, <2>1, <2>4
<1>5. Chain({moved(p) : p \in set}, b, ne, by, n, upto + by)
  BY <1>2, <1>4 DEF Chain
<1> QED
  BY <1>5 DEF moved

LEMMA ChainStays ==
  ASSUME NEW set, NEW more, set \subseteq more, NEW b, NEW ne, NEW from, NEW n, NEW upto,
         Chain(set, b, ne, from, n, upto)
  PROVE  Chain(more, b, ne, from, n, upto)
BY DEF Chain

\* The walk of blosc_d follows the chain.
LEMMA ChainWalked ==
  ASSUME \A p \in chunk : p \in PieceType, \A p, q \in chunk : p # q => Apart(p, q),
         NEW b, Splits(b) \in Nat, NEW upto,
         Chain(chunk, b, NeBlock(b), bstarts[b], Splits(b), upto)
  PROVE  Walk(b) = upto /\ upto \in Nat
<1> DEFINE n == Splits(b)
           ne == NeBlock(b)
           Found(at, i) == FoundAt(at, b, i, ne)
           Next1(at, i) == IF at >= 0 /\ Found(at, i) # {}
                           THEN at + INT + (CHOOSE p \in Found(at, i) : TRUE).len ELSE -1
           Follows(g) == g = [i \in 0 .. n |-> IF i = 0 THEN bstarts[b] ELSE Next1(g[i - 1], i - 1)]
<1>1. PICK at \in [0 .. n -> Nat] :
        /\ at[0] = bstarts[b] /\ at[n] = upto
        /\ \A i \in 1 .. n : \E p \in chunk :
             /\ p.block = b /\ p.split = i - 1 /\ (p.form = "raw" <=> p.len = ne)
             /\ p.at = at[i - 1] + INT /\ at[i] = p.at + p.len
  BY DEF Chain
<1>2. Walk(b) = (CHOOSE g : Follows(g))[n]
  BY DEF Walk
<1>3. ASSUME NEW i \in 1 .. n
      PROVE  at[i] = Next1(at[i - 1], i - 1)
  <2>1. PICK p \in chunk :
          /\ p.block = b /\ p.split = i - 1 /\ (p.form = "raw" <=> p.len = ne)
          /\ p.at = at[i - 1] + INT /\ at[i] = p.at + p.len
    BY <1>1
  <2>2. i - 1 \in 0 .. n /\ at[i - 1] \in Nat
    OBVIOUS
  <2>3. p \in Found(at[i - 1], i - 1)
    BY <2>1 DEF FoundAt
  <2>4. \A q \in Found(at[i - 1], i - 1) : q = p
    <3>1. ASSUME NEW q \in Found(at[i - 1], i - 1), q # p PROVE FALSE
      <4>1. q \in chunk /\ q.at = p.at
        BY <2>1 DEF FoundAt
      <4>2. Apart(p, q)
        BY <3>1, <4>1
      <4>3. p.at \in Nat /\ p.len \in Nat \ {0} /\ q.len \in Nat \ {0}
        BY <4>1 DEF PieceType
      <4> QED
        BY <4>1, <4>2, <4>3 DEF Apart
    <3> QED
      BY <3>1
  <2> HIDE DEF Found
  <2>5. (CHOOSE q \in Found(at[i - 1], i - 1) : TRUE) = p
    <3>1. PICK F : F = Found(at[i - 1], i - 1)
      OBVIOUS
    <3>2. F = {p}
      BY <2>3, <2>4, <3>1
    <3>3. (CHOOSE q \in F : TRUE) = p
      BY <3>2
    <3> QED
      BY <3>1, <3>3
  <2>6. at[i - 1] >= 0 /\ Found(at[i - 1], i - 1) # {}
    BY <2>2, <2>3
  <2>7. Next1(at[i - 1], i - 1)
          = at[i - 1] + INT + (CHOOSE q \in Found(at[i - 1], i - 1) : TRUE).len
    BY <2>6
  <2> HIDE DEF Next1
  <2>8. Next1(at[i - 1], i - 1) = at[i - 1] + INT + p.len
    BY <2>5, <2>7
  <2> QED
    BY <2>1, <2>8
<1> HIDE DEF Next1
<1>4. Follows(at)
  <2>1. \A i \in 0 .. n : at[i] = IF i = 0 THEN bstarts[b] ELSE Next1(at[i - 1], i - 1)
    BY <1>1, <1>3
  <2>2. at = [i \in 0 .. n |-> at[i]]
    OBVIOUS
  <2> QED
    BY <2>1, <2>2
<1>5. PICK g : g = CHOOSE x : Follows(x)
  OBVIOUS
<1>6. Follows(g)
  BY <1>4, <1>5
<1> DEFINE S == {i \in 0 .. n : g[i] = at[i]}
<1>7. 0 \in S
  BY <1>1, <1>6
<1>8. ASSUME NEW i \in 0 .. n - 1, i \in S PROVE i + 1 \in S
  <2>1. i + 1 \in 1 .. n /\ i + 1 \in 0 .. n /\ i + 1 # 0 /\ i + 1 - 1 = i
    OBVIOUS
  <2>2. g[i + 1] = Next1(g[i], i)
    BY <1>6, <2>1
  <2>3. at[i + 1] = Next1(at[i], i)
    BY <1>3, <2>1
  <2> QED
    BY <1>8, <2>1, <2>2, <2>3
<1> HIDE DEF S, Follows
<1>9. n \in S
  BY SMTT(60), <1>7, <1>8, UpTo
<1>10. g[n] = at[n]
  BY <1>9 DEF S
<1> QED
  BY <1>1, <1>2, <1>5, <1>10

-----------------------------------------------------------------------------
(* Theorems *)
LEMMA Initially == Init => LayoutInv
<1> SUFFICES ASSUME Init PROVE Starts
  BY StartsWell
<1>1. request \in RequestType
  BY RequestsKnown DEF Init, RequestType
<1>2. BlockSize \in Nat \ {0} /\ TypeSize \in Nat \ {0}
  BY <1>1, BlockSizeIs, RequestFields
<1>3. scratch \in [blocksize : Nat, typesize : Nat] /\ Buffers
  BY <1>2 DEF Init, Buffers, ForThisJob
<1> QED
  BY <1>1, <1>3 DEF Init, Starts

LEMMA EveryStep == LayoutInv /\ [Next]_vars => LayoutInv'
<1> SUFFICES ASSUME LayoutInv, [Next]_vars PROVE LayoutInv'
  OBVIOUS
<1>1. CASE CompressSplit
  BY <1>1, CompressSplitStep
<1>2. CASE NextBlock
  BY <1>2, NextBlockStep
<1>3. CASE EndJob
  BY <1>3, EndJobStep
<1>4. CASE Copy
  BY <1>4, CopyStep
<1>5. CASE request \in Requests /\ \E range \in Ranges[request] : GetItem(range[1], range[2])
  <2>1. PICK range \in Ranges[request] : GetItem(range[1], range[2])
    BY <1>5
  <2>2. range[1] \in Int /\ range[2] \in Nat
    BY <1>5, RangesKnown
  <2> QED
    BY <2>1, <2>2, GetItemStep
<1>6. CASE CompressGlobal \/ CompressCtx
  BY <1>6, AgainStep
<1>7. CASE UNCHANGED vars
  <2>1. UNCHANGED <<request, scratch, phase, j, split, spent, ctbytes, output_bytes, pieces,
                    chunk, memcpyed, items>>
    BY <1>7 DEF vars
  <2>2. RightTypes' /\ Buffers' /\ ItemsExact'
    BY <2>1, FixedStays DEF LayoutInv, RightTypes
  <2>3. Phases'
    BY <2>1 DEF LayoutInv, Phases
  <2>4. Spending'
    BY <2>1, SameRequest DEF LayoutInv, Spending
  <2>5. InChunk'
    BY <2>1, SameRequest DEF LayoutInv, InChunk
  <2> QED
    BY <2>2, <2>3, <2>4, <2>5 DEF LayoutInv
<1> QED
  BY <1>1, <1>2, <1>3, <1>4, <1>5, <1>6, <1>7 DEF Next

LEMMA Invariance == Spec => []LayoutInv
BY Initially, EveryStep, PTL DEF Spec

LEMMA RoomForBlock == LayoutInv => OwnBufferSuffices
<1> SUFFICES ASSUME LayoutInv, Threaded, phase = "job", j < NBlocks, split < Splits(j)
             PROVE  /\ RawFits(Ebsize - (spent + INT), NeBlock(j))
                    /\ spent + INT + NeBlock(j) - (scratch.blocksize + INT * scratch.typesize)
                         <= split * NeBlock(j)
  BY DEF OwnBufferSuffices
<1> DEFINE n == NeBlock(j)
           s == Splits(j)
<1>1. /\ request \in RequestType /\ split \in Nat /\ ctbytes \in Nat /\ output_bytes \in Nat
      /\ scratch.blocksize = BlockSize /\ scratch.typesize \in Nat
      /\ j \in 0 .. NBlocks - 1 /\ INT \in Nat /\ INT >= 1
  <2>1. /\ request \in RequestType /\ split \in Nat /\ ctbytes \in Nat /\ output_bytes \in Nat
        /\ scratch.blocksize = BlockSize /\ scratch.typesize \in Nat /\ j \in Nat
    BY DEF LayoutInv, RightTypes, Buffers
  <2>2. NBlocks \in Nat /\ INT \in Nat /\ INT >= 1
    BY <2>1, BlocksAre, ConstantSizes
  <2> QED
    BY <2>1, <2>2
<1>2. scratch.typesize >= 1
  <2>1. BlockSize # 0
    BY <1>1, BlockSizeIs
  <2> QED
    BY <1>1, <2>1 DEF LayoutInv, Buffers
<1>3. /\ s \in 1 .. TypeSize /\ n \in Nat \ {0} /\ s * n = BlockLen(j)
      /\ s > 1 => n >= INT
  BY <1>1, SplitsAre
<1>4. /\ BlockLen(j) \in 1 .. BlockSize /\ BlockSize \in Nat /\ TypeSize \in Nat
  BY <1>1, BlocksAre, BlockSizeIs, RequestFields
<1>5. /\ spent = ctbytes
      /\ ctbytes <= split * (INT + n)
  BY <1>1 DEF LayoutInv, Spending
<1> HIDE DEF n, s
<1>6. /\ split * (INT + n) \in Nat /\ split * n \in Nat /\ split * INT \in Nat
      /\ split * (INT + n) = split * INT + split * n
  BY <1>1, <1>3
\* The splits that are done and this one are no more than all of them
<1>7. split * n + n <= BlockSize
  <2>1. split < s /\ s \in Int
    BY <1>3, <1>4 DEF s
  <2>2. split * n + n <= s * n
    BY <1>1, <1>3, <2>1, NextProduct
  <2> QED
    BY <1>3, <1>4, <1>6, <2>2
<1>8. split * INT + INT <= TypeSize * INT /\ TypeSize * INT \in Nat
  <2>1. split < TypeSize /\ TypeSize \in Int
    BY <1>1, <1>3, <1>4 DEF s
  <2> QED
    BY <1>1, <1>4, <2>1, NextProduct
<1>9. spent + INT + n <= Ebsize
  BY <1>1, <1>3, <1>4, <1>5, <1>6, <1>7, <1>8 DEF Ebsize
<1>10. RawFits(Ebsize - (spent + INT), n)
  <2>1. spent \in Nat /\ Ebsize \in Nat
    BY <1>1, <1>4, <1>5, <1>8 DEF Ebsize
  <2> QED
    BY <1>1, <1>3, <1>9, <2>1 DEF RawFits
\* What goes beyond is at most the INT bytes of the splits before this one
<1>11. spent + INT + n - (BlockSize + INT * scratch.typesize) <= split * n
  <2>1. INT * scratch.typesize >= INT /\ INT * scratch.typesize \in Nat
    <3>1. 1 * INT <= scratch.typesize * INT
      BY <1>1, <1>2, ProductGrows
    <3>2. scratch.typesize * INT = INT * scratch.typesize /\ scratch.typesize * INT \in Nat
      BY <1>1
    <3> QED
      BY <1>1, <3>1, <3>2
  <2>2. split * INT <= split * n
    <3>1. CASE split = 0
      BY <1>1, <1>3, <3>1
    <3>2. CASE split # 0
      <4>1. s > 1
        BY <1>1, <1>3, <1>4, <3>2 DEF s
      <4>2. INT * split <= n * split
        BY <1>1, <1>3, <4>1, ProductGrows
      <4>3. INT * split = split * INT /\ n * split = split * n
        BY <1>1, <1>3
      <4> QED
        BY <4>2, <4>3
    <3> QED
      BY <3>1, <3>2
  <2> QED
    BY <1>1, <1>3, <1>4, <1>5, <1>6, <1>7, <2>1, <2>2
<1> QED
  BY <1>1, <1>10, <1>11 DEF n

(* The splits of a block share it evenly, the blocks lie inside of the     *)
(* source and every byte of it is in one, and blocks of more than an item  *)
(* hold whole items, whatever the block size, the typesize and the level   *)
(* (btune.c:40-115, blosc.c:653-660).                                      *)
THEOREM BlocksCoverSource == Spec => []NothingLeftOut
<1>1. LayoutInv => NothingLeftOut
  BY Tiling DEF LayoutInv, RightTypes
<1> QED
  BY <1>1, Invariance, PTL

(* Whatever sizes the codec returns, the pieces of a chunk lie behind its  *)
(* block starts, inside of dest and apart (blosc.c:661-746, 954-1003,      *)
(* 2009-2024).                                                             *)
THEOREM PiecesStayApart == Spec => []PiecesApart
<1>1. LayoutInv => PiecesApart
  <2> SUFFICES ASSUME LayoutInv PROVE PiecesApart
    OBVIOUS
  <2>1. CASE memcpyed /\ phase = "done"
    BY <2>1 DEF LayoutInv, InChunk, Within, PiecesApart
  <2>2. CASE ~(memcpyed /\ phase = "done")
    <3>1. Within(chunk, Header + INT * NBlocks, DestSize)
      BY <2>2 DEF LayoutInv, InChunk, FirstOutput
    <3> QED
      BY <2>2, <3>1 DEF Within, PiecesApart
  <2> QED
    BY <2>1, <2>2
<1> QED
  BY <1>1, Invariance, PTL

(* A thread's own buffer has room for a block that no split of shrinks,    *)
(* and what passes the end of one that was laid out for a smaller typesize *)
(* is no more than the splits that were compressed before (blosc.c:665,    *)
(* 1917-1925).                                                             *)
THEOREM OwnBuffersSuffice == Spec => []OwnBufferSuffices
BY RoomForBlock, Invariance, PTL

(* getitem copies the range that was asked for and nothing else, from the  *)
(* first block it touches to the last (blosc.c:1751-1819).                 *)
THEOREM ItemsAreExact == Spec => []ItemsExact
<1>1. LayoutInv => ItemsExact
  BY DEF LayoutInv
<1> QED
  BY <1>1, Invariance, PTL

\* Blocks that are placed, and the splits of the one in work, are chains
ChunkChain(b) == \E upto : Chain(chunk, b, NeBlock(b), bstarts[b], Splits(b), upto)

Recoverable ==
  /\ phase = "job" =>
       /\ j <= NBlocks /\ DOMAIN bstarts = 0 .. NBlocks - 1
       /\ j < NBlocks => Chain(pieces, j, NeBlock(j), 0, split, ctbytes)
       /\ \A b \in 0 .. j - 1 : ChunkChain(b)
  /\ phase = "done" /\ ~memcpyed => \A b \in 0 .. NBlocks - 1 : ChunkChain(b)
  /\ phase = "done" /\ memcpyed /\ result > 0 => \A b \in 0 .. NBlocks - 1 : Stored(b) \in chunk

Fresh ==
  /\ request \in RequestType
  /\ phase = FirstPhase /\ j = 0 /\ split = 0 /\ ctbytes = 0 /\ bstarts = NoStarts /\ pieces = {}

LEMMA FreshRecovers == Fresh => Recoverable
<1> SUFFICES ASSUME Fresh PROVE Recoverable
  OBVIOUS
<1>1. NBlocks \in Nat /\ DOMAIN bstarts = 0 .. NBlocks - 1 /\ phase # "done"
  BY BlocksAre DEF Fresh, NoStarts, FirstPhase
<1>2. Chain(pieces, j, NeBlock(j), 0, split, ctbytes)
  BY ChainStarts DEF Fresh
<1>3. \A b \in 0 .. j - 1 : FALSE
  BY DEF Fresh
<1> QED
  BY <1>1, <1>2, <1>3 DEF Fresh, Recoverable

LEMMA ChainsAsBefore ==
  ASSUME request' = request, bstarts' = bstarts, chunk' = chunk
  PROVE  \A b : ChunkChain(b)' = ChunkChain(b)
BY SameRequest DEF ChunkChain, Chain

LEMMA SplitRecovers ==
  ASSUME LayoutInv, Recoverable, CompressSplit
  PROVE  Recoverable'
<1>1. phase = "job" /\ j < NBlocks /\ split < Splits(j)
  BY DEF CompressSplit
<1>2. CASE GiveUp
  BY <1>2 DEF Recoverable, GiveUp
<1>3. CASE ~GiveUp
  <2> DEFINE n == NeBlock(j)
             room == Maxbytes - (spent + INT)
             maxout == Least(n, room)
  <2>1. PICK c \in CodecSizes(n, maxout) :
          LET raw == c \in {0, n}
              len == IF raw THEN n ELSE c
          IN  /\ pieces' = pieces \cup
                   {[block |-> j, split |-> split, at |-> ctbytes + INT, len |-> len,
                     form |-> IF raw THEN "raw" ELSE "coded"]}
              /\ ctbytes' = ctbytes + INT + len
    BY <1>3 DEF CompressSplit
  <2>2. /\ split' = split + 1
        /\ request' = request /\ UNCHANGED <<phase, j, bstarts, chunk>>
    BY <1>3 DEF CompressSplit, Fixed
  <2> DEFINE len == IF c \in {0, n} THEN n ELSE c
             new == [block |-> j, split |-> split, at |-> ctbytes + INT, len |-> len,
                     form |-> IF c \in {0, n} THEN "raw" ELSE "coded"]
  <2>3. pieces' = pieces \cup {new} /\ ctbytes' = ctbytes + INT + len
    BY <2>1
  <2>4. request \in RequestType /\ j \in Nat /\ split \in Nat /\ ctbytes \in Nat
    BY DEF LayoutInv, RightTypes
  <2>5. n \in Nat \ {0} /\ INT \in Nat
    <3>1. j \in 0 .. NBlocks - 1
      BY <1>1, <2>4, BlocksAre
    <3> QED
      BY <2>4, <3>1, SplitsAre, ConstantSizes
  <2>6. c = 0 \/ c \in 1 .. maxout
    BY <2>1 DEF CodecSizes
  <2>7. len \in Nat \ {0} /\ (c \in {0, n} <=> len = n)
    BY <2>5, <2>6
  <2>8. new \in PieceType /\ new.block = j /\ new.split = split /\ new.at = ctbytes + INT
        /\ new.len = len /\ (new.form = "raw" <=> new.len = n)
    BY <2>4, <2>5, <2>7 DEF PieceType
  <2> HIDE DEF len, new
  <2>9. Chain(pieces, j, n, 0, split, ctbytes)
    BY <1>1 DEF Recoverable
  <2>10. Chain(pieces \cup {new}, j, n, 0, split + 1, new.at + new.len)
    BY <2>4, <2>8, <2>9, ChainMore
  <2>11. new.at + new.len = ctbytes'
    BY <2>3, <2>4, <2>5, <2>7, <2>8
  <2>12. Chain(pieces', j, n, 0, split', ctbytes')
    BY <2>2, <2>3, <2>10, <2>11
  <2>13. NeBlock(j)' = n /\ NBlocks' = NBlocks
    BY <2>2, SameRequest
  <2>14. \A b \in 0 .. j - 1 : ChunkChain(b)'
    BY <1>1, <2>2, ChainsAsBefore DEF Recoverable
  <2>15. phase' = "job" /\ j' = j
    BY <1>1, <2>2
  <2> QED
    BY <1>1, <2>2, <2>12, <2>13, <2>14, <2>15 DEF Recoverable
<1> QED
  BY <1>2, <1>3

LEMMA PlacedRecovers ==
  ASSUME LayoutInv, Recoverable, NextBlock
  PROVE  Recoverable'
<1>1. phase = "job" /\ j < NBlocks /\ split = Splits(j)
  BY DEF NextBlock
<1>2. CASE GiveUp
  BY <1>2 DEF Recoverable, GiveUp
<1>3. CASE ~GiveUp
  <2>1. /\ bstarts' = [bstarts EXCEPT ![j] = output_bytes]
        /\ chunk' = Written(chunk, PlaceBlock(output_bytes))
        /\ j' = j + 1 /\ split' = 0 /\ pieces' = {} /\ ctbytes' = 0
        /\ request' = request /\ phase' = "job"
    BY <1>1, <1>3 DEF NextBlock, Fixed
  <2>2. /\ request \in RequestType /\ j \in Nat /\ ctbytes \in Nat /\ output_bytes \in Nat
        /\ NBlocks \in Nat /\ INT \in Nat /\ split \in Nat
    BY BlocksAre, ConstantSizes DEF LayoutInv, RightTypes
  <2>3. /\ NBlocks' = NBlocks
        /\ \A b : Splits(b)' = Splits(b) /\ NeBlock(b)' = NeBlock(b)
    BY <2>1, SameRequest
  <2>4. Within(pieces, INT, ctbytes) /\ Within(chunk, FirstOutput, output_bytes)
    BY <1>1 DEF LayoutInv, Spending, InChunk
  <2>5. PlaceBlock(output_bytes) \subseteq chunk'
    BY <2>1 DEF Written
  \* The new block lies behind the others.
  <2>6. chunk \subseteq chunk'
    <3>1. ASSUME NEW p \in chunk, NEW q \in PlaceBlock(output_bytes) PROVE Apart(p, q)
      <4>1. PICK x \in pieces : q = [x EXCEPT !.at = @ + output_bytes]
        BY DEF PlaceBlock
      <4>2. x \in PieceType /\ x.at >= INT /\ x.at \in Nat
        BY <2>4 DEF Within, PieceType
      <4>3. q.at = x.at + output_bytes
        BY <4>1, <4>2 DEF PieceType
      <4>4. p.at \in Nat /\ p.len \in Nat /\ p.at + p.len <= output_bytes
        BY <2>4 DEF Within, PieceType
      <4>5. p.at + p.len <= q.at
        BY <2>2, <4>2, <4>3, <4>4
      <4> QED
        BY <4>5 DEF Apart
    <3> QED
      BY <2>1, <3>1 DEF Written
  <2>7. j \in DOMAIN bstarts /\ DOMAIN bstarts = 0 .. NBlocks - 1
    BY <1>1, <2>2 DEF Recoverable
  <2>8. DOMAIN bstarts' = 0 .. NBlocks - 1 /\ bstarts'[j] = output_bytes
        /\ \A b \in 0 .. j - 1 : bstarts'[b] = bstarts[b]
    BY <1>1, <2>1, <2>2, <2>7
  <2>9. \A b \in 0 .. j - 1 : ChunkChain(b)'
    <3>1. ASSUME NEW b \in 0 .. j - 1 PROVE ChunkChain(b)'
      <4>1. PICK upto : Chain(chunk, b, NeBlock(b), bstarts[b], Splits(b), upto)
        BY <1>1 DEF Recoverable, ChunkChain
      <4>2. Chain(chunk', b, NeBlock(b), bstarts[b], Splits(b), upto)
        BY <2>6, <4>1, ChainStays
      <4> QED
        BY <2>3, <2>8, <4>2 DEF ChunkChain
    <3> QED
      BY <3>1
  <2>10. PICK i : i = j
    OBVIOUS
  <2>11. ChunkChain(i)'
    <3>1. Chain(pieces, i, NeBlock(i), 0, split, ctbytes)
      BY <1>1, <2>10 DEF Recoverable
    <3>2. \A p \in pieces : p \in PieceType
      BY <2>4 DEF Within
    <3>3. Chain(PlaceBlock(output_bytes), i, NeBlock(i), output_bytes, split, ctbytes + output_bytes)
      BY <2>2, <3>1, <3>2, ChainMoved DEF PlaceBlock
    <3>4. Chain(chunk', i, NeBlock(i), output_bytes, split, ctbytes + output_bytes)
      BY <2>5, <3>3, ChainStays
    <3>5. split = Splits(i) /\ bstarts'[i] = output_bytes
      BY <1>1, <2>8, <2>10
    <3> QED
      BY <2>3, <3>4, <3>5 DEF ChunkChain
  <2>12. \A b \in 0 .. j' - 1 : ChunkChain(b)'
    <3>1. \A b \in 0 .. i : b \in 0 .. i - 1 \/ b = i
      BY <2>2, <2>10
    <3>2. j' - 1 = i
      BY <2>1, <2>2, <2>10
    <3> QED
      BY <2>9, <2>10, <2>11, <3>1, <3>2
  <2>13. j' <= NBlocks
    BY <1>1, <2>1, <2>2
  <2> QED
    BY <2>1, <2>3, <2>8, <2>12, <2>13, ChainStarts DEF Recoverable
<1> QED
  BY <1>2, <1>3

LEMMA CopyRecovers ==
  ASSUME LayoutInv, Copy
  PROVE  Recoverable'
<1>1. phase = "copy" /\ phase' = "done" /\ memcpyed' = memcpyed /\ memcpyed /\ request' = request
  BY DEF Copy, Fixed, LayoutInv, Phases
<1>2. NBlocks' = NBlocks /\ \A b : Stored(b)' = Stored(b)
  BY <1>1, SameRequest DEF Stored
<1>3. CASE CopyFits
  <2>1. {Stored(b) : b \in 0 .. NBlocks - 1} \subseteq chunk'
    BY <1>3 DEF Copy, Written
  <2> QED
    BY <1>1, <1>2, <2>1 DEF Recoverable
<1>4. CASE ~CopyFits
  BY <1>1, <1>4 DEF Copy, Recoverable
<1> QED
  BY <1>3, <1>4

LEMMA UnchangedRecovers ==
  ASSUME Recoverable,
         UNCHANGED <<request, phase, j, split, ctbytes, bstarts, pieces, chunk, memcpyed, result>>
  PROVE  Recoverable'
<1>1. NBlocks' = NBlocks /\ \A b : NeBlock(b)' = NeBlock(b) /\ Stored(b)' = Stored(b)
  BY SameRequest DEF Stored
<1>2. \A b : ChunkChain(b)' = ChunkChain(b)
  BY ChainsAsBefore
<1> QED
  BY <1>1, <1>2 DEF Recoverable

LEMMA StepRecovers == LayoutInv /\ LayoutInv' /\ Recoverable /\ [Next]_vars => Recoverable'
<1> SUFFICES ASSUME LayoutInv, LayoutInv', Recoverable, [Next]_vars PROVE Recoverable'
  OBVIOUS
<1>1. CASE CompressSplit
  BY <1>1, SplitRecovers
<1>2. CASE NextBlock
  BY <1>2, PlacedRecovers
<1>3. CASE EndJob
  <2>1. phase = "job" /\ ~memcpyed /\ j = NBlocks /\ phase' = "done" /\ memcpyed' = memcpyed
        /\ UNCHANGED <<request, bstarts, chunk>>
    BY <1>3 DEF EndJob, Fixed, LayoutInv, Phases
  <2>2. \A b \in 0 .. NBlocks - 1 : ChunkChain(b)'
    BY <2>1, ChainsAsBefore DEF Recoverable
  <2>3. NBlocks' = NBlocks
    BY <2>1, SameRequest
  <2> QED
    BY <2>1, <2>2, <2>3 DEF Recoverable
<1>4. CASE Copy
  BY <1>4, CopyRecovers
<1>5. CASE \E range \in Ranges[request] : GetItem(range[1], range[2])
  BY <1>5, UnchangedRecovers DEF GetItem
<1>6. CASE CompressGlobal \/ CompressCtx
  <2>1. Begin
    BY <1>6 DEF CompressGlobal, CompressCtx
  <2>2. Fresh'
    BY <2>1 DEF Begin, Fresh, LayoutInv, RightTypes
  <2>3. Fresh' => Recoverable'
    BY FreshRecovers, PTL
  <2> QED
    BY <2>2, <2>3
<1>7. CASE UNCHANGED vars
  BY <1>7, UnchangedRecovers DEF vars
<1> QED
  BY <1>1, <1>2, <1>3, <1>4, <1>5, <1>6, <1>7 DEF Next

(* Whatever sizes the codec returns, and however often it gives up, a      *)
(* chunk that was made gives every block back: the walk of blosc_d from    *)
(* the block's start meets each split behind its length, and a copied      *)
(* chunk has the block at its place (blosc.c:661-746, 843-936).            *)
THEOREM BlocksAreFound == Spec => []Restored
<1>1. LayoutInv /\ Recoverable => Restored
  <2> SUFFICES ASSUME LayoutInv, Recoverable, phase = "done", result > 0, NEW b \in 0 .. NBlocks - 1
               PROVE  blosc_d(b)
    BY DEF Restored
  <2>1. CASE memcpyed
    BY <2>1 DEF Recoverable, blosc_d
  <2>2. CASE ~memcpyed
    <3>1. PICK upto : Chain(chunk, b, NeBlock(b), bstarts[b], Splits(b), upto)
      BY <2>2 DEF Recoverable, ChunkChain
    <3>2. Within(chunk, FirstOutput, DestSize)
      BY <2>2 DEF LayoutInv, InChunk
    <3>3. Splits(b) \in Nat
      BY SplitsAre, RequestFields DEF LayoutInv, RightTypes
    <3>4. Walk(b) = upto /\ upto \in Nat
      BY <3>1, <3>2, <3>3, ChainWalked DEF Within
    <3> QED
      BY <2>2, <3>4 DEF blosc_d
  <2> QED
    BY <2>1, <2>2
<1>2. Init => Recoverable
  BY FreshRecovers, RequestsKnown DEF Init, Fresh, RequestType
<1>3. Spec => []Recoverable
  BY <1>2, Invariance, StepRecovers, PTL DEF Spec
<1> QED
  BY <1>1, <1>3, Invariance, PTL
=============================================================================
