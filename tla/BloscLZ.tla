------------------------------- MODULE BloscLZ -------------------------------
(***************************************************************************)
(* blosclz.c: one call of blosclz_compress, token by token, and of         *)
(* blosclz_decompress on what it wrote.                                    *)
(*                                                                         *)
(* The numbers of the format are constants, so that every one of its cases *)
(* comes up in short inputs: a control byte has a length below Lens + 1    *)
(* and the high part of a distance below Highs + 1 (7 and 31 in the code), *)
(* any other byte is below Bytes (256).  What the hash table answers is    *)
(* left open: any position before the current one, or the current one,     *)
(* which the code reads as "none".                                         *)
(***************************************************************************)
EXTENDS Integers, Sequences, SequencesExt

CONSTANTS
  Inputs,          \* sequences of bytes
  Room,            \* what op_limit may leave, besides the length itself
  Lens, Highs, Bytes,
  WordSize,        \* of the comparison by words, 8
  TailSize,            \* the input that is never searched for matches, 12
  MinRoom,         \* 66
  CPYSIZE,
  LongCopy         \* from where GCC_SAFE_COPY goes byte by byte, 32

IP_BOUNDARY == 2
MAX_COPY == Highs + 1
MAX_DISTANCE == Highs * Bytes + Bytes - 1
MAX_FARDISTANCE == Bytes * Bytes - 1 + MAX_DISTANCE - 1

ASSUME Sizes ==
  /\ {Lens, Highs, Bytes} \subseteq Nat \ {0, 1} /\ CPYSIZE \in Nat \ {0} /\ LongCopy \in Nat
  /\ {WordSize, TailSize, MinRoom} \subseteq Nat /\ MAX_COPY > 2 /\ MinRoom >= 3
  /\ WordSize >= IP_BOUNDARY /\ TailSize >= WordSize + 4
ASSUME InputsAssumption == Inputs \subseteq Seq(0 .. Bytes - 1) /\ Room \subseteq Nat

VARIABLES
  input, high_level,   \* the arguments; is opt_level at least 5?
  op_limit,
  phase,
  ip, copy, out,       \* of the compression; ip counts from 0
  rd, output           \* of the decompression: bytes read and written

args == <<input, high_level, op_limit>>
vars == <<args, phase, ip, copy, out, rd, output>>

length == Len(input)
ip_bound == length - IP_BOUNDARY
ip_limit == length - TailSize
At(i) == input[i + 1]

Init ==
  /\ input \in Inputs /\ high_level \in BOOLEAN
  /\ op_limit \in {r \in Room : r < length} \cup {length}
  /\ phase = "start" /\ ip = 0 /\ copy = 0 /\ out = <<>>
  /\ rd = 0 /\ output = <<>>

\* What a byte can hold of a value
Control(len, high) == (len * (Highs + 1) + high) % ((Lens + 1) * (Highs + 1))
Byte(v) == v % Bytes
-----------------------------------------------------------------------------
(* blosclz_compress *)
GiveUp == phase' = "out" /\ UNCHANGED <<args, ip, copy, out, rd, output>>

TooSmall ==
  /\ phase = "start" /\ (op_limit < MinRoom \/ length < 4)
  /\ GiveUp

Start ==
  /\ phase = "start" /\ op_limit >= MinRoom /\ length >= 4
  /\ phase' = "main" /\ ip' = 2 /\ copy' = 2
  /\ out' = <<Control(0, MAX_COPY - 1), At(0), At(1)>>
  /\ UNCHANGED <<args, rd, output>>

\* copy counts the literals of the current run, which is full at MAX_COPY.
NeverFull(c) == c + 1
NextCopy(c) == (c + 1) % MAX_COPY

\* One literal byte; a full run gets the control byte of the next one.
Literal ==
  IF Len(out) + 2 > op_limit THEN GiveUp
  ELSE /\ ip' = ip + 1
       /\ copy' = NextCopy(copy)
       /\ out' = out \o <<At(ip)>>
                     \o (IF NextCopy(copy) = 0 THEN <<Control(0, MAX_COPY - 1)>> ELSE <<>>)
       /\ UNCHANGED <<args, phase, rd, output>>

\* The control byte of the last literal run put right, or taken back
CountPatched(o) ==
  IF copy > 0 THEN [o EXCEPT ![Len(o) - copy] = Control(0, copy - 1)]
  ELSE SubSeq(o, 1, Len(o) - 1)

\* Does the byte before p, or the one at p, repeat what is d before it?  A
\* run compares the byte that ref points to with the first one.
AgreesAt(d, p) == IF d = 1 THEN At(p - 1) = At(ip + 2) ELSE At(p) = At(p - d)

Stops(d, p) == {q \in p .. ip_bound - 1 : ~AgreesAt(d, q)}
ByteEnd(d, p) ==
  IF Stops(d, p) = {} THEN ip_bound ELSE Min(Stops(d, p)) + (IF d = 1 THEN 0 ELSE 1)

\* Where the comparison by words ends: near the end, or at one that differs
NearEnd(p) == p >= ip_bound - (WordSize - IP_BOUNDARY)
Differs(d, p) == \E i \in 0 .. WordSize - 1 : ~AgreesAt(d, p + i)
WordEnds(d, from) ==
  {p \in from .. length : (p - from) % WordSize = 0 /\ (NearEnd(p) \/ Differs(d, p))}

\* How far a match goes: word by word, then byte by byte in the word that
\* differs.  The result is one more than the end of the match.
MatchEnd(d, from) ==
  LET p == Min(WordEnds(d, from))
  IN  IF NearEnd(p) THEN IF p < ip_bound THEN p ELSE ip_bound ELSE ByteEnd(d, p)

\* The token of a match; len is the length less 2, distance is biased.
Continued(n) == [i \in 1 .. n \div (Bytes - 1) |-> Bytes - 1] \o <<Byte(n % (Bytes - 1))>>
LengthBytes(len) == IF len < Lens THEN <<>> ELSE Continued(len - Lens)
Field(len) == IF len < Lens THEN len ELSE Lens
Token(len, distance) ==
  IF distance < MAX_DISTANCE
  THEN <<Control(Field(len), distance \div Bytes)>> \o LengthBytes(len) \o <<Byte(distance)>>
  ELSE <<Control(Field(len), Highs)>> \o LengthBytes(len)
       \o <<Bytes - 1, Byte((distance - MAX_DISTANCE) \div Bytes), Byte(distance - MAX_DISTANCE)>>

AlmostNoRoom(o, len) == Len(o) + 2 > op_limit
NoRoom(o, len) == Len(o) + len \div (Bytes - 1) + 6 > op_limit

\* A match of distance d whose first n bytes are known to agree
Match(d, n) ==
  LET o == CountPatched(out)
      len == MatchEnd(d, ip + n) - 3 - ip
  IN IF NoRoom(o, len) THEN GiveUp
     ELSE /\ ip' = ip + len + 2
          /\ copy' = 0
          /\ out' = o \o Token(len, d - 1) \o <<Control(0, MAX_COPY - 1)>>
          /\ UNCHANGED <<args, phase, rd, output>>

IsRun == At(ip) = At(ip - 1) /\ At(ip - 1) = At(ip + 1) /\ At(ip) = At(ip + 2)
SameBytes(d, n) == \A i \in 0 .. n - 1 : At(ip + i) = At(ip - d + i)
IsFar(d) == high_level /\ d >= MAX_DISTANCE
TooFar(d) == d >= MAX_FARDISTANCE

CompressRun == phase = "main" /\ ip < ip_limit /\ IsRun /\ Match(1, 3)

CompressFound ==
  /\ phase = "main" /\ ip < ip_limit /\ ~IsRun
  /\ \E ref \in 0 .. ip :
       LET d == ip - ref
       IN IF d = 0 \/ TooFar(d) \/ ~SameBytes(d, IF IsFar(d) THEN 5 ELSE 3) THEN Literal
          ELSE Match(d, IF IsFar(d) THEN 5 ELSE 3)

LeftOver == phase = "main" /\ ip >= ip_limit /\ ip < length /\ Literal

Finish ==
  /\ phase = "main" /\ ip = length
  /\ phase' = "decompress"
  /\ out' = [CountPatched(out) EXCEPT ![1] = @ + MAX_COPY]   \* marker for blosclz
  /\ UNCHANGED <<args, ip, copy, rd, output>>
-----------------------------------------------------------------------------
(* blosclz_decompress, into as many bytes as were compressed *)
ctrl == IF rd = 0 THEN out[1] % MAX_COPY ELSE out[rd + 1]

Goto(at) == rd' = at /\ phase' = IF at < Len(out) THEN phase ELSE "done"
Refuse == phase' = "refused" /\ UNCHANGED <<args, ip, copy, out, rd, output>>

DecompressLiterals ==
  /\ phase = "decompress" /\ ctrl < MAX_COPY
  /\ IF Len(output) + ctrl + 1 > length \/ rd + 1 + ctrl + 1 > Len(out) THEN Refuse
     ELSE /\ output' = output \o SubSeq(out, rd + 2, rd + ctrl + 2)
          /\ Goto(rd + ctrl + 2)
          /\ UNCHANGED <<args, ip, copy, out>>

\* SAFE_COPY: bytes of the copy that are written before the next is read.
\* Where a word reaches beyond what is written, it copies what was there.
AnyUnit(d, n) == CPYSIZE
Unit(d, n) == IF n > LongCopy \/ d < CPYSIZE THEN 1 ELSE CPYSIZE

Garbage == Bytes
\* s and one more unit, read d bytes before where it is written
Extended(s, d, u) ==
  s \o [i \in 1 .. u |-> IF Len(s) - d + i <= Len(s) THEN s[Len(s) - d + i] ELSE Garbage]
Copies(d, u, k) ==   \* output and k units more
  LET written[i \in 0 .. k] == IF i = 0 THEN output ELSE Extended(written[i - 1], d, u)
  IN  written[k]
CopyMatch(d, n) ==
  LET u == Unit(d, n)
  IN  SubSeq(Copies(d, u, (n + u - 1) \div u), 1, Len(output) + n)

\* A length goes on up to a byte that is not full; LengthEnd is the last one.
LengthEnd(i) == Min({j \in i .. Len(out) : out[j] # Bytes - 1 \/ j = Len(out)})
LengthMore(i) == (LengthEnd(i) - i) * (Bytes - 1) + out[LengthEnd(i)]

DecompressMatch ==
  /\ phase = "decompress" /\ ctrl >= MAX_COPY
  /\ LET field == ctrl \div MAX_COPY
         high == ctrl % MAX_COPY
         n == field + (IF field = Lens THEN LengthMore(rd + 2) ELSE 0) + 2
         at == IF field = Lens THEN LengthEnd(rd + 2) + 1 ELSE rd + 2
         far == out[at] = Bytes - 1 /\ high = Highs
         d == 1 + IF far THEN out[at + 1] * Bytes + out[at + 2] + MAX_DISTANCE
                  ELSE high * Bytes + out[at]
     IN IF Len(output) + n > length \/ d > Len(output) THEN Refuse
        ELSE /\ output' = IF d = 1 THEN output \o [i \in 1 .. n |-> Last(output)]
                          ELSE CopyMatch(d, n)
             /\ Goto(at + (IF far THEN 2 ELSE 0))
             /\ UNCHANGED <<args, ip, copy, out>>
-----------------------------------------------------------------------------
Next ==
  \/ TooSmall \/ Start \/ CompressRun \/ CompressFound \/ LeftOver \/ Finish
  \/ DecompressLiterals \/ DecompressMatch

Spec == Init /\ [][Next]_vars
-----------------------------------------------------------------------------
(* Properties *)

(* Types: the positions stay inside their buffers, copy counts less than a *)
(* full run (the byte of LITERAL, blosclz.c:160-171).                      *)
TypeOK ==
  /\ phase \in {"start", "main", "out", "decompress", "done", "refused"}
  /\ ip \in 0 .. length /\ copy \in 0 .. MAX_COPY - 1 /\ rd \in 0 .. Len(out)
  /\ Len(output) <= length

(* Nothing is written at op_limit or beyond it, which is the room that is  *)
(* left in dest (blosc.c:671-678): the one test before a token covers every*)
(* form of it and the control byte that follows (blosclz.c:343-344).       *)
InsideRoom == Len(out) <= op_limit

(* Whatever the hash table answers, what was compressed decompresses to    *)
(* the input: blosclz_decompress never refuses it, and stops at its end.   *)
(* The three bytes taken off a match (blosclz.c:340) always leave a length *)
(* that is not 0, which would read as literals (:434), and a copy that     *)
(* overlaps itself goes byte by byte (:137-140).                           *)
RoundTrip == phase \in {"done", "refused"} => phase = "done" /\ output = input
=============================================================================
