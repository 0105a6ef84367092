---------------------------- MODULE MCBloscPool -----------------------------
(* Instances of BloscPool for TLC: blocks of 2 units, at most 3 blocks.    *)
EXTENDS SpuriousPool

Request == [compress |-> TRUE, nfull |-> 2, left |-> 0, destsize |-> 40,
            header |-> MIN_HEADER, memcpyed |-> FALSE, aligned |-> FALSE,
            delta |-> FALSE, csize |-> <<>>, bad |-> {}]

Sizes(n, S) == [0 .. (n - 1) -> S]

\* Three blocks that shrink to one unit, do not shrink, or do not compress at
\* all; the room is too small, just enough, or ample.
CompressJobs ==
  {[Request EXCEPT !.left = 1, !.destsize = d, !.csize = c] :
     d \in {8, 10, 13}, c \in {[b \in 0 .. 2 |-> 1], [b \in 0 .. 2 |-> 2 - (b % 2)],
                               [b \in 0 .. 2 |-> b]}}

\* Errors of blosc_c, stored chunks, and one extended header
CompressOddJobs ==
  {[Request EXCEPT !.destsize = d, !.csize = c] :
     d \in {7, 8}, c \in Sizes(2, {-9, 0, 2})}
  \cup {[Request EXCEPT !.destsize = d, !.csize = [b \in 0 .. 1 |-> 1],
                        !.memcpyed = TRUE] : d \in {7, 8}}
  \cup {[Request EXCEPT !.header = EXTENDED_HEADER, !.destsize = 13,
                        !.csize = [b \in 0 .. 1 |-> s]] : s \in {1, 2}}

Plaintext(n, l) == [Request EXCEPT !.compress = FALSE, !.nfull = n, !.left = l,
                      !.csize = [b \in 0 .. (IF l > 0 THEN n ELSE n - 1) |-> 1],
                      !.destsize = n * BlockSize + l]

DecompressJobs ==
  {[Plaintext(n, 1) EXCEPT !.bad = bad] : n \in {2, 3}, bad \in SUBSET (0 .. 2)}
  \cup {[Plaintext(n, 1) EXCEPT !.delta = TRUE, !.bad = bad] :
          n \in {2, 3}, bad \in SUBSET {1, 2}}

\* Three workers and a chunk with the delta filter whose block 1 cannot be read
DeltaCorruptJobs == {[Plaintext(3, 0) EXCEPT !.delta = TRUE, !.bad = {1}]}

\* Requests that run in the thread of the caller
SerialJobs ==
  {[Request EXCEPT !.nfull = 1, !.left = 1, !.destsize = d, !.aligned = a, !.csize = c] :
     d \in {6, 7, 9}, a \in BOOLEAN, c \in {[b \in 0 .. 1 |-> 1], [b \in 0 .. 1 |-> b],
                                            [b \in 0 .. 1 |-> 2 - 11 * b]}}
  \cup {[Request EXCEPT !.nfull = 0, !.aligned = a, !.memcpyed = TRUE] : a \in BOOLEAN}
  \cup {[Plaintext(1, l) EXCEPT !.delta = d, !.bad = bad] :
          l \in {0, 1}, d \in BOOLEAN, bad \in SUBSET {0}}
  \cup {[Plaintext(1, 1) EXCEPT !.memcpyed = TRUE]}

\* Everything two workers, or the caller itself, may be asked
TwoWorkerJobs == CompressJobs \cup CompressOddJobs \cup DecompressJobs \cup SerialJobs

OneOfEach ==
  {[Request EXCEPT !.csize = [b \in 0 .. 1 |-> 1]],
   [Request EXCEPT !.destsize = 8, !.csize = [b \in 0 .. 1 |-> 2]],
   [Plaintext(2, 1) EXCEPT !.delta = TRUE],
   [Plaintext(1, 0) EXCEPT !.delta = TRUE]}

TwoBlocks == {Plaintext(2, 0)}
ShortJobs == {[Request EXCEPT !.csize = [b \in 0 .. 1 |-> 1]], Plaintext(2, 0)}
=============================================================================
