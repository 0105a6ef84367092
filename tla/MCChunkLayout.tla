---------------------------- MODULE MCChunkLayout ----------------------------
(* Small sizes in the proportions of the real ones: a block is split when   *)
(* its splits have at least MIN_BUFFERSIZE bytes.                           *)
EXTENDS ChunkLayout

Request(size, ts, level, cut, hard, user, extra, par, ctx) ==
  [sourcesize |-> size, typesize |-> ts, clevel |-> level, splits |-> cut, hcr |-> hard,
   blocksize |-> user, room |-> extra, threads |-> par,
   extended |-> ctx]

\* Blocks and splits of every shape, dest from too small to large
BlockRequests ==
  {Request(size, ts, level, cut, FALSE, user, extra, par, ctx) :
     size \in {0, 5, 8}, ts \in {1, 2, 3, 4}, level \in {0, 5}, cut \in BOOLEAN,
     user \in {0, 4}, extra \in {0, 5, 12}, par \in BOOLEAN, ctx \in BOOLEAN}

\* Block sizes of every level, for codecs of either kind
LevelRequests ==
  {Request(size, ts, level, TRUE, hard, 0, 40, FALSE, FALSE) :
     size \in {2, 7, 12}, ts \in {1, 2, 3}, level \in {0, 1, 5, 6, 9}, hard \in BOOLEAN}

\* Chunks of several blocks, read item by item
ItemRequests ==
  {Request(size, ts, 1, TRUE, FALSE, user, 50, FALSE, FALSE) : size \in {2, 7, 12}, ts \in {1, 2, 3}, user \in {0, 5}}

\* What follows in the global context: the same block size for other types,
\* other block sizes for the same type, and calls without threads between
RequestsAgain ==
  {Request(8, ts, 5, TRUE, FALSE, 4, 12, TRUE, FALSE) : ts \in {1, 2, 3}}
  \cup {Request(8, 2, 5, TRUE, FALSE, 3, 12, TRUE, FALSE), Request(8, 2, 5, TRUE, FALSE, 4, 5, FALSE, FALSE)}

AllRequests == BlockRequests \cup LevelRequests \cup ItemRequests \cup RequestsAgain
SomeRanges == [q \in AllRequests |-> IF q \in ItemRequests THEN (-1 .. 13) \X {0, 1, 2, 5, 7, 12, 13} ELSE {}]

Never == {}

\* A block size the user gave that is less than typesize
OddRequests == {Request(8, 3, 5, FALSE, FALSE, user, 12, FALSE, FALSE) : user \in 0 .. 4}
NoRanges == [q \in OddRequests |-> {}]

\* One that leaves the block size to the library, of a small buffer first
AutomaticRequests == {Request(size, 1, 5, FALSE, FALSE, 0, 12, FALSE, TRUE) : size \in {2, 12}}
NotRead == [q \in AutomaticRequests |-> {}]
=============================================================================
