----------------------------- MODULE MCGlobalApi -----------------------------
(* Instances of GlobalApi for TLC.                                          *)
EXTENDS GlobalApi

Compress(s) == [op |-> "compress", doshuffle |-> s, refused |-> "no", nolock |-> FALSE]
Decompress(c) == [op |-> "decompress", chunk |-> c, room |-> TRUE, nolock |-> FALSE]
Chunk(d, l, e, m) == [filters |-> Pipeline(d, l), extended |-> e, memcpyed |-> m]

Zeroed == {Pipeline(FALSE, "none")}
Anything == Filters
Sizes == {0, 1}

\* Every call, one caller: what one leaves behind for the next
SomeChunks ==
  {c \in Chunks : c.memcpyed => c.extended /\ ~c.filters.delta /\ c.filters.last = "none"}
SequenceCalls ==
  {Compress(s) : s \in {"none", "shuffle"}}
  \cup {[Compress(s) EXCEPT !.nolock = TRUE] : s \in {"none", "bitshuffle"}}
  \cup {[Compress("none") EXCEPT !.refused = "argument"]}
  \cup {Decompress(c) : c \in SomeChunks}
  \cup {[Decompress(Chunk(FALSE, "shuffle", e, FALSE)) EXCEPT !.room = r, !.nolock = r] :
          e \in BOOLEAN, r \in BOOLEAN}
  \cup {[op |-> "getitem", chunk |-> Chunk(FALSE, "shuffle", TRUE, FALSE)]}
  \cup {[op |-> "set_nthreads", nthreads |-> n] : n \in {0, 1, 256}}
  \cup {[op |-> "set_delta", dodelta |-> TRUE], [op |-> "set_blocksize", size |-> 1]}
  \cup {[op |-> o] : o \in {"init", "destroy", "free_resources"}}

\* What several callers may do at once
SharedCalls ==
  {Compress("none"), Compress("shuffle"), Decompress(Chunk(FALSE, "shuffle", FALSE, FALSE)),
   [Decompress(Chunk(FALSE, "none", TRUE, FALSE)) EXCEPT !.room = FALSE],
   [Decompress(Chunk(FALSE, "bitshuffle", FALSE, FALSE)) EXCEPT !.nolock = TRUE],
   [Compress("shuffle") EXCEPT !.refused = "bytes"]}

\* A size is forced, then a compression runs without the lock.
NolockCalls ==
  {[Compress(s) EXCEPT !.nolock = TRUE] : s \in {"none", "shuffle"}}
  \cup {[op |-> "set_blocksize", size |-> 1]}

RefusedCalls == {[Compress("shuffle") EXCEPT !.refused = "bytes"], Compress("shuffle")}
PlainCalls == {Compress("none"), Compress("shuffle"), Decompress(Chunk(FALSE, "none", FALSE, FALSE)),
               Decompress(Chunk(FALSE, "shuffle", FALSE, FALSE))}
FirstCalls == {Decompress(Chunk(FALSE, "shuffle", FALSE, FALSE))}
ItemCalls == {[op |-> "getitem", chunk |-> Chunk(FALSE, "none", FALSE, FALSE)]}
=============================================================================
