----------------------------- MODULE ChunkCall ------------------------------
(* What a context promises its caller: a call to blosc2_compress_ctx or    *)
(* blosc2_decompress_ctx returns, and what it returns is a function of the *)
(* request, whatever the number of threads and the order they ran in.      *)
EXTENDS ChunkJobs

VARIABLES
  call,   \* the request being served: <<>> or <<job>>
  ret     \* what the last call returned: its code and the blocks of the
          \* result that can be read back

callVars == <<call, ret>>

\* The sizes of the blocks of S, which come together behind the header
SizeWith(j, S) == FirstOutput(j) + SumOver(j.csize, S, NBlocks(j))
PackedSize(j) == SizeWith(j, Blocks(j))

Whole(j, code) == [code |-> code, readable |-> Blocks(j)]

Nothing(code) == [code |-> code, readable |-> {}]

\* The plain copy of the source that replaces a chunk that does not shrink.
Copied(j) ==
  IF SourceSize(j) + MAX_OVERHEAD <= j.destsize
    THEN Whole(j, SourceSize(j) + MAX_OVERHEAD)
    ELSE Nothing(0)

\* Is there a block that cannot be compressed, and does some block not shrink
\* or all that do not fit?
Failed(j) == \E b \in Blocks(j) : j.csize[b] < 0
Shrunk(j) == {b \in Blocks(j) : j.csize[b] > 0}
Tight(j) == (\E b \in Blocks(j) : j.csize[b] = 0) \/ SizeWith(j, Shrunk(j)) > j.destsize

\* The code may give up for a block that failed and for one that did not
\* shrink: either may be met first.
CompressOutcomes(j) ==
  IF j.memcpyed THEN {Copied(j)}
  ELSE (IF Failed(j) THEN {Nothing(-1)} ELSE {})
       \cup (IF Tight(j) THEN {Copied(j)} ELSE {})
       \cup (IF ~Failed(j) /\ ~Tight(j) THEN {Whole(j, PackedSize(j))} ELSE {})

DecompressOutcomes(j) ==
  IF j.bad = {} \/ j.memcpyed THEN {Whole(j, SourceSize(j))} ELSE {Nothing(-1)}

Outcomes(j) == IF j.compress THEN CompressOutcomes(j) ELSE DecompressOutcomes(j)
-----------------------------------------------------------------------------
CallInit == call = <<>> /\ ret = Nothing(0)

Call(j) == call = <<>> /\ call' = <<j>> /\ ret' = Nothing(0)

Return == /\ call # <<>>
          /\ call' = <<>>
          /\ ret' \in Outcomes(call[1])

CallNext == Return \/ \E j \in Jobs : Call(j)

\* What is returned is the outcome of the request; and a call returns, but
\* nobody has to make one.
CallSafety == CallInit /\ [][CallNext]_callVars
CallSpec == CallSafety /\ WF_callVars(Return)
=============================================================================
