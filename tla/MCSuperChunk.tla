---------------------------- MODULE MCSuperChunk -----------------------------
(* A few buffers: one that compresses well, one that does not at all.       *)
EXTENDS SuperChunk

SomeBuffers == {[nbytes |-> 400, cbytes |-> 40], [nbytes |-> 12, cbytes |-> 28]}
=============================================================================
