---------------------------- MODULE MCPythonCalls ----------------------------
(* Instances of PythonCalls for TLC.                                        *)
EXTENDS PythonCalls

None == {}
Zeroed == {Pipeline(FALSE, "none")}
One == {1}
Sizes == {0, 1}

Chunk(m) == [filters |-> Pipeline(FALSE, "none"), extended |-> TRUE, memcpyed |-> m]
Compress(n, r) ==
  [op |-> "compress", doshuffle |-> "shuffle", refused |-> r, nolock |-> FALSE, cname |-> n]

SomeCalls ==
  {Compress("blosclz", "no"), Compress("lz4", "no"), Compress("lz4", "bytes"), Compress("lz4", "argument")}
  \cup {[op |-> "decompress", chunk |-> Chunk(FALSE), room |-> TRUE, nolock |-> FALSE]}
  \cup {[op |-> "set_nthreads", nthreads |-> n] : n \in {0, 2}}
  \cup {[op |-> "set_blocksize", size |-> 1], [op |-> "destroy"]}
  \cup {[op |-> "set_releasegil", gilstate |-> g] : g \in BOOLEAN}
=============================================================================
