------------------------------ MODULE MCBloscLZ ------------------------------
(* An instance of BloscLZ for TLC.  The inputs repeat one pattern up to     *)
(* some place and another one from there, so that matches of every distance *)
(* begin, break off and begin again.                                        *)
EXTENDS BloscLZ

CONSTANTS Size, Periods, Places

Patterns(periods) == UNION {[0 .. k - 1 -> {0, 1}] : k \in periods}
At2(p, i) == p[i % Cardinality(DOMAIN p)]
TwoPatterns ==
  {[i \in 1 .. Size |-> IF i <= m THEN At2(p, i) ELSE At2(q, i)] :
     p \in Patterns(Periods), q \in Patterns({2}), m \in Places}

Words == TwoPatterns \cup {<<0, 0, 0>>}
=============================================================================
