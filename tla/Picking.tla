-------------------------------- MODULE Picking --------------------------------
(* Array.prototype.filter, by the positions that pass. *)
EXTENDS Naturals, Sequences, FiniteSets

\* the elements of s at the positions in at, in their order
Picked(s, at) ==
  LET rank(i) == Cardinality({j \in at : j <= i})
  IN [k \in 1..Cardinality(at) |-> s[CHOOSE i \in at : rank(i) = k]]
=============================================================================
