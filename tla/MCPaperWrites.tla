---------------------------- MODULE MCPaperWrites ----------------------------
(* PaperWrites on small instances. *)
EXTENDS PaperWrites, TLC

\* Clocks that are behind, right and ahead.
SmallErrors == {-2, 0, 1}
TwoErrors   == {-2, 1}
NoError     == {0}
FastClock   == {2}

\* Marks, Centrals and stations are only compared for equality.  (Stations may
\* be permuted where all of them send station_time.)
ValueSymmetry == Permutations(Values)
Symmetry == ValueSymmetry \cup Permutations(Centrals) \cup Permutations(Stations)
=============================================================================
