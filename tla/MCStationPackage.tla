-------------------------- MODULE MCStationPackage ---------------------------
(* StationPackage on a small instance. *)
EXTENDS StationPackage, TLC

\* Keyed by numbers that sort like their digits, and by numbers that do not.
TwoSeeds == {[keyedBy |-> "int", keys |-> {1, 2}], [keyedBy |-> "int", keys |-> {2, 10}]}

Symmetry == Permutations(Workers) \cup Permutations(Keys) \cup Permutations(Stations)
=============================================================================
