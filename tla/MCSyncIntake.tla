---------------------------- MODULE MCSyncIntake ----------------------------
(* SyncIntake on small instances. *)
EXTENDS SyncIntake, TLC

\* Requests and payload hashes are only ever compared for equality, so each set
\* may be permuted.  Not used where liveness is checked.
RequestSymmetry == Permutations(Sessions) \cup Permutations(Values)
=============================================================================
