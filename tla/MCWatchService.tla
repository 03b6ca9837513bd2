---------------------------- MODULE MCWatchService ----------------------------
(* Instances of WatchService for TLC.                                        *)
EXTENDS WatchService, TLC

\* Runs, batches and polls differ in nothing but their names.
Symmetry == Permutations(Run) \cup Permutations(Batch) \cup Permutations(Poll)
=============================================================================
