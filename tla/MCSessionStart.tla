--------------------------- MODULE MCSessionStart ---------------------------
(* Instances of SessionStart for TLC.                                       *)
EXTENDS SessionStart, TLC

\* Sound where Crashable and Bounded are each all of Starter or none of it.
Symmetry == Permutations(Starter)
=============================================================================
