-------------------------- MODULE MCGovernedSession --------------------------
(* Instances of GovernedSession for TLC.                                    *)
EXTENDS GovernedSession, TLC

\* The calls differ in nothing but whether their process may die.
Symmetry == Permutations(Call \ Crashable) \cup Permutations(Crashable)
=============================================================================
