----------------------------- MODULE MCLiveActions -----------------------------
(* Instances of LiveActions for TLC.                                         *)
EXTENDS LiveActions, TLC

\* Two requests for one path: the agent is blocked on it again.
MCPathOf == [c \in Approval |-> CHOOSE p \in Path : TRUE]
MCAddedBy == [c \in Amendment |-> Item]

\* Requests and polls differ in nothing but their names.
Symmetry == Permutations(Approval) \cup Permutations(Poll)
=============================================================================
