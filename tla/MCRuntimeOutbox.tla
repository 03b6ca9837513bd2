--------------------------- MODULE MCRuntimeOutbox ---------------------------
(* Instances of RuntimeOutbox for TLC.                                      *)
EXTENDS RuntimeOutbox, TLC

\* Sessions, acknowledgements and flushes differ in nothing but their names.
Symmetry == Permutations(Session) \cup Permutations(Ack) \cup Permutations(Flusher)
=============================================================================
