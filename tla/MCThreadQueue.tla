--------------------------- MODULE MCThreadQueue ---------------------------
(* Instances of ThreadQueue for TLC.                                       *)
EXTENDS ThreadQueue, TLC

\* Threads and items are interchangeable where no property names one.
Symmetry == Permutations(Threads) \cup Permutations(Items)
=============================================================================
