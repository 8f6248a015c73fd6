------------------------------- MODULE MCFeed -------------------------------
(* Bounded instances of Feed for TLC: threads, texts and bounds come from  *)
(* the .cfg files.                                                         *)
EXTENDS Feed, TLC

Symmetry == Permutations(Threads)
=============================================================================
