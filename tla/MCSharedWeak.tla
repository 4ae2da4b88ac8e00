---------------------------- MODULE MCSharedWeak ----------------------------
(* SharedWeak for TLC. *)
EXTENDS SharedWeak, TLC

Symmetry == Permutations(Obj) \cup Permutations(SRoot)
=============================================================================
