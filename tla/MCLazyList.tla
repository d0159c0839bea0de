------------------------------ MODULE MCLazyList ------------------------------
(* Instances of LazyList for TLC. *)
EXTENDS LazyList, TLC

Symmetry == Permutations(Thread) \cup Permutations(Obj)
=============================================================================
