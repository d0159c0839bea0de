--------------------------- MODULE MCTreiberStack ---------------------------
(* Instances of TreiberStack for TLC. *)
EXTENDS TreiberStack, TLC

\* Elimination without clear(), and clear() by two threads without elimination.
EliminationOrClear == {<<TRUE, Thread, FALSE>>} \cup {<<FALSE, {t, u}, TRUE>> : t, u \in Thread}

Symmetry == Permutations(Thread) \cup Permutations(Obj)
=============================================================================
