------------------------------ MODULE MCMSQueue ------------------------------
(* Instances of MSQueue for TLC. *)
EXTENDS MSQueue, TLC

Symmetry == Permutations(Thread) \cup Permutations(Obj \ {m_Dummy})
=============================================================================
