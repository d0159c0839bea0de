---------------------------- MODULE MCVyukovQueue ----------------------------
(* Instances of VyukovQueue for TLC. *)
EXTENDS VyukovQueue, TLC

\* Many consumers (VyukovMPMCCycleQueue), or one (VyukovMPSCCycleQueue).
AllOrOne == {Thread} \cup {{t} : t \in Thread}

Symmetry == Permutations(Thread) \cup Permutations(Val)
=============================================================================
