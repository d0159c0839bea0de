--------------------------- MODULE MCHazardPointer ---------------------------
(* Instances of HazardPointer for TLC. *)
EXTENDS HazardPointer, TLC

Upward   == {p \in Slot \X Slot : p[1] < p[2]}
NoCopies == {}
Downward == {p \in Slot \X Slot : p[1] > p[2]}

\* Constraint: while an object at an odd address is in use, the only other one in
\* use is at address 2, and no slot still holds one of the others.
OddApart ==
  \A o \in Obj : o % 2 = 1 /\ mem[o] # "free" =>
    /\ \A p \in Obj : mem[p] # "free" => p \in {o, 2}
    /\ \A r \in Rec, i \in Slot : hazards[r][i] \in {o, 2, nullptr}

\* Nothing distinguishes one thread from another.
ThreadSymmetry == Permutations(Thread)
=============================================================================
