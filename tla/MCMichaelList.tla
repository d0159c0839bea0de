---------------------------- MODULE MCMichaelList ----------------------------
(* Instances of MichaelList for TLC. *)
EXTENDS MichaelList, TLC

CONSTANTS h1, h2

\* One list, and two buckets as MichaelHashSet chooses them by the hash of the key.
OneList(k) == h1
Parity(k)  == IF k % 2 = 0 THEN h1 ELSE h2

Symmetry == Permutations(Thread) \cup Permutations(Obj)
=============================================================================
