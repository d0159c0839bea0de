----------------------------- MODULE MCGeneralRCU -----------------------------
(* Instances of GeneralRCU for TLC. *)
EXTENDS GeneralRCU

Instance(s, c, n, m) == [scheme |-> s, counting |-> c, nests |-> n, syncs |-> m]

AllSchemes == {Instance("instant",  FALSE, 2, 1),
               Instance("buffered", FALSE, 2, 2),
               Instance("buffered", TRUE,  1, 1),
               Instance("threaded", FALSE, 1, 1)}
=============================================================================
