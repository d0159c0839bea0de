--------------------------- MODULE MCFlatCombining ---------------------------
(* The programs that use the queue: with elimination; with threads that end and *)
(* new ones that come; with clear() and empty().                                *)
EXTENDS FlatCombining

Program(e, n, o, x) == [elimination |-> e, passes |-> n, ops |-> o, exits |-> x]

Ending == Program(FALSE, 2, {"deq"}, TRUE)

Programs == {Program(TRUE, 1, {"enq", "deq"}, FALSE), Ending, Program(FALSE, 2, {"enq", "clear", "empty"}, FALSE)}

EndingOnly == {Ending}
=============================================================================
