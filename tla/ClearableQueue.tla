--------------------------- MODULE ClearableQueue ---------------------------
(* The queue of the flat-combining containers: AtomicQueue with clear(), which *)
(* removes every item at one instant, and empty(), which answers for one.      *)
EXTENDS AtomicQueue

BeginOther(t) ==
  /\ call[t] = Idle
  /\ \E o \in {"clear", "empty"} : call' = [call EXCEPT ![t].op = o]
  /\ UNCHANGED items

Clear(t) ==
  /\ Pending(t, "clear")
  /\ items' = <<>>
  /\ call'  = [call EXCEPT ![t].done = TRUE]

Empty(t) ==
  /\ Pending(t, "empty")
  /\ call' = [call EXCEPT ![t].done = TRUE, ![t].saw = (items = <<>>)]
  /\ UNCHANGED items

ClearableNext == Next \/ \E t \in Thread : BeginOther(t) \/ Clear(t) \/ Empty(t)

ClearableSpec == Init /\ [][ClearableNext]_<<items, call>>
=============================================================================
