----------------------------- MODULE AtomicStack -----------------------------
(***************************************************************************)
(* What a concurrent stack of libcds promises: every push, pop and clear   *)
(* takes effect at one instant between its call and its return.  A push    *)
(* and a pop may take effect together, the push first.                     *)
(***************************************************************************)
EXTENDS Sequences

CONSTANTS Thread, Obj, nullptr

VARIABLES
  items,   \* from the top of the stack down
  call     \* thread -> operation in progress, whether it took effect, its value

Idle == [op |-> "none", done |-> FALSE, val |-> nullptr]

Init ==
  /\ items = <<>>
  /\ call  = [t \in Thread |-> Idle]

Begin(t) ==
  /\ call[t] = Idle
  /\ \/ \E o \in Obj : call' = [call EXCEPT ![t] = [op |-> "push", done |-> FALSE, val |-> o]]
     \/ \E op \in {"pop", "clear"} : call' = [call EXCEPT ![t] = [Idle EXCEPT !.op = op]]
  /\ UNCHANGED items

Pending(t, op) == call[t].op = op /\ ~ call[t].done

Push(t) ==
  /\ Pending(t, "push")
  /\ items' = <<call[t].val>> \o items
  /\ call'  = [call EXCEPT ![t].done = TRUE]

Pop(t) ==
  /\ Pending(t, "pop")
  /\ items # <<>>
  /\ items' = Tail(items)
  /\ call'  = [call EXCEPT ![t].done = TRUE, ![t].val = Head(items)]

PopEmpty(t) ==
  /\ Pending(t, "pop")
  /\ items = <<>>
  /\ call' = [call EXCEPT ![t].done = TRUE]
  /\ UNCHANGED items

\* t pushes and u pops what t pushed.
PushPop(t, u) ==
  /\ Pending(t, "push")
  /\ Pending(u, "pop")
  /\ call' = [call EXCEPT ![t].done = TRUE, ![u].done = TRUE, ![u].val = call[t].val]
  /\ UNCHANGED items

Clear(t) ==
  /\ Pending(t, "clear")
  /\ items' = <<>>
  /\ call'  = [call EXCEPT ![t].done = TRUE]

End(t) ==
  /\ call[t].done
  /\ call' = [call EXCEPT ![t] = Idle]
  /\ UNCHANGED items

Next ==
  \/ \E t \in Thread : Begin(t) \/ Push(t) \/ Pop(t) \/ PopEmpty(t) \/ Clear(t) \/ End(t)
  \/ \E t, u \in Thread : PushPop(t, u)

Spec == Init /\ [][Next]_<<items, call>>
=============================================================================
