----------------------------- MODULE AtomicQueue -----------------------------
(***************************************************************************)
(* What a concurrent queue of libcds promises: every enqueue and every     *)
(* dequeue that returns an item takes effect at one instant between its    *)
(* call and its return.  A dequeue may report an empty queue if the queue  *)
(* was empty at some instant of the call; which one is known only later,   *)
(* when the dequeue has found out that its reads belong together.          *)
(***************************************************************************)
EXTENDS Sequences

CONSTANTS Thread, Obj, nullptr

VARIABLES
  items,   \* the head of the queue first
  call     \* thread -> operation in progress, whether it took effect, its value,
           \* whether the queue was empty at an instant of the call

Idle == [op |-> "none", done |-> FALSE, val |-> nullptr, saw |-> FALSE]

Init ==
  /\ items = <<>>
  /\ call  = [t \in Thread |-> Idle]

Begin(t) ==
  /\ call[t] = Idle
  /\ \/ \E o \in Obj : call' = [call EXCEPT ![t].op = "enq", ![t].val = o]
     \/ call' = [call EXCEPT ![t].op = "deq"]
  /\ UNCHANGED items

Pending(t, op) == call[t].op = op /\ ~ call[t].done

Enqueue(t) ==
  /\ Pending(t, "enq")
  /\ items' = Append(items, call[t].val)
  /\ call'  = [call EXCEPT ![t].done = TRUE]

Dequeue(t) ==
  /\ Pending(t, "deq")
  /\ items # <<>>
  /\ items' = Tail(items)
  /\ call'  = [call EXCEPT ![t].done = TRUE, ![t].val = Head(items)]

SeeEmpty(t) ==
  /\ Pending(t, "deq")
  /\ items = <<>>
  /\ call' = [call EXCEPT ![t].saw = TRUE]
  /\ UNCHANGED items

DequeueEmpty(t) ==
  /\ Pending(t, "deq")
  /\ call[t].saw \/ items = <<>>
  /\ call' = [call EXCEPT ![t] = Idle]
  /\ UNCHANGED items

End(t) ==
  /\ call[t].done
  /\ call' = [call EXCEPT ![t] = Idle]
  /\ UNCHANGED items

Next ==
  \E t \in Thread :
    Begin(t) \/ Enqueue(t) \/ Dequeue(t) \/ SeeEmpty(t) \/ DequeueEmpty(t) \/ End(t)

Spec == Init /\ [][Next]_<<items, call>>
=============================================================================
