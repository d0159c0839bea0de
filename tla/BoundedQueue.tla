----------------------------- MODULE BoundedQueue -----------------------------
(* A queue of fixed capacity: an enqueue fails if the queue is full at an      *)
(* instant of the call, and front() reads the head and leaves it there.        *)
EXTENDS AtomicQueue, Naturals

CONSTANT Capacity

BeginFront(t) ==
  /\ call[t] = Idle
  /\ call' = [call EXCEPT ![t].op = "front"]
  /\ UNCHANGED items

EnqueueFull(t) ==
  /\ Pending(t, "enq")
  /\ Len(items) = Capacity
  /\ call' = [call EXCEPT ![t] = Idle]
  /\ UNCHANGED items

Front(t) ==
  /\ Pending(t, "front")
  /\ items # <<>>
  /\ call' = [call EXCEPT ![t].done = TRUE, ![t].val = Head(items)]
  /\ UNCHANGED items

FrontEmpty(t) ==
  /\ Pending(t, "front")
  /\ items = <<>>
  /\ call' = [call EXCEPT ![t] = Idle]
  /\ UNCHANGED items

BoundedNext ==
  \/ Next /\ Len(items') <= Capacity
  \/ \E t \in Thread : BeginFront(t) \/ EnqueueFull(t) \/ Front(t) \/ FrontEmpty(t)

BoundedSpec == Init /\ [][BoundedNext]_<<items, call>>
=============================================================================
