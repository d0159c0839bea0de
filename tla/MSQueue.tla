------------------------------- MODULE MSQueue -------------------------------
(***************************************************************************)
(* cds::container::MSQueue and MoirQueue over their intrusive bases        *)
(* (src/cds/intrusive/msqueue.h, src/cds/intrusive/moir_queue.h), on top   *)
(* of a garbage collector that keeps the promise of SafeReclamation.  The  *)
(* two differ in do_dequeue only; the variable moir chooses.               *)
(*                                                                         *)
(* A thread has two guards, <<t, 0>> and <<t, 1>> (enqueue uses the first).*)
(* Guard::protect is one step.  m_pNext of a node that was dequeued still  *)
(* leads to its successor, so a guard may be set on a node that is retired *)
(* already, or freed: it then protects nothing.                            *)
(***************************************************************************)
EXTENDS Integers, Sequences, FiniteSets

CONSTANTS
  Thread,
  Obj,              \* addresses of nodes, m_Dummy among them
  m_Dummy,
  nullptr,
  Variants,         \* TRUE: MoirQueue::do_dequeue; FALSE: MSQueue's
  CounterModulus    \* the item counter is an unsigned integer of this range

ASSUME ConstantsAssumption ==
  /\ m_Dummy \in Obj /\ IsFiniteSet(Obj)
  /\ nullptr \notin Obj
  /\ IsFiniteSet(Thread)
  /\ Variants \subseteq BOOLEAN
  /\ CounterModulus \in Nat \ {0} /\ Cardinality(Obj) <= CounterModulus

VARIABLES
  moir,             \* which of the two queues it is
  m_pHead, m_pTail, next,
  m_ItemCounter,
  pc, op,
  new,              \* enqueue: pNew
  cur, nxt,         \* locals t of enqueue or h of dequeue, and pNext
  saw,              \* history: the queue was empty at an instant of the dequeue
  status, protects  \* the garbage collector's view of the nodes

Ptr == Obj \cup {nullptr}

queueVars == <<m_pHead, m_pTail, next>>
locals    == <<op, new, cur, nxt, saw>>
gcVars    == <<status, protects>>
vars == <<moir, queueVars, m_ItemCounter, pc, locals, gcVars>>

SMR == INSTANCE SafeReclamation WITH Guard <- Thread \X {0, 1}, None <- nullptr

Guards(t) == {<<t, 0>>, <<t, 1>>}

Init ==
  /\ moir \in Variants
  /\ m_pHead = m_Dummy
  /\ m_pTail = m_Dummy
  /\ next = [o \in Obj |-> nullptr]
  /\ m_ItemCounter = 0
  /\ pc  = [t \in Thread |-> "idle"]
  /\ op  = [t \in Thread |-> "none"]
  /\ new = [t \in Thread |-> nullptr]
  /\ cur = [t \in Thread |-> nullptr]
  /\ nxt = [t \in Thread |-> nullptr]
  /\ saw = [t \in Thread |-> FALSE]
  /\ status   = [o \in Obj |-> IF o = m_Dummy THEN "linked" ELSE "free"]
  /\ protects = [g \in Thread \X {0, 1} |-> nullptr]

\* The nodes reachable from p by at most n links.
Chain[n \in 0 .. Cardinality(Obj)] ==
  [p \in Ptr |-> IF p = nullptr \/ n = 0 THEN <<>> ELSE <<p>> \o Chain[n - 1][next[p]]]

\* The first node, m_pHead, is a dummy: its value has been dequeued already.
Nodes == Chain[Cardinality(Obj)][m_pHead]
Items == IF Nodes = <<>> THEN <<>> ELSE Tail(Nodes)

Goto(t, l) == pc' = [pc EXCEPT ![t] = l]

\* The next round of the loop at l assigns the locals anew.
Retry(t, l) ==
  /\ Goto(t, l)
  /\ cur' = [cur EXCEPT ![t] = nullptr]
  /\ nxt' = [nxt EXCEPT ![t] = nullptr]
  /\ UNCHANGED <<op, new, saw>>

\* Return to the caller: the locals die and the guards are cleared.
Return(t) ==
  /\ Goto(t, "idle")
  /\ op'  = [op EXCEPT ![t] = "none"]
  /\ new' = [new EXCEPT ![t] = nullptr]
  /\ cur' = [cur EXCEPT ![t] = nullptr]
  /\ nxt' = [nxt EXCEPT ![t] = nullptr]
  /\ saw' = [saw EXCEPT ![t] = FALSE]
  /\ SMR!Release(Guards(t))

\* Guard g is set on p, whatever has become of p.
Protect(g, p) ==
  IF p # nullptr /\ status[p] = "linked" THEN SMR!Protect(g, p) ELSE SMR!Release({g})

\* Guard::protect stores a pointer that it has not confirmed yet over the one
\* that the guard protected in the last round of the loop.
Assign(t, l, i) ==
  /\ pc[t] = l
  /\ protects[<<t, i>>] # nullptr
  /\ SMR!Release({<<t, i>>})
  /\ UNCHANGED <<queueVars, m_ItemCounter, pc, locals>>

-----------------------------------------------------------------------------
(* enqueue *)

\* alloc_node, and the call of the intrusive enqueue.
EnqStart(t, o) ==
  /\ pc[t] = "idle"
  /\ m_pHead # nullptr
  /\ SMR!Publish(o)
  /\ next' = [next EXCEPT ![o] = nullptr]
  /\ op'   = [op EXCEPT ![t] = "enq"]
  /\ new'  = [new EXCEPT ![t] = o]
  /\ Goto(t, "tail")
  /\ UNCHANGED <<m_pHead, m_pTail, m_ItemCounter, cur, nxt, saw>>

EnqProtect(t) ==
  /\ pc[t] = "tail"
  /\ Protect(<<t, 0>>, m_pTail)
  /\ cur' = [cur EXCEPT ![t] = m_pTail]
  /\ Goto(t, "tailnext")
  /\ UNCHANGED <<queueVars, m_ItemCounter, op, new, nxt, saw>>

EnqNext(t) ==
  /\ pc[t] = "tailnext"
  /\ nxt' = [nxt EXCEPT ![t] = next[cur[t]]]
  /\ Goto(t, IF next[cur[t]] # nullptr THEN "tailhelp" ELSE "link")
  /\ UNCHANGED <<queueVars, m_ItemCounter, op, new, cur, saw, gcVars>>

\* "Tail is misplaced, advance it"
EnqHelp(t) ==
  /\ pc[t] = "tailhelp"
  /\ m_pTail = cur[t]
  /\ m_pTail' = nxt[t]
  /\ Retry(t, "tail")
  /\ UNCHANGED <<m_pHead, next, m_ItemCounter, gcVars>>

\* The tail has been advanced by somebody else, or the weak exchange failed.
EnqHelpFail(t) ==
  /\ pc[t] = "tailhelp"
  /\ Retry(t, "tail")
  /\ UNCHANGED <<queueVars, m_ItemCounter, gcVars>>

\* Mutant of EnqLink: the new node is stored without a comparison.
EnqLinkStore(t) ==
  /\ pc[t] = "link"
  /\ next' = [next EXCEPT ![cur[t]] = new[t]]
  /\ Goto(t, "enqueued")
  /\ UNCHANGED <<m_pHead, m_pTail, m_ItemCounter, locals, gcVars>>

EnqLink(t) ==
  /\ pc[t] = "link"
  /\ next[cur[t]] = nullptr
  /\ next' = [next EXCEPT ![cur[t]] = new[t]]
  /\ Goto(t, "enqueued")
  /\ UNCHANGED <<m_pHead, m_pTail, m_ItemCounter, locals, gcVars>>

EnqLinkFail(t) ==
  /\ pc[t] = "link"
  /\ next[cur[t]] # nullptr
  /\ Retry(t, "tail")
  /\ UNCHANGED <<queueVars, m_ItemCounter, gcVars>>

EnqCount(t) ==
  /\ pc[t] = "enqueued"
  /\ m_ItemCounter' = (m_ItemCounter + 1) % CounterModulus
  /\ Goto(t, "advance")
  /\ UNCHANGED <<queueVars, locals, gcVars>>

EnqAdvance(t) ==
  /\ pc[t] = "advance"
  /\ m_pTail' = IF m_pTail = cur[t] THEN new[t] ELSE m_pTail
  /\ Return(t)
  /\ UNCHANGED <<m_pHead, next, m_ItemCounter>>

-----------------------------------------------------------------------------
(* dequeue *)

DeqStart(t) ==
  /\ pc[t] = "idle"
  /\ m_pHead # nullptr
  /\ op' = [op EXCEPT ![t] = "deq"]
  /\ Goto(t, "head")
  /\ UNCHANGED <<queueVars, m_ItemCounter, new, cur, nxt, saw, gcVars>>

DeqHead(t) ==
  /\ pc[t] = "head"
  /\ Protect(<<t, 0>>, m_pHead)
  /\ cur' = [cur EXCEPT ![t] = m_pHead]
  /\ Goto(t, "headnext")
  /\ UNCHANGED <<queueVars, m_ItemCounter, op, new, nxt, saw>>

\* Mutant of DeqNext: the next node is not guarded.
DeqNextNot(t) ==
  /\ pc[t] = "headnext"
  /\ nxt' = [nxt EXCEPT ![t] = next[cur[t]]]
  /\ saw' = [saw EXCEPT ![t] = @ \/ Items = <<>>]
  /\ Goto(t, IF moir THEN "swing" ELSE "check")
  /\ UNCHANGED <<queueVars, m_ItemCounter, op, new, cur, gcVars>>

DeqNext(t) ==
  /\ pc[t] = "headnext"
  /\ Protect(<<t, 1>>, next[cur[t]])
  /\ nxt' = [nxt EXCEPT ![t] = next[cur[t]]]
  /\ saw' = [saw EXCEPT ![t] = @ \/ Items = <<>>]
  /\ Goto(t, IF moir THEN "swing" ELSE "check")
  /\ UNCHANGED <<queueVars, m_ItemCounter, op, new, cur>>

\* MSQueue: the head must not have moved between the two reads.
DeqCheck(t) ==
  /\ pc[t] = "check"
  /\ m_pHead = cur[t]
  /\ Goto(t, IF nxt[t] = nullptr THEN "swing" ELSE "lag")
  /\ UNCHANGED <<queueVars, m_ItemCounter, locals, gcVars>>

DeqCheckFail(t) ==
  /\ pc[t] = "check"
  /\ m_pHead # cur[t]
  /\ Retry(t, "head")
  /\ UNCHANGED <<queueVars, m_ItemCounter, gcVars>>

\* Mutant of DeqEmpty: the queue is taken to be empty although it is not.
DeqEmptyAny(t) ==
  /\ pc[t] = "swing"
  /\ Return(t)
  /\ UNCHANGED <<queueVars, m_ItemCounter>>

DeqEmpty(t) ==
  /\ pc[t] = "swing"
  /\ nxt[t] = nullptr
  /\ Return(t)
  /\ UNCHANGED <<queueVars, m_ItemCounter>>

\* Mutant of DeqLag: MSQueue does not look at the tail before it moves the head.
DeqLagNot(t) ==
  /\ pc[t] = "lag"
  /\ Goto(t, IF moir THEN "dequeued" ELSE "swing")
  /\ UNCHANGED <<queueVars, m_ItemCounter, locals, gcVars>>

\* The load of m_pTail: before the exchange of the head in MSQueue, after it in
\* MoirQueue.
DeqLag(t) ==
  /\ pc[t] = "lag"
  /\ Goto(t, IF m_pTail = cur[t] THEN "lagging" ELSE IF moir THEN "dequeued" ELSE "swing")
  /\ UNCHANGED <<queueVars, m_ItemCounter, locals, gcVars>>

\* The tail was the head: advance it, and begin again in MSQueue.
DeqHelp(t) ==
  /\ pc[t] = "lagging"
  /\ m_pTail' = IF m_pTail = cur[t] THEN nxt[t] ELSE m_pTail
  /\ IF moir THEN Goto(t, "dequeued") /\ UNCHANGED locals ELSE Retry(t, "head")
  /\ UNCHANGED <<m_pHead, next, m_ItemCounter, gcVars>>

DeqSwing(t) ==
  /\ pc[t] = "swing"
  /\ nxt[t] # nullptr
  /\ m_pHead = cur[t]
  /\ m_pHead' = nxt[t]
  /\ Goto(t, IF moir THEN "lag" ELSE "dequeued")
  /\ UNCHANGED <<m_pTail, next, m_ItemCounter, locals, gcVars>>

DeqSwingFail(t) ==
  /\ pc[t] = "swing"
  /\ nxt[t] # nullptr
  /\ m_pHead # cur[t]
  /\ Retry(t, "head")
  /\ UNCHANGED <<queueVars, m_ItemCounter, gcVars>>

\* Mutant of DeqCount: the counter is not decremented.
DeqCountNot(t) ==
  /\ pc[t] = "dequeued"
  /\ Goto(t, "value")
  /\ UNCHANGED <<queueVars, m_ItemCounter, locals, gcVars>>

DeqCount(t) ==
  /\ pc[t] = "dequeued"
  /\ m_ItemCounter' = (m_ItemCounter + CounterModulus - 1) % CounterModulus
  /\ Goto(t, "value")
  /\ UNCHANGED <<queueVars, locals, gcVars>>

\* dequeue_with: the functor moves the value out of the new dummy node.
DeqValue(t) ==
  /\ pc[t] = "value"
  /\ Goto(t, "dispose")
  /\ UNCHANGED <<queueVars, m_ItemCounter, locals, gcVars>>

DisposeNode(p) ==
  IF p # m_Dummy THEN SMR!Replace(p, nullptr) ELSE UNCHANGED gcVars

DeqDispose(t) ==
  /\ pc[t] = "dispose"
  /\ DisposeNode(cur[t])
  /\ Goto(t, "return")
  /\ UNCHANGED <<queueVars, m_ItemCounter, locals>>

DeqReturn(t) ==
  /\ pc[t] = "return"
  /\ Return(t)
  /\ UNCHANGED <<queueVars, m_ItemCounter>>

-----------------------------------------------------------------------------
Quiescent == \A t \in Thread : pc[t] = "idle"

\* The destructor runs when no thread is in the queue; the items that clear()
\* takes out first are taken out by dequeue.
Destroy ==
  /\ Quiescent
  /\ m_pHead # nullptr
  /\ Items = <<>>
  /\ m_pHead' = nullptr
  /\ m_pTail' = nullptr
  /\ DisposeNode(m_pHead)
  /\ UNCHANGED <<next, m_ItemCounter, pc, locals>>

\* The constructor: a new queue in the same place, while nodes of the old one
\* may still wait for their disposer.
Construct ==
  /\ m_pHead = nullptr
  /\ m_pHead' = m_Dummy
  /\ m_pTail' = m_Dummy
  /\ next' = [next EXCEPT ![m_Dummy] = nullptr]
  /\ m_ItemCounter' = 0
  /\ UNCHANGED <<pc, locals, gcVars>>

\* disposer_thunk: the links are cleared when the garbage collector frees the node.
Reclaim(o) ==
  /\ SMR!Reclaim({o})
  /\ next' = [next EXCEPT ![o] = nullptr]
  /\ UNCHANGED <<m_pHead, m_pTail, m_ItemCounter, pc, locals>>

EnqStep(t) ==
  \/ \E o \in Obj : EnqStart(t, o)
  \/ Assign(t, "tail", 0) \/ EnqProtect(t) \/ EnqNext(t) \/ EnqHelp(t) \/ EnqHelpFail(t)
  \/ EnqLink(t) \/ EnqLinkFail(t) \/ EnqCount(t) \/ EnqAdvance(t)

DeqStep(t) ==
  \/ DeqStart(t) \/ Assign(t, "head", 0) \/ DeqHead(t) \/ Assign(t, "headnext", 1) \/ DeqNext(t)
  \/ DeqCheck(t) \/ DeqCheckFail(t) \/ DeqEmpty(t) \/ DeqLag(t) \/ DeqHelp(t) \/ DeqSwing(t)
  \/ DeqSwingFail(t) \/ DeqCount(t) \/ DeqValue(t) \/ DeqDispose(t) \/ DeqReturn(t)

Next ==
  /\ \/ \E t \in Thread : EnqStep(t) \/ DeqStep(t)
     \/ Destroy \/ Construct
     \/ \E o \in Obj : Reclaim(o)
  /\ UNCHANGED moir

Spec == Init /\ [][Next]_vars

-----------------------------------------------------------------------------
(* Properties *)

\* No node is read, written or given to the disposer after it was freed: what
\* m_pHead and m_pTail lead to is linked, the node an operation works on is under
\* its guard, and so is the node whose value dequeue_with is about to move out
\* although other threads may have dequeued, and disposed of, it already.
NoUseAfterFree ==
  /\ \A i \in DOMAIN Nodes : status[Nodes[i]] = "linked"
  /\ m_pTail # nullptr => status[m_pTail] = "linked"
  /\ \A t \in Thread :
       /\ pc[t] \in {"tailnext", "link", "headnext"} => status[cur[t]] # "free"
       /\ pc[t] = "value" => status[nxt[t]] # "free"
       /\ pc[t] \in {"tail", "tailnext", "tailhelp", "link"} => status[new[t]] = "linked"
       /\ pc[t] = "dispose" => status[cur[t]] = "linked"

\* Threads that hold node o: an enqueue before it links o, a dequeue that has
\* moved the head off o and has not disposed of it yet.
Holders(o) ==
  {t \in Thread :
     \/ pc[t] \in {"tail", "tailnext", "tailhelp", "link"} /\ new[t] = o
     \/ cur[t] = o /\ \/ pc[t] \in {"dequeued", "value", "dispose"}
                      \/ moir /\ pc[t] \in {"lag", "lagging"}}

\* Every node in use is in the queue once or is held by exactly one thread: no
\* node leaks, not even past the destructor, and none is disposed of twice.
NodeConservation ==
  \A o \in Obj \ {m_Dummy} :
    Cardinality({i \in DOMAIN Nodes : Nodes[i] = o}) + Cardinality(Holders(o))
      = IF status[o] = "linked" THEN 1 ELSE 0

\* The tail lags behind the last node by one node at most, it may be the node in
\* front of the head only in MoirQueue, and it has caught up when nobody is
\* inside: then an empty queue has m_pHead = m_pTail, as ~MSQueue asserts.
TailLag ==
  m_pHead # nullptr =>
    /\ next[m_pTail] # nullptr => next[next[m_pTail]] = nullptr
    /\ \/ \E i \in DOMAIN Nodes : Nodes[i] = m_pTail
       \/ moir /\ next[m_pTail] = m_pHead
    /\ Quiescent => next[m_pTail] = nullptr

\* size(): when no operation is in progress the item counter is the number of items.
CounterExact == (Quiescent /\ m_pHead # nullptr) => m_ItemCounter = Len(Items)

\* The operation of a thread as AtomicQueue sees it.
call ==
  [t \in Thread |->
     LET done == \/ pc[t] \in {"enqueued", "advance", "dequeued", "value", "dispose", "return"}
                 \/ moir /\ pc[t] \in {"lag", "lagging"}
     IN  [op |-> op[t], done |-> done, saw |-> saw[t],
          val |-> IF op[t] = "enq" THEN new[t] ELSE IF op[t] = "deq" /\ done THEN nxt[t] ELSE nullptr]]

AQ == INSTANCE AtomicQueue WITH items <- Items

\* enqueue and dequeue are linearizable: enqueue takes effect when it links the
\* node, dequeue when it moves the head; a dequeue that returns false has seen
\* the queue empty.
ImplementsQueue == AQ!Spec
=============================================================================
