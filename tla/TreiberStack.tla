----------------------------- MODULE TreiberStack -----------------------------
(***************************************************************************)
(* cds::container::TreiberStack and its base, cds::intrusive::TreiberStack *)
(* with the elimination back-off (src/cds/intrusive/treiber_stack.h,       *)
(* src/cds/container/treiber_stack.h), on top of a garbage collector that  *)
(* keeps the promise of SafeReclamation.  Each thread has one guard.       *)
(*                                                                         *)
(* Guard::protect is one step: in SafeReclamation the guard protects the   *)
(* pointer from the load that confirms it.  compare_exchange_weak may fail *)
(* spuriously.                                                             *)
(*                                                                         *)
(* The critical section of a collision slot is one step: what is shared in *)
(* it besides the slot is nStatus, and a thread that sees its nStatus      *)
(* change takes the lock of the slot before it does anything else.         *)
(***************************************************************************)
EXTENDS Integers, Sequences, FiniteSets

CONSTANTS
  Thread,
  Obj,              \* addresses of nodes
  nullptr,
  Slots,            \* indices of the collision array
  Clients,          \* the combinations of traits and clients considered: see config
  CounterModulus    \* the item counter is an unsigned integer of this range

ASSUME ConstantsAssumption ==
  /\ IsFiniteSet(Obj) /\ IsFiniteSet(Thread)
  /\ nullptr \notin Obj \cup Thread
  /\ Clients \subseteq BOOLEAN \X (SUBSET Thread) \X BOOLEAN
  /\ CounterModulus \in Nat \ {0} /\ Cardinality(Obj) < CounterModulus

VARIABLES
  enable_elimination,  \* a trait of the stack
  users, clears,    \* the threads that use it, and whether they call clear()
  m_Top, next,      \* next: m_pNext of each node
  m_ItemCounter,
  pRec,             \* collision slot -> thread whose record is in it, or nullptr
  nStatus,          \* operation::nStatus of the thread's descriptor
  pc,
  op,               \* idOp, or "clear"
  val,              \* push: the node; pop: the node to return (op.pVal)
  cur, nxt,         \* locals t (pTop in clear) and pNext
  my,               \* the collision slot a thread waits at
  status, protects  \* the garbage collector's view of the nodes

Ptr == Obj \cup {nullptr}

stackVars == <<m_Top, next>>
locals    == <<op, val, cur, nxt, nStatus, my>>
gcVars    == <<status, protects>>
config    == <<enable_elimination, users, clears>>
vars == <<config, stackVars, m_ItemCounter, pRec, pc, locals, gcVars>>

SMR == INSTANCE SafeReclamation WITH Guard <- Thread, None <- nullptr

Init ==
  /\ \E c \in Clients : enable_elimination = c[1] /\ users = c[2] /\ clears = c[3]
  /\ m_Top = nullptr
  /\ next  = [o \in Obj |-> nullptr]
  /\ m_ItemCounter = 0
  /\ pRec    = [k \in Slots |-> nullptr]
  /\ nStatus = [t \in Thread |-> "free"]
  /\ my  = [t \in Thread |-> nullptr]
  /\ pc  = [t \in Thread |-> "idle"]
  /\ op  = [t \in Thread |-> "none"]
  /\ val = [t \in Thread |-> nullptr]
  /\ cur = [t \in Thread |-> nullptr]
  /\ nxt = [t \in Thread |-> nullptr]
  /\ SMR!Init

Goto(t, l) == pc' = [pc EXCEPT ![t] = l]

\* Return to the caller; the locals and the operation descriptor die.
Return(t) ==
  /\ Goto(t, "idle")
  /\ op'  = [op EXCEPT ![t] = "none"]
  /\ val' = [val EXCEPT ![t] = nullptr]
  /\ cur' = [cur EXCEPT ![t] = nullptr]
  /\ nxt' = [nxt EXCEPT ![t] = nullptr]
  /\ nStatus' = [nStatus EXCEPT ![t] = "free"]
  /\ my'  = [my EXCEPT ![t] = nullptr]

-----------------------------------------------------------------------------
(* push *)

\* alloc_node, and the load before the loop.
PushStart(t, o) ==
  /\ pc[t] = "idle"
  /\ SMR!Publish(o)
  /\ next' = [next EXCEPT ![o] = nullptr]
  /\ op'   = [op EXCEPT ![t] = "push"]
  /\ val'  = [val EXCEPT ![t] = o]
  /\ cur'  = [cur EXCEPT ![t] = m_Top]
  /\ Goto(t, "push")
  /\ UNCHANGED <<m_Top, m_ItemCounter, pRec, nStatus, my, nxt>>

PushCas(t) ==
  /\ pc[t] = "push"
  /\ m_Top = cur[t]
  /\ next'  = [next EXCEPT ![val[t]] = cur[t]]
  /\ m_Top' = val[t]
  /\ Goto(t, "pushed")
  /\ UNCHANGED <<m_ItemCounter, pRec, locals, gcVars>>

PushCasFail(t) ==
  /\ pc[t] = "push"
  /\ next' = [next EXCEPT ![val[t]] = cur[t]]
  /\ cur'  = [cur EXCEPT ![t] = m_Top]
  /\ Goto(t, "backoff")
  /\ UNCHANGED <<m_Top, m_ItemCounter, pRec, nStatus, my, op, val, nxt, gcVars>>

\* Mutant of PushCount: the counter is not incremented.
PushCountNot(t) ==
  /\ pc[t] = "pushed"
  /\ Return(t)
  /\ UNCHANGED <<stackVars, m_ItemCounter, pRec, gcVars>>

PushCount(t) ==
  /\ pc[t] = "pushed"
  /\ m_ItemCounter' = (m_ItemCounter + 1) % CounterModulus
  /\ Return(t)
  /\ UNCHANGED <<stackVars, pRec, gcVars>>

\* A push that was eliminated returns without touching the counter.
PushEliminated(t) ==
  /\ pc[t] = "eliminated"
  /\ Return(t)
  /\ UNCHANGED <<stackVars, m_ItemCounter, pRec, gcVars>>

-----------------------------------------------------------------------------
(* pop *)

PopStart(t) ==
  /\ pc[t] = "idle"
  /\ op'  = [op EXCEPT ![t] = "pop"]
  /\ val' = [val EXCEPT ![t] = nullptr]
  /\ Goto(t, "protect")
  /\ UNCHANGED <<stackVars, m_ItemCounter, pRec, nStatus, my, cur, nxt, gcVars>>

\* Guard::protect stores a pointer that it has not confirmed yet over the one
\* the guard protected in the last round of the loop.
PopAssign(t) ==
  /\ pc[t] = "protect"
  /\ protects[t] # nullptr
  /\ SMR!Release({t})
  /\ UNCHANGED <<stackVars, m_ItemCounter, pRec, pc, locals>>

\* Mutant of PopProtect: the top is read without being guarded.
PopProtectNot(t) ==
  /\ pc[t] = "protect"
  /\ m_Top # nullptr
  /\ cur' = [cur EXCEPT ![t] = m_Top]
  /\ Goto(t, "next")
  /\ UNCHANGED <<stackVars, m_ItemCounter, pRec, nStatus, my, op, val, nxt, gcVars>>

PopProtect(t) ==
  /\ pc[t] = "protect"
  /\ m_Top # nullptr
  /\ SMR!Protect(t, m_Top)
  /\ cur' = [cur EXCEPT ![t] = m_Top]
  /\ Goto(t, "next")
  /\ UNCHANGED <<stackVars, m_ItemCounter, pRec, nStatus, my, op, val, nxt>>

\* Mutant of PopEmpty: the stack is taken to be empty although it is not.
PopEmptyStale(t) ==
  /\ pc[t] = "protect"
  /\ Goto(t, "return")
  /\ UNCHANGED <<stackVars, m_ItemCounter, pRec, locals, gcVars>>

PopEmpty(t) ==
  /\ pc[t] = "protect"
  /\ m_Top = nullptr
  /\ Goto(t, "return")
  /\ UNCHANGED <<stackVars, m_ItemCounter, pRec, locals, gcVars>>

PopNext(t) ==
  /\ pc[t] = "next"
  /\ nxt' = [nxt EXCEPT ![t] = next[cur[t]]]
  /\ Goto(t, "cas")
  /\ UNCHANGED <<stackVars, m_ItemCounter, pRec, nStatus, my, op, val, cur, gcVars>>

PopCas(t) ==
  /\ pc[t] = "cas"
  /\ m_Top = cur[t]
  /\ m_Top' = nxt[t]
  /\ val' = [val EXCEPT ![t] = cur[t]]
  /\ Goto(t, "unlink")
  /\ UNCHANGED <<next, m_ItemCounter, pRec, nStatus, my, op, cur, nxt, gcVars>>

PopCasFail(t) ==
  /\ pc[t] = "cas"
  /\ Goto(t, "backoff")
  /\ UNCHANGED <<stackVars, m_ItemCounter, pRec, locals, gcVars>>

\* clear_links
PopUnlink(t) ==
  /\ pc[t] = "unlink"
  /\ next' = [next EXCEPT ![cur[t]] = nullptr]
  /\ Goto(t, "popped")
  /\ UNCHANGED <<m_Top, m_ItemCounter, pRec, locals, gcVars>>

PopCount(t) ==
  /\ pc[t] = "popped"
  /\ m_ItemCounter' = (m_ItemCounter + CounterModulus - 1) % CounterModulus
  /\ Goto(t, "return")
  /\ UNCHANGED <<stackVars, pRec, locals, gcVars>>

\* The guard is destroyed when intrusive pop returns.
PopReturn(t) ==
  /\ pc[t] = "return"
  /\ SMR!Release({t})
  /\ IF val[t] = nullptr THEN Return(t) ELSE Goto(t, "retire") /\ UNCHANGED locals
  /\ UNCHANGED <<stackVars, m_ItemCounter, pRec>>

\* retire_node of pop_with.
PopRetire(t) ==
  /\ pc[t] = "retire"
  /\ SMR!Replace(val[t], nullptr)
  /\ Return(t)
  /\ UNCHANGED <<stackVars, m_ItemCounter, pRec>>

-----------------------------------------------------------------------------
(* elimination_backoff::backoff *)

Again(t) == Goto(t, IF op[t] = "push" THEN "push" ELSE "protect")

Eliminated(t) == IF op[t] = "push" THEN "eliminated" ELSE "return"

\* elimination_backoff<false>
BackoffOnly(t) ==
  /\ pc[t] = "backoff"
  /\ ~ enable_elimination
  /\ Again(t)
  /\ UNCHANGED <<stackVars, m_ItemCounter, pRec, locals, gcVars>>

Collidable(t, k) == pRec[k] # nullptr /\ op[pRec[k]] # op[t]

\* The slot holds an operation of the other kind: exchange the value with it.
Collide(t, k) ==
  /\ pc[t] = "backoff"
  /\ Collidable(t, k)
  /\ LET u == pRec[k] IN
       /\ val' = IF op[t] = "push" THEN [val EXCEPT ![u] = val[t]] ELSE [val EXCEPT ![t] = val[u]]
       /\ nStatus' = [nStatus EXCEPT ![t] = "waiting", ![u] = "collided"]
  /\ pRec' = [pRec EXCEPT ![k] = nullptr]
  /\ Goto(t, Eliminated(t))
  /\ UNCHANGED <<stackVars, m_ItemCounter, my, op, cur, nxt, gcVars>>

\* Otherwise leave our record there, over one of our own kind if there is one.
Wait(t, k) ==
  /\ pc[t] = "backoff"
  /\ ~ Collidable(t, k)
  /\ pRec'    = [pRec EXCEPT ![k] = t]
  /\ nStatus' = [nStatus EXCEPT ![t] = "waiting"]
  /\ my'      = [my EXCEPT ![t] = k]
  /\ Goto(t, "wait")
  /\ UNCHANGED <<stackVars, m_ItemCounter, op, val, cur, nxt, gcVars>>

\* Mutant of Withdraw: the record is left in the slot.
WithdrawNot(t) == UNCHANGED pRec

\* After the delay, or when nStatus has changed, the record is taken back.
Withdraw(t) ==
  pRec' = [pRec EXCEPT ![my[t]] = IF @ = t THEN nullptr ELSE @]

WaitCollided(t) ==
  /\ pc[t] = "wait"
  /\ Withdraw(t)
  /\ nStatus[t] = "collided"
  /\ Goto(t, Eliminated(t))
  /\ UNCHANGED <<stackVars, m_ItemCounter, nStatus, my, op, val, cur, nxt, gcVars>>

WaitFailed(t) ==
  /\ pc[t] = "wait"
  /\ Withdraw(t)
  /\ nStatus[t] # "collided"
  /\ Again(t)
  /\ UNCHANGED <<stackVars, m_ItemCounter, nStatus, my, op, val, cur, nxt, gcVars>>

-----------------------------------------------------------------------------
(* clear *)

ClearStart(t) ==
  /\ pc[t] = "idle"
  /\ clears
  /\ op' = [op EXCEPT ![t] = "clear"]
  /\ Goto(t, "load")
  /\ UNCHANGED <<stackVars, m_ItemCounter, pRec, nStatus, my, val, cur, nxt, gcVars>>

ClearLoad(t) ==
  /\ pc[t] = "load"
  /\ cur' = [cur EXCEPT ![t] = m_Top]
  /\ Goto(t, IF m_Top = nullptr THEN "drain" ELSE "clear")
  /\ UNCHANGED <<stackVars, m_ItemCounter, pRec, nStatus, my, op, val, nxt, gcVars>>

ClearCas(t) ==
  /\ pc[t] = "clear"
  /\ m_Top = cur[t]
  /\ m_Top' = nullptr
  /\ Goto(t, "reset")
  /\ UNCHANGED <<next, m_ItemCounter, pRec, locals, gcVars>>

ClearCasFail(t) ==
  /\ pc[t] = "clear"
  /\ Goto(t, "load")
  /\ UNCHANGED <<stackVars, m_ItemCounter, pRec, locals, gcVars>>

ClearReset(t) ==
  /\ pc[t] = "reset"
  /\ m_ItemCounter' = 0
  /\ Goto(t, "drain")
  /\ UNCHANGED <<stackVars, pRec, locals, gcVars>>

\* Only this thread writes m_pNext of a node that clear has cut off, and a node
\* no longer reachable gets no new guard: its links are cleared and it is
\* retired in one step.
ClearNode(t) ==
  /\ pc[t] = "drain"
  /\ cur[t] # nullptr
  /\ cur'  = [cur EXCEPT ![t] = next[cur[t]]]
  /\ next' = [next EXCEPT ![cur[t]] = nullptr]
  /\ SMR!Replace(cur[t], nullptr)
  /\ UNCHANGED <<m_Top, m_ItemCounter, pRec, nStatus, my, pc, op, val, nxt>>

ClearDone(t) ==
  /\ pc[t] = "drain"
  /\ cur[t] = nullptr
  /\ Return(t)
  /\ UNCHANGED <<stackVars, m_ItemCounter, pRec, gcVars>>

-----------------------------------------------------------------------------
\* The garbage collector frees a retired node that no guard protects.
Reclaim(o) ==
  /\ SMR!Reclaim({o})
  /\ UNCHANGED <<stackVars, m_ItemCounter, pRec, pc, locals>>

PushStep(t) == \/ \E o \in Obj : PushStart(t, o)
               \/ PushCas(t) \/ PushCasFail(t) \/ PushCount(t) \/ PushEliminated(t)

PopStep(t) == \/ PopStart(t) \/ PopAssign(t) \/ PopProtect(t) \/ PopEmpty(t) \/ PopNext(t) \/ PopCas(t)
              \/ PopCasFail(t) \/ PopUnlink(t) \/ PopCount(t) \/ PopReturn(t) \/ PopRetire(t)

BackoffStep(t) == \/ BackoffOnly(t) \/ WaitCollided(t) \/ WaitFailed(t)
                  \/ enable_elimination /\ \E k \in Slots : Collide(t, k) \/ Wait(t, k)

ClearStep(t) == \/ ClearStart(t) \/ ClearLoad(t) \/ ClearCas(t) \/ ClearCasFail(t)
                \/ ClearReset(t) \/ ClearNode(t) \/ ClearDone(t)

Next ==
  /\ \/ \E t \in users : PushStep(t) \/ PopStep(t) \/ BackoffStep(t) \/ ClearStep(t)
     \/ \E o \in Obj : Reclaim(o)
  /\ UNCHANGED config

Spec == Init /\ [][Next]_vars

-----------------------------------------------------------------------------
(* Properties *)

\* The nodes reachable from p by at most n links.
Chain[n \in 0 .. Cardinality(Obj)] ==
  [p \in Ptr |-> IF p = nullptr \/ n = 0 THEN <<>> ELSE <<p>> \o Chain[n - 1][next[p]]]

List(p) == Chain[Cardinality(Obj)][p]

Items == List(m_Top)

\* A node read or written by push, pop or clear has not been freed: the top of
\* the stack is never retired, and a pop that was overtaken between its load of
\* the top and its compare_exchange still has it under its guard.
NoUseAfterFree ==
  /\ \A i \in DOMAIN Items : status[Items[i]] = "linked"
  /\ \A t \in Thread :
       /\ pc[t] \in {"next", "unlink"} => status[cur[t]] # "free"
       /\ pc[t] \in {"push", "retire"} => status[val[t]] = "linked"

\* The threads that hold node o outside the stack: a push that has not linked it,
\* a pop that returns it, a clear that has cut it off.
Holders(o) ==
  {t \in Thread :
     \/ op[t] = "push" /\ pc[t] \in {"push", "backoff"} /\ val[t] = o
     \/ op[t] = "push" /\ pc[t] = "wait" /\ nStatus[t] # "collided" /\ val[t] = o
     \/ op[t] = "pop" /\ pc[t] \in {"unlink", "popped", "return", "retire"} /\ val[t] = o
     \/ op[t] = "pop" /\ pc[t] = "wait" /\ nStatus[t] = "collided" /\ val[t] = o
     \/ pc[t] \in {"reset", "drain"} /\ \E i \in DOMAIN List(cur[t]) : List(cur[t])[i] = o}

\* Every node in use is either in the stack, once, or held by exactly one thread:
\* no node is lost, duplicated or handed to two threads, eliminated or not.
NodeConservation ==
  \A o \in Obj :
    Cardinality({i \in DOMAIN Items : Items[i] = o}) + Cardinality(Holders(o))
      = IF status[o] = "linked" THEN 1 ELSE 0

\* size(): when no operation is in progress the item counter is the number of
\* items, although pushes and pops count after they have taken effect and
\* eliminated ones do not count at all.  (clear() resets the counter beside
\* operations that have not counted yet.)
CounterExact ==
  ~ clears /\ (\A t \in Thread : pc[t] = "idle") => m_ItemCounter = Len(Items)

\* The operation of a thread as AtomicStack sees it.
Collided(t) == pc[t] = "wait" /\ nStatus[t] = "collided"

call ==
  [t \in Thread |->
     IF pc[t] = "idle" THEN [op |-> "none", done |-> FALSE, val |-> nullptr]
     ELSE LET done == pc[t] \in {"pushed", "eliminated", "unlink", "popped", "return", "retire", "reset", "drain"}
                      \/ Collided(t)
          IN  [op |-> op[t], done |-> done,
               val |-> IF op[t] = "push" \/ (op[t] = "pop" /\ done) THEN val[t] ELSE nullptr]]

AS == INSTANCE AtomicStack WITH items <- Items

\* push, pop and clear are linearizable: push and pop take effect at their
\* compare_exchange, an empty pop at the load it confirms, a colliding pair in
\* the critical section of the slot, clear when it cuts the list off.
ImplementsStack == AS!Spec
=============================================================================
