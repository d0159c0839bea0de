----------------------------- MODULE VyukovQueue -----------------------------
(***************************************************************************)
(* cds::container::VyukovMPMCCycleQueue                                    *)
(* (src/cds/container/vyukov_mpmc_cycle_queue.h), a bounded queue of cells *)
(* with sequence numbers; with one consumer it is VyukovMPSCCycleQueue,    *)
(* which has front() as well.                                              *)
(*                                                                         *)
(* Positions and sequence numbers are unsigned integers that wrap at       *)
(* PosModulus, and their difference is taken as a signed integer.  A       *)
(* thread may be overtaken by Window positions, at most, between its load  *)
(* of a position and the exchange: the code relies on nobody sleeping      *)
(* while the 64-bit counters go round.  compare_exchange_weak may fail     *)
(* spuriously.                                                             *)
(***************************************************************************)
EXTENDS Integers, Sequences, FiniteSets

CONSTANTS
  Thread,
  Val,
  nullptr,      \* no value
  Producers,    \* threads that enqueue
  ConsumerSets, \* threads that dequeue: the combinations considered
  Capacity,
  PosModulus, Window

ASSUME ConstantsAssumption ==
  /\ IsFiniteSet(Thread)
  /\ nullptr \notin Val
  /\ Producers \subseteq Thread
  /\ ConsumerSets \subseteq SUBSET Thread
  /\ Capacity \in Nat \ {0, 1}
  /\ Window \in Nat
  /\ PosModulus \in Nat /\ PosModulus % Capacity = 0
  /\ 2 * (Window + Capacity) < PosModulus

VARIABLES
  consumers,         \* threads that dequeue; a single one may use front()
  m_posEnqueue, m_posDequeue,
  sequence, data,    \* the cells: sequence number, and value or nullptr
  m_ItemCounter,
  pc, op,
  pos,               \* local
  val,               \* the value to enqueue, or the one that was dequeued
  front              \* the cell front() has returned the address of, or -1

m_nBufferMask == Capacity - 1
Index == 0 .. m_nBufferMask
Pos   == 0 .. PosModulus - 1

sharedVars == <<m_posEnqueue, m_posDequeue, sequence, data, m_ItemCounter>>
locals     == <<op, pos, val, front>>
vars == <<consumers, sharedVars, pc, locals>>

Init ==
  /\ consumers \in ConsumerSets
  /\ m_posEnqueue = 0
  /\ m_posDequeue = 0
  /\ sequence = [i \in Index |-> i]
  /\ data = [i \in Index |-> nullptr]
  /\ m_ItemCounter = 0
  /\ pc  = [t \in Thread |-> "idle"]
  /\ op  = [t \in Thread |-> "none"]
  /\ pos = [t \in Thread |-> 0]
  /\ val = [t \in Thread |-> nullptr]
  /\ front = [t \in Thread |-> -1]

Add(p, n) == (p + n) % PosModulus

\* static_cast<intptr_t>( a ) - static_cast<intptr_t>( b )
Dif(a, b) == ((a - b + PosModulus \div 2) % PosModulus) - PosModulus \div 2

\* pos & m_nBufferMask: the capacity is a power of two.
Cell(p) == p % Capacity

Goto(t, l) == pc' = [pc EXCEPT ![t] = l]

Return(t) ==
  /\ Goto(t, "idle")
  /\ op'  = [op EXCEPT ![t] = "none"]
  /\ pos' = [pos EXCEPT ![t] = 0]
  /\ val' = [val EXCEPT ![t] = nullptr]

\* The position an operation works at: enqueue at one end, the others at the other.
Position(t) == IF op[t] = "enq" THEN m_posEnqueue ELSE m_posDequeue

-----------------------------------------------------------------------------
EnqStart(t, v) ==
  /\ pc[t] = "idle"
  /\ t \in Producers
  /\ op'  = [op EXCEPT ![t] = "enq"]
  /\ val' = [val EXCEPT ![t] = v]
  /\ Goto(t, "load")
  /\ UNCHANGED <<sharedVars, pos, front>>

\* dequeue, and pop_front when there is one consumer.
DeqStart(t) ==
  /\ pc[t] = "idle"
  /\ t \in consumers
  /\ op' = [op EXCEPT ![t] = "deq"]
  /\ Goto(t, "load")
  /\ UNCHANGED <<sharedVars, pos, val, front>>

FrontStart(t) ==
  /\ pc[t] = "idle"
  /\ consumers = {t}
  /\ op' = [op EXCEPT ![t] = "front"]
  /\ Goto(t, "load")
  /\ UNCHANGED <<sharedVars, pos, val, front>>

Load(t) ==
  /\ pc[t] = "load"
  /\ pos' = [pos EXCEPT ![t] = Position(t)]
  /\ Goto(t, "sequence")
  /\ UNCHANGED <<sharedVars, op, val, front>>

\* The sequence number of a cell that is ready for the operation.
Expected(t) == IF op[t] = "enq" THEN pos[t] ELSE Add(pos[t], 1)

LoadSequence(t) ==
  /\ pc[t] = "sequence"
  /\ LET dif == Dif(sequence[Cell(pos[t])], Expected(t)) IN
       Goto(t, IF dif = 0 THEN (IF op[t] = "front" THEN "front" ELSE "exchange")
               ELSE IF dif < 0 THEN "bound" ELSE "load")
  /\ UNCHANGED <<sharedVars, locals>>

\* Nobody else is left behind by more than Window positions.
InWindow(t) ==
  \A u \in Thread \ {t} :
    (op[u] # "none" /\ (op[u] = "enq") = (op[t] = "enq") /\ pc[u] \in {"sequence", "bound", "exchange", "front"})
      => Dif(Add(Position(t), 1), pos[u]) <= Window

\* Mutant of Exchange: the position is stored without a comparison.
ExchangeStore(t) ==
  /\ pc[t] = "exchange"
  /\ InWindow(t)
  /\ IF op[t] = "enq" THEN m_posEnqueue' = Add(pos[t], 1) /\ UNCHANGED m_posDequeue
                      ELSE m_posDequeue' = Add(pos[t], 1) /\ UNCHANGED m_posEnqueue
  /\ Goto(t, "access")
  /\ front' = [front EXCEPT ![t] = -1]
  /\ UNCHANGED <<sequence, data, m_ItemCounter, op, pos, val>>

\* The cell is reserved.
Exchange(t) ==
  /\ pc[t] = "exchange"
  /\ Position(t) = pos[t]
  /\ InWindow(t)
  /\ IF op[t] = "enq" THEN m_posEnqueue' = Add(pos[t], 1) /\ UNCHANGED m_posDequeue
                      ELSE m_posDequeue' = Add(pos[t], 1) /\ UNCHANGED m_posEnqueue
  /\ Goto(t, "access")
  /\ front' = [front EXCEPT ![t] = -1]
  /\ UNCHANGED <<sequence, data, m_ItemCounter, op, pos, val>>

ExchangeFail(t) ==
  /\ pc[t] = "exchange"
  /\ pos' = [pos EXCEPT ![t] = Position(t)]
  /\ Goto(t, "sequence")
  /\ UNCHANGED <<sharedVars, op, val, front>>

\* Mutant of AtBound: a reserved cell counts as full or empty.
AtBoundAny(t) == TRUE

\* "Queue full?", "Queue empty?"
AtBound(t) ==
  IF op[t] = "enq" THEN Add(pos[t], PosModulus - m_posDequeue) = Capacity
                   ELSE pos[t] = m_posEnqueue

Bound(t) ==
  /\ pc[t] = "bound"
  /\ AtBound(t)
  /\ Return(t)
  /\ UNCHANGED <<sharedVars, front>>

BoundRetry(t) ==
  /\ pc[t] = "bound"
  /\ ~ AtBound(t)
  /\ Goto(t, "load")
  /\ UNCHANGED <<sharedVars, locals>>

\* enqueue: the functor constructs the value in the cell.
Write(t) ==
  /\ pc[t] = "access"
  /\ op[t] = "enq"
  /\ data' = [data EXCEPT ![Cell(pos[t])] = val[t]]
  /\ Goto(t, "publish")
  /\ UNCHANGED <<m_posEnqueue, m_posDequeue, sequence, m_ItemCounter, locals>>

\* dequeue: the functor moves the value out ...
Read(t) ==
  /\ pc[t] = "access"
  /\ op[t] = "deq"
  /\ val' = [val EXCEPT ![t] = data[Cell(pos[t])]]
  /\ Goto(t, "clean")
  /\ UNCHANGED <<sharedVars, op, pos, front>>

\* ... and value_cleaner destroys it.
Clean(t) ==
  /\ pc[t] = "clean"
  /\ data' = [data EXCEPT ![Cell(pos[t])] = nullptr]
  /\ Goto(t, "publish")
  /\ UNCHANGED <<m_posEnqueue, m_posDequeue, sequence, m_ItemCounter, locals>>

NextSequence(t) == Add(pos[t], IF op[t] = "enq" THEN 1 ELSE m_nBufferMask + 1)

Publish(t) ==
  /\ pc[t] = "publish"
  /\ sequence' = [sequence EXCEPT ![Cell(pos[t])] = NextSequence(t)]
  /\ Goto(t, "count")
  /\ UNCHANGED <<m_posEnqueue, m_posDequeue, data, m_ItemCounter, locals>>

\* Mutant of Count: a dequeue does not count.
CountUp(t) ==
  /\ pc[t] = "count"
  /\ m_ItemCounter' = Add(m_ItemCounter, IF op[t] = "enq" THEN 1 ELSE 0)
  /\ Return(t)
  /\ UNCHANGED <<m_posEnqueue, m_posDequeue, sequence, data, front>>

Count(t) ==
  /\ pc[t] = "count"
  /\ m_ItemCounter' = Add(m_ItemCounter, IF op[t] = "enq" THEN 1 ELSE PosModulus - 1)
  /\ Return(t)
  /\ UNCHANGED <<m_posEnqueue, m_posDequeue, sequence, data, front>>

\* Mutant of FrontReturn: the address of the cell behind the head.
FrontReturnNext(t) ==
  /\ pc[t] = "front"
  /\ front' = [front EXCEPT ![t] = Cell(pos[t] + 1)]
  /\ Return(t)
  /\ UNCHANGED sharedVars

\* front() returns the address of the value.
FrontReturn(t) ==
  /\ pc[t] = "front"
  /\ front' = [front EXCEPT ![t] = Cell(pos[t])]
  /\ Return(t)
  /\ UNCHANGED sharedVars

Step(t) ==
  \/ \E v \in Val : EnqStart(t, v)
  \/ DeqStart(t) \/ FrontStart(t) \/ Load(t) \/ LoadSequence(t) \/ Exchange(t) \/ ExchangeFail(t)
  \/ Bound(t) \/ BoundRetry(t) \/ Write(t) \/ Read(t) \/ Clean(t) \/ Publish(t) \/ Count(t) \/ FrontReturn(t)

Next == (\E t \in Thread : Step(t)) /\ UNCHANGED consumers

Spec == Init /\ [][Next]_vars

-----------------------------------------------------------------------------
(* Properties *)

\* Reserved cells.
Owns(t, i) == pc[t] \in {"access", "clean", "publish"} /\ Cell(pos[t]) = i

\* The value of a cell is accessed by one thread at a time (it is not atomic), is
\* constructed only where none is, and is moved out only where one is.
CellExclusive ==
  /\ \A i \in Index : Cardinality({t \in Thread : Owns(t, i)}) <= 1
  /\ \A t \in Thread :
       pc[t] = "access" => (data[Cell(pos[t])] = nullptr) = (op[t] = "enq")

\* The address front() returned leads to the head of the queue, constructed and
\* not about to be destroyed, until the consumer pops it, whatever producers do.
FrontStable ==
  \A t \in Thread :
    front[t] # -1 =>
      /\ front[t] = Cell(m_posDequeue)
      /\ data[front[t]] # nullptr
      /\ ~ \E u \in Thread : Owns(u, front[t])

\* The values at positions from m_posDequeue to m_posEnqueue, those that are
\* reserved and not yet written included.
ValueAt(p) ==
  LET W == {t \in Thread : pc[t] = "access" /\ op[t] = "enq" /\ pos[t] = p}
  IN  IF W = {} THEN data[Cell(p)] ELSE val[CHOOSE t \in W : TRUE]

Size  == Add(m_posEnqueue, PosModulus - m_posDequeue)
Items == [k \in 1 .. Size |-> ValueAt(Add(m_posDequeue, k - 1))]

\* size(): when no operation is in progress the item counter is the number of items.
CounterExact == (\A t \in Thread : pc[t] = "idle") => m_ItemCounter = Size

\* The operation of a thread as BoundedQueue sees it.
call ==
  [t \in Thread |->
     LET done == pc[t] \in {"access", "clean", "publish", "count", "front"}
     IN  [op |-> op[t], done |-> done, saw |-> FALSE,
          val |-> IF pc[t] = "front" \/ (op[t] = "deq" /\ pc[t] = "access") THEN data[Cell(pos[t])] ELSE val[t]]]

BQ == INSTANCE BoundedQueue WITH Obj <- Val, items <- Items

\* enqueue and dequeue are linearizable and first-in first-out: both take effect
\* when they reserve the cell, although values are copied later and in any
\* order; "full" and "empty" are true when they are found out.
ImplementsQueue == BQ!BoundedSpec
=============================================================================
