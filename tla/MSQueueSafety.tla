------------------------------ MODULE MSQueueSafety ------------------------------
(*****************************************************************************)
(* The theorems about MSQueue and MoirQueue: their nodes are safe and none   *)
(* is lost or disposed of twice, the tail stays near the end, enqueue and    *)
(* dequeue are linearizable, and the item counter is right when nobody is    *)
(* inside.  What each step does is in MSQueueSteps.                          *)
(*****************************************************************************)
EXTENDS MSQueueSteps, FiniteSetTheorems, WellFoundedInduction

\* The provers to try, in this order.
USE Zenon, SMT

-----------------------------------------------------------------------------
(* Induction along a list *)

\* A set of natural numbers has a least element.
LEMMA LeastNat ==
  ASSUME NEW S \in SUBSET Nat, S # {}
  PROVE  \E n \in S : \A m \in S : n <= m
<1>1. \E n \in S : \A m \in S : <<m, n>> \notin OpToRel(<, Nat)
  BY NatLessThanWellFounded, WFMin
<1>2. PICK n \in S : \A m \in S : <<m, n>> \notin OpToRel(<, Nat)
  BY <1>1
<1>3. ASSUME NEW m \in S PROVE ~(m < n)
  BY <1>2 DEF OpToRel
<1>. QED
  BY SMTT(40), <1>3

\* A set that has 0, and m + 1 with every m, has all the numbers up to n.
LEMMA SetInduction ==
  ASSUME NEW n \in Nat, NEW S, 0 \in S, \A m \in Nat : m < n /\ m \in S => m + 1 \in S
  PROVE  n \in S
<1> SUFFICES ASSUME n \notin S PROVE FALSE
  OBVIOUS
<1>1. PICK m \in Nat \ S : \A k \in Nat \ S : m <= k
  <2>1. Nat \ S \in SUBSET Nat /\ Nat \ S # {}
    OBVIOUS
  <2>. QED
    BY <2>1, LeastNat
<1>2. m # 0 /\ m <= n
  BY <1>1
<1>3. m - 1 \in Nat /\ m - 1 \in S /\ m - 1 < n /\ (m - 1) + 1 = m
  BY SMTT(40), <1>1, <1>2
<1>. QED
  BY <1>1, <1>3

\* A list is no longer than there are nodes.
LEMMA ListShort ==
  ASSUME NEW nx, NEW p, NEW s, IsList(nx, p, s)
  PROVE  Len(s) \in 0 .. Cardinality(Obj) /\ Cardinality(Obj) \in Nat
<1>1. s \in Seq(Obj) /\ Len(s) \in Nat
  BY SMTT(40) DEF IsList
<1>2. s \in Injection(1 .. Len(s), Obj)
  BY SMTT(40), <1>1 DEF IsList, Injection, IsInjective
<1>3. Cardinality(1 .. Len(s)) <= Cardinality(Obj)
  BY <1>2, FS_Injection, ConstantsAssumption
<1>4. Cardinality(1 .. Len(s)) = Len(s)
  <2>1. 1 \in Int /\ Len(s) \in Int
    BY SMTT(40), <1>1
  <2>2. Cardinality(1 .. Len(s)) = IF 1 > Len(s) THEN 0 ELSE Len(s) - 1 + 1
    BY <2>1, FS_Interval
  <2>. QED
    BY SMTT(40), <1>1, <2>2
<1>5. Cardinality(Obj) \in Nat
  BY FS_CardinalityType, ConstantsAssumption
<1>. QED
  BY SMTT(40), <1>1, <1>3, <1>4, <1>5

\* The recursive definition of Chain has a solution.
LEMMA ChainDef ==
  Chain = [n \in 0 .. Cardinality(Obj) |->
             [p \in Ptr |-> IF p = nullptr \/ n = 0 THEN <<>> ELSE <<p>> \o Chain[n - 1][next[p]]]]
<1> DEFINE N       == Cardinality(Obj)
           B(f, n) == [p \in Ptr |-> IF p = nullptr \/ n = 0 THEN <<>> ELSE <<p>> \o f[n - 1][next[p]]]
           S       == {m \in Nat : \E f : f = [n \in 0 .. m |-> B(f, n)]}
<1>1. 0 \in S
  <2> DEFINE f == [n \in 0 .. 0 |-> [p \in Ptr |-> <<>>]]
  <2>1. \A n \in 0 .. 0 : f[n] = B(f, n)
    BY SMT
  <2>2. f = [n \in 0 .. 0 |-> B(f, n)]
    <3> HIDE DEF B
    <3>. QED
      BY <2>1
  <2>. QED
    BY <2>2
<1>2. ASSUME NEW m \in Nat, m \in S PROVE m + 1 \in S
  <2>1. PICK f : f = [n \in 0 .. m |-> B(f, n)]
    BY <1>2
  <2> DEFINE g == [n \in 0 .. m + 1 |-> IF n = m + 1 THEN B(f, n) ELSE f[n]]
  <2>2. ASSUME NEW n \in 0 .. m + 1 PROVE g[n] = B(g, n)
    <3>1. n # 0 => g[n - 1] = f[n - 1]
      BY SMTT(40)
    <3>2. B(g, n) = B(f, n)
      <4> HIDE DEF g
      <4>. QED
        BY <3>1
    <3> HIDE DEF B
    <3>3. n # m + 1 => f[n] = B(f, n)
      BY SMTT(40), <2>1
    <3>. QED
      BY <3>2, <3>3
  <2>3. g = [n \in 0 .. m + 1 |-> B(g, n)]
    <3> HIDE DEF B
    <3>. QED
      BY <2>2
  <2> HIDE DEF g, B
  <2>. QED
    BY SMTT(40), <2>3
<1>3. N \in S
  <2>1. N \in Nat
    BY FS_CardinalityType, ConstantsAssumption
  <2> HIDE DEF S, N
  <2>. QED
    BY <1>1, <1>2, <2>1, SetInduction
<1>. QED
  BY <1>3 DEF Chain

\* Chain walks along a list, and sees all of it.
LEMMA ListIs ==
  \A p, s : IsList(next, p, s) => List(p) = s
<1> DEFINE N == Cardinality(Obj)
           S == {n \in 0 .. N : \A p, s : IsList(next, p, s) /\ Len(s) <= n => Chain[n][p] = s}
<1>0. N \in Nat
  BY FS_CardinalityType, ConstantsAssumption
<1>a. ASSUME NEW p, NEW s, IsList(next, p, s) PROVE p \in Ptr
  BY <1>a, ListTail DEF Ptr
<1>1. 0 \in S
  <2> SUFFICES ASSUME NEW p, NEW s, IsList(next, p, s), Len(s) <= 0 PROVE Chain[0][p] = s
    BY SMTT(40), <1>0
  <2>1. p = nullptr /\ s = <<>>
    <3>1. Len(s) \in Nat
      BY SMTT(40), ListShort
    <3>2. s = <<>>
      BY SMTT(40), <3>1 DEF IsList
    <3>. QED
      BY <3>2 DEF IsList
  <2>2. Chain[0] = [q \in Ptr |-> <<>>]
    BY SMTT(40), <1>0, ChainDef
  <2>. QED
    BY <2>1, <2>2 DEF Ptr
<1>2. ASSUME NEW n \in Nat, n < N, n \in S PROVE n + 1 \in S
  <2> SUFFICES ASSUME NEW p, NEW s, IsList(next, p, s), Len(s) <= n + 1 PROVE Chain[n + 1][p] = s
    BY SMTT(40), <1>0, <1>2
  <2> DEFINE q == next[p]
  <2>1. n + 1 \in 0 .. N /\ n + 1 # 0 /\ (n + 1) - 1 = n
    BY SMTT(40), <1>0, <1>2
  <2>2. Chain[n + 1] = [r \in Ptr |-> IF r = nullptr \/ n + 1 = 0 THEN <<>> ELSE <<r>> \o Chain[(n + 1) - 1][next[r]]]
    BY <2>1, ChainDef
  <2>3. Chain[n + 1][p] = IF p = nullptr THEN <<>> ELSE <<p>> \o Chain[n][q]
    BY <1>a, <2>1, <2>2
  <2>4. CASE p = nullptr
    <3>1. IsList(next, nullptr, s)
      BY <2>4
    <3>2. s = <<>>
      BY <3>1, ListEmpty
    <3>3. Chain[n + 1][p] = <<>>
      BY <2>3, <2>4
    <3>. QED
      BY <3>2, <3>3
  <2>5. CASE p # nullptr
    <3>1. IsList(next, q, Tail(s)) /\ s = <<p>> \o Tail(s) /\ Len(s) = Len(Tail(s)) + 1
      BY <2>5, ListTail
    <3>2. Len(Tail(s)) <= n
      <4>1. Len(Tail(s)) \in Nat
        BY SMTT(40), <3>1, ListShort
      <4>. QED
        BY SMTT(40), <3>1, <4>1
    <3>3. Chain[n][q] = Tail(s)
      BY <1>2, <3>1, <3>2
    <3>. QED
      BY <2>3, <2>5, <3>1, <3>3
  <2>. QED
    BY <2>4, <2>5
<1>3. N \in S
  <2> HIDE DEF N, S
  <2>. QED
    BY ZenonT(60), <1>0, <1>1, <1>2, SetInduction
<1> SUFFICES ASSUME NEW p, NEW s, IsList(next, p, s) PROVE Chain[N][p] = s
  BY DEF List
<1>4. Len(s) <= N
  BY SMTT(40), <1>0, ListShort
<1>. QED
  BY <1>3, <1>4

\* The assumption of the lemmas above.
LEMMA WalksNow == Walks
  BY ListIs DEF Walks

-----------------------------------------------------------------------------
(* The theorems *)

\* The invariant holds at the start, and every step keeps it.
LEMMA InvAlways == Spec => []Inv
<1>1. Init => Inv
  BY WalksNow, InvInit
<1>2. Inv /\ [Next]_vars => Inv'
  <2>1. Walks'
    BY WalksNow, PTL
  <2>. QED
    BY <2>1, InvNext
<1>. QED
  BY <1>1, <1>2, PTL DEF Spec

\* enqueue and dequeue use no node that has been freed: a node in the queue or in the hands of
\* a thread is linked, the one an operation works on is under its first guard, and the one
\* whose value dequeue_with moves out is under its second.
THEOREM NodesSafe == Spec => []NoUseAfterFree
  BY InvSafe, InvAlways, PTL

\* The tail is the last node or the one before it, in MoirQueue perhaps one that has just been
\* removed, and has caught up when nobody is inside, as the destructor asserts.
THEOREM TailNear == Spec => []TailLag
  BY InvTail, InvAlways, PTL

\* A node in use is in the queue once, or in the hands of exactly one thread; the others are
\* nowhere.  No node leaks, not even past the destructor, and none is disposed of twice.
THEOREM NodesConserved == Spec => []NodeConservation
<1>1. Inv => NodeConservation
  <2> SUFFICES ASSUME Inv, NEW o \in Obj \ {m_Dummy}
               PROVE  Cardinality({i \in DOMAIN Nodes : Nodes[i] = o}) + Cardinality(Holders(o))
                        = IF status[o] = "linked" THEN 1 ELSE 0
    BY DEF NodeConservation
  <2> DEFINE I == {i \in DOMAIN Nodes : Nodes[i] = o}
             H == {t \in Thread : Has(t, o)}
  <2>1. Holders(o) = H
    BY HoldersHave
  <2>2. /\ status[o] = "linked" <=> o \in In \/ \E t \in Thread : Has(t, o)
        /\ \A t \in Thread : Has(t, o) => o \notin In
        /\ \A t, u \in Thread : Has(t, o) /\ Has(u, o) => t = u
    BY DEF Inv, Placed
  <2>3. DOMAIN Nodes = 1 .. Len(Nodes) /\ \A i, j \in 1 .. Len(Nodes) : Nodes[i] = Nodes[j] => i = j
    BY SMTT(40) DEF Inv, Listed, IsList
  <2>4. o \in In => Cardinality(I) = 1 /\ Cardinality(H) = 0
    <3> SUFFICES ASSUME o \in In PROVE Cardinality(I) = 1 /\ Cardinality(H) = 0
      OBVIOUS
    <3>1. PICK i \in DOMAIN Nodes : Nodes[i] = o
      BY <2>3 DEF In, Elems
    <3>2. I = {i} /\ H = {}
      BY <2>2, <2>3, <3>1
    <3>. QED
      BY <3>2, FS_Singleton, FS_EmptySet
  <2>5. ASSUME NEW t \in Thread, Has(t, o) PROVE Cardinality(I) = 0 /\ Cardinality(H) = 1
    <3>1. I = {} /\ H = {t}
      BY <2>2, <2>3, <2>5 DEF In, Elems
    <3>. QED
      BY <3>1, FS_Singleton, FS_EmptySet
  <2>6. o \notin In /\ (\A t \in Thread : ~Has(t, o)) => Cardinality(I) = 0 /\ Cardinality(H) = 0
    <3> SUFFICES ASSUME o \notin In, \A t \in Thread : ~Has(t, o) PROVE Cardinality(I) = 0 /\ Cardinality(H) = 0
      OBVIOUS
    <3>1. I = {} /\ H = {}
      BY <2>3 DEF In, Elems
    <3>. QED
      BY <3>1, FS_EmptySet
  <2> HIDE DEF I, H
  <2>7. Cardinality(I) + Cardinality(H) = IF status[o] = "linked" THEN 1 ELSE 0
    BY <2>2, <2>4, <2>5, <2>6, Sums
  <2>. QED
    BY <2>1, <2>7 DEF I
<1>. QED
  BY <1>1, InvAlways, PTL

\* Every enqueue and dequeue takes effect at one instant between its call and its return, for
\* any number of threads and nodes, in MSQueue and in MoirQueue: enqueue when it links its node,
\* dequeue when it moves the head; and a dequeue that returns false has seen the queue empty.
THEOREM QueueLinearizable == Spec => ImplementsQueue
<1>1. Init => AQ!Init
  BY WalksNow, RefineInit
<1>2. Inv /\ Inv' /\ [Next]_vars => [AQ!Next]_<<Items, call>>
  <2>1. Walks'
    BY WalksNow, PTL
  <2>. QED
    BY <2>1, RefineNext
<1>. QED
  BY <1>1, <1>2, InvAlways, PTL DEF Spec, ImplementsQueue, AQ!Spec

-----------------------------------------------------------------------------
(* The item counter *)

\* Until the destructor has run, the counter and what it has not seen account for the items.
Balance ==
  /\ m_ItemCounter \in 0 .. CounterModulus - 1
  /\ m_pHead # nullptr => Accounts(m_ItemCounter, Cardinality(Adding), Len(Items), Cardinality(Taking))

\* The sets of threads that have not counted are finite.
LEMMA Uncounting ==
  /\ IsFiniteSet(Adding) /\ Cardinality(Adding) \in Nat
  /\ IsFiniteSet(Taking) /\ Cardinality(Taking) \in Nat
<1>1. Adding \subseteq Thread /\ Taking \subseteq Thread
  BY DEF Adding, Taking
<1>2. IsFiniteSet(Adding) /\ IsFiniteSet(Taking)
  BY <1>1, FS_Subset, ConstantsAssumption
<1>. QED
  BY <1>2, FS_CardinalityType

\* The counter of the next state, from what it was and what happened.
LEMMA BalanceStep ==
  ASSUME Balance, m_pHead # nullptr, Counting, Len(Items) \in Nat, Len(Items') \in Nat
  PROVE  Balance'
<1> DEFINE A == Cardinality(Adding)  T == Cardinality(Taking)  L == Len(Items)
<1>0. A \in Nat /\ T \in Nat /\ L \in Nat /\ Accounts(m_ItemCounter, A, L, T)
  BY Uncounting DEF Balance
<1>b. SUFFICES Accounts(m_ItemCounter', A', L', T')
  BY DEF Balance, Accounts
<1>1. CASE Uncounted
  BY <1>0, <1>1 DEF Uncounted
<1>2. ASSUME NEW t \in Thread, Links(t) PROVE Accounts(m_ItemCounter', A', L', T')
  <2>1. A' = A + 1 /\ T' = T /\ L' = L + 1 /\ m_ItemCounter' = m_ItemCounter
    BY ZenonT(60), <1>2, Uncounting, FS_AddElement DEF Links
  <2>. HIDE DEF A, T, L
  <2>. QED
    BY <1>0, <2>1, AccountsMove
<1>3. ASSUME NEW t \in Thread, Unlinks(t) PROVE Accounts(m_ItemCounter', A', L', T')
  <2>1. T' = T + 1 /\ A' = A /\ L' = L - 1 /\ m_ItemCounter' = m_ItemCounter
    BY ZenonT(60), <1>3, Uncounting, FS_AddElement DEF Unlinks
  <2>. HIDE DEF A, T, L
  <2>. QED
    BY <1>0, <2>1, AccountsMove
<1>4. ASSUME NEW t \in Thread, CountsUp(t) PROVE Accounts(m_ItemCounter', A', L', T')
  <2>1. A' = A - 1 /\ T' = T /\ L' = L /\ m_ItemCounter' = (m_ItemCounter + 1) % CounterModulus
    BY ZenonT(60), <1>4, Uncounting, FS_RemoveElement DEF CountsUp
  <2>. HIDE DEF A, T, L
  <2>. QED
    BY <1>0, <2>1, AccountsCount
<1>5. ASSUME NEW t \in Thread, CountsDown(t) PROVE Accounts(m_ItemCounter', A', L', T')
  <2>1. T' = T - 1 /\ A' = A /\ L' = L /\ m_ItemCounter' = (m_ItemCounter + CounterModulus - 1) % CounterModulus
    BY ZenonT(60), <1>5, Uncounting, FS_RemoveElement DEF CountsDown
  <2>. HIDE DEF A, T, L
  <2>. QED
    BY <1>0, <2>1, AccountsCount
<1>. QED
  BY ZenonT(60), <1>1, <1>2, <1>3, <1>4, <1>5 DEF Counting

\* What happens when nobody is inside.
LEMMA BalanceEmpty ==
  ASSUME m_ItemCounter = 0, Quiescent, Items = <<>>
  PROVE  Balance
<1>1. Adding = {} /\ Taking = {}
  BY DEF Adding, Taking, Takes, Late, Quiescent
<1>2. Cardinality(Adding) = 0 /\ Cardinality(Taking) = 0
  BY <1>1, FS_EmptySet
<1>3. Len(Items) = 0
  BY SMTT(40)
<1>. QED
  BY <1>2, <1>3, AccountsNone DEF Balance, Accounts

\* The same of the next state.
LEMMA BalanceEmptyNext == m_ItemCounter' = 0 /\ Quiescent' /\ Items' = <<>> => Balance'
<1>1. m_ItemCounter = 0 /\ Quiescent /\ Items = <<>> => Balance
  BY BalanceEmpty
<1>2. (m_ItemCounter = 0 /\ Quiescent /\ Items = <<>> => Balance)'
  BY <1>1, PTL
<1>. QED
  BY <1>2

\* The queue is not longer than there are nodes.
LEMMA ItemsFew == Inv => Len(Items) \in Nat /\ (m_pHead # nullptr => Len(Items) \in 0 .. CounterModulus - 1)
<1> SUFFICES ASSUME Inv PROVE Len(Items) \in Nat /\ (m_pHead # nullptr => Len(Items) \in 0 .. CounterModulus - 1)
  OBVIOUS
<1>1. IsList(next, m_pHead, Nodes)
  BY DEF Inv, Listed
<1>2. Len(Nodes) \in 0 .. Cardinality(Obj) /\ Cardinality(Obj) \in Nat
  BY <1>1, ListShort
<1>3. Nodes \in Seq(Obj)
  BY <1>1 DEF IsList
<1>4. Len(Items) \in Nat
  BY SMTT(40), <1>3 DEF Items
<1>5. ASSUME m_pHead # nullptr PROVE Len(Items) \in 0 .. CounterModulus - 1
  <2>1. Nodes # <<>>
    BY <1>1, <1>5, ListTail
  <2>2. Items = Tail(Nodes)
    BY <2>1 DEF Items
  <2>3. Len(Items) = Len(Nodes) - 1
    BY SMTT(40), <1>3, <2>1, <2>2
  <2>. QED
    BY <1>2, <1>4, <2>3, ConstantsAssumption, ItemsOf
<1>. QED
  BY <1>4, <1>5

\* Every step keeps the balance.
LEMMA BalanceNext == Inv /\ Inv' /\ Balance /\ [Next]_vars => Balance'
<1> SUFFICES ASSUME Inv, Inv', Balance, [Next]_vars PROVE Balance'
  OBVIOUS
<1>0. Walks'
  BY WalksNow, PTL
<1>1. Len(Items) \in Nat /\ (Len(Items) \in Nat)'
  BY ItemsFew, PTL
<1>2. ASSUME UNCHANGED <<moir, pc, m_ItemCounter, m_pHead>>, Items' = Items PROVE Balance'
  <2>1. Adding' = Adding /\ Taking' = Taking
    BY <1>2 DEF Adding, Taking, Takes, Late
  <2>. QED
    BY <1>2, <2>1 DEF Balance
<1>3. CASE UNCHANGED vars
  <2>1. Items' = Items
    BY ZenonT(60), <1>0, <1>3, ItemsSame DEF vars, queueVars, Inv
  <2>. QED
    BY ZenonT(60), <1>2, <1>3, <2>1 DEF vars, queueVars
<1>4. ASSUME NEW o \in Obj, Reclaim(o), moir' = moir PROVE Balance'
  <2>1. Nodes' = Nodes /\ UNCHANGED <<pc, m_ItemCounter, m_pHead>>
    BY <1>0, <1>4, ReclaimFacts
  <2>. QED
    BY <1>2, <1>4, <2>1 DEF Items
<1>5. CASE Destroy
  BY <1>5, ConstantsAssumption DEF Destroy, Balance
<1>6. CASE Construct
  <2>1. Nodes' = <<m_Dummy>> /\ Quiescent /\ UNCHANGED pc
    BY <1>0, <1>6, ConstructFacts
  <2>2. Tail(<<m_Dummy>>) = <<>>
    BY SMTT(40)
  <2>3. Items' = <<>> /\ Quiescent' /\ m_ItemCounter' = 0
    BY <1>6, <2>1, <2>2 DEF Items, Quiescent, Construct
  <2>. QED
    BY <2>3, BalanceEmptyNext
<1>7. ASSUME NEW t \in Thread, EnqStep(t) \/ DeqStep(t), moir' = moir PROVE Balance'
  <2>1. Counting
    BY ZenonT(60), <1>0, <1>7, CountStep
  <2>2. m_pHead # nullptr
    BY <1>7, StepInside DEF Inv
  <2>. QED
    BY ZenonT(60), <1>1, <2>1, <2>2, BalanceStep
<1>. QED
  BY ZenonT(60), <1>3, <1>4, <1>5, <1>6, <1>7 DEF Next

\* size(): when no operation is in progress the item counter is the number of items, for any
\* number of threads, although enqueue and dequeue count after they have taken effect, and a
\* dequeue may count before the enqueue whose node it has taken.
THEOREM CounterRight == Spec => []CounterExact
<1>1. Init => Balance
  <2>1. Init => m_ItemCounter = 0 /\ Quiescent /\ Items = <<>>
    BY WalksNow, RefineInit DEF AQ!Init, Init, Quiescent
  <2>. QED
    BY <2>1, BalanceEmpty
<1>2. Inv /\ Balance => CounterExact
  <2> SUFFICES ASSUME Inv, Balance, Quiescent, m_pHead # nullptr PROVE m_ItemCounter = Len(Items)
    BY DEF CounterExact
  <2>1. Adding = {} /\ Taking = {}
    BY DEF Adding, Taking, Takes, Late, Quiescent
  <2>2. Cardinality(Adding) = 0 /\ Cardinality(Taking) = 0
    BY <2>1, FS_EmptySet
  <2>3. Accounts(m_ItemCounter, 0, Len(Items), 0)
    BY <2>2 DEF Balance
  <2>4. Len(Items) \in 0 .. CounterModulus - 1
    BY ItemsFew
  <2>. QED
    BY <2>3, <2>4, AccountsAll
<1>. QED
  BY <1>1, <1>2, BalanceNext, InvAlways, PTL DEF Spec
=============================================================================
