------------------------------ MODULE MSQueueSteps ------------------------------
(*****************************************************************************)
(* What one step of MSQueue or MoirQueue does, for any number of threads and *)
(* nodes: to the place of every node (in the queue, or in the hands of one   *)
(* thread), to the guards, to the tail, to the calls of AtomicQueue and to   *)
(* the item counter.  Inv, the inductive invariant, is at the end of the     *)
(* fourth section.  The theorems are in MSQueueSafety.                       *)
(*                                                                           *)
(* Walks, which says that Chain sees the whole of a list, is an assumption   *)
(* of the lemmas here; MSQueueSafety proves it by induction.                 *)
(*****************************************************************************)
EXTENDS MSQueue, TLAPS

\* The provers to try, in this order.
USE Zenon, SMT

-----------------------------------------------------------------------------
(* Numbers *)

\* The sums of the numbers of places of a node.
LEMMA Sums == 0 + 0 = 0 /\ 0 + 1 = 1 /\ 1 + 0 = 1
  BY SMT

\* A queue has one item less than it has nodes.
LEMMA ItemsOf ==
  \A n \in Nat : \A m \in 0 .. n : m - 1 \in Nat /\ n <= CounterModulus => m - 1 \in 0 .. CounterModulus - 1
  BY SMT, ConstantsAssumption


-----------------------------------------------------------------------------
(* The item counter: numbers modulo its size *)

\* a and b are the same unsigned number.
Cong(a, b) == \E q \in Int : a = b + q * CounterModulus

\* What % does to a number.
LEMMA ModIs ==
  ASSUME NEW a \in Int
  PROVE  a % CounterModulus \in 0 .. CounterModulus - 1 /\ Cong(a % CounterModulus, a)
<1>1. PICK M \in Int : M = CounterModulus /\ M > 0
  BY SMT, ConstantsAssumption
<1>2. a % M \in 0 .. M - 1 /\ -(a \div M) \in Int
  BY SMT, <1>1
<1>3. a % M = a + (-(a \div M)) * M
  BY SMT, <1>1
<1>. QED
  BY <1>1, <1>2, <1>3 DEF Cong

\* Of the numbers in that range a number is congruent to itself only.
LEMMA CongOne ==
  ASSUME NEW a \in 0 .. CounterModulus - 1, NEW b \in 0 .. CounterModulus - 1, Cong(a, b)
  PROVE  a = b
<1>1. PICK M \in Int : M = CounterModulus /\ M > 0
  BY SMT, ConstantsAssumption
<1>2. PICK q \in Int : a = b + q * M
  BY <1>1 DEF Cong
<1>3. a - b < M /\ b - a < M /\ a \in Int /\ b \in Int
  BY SMT, <1>1
<1>4. q >= 1 => q * M >= M
  BY SMT, <1>1
<1>5. q <= -1 => q * M <= -M
  BY SMT, <1>1
<1>6. PICK k \in Int : k = q * M
  BY SMT, <1>1
<1>7. q = 0
  BY SMT, <1>1, <1>2, <1>3, <1>4, <1>5, <1>6
<1>. QED
  BY SMT, <1>1, <1>2, <1>3, <1>7

\* Equal numbers added on both sides, on one side of two congruences, or a whole turn.
LEMMA CongSum ==
  ASSUME NEW a \in Int, NEW b \in Int, NEW c \in Int, NEW d \in Int, NEW x \in Int,
         Cong(a + x, b), Cong(c, a + d)
  PROVE  Cong(c + x, b + d) /\ Cong(c + x, b + d - CounterModulus)
<1>1. PICK M \in Int : M = CounterModulus
  BY SMT, ConstantsAssumption
<1>2. PICK q \in Int : a + x = b + q * M
  BY <1>1 DEF Cong
<1>3. PICK r \in Int : c = a + d + r * M
  BY <1>1 DEF Cong
<1>4. PICK k \in Int : k = q * M
  BY SMT, <1>1
<1>5. PICK l \in Int : l = r * M
  BY SMT, <1>1
<1>6. c + x = b + d + (k + l) /\ c + x = b + d - M + (k + l + M)
  BY SMT, <1>1, <1>2, <1>3, <1>4, <1>5
<1>7. k + l = (q + r) * M /\ q + r \in Int /\ k + l + M = (q + r + 1) * M /\ q + r + 1 \in Int
  BY SMT, <1>1, <1>4, <1>5
<1>. QED
  BY <1>1, <1>6, <1>7 DEF Cong

\* The counter c, the a items that are in and not counted and the t items that are out and
\* still counted account for l items.
Accounts(c, a, l, t) == c \in 0 .. CounterModulus - 1 /\ Cong(c + a, l + t)

\* An empty container, with nobody inside, is accounted for.
LEMMA AccountsNone == Accounts(0, 0, 0, 0)
<1>1. 0 + 0 = 0 + 0 + 0 * CounterModulus /\ 0 \in Int /\ 0 \in 0 .. CounterModulus - 1
  BY SMT, ConstantsAssumption
<1>. QED
  BY <1>1 DEF Accounts, Cong

\* When nobody is inside the counter is the number of items.
LEMMA AccountsAll ==
  ASSUME NEW c, NEW l \in 0 .. CounterModulus - 1, Accounts(c, 0, l, 0)
  PROVE  c = l
<1>1. c \in 0 .. CounterModulus - 1 /\ Cong(c + 0, l + 0)
  BY DEF Accounts
<1>2. c + 0 = c /\ l + 0 = l
  BY SMT, <1>1, ConstantsAssumption
<1>. QED
  BY <1>1, <1>2, CongOne

\* An item goes in, or out.
LEMMA AccountsMove ==
  ASSUME NEW c, NEW a \in Nat, NEW l \in Nat, NEW t \in Nat, Accounts(c, a, l, t)
  PROVE  Accounts(c, a + 1, l + 1, t) /\ Accounts(c, a, l - 1, t + 1)
<1>1. c \in 0 .. CounterModulus - 1 /\ Cong(c + a, l + t)
  BY DEF Accounts
<1>2. PICK M \in Int : M = CounterModulus
  BY SMT, ConstantsAssumption
<1>3. PICK q \in Int : c + a = l + t + q * M
  BY <1>1, <1>2 DEF Cong
<1>4. PICK k \in Int : k = q * M
  BY SMT, <1>2
<1>5. c + (a + 1) = l + 1 + t + k /\ l - 1 + (t + 1) = l + t
  BY SMT, <1>1, <1>2, <1>3, <1>4
<1>6. Cong(c + (a + 1), l + 1 + t) /\ Cong(c + a, l - 1 + (t + 1))
  BY <1>1, <1>2, <1>4, <1>5 DEF Cong
<1>. QED
  BY <1>1, <1>6 DEF Accounts

\* The counter is incremented, or decremented, with the wrap-around of unsigned numbers.
LEMMA AccountsCount ==
  ASSUME NEW c, NEW a \in Nat, NEW l \in Nat, NEW t \in Nat, Accounts(c, a, l, t)
  PROVE  /\ Accounts((c + 1) % CounterModulus, a - 1, l, t)
         /\ Accounts((c + CounterModulus - 1) % CounterModulus, a, l, t - 1)
<1>1. c \in 0 .. CounterModulus - 1 /\ Cong(c + a, l + t)
  BY DEF Accounts
<1>2. PICK M \in Int : M = CounterModulus
  BY SMT, ConstantsAssumption
<1>3. /\ c \in Int /\ c + 1 \in Int /\ c + (M - 1) \in Int /\ c + (M - 1) = c + M - 1
      /\ a \in Int /\ a - 1 \in Int /\ l + t \in Int /\ 1 \in Int /\ M - 1 \in Int
  BY SMT, <1>1, <1>2
<1>4. PICK d : d = (c + 1) % M
  OBVIOUS
<1>5. d \in 0 .. M - 1 /\ Cong(d, c + 1)
  BY <1>2, <1>3, <1>4, ModIs
<1>6. PICK e : e = (c + M - 1) % M
  OBVIOUS
<1>7. e \in 0 .. M - 1 /\ Cong(e, c + (M - 1))
  BY <1>2, <1>3, <1>6, ModIs
<1>8. d \in Int /\ e \in Int
  BY SMT, <1>2, <1>5, <1>7
<1>9. Cong(d + a, l + t + 1)
  BY <1>1, <1>3, <1>5, <1>8, CongSum
<1>10. Cong(e + a, l + t + (M - 1) - M)
  <2>1. PICK b \in Int : b = l + t
    BY <1>3
  <2>2. PICK m \in Int : m = M - 1
    BY <1>3
  <2>3. Cong(c + a, b) /\ Cong(e, c + m)
    BY <1>1, <1>7, <2>1, <2>2
  <2>4. Cong(e + a, b + m - CounterModulus)
    BY <1>3, <1>8, <2>3, CongSum
  <2>. QED
    BY <1>2, <2>1, <2>2, <2>4
<1>11. l + t + (M - 1) - M = l + (t - 1)
  BY SMT, <1>2
<1>12. Cong(d + (a - 1), l + t)
  <2>1. PICK q \in Int : d + a = l + t + 1 + q * M
    BY <1>2, <1>9 DEF Cong
  <2>2. PICK k \in Int : k = q * M
    BY SMT, <1>2
  <2>3. d + (a - 1) = l + t + k
    BY SMT, <1>8, <2>1, <2>2
  <2>. QED
    BY <1>2, <2>2, <2>3 DEF Cong
<1>. QED
  BY <1>2, <1>4, <1>5, <1>6, <1>7, <1>10, <1>11, <1>12 DEF Accounts

-----------------------------------------------------------------------------
(* What the threads are doing *)

\* The values of pc: in enqueue, and in dequeue.
EnqLabels == {"tail", "tailnext", "tailhelp", "link", "enqueued", "advance"}
DeqLabels == {"head", "headnext", "check", "swing", "lag", "lagging", "dequeued", "value", "dispose", "return"}

\* What the two guards of a thread protect.
G0(t) == protects[<<t, 0>>]
G1(t) == protects[<<t, 1>>]

\* The type of every variable the proofs speak of.
Typed ==
  /\ moir \in BOOLEAN
  /\ m_pHead \in Ptr /\ m_pTail \in Ptr /\ next \in [Obj -> Ptr]
  /\ pc \in [Thread -> {"idle"} \cup EnqLabels \cup DeqLabels]
  /\ op \in [Thread -> {"none", "enq", "deq"}]
  /\ new \in [Thread -> Ptr] /\ cur \in [Thread -> Ptr] /\ nxt \in [Thread -> Ptr]
  /\ saw \in [Thread -> BOOLEAN]
  /\ status \in [Obj -> {"free", "linked", "retired"}]
  /\ protects \in [Thread \X {0, 1} -> Ptr]

\* An enqueue that has not linked its node yet, and one that has and is not done.
Fresh(t)   == pc[t] \in {"tail", "tailnext", "tailhelp", "link"}
Pushing(t) == pc[t] \in {"enqueued", "advance"}

\* A MoirQueue dequeue that has not looked at the tail since it moved the head, and any
\* dequeue that has moved the head and has the old one to dispose of.
Late(t)    == moir /\ pc[t] \in {"lag", "lagging"}
Removed(t) == pc[t] \in {"dequeued", "value", "dispose"} \/ Late(t)

\* Thread t has node o to itself: it is one of the holders of NodeConservation.
Has(t, o) == (Fresh(t) /\ new[t] = o) \/ (Removed(t) /\ cur[t] = o)

\* A dequeue before it moves the head.
Seeks(t) == pc[t] \in {"check", "swing"} \/ (~moir /\ pc[t] \in {"lag", "lagging"})

\* The place in the program tells the operation, and what the locals hold.
Doing(t) ==
  /\ pc[t] = "idle" => /\ op[t] = "none" /\ new[t] = nullptr /\ cur[t] = nullptr /\ nxt[t] = nullptr
                       /\ saw[t] = FALSE /\ G0(t) = nullptr /\ G1(t) = nullptr
  /\ pc[t] # "idle" => m_pHead # nullptr
  /\ pc[t] \in EnqLabels => op[t] = "enq" /\ new[t] \in Obj /\ new[t] # m_Dummy
  /\ pc[t] \in DeqLabels => op[t] = "deq"
  /\ pc[t] = "check" => ~moir
  /\ pc[t] \notin {"idle", "tail", "head"} => cur[t] \in Obj /\ G0(t) = cur[t]
  /\ pc[t] \in {"tailhelp", "lag", "lagging", "dequeued", "value", "dispose", "return"} => nxt[t] \in Obj

\* A link that has been read, or made, is still there: the node is guarded, and the links
\* of a node change only from nullptr, until it is freed.  A new node leads nowhere.
Reads(t) ==
  /\ pc[t] \in {"tailhelp", "check", "swing", "lag", "lagging", "dequeued", "value"} /\ nxt[t] # nullptr
       => next[cur[t]] = nxt[t]
  /\ Pushing(t) => next[cur[t]] = new[t]
  /\ Fresh(t) => next[new[t]] = nullptr

-----------------------------------------------------------------------------
(* The nodes of the queue *)

\* The nodes of a list.
Elems(s) == {s[i] : i \in 1 .. Len(s)}

\* The nodes from p on are those of s: each leads to the next, and the last to nullptr.
IsList(nx, p, s) ==
  /\ s \in Seq(Obj)
  /\ p = IF s = <<>> THEN nullptr ELSE s[1]
  /\ \A i \in 1 .. Len(s) : nx[s[i]] = IF i = Len(s) THEN nullptr ELSE s[i + 1]
  /\ \A i, j \in 1 .. Len(s) : s[i] = s[j] => i = j

\* The queue is a list, from the dummy node at the head on.
Listed == IsList(next, m_pHead, Nodes)

\* The nodes in the queue.
In == Elems(Nodes)

\* A node in use is in the queue or has one thread that has it to itself, and no two of these.
\* m_Dummy is a member of the queue object, which is never retired.
Placed ==
  /\ \A o \in Obj : o # m_Dummy => (status[o] = "linked" <=> o \in In \/ \E t \in Thread : Has(t, o))
  /\ status[m_Dummy] = "linked"
  /\ \A t \in Thread, o \in Obj : Has(t, o) => o \notin In
  /\ \A t, u \in Thread, o \in Obj : Has(t, o) /\ Has(u, o) => t = u

\* The node under the first guard of t is not free, is not one that an enqueue is about to
\* link, and is in the queue if it leads nowhere.  The second guard may have been set on a node
\* that was freed and allocated again meanwhile.
Guarded(t) ==
  /\ G0(t) # nullptr =>
       /\ status[G0(t)] # "free"
       /\ \A u \in Thread : Fresh(u) => new[u] # G0(t)
       /\ next[G0(t)] = nullptr => G0(t) \in In
  /\ G1(t) # nullptr => status[G1(t)] # "free"

\* Where the node of an operation is.  An enqueue never has the node that the tail is about to
\* be moved to.  A dequeue has the head or a node that was removed; if the head, its successor is
\* under the second guard; and it found no successor only when the queue was empty.
At(t) ==
  /\ pc[t] \in {"tailnext", "link"} /\ next[m_pTail] # nullptr => cur[t] # next[m_pTail]
  /\ (pc[t] = "headnext" \/ Seeks(t)) => (cur[t] \in In => cur[t] = m_pHead)
  /\ Seeks(t) /\ cur[t] = m_pHead /\ nxt[t] # nullptr => G1(t) = nxt[t]
  /\ Removed(t) /\ pc[t] # "dispose" => G1(t) = nxt[t]
  /\ pc[t] \in {"check", "swing"} /\ nxt[t] = nullptr => saw[t] = TRUE
  /\ ~moir /\ pc[t] = "swing" /\ nxt[t] # nullptr => m_pTail # cur[t]

\* The tail is the last node, or the one before it while an enqueue is about to advance it; in
\* MoirQueue that one may have been removed by a dequeue that is about to look at the tail.
TailAt ==
  \/ m_pTail \in In /\ next[m_pTail] = nullptr
  \/ /\ next[m_pTail] \in In /\ next[next[m_pTail]] = nullptr
     /\ \E t \in Thread : Pushing(t) /\ cur[t] = m_pTail
     /\ \/ m_pTail \in In
        \/ next[m_pTail] = m_pHead /\ \E u \in Thread : Late(u) /\ cur[u] = m_pTail

\* The tail of a queue that has not been destroyed is near its end.
Tailed ==
  /\ m_pHead = nullptr => m_pTail = nullptr
  /\ m_pHead # nullptr => m_pTail \in Obj /\ TailAt

\* The inductive invariant.
Inv ==
  /\ Typed /\ Listed /\ Placed /\ Tailed
  /\ \A t \in Thread : Doing(t) /\ Reads(t) /\ Guarded(t) /\ At(t)

-----------------------------------------------------------------------------
(* Lists of nodes *)

\* Nobody has written to the nodes of a list.
LEMMA ListFrame ==
  ASSUME NEW nx, NEW ny, NEW p, NEW s, IsList(nx, p, s), \A o \in Elems(s) : ny[o] = nx[o]
  PROVE  IsList(ny, p, s)
  BY DEF IsList, Elems

\* The empty list.
LEMMA ListEmpty ==
  ASSUME NEW nx, NEW s, IsList(nx, nullptr, s)
  PROVE  s = <<>> /\ Elems(s) = {}
<1>1. s = <<>>
  <2> SUFFICES ASSUME s # <<>> PROVE FALSE
    OBVIOUS
  <2>1. s \in Seq(Obj) /\ s[1] = nullptr
    BY DEF IsList
  <2>2. Len(s) \in Nat /\ Len(s) > 0 /\ s[1] \in Obj
    BY SMT, <2>1
  <2>. QED
    BY <2>1, <2>2, ConstantsAssumption
<1>. QED
  BY SMT, <1>1 DEF Elems

\* nullptr is the empty list.
LEMMA ListNil ==
  ASSUME NEW nx
  PROVE  IsList(nx, nullptr, <<>>) /\ Elems(<<>>) = {}
  BY SMT DEF IsList, Elems

\* dequeue takes off the first node of a list.
LEMMA ListTail ==
  ASSUME NEW nx, NEW p, NEW s, IsList(nx, p, s), p # nullptr
  PROVE  /\ s # <<>> /\ Head(s) = p /\ p \in Obj /\ s = <<p>> \o Tail(s) /\ Len(s) = Len(Tail(s)) + 1
         /\ IsList(nx, nx[p], Tail(s))
         /\ p \in Elems(s)
         /\ Elems(Tail(s)) = Elems(s) \ {p}
<1> DEFINE q == Tail(s)
<1>1. s \in Seq(Obj) /\ s # <<>> /\ p = s[1] /\ Len(s) \in Nat
  BY SMT DEF IsList
<1>2. /\ Len(s) > 0 /\ Len(q) = Len(s) - 1 /\ Len(q) \in Nat /\ q \in Seq(Obj)
      /\ \A i \in 1 .. Len(s) - 1 : q[i] = s[i + 1]
      /\ Head(s) = s[1] /\ s[1] \in Obj /\ 1 \in 1 .. Len(s)
  BY SMT, <1>1
<1>3. s = <<p>> \o q
  BY SMT, <1>1
<1> HIDE DEF q
<1>4. \A i \in 1 .. Len(q) : i + 1 \in 1 .. Len(s) /\ q[i] = s[i + 1] /\ (i = Len(q) <=> i + 1 = Len(s))
  BY SMT, <1>1, <1>2
<1>4a. \A i \in 1 .. Len(s) : i # 1 => i - 1 \in 1 .. Len(q) /\ s[i] = q[i - 1]
  BY SMT, <1>1, <1>2
<1>5. \A i \in 1 .. Len(s) : nx[s[i]] = IF i = Len(s) THEN nullptr ELSE s[i + 1]
  BY DEF IsList
<1>6. \A i, j \in 1 .. Len(s) : s[i] = s[j] => i = j
  BY DEF IsList
<1>7. nx[p] = IF q = <<>> THEN nullptr ELSE q[1]
  <2>1. q = <<>> <=> Len(s) = 1
    BY SMT, <1>1, <1>2
  <2>2. q # <<>> => q[1] = s[1 + 1]
    BY SMT, <1>1, <1>2, <2>1
  <2>. QED
    BY <1>1, <1>2, <1>5, <2>1, <2>2
<1>8. ASSUME NEW i \in 1 .. Len(q) PROVE nx[q[i]] = IF i = Len(q) THEN nullptr ELSE q[i + 1]
  <2>1. nx[s[i + 1]] = IF i + 1 = Len(s) THEN nullptr ELSE s[(i + 1) + 1]
    BY <1>4, <1>5
  <2>2. i # Len(q) => q[i + 1] = s[(i + 1) + 1]
    BY SMT, <1>2, <1>4
  <2>. QED
    BY <1>4, <2>1, <2>2
<1>9. ASSUME NEW i \in 1 .. Len(q), NEW j \in 1 .. Len(q), q[i] = q[j] PROVE i = j
  <2>1. i + 1 = j + 1
    BY <1>4, <1>6, <1>9
  <2>. QED
    BY SMT, <2>1
<1>10. IsList(nx, nx[p], q)
  BY <1>2, <1>7, <1>8, <1>9 DEF IsList
<1>11. Elems(q) = Elems(s) \ {p}
  <2>1. \A i \in 1 .. Len(q) : q[i] \in Elems(s) /\ q[i] # p
    BY SMT, <1>1, <1>2, <1>4, <1>6 DEF Elems
  <2>2. \A i \in 1 .. Len(s) : s[i] # p => s[i] \in Elems(q)
    BY <1>1, <1>4a DEF Elems
  <2>. QED
    BY <2>1, <2>2 DEF Elems
<1>12. p \in Elems(s) /\ Len(s) = Len(q) + 1
  BY SMT, <1>1, <1>2 DEF Elems
<1>. QED
  BY <1>1, <1>2, <1>3, <1>10, <1>11, <1>12 DEF q

\* The last node l of the list s gets a successor o, which is not in the list.
Grows(nx, ny, p, s, l, o, q) ==
  /\ IsList(nx, p, s) /\ nx \in [Obj -> Ptr] /\ l \in Elems(s) /\ nx[l] = nullptr
  /\ o \in Obj /\ o \notin Elems(s) /\ nx[o] = nullptr
  /\ ny = [nx EXCEPT ![l] = o] /\ q = Append(s, o)

\* enqueue puts a node behind the last one.
LEMMA ListAppend ==
  \A nx, ny, p, s, l, o, q : Grows(nx, ny, p, s, l, o, q) => IsList(ny, p, q) /\ Elems(q) = Elems(s) \cup {o}
<1> SUFFICES ASSUME NEW nx, NEW ny, NEW p, NEW s, NEW l, NEW o, NEW q, Grows(nx, ny, p, s, l, o, q)
             PROVE  IsList(ny, p, q) /\ Elems(q) = Elems(s) \cup {o}
  OBVIOUS
<1>0. /\ nx \in [Obj -> Ptr] /\ l \in Elems(s) /\ nx[l] = nullptr
      /\ o \in Obj /\ o \notin Elems(s) /\ nx[o] = nullptr
      /\ ny = [nx EXCEPT ![l] = o] /\ q = Append(s, o) /\ IsList(nx, p, s)
  BY DEF Grows
<1>1. s \in Seq(Obj) /\ Len(s) \in Nat /\ p = IF s = <<>> THEN nullptr ELSE s[1]
  BY SMT, <1>0 DEF IsList
<1>2. \A i \in 1 .. Len(s) : nx[s[i]] = IF i = Len(s) THEN nullptr ELSE s[i + 1]
  BY <1>0 DEF IsList
<1>3. \A i, j \in 1 .. Len(s) : s[i] = s[j] => i = j
  BY <1>0 DEF IsList
<1>4. PICK k \in 1 .. Len(s) : l = s[k]
  BY <1>0 DEF Elems
<1>5. k = Len(s) /\ s # <<>>
  <2>1. \A i \in 1 .. Len(s) : i # Len(s) => s[i + 1] \in Obj
    BY SMT, <1>1
  <2>2. k = Len(s)
    BY <1>0, <1>2, <1>4, <2>1, ConstantsAssumption
  <2>. QED
    BY SMT, <1>1, <1>4, <2>2
<1>6. /\ q \in Seq(Obj) /\ Len(q) = Len(s) + 1 /\ q # <<>> /\ q[Len(q)] = o /\ q[1] = s[1]
      /\ \A i \in 1 .. Len(s) : q[i] = s[i]
  BY SMT, <1>0, <1>1, <1>4
<1>7. \A i \in 1 .. Len(q) : i = Len(q) \/ i \in 1 .. Len(s)
  BY SMT, <1>1, <1>6
<1>8. \A i \in 1 .. Len(s) : s[i] \in Obj /\ s[i] # o
  <2>1. \A i \in 1 .. Len(s) : s[i] \in Obj
    BY SMT, <1>1
  <2>. QED
    BY <1>0, <2>1 DEF Elems
<1>8a. \A i \in 1 .. Len(s) : i # Len(q) /\ i \in 1 .. Len(q) /\ (i # Len(s) => i + 1 \in 1 .. Len(s)) /\ (i = Len(s) => i + 1 = Len(q))
  BY SMT, <1>1, <1>6
<1>8b. Len(q) \in 1 .. Len(q)
  BY SMT, <1>1, <1>6
<1>9. ASSUME NEW i \in 1 .. Len(q) PROVE ny[q[i]] = IF i = Len(q) THEN nullptr ELSE q[i + 1]
  <2>1. CASE i = Len(q)
    <3>1. o # l
      BY <1>0 DEF Elems
    <3>. QED
      BY <1>0, <1>6, <2>1, <3>1
  <2>2. CASE i \in 1 .. Len(s) /\ i = Len(s)
    <3>1. q[i] = l /\ q[i + 1] = o /\ l \in Obj
      BY <1>4, <1>5, <1>6, <1>8, <1>8a, <2>2
    <3>. QED
      BY <1>0, <1>8a, <2>2, <3>1
  <2>3. CASE i \in 1 .. Len(s) /\ i # Len(s)
    <3>1. q[i] = s[i] /\ s[i] # l /\ q[i + 1] = s[i + 1]
      BY <1>3, <1>4, <1>5, <1>6, <1>8a, <2>3
    <3>2. ny[s[i]] = s[i + 1]
      BY <1>0, <1>2, <1>8, <2>3, <3>1
    <3>. QED
      BY <1>8a, <2>3, <3>1, <3>2
  <2>. QED
    BY <1>7, <2>1, <2>2, <2>3
<1>10. ASSUME NEW i \in 1 .. Len(q), NEW j \in 1 .. Len(q), q[i] = q[j] PROVE i = j
  BY SMT, <1>3, <1>6, <1>7, <1>8, <1>10
<1>11. IsList(ny, p, q)
  BY <1>1, <1>5, <1>6, <1>9, <1>10 DEF IsList
<1>12. Elems(q) = Elems(s) \cup {o}
  <2>1. \A i \in 1 .. Len(q) : q[i] \in Elems(s) \cup {o}
    BY <1>6, <1>7 DEF Elems
  <2>2. \A i \in 1 .. Len(s) : s[i] \in Elems(q)
    BY <1>6, <1>8a DEF Elems
  <2>3. o \in Elems(q)
    BY <1>6, <1>8b DEF Elems
  <2>. QED
    BY <2>1, <2>2, <2>3 DEF Elems
<1>. QED
  BY <1>11, <1>12

\* What is known of the nodes in the queue: they lead from the head to one last node.
Threaded(nx, p, S) ==
  /\ p = nullptr => S = {}
  /\ p # nullptr => p \in S
  /\ \A o \in S : o \in Obj /\ nx[o] \in S \cup {nullptr} /\ nx[o] # p /\ nx[o] # o
  /\ \A o, q \in S : nx[o] = nullptr /\ nx[q] = nullptr => o = q

\* A list leads from its first node to its last.
LEMMA ListSet ==
  ASSUME NEW nx, NEW p, NEW s, IsList(nx, p, s)
  PROVE  Threaded(nx, p, Elems(s))
<1>1. s \in Seq(Obj) /\ Len(s) \in Nat /\ p = IF s = <<>> THEN nullptr ELSE s[1]
  BY SMT DEF IsList
<1>2. \A i \in 1 .. Len(s) : nx[s[i]] = IF i = Len(s) THEN nullptr ELSE s[i + 1]
  BY DEF IsList
<1>3. \A i, j \in 1 .. Len(s) : s[i] = s[j] => i = j
  BY DEF IsList
<1>4. \A i \in 1 .. Len(s) : s[i] \in Obj /\ s[i] # nullptr
  <2>1. \A i \in 1 .. Len(s) : s[i] \in Obj
    BY SMT, <1>1
  <2>. QED
    BY <2>1, ConstantsAssumption
<1>5. s # <<>> => 1 \in 1 .. Len(s)
  BY SMT, <1>1
<1>6. \A i \in 1 .. Len(s) : i # Len(s) => i + 1 \in 1 .. Len(s) /\ i + 1 # 1 /\ i + 1 # i
  BY SMT, <1>1
<1>7. p = nullptr => Elems(s) = {}
  <2>1. p = nullptr => s = <<>>
    BY <1>1, <1>4, <1>5
  <2>. QED
    BY SMT, <2>1 DEF Elems
<1>8. p # nullptr => p \in Elems(s)
  BY <1>1, <1>5 DEF Elems
<1>9. ASSUME NEW i \in 1 .. Len(s) PROVE nx[s[i]] \in Elems(s) \cup {nullptr} /\ nx[s[i]] # p /\ nx[s[i]] # s[i]
  <2>1. CASE i = Len(s)
    <3>1. nx[s[i]] = nullptr /\ p # nullptr
      BY <1>2, <1>7, <2>1 DEF Elems
    <3>. QED
      BY <1>4, <3>1
  <2>2. CASE i # Len(s)
    <3>1. nx[s[i]] = s[i + 1] /\ i + 1 \in 1 .. Len(s) /\ i + 1 # 1 /\ i + 1 # i
      BY <1>2, <1>6, <2>2
    <3>2. s # <<>>
      BY SMT, <1>1
    <3>3. p = s[1] /\ 1 \in 1 .. Len(s)
      BY <1>1, <1>5, <3>2
    <3>4. s[i + 1] # s[1] /\ s[i + 1] # s[i]
      BY <1>3, <3>1, <3>3
    <3>. QED
      BY <3>1, <3>3, <3>4 DEF Elems
  <2>. QED
    BY <2>1, <2>2
<1>10. ASSUME NEW i \in 1 .. Len(s), nx[s[i]] = nullptr PROVE i = Len(s)
  BY <1>2, <1>4, <1>6, <1>10
<1>11. \A o \in Elems(s) : o \in Obj /\ nx[o] \in Elems(s) \cup {nullptr} /\ nx[o] # p /\ nx[o] # o
  BY <1>4, <1>9 DEF Elems
<1>12. \A o, q \in Elems(s) : nx[o] = nullptr /\ nx[q] = nullptr => o = q
  BY <1>10 DEF Elems
<1>. QED
  BY <1>7, <1>8, <1>11, <1>12 DEF Threaded

\* Chain, the operator that the properties use, walks along a list and sees all of it.
List(p) == Chain[Cardinality(Obj)][p]
Walks == \A p, s : IsList(next, p, s) => List(p) = s

\* The same, after the step.
LEMMA WalksNext == Walks' => \A s : IsList(next', m_pHead', s) => Nodes' = s
  BY DEF Walks, IsList, List, Nodes

-----------------------------------------------------------------------------
(* One step, and where its thread is *)

\* After the step the guards of t protect a and b, those of the other threads what they did.
Guards01(t, a, b) ==
  /\ protects' \in [Thread \X {0, 1} -> Ptr]
  /\ G0(t)' = a /\ G1(t)' = b
  /\ \A u \in Thread \ {t} : G0(u)' = G0(u) /\ G1(u)' = G1(u)

\* The guards in G, which are of t, are set to v.
Sets(t, G, v) ==
  /\ protects' \in [Thread \X {0, 1} -> Ptr]
  /\ \A g \in Thread \X {0, 1} : protects'[g] = IF g \in G THEN v ELSE protects[g]
  /\ \A u \in Thread \ {t} : <<u, 0>> \notin G /\ <<u, 1>> \notin G

\* What becomes of the guards.
LEMMA SetGuards ==
  ASSUME NEW t \in Thread, NEW G, NEW v, Sets(t, G, v)
  PROVE  Guards01(t, IF <<t, 0>> \in G THEN v ELSE G0(t), IF <<t, 1>> \in G THEN v ELSE G1(t))
<1>1. \A u \in Thread : <<u, 0>> \in Thread \X {0, 1} /\ <<u, 1>> \in Thread \X {0, 1}
  BY SMT
<1>2. \A u \in Thread : /\ G0(u)' = IF <<u, 0>> \in G THEN v ELSE G0(u)
                        /\ G1(u)' = IF <<u, 1>> \in G THEN v ELSE G1(u)
  <2>1. ASSUME NEW g \in Thread \X {0, 1} PROVE protects'[g] = IF g \in G THEN v ELSE protects[g]
    BY DEF Sets
  <2>. QED
    BY <1>1, <2>1 DEF G0, G1
<1>. QED
  BY <1>2 DEF Sets, Guards01

\* Guards that are released.
LEMMA Released ==
  ASSUME Typed, NEW t \in Thread
  PROVE  /\ SMR!Release(Guards(t)) => Guards01(t, nullptr, nullptr) /\ status' = status
         /\ SMR!Release({<<t, 0>>}) => Guards01(t, nullptr, G1(t)) /\ status' = status
         /\ SMR!Release({<<t, 1>>}) => Guards01(t, G0(t), nullptr) /\ status' = status
<1>1. nullptr \in Ptr /\ protects \in [Thread \X {0, 1} -> Ptr]
  BY DEF Ptr, Typed
<1>2. ASSUME NEW G, SMR!Release(G), \A u \in Thread \ {t} : <<u, 0>> \notin G /\ <<u, 1>> \notin G
      PROVE  Sets(t, G, nullptr) /\ status' = status
  BY <1>1, <1>2 DEF SMR!Release, Sets
<1>3. \A u \in Thread \ {t} : <<u, 0>> \notin Guards(t) /\ <<u, 1>> \notin Guards(t)
  BY SMT DEF Guards
<1>4. <<t, 0>> \in Guards(t) /\ <<t, 1>> \in Guards(t)
  BY DEF Guards
<1>5. \A u \in Thread \ {t} : <<u, 0>> \notin {<<t, 0>>} /\ <<u, 1>> \notin {<<t, 0>>}
  BY SMT
<1>6. \A u \in Thread \ {t} : <<u, 0>> \notin {<<t, 1>>} /\ <<u, 1>> \notin {<<t, 1>>}
  BY SMT
<1>7. <<t, 0>> \notin {<<t, 1>>} /\ <<t, 1>> \notin {<<t, 0>>}
  BY SMT
<1>8. SMR!Release(Guards(t)) => Guards01(t, nullptr, nullptr) /\ status' = status
  BY <1>2, <1>3, <1>4, SetGuards
<1>9. SMR!Release({<<t, 0>>}) => Guards01(t, nullptr, G1(t)) /\ status' = status
  <2> SUFFICES ASSUME SMR!Release({<<t, 0>>}) PROVE Guards01(t, nullptr, G1(t)) /\ status' = status
    OBVIOUS
  <2>1. Sets(t, {<<t, 0>>}, nullptr) /\ status' = status
    BY <1>2, <1>5
  <2>. QED
    BY <1>7, <2>1, SetGuards
<1>10. SMR!Release({<<t, 1>>}) => Guards01(t, G0(t), nullptr) /\ status' = status
  <2> SUFFICES ASSUME SMR!Release({<<t, 1>>}) PROVE Guards01(t, G0(t), nullptr) /\ status' = status
    OBVIOUS
  <2>1. Sets(t, {<<t, 1>>}, nullptr) /\ status' = status
    BY <1>2, <1>6
  <2>. QED
    BY <1>7, <2>1, SetGuards
<1>. QED
  BY <1>8, <1>9, <1>10

\* A guard that is set on a pointer protects what it points to, if that is linked.
LEMMA Protecting ==
  ASSUME Typed, NEW t \in Thread, NEW p \in Ptr
  PROVE  /\ Protect(<<t, 0>>, p) =>
              Guards01(t, IF p # nullptr /\ status[p] = "linked" THEN p ELSE nullptr, G1(t)) /\ status' = status
         /\ Protect(<<t, 1>>, p) =>
              Guards01(t, G0(t), IF p # nullptr /\ status[p] = "linked" THEN p ELSE nullptr) /\ status' = status
<1>1. protects \in [Thread \X {0, 1} -> Ptr]
  BY DEF Typed
<1>2. CASE p # nullptr /\ status[p] = "linked"
  <2>1. ASSUME NEW g \in Thread \X {0, 1}, Protect(g, p), \A u \in Thread \ {t} : <<u, 0>> # g /\ <<u, 1>> # g
        PROVE  Sets(t, {g}, p) /\ status' = status
    BY <1>1, <1>2, <2>1 DEF Protect, SMR!Protect, Sets
  <2>2. \A u \in Thread \ {t} : <<u, 0>> # <<t, 0>> /\ <<u, 1>> # <<t, 0>> /\ <<u, 0>> # <<t, 1>> /\ <<u, 1>> # <<t, 1>>
    BY SMT
  <2>3. <<t, 0>> \notin {<<t, 1>>} /\ <<t, 1>> \notin {<<t, 0>>}
    BY SMT
  <2>4. <<t, 0>> \in Thread \X {0, 1} /\ <<t, 1>> \in Thread \X {0, 1}
    BY SMT
  <2>5. Protect(<<t, 0>>, p) => Guards01(t, p, G1(t)) /\ status' = status
    <3> SUFFICES ASSUME Protect(<<t, 0>>, p) PROVE Guards01(t, p, G1(t)) /\ status' = status
      OBVIOUS
    <3>1. Sets(t, {<<t, 0>>}, p) /\ status' = status
      BY <2>1, <2>2, <2>4
    <3>. QED
      BY <2>3, <3>1, SetGuards
  <2>6. Protect(<<t, 1>>, p) => Guards01(t, G0(t), p) /\ status' = status
    <3> SUFFICES ASSUME Protect(<<t, 1>>, p) PROVE Guards01(t, G0(t), p) /\ status' = status
      OBVIOUS
    <3>1. Sets(t, {<<t, 1>>}, p) /\ status' = status
      BY <2>1, <2>2, <2>4
    <3>. QED
      BY <2>3, <3>1, SetGuards
  <2>. QED
    BY <1>2, <2>5, <2>6
<1>3. CASE ~(p # nullptr /\ status[p] = "linked")
  <2>1. \A g : Protect(g, p) => SMR!Release({g})
    BY <1>3 DEF Protect
  <2>. QED
    BY <1>3, <2>1, Released
<1>. QED
  BY <1>2, <1>3

\* Nothing happens to the guards.
LEMMA Unguarded ==
  ASSUME Typed, NEW t \in Thread, protects' = protects
  PROVE  Guards01(t, G0(t), G1(t))
  BY DEF Typed, Guards01, G0, G1

\* Nothing happens to thread u.
Same(u) ==
  /\ pc'[u] = pc[u] /\ op'[u] = op[u] /\ new'[u] = new[u]
  /\ cur'[u] = cur[u] /\ nxt'[u] = nxt[u] /\ saw'[u] = saw[u]
  /\ G0(u)' = G0(u) /\ G1(u)' = G1(u)

\* What a thread relies on: the two nodes the queue points to are linked, and so is m_Dummy.
Steady ==
  /\ status[m_Dummy] = "linked"
  /\ m_pHead # nullptr => /\ m_pHead \in Obj /\ status[m_pHead] = "linked"
                          /\ m_pTail \in Obj /\ status[m_pTail] = "linked"

\* After the step t is where its place in the program says, and no other thread has moved.
Steps(t) == Typed' /\ Doing(t)' /\ \A u \in Thread \ {t} : Same(u)

\* The steps of enqueue.
LEMMA EnqSteps ==
  ASSUME Typed, Steady, NEW t \in Thread, Doing(t), EnqStep(t), moir' = moir
  PROVE  Steps(t)
<1>. USE DEF Steps, Doing, Same, Goto, queueVars, locals, gcVars, EnqLabels, DeqLabels, Ptr
<1>1. ASSUME NEW o \in Obj, EnqStart(t, o) PROVE Steps(t)
  <2>1. Guards01(t, G0(t), G1(t)) /\ o # m_Dummy
    BY <1>1, Unguarded DEF EnqStart, SMR!Publish, Steady
  <2>. QED
    BY <1>1, <2>1 DEF EnqStart, SMR!Publish, Typed, Guards01
<1>2. CASE Assign(t, "tail", 0)
  <2>1. Guards01(t, nullptr, G1(t)) /\ status' = status
    BY <1>2, Released DEF Assign
  <2>. QED
    BY <1>2, <2>1 DEF Assign, Typed, Guards01
<1>3. CASE EnqProtect(t)
  <2>1. m_pTail \in Obj /\ status[m_pTail] = "linked" /\ m_pTail # nullptr /\ m_pTail \in Ptr
    BY <1>3, ConstantsAssumption DEF EnqProtect, Steady
  <2>2. Guards01(t, m_pTail, G1(t)) /\ status' = status
    BY <1>3, <2>1, Protecting DEF EnqProtect
  <2>. QED
    BY <1>3, <2>1, <2>2 DEF EnqProtect, Typed, Guards01
<1>4. CASE EnqNext(t)
  <2>1. Guards01(t, G0(t), G1(t)) /\ next[cur[t]] \in Ptr
    BY <1>4, Unguarded DEF EnqNext, Typed
  <2>. QED
    BY <1>4, <2>1 DEF EnqNext, Typed, Guards01
<1>5. CASE EnqHelp(t) \/ EnqHelpFail(t) \/ EnqLinkFail(t)
  <2>1. Guards01(t, G0(t), G1(t))
    BY <1>5, Unguarded DEF EnqHelp, EnqHelpFail, EnqLinkFail
  <2>. QED
    BY <1>5, <2>1 DEF EnqHelp, EnqHelpFail, EnqLinkFail, Retry, Typed, Guards01
<1>6. CASE EnqLink(t)
  <2>1. Guards01(t, G0(t), G1(t))
    BY <1>6, Unguarded DEF EnqLink
  <2>. QED
    BY <1>6, <2>1 DEF EnqLink, Typed, Guards01
<1>7. CASE EnqCount(t)
  <2>1. Guards01(t, G0(t), G1(t))
    BY <1>7, Unguarded DEF EnqCount
  <2>. QED
    BY <1>7, <2>1 DEF EnqCount, Typed, Guards01
<1>8. CASE EnqAdvance(t)
  <2>1. Guards01(t, nullptr, nullptr) /\ status' = status
    BY <1>8, Released DEF EnqAdvance, Return
  <2>2. m_pTail' \in Ptr
    BY <1>8 DEF EnqAdvance, Typed
  <2>. QED
    BY <1>8, <2>1, <2>2 DEF EnqAdvance, Return, Typed, Guards01
<1>. QED
  BY <1>1, <1>2, <1>3, <1>4, <1>5, <1>6, <1>7, <1>8 DEF EnqStep

\* The steps of dequeue.
LEMMA DeqSteps ==
  ASSUME Typed, Steady, NEW t \in Thread, Doing(t), DeqStep(t), moir' = moir
  PROVE  Steps(t)
<1>. USE DEF Steps, Doing, Same, Goto, queueVars, locals, gcVars, EnqLabels, DeqLabels, Ptr
<1>1. CASE DeqStart(t)
  <2>1. Guards01(t, G0(t), G1(t))
    BY <1>1, Unguarded DEF DeqStart
  <2>. QED
    BY <1>1, <2>1 DEF DeqStart, Typed, Guards01
<1>2. CASE Assign(t, "head", 0)
  <2>1. Guards01(t, nullptr, G1(t)) /\ status' = status
    BY <1>2, Released DEF Assign
  <2>. QED
    BY <1>2, <2>1 DEF Assign, Typed, Guards01
<1>3. CASE DeqHead(t)
  <2>1. m_pHead \in Obj /\ status[m_pHead] = "linked" /\ m_pHead # nullptr /\ m_pHead \in Ptr
    BY <1>3, ConstantsAssumption DEF DeqHead, Steady
  <2>2. Guards01(t, m_pHead, G1(t)) /\ status' = status
    BY <1>3, <2>1, Protecting DEF DeqHead
  <2>. QED
    BY <1>3, <2>1, <2>2 DEF DeqHead, Typed, Guards01
<1>4. CASE Assign(t, "headnext", 1)
  <2>1. Guards01(t, G0(t), nullptr) /\ status' = status
    BY <1>4, Released DEF Assign
  <2>. QED
    BY <1>4, <2>1 DEF Assign, Typed, Guards01
<1>5. CASE DeqNext(t)
  <2>1. next[cur[t]] \in Ptr
    BY <1>5 DEF DeqNext, Typed
  <2>2. PICK b : Guards01(t, G0(t), b) /\ status' = status
    BY <1>5, <2>1, Protecting DEF DeqNext
  <2>3. saw' \in [Thread -> BOOLEAN] /\ \A u \in Thread \ {t} : saw'[u] = saw[u]
    BY <1>5 DEF DeqNext, Typed
  <2>. QED
    BY <1>5, <2>1, <2>2, <2>3 DEF DeqNext, Typed, Guards01
<1>6. CASE DeqCheck(t) \/ DeqLag(t)
  <2>1. Guards01(t, G0(t), G1(t))
    BY <1>6, Unguarded DEF DeqCheck, DeqLag
  <2>2. PICK l \in {"swing", "lag", "lagging", "dequeued"} : /\ pc' = [pc EXCEPT ![t] = l]
                                                            /\ pc[t] \in {"check", "lag"} /\ (l = "swing" \/ nxt[t] \in Obj)
    BY <1>6 DEF DeqCheck, DeqLag, Typed
  <2>. QED
    BY <1>6, <2>1, <2>2 DEF DeqCheck, DeqLag, Typed, Guards01
<1>7. CASE DeqCheckFail(t) \/ DeqSwingFail(t)
  <2>1. Guards01(t, G0(t), G1(t))
    BY <1>7, Unguarded DEF DeqCheckFail, DeqSwingFail
  <2>2. pc[t] \in {"check", "swing"} /\ Retry(t, "head") /\ UNCHANGED <<m_pHead, m_pTail, next, status>>
    BY <1>7 DEF DeqCheckFail, DeqSwingFail
  <2>. QED
    BY <2>1, <2>2 DEF Retry, Typed, Guards01
<1>8. CASE DeqEmpty(t) \/ DeqReturn(t)
  <2>1. Guards01(t, nullptr, nullptr) /\ status' = status
    BY <1>8, Released DEF DeqEmpty, DeqReturn, Return
  <2>2. Return(t) /\ UNCHANGED <<m_pHead, m_pTail, next>>
    BY <1>8 DEF DeqEmpty, DeqReturn
  <2>. QED
    BY <2>1, <2>2 DEF Return, Typed, Guards01
<1>9. CASE DeqHelp(t)
  <2>1. Guards01(t, G0(t), G1(t)) /\ m_pTail' \in Ptr
    BY <1>9, Unguarded DEF DeqHelp, Typed
  <2>. QED
    BY SMTT(40), <1>9, <2>1 DEF DeqHelp, Retry, Typed, Guards01
<1>10. CASE DeqSwing(t)
  <2>1. Guards01(t, G0(t), G1(t)) /\ nxt[t] \in Obj
    BY <1>10, Unguarded DEF DeqSwing, Typed
  <2>. QED
    BY <1>10, <2>1 DEF DeqSwing, Typed, Guards01
<1>11. CASE DeqCount(t) \/ DeqValue(t)
  <2>1. Guards01(t, G0(t), G1(t))
    BY <1>11, Unguarded DEF DeqCount, DeqValue
  <2>. QED
    BY <1>11, <2>1 DEF DeqCount, DeqValue, Typed, Guards01
<1>12. CASE DeqDispose(t)
  <2>1. Guards01(t, G0(t), G1(t)) /\ status' \in [Obj -> {"free", "linked", "retired"}]
    BY SMT, <1>12, Unguarded DEF DeqDispose, DisposeNode, SMR!Replace, Typed
  <2>. QED
    BY <1>12, <2>1 DEF DeqDispose, Typed, Guards01
<1>. QED
  BY <1>1, <1>2, <1>3, <1>4, <1>5, <1>6, <1>7, <1>8, <1>9, <1>10, <1>11, <1>12 DEF DeqStep

-----------------------------------------------------------------------------
(* What the invariant says of a state *)

\* A node in the queue, or in the hands of a thread, is linked.
LEMMA InUse ==
  ASSUME Placed, NEW o \in Obj, o \in In \/ \E t \in Thread : Has(t, o)
  PROVE  status[o] = "linked"
  BY DEF Placed

\* What every thread may rely on.
LEMMA InvSteady == Inv => Steady /\ Threaded(next, m_pHead, In)
<1> SUFFICES ASSUME Inv PROVE Steady /\ Threaded(next, m_pHead, In)
  OBVIOUS
<1>1. Threaded(next, m_pHead, In)
  BY ListSet DEF Inv, Listed, In
<1>2. Placed /\ status[m_Dummy] = "linked"
  BY DEF Inv, Placed
<1>3. ASSUME m_pHead # nullptr PROVE m_pHead \in Obj /\ status[m_pHead] = "linked"
  <2>1. m_pHead \in In /\ m_pHead \in Obj
    BY <1>1, <1>3 DEF Threaded
  <2>. QED
    BY <1>2, <2>1, InUse
<1>4. ASSUME m_pHead # nullptr PROVE m_pTail \in Obj /\ status[m_pTail] = "linked"
  <2>1. m_pTail \in Obj /\ TailAt
    BY <1>4 DEF Inv, Tailed
  <2>2. m_pTail \in In \/ \E u \in Thread : Has(u, m_pTail)
    BY <2>1 DEF TailAt, Has, Removed
  <2>. QED
    BY <1>2, <2>1, <2>2, InUse
<1>. QED
  BY <1>1, <1>2, <1>3, <1>4 DEF Steady

\* The node that is about to get a successor is the tail.
LEMMA LinkAtTail ==
  ASSUME Inv, NEW t \in Thread, EnqLink(t)
  PROVE  /\ cur[t] = m_pTail /\ m_pTail \in In /\ next[m_pTail] = nullptr
         /\ new[t] \in Obj /\ new[t] \notin In /\ next[new[t]] = nullptr /\ new[t] # m_pTail
<1>1. pc[t] = "link" /\ next[cur[t]] = nullptr
  BY DEF EnqLink
<1>2. Doing(t) /\ Reads(t) /\ Guarded(t) /\ At(t) /\ Tailed /\ Placed
  BY DEF Inv
<1>3. Threaded(next, m_pHead, In)
  BY InvSteady
<1>4. m_pHead # nullptr /\ cur[t] \in Obj /\ G0(t) = cur[t] /\ new[t] \in Obj
  BY <1>1, <1>2 DEF Doing, EnqLabels
<1>5. cur[t] \in In
  BY <1>1, <1>2, <1>4, ConstantsAssumption DEF Guarded
<1>6. TailAt
  BY <1>2, <1>4 DEF Tailed
<1>7. ASSUME m_pTail \in In, next[m_pTail] = nullptr PROVE cur[t] = m_pTail
  BY <1>1, <1>3, <1>5, <1>7 DEF Threaded
<1>8. ASSUME next[m_pTail] \in In, next[next[m_pTail]] = nullptr PROVE FALSE
  <2>1. cur[t] = next[m_pTail]
    BY <1>1, <1>3, <1>5, <1>8 DEF Threaded
  <2>2. next[m_pTail] # nullptr
    BY <1>4, <2>1, ConstantsAssumption
  <2>. QED
    BY <1>1, <1>2, <2>1, <2>2 DEF At
<1>9. cur[t] = m_pTail /\ m_pTail \in In /\ next[m_pTail] = nullptr
  BY <1>1, <1>5, <1>6, <1>7, <1>8 DEF TailAt
<1>10. Fresh(t) /\ Has(t, new[t])
  BY <1>1 DEF Fresh, Has
<1>11. new[t] \notin In /\ next[new[t]] = nullptr
  BY <1>2, <1>4, <1>10 DEF Placed, Reads
<1>. QED
  BY <1>4, <1>9, <1>11

\* The node that is about to be removed is the head, and has a successor in the queue.
LEMMA SwingAtHead ==
  ASSUME Inv, NEW t \in Thread, DeqSwing(t)
  PROVE  /\ cur[t] = m_pHead /\ m_pHead \in In /\ m_pHead # nullptr
         /\ nxt[t] = next[m_pHead] /\ nxt[t] \in In /\ nxt[t] # m_pHead /\ nxt[t] \in Obj
<1>1. pc[t] = "swing" /\ nxt[t] # nullptr /\ m_pHead = cur[t]
  BY DEF DeqSwing
<1>2. Doing(t) /\ Reads(t)
  BY DEF Inv
<1>3. Threaded(next, m_pHead, In)
  BY InvSteady
<1>4. m_pHead # nullptr /\ nxt[t] = next[m_pHead]
  BY <1>1, <1>2 DEF Doing, Reads
<1>. QED
  BY <1>1, <1>3, <1>4 DEF Threaded

\* The tail is behind: it is about to be moved to the last node.
LEMMA TailBehind ==
  ASSUME Inv, m_pHead # nullptr, next[m_pTail] # nullptr
  PROVE  /\ next[m_pTail] \in In /\ next[next[m_pTail]] = nullptr /\ next[m_pTail] \in Obj
         /\ ~moir => m_pTail \in In /\ next[m_pTail] # m_pHead
<1>1. TailAt /\ Threaded(next, m_pHead, In)
  BY InvSteady DEF Inv, Tailed
<1>2. next[m_pTail] \in In /\ next[next[m_pTail]] = nullptr /\ (~moir => m_pTail \in In)
  BY <1>1 DEF TailAt, Late
<1>. QED
  BY <1>1, <1>2 DEF Threaded

-----------------------------------------------------------------------------
(* What a step does to the queue *)

\* Thread t keeps what it has.
Keeps(t) ==
  /\ Fresh(t)' <=> Fresh(t)
  /\ Removed(t)' <=> Removed(t)
  /\ Fresh(t) => new'[t] = new[t]
  /\ Removed(t) => cur'[t] = cur[t]

\* The step changes neither the queue nor the state of a node, and does not leave the tail behind.
Still(t) ==
  /\ UNCHANGED <<m_pHead, m_pTail, next, status>> /\ Keeps(t)
  /\ Pushing(t) /\ cur[t] = m_pTail => Pushing(t)' /\ cur'[t] = cur[t]
  /\ Late(t) /\ cur[t] = m_pTail => Late(t)' /\ cur'[t] = cur[t]

\* The step advances the tail.
Helps(t) ==
  /\ UNCHANGED <<m_pHead, next, status>> /\ Keeps(t)
  /\ next[m_pTail] # nullptr /\ m_pTail' = next[m_pTail]

\* The steps of a thread, by what they do.
Kinds(t) ==
  \/ Still(t) \/ Helps(t)
  \/ \E o \in Obj : EnqStart(t, o)
  \/ EnqLink(t) \/ DeqSwing(t) \/ DeqDispose(t)

\* There are no others.
LEMMA EnqKinds ==
  ASSUME Inv, NEW t \in Thread, EnqStep(t), moir' = moir
  PROVE  Kinds(t)
<1>. USE DEF Kinds, Goto, queueVars, locals, gcVars
<1>0. Doing(t) /\ Reads(t) /\ Typed
  BY DEF Inv
<1>1. CASE Assign(t, "tail", 0)
  <2>1. UNCHANGED <<m_pHead, m_pTail, next, status, pc, new, cur>>
    BY <1>1 DEF Assign, SMR!Release
  <2>. QED
    BY <2>1 DEF Still, Keeps, Fresh, Pushing, Late, Removed
<1>2. CASE EnqProtect(t)
  <2>1. pc[t] = "tail" /\ pc'[t] = "tailnext" /\ UNCHANGED <<m_pHead, m_pTail, next, new>>
    BY <1>0, <1>2 DEF EnqProtect, Typed
  <2>2. status' = status
    BY <1>2 DEF EnqProtect, Protect, SMR!Protect, SMR!Release
  <2>. QED
    BY <2>1, <2>2 DEF Still, Keeps, Fresh, Pushing, Late, Removed
<1>3. CASE EnqNext(t) \/ EnqHelpFail(t) \/ EnqLinkFail(t)
  <2>1. /\ pc[t] \in {"tailnext", "tailhelp", "link"} /\ pc'[t] \in {"tailhelp", "link", "tail"}
        /\ UNCHANGED <<m_pHead, m_pTail, next, new, status>>
    BY <1>0, <1>3 DEF EnqNext, EnqHelpFail, EnqLinkFail, Retry, Typed
  <2>. QED
    BY <2>1 DEF Still, Keeps, Fresh, Pushing, Late, Removed
<1>4. CASE EnqHelp(t)
  <2>1. pc[t] = "tailhelp" /\ pc'[t] = "tail" /\ UNCHANGED <<m_pHead, next, new, status>> /\ m_pTail = cur[t] /\ m_pTail' = nxt[t]
    BY <1>0, <1>4 DEF EnqHelp, Retry, Typed
  <2>2. nxt[t] # nullptr /\ next[m_pTail] = nxt[t]
    BY <1>0, <2>1, ConstantsAssumption DEF Doing, Reads
  <2>. QED
    BY <2>1, <2>2 DEF Helps, Keeps, Fresh, Late, Removed
<1>5. CASE EnqCount(t)
  <2>1. pc[t] = "enqueued" /\ pc'[t] = "advance" /\ UNCHANGED <<m_pHead, m_pTail, next, new, cur, status>>
    BY <1>0, <1>5 DEF EnqCount, Typed
  <2>. QED
    BY <2>1 DEF Still, Keeps, Fresh, Pushing, Late, Removed
<1>6. CASE EnqAdvance(t)
  <2>1. /\ pc[t] = "advance" /\ pc'[t] = "idle" /\ UNCHANGED <<m_pHead, next, status>>
        /\ m_pTail' = IF m_pTail = cur[t] THEN new[t] ELSE m_pTail
    BY <1>0, <1>6 DEF EnqAdvance, Return, SMR!Release, Typed
  <2>2. Keeps(t)
    BY <2>1 DEF Keeps, Fresh, Late, Removed
  <2>3. new[t] # nullptr /\ next[cur[t]] = new[t]
    BY <1>0, <2>1, ConstantsAssumption DEF Doing, Reads, Pushing, EnqLabels
  <2>4. CASE m_pTail = cur[t]
    BY <2>1, <2>2, <2>3, <2>4 DEF Helps
  <2>5. CASE m_pTail # cur[t]
    BY <2>1, <2>2, <2>5 DEF Still, Late
  <2>. QED
    BY <2>4, <2>5
<1>. QED
  BY <1>1, <1>2, <1>3, <1>4, <1>5, <1>6 DEF EnqStep

\* The same for dequeue.
LEMMA DeqKinds ==
  ASSUME Inv, NEW t \in Thread, DeqStep(t), moir' = moir
  PROVE  Kinds(t)
<1>. USE DEF Kinds, Goto, queueVars, locals, gcVars
<1>0. Doing(t) /\ Reads(t) /\ Typed
  BY DEF Inv
<1>1. CASE Assign(t, "head", 0) \/ Assign(t, "headnext", 1)
  <2>1. UNCHANGED <<m_pHead, m_pTail, next, status, pc, new, cur>>
    BY <1>1 DEF Assign, SMR!Release
  <2>. QED
    BY <2>1 DEF Still, Keeps, Fresh, Pushing, Late, Removed
<1>2. CASE DeqStart(t) \/ DeqHead(t) \/ DeqNext(t)
  <2>1. /\ pc[t] \in {"idle", "head", "headnext"} /\ pc'[t] \in {"head", "headnext", "check", "swing"}
        /\ UNCHANGED <<m_pHead, m_pTail, next>>
    BY <1>0, <1>2 DEF DeqStart, DeqHead, DeqNext, Typed
  <2>2. status' = status
    BY <1>2 DEF DeqStart, DeqHead, DeqNext, Protect, SMR!Protect, SMR!Release
  <2>. QED
    BY <2>1, <2>2 DEF Still, Keeps, Fresh, Pushing, Late, Removed
<1>3. CASE DeqCheckFail(t) \/ DeqSwingFail(t)
  <2>1. pc[t] \in {"check", "swing"} /\ pc'[t] = "head" /\ UNCHANGED <<m_pHead, m_pTail, next, status>>
    BY <1>0, <1>3 DEF DeqCheckFail, DeqSwingFail, Retry, Typed
  <2>. QED
    BY <2>1 DEF Still, Keeps, Fresh, Pushing, Late, Removed
<1>4. CASE DeqEmpty(t) \/ DeqReturn(t)
  <2>1. pc[t] \in {"swing", "return"} /\ pc'[t] = "idle" /\ UNCHANGED <<m_pHead, m_pTail, next, status>>
    BY <1>0, <1>4 DEF DeqEmpty, DeqReturn, Return, SMR!Release, Typed
  <2>. QED
    BY <2>1 DEF Still, Keeps, Fresh, Pushing, Late, Removed
<1>5. CASE DeqCount(t) \/ DeqValue(t)
  <2>1. pc[t] \in {"dequeued", "value"} /\ pc'[t] \in {"value", "dispose"} /\ UNCHANGED <<m_pHead, m_pTail, next, cur, status>>
    BY <1>0, <1>5 DEF DeqCount, DeqValue, Typed
  <2>. QED
    BY <2>1 DEF Still, Keeps, Fresh, Pushing, Late, Removed
<1>6. CASE DeqCheck(t)
  <2>1. pc[t] = "check" /\ pc'[t] \in {"swing", "lag"} /\ UNCHANGED <<m_pHead, m_pTail, next, cur, status>>
    BY <1>0, <1>6 DEF DeqCheck, Typed
  <2>2. ~moir /\ ~moir'
    BY <1>0, <2>1 DEF Doing
  <2>. QED
    BY <2>1, <2>2 DEF Still, Keeps, Fresh, Pushing, Late, Removed
<1>7. CASE DeqLag(t)
  <2>1. /\ pc[t] = "lag" /\ UNCHANGED <<m_pHead, m_pTail, next, cur, status>>
        /\ pc'[t] = IF m_pTail = cur[t] THEN "lagging" ELSE IF moir THEN "dequeued" ELSE "swing"
    BY <1>0, <1>7 DEF DeqLag, Typed
  <2>2. CASE moir
    <3>1. pc'[t] = IF m_pTail = cur[t] THEN "lagging" ELSE "dequeued"
      BY <2>1, <2>2
    <3>. QED
      BY <2>1, <2>2, <3>1 DEF Still, Keeps, Fresh, Pushing, Late, Removed
  <2>3. CASE ~moir
    <3>1. pc'[t] = "lagging" \/ pc'[t] = "swing"
      BY <2>1, <2>3
    <3>. QED
      BY <2>1, <2>3, <3>1 DEF Still, Keeps, Fresh, Pushing, Late, Removed
  <2>. QED
    BY <2>2, <2>3
<1>8. CASE DeqHelp(t)
  <2>1. /\ pc[t] = "lagging" /\ UNCHANGED <<m_pHead, next, status>>
        /\ m_pTail' = IF m_pTail = cur[t] THEN nxt[t] ELSE m_pTail
    BY <1>8 DEF DeqHelp
  <2>2. IF moir THEN pc'[t] = "dequeued" /\ cur' = cur ELSE pc'[t] = "head"
    BY <1>0, <1>8 DEF DeqHelp, Retry, Typed
  <2>3. Keeps(t)
    BY <2>1, <2>2 DEF Keeps, Fresh, Late, Removed
  <2>4. nxt[t] # nullptr /\ next[cur[t]] = nxt[t]
    BY <1>0, <2>1, ConstantsAssumption DEF Doing, Reads
  <2>5. CASE m_pTail = cur[t]
    BY <2>1, <2>3, <2>4, <2>5 DEF Helps
  <2>6. CASE m_pTail # cur[t]
    BY <2>1, <2>3, <2>6 DEF Still, Pushing
  <2>. QED
    BY <2>5, <2>6
<1>. QED
  BY <1>1, <1>2, <1>3, <1>4, <1>5, <1>6, <1>7, <1>8 DEF DeqStep

-----------------------------------------------------------------------------
(* The nodes of the queue after a step *)

\* Nobody has written to the head or to a node of the queue.
LEMMA QueueKept ==
  ASSUME Walks', Listed, m_pHead' = m_pHead, \A o \in In : next'[o] = next[o]
  PROVE  Nodes' = Nodes /\ In' = In /\ Listed'
<1>1. IsList(next', m_pHead', Nodes)
  BY ListFrame DEF Listed, In
<1>2. Nodes' = Nodes
  BY <1>1, WalksNext
<1>3. Listed'
  BY <1>1, <1>2 DEF Listed
<1>. QED
  BY <1>2, <1>3 DEF In

\* enqueue links its node behind the last one.
LEMMA QueueLinked ==
  ASSUME Walks', Inv, NEW t \in Thread, EnqLink(t)
  PROVE  Nodes' = Append(Nodes, new[t]) /\ In' = In \cup {new[t]} /\ Listed'
<1>1. /\ cur[t] = m_pTail /\ m_pTail \in In /\ next[m_pTail] = nullptr
      /\ new[t] \in Obj /\ new[t] \notin In /\ next[new[t]] = nullptr
  BY LinkAtTail
<1>2. next' = [next EXCEPT ![m_pTail] = new[t]] /\ m_pHead' = m_pHead
  BY <1>1 DEF EnqLink
<1>3. next \in [Obj -> Ptr] /\ IsList(next, m_pHead, Nodes)
  BY DEF Inv, Typed, Listed
<1>4. PICK n : n = next'
  OBVIOUS
<1>5. PICK q : q = Append(Nodes, new[t])
  OBVIOUS
<1>6. IsList(n, m_pHead, q) /\ Elems(q) = In \cup {new[t]}
  <2>1. Grows(next, n, m_pHead, Nodes, m_pTail, new[t], q)
    BY <1>1, <1>2, <1>3, <1>4, <1>5 DEF Grows, In
  <2>. QED
    BY SMT, <2>1, ListAppend DEF In
<1>7. Nodes' = q
  BY <1>2, <1>4, <1>6, WalksNext
<1>8. Listed'
  BY <1>2, <1>4, <1>6, <1>7 DEF Listed
<1>. QED
  BY <1>5, <1>6, <1>7, <1>8 DEF In

\* dequeue takes off the first node.
LEMMA QueueSwung ==
  ASSUME Walks', Inv, NEW t \in Thread, DeqSwing(t)
  PROVE  Nodes' = Tail(Nodes) /\ In' = In \ {m_pHead} /\ Listed'
<1>1. nxt[t] = next[m_pHead] /\ m_pHead # nullptr
  BY SwingAtHead
<1>2. m_pHead' = nxt[t] /\ next' = next
  BY DEF DeqSwing
<1>3. IsList(next, m_pHead, Nodes)
  BY DEF Inv, Listed
<1>4. IsList(next, next[m_pHead], Tail(Nodes)) /\ Elems(Tail(Nodes)) = Elems(Nodes) \ {m_pHead}
  BY <1>1, <1>3, ListTail
<1>5. IsList(next', m_pHead', Tail(Nodes))
  BY <1>1, <1>2, <1>4
<1>6. Nodes' = Tail(Nodes)
  BY <1>5, WalksNext
<1>7. Listed'
  BY <1>5, <1>6 DEF Listed
<1>. QED
  BY <1>4, <1>6, <1>7 DEF In

\* A node that is written because it is free, or is retired, is not in use.
LEMMA UnusedNode ==
  ASSUME Inv, NEW o \in Obj, status[o] # "linked"
  PROVE  /\ o # m_Dummy /\ o \notin In /\ \A t \in Thread : ~Has(t, o)
         /\ m_pHead # nullptr => m_pTail # o /\ next[m_pTail] # o
<1>1. Placed /\ Steady
  BY InvSteady DEF Inv
<1>2. o # m_Dummy /\ o \notin In /\ \A t \in Thread : ~Has(t, o)
  BY <1>1 DEF Placed
<1>3. ASSUME m_pHead # nullptr, next[m_pTail] = o PROVE FALSE
  <2>1. next[m_pTail] # nullptr
    BY <1>3, ConstantsAssumption
  <2>. QED
    BY <1>2, <1>3, <2>1, TailBehind
<1>4. m_pHead # nullptr => m_pTail # o
  BY <1>1 DEF Steady
<1>. QED
  BY <1>2, <1>3, <1>4

\* enqueue begins with a node that was free.
LEMMA StartFacts ==
  ASSUME Walks', Inv, NEW t \in Thread, NEW o \in Obj, EnqStart(t, o)
  PROVE  /\ status[o] = "free" /\ status' = [status EXCEPT ![o] = "linked"]
         /\ next' = [next EXCEPT ![o] = nullptr] /\ UNCHANGED <<m_pHead, m_pTail>>
         /\ pc[t] = "idle" /\ pc'[t] = "tail" /\ new'[t] = o
         /\ Nodes' = Nodes /\ In' = In /\ Listed' /\ m_pHead # nullptr
<1>1. /\ status[o] = "free" /\ status' = [status EXCEPT ![o] = "linked"]
      /\ next' = [next EXCEPT ![o] = nullptr] /\ UNCHANGED <<m_pHead, m_pTail>>
      /\ pc[t] = "idle" /\ pc'[t] = "tail" /\ new'[t] = o /\ m_pHead # nullptr
  BY DEF EnqStart, Goto, SMR!Publish, Inv, Typed
<1>2. o \notin In
  BY <1>1, UnusedNode
<1>3. \A x \in In : next'[x] = next[x]
  BY <1>1, <1>2, InvSteady DEF Threaded, Inv, Typed
<1>4. Nodes' = Nodes /\ In' = In /\ Listed'
  BY <1>1, <1>3, QueueKept DEF Inv
<1>. QED
  BY <1>1, <1>4

\* dequeue disposes of the old head, unless that is m_Dummy.
LEMMA DisposeFacts ==
  ASSUME Walks', Inv, NEW t \in Thread, DeqDispose(t)
  PROVE  /\ pc[t] = "dispose" /\ pc'[t] = "return" /\ UNCHANGED <<m_pHead, m_pTail, next, cur>>
         /\ Has(t, cur[t]) /\ cur[t] \in Obj
         /\ \A o \in Obj : status'[o] = IF o = cur[t] /\ o # m_Dummy THEN "retired" ELSE status[o]
         /\ Nodes' = Nodes /\ In' = In /\ Listed'
<1>1. pc[t] = "dispose" /\ pc'[t] = "return" /\ UNCHANGED <<m_pHead, m_pTail, next, cur>>
  BY DEF DeqDispose, Goto, queueVars, locals, Inv, Typed
<1>2. Has(t, cur[t]) /\ cur[t] \in Obj
  BY <1>1 DEF Has, Removed, Inv, Doing
<1>3. \A o \in Obj : status'[o] = IF o = cur[t] /\ o # m_Dummy THEN "retired" ELSE status[o]
  BY <1>2, ConstantsAssumption DEF DeqDispose, DisposeNode, gcVars, SMR!Replace
<1>4. Nodes' = Nodes /\ In' = In /\ Listed'
  BY <1>1, QueueKept DEF Inv
<1>. QED
  BY <1>1, <1>2, <1>3, <1>4

\* The garbage collector takes a node that is retired and under no guard.
LEMMA ReclaimFacts ==
  ASSUME Walks', Inv, NEW o \in Obj, Reclaim(o)
  PROVE  /\ status[o] = "retired" /\ \A t \in Thread : G0(t) # o /\ G1(t) # o
         /\ status' = [status EXCEPT ![o] = "free"] /\ next' = [next EXCEPT ![o] = nullptr]
         /\ UNCHANGED <<m_pHead, m_pTail, m_ItemCounter, pc, locals, protects>>
         /\ Nodes' = Nodes /\ In' = In /\ Listed'
<1>1. status' = [x \in Obj |-> IF x \in {o} THEN "free" ELSE status[x]]
  BY DEF Reclaim, SMR!Reclaim
<1>2. status' = [status EXCEPT ![o] = "free"]
  BY <1>1 DEF Inv, Typed
<1>3. o \notin SMR!Protected /\ status[o] = "retired"
  BY DEF Reclaim, SMR!Reclaim
<1>4. \A t \in Thread : G0(t) # o /\ G1(t) # o
  <2>1. \A g \in Thread \X {0, 1} : protects[g] # o
    BY <1>3, ConstantsAssumption DEF SMR!Protected
  <2>2. \A t \in Thread : <<t, 0>> \in Thread \X {0, 1} /\ <<t, 1>> \in Thread \X {0, 1}
    BY SMT
  <2>. QED
    BY <2>1, <2>2 DEF G0, G1
<1>5. /\ next' = [next EXCEPT ![o] = nullptr]
      /\ UNCHANGED <<m_pHead, m_pTail, m_ItemCounter, pc, locals, protects>>
  BY DEF Reclaim, SMR!Reclaim
<1>6. o \notin In
  BY <1>3, UnusedNode
<1>7. \A x \in In : next'[x] = next[x]
  BY <1>5, <1>6, InvSteady DEF Threaded, Inv, Typed
<1>8. Nodes' = Nodes /\ In' = In /\ Listed'
  BY <1>5, <1>7, QueueKept DEF Inv
<1>. QED
  BY <1>2, <1>3, <1>4, <1>5, <1>8

-----------------------------------------------------------------------------
(* Every node is in one place *)

\* A thread that does not move has what it had.
LEMMA SameHas ==
  ASSUME NEW u \in Thread, Same(u), moir' = moir
  PROVE  /\ Fresh(u)' <=> Fresh(u)
         /\ Removed(u)' <=> Removed(u)
         /\ Late(u)' <=> Late(u)
         /\ Pushing(u)' <=> Pushing(u)
         /\ Seeks(u)' <=> Seeks(u)
         /\ new'[u] = new[u] /\ cur'[u] = cur[u]
         /\ \A o : Has(u, o)' <=> Has(u, o)
  BY DEF Same, Fresh, Removed, Late, Pushing, Seeks, Has

\* The same of a thread that keeps what it has.
LEMMA KeepsHas ==
  ASSUME NEW t \in Thread, Keeps(t)
  PROVE  \A o : Has(t, o)' <=> Has(t, o)
  BY DEF Keeps, Has

\* A step of one thread leaves every node in one place.
LEMMA PlacedOne ==
  ASSUME Walks', Inv, NEW t \in Thread, Kinds(t), moir' = moir, Steps(t)
  PROVE  Placed' /\ Listed'
<1>0. Placed /\ Listed /\ Doing(t) /\ Typed
  BY DEF Inv
<1>1. \A u \in Thread \ {t} : \A o \in Obj : Has(u, o)' <=> Has(u, o)
  BY SameHas DEF Steps
<1>2. CASE Still(t) \/ Helps(t)
  <2>1. UNCHANGED <<m_pHead, next, status>> /\ \A o \in Obj : Has(t, o)' <=> Has(t, o)
    BY <1>2, KeepsHas DEF Still, Helps
  <2>2. In' = In /\ Listed'
    BY <1>0, <2>1, QueueKept
  <2>3. \A u \in Thread : \A o \in Obj : Has(u, o)' <=> Has(u, o)
    BY <1>1, <2>1
  <2>. QED
    BY <1>0, <2>1, <2>2, <2>3 DEF Placed
<1>3. ASSUME NEW o \in Obj, EnqStart(t, o) PROVE Placed' /\ Listed'
  <2>1. /\ status[o] = "free" /\ status' = [status EXCEPT ![o] = "linked"]
        /\ pc[t] = "idle" /\ pc'[t] = "tail" /\ new'[t] = o /\ In' = In /\ Listed'
    BY <1>3, StartFacts
  <2>2. o # m_Dummy /\ o \notin In /\ \A u \in Thread : ~Has(u, o)
    BY <2>1, UnusedNode
  <2>3. \A x \in Obj : ~Has(t, x) /\ (Has(t, x)' <=> x = o)
    BY <2>1 DEF Has, Fresh, Removed, Late
  <2>4. \A x \in Obj : status'[x] = IF x = o THEN "linked" ELSE status[x]
    BY <1>0, <2>1 DEF Typed
  <2>. QED
    BY SMT, <1>0, <1>1, <2>1, <2>2, <2>3, <2>4, ConstantsAssumption DEF Placed
<1>4. CASE EnqLink(t)
  <2>1. pc[t] = "link" /\ pc'[t] = "enqueued" /\ status' = status
    BY <1>0, <1>4 DEF EnqLink, Goto, gcVars, Typed
  <2>2. In' = In \cup {new[t]} /\ Listed' /\ new[t] \in Obj
    BY <1>4, QueueLinked, LinkAtTail
  <2>3. \A x \in Obj : (Has(t, x) <=> x = new[t]) /\ ~Has(t, x)'
    BY <2>1 DEF Has, Fresh, Removed, Late
  <2>4. \A u \in Thread \ {t} : \A x \in Obj : Has(u, x)' => x \notin In /\ x # new[t]
    BY <1>0, <1>1, <2>3 DEF Placed
  <2>. QED
    BY SMT, <1>0, <1>1, <2>1, <2>2, <2>3, <2>4 DEF Placed
<1>5. CASE DeqSwing(t)
  <2>1. pc[t] = "swing" /\ pc'[t] = IF moir THEN "lag" ELSE "dequeued"
    BY <1>0, <1>5 DEF DeqSwing, Goto, Typed
  <2>2. status' = status /\ cur' = cur
    BY <1>5 DEF DeqSwing, gcVars, locals
  <2>3. In' = In \ {m_pHead} /\ Listed' /\ cur[t] = m_pHead /\ m_pHead \in In
    BY <1>5, QueueSwung, SwingAtHead
  <2>4. \A x \in Obj : ~Has(t, x)
    BY <2>1 DEF Has, Fresh, Removed, Late
  <2>5. \A x \in Obj : Has(t, x)' <=> x = m_pHead
    BY <2>1, <2>2, <2>3 DEF Has, Fresh, Removed, Late
  <2>6. \A u \in Thread \ {t} : \A x \in Obj : Has(u, x)' => x \notin In /\ x # m_pHead
    BY <1>0, <1>1, <2>3 DEF Placed
  <2>. QED
    BY SMT, <1>0, <1>1, <2>2, <2>3, <2>4, <2>5, <2>6 DEF Placed
<1>6. CASE DeqDispose(t)
  <2>1. /\ pc[t] = "dispose" /\ pc'[t] = "return" /\ Has(t, cur[t]) /\ cur[t] \in Obj
        /\ \A o \in Obj : status'[o] = IF o = cur[t] /\ o # m_Dummy THEN "retired" ELSE status[o]
        /\ In' = In /\ Listed'
    BY <1>6, DisposeFacts
  <2>2. \A x \in Obj : (Has(t, x) <=> x = cur[t]) /\ ~Has(t, x)'
    BY <2>1 DEF Has, Fresh, Removed, Late
  <2>3. \A u \in Thread \ {t} : ~Has(u, cur[t])
    BY <1>0, <2>1 DEF Placed
  <2>. QED
    BY SMT, <1>0, <1>1, <2>1, <2>2, <2>3, ConstantsAssumption DEF Placed
<1>. QED
  BY <1>2, <1>3, <1>4, <1>5, <1>6 DEF Kinds

-----------------------------------------------------------------------------
(* The guards *)

\* What Guarded says of a node under a first guard.
Good(o) ==
  /\ status[o] # "free"
  /\ \A u \in Thread : Fresh(u) => new[u] # o
  /\ next[o] = nullptr => o \in In

\* A step of a thread frees no node.
LEMMA NotFreed ==
  ASSUME Walks', Inv, NEW t \in Thread, Kinds(t), moir' = moir, NEW o \in Obj, status[o] # "free"
  PROVE  status'[o] # "free"
<1>1. CASE Still(t) \/ Helps(t)
  BY <1>1 DEF Still, Helps
<1>2. ASSUME NEW x \in Obj, EnqStart(t, x) PROVE status'[o] # "free"
  BY SMT, <1>2, StartFacts DEF Inv, Typed
<1>3. CASE EnqLink(t) \/ DeqSwing(t)
  BY <1>3 DEF EnqLink, DeqSwing, gcVars
<1>4. CASE DeqDispose(t)
  BY <1>4, DisposeFacts
<1>. QED
  BY <1>1, <1>2, <1>3, <1>4 DEF Kinds

\* A node that is good for a guard stays so.
LEMMA GoodKept ==
  ASSUME Walks', Inv, NEW t \in Thread, Kinds(t), moir' = moir, Steps(t), NEW o \in Obj, Good(o)
  PROVE  Good(o)'
<1>0. Listed /\ Typed /\ status'[o] # "free"
  BY NotFreed DEF Inv, Good
<1>1. ASSUME NEW u \in Thread \ {t}, Fresh(u)' PROVE new'[u] # o
  BY <1>1, SameHas DEF Good, Steps
<1>2. SUFFICES (Fresh(t)' => new'[t] # o) /\ (next'[o] = nullptr => o \in In')
  BY <1>0, <1>1 DEF Good
<1>3. CASE Still(t) \/ Helps(t)
  <2>1. m_pHead' = m_pHead /\ next' = next /\ Keeps(t)
    BY <1>3 DEF Still, Helps
  <2>2. In' = In
    BY <1>0, <2>1, QueueKept
  <2>. QED
    BY <2>1, <2>2 DEF Good, Keeps
<1>4. ASSUME NEW x \in Obj, EnqStart(t, x) PROVE (Fresh(t)' => new'[t] # o) /\ (next'[o] = nullptr => o \in In')
  <2>1. status[x] = "free" /\ next' = [next EXCEPT ![x] = nullptr] /\ new'[t] = x /\ In' = In
    BY <1>4, StartFacts
  <2>2. x # o
    BY <2>1 DEF Good
  <2>. QED
    BY <1>0, <2>1, <2>2 DEF Good, Typed
<1>5. CASE EnqLink(t)
  <2>1. pc'[t] = "enqueued" /\ next' = [next EXCEPT ![m_pTail] = new[t]]
    BY <1>0, <1>5, LinkAtTail DEF EnqLink, Goto, Typed
  <2>2. In' = In \cup {new[t]} /\ new[t] \in Obj /\ m_pTail \in In
    BY <1>5, QueueLinked, LinkAtTail
  <2>. QED
    BY <1>0, <2>1, <2>2 DEF Good, Fresh, Typed
<1>6. CASE DeqSwing(t)
  <2>1. pc'[t] \in {"lag", "dequeued"} /\ next' = next
    BY <1>0, <1>6 DEF DeqSwing, Goto, Typed
  <2>2. In' = In \ {m_pHead} /\ next[m_pHead] = nxt[t] /\ nxt[t] # nullptr
    BY <1>6, QueueSwung, SwingAtHead DEF DeqSwing
  <2>. QED
    BY <2>1, <2>2 DEF Good, Fresh
<1>7. CASE DeqDispose(t)
  <2>1. pc'[t] = "return" /\ next' = next /\ In' = In
    BY <1>7, DisposeFacts
  <2>. QED
    BY <2>1 DEF Good, Fresh
<1>. QED
  BY <1>3, <1>4, <1>5, <1>6, <1>7 DEF Kinds

\* The head and the tail are good for a guard.
LEMMA EndsGood ==
  ASSUME Inv, m_pHead # nullptr
  PROVE  Good(m_pHead) /\ Good(m_pTail)
<1>1. Steady /\ Threaded(next, m_pHead, In) /\ TailAt /\ Placed
  BY InvSteady DEF Inv, Tailed
<1>2. m_pHead \in In /\ m_pHead \in Obj /\ m_pTail \in Obj
  BY <1>1 DEF Threaded, Steady
<1>3. ASSUME NEW o \in In, o \in Obj, NEW u \in Thread, Fresh(u), new[u] = o PROVE FALSE
  <2>1. Has(u, o)
    BY <1>3 DEF Has
  <2>. QED
    BY <1>1, <1>3, <2>1 DEF Placed
<1>4. Good(m_pHead)
  BY <1>1, <1>2, <1>3 DEF Good, Steady
<1>5. ASSUME NEW u \in Thread, Fresh(u), new[u] = m_pTail, NEW v \in Thread, Late(v), cur[v] = m_pTail PROVE FALSE
  <2>1. Has(u, m_pTail) /\ Has(v, m_pTail)
    BY <1>5 DEF Has, Removed
  <2>2. u = v
    BY <1>1, <1>2, <2>1 DEF Placed
  <2>. QED
    BY <1>5, <2>2 DEF Fresh, Late
<1>6. next[m_pTail] = nullptr => m_pTail \in In
  <2>1. ASSUME next[m_pTail] \in In PROVE next[m_pTail] # nullptr
    BY <1>1, <2>1, ConstantsAssumption DEF Threaded
  <2>. QED
    BY <1>1, <2>1 DEF TailAt
<1>7. m_pTail \in In \/ \E v \in Thread : Late(v) /\ cur[v] = m_pTail
  BY <1>1 DEF TailAt
<1>8. Good(m_pTail)
  BY <1>1, <1>2, <1>3, <1>5, <1>6, <1>7 DEF Good, Steady
<1>. QED
  BY <1>4, <1>8

\* What a thread sets its guards to.
GuardMoves(t) ==
  /\ G0(t)' \in {G0(t), nullptr} \/ (m_pHead # nullptr /\ G0(t)' \in {m_pHead, m_pTail})
  /\ G1(t)' \in {G1(t), nullptr} \/ (G1(t)' \in Obj /\ status[G1(t)'] = "linked")

\* The guards of enqueue and dequeue.
LEMMA GuardSteps ==
  ASSUME Inv, NEW t \in Thread, EnqStep(t) \/ DeqStep(t)
  PROVE  GuardMoves(t)
<1>. USE DEF GuardMoves, gcVars
<1>0. Typed /\ Doing(t)
  BY DEF Inv
<1>1. CASE protects' = protects
  BY <1>1 DEF G0, G1
<1>2. CASE Assign(t, "tail", 0) \/ Assign(t, "head", 0)
  BY <1>0, <1>2, Released DEF Assign, Guards01
<1>3. CASE Assign(t, "headnext", 1)
  BY <1>0, <1>3, Released DEF Assign, Guards01
<1>4. CASE EnqProtect(t)
  <2>1. m_pTail \in Ptr /\ m_pHead # nullptr
    BY <1>0, <1>4 DEF EnqProtect, Doing, Typed
  <2>. QED
    BY <1>0, <1>4, <2>1, Protecting DEF EnqProtect, Guards01
<1>5. CASE DeqHead(t)
  <2>1. m_pHead \in Ptr /\ m_pHead # nullptr
    BY <1>0, <1>5 DEF DeqHead, Doing, Typed
  <2>. QED
    BY <1>0, <1>5, <2>1, Protecting DEF DeqHead, Guards01
<1>6. CASE DeqNext(t)
  <2>1. next[cur[t]] \in Ptr
    BY <1>0, <1>6 DEF DeqNext, Doing, Typed
  <2>2. Guards01(t, G0(t), IF next[cur[t]] # nullptr /\ status[next[cur[t]]] = "linked" THEN next[cur[t]] ELSE nullptr)
    BY <1>0, <1>6, <2>1, Protecting DEF DeqNext
  <2>. QED
    BY <2>1, <2>2 DEF Guards01, Ptr
<1>7. CASE Return(t)
  BY <1>0, <1>7, Released DEF Return, Guards01
<1>8. CASE EnqStep(t)
  BY <1>1, <1>2, <1>4, <1>7, <1>8 DEF EnqStep, EnqStart, SMR!Publish, EnqNext, EnqHelp, EnqHelpFail, EnqLink, EnqLinkFail,
     EnqCount, EnqAdvance
<1>9. CASE DeqStep(t)
  BY <1>1, <1>2, <1>3, <1>5, <1>6, <1>7, <1>9 DEF DeqStep, DeqStart, DeqCheck, DeqCheckFail, DeqEmpty, DeqLag, DeqHelp,
     DeqSwing, DeqSwingFail, DeqCount, DeqValue, DeqDispose, DisposeNode, SMR!Replace, DeqReturn
<1>. QED
  BY <1>8, <1>9

\* Guarded, in terms of Good.
LEMMA GuardedIs ==
  \A v \in Thread : Guarded(v) <=> (G0(v) # nullptr => Good(G0(v))) /\ (G1(v) # nullptr => status[G1(v)] # "free")
  BY DEF Guarded, Good

\* The guards after a step of a thread.
LEMMA GuardedOne ==
  ASSUME Walks', Inv, NEW t \in Thread, EnqStep(t) \/ DeqStep(t), Kinds(t), moir' = moir, Steps(t), NEW u \in Thread
  PROVE  Guarded(u)'
<1>2. SUFFICES (G0(u)' # nullptr => Good(G0(u))') /\ (G1(u)' # nullptr => status'[G1(u)'] # "free")
  BY DEF Guarded, Good
<1>3. Guarded(u) /\ G0(u)' \in Ptr /\ G1(u)' \in Ptr
  <2>1. <<u, 0>> \in Thread \X {0, 1} /\ <<u, 1>> \in Thread \X {0, 1}
    BY SMT
  <2>. QED
    BY <2>1 DEF Inv, Steps, Typed, G0, G1
<1>4. PICK a, b : a = G0(u)' /\ b = G1(u)'
  OBVIOUS
<1>5. a = nullptr \/ (a \in Obj /\ Good(a))
  <2>1. a \in {G0(u), nullptr} \/ (m_pHead # nullptr /\ a \in {m_pHead, m_pTail})
    BY <1>4, GuardSteps DEF Steps, Same, GuardMoves
  <2>. QED
    BY <1>3, <1>4, <2>1, GuardedIs, EndsGood DEF Ptr
<1>6. b = nullptr \/ (b \in Obj /\ status[b] # "free")
  <2>1. b \in {G1(u), nullptr} \/ (b \in Obj /\ status[b] = "linked")
    BY <1>4, GuardSteps DEF Steps, Same, GuardMoves
  <2>. QED
    BY <1>3, <1>4, <2>1 DEF Guarded, Ptr
<1>7. a = nullptr \/ Good(a)'
  BY <1>5, GoodKept
<1>8. b = nullptr \/ status'[b] # "free"
  BY <1>6, NotFreed
<1>9. a # nullptr => Good(G0(u))'
  BY <1>4, <1>7 DEF Good
<1>. QED
  BY <1>4, <1>8, <1>9

-----------------------------------------------------------------------------
(* The tail *)

\* The tail after a step of a thread.
LEMMA TailedOne ==
  ASSUME Walks', Inv, NEW t \in Thread, Kinds(t), moir' = moir, Steps(t), m_pHead # nullptr
  PROVE  Tailed' /\ m_pHead' # nullptr
<1>0. Listed /\ Typed /\ TailAt /\ m_pTail \in Obj /\ Threaded(next, m_pHead, In)
  BY InvSteady DEF Inv, Tailed
<1>1. \A u \in Thread \ {t} : (Pushing(u)' <=> Pushing(u)) /\ (Late(u)' <=> Late(u)) /\ cur'[u] = cur[u]
  BY SameHas DEF Steps
<1>2. CASE Still(t)
  <2>1. UNCHANGED <<m_pHead, m_pTail, next>>
    BY <1>2 DEF Still
  <2>2. In' = In
    BY <1>0, <2>1, QueueKept
  <2>3. \A u \in Thread : Pushing(u) /\ cur[u] = m_pTail => Pushing(u)' /\ cur'[u] = m_pTail
    BY <1>1, <1>2 DEF Still
  <2>4. \A u \in Thread : Late(u) /\ cur[u] = m_pTail => Late(u)' /\ cur'[u] = m_pTail
    BY <1>1, <1>2 DEF Still
  <2>5. TailAt'
    BY <1>0, <2>1, <2>2, <2>3, <2>4 DEF TailAt
  <2>. QED
    BY <1>0, <2>1, <2>5 DEF Tailed
<1>3. CASE Helps(t)
  <2>1. UNCHANGED <<m_pHead, next>> /\ next[m_pTail] # nullptr /\ m_pTail' = next[m_pTail]
    BY <1>3 DEF Helps
  <2>2. In' = In
    BY <1>0, <2>1, QueueKept
  <2>3. next[m_pTail] \in In /\ next[next[m_pTail]] = nullptr /\ next[m_pTail] \in Obj
    BY <2>1, TailBehind
  <2>. QED
    BY <2>1, <2>2, <2>3 DEF Tailed, TailAt
<1>4. ASSUME NEW o \in Obj, EnqStart(t, o) PROVE Tailed' /\ m_pHead' # nullptr
  <2>1. /\ status[o] = "free" /\ next' = [next EXCEPT ![o] = nullptr] /\ UNCHANGED <<m_pHead, m_pTail>>
        /\ pc[t] = "idle" /\ In' = In
    BY <1>4, StartFacts
  <2>2. o # m_pTail /\ o # next[m_pTail]
    BY <2>1, UnusedNode
  <2>3. next'[m_pTail] = next[m_pTail]
    BY <1>0, <2>1, <2>2 DEF Typed
  <2>4. next[m_pTail] \in In => next'[next[m_pTail]] = next[next[m_pTail]]
    BY <1>0, <2>1, <2>2 DEF Typed, Threaded
  <2>5. ~Pushing(t) /\ ~Late(t)
    BY <2>1 DEF Pushing, Late
  <2>6. TailAt'
    BY SMT, <1>0, <1>1, <2>1, <2>3, <2>4, <2>5 DEF TailAt
  <2>. QED
    BY <1>0, <2>1, <2>6 DEF Tailed
<1>5. CASE EnqLink(t)
  <2>1. cur[t] = m_pTail /\ m_pTail \in In /\ new[t] \in Obj /\ next[new[t]] = nullptr /\ new[t] # m_pTail
    BY <1>5, LinkAtTail
  <2>2. /\ pc'[t] = "enqueued" /\ cur' = cur /\ UNCHANGED <<m_pHead, m_pTail>>
        /\ next' = [next EXCEPT ![m_pTail] = new[t]]
    BY <1>0, <1>5, <2>1 DEF EnqLink, Goto, locals, Typed
  <2>3. In' = In \cup {new[t]}
    BY <1>5, QueueLinked
  <2>4. next'[m_pTail] = new[t] /\ next'[new[t]] = nullptr
    BY <1>0, <2>1, <2>2 DEF Typed
  <2>5. Pushing(t)'
    BY <2>2 DEF Pushing
  <2>6. TailAt'
    BY <2>1, <2>2, <2>3, <2>4, <2>5 DEF TailAt
  <2>. QED
    BY <1>0, <2>2, <2>6 DEF Tailed
<1>6. CASE DeqSwing(t)
  <2>1. cur[t] = m_pHead /\ m_pHead \in In /\ nxt[t] = next[m_pHead] /\ nxt[t] \in Obj /\ nxt[t] # nullptr
    BY <1>6, SwingAtHead DEF DeqSwing
  <2>2. pc[t] = "swing" /\ pc'[t] = (IF moir THEN "lag" ELSE "dequeued") /\ cur' = cur
    BY <1>0, <1>6 DEF DeqSwing, Goto, locals, Typed
  <2>3. UNCHANGED <<m_pTail, next>> /\ m_pHead' = nxt[t]
    BY <1>6 DEF DeqSwing
  <2>4. In' = In \ {m_pHead}
    BY <1>6, QueueSwung
  <2>5. ~Pushing(t) /\ ~Late(t)
    BY <2>2 DEF Pushing, Late
  <2>6. next[m_pTail] \in In /\ m_pTail \in In => next[m_pTail] # m_pHead
    BY <1>0 DEF Threaded
  <2>7. CASE m_pTail = m_pHead
    <3>1. moir
      BY <2>1, <2>2, <2>7 DEF Inv, At
    <3>2. Late(t)'
      BY <2>2, <3>1 DEF Late
    <3>3. next[m_pTail] \in In /\ next[next[m_pTail]] = nullptr /\ next[m_pTail] # m_pHead
      BY <1>0, <2>1, <2>7, TailBehind DEF Threaded
    <3>4. \E u \in Thread : Pushing(u)' /\ cur'[u] = m_pTail
      BY <1>0, <1>1, <2>1, <2>5, <2>7 DEF TailAt
    <3>5. TailAt'
      BY <2>1, <2>2, <2>3, <2>4, <2>7, <3>2, <3>3, <3>4 DEF TailAt
    <3>. QED
      BY <1>0, <2>1, <2>3, <3>5 DEF Tailed
  <2>8. CASE m_pTail # m_pHead
    <3>1. m_pTail \in In
      BY <1>0, <2>1 DEF TailAt
    <3>2. TailAt'
      BY <1>0, <1>1, <2>3, <2>4, <2>5, <2>6, <2>8, <3>1 DEF TailAt
    <3>. QED
      BY <1>0, <2>1, <2>3, <3>2 DEF Tailed
  <2>. QED
    BY <2>7, <2>8
<1>7. CASE DeqDispose(t)
  <2>1. pc[t] = "dispose" /\ UNCHANGED <<m_pHead, m_pTail, next>> /\ In' = In
    BY <1>7, DisposeFacts
  <2>2. ~Pushing(t) /\ ~Late(t)
    BY <2>1 DEF Pushing, Late
  <2>3. TailAt'
    BY <1>0, <1>1, <2>1, <2>2 DEF TailAt
  <2>. QED
    BY <1>0, <2>1, <2>3 DEF Tailed
<1>. QED
  BY <1>2, <1>3, <1>4, <1>5, <1>6, <1>7 DEF Kinds

-----------------------------------------------------------------------------
(* The thread that takes the step *)

\* A queue whose head has no successor is empty.
LEMMA EmptyItems == Listed /\ m_pHead # nullptr /\ next[m_pHead] = nullptr => Items = <<>>
<1> SUFFICES ASSUME Listed, m_pHead # nullptr, next[m_pHead] = nullptr PROVE Items = <<>>
  OBVIOUS
<1>1. Nodes # <<>> /\ IsList(next, next[m_pHead], Tail(Nodes))
  BY ListTail DEF Listed
<1>2. Tail(Nodes) = <<>>
  BY <1>1, ListEmpty
<1>. QED
  BY <1>1, <1>2 DEF Items

\* The steps of enqueue.
LEMMA EnqOwn ==
  ASSUME Walks', Inv, NEW t \in Thread, EnqStep(t), moir' = moir
  PROVE  Reads(t)' /\ At(t)'
<1>. USE DEF Reads, At, Fresh, Pushing, Late, Removed, Seeks
<1>0. Typed /\ Doing(t) /\ Reads(t) /\ At(t)
  BY DEF Inv
<1>1. ASSUME NEW o \in Obj, EnqStart(t, o) PROVE Reads(t)' /\ At(t)'
  <2>1. next' = [next EXCEPT ![o] = nullptr] /\ pc'[t] = "tail" /\ new'[t] = o
    BY <1>1, StartFacts
  <2>2. next'[new'[t]] = nullptr
    BY <1>0, <2>1 DEF Typed
  <2>. QED
    BY <2>1, <2>2
<1>2. CASE Assign(t, "tail", 0)
  BY <1>0, <1>2 DEF Assign, queueVars, locals
<1>3. CASE EnqProtect(t)
  <2>1. /\ pc[t] = "tail" /\ pc'[t] = "tailnext" /\ cur'[t] = m_pTail /\ new'[t] = new[t]
        /\ UNCHANGED <<m_pTail, next>>
    BY <1>0, <1>3 DEF EnqProtect, Goto, queueVars, Typed
  <2>2. ASSUME next[m_pTail] # nullptr PROVE m_pTail # next[m_pTail]
    <3>1. m_pHead # nullptr
      BY <1>0, <2>1 DEF Doing
    <3>. QED
      BY <2>2, <3>1, TailBehind
  <2>. QED
    BY <1>0, <2>1, <2>2
<1>4. CASE EnqNext(t)
  <2>1. /\ pc[t] = "tailnext" /\ pc'[t] = (IF next[cur[t]] # nullptr THEN "tailhelp" ELSE "link")
        /\ cur'[t] = cur[t] /\ new'[t] = new[t] /\ nxt'[t] = next[cur[t]] /\ UNCHANGED <<m_pTail, next>>
    BY <1>0, <1>4 DEF EnqNext, Goto, queueVars, Typed
  <2>2. CASE next[cur[t]] # nullptr
    BY <1>0, <2>1, <2>2
  <2>3. CASE next[cur[t]] = nullptr
    BY <1>0, <2>1, <2>3
  <2>. QED
    BY <2>2, <2>3
<1>5. CASE EnqHelp(t) \/ EnqHelpFail(t) \/ EnqLinkFail(t)
  <2>1. pc[t] \in {"tailhelp", "link"} /\ pc'[t] = "tail" /\ new'[t] = new[t] /\ next' = next
    BY <1>0, <1>5 DEF EnqHelp, EnqHelpFail, EnqLinkFail, Retry, Goto, queueVars, Typed
  <2>. QED
    BY <1>0, <2>1
<1>6. CASE EnqLink(t)
  <2>1. pc'[t] = "enqueued" /\ cur'[t] = cur[t] /\ new'[t] = new[t] /\ next'[cur[t]] = new[t]
    <3>1. pc[t] = "link" /\ pc'[t] = "enqueued" /\ cur'[t] = cur[t] /\ new'[t] = new[t] /\ next' = [next EXCEPT ![cur[t]] = new[t]]
      BY <1>0, <1>6 DEF EnqLink, Goto, locals, Typed
    <3>2. cur[t] \in Obj
      BY <1>0, <3>1 DEF Doing
    <3>. QED
      BY <1>0, <3>1, <3>2 DEF Typed
  <2>. QED
    BY <2>1
<1>7. CASE EnqCount(t)
  <2>1. pc[t] = "enqueued" /\ pc'[t] = "advance" /\ cur'[t] = cur[t] /\ new'[t] = new[t] /\ next' = next
    BY <1>0, <1>7 DEF EnqCount, Goto, queueVars, locals, Typed
  <2>. QED
    BY <1>0, <2>1
<1>8. CASE EnqAdvance(t)
  <2>1. pc'[t] = "idle"
    BY <1>0, <1>8 DEF EnqAdvance, Return, Goto, Typed
  <2>. QED
    BY <2>1
<1>. QED
  BY <1>1, <1>2, <1>3, <1>4, <1>5, <1>6, <1>7, <1>8 DEF EnqStep

\* dequeue reads the successor of its node, and guards it.
LEMMA NextOwn ==
  ASSUME Walks', Inv, NEW t \in Thread, DeqNext(t), moir' = moir
  PROVE  Reads(t)' /\ At(t)'
<1>0. Typed /\ Doing(t) /\ At(t) /\ Guarded(t) /\ Listed /\ Threaded(next, m_pHead, In) /\ Placed
  BY InvSteady DEF Inv
<1>1. /\ pc[t] = "headnext" /\ pc'[t] = (IF moir THEN "swing" ELSE "check")
      /\ cur'[t] = cur[t] /\ nxt'[t] = next[cur[t]] /\ UNCHANGED <<m_pHead, m_pTail, next>>
  BY <1>0 DEF DeqNext, Goto, queueVars, Typed
<1>2. cur[t] \in Obj /\ G0(t) = cur[t] /\ m_pHead # nullptr /\ next[cur[t]] \in Ptr /\ cur[t] # nullptr
  BY <1>0, <1>1, ConstantsAssumption DEF Doing, Typed
<1>3. In' = In
  BY <1>0, <1>1, QueueKept
<1>4. cur[t] \in In => cur[t] = m_pHead
  BY <1>0, <1>1 DEF At
<1>5. ASSUME cur[t] = m_pHead, next[cur[t]] # nullptr PROVE G1(t)' = next[cur[t]]
  <2>1. next[cur[t]] \in In /\ next[cur[t]] \in Obj
    BY <1>0, <1>2, <1>5 DEF Threaded
  <2>2. status[next[cur[t]]] = "linked"
    BY <1>0, <2>1, InUse
  <2>3. Guards01(t, G0(t), next[cur[t]])
    BY <1>0, <1>2, <1>5, <2>2, Protecting DEF DeqNext
  <2>. QED
    BY <2>3 DEF Guards01
<1>6. ASSUME next[cur[t]] = nullptr PROVE saw'[t] = TRUE
  <2>1. cur[t] \in In
    BY <1>0, <1>2, <1>6 DEF Guarded
  <2>2. Items = <<>>
    BY <1>0, <1>2, <1>4, <1>6, <2>1, EmptyItems
  <2>. QED
    BY <1>0, <2>2 DEF DeqNext, Typed
<1>7. CASE moir
  BY <1>1, <1>3, <1>4, <1>5, <1>6, <1>7 DEF Reads, At, Fresh, Pushing, Late, Removed, Seeks
<1>8. CASE ~moir
  BY <1>1, <1>3, <1>4, <1>5, <1>6, <1>8 DEF Reads, At, Fresh, Pushing, Late, Removed, Seeks
<1>. QED
  BY <1>7, <1>8

\* The other steps of dequeue.
LEMMA DeqOwn ==
  ASSUME Walks', Inv, NEW t \in Thread, DeqStep(t), moir' = moir
  PROVE  Reads(t)' /\ At(t)'
<1>. USE DEF Reads, At, Fresh, Pushing, Late, Removed, Seeks
<1>0. Typed /\ Doing(t) /\ Reads(t) /\ At(t) /\ Listed
  BY DEF Inv
<1>1. CASE DeqStart(t) \/ Assign(t, "head", 0) \/ DeqCheckFail(t) \/ DeqSwingFail(t)
  <2>1. pc'[t] = "head"
    BY <1>0, <1>1 DEF DeqStart, Assign, DeqCheckFail, DeqSwingFail, Retry, Goto, Typed
  <2>. QED
    BY <2>1
<1>2. CASE DeqEmpty(t) \/ DeqReturn(t) \/ DeqDispose(t)
  <2>1. pc'[t] \in {"idle", "return"}
    BY <1>0, <1>2 DEF DeqEmpty, DeqReturn, DeqDispose, Return, Goto, Typed
  <2>. QED
    BY <2>1
<1>3. CASE DeqHead(t)
  <2>1. pc'[t] = "headnext" /\ cur'[t] = m_pHead /\ m_pHead' = m_pHead
    BY <1>0, <1>3 DEF DeqHead, Goto, queueVars, Typed
  <2>. QED
    BY <2>1
<1>4. CASE Assign(t, "headnext", 1)
  <2>1. pc[t] = "headnext" /\ UNCHANGED <<pc, cur, m_pHead, next>>
    BY <1>4 DEF Assign, queueVars, locals
  <2>2. In' = In
    BY <1>0, <2>1, QueueKept
  <2>. QED
    BY <1>0, <2>1, <2>2
<1>5. CASE DeqNext(t)
  BY <1>5, NextOwn
<1>6. CASE DeqCheck(t)
  <2>1. /\ pc[t] = "check" /\ pc'[t] = (IF nxt[t] = nullptr THEN "swing" ELSE "lag")
        /\ UNCHANGED <<m_pHead, m_pTail, next, cur, nxt, saw, protects>>
    BY <1>0, <1>6 DEF DeqCheck, Goto, queueVars, locals, gcVars, Typed
  <2>2. In' = In
    BY <1>0, <2>1, QueueKept
  <2>3. ~moir /\ ~moir' /\ G1(t)' = G1(t)
    BY <1>0, <2>1 DEF Doing, G1
  <2>4. CASE nxt[t] = nullptr
    BY <1>0, <2>1, <2>2, <2>3, <2>4
  <2>5. CASE nxt[t] # nullptr
    BY <1>0, <2>1, <2>2, <2>3, <2>5
  <2>. QED
    BY <2>4, <2>5
<1>7. CASE DeqLag(t)
  <2>1. /\ pc[t] = "lag" /\ UNCHANGED <<m_pHead, m_pTail, next, cur, nxt, saw, protects>>
        /\ pc'[t] = IF m_pTail = cur[t] THEN "lagging" ELSE IF moir THEN "dequeued" ELSE "swing"
    BY <1>0, <1>7 DEF DeqLag, Goto, queueVars, locals, gcVars, Typed
  <2>2. In' = In /\ G1(t)' = G1(t) /\ nxt[t] # nullptr
    BY <1>0, <2>1, QueueKept, ConstantsAssumption DEF G1, Doing
  <2>3. CASE moir
    <3>1. pc'[t] = "lagging" \/ pc'[t] = "dequeued"
      BY <2>1, <2>3
    <3>. QED
      BY <1>0, <2>1, <2>2, <2>3, <3>1
  <2>4. CASE ~moir /\ m_pTail = cur[t]
    BY <1>0, <2>1, <2>2, <2>4
  <2>5. CASE ~moir /\ m_pTail # cur[t]
    BY <1>0, <2>1, <2>2, <2>5
  <2>. QED
    BY <2>3, <2>4, <2>5
<1>8. CASE DeqHelp(t)
  <2>1. pc[t] = "lagging" /\ next' = next
    BY <1>8 DEF DeqHelp
  <2>2. CASE moir
    <3>1. pc'[t] = "dequeued" /\ UNCHANGED <<cur, nxt, protects>>
      BY <1>0, <1>8, <2>2 DEF DeqHelp, Goto, locals, gcVars, Typed
    <3>2. G1(t)' = G1(t)
      BY <3>1 DEF G1
    <3>. QED
      BY <1>0, <2>1, <2>2, <3>1, <3>2
  <2>3. CASE ~moir
    <3>1. pc'[t] = "head"
      BY <1>0, <1>8, <2>3 DEF DeqHelp, Retry, Goto, Typed
    <3>. QED
      BY <3>1
  <2>. QED
    BY <2>2, <2>3
<1>9. CASE DeqSwing(t)
  <2>1. /\ pc[t] = "swing" /\ pc'[t] = (IF moir THEN "lag" ELSE "dequeued") /\ nxt[t] # nullptr /\ cur[t] = m_pHead
        /\ UNCHANGED <<next, cur, nxt, protects>>
    BY <1>0, <1>9 DEF DeqSwing, Goto, locals, gcVars, Typed
  <2>2. G1(t)' = G1(t)
    BY <2>1 DEF G1
  <2>3. CASE moir
    BY <1>0, <2>1, <2>2, <2>3
  <2>4. CASE ~moir
    BY <1>0, <2>1, <2>2, <2>4
  <2>. QED
    BY <2>3, <2>4
<1>10. CASE DeqCount(t)
  <2>1. pc[t] = "dequeued" /\ pc'[t] = "value" /\ UNCHANGED <<next, cur, nxt, protects>>
    BY <1>0, <1>10 DEF DeqCount, Goto, queueVars, locals, gcVars, Typed
  <2>2. G1(t)' = G1(t)
    BY <2>1 DEF G1
  <2>. QED
    BY <1>0, <2>1, <2>2
<1>11. CASE DeqValue(t)
  <2>1. pc'[t] = "dispose"
    BY <1>0, <1>11 DEF DeqValue, Goto, Typed
  <2>. QED
    BY <2>1
<1>. QED
  BY <1>1, <1>2, <1>3, <1>4, <1>5, <1>6, <1>7, <1>8, <1>9, <1>10, <1>11 DEF DeqStep

-----------------------------------------------------------------------------
(* The other threads *)

\* They are where they were.
LEMMA OtherDoing ==
  ASSUME NEW u \in Thread, Doing(u), Same(u), moir' = moir, m_pHead # nullptr => m_pHead' # nullptr
  PROVE  Doing(u)'
  BY DEF Doing, Same

\* The links that they have read are there.
LEMMA OtherReads ==
  ASSUME Walks', Inv, NEW t \in Thread, Kinds(t), moir' = moir, NEW u \in Thread \ {t}, Same(u)
  PROVE  Reads(u)'
<1>0. Typed /\ Doing(u) /\ Reads(u) /\ Guarded(u) /\ Guarded(t)
  BY DEF Inv
<1>1. ASSUME pc[u] \notin {"idle", "tail", "head"}, next[cur[u]] # nullptr PROVE next'[cur[u]] = next[cur[u]]
  <2>0. cur[u] \in Obj /\ G0(u) = cur[u] /\ cur[u] # nullptr
    BY <1>0, <1>1, ConstantsAssumption DEF Doing
  <2>1. CASE Still(t) \/ Helps(t) \/ DeqSwing(t) \/ DeqDispose(t)
    BY <2>1 DEF Still, Helps, DeqSwing, DeqDispose, queueVars
  <2>2. ASSUME NEW o \in Obj, EnqStart(t, o) PROVE next'[cur[u]] = next[cur[u]]
    <3>1. status[o] = "free" /\ next' = [next EXCEPT ![o] = nullptr]
      BY <2>2, StartFacts
    <3>. QED
      BY <1>0, <2>0, <3>1 DEF Guarded, Typed
  <2>3. CASE EnqLink(t)
    <3>1. next' = [next EXCEPT ![cur[t]] = new[t]] /\ next[cur[t]] = nullptr
      BY <2>3 DEF EnqLink
    <3>. QED
      BY <1>0, <1>1, <2>0, <3>1 DEF Typed
  <2>. QED
    BY <2>1, <2>2, <2>3 DEF Kinds
<1>2. ASSUME Fresh(u) PROVE next'[new[u]] = nullptr
  <2>0. new[u] \in Obj /\ next[new[u]] = nullptr
    BY <1>0, <1>2 DEF Doing, EnqLabels, Fresh, Reads
  <2>1. CASE Still(t) \/ Helps(t) \/ DeqSwing(t) \/ DeqDispose(t)
    BY <2>0, <2>1 DEF Still, Helps, DeqSwing, DeqDispose, queueVars
  <2>2. ASSUME NEW o \in Obj, EnqStart(t, o) PROVE next'[new[u]] = nullptr
    <3>1. next' = [next EXCEPT ![o] = nullptr]
      BY <2>2, StartFacts
    <3>. QED
      BY <1>0, <2>0, <3>1 DEF Typed
  <2>3. CASE EnqLink(t)
    <3>1. next' = [next EXCEPT ![cur[t]] = new[t]] /\ pc[t] = "link"
      BY <2>3 DEF EnqLink
    <3>2. cur[t] \in Obj /\ G0(t) = cur[t] /\ cur[t] # nullptr
      BY <3>1, ConstantsAssumption DEF Inv, Doing
    <3>3. new[u] # cur[t]
      BY <1>0, <1>2, <3>2 DEF Guarded
    <3>. QED
      BY <1>0, <2>0, <3>1, <3>3 DEF Typed
  <2>. QED
    BY <2>1, <2>2, <2>3 DEF Kinds
<1>3. pc'[u] = pc[u] /\ cur'[u] = cur[u] /\ new'[u] = new[u] /\ nxt'[u] = nxt[u]
  BY DEF Same
<1>4. Pushing(u) => next[cur[u]] # nullptr
  BY <1>0, ConstantsAssumption DEF Pushing, Reads, Doing, EnqLabels
<1>. QED
  BY <1>0, <1>1, <1>2, <1>3, <1>4 DEF Reads, Fresh, Pushing

\* Their nodes are where they were, or have been removed meanwhile.
LEMMA OtherAt ==
  ASSUME Walks', Inv, NEW t \in Thread, Kinds(t), moir' = moir, NEW u \in Thread \ {t}, Same(u), m_pHead # nullptr
  PROVE  At(u)'
<1>0. Typed /\ Listed /\ Doing(u) /\ At(u) /\ Guarded(u) /\ m_pTail \in Obj
  BY DEF Inv, Tailed
<1>1. /\ pc'[u] = pc[u] /\ cur'[u] = cur[u] /\ nxt'[u] = nxt[u] /\ saw'[u] = saw[u] /\ G1(u)' = G1(u)
      /\ (Removed(u)' <=> Removed(u)) /\ (Seeks(u)' <=> Seeks(u))
  BY SameHas DEF Same
<1>2. /\ Removed(u)' /\ pc'[u] # "dispose" => G1(u)' = nxt'[u]
      /\ pc'[u] \in {"check", "swing"} /\ nxt'[u] = nullptr => saw'[u] = TRUE
  BY <1>0, <1>1 DEF At
<1>3. SUFFICES
        /\ pc[u] \in {"tailnext", "link"} /\ next'[m_pTail'] # nullptr => cur[u] # next'[m_pTail']
        /\ (pc[u] = "headnext" \/ Seeks(u)) => (cur[u] \in In' => cur[u] = m_pHead')
        /\ Seeks(u) /\ cur[u] = m_pHead' /\ nxt[u] # nullptr => G1(u) = nxt[u]
        /\ ~moir /\ pc[u] = "swing" /\ nxt[u] # nullptr => m_pTail' # cur[u]
  BY <1>1, <1>2 DEF At
<1>4. CASE Still(t) \/ DeqDispose(t)
  <2>1. UNCHANGED <<m_pHead, m_pTail, next>>
    BY <1>4 DEF Still, DeqDispose, queueVars
  <2>2. In' = In
    BY <1>0, <2>1, QueueKept
  <2>. QED
    BY <1>0, <2>1, <2>2 DEF At
<1>5. CASE Helps(t)
  <2>1. UNCHANGED <<m_pHead, next>> /\ next[m_pTail] # nullptr /\ m_pTail' = next[m_pTail]
    BY <1>5 DEF Helps
  <2>2. /\ next[m_pTail] \in In /\ next[next[m_pTail]] = nullptr
        /\ ~moir => next[m_pTail] # m_pHead
    BY <2>1, TailBehind
  <2>3. In' = In
    BY <1>0, <2>1, QueueKept
  <2>4. next'[m_pTail'] = nullptr
    BY <2>1, <2>2
  <2>5. ASSUME ~moir, pc[u] = "swing" PROVE m_pTail' # cur[u]
    BY <1>0, <2>1, <2>2, <2>5 DEF At, Seeks
  <2>. QED
    BY <1>0, <2>1, <2>3, <2>4, <2>5 DEF At
<1>6. ASSUME NEW o \in Obj, EnqStart(t, o)
      PROVE  /\ pc[u] \in {"tailnext", "link"} /\ next'[m_pTail'] # nullptr => cur[u] # next'[m_pTail']
             /\ (pc[u] = "headnext" \/ Seeks(u)) => (cur[u] \in In' => cur[u] = m_pHead')
             /\ Seeks(u) /\ cur[u] = m_pHead' /\ nxt[u] # nullptr => G1(u) = nxt[u]
             /\ ~moir /\ pc[u] = "swing" /\ nxt[u] # nullptr => m_pTail' # cur[u]
  <2>1. status[o] = "free" /\ next' = [next EXCEPT ![o] = nullptr] /\ UNCHANGED <<m_pHead, m_pTail>> /\ In' = In
    BY <1>6, StartFacts
  <2>2. o # m_pTail
    BY <2>1, UnusedNode
  <2>3. next'[m_pTail'] = next[m_pTail]
    BY <1>0, <2>1, <2>2 DEF Typed
  <2>. QED
    BY <1>0, <2>1, <2>3 DEF At
<1>7. CASE EnqLink(t)
  <2>1. pc[t] = "link" /\ UNCHANGED <<m_pHead, m_pTail>> /\ next' = [next EXCEPT ![m_pTail] = new[t]]
    BY <1>7, LinkAtTail DEF EnqLink
  <2>2. next'[m_pTail'] = new[t] /\ In' = In \cup {new[t]} /\ Fresh(t)
    BY <1>0, <1>7, <2>1, QueueLinked DEF Typed, Fresh
  <2>3. ASSUME pc[u] \in {"tailnext", "link", "headnext"} \/ Seeks(u) PROVE cur[u] # new[t]
    <3>1. G0(u) = cur[u] /\ cur[u] # nullptr
      BY <1>0, <2>3, ConstantsAssumption DEF Doing, Seeks
    <3>. QED
      BY <1>0, <2>2, <3>1 DEF Guarded
  <2>. QED
    BY <1>0, <2>1, <2>2, <2>3 DEF At
<1>8. CASE DeqSwing(t)
  <2>1. UNCHANGED <<m_pTail, next>> /\ m_pHead' = nxt[t] /\ In' = In \ {m_pHead} /\ nxt[t] \in In /\ nxt[t] # m_pHead
    BY <1>8, QueueSwung, SwingAtHead DEF DeqSwing
  <2>2. pc[u] = "headnext" \/ Seeks(u) => (cur[u] \in In => cur[u] = m_pHead)
    BY <1>0 DEF At
  <2>3. pc[u] = "headnext" \/ Seeks(u) => cur[u] \notin In' /\ cur[u] # m_pHead'
    BY <2>1, <2>2
  <2>. QED
    BY <1>0, <2>1, <2>3 DEF At
<1>. QED
  BY <1>4, <1>5, <1>6, <1>7, <1>8 DEF Kinds

-----------------------------------------------------------------------------
(* The inductive invariant *)

\* A thread is in a queue that has not been destroyed.
LEMMA StepInside ==
  ASSUME NEW t \in Thread, Doing(t), EnqStep(t) \/ DeqStep(t)
  PROVE  m_pHead # nullptr
<1>1. pc[t] # "idle" => m_pHead # nullptr
  BY DEF Doing
<1>. QED
  BY <1>1 DEF EnqStep, DeqStep, EnqStart, EnqProtect, EnqNext, EnqHelp, EnqHelpFail, EnqLink, EnqLinkFail, EnqCount,
     EnqAdvance, DeqStart, DeqHead, DeqNext, DeqCheck, DeqCheckFail, DeqEmpty, DeqLag, DeqHelp, DeqSwing, DeqSwingFail,
     DeqCount, DeqValue, DeqDispose, DeqReturn, Assign

\* A step of enqueue or dequeue.
LEMMA StepInv ==
  ASSUME Walks', Inv, NEW t \in Thread, EnqStep(t) \/ DeqStep(t), moir' = moir
  PROVE  Inv'
<1>1. Typed /\ Steady /\ \A u \in Thread : Doing(u)
  BY InvSteady DEF Inv
<1>2. Steps(t)
  BY <1>1, EnqSteps, DeqSteps
<1>3. Kinds(t)
  BY EnqKinds, DeqKinds
<1>4. m_pHead # nullptr
  BY <1>1, StepInside
<1>5. Placed' /\ Listed'
  BY <1>2, <1>3, PlacedOne
<1>6. Tailed' /\ m_pHead' # nullptr
  BY <1>2, <1>3, <1>4, TailedOne
<1>7. Reads(t)' /\ At(t)'
  BY EnqOwn, DeqOwn
<1>8. ASSUME NEW u \in Thread \ {t} PROVE Doing(u)' /\ Reads(u)' /\ At(u)'
  <2>1. Same(u)
    BY <1>2 DEF Steps
  <2>2. Doing(u)'
    BY <1>1, <1>6, <2>1, OtherDoing
  <2>3. Reads(u)'
    BY <1>3, <2>1, OtherReads
  <2>4. At(u)'
    BY <1>3, <1>4, <2>1, OtherAt
  <2>. QED
    BY <2>2, <2>3, <2>4
<1>9. \A u \in Thread : Guarded(u)'
  BY <1>2, <1>3, GuardedOne
<1>10. Typed' /\ Doing(t)'
  BY <1>2 DEF Steps
<1>11. \A u \in Thread : Doing(u)' /\ Reads(u)' /\ Guarded(u)' /\ At(u)'
  BY <1>7, <1>8, <1>9, <1>10
<1>. QED
  BY <1>5, <1>6, <1>10, <1>11 DEF Inv

\* The garbage collector frees a node.
LEMMA ReclaimInv ==
  ASSUME Walks', Inv, NEW o \in Obj, Reclaim(o), moir' = moir
  PROVE  Inv'
<1>0. Typed /\ Listed /\ Placed /\ Tailed
  BY DEF Inv
<1>1. /\ status[o] = "retired" /\ \A t \in Thread : G0(t) # o /\ G1(t) # o
      /\ status' = [status EXCEPT ![o] = "free"] /\ next' = [next EXCEPT ![o] = nullptr]
      /\ UNCHANGED <<m_pHead, m_pTail, pc, op, new, cur, nxt, saw, protects>> /\ In' = In /\ Listed'
  BY ReclaimFacts DEF locals
<1>2. /\ o # m_Dummy /\ o \notin In /\ \A t \in Thread : ~Has(t, o)
      /\ m_pHead # nullptr => m_pTail # o /\ next[m_pTail] # o
  BY <1>1, UnusedNode
<1>3. \A x \in Obj : x # o => status'[x] = status[x] /\ next'[x] = next[x]
  BY <1>0, <1>1 DEF Typed
<1>3a. status'[o] = "free" /\ next'[o] = nullptr
  BY <1>0, <1>1 DEF Typed
<1>4. Typed'
  BY <1>0, <1>1 DEF Typed, Ptr
<1>5. \A t \in Thread : /\ (Fresh(t)' <=> Fresh(t)) /\ (Pushing(t)' <=> Pushing(t)) /\ (Late(t)' <=> Late(t))
                        /\ (Removed(t)' <=> Removed(t)) /\ (Seeks(t)' <=> Seeks(t))
                        /\ G0(t)' = G0(t) /\ G1(t)' = G1(t)
  BY <1>1 DEF Fresh, Pushing, Late, Removed, Seeks, G0, G1
<1>6. \A t \in Thread, x \in Obj : Has(t, x)' <=> Has(t, x)
  BY <1>1, <1>5 DEF Has
<1>7. Placed'
  BY SMTT(40), <1>0, <1>1, <1>2, <1>3, <1>3a, <1>6, ConstantsAssumption DEF Placed
<1>8. m_pHead # nullptr => m_pTail \in Obj /\ next'[m_pTail] = next[m_pTail]
  BY <1>0, <1>2, <1>3 DEF Tailed
<1>9. Tailed'
  <2>1. ASSUME m_pHead # nullptr PROVE TailAt'
    <3>1. TailAt /\ m_pTail \in Obj /\ next'[m_pTail] = next[m_pTail] /\ next[m_pTail] # o
      BY <1>0, <1>2, <1>8, <2>1 DEF Tailed
    <3>2. next[m_pTail] \in In => next'[next[m_pTail]] = next[next[m_pTail]]
      BY <1>3, <3>1, InvSteady DEF Threaded
    <3>. QED
      BY SMT, <1>1, <1>5, <3>1, <3>2 DEF TailAt
  <2>. QED
    BY <1>0, <1>1, <2>1 DEF Tailed
<1>10. ASSUME NEW t \in Thread PROVE Doing(t)' /\ Reads(t)' /\ Guarded(t)' /\ At(t)'
  <2>0. Doing(t) /\ Reads(t) /\ Guarded(t) /\ At(t) /\ G0(t) \in Ptr /\ G1(t) \in Ptr
    <3>1. <<t, 0>> \in Thread \X {0, 1} /\ <<t, 1>> \in Thread \X {0, 1}
      BY SMT
    <3>. QED
      BY <1>0, <3>1 DEF Inv, Typed, G0, G1
  <2>1. Doing(t)'
    BY <1>1, <1>5, <2>0 DEF Doing
  <2>2. pc[t] \notin {"idle", "tail", "head"} => next'[cur[t]] = next[cur[t]]
    BY <1>1, <1>3, <2>0 DEF Doing
  <2>3. Fresh(t) => next'[new[t]] = next[new[t]]
    BY <1>2, <1>3, <2>0 DEF Doing, Fresh, Has, EnqLabels
  <2>4. Reads(t)'
    BY <1>1, <1>5, <2>0, <2>2, <2>3 DEF Reads, Pushing
  <2>5. Guarded(t)'
    BY <1>1, <1>3, <1>5, <2>0 DEF Guarded, Ptr
  <2>6. pc[t] \in {"tailnext", "link"} => next'[m_pTail] = next[m_pTail]
    BY <1>8, <2>0 DEF Doing
  <2>7. At(t)'
    BY <1>1, <1>5, <2>0, <2>6 DEF At
  <2>. QED
    BY <2>1, <2>4, <2>5, <2>7
<1>. QED
  BY <1>1, <1>4, <1>7, <1>9, <1>10 DEF Inv

\* Nobody is inside: no thread has a node, or guards one.
LEMMA NobodyInside ==
  ASSUME \A t \in Thread : Doing(t), Quiescent
  PROVE  \A t \in Thread : /\ pc[t] = "idle" /\ G0(t) = nullptr /\ G1(t) = nullptr
                           /\ ~Fresh(t) /\ ~Pushing(t) /\ ~Late(t) /\ ~Removed(t) /\ ~Seeks(t) /\ \A o \in Obj : ~Has(t, o)
  BY DEF Quiescent, Doing, Fresh, Pushing, Late, Removed, Seeks, Has

\* What an idle thread needs.
LEMMA IdleInv ==
  ASSUME NEW t \in Thread, pc[t] = "idle", G0(t) = nullptr, G1(t) = nullptr
  PROVE  Reads(t) /\ Guarded(t) /\ At(t)
  BY DEF Reads, Guarded, At, Fresh, Pushing, Late, Removed, Seeks

\* The destructor.
LEMMA DestroyFacts ==
  ASSUME Walks', Inv, Destroy
  PROVE  /\ m_pHead' = nullptr /\ m_pTail' = nullptr /\ UNCHANGED <<next, pc, op, new, cur, nxt, saw, protects>>
         /\ \A o \in Obj : status'[o] = IF o = m_pHead /\ o # m_Dummy THEN "retired" ELSE status[o]
         /\ status' \in [Obj -> {"free", "linked", "retired"}]
         /\ In = {m_pHead} /\ Nodes' = <<>> /\ In' = {} /\ Listed'
<1>0. Typed /\ Threaded(next, m_pHead, In) /\ Listed
  BY InvSteady DEF Inv
<1>1. /\ m_pHead' = nullptr /\ m_pTail' = nullptr /\ UNCHANGED <<next, pc, op, new, cur, nxt, saw>>
      /\ m_pHead # nullptr /\ Items = <<>>
  BY DEF Destroy, locals
<1>2. m_pHead \in Obj
  BY <1>0, <1>1 DEF Threaded
<1>3. /\ \A o \in Obj : status'[o] = IF o = m_pHead /\ o # m_Dummy THEN "retired" ELSE status[o]
      /\ protects' = protects /\ status' \in [Obj -> {"free", "linked", "retired"}]
  <2>1. CASE m_pHead = m_Dummy
    BY <1>0, <2>1 DEF Destroy, DisposeNode, gcVars, Typed
  <2>2. CASE m_pHead # m_Dummy
    <3>1. /\ status' = [o \in Obj |-> CASE o = m_pHead -> "retired" [] o = nullptr -> "linked" [] OTHER -> status[o]]
          /\ protects' = protects
      BY <2>2 DEF Destroy, DisposeNode, SMR!Replace
    <3>2. \A o \in Obj : status'[o] = IF o = m_pHead THEN "retired" ELSE status[o]
      BY <3>1, ConstantsAssumption
    <3>3. \A o \in Obj : (CASE o = m_pHead -> "retired" [] o = nullptr -> "linked" [] OTHER -> status[o])
                           \in {"free", "linked", "retired"}
      BY <1>0, <3>1, <3>2 DEF Typed
    <3>. QED
      BY <2>2, <3>1, <3>2, <3>3
  <2>. QED
    BY <2>1, <2>2
<1>4. In = {m_pHead}
  <2>1. Nodes # <<>> /\ Elems(Tail(Nodes)) = Elems(Nodes) \ {m_pHead}
    BY <1>0, <1>1, ListTail DEF Listed
  <2>2. Elems(Tail(Nodes)) = {}
    BY SMTT(40), <1>1, <2>1 DEF Items, Elems
  <2>. QED
    BY <1>0, <1>1, <2>1, <2>2 DEF In, Threaded
<1>5. IsList(next', m_pHead', <<>>)
  BY <1>1, ListNil
<1>6. Nodes' = <<>>
  BY <1>5, WalksNext
<1>7. In' = {} /\ Listed'
  <2>1. Elems(<<>>) = {}
    BY SMT DEF Elems
  <2>. QED
    BY <1>5, <1>6, <2>1 DEF In, Listed
<1>. QED
  BY <1>1, <1>3, <1>4, <1>6, <1>7

\* The destructor keeps the invariant.
LEMMA DestroyInv ==
  ASSUME Walks', Inv, Destroy, moir' = moir
  PROVE  Inv'
<1>0. Typed /\ Placed /\ \A t \in Thread : Doing(t)
  BY DEF Inv
<1>1. /\ m_pHead' = nullptr /\ m_pTail' = nullptr /\ UNCHANGED <<next, pc, op, new, cur, nxt, saw, protects>>
      /\ \A o \in Obj : status'[o] = IF o = m_pHead /\ o # m_Dummy THEN "retired" ELSE status[o]
      /\ status' \in [Obj -> {"free", "linked", "retired"}]
      /\ In = {m_pHead} /\ In' = {} /\ Listed'
  BY DestroyFacts
<1>2. \A t \in Thread : /\ pc[t] = "idle" /\ G0(t) = nullptr /\ G1(t) = nullptr /\ \A o \in Obj : ~Has(t, o)
  BY <1>0, NobodyInside DEF Destroy
<1>3. Typed'
  BY <1>0, <1>1 DEF Typed, Ptr
<1>4. \A t \in Thread : pc'[t] = "idle" /\ G0(t)' = nullptr /\ G1(t)' = nullptr /\ \A o \in Obj : ~Has(t, o)'
  BY <1>1, <1>2 DEF G0, G1, Has, Fresh, Removed, Late
<1>5. Placed'
  BY <1>0, <1>1, <1>2, <1>4, ConstantsAssumption DEF Placed
<1>6. Tailed'
  BY <1>1 DEF Tailed
<1>7. ASSUME NEW t \in Thread PROVE Doing(t)' /\ Reads(t)' /\ Guarded(t)' /\ At(t)'
  <2>1. Reads(t)' /\ Guarded(t)' /\ At(t)'
    BY <1>4 DEF Reads, Guarded, At, Fresh, Pushing, Late, Removed, Seeks
  <2>2. Doing(t)'
    BY <1>0, <1>1, <1>2, <1>4 DEF Doing, EnqLabels, DeqLabels
  <2>. QED
    BY <2>1, <2>2
<1>. QED
  BY <1>1, <1>3, <1>5, <1>6, <1>7 DEF Inv

\* A queue of one node, m_Dummy, which leads nowhere.
LEMMA OneNode ==
  ASSUME NEW nx, nx[m_Dummy] = nullptr
  PROVE  IsList(nx, m_Dummy, <<m_Dummy>>) /\ Elems(<<m_Dummy>>) = {m_Dummy}
<1>1. /\ <<m_Dummy>> \in Seq(Obj) /\ <<m_Dummy>> # <<>> /\ <<m_Dummy>>[1] = m_Dummy /\ Len(<<m_Dummy>>) = 1
      /\ 1 .. 1 = {1}
  BY SMT, ConstantsAssumption
<1>. QED
  BY <1>1 DEF IsList, Elems

\* The constructor.
LEMMA ConstructFacts ==
  ASSUME Walks', Inv, Construct
  PROVE  /\ m_pHead' = m_Dummy /\ m_pTail' = m_Dummy /\ next' = [next EXCEPT ![m_Dummy] = nullptr]
         /\ UNCHANGED <<pc, op, new, cur, nxt, saw, protects, status>>
         /\ m_pHead = nullptr /\ In = {} /\ Nodes = <<>> /\ Nodes' = <<m_Dummy>> /\ In' = {m_Dummy} /\ Listed'
         /\ Quiescent
<1>1. /\ m_pHead' = m_Dummy /\ m_pTail' = m_Dummy /\ next' = [next EXCEPT ![m_Dummy] = nullptr]
      /\ UNCHANGED <<pc, op, new, cur, nxt, saw, protects, status>> /\ m_pHead = nullptr
  BY DEF Construct, locals, gcVars
<1>2. next'[m_Dummy] = nullptr
  BY <1>1, ConstantsAssumption DEF Inv, Typed
<1>3. IsList(next', m_pHead', <<m_Dummy>>)
  BY <1>1, <1>2, OneNode
<1>4. Nodes' = <<m_Dummy>>
  BY <1>3, WalksNext
<1>5. In' = {m_Dummy} /\ Listed'
  BY <1>2, <1>3, <1>4, OneNode DEF In, Listed
<1>6. In = {}
  BY <1>1, InvSteady DEF Threaded
<1>7. Nodes = <<>>
  BY <1>1, ListEmpty DEF Inv, Listed
<1>8. Quiescent
  BY <1>1 DEF Quiescent, Inv, Doing
<1>. QED
  BY <1>1, <1>4, <1>5, <1>6, <1>7, <1>8

\* So does the constructor.
LEMMA ConstructInv ==
  ASSUME Walks', Inv, Construct, moir' = moir
  PROVE  Inv'
<1>0. Typed /\ Placed /\ \A t \in Thread : Doing(t)
  BY DEF Inv
<1>1. /\ m_pHead' = m_Dummy /\ m_pTail' = m_Dummy /\ next' = [next EXCEPT ![m_Dummy] = nullptr]
      /\ UNCHANGED <<pc, op, new, cur, nxt, saw, protects, status>>
      /\ m_pHead = nullptr /\ In = {} /\ In' = {m_Dummy} /\ Listed' /\ Quiescent
  BY ConstructFacts
<1>2. \A t \in Thread : /\ pc[t] = "idle" /\ G0(t) = nullptr /\ G1(t) = nullptr /\ \A o \in Obj : ~Has(t, o)
  BY <1>0, <1>1, NobodyInside
<1>3. Typed'
  BY <1>0, <1>1, ConstantsAssumption DEF Typed, Ptr
<1>4. \A t \in Thread : pc'[t] = "idle" /\ G0(t)' = nullptr /\ G1(t)' = nullptr /\ \A o \in Obj : ~Has(t, o)'
  BY <1>1, <1>2 DEF G0, G1, Has, Fresh, Removed, Late
<1>5. Placed'
  BY <1>0, <1>1, <1>2, <1>4 DEF Placed
<1>6. Tailed'
  <2>1. next'[m_Dummy] = nullptr /\ m_Dummy # nullptr
    BY <1>0, <1>1, ConstantsAssumption DEF Typed
  <2>. QED
    BY <1>1, <2>1, ConstantsAssumption DEF Tailed, TailAt
<1>7. ASSUME NEW t \in Thread PROVE Doing(t)' /\ Reads(t)' /\ Guarded(t)' /\ At(t)'
  <2>1. Reads(t)' /\ Guarded(t)' /\ At(t)'
    BY <1>4 DEF Reads, Guarded, At, Fresh, Pushing, Late, Removed, Seeks
  <2>2. Doing(t)'
    BY <1>0, <1>1, <1>2, <1>4 DEF Doing, EnqLabels, DeqLabels
  <2>. QED
    BY <2>1, <2>2
<1>. QED
  BY <1>1, <1>3, <1>5, <1>6, <1>7 DEF Inv

\* Nothing happens.
LEMMA StutterInv ==
  ASSUME Walks', Inv, UNCHANGED vars
  PROVE  Inv'
<1>1. UNCHANGED <<moir, m_pHead, m_pTail, next, pc, op, new, cur, nxt, saw, status, protects>>
  BY DEF vars, queueVars, locals, gcVars
<1>2. In' = In /\ Listed'
  BY <1>1, QueueKept DEF Inv
<1>3. \A t : /\ G0(t)' = G0(t) /\ G1(t)' = G1(t) /\ (Fresh(t)' <=> Fresh(t)) /\ (Pushing(t)' <=> Pushing(t))
             /\ (Late(t)' <=> Late(t)) /\ (Removed(t)' <=> Removed(t)) /\ (Seeks(t)' <=> Seeks(t))
  BY <1>1 DEF G0, G1, Fresh, Pushing, Late, Removed, Seeks
<1>4. Typed'
  BY <1>1 DEF Inv, Typed
<1>5. Placed'
  <2>1. \A t, o : Has(t, o)' <=> Has(t, o)
    BY <1>1, <1>3 DEF Has
  <2>. QED
    BY <1>1, <1>2, <2>1 DEF Inv, Placed
<1>6. Tailed'
  BY <1>1, <1>2, <1>3 DEF Inv, Tailed, TailAt
<1>7. \A t \in Thread : Doing(t)' /\ Reads(t)'
  BY ZenonT(60), <1>1, <1>3 DEF Inv, Doing, Reads
<1>8. \A t \in Thread : Guarded(t)' /\ At(t)'
  BY <1>1, <1>2, <1>3 DEF Inv, Guarded, At
<1>. QED
  BY <1>2, <1>4, <1>5, <1>6, <1>7, <1>8 DEF Inv

\* A step of the system.
LEMMA InvNext == Walks' /\ Inv /\ [Next]_vars => Inv'
<1> SUFFICES ASSUME Walks', Inv, [Next]_vars PROVE Inv'
  OBVIOUS
<1>1. CASE UNCHANGED vars
  BY <1>1, StutterInv
<1>2. CASE Next
  BY <1>2, StepInv, ReclaimInv, DestroyInv, ConstructInv DEF Next
<1>. QED
  BY <1>1, <1>2

\* The new queue.
LEMMA InvInit == Walks /\ Init => Inv
<1> SUFFICES ASSUME Walks, Init PROVE Inv
  OBVIOUS
<1>1. next[m_Dummy] = nullptr /\ m_pHead = m_Dummy /\ m_pTail = m_Dummy /\ \A t \in Thread : pc[t] = "idle"
  BY ConstantsAssumption DEF Init
<1>2. IsList(next, m_pHead, <<m_Dummy>>)
  BY <1>1, OneNode
<1>3. Nodes = <<m_Dummy>>
  BY <1>2 DEF Walks, List, Nodes
<1>4. In = {m_Dummy} /\ Listed
  BY <1>1, <1>2, <1>3, OneNode DEF In, Listed
<1>5. \A t \in Thread : G0(t) = nullptr /\ G1(t) = nullptr
  <2>1. \A t \in Thread : <<t, 0>> \in Thread \X {0, 1} /\ <<t, 1>> \in Thread \X {0, 1}
    BY SMT
  <2>. QED
    BY <2>1 DEF Init, G0, G1
<1>6. \A t \in Thread : Doing(t)
  BY <1>1, <1>5 DEF Init, Doing, EnqLabels, DeqLabels
<1>7. \A t \in Thread, o \in Obj : ~Has(t, o)
  BY <1>1 DEF Has, Fresh, Removed, Late
<1>8. Typed
  BY ConstantsAssumption DEF Init, Typed, Ptr
<1>9. Placed
  BY <1>4, <1>7, ConstantsAssumption DEF Init, Placed
<1>10. Tailed
  BY <1>1, <1>4, ConstantsAssumption DEF Tailed, TailAt
<1>. QED
  BY <1>1, <1>4, <1>5, <1>6, <1>8, <1>9, <1>10, IdleInv DEF Inv

-----------------------------------------------------------------------------
(* The calls of the abstract queue *)

\* A call in the abstract queue, and the set it is the only member of.
Rec(o, b, v, s) == [op |-> o, done |-> b, saw |-> s, val |-> v]
Recs(o, b, v, s) == [op : {o}, done : {b}, saw : {s}, val : {v}]

\* The operation of t has taken effect.
Did(t) == pc[t] \in {"enqueued", "advance", "dequeued", "value", "dispose", "return"} \/ Late(t)

\* The call of t: its operation has taken effect or not, and its value.
CallOf(t) ==
  IF Did(t) THEN Rec(op[t], TRUE, IF op[t] = "enq" THEN new[t] ELSE IF op[t] = "deq" THEN nxt[t] ELSE nullptr, saw[t])
  ELSE Rec(op[t], FALSE, IF op[t] = "enq" THEN new[t] ELSE nullptr, saw[t])

\* The calls are those, in a state ...
LEMMA CallIs == call = [t \in Thread |-> CallOf(t)]
<1>. DEFINE done(t) == \/ pc[t] \in {"enqueued", "advance", "dequeued", "value", "dispose", "return"}
                       \/ moir /\ pc[t] \in {"lag", "lagging"}
            shown(t) == IF op[t] = "enq" THEN new[t] ELSE IF op[t] = "deq" /\ done(t) THEN nxt[t] ELSE nullptr
<1>1. call = [t \in Thread |-> Rec(op[t], done(t), shown(t), saw[t])]
  BY DEF call, Rec
<1>2. ASSUME NEW t \in Thread
      PROVE  Rec(op[t], done(t), shown(t), saw[t]) = CallOf(t)
  <2>0. done(t) <=> Did(t)
    BY DEF Did, Late
  <2>1. PICK b \in BOOLEAN : b = done(t)
    <3>1. CASE done(t)
      <4>1. TRUE = done(t)
        BY <3>1
      <4>. QED
        BY <4>1
    <3>2. CASE ~ done(t)
      <4>1. FALSE = done(t)
        BY SMT, <3>2
      <4>. QED
        BY <4>1
    <3>. QED
      BY <3>1, <3>2
  <2>2. PICK v : v = shown(t)
    OBVIOUS
  <2>3. CallOf(t) = Rec(op[t], b, v, saw[t])
    BY <2>0, <2>1, <2>2 DEF CallOf
  <2>. QED
    BY <2>1, <2>2, <2>3
<1>. QED
  BY <1>1, <1>2

\* ... and in the next one.
LEMMA CallNext == call' = [t \in Thread |-> CallOf(t)']
<1>1. (call = [t \in Thread |-> CallOf(t)])'
  BY CallIs, PTL
<1>. QED
  BY <1>1

\* The updates that the abstract queue makes to a record.
SetOp(r, x)   == [r EXCEPT !.op = x]
SetDone(r)    == [r EXCEPT !.done = TRUE]
SetVal(r, x)  == [r EXCEPT !.val = x]
SetSaw(r)     == [r EXCEPT !.saw = TRUE]

\* Updates of a record: the operation, ...
LEMMA RecOp ==
  ASSUME NEW o, NEW b, NEW v, NEW s, NEW x
  PROVE  SetOp(Rec(o, b, v, s), x) = Rec(x, b, v, s)
<1>1. SetOp(Rec(o, b, v, s), x) \in Recs(x, b, v, s)
  BY DEF SetOp, Rec, Recs
<1>. QED
  BY <1>1 DEF Rec, Recs

\* ... the effect, ...
LEMMA RecDone ==
  ASSUME NEW o, NEW b, NEW v, NEW s
  PROVE  SetDone(Rec(o, b, v, s)) = Rec(o, TRUE, v, s)
<1>1. SetDone(Rec(o, b, v, s)) \in Recs(o, TRUE, v, s)
  BY DEF SetDone, Rec, Recs
<1>. QED
  BY <1>1 DEF Rec, Recs

\* ... the value, ...
LEMMA RecVal ==
  ASSUME NEW o, NEW b, NEW v, NEW s, NEW x
  PROVE  SetVal(Rec(o, b, v, s), x) = Rec(o, b, x, s)
<1>1. SetVal(Rec(o, b, v, s), x) \in Recs(o, b, x, s)
  BY DEF SetVal, Rec, Recs
<1>. QED
  BY <1>1 DEF Rec, Recs

\* ... and that the queue was seen empty.
LEMMA RecSaw ==
  ASSUME NEW o, NEW b, NEW v, NEW s
  PROVE  SetSaw(Rec(o, b, v, s)) = Rec(o, b, v, TRUE)
<1>1. SetSaw(Rec(o, b, v, s)) \in Recs(o, b, v, TRUE)
  BY DEF SetSaw, Rec, Recs
<1>. QED
  BY <1>1 DEF Rec, Recs

\* The updates that it makes to the calls.
Put(f, t, r)        == [f EXCEPT ![t] = r]
PutOp(f, t, x)      == [f EXCEPT ![t].op = x]
PutCall(f, t, x, y) == [f EXCEPT ![t].op = x, ![t].val = y]
PutDone(f, t)       == [f EXCEPT ![t].done = TRUE]
PutVal(f, t, y)     == [f EXCEPT ![t].done = TRUE, ![t].val = y]
PutSaw(f, t)        == [f EXCEPT ![t].saw = TRUE]

\* The call of t in f.
CallAt(f, t, o, b, v, s) == f = [u \in Thread |-> f[u]] /\ f[t] = Rec(o, b, v, s)

\* What the updates come to.
Puts(f, t, o, b, v, s, x, y) ==
  /\ PutOp(f, t, x) = Put(f, t, Rec(x, b, v, s))
  /\ PutCall(f, t, x, y) = Put(f, t, Rec(x, b, y, s))
  /\ PutDone(f, t) = Put(f, t, Rec(o, TRUE, v, s))
  /\ PutVal(f, t, y) = Put(f, t, Rec(o, TRUE, y, s))
  /\ PutSaw(f, t) = Put(f, t, Rec(o, b, v, TRUE))

\* They put the updated record in the place of the old one.
LEMMA PutSet ==
  ASSUME NEW f, NEW t \in Thread, NEW o, NEW b, NEW v, NEW s, NEW x, NEW y, CallAt(f, t, o, b, v, s)
  PROVE  Puts(f, t, o, b, v, s, x, y)
<1>. USE DEF CallAt
<1>1. PutOp(f, t, x) = Put(f, t, SetOp(f[t], x))
  BY DEF Put, SetOp, PutOp
<1>2. PutCall(f, t, x, y) = Put(f, t, SetVal(SetOp(f[t], x), y))
  BY DEF Put, SetOp, SetVal, PutCall
<1>3. PutDone(f, t) = Put(f, t, SetDone(f[t]))
  BY DEF Put, SetDone, PutDone
<1>4. PutVal(f, t, y) = Put(f, t, SetVal(SetDone(f[t]), y))
  BY DEF Put, SetDone, SetVal, PutVal
<1>4a. PutSaw(f, t) = Put(f, t, SetSaw(f[t]))
  BY DEF Put, SetSaw, PutSaw
<1>5. SetOp(Rec(o, b, v, s), x) = Rec(x, b, v, s)
  BY SMT, RecOp
<1>6. SetDone(Rec(o, b, v, s)) = Rec(o, TRUE, v, s)
  BY RecDone
<1>7. ASSUME NEW w, NEW z PROVE SetVal(Rec(w, z, v, s), y) = Rec(w, z, y, s)
  BY SMT, RecVal
<1>8. SetVal(Rec(x, b, v, s), y) = Rec(x, b, y, s) /\ SetVal(Rec(o, TRUE, v, s), y) = Rec(o, TRUE, y, s)
  BY <1>7
<1>9. SetSaw(Rec(o, b, v, s)) = Rec(o, b, v, TRUE)
  BY RecSaw
<1>. QED
  BY <1>1, <1>2, <1>3, <1>4, <1>4a, <1>5, <1>6, <1>8, <1>9 DEF Puts

\* What a step makes of the calls.
LEMMA CallStep ==
  ASSUME NEW t \in Thread, \A u \in Thread \ {t} : CallOf(u)' = CallOf(u), NEW r, CallOf(t)' = r
  PROVE  /\ call[t] = CallOf(t) /\ call = [u \in Thread |-> call[u]]
         /\ call' = Put(call, t, r)
<1>1. call = [u \in Thread |-> CallOf(u)] /\ call' = [u \in Thread |-> CallOf(u)']
  BY CallIs, CallNext
<1>2. call[t] = CallOf(t) /\ call = [u \in Thread |-> call[u]]
  BY <1>1
<1>. QED
  BY <1>1, <1>2 DEF Put

\* No call.
IdleRec == Rec("none", FALSE, nullptr, FALSE)

\* The abstract queue calls it Idle.
LEMMA IdleIs == AQ!Idle = IdleRec
  BY DEF AQ!Idle, IdleRec, Rec

\* What a step may make of a call and of the items.
Abstract(c, d) ==
  \/ Items' = Items /\ d = c
  \/ Items' = Items /\ c = IdleRec /\ \E x \in Obj : d = Rec("enq", FALSE, x, FALSE)
  \/ Items' = Items /\ c = IdleRec /\ d = Rec("deq", FALSE, nullptr, FALSE)
  \/ \E v, s : c = Rec("enq", FALSE, v, s) /\ d = Rec("enq", TRUE, v, s) /\ Items' = Append(Items, v)
  \/ \E s : c = Rec("deq", FALSE, nullptr, s) /\ d = Rec("deq", TRUE, Head(Items), s) /\ Items # <<>> /\ Items' = Tail(Items)
  \/ \E s : c = Rec("deq", FALSE, nullptr, s) /\ d = Rec("deq", FALSE, nullptr, TRUE) /\ Items = <<>> /\ Items' = Items
  \/ c = Rec("deq", FALSE, nullptr, TRUE) /\ Items' = Items /\ d = IdleRec
  \/ \E o, v, s : c = Rec(o, TRUE, v, s) /\ Items' = Items /\ d = IdleRec

\* The abstract step that a step of t is.
LEMMA StepIs ==
  ASSUME NEW t \in Thread, \A u \in Thread \ {t} : CallOf(u)' = CallOf(u), Abstract(CallOf(t), CallOf(t)')
  PROVE  [AQ!Next]_<<Items, call>>
<1>1. call[t] = CallOf(t) /\ call = [u \in Thread |-> call[u]] /\ \A r : CallOf(t)' = r => call' = Put(call, t, r)
  BY CallStep
<1>2. PICK c, d : c = CallOf(t) /\ d = CallOf(t)'
  OBVIOUS
<1>3. Abstract(c, d) /\ call[t] = c /\ call' = Put(call, t, d)
  BY <1>1, <1>2
<1>4. ASSUME NEW o, NEW b, NEW v, NEW s, c = Rec(o, b, v, s)
      PROVE  /\ call[t].op = o /\ call[t].done = b /\ call[t].val = v /\ call[t].saw = s
             /\ \A x, y : Puts(call, t, o, b, v, s, x, y)
  <2>1. CallAt(call, t, o, b, v, s)
    BY <1>1, <1>3, <1>4 DEF CallAt
  <2>2. \A x, y : Puts(call, t, o, b, v, s, x, y)
    BY <2>1, PutSet
  <2>. QED
    BY <1>3, <1>4, <2>2 DEF Rec
<1>5. CASE Items' = Items /\ d = c
  <2>1. call' = call
    BY <1>1, <1>3, <1>5 DEF Put
  <2>. QED
    BY <1>5, <2>1
<1>6. CASE Items' = Items /\ c = IdleRec /\ \E x \in Obj : d = Rec("enq", FALSE, x, FALSE)
  <2>1. PICK x \in Obj : d = Rec("enq", FALSE, x, FALSE)
    BY <1>6
  <2>0. Puts(call, t, "none", FALSE, nullptr, FALSE, "enq", x)
    BY <1>4, <1>6 DEF IdleRec
  <2>2. call' = PutCall(call, t, "enq", x)
    BY <1>3, <2>0, <2>1 DEF Puts
  <2>3. AQ!Begin(t)
    BY <1>3, <1>6, <2>2, IdleIs DEF AQ!Begin, PutCall
  <2>. QED
    BY <2>3 DEF AQ!Next
<1>7. CASE Items' = Items /\ c = IdleRec /\ d = Rec("deq", FALSE, nullptr, FALSE)
  <2>0. Puts(call, t, "none", FALSE, nullptr, FALSE, "deq", nullptr)
    BY <1>4, <1>7 DEF IdleRec
  <2>2. call' = PutOp(call, t, "deq")
    BY <1>3, <1>7, <2>0 DEF Puts
  <2>3. AQ!Begin(t)
    BY <1>3, <1>7, <2>2, IdleIs DEF AQ!Begin, PutOp
  <2>. QED
    BY <2>3 DEF AQ!Next
<1>8. ASSUME NEW v, NEW s, c = Rec("enq", FALSE, v, s), d = Rec("enq", TRUE, v, s), Items' = Append(Items, v)
      PROVE  [AQ!Next]_<<Items, call>>
  <2>0. Puts(call, t, "enq", FALSE, v, s, nullptr, nullptr) /\ call[t].op = "enq" /\ call[t].done = FALSE /\ call[t].val = v
    BY <1>4, <1>8
  <2>1. call' = PutDone(call, t) /\ call[t].op = "enq" /\ call[t].done = FALSE /\ call[t].val = v
    BY <1>3, <1>8, <2>0 DEF Puts
  <2>2. AQ!Enqueue(t)
    BY <1>8, <2>1 DEF AQ!Enqueue, AQ!Pending, PutDone
  <2>. QED
    BY <2>2 DEF AQ!Next
<1>9. ASSUME NEW s, c = Rec("deq", FALSE, nullptr, s), d = Rec("deq", TRUE, Head(Items), s), Items # <<>>, Items' = Tail(Items)
      PROVE  [AQ!Next]_<<Items, call>>
  <2>0. Puts(call, t, "deq", FALSE, nullptr, s, nullptr, Head(Items)) /\ call[t].op = "deq" /\ call[t].done = FALSE
    BY <1>4, <1>9
  <2>1. call' = PutVal(call, t, Head(Items)) /\ call[t].op = "deq" /\ call[t].done = FALSE
    BY <1>3, <1>9, <2>0 DEF Puts
  <2>2. AQ!Dequeue(t)
    BY <1>9, <2>1 DEF AQ!Dequeue, AQ!Pending, PutVal
  <2>. QED
    BY <2>2 DEF AQ!Next
<1>10. ASSUME NEW s, c = Rec("deq", FALSE, nullptr, s), d = Rec("deq", FALSE, nullptr, TRUE), Items = <<>>, Items' = Items
       PROVE  [AQ!Next]_<<Items, call>>
  <2>0. Puts(call, t, "deq", FALSE, nullptr, s, nullptr, nullptr) /\ call[t].op = "deq" /\ call[t].done = FALSE
    BY <1>4, <1>10
  <2>1. call' = PutSaw(call, t) /\ call[t].op = "deq" /\ call[t].done = FALSE
    BY <1>3, <1>10, <2>0 DEF Puts
  <2>2. AQ!SeeEmpty(t)
    BY <1>10, <2>1 DEF AQ!SeeEmpty, AQ!Pending, PutSaw
  <2>. QED
    BY <2>2 DEF AQ!Next
<1>11. CASE c = Rec("deq", FALSE, nullptr, TRUE) /\ Items' = Items /\ d = IdleRec
  <2>1. call' = Put(call, t, AQ!Idle) /\ call[t].op = "deq" /\ call[t].done = FALSE /\ call[t].saw = TRUE
    BY ZenonT(60), <1>3, <1>4, <1>11, IdleIs
  <2>2. AQ!DequeueEmpty(t)
    BY <1>11, <2>1 DEF AQ!DequeueEmpty, AQ!Pending, Put
  <2>. QED
    BY <2>2 DEF AQ!Next
<1>12. ASSUME NEW o, NEW v, NEW s, c = Rec(o, TRUE, v, s), Items' = Items, d = IdleRec
       PROVE  [AQ!Next]_<<Items, call>>
  <2>1. call' = Put(call, t, AQ!Idle) /\ call[t].done = TRUE
    BY ZenonT(60), <1>3, <1>4, <1>12, IdleIs
  <2>2. AQ!End(t)
    BY <1>12, <2>1 DEF AQ!End, Put
  <2>. QED
    BY <2>2 DEF AQ!Next
<1>. QED
  BY <1>3, <1>5, <1>6, <1>7, <1>8, <1>9, <1>10, <1>11, <1>12 DEF Abstract

-----------------------------------------------------------------------------
(* The steps of the abstract queue *)

\* The call of t, by its place in the program.
Shown(t) ==
  /\ pc[t] = "idle" => CallOf(t) = IdleRec
  /\ Fresh(t) => CallOf(t) = Rec("enq", FALSE, new[t], saw[t])
  /\ Pushing(t) => CallOf(t) = Rec("enq", TRUE, new[t], saw[t])
  /\ pc[t] \in DeqLabels /\ ~Did(t) => CallOf(t) = Rec("deq", FALSE, nullptr, saw[t])
  /\ pc[t] \in DeqLabels /\ Did(t) => CallOf(t) = Rec("deq", TRUE, nxt[t], saw[t])

\* The call in a state ...
LEMMA CallShown == \A t \in Thread : Doing(t) => Shown(t)
<1> SUFFICES ASSUME NEW t \in Thread, Doing(t) PROVE Shown(t)
  OBVIOUS
<1>1. CASE pc[t] = "idle"
  BY <1>1 DEF Doing, Shown, CallOf, Did, Late, IdleRec, Fresh, Pushing, DeqLabels
<1>2. CASE Fresh(t)
  <2>1. op[t] = "enq" /\ ~Did(t) /\ pc[t] # "idle" /\ ~Pushing(t) /\ pc[t] \notin DeqLabels
    BY <1>2 DEF Doing, Did, Late, Fresh, Pushing, EnqLabels, DeqLabels
  <2>. QED
    BY <2>1 DEF Shown, CallOf
<1>3. CASE Pushing(t)
  <2>1. op[t] = "enq" /\ Did(t) /\ pc[t] # "idle" /\ ~Fresh(t) /\ pc[t] \notin DeqLabels
    BY <1>3 DEF Doing, Did, Late, Fresh, Pushing, EnqLabels, DeqLabels
  <2>. QED
    BY <2>1 DEF Shown, CallOf
<1>4. CASE pc[t] \in DeqLabels
  <2>1. op[t] = "deq" /\ pc[t] # "idle" /\ ~Fresh(t) /\ ~Pushing(t)
    BY <1>4 DEF Doing, Fresh, Pushing, DeqLabels
  <2>. QED
    BY <2>1 DEF Shown, CallOf
<1>. QED
  BY <1>1, <1>2, <1>3, <1>4 DEF Shown

\* ... and in the next one.
LEMMA CallShownNext == \A t \in Thread : Doing(t)' => Shown(t)'
<1>1. (\A t \in Thread : Doing(t) => Shown(t))'
  BY CallShown, PTL
<1>. QED
  BY <1>1

\* The items of a queue to which nobody has written.
LEMMA ItemsSame ==
  ASSUME Walks', Listed, m_pHead' = m_pHead, next' = next
  PROVE  Items' = Items
<1>1. Nodes' = Nodes
  BY QueueKept
<1>. QED
  BY <1>1 DEF Items

\* enqueue puts its value at the end.
LEMMA ItemsLinked ==
  ASSUME Walks', Inv, NEW t \in Thread, EnqLink(t)
  PROVE  Items' = Append(Items, new[t])
<1>1. Nodes' = Append(Nodes, new[t]) /\ new[t] \in Obj
  BY QueueLinked, LinkAtTail
<1>2. Nodes # <<>>
  <2>1. m_pHead # nullptr
    BY DEF EnqLink, Inv, Doing
  <2>. QED
    BY <2>1, ListTail DEF Inv, Listed
<1>3. Nodes \in Seq(Obj)
  BY DEF Inv, Listed, IsList
<1>4. PICK s, o : s = Nodes /\ o = new[t]
  OBVIOUS
<1>5. Append(s, o) # <<>> /\ Tail(Append(s, o)) = Append(Tail(s), o)
  BY SMTT(40), <1>1, <1>2, <1>3, <1>4
<1>. QED
  BY <1>1, <1>2, <1>4, <1>5 DEF Items

\* dequeue takes the first.
LEMMA ItemsSwung ==
  ASSUME Walks', Inv, NEW t \in Thread, DeqSwing(t)
  PROVE  Items # <<>> /\ nxt[t] = Head(Items) /\ Items' = Tail(Items)
<1>1. m_pHead # nullptr /\ nxt[t] = next[m_pHead] /\ nxt[t] # nullptr
  BY SwingAtHead DEF DeqSwing
<1>2. Nodes' = Tail(Nodes)
  BY QueueSwung
<1>3. Nodes # <<>> /\ IsList(next, next[m_pHead], Tail(Nodes))
  BY <1>1, ListTail DEF Inv, Listed
<1>4. Tail(Nodes) # <<>> /\ Head(Tail(Nodes)) = nxt[t]
  BY <1>1, <1>3, ListTail
<1>. QED
  BY <1>2, <1>3, <1>4 DEF Items

\* The steps of enqueue.
LEMMA EnqAbstract ==
  ASSUME Walks', Inv, NEW t \in Thread, EnqStep(t), moir' = moir, Doing(t)'
  PROVE  Abstract(CallOf(t), CallOf(t)')
<1>0. Typed /\ Doing(t) /\ Listed /\ Shown(t) /\ Shown(t)'
  BY CallShown, CallShownNext DEF Inv
<1>1. ASSUME NEW o \in Obj, EnqStart(t, o) PROVE Abstract(CallOf(t), CallOf(t)')
  <2>1. pc[t] = "idle" /\ pc'[t] = "tail" /\ new'[t] = o /\ Nodes' = Nodes
    BY <1>1, StartFacts
  <2>2. saw'[t] = FALSE
    BY <1>0, <1>1, <2>1 DEF EnqStart, Doing
  <2>3. CallOf(t) = IdleRec /\ CallOf(t)' = Rec("enq", FALSE, o, FALSE) /\ Items' = Items
    BY <1>0, <2>1, <2>2 DEF Shown, Fresh, Items
  <2>. QED
    BY <2>3 DEF Abstract
<1>2. ASSUME Fresh(t), Fresh(t)', new'[t] = new[t], saw'[t] = saw[t], UNCHANGED <<m_pHead, next>>
      PROVE  Abstract(CallOf(t), CallOf(t)')
  <2>1. CallOf(t)' = CallOf(t)
    BY <1>0, <1>2 DEF Shown
  <2>2. Items' = Items
    BY <1>0, <1>2, ItemsSame
  <2>. QED
    BY <2>1, <2>2 DEF Abstract
<1>3. CASE Assign(t, "tail", 0) \/ EnqProtect(t)
  BY <1>0, <1>2, <1>3 DEF Assign, EnqProtect, Goto, queueVars, locals, Fresh, Typed
<1>4. CASE EnqNext(t)
  <2>1. pc[t] = "tailnext" /\ pc'[t] \in {"tailhelp", "link"} /\ UNCHANGED <<new, saw, m_pHead, next>>
    BY <1>0, <1>4 DEF EnqNext, Goto, queueVars, Typed
  <2>. QED
    BY <1>2, <2>1 DEF Fresh
<1>5. CASE EnqHelp(t) \/ EnqHelpFail(t) \/ EnqLinkFail(t)
  <2>1. pc[t] \in {"tailhelp", "link"} /\ pc'[t] = "tail" /\ UNCHANGED <<new, saw, m_pHead, next>>
    BY <1>0, <1>5 DEF EnqHelp, EnqHelpFail, EnqLinkFail, Retry, Goto, queueVars, Typed
  <2>. QED
    BY <1>2, <2>1 DEF Fresh
<1>6. CASE EnqLink(t)
  <2>1. pc[t] = "link" /\ pc'[t] = "enqueued" /\ UNCHANGED <<new, saw>>
    BY <1>0, <1>6 DEF EnqLink, Goto, locals, Typed
  <2>2. CallOf(t) = Rec("enq", FALSE, new[t], saw[t]) /\ CallOf(t)' = Rec("enq", TRUE, new[t], saw[t])
    BY <1>0, <2>1 DEF Shown, Fresh, Pushing
  <2>3. Items' = Append(Items, new[t])
    BY <1>6, ItemsLinked
  <2>. QED
    BY <2>2, <2>3 DEF Abstract
<1>7. CASE EnqCount(t)
  <2>1. pc[t] = "enqueued" /\ pc'[t] = "advance" /\ UNCHANGED <<new, saw, m_pHead, next>>
    BY <1>0, <1>7 DEF EnqCount, Goto, queueVars, locals, Typed
  <2>2. CallOf(t)' = CallOf(t)
    BY <1>0, <2>1 DEF Shown, Pushing
  <2>3. Items' = Items
    BY <1>0, <2>1, ItemsSame
  <2>. QED
    BY <2>2, <2>3 DEF Abstract
<1>8. CASE EnqAdvance(t)
  <2>1. pc[t] = "advance" /\ pc'[t] = "idle" /\ UNCHANGED <<m_pHead, next>>
    BY <1>0, <1>8 DEF EnqAdvance, Return, Goto, Typed
  <2>2. CallOf(t) = Rec("enq", TRUE, new[t], saw[t]) /\ CallOf(t)' = IdleRec
    BY <1>0, <2>1 DEF Shown, Pushing
  <2>3. Items' = Items
    BY <1>0, <2>1, ItemsSame
  <2>. QED
    BY <2>2, <2>3 DEF Abstract
<1>. QED
  BY <1>1, <1>3, <1>4, <1>5, <1>6, <1>7, <1>8 DEF EnqStep

\* The steps of dequeue.
LEMMA DeqAbstract ==
  ASSUME Walks', Inv, NEW t \in Thread, DeqStep(t), moir' = moir, Doing(t)'
  PROVE  Abstract(CallOf(t), CallOf(t)')
<1>0. Typed /\ Doing(t) /\ At(t) /\ Listed /\ Shown(t) /\ Shown(t)'
  BY CallShown, CallShownNext DEF Inv
<1>1. CASE DeqStart(t)
  <2>1. pc[t] = "idle" /\ pc'[t] = "head" /\ UNCHANGED <<m_pHead, next, saw>>
    BY <1>0, <1>1 DEF DeqStart, Goto, queueVars, Typed
  <2>2. saw[t] = FALSE /\ ~Did(t)'
    BY <1>0, <2>1 DEF Doing, Did, Late
  <2>3. CallOf(t) = IdleRec /\ CallOf(t)' = Rec("deq", FALSE, nullptr, FALSE)
    BY <1>0, <2>1, <2>2 DEF Shown, DeqLabels
  <2>4. Items' = Items
    BY <1>0, <2>1, ItemsSame
  <2>. QED
    BY <2>3, <2>4 DEF Abstract
<1>2. ASSUME pc[t] \in DeqLabels, ~Did(t), pc'[t] \in DeqLabels, ~Did(t)', saw'[t] = saw[t], UNCHANGED <<m_pHead, next>>
      PROVE  Abstract(CallOf(t), CallOf(t)')
  <2>1. CallOf(t)' = CallOf(t)
    BY <1>0, <1>2 DEF Shown
  <2>2. Items' = Items
    BY <1>0, <1>2, ItemsSame
  <2>. QED
    BY <2>1, <2>2 DEF Abstract
<1>3. ASSUME pc[t] \in DeqLabels, Did(t), pc'[t] \in DeqLabels, Did(t)', nxt'[t] = nxt[t], saw'[t] = saw[t],
             UNCHANGED <<m_pHead, next>>
      PROVE  Abstract(CallOf(t), CallOf(t)')
  <2>1. CallOf(t)' = CallOf(t)
    BY <1>0, <1>3 DEF Shown
  <2>2. Items' = Items
    BY <1>0, <1>3, ItemsSame
  <2>. QED
    BY <2>1, <2>2 DEF Abstract
<1>4. CASE Assign(t, "head", 0) \/ DeqHead(t) \/ Assign(t, "headnext", 1)
  <2>1. pc[t] \in {"head", "headnext"} /\ pc'[t] \in {"head", "headnext"} /\ UNCHANGED <<saw, m_pHead, next>>
    BY <1>0, <1>4 DEF Assign, DeqHead, Goto, queueVars, locals, Typed
  <2>2. ~Did(t) /\ ~Did(t)' /\ pc[t] \in DeqLabels /\ pc'[t] \in DeqLabels
    BY <2>1 DEF Did, Late, DeqLabels
  <2>. QED
    BY <1>2, <2>1, <2>2
<1>5. CASE DeqNext(t)
  <2>1. pc[t] = "headnext" /\ pc'[t] \in {"check", "swing"} /\ UNCHANGED <<m_pHead, next>>
    BY <1>0, <1>5 DEF DeqNext, Goto, queueVars, Typed
  <2>2. ~Did(t) /\ ~Did(t)' /\ pc[t] \in DeqLabels /\ pc'[t] \in DeqLabels
    BY <2>1 DEF Did, Late, DeqLabels
  <2>3. CASE Items = <<>>
    <3>1. saw'[t] = TRUE
      BY <1>0, <1>5, <2>3 DEF DeqNext, Typed
    <3>2. CallOf(t) = Rec("deq", FALSE, nullptr, saw[t]) /\ CallOf(t)' = Rec("deq", FALSE, nullptr, TRUE)
      BY <1>0, <2>2, <3>1 DEF Shown
    <3>3. Items' = Items
      BY <1>0, <2>1, ItemsSame
    <3>. QED
      BY <2>3, <3>2, <3>3 DEF Abstract
  <2>4. CASE Items # <<>>
    <3>1. saw'[t] = saw[t]
      BY <1>0, <1>5, <2>4 DEF DeqNext, Typed
    <3>. QED
      BY <1>2, <2>1, <2>2, <3>1
  <2>. QED
    BY <2>3, <2>4
<1>6. CASE DeqCheck(t)
  <2>1. pc[t] = "check" /\ pc'[t] \in {"swing", "lag"} /\ UNCHANGED <<saw, m_pHead, next>>
    BY <1>0, <1>6 DEF DeqCheck, Goto, queueVars, locals, Typed
  <2>2. ~Did(t) /\ ~Did(t)' /\ pc[t] \in DeqLabels /\ pc'[t] \in DeqLabels
    BY <1>0, <2>1 DEF Did, Late, DeqLabels, Doing
  <2>. QED
    BY <1>2, <2>1, <2>2
<1>7. CASE DeqCheckFail(t) \/ DeqSwingFail(t)
  <2>1. pc[t] \in {"check", "swing"} /\ pc'[t] = "head" /\ UNCHANGED <<saw, m_pHead, next>>
    BY <1>0, <1>7 DEF DeqCheckFail, DeqSwingFail, Retry, Goto, queueVars, Typed
  <2>2. ~Did(t) /\ ~Did(t)' /\ pc[t] \in DeqLabels /\ pc'[t] \in DeqLabels
    BY <2>1 DEF Did, Late, DeqLabels
  <2>. QED
    BY <1>2, <2>1, <2>2
<1>8. CASE DeqEmpty(t)
  <2>1. pc[t] = "swing" /\ nxt[t] = nullptr /\ pc'[t] = "idle" /\ UNCHANGED <<m_pHead, next>>
    BY <1>0, <1>8 DEF DeqEmpty, Return, Goto, queueVars, Typed
  <2>2. saw[t] = TRUE /\ ~Did(t) /\ pc[t] \in DeqLabels
    BY <1>0, <2>1 DEF At, Did, Late, DeqLabels
  <2>3. CallOf(t) = Rec("deq", FALSE, nullptr, TRUE) /\ CallOf(t)' = IdleRec
    BY <1>0, <2>1, <2>2 DEF Shown
  <2>4. Items' = Items
    BY <1>0, <2>1, ItemsSame
  <2>. QED
    BY <2>3, <2>4 DEF Abstract
<1>9. CASE DeqLag(t)
  <2>1. pc[t] = "lag" /\ pc'[t] \in {"lagging", IF moir THEN "dequeued" ELSE "swing"} /\ UNCHANGED <<nxt, saw, m_pHead, next>>
    BY <1>0, <1>9 DEF DeqLag, Goto, queueVars, locals, Typed
  <2>2. pc[t] \in DeqLabels /\ pc'[t] \in DeqLabels /\ (Did(t) <=> moir) /\ (Did(t)' <=> moir)
    BY <2>1 DEF Did, Late, DeqLabels
  <2>. QED
    BY <1>2, <1>3, <2>1, <2>2
<1>10. CASE DeqHelp(t)
  <2>1. pc[t] = "lagging" /\ pc'[t] = (IF moir THEN "dequeued" ELSE "head") /\ UNCHANGED <<saw, m_pHead, next>>
    BY <1>0, <1>10 DEF DeqHelp, Retry, Goto, locals, Typed
  <2>2. pc[t] \in DeqLabels /\ pc'[t] \in DeqLabels /\ (Did(t) <=> moir) /\ (Did(t)' <=> moir)
    BY <2>1 DEF Did, Late, DeqLabels
  <2>3. moir => nxt' = nxt
    BY <1>10 DEF DeqHelp, locals
  <2>. QED
    BY <1>2, <1>3, <2>1, <2>2, <2>3
<1>11. CASE DeqSwing(t)
  <2>1. pc[t] = "swing" /\ pc'[t] = (IF moir THEN "lag" ELSE "dequeued") /\ UNCHANGED <<nxt, saw>>
    BY <1>0, <1>11 DEF DeqSwing, Goto, locals, Typed
  <2>2. pc[t] \in DeqLabels /\ pc'[t] \in DeqLabels /\ ~Did(t) /\ Did(t)'
    BY <2>1 DEF Did, Late, DeqLabels
  <2>3. CallOf(t) = Rec("deq", FALSE, nullptr, saw[t]) /\ CallOf(t)' = Rec("deq", TRUE, nxt[t], saw[t])
    BY <1>0, <2>1, <2>2 DEF Shown
  <2>4. Items # <<>> /\ nxt[t] = Head(Items) /\ Items' = Tail(Items)
    BY <1>11, ItemsSwung
  <2>. QED
    BY <2>3, <2>4 DEF Abstract
<1>12. CASE DeqCount(t) \/ DeqValue(t) \/ DeqDispose(t)
  <2>1. /\ pc[t] \in {"dequeued", "value", "dispose"} /\ pc'[t] \in {"value", "dispose", "return"}
        /\ UNCHANGED <<nxt, saw, m_pHead, next>>
    BY <1>0, <1>12 DEF DeqCount, DeqValue, DeqDispose, Goto, queueVars, locals, Typed
  <2>2. Did(t) /\ Did(t)' /\ pc[t] \in DeqLabels /\ pc'[t] \in DeqLabels
    BY <2>1 DEF Did, DeqLabels
  <2>. QED
    BY <1>3, <2>1, <2>2
<1>13. CASE DeqReturn(t)
  <2>1. pc[t] = "return" /\ pc'[t] = "idle" /\ UNCHANGED <<m_pHead, next>>
    BY <1>0, <1>13 DEF DeqReturn, Return, Goto, queueVars, Typed
  <2>2. CallOf(t) = Rec("deq", TRUE, nxt[t], saw[t]) /\ CallOf(t)' = IdleRec
    BY <1>0, <2>1 DEF Shown, Did, DeqLabels
  <2>3. Items' = Items
    BY <1>0, <2>1, ItemsSame
  <2>. QED
    BY <2>2, <2>3 DEF Abstract
<1>. QED
  BY <1>1, <1>4, <1>5, <1>6, <1>7, <1>8, <1>9, <1>10, <1>11, <1>12, <1>13 DEF DeqStep

\* A step that no thread takes is not seen.
LEMMA UnseenStep ==
  ASSUME UNCHANGED <<moir, pc, op, new, nxt, saw>>, Items' = Items
  PROVE  [AQ!Next]_<<Items, call>>
<1>1. \A t : CallOf(t)' = CallOf(t)
  BY DEF CallOf, Did, Late
<1>2. call' = call
  BY <1>1, CallIs, CallNext
<1>. QED
  BY <1>2

\* Every step is a step of the abstract queue, or is not seen.
LEMMA RefineNext == Walks' /\ Inv /\ Inv' /\ [Next]_vars => [AQ!Next]_<<Items, call>>
<1> SUFFICES ASSUME Walks', Inv, Inv', [Next]_vars PROVE [AQ!Next]_<<Items, call>>
  OBVIOUS
<1>0. Typed /\ Listed /\ \A u \in Thread : Doing(u)
  BY DEF Inv
<1>1. CASE UNCHANGED vars
  <2>1. Items' = Items
    BY <1>0, <1>1, ItemsSame DEF vars, queueVars
  <2>. QED
    BY <1>1, <2>1, UnseenStep DEF vars, locals
<1>2. ASSUME NEW t \in Thread, EnqStep(t) \/ DeqStep(t), moir' = moir PROVE [AQ!Next]_<<Items, call>>
  <2>1. Steps(t)
    BY <1>0, <1>2, InvSteady, EnqSteps, DeqSteps
  <2>2. \A u \in Thread \ {t} : CallOf(u)' = CallOf(u)
    BY <1>2, <2>1 DEF Steps, Same, CallOf, Did, Late
  <2>3. Abstract(CallOf(t), CallOf(t)')
    BY <1>2, <2>1, EnqAbstract, DeqAbstract DEF Steps
  <2>. QED
    BY <2>2, <2>3, StepIs
<1>3. ASSUME NEW o \in Obj, Reclaim(o), moir' = moir PROVE [AQ!Next]_<<Items, call>>
  <2>1. Nodes' = Nodes /\ UNCHANGED <<pc, locals>>
    BY <1>3, ReclaimFacts
  <2>. QED
    BY <1>3, <2>1, UnseenStep DEF Items, locals
<1>4. CASE Destroy /\ moir' = moir
  <2>1. Nodes' = <<>> /\ UNCHANGED <<pc, op, new, nxt, saw>> /\ Items = <<>>
    BY <1>4, DestroyFacts DEF Destroy
  <2>. QED
    BY <1>4, <2>1, UnseenStep DEF Items
<1>5. CASE Construct /\ moir' = moir
  <2>1. Nodes = <<>> /\ Nodes' = <<m_Dummy>> /\ UNCHANGED <<pc, op, new, nxt, saw>>
    BY <1>5, ConstructFacts
  <2>2. Tail(<<m_Dummy>>) = <<>>
    BY SMT
  <2>3. Items' = Items
    BY <2>1, <2>2 DEF Items
  <2>. QED
    BY <1>5, <2>1, <2>3, UnseenStep
<1>. QED
  BY <1>1, <1>2, <1>3, <1>4, <1>5 DEF Next

\* A new queue is empty, and nobody has called it.
LEMMA RefineInit == Walks /\ Init => AQ!Init
<1> SUFFICES ASSUME Walks, Init PROVE AQ!Init
  OBVIOUS
<1>1. m_pHead = m_Dummy /\ next[m_Dummy] = nullptr
  BY ConstantsAssumption DEF Init
<1>2. IsList(next, m_pHead, <<m_Dummy>>)
  BY <1>1, OneNode
<1>3. Nodes = <<m_Dummy>>
  BY <1>2 DEF Walks, List, Nodes
<1>4. Items = <<>>
  <2>1. Tail(<<m_Dummy>>) = <<>>
    BY SMT
  <2>. QED
    BY <1>3, <2>1 DEF Items
<1>5. \A t \in Thread : CallOf(t) = IdleRec
  BY DEF Init, CallOf, Did, Late, IdleRec
<1>6. call = [t \in Thread |-> AQ!Idle]
  BY <1>5, CallIs, IdleIs
<1>. QED
  BY <1>4, <1>6 DEF AQ!Init

-----------------------------------------------------------------------------
(* The steps, as the item counter sees them *)

\* A dequeue that has moved the head and not counted yet.
Takes(t) == pc[t] = "dequeued" \/ Late(t)

\* The threads that have linked a node, or taken one out, and have not counted it yet.
Adding == {t \in Thread : pc[t] = "enqueued"}
Taking == {t \in Thread : Takes(t)}

\* What a step may do to the items and to the counter.
Uncounted == Items' = Items /\ Adding' = Adding /\ Taking' = Taking /\ m_ItemCounter' = m_ItemCounter
Links(t) ==
  /\ t \notin Adding /\ Adding' = Adding \cup {t} /\ Taking' = Taking
  /\ Len(Items') = Len(Items) + 1 /\ m_ItemCounter' = m_ItemCounter
CountsUp(t) ==
  /\ t \in Adding /\ Adding' = Adding \ {t} /\ Taking' = Taking
  /\ Items' = Items /\ m_ItemCounter' = (m_ItemCounter + 1) % CounterModulus
Unlinks(t) ==
  /\ t \notin Taking /\ Taking' = Taking \cup {t} /\ Adding' = Adding
  /\ Len(Items') = Len(Items) - 1 /\ m_ItemCounter' = m_ItemCounter
CountsDown(t) ==
  /\ t \in Taking /\ Taking' = Taking \ {t} /\ Adding' = Adding
  /\ Items' = Items /\ m_ItemCounter' = (m_ItemCounter + CounterModulus - 1) % CounterModulus

Counting ==
  \/ Uncounted
  \/ \E t \in Thread : Links(t) \/ CountsUp(t) \/ Unlinks(t) \/ CountsDown(t)

\* t is neither linking, taking out nor counting.
Neutral(t) ==
  /\ (pc'[t] = "enqueued") <=> (pc[t] = "enqueued")
  /\ Takes(t)' <=> Takes(t)
  /\ m_ItemCounter' = m_ItemCounter

\* The steps of enqueue that are none of these.
LEMMA EnqNeutral ==
  ASSUME Typed, NEW t \in Thread, EnqStep(t), moir' = moir, ~EnqLink(t), ~EnqCount(t)
  PROVE  Neutral(t)
<1>. USE DEF Neutral, Takes, Late
<1>1. ASSUME NEW o \in Obj, EnqStart(t, o) PROVE Neutral(t)
  BY <1>1 DEF EnqStart, Goto, Typed
<1>2. CASE Assign(t, "tail", 0) \/ EnqProtect(t)
  BY <1>2 DEF Assign, EnqProtect, Goto, Typed
<1>3. CASE EnqNext(t)
  <2>1. pc[t] = "tailnext" /\ pc'[t] \in {"tailhelp", "link"} /\ m_ItemCounter' = m_ItemCounter
    BY <1>3 DEF EnqNext, Goto, Typed
  <2>. QED
    BY <2>1
<1>4. CASE EnqHelp(t) \/ EnqHelpFail(t) \/ EnqLinkFail(t)
  <2>1. pc[t] \in {"tailhelp", "link"} /\ pc'[t] = "tail" /\ m_ItemCounter' = m_ItemCounter
    BY <1>4 DEF EnqHelp, EnqHelpFail, EnqLinkFail, Retry, Goto, Typed
  <2>. QED
    BY <2>1
<1>5. CASE EnqAdvance(t)
  BY <1>5 DEF EnqAdvance, Return, Goto, Typed
<1>. QED
  BY <1>1, <1>2, <1>3, <1>4, <1>5 DEF EnqStep

\* The steps of dequeue that are none of these.
LEMMA DeqNeutral ==
  ASSUME Typed, NEW t \in Thread, Doing(t), DeqStep(t), moir' = moir, ~DeqSwing(t), ~DeqCount(t)
  PROVE  Neutral(t)
<1>. USE DEF Neutral, Takes, Late
<1>1. CASE DeqStart(t)
  BY <1>1 DEF DeqStart, Goto, Typed
<1>2. CASE Assign(t, "head", 0) \/ DeqHead(t) \/ Assign(t, "headnext", 1)
  BY <1>2 DEF Assign, DeqHead, Goto, Typed
<1>3. CASE DeqNext(t)
  <2>1. pc[t] = "headnext" /\ pc'[t] \in {"check", "swing"} /\ m_ItemCounter' = m_ItemCounter
    BY <1>3 DEF DeqNext, Goto, Typed
  <2>. QED
    BY <2>1
<1>4. CASE DeqCheck(t)
  <2>1. pc[t] = "check" /\ pc'[t] \in {"swing", "lag"} /\ m_ItemCounter' = m_ItemCounter
    BY <1>4 DEF DeqCheck, Goto, Typed
  <2>2. ~moir
    BY <2>1 DEF Doing
  <2>. QED
    BY <2>1, <2>2
<1>5. CASE DeqCheckFail(t) \/ DeqSwingFail(t)
  <2>1. pc[t] \in {"check", "swing"} /\ pc'[t] = "head" /\ m_ItemCounter' = m_ItemCounter
    BY <1>5 DEF DeqCheckFail, DeqSwingFail, Retry, Goto, Typed
  <2>. QED
    BY <2>1
<1>6. CASE DeqEmpty(t) \/ DeqReturn(t)
  <2>1. pc[t] \in {"swing", "return"} /\ pc'[t] = "idle" /\ m_ItemCounter' = m_ItemCounter
    BY <1>6 DEF DeqEmpty, DeqReturn, Return, Goto, Typed
  <2>. QED
    BY <2>1
<1>7. CASE DeqLag(t)
  <2>1. pc[t] = "lag" /\ pc'[t] \in {"lagging", IF moir THEN "dequeued" ELSE "swing"} /\ m_ItemCounter' = m_ItemCounter
    BY <1>7 DEF DeqLag, Goto, Typed
  <2>. QED
    BY <2>1
<1>8. CASE DeqHelp(t)
  <2>1. pc[t] = "lagging" /\ pc'[t] = (IF moir THEN "dequeued" ELSE "head") /\ m_ItemCounter' = m_ItemCounter
    BY <1>8 DEF DeqHelp, Retry, Goto, Typed
  <2>. QED
    BY <2>1
<1>9. CASE DeqValue(t) \/ DeqDispose(t)
  <2>1. pc[t] \in {"value", "dispose"} /\ pc'[t] \in {"dispose", "return"} /\ m_ItemCounter' = m_ItemCounter
    BY <1>9 DEF DeqValue, DeqDispose, Goto, Typed
  <2>. QED
    BY <2>1
<1>. QED
  BY <1>1, <1>2, <1>3, <1>4, <1>5, <1>6, <1>7, <1>8, <1>9 DEF DeqStep

\* They move no node into the queue or out of it.
LEMMA NeutralKeeps ==
  ASSUME Walks', Inv, NEW t \in Thread, Kinds(t), ~EnqLink(t), ~DeqSwing(t)
  PROVE  Items' = Items
<1>1. CASE Still(t) \/ Helps(t)
  BY <1>1, ItemsSame DEF Still, Helps, Inv
<1>2. ASSUME NEW o \in Obj, EnqStart(t, o) PROVE Items' = Items
  BY <1>2, StartFacts DEF Items
<1>3. CASE DeqDispose(t)
  BY <1>3, DisposeFacts DEF Items
<1>. QED
  BY <1>1, <1>2, <1>3 DEF Kinds

\* There are no others.
LEMMA CountStep ==
  ASSUME Walks', Inv, NEW t \in Thread, EnqStep(t) \/ DeqStep(t), moir' = moir
  PROVE  Counting
<1>0. Typed /\ Steady /\ Listed /\ \A u \in Thread : Doing(u)
  BY InvSteady DEF Inv
<1>1. Kinds(t) /\ \A u \in Thread \ {t} : Same(u)
  BY <1>0, EnqKinds, DeqKinds, EnqSteps, DeqSteps DEF Steps
<1>2. \A u \in Thread \ {t} : pc'[u] = pc[u] /\ (Takes(u)' <=> Takes(u))
  BY <1>1 DEF Same, Takes, Late
<1>3. CASE EnqLink(t)
  <2>1. pc[t] = "link" /\ pc'[t] = "enqueued" /\ m_ItemCounter' = m_ItemCounter
    BY <1>0, <1>3 DEF EnqLink, Goto, Typed
  <2>2. Items' = Append(Items, new[t])
    BY <1>3, ItemsLinked
  <2>3. Items \in Seq(Obj) /\ new[t] \in Obj
    <3>1. Nodes \in Seq(Obj)
      BY <1>0 DEF Listed, IsList
    <3>2. Items \in Seq(Obj)
      BY SMT, <3>1 DEF Items
    <3>. QED
      BY <1>3, <3>2, LinkAtTail
  <2>4. Len(Items') = Len(Items) + 1
    BY SMT, <2>2, <2>3
  <2>5. t \notin Adding /\ Adding' = Adding \cup {t} /\ Taking' = Taking
    <3>1. ~Takes(t) /\ ~Takes(t)'
      BY <2>1 DEF Takes, Late
    <3>. QED
      BY <1>2, <2>1, <3>1 DEF Adding, Taking
  <2>6. Links(t)
    BY <2>1, <2>4, <2>5 DEF Links
  <2>. QED
    BY <2>6 DEF Counting
<1>4. CASE DeqSwing(t)
  <2>1. pc[t] = "swing" /\ pc'[t] = (IF moir THEN "lag" ELSE "dequeued") /\ m_ItemCounter' = m_ItemCounter
    BY <1>0, <1>4 DEF DeqSwing, Goto, Typed
  <2>2. Items' = Tail(Items) /\ Items # <<>>
    BY <1>4, ItemsSwung
  <2>3. Items \in Seq(Obj)
    <3>1. Nodes \in Seq(Obj)
      BY <1>0 DEF Listed, IsList
    <3>. QED
      BY SMT, <3>1 DEF Items
  <2>4. Len(Items') = Len(Items) - 1
    BY SMT, <2>2, <2>3
  <2>5. t \notin Taking /\ Taking' = Taking \cup {t} /\ Adding' = Adding
    <3>1. ~Takes(t) /\ Takes(t)' /\ pc[t] # "enqueued" /\ pc'[t] # "enqueued"
      BY <2>1 DEF Takes, Late
    <3>. QED
      BY <1>2, <3>1 DEF Adding, Taking
  <2>6. Unlinks(t)
    BY <2>1, <2>4, <2>5 DEF Unlinks
  <2>. QED
    BY <2>6 DEF Counting
<1>5. CASE EnqCount(t)
  <2>1. /\ pc[t] = "enqueued" /\ pc'[t] = "advance" /\ m_ItemCounter' = (m_ItemCounter + 1) % CounterModulus
        /\ UNCHANGED <<m_pHead, next>>
    BY <1>0, <1>5 DEF EnqCount, Goto, queueVars, Typed
  <2>2. Items' = Items
    BY <1>0, <2>1, ItemsSame
  <2>3. t \in Adding /\ Adding' = Adding \ {t} /\ Taking' = Taking
    <3>1. ~Takes(t) /\ ~Takes(t)'
      BY <2>1 DEF Takes, Late
    <3>. QED
      BY <1>2, <2>1, <3>1 DEF Adding, Taking
  <2>4. CountsUp(t)
    BY <2>1, <2>2, <2>3 DEF CountsUp
  <2>. QED
    BY <2>4 DEF Counting
<1>6. CASE DeqCount(t)
  <2>1. /\ pc[t] = "dequeued" /\ pc'[t] = "value" /\ UNCHANGED <<m_pHead, next>>
        /\ m_ItemCounter' = (m_ItemCounter + CounterModulus - 1) % CounterModulus
    BY <1>0, <1>6 DEF DeqCount, Goto, queueVars, Typed
  <2>2. Items' = Items
    BY <1>0, <2>1, ItemsSame
  <2>3. t \in Taking /\ Taking' = Taking \ {t} /\ Adding' = Adding
    <3>1. Takes(t) /\ ~Takes(t)'
      BY <2>1 DEF Takes, Late
    <3>. QED
      BY <1>2, <2>1, <3>1 DEF Adding, Taking
  <2>4. CountsDown(t)
    BY <2>1, <2>2, <2>3 DEF CountsDown
  <2>. QED
    BY <2>4 DEF Counting
<1>7. CASE ~EnqLink(t) /\ ~DeqSwing(t) /\ ~EnqCount(t) /\ ~DeqCount(t)
  <2>1. Neutral(t)
    BY <1>0, <1>7, EnqNeutral, DeqNeutral
  <2>2. Items' = Items
    BY <1>1, <1>7, NeutralKeeps
  <2>3. Adding' = Adding /\ Taking' = Taking
    BY <1>2, <2>1 DEF Adding, Taking, Neutral
  <2>. QED
    BY <2>1, <2>2, <2>3 DEF Counting, Uncounted, Neutral
<1>. QED
  BY <1>3, <1>4, <1>5, <1>6, <1>7

-----------------------------------------------------------------------------
(* What the invariant comes to *)

\* No node is used after it was freed.
LEMMA InvSafe == Inv => NoUseAfterFree
<1> SUFFICES ASSUME Inv PROVE NoUseAfterFree
  OBVIOUS
<1>0. Placed /\ Steady /\ Tailed /\ Typed
  BY InvSteady DEF Inv
<1>1. ASSUME NEW i \in DOMAIN Nodes PROVE status[Nodes[i]] = "linked"
  <2>1. Nodes \in Seq(Obj)
    BY DEF Inv, Listed, IsList
  <2>2. Nodes[i] \in Obj /\ i \in 1 .. Len(Nodes)
    BY SMT, <1>1, <2>1
  <2>. QED
    BY <1>0, <2>2, InUse DEF In, Elems
<1>2. m_pTail # nullptr => status[m_pTail] = "linked"
  BY <1>0 DEF Steady, Tailed
<1>3. ASSUME NEW t \in Thread
      PROVE  /\ pc[t] \in {"tailnext", "link", "headnext"} => status[cur[t]] # "free"
             /\ pc[t] = "value" => status[nxt[t]] # "free"
             /\ pc[t] \in {"tail", "tailnext", "tailhelp", "link"} => status[new[t]] = "linked"
             /\ pc[t] = "dispose" => status[cur[t]] = "linked"
  <2>0. Doing(t) /\ Guarded(t) /\ At(t)
    BY DEF Inv
  <2>1. ASSUME pc[t] \in {"tailnext", "link", "headnext"} PROVE status[cur[t]] # "free"
    BY <2>0, <2>1, ConstantsAssumption DEF Doing, Guarded
  <2>2. ASSUME pc[t] = "value" PROVE status[nxt[t]] # "free"
    <3>1. G1(t) = nxt[t] /\ nxt[t] # nullptr
      BY <2>0, <2>2, ConstantsAssumption DEF Doing, At, Removed
    <3>. QED
      BY <2>0, <3>1 DEF Guarded
  <2>3. ASSUME Fresh(t) PROVE status[new[t]] = "linked"
    <3>1. new[t] \in Obj /\ Has(t, new[t])
      BY <2>0, <2>3 DEF Doing, Has, Fresh, EnqLabels
    <3>. QED
      BY <1>0, <3>1, InUse
  <2>4. ASSUME pc[t] = "dispose" PROVE status[cur[t]] = "linked"
    <3>1. cur[t] \in Obj /\ Has(t, cur[t])
      BY <2>0, <2>4 DEF Doing, Has, Removed
    <3>. QED
      BY <1>0, <3>1, InUse
  <2>. QED
    BY <2>1, <2>2, <2>3, <2>4 DEF Fresh
<1>. QED
  BY <1>1, <1>2, <1>3 DEF NoUseAfterFree

\* The tail is near the end of the queue.
LEMMA InvTail == Inv => TailLag
<1> SUFFICES ASSUME Inv, m_pHead # nullptr PROVE TailLag
  BY DEF TailLag
<1>1. TailAt /\ \A t \in Thread : Doing(t)
  BY DEF Inv, Tailed
<1>2. next[m_pTail] # nullptr => next[next[m_pTail]] = nullptr
  BY TailBehind
<1>3. ASSUME m_pTail \in In PROVE \E i \in DOMAIN Nodes : Nodes[i] = m_pTail
  <2>1. Nodes \in Seq(Obj)
    BY DEF Inv, Listed, IsList
  <2>2. DOMAIN Nodes = 1 .. Len(Nodes)
    BY SMT, <2>1
  <2>. QED
    BY <1>3, <2>2 DEF In, Elems
<1>4. m_pTail \in In \/ (moir /\ next[m_pTail] = m_pHead)
  BY <1>1 DEF TailAt, Late
<1>5. Quiescent => next[m_pTail] = nullptr
  BY <1>1 DEF TailAt, Quiescent, Pushing
<1>. QED
  BY <1>2, <1>3, <1>4, <1>5 DEF TailLag

\* The holders of a node.
LEMMA HoldersHave == \A o : Holders(o) = {t \in Thread : Has(t, o)}
  BY DEF Holders, Has, Fresh, Removed, Late
=============================================================================
