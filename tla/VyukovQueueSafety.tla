-------------------------- MODULE VyukovQueueSafety --------------------------
(***************************************************************************)
(* The proofs about VyukovQueue, for any number of threads, any capacity   *)
(* and any width of the position counters.                                 *)
(*                                                                         *)
(* First the ring: the inductive invariant Inv, and the items and calls    *)
(* that it shows.  Inv is about numbers that do not wrap: there are        *)
(* integers e and d for the two positions, p[t] for the position every     *)
(* thread has read and s[i] for every sequence number, of which the        *)
(* program keeps the remainders modulo PosModulus.                         *)
(*                                                                         *)
(* Then the theorems: enqueue, dequeue and front are linearizable, what    *)
(* front() returned stays, cells are accessed by one thread at a time, and *)
(* the item counter is right when nobody is inside.                        *)
(***************************************************************************)
EXTENDS VyukovQueue, TLAPS

\* The provers to try, in this order.
USE Zenon, SMT

\* What ConstantsAssumption says of the numbers.
LEMMA Sizes ==
  /\ Capacity \in Nat /\ Capacity >= 2 /\ Window \in Nat /\ PosModulus \in Nat
  /\ Window + Capacity < PosModulus /\ 2 * (Window + Capacity) < PosModulus
  BY SMT, ConstantsAssumption

\* The remainder, by its quotient.
LEMMA Quotient ==
  ASSUME NEW m \in Nat, m > 0, NEW a \in Int
  PROVE  \E q \in Int : a = q * m + (a % m) /\ a % m \in 0 .. m - 1
<1>1. a \div m \in Int /\ a % m \in 0 .. m - 1
  BY SMT
<1>2. a = (a \div m) * m + (a % m)
  BY SMT
<1>. QED
  BY <1>1, <1>2

\* A multiple of m that is less than m is 0.
LEMMA Multiple ==
  ASSUME NEW m \in Nat, NEW q \in Int, q * m < m, q * m > -m
  PROVE  q = 0
<1>1. ASSUME q >= 1 PROVE FALSE
  <2>1. q * m >= m
    BY SMT, <1>1
  <2>2. q * m \in Int
    BY SMT
  <2>. QED
    BY SMT, <2>1, <2>2
<1>2. ASSUME q <= -1 PROVE FALSE
  <2>1. q * m <= -m
    BY SMT, <1>2
  <2>2. q * m \in Int
    BY SMT
  <2>. QED
    BY SMT, <2>1, <2>2
<1>. QED
  BY SMT, <1>1, <1>2

\* Remainders are equal when and only when the numbers differ by a multiple.
LEMMA ModEq ==
  ASSUME NEW m \in Nat, m > 0, NEW a \in Int, NEW b \in Int, a % m = b % m, a - b < m, b - a < m
  PROVE  a = b
<1>1. PICK q \in Int : a = q * m + (a % m)
  BY Quotient
<1>2. PICK r \in Int : b = r * m + (b % m)
  BY Quotient
<1>3. a % m \in Int
  BY SMT
<1>4. PICK x \in Int : x = q * m
  BY SMT
<1>5. PICK y \in Int : y = r * m
  BY SMT
<1>6. a - b = x - y
  BY SMT, <1>1, <1>2, <1>3, <1>4, <1>5
<1>7. x - y = (q - r) * m
  BY SMT, <1>4, <1>5
<1>8. (q - r) * m < m /\ (q - r) * m > -m
  BY SMT, <1>6, <1>7
<1>9. q - r = 0
  BY <1>8, Multiple
<1>10. x - y = 0
  BY SMT, <1>7, <1>9
<1>. QED
  BY SMT, <1>6, <1>10

\* A multiple does not change the remainder.
LEMMA ModPlus ==
  ASSUME NEW m \in Nat, m > 0, NEW a \in Int, NEW q \in Int
  PROVE  (a + q * m) % m = a % m
<1>1. PICK r \in Int : a = r * m + (a % m) /\ a % m \in 0 .. m - 1
  BY Quotient
<1>2. PICK k \in Int : a + q * m = k * m + ((a + q * m) % m) /\ (a + q * m) % m \in 0 .. m - 1
  <2>1. a + q * m \in Int
    BY SMT
  <2>. QED
    BY <2>1, Quotient
<1>3. PICK x \in Int : x = a % m /\ x >= 0 /\ x < m
  BY SMT, <1>1
<1>4. PICK y \in Int : y = (a + q * m) % m /\ y >= 0 /\ y < m
  BY SMT, <1>2
<1>5. y - x = (r + q - k) * m
  BY SMT, <1>1, <1>2, <1>3, <1>4
<1>6. r + q - k = 0
  <2>1. (r + q - k) * m < m /\ (r + q - k) * m > -m
    BY SMT, <1>3, <1>4, <1>5
  <2>2. r + q - k \in Int
    BY SMT
  <2>. QED
    BY <2>1, <2>2, Multiple
<1>7. y - x = 0
  BY SMT, <1>5, <1>6
<1>. QED
  BY SMT, <1>3, <1>4, <1>7

-----------------------------------------------------------------------------
(* Positions that do not wrap *)

\* The unsigned number that position n is stored as.
Wrap(n) == n % PosModulus

\* A stored number is in range, and a multiple of PosModulus away.
LEMMA WrapOf ==
  ASSUME NEW n \in Int
  PROVE  Wrap(n) \in 0 .. PosModulus - 1 /\ \E q \in Int : n = q * PosModulus + Wrap(n)
<1>1. PosModulus \in Nat /\ PosModulus > 0
  BY SMT, Sizes
<1>. QED
  BY <1>1, Quotient DEF Wrap

\* Numbers that are less than PosModulus apart are equal when their stored forms are.
LEMMA WrapEq ==
  ASSUME NEW j \in Int, NEW k \in Int, j - k < PosModulus, k - j < PosModulus, Wrap(j) = Wrap(k)
  PROVE  j = k
<1>1. PosModulus \in Nat /\ PosModulus > 0
  BY SMT, Sizes
<1>. QED
  BY SMT, <1>1, ModEq DEF Wrap

\* A number in range is stored as it is.
LEMMA WrapSmall ==
  ASSUME NEW n \in Int, 0 <= n, n < PosModulus
  PROVE  Wrap(n) = n
<1>1. PosModulus \in Nat /\ PosModulus > 0
  BY SMT, Sizes
<1>2. PICK q \in Int : n = q * PosModulus + Wrap(n) /\ Wrap(n) \in 0 .. PosModulus - 1
  BY WrapOf
<1>3. PICK x \in Int : x = Wrap(n) /\ x >= 0 /\ x < PosModulus
  BY SMT, <1>1, <1>2
<1>4. q * PosModulus < PosModulus /\ q * PosModulus > -PosModulus
  BY SMT, <1>1, <1>2, <1>3
<1>5. q = 0
  BY SMT, <1>1, <1>4, Multiple
<1>6. q * PosModulus = 0
  BY SMT, <1>1, <1>5
<1>. QED
  BY SMT, <1>1, <1>2, <1>3, <1>6

\* What Add and Dif do to the positions.
LEMMA WrapAdd ==
  ASSUME NEW j \in Int, NEW n \in Int
  PROVE  Add(Wrap(j), n) = Wrap(j + n)
<1>1. PosModulus \in Nat /\ PosModulus > 0
  BY SMT, Sizes
<1>2. PICK q \in Int : j = q * PosModulus + Wrap(j) /\ Wrap(j) \in 0 .. PosModulus - 1
  BY WrapOf
<1>3. PICK x \in Int : x = Wrap(j)
  BY SMT, <1>1, <1>2
<1>4. j + n = (x + n) + q * PosModulus /\ x + n \in Int
  BY SMT, <1>1, <1>2, <1>3
<1>5. ((x + n) + q * PosModulus) % PosModulus = (x + n) % PosModulus
  BY <1>1, <1>4, ModPlus
<1>. QED
  BY <1>3, <1>4, <1>5 DEF Add, Wrap

\* The unsigned difference, as Size and AtBound compute it.
LEMMA WrapSub ==
  ASSUME NEW j \in Int, NEW k \in Int
  PROVE  Add(Wrap(j), PosModulus - Wrap(k)) = Wrap(j - k)
<1>1. PosModulus \in Nat /\ PosModulus > 0
  BY SMT, Sizes
<1>2. PICK q \in Int : k = q * PosModulus + Wrap(k) /\ Wrap(k) \in 0 .. PosModulus - 1
  BY WrapOf
<1>3. PICK x \in Int : x = Wrap(k)
  BY SMT, <1>1, <1>2
<1>4. PICK y \in Int : y = PosModulus - x
  BY SMT, <1>1
<1>5. Add(Wrap(j), y) = Wrap(j + y)
  BY WrapAdd
<1>6. PICK c \in Int : c = q + 1
  BY SMT
<1>7. c * PosModulus = q * PosModulus + PosModulus
  BY SMT, <1>1, <1>6
<1>8. PICK a \in Int : a = j - k
  BY SMT
<1>9. j + y = a + c * PosModulus
  BY SMT, <1>1, <1>2, <1>3, <1>4, <1>7, <1>8
<1>10. (a + c * PosModulus) % PosModulus = a % PosModulus
  BY <1>1, ModPlus
<1>. QED
  BY <1>3, <1>4, <1>5, <1>8, <1>9, <1>10 DEF Wrap

\* The signed difference is right for numbers less than half the range apart.
LEMMA WrapDif ==
  ASSUME NEW j \in Int, NEW k \in Int, 2 * (j - k) < PosModulus, 2 * (k - j) < PosModulus
  PROVE  Dif(Wrap(j), Wrap(k)) = j - k
<1>1. PosModulus \in Nat /\ PosModulus > 0
  BY SMT, Sizes
<1>2. PICK q \in Int : j = q * PosModulus + Wrap(j) /\ Wrap(j) \in 0 .. PosModulus - 1
  BY WrapOf
<1>3. PICK r \in Int : k = r * PosModulus + Wrap(k) /\ Wrap(k) \in 0 .. PosModulus - 1
  BY WrapOf
<1>4. PICK x \in Int : x = Wrap(j)
  BY SMT, <1>1, <1>2
<1>5. PICK y \in Int : y = Wrap(k)
  BY SMT, <1>1, <1>3
<1>6. PICK h \in Int : h = PosModulus \div 2 /\ 2 * h <= PosModulus /\ PosModulus <= 2 * h + 1
  BY SMT, <1>1
<1>7. PICK a \in Int : a = j - k + h
  BY SMT
<1>8. PICK c \in Int : c = r - q
  BY SMT
<1>9. c * PosModulus = r * PosModulus - q * PosModulus
  BY SMT, <1>1, <1>8
<1>10. x - y + h = a + c * PosModulus
  <2>1. PICK m \in Int : m = q * PosModulus
    BY SMT, <1>1
  <2>2. PICK n \in Int : n = r * PosModulus
    BY SMT, <1>1
  <2>3. c * PosModulus = n - m /\ j = m + x /\ k = n + y
    BY SMT, <1>2, <1>3, <1>4, <1>5, <1>9, <2>1, <2>2
  <2>. QED
    BY SMT, <1>7, <2>3
<1>11. (a + c * PosModulus) % PosModulus = a % PosModulus
  BY <1>1, ModPlus
<1>12. 0 <= a /\ a < PosModulus
  BY SMT, <1>1, <1>6, <1>7
<1>13. a % PosModulus = a
  BY <1>12, WrapSmall DEF Wrap
<1>14. Dif(x, y) = a - h
  BY <1>6, <1>10, <1>11, <1>13 DEF Dif
<1>. QED
  BY SMT, <1>4, <1>5, <1>6, <1>7, <1>14

-----------------------------------------------------------------------------
(* Cells *)

\* Cell is an index of the buffer.
LEMMA CellIn ==
  ASSUME NEW n \in Int
  PROVE  Cell(n) \in Index
  BY SMT, Sizes DEF Cell, Index, m_nBufferMask

\* Positions in one round of the buffer have different cells.
LEMMA CellEq ==
  ASSUME NEW j \in Int, NEW k \in Int, j - k < Capacity, k - j < Capacity, Cell(j) = Cell(k)
  PROVE  j = k
<1>1. Capacity \in Nat /\ Capacity > 0
  BY SMT, Sizes
<1>. QED
  BY SMT, <1>1, ModEq DEF Cell

\* One round later the cell is the same.
LEMMA CellRound ==
  ASSUME NEW n \in Int
  PROVE  Cell(n + Capacity) = Cell(n)
<1>1. Capacity \in Nat /\ Capacity > 0
  BY SMT, Sizes
<1>2. PICK q \in Int : q = 1
  BY SMT
<1>3. n + Capacity = n + q * Capacity
  BY SMT, <1>1, <1>2
<1>4. (n + q * Capacity) % Capacity = n % Capacity
  BY <1>1, ModPlus
<1>. QED
  BY <1>3, <1>4 DEF Cell

\* The cell of the stored position is the cell of the position: PosModulus is a
\* multiple of the capacity.
LEMMA CellWrap ==
  ASSUME NEW n \in Int
  PROVE  Cell(Wrap(n)) = Cell(n)
<1>1. Capacity \in Nat /\ Capacity > 0 /\ PosModulus \in Int
  BY SMT, Sizes
<1>2. PICK c \in Int : PosModulus = c * Capacity + (PosModulus % Capacity)
  BY <1>1, Quotient
<1>3. PosModulus = c * Capacity
  <2>1. PosModulus % Capacity = 0
    BY ConstantsAssumption
  <2>. QED
    BY SMT, <1>1, <1>2, <2>1
<1>4. PICK q \in Int : n = q * PosModulus + Wrap(n) /\ Wrap(n) \in 0 .. PosModulus - 1
  BY WrapOf
<1>5. PICK x \in Int : x = Wrap(n)
  BY SMT, <1>1, <1>4
<1>6. n = x + (q * c) * Capacity /\ q * c \in Int
  BY SMT, <1>1, <1>3, <1>4, <1>5
<1>7. (x + (q * c) * Capacity) % Capacity = x % Capacity
  BY <1>1, <1>6, ModPlus
<1>. QED
  BY <1>5, <1>6, <1>7 DEF Cell

-----------------------------------------------------------------------------
(* The inductive invariant *)

\* Where a thread can be.
Label == {"idle", "load", "sequence", "exchange", "bound", "access", "clean", "publish", "count", "front"}

\* The type invariant.
Typed ==
  /\ consumers \subseteq Thread
  /\ m_posEnqueue \in Pos /\ m_posDequeue \in Pos /\ m_ItemCounter \in Pos
  /\ sequence \in [Index -> Pos]
  /\ data \in [Index -> Val \cup {nullptr}]
  /\ pc \in [Thread -> Label]
  /\ op \in [Thread -> {"none", "enq", "deq", "front"}]
  /\ pos \in [Thread -> Pos]
  /\ val \in [Thread -> Val \cup {nullptr}]
  /\ front \in [Thread -> Index \cup {-1}]

\* What the place of a thread in the code says of its operation.
ControlOf(t) ==
  /\ pc[t] = "idle" <=> op[t] = "none"
  /\ pc[t] \in {"exchange", "access", "publish", "count"} => op[t] \in {"enq", "deq"}
  /\ pc[t] = "clean" => op[t] = "deq"
  /\ pc[t] = "front" => op[t] = "front"
  /\ op[t] = "enq" => val[t] \in Val
  /\ op[t] # "enq" /\ pc[t] \notin {"clean", "publish", "count"} => val[t] = nullptr
  /\ op[t] = "deq" => t \in consumers
  /\ op[t] = "front" => consumers = {t}
  /\ front[t] # -1 => consumers = {t}
  /\ front[t] # -1 /\ op[t] = "deq" => pc[t] \in {"load", "sequence", "bound", "exchange"}

Control == Typed /\ \A t \in Thread : ControlOf(t)

\* Threads that have reserved a cell, to fill it or to empty it.
Filler(t)  == op[t] = "enq" /\ pc[t] \in {"access", "publish"}
Drainer(t) == op[t] = "deq" /\ pc[t] \in {"access", "clean", "publish"}

\* Sums are stored in range.
LEMMA AddIn ==
  ASSUME NEW j \in Int, NEW n \in Int
  PROVE  Add(j, n) \in Pos
<1>1. PosModulus \in Nat /\ PosModulus > 0
  BY SMT, Sizes
<1>2. PICK x \in Int : x = j + n
  BY SMT
<1>. QED
  BY SMT, <1>1, <1>2 DEF Add, Pos

\* Control holds at the start ...
LEMMA ControlInit ==
  ASSUME Init
  PROVE  Control
<1>1. 0 \in Pos /\ -1 \in Index \cup {-1}
  BY SMT, Sizes DEF Pos
<1>2. Index \subseteq Pos
  BY SMT, Sizes DEF Pos, Index, m_nBufferMask
<1>3. consumers \subseteq Thread
  BY ConstantsAssumption DEF Init
<1>. QED
  BY <1>1, <1>2, <1>3 DEF Init, Control, Typed, ControlOf, Label

\* ... and every step keeps it.
LEMMA ControlStep ==
  ASSUME Control, NEW t \in Thread, Step(t), UNCHANGED consumers
  PROVE  Control'
<1>. USE DEF Control, Typed, Label
<1>0. 0 \in Pos /\ -1 \in Index \cup {-1} /\ Pos \subseteq Int /\ Index \subseteq Int
  BY SMT, Sizes DEF Pos, Index, m_nBufferMask
<1>1. Position(t) \in Pos
  BY DEF Position
<1>2. pos[t] \in Int /\ m_ItemCounter \in Int
  BY <1>0
<1>3. Add(pos[t], 1) \in Pos /\ NextSequence(t) \in Pos /\ Cell(pos[t]) \in Index
  <2>1. Add(pos[t], 1) \in Pos
    BY SMT, <1>2, AddIn
  <2>2. PICK n \in Int : n = IF op[t] = "enq" THEN 1 ELSE m_nBufferMask + 1
    BY SMT, Sizes DEF m_nBufferMask
  <2>3. Add(pos[t], n) \in Pos
    BY <1>2, AddIn
  <2>. QED
    BY <1>2, <2>1, <2>2, <2>3, CellIn DEF NextSequence
<1>4. Add(m_ItemCounter, IF op[t] = "enq" THEN 1 ELSE PosModulus - 1) \in Pos
  <2>1. PICK n \in Int : n = IF op[t] = "enq" THEN 1 ELSE PosModulus - 1
    BY SMT, Sizes
  <2>2. Add(m_ItemCounter, n) \in Pos
    BY <1>2, AddIn
  <2>. QED
    BY <2>1, <2>2
<1>. USE DEF sharedVars, locals, Goto, ControlOf
<1>5. CASE \E v \in Val : EnqStart(t, v)
  BY SMT, <1>5 DEF EnqStart
<1>6. CASE DeqStart(t)
  BY <1>6 DEF DeqStart
<1>7. CASE FrontStart(t)
  BY <1>7 DEF FrontStart
<1>8. CASE Load(t)
  BY <1>1, <1>8 DEF Load
<1>9. CASE LoadSequence(t)
  <2>1. PICK l \in {"front", "exchange", "bound", "load"} :
          pc' = [pc EXCEPT ![t] = l] /\ (l = "front" <=> l = "front" /\ op[t] = "front")
          /\ (l = "exchange" => op[t] # "front")
    BY <1>9 DEF LoadSequence
  <2>. QED
    BY SMT, <1>9, <2>1 DEF LoadSequence
<1>10. CASE Exchange(t)
  BY <1>0, <1>3, <1>10 DEF Exchange
<1>11. CASE ExchangeFail(t)
  BY <1>1, <1>11 DEF ExchangeFail
<1>12. CASE Bound(t)
  BY ZenonT(60), <1>0, <1>12 DEF Bound, Return
<1>13. CASE BoundRetry(t)
  BY <1>13 DEF BoundRetry
<1>14. CASE Write(t)
  BY <1>3, <1>14 DEF Write
<1>15. CASE Read(t)
  BY <1>3, <1>15 DEF Read
<1>16. CASE Clean(t)
  BY <1>3, <1>16 DEF Clean
<1>17. CASE Publish(t)
  BY <1>3, <1>17 DEF Publish
<1>18. CASE Count(t)
  BY <1>0, <1>4, <1>18 DEF Count, Return
<1>19. CASE FrontReturn(t)
  BY ZenonT(60), <1>0, <1>3, <1>19 DEF FrontReturn, Return
<1>. QED
  BY <1>5, <1>6, <1>7, <1>8, <1>9, <1>10, <1>11, <1>12, <1>13, <1>14, <1>15, <1>16, <1>17, <1>18, <1>19
     DEF Step

\* The positions, the threads' positions and the sequence numbers, without wrapping.
View(e, d, p, s) ==
  /\ m_posEnqueue = Wrap(e) /\ m_posDequeue = Wrap(d)
  /\ \A t \in Thread : pos[t] = Wrap(p[t])
  /\ \A i \in Index : sequence[i] = Wrap(s[i])

\* A thread that fills a cell is at a position of the queue, and the cell waits for it.
FillerAt(t, e, d, p, s) ==
  /\ d <= p[t] /\ p[t] < e
  /\ s[Cell(p[t])] = p[t]
  /\ data[Cell(p[t])] \in (IF pc[t] = "access" THEN {nullptr} ELSE Val)

\* A thread that empties a cell is at a position before the head, and no enqueue has
\* got round to the cell.
DrainerAt(t, e, d, p, s) ==
  /\ p[t] < d /\ e <= p[t] + Capacity
  /\ s[Cell(p[t])] = p[t] + 1
  /\ data[Cell(p[t])] \in (IF pc[t] = "publish" THEN {nullptr} ELSE Val)

\* The cell of position k has a value, or somebody is putting one there.
FullAt(k, p, s) ==
  \/ s[Cell(k)] = k + 1 /\ data[Cell(k)] \in Val
  \/ \E t \in Thread : Filler(t) /\ p[t] = k

\* The cell of position k is ready to be filled, or somebody is emptying it.
FreeAt(k, p, s) ==
  \/ s[Cell(k)] = k /\ data[Cell(k)] = nullptr
  \/ \E t \in Thread : Drainer(t) /\ p[t] + Capacity = k

\* Every cell between the positions is full or being filled, every other one is
\* free or being emptied, each by one thread.
Cells(e, d, p, s) ==
  /\ d <= e /\ e <= d + Capacity
  /\ \A t \in Thread : Filler(t) => FillerAt(t, e, d, p, s)
  /\ \A t \in Thread : Drainer(t) => DrainerAt(t, e, d, p, s)
  /\ \A t, u \in Thread :
       (Filler(t) /\ Filler(u)) \/ (Drainer(t) /\ Drainer(u)) => t = u \/ p[t] # p[u]
  /\ \A k \in Int : d <= k /\ k < e => FullAt(k, p, s)
  /\ \A k \in Int : e <= k /\ k < d + Capacity => FreeAt(k, p, s)

\* There is a value at the head, published.
Ready(e, d, s) == d < e /\ s[Cell(d)] = d + 1

\* A thread that looks for a cell may have been overtaken; what it has read of the
\* sequence number was no more than what is there.
SeekerAt(t, e, d, p, s) ==
  pc[t] \in {"sequence", "bound", "exchange", "front"} =>
    /\ op[t] = "enq" =>
         /\ p[t] <= e /\ e <= p[t] + Window
         /\ pc[t] = "exchange" => s[Cell(p[t])] >= p[t]
    /\ op[t] # "enq" =>
         /\ p[t] <= d /\ d <= p[t] + Window
         /\ pc[t] = "exchange" => s[Cell(p[t])] > p[t]
    /\ op[t] = "front" => p[t] = d
    /\ pc[t] = "front" => Ready(e, d, s)

\* What front() has shown is the head, and it is there.
FrontAt(t, e, d, s) == front[t] # -1 => front[t] = Cell(d) /\ Ready(e, d, s)

\* What every thread has read.
Threads(e, d, p, s) == \A t \in Thread : SeekerAt(t, e, d, p, s) /\ FrontAt(t, e, d, s)

\* The invariant, for the numbers that do not wrap.
Ring(e, d, p, s) == View(e, d, p, s) /\ Cells(e, d, p, s) /\ Threads(e, d, p, s)

\* The positions of the threads and the sequence numbers of the cells.
Pint == [Thread -> Int]
Sint == [Index -> Int]

\* The inductive invariant.
Inv == Control /\ \E e, d \in Int, p \in Pint, s \in Sint : Ring(e, d, p, s)

-----------------------------------------------------------------------------
\* It holds at the start.
LEMMA RingInit ==
  ASSUME Init
  PROVE  \E e, d \in Int, p \in Pint, s \in Sint : Ring(e, d, p, s)
<1>. DEFINE p == [t \in Thread |-> 0]
            s == [i \in Index |-> i]
<1>1. p \in Pint /\ s \in Sint
  BY SMT, Sizes DEF Pint, Sint, Index, m_nBufferMask
<1>2. Wrap(0) = 0 /\ \A i \in Index : i \in Int /\ Wrap(i) = i
  BY SMT, Sizes, WrapSmall DEF Index, m_nBufferMask
<1>3. View(0, 0, p, s)
  BY <1>2 DEF View, Init
<1>4. \A k \in Int : 0 <= k /\ k < Capacity => k \in Index /\ Cell(k) = k
  BY SMT, Sizes DEF Cell, Index, m_nBufferMask
<1>5. Cells(0, 0, p, s)
  <2>1. \A t \in Thread : ~ Filler(t) /\ ~ Drainer(t)
    BY DEF Init, Filler, Drainer
  <2>2. \A k \in Int : 0 <= k /\ k < 0 + Capacity => FreeAt(k, p, s)
    BY SMT, <1>4, Sizes DEF FreeAt, Init
  <2>3. \A k \in Int : 0 <= k /\ k < 0 => FullAt(k, p, s)
    BY SMT
  <2>4. 0 <= 0 /\ 0 <= 0 + Capacity
    BY SMT, Sizes
  <2>. QED
    BY <2>1, <2>2, <2>3, <2>4 DEF Cells
<1>6. Threads(0, 0, p, s)
  BY DEF Init, Threads, SeekerAt, FrontAt
<1>. QED
  BY <1>1, <1>3, <1>5, <1>6 DEF Ring

-----------------------------------------------------------------------------
(* What the invariant says of cells *)

\* A position of the ring at which a thread has reserved the cell.
LEMMA OwnCell ==
  ASSUME NEW e \in Int, NEW d \in Int, NEW p \in Pint, NEW s \in Sint, Cells(e, d, p, s),
         NEW t \in Thread, Filler(t) \/ Drainer(t)
  PROVE  /\ p[t] \in Int /\ Cell(p[t]) \in Index
         /\ \E k \in Int : /\ d <= k /\ k < d + Capacity /\ Cell(k) = Cell(p[t])
                           /\ k = (IF Filler(t) THEN p[t] ELSE p[t] + Capacity)
                           /\ Filler(t) => k < e
                           /\ Drainer(t) => e <= k
                           /\ \A j \in Int : d <= j /\ j < d + Capacity /\ j # k => Cell(j) # Cell(p[t])
<1>1. p[t] \in Int /\ Cell(p[t]) \in Index
  BY CellIn DEF Pint
<1>2. PICK k \in Int : k = (IF Filler(t) THEN p[t] ELSE p[t] + Capacity)
  BY SMT, <1>1, Sizes
<1>3. Cell(k) = Cell(p[t])
  BY <1>1, <1>2, CellRound
<1>4. ~ (Filler(t) /\ Drainer(t))
  BY DEF Filler, Drainer
<1>5. d <= k /\ k < d + Capacity /\ (Filler(t) => k < e) /\ (Drainer(t) => e <= k)
  <2>1. CASE Filler(t)
    BY SMT, <1>1, <1>2, <1>4, <2>1, Sizes DEF Cells, FillerAt
  <2>2. CASE Drainer(t)
    BY SMT, <1>1, <1>2, <1>4, <2>2, Sizes DEF Cells, DrainerAt
  <2>. QED
    BY <2>1, <2>2
<1>6. ASSUME NEW j \in Int, d <= j, j < d + Capacity, j # k
      PROVE  Cell(j) # Cell(k)
  <2>1. j - k < Capacity /\ k - j < Capacity
    BY SMT, <1>5, <1>6, Sizes
  <2>. QED
    BY <1>6, <2>1, CellEq
<1>. QED
  BY <1>1, <1>2, <1>3, <1>5, <1>6

\* Threads that have reserved a cell have reserved different ones.
LEMMA OwnersApart ==
  ASSUME NEW e \in Int, NEW d \in Int, NEW p \in Pint, NEW s \in Sint, Cells(e, d, p, s),
         NEW t \in Thread, Filler(t) \/ Drainer(t), NEW u \in Thread, Filler(u) \/ Drainer(u),
         t # u
  PROVE  Cell(p[t]) # Cell(p[u])
<1>1. PICK k \in Int : /\ d <= k /\ k < d + Capacity /\ Cell(k) = Cell(p[t])
                       /\ k = (IF Filler(t) THEN p[t] ELSE p[t] + Capacity)
                       /\ Filler(t) => k < e
                       /\ Drainer(t) => e <= k
  BY SMT, OwnCell
<1>2. PICK j \in Int : /\ d <= j /\ j < d + Capacity /\ Cell(j) = Cell(p[u])
                       /\ j = (IF Filler(u) THEN p[u] ELSE p[u] + Capacity)
                       /\ Filler(u) => j < e
                       /\ Drainer(u) => e <= j
                       /\ \A i \in Int : d <= i /\ i < d + Capacity /\ i # j => Cell(i) # Cell(p[u])
  BY SMT, OwnCell
<1>3. p[t] \in Int /\ p[u] \in Int
  BY DEF Pint
<1>4. ~ (Filler(t) /\ Drainer(t)) /\ ~ (Filler(u) /\ Drainer(u))
  BY DEF Filler, Drainer
<1>5. (Filler(t) /\ Filler(u)) \/ (Drainer(t) /\ Drainer(u)) => p[t] # p[u]
  BY DEF Cells
<1>6. j # k
  BY SMT, <1>1, <1>2, <1>3, <1>4, <1>5, Sizes
<1>. QED
  BY <1>1, <1>2, <1>6

\* Every cell is the cell of a position in the round that begins at d.
LEMMA CellAmong ==
  ASSUME NEW d \in Int, NEW n \in Int
  PROVE  \E k \in Int : d <= k /\ k < d + Capacity /\ Cell(k) = Cell(n)
<1>1. Capacity \in Nat /\ Capacity > 0
  BY SMT, Sizes
<1>2. PICK x \in Int : x = n - d
  BY SMT
<1>3. PICK q \in Int : x = q * Capacity + (x % Capacity) /\ x % Capacity \in 0 .. Capacity - 1
  BY <1>1, Quotient
<1>4. PICK r \in Int : r = x % Capacity
  BY SMT, <1>1, <1>3
<1>5. PICK k \in Int : k = d + r
  BY SMT
<1>6. n = k + q * Capacity
  BY SMT, <1>1, <1>2, <1>3, <1>4, <1>5
<1>7. (k + q * Capacity) % Capacity = k % Capacity
  BY <1>1, ModPlus
<1>8. d <= k /\ k < d + Capacity
  BY SMT, <1>1, <1>3, <1>4, <1>5
<1>. QED
  BY <1>6, <1>7, <1>8 DEF Cell

\* Sequence numbers are never far from the positions.
LEMMA NearBy ==
  ASSUME NEW e \in Int, NEW d \in Int, NEW p \in Pint, NEW s \in Sint, Cells(e, d, p, s),
         NEW n \in Int
  PROVE  s[Cell(n)] \in Int /\ e - Capacity <= s[Cell(n)] /\ d - Capacity < s[Cell(n)] /\ s[Cell(n)] <= d + Capacity
<1>1. Cell(n) \in Index /\ s[Cell(n)] \in Int
  BY CellIn DEF Sint
<1>2. PICK k \in Int : d <= k /\ k < d + Capacity /\ Cell(k) = Cell(n)
  BY CellAmong
<1>3. CASE k < e
  <2>1. FullAt(k, p, s)
    BY <1>2, <1>3 DEF Cells
  <2>2. s[Cell(k)] = k + 1 \/ s[Cell(k)] = k
    BY <2>1 DEF FullAt, Cells, FillerAt
  <2>. QED
    BY SMT, <1>1, <1>2, <1>3, <2>2, Sizes DEF Cells
<1>4. CASE e <= k
  <2>1. FreeAt(k, p, s)
    BY <1>2, <1>4 DEF Cells
  <2>2. CASE s[Cell(k)] = k
    BY SMT, <1>1, <1>2, <1>4, <2>2, Sizes DEF Cells
  <2>3. CASE \E t \in Thread : Drainer(t) /\ p[t] + Capacity = k
    <3>1. PICK t \in Thread : Drainer(t) /\ p[t] + Capacity = k
      BY <2>3
    <3>2. p[t] \in Int /\ s[Cell(p[t])] = p[t] + 1 /\ Cell(k) = Cell(p[t])
      BY <3>1, CellRound DEF Pint, Cells, DrainerAt
    <3>. QED
      BY SMT, <1>1, <1>2, <1>4, <3>1, <3>2, Sizes DEF Cells
  <2>. QED
    BY <2>1, <2>2, <2>3 DEF FreeAt
<1>. QED
  BY SMT, <1>2, <1>3, <1>4

-----------------------------------------------------------------------------
(* Steps that keep the ring as it is *)

\* A step that changes neither cells nor reservations keeps Cells.
LEMMA CellsKept ==
  ASSUME NEW e \in Int, NEW d \in Int, NEW p \in Pint, NEW q \in Pint, NEW s \in Sint,
         Cells(e, d, p, s), data' = data,
         \A u \in Thread : /\ Filler(u)' <=> Filler(u)
                           /\ Drainer(u)' <=> Drainer(u)
                           /\ Filler(u) \/ Drainer(u) => q[u] = p[u] /\ pc'[u] = pc[u]
  PROVE  Cells(e, d, q, s)'
<1>1. \A u \in Thread : Filler(u)' => FillerAt(u, e, d, q, s)'
  BY DEF Cells, FillerAt
<1>2. \A u \in Thread : Drainer(u)' => DrainerAt(u, e, d, q, s)'
  BY DEF Cells, DrainerAt
<1>3. \A k \in Int : d <= k /\ k < e => FullAt(k, q, s)'
  BY DEF Cells, FullAt
<1>4. \A k \in Int : e <= k /\ k < d + Capacity => FreeAt(k, q, s)'
  BY DEF Cells, FreeAt
<1>5. \A u, w \in Thread :
        (Filler(u)' /\ Filler(w)') \/ (Drainer(u)' /\ Drainer(w)') => u = w \/ q[u] # q[w]
  BY DEF Cells
<1>. QED
  BY <1>1, <1>2, <1>3, <1>4, <1>5 DEF Cells

\* What a thread has read stays true while positions and sequence numbers grow.
LEMMA SeekerKept ==
  ASSUME NEW e \in Int, NEW d \in Int, NEW p \in Pint, NEW s \in Sint,
         NEW e2 \in Int, NEW d2 \in Int, NEW q \in Pint, NEW s2 \in Sint,
         NEW u \in Thread, SeekerAt(u, e, d, p, s), FrontAt(u, e, d, s),
         pc'[u] = pc[u], op'[u] = op[u], front'[u] = front[u], q[u] = p[u],
         e <= e2, d <= d2,
         pc[u] \in {"sequence", "bound", "exchange", "front"} /\ op[u] = "enq" => e2 <= p[u] + Window,
         pc[u] \in {"sequence", "bound", "exchange", "front"} /\ op[u] # "enq" => d2 <= p[u] + Window,
         op[u] = "front" \/ pc[u] = "front" \/ front[u] # -1 => d2 = d,
         \A i \in Index : s[i] <= s2[i],
         Ready(e, d, s) => s2[Cell(d)] = s[Cell(d)]
  PROVE  SeekerAt(u, e2, d2, q, s2)' /\ FrontAt(u, e2, d2, s2)'
<1>1. p[u] \in Int /\ Cell(p[u]) \in Index
  BY CellIn DEF Pint
<1>2. s[Cell(p[u])] \in Int /\ s2[Cell(p[u])] \in Int /\ s[Cell(p[u])] <= s2[Cell(p[u])]
  BY <1>1 DEF Sint
<1>3. Ready(e, d, s) /\ d2 = d => Ready(e2, d2, s2)
  BY SMT DEF Ready
<1>4. FrontAt(u, e2, d2, s2)'
  BY <1>3 DEF FrontAt, Ready
<1>5. SeekerAt(u, e2, d2, q, s2)'
  <2>. SUFFICES ASSUME pc[u] \in {"sequence", "bound", "exchange", "front"}
                PROVE  SeekerAt(u, e2, d2, q, s2)'
    BY DEF SeekerAt
  <2>1. CASE op[u] = "enq"
    <3>1. p[u] <= e2 /\ (pc[u] = "exchange" => s2[Cell(p[u])] >= p[u])
      BY SMT, <1>1, <1>2, <2>1 DEF SeekerAt
    <3>. QED
      BY <1>3, <2>1, <3>1 DEF SeekerAt, Ready
  <2>2. CASE op[u] # "enq"
    <3>1. p[u] <= d2 /\ (pc[u] = "exchange" => s2[Cell(p[u])] > p[u])
      BY SMT, <1>1, <1>2, <2>2 DEF SeekerAt
    <3>. QED
      BY <1>3, <2>2, <3>1 DEF SeekerAt, Ready
  <2>. QED
    BY <2>1, <2>2
<1>. QED
  BY <1>4, <1>5

\* A step of a thread that has no cell, before and after it.
LEMMA RingKept ==
  ASSUME NEW e \in Int, NEW d \in Int, NEW p \in Pint, NEW s \in Sint, Ring(e, d, p, s),
         NEW t \in Thread, NEW q \in Pint,
         m_posEnqueue' = m_posEnqueue, m_posDequeue' = m_posDequeue, sequence' = sequence, data' = data,
         \A u \in Thread \ {t} : /\ pc'[u] = pc[u] /\ op'[u] = op[u]
                                 /\ pos'[u] = pos[u] /\ front'[u] = front[u] /\ q[u] = p[u],
         pos'[t] = Wrap(q[t]),
         ~ Filler(t), ~ Drainer(t), ~ Filler(t)', ~ Drainer(t)',
         SeekerAt(t, e, d, q, s)', FrontAt(t, e, d, s)'
  PROVE  Ring(e, d, q, s)'
<1>1. View(e, d, q, s)'
  BY DEF View, Ring
<1>2. \A u \in Thread : /\ Filler(u)' <=> Filler(u)
                        /\ Drainer(u)' <=> Drainer(u)
                        /\ Filler(u) \/ Drainer(u) => q[u] = p[u] /\ pc'[u] = pc[u]
  BY DEF Filler, Drainer
<1>3. Cells(e, d, q, s)'
  BY <1>2, CellsKept DEF Ring
<1>4. ASSUME NEW u \in Thread, u # t
      PROVE  SeekerAt(u, e, d, q, s)' /\ FrontAt(u, e, d, s)'
  BY <1>4 DEF Ring, Threads, SeekerAt, FrontAt, Ready
<1>. QED
  BY <1>1, <1>3, <1>4 DEF Ring, Threads

-----------------------------------------------------------------------------
(* What the sequence number tells *)

\* The head cell can be emptied.
LEMMA HeadReady ==
  ASSUME NEW e \in Int, NEW d \in Int, NEW p \in Pint, NEW s \in Sint, Cells(e, d, p, s), s[Cell(d)] > d
  PROVE  /\ Ready(e, d, s) /\ data[Cell(d)] \in Val
         /\ \A u \in Thread : Filler(u) => p[u] # d
<1>1. Cell(d) \in Index /\ s[Cell(d)] \in Int
  BY CellIn DEF Sint
<1>2. d < e
  <2>. SUFFICES ASSUME ~ d < e PROVE FALSE
    OBVIOUS
  <2>1. d = e /\ d < d + Capacity
    BY SMT, Sizes DEF Cells
  <2>2. FreeAt(d, p, s)
    BY <2>1 DEF Cells
  <2>3. PICK u \in Thread : Drainer(u) /\ p[u] + Capacity = d
    BY SMT, <1>1, <2>2 DEF FreeAt
  <2>4. p[u] \in Int /\ s[Cell(p[u])] = p[u] + 1 /\ Cell(p[u] + Capacity) = Cell(p[u])
    BY <2>3, CellRound DEF Cells, DrainerAt, Pint
  <2>. QED
    BY SMT, <1>1, <2>3, <2>4, Sizes
<1>3. \A u \in Thread : Filler(u) => p[u] # d
  BY SMT, <1>1 DEF Cells, FillerAt
<1>4. d <= d
  BY SMT
<1>5. FullAt(d, p, s)
  BY <1>2, <1>4 DEF Cells
<1>. QED
  BY <1>2, <1>3, <1>5 DEF FullAt, Ready

\* The cell behind the last one can be filled.
LEMMA TailFree ==
  ASSUME NEW e \in Int, NEW d \in Int, NEW p \in Pint, NEW s \in Sint, Cells(e, d, p, s), s[Cell(e)] >= e
  PROVE  /\ e < d + Capacity /\ s[Cell(e)] = e /\ data[Cell(e)] = nullptr
         /\ \A u \in Thread : Drainer(u) => p[u] + Capacity # e
<1>1. Cell(e) \in Index /\ s[Cell(e)] \in Int
  BY CellIn DEF Sint
<1>2. e < d + Capacity
  <2>. SUFFICES ASSUME ~ e < d + Capacity PROVE FALSE
    OBVIOUS
  <2>1. e = d + Capacity /\ d < e /\ d <= d
    BY SMT, Sizes DEF Cells
  <2>2. FullAt(d, p, s) /\ Cell(e) = Cell(d)
    BY <2>1, CellRound DEF Cells
  <2>3. s[Cell(d)] = d + 1 \/ s[Cell(d)] = d
    BY <2>2 DEF FullAt, Cells, FillerAt
  <2>. QED
    BY SMT, <1>1, <2>1, <2>2, <2>3, Sizes
<1>3. ASSUME NEW u \in Thread, Drainer(u), p[u] + Capacity = e
      PROVE  FALSE
  <2>1. p[u] \in Int /\ s[Cell(p[u])] = p[u] + 1 /\ Cell(p[u] + Capacity) = Cell(p[u])
    BY <1>3, CellRound DEF Cells, DrainerAt, Pint
  <2>. QED
    BY SMT, <1>1, <1>3, <2>1, Sizes
<1>4. e <= e
  BY SMT
<1>5. FreeAt(e, p, s)
  BY <1>2, <1>4 DEF Cells
<1>. QED
  BY <1>2, <1>3, <1>5 DEF FreeAt

\* The signed difference is the difference of the positions that do not wrap.
LEMMA DifIs ==
  ASSUME NEW e \in Int, NEW d \in Int, NEW p \in Pint, NEW s \in Sint, Ring(e, d, p, s),
         NEW t \in Thread, pc[t] = "sequence"
  PROVE  Dif(sequence[Cell(pos[t])], Expected(t))
           = s[Cell(p[t])] - (IF op[t] = "enq" THEN p[t] ELSE p[t] + 1)
<1>1. p[t] \in Int /\ Cell(p[t]) \in Index /\ pos[t] = Wrap(p[t]) /\ Cell(pos[t]) = Cell(p[t])
  BY CellIn, CellWrap DEF Pint, Ring, View
<1>2. sequence[Cell(pos[t])] = Wrap(s[Cell(p[t])]) /\ s[Cell(p[t])] \in Int
  BY <1>1 DEF Ring, View, Sint
<1>3. PICK n \in Int : n = IF op[t] = "enq" THEN p[t] ELSE p[t] + 1
  BY SMT, <1>1
<1>4. Expected(t) = Wrap(n)
  <2>1. 1 \in Int
    BY SMT
  <2>2. Add(Wrap(p[t]), 1) = Wrap(p[t] + 1)
    BY <1>1, <2>1, WrapAdd
  <2>. QED
    BY <1>1, <1>3, <2>2 DEF Expected
<1>5. /\ e - Capacity <= s[Cell(p[t])] /\ d - Capacity < s[Cell(p[t])] /\ s[Cell(p[t])] <= d + Capacity
      /\ d <= e
  BY <1>1, NearBy DEF Ring, Cells
<1>6. IF op[t] = "enq" THEN p[t] <= e /\ e <= p[t] + Window ELSE p[t] <= d /\ d <= p[t] + Window
  BY DEF Ring, Threads, SeekerAt
<1>7. 2 * (s[Cell(p[t])] - n) < PosModulus /\ 2 * (n - s[Cell(p[t])]) < PosModulus
  BY SMT, <1>1, <1>2, <1>3, <1>5, <1>6, Sizes
<1>8. Dif(Wrap(s[Cell(p[t])]), Wrap(n)) = s[Cell(p[t])] - n
  BY <1>2, <1>3, <1>7, WrapDif
<1>. QED
  BY <1>2, <1>3, <1>4, <1>8

-----------------------------------------------------------------------------
\* The steps that change neither a cell nor a position.
Quiet(t) ==
  \/ \E v \in Val : EnqStart(t, v)
  \/ DeqStart(t) \/ FrontStart(t) \/ Load(t) \/ LoadSequence(t) \/ ExchangeFail(t)
  \/ Bound(t) \/ BoundRetry(t) \/ Count(t) \/ FrontReturn(t)

\* They keep the invariant; the position of t is the only one that changes.
LEMMA QuietRing ==
  ASSUME NEW e \in Int, NEW d \in Int, NEW p \in Pint, NEW s \in Sint, Ring(e, d, p, s),
         Control, NEW t \in Thread, Quiet(t)
  PROVE  \E q \in Pint : Ring(e, d, q, s)' /\ \A u \in Thread \ {t} : q[u] = p[u]
<1>. USE DEF sharedVars, locals, Goto
<1>0. /\ pc \in [Thread -> Label] /\ op \in [Thread -> {"none", "enq", "deq", "front"}]
      /\ pos \in [Thread -> Pos] /\ front \in [Thread -> Index \cup {-1}]
      /\ p \in [Thread -> Int] /\ p[t] \in Int
  BY DEF Control, Typed, Pint
<1>1. pos[t] = Wrap(p[t]) /\ m_posEnqueue = Wrap(e) /\ m_posDequeue = Wrap(d) /\ d <= e
  BY DEF Ring, View, Cells
<1>2. SeekerAt(t, e, d, p, s) /\ FrontAt(t, e, d, s)
  BY DEF Ring, Threads
<1>3. CASE (\E v \in Val : EnqStart(t, v)) \/ DeqStart(t) \/ FrontStart(t) \/ BoundRetry(t)
  <2>1. Ring(e, d, p, s)'
    <3>1. /\ pc[t] \in {"idle", "bound"} /\ pc' = [pc EXCEPT ![t] = "load"] /\ pos' = pos /\ front' = front
          /\ \A u \in Thread \ {t} : op'[u] = op[u]
          /\ m_posEnqueue' = m_posEnqueue /\ m_posDequeue' = m_posDequeue /\ sequence' = sequence /\ data' = data
      BY <1>0, <1>3 DEF EnqStart, DeqStart, FrontStart, BoundRetry
    <3>2. \A u \in Thread \ {t} : pc'[u] = pc[u]
      BY <1>0, <3>1
    <3>3. pc'[t] = "load"
      BY <1>0, <3>1
    <3>4. ~ Filler(t) /\ ~ Drainer(t) /\ ~ Filler(t)' /\ ~ Drainer(t)'
      BY <3>1, <3>3 DEF Filler, Drainer
    <3>5. SeekerAt(t, e, d, p, s)' /\ FrontAt(t, e, d, s)'
      BY <1>2, <3>1, <3>3 DEF SeekerAt, FrontAt, Ready
    <3>. QED
      BY <1>1, <3>1, <3>2, <3>4, <3>5, RingKept
  <2>. QED
    BY <2>1
<1>4. CASE LoadSequence(t)
  <2>1. PICK l \in {"front", "exchange", "bound", "load"} :
          /\ pc' = [pc EXCEPT ![t] = l]
          /\ l = "front" => op[t] = "front"
          /\ l = "front" \/ l = "exchange" => Dif(sequence[Cell(pos[t])], Expected(t)) = 0
    BY <1>4 DEF LoadSequence
  <2>2. pc[t] = "sequence" /\ UNCHANGED <<m_posEnqueue, m_posDequeue, sequence, data, op, pos, front>>
    BY <1>4 DEF LoadSequence
  <2>3. (\A u \in Thread \ {t} : pc'[u] = pc[u]) /\ pc'[t] = l
    BY <1>0, <2>1
  <2>4. l = "front" \/ l = "exchange" => s[Cell(p[t])] = IF op[t] = "enq" THEN p[t] ELSE p[t] + 1
    <3>1. s[Cell(p[t])] \in Int
      BY <1>0, CellIn DEF Sint
    <3>. QED
      BY SMTT(40), <1>0, <2>1, <2>2, <3>1, DifIs
  <2>5. l = "front" => Ready(e, d, s)
    <3>. SUFFICES ASSUME l = "front" PROVE Ready(e, d, s)
      OBVIOUS
    <3>1. p[t] = d
      BY <1>2, <2>1, <2>2 DEF SeekerAt
    <3>2. s[Cell(d)] > d
      BY SMT, <2>1, <2>4, <3>1
    <3>. QED
      BY <3>2, HeadReady DEF Ring
  <2>6. l = "exchange" => IF op[t] = "enq" THEN s[Cell(p[t])] >= p[t] ELSE s[Cell(p[t])] > p[t]
    BY SMT, <1>0, <2>4
  <2>7. SeekerAt(t, e, d, p, s)'
    BY <1>2, <2>2, <2>3, <2>5, <2>6 DEF SeekerAt, Ready
  <2>8. FrontAt(t, e, d, s)'
    BY <1>2, <2>2 DEF FrontAt, Ready
  <2>9. ~ Filler(t) /\ ~ Drainer(t) /\ ~ Filler(t)' /\ ~ Drainer(t)'
    BY <2>2, <2>3 DEF Filler, Drainer
  <2>10. Ring(e, d, p, s)'
    BY <1>1, <2>2, <2>3, <2>7, <2>8, <2>9, RingKept
  <2>. QED
    BY <2>10
<1>5. CASE Load(t) \/ ExchangeFail(t)
  <2>1. /\ pc[t] \in {"load", "exchange"} /\ pc' = [pc EXCEPT ![t] = "sequence"]
        /\ pos' = [pos EXCEPT ![t] = Position(t)]
        /\ UNCHANGED <<m_posEnqueue, m_posDequeue, sequence, data, op, front>>
    BY <1>5 DEF Load, ExchangeFail
  <2>2. PICK n \in Int : n = IF op[t] = "enq" THEN e ELSE d
    OBVIOUS
  <2>3. PICK q \in Pint : q = [p EXCEPT ![t] = n]
    BY <1>0 DEF Pint
  <2>4. q[t] = n /\ pos'[t] = Wrap(n) /\ pc'[t] = "sequence"
    BY <1>0, <1>1, <2>1, <2>2, <2>3 DEF Position
  <2>5. \A u \in Thread \ {t} : pc'[u] = pc[u] /\ pos'[u] = pos[u] /\ q[u] = p[u]
    BY <1>0, <2>1, <2>3
  <2>6. e <= e + Window /\ e <= e /\ d <= d /\ d <= d + Window
    BY SMT, Sizes
  <2>7. SeekerAt(t, e, d, q, s)'
    BY <2>1, <2>2, <2>4, <2>6 DEF SeekerAt
  <2>8. FrontAt(t, e, d, s)'
    BY <1>2, <2>1 DEF FrontAt, Ready
  <2>9. ~ Filler(t) /\ ~ Drainer(t) /\ ~ Filler(t)' /\ ~ Drainer(t)'
    BY <2>1, <2>4 DEF Filler, Drainer
  <2>10. Ring(e, d, q, s)'
    BY <2>1, <2>4, <2>5, <2>7, <2>8, <2>9, RingKept
  <2>. QED
    BY <2>5, <2>10
<1>6. CASE Bound(t) \/ Count(t) \/ FrontReturn(t)
  <2>1. /\ pc[t] \in {"bound", "count", "front"} /\ pc' = [pc EXCEPT ![t] = "idle"]
        /\ pos' = [pos EXCEPT ![t] = 0] /\ op' = [op EXCEPT ![t] = "none"]
        /\ UNCHANGED <<m_posEnqueue, m_posDequeue, sequence, data>>
    BY <1>6 DEF Bound, Count, FrontReturn, Return
  <2>2. front' = front \/ (pc[t] = "front" /\ front' = [front EXCEPT ![t] = Cell(pos[t])])
    BY <1>6 DEF Bound, Count, FrontReturn
  <2>3. PICK q \in Pint : q = [p EXCEPT ![t] = 0]
    <3>1. 0 \in Int
      BY SMT
    <3>. QED
      BY <1>0, <3>1 DEF Pint
  <2>4. q[t] = 0 /\ pos'[t] = Wrap(0) /\ pc'[t] = "idle" /\ op'[t] = "none"
    <3>1. Wrap(0) = 0
      BY SMT, Sizes, WrapSmall
    <3>. QED
      BY <1>0, <2>1, <2>3, <3>1
  <2>5. \A u \in Thread \ {t} : pc'[u] = pc[u] /\ pos'[u] = pos[u] /\ op'[u] = op[u] /\ front'[u] = front[u] /\ q[u] = p[u]
    BY <1>0, <2>1, <2>2, <2>3
  <2>6. SeekerAt(t, e, d, q, s)'
    BY <2>4 DEF SeekerAt
  <2>7. FrontAt(t, e, d, s)'
    <3>1. CASE front' = front
      BY <1>2, <3>1 DEF FrontAt, Ready
    <3>2. CASE pc[t] = "front" /\ front' = [front EXCEPT ![t] = Cell(pos[t])]
      <4>1. p[t] = d /\ Ready(e, d, s)
        BY <1>2, <3>2 DEF SeekerAt, Control, ControlOf
      <4>2. Cell(pos[t]) = Cell(d)
        BY <1>1, <4>1, CellWrap
      <4>. QED
        BY <1>0, <3>2, <4>1, <4>2 DEF FrontAt, Ready
    <3>. QED
      BY <2>2, <3>1, <3>2
  <2>8. ~ Filler(t) /\ ~ Drainer(t) /\ ~ Filler(t)' /\ ~ Drainer(t)'
    BY SMTT(40), <2>1, <2>4 DEF Filler, Drainer
  <2>9. Ring(e, d, q, s)'
    BY SMT, <2>1, <2>4, <2>5, <2>6, <2>7, <2>8, RingKept
  <2>. QED
    BY <2>5, <2>9
<1>. QED
  BY <1>3, <1>4, <1>5, <1>6 DEF Quiet

-----------------------------------------------------------------------------
(* Steps on a reserved cell *)

\* Constructing, moving and destroying a value keep the invariant.
LEMMA AccessRing ==
  ASSUME NEW e \in Int, NEW d \in Int, NEW p \in Pint, NEW s \in Sint, Ring(e, d, p, s),
         Control, NEW t \in Thread, Write(t) \/ Read(t) \/ Clean(t)
  PROVE  Ring(e, d, p, s)'
<1>. USE DEF sharedVars, locals, Goto
<1>0. /\ pc \in [Thread -> Label] /\ data \in [Index -> Val \cup {nullptr}]
      /\ p \in [Thread -> Int] /\ p[t] \in Int /\ ControlOf(t)
  BY DEF Control, Typed, Pint
<1>1. PICK l \in {"publish", "clean"} :
        /\ pc' = [pc EXCEPT ![t] = l]
        /\ op[t] = "enq" => l = "publish" /\ pc[t] = "access"
        /\ op[t] # "enq" => op[t] = "deq" /\ pc[t] = IF l = "clean" THEN "access" ELSE "clean"
  BY <1>0, <1>0 DEF Write, Read, Clean, ControlOf
<1>2. UNCHANGED <<m_posEnqueue, m_posDequeue, sequence, op, pos, front>>
  BY DEF Write, Read, Clean
<1>3. /\ \A u \in Thread \ {t} : pc'[u] = pc[u]
      /\ pc'[t] = l
  BY <1>0, <1>1
<1>4. \A u \in Thread : (Filler(u)' <=> Filler(u)) /\ (Drainer(u)' <=> Drainer(u))
  BY <1>1, <1>2, <1>3 DEF Filler, Drainer
<1>5. Filler(t) \/ Drainer(t)
  BY <1>1 DEF Filler, Drainer
<1>6. /\ \A i \in Index : i # Cell(p[t]) => data'[i] = data[i]
      /\ data'[Cell(p[t])] \in (IF op[t] = "deq" /\ l = "publish" THEN {nullptr} ELSE Val)
  <2>1. Cell(pos[t]) = Cell(p[t]) /\ Cell(p[t]) \in Index
    BY <1>0, CellIn, CellWrap DEF Ring, View
  <2>2. CASE Write(t)
    BY <1>0, <2>1, <2>2 DEF Write, ControlOf
  <2>3. CASE Read(t)
    <3>1. Drainer(t) /\ pc[t] = "access" /\ data' = data
      BY <2>3 DEF Read, Drainer
    <3>2. data[Cell(p[t])] \in Val
      BY <3>1 DEF Ring, Cells, DrainerAt
    <3>3. l = "clean"
      BY <1>0, <1>1, <2>3 DEF Read
    <3>. QED
      BY <3>1, <3>2, <3>3
  <2>4. CASE Clean(t)
    <3>1. op[t] = "deq" /\ l = "publish"
      BY <1>0, <1>1, <2>4 DEF Clean, ControlOf
    <3>. QED
      BY <1>0, <2>1, <2>4, <3>1 DEF Clean
  <2>. QED
    BY <2>2, <2>3, <2>4
<1>7. \A u \in Thread : Filler(u)' => FillerAt(u, e, d, p, s)'
  <2>. SUFFICES ASSUME NEW u \in Thread, Filler(u) PROVE FillerAt(u, e, d, p, s)'
    BY <1>4
  <2>1. FillerAt(u, e, d, p, s) /\ Cell(p[u]) \in Index
    BY CellIn DEF Ring, Cells, Pint
  <2>2. CASE u = t
    BY <1>1, <1>3, <1>6, <2>1, <2>2 DEF Filler, FillerAt
  <2>3. CASE u # t
    <3>1. data'[Cell(p[u])] = data[Cell(p[u])]
      BY <1>5, <1>6, <2>1, <2>3, OwnersApart DEF Ring
    <3>. QED
      BY <1>3, <2>1, <2>3, <3>1 DEF FillerAt
  <2>. QED
    BY <2>2, <2>3
<1>8. \A u \in Thread : Drainer(u)' => DrainerAt(u, e, d, p, s)'
  <2>. SUFFICES ASSUME NEW u \in Thread, Drainer(u) PROVE DrainerAt(u, e, d, p, s)'
    BY <1>4
  <2>1. DrainerAt(u, e, d, p, s) /\ Cell(p[u]) \in Index
    BY CellIn DEF Ring, Cells, Pint
  <2>2. CASE u = t
    BY <1>1, <1>3, <1>6, <2>1, <2>2 DEF Drainer, DrainerAt
  <2>3. CASE u # t
    <3>1. data'[Cell(p[u])] = data[Cell(p[u])]
      BY <1>5, <1>6, <2>1, <2>3, OwnersApart DEF Ring
    <3>. QED
      BY <1>3, <2>1, <2>3, <3>1 DEF DrainerAt
  <2>. QED
    BY <2>2, <2>3
<1>9. PICK k \in Int : /\ k = (IF Filler(t) THEN p[t] ELSE p[t] + Capacity)
                       /\ \A j \in Int : d <= j /\ j < d + Capacity /\ j # k => Cell(j) # Cell(p[t])
  BY SMT, <1>5, OwnCell DEF Ring
<1>10. \A j \in Int : d <= j /\ j < e => FullAt(j, p, s)'
  <2>. SUFFICES ASSUME NEW j \in Int, d <= j, j < e PROVE FullAt(j, p, s)'
    OBVIOUS
  <2>1. FullAt(j, p, s) /\ j < d + Capacity /\ Cell(j) \in Index
    <3>1. e <= d + Capacity
      BY DEF Ring, Cells
    <3>. QED
      BY SMT, <3>1, Sizes, CellIn DEF Ring, Cells
  <2>2. CASE \E u \in Thread : Filler(u) /\ p[u] = j
    BY <1>4, <2>2 DEF FullAt
  <2>3. CASE s[Cell(j)] = j + 1 /\ data[Cell(j)] \in Val
    <3>1. CASE j = k
      <4>1. Drainer(t) => s[Cell(p[t])] = p[t] + 1 /\ e <= p[t] + Capacity
        BY DEF Ring, Cells, DrainerAt
      <4>2. Filler(t) => p[t] = j
        BY <1>9, <3>1
      <4>3. Filler(t)
        BY SMT, <1>0, <1>5, <1>9, <3>1, <4>1
      <4>. QED
        BY <1>4, <4>2, <4>3 DEF FullAt
    <3>2. CASE j # k
      BY <1>6, <1>9, <2>1, <2>3, <3>2 DEF FullAt
    <3>. QED
      BY <3>1, <3>2
  <2>. QED
    BY <2>1, <2>2, <2>3 DEF FullAt
<1>11. \A j \in Int : e <= j /\ j < d + Capacity => FreeAt(j, p, s)'
  <2>. SUFFICES ASSUME NEW j \in Int, e <= j, j < d + Capacity PROVE FreeAt(j, p, s)'
    OBVIOUS
  <2>1. FreeAt(j, p, s) /\ d <= j /\ Cell(j) \in Index
    <3>1. d <= e
      BY DEF Ring, Cells
    <3>. QED
      BY SMT, <3>1, CellIn DEF Ring, Cells
  <2>2. CASE \E u \in Thread : Drainer(u) /\ p[u] + Capacity = j
    BY <1>4, <2>2 DEF FreeAt
  <2>3. CASE s[Cell(j)] = j /\ data[Cell(j)] = nullptr
    <3>1. CASE j = k
      <4>1. Filler(t) => p[t] < e
        BY DEF Ring, Cells, FillerAt
      <4>2. Drainer(t) /\ p[t] + Capacity = j
        BY SMT, <1>0, <1>5, <1>9, <3>1, <4>1
      <4>. QED
        BY <1>4, <4>2 DEF FreeAt
    <3>2. CASE j # k
      BY <1>6, <1>9, <2>1, <2>3, <3>2 DEF FreeAt
    <3>. QED
      BY <3>1, <3>2
  <2>. QED
    BY <2>1, <2>2, <2>3 DEF FreeAt
<1>12. Cells(e, d, p, s)'
  BY <1>4, <1>7, <1>8, <1>10, <1>11 DEF Ring, Cells
<1>13. View(e, d, p, s)'
  BY <1>2 DEF Ring, View
<1>14. Threads(e, d, p, s)'
  <2>. SUFFICES ASSUME NEW u \in Thread PROVE SeekerAt(u, e, d, p, s)' /\ FrontAt(u, e, d, s)'
    BY DEF Threads
  <2>1. SeekerAt(u, e, d, p, s) /\ FrontAt(u, e, d, s)
    BY DEF Ring, Threads
  <2>2. CASE u = t
    BY <1>2, <1>3, <2>1, <2>2 DEF SeekerAt, FrontAt, Ready
  <2>3. CASE u # t
    BY <1>2, <1>3, <2>1, <2>3 DEF SeekerAt, FrontAt, Ready
  <2>. QED
    BY <2>2, <2>3
<1>. QED
  BY <1>12, <1>13, <1>14 DEF Ring

-----------------------------------------------------------------------------
\* Nobody has reserved a cell that is ready to be emptied and has not been.
LEMMA ReadyApart ==
  ASSUME NEW e \in Int, NEW d \in Int, NEW p \in Pint, NEW s \in Sint, Cells(e, d, p, s), Ready(e, d, s),
         NEW t \in Thread, Filler(t) \/ Drainer(t)
  PROVE  Cell(d) # Cell(p[t])
<1>1. PICK k \in Int : /\ k = (IF Filler(t) THEN p[t] ELSE p[t] + Capacity)
                       /\ \A j \in Int : d <= j /\ j < d + Capacity /\ j # k => Cell(j) # Cell(p[t])
  BY SMT, OwnCell
<1>2. d <= d /\ d < d + Capacity /\ p[t] \in Int
  BY SMT, Sizes DEF Pint
<1>3. d # k
  <2>1. Drainer(t) => e <= p[t] + Capacity
    BY DEF Cells, DrainerAt
  <2>2. Filler(t) => s[Cell(p[t])] = p[t]
    BY DEF Cells, FillerAt
  <2>3. s[Cell(d)] = d + 1 /\ d < e
    BY DEF Ready
  <2>. QED
    BY SMT, <1>1, <1>2, <2>1, <2>2, <2>3
<1>. QED
  BY <1>1, <1>2, <1>3

\* So does publishing, which changes a sequence number.
LEMMA PublishRing ==
  ASSUME NEW e \in Int, NEW d \in Int, NEW p \in Pint, NEW s \in Sint, Ring(e, d, p, s),
         Control, NEW t \in Thread, Publish(t)
  PROVE  \E s2 \in Sint : Ring(e, d, p, s2)'
<1>. USE DEF sharedVars, locals, Goto
<1>0. /\ pc \in [Thread -> Label] /\ sequence \in [Index -> Pos]
      /\ p \in [Thread -> Int] /\ p[t] \in Int /\ ControlOf(t) /\ Cell(p[t]) \in Index /\ Cell(pos[t]) = Cell(p[t])
      /\ pos[t] = Wrap(p[t])
  BY CellIn, CellWrap DEF Control, Typed, Pint, Ring, View
<1>1. /\ UNCHANGED <<m_posEnqueue, m_posDequeue, data, op, pos, front>>
      /\ pc[t] = "publish" /\ pc' = [pc EXCEPT ![t] = "count"]
  BY DEF Publish
<1>2. pc'[t] = "count" /\ \A u \in Thread \ {t} : pc'[u] = pc[u]
  BY <1>0, <1>1
<1>3. Filler(t) \/ Drainer(t)
  BY <1>0, <1>1 DEF Filler, Drainer, ControlOf
<1>4. PICK n \in Int : n = IF Filler(t) THEN p[t] + 1 ELSE p[t] + Capacity
  BY SMT, <1>0, Sizes
<1>5. NextSequence(t) = Wrap(n)
  <2>1. Filler(t) <=> op[t] = "enq"
    BY <1>1 DEF Filler
  <2>2. PICK m \in Int : m = IF op[t] = "enq" THEN 1 ELSE m_nBufferMask + 1
    BY SMTT(40), Sizes DEF m_nBufferMask
  <2>3. n = p[t] + m
    BY SMT, <1>0, <1>4, <2>1, <2>2, Sizes DEF m_nBufferMask
  <2>. QED
    <3>1. Add(Wrap(p[t]), m) = Wrap(p[t] + m)
      BY <1>0, WrapAdd
    <3>2. NextSequence(t) = Add(pos[t], m)
      BY <2>2 DEF NextSequence
    <3>. QED
      BY <1>0, <2>3, <3>1, <3>2
<1>6. PICK s2 \in Sint : s2 = [s EXCEPT ![Cell(p[t])] = n]
  BY <1>0 DEF Sint
<1>7. s2[Cell(p[t])] = n /\ \A i \in Index : i # Cell(p[t]) => s2[i] = s[i]
  BY <1>0, <1>6 DEF Sint
<1>8. \A u \in Thread : /\ Filler(u)' <=> Filler(u) /\ u # t
                        /\ Drainer(u)' <=> Drainer(u) /\ u # t
  BY <1>1, <1>2 DEF Filler, Drainer
<1>9. View(e, d, p, s2)'
  BY <1>0, <1>1, <1>5, <1>7 DEF Ring, View, Publish
<1>10. \A u \in Thread : Filler(u)' => FillerAt(u, e, d, p, s2)'
  <2>. SUFFICES ASSUME NEW u \in Thread, Filler(u), u # t PROVE FillerAt(u, e, d, p, s2)'
    BY <1>8
  <2>1. FillerAt(u, e, d, p, s) /\ Cell(p[u]) \in Index
    BY CellIn DEF Ring, Cells, Pint
  <2>2. s2[Cell(p[u])] = s[Cell(p[u])]
    BY <1>3, <1>7, <2>1, OwnersApart DEF Ring
  <2>. QED
    BY <1>1, <1>2, <2>1, <2>2 DEF FillerAt
<1>11. \A u \in Thread : Drainer(u)' => DrainerAt(u, e, d, p, s2)'
  <2>. SUFFICES ASSUME NEW u \in Thread, Drainer(u), u # t PROVE DrainerAt(u, e, d, p, s2)'
    BY <1>8
  <2>1. DrainerAt(u, e, d, p, s) /\ Cell(p[u]) \in Index
    BY CellIn DEF Ring, Cells, Pint
  <2>2. s2[Cell(p[u])] = s[Cell(p[u])]
    BY <1>3, <1>7, <2>1, OwnersApart DEF Ring
  <2>. QED
    BY <1>1, <1>2, <2>1, <2>2 DEF DrainerAt
<1>12. PICK k \in Int : /\ k = (IF Filler(t) THEN p[t] ELSE p[t] + Capacity)
                        /\ Cell(k) = Cell(p[t])
                        /\ \A j \in Int : d <= j /\ j < d + Capacity /\ j # k => Cell(j) # Cell(p[t])
  BY SMT, <1>3, OwnCell DEF Ring
<1>13. ~ (Filler(t) /\ Drainer(t))
  BY DEF Filler, Drainer
<1>14. \A j \in Int : d <= j /\ j < e => FullAt(j, p, s2)'
  <2>. SUFFICES ASSUME NEW j \in Int, d <= j, j < e PROVE FullAt(j, p, s2)'
    OBVIOUS
  <2>1. FullAt(j, p, s) /\ j < d + Capacity /\ Cell(j) \in Index
    <3>1. e <= d + Capacity
      BY DEF Ring, Cells
    <3>. QED
      BY SMT, <3>1, Sizes, CellIn DEF Ring, Cells
  <2>2. CASE j = k
    <3>1. Filler(t)
      <4>1. Drainer(t) => e <= p[t] + Capacity
        BY DEF Ring, Cells, DrainerAt
      <4>. QED
        BY SMT, <1>0, <1>3, <1>12, <2>2, <4>1
    <3>2. data[Cell(j)] \in Val
      BY <1>1, <1>12, <2>2, <3>1 DEF Ring, Cells, FillerAt
    <3>. QED
      BY <1>1, <1>4, <1>7, <1>12, <2>2, <3>1, <3>2 DEF FullAt
  <2>3. CASE j # k
    <3>1. s2[Cell(j)] = s[Cell(j)]
      BY <1>7, <1>12, <2>1, <2>3
    <3>2. \A u \in Thread : Filler(u) /\ p[u] = j => Filler(u)'
      <4>1. Filler(t) => p[t] # j
        BY <1>12, <2>3
      <4>. QED
        BY <1>8, <4>1
    <3>. QED
      BY <1>1, <2>1, <3>1, <3>2 DEF FullAt
  <2>. QED
    BY <2>2, <2>3
<1>15. \A j \in Int : e <= j /\ j < d + Capacity => FreeAt(j, p, s2)'
  <2>. SUFFICES ASSUME NEW j \in Int, e <= j, j < d + Capacity PROVE FreeAt(j, p, s2)'
    OBVIOUS
  <2>1. FreeAt(j, p, s) /\ d <= j /\ Cell(j) \in Index
    <3>1. d <= e
      BY DEF Ring, Cells
    <3>. QED
      BY SMT, <3>1, CellIn DEF Ring, Cells
  <2>2. CASE j = k
    <3>1. Drainer(t) /\ ~ Filler(t)
      <4>1. Filler(t) => p[t] < e
        BY DEF Ring, Cells, FillerAt
      <4>. QED
        BY SMT, <1>0, <1>3, <1>12, <1>13, <2>2, <4>1
    <3>2. data[Cell(j)] = nullptr
      BY <1>1, <1>12, <2>2, <3>1 DEF Ring, Cells, DrainerAt
    <3>. QED
      BY <1>1, <1>4, <1>7, <1>12, <2>2, <3>1, <3>2 DEF FreeAt
  <2>3. CASE j # k
    <3>1. s2[Cell(j)] = s[Cell(j)]
      BY <1>7, <1>12, <2>1, <2>3
    <3>2. \A u \in Thread : Drainer(u) /\ p[u] + Capacity = j => Drainer(u)'
      <4>1. Drainer(t) => p[t] + Capacity # j
        BY <1>12, <1>13, <2>3
      <4>. QED
        BY <1>8, <4>1
    <3>. QED
      BY <1>1, <2>1, <3>1, <3>2 DEF FreeAt
  <2>. QED
    BY <2>2, <2>3
<1>16. Cells(e, d, p, s2)'
  <2>1. \A u, w \in Thread :
          (Filler(u)' /\ Filler(w)') \/ (Drainer(u)' /\ Drainer(w)') => u = w \/ p[u] # p[w]
    BY <1>8 DEF Ring, Cells
  <2>. QED
    BY <1>10, <1>11, <1>14, <1>15, <2>1 DEF Ring, Cells
<1>17. s[Cell(p[t])] = IF Filler(t) THEN p[t] ELSE p[t] + 1
  BY <1>3 DEF Ring, Cells, FillerAt, DrainerAt
<1>18. \A i \in Index : s[i] <= s2[i]
  <2>. SUFFICES ASSUME NEW i \in Index PROVE s[i] <= s2[i]
    OBVIOUS
  <2>1. s[i] \in Int
    BY DEF Sint
  <2>2. CASE i = Cell(p[t])
    BY SMT, <1>0, <1>4, <1>7, <1>17, <2>2, Sizes
  <2>3. CASE i # Cell(p[t])
    BY SMT, <1>7, <2>1, <2>3
  <2>. QED
    BY <2>2, <2>3
<1>19. Ready(e, d, s) => s2[Cell(d)] = s[Cell(d)]
  BY <1>3, <1>7, CellIn, ReadyApart DEF Ring
<1>20. Threads(e, d, p, s2)'
  <2>. SUFFICES ASSUME NEW u \in Thread PROVE SeekerAt(u, e, d, p, s2)' /\ FrontAt(u, e, d, s2)'
    BY DEF Threads
  <2>1. SeekerAt(u, e, d, p, s) /\ FrontAt(u, e, d, s)
    BY DEF Ring, Threads
  <2>2. CASE u = t
    BY <1>1, <1>2, <1>19, <2>1, <2>2 DEF SeekerAt, FrontAt, Ready
  <2>3. CASE u # t
    <3>1. e <= e /\ d <= d
      BY SMT
    <3>2. pc[u] \in {"sequence", "bound", "exchange", "front"} /\ op[u] = "enq" => e <= p[u] + Window
      BY <2>1 DEF SeekerAt
    <3>3. pc[u] \in {"sequence", "bound", "exchange", "front"} /\ op[u] # "enq" => d <= p[u] + Window
      BY <2>1 DEF SeekerAt
    <3>4. pc'[u] = pc[u] /\ op'[u] = op[u] /\ front'[u] = front[u]
      BY <1>1, <1>2, <2>3
    <3>. QED
      BY <1>18, <1>19, <2>1, <3>1, <3>2, <3>3, <3>4, SeekerKept
  <2>. QED
    BY <2>2, <2>3
<1>. QED
  BY <1>9, <1>16, <1>20 DEF Ring

-----------------------------------------------------------------------------
(* Reserving a cell *)

\* Where a thread relies on the position it has read.
Seeking == {"sequence", "bound", "exchange", "front"}

\* InWindow says how far the position may leave others behind.
LEMMA WindowIs ==
  ASSUME NEW e \in Int, NEW d \in Int, NEW p \in Pint, NEW s \in Sint, Ring(e, d, p, s),
         Control, NEW t \in Thread, InWindow(t),
         NEW u \in Thread, u # t, pc[u] \in Seeking, (op[u] = "enq") <=> (op[t] = "enq")
  PROVE  (IF op[t] = "enq" THEN e ELSE d) + 1 <= p[u] + Window
<1>1. p[u] \in Int /\ pos[u] = Wrap(p[u])
  BY DEF Pint, Ring, View
<1>2. PICK n \in Int : n = IF op[t] = "enq" THEN e ELSE d
  OBVIOUS
<1>3. Position(t) = Wrap(n)
  BY <1>2 DEF Position, Ring, View
<1>4. Add(Position(t), 1) = Wrap(n + 1) /\ n + 1 \in Int
  <2>1. 1 \in Int /\ n + 1 \in Int
    BY SMT
  <2>. QED
    BY <1>3, <2>1, WrapAdd
<1>5. p[u] <= n /\ n <= p[u] + Window
  BY <1>2 DEF Ring, Threads, SeekerAt, Seeking
<1>6. op[u] # "none"
  BY DEF Control, ControlOf, Seeking
<1>7. (op[u] = "enq") = (op[t] = "enq")
  OBVIOUS
<1>8. Dif(Add(Position(t), 1), pos[u]) <= Window
  BY <1>6, <1>7 DEF InWindow, Seeking
<1>9. 2 * ((n + 1) - p[u]) < PosModulus /\ 2 * (p[u] - (n + 1)) < PosModulus
  BY SMT, <1>1, <1>5, Sizes
<1>10. Dif(Wrap(n + 1), Wrap(p[u])) = (n + 1) - p[u]
  BY <1>1, <1>4, <1>9, WrapDif
<1>11. (n + 1) - p[u] <= Window
  BY <1>1, <1>4, <1>8, <1>10
<1>. QED
  BY SMT, <1>1, <1>2, <1>11, Sizes

\* A compare_exchange that succeeds found the position as it is, and its cell ready.
LEMMA ExchangeIs ==
  ASSUME NEW e \in Int, NEW d \in Int, NEW p \in Pint, NEW s \in Sint, Ring(e, d, p, s),
         Control, NEW t \in Thread, Exchange(t)
  PROVE  IF op[t] = "enq" THEN p[t] = e /\ s[Cell(e)] >= e ELSE op[t] = "deq" /\ p[t] = d /\ s[Cell(d)] > d
<1>1. p[t] \in Int /\ pos[t] = Wrap(p[t]) /\ pc[t] = "exchange" /\ Position(t) = pos[t]
  BY DEF Pint, Ring, View, Exchange
<1>2. SeekerAt(t, e, d, p, s) /\ op[t] \in {"enq", "deq"}
  BY <1>1 DEF Ring, Threads, Control, ControlOf
<1>3. CASE op[t] = "enq"
  <2>1. Wrap(p[t]) = Wrap(e) /\ p[t] <= e /\ e <= p[t] + Window /\ s[Cell(p[t])] >= p[t]
    BY <1>1, <1>2, <1>3 DEF Position, Ring, View, SeekerAt
  <2>2. p[t] - e < PosModulus /\ e - p[t] < PosModulus
    BY SMT, <1>1, <2>1, Sizes
  <2>3. p[t] = e
    BY <1>1, <2>1, <2>2, WrapEq
  <2>. QED
    BY <1>3, <2>1, <2>3
<1>4. CASE op[t] # "enq"
  <2>1. Wrap(p[t]) = Wrap(d) /\ p[t] <= d /\ d <= p[t] + Window /\ s[Cell(p[t])] > p[t]
    BY <1>1, <1>2, <1>4 DEF Position, Ring, View, SeekerAt
  <2>2. p[t] - d < PosModulus /\ d - p[t] < PosModulus
    BY SMT, <1>1, <2>1, Sizes
  <2>3. p[t] = d
    BY <1>1, <2>1, <2>2, WrapEq
  <2>. QED
    BY <1>2, <1>4, <2>1, <2>3
<1>. QED
  BY <1>3, <1>4

\* An enqueue reserves the cell behind the last one ...
LEMMA ReserveFree ==
  ASSUME NEW e \in Int, NEW d \in Int, NEW p \in Pint, NEW s \in Sint, Ring(e, d, p, s),
         Control, NEW t \in Thread, Exchange(t), op[t] = "enq"
  PROVE  Ring(e + 1, d, p, s)'
<1>. USE DEF Goto
<1>0. /\ pc \in [Thread -> Label] /\ front \in [Thread -> Index \cup {-1}]
      /\ p \in [Thread -> Int] /\ p[t] \in Int /\ pos[t] = Wrap(p[t])
  BY DEF Control, Typed, Pint, Ring, View
<1>1. p[t] = e /\ s[Cell(e)] >= e
  BY ExchangeIs
<1>2. /\ e < d + Capacity /\ s[Cell(e)] = e /\ data[Cell(e)] = nullptr
      /\ \A u \in Thread : Drainer(u) => p[u] + Capacity # e
  BY SMT, <1>1, TailFree DEF Ring
<1>3. /\ m_posEnqueue' = Add(pos[t], 1) /\ pc[t] = "exchange" /\ pc' = [pc EXCEPT ![t] = "access"]
      /\ front' = [front EXCEPT ![t] = -1]
      /\ UNCHANGED <<m_posDequeue, sequence, data, op, pos>>
  BY DEF Exchange
<1>4. pc'[t] = "access" /\ front'[t] = -1 /\ \A u \in Thread \ {t} : pc'[u] = pc[u] /\ front'[u] = front[u]
  BY <1>0, <1>3
<1>5. e + 1 \in Int /\ e < e + 1 /\ e <= e + 1 /\ e <= e /\ d <= d
  BY SMT
<1>6. View(e + 1, d, p, s)'
  <2>1. Add(pos[t], 1) = Wrap(e + 1)
    BY SMT, <1>0, <1>1, WrapAdd
  <2>. QED
    BY <1>3, <2>1 DEF Ring, View
<1>7. \A u \in Thread : /\ Filler(u)' <=> Filler(u) \/ u = t
                        /\ Drainer(u)' <=> Drainer(u)
                        /\ ~ Filler(t) /\ ~ Drainer(t)
  BY <1>3, <1>4 DEF Filler, Drainer
<1>8. ASSUME NEW u \in Thread, Filler(u)'
      PROVE  FillerAt(u, e + 1, d, p, s)'
  <2>1. CASE u = t
    BY <1>1, <1>2, <1>3, <1>4, <1>5, <2>1 DEF FillerAt, Ring, Cells
  <2>2. CASE u # t
    <3>1. FillerAt(u, e, d, p, s) /\ p[u] \in Int
      BY <1>0, <1>7, <1>8, <2>2 DEF Ring, Cells
    <3>2. p[u] < e + 1
      BY SMT, <3>1 DEF FillerAt
    <3>. QED
      BY <1>3, <1>4, <2>2, <3>1, <3>2 DEF FillerAt
  <2>. QED
    BY <2>1, <2>2
<1>9. ASSUME NEW u \in Thread, Drainer(u)'
      PROVE  DrainerAt(u, e + 1, d, p, s)'
  <2>1. u # t /\ Drainer(u) /\ DrainerAt(u, e, d, p, s) /\ p[u] \in Int /\ p[u] + Capacity # e
    BY <1>0, <1>2, <1>7, <1>9 DEF Ring, Cells
  <2>2. e + 1 <= p[u] + Capacity
    BY SMT, <2>1, Sizes DEF DrainerAt
  <2>. QED
    BY <1>3, <1>4, <2>1, <2>2 DEF DrainerAt
<1>10. ASSUME NEW u \in Thread, NEW w \in Thread,
              (Filler(u)' /\ Filler(w)') \/ (Drainer(u)' /\ Drainer(w)')
       PROVE  u = w \/ p[u] # p[w]
  <2>1. \A x \in Thread : Filler(x) => p[x] # e
    BY SMT, <1>0 DEF Ring, Cells, FillerAt
  <2>. QED
    BY <1>1, <1>7, <1>10, <2>1 DEF Ring, Cells
<1>11. ASSUME NEW k \in Int, d <= k, k < e + 1
       PROVE  FullAt(k, p, s)'
  <2>1. CASE k = e
    BY <1>1, <1>7, <2>1 DEF FullAt
  <2>2. CASE k # e
    <3>1. k < e
      BY SMT, <1>11, <2>2
    <3>2. FullAt(k, p, s)
      BY <1>11, <3>1 DEF Ring, Cells
    <3>. QED
      BY <1>3, <1>7, <3>2 DEF FullAt
  <2>. QED
    BY <2>1, <2>2
<1>12. ASSUME NEW k \in Int, e + 1 <= k, k < d + Capacity
       PROVE  FreeAt(k, p, s)'
  <2>1. e <= k
    BY SMT, <1>12
  <2>2. FreeAt(k, p, s)
    BY <1>12, <2>1 DEF Ring, Cells
  <2>. QED
    BY <1>3, <1>7, <2>2 DEF FreeAt
<1>13. Cells(e + 1, d, p, s)'
  <2>1. d <= e + 1 /\ e + 1 <= d + Capacity
    BY SMT, <1>2, Sizes DEF Ring, Cells
  <2>. QED
    BY <1>8, <1>9, <1>10, <1>11, <1>12, <2>1 DEF Cells
<1>14. Threads(e + 1, d, p, s)'
  <2>. SUFFICES ASSUME NEW u \in Thread PROVE SeekerAt(u, e + 1, d, p, s)' /\ FrontAt(u, e + 1, d, s)'
    BY DEF Threads
  <2>1. CASE u = t
    BY <1>4, <2>1 DEF SeekerAt, FrontAt
  <2>2. CASE u # t
    <3>1. SeekerAt(u, e, d, p, s) /\ FrontAt(u, e, d, s)
      BY DEF Ring, Threads
    <3>2. pc[u] \in Seeking /\ op[u] = "enq" => e + 1 <= p[u] + Window
      BY <2>2, WindowIs DEF Exchange
    <3>3. pc[u] \in Seeking /\ op[u] # "enq" => d <= p[u] + Window
      BY <3>1 DEF SeekerAt, Seeking
    <3>4. pc'[u] = pc[u] /\ op'[u] = op[u] /\ front'[u] = front[u]
      BY <1>3, <1>4, <2>2
    <3>5. \A i \in Index : s[i] <= s[i]
      BY SMT DEF Sint
    <3>. QED
      BY <1>5, <3>1, <3>2, <3>3, <3>4, <3>5, SeekerKept DEF Seeking
  <2>. QED
    BY <2>1, <2>2
<1>. QED
  BY <1>6, <1>13, <1>14 DEF Ring

\* ... and a dequeue the cell at the head.
LEMMA ReserveHead ==
  ASSUME NEW e \in Int, NEW d \in Int, NEW p \in Pint, NEW s \in Sint, Ring(e, d, p, s),
         Control, NEW t \in Thread, Exchange(t), op[t] # "enq"
  PROVE  Ring(e, d + 1, p, s)'
<1>. USE DEF Goto
<1>0. /\ pc \in [Thread -> Label] /\ front \in [Thread -> Index \cup {-1}]
      /\ p \in [Thread -> Int] /\ p[t] \in Int /\ pos[t] = Wrap(p[t])
  BY DEF Control, Typed, Pint, Ring, View
<1>1. op[t] = "deq" /\ p[t] = d /\ s[Cell(d)] > d
  BY ExchangeIs
<1>2. /\ Ready(e, d, s) /\ data[Cell(d)] \in Val
      /\ \A u \in Thread : Filler(u) => p[u] # d
  BY <1>1, HeadReady DEF Ring
<1>3. /\ m_posDequeue' = Add(pos[t], 1) /\ pc[t] = "exchange" /\ pc' = [pc EXCEPT ![t] = "access"]
      /\ front' = [front EXCEPT ![t] = -1]
      /\ UNCHANGED <<m_posEnqueue, sequence, data, op, pos>>
  BY DEF Exchange
<1>4. pc'[t] = "access" /\ front'[t] = -1 /\ \A u \in Thread \ {t} : pc'[u] = pc[u] /\ front'[u] = front[u]
  BY <1>0, <1>3
<1>5. d + 1 \in Int /\ d < d + 1 /\ d <= d + 1 /\ e <= e
  BY SMT
<1>6. View(e, d + 1, p, s)'
  <2>1. Add(pos[t], 1) = Wrap(d + 1)
    BY SMT, <1>0, <1>1, WrapAdd
  <2>. QED
    BY <1>3, <2>1 DEF Ring, View
<1>7. \A u \in Thread : /\ Drainer(u)' <=> Drainer(u) \/ u = t
                        /\ Filler(u)' <=> Filler(u)
                        /\ ~ Filler(t) /\ ~ Drainer(t)
  BY <1>1, <1>3, <1>4 DEF Filler, Drainer
<1>8. ASSUME NEW u \in Thread, Drainer(u)'
      PROVE  DrainerAt(u, e, d + 1, p, s)'
  <2>1. CASE u = t
    BY <1>1, <1>2, <1>3, <1>4, <1>5, <2>1 DEF DrainerAt, Ring, Cells, Ready
  <2>2. CASE u # t
    <3>1. DrainerAt(u, e, d, p, s) /\ p[u] \in Int
      BY <1>0, <1>7, <1>8, <2>2 DEF Ring, Cells
    <3>2. p[u] < d + 1
      BY SMT, <3>1 DEF DrainerAt
    <3>. QED
      BY <1>3, <1>4, <2>2, <3>1, <3>2 DEF DrainerAt
  <2>. QED
    BY <2>1, <2>2
<1>9. ASSUME NEW u \in Thread, Filler(u)'
      PROVE  FillerAt(u, e, d + 1, p, s)'
  <2>1. u # t /\ Filler(u) /\ FillerAt(u, e, d, p, s) /\ p[u] \in Int /\ p[u] # d
    BY <1>0, <1>2, <1>7, <1>9 DEF Ring, Cells
  <2>2. d + 1 <= p[u]
    BY SMT, <2>1 DEF FillerAt
  <2>. QED
    BY <1>3, <1>4, <2>1, <2>2 DEF FillerAt
<1>10. ASSUME NEW u \in Thread, NEW w \in Thread,
              (Filler(u)' /\ Filler(w)') \/ (Drainer(u)' /\ Drainer(w)')
       PROVE  u = w \/ p[u] # p[w]
  <2>1. \A x \in Thread : Drainer(x) => p[x] # d
    BY SMT, <1>0 DEF Ring, Cells, DrainerAt
  <2>. QED
    BY <1>1, <1>7, <1>10, <2>1 DEF Ring, Cells
<1>11. ASSUME NEW k \in Int, d + 1 <= k, k < e
       PROVE  FullAt(k, p, s)'
  <2>1. d <= k
    BY SMT, <1>11
  <2>2. FullAt(k, p, s)
    BY <1>11, <2>1 DEF Ring, Cells
  <2>. QED
    BY <1>3, <1>7, <2>2 DEF FullAt
<1>12. ASSUME NEW k \in Int, e <= k, k < (d + 1) + Capacity
       PROVE  FreeAt(k, p, s)'
  <2>1. CASE k = d + Capacity
    BY <1>1, <1>7, <2>1 DEF FreeAt
  <2>2. CASE k # d + Capacity
    <3>1. k < d + Capacity
      BY SMT, <1>12, <2>2, Sizes
    <3>2. FreeAt(k, p, s)
      BY <1>12, <3>1 DEF Ring, Cells
    <3>. QED
      BY <1>3, <1>7, <3>2 DEF FreeAt
  <2>. QED
    BY <2>1, <2>2
<1>13. Cells(e, d + 1, p, s)'
  <2>1. d + 1 <= e /\ e <= (d + 1) + Capacity
    BY SMT, <1>2, Sizes DEF Ring, Cells, Ready
  <2>. QED
    BY <1>8, <1>9, <1>10, <1>11, <1>12, <2>1 DEF Cells
<1>14. Threads(e, d + 1, p, s)'
  <2>. SUFFICES ASSUME NEW u \in Thread PROVE SeekerAt(u, e, d + 1, p, s)' /\ FrontAt(u, e, d + 1, s)'
    BY DEF Threads
  <2>1. CASE u = t
    BY <1>4, <2>1 DEF SeekerAt, FrontAt
  <2>2. CASE u # t
    <3>1. SeekerAt(u, e, d, p, s) /\ FrontAt(u, e, d, s)
      BY DEF Ring, Threads
    <3>2. pc[u] \in Seeking /\ op[u] # "enq" => d + 1 <= p[u] + Window
      BY ZenonT(60), <1>1, <2>2, WindowIs DEF Exchange
    <3>3. pc[u] \in Seeking /\ op[u] = "enq" => e <= p[u] + Window
      BY <3>1 DEF SeekerAt, Seeking
    <3>4. pc'[u] = pc[u] /\ op'[u] = op[u] /\ front'[u] = front[u]
      BY <1>3, <1>4, <2>2
    <3>5. \A i \in Index : s[i] <= s[i]
      BY SMT DEF Sint
    <3>6. op[u] # "front" /\ pc[u] # "front" /\ ~ front[u] # -1
      <4>1. t \in consumers
        BY <1>1 DEF Control, ControlOf
      <4>2. consumers # {u}
        BY <2>2, <4>1
      <4>. QED
        BY <4>2 DEF Control, ControlOf
    <3>. QED
      BY <1>5, <3>1, <3>2, <3>3, <3>4, <3>5, <3>6, SeekerKept DEF Seeking
  <2>. QED
    BY <2>1, <2>2
<1>. QED
  BY <1>6, <1>13, <1>14 DEF Ring

-----------------------------------------------------------------------------
\* Every step keeps the invariant.
LEMMA InvStep ==
  ASSUME Inv, NEW t \in Thread, Step(t), UNCHANGED consumers
  PROVE  Inv'
<1>1. Control /\ Control'
  BY ControlStep DEF Inv
<1>2. PICK e \in Int, d \in Int, p \in Pint, s \in Sint : Ring(e, d, p, s)
  BY DEF Inv
<1>3. CASE Quiet(t)
  <2>1. PICK q \in Pint : Ring(e, d, q, s)'
    BY <1>1, <1>2, <1>3, QuietRing
  <2>. QED
    BY <1>1, <2>1 DEF Inv
<1>4. CASE Write(t) \/ Read(t) \/ Clean(t)
  BY SMT, <1>1, <1>2, <1>4, AccessRing DEF Inv
<1>5. CASE Publish(t)
  BY <1>1, <1>2, <1>5, PublishRing DEF Inv
<1>6. CASE Exchange(t)
  <2>1. e + 1 \in Int /\ d + 1 \in Int
    BY SMT
  <2>2. Ring(e + 1, d, p, s)' \/ Ring(e, d + 1, p, s)'
    BY <1>1, <1>2, <1>6, ReserveFree, ReserveHead
  <2>. QED
    BY <1>1, <2>1, <2>2 DEF Inv
<1>. QED
  BY <1>3, <1>4, <1>5, <1>6 DEF Step, Quiet

\* The invariant holds in every state.
LEMMA InvAlways ==
  Spec => []Inv
<1>1. Init => Inv
  BY ControlInit, RingInit DEF Inv
<1>2. Inv /\ [Next]_vars => Inv'
  <2>. SUFFICES ASSUME Inv, [Next]_vars PROVE Inv'
    OBVIOUS
  <2>1. CASE UNCHANGED vars
    BY SMT, <2>1 DEF Inv, vars, sharedVars, locals, Control, Typed, ControlOf, Ring, View, Cells, Threads,
                Filler, Drainer, FillerAt, DrainerAt, FullAt, FreeAt, SeekerAt, FrontAt, Ready
  <2>2. CASE Next
    BY <2>2, InvStep DEF Next
  <2>. QED
    BY <2>1, <2>2
<1>. QED
  BY <1>1, <1>2, PTL DEF Spec

-----------------------------------------------------------------------------
(* The items *)

\* A thread that is about to construct the value in its cell.
Writer(t) == Filler(t) /\ pc[t] = "access"

\* The unsigned difference of the positions is the number of items.
LEMMA SizeIs ==
  ASSUME NEW e \in Int, NEW d \in Int, NEW p \in Pint, NEW s \in Sint, Ring(e, d, p, s)
  PROVE  Size = e - d /\ Size \in Nat /\ Size <= Capacity
<1>1. Size = Wrap(e - d)
  BY WrapSub DEF Ring, View, Size
<1>2. e - d \in Nat /\ e - d <= Capacity /\ 0 <= e - d /\ e - d < PosModulus /\ e - d \in Int
  BY SMT, Sizes DEF Ring, Cells
<1>. QED
  BY <1>1, <1>2, WrapSmall

\* The value at position n is the one a thread is about to construct, or the one there.
ShownAt(n, p) ==
  /\ \A t \in Thread : Writer(t) /\ p[t] = n => ValueAt(Wrap(n)) = val[t]
  /\ (\A t \in Thread : Writer(t) => p[t] # n) => ValueAt(Wrap(n)) = data[Cell(n)]

\* The value at a position of the queue: written already, or about to be.
LEMMA ValueIs ==
  ASSUME NEW e \in Int, NEW d \in Int, NEW p \in Pint, NEW s \in Sint, Ring(e, d, p, s),
         NEW n \in Int, d <= n, n < e
  PROVE  ShownAt(n, p)
<1>. DEFINE W == {t \in Thread : pc[t] = "access" /\ op[t] = "enq" /\ pos[t] = Wrap(n)}
<1>1. ASSUME NEW t \in Thread
      PROVE  t \in W <=> Writer(t) /\ p[t] = n
  <2>1. p[t] \in Int /\ pos[t] = Wrap(p[t])
    BY DEF Pint, Ring, View
  <2>2. t \in W => Writer(t)
    BY DEF Writer, Filler
  <2>3. Writer(t) => d <= p[t] /\ p[t] < e /\ e <= d + Capacity
    BY ZenonT(60) DEF Writer, Ring, Cells, FillerAt
  <2>4. Writer(t) => p[t] - n < PosModulus /\ n - p[t] < PosModulus
    BY SMT, <2>1, <2>3, Sizes
  <2>5. t \in W => p[t] = n
    BY <2>1, <2>2, <2>4, WrapEq
  <2>. QED
    BY <2>1, <2>2, <2>5 DEF Writer, Filler
<1>2. \A t, u \in W : t = u
  BY <1>1 DEF Writer, Ring, Cells
<1>3. Cell(Wrap(n)) = Cell(n)
  BY CellWrap
<1>4. ASSUME NEW t \in W
      PROVE  ValueAt(Wrap(n)) = val[t]
  <2>1. (CHOOSE u \in W : TRUE) \in W
    BY <1>4
  <2>2. (CHOOSE u \in W : TRUE) = t
    BY <1>2, <1>4, <2>1
  <2>. QED
    BY <1>4, <2>2 DEF ValueAt
<1>5. W = {} => ValueAt(Wrap(n)) = data[Cell(n)]
  BY <1>3 DEF ValueAt
<1>. QED
  BY <1>1, <1>4, <1>5 DEF ShownAt

\* The items, by positions that do not wrap.
LEMMA ItemsAre ==
  ASSUME NEW e \in Int, NEW d \in Int, NEW p \in Pint, NEW s \in Sint, Ring(e, d, p, s)
  PROVE  Items = [k \in 1 .. (e - d) |-> ValueAt(Wrap(d + (k - 1)))]
<1>1. Size = e - d
  BY SizeIs
<1>2. \A k \in 1 .. (e - d) : Add(m_posDequeue, k - 1) = Wrap(d + (k - 1))
  <2>. SUFFICES ASSUME NEW k \in 1 .. (e - d) PROVE Add(m_posDequeue, k - 1) = Wrap(d + (k - 1))
    OBVIOUS
  <2>1. PICK n \in Int : n = k - 1
    BY SMT
  <2>. QED
    BY <2>1, WrapAdd DEF Ring, View
<1>. QED
  BY <1>1, <1>2 DEF Items

\* What Items shows of the ring.
Contents(e, d, p) ==
  /\ Size = e - d /\ Size \in Nat /\ Size <= Capacity
  /\ Items = [k \in 1 .. (e - d) |-> ValueAt(Wrap(d + (k - 1)))]
  /\ \A n \in Int :
       d <= n /\ n < e => ShownAt(n, p)

\* That is so in a state ...
LEMMA ContentsNow == \A e, d \in Int, p \in Pint, s \in Sint : Ring(e, d, p, s) => Contents(e, d, p)
<1>. SUFFICES ASSUME NEW e \in Int, NEW d \in Int, NEW p \in Pint, NEW s \in Sint, Ring(e, d, p, s)
              PROVE  Contents(e, d, p)
  OBVIOUS
<1>1. Size = e - d /\ Size \in Nat /\ Size <= Capacity
  BY SizeIs
<1>2. Items = [k \in 1 .. (e - d) |-> ValueAt(Wrap(d + (k - 1)))]
  BY ItemsAre
<1>3. ASSUME NEW n \in Int, d <= n, n < e
      PROVE  ShownAt(n, p)
  BY <1>3, ValueIs
<1>. QED
  BY <1>1, <1>2, <1>3 DEF Contents

\* ... and in the next one.
LEMMA ContentsNext == (\A e, d \in Int, p \in Pint, s \in Sint : Ring(e, d, p, s) => Contents(e, d, p))'
  BY ContentsNow, PTL

\* The items are the same when the values are.
LEMMA ItemsKept ==
  ASSUME NEW e \in Int, NEW d \in Int, NEW p \in Pint, NEW s \in Sint, Ring(e, d, p, s),
         NEW q \in Pint, NEW s2 \in Sint, Ring(e, d, q, s2)',
         \A n \in Int : d <= n /\ n < e => ValueAt(Wrap(n))' = ValueAt(Wrap(n))
  PROVE  Items' = Items /\ Size' = Size
<1>1. Items = [k \in 1 .. (e - d) |-> ValueAt(Wrap(d + (k - 1)))] /\ Size = e - d
  BY ContentsNow DEF Contents
<1>2. Items' = [k \in 1 .. (e - d) |-> ValueAt(Wrap(d + (k - 1)))'] /\ Size' = e - d
  BY ContentsNext DEF Contents
<1>3. \A k \in 1 .. (e - d) : ValueAt(Wrap(d + (k - 1)))' = ValueAt(Wrap(d + (k - 1)))
  <2>. SUFFICES ASSUME NEW k \in 1 .. (e - d)
                PROVE  ValueAt(Wrap(d + (k - 1)))' = ValueAt(Wrap(d + (k - 1)))
    OBVIOUS
  <2>1. PICK n \in Int : n = d + (k - 1)
    BY SMT
  <2>2. d <= n /\ n < e
    BY SMT, <2>1
  <2>. QED
    BY <2>1, <2>2
<1>. QED
  BY <1>1, <1>2, <1>3

\* Nobody begins or ends to construct the value at n, and its cell stays.
SameAt(n, p, q) ==
  /\ \A u \in Thread : /\ Writer(u) /\ p[u] = n <=> Writer(u)' /\ q[u] = n
                       /\ Writer(u) /\ p[u] = n => val'[u] = val[u]
  /\ data'[Cell(n)] = data[Cell(n)]

\* A value is the same when nobody begins or ends to construct it and its cell is.
LEMMA ValueKept ==
  ASSUME NEW n, NEW p, NEW q, ShownAt(n, p), ShownAt(n, q)', SameAt(n, p, q)
  PROVE  ValueAt(Wrap(n))' = ValueAt(Wrap(n))
<1>1. CASE \A t \in Thread : Writer(t) => p[t] # n
  BY <1>1 DEF SameAt, ShownAt
<1>2. CASE \E t \in Thread : Writer(t) /\ p[t] = n
  BY <1>2 DEF SameAt, ShownAt
<1>. QED
  BY <1>1, <1>2

-----------------------------------------------------------------------------
(* Sequences *)

\* g is f and one element more.
Longer(S, f, g, v) ==
  /\ f \in Seq(S) /\ g \in Seq(S) /\ v \in S /\ Len(g) = Len(f) + 1
  /\ \A k \in 1 .. Len(f) : g[k] = f[k]
  /\ g[Len(f) + 1] = v

\* Append, Tail and the empty sequence by their elements.
LEMMA SeqAppend == \A S, f, g, v : Longer(S, f, g, v) => g = Append(f, v)
  BY SMT DEF Longer

\* The tail.
LEMMA SeqTail ==
  ASSUME NEW S, NEW f \in Seq(S), NEW g \in Seq(S), Len(f) = Len(g) + 1,
         \A k \in 1 .. Len(g) : g[k] = f[k + 1]
  PROVE  f # <<>> /\ g = Tail(f) /\ Head(f) = f[1]
  BY SMT

\* A function on 1 .. n is a sequence of length n.
LEMMA SeqOf ==
  ASSUME NEW S, NEW n \in Nat, NEW f \in [1 .. n -> S]
  PROVE  f \in Seq(S) /\ Len(f) = n
  BY SMT

\* The empty sequence.
LEMMA SeqNone ==
  ASSUME NEW S, NEW f \in Seq(S), Len(f) = 0
  PROVE  f = <<>>
  BY SMT

-----------------------------------------------------------------------------
(* Calls *)

\* A call in the abstract queue, and the set it is the only member of.
Rec(o, b, v) == [op |-> o, done |-> b, saw |-> FALSE, val |-> v]
Recs(o, b, v) == [op : {o}, done : {b}, saw : {FALSE}, val : {v}]

\* The call of t: its operation has taken effect or not, and its value.
CallOf(t) ==
  IF pc[t] = "front" \/ (op[t] = "deq" /\ pc[t] = "access") THEN Rec(op[t], TRUE, data[Cell(pos[t])])
  ELSE IF pc[t] \in {"access", "clean", "publish", "count"} THEN Rec(op[t], TRUE, val[t])
  ELSE Rec(op[t], FALSE, val[t])

\* The calls are those, in a state ...
LEMMA CallIs == call = [t \in Thread |-> CallOf(t)]
<1>. DEFINE done(t) == pc[t] \in {"access", "clean", "publish", "count", "front"}
            shown(t) == IF pc[t] = "front" \/ (op[t] = "deq" /\ pc[t] = "access") THEN data[Cell(pos[t])] ELSE val[t]
<1>1. call = [t \in Thread |-> Rec(op[t], done(t), shown(t))]
  BY DEF call, Rec
<1>2. ASSUME NEW t \in Thread
      PROVE  Rec(op[t], done(t), shown(t)) = CallOf(t)
  <2>1. PICK b \in BOOLEAN : b = done(t)
    <3>1. CASE done(t)
      <4>1. TRUE = done(t)
        BY <3>1
      <4>. QED
        BY <4>1
    <3>2. CASE ~ done(t)
      <4>1. FALSE = done(t)
        BY SMT, <3>2
      <4>. QED
        BY <4>1
    <3>. QED
      BY <3>1, <3>2
  <2>2. PICK v : v = shown(t)
    OBVIOUS
  <2>3. CallOf(t) = Rec(op[t], b, v)
    BY <2>1, <2>2 DEF CallOf
  <2>. QED
    BY <2>1, <2>2, <2>3
<1>. QED
  BY <1>1, <1>2

\* ... and in the next one.
LEMMA CallNext == call' = [t \in Thread |-> CallOf(t)']
<1>1. (call = [t \in Thread |-> CallOf(t)])'
  BY CallIs, PTL
<1>. QED
  BY <1>1

\* The updates that the abstract queue makes to a record.
SetOp(r, x)   == [r EXCEPT !.op = x]
SetDone(r)    == [r EXCEPT !.done = TRUE]
SetVal(r, x)  == [r EXCEPT !.val = x]

\* Updates of a record ...
LEMMA RecOp ==
  ASSUME NEW o, NEW b, NEW v, NEW x
  PROVE  SetOp(Rec(o, b, v), x) = Rec(x, b, v)
<1>1. SetOp(Rec(o, b, v), x) \in Recs(x, b, v)
  BY DEF SetOp, Rec, Recs
<1>. QED
  BY <1>1 DEF Rec, Recs

\* The effect.
LEMMA RecDone ==
  ASSUME NEW o, NEW b, NEW v
  PROVE  SetDone(Rec(o, b, v)) = Rec(o, TRUE, v)
<1>1. SetDone(Rec(o, b, v)) \in Recs(o, TRUE, v)
  BY DEF SetDone, Rec, Recs
<1>. QED
  BY <1>1 DEF Rec, Recs

\* The value.
LEMMA RecVal ==
  ASSUME NEW o, NEW b, NEW v, NEW x
  PROVE  SetVal(Rec(o, b, v), x) = Rec(o, b, x)
<1>1. SetVal(Rec(o, b, v), x) \in Recs(o, b, x)
  BY DEF SetVal, Rec, Recs
<1>. QED
  BY <1>1 DEF Rec, Recs

\* The updates that it makes to the calls.
Put(f, t, r)        == [f EXCEPT ![t] = r]
PutOp(f, t, x)      == [f EXCEPT ![t].op = x]
PutCall(f, t, x, y) == [f EXCEPT ![t].op = x, ![t].val = y]
PutDone(f, t)       == [f EXCEPT ![t].done = TRUE]
PutVal(f, t, y)     == [f EXCEPT ![t].done = TRUE, ![t].val = y]

\* The call of t in f.
CallAt(f, t, o, b, v) == f = [u \in Thread |-> f[u]] /\ f[t] = Rec(o, b, v)

\* What the updates come to.
Puts(f, t, o, b, v, x, y) ==
  /\ PutOp(f, t, x) = Put(f, t, Rec(x, b, v))
  /\ PutCall(f, t, x, y) = Put(f, t, Rec(x, b, y))
  /\ PutDone(f, t) = Put(f, t, Rec(o, TRUE, v))
  /\ PutVal(f, t, y) = Put(f, t, Rec(o, TRUE, y))

\* ... and of the record of a thread.
LEMMA PutSet ==
  ASSUME NEW f, NEW t \in Thread, NEW o, NEW b, NEW v, NEW x, NEW y, CallAt(f, t, o, b, v)
  PROVE  Puts(f, t, o, b, v, x, y)
<1>. USE DEF CallAt
<1>1. PutOp(f, t, x) = Put(f, t, SetOp(f[t], x))
  BY DEF Put, SetOp, PutOp
<1>2. PutCall(f, t, x, y) = Put(f, t, SetVal(SetOp(f[t], x), y))
  BY DEF Put, SetOp, SetVal, PutCall
<1>3. PutDone(f, t) = Put(f, t, SetDone(f[t]))
  BY DEF Put, SetDone, PutDone
<1>4. PutVal(f, t, y) = Put(f, t, SetVal(SetDone(f[t]), y))
  BY DEF Put, SetDone, SetVal, PutVal
<1>5. SetOp(Rec(o, b, v), x) = Rec(x, b, v)
  BY SMT, RecOp
<1>6. SetDone(Rec(o, b, v)) = Rec(o, TRUE, v)
  BY RecDone
<1>7. SetVal(Rec(x, b, v), y) = Rec(x, b, y)
  BY ZenonT(60), RecVal
<1>8. SetVal(Rec(o, TRUE, v), y) = Rec(o, TRUE, y)
  BY RecVal
<1>. QED
  BY <1>1, <1>2, <1>3, <1>4, <1>5, <1>6, <1>7, <1>8 DEF Puts

\* What a step makes of the calls.
LEMMA CallStep ==
  ASSUME NEW t \in Thread, \A u \in Thread \ {t} : CallOf(u)' = CallOf(u), NEW r, CallOf(t)' = r
  PROVE  /\ call[t] = CallOf(t) /\ call = [u \in Thread |-> call[u]]
         /\ call' = Put(call, t, r)
<1>. HIDE DEF CallOf
<1>1. call = [u \in Thread |-> CallOf(u)] /\ call' = [u \in Thread |-> CallOf(u)']
  BY CallIs, CallNext
<1>2. call[t] = CallOf(t) /\ call = [u \in Thread |-> call[u]]
  BY <1>1
<1>. QED
  BY <1>1, <1>2 DEF Put

\* No call.
IdleRec == Rec("none", FALSE, nullptr)

\* The abstract queue calls it Idle.
LEMMA IdleIs == BQ!Idle = IdleRec
  BY DEF BQ!Idle, IdleRec, Rec

\* The abstract step that a step of t is.
LEMMA StepIs ==
  ASSUME NEW t \in Thread, \A u \in Thread \ {t} : CallOf(u)' = CallOf(u),
         NEW o, NEW b, NEW v, CallOf(t) = Rec(o, b, v), Len(Items') <= Capacity,
         \/ Items' = Items /\ CallOf(t)' = CallOf(t)
         \/ Items' = Items /\ Rec(o, b, v) = IdleRec /\ \E x \in Val : CallOf(t)' = Rec("enq", FALSE, x)
         \/ Items' = Items /\ Rec(o, b, v) = IdleRec /\ CallOf(t)' = Rec("deq", FALSE, nullptr)
         \/ Items' = Items /\ Rec(o, b, v) = IdleRec /\ CallOf(t)' = Rec("front", FALSE, nullptr)
         \/ o = "enq" /\ b = FALSE /\ CallOf(t)' = Rec("enq", TRUE, v) /\ Items' = Append(Items, v)
         \/ o = "deq" /\ b = FALSE /\ CallOf(t)' = Rec("deq", TRUE, Head(Items)) /\ Items # <<>> /\ Items' = Tail(Items)
         \/ o = "front" /\ b = FALSE /\ CallOf(t)' = Rec("front", TRUE, Head(Items)) /\ Items # <<>> /\ Items' = Items
         \/ o = "enq" /\ b = FALSE /\ Len(Items) = Capacity /\ Items' = Items /\ CallOf(t)' = IdleRec
         \/ o = "deq" /\ b = FALSE /\ Items = <<>> /\ Items' = Items /\ CallOf(t)' = IdleRec
         \/ o = "front" /\ b = FALSE /\ Items = <<>> /\ Items' = Items /\ CallOf(t)' = IdleRec
         \/ b = TRUE /\ Items' = Items /\ CallOf(t)' = IdleRec
  PROVE  [BQ!BoundedNext]_<<Items, call>>
<1>. HIDE DEF CallOf
<1>0. call[t] = Rec(o, b, v) /\ call = [u \in Thread |-> call[u]]
  BY CallStep
<1>1. /\ call[t] = Rec(o, b, v) /\ call = [u \in Thread |-> call[u]]
      /\ \A r : CallOf(t)' = r => call' = Put(call, t, r)
  BY CallStep
<1>2. call[t].op = o /\ call[t].done = b /\ call[t].val = v /\ call[t].saw = FALSE
  BY <1>1 DEF Rec
<1>3. ASSUME NEW x, NEW y
      PROVE  /\ PutOp(call, t, x) = Put(call, t, Rec(x, b, v))
             /\ PutCall(call, t, x, y) = Put(call, t, Rec(x, b, y))
             /\ PutDone(call, t) = Put(call, t, Rec(o, TRUE, v))
             /\ PutVal(call, t, y) = Put(call, t, Rec(o, TRUE, y))
  <2>1. CallAt(call, t, o, b, v)
    BY <1>0 DEF CallAt
  <2>2. Puts(call, t, o, b, v, x, y)
    BY <2>1, PutSet
  <2>. QED
    BY <2>2 DEF Puts
<1>4. \A x, y, z : x = Rec(y, FALSE, z) => x.op = y /\ x.done = FALSE /\ x.val = z
  BY DEF Rec
<1>5. Rec(o, b, v) = IdleRec => o = "none" /\ b = FALSE /\ v = nullptr /\ call[t] = BQ!Idle
  BY <1>1, <1>2, IdleIs DEF IdleRec, Rec
<1>6. CASE Items' = Items /\ CallOf(t)' = CallOf(t)
  <2>1. call' = call
    BY <1>1, <1>6 DEF Put
  <2>. QED
    BY <1>6, <2>1
<1>7. CASE Items' = Items /\ Rec(o, b, v) = IdleRec /\ \E x \in Val : CallOf(t)' = Rec("enq", FALSE, x)
  <2>1. PICK x \in Val : CallOf(t)' = Rec("enq", FALSE, x)
    BY <1>7
  <2>2. call' = PutCall(call, t, "enq", x)
    <3>1. call' = Put(call, t, Rec("enq", FALSE, x)) /\ b = FALSE
      BY <1>1, <1>5, <1>7, <2>1
    <3>. QED
      BY <1>3, <3>1
  <2>. QED
    BY <1>5, <1>7, <2>2 DEF BQ!BoundedNext, BQ!Next, BQ!Begin, PutOp, PutCall
<1>8. CASE Items' = Items /\ Rec(o, b, v) = IdleRec /\ CallOf(t)' = Rec("deq", FALSE, nullptr)
  <2>1. call' = PutOp(call, t, "deq")
    BY <1>1, <1>3, <1>5, <1>8
  <2>. QED
    BY <1>5, <1>8, <2>1 DEF BQ!BoundedNext, BQ!Next, BQ!Begin, PutOp, PutCall
<1>9. CASE Items' = Items /\ Rec(o, b, v) = IdleRec /\ CallOf(t)' = Rec("front", FALSE, nullptr)
  <2>1. call' = PutOp(call, t, "front")
    BY <1>1, <1>3, <1>5, <1>9
  <2>. QED
    BY <1>5, <1>9, <2>1 DEF BQ!BoundedNext, BQ!BeginFront, PutOp
<1>10. CASE o = "enq" /\ b = FALSE /\ CallOf(t)' = Rec("enq", TRUE, v) /\ Items' = Append(Items, v)
  <2>1. call' = PutDone(call, t)
    BY <1>1, <1>3, <1>10
  <2>2. BQ!Enqueue(t)
    BY <1>2, <1>10, <2>1 DEF BQ!Enqueue, BQ!Pending, PutDone
  <2>. QED
    BY <2>2 DEF BQ!BoundedNext, BQ!Next
<1>11. CASE o = "deq" /\ b = FALSE /\ CallOf(t)' = Rec("deq", TRUE, Head(Items)) /\ Items # <<>> /\ Items' = Tail(Items)
  <2>1. call' = PutVal(call, t, Head(Items))
    BY <1>1, <1>3, <1>11
  <2>2. BQ!Dequeue(t)
    BY <1>2, <1>11, <2>1 DEF BQ!Dequeue, BQ!Pending, PutVal
  <2>. QED
    BY <2>2 DEF BQ!BoundedNext, BQ!Next
<1>12. CASE o = "front" /\ b = FALSE /\ CallOf(t)' = Rec("front", TRUE, Head(Items)) /\ Items # <<>> /\ Items' = Items
  <2>1. call' = PutVal(call, t, Head(Items))
    BY <1>1, <1>3, <1>12
  <2>2. BQ!Front(t)
    BY <1>2, <1>12, <2>1 DEF BQ!Front, BQ!Pending, PutVal
  <2>. QED
    BY <2>2 DEF BQ!BoundedNext
<1>13. CallOf(t)' = IdleRec => call' = [call EXCEPT ![t] = BQ!Idle]
  BY <1>1, IdleIs DEF Put
<1>14. CASE o = "enq" /\ b = FALSE /\ Len(Items) = Capacity /\ Items' = Items /\ CallOf(t)' = IdleRec
  <2>1. BQ!EnqueueFull(t)
    BY <1>2, <1>13, <1>14 DEF BQ!EnqueueFull, BQ!Pending
  <2>. QED
    BY <2>1 DEF BQ!BoundedNext
<1>15. CASE o = "deq" /\ b = FALSE /\ Items = <<>> /\ Items' = Items /\ CallOf(t)' = IdleRec
  <2>1. BQ!DequeueEmpty(t)
    BY <1>2, <1>13, <1>15 DEF BQ!DequeueEmpty, BQ!Pending
  <2>. QED
    BY <2>1 DEF BQ!BoundedNext, BQ!Next
<1>16. CASE o = "front" /\ b = FALSE /\ Items = <<>> /\ Items' = Items /\ CallOf(t)' = IdleRec
  <2>1. BQ!FrontEmpty(t)
    BY <1>2, <1>13, <1>16 DEF BQ!FrontEmpty, BQ!Pending
  <2>. QED
    BY <2>1 DEF BQ!BoundedNext
<1>17. CASE b = TRUE /\ Items' = Items /\ CallOf(t)' = IdleRec
  <2>1. BQ!End(t)
    BY <1>2, <1>13, <1>17 DEF BQ!End
  <2>. QED
    BY <2>1 DEF BQ!BoundedNext, BQ!Next
<1>. QED
  BY ZenonT(60), <1>6, <1>7, <1>8, <1>9, <1>10, <1>11, <1>12, <1>14, <1>15, <1>16, <1>17

\* What a cell can hold.
Any == Val \cup {nullptr}

\* Items as a sequence.
Listed(e, d) ==
  /\ Items \in Seq(Any) /\ Len(Items) = e - d /\ e - d \in Nat /\ e - d <= Capacity
  /\ \A k \in 1 .. (e - d) : Items[k] = ValueAt(Wrap(d + (k - 1)))

\* That is so in a state ...
LEMMA ListedNow == Control => \A e, d \in Int, p \in Pint, s \in Sint : Ring(e, d, p, s) => Listed(e, d)
<1>. SUFFICES ASSUME Control, NEW e \in Int, NEW d \in Int, NEW p \in Pint, NEW s \in Sint, Ring(e, d, p, s)
              PROVE  Listed(e, d)
  OBVIOUS
<1>1. Contents(e, d, p)
  BY ContentsNow
<1>2. e - d \in Nat /\ e - d <= Capacity /\ Items = [k \in 1 .. (e - d) |-> ValueAt(Wrap(d + (k - 1)))]
  BY <1>1 DEF Contents
<1>3. \A k \in 1 .. (e - d) : ValueAt(Wrap(d + (k - 1))) \in Any
  <2>. SUFFICES ASSUME NEW k \in 1 .. (e - d) PROVE ValueAt(Wrap(d + (k - 1))) \in Any
    OBVIOUS
  <2>1. PICK n \in Int : n = d + (k - 1) /\ d <= n /\ n < e
    BY SMT
  <2>2. Cell(n) \in Index
    BY CellIn
  <2>3. \A t \in Thread : val[t] \in Any
    BY DEF Any, Control, Typed
  <2>4. data[Cell(n)] \in Any
    BY <2>2 DEF Any, Control, Typed
  <2>. QED
    BY <1>1, <2>1, <2>3, <2>4 DEF Contents, ShownAt
<1>4. Items \in [1 .. (e - d) -> Any]
  BY <1>2, <1>3
<1>. QED
  BY <1>2, <1>4, SeqOf DEF Listed

\* ... and in the next one.
LEMMA ListedNext == Control' => (\A e, d \in Int, p \in Pint, s \in Sint : Ring(e, d, p, s) => Listed(e, d))'
<1>1. (Control => \A e, d \in Int, p \in Pint, s \in Sint : Ring(e, d, p, s) => Listed(e, d))'
  BY ListedNow, PTL
<1>. QED
  BY <1>1

\* The head of the items.
LEMMA HeadIs ==
  ASSUME NEW e \in Int, NEW d \in Int, NEW p \in Pint, NEW s \in Sint, Ring(e, d, p, s),
         Control, s[Cell(d)] > d
  PROVE  Items # <<>> /\ Head(Items) = data[Cell(d)]
<1>1. Listed(e, d) /\ Contents(e, d, p)
  BY ListedNow, ContentsNow
<1>2. d < e /\ d <= d /\ \A u \in Thread : Writer(u) => p[u] # d
  <2>1. Ready(e, d, s) /\ \A u \in Thread : Filler(u) => p[u] # d
    BY HeadReady DEF Ring
  <2>2. d <= d
    BY SMT
  <2>. QED
    BY <2>1, <2>2 DEF Ready, Writer
<1>3. ValueAt(Wrap(d)) = data[Cell(d)]
  BY <1>1, <1>2 DEF Contents, ShownAt
<1>4. 1 \in 1 .. (e - d) /\ d + (1 - 1) = d /\ Len(Items) > 0 /\ Items \in Seq(Any)
  BY SMT, <1>1, <1>2 DEF Listed
<1>5. Items[1] = ValueAt(Wrap(d))
  BY <1>1, <1>4 DEF Listed
<1>6. Items # <<>> /\ Head(Items) = Items[1]
  BY SMT, <1>4
<1>. QED
  BY <1>3, <1>5, <1>6

\* Nobody but t changes what the others' calls show.
LEMMA OtherCalls ==
  ASSUME NEW e \in Int, NEW d \in Int, NEW p \in Pint, NEW s \in Sint, Ring(e, d, p, s),
         Control, NEW t \in Thread, NEW u \in Thread, u # t,
         pc'[u] = pc[u], op'[u] = op[u], pos'[u] = pos[u], val'[u] = val[u],
         \/ data' = data
         \/ /\ Filler(t) \/ Drainer(t)
            /\ \A i \in Index : i # Cell(p[t]) => data'[i] = data[i]
  PROVE  CallOf(u)' = CallOf(u)
<1>1. p[u] \in Int /\ Cell(pos[u]) = Cell(p[u]) /\ Cell(p[u]) \in Index
  BY CellIn, CellWrap DEF Pint, Ring, View
<1>2. pc[u] = "front" \/ (op[u] = "deq" /\ pc[u] = "access") => data'[Cell(pos[u])] = data[Cell(pos[u])]
  <2>. SUFFICES ASSUME pc[u] = "front" \/ (op[u] = "deq" /\ pc[u] = "access"),
                       Filler(t) \/ Drainer(t)
                PROVE  Cell(p[u]) # Cell(p[t])
    BY <1>1
  <2>1. CASE pc[u] = "front"
    <3>1. Ready(e, d, s) /\ p[u] = d
      BY <2>1 DEF Ring, Threads, SeekerAt, Control, ControlOf
    <3>2. Cells(e, d, p, s)
      BY DEF Ring
    <3>. QED
      BY ZenonT(60), <3>1, <3>2, ReadyApart
  <2>2. CASE op[u] = "deq" /\ pc[u] = "access"
    <3>1. Drainer(u)
      BY <2>2 DEF Drainer
    <3>. QED
      BY <3>1, OwnersApart DEF Ring
  <2>. QED
    BY <2>1, <2>2
<1>. QED
  BY <1>2 DEF CallOf

-----------------------------------------------------------------------------
(* The refinement *)

\* The step is one of the bounded queue, or changes nothing that shows.
Simulates == [BQ!BoundedNext]_<<Items, call>>

\* Steps that leave cells and positions alone keep the items.
LEMMA QuietItems ==
  ASSUME NEW e \in Int, NEW d \in Int, NEW p \in Pint, NEW s \in Sint, Ring(e, d, p, s),
         Control, NEW t \in Thread, Quiet(t)
  PROVE  /\ Items' = Items /\ Size' = Size
         /\ \A u \in Thread \ {t} : CallOf(u)' = CallOf(u)
<1>. USE DEF sharedVars, locals, Goto
<1>1. PICK q \in Pint : Ring(e, d, q, s)' /\ \A u \in Thread \ {t} : q[u] = p[u]
  BY SMT, QuietRing
<1>2. /\ pc \in [Thread -> Label] /\ op \in [Thread -> {"none", "enq", "deq", "front"}]
      /\ pos \in [Thread -> Pos] /\ val \in [Thread -> Val \cup {nullptr}]
  BY DEF Control, Typed
<1>3. data' = data /\ \A u \in Thread \ {t} : pc'[u] = pc[u] /\ op'[u] = op[u] /\ pos'[u] = pos[u] /\ val'[u] = val[u]
  <2>1. CASE \E v \in Val : EnqStart(t, v)
    BY <1>2, <2>1 DEF EnqStart
  <2>2. CASE DeqStart(t) \/ FrontStart(t) \/ BoundRetry(t)
    BY <1>2, <2>2 DEF DeqStart, FrontStart, BoundRetry
  <2>3. CASE Load(t) \/ ExchangeFail(t)
    BY <1>2, <2>3 DEF Load, ExchangeFail
  <2>4. CASE LoadSequence(t)
    BY <1>2, <2>4 DEF LoadSequence
  <2>5. CASE Bound(t) \/ Count(t) \/ FrontReturn(t)
    BY <1>2, <2>5 DEF Bound, Count, FrontReturn, Return
  <2>. QED
    BY <2>1, <2>2, <2>3, <2>4, <2>5 DEF Quiet
<1>4. pc[t] # "access" /\ pc'[t] # "access"
  <2>1. CASE (\E v \in Val : EnqStart(t, v)) \/ DeqStart(t) \/ FrontStart(t) \/ BoundRetry(t)
    BY <1>2, <2>1 DEF EnqStart, DeqStart, FrontStart, BoundRetry
  <2>2. CASE Load(t) \/ ExchangeFail(t)
    BY <1>2, <2>2 DEF Load, ExchangeFail
  <2>3. CASE LoadSequence(t)
    BY <1>2, <2>3 DEF LoadSequence
  <2>4. CASE Bound(t) \/ Count(t) \/ FrontReturn(t)
    BY SMTT(40), <1>2, <2>4 DEF Bound, Count, FrontReturn, Return
  <2>. QED
    BY <2>1, <2>2, <2>3, <2>4 DEF Quiet
<1>5. ASSUME NEW n \in Int, d <= n, n < e
      PROVE  ValueAt(Wrap(n))' = ValueAt(Wrap(n))
  <2>1. SameAt(n, p, q)
    BY <1>1, <1>3, <1>4 DEF SameAt, Writer, Filler
  <2>2. Contents(e, d, p) /\ Contents(e, d, q)'
    BY <1>1, ContentsNow, ContentsNext
  <2>3. ShownAt(n, p) /\ ShownAt(n, q)'
    BY <1>5, <2>2 DEF Contents
  <2>. QED
    BY <2>1, <2>3, ValueKept
<1>6. Items' = Items /\ Size' = Size
  BY <1>1, <1>5, ItemsKept
<1>7. \A u \in Thread \ {t} : CallOf(u)' = CallOf(u)
  BY <1>3, OtherCalls
<1>. QED
  BY <1>6, <1>7

\* They begin calls, return, or read.
LEMMA QuietSimulates ==
  ASSUME NEW e \in Int, NEW d \in Int, NEW p \in Pint, NEW s \in Sint, Ring(e, d, p, s),
         Control, NEW t \in Thread, Quiet(t)
  PROVE  Simulates
<1>. USE DEF sharedVars, locals, Goto
<1>1. Items' = Items /\ \A u \in Thread \ {t} : CallOf(u)' = CallOf(u)
  BY QuietItems
<1>2. /\ pc \in [Thread -> Label] /\ op \in [Thread -> {"none", "enq", "deq", "front"}]
      /\ pos \in [Thread -> Pos] /\ val \in [Thread -> Val \cup {nullptr}]
  BY DEF Control, Typed
<1>3. Listed(e, d)
  BY ListedNow
<1>4. Len(Items') <= Capacity
  BY <1>1, <1>3 DEF Listed
<1>5. ControlOf(t) /\ pos[t] = Wrap(p[t]) /\ p[t] \in Int
  BY DEF Control, Ring, View, Pint
<1>6. pc[t] = "idle" => CallOf(t) = IdleRec
  BY <1>5 DEF ControlOf, CallOf, IdleRec
<1>7. ASSUME NEW v \in Val, EnqStart(t, v) PROVE Simulates
  <2>1. pc[t] = "idle" /\ pc'[t] = "load" /\ op'[t] = "enq" /\ val'[t] = v
    BY <1>2, <1>7 DEF EnqStart
  <2>2. CallOf(t)' = Rec("enq", FALSE, v) /\ CallOf(t) = IdleRec
    BY <1>6, <2>1 DEF CallOf
  <2>. QED
    BY <1>1, <1>4, <2>2, StepIs DEF Simulates, IdleRec
<1>8. CASE DeqStart(t) \/ FrontStart(t)
  <2>1. pc[t] = "idle" /\ pc'[t] = "load" /\ op'[t] \in {"deq", "front"} /\ val'[t] = nullptr
    BY <1>2, <1>5, <1>8 DEF DeqStart, FrontStart, ControlOf
  <2>2. CallOf(t)' = Rec(op'[t], FALSE, nullptr) /\ CallOf(t) = IdleRec
    BY <1>6, <2>1 DEF CallOf
  <2>. QED
    BY <1>1, <1>4, <2>1, <2>2, StepIs DEF Simulates, IdleRec
<1>9. CASE Load(t) \/ ExchangeFail(t) \/ BoundRetry(t)
  <2>1. pc[t] \in {"load", "exchange", "bound"} /\ pc'[t] \in {"load", "sequence"} /\ op' = op /\ val' = val
    BY <1>2, <1>9 DEF Load, ExchangeFail, BoundRetry
  <2>2. CallOf(t)' = CallOf(t) /\ CallOf(t) = Rec(op[t], FALSE, val[t])
    BY <2>1 DEF CallOf
  <2>. QED
    BY <1>1, <1>4, <2>2, StepIs DEF Simulates
<1>10. CASE LoadSequence(t)
  <2>1. PICK l \in {"front", "exchange", "bound", "load"} :
          /\ pc' = [pc EXCEPT ![t] = l]
          /\ l = "front" => op[t] = "front" /\ Dif(sequence[Cell(pos[t])], Expected(t)) = 0
    BY <1>10 DEF LoadSequence
  <2>2. pc[t] = "sequence" /\ pc'[t] = l /\ UNCHANGED <<data, op, val, pos>>
    BY <1>2, <1>10, <2>1 DEF LoadSequence
  <2>3. CallOf(t) = Rec(op[t], FALSE, val[t])
    BY <2>2 DEF CallOf
  <2>4. CASE l # "front"
    <3>1. CallOf(t)' = CallOf(t)
      BY <2>2, <2>3, <2>4 DEF CallOf
    <3>. QED
      BY <1>1, <1>4, <2>3, <3>1, StepIs DEF Simulates
  <2>5. CASE l = "front"
    <3>1. p[t] = d /\ op[t] = "front"
      BY <2>1, <2>2, <2>5 DEF Ring, Threads, SeekerAt
    <3>2. s[Cell(p[t])] \in Int /\ s[Cell(p[t])] - (p[t] + 1) = 0
      <4>1. s[Cell(p[t])] - (p[t] + 1) = 0
        BY ZenonT(60), <2>1, <2>2, <2>5, <3>1, DifIs
      <4>2. s[Cell(p[t])] \in Int
        BY <1>5, CellIn DEF Sint
      <4>. QED
        BY <4>1, <4>2
    <3>3. s[Cell(d)] > d
      BY SMT, <1>5, <3>1, <3>2
    <3>4. Items # <<>> /\ Head(Items) = data[Cell(d)]
      BY <3>3, HeadIs
    <3>5. Cell(pos[t]) = Cell(d)
      BY <1>5, <3>1, CellWrap
    <3>6. CallOf(t)' = Rec("front", TRUE, Head(Items))
      BY <2>2, <2>5, <3>1, <3>4, <3>5 DEF CallOf
    <3>. QED
      BY <1>1, <1>4, <2>3, <3>1, <3>4, <3>6, StepIs DEF Simulates
  <2>. QED
    BY <2>4, <2>5
<1>11. CASE Bound(t)
  <2>1. pc[t] = "bound" /\ AtBound(t) /\ pc'[t] = "idle" /\ op'[t] = "none" /\ val'[t] = nullptr
    BY <1>2, <1>11 DEF Bound, Return
  <2>2. CallOf(t) = Rec(op[t], FALSE, val[t]) /\ CallOf(t)' = IdleRec /\ op[t] # "none"
    BY <1>5, <2>1 DEF CallOf, IdleRec, ControlOf
  <2>3. CASE op[t] = "enq"
    <3>1. Add(Wrap(p[t]), PosModulus - Wrap(d)) = Capacity
      BY <1>5, <2>1, <2>3 DEF AtBound, Ring, View
    <3>2. PICK n \in Int : n = p[t] - d
      BY SMT, <1>5
    <3>3. Wrap(n) = Capacity
      BY <1>5, <3>1, <3>2, WrapSub
    <3>4. p[t] <= e /\ e <= p[t] + Window /\ d <= e /\ e <= d + Capacity
      BY <2>1, <2>3 DEF Ring, Threads, SeekerAt, Cells
    <3>5. Wrap(Capacity) = Capacity
      BY SMTT(40), WrapSmall, Sizes
    <3>6. Capacity \in Int /\ n - Capacity < PosModulus /\ Capacity - n < PosModulus
      BY SMTT(40), <1>5, <3>2, <3>4, Sizes
    <3>7. n = Capacity
      BY <3>3, <3>5, <3>6, WrapEq
    <3>8. Len(Items) = Capacity
      <4>1. Len(Items) = e - d /\ e - d <= Capacity
        BY <1>3 DEF Listed
      <4>. QED
        <5>1. p[t] \in Int
          BY <1>5
        <5>. QED
          BY SMTT(40), <3>2, <3>4, <3>7, <4>1, <5>1
    <3>. QED
      BY <1>1, <1>4, <2>2, <2>3, <3>8, StepIs DEF Simulates
  <2>4. CASE op[t] # "enq"
    <3>1. Wrap(p[t]) = Wrap(e)
      BY <1>5, <2>1, <2>4 DEF AtBound, Ring, View
    <3>2. p[t] <= d /\ d <= p[t] + Window /\ d <= e /\ e <= d + Capacity
      BY <2>1, <2>4 DEF Ring, Threads, SeekerAt, Cells
    <3>3. p[t] - e < PosModulus /\ e - p[t] < PosModulus
      BY SMTT(40), <1>5, <3>2, Sizes
    <3>4. p[t] = e
      BY <1>5, <3>1, <3>3, WrapEq
    <3>5. Len(Items) = 0 /\ Items \in Seq(Any)
      BY SMTT(40), <1>3, <3>2, <3>4 DEF Listed
    <3>6. Items = <<>>
      BY <3>5, SeqNone
    <3>7. op[t] = "deq" \/ op[t] = "front"
      BY <1>2, <2>2, <2>4
    <3>. QED
      BY <1>1, <1>4, <2>2, <3>6, <3>7, StepIs DEF Simulates
  <2>. QED
    BY <2>3, <2>4
<1>12. CASE Count(t) \/ FrontReturn(t)
  <2>1. pc[t] \in {"count", "front"} /\ pc'[t] = "idle" /\ op'[t] = "none" /\ val'[t] = nullptr
    BY <1>2, <1>12 DEF Count, FrontReturn, Return
  <2>2. PICK x : CallOf(t) = Rec(op[t], TRUE, x) /\ CallOf(t)' = IdleRec
    BY <2>1 DEF CallOf, IdleRec
  <2>. QED
    BY <1>1, <1>4, <2>2, StepIs DEF Simulates
<1>. QED
  BY <1>7, <1>8, <1>9, <1>10, <1>11, <1>12 DEF Quiet

\* Constructing, moving, destroying and publishing a value changes nothing that shows.
LEMMA AccessSimulates ==
  ASSUME NEW e \in Int, NEW d \in Int, NEW p \in Pint, NEW s \in Sint, Ring(e, d, p, s),
         Control, NEW t \in Thread, Write(t) \/ Read(t) \/ Clean(t) \/ Publish(t)
  PROVE  Simulates /\ Items' = Items /\ Size' = Size
<1>. USE DEF sharedVars, locals, Goto
<1>1. PICK s2 \in Sint : Ring(e, d, p, s2)'
  BY AccessRing, PublishRing
<1>2. /\ pc \in [Thread -> Label] /\ op \in [Thread -> {"none", "enq", "deq", "front"}]
      /\ pos \in [Thread -> Pos] /\ val \in [Thread -> Val \cup {nullptr}]
      /\ data \in [Index -> Val \cup {nullptr}] /\ ControlOf(t)
  BY DEF Control, Typed
<1>3. p[t] \in Int /\ Cell(pos[t]) = Cell(p[t]) /\ Cell(p[t]) \in Index
  BY CellIn, CellWrap DEF Pint, Ring, View
<1>4. Filler(t) \/ Drainer(t)
  BY <1>2 DEF Write, Read, Clean, Publish, Filler, Drainer, ControlOf
<1>5. /\ \A u \in Thread \ {t} : pc'[u] = pc[u] /\ val'[u] = val[u]
      /\ op' = op /\ pos' = pos
      /\ \A i \in Index : i # Cell(p[t]) => data'[i] = data[i]
  BY <1>2, <1>3 DEF Write, Read, Clean, Publish
<1>6. \A u \in Thread \ {t} : CallOf(u)' = CallOf(u)
  BY <1>4, <1>5, OtherCalls
<1>7. PICK k \in Int : /\ k = (IF Filler(t) THEN p[t] ELSE p[t] + Capacity)
                       /\ Drainer(t) => e <= k
                       /\ \A j \in Int : d <= j /\ j < d + Capacity /\ j # k => Cell(j) # Cell(p[t])
  BY SMT, <1>4, OwnCell DEF Ring
<1>8. ASSUME NEW n \in Int, d <= n, n < e
      PROVE  ValueAt(Wrap(n))' = ValueAt(Wrap(n))
  <2>a. ShownAt(n, p) /\ ShownAt(n, p)'
    <3>1. Contents(e, d, p) /\ Contents(e, d, p)'
      BY <1>1, ContentsNow, ContentsNext
    <3>. QED
      BY <1>8, <3>1 DEF Contents
  <2>0. n < d + Capacity
    BY SMTT(40), <1>8, Sizes DEF Ring, Cells
  <2>1. CASE Write(t)
    <3>1. pc[t] = "access" /\ op[t] = "enq" /\ pc'[t] = "publish" /\ val' = val /\ data'[Cell(p[t])] = val[t]
      BY <1>2, <1>3, <2>1 DEF Write
    <3>2. Writer(t) /\ ~ Writer(t)' /\ \A u \in Thread \ {t} : Writer(u)' <=> Writer(u)
      BY <1>5, <3>1 DEF Writer, Filler
    <3>3. CASE n = p[t]
      <4>2. ValueAt(Wrap(n)) = val[t]
        BY <2>a, <3>2, <3>3 DEF ShownAt
      <4>3. \A u \in Thread : Writer(u)' => p[u] # n
        BY <3>2, <3>3 DEF Writer, Ring, Cells
      <4>4. ValueAt(Wrap(n))' = data'[Cell(n)]
        BY <2>a, <4>3 DEF ShownAt
      <4>. QED
        BY <3>1, <3>3, <4>2, <4>4
    <3>4. CASE n # p[t]
      <4>1. Filler(t)
        BY <3>2 DEF Writer
      <4>2. Cell(n) # Cell(p[t]) /\ Cell(n) \in Index
        BY <1>7, <1>8, <2>0, <3>4, <4>1, CellIn
      <4>3. data'[Cell(n)] = data[Cell(n)]
        BY <1>5, <4>2
      <4>4. SameAt(n, p, p)
        BY <3>1, <3>2, <3>4, <4>3 DEF SameAt
      <4>. QED
        BY <2>a, <4>4, ValueKept
    <3>. QED
      BY <3>3, <3>4
  <2>2. CASE ~ Write(t)
    <3>1. ~ Writer(t) /\ ~ Writer(t)'
      BY <1>2, <2>2 DEF Writer, Filler, Write, Read, Clean, Publish
    <3>2. \A u \in Thread : /\ Writer(u) /\ p[u] = n <=> Writer(u)' /\ p[u] = n
                            /\ Writer(u) /\ p[u] = n => val'[u] = val[u]
      BY <1>5, <3>1 DEF Writer, Filler
    <3>3. data'[Cell(n)] = data[Cell(n)]
      <4>1. CASE Clean(t)
        <5>1. Drainer(t)
          BY <1>2, <4>1 DEF Clean, Drainer, ControlOf
        <5>2. n # k
          BY SMTT(40), <1>7, <1>8, <5>1
        <5>. QED
          BY <1>5, <1>7, <1>8, <2>0, <5>2, CellIn
      <4>2. CASE Read(t) \/ Publish(t)
        BY <4>2 DEF Read, Publish
      <4>. QED
        BY <2>2, <4>1, <4>2
    <3>. QED
      <4>1. SameAt(n, p, p)
        BY <3>2, <3>3 DEF SameAt
      <4>. QED
        BY <2>a, <4>1, ValueKept
  <2>. QED
    BY <2>1, <2>2
<1>9. Items' = Items /\ Size' = Size
  BY <1>1, <1>8, ItemsKept
<1>10. CallOf(t)' = CallOf(t)
  <2>1. CASE Write(t)
    BY <1>2, <2>1 DEF Write, CallOf
  <2>2. CASE Read(t)
    <3>1. /\ op[t] = "deq" /\ op'[t] = "deq" /\ pc[t] = "access" /\ pc'[t] = "clean" /\ val'[t] = data[Cell(pos[t])]
      BY <1>2, <2>2 DEF Read
    <3>. QED
      BY <3>1 DEF CallOf
  <2>3. CASE Clean(t) \/ Publish(t)
    <3>1. pc[t] \in {"clean", "publish"} /\ pc'[t] \in {"publish", "count"} /\ op' = op /\ val' = val
      BY <1>2, <2>3 DEF Clean, Publish
    <3>. QED
      BY <3>1 DEF CallOf
  <2>. QED
    BY <2>1, <2>2, <2>3
<1>11. \E o, b, v : CallOf(t) = Rec(o, b, v)
  BY DEF CallOf
<1>12. Len(Items') <= Capacity
  BY <1>9, ListedNow DEF Listed
<1>13. Simulates
  BY <1>6, <1>9, <1>10, <1>11, <1>12, StepIs DEF Simulates
<1>. QED
  BY <1>9, <1>13

\* Reserving the cell is the enqueue or the dequeue.
LEMMA ExchangeSimulates ==
  ASSUME NEW e \in Int, NEW d \in Int, NEW p \in Pint, NEW s \in Sint, Ring(e, d, p, s),
         Control, Control', NEW t \in Thread, Exchange(t)
  PROVE  /\ Simulates
         /\ IF op[t] = "enq" THEN Size' = Size + 1 ELSE op[t] = "deq" /\ Size' = Size - 1
<1>. USE DEF Goto
<1>2. /\ pc \in [Thread -> Label] /\ ControlOf(t)
  BY DEF Control, Typed
<1>3. p[t] \in Int /\ pos[t] = Wrap(p[t]) /\ Cell(pos[t]) = Cell(p[t])
  BY CellWrap DEF Pint, Ring, View
<1>4. /\ pc[t] = "exchange" /\ pc'[t] = "access" /\ \A u \in Thread \ {t} : pc'[u] = pc[u]
      /\ op' = op /\ pos' = pos /\ val' = val /\ data' = data
  BY <1>2 DEF Exchange
<1>5. \A u \in Thread \ {t} : CallOf(u)' = CallOf(u)
  BY <1>4, OtherCalls
<1>6. CallOf(t) = Rec(op[t], FALSE, val[t])
  BY <1>4 DEF CallOf
<1>7. Listed(e, d) /\ Contents(e, d, p)
  BY ListedNow, ContentsNow
<1>8. CASE op[t] = "enq"
  <2>0. e + 1 \in Int /\ d <= e /\ e < e + 1
    BY SMTT(40) DEF Ring, Cells
  <2>1. p[t] = e /\ Ring(e + 1, d, p, s)'
    BY SMTT(40), <1>8, ExchangeIs, ReserveFree
  <2>2. Listed(e + 1, d)' /\ Contents(e + 1, d, p)'
    BY <2>0, <2>1, ListedNext, ContentsNext
  <2>3. Writer(t)' /\ \A u \in Thread \ {t} : Writer(u)' <=> Writer(u)
    BY <1>4, <1>8 DEF Writer, Filler
  <2>4. ~ Writer(t)
    BY <1>4 DEF Writer
  <2>5. ASSUME NEW n \in Int, d <= n, n < e
        PROVE  ValueAt(Wrap(n))' = ValueAt(Wrap(n))
    <3>1. n < e + 1 /\ p[t] # n
      BY SMT, <2>1, <2>5
    <3>2. SameAt(n, p, p)
      BY <1>4, <2>3, <2>4, <3>1 DEF SameAt
    <3>. QED
      <4>1. ShownAt(n, p) /\ ShownAt(n, p)'
        BY <1>7, <2>2, <2>5, <3>1 DEF Contents
      <4>. QED
        BY <3>2, <4>1, ValueKept
  <2>6. ValueAt(Wrap(e))' = val[t]
    BY <1>4, <2>0, <2>1, <2>2, <2>3 DEF Contents, ShownAt
  <2>7. /\ Items \in Seq(Any) /\ Len(Items) = e - d /\ Items' \in Seq(Any) /\ Len(Items') = (e + 1) - d
        /\ Len(Items') <= Capacity
        /\ \A k \in 1 .. (e - d) : Items[k] = ValueAt(Wrap(d + (k - 1)))
        /\ \A k \in 1 .. ((e + 1) - d) : Items'[k] = ValueAt(Wrap(d + (k - 1)))'
    BY <1>7, <2>2 DEF Listed
  <2>8. \A k \in 1 .. Len(Items) : Items'[k] = Items[k]
    <3>. SUFFICES ASSUME NEW k \in 1 .. (e - d) PROVE Items'[k] = Items[k]
      BY <2>7
    <3>1. PICK n \in Int : n = d + (k - 1) /\ d <= n /\ n < e /\ k \in 1 .. ((e + 1) - d)
      BY SMT
    <3>. QED
      BY <2>5, <2>7, <3>1
  <2>9. PICK m \in Int : m = Len(Items) + 1 /\ m \in 1 .. ((e + 1) - d) /\ d + (m - 1) = e /\ Len(Items') = Len(Items) + 1
    BY SMT, <2>0, <2>7
  <2>10. Items'[m] = val[t]
    BY <2>6, <2>7, <2>9
  <2>11. val[t] \in Any
    BY <1>2, <1>8 DEF ControlOf, Any
  <2>12. Items' = Append(Items, val[t])
    <3>1. Len(Items') = Len(Items) + 1 /\ Items'[Len(Items) + 1] = val[t]
      BY <2>9, <2>10
    <3>. QED
      BY <2>7, <2>8, <2>11, <3>1, SeqAppend DEF Longer
  <2>13. CallOf(t)' = Rec("enq", TRUE, val[t])
    BY <1>4, <1>8 DEF CallOf
  <2>14. Simulates
    BY <1>5, <1>6, <1>8, <2>7, <2>12, <2>13, StepIs DEF Simulates
  <2>15. Size' = Size + 1
    BY SMT, <1>7, <2>2 DEF Contents
  <2>. QED
    BY <1>8, <2>14, <2>15
<1>9. CASE op[t] # "enq"
  <2>0. d + 1 \in Int /\ d < d + 1
    BY SMT
  <2>1. op[t] = "deq" /\ p[t] = d /\ s[Cell(d)] > d /\ Ring(e, d + 1, p, s)'
    <3>1. op[t] = "deq" /\ p[t] = d /\ s[Cell(d)] > d
      BY <1>9, ExchangeIs
    <3>2. Ring(e, d + 1, p, s)'
      BY <1>9, ReserveHead
    <3>. QED
      BY <3>1, <3>2
  <2>2. Listed(e, d + 1)' /\ Contents(e, d + 1, p)'
    BY <2>0, <2>1, ListedNext, ContentsNext
  <2>3. \A u \in Thread : Writer(u)' <=> Writer(u)
    BY <1>4, <1>9 DEF Writer, Filler
  <2>5. ASSUME NEW n \in Int, d + 1 <= n, n < e
        PROVE  ValueAt(Wrap(n))' = ValueAt(Wrap(n))
    <3>1. d <= n
      BY SMT, <2>5
    <3>2. SameAt(n, p, p)
      BY <1>4, <2>3 DEF SameAt
    <3>. QED
      <4>1. ShownAt(n, p) /\ ShownAt(n, p)'
        BY <1>7, <2>2, <2>5, <3>1 DEF Contents
      <4>. QED
        BY <3>2, <4>1, ValueKept
  <2>6. Items # <<>> /\ Head(Items) = data[Cell(d)]
    BY <2>1, HeadIs
  <2>7. /\ Items \in Seq(Any) /\ Len(Items) = e - d /\ Items' \in Seq(Any) /\ Len(Items') = e - (d + 1)
        /\ Len(Items') <= Capacity /\ Len(Items') \in Nat
        /\ \A k \in 1 .. (e - d) : Items[k] = ValueAt(Wrap(d + (k - 1)))
        /\ \A k \in 1 .. (e - (d + 1)) : Items'[k] = ValueAt(Wrap((d + 1) + (k - 1)))'
    BY <1>7, <2>2 DEF Listed
  <2>8. \A k \in 1 .. Len(Items') : Items'[k] = Items[k + 1]
    <3>. SUFFICES ASSUME NEW k \in 1 .. (e - (d + 1)) PROVE Items'[k] = Items[k + 1]
      BY <2>7
    <3>1. PICK n \in Int : n = (d + 1) + (k - 1) /\ d + 1 <= n /\ n < e
      BY SMT
    <3>2. PICK m \in 1 .. (e - d) : m = k + 1 /\ n = d + (m - 1)
      BY SMTT(40), <3>1
    <3>. QED
      BY <2>5, <2>7, <3>1, <3>2
  <2>9. Len(Items) = Len(Items') + 1
    BY SMT, <2>7
  <2>10. Items' = Tail(Items)
    BY <2>7, <2>8, <2>9, SeqTail
  <2>11. CallOf(t)' = Rec("deq", TRUE, Head(Items))
    BY <1>3, <1>4, <2>1, <2>6 DEF CallOf
  <2>12. Simulates
    <3>1. Len(Items') <= Capacity /\ CallOf(t) = Rec("deq", FALSE, val[t])
      BY <1>6, <2>1, <2>7
    <3>. QED
      BY <1>5, <2>6, <2>10, <2>11, <3>1, StepIs DEF Simulates
  <2>13. Size' = Size - 1
    BY SMT, <1>7, <2>2 DEF Contents
  <2>. QED
    BY <1>9, <2>1, <2>12, <2>13
<1>. QED
  BY <1>8, <1>9

\* Every step is a step of the bounded queue, or none.
LEMMA StepSimulates ==
  Inv /\ Inv' /\ [Next]_vars => [BQ!BoundedNext]_<<Items, call>>
<1>. SUFFICES ASSUME Inv, Inv', [Next]_vars PROVE Simulates
  BY DEF Simulates
<1>1. Control /\ Control'
  BY DEF Inv
<1>2. PICK e, d \in Int, p \in Pint, s \in Sint : Ring(e, d, p, s)
  BY ZenonT(60) DEF Inv
<1>3. CASE UNCHANGED vars
  BY SMTT(40), <1>3 DEF Simulates, Items, Size, ValueAt, call, vars, sharedVars, locals
<1>4. ASSUME NEW t \in Thread, Step(t) PROVE Simulates
  <2>1. CASE Quiet(t)
    BY <1>1, <1>2, <2>1, QuietSimulates
  <2>2. CASE Write(t) \/ Read(t) \/ Clean(t) \/ Publish(t)
    BY <1>1, <1>2, <2>2, AccessSimulates
  <2>3. CASE Exchange(t)
    BY <1>1, <1>2, <2>3, ExchangeSimulates
  <2>. QED
    BY <1>4, <2>1, <2>2, <2>3 DEF Step, Quiet
<1>. QED
  BY <1>3, <1>4 DEF Next

\* Every enqueue, dequeue and front() takes effect at one instant between its call and
\* its return, for any number of producers and consumers, any capacity and any width
\* of the counters that Window leaves room for: an enqueue and a dequeue when their
\* compare_exchange reserves the cell, front() when it reads the sequence number, and
\* a call that reports full or empty when it compares the positions.
THEOREM QueueLinearizable == Spec => ImplementsQueue
<1>1. Init => BQ!Init
  <2>. SUFFICES ASSUME Init PROVE BQ!Init
    OBVIOUS
  <2>1. Control /\ \E e, d \in Int, p \in Pint, s \in Sint : Ring(e, d, p, s)
    BY ControlInit, RingInit
  <2>2. PICK e, d \in Int, p \in Pint, s \in Sint : Ring(e, d, p, s)
    BY <2>1
  <2>3. Listed(e, d) /\ Contents(e, d, p)
    BY <2>1, <2>2, ListedNow, ContentsNow
  <2>4. Size = 0
    <3>1. Size = Add(0, PosModulus - 0)
      BY DEF Init, Size
    <3>2. Wrap(0) = 0
      BY SMTT(40), WrapSmall, Sizes
    <3>3. Add(Wrap(0), PosModulus - Wrap(0)) = Wrap(0 - 0)
      BY SMT, WrapSub
    <3>4. Wrap(0 - 0) = Wrap(0)
      BY SMT
    <3>. QED
      BY <3>1, <3>2, <3>3, <3>4
  <2>5. Items = <<>>
    BY <2>3, <2>4, SeqNone DEF Listed, Contents
  <2>6. \A t \in Thread : CallOf(t) = BQ!Idle
    BY IdleIs DEF Init, CallOf, IdleRec
  <2>7. call = [t \in Thread |-> BQ!Idle]
    <3>. HIDE DEF CallOf
    <3>. QED
      BY <2>6, CallIs
  <2>. QED
    BY <2>5, <2>7 DEF BQ!Init
<1>. QED
  BY <1>1, StepSimulates, InvAlways, PTL DEF Spec, ImplementsQueue, BQ!BoundedSpec

\* The address front() returned stays the address of the head, with its value constructed
\* and nobody at work in the cell, until the one consumer pops it.
THEOREM FrontStays == Spec => []FrontStable
<1>1. Inv => FrontStable
  <2>. SUFFICES ASSUME Inv, NEW t \in Thread, front[t] # -1
                PROVE  /\ front[t] = Cell(m_posDequeue)
                       /\ data[front[t]] # nullptr
                       /\ ~ \E u \in Thread : Owns(u, front[t])
    BY DEF FrontStable
  <2>1. PICK e, d \in Int, p \in Pint, s \in Sint : Ring(e, d, p, s)
    BY DEF Inv
  <2>2. front[t] = Cell(d) /\ Ready(e, d, s) /\ Cells(e, d, p, s)
    BY <2>1 DEF Ring, Threads, FrontAt
  <2>3. Cell(m_posDequeue) = Cell(d)
    BY <2>1, CellWrap DEF Ring, View
  <2>4. s[Cell(d)] > d
    BY SMT, <2>2 DEF Ready
  <2>5. data[Cell(d)] \in Val /\ \A u \in Thread : Filler(u) => p[u] # d
    BY <2>1, <2>2, <2>4, HeadReady
  <2>6. ASSUME NEW u \in Thread, Owns(u, front[t]) PROVE FALSE
    <3>1. Filler(u) \/ Drainer(u)
      BY <2>6 DEF Inv, Control, ControlOf, Owns, Filler, Drainer
    <3>2. Cell(p[u]) = Cell(d)
      BY <2>1, <2>2, <2>6, CellWrap DEF Ring, View, Pint, Owns
    <3>. QED
      BY <2>1, <2>2, <3>1, <3>2, ReadyApart
  <2>. QED
    BY <2>2, <2>3, <2>5, <2>6, ConstantsAssumption
<1>. QED
  BY <1>1, InvAlways, PTL

-----------------------------------------------------------------------------
(* The item counter *)

\* Threads that have reserved a cell and have not counted.
Adding == {t \in Thread : op[t] = "enq" /\ pc[t] \in {"access", "publish", "count"}}
Taking == {t \in Thread : op[t] = "deq" /\ pc[t] \in {"access", "clean", "publish", "count"}}

\* The counter, and what it has not seen, account for the items.
Balance == \E c \in Int : m_ItemCounter = Wrap(c) /\ c + Cardinality(Adding) = Size + Cardinality(Taking)

\* What a step does to the account.
LEMMA CountStep ==
  ASSUME Inv, Inv', NEW t \in Thread, Step(t)
  PROVE  /\ Size \in Nat
         /\ \/ Size' = Size /\ Adding' = Adding /\ Taking' = Taking /\ m_ItemCounter' = m_ItemCounter
            \/ /\ Size' = Size + 1 /\ t \notin Adding /\ Adding' = Adding \cup {t} /\ Taking' = Taking
               /\ m_ItemCounter' = m_ItemCounter
            \/ /\ Size' = Size - 1 /\ t \notin Taking /\ Taking' = Taking \cup {t} /\ Adding' = Adding
               /\ m_ItemCounter' = m_ItemCounter
            \/ /\ Size' = Size /\ t \in Adding /\ Adding' = Adding \ {t} /\ Taking' = Taking
               /\ m_ItemCounter' = Add(m_ItemCounter, 1)
            \/ /\ Size' = Size /\ t \in Taking /\ Taking' = Taking \ {t} /\ Adding' = Adding
               /\ m_ItemCounter' = Add(m_ItemCounter, PosModulus - 1)
<1>. USE DEF sharedVars, locals, Goto
<1>1. Control /\ Control' /\ ControlOf(t)
  BY DEF Inv, Control
<1>2. PICK e, d \in Int, p \in Pint, s \in Sint : Ring(e, d, p, s)
  BY DEF Inv
<1>3. /\ pc \in [Thread -> Label] /\ op \in [Thread -> {"none", "enq", "deq", "front"}]
  BY <1>1 DEF Control, Typed
<1>4. Size \in Nat
  BY <1>2, SizeIs
<1>5. CASE Write(t) \/ Read(t) \/ Clean(t) \/ Publish(t)
  <2>1. Size' = Size
    BY <1>1, <1>2, <1>5, AccessSimulates
  <2>2. /\ pc[t] \in {"access", "clean", "publish"} /\ pc'[t] \in {"clean", "publish", "count"}
        /\ \A u \in Thread \ {t} : pc'[u] = pc[u]
        /\ op' = op /\ m_ItemCounter' = m_ItemCounter
        /\ (pc[t] = "clean" \/ pc'[t] = "clean") => op[t] = "deq"
    BY <1>1, <1>3, <1>5 DEF Write, Read, Clean, Publish, ControlOf
  <2>3. Adding' = Adding /\ Taking' = Taking
    BY <2>2 DEF Adding, Taking
  <2>. QED
    BY <1>4, <2>1, <2>2, <2>3
<1>6. CASE Exchange(t)
  <2>1. pc[t] = "exchange" /\ pc' = [pc EXCEPT ![t] = "access"] /\ op' = op /\ m_ItemCounter' = m_ItemCounter
    BY <1>6 DEF Exchange
  <2>2. CASE op[t] = "enq"
    <3>1. Size' = Size + 1
      BY <1>1, <1>2, <1>6, <2>2, ExchangeSimulates
    <3>2. t \notin Adding /\ Adding' = Adding \cup {t} /\ Taking' = Taking
      BY <1>3, <2>1, <2>2 DEF Adding, Taking
    <3>. QED
      BY <1>4, <2>1, <3>1, <3>2
  <2>3. CASE op[t] # "enq"
    <3>1. op[t] = "deq" /\ Size' = Size - 1
      BY <1>1, <1>2, <1>6, <2>3, ExchangeSimulates
    <3>2. t \notin Taking /\ Taking' = Taking \cup {t} /\ Adding' = Adding
      BY <1>3, <2>1, <3>1 DEF Adding, Taking
    <3>. QED
      BY <1>4, <2>1, <3>1, <3>2
  <2>. QED
    BY <2>2, <2>3
<1>7. CASE Count(t)
  <2>1. Size' = Size
    BY <1>1, <1>2, <1>7, QuietItems DEF Quiet
  <2>2. /\ pc[t] = "count" /\ op[t] \in {"enq", "deq"}
        /\ pc' = [pc EXCEPT ![t] = "idle"] /\ op' = [op EXCEPT ![t] = "none"]
        /\ m_ItemCounter' = Add(m_ItemCounter, IF op[t] = "enq" THEN 1 ELSE PosModulus - 1)
    BY <1>1, <1>7 DEF Count, Return, ControlOf
  <2>3. CASE op[t] = "enq"
    <3>1. t \in Adding /\ Adding' = Adding \ {t} /\ Taking' = Taking
      BY <1>3, <2>2, <2>3 DEF Adding, Taking
    <3>. QED
      BY <1>4, <2>1, <2>2, <2>3, <3>1
  <2>4. CASE op[t] = "deq"
    <3>1. t \in Taking /\ Taking' = Taking \ {t} /\ Adding' = Adding
      BY <1>3, <2>2, <2>4 DEF Adding, Taking
    <3>. QED
      BY <1>4, <2>1, <2>2, <2>4, <3>1
  <2>. QED
    BY <2>2, <2>3, <2>4
<1>8. CASE Quiet(t) /\ ~ Count(t)
  <2>1. Size' = Size
    BY <1>1, <1>2, <1>8, QuietItems
  <2>2. /\ pc[t] \notin {"access", "clean", "publish", "count"} /\ pc'[t] \notin {"access", "clean", "publish", "count"}
        /\ \A u \in Thread \ {t} : pc'[u] = pc[u] /\ op'[u] = op[u]
        /\ m_ItemCounter' = m_ItemCounter
    <3>1. CASE (\E v \in Val : EnqStart(t, v)) \/ DeqStart(t) \/ FrontStart(t)
      BY <1>3, <3>1 DEF EnqStart, DeqStart, FrontStart
    <3>2. CASE Load(t) \/ LoadSequence(t) \/ ExchangeFail(t) \/ BoundRetry(t)
      BY <1>3, <3>2 DEF Load, LoadSequence, ExchangeFail, BoundRetry
    <3>3. CASE Bound(t) \/ FrontReturn(t)
      BY <1>3, <3>3 DEF Bound, FrontReturn, Return
    <3>. QED
      BY <1>8, <3>1, <3>2, <3>3 DEF Quiet
  <2>3. Adding' = Adding /\ Taking' = Taking
    BY <2>2 DEF Adding, Taking
  <2>. QED
    BY <1>4, <2>1, <2>2, <2>3
<1>. QED
  BY <1>5, <1>6, <1>7, <1>8 DEF Step, Quiet

\* Adding -1 as an unsigned number.
LEMMA WrapDown ==
  ASSUME NEW c \in Int
  PROVE  Add(Wrap(c), PosModulus - 1) = Wrap(c - 1)
<1>1. PICK m \in Nat : m = PosModulus /\ m > 0
  BY SMT, Sizes
<1>2. m - 1 \in Int /\ c - 1 \in Int /\ 1 \in Int /\ c + (m - 1) = (c - 1) + 1 * m
  BY SMT, <1>1
<1>3. ((c - 1) + 1 * m) % m = (c - 1) % m
  BY <1>1, <1>2, ModPlus
<1>4. Add(Wrap(c), PosModulus - 1) = Wrap(c + (m - 1))
  BY ZenonT(60), <1>1, <1>2, WrapAdd
<1>. QED
  BY <1>1, <1>2, <1>3, <1>4 DEF Wrap

-----------------------------------------------------------------------------
(* What takes the cardinality of sets *)

INSTANCE FiniteSetTheorems

\* The value of a cell is accessed by one thread at a time, constructed only where none is
\* and moved out only where one is: the sequence numbers and the exchange of the position
\* together make the reservation exclusive, although both wrap.
THEOREM CellsExclusive == Spec => []CellExclusive
<1>1. Inv => CellExclusive
  <2>. SUFFICES ASSUME Inv PROVE CellExclusive
    OBVIOUS
  <2>1. PICK e, d \in Int, p \in Pint, s \in Sint : Ring(e, d, p, s)
    BY DEF Inv
  <2>2. Cells(e, d, p, s) /\ \A t \in Thread : p[t] \in Int /\ Cell(pos[t]) = Cell(p[t])
    BY <2>1, CellWrap DEF Ring, View, Pint
  <2>3. \A t \in Thread : pc[t] \in {"access", "clean", "publish"} => Filler(t) \/ Drainer(t)
    BY DEF Inv, Control, ControlOf, Filler, Drainer
  <2>4. ASSUME NEW i \in Index PROVE Cardinality({t \in Thread : Owns(t, i)}) <= 1
    <3>. DEFINE O == {t \in Thread : Owns(t, i)}
    <3>1. \A t, u \in O : t = u
      <4>. SUFFICES ASSUME NEW t \in O, NEW u \in O, t # u PROVE FALSE
        OBVIOUS
      <4>1. t \in Thread /\ u \in Thread /\ Owns(t, i) /\ Owns(u, i)
        OBVIOUS
      <4>2. (Filler(t) \/ Drainer(t)) /\ Cell(p[t]) = i
        BY <2>2, <2>3, <4>1 DEF Owns
      <4>3. (Filler(u) \/ Drainer(u)) /\ Cell(p[u]) = i
        BY <2>2, <2>3, <4>1 DEF Owns
      <4>4. Cell(p[t]) # Cell(p[u])
        BY ZenonT(60), <2>1, <2>2, <4>1, <4>2, <4>3, OwnersApart
      <4>. QED
        BY <4>2, <4>3, <4>4
    <3>2. CASE O = {}
      <4>1. Cardinality(O) = 0
        BY <3>2, FS_EmptySet
      <4>. QED
        BY SMTT(40), <4>1
    <3>3. CASE O # {}
      <4>1. PICK t : O = {t}
        BY <3>1, <3>3
      <4>2. Cardinality(O) = 1
        BY <4>1, FS_Singleton
      <4>. QED
        BY SMTT(40), <4>2
    <3>. QED
      BY ZenonT(60), <3>2, <3>3
  <2>5. ASSUME NEW t \in Thread, pc[t] = "access"
        PROVE  (data[Cell(pos[t])] = nullptr) = (op[t] = "enq")
    <3>1. CASE Filler(t)
      BY ZenonT(60), <2>2, <2>5, <3>1 DEF Cells, FillerAt, Filler
    <3>2. CASE Drainer(t)
      <4>1. data[Cell(p[t])] \in Val
        BY <2>2, <2>5, <3>2 DEF Cells, DrainerAt
      <4>. QED
        BY ZenonT(60), <2>2, <3>2, <4>1, ConstantsAssumption DEF Drainer
    <3>. QED
      BY ZenonT(60), <2>3, <2>5, <3>1, <3>2
  <2>. QED
    BY <2>4, <2>5 DEF CellExclusive
<1>. QED
  BY <1>1, InvAlways, PTL

\* The sets of threads that have not counted are finite.
LEMMA Uncounting ==
  /\ IsFiniteSet(Adding) /\ Cardinality(Adding) \in Nat
  /\ IsFiniteSet(Taking) /\ Cardinality(Taking) \in Nat
<1>1. Adding \subseteq Thread /\ Taking \subseteq Thread
  BY DEF Adding, Taking
<1>2. IsFiniteSet(Adding) /\ IsFiniteSet(Taking)
  BY <1>1, FS_Subset, ConstantsAssumption
<1>. QED
  BY <1>2, FS_CardinalityType

\* What a step does to the balance.
LEMMA BalanceStep ==
  ASSUME Inv, Inv', Balance, NEW t \in Thread, Step(t)
  PROVE  Balance'
<1>1. PICK c \in Int : m_ItemCounter = Wrap(c) /\ c + Cardinality(Adding) = Size + Cardinality(Taking)
  BY DEF Balance
<1>2. PICK A \in Nat : A = Cardinality(Adding) /\ IsFiniteSet(Adding)
  BY Uncounting
<1>3. PICK T \in Nat : T = Cardinality(Taking) /\ IsFiniteSet(Taking)
  BY Uncounting
<1>4. PICK n \in Nat : n = Size /\ c + A = n + T
  BY ZenonT(60), <1>1, <1>2, <1>3, CountStep
<1>5. CASE Size' = Size /\ Adding' = Adding /\ Taking' = Taking /\ m_ItemCounter' = m_ItemCounter
  BY <1>1, <1>5 DEF Balance
<1>6. CASE /\ Size' = Size + 1 /\ t \notin Adding /\ Adding' = Adding \cup {t} /\ Taking' = Taking
           /\ m_ItemCounter' = m_ItemCounter
  <2>1. Cardinality(Adding') = A + 1
    BY ZenonT(60), <1>2, <1>6, FS_AddElement
  <2>2. c + (A + 1) = (n + 1) + T
    BY SMTT(40), <1>4
  <2>. QED
    BY ZenonT(60), <1>1, <1>3, <1>4, <1>6, <2>1, <2>2 DEF Balance
<1>7. CASE /\ Size' = Size - 1 /\ t \notin Taking /\ Taking' = Taking \cup {t} /\ Adding' = Adding
           /\ m_ItemCounter' = m_ItemCounter
  <2>1. Cardinality(Taking') = T + 1
    BY ZenonT(60), <1>3, <1>7, FS_AddElement
  <2>2. c + A = (n - 1) + (T + 1)
    BY SMTT(40), <1>4
  <2>. QED
    BY ZenonT(60), <1>1, <1>2, <1>4, <1>7, <2>1, <2>2 DEF Balance
<1>8. CASE /\ Size' = Size /\ t \in Adding /\ Adding' = Adding \ {t} /\ Taking' = Taking
           /\ m_ItemCounter' = Add(m_ItemCounter, 1)
  <2>1. Cardinality(Adding') = A - 1
    BY ZenonT(60), <1>2, <1>8, FS_RemoveElement
  <2>2. c + 1 \in Int /\ 1 \in Int /\ (c + 1) + (A - 1) = n + T
    BY SMTT(40), <1>4
  <2>3. m_ItemCounter' = Wrap(c + 1)
    BY ZenonT(60), <1>1, <1>8, <2>2, WrapAdd
  <2>. QED
    BY ZenonT(60), <1>3, <1>4, <1>8, <2>1, <2>2, <2>3 DEF Balance
<1>9. CASE /\ Size' = Size /\ t \in Taking /\ Taking' = Taking \ {t} /\ Adding' = Adding
           /\ m_ItemCounter' = Add(m_ItemCounter, PosModulus - 1)
  <2>1. Cardinality(Taking') = T - 1
    BY <1>3, <1>9, FS_RemoveElement
  <2>2. c - 1 \in Int /\ (c - 1) + A = n + (T - 1)
    BY SMTT(40), <1>4
  <2>3. m_ItemCounter' = Wrap(c - 1)
    BY <1>1, <1>9, WrapDown
  <2>. QED
    BY ZenonT(60), <1>2, <1>4, <1>9, <2>1, <2>2, <2>3 DEF Balance
<1>. QED
  BY ZenonT(60), <1>5, <1>6, <1>7, <1>8, <1>9, CountStep

\* size(): when no operation is in progress the item counter is the number of items, for
\* any number of threads, although every operation counts after it has published the cell
\* and the unsigned counter passes through "negative" values when a dequeue counts first.
THEOREM CounterRight == Spec => []CounterExact
<1>1. Init => Balance
  <2>. SUFFICES ASSUME Init PROVE Balance
    OBVIOUS
  <2>1. Adding = {} /\ Taking = {}
    BY DEF Init, Adding, Taking
  <2>2. Cardinality(Adding) = 0 /\ Cardinality(Taking) = 0
    BY <2>1, FS_EmptySet
  <2>3. Wrap(0) = 0 /\ 0 \in Int
    BY SMTT(40), WrapSmall, Sizes
  <2>4. Size = 0
    <3>1. Size = Add(0, PosModulus - 0)
      BY DEF Init, Size
    <3>2. Add(Wrap(0), PosModulus - Wrap(0)) = Wrap(0 - 0)
      BY SMTT(40), WrapSub
    <3>3. Wrap(0 - 0) = Wrap(0)
      BY SMTT(40)
    <3>. QED
      BY ZenonT(60), <2>3, <3>1, <3>2, <3>3
  <2>. QED
    BY <2>2, <2>3, <2>4 DEF Init, Balance
<1>2. Inv /\ Inv' /\ Balance /\ [Next]_vars => Balance'
  <2>. SUFFICES ASSUME Inv, Inv', Balance, [Next]_vars PROVE Balance'
    OBVIOUS
  <2>1. CASE UNCHANGED vars
    <3>1. m_ItemCounter' = m_ItemCounter /\ Size' = Size /\ Adding' = Adding /\ Taking' = Taking
      BY <2>1 DEF vars, sharedVars, locals, Size, Adding, Taking
    <3>. QED
      BY <3>1 DEF Balance
  <2>. QED
    BY <2>1, BalanceStep DEF Next
<1>3. Inv /\ Balance => CounterExact
  <2>. SUFFICES ASSUME Inv, Balance, \A t \in Thread : pc[t] = "idle" PROVE m_ItemCounter = Size
    BY DEF CounterExact
  <2>1. Adding = {} /\ Taking = {}
    BY DEF Adding, Taking
  <2>2. Cardinality(Adding) = 0 /\ Cardinality(Taking) = 0
    BY <2>1, FS_EmptySet
  <2>3. PICK c \in Int : m_ItemCounter = Wrap(c) /\ c + 0 = Size + 0
    BY <2>2 DEF Balance
  <2>4. Size \in Nat /\ Size <= Capacity
    BY SizeIs DEF Inv
  <2>5. c = Size
    BY SMTT(40), <2>3, <2>4
  <2>6. Wrap(c) = c
    BY SMTT(40), <2>4, <2>5, WrapSmall, Sizes
  <2>. QED
    BY <2>3, <2>5, <2>6
<1>. QED
  BY <1>1, <1>2, <1>3, InvAlways, PTL DEF Spec
=============================================================================
