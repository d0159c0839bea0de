-------------------------- MODULE TreiberStackSafety --------------------------
(***************************************************************************)
(* The theorems about TreiberStack: its nodes are safe and none is lost or *)
(* doubled, every push, pop and clear is linearizable, and the item        *)
(* counter is right when nobody is inside.  Inv is the inductive invariant *)
(* they follow from.                                                       *)
(***************************************************************************)
EXTENDS TreiberStack, TLAPS

\* The provers to try, in this order.
USE Zenon, SMT

-----------------------------------------------------------------------------
(* Numbers *)

\* The first number of a range.
LEMMA FirstNumber == \A n \in Nat : 0 \in 0 .. n
  BY SMT

\* The next one.
LEMMA NextNumber ==
  \A m, n \in Nat : n < m => n + 1 \in 0 .. m /\ n + 1 # 0 /\ (n + 1) - 1 = n
  BY SMT

\* The number before.
LEMMA NumberBefore ==
  ASSUME NEW m \in Nat, NEW n \in Nat, m # 0, m <= n
  PROVE  m - 1 \in Nat /\ m - 1 < n /\ (m - 1) + 1 = m /\ ~(m <= m - 1)
  BY SMT

\* The sums of the numbers of places of a node.
LEMMA Sums == 0 + 0 = 0 /\ 0 + 1 = 1 /\ 1 + 0 = 1
  BY SMT

\* A number in a range, and one that is not greater than the next.
LEMMA InRange ==
  ASSUME NEW m \in Nat, NEW n \in Nat
  PROVE  (m <= n => m \in 0 .. n) /\ (m + 1 <= n + 1 => m <= n)
  BY SMT

LEMMA RangeIs ==
  ASSUME NEW n \in Nat, NEW m \in 0 .. n
  PROVE  m \in Nat /\ m <= n
  BY SMT

-----------------------------------------------------------------------------
(* The item counter: numbers modulo its size *)

\* a and b are the same unsigned number.
Cong(a, b) == \E q \in Int : a = b + q * CounterModulus

\* What % does to a number.
LEMMA ModIs ==
  ASSUME NEW a \in Int
  PROVE  a % CounterModulus \in 0 .. CounterModulus - 1 /\ Cong(a % CounterModulus, a)
<1>1. PICK M \in Int : M = CounterModulus /\ M > 0
  BY SMT, ConstantsAssumption
<1>2. a % M \in 0 .. M - 1 /\ -(a \div M) \in Int
  BY SMT, <1>1
<1>3. a % M = a + (-(a \div M)) * M
  BY SMT, <1>1
<1>. QED
  BY <1>1, <1>2, <1>3 DEF Cong

\* Of the numbers in that range a number is congruent to itself only.
LEMMA CongOne ==
  ASSUME NEW a \in 0 .. CounterModulus - 1, NEW b \in 0 .. CounterModulus - 1, Cong(a, b)
  PROVE  a = b
<1>1. PICK M \in Int : M = CounterModulus /\ M > 0
  BY SMT, ConstantsAssumption
<1>2. PICK q \in Int : a = b + q * M
  BY <1>1 DEF Cong
<1>3. a - b < M /\ b - a < M /\ a \in Int /\ b \in Int
  BY SMT, <1>1
<1>4. q >= 1 => q * M >= M
  BY SMT, <1>1
<1>5. q <= -1 => q * M <= -M
  BY SMT, <1>1
<1>6. PICK k \in Int : k = q * M
  BY SMT, <1>1
<1>7. q = 0
  BY SMT, <1>1, <1>2, <1>3, <1>4, <1>5, <1>6
<1>. QED
  BY SMT, <1>1, <1>2, <1>3, <1>7

\* Equal numbers added on both sides, on one side of two congruences, or a whole turn.
LEMMA CongSum ==
  ASSUME NEW a \in Int, NEW b \in Int, NEW c \in Int, NEW d \in Int, NEW x \in Int,
         Cong(a + x, b), Cong(c, a + d)
  PROVE  Cong(c + x, b + d) /\ Cong(c + x, b + d - CounterModulus)
<1>1. PICK M \in Int : M = CounterModulus
  BY SMT, ConstantsAssumption
<1>2. PICK q \in Int : a + x = b + q * M
  BY <1>1 DEF Cong
<1>3. PICK r \in Int : c = a + d + r * M
  BY <1>1 DEF Cong
<1>4. PICK k \in Int : k = q * M
  BY SMT, <1>1
<1>5. PICK l \in Int : l = r * M
  BY SMT, <1>1
<1>6. c + x = b + d + (k + l) /\ c + x = b + d - M + (k + l + M)
  BY SMT, <1>1, <1>2, <1>3, <1>4, <1>5
<1>7. k + l = (q + r) * M /\ q + r \in Int /\ k + l + M = (q + r + 1) * M /\ q + r + 1 \in Int
  BY SMT, <1>1, <1>4, <1>5
<1>. QED
  BY <1>1, <1>6, <1>7 DEF Cong

\* The counter c, the a items that are in and not counted and the t items that are out and
\* still counted account for l items.
Accounts(c, a, l, t) == c \in 0 .. CounterModulus - 1 /\ Cong(c + a, l + t)

\* An empty container, with nobody inside, is accounted for.
LEMMA AccountsNone == Accounts(0, 0, 0, 0)
<1>1. 0 + 0 = 0 + 0 + 0 * CounterModulus /\ 0 \in Int /\ 0 \in 0 .. CounterModulus - 1
  BY SMT, ConstantsAssumption
<1>. QED
  BY <1>1 DEF Accounts, Cong

\* When nobody is inside the counter is the number of items.
LEMMA AccountsAll ==
  ASSUME NEW c, NEW l \in 0 .. CounterModulus - 1, Accounts(c, 0, l, 0)
  PROVE  c = l
<1>1. c \in 0 .. CounterModulus - 1 /\ Cong(c + 0, l + 0)
  BY DEF Accounts
<1>2. c + 0 = c /\ l + 0 = l
  BY SMT, <1>1, ConstantsAssumption
<1>. QED
  BY <1>1, <1>2, CongOne

\* An item goes in, or out.
LEMMA AccountsMove ==
  ASSUME NEW c, NEW a \in Nat, NEW l \in Nat, NEW t \in Nat, Accounts(c, a, l, t)
  PROVE  Accounts(c, a + 1, l + 1, t) /\ Accounts(c, a, l - 1, t + 1)
<1>1. c \in 0 .. CounterModulus - 1 /\ Cong(c + a, l + t)
  BY DEF Accounts
<1>2. PICK M \in Int : M = CounterModulus
  BY SMT, ConstantsAssumption
<1>3. PICK q \in Int : c + a = l + t + q * M
  BY <1>1, <1>2 DEF Cong
<1>4. PICK k \in Int : k = q * M
  BY SMT, <1>2
<1>5. c + (a + 1) = l + 1 + t + k /\ l - 1 + (t + 1) = l + t
  BY SMT, <1>1, <1>2, <1>3, <1>4
<1>6. Cong(c + (a + 1), l + 1 + t) /\ Cong(c + a, l - 1 + (t + 1))
  BY <1>1, <1>2, <1>4, <1>5 DEF Cong
<1>. QED
  BY <1>1, <1>6 DEF Accounts

\* The counter is incremented, or decremented, with the wrap-around of unsigned numbers.
LEMMA AccountsCount ==
  ASSUME NEW c, NEW a \in Nat, NEW l \in Nat, NEW t \in Nat, Accounts(c, a, l, t)
  PROVE  /\ Accounts((c + 1) % CounterModulus, a - 1, l, t)
         /\ Accounts((c + CounterModulus - 1) % CounterModulus, a, l, t - 1)
<1>1. c \in 0 .. CounterModulus - 1 /\ Cong(c + a, l + t)
  BY DEF Accounts
<1>2. PICK M \in Int : M = CounterModulus
  BY SMT, ConstantsAssumption
<1>3. /\ c \in Int /\ c + 1 \in Int /\ c + (M - 1) \in Int /\ c + (M - 1) = c + M - 1
      /\ a \in Int /\ a - 1 \in Int /\ l + t \in Int /\ 1 \in Int /\ M - 1 \in Int
  BY SMT, <1>1, <1>2
<1>4. PICK d : d = (c + 1) % M
  OBVIOUS
<1>5. d \in 0 .. M - 1 /\ Cong(d, c + 1)
  BY <1>2, <1>3, <1>4, ModIs
<1>6. PICK e : e = (c + M - 1) % M
  OBVIOUS
<1>7. e \in 0 .. M - 1 /\ Cong(e, c + (M - 1))
  BY <1>2, <1>3, <1>6, ModIs
<1>8. d \in Int /\ e \in Int
  BY SMT, <1>2, <1>5, <1>7
<1>9. Cong(d + a, l + t + 1)
  BY <1>1, <1>3, <1>5, <1>8, CongSum
<1>10. Cong(e + a, l + t + (M - 1) - M)
  <2>1. PICK b \in Int : b = l + t
    BY <1>3
  <2>2. PICK m \in Int : m = M - 1
    BY <1>3
  <2>3. Cong(c + a, b) /\ Cong(e, c + m)
    BY <1>1, <1>7, <2>1, <2>2
  <2>4. Cong(e + a, b + m - CounterModulus)
    BY <1>3, <1>8, <2>3, CongSum
  <2>. QED
    BY <1>2, <2>1, <2>2, <2>4
<1>11. l + t + (M - 1) - M = l + (t - 1)
  BY SMT, <1>2
<1>12. Cong(d + (a - 1), l + t)
  <2>1. PICK q \in Int : d + a = l + t + 1 + q * M
    BY <1>2, <1>9 DEF Cong
  <2>2. PICK k \in Int : k = q * M
    BY SMT, <1>2
  <2>3. d + (a - 1) = l + t + k
    BY SMT, <1>8, <2>1, <2>2
  <2>. QED
    BY <1>2, <2>2, <2>3 DEF Cong
<1>. QED
  BY <1>2, <1>4, <1>5, <1>6, <1>7, <1>10, <1>11, <1>12 DEF Accounts

-----------------------------------------------------------------------------
(* What the threads are doing *)

\* The values of pc.
Labels == {"idle", "push", "pushed", "eliminated", "protect", "next", "cas", "unlink", "popped", "return",
           "retire", "backoff", "wait", "load", "clear", "reset", "drain"}

\* The type of every variable the proofs speak of.
Typed ==
  /\ users \in SUBSET Thread
  /\ m_Top \in Ptr /\ next \in [Obj -> Ptr]
  /\ pRec \in [Slots -> Thread \cup {nullptr}]
  /\ nStatus \in [Thread -> {"free", "waiting", "collided"}]
  /\ pc \in [Thread -> Labels]
  /\ op \in [Thread -> {"none", "push", "pop", "clear"}]
  /\ val \in [Thread -> Ptr] /\ cur \in [Thread -> Ptr] /\ nxt \in [Thread -> Ptr]
  /\ my \in [Thread -> Slots \cup {nullptr}]
  /\ status \in [Obj -> {"free", "linked", "retired"}]
  /\ protects \in [Thread -> Ptr]

\* A node that a push has not linked yet, or given to a pop.
Fresh(t) ==
  op[t] = "push" /\ \/ pc[t] \in {"push", "backoff"}
                    \/ pc[t] = "wait" /\ nStatus[t] # "collided"

\* A pop that has not got a node.
Wants(t) ==
  op[t] = "pop" /\ \/ pc[t] \in {"protect", "next", "cas", "backoff"}
                   \/ pc[t] = "wait" /\ nStatus[t] # "collided"

\* The place in the program tells the operation, and what the locals hold.
Doing(t) ==
  /\ pc[t] \in {"push", "pushed", "eliminated"} => op[t] = "push"
  /\ pc[t] \in {"protect", "next", "cas", "unlink", "popped", "return", "retire"} => op[t] = "pop"
  /\ pc[t] \in {"backoff", "wait"} => op[t] \in {"push", "pop"}
  /\ pc[t] \in {"load", "clear", "reset", "drain"} => op[t] = "clear"
  /\ op[t] = "push" => val[t] \in Obj
  /\ Wants(t) => val[t] = nullptr
  /\ pc[t] \in {"next", "cas", "unlink", "popped"} => cur[t] \in Obj /\ protects[t] = cur[t]
  /\ pc[t] \in {"unlink", "popped"} => val[t] = cur[t]
  /\ pc[t] = "retire" => val[t] \in Obj
  /\ pc[t] = "clear" => cur[t] \in Obj
  /\ pc[t] = "wait" => my[t] \in Slots

\* A record in a collision slot is that of an operation that waits there.
Waits(k) ==
  pRec[k] # nullptr => pc[pRec[k]] = "wait" /\ my[pRec[k]] = k /\ nStatus[pRec[k]] = "waiting"

\* Where the threads are, and who waits in a slot.
Control ==
  /\ \A t \in Thread : Doing(t)
  /\ \A k \in Slots : Waits(k)

\* Nothing happens to thread u.
Same(u) ==
  /\ pc'[u] = pc[u] /\ op'[u] = op[u] /\ nStatus'[u] = nStatus[u] /\ my'[u] = my[u]
  /\ val'[u] = val[u] /\ cur'[u] = cur[u] /\ nxt'[u] = nxt[u] /\ protects'[u] = protects[u]

-----------------------------------------------------------------------------
(* One step, and where the threads are *)

\* Every thread starts outside the operations.
LEMMA ControlInit == Init => Typed /\ Control
<1> SUFFICES ASSUME Init PROVE Typed /\ Control
  OBVIOUS
<1>1. Typed
  BY ConstantsAssumption DEF Init, Typed, Labels, Ptr, SMR!Init
<1>2. \A t \in Thread : pc[t] = "idle" /\ op[t] = "none"
  BY DEF Init
<1>3. \A k \in Slots : pRec[k] = nullptr
  BY DEF Init
<1>. QED
  BY <1>1, <1>2, <1>3 DEF Control, Doing, Waits, Wants

\* The steps that one thread takes by itself.
OneStep(t) ==
  \/ PushStep(t) \/ PopStep(t) \/ ClearStep(t)
  \/ BackoffOnly(t) \/ WaitCollided(t) \/ WaitFailed(t) \/ \E k \in Slots : Wait(t, k)

\* A step of one thread keeps the types, the control state of that thread, and the others.
LEMMA OneControl ==
  ASSUME Typed, Control, NEW t \in Thread, OneStep(t), UNCHANGED config
  PROVE  Typed' /\ Doing(t)' /\ \A u \in Thread \ {t} : Same(u)
<1>0. Doing(t)
  BY DEF Control
<1>a. users' = users
  BY DEF config
<1>1. ASSUME NEW o \in Obj, PushStart(t, o) PROVE Typed' /\ Doing(t)' /\ \A u \in Thread \ {t} : Same(u)
  BY <1>0, <1>a, <1>1 DEF PushStart, Goto, SMR!Publish, Typed, Doing, Wants, Same, Labels, Ptr
<1>2. ASSUME PushCas(t) PROVE Typed' /\ Doing(t)' /\ \A u \in Thread \ {t} : Same(u)
  BY <1>0, <1>a, <1>2 DEF PushCas, Goto, locals, gcVars, Typed, Doing, Wants, Same, Labels, Ptr
<1>3. ASSUME PushCasFail(t) PROVE Typed' /\ Doing(t)' /\ \A u \in Thread \ {t} : Same(u)
  BY <1>0, <1>a, <1>3 DEF PushCasFail, Goto, gcVars, Typed, Doing, Wants, Same, Labels, Ptr
<1>4. ASSUME PushCount(t) PROVE Typed' /\ Doing(t)' /\ \A u \in Thread \ {t} : Same(u)
  BY <1>0, <1>a, <1>4 DEF PushCount, Goto, Return, stackVars, gcVars, Typed, Doing, Wants, Same, Labels, Ptr
<1>5. ASSUME PushEliminated(t) PROVE Typed' /\ Doing(t)' /\ \A u \in Thread \ {t} : Same(u)
  BY <1>0, <1>a, <1>5 DEF PushEliminated, Goto, Return, stackVars, gcVars, Typed, Doing, Wants, Same, Labels, Ptr
<1>6. ASSUME PopStart(t) PROVE Typed' /\ Doing(t)' /\ \A u \in Thread \ {t} : Same(u)
  BY <1>0, <1>a, <1>6 DEF PopStart, Goto, stackVars, gcVars, Typed, Doing, Wants, Same, Labels, Ptr
<1>7. ASSUME PopAssign(t) PROVE Typed' /\ Doing(t)' /\ \A u \in Thread \ {t} : Same(u)
  BY <1>0, <1>a, <1>7 DEF PopAssign, SMR!Release, stackVars, locals, Typed, Doing, Wants, Same, Labels, Ptr
<1>8. ASSUME PopProtect(t) PROVE Typed' /\ Doing(t)' /\ \A u \in Thread \ {t} : Same(u)
  BY <1>0, <1>a, <1>8 DEF PopProtect, Goto, SMR!Protect, stackVars, Typed, Doing, Wants, Same, Labels, Ptr
<1>9. ASSUME PopEmpty(t) PROVE Typed' /\ Doing(t)' /\ \A u \in Thread \ {t} : Same(u)
  BY <1>0, <1>a, <1>9 DEF PopEmpty, Goto, stackVars, locals, gcVars, Typed, Doing, Wants, Same, Labels, Ptr
<1>10. ASSUME PopNext(t) PROVE Typed' /\ Doing(t)' /\ \A u \in Thread \ {t} : Same(u)
  BY <1>0, <1>a, <1>10 DEF PopNext, Goto, stackVars, gcVars, Typed, Doing, Wants, Same, Labels, Ptr
<1>11. ASSUME PopCas(t) PROVE Typed' /\ Doing(t)' /\ \A u \in Thread \ {t} : Same(u)
  BY <1>0, <1>a, <1>11 DEF PopCas, Goto, gcVars, Typed, Doing, Wants, Same, Labels, Ptr
<1>12. ASSUME PopCasFail(t) PROVE Typed' /\ Doing(t)' /\ \A u \in Thread \ {t} : Same(u)
  BY <1>0, <1>a, <1>12 DEF PopCasFail, Goto, stackVars, locals, gcVars, Typed, Doing, Wants, Same, Labels, Ptr
<1>13. ASSUME PopUnlink(t) PROVE Typed' /\ Doing(t)' /\ \A u \in Thread \ {t} : Same(u)
  BY <1>0, <1>a, <1>13 DEF PopUnlink, Goto, locals, gcVars, Typed, Doing, Wants, Same, Labels, Ptr
<1>14. ASSUME PopCount(t) PROVE Typed' /\ Doing(t)' /\ \A u \in Thread \ {t} : Same(u)
  BY <1>0, <1>a, <1>14 DEF PopCount, Goto, stackVars, locals, gcVars, Typed, Doing, Wants, Same, Labels, Ptr
<1>15. ASSUME PopReturn(t) PROVE Typed' /\ Doing(t)' /\ \A u \in Thread \ {t} : Same(u)
  <2>1. CASE val[t] = nullptr
    BY SMTT(40), <1>0, <1>a, <1>15, <2>1 DEF PopReturn, Goto, Return, SMR!Release, stackVars, Typed, Doing, Wants, Same, Labels, Ptr
  <2>2. CASE val[t] # nullptr
    BY ZenonT(60), <1>0, <1>a, <1>15, <2>2 DEF PopReturn, Goto, SMR!Release, stackVars, locals, Typed, Doing, Wants, Same, Labels, Ptr
  <2>. QED
    BY <2>1, <2>2
<1>16. ASSUME PopRetire(t) PROVE Typed' /\ Doing(t)' /\ \A u \in Thread \ {t} : Same(u)
  BY ZenonT(60), <1>0, <1>a, <1>16 DEF PopRetire, Goto, Return, SMR!Replace, stackVars, Typed, Doing, Wants, Same, Labels, Ptr
<1>17. ASSUME BackoffOnly(t) PROVE Typed' /\ Doing(t)' /\ \A u \in Thread \ {t} : Same(u)
  BY <1>0, <1>a, <1>17 DEF BackoffOnly, Again, Goto, stackVars, locals, gcVars, Typed, Doing, Wants, Same, Labels, Ptr
<1>18. ASSUME WaitCollided(t) PROVE Typed' /\ Doing(t)' /\ \A u \in Thread \ {t} : Same(u)
  BY <1>0, <1>a, <1>18 DEF WaitCollided, Goto, Eliminated, Withdraw, stackVars, gcVars, Typed, Doing, Wants, Same, Labels, Ptr
<1>19. ASSUME WaitFailed(t) PROVE Typed' /\ Doing(t)' /\ \A u \in Thread \ {t} : Same(u)
  BY <1>0, <1>a, <1>19 DEF WaitFailed, Goto, Again, Withdraw, stackVars, gcVars, Typed, Doing, Wants, Same, Labels, Ptr
<1>20. ASSUME NEW k \in Slots, Wait(t, k) PROVE Typed' /\ Doing(t)' /\ \A u \in Thread \ {t} : Same(u)
  BY <1>0, <1>a, <1>20 DEF Wait, Goto, stackVars, gcVars, Typed, Doing, Wants, Same, Labels, Ptr
<1>21. ASSUME ClearStart(t) PROVE Typed' /\ Doing(t)' /\ \A u \in Thread \ {t} : Same(u)
  BY <1>0, <1>a, <1>21 DEF ClearStart, Goto, stackVars, gcVars, Typed, Doing, Wants, Same, Labels, Ptr
<1>22. ASSUME ClearLoad(t) PROVE Typed' /\ Doing(t)' /\ \A u \in Thread \ {t} : Same(u)
  BY <1>0, <1>a, <1>22 DEF ClearLoad, Goto, stackVars, gcVars, Typed, Doing, Wants, Same, Labels, Ptr
<1>23. ASSUME ClearCas(t) PROVE Typed' /\ Doing(t)' /\ \A u \in Thread \ {t} : Same(u)
  BY <1>0, <1>a, <1>23 DEF ClearCas, Goto, locals, gcVars, Typed, Doing, Wants, Same, Labels, Ptr
<1>24. ASSUME ClearCasFail(t) PROVE Typed' /\ Doing(t)' /\ \A u \in Thread \ {t} : Same(u)
  BY <1>0, <1>a, <1>24 DEF ClearCasFail, Goto, stackVars, locals, gcVars, Typed, Doing, Wants, Same, Labels, Ptr
<1>25. ASSUME ClearReset(t) PROVE Typed' /\ Doing(t)' /\ \A u \in Thread \ {t} : Same(u)
  BY <1>0, <1>a, <1>25 DEF ClearReset, Goto, stackVars, locals, gcVars, Typed, Doing, Wants, Same, Labels, Ptr
<1>26. ASSUME ClearNode(t) PROVE Typed' /\ Doing(t)' /\ \A u \in Thread \ {t} : Same(u)
  BY ZenonT(60), <1>0, <1>a, <1>26 DEF ClearNode, SMR!Replace, Typed, Doing, Wants, Same, Labels, Ptr
<1>27. ASSUME ClearDone(t) PROVE Typed' /\ Doing(t)' /\ \A u \in Thread \ {t} : Same(u)
  BY ZenonT(60), <1>0, <1>a, <1>27 DEF ClearDone, Goto, Return, stackVars, gcVars, Typed, Doing, Wants, Same, Labels, Ptr
<1>. QED
  BY <1>1, <1>2, <1>3, <1>4, <1>5, <1>6, <1>7, <1>8, <1>9, <1>10, <1>11, <1>12, <1>13, <1>14, <1>15, <1>16, <1>17, <1>18, <1>19, <1>20, <1>21, <1>22, <1>23, <1>24, <1>25, <1>26, <1>27 DEF OneStep, PushStep, PopStep, ClearStep

\* What concerns one other thread only, or none, leaves a thread as it was.
LEMMA DoingSame ==
  ASSUME NEW u \in Thread, Doing(u), Same(u)
  PROVE  Doing(u)'
  BY DEF Doing, Wants, Same

\* The record of a thread that is not waiting is in no slot.
LEMMA WaitsQuiet ==
  ASSUME Typed, \A k \in Slots : Waits(k), NEW t \in Thread, pc[t] # "wait",
         \A u \in Thread \ {t} : Same(u), UNCHANGED pRec
  PROVE  \A k \in Slots : Waits(k)'
<1> SUFFICES ASSUME NEW k \in Slots, pRec[k] # nullptr
             PROVE  pc'[pRec[k]] = "wait" /\ my'[pRec[k]] = k /\ nStatus'[pRec[k]] = "waiting"
  BY DEF Waits
<1>1. pc[pRec[k]] = "wait" /\ my[pRec[k]] = k /\ nStatus[pRec[k]] = "waiting"
  BY DEF Waits
<1>2. pRec[k] \in Thread \ {t}
  BY <1>1 DEF Typed
<1>. QED
  BY <1>1, <1>2 DEF Same

\* Only the thread itself, or its partner in a collision, takes a record out of a slot.
LEMMA WaitsNext ==
  ASSUME Typed, Control, NEW t \in Thread, OneStep(t), \A u \in Thread \ {t} : Same(u)
  PROVE  \A k \in Slots : Waits(k)'
<1>0. \A k \in Slots : Waits(k)
  BY DEF Control
<1>1. ASSUME NEW k \in Slots, Wait(t, k) PROVE \A i \in Slots : Waits(i)'
  <2>1. /\ pc[t] = "backoff" /\ pRec' = [pRec EXCEPT ![k] = t]
        /\ pc'[t] = "wait" /\ my'[t] = k /\ nStatus'[t] = "waiting"
    BY <1>1 DEF Wait, Goto, Typed
  <2> SUFFICES ASSUME NEW i \in Slots, pRec'[i] # nullptr
               PROVE  pc'[pRec'[i]] = "wait" /\ my'[pRec'[i]] = i /\ nStatus'[pRec'[i]] = "waiting"
    BY DEF Waits
  <2>2. CASE i = k
    BY <2>1, <2>2 DEF Typed
  <2>3. CASE i # k
    <3>1. pRec'[i] = pRec[i]
      BY <2>1, <2>3 DEF Typed
    <3>2. pc[pRec[i]] = "wait" /\ my[pRec[i]] = i /\ nStatus[pRec[i]] = "waiting"
      BY <1>0, <3>1 DEF Waits
    <3>3. pRec[i] \in Thread \ {t}
      BY ZenonT(60), <2>1, <3>1, <3>2 DEF Typed
    <3>. QED
      BY <3>1, <3>2, <3>3 DEF Same
  <2>. QED
    BY <2>2, <2>3
<1>2. ASSUME WaitCollided(t) \/ WaitFailed(t) PROVE \A i \in Slots : Waits(i)'
  <2>1. pc[t] = "wait" /\ pRec' = [pRec EXCEPT ![my[t]] = IF @ = t THEN nullptr ELSE @]
    BY <1>2 DEF WaitCollided, WaitFailed, Withdraw
  <2>2. my[t] \in Slots
    BY <2>1 DEF Control, Doing
  <2> SUFFICES ASSUME NEW i \in Slots, pRec'[i] # nullptr
               PROVE  pc'[pRec'[i]] = "wait" /\ my'[pRec'[i]] = i /\ nStatus'[pRec'[i]] = "waiting"
    BY DEF Waits
  <2>3. pRec'[i] = pRec[i] /\ ~(i = my[t] /\ pRec[i] = t)
    BY <2>1, <2>2 DEF Typed
  <2>4. pc[pRec[i]] = "wait" /\ my[pRec[i]] = i /\ nStatus[pRec[i]] = "waiting"
    BY <1>0, <2>3 DEF Waits
  <2>5. pRec[i] \in Thread \ {t}
    BY <2>3, <2>4 DEF Typed
  <2>. QED
    BY <2>3, <2>4, <2>5 DEF Same
<1>3. ASSUME ~(WaitCollided(t) \/ WaitFailed(t)), ~\E k \in Slots : Wait(t, k) PROVE \A i \in Slots : Waits(i)'
  <2>1. pc[t] # "wait" /\ UNCHANGED pRec
    <3>1. CASE PushStep(t)
      BY <3>1 DEF PushStep, PushStart, PushCas, PushCasFail, PushCount, PushEliminated
    <3>2. CASE PopStep(t)
      BY <3>2 DEF PopStep, PopStart, PopAssign, PopProtect, PopEmpty, PopNext, PopCas, PopCasFail, PopUnlink,
                  PopCount, PopReturn, PopRetire
    <3>3. CASE ClearStep(t)
      BY <3>3 DEF ClearStep, ClearStart, ClearLoad, ClearCas, ClearCasFail, ClearReset, ClearNode, ClearDone
    <3>4. CASE BackoffOnly(t)
      BY <3>4 DEF BackoffOnly
    <3>. QED
      BY <1>3, <3>1, <3>2, <3>3, <3>4 DEF OneStep
  <2>. QED
    BY <1>0, <2>1, WaitsQuiet
<1>. QED
  BY <1>1, <1>2, <1>3

\* A collision concerns the two threads that collide.
LEMMA CollideFacts ==
  ASSUME Typed, Control, NEW t \in Thread, NEW k \in Slots, Collide(t, k)
  PROVE  \E u \in Thread \ {t} :
           /\ pc[t] = "backoff" /\ pc[u] = "wait" /\ nStatus[u] = "waiting" /\ my[u] = k
           /\ ((op[t] = "push" /\ op[u] = "pop") \/ (op[t] = "pop" /\ op[u] = "push"))
           /\ \A w \in Thread \ {t, u} : Same(w)
           /\ UNCHANGED <<stackVars, m_ItemCounter, my, op, cur, nxt, gcVars>>
           /\ pRec' = [pRec EXCEPT ![k] = nullptr]
           /\ val' = IF op[t] = "push" THEN [val EXCEPT ![u] = val[t]] ELSE [val EXCEPT ![t] = val[u]]
           /\ nStatus' = [nStatus EXCEPT ![t] = "waiting", ![u] = "collided"]
           /\ pc' = [pc EXCEPT ![t] = IF op[t] = "push" THEN "eliminated" ELSE "return"]
<1> DEFINE u == pRec[k]
<1>1. u # nullptr /\ op[u] # op[t] /\ pc[t] = "backoff"
  BY DEF Collide, Collidable
<1>2. u \in Thread /\ pc[u] = "wait" /\ nStatus[u] = "waiting" /\ my[u] = k /\ u # t
  BY SMT, <1>1 DEF Typed, Control, Waits
<1>3. (op[t] = "push" /\ op[u] = "pop") \/ (op[t] = "pop" /\ op[u] = "push")
  <2>1. op[t] \in {"push", "pop"} /\ op[u] \in {"push", "pop"}
    BY <1>1, <1>2 DEF Control, Doing
  <2>. QED
    BY <1>1, <2>1
<1>4. /\ UNCHANGED <<stackVars, m_ItemCounter, my, op, cur, nxt, gcVars>>
      /\ pRec' = [pRec EXCEPT ![k] = nullptr]
      /\ val' = IF op[t] = "push" THEN [val EXCEPT ![u] = val[t]] ELSE [val EXCEPT ![t] = val[u]]
      /\ nStatus' = [nStatus EXCEPT ![t] = "waiting", ![u] = "collided"]
      /\ pc' = [pc EXCEPT ![t] = IF op[t] = "push" THEN "eliminated" ELSE "return"]
  BY DEF Collide, Goto, Eliminated
<1> HIDE DEF u
<1>5. \A w \in Thread \ {t, u} : Same(w)
  BY <1>2, <1>4 DEF Typed, Same, gcVars
<1>. QED
  BY <1>1, <1>2, <1>3, <1>4, <1>5

\* A collision leaves the push and the pop where they can return.
LEMMA CollideControl ==
  ASSUME Typed, Control, NEW t \in Thread, NEW k \in Slots, Collide(t, k), UNCHANGED config
  PROVE  Typed' /\ Control'
<1>0. PICK u \in Thread \ {t} :
           /\ pc[t] = "backoff" /\ pc[u] = "wait" /\ nStatus[u] = "waiting" /\ my[u] = k
           /\ ((op[t] = "push" /\ op[u] = "pop") \/ (op[t] = "pop" /\ op[u] = "push"))
           /\ \A w \in Thread \ {t, u} : Same(w)
           /\ UNCHANGED <<stackVars, m_ItemCounter, my, op, cur, nxt, gcVars>>
           /\ pRec' = [pRec EXCEPT ![k] = nullptr]
           /\ val' = IF op[t] = "push" THEN [val EXCEPT ![u] = val[t]] ELSE [val EXCEPT ![t] = val[u]]
           /\ nStatus' = [nStatus EXCEPT ![t] = "waiting", ![u] = "collided"]
           /\ pc' = [pc EXCEPT ![t] = IF op[t] = "push" THEN "eliminated" ELSE "return"]
  BY CollideFacts
<1>1. Typed'
  BY <1>0 DEF Typed, Labels, config, stackVars, gcVars
<1>2. Doing(t) /\ Doing(u)
  BY DEF Control
<1>3. /\ pc'[t] = IF op[t] = "push" THEN "eliminated" ELSE "return"
      /\ nStatus'[t] = "waiting" /\ op'[t] = op[t] /\ (op[t] = "push" => val'[t] = val[t])
  BY <1>0 DEF Typed
<1>4. /\ pc'[u] = "wait" /\ nStatus'[u] = "collided" /\ op'[u] = op[u] /\ my'[u] = my[u]
      /\ (op[u] = "push" => val'[u] = val[u])
  BY <1>0 DEF Typed
<1>5. Doing(t)' /\ Doing(u)'
  <2>1. (op[t] = "push" /\ op[u] = "pop") \/ (op[t] = "pop" /\ op[u] = "push")
    BY <1>0
  <2>2. my[u] \in Slots
    BY <1>0
  <2>3. op[t] = "push" => val[t] \in Obj
    BY <1>2 DEF Doing
  <2>4. op[u] = "push" => val[u] \in Obj
    BY <1>2 DEF Doing
  <2>5. Doing(t)'
    BY <1>3, <2>1, <2>3 DEF Doing, Wants
  <2>6. Doing(u)'
    BY <1>4, <2>1, <2>2, <2>4 DEF Doing, Wants
  <2>. QED
    BY <2>5, <2>6
<1>6. \A w \in Thread : Doing(w)'
  BY <1>0, <1>5, DoingSame DEF Control
<1>7. ASSUME NEW i \in Slots, pRec'[i] # nullptr
      PROVE  pc'[pRec'[i]] = "wait" /\ my'[pRec'[i]] = i /\ nStatus'[pRec'[i]] = "waiting"
  <2>1. i # k /\ pRec'[i] = pRec[i]
    BY <1>0, <1>7 DEF Typed
  <2>2. pc[pRec[i]] = "wait" /\ my[pRec[i]] = i /\ nStatus[pRec[i]] = "waiting"
    BY <1>7, <2>1 DEF Control, Waits
  <2>3. pRec[i] \in Thread \ {t, u}
    BY <1>0, <1>7, <2>1, <2>2 DEF Typed
  <2>. QED
    BY ZenonT(60), <1>0, <2>1, <2>2, <2>3 DEF Same
<1>. QED
  BY <1>1, <1>6, <1>7 DEF Control, Waits

\* The garbage collector takes a node that is retired and not protected.
LEMMA ReclaimFacts ==
  ASSUME Typed, NEW o \in Obj, Reclaim(o)
  PROVE  /\ status[o] = "retired" /\ \A t \in Thread : protects[t] # o
         /\ status' = [status EXCEPT ![o] = "free"]
         /\ UNCHANGED <<stackVars, m_ItemCounter, pRec, pc, locals, protects>>
<1>1. status' = [x \in Obj |-> IF x \in {o} THEN "free" ELSE status[x]]
  BY DEF Reclaim, SMR!Reclaim
<1>2. status' = [status EXCEPT ![o] = "free"]
  BY <1>1 DEF Typed
<1>3. o \notin SMR!Protected /\ status[o] = "retired"
  BY DEF Reclaim, SMR!Reclaim
<1>4. \A t \in Thread : protects[t] # o
  BY <1>3, ConstantsAssumption DEF SMR!Protected
<1>. QED
  BY <1>2, <1>3, <1>4 DEF Reclaim, SMR!Reclaim

\* The steps of the specification, by what they concern.
Kinds ==
  \/ UNCHANGED vars
  \/ UNCHANGED config /\ \E o \in Obj : Reclaim(o)
  \/ UNCHANGED config /\ \E t \in Thread : OneStep(t)
  \/ UNCHANGED config /\ \E t \in Thread, k \in Slots : Collide(t, k)

\* There are no other steps.
LEMMA StepKinds == Typed /\ [Next]_vars => Kinds
<1> SUFFICES ASSUME Typed, Next, ~UNCHANGED vars PROVE Kinds
  BY DEF Kinds
<1>1. UNCHANGED config
  BY DEF Next
<1>2. ASSUME NEW t \in users, PushStep(t) \/ PopStep(t) \/ BackoffStep(t) \/ ClearStep(t) PROVE Kinds
  <2>1. t \in Thread
    BY DEF Typed
  <2>2. OneStep(t) \/ \E k \in Slots : Collide(t, k)
    BY <1>2 DEF OneStep, BackoffStep
  <2>. QED
    BY <1>1, <2>1, <2>2 DEF Kinds
<1>. QED
  BY <1>1, <1>2 DEF Next, Kinds

\* The threads do what their place in the program says, and only operations that
\* wait have a record in a collision slot.
LEMMA ControlNext == Typed /\ Control /\ [Next]_vars => Typed' /\ Control'
<1> SUFFICES ASSUME Typed, Control, Kinds PROVE Typed' /\ Control'
  BY StepKinds
<1>1. CASE UNCHANGED vars
  <2>1. UNCHANGED <<users, m_Top, next, pRec, nStatus, pc, op, val, cur, nxt, my, status, protects>>
    BY <1>1 DEF vars, config, stackVars, locals, gcVars
  <2>. QED
    BY <2>1 DEF Typed, Control, Doing, Wants, Waits
<1>2. ASSUME NEW o \in Obj, Reclaim(o), UNCHANGED config PROVE Typed' /\ Control'
  <2>1. /\ UNCHANGED <<users, m_Top, next, pRec, nStatus, pc, op, val, cur, nxt, my, protects>>
        /\ status' = [status EXCEPT ![o] = "free"]
    BY <1>2, ReclaimFacts DEF config, stackVars, locals
  <2>2. status' \in [Obj -> {"free", "linked", "retired"}]
    BY <2>1 DEF Typed
  <2>3. Typed'
    BY <2>1, <2>2 DEF Typed
  <2>4. Control'
    BY ZenonT(60), <2>1 DEF Control, Doing, Wants, Waits
  <2>. QED
    BY <2>3, <2>4
<1>3. ASSUME NEW t \in Thread, OneStep(t), UNCHANGED config PROVE Typed' /\ Control'
  <2>1. Typed' /\ Doing(t)' /\ \A u \in Thread \ {t} : Same(u)
    BY <1>3, OneControl
  <2>2. \A u \in Thread : Doing(u)'
    BY <2>1, DoingSame DEF Control
  <2>3. \A k \in Slots : Waits(k)'
    BY <1>3, <2>1, WaitsNext
  <2>. QED
    BY <2>1, <2>2, <2>3 DEF Control
<1>4. ASSUME NEW t \in Thread, NEW k \in Slots, Collide(t, k), UNCHANGED config PROVE Typed' /\ Control'
  BY <1>4, CollideControl
<1>. QED
  BY <1>1, <1>2, <1>3, <1>4 DEF Kinds

-----------------------------------------------------------------------------
(* Lists of nodes *)

\* The nodes of a list.
Elems(s) == {s[i] : i \in 1 .. Len(s)}

\* The nodes from p on are those of s: each leads to the next, and the last to nullptr.
IsList(nx, p, s) ==
  /\ s \in Seq(Obj)
  /\ p = IF s = <<>> THEN nullptr ELSE s[1]
  /\ \A i \in 1 .. Len(s) : nx[s[i]] = IF i = Len(s) THEN nullptr ELSE s[i + 1]
  /\ \A i, j \in 1 .. Len(s) : s[i] = s[j] => i = j

\* Nobody has written to the nodes of a list.
LEMMA ListFrame ==
  ASSUME NEW nx, NEW ny, NEW p, NEW s, IsList(nx, p, s), \A o \in Elems(s) : ny[o] = nx[o]
  PROVE  IsList(ny, p, s)
  BY DEF IsList, Elems

\* The empty list.
LEMMA ListEmpty ==
  ASSUME NEW nx, NEW s, IsList(nx, nullptr, s)
  PROVE  s = <<>> /\ Elems(s) = {}
<1>1. s = <<>>
  <2> SUFFICES ASSUME s # <<>> PROVE FALSE
    OBVIOUS
  <2>1. s \in Seq(Obj) /\ s[1] = nullptr
    BY DEF IsList
  <2>2. Len(s) \in Nat /\ Len(s) > 0 /\ s[1] \in Obj
    BY SMT, <2>1
  <2>. QED
    BY <2>1, <2>2, ConstantsAssumption
<1>. QED
  BY SMT, <1>1 DEF Elems

\* nullptr is the empty list.
LEMMA ListNil ==
  ASSUME NEW nx
  PROVE  IsList(nx, nullptr, <<>>) /\ Elems(<<>>) = {}
  BY SMT DEF IsList, Elems

\* push puts a node in front of a list.
LEMMA ListCons ==
  ASSUME NEW nx, NEW p, NEW s, IsList(nx, p, s), NEW o \in Obj, o \notin Elems(s), nx[o] = p
  PROVE  IsList(nx, o, <<o>> \o s) /\ Elems(<<o>> \o s) = Elems(s) \cup {o}
<1> DEFINE q == <<o>> \o s
<1>1. s \in Seq(Obj) /\ Len(s) \in Nat
  BY SMT DEF IsList
<1>2. q \in Seq(Obj) /\ Len(q) = Len(s) + 1 /\ q[1] = o /\ q # <<>>
  BY SMT, <1>1
<1>3. \A i \in 1 .. Len(s) : q[i + 1] = s[i]
  BY SMT, <1>1
<1>3a. \A i \in 1 .. Len(q) : i # 1 => i - 1 \in 1 .. Len(s) /\ q[i] = s[i - 1]
  BY SMT, <1>1, <1>2, <1>3
<1> HIDE DEF q
<1>4. ASSUME NEW i \in 1 .. Len(q) PROVE nx[q[i]] = IF i = Len(q) THEN nullptr ELSE q[i + 1]
  <2>1. CASE i = 1
    <3>1. p = IF s = <<>> THEN nullptr ELSE s[1]
      BY DEF IsList
    <3>2. s = <<>> <=> Len(s) = 0
      BY SMT, <1>1
    <3>3. s # <<>> => q[2] = s[1]
      BY SMT, <1>1, <1>3, <3>2
    <3>. QED
      BY SMT, <1>1, <1>2, <2>1, <3>1, <3>2, <3>3
  <2>2. CASE i # 1
    <3>1. i - 1 \in 1 .. Len(s) /\ q[i] = s[i - 1] /\ (i - 1 = Len(s) <=> i = Len(q))
      BY SMT, <1>1, <1>2, <1>3a, <2>2
    <3>2. nx[s[i - 1]] = IF i - 1 = Len(s) THEN nullptr ELSE s[(i - 1) + 1]
      BY <3>1 DEF IsList
    <3>3. i # Len(q) => q[i + 1] = s[(i - 1) + 1]
      BY SMT, <1>1, <1>2, <1>3, <2>2
    <3>. QED
      BY <3>1, <3>2, <3>3
  <2>. QED
    BY <2>1, <2>2
<1>5. ASSUME NEW i \in 1 .. Len(q), NEW j \in 1 .. Len(q), q[i] = q[j] PROVE i = j
  <2>1. \A k \in 1 .. Len(s) : s[k] # o
    BY DEF Elems
  <2>2. \A k, l \in 1 .. Len(s) : s[k] = s[l] => k = l
    BY DEF IsList
  <2>3. i = 1 <=> j = 1
    BY <1>2, <1>3a, <1>5, <2>1
  <2>4. CASE i # 1
    BY SMT, <1>3a, <1>5, <2>2, <2>3, <2>4
  <2>. QED
    BY <2>3, <2>4
<1>6. Elems(q) = Elems(s) \cup {o}
  <2>1. \A i \in 1 .. Len(q) : q[i] \in Elems(s) \cup {o}
    BY <1>2, <1>3a DEF Elems
  <2>2. \A i \in 1 .. Len(s) : i + 1 \in 1 .. Len(q) /\ q[i + 1] = s[i]
    BY SMT, <1>1, <1>2, <1>3
  <2>3. 1 \in 1 .. Len(q)
    BY SMT, <1>1, <1>2
  <2>. QED
    BY SMTT(40), <1>2, <2>1, <2>2, <2>3 DEF Elems
<1>7. IsList(nx, o, q)
  BY <1>2, <1>4, <1>5 DEF IsList
<1>. QED
  BY <1>6, <1>7 DEF q

\* pop and clear take off the first node of a list.
LEMMA ListTail ==
  ASSUME NEW nx, NEW p, NEW s, IsList(nx, p, s), p # nullptr
  PROVE  /\ s # <<>> /\ Head(s) = p /\ p \in Obj /\ s = <<p>> \o Tail(s) /\ Len(s) = Len(Tail(s)) + 1
         /\ IsList(nx, nx[p], Tail(s))
         /\ p \in Elems(s)
         /\ Elems(Tail(s)) = Elems(s) \ {p}
<1> DEFINE q == Tail(s)
<1>1. s \in Seq(Obj) /\ s # <<>> /\ p = s[1] /\ Len(s) \in Nat
  BY SMT DEF IsList
<1>2. /\ Len(s) > 0 /\ Len(q) = Len(s) - 1 /\ Len(q) \in Nat /\ q \in Seq(Obj)
      /\ \A i \in 1 .. Len(s) - 1 : q[i] = s[i + 1]
      /\ Head(s) = s[1] /\ s[1] \in Obj /\ 1 \in 1 .. Len(s)
  BY SMT, <1>1
<1>3. s = <<p>> \o q
  BY SMT, <1>1
<1> HIDE DEF q
<1>4. \A i \in 1 .. Len(q) : i + 1 \in 1 .. Len(s) /\ q[i] = s[i + 1] /\ (i = Len(q) <=> i + 1 = Len(s))
  BY SMT, <1>1, <1>2
<1>4a. \A i \in 1 .. Len(s) : i # 1 => i - 1 \in 1 .. Len(q) /\ s[i] = q[i - 1]
  BY SMT, <1>1, <1>2
<1>5. \A i \in 1 .. Len(s) : nx[s[i]] = IF i = Len(s) THEN nullptr ELSE s[i + 1]
  BY DEF IsList
<1>6. \A i, j \in 1 .. Len(s) : s[i] = s[j] => i = j
  BY DEF IsList
<1>7. nx[p] = IF q = <<>> THEN nullptr ELSE q[1]
  <2>1. q = <<>> <=> Len(s) = 1
    BY SMT, <1>1, <1>2
  <2>2. q # <<>> => q[1] = s[1 + 1]
    BY SMT, <1>1, <1>2, <2>1
  <2>. QED
    BY <1>1, <1>2, <1>5, <2>1, <2>2
<1>8. ASSUME NEW i \in 1 .. Len(q) PROVE nx[q[i]] = IF i = Len(q) THEN nullptr ELSE q[i + 1]
  <2>1. nx[s[i + 1]] = IF i + 1 = Len(s) THEN nullptr ELSE s[(i + 1) + 1]
    BY <1>4, <1>5
  <2>2. i # Len(q) => q[i + 1] = s[(i + 1) + 1]
    BY SMT, <1>2, <1>4
  <2>. QED
    BY <1>4, <2>1, <2>2
<1>9. ASSUME NEW i \in 1 .. Len(q), NEW j \in 1 .. Len(q), q[i] = q[j] PROVE i = j
  <2>1. i + 1 = j + 1
    BY <1>4, <1>6, <1>9
  <2>. QED
    BY SMT, <2>1
<1>10. IsList(nx, nx[p], q)
  BY <1>2, <1>7, <1>8, <1>9 DEF IsList
<1>11. Elems(q) = Elems(s) \ {p}
  <2>1. \A i \in 1 .. Len(q) : q[i] \in Elems(s) /\ q[i] # p
    BY SMT, <1>1, <1>2, <1>4, <1>6 DEF Elems
  <2>2. \A i \in 1 .. Len(s) : s[i] # p => s[i] \in Elems(q)
    BY <1>1, <1>4a DEF Elems
  <2>. QED
    BY <2>1, <2>2 DEF Elems
<1>12. p \in Elems(s) /\ Len(s) = Len(q) + 1
  BY SMT, <1>1, <1>2 DEF Elems
<1>. QED
  BY <1>1, <1>2, <1>3, <1>10, <1>11, <1>12 DEF q

\* Chain, the operator that the properties use, walks along a list and sees all of it.
Walks == \A p, s : IsList(next, p, s) => List(p) = s

-----------------------------------------------------------------------------
(* Places *)

\* The thread has the node in val to itself ...
Keeps(t) ==
  \/ Fresh(t)
  \/ op[t] = "pop" /\ \/ pc[t] \in {"unlink", "popped", "return", "retire"}
                      \/ pc[t] = "wait" /\ nStatus[t] = "collided"

\* The node in val, when the thread has it to itself.
Keep(t) == IF Keeps(t) THEN val[t] ELSE nullptr

\* ... or the list that clear has cut off.
Cut(t) == IF pc[t] \in {"reset", "drain"} THEN cur[t] ELSE nullptr

\* What a thread has in its hands.
Held(t) == {o \in Obj : o = Keep(t) \/ o \in Elems(List(Cut(t)))}

\* The stack and the lists cut off from it end in nullptr and have no cycle.
Lists ==
  /\ IsList(next, m_Top, Items)
  /\ \A t \in Thread : IsList(next, Cut(t), List(Cut(t)))

\* A node in use is in the stack or in the hands of one thread, and in one place only.
Placed ==
  /\ \A o \in Obj : status[o] = "linked" <=> o \in Elems(Items) \/ \E t \in Thread : o \in Held(t)
  /\ \A t \in Thread : Held(t) \cap Elems(Items) = {}
  /\ \A t, u \in Thread : t # u => Held(t) \cap Held(u) = {}

\* A node under a guard is not free, and no push is about to link it: what it was popped
\* from cannot get it back.
Guarded ==
  \A t \in Thread : protects[t] # nullptr =>
    /\ status[protects[t]] # "free"
    /\ \A u \in Thread : Fresh(u) => val[u] # protects[t]

\* A pop at its compare_exchange has the successor of its node, if that is in the stack.
Confirmed ==
  \A t \in Thread : pc[t] = "cas" /\ cur[t] \in Elems(Items) => next[cur[t]] = nxt[t]

-----------------------------------------------------------------------------
(* What a step that leaves a list alone does to it *)

\* Walks, after the step.
LEMMA ListIsNext == Walks' => \A p, s : IsList(next', p, s) => List(p)' = s
  BY DEF Walks, IsList

\* A list nobody writes to is the same list after the step.
LEMMA ListKept ==
  ASSUME Walks, Walks', NEW p, NEW s, IsList(next, p, s), \A o \in Elems(s) : next'[o] = next[o]
  PROVE  IsList(next', p, s) /\ List(p)' = s
<1>1. IsList(next', p, s)
  BY ListFrame
<1>. QED
  BY <1>1, ListIsNext

\* The stack is the same when neither the top nor a node of it is written.
LEMMA StackKept ==
  ASSUME Walks, Walks', Lists, m_Top' = m_Top, \A o \in Elems(Items) : next'[o] = next[o]
  PROVE  Items' = Items /\ IsList(next', m_Top', Items')
<1>1. PICK p : p = m_Top
  OBVIOUS
<1>2. PICK s : s = List(p)
  OBVIOUS
<1>3. IsList(next, p, s) /\ Items = s
  BY <1>1, <1>2 DEF Lists, Items
<1>4. IsList(next', p, s) /\ List(p)' = s
  BY <1>3, ListKept
<1>5. Items' = List(p)'
  BY <1>1 DEF Items, List
<1>. QED
  BY <1>1, <1>3, <1>4, <1>5

\* The nodes of a list are nodes.
LEMMA ElemsObj ==
  ASSUME NEW nx, NEW p, NEW s, IsList(nx, p, s)
  PROVE  Elems(s) \subseteq Obj
  BY SMT DEF IsList, Elems

\* A thread that does not move holds what it held, when nobody writes to that.
LEMMA HeldKept ==
  ASSUME Walks, Walks', Lists, NEW u \in Thread, Keep(u)' = Keep(u), Cut(u)' = Cut(u),
         \A o \in Held(u) : next'[o] = next[o]
  PROVE  Held(u)' = Held(u) /\ IsList(next, Cut(u), List(Cut(u)))'
<1>1. PICK c : c = Cut(u)
  OBVIOUS
<1>2. PICK s : s = List(c)
  OBVIOUS
<1>3. IsList(next, c, s)
  BY <1>1, <1>2 DEF Lists
<1>4. \A o \in Elems(s) : next'[o] = next[o]
  BY <1>1, <1>2, <1>3, ElemsObj DEF Held
<1>5. IsList(next', c, s) /\ List(c)' = s
  BY <1>3, <1>4, ListKept
<1>6. Cut(u)' = c /\ List(Cut(u))' = s /\ List(Cut(u)) = s
  BY <1>1, <1>2, <1>5 DEF List
<1>7. IsList(next, Cut(u), List(Cut(u)))'
  BY ZenonT(60), <1>5, <1>6 DEF IsList
<1>8. Held(u)' = {o \in Obj : o = Keep(u)' \/ o \in Elems(List(Cut(u))')}
  BY DEF Held, Elems
<1>9. Held(u)' = Held(u)
  BY <1>6, <1>8 DEF Held
<1>. QED
  BY <1>7, <1>9

\* A node that is free or retired is in no list and in nobody's hands.
LEMMA Nowhere ==
  ASSUME Placed, NEW o \in Obj, status[o] # "linked"
  PROVE  o \notin Elems(Items) /\ \A t \in Thread : o \notin Held(t)
  BY DEF Placed

\* A node in the hands of t is in no other place.
LEMMA InHands ==
  ASSUME Placed, NEW t \in Thread, NEW o \in Held(t)
  PROVE  o \notin Elems(Items) /\ \A u \in Thread \ {t} : o \notin Held(u)
  BY DEF Placed

\* The hands of the threads other than t, when t writes to at most one node.
LEMMA OthersKept ==
  ASSUME Walks, Walks', Typed, Lists, NEW t \in Thread, NEW w, \A u \in Thread \ {t} : Same(u) /\ w \notin Held(u),
         \A o \in Obj \ {w} : next'[o] = next[o]
  PROVE  \A u \in Thread \ {t} : Held(u)' = Held(u) /\ IsList(next, Cut(u), List(Cut(u)))'
<1> SUFFICES ASSUME NEW u \in Thread \ {t} PROVE Held(u)' = Held(u) /\ IsList(next, Cut(u), List(Cut(u)))'
  OBVIOUS
<1>1. Keep(u)' = Keep(u) /\ Cut(u)' = Cut(u)
  BY DEF Same, Keep, Keeps, Fresh, Cut
<1>2. \A o \in Held(u) : next'[o] = next[o]
  BY DEF Held
<1>. QED
  BY <1>1, <1>2, HeldKept

\* One node, or none, is what a thread holds that has not cut off a list.
LEMMA HeldOne ==
  Walks => \A t \in Thread : Cut(t) = nullptr => Held(t) = Obj \cap {Keep(t)} /\ IsList(next, Cut(t), List(Cut(t)))
<1> SUFFICES ASSUME Walks
             PROVE  \A t \in Thread : Cut(t) = nullptr => Held(t) = Obj \cap {Keep(t)} /\ IsList(next, Cut(t), List(Cut(t)))
  OBVIOUS
<1>1. List(nullptr) = <<>> /\ IsList(next, nullptr, <<>>) /\ Elems(<<>>) = {}
  BY ListNil DEF Walks
<1>2. ASSUME NEW t \in Thread, Cut(t) = nullptr
      PROVE  Held(t) = Obj \cap {Keep(t)} /\ IsList(next, Cut(t), List(Cut(t)))
  BY <1>1, <1>2 DEF Held
<1>. QED
  BY <1>2

\* The same, after the step.
LEMMA HeldOneNext ==
  ASSUME Walks', NEW u \in Thread, Cut(u)' = nullptr
  PROVE  Held(u)' = Obj \cap {Keep(u)'} /\ IsList(next, Cut(u), List(Cut(u)))'
<1>1. (Walks => \A t \in Thread : Cut(t) = nullptr => Held(t) = Obj \cap {Keep(t)} /\ IsList(next, Cut(t), List(Cut(t))))'
  BY HeldOne, PTL
<1>. QED
  BY <1>1

\* The steps that put no node in another place.
Move(t) ==
  \/ PushCount(t) \/ PushEliminated(t) \/ PopStart(t) \/ PopAssign(t) \/ PopProtect(t) \/ PopEmpty(t)
  \/ PopNext(t) \/ PopCasFail(t) \/ PopCount(t) \/ PopReturn(t)
  \/ BackoffOnly(t) \/ WaitCollided(t) \/ WaitFailed(t) \/ \E k \in Slots : Wait(t, k)
  \/ ClearStart(t) \/ ClearLoad(t) \/ ClearCasFail(t) \/ ClearReset(t) \/ ClearDone(t)

\* Nothing that says where the nodes are changes.
Still(t) ==
  /\ UNCHANGED <<m_Top, next, status>>
  /\ Keep(t)' = Keep(t) /\ Cut(t)' = Cut(t)
  /\ Fresh(t)' => Fresh(t) /\ val'[t] = val[t]

\* The steps of Move leave the nodes where they are.
LEMMA MoveStill ==
  ASSUME Typed, Control, NEW t \in Thread, Move(t)
  PROVE  Still(t)
<1>0. Doing(t)
  BY DEF Control
<1>1. ASSUME PushCount(t) PROVE Still(t)
  BY <1>0, <1>1 DEF PushCount, Goto, Return, stackVars, gcVars, Typed, Doing, Wants, Still, Keep, Keeps, Fresh, Cut
<1>2. ASSUME PushEliminated(t) PROVE Still(t)
  BY <1>0, <1>2 DEF PushEliminated, Goto, Return, stackVars, gcVars, Typed, Doing, Wants, Still, Keep, Keeps, Fresh, Cut
<1>3. ASSUME PopStart(t) PROVE Still(t)
  BY <1>0, <1>3 DEF PopStart, Goto, stackVars, gcVars, Typed, Doing, Wants, Still, Keep, Keeps, Fresh, Cut
<1>4. ASSUME PopAssign(t) PROVE Still(t)
  BY <1>0, <1>4 DEF PopAssign, SMR!Release, stackVars, locals, Typed, Doing, Wants, Still, Keep, Keeps, Fresh, Cut
<1>5. ASSUME PopProtect(t) PROVE Still(t)
  BY <1>0, <1>5 DEF PopProtect, Goto, SMR!Protect, stackVars, Typed, Doing, Wants, Still, Keep, Keeps, Fresh, Cut
<1>6. ASSUME PopEmpty(t) PROVE Still(t)
  BY <1>0, <1>6 DEF PopEmpty, Goto, stackVars, locals, gcVars, Typed, Doing, Wants, Still, Keep, Keeps, Fresh, Cut
<1>7. ASSUME PopNext(t) PROVE Still(t)
  BY <1>0, <1>7 DEF PopNext, Goto, stackVars, gcVars, Typed, Doing, Wants, Still, Keep, Keeps, Fresh, Cut
<1>8. ASSUME PopCasFail(t) PROVE Still(t)
  BY <1>0, <1>8 DEF PopCasFail, Goto, stackVars, locals, gcVars, Typed, Doing, Wants, Still, Keep, Keeps, Fresh, Cut
<1>9. ASSUME PopCount(t) PROVE Still(t)
  BY <1>0, <1>9 DEF PopCount, Goto, stackVars, locals, gcVars, Typed, Doing, Wants, Still, Keep, Keeps, Fresh, Cut
<1>10. ASSUME PopReturn(t) PROVE Still(t)
  BY SMT, <1>0, <1>10 DEF PopReturn, Goto, Return, SMR!Release, stackVars, locals, Typed, Doing, Wants, Still, Keep, Keeps, Fresh, Cut
<1>11. ASSUME BackoffOnly(t) PROVE Still(t)
  BY <1>0, <1>11 DEF BackoffOnly, Again, Goto, stackVars, locals, gcVars, Typed, Doing, Wants, Still, Keep, Keeps, Fresh, Cut
<1>12. ASSUME WaitCollided(t) PROVE Still(t)
  BY <1>0, <1>12 DEF WaitCollided, Goto, Eliminated, Withdraw, stackVars, gcVars, Typed, Doing, Wants, Still, Keep, Keeps, Fresh, Cut
<1>13. ASSUME WaitFailed(t) PROVE Still(t)
  BY <1>0, <1>13 DEF WaitFailed, Goto, Again, Withdraw, stackVars, gcVars, Typed, Doing, Wants, Still, Keep, Keeps, Fresh, Cut
<1>14. ASSUME NEW k \in Slots, Wait(t, k) PROVE Still(t)
  BY <1>0, <1>14 DEF Wait, Goto, stackVars, gcVars, Typed, Doing, Wants, Still, Keep, Keeps, Fresh, Cut
<1>15. ASSUME ClearStart(t) PROVE Still(t)
  BY <1>0, <1>15 DEF ClearStart, Goto, stackVars, gcVars, Typed, Doing, Wants, Still, Keep, Keeps, Fresh, Cut
<1>16. ASSUME ClearLoad(t) PROVE Still(t)
  BY <1>0, <1>16 DEF ClearLoad, Goto, stackVars, gcVars, Typed, Doing, Wants, Still, Keep, Keeps, Fresh, Cut
<1>17. ASSUME ClearCasFail(t) PROVE Still(t)
  BY <1>0, <1>17 DEF ClearCasFail, Goto, stackVars, locals, gcVars, Typed, Doing, Wants, Still, Keep, Keeps, Fresh, Cut
<1>18. ASSUME ClearReset(t) PROVE Still(t)
  BY <1>0, <1>18 DEF ClearReset, Goto, stackVars, locals, gcVars, Typed, Doing, Wants, Still, Keep, Keeps, Fresh, Cut
<1>19. ASSUME ClearDone(t) PROVE Still(t)
  BY <1>0, <1>19 DEF ClearDone, Goto, Return, stackVars, gcVars, Typed, Doing, Wants, Still, Keep, Keeps, Fresh, Cut
<1>. QED
  BY <1>1, <1>2, <1>3, <1>4, <1>5, <1>6, <1>7, <1>8, <1>9, <1>10, <1>11, <1>12, <1>13, <1>14, <1>15, <1>16, <1>17, <1>18, <1>19 DEF Move

\* The stack has the nodes I after a step of t, and t itself has those in H.
LEMMA PlacedStep ==
  ASSUME Placed, NEW t \in Thread, NEW I, NEW H,
         Elems(Items') = I, Held(t)' = H, \A u \in Thread \ {t} : Held(u)' = Held(u),
         I \cap H = {}, \A u \in Thread \ {t} : (I \cup H) \cap Held(u) = {},
         \A o \in Obj : status'[o] = "linked" <=>
                          o \in I \cup H \/ (status[o] = "linked" /\ o \notin Elems(Items) \cup Held(t))
  PROVE  Placed'
<1>1. ASSUME NEW o \in Obj
      PROVE  status'[o] = "linked" <=> o \in Elems(Items') \/ \E u \in Thread : o \in Held(u)'
  <2>1. status[o] = "linked" <=> o \in Elems(Items) \/ \E u \in Thread : o \in Held(u)
    BY DEF Placed
  <2>2. ASSUME o \notin I, o \notin H
        PROVE (status[o] = "linked" /\ o \notin Elems(Items) \cup Held(t)) <=> \E u \in Thread \ {t} : o \in Held(u)
    <3>1. ASSUME NEW u \in Thread \ {t}, o \in Held(u) PROVE o \notin Elems(Items) /\ o \notin Held(t)
      BY <3>1 DEF Placed
    <3>. QED
      BY <2>1, <3>1
  <2>3. (\E u \in Thread : o \in Held(u)') <=> o \in H \/ \E u \in Thread \ {t} : o \in Held(u)
    OBVIOUS
  <2>. QED
    BY <2>2, <2>3
<1>2. \A u \in Thread : Held(u)' \cap Elems(Items') = {}
  OBVIOUS
<1>3. \A u, w \in Thread : u # w => Held(u)' \cap Held(w)' = {}
  <2> SUFFICES ASSUME NEW u \in Thread, NEW w \in Thread, u # w PROVE Held(u)' \cap Held(w)' = {}
    OBVIOUS
  <2>1. CASE u = t \/ w = t
    BY SMT, <2>1
  <2>2. CASE u # t /\ w # t
    BY <2>2 DEF Placed
  <2>. QED
    BY <2>1, <2>2
<1>. QED
  BY <1>1, <1>2, <1>3 DEF Placed, Elems

\* What the stack is, and what t has, after a step of t that writes to node w at most.
Moved(t, s, H) ==
  /\ Items' = s /\ IsList(next', m_Top', s)
  /\ \A o \in Elems(Items) : next'[o] = next[o]
  /\ Held(t)' = H /\ IsList(next, Cut(t), List(Cut(t)))'
  /\ \A u \in Thread \ {t} : Held(u)' = Held(u) /\ IsList(next, Cut(u), List(Cut(u)))'

\* The lists are lists again after a step.
LEMMA MovedLists ==
  ASSUME NEW t \in Thread, NEW s, NEW H, Moved(t, s, H)
  PROVE  Lists'
<1>1. IsList(next, m_Top, Items)'
  BY DEF Moved, IsList
<1>. QED
  BY <1>1 DEF Moved, Lists

\* The stack and the hands after a step of Move.
LEMMA MoveMoves ==
  ASSUME Walks, Walks', Typed, Lists, NEW t \in Thread, Still(t), \A u \in Thread \ {t} : Same(u)
  PROVE  Moved(t, Items, Held(t))
<1>1. Items' = Items /\ IsList(next', m_Top', Items)
  BY StackKept DEF Still
<1>2. Held(t)' = Held(t) /\ IsList(next, Cut(t), List(Cut(t)))'
  BY HeldKept DEF Still
<1>3. nullptr \notin Obj
  BY ConstantsAssumption
<1>4. \A u \in Thread \ {t} : nullptr \notin Held(u)
  BY <1>3 DEF Held
<1>5. \A u \in Thread \ {t} : Held(u)' = Held(u) /\ IsList(next, Cut(u), List(Cut(u)))'
  BY <1>4, OthersKept DEF Still
<1>. QED
  BY <1>1, <1>2, <1>5 DEF Moved, Still

\* push takes a free node in its hands.
LEMMA PushStartMoves ==
  ASSUME Walks, Walks', Typed, Lists, Placed, NEW t \in Thread, NEW o \in Obj, PushStart(t, o), \A u \in Thread \ {t} : Same(u)
  PROVE  /\ Moved(t, Items, {o}) /\ Held(t) = {}
         /\ status[o] = "free" /\ status' = [status EXCEPT ![o] = "linked"]
<1>1. /\ m_Top' = m_Top /\ next' = [next EXCEPT ![o] = nullptr]
      /\ status[o] = "free" /\ status' = [status EXCEPT ![o] = "linked"]
  BY DEF PushStart, SMR!Publish
<1>2. Keep(t) = nullptr /\ Cut(t) = nullptr /\ Keep(t)' = o /\ Cut(t)' = nullptr
  BY DEF PushStart, Goto, Typed, Keep, Keeps, Fresh, Cut
<1>3. o \notin Elems(Items) /\ \A u \in Thread : o \notin Held(u)
  BY <1>1, Nowhere
<1>4. \A x \in Obj \ {o} : next'[x] = next[x]
  BY <1>1 DEF Typed
<1>5. \A x \in Elems(Items) : next'[x] = next[x]
  BY <1>3, <1>4, ElemsObj DEF Lists
<1>5a. Items' = Items /\ IsList(next', m_Top', Items)
  BY <1>1, <1>5, StackKept
<1>6. Held(t) = {} /\ Held(t)' = {o} /\ IsList(next, Cut(t), List(Cut(t)))'
  BY <1>2, HeldOne, HeldOneNext, ConstantsAssumption
<1>7. \A u \in Thread \ {t} : Held(u)' = Held(u) /\ IsList(next, Cut(u), List(Cut(u)))'
  BY <1>3, <1>4, OthersKept
<1>. QED
  BY <1>1, <1>5, <1>5a, <1>6, <1>7 DEF Moved

\* A push or a pop that is still alone with its node writes to it.
LEMMA WriteMoves ==
  ASSUME Walks, Walks', Typed, Control, Lists, Placed, NEW t \in Thread, PushCasFail(t) \/ PopUnlink(t),
         \A u \in Thread \ {t} : Same(u)
  PROVE  Moved(t, Items, Held(t)) /\ val[t] \in Held(t) /\ UNCHANGED status
<1>0. Doing(t)
  BY DEF Control
<1>1. /\ m_Top' = m_Top /\ \A x \in Obj \ {val[t]} : next'[x] = next[x]
      /\ UNCHANGED status /\ val[t] \in Obj
  BY <1>0 DEF PushCasFail, PopUnlink, Typed, Doing, gcVars
<1>2. Keep(t) = val[t] /\ Cut(t) = nullptr /\ Keep(t)' = val[t] /\ Cut(t)' = nullptr
  <2>1. CASE PushCasFail(t)
    BY <1>0, <2>1 DEF PushCasFail, Goto, Typed, Doing, Keep, Keeps, Fresh, Cut
  <2>2. CASE PopUnlink(t)
    BY <1>0, <2>2 DEF PopUnlink, Goto, Typed, Doing, Keep, Keeps, Fresh, Cut, locals
  <2>. QED
    BY <2>1, <2>2
<1>3. Held(t) = {val[t]} /\ Held(t)' = {val[t]} /\ IsList(next, Cut(t), List(Cut(t)))'
  BY <1>1, <1>2, HeldOne, HeldOneNext
<1>4. val[t] \notin Elems(Items) /\ \A u \in Thread \ {t} : val[t] \notin Held(u)
  BY <1>3, InHands
<1>4a. \A x \in Elems(Items) : next'[x] = next[x]
  BY <1>1, <1>4, ElemsObj DEF Lists
<1>5. Items' = Items /\ IsList(next', m_Top', Items)
  BY <1>1, <1>4a, StackKept
<1>6. \A u \in Thread \ {t} : Held(u)' = Held(u) /\ IsList(next, Cut(u), List(Cut(u)))'
  BY <1>1, <1>4, OthersKept
<1>. QED
  BY <1>1, <1>3, <1>4a, <1>5, <1>6 DEF Moved

\* The exchange of a push puts its node in front of the stack.
LEMMA PushCasMoves ==
  ASSUME Walks, Walks', Typed, Control, Lists, Placed, NEW t \in Thread, PushCas(t), \A u \in Thread \ {t} : Same(u)
  PROVE  /\ Moved(t, <<val[t]>> \o Items, {})
         /\ Held(t) = {val[t]} /\ Elems(<<val[t]>> \o Items) = Elems(Items) \cup {val[t]}
         /\ UNCHANGED status
<1>0. Doing(t)
  BY DEF Control
<1>1. /\ next' = [next EXCEPT ![val[t]] = m_Top] /\ m_Top' = val[t] /\ val[t] \in Obj
      /\ UNCHANGED status
  BY <1>0 DEF PushCas, Doing, gcVars
<1>2. Keep(t) = val[t] /\ Cut(t) = nullptr /\ Keep(t)' = nullptr /\ Cut(t)' = nullptr
  BY <1>0 DEF PushCas, Goto, Typed, Doing, Keep, Keeps, Fresh, Cut, locals
<1>3. Held(t) = {val[t]} /\ Held(t)' = {} /\ IsList(next, Cut(t), List(Cut(t)))'
  BY <1>1, <1>2, HeldOne, HeldOneNext, ConstantsAssumption
<1>4. val[t] \notin Elems(Items) /\ \A u \in Thread \ {t} : val[t] \notin Held(u)
  BY <1>3, InHands
<1>5. PICK p : p = m_Top
  OBVIOUS
<1>6. PICK s : s = Items
  OBVIOUS
<1>7. PICK v \in Obj : v = val[t]
  BY <1>1
<1>8. IsList(next', p, s) /\ \A o \in Elems(s) : next'[o] = next[o]
  <2>1. IsList(next, p, s) /\ Elems(s) \subseteq Obj
    BY <1>5, <1>6, ElemsObj DEF Lists
  <2>2. \A o \in Elems(s) : next'[o] = next[o]
    BY <1>1, <1>4, <1>6, <2>1 DEF Typed
  <2>. QED
    BY <2>1, <2>2, ListFrame
<1>9. next'[v] = p /\ v \notin Elems(s)
  BY <1>1, <1>4, <1>5, <1>6, <1>7 DEF Typed
<1>10. IsList(next', v, <<v>> \o s) /\ Elems(<<v>> \o s) = Elems(s) \cup {v}
  BY SMT, <1>8, <1>9, ListCons
<1>11. Items' = <<v>> \o s
  <2>1. List(v)' = <<v>> \o s
    BY <1>10, ListIsNext
  <2>2. Items' = List(v)'
    BY <1>1, <1>7 DEF Items, List
  <2>. QED
    BY <2>1, <2>2
<1>12. \A u \in Thread \ {t} : Held(u)' = Held(u) /\ IsList(next, Cut(u), List(Cut(u)))'
  <2>1. \A o \in Obj \ {val[t]} : next'[o] = next[o]
    BY <1>1 DEF Typed
  <2>. QED
    BY <1>4, <2>1, OthersKept
<1>13. IsList(next', m_Top', <<v>> \o s)
  BY <1>1, <1>7, <1>10
<1>. QED
  BY <1>1, <1>3, <1>6, <1>7, <1>8, <1>10, <1>11, <1>12, <1>13 DEF Moved

\* The exchange of a pop succeeds only if the successor it has read is still right.
LEMMA PopCasMoves ==
  ASSUME Walks, Walks', Typed, Control, Lists, Placed, Confirmed, NEW t \in Thread, PopCas(t), \A u \in Thread \ {t} : Same(u)
  PROVE  /\ Moved(t, Tail(Items), {cur[t]}) /\ Held(t) = {}
         /\ Items # <<>> /\ cur[t] = Head(Items) /\ cur[t] \in Elems(Items)
         /\ Elems(Tail(Items)) = Elems(Items) \ {cur[t]}
         /\ UNCHANGED status
<1>0. Doing(t)
  BY DEF Control
<1>1. /\ pc[t] = "cas" /\ m_Top = cur[t] /\ m_Top' = nxt[t] /\ UNCHANGED <<next, status>>
      /\ cur[t] \in Obj
  BY <1>0 DEF PopCas, Doing, gcVars
<1>2. Keep(t) = nullptr /\ Cut(t) = nullptr /\ Keep(t)' = cur[t] /\ Cut(t)' = nullptr
  BY <1>0 DEF PopCas, Goto, Typed, Doing, Keep, Keeps, Fresh, Cut
<1>3. Held(t) = {} /\ Held(t)' = {cur[t]} /\ IsList(next, Cut(t), List(Cut(t)))'
  BY <1>1, <1>2, HeldOne, HeldOneNext, ConstantsAssumption
<1>4. PICK p \in Obj : p = m_Top
  BY <1>1
<1>5. PICK s : s = Items
  OBVIOUS
<1>6. IsList(next, p, s) /\ p # nullptr
  BY <1>4, <1>5, ConstantsAssumption DEF Lists
<1>7. /\ s # <<>> /\ Head(s) = p /\ p \in Elems(s) /\ Elems(Tail(s)) = Elems(s) \ {p}
      /\ IsList(next, next[p], Tail(s))
  BY <1>6, ListTail
<1>8. next[p] = nxt[t]
  BY <1>1, <1>4, <1>5, <1>7 DEF Confirmed
<1>9. PICK q : q = next[p]
  OBVIOUS
<1>10. IsList(next', q, Tail(s)) /\ List(q)' = Tail(s)
  BY <1>1, <1>7, <1>9, ListKept
<1>11. m_Top' = q
  BY <1>1, <1>8, <1>9
<1>12. Items' = Tail(s)
  BY <1>10, <1>11 DEF Items, List
<1>13. \A u \in Thread \ {t} : nullptr \notin Held(u)
  BY ConstantsAssumption DEF Held
<1>14. \A u \in Thread \ {t} : Held(u)' = Held(u) /\ IsList(next, Cut(u), List(Cut(u)))'
  BY <1>1, <1>13, OthersKept
<1>. QED
  BY <1>1, <1>3, <1>4, <1>5, <1>7, <1>10, <1>11, <1>12, <1>14 DEF Moved

\* pop gives the node it has read to the garbage collector.
LEMMA PopRetireMoves ==
  ASSUME Walks, Walks', Typed, Control, Lists, Placed, NEW t \in Thread, PopRetire(t), \A u \in Thread \ {t} : Same(u)
  PROVE  /\ Moved(t, Items, {}) /\ Held(t) = {val[t]} /\ val[t] \in Obj
         /\ status' = [status EXCEPT ![val[t]] = "retired"]
<1>0. Doing(t)
  BY DEF Control
<1>1. /\ pc[t] = "retire" /\ UNCHANGED <<m_Top, next>> /\ val[t] \in Obj
      /\ status' = [o \in Obj |-> CASE o = val[t] -> "retired" [] o = nullptr -> "linked" [] OTHER -> status[o]]
  BY <1>0 DEF PopRetire, SMR!Replace, Doing, stackVars
<1>2. status' = [status EXCEPT ![val[t]] = "retired"]
  BY <1>1, ConstantsAssumption DEF Typed
<1>3. Keep(t) = val[t] /\ Cut(t) = nullptr /\ Keep(t)' = nullptr /\ Cut(t)' = nullptr
  BY <1>0 DEF PopRetire, Return, Goto, Typed, Doing, Keep, Keeps, Fresh, Cut
<1>4. Held(t) = {val[t]} /\ Held(t)' = {} /\ IsList(next, Cut(t), List(Cut(t)))'
  BY <1>1, <1>3, HeldOne, HeldOneNext, ConstantsAssumption
<1>5. Items' = Items /\ IsList(next', m_Top', Items)
  BY <1>1, StackKept
<1>6. \A u \in Thread \ {t} : nullptr \notin Held(u)
  BY ConstantsAssumption DEF Held
<1>7. \A u \in Thread \ {t} : Held(u)' = Held(u) /\ IsList(next, Cut(u), List(Cut(u)))'
  BY <1>1, <1>6, OthersKept
<1>. QED
  BY <1>1, <1>2, <1>4, <1>5, <1>7 DEF Moved

\* clear cuts off what was the stack.
LEMMA ClearCasMoves ==
  ASSUME Walks, Walks', Typed, Control, Lists, Placed, NEW t \in Thread, ClearCas(t), \A u \in Thread \ {t} : Same(u)
  PROVE  /\ Moved(t, <<>>, Elems(Items)) /\ Held(t) = {} /\ Elems(<<>>) = {}
         /\ UNCHANGED status
<1>1. /\ pc[t] = "clear" /\ m_Top = cur[t] /\ m_Top' = nullptr /\ UNCHANGED <<next, status>>
  BY DEF ClearCas, gcVars
<1>2. Keep(t) = nullptr /\ Cut(t) = nullptr /\ Keep(t)' = nullptr /\ Cut(t)' = m_Top
  BY DEF ClearCas, Goto, Typed, Keep, Keeps, Fresh, Cut, locals
<1>3. Held(t) = {}
  BY <1>2, HeldOne, ConstantsAssumption
<1>4. PICK p : p = m_Top
  OBVIOUS
<1>5. PICK s : s = Items
  OBVIOUS
<1>6. IsList(next, p, s)
  BY <1>4, <1>5 DEF Lists
<1>7. IsList(next', p, s) /\ List(p)' = s
  BY <1>1, <1>6, ListKept
<1>8. Cut(t)' = p /\ List(Cut(t))' = s
  BY <1>2, <1>4, <1>7 DEF List
<1>9. IsList(next, Cut(t), List(Cut(t)))'
  BY <1>7, <1>8 DEF IsList
<1>10. Held(t)' = {o \in Obj : o = Keep(t)' \/ o \in Elems(List(Cut(t))')}
  BY DEF Held, Elems
<1>11. Elems(s) \subseteq Obj
  BY <1>6, ElemsObj
<1>12. Held(t)' = Elems(s)
  BY <1>2, <1>8, <1>10, <1>11, ConstantsAssumption
<1>13. Items' = <<>> /\ IsList(next', m_Top', <<>>) /\ Elems(<<>>) = {}
  <2>1. IsList(next', nullptr, <<>>) /\ List(nullptr)' = <<>> /\ Elems(<<>>) = {}
    BY ListNil, ListIsNext
  <2>2. Items' = List(nullptr)'
    BY <1>1 DEF Items, List
  <2>. QED
    BY <1>1, <2>1, <2>2
<1>14. \A u \in Thread \ {t} : nullptr \notin Held(u)
  BY ConstantsAssumption DEF Held
<1>15. \A u \in Thread \ {t} : Held(u)' = Held(u) /\ IsList(next, Cut(u), List(Cut(u)))'
  BY <1>1, <1>14, OthersKept
<1>. QED
  BY <1>1, <1>3, <1>5, <1>9, <1>12, <1>13, <1>15 DEF Moved

\* clear retires the first node of what it has cut off.
LEMMA ClearNodeMoves ==
  ASSUME Walks, Walks', Typed, Control, Lists, Placed, NEW t \in Thread, ClearNode(t), \A u \in Thread \ {t} : Same(u)
  PROVE  /\ Moved(t, Items, Held(t) \ {cur[t]}) /\ cur[t] \in Held(t)
         /\ status' = [status EXCEPT ![cur[t]] = "retired"]
<1>1. /\ pc[t] = "drain" /\ cur[t] # nullptr /\ m_Top' = m_Top /\ next' = [next EXCEPT ![cur[t]] = nullptr]
      /\ status' = [o \in Obj |-> CASE o = cur[t] -> "retired" [] o = nullptr -> "linked" [] OTHER -> status[o]]
  BY DEF ClearNode, SMR!Replace
<1>2. PICK p \in Obj : p = cur[t]
  BY <1>1 DEF Typed, Ptr
<1>3. status' = [status EXCEPT ![cur[t]] = "retired"]
  BY <1>1, <1>2, ConstantsAssumption DEF Typed
<1>4. Keep(t) = nullptr /\ Cut(t) = p /\ Keep(t)' = nullptr /\ Cut(t)' = next[p]
  BY <1>2 DEF ClearNode, Typed, Keep, Keeps, Fresh, Cut
<1>5. PICK s : s = List(p)
  OBVIOUS
<1>6. IsList(next, p, s) /\ p # nullptr
  BY <1>1, <1>2, <1>4, <1>5 DEF Lists
<1>7. IsList(next, next[p], Tail(s)) /\ p \in Elems(s) /\ Elems(Tail(s)) = Elems(s) \ {p}
  BY <1>6, ListTail
<1>8. PICK q : q = next[p]
  OBVIOUS
<1>9. Held(t) = Elems(s) /\ Elems(s) \subseteq Obj
  BY <1>4, <1>5, <1>6, ElemsObj, ConstantsAssumption DEF Held
<1>10. \A x \in Obj \ {p} : next'[x] = next[x]
  BY <1>1, <1>2 DEF Typed
<1>11. IsList(next', q, Tail(s)) /\ List(q)' = Tail(s)
  <2>1. \A o \in Elems(Tail(s)) : next'[o] = next[o]
    BY <1>7, <1>9, <1>10
  <2>. QED
    BY <1>7, <1>8, <2>1, ListKept
<1>12. Cut(t)' = q /\ List(Cut(t))' = Tail(s)
  BY <1>4, <1>8, <1>11 DEF List
<1>13. IsList(next, Cut(t), List(Cut(t)))'
  BY <1>11, <1>12 DEF IsList
<1>14. Held(t)' = {o \in Obj : o = Keep(t)' \/ o \in Elems(List(Cut(t))')}
  BY DEF Held, Elems
<1>15. Held(t)' = Held(t) \ {p} /\ p \in Held(t)
  BY <1>4, <1>7, <1>9, <1>12, <1>14, ConstantsAssumption
<1>16. p \notin Elems(Items) /\ \A u \in Thread \ {t} : p \notin Held(u)
  BY <1>15, InHands
<1>16a. \A x \in Elems(Items) : next'[x] = next[x]
  BY <1>10, <1>16, ElemsObj DEF Lists
<1>17. Items' = Items /\ IsList(next', m_Top', Items)
  BY <1>1, <1>16a, StackKept
<1>18. \A u \in Thread \ {t} : Held(u)' = Held(u) /\ IsList(next, Cut(u), List(Cut(u)))'
  BY <1>10, <1>16, OthersKept
<1>. QED
  BY <1>2, <1>3, <1>13, <1>15, <1>16a, <1>17, <1>18 DEF Moved

\* In a collision the node of the push goes to the pop.
LEMMA CollideMoves ==
  ASSUME Walks, Walks', Typed, Control, Lists, Placed, NEW t \in Thread, NEW k \in Slots, Collide(t, k)
  PROVE  /\ Items' = Items /\ Lists' /\ UNCHANGED <<m_Top, next, status, protects>>
         /\ \E a, b \in Thread :
              /\ a # b /\ op[a] = "push" /\ op[b] = "pop" /\ Fresh(a) /\ Wants(b)
              /\ ~Fresh(a)' /\ ~Fresh(b)' /\ pc'[a] # "cas" /\ pc'[b] # "cas"
              /\ Held(a) = {val[a]} /\ Held(b) = {} /\ Held(a)' = {} /\ Held(b)' = {val[a]}
              /\ \A u \in Thread \ {a, b} : Same(u) /\ Held(u)' = Held(u)
<1>1. PICK u \in Thread \ {t} :
           /\ pc[t] = "backoff" /\ pc[u] = "wait" /\ nStatus[u] = "waiting" /\ my[u] = k
           /\ ((op[t] = "push" /\ op[u] = "pop") \/ (op[t] = "pop" /\ op[u] = "push"))
           /\ \A w \in Thread \ {t, u} : Same(w)
           /\ UNCHANGED <<stackVars, m_ItemCounter, my, op, cur, nxt, gcVars>>
           /\ pRec' = [pRec EXCEPT ![k] = nullptr]
           /\ val' = IF op[t] = "push" THEN [val EXCEPT ![u] = val[t]] ELSE [val EXCEPT ![t] = val[u]]
           /\ nStatus' = [nStatus EXCEPT ![t] = "waiting", ![u] = "collided"]
           /\ pc' = [pc EXCEPT ![t] = IF op[t] = "push" THEN "eliminated" ELSE "return"]
  BY CollideFacts
<1>2. UNCHANGED <<m_Top, next, status, protects, op>>
  BY <1>1 DEF stackVars, gcVars
<1>3. PICK a \in {t, u}, b \in {t, u} : a # b /\ op[a] = "push" /\ op[b] = "pop"
  <2>1. CASE op[t] = "push" /\ op[u] = "pop"
    BY <2>1
  <2>2. CASE op[t] = "pop" /\ op[u] = "push"
    BY <2>2
  <2>. QED
    BY <1>1, <2>1, <2>2
<1>4. Doing(a) /\ Doing(b)
  BY <1>3 DEF Control
<1>5. /\ pc'[a] # "cas" /\ pc'[b] # "cas" /\ pc'[a] \notin {"reset", "drain"} /\ pc'[b] \notin {"reset", "drain"}
      /\ pc[a] \notin {"reset", "drain"} /\ pc[b] \notin {"reset", "drain"}
      /\ Fresh(a) /\ Wants(b) /\ ~Fresh(a)' /\ ~Fresh(b)' /\ ~Keeps(a)' /\ ~Keeps(b) /\ Keeps(b)'
  <2>1. CASE a = t /\ b = u
    BY <1>1, <1>3, <2>1 DEF Typed, Fresh, Wants, Keeps
  <2>2. CASE a = u /\ b = t
    BY <1>1, <1>3, <2>2 DEF Typed, Fresh, Wants, Keeps
  <2>. QED
    BY SMT, <1>3, <2>1, <2>2
<1>6. val'[b] = val[a] /\ val[a] \in Obj
  <2>1. CASE a = t /\ b = u
    BY <1>1, <1>3, <1>4, <2>1 DEF Typed, Doing
  <2>2. CASE a = u /\ b = t
    BY <1>1, <1>3, <1>4, <2>2 DEF Typed, Doing
  <2>. QED
    BY SMT, <1>3, <2>1, <2>2
<1>7. /\ Keep(a) = val[a] /\ Keep(b) = nullptr /\ Keep(a)' = nullptr /\ Keep(b)' = val[a]
      /\ Cut(a) = nullptr /\ Cut(b) = nullptr /\ Cut(a)' = nullptr /\ Cut(b)' = nullptr
  BY <1>5, <1>6 DEF Keep, Keeps, Cut
<1>8. /\ Held(a) = {val[a]} /\ Held(b) = {} /\ Held(a)' = {} /\ Held(b)' = {val[a]}
      /\ IsList(next, Cut(a), List(Cut(a)))' /\ IsList(next, Cut(b), List(Cut(b)))'
  BY SMT, <1>3, <1>6, <1>7, HeldOne, HeldOneNext, ConstantsAssumption
<1>9. ASSUME NEW w \in Thread \ {a, b} PROVE Same(w) /\ Held(w)' = Held(w) /\ IsList(next, Cut(w), List(Cut(w)))'
  <2>1. Same(w)
    BY <1>1, <1>3
  <2>2. Keep(w)' = Keep(w) /\ Cut(w)' = Cut(w)
    BY <2>1 DEF Same, Keep, Keeps, Fresh, Cut
  <2>. QED
    BY <1>2, <2>1, <2>2, HeldKept
<1>10. Items' = Items /\ IsList(next, m_Top, Items)'
  <2>1. Items' = Items /\ IsList(next', m_Top', Items')
    BY <1>2, StackKept
  <2>. QED
    BY <2>1 DEF IsList
<1>11. Lists'
  BY <1>8, <1>9, <1>10 DEF Lists
<1>12. a \in Thread /\ b \in Thread
  BY <1>3
<1>. QED
  BY <1>2, <1>3, <1>5, <1>8, <1>9, <1>10, <1>11, <1>12

\* A node in use is in the stack or in the hands of one thread.
LEMMA PlacedNext ==
  ASSUME Walks, Walks', Typed, Control, Lists, Placed, Confirmed, Kinds
  PROVE  Lists' /\ Placed'
<1>1. CASE UNCHANGED vars
  <2>1. UNCHANGED <<m_Top, next, nStatus, pc, op, val, cur, status>>
    BY <1>1 DEF vars, stackVars, locals, gcVars
  <2>2. Items' = Items /\ IsList(next', m_Top', Items')
    BY <2>1, StackKept
  <2>3. ASSUME NEW u \in Thread PROVE Held(u)' = Held(u) /\ IsList(next, Cut(u), List(Cut(u)))'
    <3>1. Keep(u)' = Keep(u) /\ Cut(u)' = Cut(u)
      BY <2>1 DEF Keep, Keeps, Fresh, Cut
    <3>. QED
      BY <2>1, <3>1, HeldKept
  <2>4. IsList(next, m_Top, Items)'
    BY <2>2 DEF IsList
  <2>5. Elems(Items)' = Elems(Items)
    BY <2>2 DEF Elems
  <2>. QED
    BY SMT, <2>1, <2>3, <2>4, <2>5 DEF Lists, Placed
<1>2. ASSUME NEW o \in Obj, Reclaim(o) PROVE Lists' /\ Placed'
  <2>1. UNCHANGED <<m_Top, next, nStatus, pc, op, val, cur>> /\ status' = [status EXCEPT ![o] = "free"] /\ status[o] = "retired"
    BY <1>2, ReclaimFacts DEF stackVars, locals
  <2>2. Items' = Items /\ IsList(next', m_Top', Items')
    BY <2>1, StackKept
  <2>3. ASSUME NEW u \in Thread PROVE Held(u)' = Held(u) /\ IsList(next, Cut(u), List(Cut(u)))'
    <3>1. Keep(u)' = Keep(u) /\ Cut(u)' = Cut(u)
      BY <2>1 DEF Keep, Keeps, Fresh, Cut
    <3>. QED
      BY <2>1, <3>1, HeldKept
  <2>4. IsList(next, m_Top, Items)'
    BY <2>2 DEF IsList
  <2>5. Elems(Items)' = Elems(Items)
    BY <2>2 DEF Elems
  <2>6. \A x \in Obj : status'[x] = "linked" <=> status[x] = "linked"
    BY <2>1 DEF Typed
  <2>. QED
    BY SMT, <2>3, <2>4, <2>5, <2>6 DEF Lists, Placed
<1>3. ASSUME NEW t \in Thread, OneStep(t), UNCHANGED config PROVE Lists' /\ Placed'
  <2>0. \A u \in Thread \ {t} : Same(u)
    BY <1>3, OneControl
  <2>a. \A u \in Thread \ {t} : (Elems(Items) \cup Held(t)) \cap Held(u) = {}
    BY DEF Placed
  <2>b. Elems(Items) \cap Held(t) = {} /\ \A o \in Obj : o \in Elems(Items) \cup Held(t) => status[o] = "linked"
    BY DEF Placed
  <2>1. ASSUME NEW s, NEW H, Moved(t, s, H), UNCHANGED status, Elems(s) \cup H = Elems(Items) \cup Held(t), Elems(s) \cap H = {}
        PROVE  Lists' /\ Placed'
    <3>1. /\ Elems(Items') = Elems(s) /\ Held(t)' = H /\ \A u \in Thread \ {t} : Held(u)' = Held(u)
      BY <2>1 DEF Moved
    <3>2. \A u \in Thread \ {t} : (Elems(s) \cup H) \cap Held(u) = {}
      BY <2>1, <2>a
    <3>3. \A o \in Obj : status'[o] = "linked" <=>
             o \in Elems(s) \cup H \/ (status[o] = "linked" /\ o \notin Elems(Items) \cup Held(t))
      BY <2>1, <2>b
    <3>4. Placed'
      BY SMT, <2>1, <3>1, <3>2, <3>3, PlacedStep
    <3>. QED
      BY <2>1, <3>4, MovedLists
  <2>2. CASE Move(t)
    BY <2>0, <2>1, <2>2, <2>b, MoveStill, MoveMoves DEF Still
  <2>3. ASSUME NEW o \in Obj, PushStart(t, o) PROVE Lists' /\ Placed'
    <3>1. Moved(t, Items, {o}) /\ Held(t) = {} /\ status[o] = "free" /\ status' = [status EXCEPT ![o] = "linked"]
      BY <2>0, <2>3, PushStartMoves
    <3>2. o \notin Elems(Items) /\ \A u \in Thread : o \notin Held(u)
      BY <3>1, Nowhere
    <3>3. Elems(Items') = Elems(Items) /\ Held(t)' = {o} /\ \A u \in Thread \ {t} : Held(u)' = Held(u)
      BY <3>1 DEF Moved
    <3>4. \A u \in Thread \ {t} : (Elems(Items) \cup {o}) \cap Held(u) = {}
      BY <2>a, <3>2
    <3>5. \A x \in Obj : status'[x] = "linked" <=>
             x \in Elems(Items) \cup {o} \/ (status[x] = "linked" /\ x \notin Elems(Items) \cup Held(t))
      BY <2>b, <3>1 DEF Typed
    <3>6. Placed'
      BY SMT, <3>2, <3>3, <3>4, <3>5, PlacedStep
    <3>. QED
      BY <3>1, <3>6, MovedLists
  <2>4. CASE PushCasFail(t) \/ PopUnlink(t)
    BY <2>0, <2>1, <2>4, <2>b, WriteMoves
  <2>5. CASE PushCas(t)
    BY <2>0, <2>1, <2>5, PushCasMoves
  <2>6. CASE PopCas(t)
    BY <2>0, <2>1, <2>6, PopCasMoves
  <2>7. CASE ClearCas(t)
    BY <2>0, <2>1, <2>7, ClearCasMoves
  <2>8. ASSUME NEW x \in Obj, NEW H, Moved(t, Items, H), x \in Held(t), H = Held(t) \ {x}, status' = [status EXCEPT ![x] = "retired"]
        PROVE  Lists' /\ Placed'
    <3>1. Elems(Items') = Elems(Items) /\ Held(t)' = H /\ \A u \in Thread \ {t} : Held(u)' = Held(u)
      BY <2>8 DEF Moved
    <3>2. x \notin Elems(Items)
      BY <2>8, InHands
    <3>3. \A u \in Thread \ {t} : (Elems(Items) \cup H) \cap Held(u) = {}
      BY <2>a, <2>8
    <3>4. \A o \in Obj : status'[o] = "linked" <=>
             o \in Elems(Items) \cup H \/ (status[o] = "linked" /\ o \notin Elems(Items) \cup Held(t))
      BY <2>8, <2>b, <3>2 DEF Typed
    <3>5. Elems(Items) \cap H = {}
      BY <2>8, <2>b
    <3>6. Placed'
      BY SMT, <3>1, <3>3, <3>4, <3>5, PlacedStep
    <3>. QED
      BY <2>8, <3>6, MovedLists
  <2>9. CASE PopRetire(t)
    BY <2>0, <2>8, <2>9, PopRetireMoves
  <2>10. CASE ClearNode(t)
    <3>1. /\ Moved(t, Items, Held(t) \ {cur[t]}) /\ cur[t] \in Held(t)
          /\ status' = [status EXCEPT ![cur[t]] = "retired"]
      BY <2>0, <2>10, ClearNodeMoves
    <3>2. cur[t] \in Obj
      BY <3>1 DEF Held
    <3>. QED
      BY <2>8, <3>1, <3>2
  <2>. QED
    BY <1>3, <2>2, <2>3, <2>4, <2>5, <2>6, <2>7, <2>9, <2>10 DEF OneStep, PushStep, PopStep, ClearStep, Move
<1>4. ASSUME NEW t \in Thread, NEW k \in Slots, Collide(t, k) PROVE Lists' /\ Placed'
  <2>1. Items' = Items /\ Lists' /\ UNCHANGED status
    BY <1>4, CollideMoves
  <2>2. PICK a \in Thread, b \in Thread :
           /\ a # b /\ Held(a) = {val[a]} /\ Held(b) = {} /\ Held(a)' = {} /\ Held(b)' = {val[a]}
           /\ \A u \in Thread \ {a, b} : Held(u)' = Held(u)
    BY <1>4, CollideMoves
  <2>3. Elems(Items)' = Elems(Items)
    BY <2>1 DEF Elems
  <2>4. ASSUME NEW o \in Obj PROVE (\E u \in Thread : o \in Held(u)') <=> \E u \in Thread : o \in Held(u)
    BY <2>2
  <2>5. \A u \in Thread : Held(u)' \cap Elems(Items) = {}
    BY <2>2 DEF Placed
  <2>6. \A u, w \in Thread : u # w => Held(u)' \cap Held(w)' = {}
    <3> SUFFICES ASSUME NEW u \in Thread, NEW w \in Thread, u # w PROVE Held(u)' \cap Held(w)' = {}
      OBVIOUS
    <3>1. \A x, y \in Thread : x # y => Held(x) \cap Held(y) = {}
      BY DEF Placed
    <3>2. u = a \/ w = a => Held(u)' \cap Held(w)' = {}
      BY <2>2
    <3>3. u = b /\ w # a => Held(u)' \cap Held(w)' = {}
      BY <2>2, <3>1
    <3>4. w = b /\ u # a => Held(u)' \cap Held(w)' = {}
      BY <2>2, <3>1
    <3>5. u \notin {a, b} /\ w \notin {a, b} => Held(u)' \cap Held(w)' = {}
      BY <2>2, <3>1
    <3>. QED
      BY <3>2, <3>3, <3>4, <3>5
  <2>7. \A o \in Obj : status[o] = "linked" <=> o \in Elems(Items) \/ \E u \in Thread : o \in Held(u)
    BY DEF Placed
  <2>. QED
    BY <2>1, <2>3, <2>4, <2>5, <2>6, <2>7 DEF Placed
<1>. QED
  BY <1>1, <1>2, <1>3, <1>4 DEF Kinds

\* The stack is empty at the start and nobody has a node.
LEMMA PlacedInit == Walks /\ Init => Lists /\ Placed /\ Guarded /\ Confirmed
<1> SUFFICES ASSUME Walks, Init PROVE Lists /\ Placed /\ Guarded /\ Confirmed
  OBVIOUS
<1>1. /\ m_Top = nullptr /\ \A t \in Thread : pc[t] = "idle" /\ op[t] = "none" /\ protects[t] = nullptr
      /\ \A o \in Obj : status[o] = "free"
  BY DEF Init, SMR!Init
<1>2. Items = <<>> /\ IsList(next, m_Top, Items) /\ Elems(Items) = {}
  BY <1>1, ListNil DEF Items, Walks
<1>3. \A t \in Thread : Keep(t) = nullptr /\ Cut(t) = nullptr
  BY <1>1 DEF Keep, Keeps, Fresh, Cut
<1>4. \A t \in Thread : Held(t) = {} /\ IsList(next, Cut(t), List(Cut(t)))
  BY ZenonT(60), <1>3, HeldOne, ConstantsAssumption
<1>. QED
  BY SMT, <1>1, <1>2, <1>4 DEF Lists, Placed, Guarded, Confirmed

\* The node of a push that has not linked it yet is in its hands.
LEMMA FreshHeld ==
  ASSUME Control, NEW t \in Thread, Fresh(t)
  PROVE  val[t] \in Obj /\ val[t] \in Held(t)
<1>1. val[t] \in Obj
  BY DEF Control, Doing, Fresh
<1>2. Keep(t) = val[t]
  BY DEF Keep, Keeps
<1>. QED
  BY <1>1, <1>2 DEF Held

\* No guard comes to protect another node, nothing is freed under one, and nothing becomes new.
LEMMA GuardedKept ==
  ASSUME Typed, Guarded, \A u \in Thread : protects'[u] \in {protects[u], nullptr},
         \A o \in Obj : status'[o] = "free" => status[o] = "free" \/ \A u \in Thread : protects[u] # o,
         \A u \in Thread : Fresh(u)' => Fresh(u) /\ val'[u] = val[u]
  PROVE  Guarded'
<1> SUFFICES ASSUME NEW t \in Thread, protects'[t] # nullptr
             PROVE  status'[protects'[t]] # "free" /\ \A u \in Thread : Fresh(u)' => val'[u] # protects'[t]
  BY DEF Guarded
<1>1. protects'[t] = protects[t] /\ protects[t] # nullptr /\ protects[t] \in Obj
  BY DEF Typed, Ptr
<1>2. status[protects[t]] # "free" /\ \A u \in Thread : Fresh(u) => val[u] # protects[t]
  BY <1>1 DEF Guarded
<1>. QED
  BY <1>1, <1>2

\* Only a push makes a free node a new one, and only protect() sets a guard.
LEMMA GuardFacts ==
  ASSUME Typed, Control, NEW t \in Thread, OneStep(t), ~PopProtect(t), \A o \in Obj : ~PushStart(t, o)
  PROVE  /\ protects'[t] \in {protects[t], nullptr}
         /\ \A o \in Obj : status'[o] = "free" => status[o] = "free"
         /\ Fresh(t)' => Fresh(t) /\ val'[t] = val[t]
<1>0. Doing(t)
  BY DEF Control
<1>1. CASE Move(t)
  <2>1. Still(t)
    BY <1>1, MoveStill
  <2>2. protects'[t] \in {protects[t], nullptr}
    <3>1. CASE PopAssign(t) \/ PopReturn(t)
      BY <3>1 DEF PopAssign, PopReturn, SMR!Release
    <3>2. CASE ~(PopAssign(t) \/ PopReturn(t))
      <4>1. UNCHANGED protects
        BY <1>1, <3>2 DEF Move, PushCount, PushEliminated, PopStart, PopEmpty, PopNext, PopCasFail, PopCount,
             BackoffOnly, WaitCollided, WaitFailed, Wait, ClearStart, ClearLoad, ClearCasFail, ClearReset, ClearDone, gcVars
      <4>. QED
        BY <4>1
    <3>. QED
      BY <3>1, <3>2
  <2>. QED
    BY <2>1, <2>2 DEF Still
<1>2. CASE PushCas(t)
  BY <1>0, <1>2 DEF PushCas, Goto, Fresh, Doing, Typed, gcVars
<1>3. CASE PushCasFail(t)
  BY <1>0, <1>3 DEF PushCasFail, Goto, Fresh, Doing, Typed, gcVars
<1>4. CASE PopCas(t) \/ PopUnlink(t) \/ ClearCas(t)
  BY <1>0, <1>4 DEF PopCas, PopUnlink, ClearCas, Goto, Fresh, Doing, Typed, gcVars, locals
<1>5. CASE PopRetire(t)
  BY <1>0, <1>5 DEF PopRetire, Return, Goto, SMR!Replace, Fresh, Doing, Typed
<1>6. CASE ClearNode(t)
  BY <1>0, <1>6 DEF ClearNode, SMR!Replace, Fresh, Doing, Typed
<1>. QED
  BY <1>1, <1>2, <1>3, <1>4, <1>5, <1>6 DEF OneStep, PushStep, PopStep, ClearStep, Move

\* A node under a guard is not freed, and no push has it.
LEMMA GuardedNext ==
  ASSUME Walks, Walks', Typed, Control, Lists, Placed, Guarded, Kinds
  PROVE  Guarded'
<1>1. CASE UNCHANGED vars
  <2>1. UNCHANGED <<nStatus, pc, op, val, status, protects>>
    BY <1>1 DEF vars, locals, gcVars
  <2>. QED
    BY <2>1 DEF Guarded, Fresh
<1>2. ASSUME NEW o \in Obj, Reclaim(o) PROVE Guarded'
  <2>1. /\ UNCHANGED <<nStatus, pc, op, val, protects>> /\ status' = [status EXCEPT ![o] = "free"]
        /\ \A u \in Thread : protects[u] # o
    BY <1>2, ReclaimFacts DEF locals
  <2>2. \A x \in Obj : status'[x] = "free" => status[x] = "free" \/ \A u \in Thread : protects[u] # x
    BY <2>1 DEF Typed
  <2>3. \A u \in Thread : Fresh(u)' => Fresh(u) /\ val'[u] = val[u]
    BY <2>1 DEF Fresh
  <2>. QED
    BY <2>1, <2>2, <2>3, GuardedKept
<1>3. ASSUME NEW t \in Thread, OneStep(t), UNCHANGED config PROVE Guarded'
  <2>0. \A u \in Thread \ {t} : Same(u)
    BY <1>3, OneControl
  <2>1. \A u \in Thread \ {t} : (Fresh(u)' <=> Fresh(u)) /\ val'[u] = val[u] /\ protects'[u] = protects[u]
    BY <2>0 DEF Same, Fresh
  <2>2. ASSUME NEW o \in Obj, PushStart(t, o) PROVE Guarded'
    <3>1. /\ status[o] = "free" /\ status' = [status EXCEPT ![o] = "linked"] /\ protects' = protects
          /\ val'[t] = o
      BY <2>2 DEF PushStart, SMR!Publish, Typed
    <3> SUFFICES ASSUME NEW u \in Thread, protects[u] # nullptr
                 PROVE  status'[protects[u]] # "free" /\ \A w \in Thread : Fresh(w)' => val'[w] # protects[u]
      BY <3>1 DEF Guarded
    <3>2. protects[u] \in Obj /\ status[protects[u]] # "free" /\ \A w \in Thread : Fresh(w) => val[w] # protects[u]
      BY DEF Guarded, Typed, Ptr
    <3>3. protects[u] # o
      BY <3>1, <3>2
    <3>. QED
      BY <2>1, <3>1, <3>2, <3>3 DEF Typed
  <2>3. CASE PopProtect(t)
    <3>1. Still(t)
      BY <2>3, MoveStill DEF Move
    <3>2. m_Top # nullptr /\ protects'[t] = m_Top
      BY <2>3 DEF PopProtect, SMR!Protect, Typed
    <3>3. m_Top \in Elems(Items) /\ m_Top \in Obj
      BY <3>2, ListTail DEF Lists
    <3>4. status[m_Top] = "linked" /\ \A u \in Thread : m_Top \notin Held(u)
      BY <3>3 DEF Placed
    <3>5. \A u \in Thread : Fresh(u) => val[u] # m_Top
      BY <3>4, FreshHeld
    <3>6. \A u \in Thread : Fresh(u)' => Fresh(u) /\ val'[u] = val[u]
      BY <2>1, <3>1 DEF Still
    <3> SUFFICES ASSUME NEW u \in Thread, protects'[u] # nullptr
                 PROVE  status[protects'[u]] # "free" /\ \A w \in Thread : Fresh(w)' => val'[w] # protects'[u]
      BY <3>1 DEF Guarded, Still
    <3>7. CASE u = t
      BY <3>2, <3>4, <3>5, <3>6, <3>7
    <3>8. CASE u # t
      BY <2>1, <3>6, <3>8 DEF Guarded
    <3>. QED
      BY <3>7, <3>8
  <2>4. CASE ~PopProtect(t) /\ \A o \in Obj : ~PushStart(t, o)
    <3>1. /\ protects'[t] \in {protects[t], nullptr}
          /\ \A o \in Obj : status'[o] = "free" => status[o] = "free"
          /\ Fresh(t)' => Fresh(t) /\ val'[t] = val[t]
      BY <1>3, <2>4, GuardFacts
    <3>. QED
      BY <2>1, <3>1, GuardedKept
  <2>. QED
    BY <2>2, <2>3, <2>4
<1>4. ASSUME NEW t \in Thread, NEW k \in Slots, Collide(t, k) PROVE Guarded'
  <2>1. UNCHANGED <<status, protects>>
    BY <1>4, CollideMoves
  <2>2. PICK a \in Thread, b \in Thread : ~Fresh(a)' /\ ~Fresh(b)' /\ \A u \in Thread \ {a, b} : Same(u)
    BY <1>4, CollideMoves
  <2>3. \A u \in Thread : Fresh(u)' => Fresh(u) /\ val'[u] = val[u]
    BY <2>2 DEF Same, Fresh
  <2>. QED
    BY <2>1, <2>3, GuardedKept
<1>. QED
  BY <1>1, <1>2, <1>3, <1>4 DEF Kinds

\* A pop comes to its exchange from its load of the successor.
LEMMA CasEntered ==
  ASSUME Typed, NEW t \in Thread, OneStep(t), pc'[t] = "cas"
  PROVE  PopNext(t)
<1>1. CASE PushStep(t)
  BY <1>1 DEF PushStep, PushStart, PushCas, PushCasFail, PushCount, PushEliminated, Return, Goto, Typed
<1>2. CASE PopStep(t)
  BY <1>2 DEF PopStep, PopStart, PopAssign, PopProtect, PopEmpty, PopCas, PopCasFail, PopUnlink, PopCount,
              PopReturn, PopRetire, Return, Goto, Typed
<1>3. CASE ClearStep(t)
  BY <1>3 DEF ClearStep, ClearStart, ClearLoad, ClearCas, ClearCasFail, ClearReset, ClearNode, ClearDone, Return, Goto, Typed
<1>4. CASE BackoffOnly(t) \/ WaitCollided(t) \/ WaitFailed(t) \/ \E k \in Slots : Wait(t, k)
  BY <1>4 DEF BackoffOnly, WaitCollided, WaitFailed, Wait, Again, Eliminated, Goto, Typed
<1>. QED
  BY <1>1, <1>2, <1>3, <1>4 DEF OneStep

\* A pop at its exchange has the right successor, or its node has left the stack for
\* good: nobody can push it again while it is under the guard.
LEMMA ConfirmedNext ==
  ASSUME Walks, Walks', Typed, Control, Lists, Placed, Guarded, Confirmed, Kinds
  PROVE  Confirmed'
<1>1. CASE UNCHANGED vars
  <2>1. UNCHANGED <<m_Top, next, pc, cur, nxt>>
    BY <1>1 DEF vars, stackVars, locals
  <2>2. Items' = Items
    BY <2>1, StackKept
  <2>. QED
    BY <2>1, <2>2 DEF Confirmed, Elems
<1>2. ASSUME NEW o \in Obj, Reclaim(o) PROVE Confirmed'
  <2>1. UNCHANGED <<m_Top, next, pc, cur, nxt>>
    BY <1>2, ReclaimFacts DEF stackVars, locals
  <2>2. Items' = Items
    BY <2>1, StackKept
  <2>. QED
    BY <2>1, <2>2 DEF Confirmed, Elems
<1>3. ASSUME NEW t \in Thread, OneStep(t), UNCHANGED config PROVE Confirmed'
  <2>0. \A u \in Thread \ {t} : Same(u)
    BY <1>3, OneControl
  <2>1. ASSUME NEW s, NEW H, Moved(t, s, H),
               \A u \in Thread \ {t} : pc[u] = "cas" /\ cur[u] \in Elems(s) => cur[u] \in Elems(Items)
        PROVE  Confirmed'
    <3> SUFFICES ASSUME NEW u \in Thread, pc'[u] = "cas", cur'[u] \in Elems(Items') PROVE next'[cur'[u]] = nxt'[u]
      BY DEF Confirmed, Elems
    <3>1. Items' = s /\ \A o \in Elems(Items) : next'[o] = next[o]
      BY <2>1 DEF Moved
    <3>2. CASE u = t
      <4>1. PopNext(t)
        BY <1>3, <3>2, CasEntered
      <4>. QED
        BY <3>2, <4>1 DEF PopNext, Typed, stackVars
    <3>3. CASE u # t
      <4>1. pc[u] = "cas" /\ cur'[u] = cur[u] /\ nxt'[u] = nxt[u]
        BY <2>0, <3>3 DEF Same
      <4>2. cur[u] \in Elems(Items)
        BY <2>1, <3>1, <3>3, <4>1
      <4>. QED
        BY <3>1, <4>1, <4>2 DEF Confirmed
    <3>. QED
      BY <3>2, <3>3
  <2>2. CASE Move(t)
    BY <2>0, <2>1, <2>2, MoveStill, MoveMoves
  <2>3. ASSUME NEW o \in Obj, PushStart(t, o) PROVE Confirmed'
    BY <2>0, <2>1, <2>3, PushStartMoves
  <2>4. CASE PushCasFail(t) \/ PopUnlink(t)
    BY <2>0, <2>1, <2>4, WriteMoves
  <2>5. CASE PushCas(t)
    <3>1. Moved(t, <<val[t]>> \o Items, {}) /\ Elems(<<val[t]>> \o Items) = Elems(Items) \cup {val[t]}
      BY <2>0, <2>5, PushCasMoves
    <3>2. Fresh(t)
      BY <2>5 DEF PushCas, Fresh, Control, Doing
    <3>3. ASSUME NEW u \in Thread, pc[u] = "cas" PROVE cur[u] # val[t]
      <4>1. protects[u] = cur[u] /\ protects[u] # nullptr
        BY <3>3, ConstantsAssumption DEF Control, Doing
      <4>. QED
        BY <3>2, <4>1 DEF Guarded
    <3>. QED
      BY <2>1, <3>1, <3>3
  <2>6. CASE PopCas(t)
    <3>1. Moved(t, Tail(Items), {cur[t]}) /\ Elems(Tail(Items)) = Elems(Items) \ {cur[t]}
      BY <2>0, <2>6, PopCasMoves
    <3>. QED
      BY <2>1, <3>1
  <2>7. CASE ClearCas(t)
    <3>1. Moved(t, <<>>, Elems(Items)) /\ Elems(<<>>) = {}
      BY <2>0, <2>7, ClearCasMoves
    <3>. QED
      BY <2>1, <3>1
  <2>8. CASE PopRetire(t)
    BY <2>0, <2>1, <2>8, PopRetireMoves
  <2>9. CASE ClearNode(t)
    BY <2>0, <2>1, <2>9, ClearNodeMoves
  <2>. QED
    BY <1>3, <2>2, <2>3, <2>4, <2>5, <2>6, <2>7, <2>8, <2>9 DEF OneStep, PushStep, PopStep, ClearStep, Move
<1>4. ASSUME NEW t \in Thread, NEW k \in Slots, Collide(t, k) PROVE Confirmed'
  <2>1. Items' = Items /\ UNCHANGED <<m_Top, next, status, protects>>
    BY <1>4, CollideMoves
  <2>2. PICK a \in Thread, b \in Thread : pc'[a] # "cas" /\ pc'[b] # "cas" /\ \A u \in Thread \ {a, b} : Same(u)
    BY <1>4, CollideMoves
  <2>3. Elems(Items)' = Elems(Items)
    BY <2>1 DEF Elems
  <2>. QED
    BY SMT, <2>1, <2>2, <2>3 DEF Confirmed, Same
<1>. QED
  BY <1>1, <1>2, <1>3, <1>4 DEF Kinds

\* The inductive invariant.
Inv == Typed /\ Control /\ Lists /\ Placed /\ Guarded /\ Confirmed

-----------------------------------------------------------------------------
(* Calls, as AtomicStack sees them *)

\* The operation has taken effect.
Done(t) == pc[t] \in {"pushed", "eliminated", "unlink", "popped", "return", "retire", "reset", "drain"} \/ Collided(t)

\* A call, and a call before and after it has taken effect.
Rec(o, d, v) == [op |-> o, done |-> d, val |-> v]
Open(o, v) == Rec(o, FALSE, v)
Closed(o, v) == Rec(o, TRUE, v)

\* What AtomicStack sees of t.
CallOf(t) ==
  IF pc[t] = "idle" THEN Open("none", nullptr)
  ELSE Rec(op[t], Done(t), IF op[t] = "push" \/ (op[t] = "pop" /\ Done(t)) THEN val[t] ELSE nullptr)

\* f is a function of the threads, and what it is with r for t.
Calls(f) == f = [x \in Thread |-> f[x]]
Put(f, t, r) == [x \in Thread |-> IF x = t THEN r ELSE f[x]]

\* One field of a call is set.
Finish(r) == [r EXCEPT !.done = TRUE]
Give(r, w) == [r EXCEPT !.val = w]

\* The three forms in which AtomicStack updates the calls.
SetDone(f, t) == [f EXCEPT ![t].done = TRUE]
SetVal(f, t, w) == [f EXCEPT ![t].done = TRUE, ![t].val = w]
SetPair(f, t, u, w) == [f EXCEPT ![t].done = TRUE, ![u].done = TRUE, ![u].val = w]

\* The call that AtomicStack begins, before it has its argument.
WithOp(p) == [AS!Idle EXCEPT !.op = p]

\* A call begins.
LEMMA RecOp ==
  ASSUME NEW p
  PROVE  WithOp(p) = Open(p, nullptr)
<1>1. WithOp(p) \in [op : {p}, done : {FALSE}, val : {nullptr}]
  BY DEF Open, Closed, Rec, WithOp, AS!Idle
<1>. QED
  BY <1>1 DEF Open, Closed, Rec

\* A call takes effect.
LEMMA RecDone ==
  ASSUME NEW o, NEW v
  PROVE  Finish(Open(o, v)) = Closed(o, v)
<1>1. Finish(Open(o, v)) \in [op : {o}, done : {TRUE}, val : {v}]
  BY DEF Open, Closed, Rec, Finish
<1>. QED
  BY <1>1 DEF Open, Closed, Rec

\* A call takes effect and gets its result.
LEMMA RecVal ==
  ASSUME NEW o, NEW v, NEW w
  PROVE  Give(Closed(o, v), w) = Closed(o, w)
<1>1. Give(Closed(o, v), w) \in [op : {o}, done : {TRUE}, val : {w}]
  BY DEF Open, Closed, Rec, Give
<1>. QED
  BY <1>1 DEF Open, Closed, Rec

\* The same in the function of the calls.
LEMMA PutOne ==
  ASSUME NEW f, Calls(f), NEW t \in Thread, NEW o, NEW v, NEW w, f[t] = Open(o, v)
  PROVE  /\ SetDone(f, t) = Put(f, t, Closed(o, v))
         /\ SetVal(f, t, w) = Put(f, t, Closed(o, w))
<1>1. Finish(f[t]) = Closed(o, v)
  BY RecDone
<1>2. SetDone(f, t) = Put(f, t, Finish(f[t]))
  BY DEF Calls, SetDone, SetVal, SetPair, Put, Finish
<1>3. Give(Closed(o, v), w) = Closed(o, w)
  BY RecVal
<1>4. SetVal(f, t, w) = Put(f, t, Give(Finish(f[t]), w))
  BY DEF Calls, SetDone, SetVal, SetPair, Put, Finish, Give
<1>. QED
  BY <1>1, <1>2, <1>3, <1>4

\* A push and a pop take effect together.
LEMMA PutPair ==
  ASSUME NEW f, Calls(f), NEW t \in Thread, NEW u \in Thread, t # u, NEW o, NEW p, NEW v, NEW w, NEW z,
         f[t] = Open(o, v), f[u] = Open(p, w)
  PROVE  SetPair(f, t, u, z) = Put(Put(f, t, Closed(o, v)), u, Closed(p, z))
<1>1. Finish(f[t]) = Closed(o, v) /\ Finish(f[u]) = Closed(p, w)
  BY RecDone
<1>3. Give(Closed(p, w), z) = Closed(p, z)
  BY RecVal
<1>4. SetPair(f, t, u, z) = Put(Put(f, t, Finish(f[t])), u, Give(Finish(f[u]), z))
  BY DEF Calls, SetDone, SetVal, SetPair, Put, Finish, Give
<1>. QED
  BY <1>1, <1>3, <1>4

\* The refinement mapping, call by call.
LEMMA CallIs == call = [t \in Thread |-> CallOf(t)]
  BY DEF call, CallOf, Open, Rec, Done

\* The same, after the step.
LEMMA CallNext == call' = [t \in Thread |-> CallOf(t)']
<1>1. (call = [t \in Thread |-> CallOf(t)])'
  BY CallIs, PTL
<1>. QED
  BY <1>1

\* A thread that does not move has the same call.
LEMMA CallSame ==
  ASSUME NEW u \in Thread, Same(u)
  PROVE  CallOf(u)' = CallOf(u)
  BY DEF Same, CallOf, Done, Collided, Open, Closed, Rec

\* What a step of one thread makes of the calls.
LEMMA CallStep ==
  ASSUME NEW t \in Thread, \A u \in Thread \ {t} : Same(u), NEW r, CallOf(t)' = r
  PROVE  /\ call[t] = CallOf(t)
         /\ call' = [call EXCEPT ![t] = r]
<1>1. \A u \in Thread \ {t} : CallOf(u)' = CallOf(u)
  BY CallSame
<1> HIDE DEF CallOf
<1>. QED
  BY <1>1, CallIs, CallNext

\* AtomicStack sees nothing.
LEMMA StepStutters ==
  ASSUME NEW t \in Thread, \A u \in Thread \ {t} : Same(u), CallOf(t)' = CallOf(t), Items' = Items
  PROVE  UNCHANGED <<Items, call>>
<1>1. call' = [call EXCEPT ![t] = CallOf(t)] /\ call[t] = CallOf(t)
  BY CallStep
<1>2. call' = call
  BY <1>1, CallIs
<1>. QED
  BY <1>2

\* AtomicStack sees a call begin.
LEMMA StepBegins ==
  ASSUME NEW t \in Thread, \A u \in Thread \ {t} : Same(u), Items' = Items, pc[t] = "idle",
         \/ \E o \in Obj : CallOf(t)' = Open("push", o)
         \/ \E p \in {"pop", "clear"} : CallOf(t)' = Open(p, nullptr)
  PROVE  AS!Next
<1>1. call[t] = Open("none", nullptr)
  BY CallIs DEF CallOf
<1>2. \A r : CallOf(t)' = r => call' = [call EXCEPT ![t] = r]
  BY CallStep
<1>3. AS!Begin(t)
  <2>1. ASSUME NEW o \in Obj, CallOf(t)' = Open("push", o) PROVE AS!Begin(t)
    BY <1>1, <1>2, <2>1 DEF AS!Begin, AS!Idle, Open, Closed, Rec
  <2>2. ASSUME NEW p \in {"pop", "clear"}, CallOf(t)' = Open(p, nullptr) PROVE AS!Begin(t)
    <3>0. AS!Idle = Open("none", nullptr)
      BY DEF AS!Idle, Open, Closed, Rec
    <3>1. [AS!Idle EXCEPT !.op = p] = Open(p, nullptr)
      BY RecOp DEF WithOp
    <3>2. call[t] = AS!Idle
      BY <1>1 DEF AS!Idle, Open, Closed, Rec
    <3>3. call' = [call EXCEPT ![t] = [AS!Idle EXCEPT !.op = p]]
      BY <1>2, <2>2, <3>1
    <3>. QED
      BY <3>2, <3>3 DEF AS!Begin
  <2>. QED
    BY <2>1, <2>2
<1>. QED
  BY <1>3 DEF AS!Next

\* AtomicStack sees a call return.
LEMMA StepEnds ==
  ASSUME NEW t \in Thread, \A u \in Thread \ {t} : Same(u), Items' = Items, pc[t] # "idle", Done(t), pc'[t] = "idle"
  PROVE  AS!Next
<1>1. call[t].done
  BY CallIs DEF CallOf, Open, Closed, Rec
<1>2. CallOf(t)' = Open("none", nullptr)
  BY DEF CallOf, Open, Closed, Rec
<1>3. call' = [call EXCEPT ![t] = Open("none", nullptr)]
  BY <1>2, CallStep
<1>4. AS!End(t)
  BY <1>1, <1>3 DEF AS!End, AS!Idle, Open, Closed, Rec
<1>. QED
  BY <1>4 DEF AS!Next

\* push, pop, an empty pop or clear takes effect.
LEMMA StepActs ==
  ASSUME NEW t \in Thread, \A u \in Thread \ {t} : Same(u), NEW o, NEW v, NEW w,
         CallOf(t) = Open(o, v), CallOf(t)' = Closed(o, w),
         \/ o = "push" /\ w = v /\ Items' = <<v>> \o Items
         \/ o = "pop" /\ Items # <<>> /\ w = Head(Items) /\ Items' = Tail(Items)
         \/ o = "pop" /\ Items = <<>> /\ w = v /\ Items' = Items
         \/ o = "clear" /\ w = v /\ Items' = <<>>
  PROVE  AS!Next
<1>1. call[t] = Open(o, v) /\ call' = [call EXCEPT ![t] = Closed(o, w)]
  BY CallStep
<1>2. call = [u \in Thread |-> CallOf(u)]
  BY CallIs
<1> HIDE DEF CallOf
<1>3. call' = Put(call, t, Closed(o, w))
  BY <1>1, <1>2 DEF Put
<1>4. SetDone(call, t) = Put(call, t, Closed(o, v)) /\ SetVal(call, t, w) = Put(call, t, Closed(o, w))
  <2>1. Calls(call)
    BY <1>2 DEF Calls
  <2>. QED
    BY SMT, <1>1, <2>1, PutOne
<1>5. call[t].op = o /\ ~call[t].done /\ call[t].val = v
  BY SMT, <1>1 DEF Open, Closed, Rec
<1>6. CASE o = "push" /\ w = v /\ Items' = <<v>> \o Items
  <2>1. AS!Push(t)
    BY <1>3, <1>4, <1>5, <1>6 DEF SetDone, AS!Push, AS!Pending
  <2>. QED
    BY <2>1 DEF AS!Next
<1>7. CASE o = "pop" /\ Items # <<>> /\ w = Head(Items) /\ Items' = Tail(Items)
  <2>1. AS!Pop(t)
    BY <1>3, <1>4, <1>5, <1>7 DEF SetVal, AS!Pop, AS!Pending
  <2>. QED
    BY <2>1 DEF AS!Next
<1>8. CASE o = "pop" /\ Items = <<>> /\ w = v /\ Items' = Items
  <2>1. AS!PopEmpty(t)
    BY <1>3, <1>4, <1>5, <1>8 DEF SetDone, AS!PopEmpty, AS!Pending
  <2>. QED
    BY <2>1 DEF AS!Next
<1>9. CASE o = "clear" /\ w = v /\ Items' = <<>>
  <2>1. AS!Clear(t)
    BY <1>3, <1>4, <1>5, <1>9 DEF SetDone, AS!Clear, AS!Pending
  <2>. QED
    BY <2>1 DEF AS!Next
<1>. QED
  BY <1>6, <1>7, <1>8, <1>9

\* A push and a pop collide and take effect together.
LEMMA StepPairs ==
  ASSUME NEW a \in Thread, NEW b \in Thread, a # b, \A u \in Thread \ {a, b} : Same(u), NEW v, NEW w,
         CallOf(a) = Open("push", v), CallOf(a)' = Closed("push", v),
         CallOf(b) = Open("pop", w), CallOf(b)' = Closed("pop", v), Items' = Items
  PROVE  AS!Next
<1>1. \A u \in Thread \ {a, b} : CallOf(u)' = CallOf(u)
  BY CallSame
<1>2. call = [u \in Thread |-> CallOf(u)] /\ call' = [u \in Thread |-> CallOf(u)']
  BY CallIs, CallNext
<1> HIDE DEF CallOf
<1>3. Calls(call) /\ call[a] = Open("push", v) /\ call[b] = Open("pop", w)
  BY <1>2 DEF Calls
<1>4. call' = Put(Put(call, a, Closed("push", v)), b, Closed("pop", v))
  BY <1>1, <1>2 DEF Put
<1>5. SetPair(call, a, b, v) = Put(Put(call, a, Closed("push", v)), b, Closed("pop", v))
  BY SMTT(40), <1>3, PutPair
<1>6. call[a].val = v /\ AS!Pending(a, "push") /\ AS!Pending(b, "pop")
  BY SMT, <1>3 DEF AS!Pending, Open, Rec
<1>7. AS!PushPop(a, b)
  BY <1>4, <1>5, <1>6 DEF AS!PushPop, SetPair
<1>. QED
  BY <1>7 DEF AS!Next

\* The value of a call before it has taken effect ...
Arg(t) == IF op[t] = "push" THEN val[t] ELSE nullptr

\* ... and after it.
Res(t) == IF op[t] \in {"push", "pop"} THEN val[t] ELSE nullptr

\* The call of a thread outside an operation, before its effect and after it.
LEMMA CallCases ==
  \A t \in Thread : /\ pc[t] = "idle" => CallOf(t) = Open("none", nullptr)
                    /\ pc[t] # "idle" /\ ~Done(t) => CallOf(t) = Open(op[t], Arg(t))
                    /\ Done(t) => CallOf(t) = Closed(op[t], Res(t))
<1> SUFFICES ASSUME NEW t \in Thread
             PROVE  /\ pc[t] = "idle" => CallOf(t) = Open("none", nullptr)
                    /\ pc[t] # "idle" /\ ~Done(t) => CallOf(t) = Open(op[t], Arg(t))
                    /\ Done(t) => CallOf(t) = Closed(op[t], Res(t))
  OBVIOUS
<1>1. pc[t] = "idle" => CallOf(t) = Open("none", nullptr)
  BY DEF CallOf
<1>2. ASSUME pc[t] # "idle", ~Done(t) PROVE CallOf(t) = Open(op[t], Arg(t))
  BY <1>2 DEF CallOf, Open, Rec, Arg, Done, Collided
<1>3. ASSUME Done(t) PROVE CallOf(t) = Closed(op[t], Res(t))
  <2>1. pc[t] # "idle"
    BY <1>3 DEF Done, Collided
  <2>. QED
    BY <1>3, <2>1 DEF CallOf, Closed, Rec, Res
<1>. QED
  BY <1>1, <1>2, <1>3

\* The same, after the step.
LEMMA CallCasesNext ==
  \A t \in Thread : /\ pc'[t] = "idle" => CallOf(t)' = Open("none", nullptr)
                    /\ pc'[t] # "idle" /\ ~Done(t)' => CallOf(t)' = Open(op'[t], Arg(t)')
                    /\ Done(t)' => CallOf(t)' = Closed(op'[t], Res(t)')
<1>1. (\A t \in Thread : /\ pc[t] = "idle" => CallOf(t) = Open("none", nullptr)
                         /\ pc[t] # "idle" /\ ~Done(t) => CallOf(t) = Open(op[t], Arg(t))
                         /\ Done(t) => CallOf(t) = Closed(op[t], Res(t)))'
  BY CallCases, PTL
<1>. QED
  BY <1>1 DEF Open, Closed, Rec

\* The call of t neither begins, nor takes effect, nor ends.
Silent(t) ==
  /\ pc[t] # "idle" /\ pc'[t] # "idle" /\ Done(t)' = Done(t)
  /\ op'[t] = op[t] /\ (val'[t] = val[t] \/ (op[t] = "pop" /\ ~Done(t)))

\* Such a step does not change the call.
LEMMA SilentSame ==
  ASSUME NEW t \in Thread, Silent(t)
  PROVE  CallOf(t)' = CallOf(t)
<1>1. CASE Done(t)
  <2>1. Done(t)' /\ op'[t] = op[t] /\ Res(t)' = Res(t)
    BY <1>1 DEF Silent, Res
  <2>. QED
    BY <1>1, <2>1, CallCases, CallCasesNext
<1>2. CASE ~Done(t)
  <2>1. ~Done(t)' /\ op'[t] = op[t] /\ Arg(t)' = Arg(t) /\ pc[t] # "idle" /\ pc'[t] # "idle"
    BY <1>2 DEF Silent, Arg
  <2>. QED
    BY <1>2, <2>1, CallCases, CallCasesNext
<1>. QED
  BY <1>1, <1>2

\* The steps between the call, the effect and the return.
Quiet(t) ==
  \/ PopAssign(t)
  \/ PopProtect(t)
  \/ PopNext(t)
  \/ PopCasFail(t)
  \/ PopCount(t)
  \/ BackoffOnly(t)
  \/ WaitCollided(t)
  \/ WaitFailed(t)
  \/ \E k \in Slots : Wait(t, k)
  \/ ClearCasFail(t)
  \/ ClearReset(t)
  \/ PushCasFail(t)
  \/ PopUnlink(t)
  \/ ClearNode(t)
  \/ PopReturn(t) /\ val[t] # nullptr
  \/ ClearLoad(t) /\ m_Top # nullptr

\* They change nothing of the call.
LEMMA QuietSilent ==
  ASSUME Typed, Control, NEW t \in Thread, Quiet(t)
  PROVE  Silent(t)
<1>0. Doing(t)
  BY DEF Control
<1>1. ASSUME PopAssign(t) PROVE Silent(t)
  BY <1>0, <1>1 DEF PopAssign, SMR!Release, stackVars, locals, Typed, Doing, Silent, Done, Collided
<1>2. ASSUME PopProtect(t) PROVE Silent(t)
  BY <1>0, <1>2 DEF PopProtect, Goto, SMR!Protect, stackVars, Typed, Doing, Silent, Done, Collided
<1>3. ASSUME PopNext(t) PROVE Silent(t)
  BY <1>0, <1>3 DEF PopNext, Goto, stackVars, gcVars, Typed, Doing, Silent, Done, Collided
<1>4. ASSUME PopCasFail(t) PROVE Silent(t)
  BY <1>0, <1>4 DEF PopCasFail, Goto, stackVars, locals, gcVars, Typed, Doing, Silent, Done, Collided
<1>5. ASSUME PopCount(t) PROVE Silent(t)
  BY <1>0, <1>5 DEF PopCount, Goto, stackVars, locals, gcVars, Typed, Doing, Silent, Done, Collided
<1>6. ASSUME BackoffOnly(t) PROVE Silent(t)
  BY <1>0, <1>6 DEF BackoffOnly, Again, Goto, stackVars, locals, gcVars, Typed, Doing, Silent, Done, Collided
<1>7. ASSUME WaitCollided(t) PROVE Silent(t)
  BY <1>0, <1>7 DEF WaitCollided, Goto, Eliminated, stackVars, gcVars, Typed, Doing, Silent, Done, Collided
<1>8. ASSUME WaitFailed(t) PROVE Silent(t)
  BY <1>0, <1>8 DEF WaitFailed, Goto, Again, stackVars, gcVars, Typed, Doing, Silent, Done, Collided
<1>9. ASSUME NEW k \in Slots, Wait(t, k) PROVE Silent(t)
  BY <1>0, <1>9 DEF Wait, Goto, stackVars, gcVars, Typed, Doing, Silent, Done, Collided
<1>10. ASSUME ClearCasFail(t) PROVE Silent(t)
  BY <1>0, <1>10 DEF ClearCasFail, Goto, stackVars, locals, gcVars, Typed, Doing, Silent, Done, Collided
<1>11. ASSUME ClearReset(t) PROVE Silent(t)
  BY <1>0, <1>11 DEF ClearReset, Goto, stackVars, locals, gcVars, Typed, Doing, Silent, Done, Collided
<1>12. ASSUME PushCasFail(t) PROVE Silent(t)
  BY <1>0, <1>12 DEF PushCasFail, Goto, gcVars, Typed, Doing, Silent, Done, Collided
<1>13. ASSUME PopUnlink(t) PROVE Silent(t)
  BY <1>0, <1>13 DEF PopUnlink, Goto, locals, gcVars, Typed, Doing, Silent, Done, Collided
<1>14. ASSUME ClearNode(t) PROVE Silent(t)
  BY <1>0, <1>14 DEF ClearNode, SMR!Replace, Typed, Doing, Silent, Done, Collided
<1>15. ASSUME PopReturn(t), val[t] # nullptr PROVE Silent(t)
  BY <1>0, <1>15 DEF PopReturn, Goto, SMR!Release, stackVars, locals, Typed, Doing, Silent, Done, Collided
<1>16. ASSUME ClearLoad(t), m_Top # nullptr PROVE Silent(t)
  BY <1>0, <1>16 DEF ClearLoad, Goto, stackVars, gcVars, Typed, Doing, Silent, Done, Collided
<1>. QED
  BY ZenonT(60), <1>1, <1>2, <1>3, <1>4, <1>5, <1>6, <1>7, <1>8, <1>9, <1>10, <1>11, <1>12, <1>13, <1>14, <1>15, <1>16 DEF Quiet

\* The stack is empty when its top is null.
LEMMA EmptyItems == Lists /\ m_Top = nullptr => Items = <<>>
  BY SMT, ListEmpty DEF Lists

\* A step of one thread is a step of AtomicStack, or none.
LEMMA OneSimulates ==
  ASSUME Walks, Walks', Typed, Control, Lists, Placed, Confirmed, NEW t \in Thread, OneStep(t), UNCHANGED config
  PROVE  AS!Next \/ UNCHANGED <<Items, call>>
<1>0. Doing(t) /\ \A u \in Thread \ {t} : Same(u)
  BY OneControl DEF Control
<1>a. Move(t) => Items' = Items
  BY <1>0, MoveStill, MoveMoves DEF Moved
<1>1. CASE Quiet(t)
  <2>1. Items' = Items
    <3>1. CASE PushCasFail(t) \/ PopUnlink(t)
      BY <1>0, <3>1, WriteMoves DEF Moved
    <3>2. CASE ClearNode(t)
      BY <1>0, <3>2, ClearNodeMoves DEF Moved
    <3>. QED
      BY <1>1, <1>a, <3>1, <3>2 DEF Quiet, Move
  <2>2. CallOf(t)' = CallOf(t)
    BY <1>1, QuietSilent, SilentSame
  <2>. QED
    BY <1>0, <2>1, <2>2, StepStutters
<1>2. ASSUME NEW o \in Obj, PushStart(t, o) PROVE AS!Next
  <2>1. Items' = Items
    BY <1>0, <1>2, PushStartMoves DEF Moved
  <2>2. pc[t] = "idle" /\ pc'[t] = "push" /\ op'[t] = "push" /\ val'[t] = o
    BY <1>2 DEF PushStart, Goto, Typed
  <2>3. ~Done(t)' /\ Arg(t)' = o
    BY <2>2 DEF Done, Collided, Arg
  <2>4. CallOf(t)' = Open("push", o)
    BY <2>2, <2>3, CallCasesNext
  <2>. QED
    BY <1>0, <2>1, <2>2, <2>4, StepBegins
<1>3. ASSUME PopStart(t) \/ ClearStart(t) PROVE AS!Next
  <2>1. Items' = Items
    BY <1>3, <1>a DEF Move
  <2>2. pc[t] = "idle" /\ pc'[t] \in {"protect", "load"} /\ op'[t] \in {"pop", "clear"}
    BY <1>3 DEF PopStart, ClearStart, Goto, Typed
  <2>3. ~Done(t)' /\ Arg(t)' = nullptr /\ pc'[t] # "idle"
    BY <2>2 DEF Done, Collided, Arg
  <2>4. CallOf(t)' = Open(op'[t], nullptr)
    BY <2>3, CallCasesNext
  <2>. QED
    BY <1>0, <2>1, <2>2, <2>4, StepBegins
<1>4. ASSUME PushCount(t) \/ PushEliminated(t) \/ (PopReturn(t) /\ val[t] = nullptr) \/ PopRetire(t) \/ ClearDone(t)
      PROVE  AS!Next
  <2>1. Items' = Items
    <3>1. CASE PopRetire(t)
      BY <1>0, <3>1, PopRetireMoves DEF Moved
    <3>. QED
      BY <1>4, <1>a, <3>1 DEF Move
  <2>2. pc[t] # "idle" /\ Done(t) /\ pc'[t] = "idle"
    BY <1>4 DEF PushCount, PushEliminated, PopReturn, PopRetire, ClearDone, Return, Goto, Typed, Done
  <2>. QED
    BY <1>0, <2>1, <2>2, StepEnds
<1>5. ASSUME PushCas(t) PROVE AS!Next
  <2>1. Items' = <<val[t]>> \o Items
    BY <1>0, <1>5, PushCasMoves DEF Moved
  <2>2. pc[t] = "push" /\ pc'[t] = "pushed" /\ op[t] = "push" /\ op'[t] = "push" /\ val'[t] = val[t]
    BY <1>0, <1>5 DEF PushCas, Goto, locals, Typed, Doing
  <2>3. ~Done(t) /\ Done(t)' /\ Arg(t) = val[t] /\ Res(t)' = val[t] /\ pc[t] # "idle"
    BY <2>2 DEF Done, Collided, Arg, Res
  <2>4. CallOf(t) = Open("push", val[t]) /\ CallOf(t)' = Closed("push", val[t])
    BY <2>2, <2>3, CallCases, CallCasesNext
  <2>. QED
    BY <1>0, <2>1, <2>4, StepActs
<1>6. ASSUME PopCas(t) PROVE AS!Next
  <2>1. Items # <<>> /\ cur[t] = Head(Items) /\ Items' = Tail(Items)
    BY <1>0, <1>6, PopCasMoves DEF Moved
  <2>2. pc[t] = "cas" /\ pc'[t] = "unlink" /\ op[t] = "pop" /\ op'[t] = "pop" /\ val'[t] = cur[t]
    BY <1>0, <1>6 DEF PopCas, Goto, Typed, Doing
  <2>3. ~Done(t) /\ Done(t)' /\ Arg(t) = nullptr /\ Res(t)' = cur[t] /\ pc[t] # "idle"
    BY <2>2 DEF Done, Collided, Arg, Res
  <2>4. CallOf(t) = Open("pop", nullptr) /\ CallOf(t)' = Closed("pop", cur[t])
    BY <2>2, <2>3, CallCases, CallCasesNext
  <2>. QED
    BY <1>0, <2>1, <2>4, StepActs
<1>7. ASSUME PopEmpty(t) PROVE AS!Next
  <2>1. Items = <<>> /\ Items' = Items
    BY <1>7, <1>a, EmptyItems DEF PopEmpty, Move
  <2>2. pc[t] = "protect" /\ pc'[t] = "return" /\ op[t] = "pop" /\ op'[t] = "pop" /\ val[t] = nullptr /\ val'[t] = val[t]
    BY <1>0, <1>7 DEF PopEmpty, Goto, locals, Typed, Doing, Wants
  <2>3. ~Done(t) /\ Done(t)' /\ Arg(t) = nullptr /\ Res(t)' = nullptr /\ pc[t] # "idle"
    BY <2>2 DEF Done, Collided, Arg, Res
  <2>4. CallOf(t) = Open("pop", nullptr) /\ CallOf(t)' = Closed("pop", nullptr)
    BY <2>2, <2>3, CallCases, CallCasesNext
  <2>. QED
    BY <1>0, <2>1, <2>4, StepActs
<1>8. ASSUME ClearCas(t) \/ (ClearLoad(t) /\ m_Top = nullptr) PROVE AS!Next
  <2>1. Items' = <<>>
    <3>1. CASE ClearCas(t)
      BY <1>0, <3>1, ClearCasMoves DEF Moved
    <3>2. CASE ClearLoad(t) /\ m_Top = nullptr
      BY <1>a, <3>2, EmptyItems DEF Move
    <3>. QED
      BY <1>8, <3>1, <3>2
  <2>2. pc[t] \in {"clear", "load"} /\ pc'[t] \in {"reset", "drain"} /\ op[t] = "clear" /\ op'[t] = "clear"
    BY <1>0, <1>8 DEF ClearCas, ClearLoad, Goto, locals, Typed, Doing
  <2>3. ~Done(t) /\ Done(t)' /\ Arg(t) = nullptr /\ Res(t)' = nullptr /\ pc[t] # "idle"
    BY <2>2 DEF Done, Collided, Arg, Res
  <2>4. CallOf(t) = Open("clear", nullptr) /\ CallOf(t)' = Closed("clear", nullptr)
    BY <2>2, <2>3, CallCases, CallCasesNext
  <2>. QED
    BY <1>0, <2>1, <2>4, StepActs
<1>9. PopReturn(t) => Quiet(t) \/ (PopReturn(t) /\ val[t] = nullptr)
  BY DEF Quiet
<1>10. ClearLoad(t) => Quiet(t) \/ (ClearLoad(t) /\ m_Top = nullptr)
  BY DEF Quiet
<1>. QED
  BY <1>1, <1>2, <1>3, <1>4, <1>5, <1>6, <1>7, <1>8, <1>9, <1>10
     DEF OneStep, PushStep, PopStep, ClearStep, Quiet

\* A collision is a push and a pop of AtomicStack at once.
LEMMA CollideSimulates ==
  ASSUME Walks, Walks', Typed, Control, Lists, Placed, NEW t \in Thread, NEW k \in Slots, Collide(t, k)
  PROVE  AS!Next
<1>1. PICK u \in Thread \ {t} :
           /\ pc[t] = "backoff" /\ pc[u] = "wait" /\ nStatus[u] = "waiting" /\ my[u] = k
           /\ ((op[t] = "push" /\ op[u] = "pop") \/ (op[t] = "pop" /\ op[u] = "push"))
           /\ \A w \in Thread \ {t, u} : Same(w)
           /\ UNCHANGED <<stackVars, m_ItemCounter, my, op, cur, nxt, gcVars>>
           /\ pRec' = [pRec EXCEPT ![k] = nullptr]
           /\ val' = IF op[t] = "push" THEN [val EXCEPT ![u] = val[t]] ELSE [val EXCEPT ![t] = val[u]]
           /\ nStatus' = [nStatus EXCEPT ![t] = "waiting", ![u] = "collided"]
           /\ pc' = [pc EXCEPT ![t] = IF op[t] = "push" THEN "eliminated" ELSE "return"]
  BY CollideFacts
<1>2. PICK a \in {t, u}, b \in {t, u} : a # b /\ op[a] = "push" /\ op[b] = "pop"
  <2>1. CASE op[t] = "push" /\ op[u] = "pop"
    BY <2>1
  <2>2. CASE op[t] = "pop" /\ op[u] = "push"
    BY <2>2
  <2>. QED
    BY <1>1, <2>1, <2>2
<1>3. /\ a \in Thread /\ b \in Thread /\ op'[a] = "push" /\ op'[b] = "pop"
      /\ \A w \in Thread \ {a, b} : Same(w)
  BY <1>1, <1>2
<1>4. /\ pc[a] # "idle" /\ pc[b] # "idle" /\ ~Done(a) /\ ~Done(b) /\ Done(a)' /\ Done(b)'
      /\ val'[a] = val[a] /\ val'[b] = val[a]
  <2>1. CASE a = t /\ b = u
    BY <1>1, <1>2, <2>1 DEF Typed, Done, Collided
  <2>2. CASE a = u /\ b = t
    BY <1>1, <1>2, <2>2 DEF Typed, Done, Collided
  <2>. QED
    BY SMT, <1>2, <2>1, <2>2
<1>5. Arg(a) = val[a] /\ Arg(b) = nullptr /\ Res(a)' = val[a] /\ Res(b)' = val[a]
  BY <1>2, <1>3, <1>4 DEF Arg, Res
<1>6. /\ CallOf(a) = Open("push", val[a]) /\ CallOf(a)' = Closed("push", val[a])
      /\ CallOf(b) = Open("pop", nullptr) /\ CallOf(b)' = Closed("pop", val[a])
  BY <1>2, <1>3, <1>4, <1>5, CallCases, CallCasesNext
<1>7. Items' = Items
  BY CollideMoves
<1>. QED
  BY <1>2, <1>3, <1>6, <1>7, StepPairs

\* Every step is a step of AtomicStack, or none.
LEMMA StepSimulates ==
  ASSUME Walks, Walks', Inv, [Next]_vars
  PROVE  [AS!Next]_<<Items, call>>
<1>0. Typed /\ Control /\ Lists /\ Placed /\ Confirmed /\ Kinds
  BY StepKinds DEF Inv
<1>1. ASSUME UNCHANGED <<m_Top, next, nStatus, pc, op, val, cur>> PROVE UNCHANGED <<Items, call>>
  <2>1. Items' = Items
    BY <1>0, <1>1, StackKept
  <2>2. \A u \in Thread : CallOf(u)' = CallOf(u)
    BY <1>1 DEF CallOf, Done, Collided, Open, Rec
  <2>3. call' = call
    <3> HIDE DEF CallOf
    <3>. QED
      BY <2>2, CallIs, CallNext
  <2>. QED
    BY <2>1, <2>3
<1>2. UNCHANGED vars => UNCHANGED <<m_Top, next, nStatus, pc, op, val, cur>>
  BY DEF vars, stackVars, locals
<1>3. ASSUME NEW o \in Obj, Reclaim(o) PROVE UNCHANGED <<m_Top, next, nStatus, pc, op, val, cur>>
  BY <1>0, <1>3, ReclaimFacts DEF stackVars, locals
<1>. QED
  BY <1>0, <1>1, <1>2, <1>3, OneSimulates, CollideSimulates DEF Kinds

\* Holders, the operator that the properties use, are the threads with the node in their hands.
LEMMA HoldersHeld ==
  ASSUME Walks, Lists, NEW o \in Obj
  PROVE  Holders(o) = {t \in Thread : o \in Held(t)}
<1>1. ASSUME NEW t \in Thread
      PROVE  o \in Elems(List(Cut(t))) <=>
               pc[t] \in {"reset", "drain"} /\ \E i \in DOMAIN List(cur[t]) : List(cur[t])[i] = o
  <2>1. CASE pc[t] \in {"reset", "drain"}
    <3>1. Cut(t) = cur[t]
      BY <2>1 DEF Cut
    <3>2. List(cur[t]) \in Seq(Obj)
      BY <3>1 DEF Lists, IsList
    <3>3. DOMAIN List(cur[t]) = 1 .. Len(List(cur[t]))
      BY SMT, <3>2
    <3>. QED
      BY <2>1, <3>1, <3>3 DEF Elems
  <2>2. CASE pc[t] \notin {"reset", "drain"}
    <3>1. Cut(t) = nullptr /\ List(nullptr) = <<>> /\ Elems(<<>>) = {}
      BY <2>2, ListNil DEF Cut, Walks
    <3>. QED
      BY <2>2, <3>1
  <2>. QED
    BY <2>1, <2>2
<1>2. ASSUME NEW t \in Thread PROVE o = Keep(t) <=> Keeps(t) /\ val[t] = o
  BY ConstantsAssumption DEF Keep
<1>. QED
  BY <1>1, <1>2 DEF Holders, Held, Keeps, Fresh
-----------------------------------------------------------------------------
(* What the item counter has not seen *)

\* The pushes that have linked their node, and the pops that have unlinked one, and have
\* not counted it.
Adding == {t \in Thread : pc[t] = "pushed"}
Taking == {t \in Thread : pc[t] \in {"unlink", "popped"}}

\* Where the clients do not call clear(), nobody is in it.
NoClear == ~clears => \A t \in Thread : op[t] # "clear"

\* The steps, as the counter sees them.
Uncounted == Items' = Items /\ Adding' = Adding /\ Taking' = Taking /\ m_ItemCounter' = m_ItemCounter
Links(t) ==
  /\ t \notin Adding /\ Adding' = Adding \cup {t} /\ Taking' = Taking
  /\ Len(Items') = Len(Items) + 1 /\ m_ItemCounter' = m_ItemCounter
CountsUp(t) ==
  /\ t \in Adding /\ Adding' = Adding \ {t} /\ Taking' = Taking
  /\ Items' = Items /\ m_ItemCounter' = (m_ItemCounter + 1) % CounterModulus
Unlinks(t) ==
  /\ t \notin Taking /\ Taking' = Taking \cup {t} /\ Adding' = Adding
  /\ Len(Items') = Len(Items) - 1 /\ m_ItemCounter' = m_ItemCounter
CountsDown(t) ==
  /\ t \in Taking /\ Taking' = Taking \ {t} /\ Adding' = Adding
  /\ Items' = Items /\ m_ItemCounter' = (m_ItemCounter + CounterModulus - 1) % CounterModulus

Counting ==
  \/ Uncounted
  \/ \E t \in Thread : Links(t) \/ CountsUp(t) \/ Unlinks(t) \/ CountsDown(t)

\* t is neither linking, unlinking nor counting, nor calling clear().
Neutral(t) ==
  /\ (pc'[t] = "pushed") <=> (pc[t] = "pushed")
  /\ (pc'[t] \in {"unlink", "popped"}) <=> (pc[t] \in {"unlink", "popped"})
  /\ m_ItemCounter' = m_ItemCounter /\ op'[t] # "clear"

\* The steps of push, pop and back-off that are none of the four.
LEMMA NeutralSteps ==
  ASSUME Typed, Control, NEW t \in Thread, op[t] # "clear",
         \/ \E o \in Obj : PushStart(t, o)
         \/ PushCasFail(t) \/ PushEliminated(t)
         \/ PopStart(t) \/ PopAssign(t) \/ PopProtect(t) \/ PopEmpty(t) \/ PopNext(t)
         \/ PopCasFail(t) \/ PopUnlink(t) \/ PopReturn(t) \/ PopRetire(t)
         \/ BackoffOnly(t) \/ WaitCollided(t) \/ WaitFailed(t) \/ \E k \in Slots : Wait(t, k)
  PROVE  Neutral(t)
<1>1. ASSUME NEW o \in Obj, PushStart(t, o) PROVE Neutral(t)
  BY <1>1 DEF PushStart, Goto, Typed, Neutral
<1>2. CASE PushCasFail(t)
  BY <1>2 DEF PushCasFail, Goto, Typed, Neutral
<1>3. CASE PushEliminated(t)
  BY <1>3 DEF PushEliminated, Goto, Return, Typed, Neutral
<1>4. CASE PopStart(t)
  BY <1>4 DEF PopStart, Goto, Typed, Neutral
<1>5. CASE PopAssign(t)
  BY <1>5 DEF PopAssign, locals, Typed, Neutral
<1>6. CASE PopProtect(t)
  BY <1>6 DEF PopProtect, Goto, Typed, Neutral
<1>7. CASE PopEmpty(t)
  BY <1>7 DEF PopEmpty, Goto, locals, Typed, Neutral
<1>8. CASE PopNext(t)
  BY <1>8 DEF PopNext, Goto, Typed, Neutral
<1>9. CASE PopCasFail(t)
  BY <1>9 DEF PopCasFail, Goto, locals, Typed, Neutral
<1>10. CASE PopUnlink(t)
  BY <1>10 DEF PopUnlink, Goto, locals, Typed, Neutral
<1>11. CASE PopReturn(t)
  BY SMT, <1>11 DEF PopReturn, Goto, Return, locals, Typed, Neutral
<1>12. CASE PopRetire(t)
  BY <1>12 DEF PopRetire, Goto, Return, Typed, Neutral
<1>13. CASE BackoffOnly(t)
  BY <1>13 DEF BackoffOnly, Again, Goto, locals, Typed, Neutral
<1>14. CASE WaitCollided(t)
  BY <1>14 DEF WaitCollided, Eliminated, Goto, Typed, Neutral
<1>15. CASE WaitFailed(t)
  BY <1>15 DEF WaitFailed, Again, Goto, Typed, Neutral
<1>16. ASSUME NEW k \in Slots, Wait(t, k) PROVE Neutral(t)
  BY <1>16 DEF Wait, Goto, Typed, Neutral
<1>. QED
  BY ZenonT(60), <1>1, <1>2, <1>3, <1>4, <1>5, <1>6, <1>7, <1>8, <1>9, <1>10, <1>11, <1>12, <1>13, <1>14, <1>15, <1>16

\* They move no node into the stack or out of it.
LEMMA NeutralKeeps ==
  ASSUME Walks, Walks', Typed, Control, Lists, Placed, NEW t \in Thread, op[t] # "clear", OneStep(t),
         ~PushCas(t), ~PopCas(t), \A u \in Thread \ {t} : Same(u)
  PROVE  Items' = Items
<1>0. Doing(t)
  BY DEF Control
<1>1. CASE Move(t)
  <2>1. Moved(t, Items, Held(t))
    BY <1>1, MoveStill, MoveMoves
  <2>. QED
    BY <2>1 DEF Moved
<1>2. ASSUME NEW o \in Obj, PushStart(t, o) PROVE Items' = Items
  <2>1. Moved(t, Items, {o})
    BY <1>2, PushStartMoves
  <2>. QED
    BY <2>1 DEF Moved
<1>3. CASE PushCasFail(t) \/ PopUnlink(t)
  <2>1. Moved(t, Items, Held(t))
    BY <1>3, WriteMoves
  <2>. QED
    BY <2>1 DEF Moved
<1>4. CASE PopRetire(t)
  BY <1>4, StackKept DEF PopRetire, stackVars
<1>5. ~ClearCas(t) /\ ~ClearNode(t)
  BY <1>0 DEF ClearCas, ClearNode, Doing
<1>. QED
  BY <1>1, <1>2, <1>3, <1>4, <1>5 DEF OneStep, PushStep, PopStep, ClearStep, Move

\* Without clear() there are no other steps.
LEMMA CountStep ==
  ASSUME Walks, Walks', Typed, Control, Lists, Placed, Confirmed, NoClear, ~clears, Kinds
  PROVE  ~clears' /\ NoClear' /\ Counting
<1>0. \A t \in Thread : op[t] # "clear"
  BY DEF NoClear
<1>1. CASE UNCHANGED vars
  <2>1. UNCHANGED <<clears, m_Top, next, pc, op, m_ItemCounter>>
    BY <1>1 DEF vars, config, stackVars, locals
  <2>2. Items' = Items
    BY <2>1, StackKept
  <2>. QED
    BY <1>0, <2>1, <2>2 DEF NoClear, Counting, Uncounted, Adding, Taking
<1>2. ASSUME UNCHANGED config, NEW o \in Obj, Reclaim(o) PROVE ~clears' /\ NoClear' /\ Counting
  <2>1. UNCHANGED <<clears, m_Top, next, pc, op, m_ItemCounter>>
    BY <1>2, ReclaimFacts DEF config, stackVars, locals
  <2>2. Items' = Items
    BY <2>1, StackKept
  <2>. QED
    BY <1>0, <2>1, <2>2 DEF NoClear, Counting, Uncounted, Adding, Taking
<1>3. ASSUME UNCHANGED config, NEW t \in Thread, NEW k \in Slots, Collide(t, k) PROVE ~clears' /\ NoClear' /\ Counting
  <2>1. Items' = Items
    BY <1>3, CollideMoves
  <2>2. /\ pc[t] = "backoff" /\ pc' = [pc EXCEPT ![t] = IF op[t] = "push" THEN "eliminated" ELSE "return"]
        /\ UNCHANGED <<clears, op, m_ItemCounter>>
    BY <1>3, CollideFacts DEF config
  <2>3. Adding' = Adding /\ Taking' = Taking
    BY <2>2 DEF Typed, Adding, Taking
  <2>. QED
    BY <1>0, <2>1, <2>2, <2>3 DEF NoClear, Counting, Uncounted
<1>4. ASSUME UNCHANGED config, NEW t \in Thread, OneStep(t) PROVE ~clears' /\ NoClear' /\ Counting
  <2>0. Doing(t) /\ ~clears' /\ op[t] # "clear" /\ \A u \in Thread \ {t} : Same(u)
    BY <1>0, <1>4, OneControl DEF Control, config
  <2>1. (\A u \in Thread \ {t} : op'[u] # "clear") /\ \A u \in Thread \ {t} : pc'[u] = pc[u]
    BY <1>0, <2>0 DEF Same
  <2>2. CASE PushCas(t)
    <3>1. pc[t] = "push" /\ pc'[t] = "pushed" /\ op'[t] = op[t] /\ m_ItemCounter' = m_ItemCounter
      BY <2>2 DEF PushCas, Goto, locals, Typed
    <3>2. Items' = <<val[t]>> \o Items /\ Items \in Seq(Obj) /\ val[t] \in Obj
      BY <2>0, <2>2, <3>1, PushCasMoves DEF Moved, Lists, IsList, Doing
    <3>3. Len(Items') = Len(Items) + 1
      BY SMT, <3>2
    <3>4. t \notin Adding /\ Adding' = Adding \cup {t} /\ Taking' = Taking
      BY <2>1, <3>1 DEF Adding, Taking
    <3>5. Links(t)
      BY <3>1, <3>3, <3>4 DEF Links
    <3>. QED
      BY <2>0, <2>1, <3>1, <3>5 DEF NoClear, Counting
  <2>3. CASE PopCas(t)
    <3>1. pc[t] = "cas" /\ pc'[t] = "unlink" /\ op'[t] = op[t] /\ m_ItemCounter' = m_ItemCounter
      BY <2>3 DEF PopCas, Goto, Typed
    <3>2. Items' = Tail(Items) /\ Items # <<>> /\ Items \in Seq(Obj)
      BY <2>0, <2>3, PopCasMoves DEF Moved, Lists, IsList
    <3>3. Len(Items') = Len(Items) - 1
      BY SMTT(40), <3>2
    <3>4. t \notin Taking /\ Taking' = Taking \cup {t} /\ Adding' = Adding
      BY <2>1, <3>1 DEF Adding, Taking
    <3>5. Unlinks(t)
      BY <3>1, <3>3, <3>4 DEF Unlinks
    <3>. QED
      BY <2>0, <2>1, <3>1, <3>5 DEF NoClear, Counting
  <2>4. CASE PushCount(t)
    <3>1. /\ pc[t] = "pushed" /\ pc'[t] = "idle" /\ op'[t] # "clear"
          /\ m_ItemCounter' = (m_ItemCounter + 1) % CounterModulus
      BY <2>4 DEF PushCount, Return, Goto, Typed
    <3>2. Items' = Items
      BY <2>0, <2>4, NeutralKeeps DEF OneStep, PushStep, PushCount, PushCas, PopCas
    <3>3. t \in Adding /\ Adding' = Adding \ {t} /\ Taking' = Taking
      BY <2>1, <3>1 DEF Adding, Taking
    <3>4. CountsUp(t)
      BY <3>1, <3>2, <3>3 DEF CountsUp
    <3>. QED
      BY <2>0, <2>1, <3>1, <3>4 DEF NoClear, Counting
  <2>5. CASE PopCount(t)
    <3>1. /\ pc[t] = "popped" /\ pc'[t] = "return" /\ op'[t] = op[t]
          /\ m_ItemCounter' = (m_ItemCounter + CounterModulus - 1) % CounterModulus
      BY <2>5 DEF PopCount, Goto, locals, Typed
    <3>2. Items' = Items
      BY <2>0, <2>5, NeutralKeeps DEF OneStep, PopStep, PopCount, PushCas, PopCas
    <3>3. t \in Taking /\ Taking' = Taking \ {t} /\ Adding' = Adding
      BY <2>1, <3>1 DEF Adding, Taking
    <3>4. CountsDown(t)
      BY <3>1, <3>2, <3>3 DEF CountsDown
    <3>. QED
      BY <2>0, <2>1, <3>1, <3>4 DEF NoClear, Counting
  <2>6. CASE ~PushCas(t) /\ ~PopCas(t) /\ ~PushCount(t) /\ ~PopCount(t)
    <3>1. ~ClearStep(t)
      BY <2>0 DEF ClearStep, ClearStart, ClearLoad, ClearCas, ClearCasFail, ClearReset, ClearNode, ClearDone, Doing
    <3>2. Neutral(t)
      BY <1>4, <2>0, <2>6, <3>1, NeutralSteps DEF OneStep, PushStep, PopStep
    <3>3. Items' = Items
      BY <1>4, <2>0, <2>6, NeutralKeeps
    <3>4. Adding' = Adding /\ Taking' = Taking
      BY <2>1, <3>2 DEF Adding, Taking, Neutral
    <3>. QED
      BY <2>0, <2>1, <3>2, <3>3, <3>4 DEF NoClear, Counting, Uncounted, Neutral
  <2>. QED
    BY <2>2, <2>3, <2>4, <2>5, <2>6
<1>. QED
  BY <1>1, <1>2, <1>3, <1>4 DEF Kinds

-----------------------------------------------------------------------------
INSTANCE FiniteSetTheorems
INSTANCE WellFoundedInduction

-----------------------------------------------------------------------------
(* Induction along a list *)

\* A set of natural numbers has a least element.
LEMMA LeastNat ==
  ASSUME NEW S \in SUBSET Nat, S # {}
  PROVE  \E n \in S : \A m \in S : n <= m
<1>1. \E n \in S : \A m \in S : <<m, n>> \notin OpToRel(<, Nat)
  BY NatLessThanWellFounded, WFMin
<1>2. PICK n \in S : \A m \in S : <<m, n>> \notin OpToRel(<, Nat)
  BY <1>1
<1>3. ASSUME NEW m \in S PROVE ~(m < n)
  BY <1>2 DEF OpToRel
<1>. QED
  BY SMTT(40), <1>3

\* A set that has 0, and m + 1 with every m, has all the numbers up to n.
LEMMA SetInduction ==
  ASSUME NEW n \in Nat, NEW S, 0 \in S, \A m \in Nat : m < n /\ m \in S => m + 1 \in S
  PROVE  n \in S
<1> SUFFICES ASSUME n \notin S PROVE FALSE
  OBVIOUS
<1>1. PICK m \in Nat \ S : \A k \in Nat \ S : m <= k
  <2>1. Nat \ S \in SUBSET Nat /\ Nat \ S # {}
    OBVIOUS
  <2>. QED
    BY <2>1, LeastNat
<1>2. m # 0 /\ m <= n
  BY <1>1
<1>3. m - 1 \in Nat /\ m - 1 < n /\ (m - 1) + 1 = m /\ ~(m <= m - 1)
  BY <1>2, NumberBefore
<1>4. m - 1 \in S
  BY <1>1, <1>3
<1>. QED
  BY <1>1, <1>3, <1>4

\* A list is no longer than there are nodes.
LEMMA ListShort ==
  ASSUME NEW nx, NEW p, NEW s, IsList(nx, p, s)
  PROVE  Len(s) \in 0 .. Cardinality(Obj) /\ Cardinality(Obj) \in Nat
<1>1. s \in Seq(Obj) /\ Len(s) \in Nat
  BY SMT DEF IsList
<1>2. s \in Injection(1 .. Len(s), Obj)
  BY SMTT(40), <1>1 DEF IsList, Injection, IsInjective
<1>3. Cardinality(1 .. Len(s)) <= Cardinality(Obj)
  BY <1>2, FS_Injection, ConstantsAssumption
<1>4. Cardinality(1 .. Len(s)) = Len(s)
  <2>1. 1 \in Int /\ Len(s) \in Int
    BY SMTT(40), <1>1
  <2>2. Cardinality(1 .. Len(s)) = IF 1 > Len(s) THEN 0 ELSE Len(s) - 1 + 1
    BY <2>1, FS_Interval
  <2>. QED
    BY SMTT(40), <1>1, <2>2
<1>5. Cardinality(Obj) \in Nat
  BY FS_CardinalityType, ConstantsAssumption
<1>. QED
  BY <1>1, <1>3, <1>4, <1>5, InRange

\* The recursive definition of Chain has a solution.
LEMMA ChainDef ==
  Chain = [n \in 0 .. Cardinality(Obj) |->
             [p \in Ptr |-> IF p = nullptr \/ n = 0 THEN <<>> ELSE <<p>> \o Chain[n - 1][next[p]]]]
<1> DEFINE N       == Cardinality(Obj)
           B(f, n) == [p \in Ptr |-> IF p = nullptr \/ n = 0 THEN <<>> ELSE <<p>> \o f[n - 1][next[p]]]
           S       == {m \in Nat : \E f : f = [n \in 0 .. m |-> B(f, n)]}
<1>1. 0 \in S
  <2> DEFINE f == [n \in 0 .. 0 |-> [p \in Ptr |-> <<>>]]
  <2>1. \A n \in 0 .. 0 : f[n] = B(f, n)
    BY SMT
  <2>2. f = [n \in 0 .. 0 |-> B(f, n)]
    <3> HIDE DEF B
    <3>. QED
      BY <2>1
  <2>. QED
    BY <2>2
<1>2. ASSUME NEW m \in Nat, m \in S PROVE m + 1 \in S
  <2>1. PICK f : f = [n \in 0 .. m |-> B(f, n)]
    BY <1>2
  <2> DEFINE g == [n \in 0 .. m + 1 |-> IF n = m + 1 THEN B(f, n) ELSE f[n]]
  <2>2. ASSUME NEW n \in 0 .. m + 1 PROVE g[n] = B(g, n)
    <3>1. n # 0 => g[n - 1] = f[n - 1]
      BY SMT
    <3>2. B(g, n) = B(f, n)
      <4> HIDE DEF g
      <4>. QED
        BY <3>1
    <3> HIDE DEF B
    <3>3. n # m + 1 => f[n] = B(f, n)
      BY SMTT(40), <2>1
    <3>. QED
      BY <3>2, <3>3
  <2>3. g = [n \in 0 .. m + 1 |-> B(g, n)]
    <3> HIDE DEF B
    <3>. QED
      BY <2>2
  <2> HIDE DEF g, B
  <2>. QED
    BY SMTT(40), <2>3
<1>3. N \in S
  <2>1. N \in Nat
    BY FS_CardinalityType, ConstantsAssumption
  <2> HIDE DEF S, N
  <2>. QED
    BY ZenonT(60), <1>1, <1>2, <2>1, SetInduction
<1>. QED
  BY <1>3 DEF Chain

\* Chain walks along a list, and sees all of it.
LEMMA ListIs ==
  \A p, s : IsList(next, p, s) => List(p) = s
<1> DEFINE N == Cardinality(Obj)
           S == {n \in 0 .. N : \A p, s : IsList(next, p, s) /\ Len(s) <= n => Chain[n][p] = s}
<1>0. N \in Nat
  BY FS_CardinalityType, ConstantsAssumption
<1>a. ASSUME NEW p, NEW s, IsList(next, p, s) PROVE p \in Ptr
  BY <1>a, ListTail DEF Ptr
<1>1. 0 \in S
  <2> SUFFICES ASSUME NEW p, NEW s, IsList(next, p, s), Len(s) <= 0 PROVE Chain[0][p] = s
    BY SMTT(40), <1>0
  <2>1. p = nullptr /\ s = <<>>
    <3>1. Len(s) \in Nat
      BY SMTT(40), ListShort
    <3>2. s = <<>>
      BY SMTT(40), <3>1 DEF IsList
    <3>. QED
      BY <3>2 DEF IsList
  <2>2. Chain[0] = [q \in Ptr |-> <<>>]
    <3>1. 0 \in 0 .. N
      BY <1>0, FirstNumber
    <3>2. Chain[0] = [q \in Ptr |-> IF q = nullptr \/ 0 = 0 THEN <<>> ELSE <<q>> \o Chain[0 - 1][next[q]]]
      BY <3>1, ChainDef
    <3>. QED
      BY <3>2
  <2>. QED
    BY <2>1, <2>2 DEF Ptr
<1>2. ASSUME NEW n \in Nat, n < N, n \in S PROVE n + 1 \in S
  <2> SUFFICES ASSUME NEW p, NEW s, IsList(next, p, s), Len(s) <= n + 1 PROVE Chain[n + 1][p] = s
    BY <1>0, <1>2, NextNumber
  <2> DEFINE q == next[p]
  <2>1. n + 1 \in 0 .. N /\ n + 1 # 0 /\ (n + 1) - 1 = n
    BY <1>0, <1>2, NextNumber
  <2>2. Chain[n + 1] = [r \in Ptr |-> IF r = nullptr \/ n + 1 = 0 THEN <<>> ELSE <<r>> \o Chain[(n + 1) - 1][next[r]]]
    BY <2>1, ChainDef
  <2>3. Chain[n + 1][p] = IF p = nullptr THEN <<>> ELSE <<p>> \o Chain[n][q]
    BY <1>a, <2>1, <2>2
  <2>4. CASE p = nullptr
    <3>1. IsList(next, nullptr, s)
      BY <2>4
    <3>2. s = <<>>
      BY <3>1, ListEmpty
    <3>3. Chain[n + 1][p] = <<>>
      BY <2>3, <2>4
    <3>. QED
      BY <3>2, <3>3
  <2>5. CASE p # nullptr
    <3>1. IsList(next, q, Tail(s)) /\ s = <<p>> \o Tail(s) /\ Len(s) = Len(Tail(s)) + 1
      BY <2>5, ListTail
    <3>2. Len(Tail(s)) <= n
      <4>1. Len(Tail(s)) \in Nat
        BY <3>1, ListShort, RangeIs
      <4>. QED
        BY <3>1, <4>1, InRange
    <3>3. Chain[n][q] = Tail(s)
      BY <1>2, <3>1, <3>2
    <3>. QED
      BY ZenonT(60), <2>3, <2>5, <3>1, <3>3
  <2>. QED
    BY <2>4, <2>5
<1>3. N \in S
  <2> HIDE DEF N, S
  <2>. QED
    BY <1>0, <1>1, <1>2, SetInduction
<1> SUFFICES ASSUME NEW p, NEW s, IsList(next, p, s) PROVE Chain[N][p] = s
  BY DEF List
<1>4. Len(s) <= N
  BY <1>0, ListShort, RangeIs
<1>. QED
  BY ZenonT(60), <1>3, <1>4

\* Walking the links gives the list they form.
LEMMA WalksNow == Walks
  BY ListIs DEF Walks

-----------------------------------------------------------------------------
(* The theorems *)

\* The invariant holds at the start, and every step keeps it.
LEMMA InvAlways == Spec => []Inv
<1>1. Init => Inv
  BY ControlInit, PlacedInit, WalksNow DEF Inv
<1>2. Inv /\ [Next]_vars => Inv'
  <2> SUFFICES ASSUME Inv, [Next]_vars PROVE Inv'
    OBVIOUS
  <2>0. Walks /\ Walks'
    BY WalksNow, PTL
  <2>1. Typed /\ Control /\ Lists /\ Placed /\ Guarded /\ Confirmed
    BY DEF Inv
  <2>2. Kinds /\ Typed' /\ Control'
    BY <2>1, StepKinds, ControlNext
  <2>3. Lists' /\ Placed'
    BY <2>0, <2>1, <2>2, PlacedNext
  <2>4. Guarded'
    BY <2>0, <2>1, <2>2, GuardedNext
  <2>5. Confirmed'
    BY <2>0, <2>1, <2>2, ConfirmedNext
  <2>. QED
    BY <2>2, <2>3, <2>4, <2>5 DEF Inv
<1>. QED
  BY <1>1, <1>2, PTL DEF Spec

\* push, pop and clear use no node that has been freed: a node in the stack or in the
\* hands of a thread is linked, and the one a pop reads is under its guard.
THEOREM NodesSafe == Spec => []NoUseAfterFree
<1>1. Inv => NoUseAfterFree
  <2> SUFFICES ASSUME Inv PROVE NoUseAfterFree
    OBVIOUS
  <2>1. \A i \in DOMAIN Items : status[Items[i]] = "linked"
    <3>1. Items \in Seq(Obj)
      BY DEF Inv, Lists, IsList
    <3>2. \A i \in DOMAIN Items : Items[i] \in Obj /\ Items[i] \in Elems(Items)
      BY SMTT(40), <3>1 DEF Elems
    <3>. QED
      BY <3>2 DEF Inv, Placed
  <2>2. ASSUME NEW t \in Thread, pc[t] \in {"next", "unlink"} PROVE status[cur[t]] # "free"
    <3>1. protects[t] = cur[t] /\ protects[t] # nullptr
      BY <2>2, ConstantsAssumption DEF Inv, Control, Doing
    <3>. QED
      BY <3>1 DEF Inv, Guarded
  <2>3. ASSUME NEW t \in Thread, pc[t] \in {"push", "retire"} PROVE status[val[t]] = "linked"
    <3>1. Doing(t)
      BY DEF Inv, Control
    <3>2. Keep(t) = val[t] /\ val[t] \in Obj
      BY <2>3, <3>1 DEF Doing, Keep, Keeps, Fresh
    <3>3. val[t] \in Held(t)
      BY <3>2 DEF Held
    <3>. QED
      BY <3>2, <3>3 DEF Inv, Placed
  <2>. QED
    BY <2>1, <2>2, <2>3 DEF NoUseAfterFree
<1>. QED
  BY <1>1, InvAlways, PTL

\* A node in use is in the stack once, or in the hands of exactly one thread; the
\* others are nowhere.
THEOREM NodesConserved == Spec => []NodeConservation
<1>1. Inv => NodeConservation
  <2> SUFFICES ASSUME Inv, NEW o \in Obj
               PROVE  Cardinality({i \in DOMAIN Items : Items[i] = o}) + Cardinality(Holders(o))
                        = IF status[o] = "linked" THEN 1 ELSE 0
    BY DEF NodeConservation
  <2> DEFINE I == {i \in DOMAIN Items : Items[i] = o}
             H == {t \in Thread : o \in Held(t)}
  <2>1. Holders(o) = H
    BY HoldersHeld, WalksNow DEF Inv
  <2>2. /\ status[o] = "linked" <=> o \in Elems(Items) \/ \E t \in Thread : o \in Held(t)
        /\ \A t \in Thread : o \in Held(t) => o \notin Elems(Items)
        /\ \A t, u \in Thread : o \in Held(t) /\ o \in Held(u) => t = u
    BY DEF Inv, Placed
  <2>3. DOMAIN Items = 1 .. Len(Items) /\ \A i, j \in 1 .. Len(Items) : Items[i] = Items[j] => i = j
    BY SMT DEF Inv, Lists, IsList
  <2>4. o \in Elems(Items) => Cardinality(I) = 1 /\ Cardinality(H) = 0
    <3> SUFFICES ASSUME o \in Elems(Items) PROVE Cardinality(I) = 1 /\ Cardinality(H) = 0
      OBVIOUS
    <3>1. PICK i \in DOMAIN Items : Items[i] = o
      BY <2>3 DEF Elems
    <3>2. I = {i} /\ H = {}
      BY <2>2, <2>3, <3>1
    <3>. QED
      BY <3>2, FS_Singleton, FS_EmptySet
  <2>5. ASSUME NEW t \in Thread, o \in Held(t) PROVE Cardinality(I) = 0 /\ Cardinality(H) = 1
    <3>1. I = {} /\ H = {t}
      BY <2>2, <2>3, <2>5 DEF Elems
    <3>. QED
      BY <3>1, FS_Singleton, FS_EmptySet
  <2>6. o \notin Elems(Items) /\ (\A t \in Thread : o \notin Held(t)) => Cardinality(I) = 0 /\ Cardinality(H) = 0
    <3> SUFFICES ASSUME o \notin Elems(Items), \A t \in Thread : o \notin Held(t) PROVE Cardinality(I) = 0 /\ Cardinality(H) = 0
      OBVIOUS
    <3>1. I = {} /\ H = {}
      BY <2>3 DEF Elems
    <3>. QED
      BY <3>1, FS_EmptySet
  <2> HIDE DEF I, H
  <2>7. Cardinality(I) + Cardinality(H) = IF status[o] = "linked" THEN 1 ELSE 0
    BY <2>2, <2>4, <2>5, <2>6, Sums
  <2>. QED
    BY <2>1, <2>7 DEF I
<1>. QED
  BY <1>1, InvAlways, PTL

\* Every push, pop and clear takes effect at one instant between its call and its
\* return, for any number of threads, nodes and collision slots: a push and a pop at
\* their compare_exchange, an empty pop at the load it confirms, a colliding pair in
\* the critical section of the slot, a clear when it cuts the list off.
THEOREM StackLinearizable == Spec => ImplementsStack
<1>1. Init => AS!Init
  <2> SUFFICES ASSUME Init PROVE AS!Init
    OBVIOUS
  <2>1. Lists /\ m_Top = nullptr
    BY PlacedInit, WalksNow DEF Init
  <2>2. Items = <<>>
    BY <2>1, EmptyItems
  <2>3. \A t \in Thread : CallOf(t) = AS!Idle
    BY DEF Init, CallOf, Open, Rec, AS!Idle
  <2>4. call = [t \in Thread |-> AS!Idle]
    <3> HIDE DEF CallOf
    <3>. QED
      BY <2>3, CallIs
  <2>. QED
    BY <2>2, <2>4 DEF AS!Init
<1>2. Inv /\ [Next]_vars => [AS!Next]_<<Items, call>>
  <2>1. Walks /\ Walks'
    BY WalksNow, PTL
  <2>. QED
    BY <2>1, StepSimulates
<1>. QED
  BY <1>1, <1>2, InvAlways, PTL DEF Spec, ImplementsStack, AS!Spec
-----------------------------------------------------------------------------
(* The item counter *)

\* Without clear() the counter, the additions and the removals it has not seen account for
\* the items.
Balance ==
  ~clears =>
    /\ NoClear
    /\ Accounts(m_ItemCounter, Cardinality(Adding), Len(Items), Cardinality(Taking))

\* The sets of threads that have not counted are finite.
LEMMA Uncounting ==
  /\ IsFiniteSet(Adding) /\ Cardinality(Adding) \in Nat
  /\ IsFiniteSet(Taking) /\ Cardinality(Taking) \in Nat
<1>1. Adding \subseteq Thread /\ Taking \subseteq Thread
  BY DEF Adding, Taking
<1>2. IsFiniteSet(Adding) /\ IsFiniteSet(Taking)
  BY <1>1, FS_Subset, ConstantsAssumption
<1>. QED
  BY <1>2, FS_CardinalityType

\* The counter of the next state, from what it was and what happened.
LEMMA BalanceStep ==
  ASSUME Balance, ~clears, ~clears', NoClear', Counting,
         Len(Items) \in Nat, Len(Items') \in Nat
  PROVE  Balance'
<1> DEFINE A == Cardinality(Adding)  T == Cardinality(Taking)  L == Len(Items)
<1>0. A \in Nat /\ T \in Nat /\ L \in Nat /\ Accounts(m_ItemCounter, A, L, T)
  BY Uncounting DEF Balance
<1>b. SUFFICES Accounts(m_ItemCounter', A', L', T')
  BY DEF Balance
<1>1. CASE Uncounted
  BY <1>0, <1>1 DEF Uncounted
<1>2. ASSUME NEW t \in Thread, Links(t) PROVE Accounts(m_ItemCounter', A', L', T')
  <2>1. A' = A + 1 /\ T' = T /\ L' = L + 1 /\ m_ItemCounter' = m_ItemCounter
    BY ZenonT(60), <1>2, Uncounting, FS_AddElement DEF Links
  <2>. HIDE DEF A, T, L
  <2>. QED
    BY <1>0, <2>1, AccountsMove
<1>3. ASSUME NEW t \in Thread, Unlinks(t) PROVE Accounts(m_ItemCounter', A', L', T')
  <2>1. T' = T + 1 /\ A' = A /\ L' = L - 1 /\ m_ItemCounter' = m_ItemCounter
    BY ZenonT(60), <1>3, Uncounting, FS_AddElement DEF Unlinks
  <2>. HIDE DEF A, T, L
  <2>. QED
    BY <1>0, <2>1, AccountsMove
<1>4. ASSUME NEW t \in Thread, CountsUp(t) PROVE Accounts(m_ItemCounter', A', L', T')
  <2>1. A' = A - 1 /\ T' = T /\ L' = L /\ m_ItemCounter' = (m_ItemCounter + 1) % CounterModulus
    BY ZenonT(60), <1>4, Uncounting, FS_RemoveElement DEF CountsUp
  <2>. HIDE DEF A, T, L
  <2>. QED
    BY <1>0, <2>1, AccountsCount
<1>5. ASSUME NEW t \in Thread, CountsDown(t) PROVE Accounts(m_ItemCounter', A', L', T')
  <2>1. T' = T - 1 /\ A' = A /\ L' = L /\ m_ItemCounter' = (m_ItemCounter + CounterModulus - 1) % CounterModulus
    BY ZenonT(60), <1>5, Uncounting, FS_RemoveElement DEF CountsDown
  <2>. HIDE DEF A, T, L
  <2>. QED
    BY <1>0, <2>1, AccountsCount
<1>. QED
  BY ZenonT(60), <1>1, <1>2, <1>3, <1>4, <1>5 DEF Counting

\* size(): when no operation is in progress the item counter is the number of items,
\* for any number of threads, although a push and a pop count after they have taken
\* effect, and a pop may count before the push whose node it has taken.
THEOREM CounterRight == Spec => []CounterExact
<1>1. Init => Balance
  <2> SUFFICES ASSUME Init PROVE Balance
    OBVIOUS
  <2>1. Items = <<>>
    BY PlacedInit, WalksNow, EmptyItems DEF Init
  <2>2. Adding = {} /\ Taking = {} /\ NoClear
    BY DEF Init, Adding, Taking, NoClear
  <2>3. Cardinality(Adding) = 0 /\ Cardinality(Taking) = 0
    BY <2>2, FS_EmptySet
  <2>4. Len(Items) = 0 /\ m_ItemCounter = 0
    BY SMT, <2>1 DEF Init
  <2>. QED
    BY <2>2, <2>3, <2>4, AccountsNone DEF Balance
<1>2. Inv => Len(Items) \in Nat /\ Len(Items) <= Cardinality(Obj) /\ Cardinality(Obj) \in Nat
  <2>1. Inv => IsList(next, m_Top, Items)
    BY DEF Inv, Lists
  <2>2. Inv => Len(Items) \in 0 .. Cardinality(Obj) /\ Cardinality(Obj) \in Nat
    BY <2>1, ListShort
  <2>. QED
    BY SMTT(40), <2>2
<1>3. Inv /\ Inv' /\ Balance /\ [Next]_vars => Balance'
  <2> SUFFICES ASSUME Inv, Inv', Balance, [Next]_vars PROVE Balance'
    OBVIOUS
  <2>1. Walks /\ Walks'
    BY WalksNow, PTL
  <2>2. Len(Items) \in Nat /\ (Len(Items) \in Nat)'
    BY <1>2, PTL
  <2>3. Typed /\ Control /\ Lists /\ Placed /\ Confirmed /\ Kinds
    BY StepKinds DEF Inv
  <2>4. CASE clears
    <3>1. clears' = clears
      BY <2>3 DEF Kinds, vars, config
    <3>. QED
      BY <2>4, <3>1 DEF Balance
  <2>5. CASE ~clears
    <3>1. NoClear
      BY <2>5 DEF Balance
    <3>2. ~clears' /\ NoClear' /\ Counting
      BY ZenonT(60), <2>1, <2>3, <2>5, <3>1, CountStep
    <3>. QED
      BY <2>2, <2>5, <3>2, BalanceStep
  <2>. QED
    BY <2>4, <2>5
<1>4. Inv /\ Balance => CounterExact
  <2> SUFFICES ASSUME Inv, Balance, ~clears, \A t \in Thread : pc[t] = "idle" PROVE m_ItemCounter = Len(Items)
    BY DEF CounterExact
  <2>1. Adding = {} /\ Taking = {}
    BY DEF Adding, Taking
  <2>2. Cardinality(Adding) = 0 /\ Cardinality(Taking) = 0
    BY <2>1, FS_EmptySet
  <2>3. Accounts(m_ItemCounter, 0, Len(Items), 0)
    BY <2>2 DEF Balance
  <2>4. Len(Items) \in 0 .. CounterModulus - 1
    BY SMTT(40), <1>2, ConstantsAssumption
  <2>. QED
    BY <2>3, <2>4, AccountsAll
<1>. QED
  BY <1>1, <1>3, <1>4, InvAlways, PTL DEF Spec
=============================================================================
