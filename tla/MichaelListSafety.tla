------------------------- MODULE MichaelListSafety -------------------------
(*****************************************************************************)
(* Proofs about MichaelList and MichaelHashSet: the inductive invariant, and *)
(* the theorems that rest on it: no operation uses a freed node, the lists   *)
(* stay sorted and whole, a deleted node is frozen, the operations are       *)
(* linearizable, and the item counter is right when nobody is inside.        *)
(*                                                                           *)
(* The invariant describes the lists by the status of their nodes, not by    *)
(* what the heads lead to: every link leads to the node in use with the next *)
(* greater key of the same list.  That these are the nodes the heads lead to *)
(* is shown once, by induction along the list (AllReached).                  *)
(*****************************************************************************)
EXTENDS MichaelList, TLAPS

\* The provers to try, in this order.
USE Zenon, SMT

-----------------------------------------------------------------------------
(* Numbers *)

\* The first number of a range.
LEMMA FirstNumber == \A n \in Nat : 0 \in 0 .. n
  BY SMT

\* The next one.
LEMMA NextNumber ==
  \A m, n \in Nat : n < m => n + 1 \in 0 .. m /\ n + 1 # 0 /\ (n + 1) - 1 = n
  BY SMT

\* The number before.
LEMMA NumberBefore ==
  ASSUME NEW m \in Nat, NEW n \in Nat, m # 0, m <= n
  PROVE  m - 1 \in Nat /\ m - 1 < n /\ (m - 1) + 1 = m /\ ~(m <= m - 1)
  BY SMT

\* What the order of the keys, and of the sizes of sets, comes down to.
LEMMA Orders ==
  /\ \A m, n \in Int : m <= n /\ m # n => m < n
  /\ \A n \in Int : n <= n /\ ~(n < n)
  /\ \A k, m, n \in Int : k < m /\ m < n => k < n
  /\ \A n \in Nat : (n # 0 => n > 0) /\ (n > 0 => ~(n <= 0)) /\ n + 1 \in Nat
  /\ \A k, m, n \in Nat : m <= n + 1 /\ k <= m - 1 => k <= n
  BY SMT

\* A number that two comparisons show to be small enough for the counter.
LEMMA Countable ==
  ASSUME NEW k \in Nat, NEW m \in Nat, NEW n \in Nat, k <= m, m <= n, n < CounterModulus
  PROVE  k \in 0 .. CounterModulus - 1
  BY SMT, ConstantsAssumption

-----------------------------------------------------------------------------
(* The item counter: numbers modulo its size *)

\* a and b are the same unsigned number.
Cong(a, b) == \E q \in Int : a = b + q * CounterModulus

\* What % does to a number.
LEMMA ModIs ==
  ASSUME NEW a \in Int
  PROVE  a % CounterModulus \in 0 .. CounterModulus - 1 /\ Cong(a % CounterModulus, a)
<1>1. PICK M \in Int : M = CounterModulus /\ M > 0
  BY SMT, ConstantsAssumption
<1>2. a % M \in 0 .. M - 1 /\ -(a \div M) \in Int
  BY SMT, <1>1
<1>3. a % M = a + (-(a \div M)) * M
  BY SMT, <1>1
<1>. QED
  BY <1>1, <1>2, <1>3 DEF Cong

\* Of the numbers in that range a number is congruent to itself only.
LEMMA CongOne ==
  ASSUME NEW a \in 0 .. CounterModulus - 1, NEW b \in 0 .. CounterModulus - 1, Cong(a, b)
  PROVE  a = b
<1>1. PICK M \in Int : M = CounterModulus /\ M > 0
  BY SMT, ConstantsAssumption
<1>2. PICK q \in Int : a = b + q * M
  BY <1>1 DEF Cong
<1>3. a - b < M /\ b - a < M /\ a \in Int /\ b \in Int
  BY SMT, <1>1
<1>4. q >= 1 => q * M >= M
  BY SMT, <1>1
<1>5. q <= -1 => q * M <= -M
  BY SMT, <1>1
<1>6. PICK k \in Int : k = q * M
  BY SMT, <1>1
<1>7. q = 0
  BY SMT, <1>1, <1>2, <1>3, <1>4, <1>5, <1>6
<1>. QED
  BY SMT, <1>1, <1>2, <1>3, <1>7

\* Equal numbers added on both sides, on one side of two congruences, or a whole turn.
LEMMA CongSum ==
  ASSUME NEW a \in Int, NEW b \in Int, NEW c \in Int, NEW d \in Int, NEW x \in Int,
         Cong(a + x, b), Cong(c, a + d)
  PROVE  Cong(c + x, b + d) /\ Cong(c + x, b + d - CounterModulus)
<1>1. PICK M \in Int : M = CounterModulus
  BY SMT, ConstantsAssumption
<1>2. PICK q \in Int : a + x = b + q * M
  BY <1>1 DEF Cong
<1>3. PICK r \in Int : c = a + d + r * M
  BY <1>1 DEF Cong
<1>4. PICK k \in Int : k = q * M
  BY SMT, <1>1
<1>5. PICK l \in Int : l = r * M
  BY SMT, <1>1
<1>6. c + x = b + d + (k + l) /\ c + x = b + d - M + (k + l + M)
  BY SMT, <1>1, <1>2, <1>3, <1>4, <1>5
<1>7. k + l = (q + r) * M /\ q + r \in Int /\ k + l + M = (q + r + 1) * M /\ q + r + 1 \in Int
  BY SMT, <1>1, <1>4, <1>5
<1>. QED
  BY <1>1, <1>6, <1>7 DEF Cong

\* The counter c, the a items that are in and not counted and the t items that are out and
\* still counted account for l items.
Accounts(c, a, l, t) == c \in 0 .. CounterModulus - 1 /\ Cong(c + a, l + t)

\* An empty container, with nobody inside, is accounted for.
LEMMA AccountsNone == Accounts(0, 0, 0, 0)
<1>1. 0 + 0 = 0 + 0 + 0 * CounterModulus /\ 0 \in Int /\ 0 \in 0 .. CounterModulus - 1
  BY SMT, ConstantsAssumption
<1>. QED
  BY <1>1 DEF Accounts, Cong

\* When nobody is inside the counter is the number of items.
LEMMA AccountsAll ==
  ASSUME NEW c, NEW l \in 0 .. CounterModulus - 1, Accounts(c, 0, l, 0)
  PROVE  c = l
<1>1. c \in 0 .. CounterModulus - 1 /\ Cong(c + 0, l + 0)
  BY DEF Accounts
<1>2. c + 0 = c /\ l + 0 = l
  BY SMT, <1>1, ConstantsAssumption
<1>. QED
  BY <1>1, <1>2, CongOne

\* An item goes in, or out.
LEMMA AccountsMove ==
  ASSUME NEW c, NEW a \in Nat, NEW l \in Nat, NEW t \in Nat, Accounts(c, a, l, t)
  PROVE  Accounts(c, a + 1, l + 1, t) /\ Accounts(c, a, l - 1, t + 1)
<1>1. c \in 0 .. CounterModulus - 1 /\ Cong(c + a, l + t)
  BY DEF Accounts
<1>2. PICK M \in Int : M = CounterModulus
  BY SMT, ConstantsAssumption
<1>3. PICK q \in Int : c + a = l + t + q * M
  BY <1>1, <1>2 DEF Cong
<1>4. PICK k \in Int : k = q * M
  BY SMT, <1>2
<1>5. c + (a + 1) = l + 1 + t + k /\ l - 1 + (t + 1) = l + t
  BY SMT, <1>1, <1>2, <1>3, <1>4
<1>6. Cong(c + (a + 1), l + 1 + t) /\ Cong(c + a, l - 1 + (t + 1))
  BY <1>1, <1>2, <1>4, <1>5 DEF Cong
<1>. QED
  BY <1>1, <1>6 DEF Accounts

\* The counter is incremented, or decremented, with the wrap-around of unsigned numbers.
LEMMA AccountsCount ==
  ASSUME NEW c, NEW a \in Nat, NEW l \in Nat, NEW t \in Nat, Accounts(c, a, l, t)
  PROVE  /\ Accounts((c + 1) % CounterModulus, a - 1, l, t)
         /\ Accounts((c + CounterModulus - 1) % CounterModulus, a, l, t - 1)
<1>1. c \in 0 .. CounterModulus - 1 /\ Cong(c + a, l + t)
  BY DEF Accounts
<1>2. PICK M \in Int : M = CounterModulus
  BY SMT, ConstantsAssumption
<1>3. /\ c \in Int /\ c + 1 \in Int /\ c + (M - 1) \in Int /\ c + (M - 1) = c + M - 1
      /\ a \in Int /\ a - 1 \in Int /\ l + t \in Int /\ 1 \in Int /\ M - 1 \in Int
  BY SMT, <1>1, <1>2
<1>4. PICK d : d = (c + 1) % M
  OBVIOUS
<1>5. d \in 0 .. M - 1 /\ Cong(d, c + 1)
  BY <1>2, <1>3, <1>4, ModIs
<1>6. PICK e : e = (c + M - 1) % M
  OBVIOUS
<1>7. e \in 0 .. M - 1 /\ Cong(e, c + (M - 1))
  BY <1>2, <1>3, <1>6, ModIs
<1>8. d \in Int /\ e \in Int
  BY SMT, <1>2, <1>5, <1>7
<1>9. Cong(d + a, l + t + 1)
  BY <1>1, <1>3, <1>5, <1>8, CongSum
<1>10. Cong(e + a, l + t + (M - 1) - M)
  <2>1. PICK b \in Int : b = l + t
    BY <1>3
  <2>2. PICK m \in Int : m = M - 1
    BY <1>3
  <2>3. Cong(c + a, b) /\ Cong(e, c + m)
    BY <1>1, <1>7, <2>1, <2>2
  <2>4. Cong(e + a, b + m - CounterModulus)
    BY <1>3, <1>8, <2>3, CongSum
  <2>. QED
    BY <1>2, <2>1, <2>2, <2>4
<1>11. l + t + (M - 1) - M = l + (t - 1)
  BY SMT, <1>2
<1>12. Cong(d + (a - 1), l + t)
  <2>1. PICK q \in Int : d + a = l + t + 1 + q * M
    BY <1>2, <1>9 DEF Cong
  <2>2. PICK k \in Int : k = q * M
    BY SMT, <1>2
  <2>3. d + (a - 1) = l + t + k
    BY SMT, <1>8, <2>1, <2>2
  <2>. QED
    BY <1>2, <2>2, <2>3 DEF Cong
<1>. QED
  BY <1>2, <1>4, <1>5, <1>6, <1>7, <1>10, <1>11, <1>12 DEF Accounts

-----------------------------------------------------------------------------
(* The list *)

\* The values of pc: during the search and what follows it, and the others.
SearchLabels == {"start", "next", "check", "help", "absent", "present"}
Labels == SearchLabels \cup {"idle", "inserted", "unlink", "erased", "return", "clear", "cleared"}

Ops == {"insert", "update", "modify", "erase", "find", "clear"}
Word == [ptr : Ptr, mark : BOOLEAN]

\* The type of every variable the proofs speak of.
Typed ==
  /\ link \in [Link -> Word] /\ key \in [Obj -> Key \cup {nullptr}]
  /\ pc \in [Thread -> Labels] /\ op \in [Thread -> Ops \cup {"none"}]
  /\ arg \in [Thread -> Key \cup {nullptr}] /\ new \in [Thread -> Ptr]
  /\ prev \in [Thread -> Link \cup {nullptr}] /\ cur \in [Thread -> Ptr] /\ nxt \in [Thread -> Word]
  /\ goal \in [Thread -> Ptr] /\ res \in [Thread -> BOOLEAN]
  /\ status \in [Obj -> {"free", "linked", "retired"}] /\ protects \in [Guards -> Ptr]

\* The nodes in use, and the links of the lists.
In == {o \in Obj : status[o] = "linked"}
Spots == Head \cup In

\* The list that a link belongs to, and whether it comes before key k.
ListOf(l) == IF l \in Head THEN l ELSE Bucket(key[l])
Before(l, k) == l \in Head \/ key[l] < k

\* A node that is not in use has a cleared link, one that was removed a marked one.
Kept ==
  /\ \A o \in Obj : status[o] = "free" => link[o] = Null
  /\ \A o \in Obj : status[o] = "retired" => link[o].mark
  /\ \A o \in Obj : status[o] # "free" => key[o] \in Key
  /\ \A h \in Head : ~ link[h].mark

\* A link leads to a node of the same list with a greater key ...
Leads(l) ==
  link[l].ptr # nullptr =>
    /\ status[link[l].ptr] = "linked"
    /\ Before(l, key[link[l].ptr]) /\ Bucket(key[link[l].ptr]) = ListOf(l)

\* ... and to the least of them.
Skips(l, o) ==
  Bucket(key[o]) = ListOf(l) /\ Before(l, key[o]) => link[l].ptr # nullptr /\ key[link[l].ptr] <= key[o]

\* The lists are sorted, and every node in use is in its place.
Ordered ==
  /\ \A l \in Spots : Leads(l)
  /\ \A l \in Spots : \A o \in In : Skips(l, o)
  /\ \A o, q \in In : key[o] = key[q] => o = q

-----------------------------------------------------------------------------
(* The threads *)

\* What the guards of t protect.
GPrev(t) == protects[<<t, "prev">>]
GCur(t)  == protects[<<t, "current">>]
GNext(t) == protects[<<t, "next">>]
GGoal(t) == protects[<<t, "goal">>]

\* A node under a guard has not been freed.
Guarded == \A g \in Guards : protects[g] # nullptr => status[protects[g]] # "free"

\* An insertion that has not linked its node.
Inserts(t) == op[t] \in {"insert", "update"} /\ pc[t] \in SearchLabels

\* The node of an insertion is its own.
Fresh ==
  /\ \A t \in Thread : Inserts(t) => new[t] # nullptr /\ status[new[t]] = "free"
  /\ \A t, u \in Thread : new[t] = new[u] /\ new[t] # nullptr => t = u

\* The place in the program tells the operation.
Doing(t) ==
  /\ pc[t] = "idle" => op[t] = "none" /\ arg[t] = nullptr
  /\ pc[t] # "idle" => op[t] # "none"
  /\ pc[t] # "idle" /\ op[t] # "clear" => arg[t] \in Key
  /\ pc[t] # "return" => res[t] = FALSE
  /\ pc[t] = "inserted" => op[t] \in {"insert", "update"}
  /\ pc[t] \in {"unlink", "erased"} => op[t] \in {"erase", "clear"}
  /\ pc[t] \in {"clear", "cleared"} => op[t] = "clear"
  /\ op[t] = "clear" /\ pc[t] \in SearchLabels \cup {"unlink"} => goal[t] # nullptr /\ GGoal(t) = goal[t]
  /\ op[t] = "update" /\ pc[t] = "inserted" => new[t] # nullptr /\ GGoal(t) = new[t]

\* The previous link is the head, or that of a guarded node with a smaller key.
PrevAt(t) ==
  \/ prev[t] \in Head /\ prev[t] = HeadOf(t)
  \/ prev[t] \in Obj /\ GPrev(t) = prev[t] /\ key[prev[t]] < KeyOf(t) /\ Bucket(key[prev[t]]) = HeadOf(t)

\* The current node is guarded.
HasCur(t) ==
  \/ pc[t] \in {"next", "check", "help", "present", "unlink", "erased"}
  \/ pc[t] = "absent" /\ cur[t] # nullptr
  \/ pc[t] = "return" /\ res[t] /\ op[t] # "clear"

\* The position of a search.  The guard on the next node was set while the current node was in
\* the list, if it still is.  A mark that was read, or set, is still there.
At(t) ==
  /\ pc[t] \in {"next", "check", "help", "absent", "present", "unlink"} => PrevAt(t)
  /\ HasCur(t) => cur[t] # nullptr /\ GCur(t) = cur[t]
  /\ pc[t] \in {"check", "help"} /\ status[cur[t]] = "linked" => GNext(t) = nxt[t].ptr
  /\ pc[t] \in {"check", "help"} /\ nxt[t].mark => link[cur[t]] = nxt[t]
  /\ pc[t] = "help" => nxt[t].mark
  /\ pc[t] = "unlink" => link[cur[t]] = Marked(nxt[t].ptr)
  /\ pc[t] = "present" => key[cur[t]] = KeyOf(t)
  /\ pc[t] = "absent" /\ cur[t] # nullptr => key[cur[t]] > KeyOf(t)

-----------------------------------------------------------------------------
(* What the order says *)

\* What the proofs need of the constants.
LEMMA Sorts == /\ Obj \cap Head = {} /\ nullptr \notin Obj /\ nullptr \notin Head
               /\ Key \subseteq Int /\ \A k \in Key : k \in Int /\ Bucket(k) \in Head
  BY ConstantsAssumption

\* The list and the key of a link.
LEMMA SpotIs ==
  ASSUME Typed, Kept, NEW l \in Spots
  PROVE  /\ l \in Link /\ link[l] \in Word /\ link[l].ptr \in Ptr /\ link[l].mark \in BOOLEAN
         /\ l \in Head => ListOf(l) = l /\ l \notin Obj /\ \A k : Before(l, k)
         /\ l \notin Head => /\ l \in In /\ l \in Obj /\ key[l] \in Key /\ key[l] \in Int
                             /\ ListOf(l) = Bucket(key[l]) /\ \A k : Before(l, k) <=> key[l] < k
<1>1. l \in Link /\ (l \in Head => l \notin Obj) /\ (l \notin Head => l \in In /\ l \in Obj)
  BY Sorts DEF Spots, Link, In
<1>2. link[l] \in Word
  BY <1>1 DEF Typed
<1>3. l \notin Head => key[l] \in Key /\ key[l] \in Int
  BY <1>1, Sorts DEF Kept, In
<1>. QED
  BY <1>1, <1>2, <1>3 DEF ListOf, Before, Word

\* A node of the list.
LEMMA InIs ==
  ASSUME Typed, Kept, NEW o \in In
  PROVE  o \in Obj /\ o \in Spots /\ o \notin Head /\ status[o] = "linked" /\ key[o] \in Key /\ key[o] \in Int
  BY Sorts DEF In, Spots, Kept

\* What a link leads to.
LEMMA LeadsTo ==
  ASSUME Typed, Kept, Ordered, NEW l \in Spots, link[l].ptr # nullptr
  PROVE  /\ link[l].ptr \in In /\ link[l].ptr \in Obj /\ key[link[l].ptr] \in Int
         /\ Before(l, key[link[l].ptr]) /\ Bucket(key[link[l].ptr]) = ListOf(l)
<1>1. link[l].ptr \in Obj
  BY SpotIs DEF Ptr
<1>2. Leads(l)
  BY DEF Ordered
<1>3. link[l].ptr \in In
  BY <1>1, <1>2 DEF Leads, In
<1>. QED
  BY <1>1, <1>2, <1>3, InIs DEF Leads

\* A key that belongs between two nodes next to each other is not in the list.
LEMMA Gap ==
  ASSUME Typed, Kept, Ordered, NEW l \in Spots, NEW k \in Key, Before(l, k), Bucket(k) = ListOf(l),
         link[l].ptr = nullptr \/ k < key[link[l].ptr]
  PROVE  \A o \in In : key[o] # k
<1> SUFFICES ASSUME NEW o \in In, key[o] = k PROVE FALSE
  OBVIOUS
<1>1. Skips(l, o)
  BY DEF Ordered
<1>2. link[l].ptr # nullptr /\ key[link[l].ptr] <= k
  BY <1>1 DEF Skips
<1>3. key[link[l].ptr] \in Int /\ k \in Int
  BY <1>2, LeadsTo, Sorts
<1>. QED
  BY SMT, <1>2, <1>3

\* A node comes after one link only.
LEMMA OnePrev ==
  ASSUME Typed, Kept, Ordered, NEW l \in Spots, NEW m \in Spots, link[l].ptr # nullptr, link[l].ptr = link[m].ptr
  PROVE  l = m
<1> DEFINE q == link[l].ptr
<1>1. key[q] \in Int /\ Before(l, key[q]) /\ Before(m, key[q]) /\ ListOf(l) = ListOf(m)
  BY LeadsTo
<1>2. ASSUME NEW a \in Spots, NEW b \in Spots, link[a].ptr = q, link[b].ptr = q, b \notin Head,
             Before(b, key[q]), ListOf(a) = ListOf(b), Before(a, key[b])
      PROVE  FALSE
  <2>1. b \in In /\ key[b] \in Int /\ ListOf(b) = Bucket(key[b]) /\ key[b] < key[q]
    BY <1>2, SpotIs
  <2>2. Skips(a, b)
    BY <2>1 DEF Ordered
  <2>3. key[q] <= key[b]
    BY <1>2, <2>1, <2>2 DEF Skips
  <2>. QED
    BY SMT, <1>1, <2>1, <2>3
<1>3. CASE l \in Head /\ m \in Head
  BY <1>1, <1>3, SpotIs
<1>4. CASE l \in Head /\ m \notin Head
  BY <1>1, <1>2, <1>4, SpotIs
<1>5. CASE l \notin Head /\ m \in Head
  BY <1>1, <1>2, <1>5, SpotIs
<1>6. CASE l \notin Head /\ m \notin Head
  <2>1. l \in In /\ m \in In /\ key[l] \in Int /\ key[m] \in Int
    BY <1>6, SpotIs
  <2>2. CASE key[l] < key[m]
    BY <1>1, <1>2, <1>6, <2>2, SpotIs
  <2>3. CASE key[m] < key[l]
    BY <1>1, <1>2, <1>6, <2>3, SpotIs
  <2>4. CASE key[m] = key[l]
    BY <2>1, <2>4 DEF Ordered
  <2>. QED
    BY SMT, <2>1, <2>2, <2>3, <2>4
<1>. QED
  BY <1>3, <1>4, <1>5, <1>6

-----------------------------------------------------------------------------
(* The steps, as the list sees them *)

\* The list stays as it is.
Quiet == link' = link /\ key' = key /\ status' = status

\* Node n with key k is linked behind p.
Insertion(p, n, k) ==
  /\ p \in Spots /\ ~ link[p].mark /\ Before(p, k) /\ ListOf(p) = Bucket(k)
  /\ link[p].ptr # nullptr => k < key[link[p].ptr]
  /\ n \in Obj /\ status[n] = "free" /\ k \in Key
  /\ link' = [link EXCEPT ![p] = To(n), ![n] = To(link[p].ptr)]
  /\ key' = [key EXCEPT ![n] = k]
  /\ status' = [status EXCEPT ![n] = "linked"]

\* Node c is deleted.
Marking(c) ==
  /\ c \in In /\ ~ link[c].mark
  /\ link' = [link EXCEPT ![c] = Marked(link[c].ptr)]
  /\ key' = key /\ status' = status

\* Node c, which was deleted, is unlinked from p.
Unlinking(p, c) ==
  /\ p \in Spots /\ link[p] = To(c) /\ c # nullptr /\ link[c].mark
  /\ link' = [link EXCEPT ![p] = To(link[c].ptr)]
  /\ key' = key
  /\ status' = [status EXCEPT ![c] = "retired"]

\* Node o is freed.
Freeing(o) ==
  /\ o \in Obj /\ status[o] = "retired" /\ \A g \in Guards : protects[g] # o
  /\ link' = [link EXCEPT ![o] = Null]
  /\ key' = [key EXCEPT ![o] = nullptr]
  /\ status' = [status EXCEPT ![o] = "free"]

\* The types of what the list is made of.
Shape ==
  /\ link \in [Link -> Word] /\ key \in [Obj -> Key \cup {nullptr}]
  /\ status \in [Obj -> {"free", "linked", "retired"}]

\* The words.
LEMMA Words ==
  /\ Null \in Word
  /\ \A p \in Ptr : To(p) \in Word /\ Marked(p) \in Word
  /\ \A p : To(p).ptr = p /\ Marked(p).ptr = p /\ To(p).mark = FALSE /\ Marked(p).mark = TRUE
  /\ Null.ptr = nullptr /\ Null.mark = FALSE /\ Null = To(nullptr)
  BY DEF Null, Word, To, Marked, Ptr

\* The list stays the list.
LEMMA QuietKeeps ==
  ASSUME Typed, Kept, Ordered, Quiet
  PROVE  Shape' /\ Kept' /\ Ordered'
<1>1. Shape'
  BY DEF Typed, Shape, Quiet
<1>2. Kept'
  BY DEF Kept, Quiet
<1>3. In' = In /\ Spots' = Spots
  BY DEF In, Spots, Quiet
<1>. QED
  BY <1>1, <1>2, <1>3 DEF Ordered, Leads, Skips, Before, ListOf, Quiet

\* A mark changes no pointer.
LEMMA MarkingKeeps ==
  ASSUME Typed, Kept, Ordered, NEW c, Marking(c)
  PROVE  Shape' /\ Kept' /\ Ordered'
<1>1. c \in Obj /\ c \in Link /\ link[c].ptr \in Ptr /\ status[c] = "linked" /\ c \notin Head
  BY InIs, SpotIs DEF Marking
<1>2. link' \in [Link -> Word] /\ \A l \in Link : link'[l].ptr = link[l].ptr /\ (l # c => link'[l] = link[l])
  BY ZenonT(60), <1>1, Words DEF Marking, Typed
<1>3. Shape'
  BY <1>2 DEF Typed, Shape, Marking
<1>4. Kept'
  BY <1>1, <1>2 DEF Kept, Marking, Link
<1>5. In' = In /\ Spots' = Spots /\ \A l \in Spots : l \in Link
  BY SpotIs DEF In, Spots, Marking
<1>6. key' = key /\ status' = status
  BY DEF Marking
<1>. QED
  BY ZenonT(60), <1>2, <1>3, <1>4, <1>5, <1>6 DEF Ordered, Leads, Skips, Before, ListOf

\* A node that is freed was not in a list.
LEMMA FreeingKeeps ==
  ASSUME Typed, Kept, Ordered, NEW o, Freeing(o)
  PROVE  Shape' /\ Kept' /\ Ordered'
<1>1. o \in Obj /\ o \in Link /\ o \notin Head /\ o \notin In
  BY Sorts DEF Freeing, Link, In
<1>2. /\ link' \in [Link -> Word] /\ \A l \in Link : l # o => link'[l] = link[l]
      /\ link'[o] = Null
  BY <1>1, Words DEF Freeing, Typed
<1>3. key' \in [Obj -> Key \cup {nullptr}] /\ \A q \in Obj : q # o => key'[q] = key[q]
  BY <1>1 DEF Freeing, Typed
<1>4. /\ status' \in [Obj -> {"free", "linked", "retired"}] /\ \A q \in Obj : q # o => status'[q] = status[q]
      /\ status'[o] = "free"
  BY <1>1 DEF Freeing, Typed
<1>5. Shape'
  BY <1>2, <1>3, <1>4 DEF Shape
<1>6. Kept'
  BY <1>1, <1>2, <1>3, <1>4 DEF Kept, Link
<1>7. In' = In /\ Spots' = Spots /\ o \notin Spots
  BY <1>1, <1>4 DEF In, Spots
<1>8. \A l \in Spots : l \in Link /\ link'[l] = link[l] /\ ListOf(l)' = ListOf(l) /\ \A k : Before(l, k)' <=> Before(l, k)
  BY <1>1, <1>2, <1>3, <1>7, SpotIs DEF ListOf, Before
<1>9. \A q \in In : q \in Obj /\ key'[q] = key[q] /\ status'[q] = status[q]
  BY <1>1, <1>3, <1>4 DEF In
<1>10. ASSUME NEW l \in Spots PROVE Leads(l)'
  BY SMT, <1>8, <1>9, LeadsTo, InIs DEF Leads
<1>11. ASSUME NEW l \in Spots, NEW q \in In PROVE Skips(l, q)'
  <2>1. Skips(l, q)
    BY DEF Ordered
  <2>2. link[l].ptr # nullptr => key'[link[l].ptr] = key[link[l].ptr]
    BY <1>9, LeadsTo
  <2>. QED
    BY <1>8, <1>9, <2>1, <2>2 DEF Skips
<1>12. \A p, q \in In : key'[p] = key'[q] => p = q
  BY <1>9 DEF Ordered
<1>. QED
  BY <1>5, <1>6, <1>7, <1>10, <1>11, <1>12 DEF Ordered

\* A node that is unlinked leaves its neighbours next to each other.
LEMMA UnlinkingKeeps ==
  ASSUME Typed, Kept, Ordered, NEW p, NEW c, Unlinking(p, c)
  PROVE  Shape' /\ Kept' /\ Ordered'
<1> DEFINE n == link[c].ptr
<1>1. /\ p \in Spots /\ p \in Link /\ link[p].ptr = c /\ p # c /\ c \in In /\ c \in Spots /\ c \in Obj /\ c \notin Head
      /\ Before(p, key[c]) /\ Bucket(key[c]) = ListOf(p) /\ key[c] \in Int /\ n \in Ptr
  <2>1. p \in Spots /\ p \in Link /\ link[p].ptr = c /\ ~ link[p].mark
    BY Words, SpotIs DEF Unlinking
  <2>2. c \in In /\ Before(p, key[c]) /\ Bucket(key[c]) = ListOf(p)
    BY <2>1, LeadsTo DEF Unlinking
  <2>. QED
    BY <2>1, <2>2, InIs, SpotIs DEF Unlinking
<1>2. /\ link' \in [Link -> Word] /\ \A l \in Link : l # p => link'[l] = link[l]
      /\ link'[p] = To(n)
  BY <1>1, Words DEF Unlinking, Typed
<1>3. key' = key
  BY DEF Unlinking
<1>4. /\ status' \in [Obj -> {"free", "linked", "retired"}] /\ \A q \in Obj : q # c => status'[q] = status[q]
      /\ status'[c] = "retired"
  BY <1>1 DEF Unlinking, Typed
<1>5. Shape'
  BY <1>2, <1>3, <1>4 DEF Shape, Typed
<1>6. Kept'
  <2>1. \A o \in Obj : status'[o] = "free" => link'[o] = Null
    <3> SUFFICES ASSUME NEW o \in Obj, status'[o] = "free" PROVE link'[o] = Null
      OBVIOUS
    <3>1. o # p /\ status[o] = "free"
      BY <1>1, <1>4, Sorts DEF Spots, In
    <3>. QED
      BY <1>2, <3>1 DEF Kept, Link
  <2>2. \A o \in Obj : status'[o] = "retired" => link'[o].mark
    <3> SUFFICES ASSUME NEW o \in Obj, status'[o] = "retired" PROVE link'[o].mark
      OBVIOUS
    <3>1. o # p
      BY <1>1, <1>4, Sorts DEF Spots, In
    <3>. QED
      BY <1>2, <1>4, <3>1 DEF Kept, Unlinking, Link
  <2>3. \A o \in Obj : status'[o] # "free" => key'[o] \in Key
    BY <1>1, <1>3, <1>4, InIs DEF Kept
  <2>4. \A h \in Head : ~ link'[h].mark
    BY SMT, <1>2, Words DEF Kept, Link
  <2>. QED
    BY <2>1, <2>2, <2>3, <2>4 DEF Kept
<1>7. In' = In \ {c} /\ Spots' = Spots \ {c}
  BY <1>1, <1>4 DEF In, Spots
<1>8. \A l : ListOf(l)' = ListOf(l) /\ \A k : Before(l, k)' <=> Before(l, k)
  BY <1>3 DEF ListOf, Before
<1>9. n # nullptr => n \in In /\ key[n] \in Int /\ key[c] < key[n] /\ Bucket(key[n]) = Bucket(key[c])
  BY <1>1, LeadsTo, SpotIs
<1>10. ASSUME NEW l \in Spots, l # c PROVE Leads(l)'
  <2>1. CASE l = p
    <3> SUFFICES ASSUME n # nullptr PROVE status'[n] = "linked" /\ Before(p, key[n]) /\ Bucket(key[n]) = ListOf(p)
      BY SMT, <1>2, <1>3, <1>8, <2>1, Words DEF Leads
    <3>1. n # c /\ n \in Obj
      BY SMT, <1>1, <1>9, InIs
    <3>2. Before(p, key[n])
      <4>1. CASE p \in Head
        BY <4>1, SpotIs, <1>1
      <4>2. CASE p \notin Head
        <5>1. key[p] \in Int /\ key[p] < key[c]
          BY <1>1, <4>2, SpotIs
        <5>. QED
          BY SMT, <1>1, <1>9, <5>1 DEF Before
      <4>. QED
        BY <4>1, <4>2
    <3>. QED
      BY <1>1, <1>4, <1>9, <3>1, <3>2, InIs
  <2>2. CASE l # p
    <3>1. l \in Link /\ link'[l] = link[l]
      BY <1>2, <2>2, SpotIs
    <3>2. link[l].ptr # nullptr => link[l].ptr # c
      BY <1>1, <2>2, OnePrev
    <3>. QED
      BY <1>3, <1>4, <1>8, <3>1, <3>2, LeadsTo, InIs DEF Leads
  <2>. QED
    BY <2>1, <2>2
<1>11. ASSUME NEW l \in Spots, l # c, NEW o \in In, o # c PROVE Skips(l, o)'
  <2>1. CASE l = p
    <3> SUFFICES ASSUME Bucket(key[o]) = ListOf(p), Before(p, key[o]) PROVE n # nullptr /\ key[n] <= key[o]
      BY ZenonT(60), <1>2, <1>3, <1>8, <2>1, Words DEF Skips
    <3>1. key[c] <= key[o]
      BY <1>1 DEF Ordered, Skips
    <3>2. key[c] # key[o] /\ key[o] \in Int
      BY <1>1, <1>11, InIs DEF Ordered
    <3>3. key[c] < key[o]
      BY SMT, <1>1, <3>1, <3>2
    <3>4. Before(c, key[o]) /\ Bucket(key[o]) = ListOf(c)
      BY <1>1, <3>3, SpotIs
    <3>. QED
      BY <1>1, <3>4 DEF Ordered, Skips
  <2>2. CASE l # p
    <3>1. link'[l] = link[l]
      BY <1>2, <2>2, SpotIs
    <3>. QED
      BY <1>3, <1>8, <3>1 DEF Ordered, Skips
  <2>. QED
    BY <2>1, <2>2
<1>12. \A o, q \in In : key'[o] = key'[q] => o = q
  BY <1>3 DEF Ordered
<1>. QED
  BY <1>5, <1>6, <1>7, <1>10, <1>11, <1>12 DEF Ordered

\* A node that is inserted comes between its neighbours.
LEMMA InsertionKeeps ==
  ASSUME Typed, Kept, Ordered, NEW p, NEW n, NEW k, Insertion(p, n, k)
  PROVE  Shape' /\ Kept' /\ Ordered'
<1> DEFINE q == link[p].ptr
<1>1. /\ p \in Spots /\ p \in Link /\ n \in Obj /\ n \in Link /\ n \notin Head /\ n \notin In /\ n \notin Spots /\ p # n
      /\ k \in Key /\ k \in Int /\ Before(p, k) /\ Bucket(k) = ListOf(p) /\ q \in Ptr /\ status[n] = "free"
  BY Sorts, SpotIs DEF Insertion, Spots, In, Link
<1>2. /\ link' \in [Link -> Word] /\ \A l \in Link : l # p /\ l # n => link'[l] = link[l]
      /\ link'[p] = To(n) /\ link'[n] = To(q)
  BY <1>1, Words DEF Insertion, Typed, Ptr
<1>3. key' \in [Obj -> Key \cup {nullptr}] /\ key'[n] = k /\ \A o \in Obj : o # n => key'[o] = key[o]
  BY <1>1 DEF Insertion, Typed
<1>4. /\ status' \in [Obj -> {"free", "linked", "retired"}] /\ \A o \in Obj : o # n => status'[o] = status[o]
      /\ status'[n] = "linked"
  BY <1>1 DEF Insertion, Typed
<1>5. Shape'
  BY <1>2, <1>3, <1>4 DEF Shape
<1>6. Kept'
  <2>1. \A o \in Obj : status'[o] = "free" => link'[o] = Null
    <3> SUFFICES ASSUME NEW o \in Obj, status'[o] = "free" PROVE link'[o] = Null
      OBVIOUS
    <3>1. o # p /\ o # n /\ status[o] = "free"
      BY <1>1, <1>4, Sorts DEF Spots, In
    <3>. QED
      BY <1>2, <3>1 DEF Kept, Link
  <2>2. \A o \in Obj : status'[o] = "retired" => link'[o].mark
    <3> SUFFICES ASSUME NEW o \in Obj, status'[o] = "retired" PROVE link'[o].mark
      OBVIOUS
    <3>1. o # p /\ o # n
      BY <1>1, <1>4, Sorts DEF Spots, In
    <3>. QED
      BY <1>2, <1>4, <3>1 DEF Kept, Link
  <2>3. \A o \in Obj : status'[o] # "free" => key'[o] \in Key
    BY <1>1, <1>3, <1>4 DEF Kept
  <2>4. \A h \in Head : ~ link'[h].mark
    BY SMT, <1>1, <1>2, Words DEF Kept, Link
  <2>. QED
    BY <2>1, <2>2, <2>3, <2>4 DEF Kept
<1>7. In' = In \cup {n} /\ Spots' = Spots \cup {n}
  BY <1>1, <1>4 DEF In, Spots
<1>8. \A l \in Spots : /\ l \in Link /\ l # n /\ (l # p => link'[l] = link[l])
                       /\ ListOf(l)' = ListOf(l) /\ \A x : Before(l, x)' <=> Before(l, x)
  BY <1>1, <1>2, <1>3, SpotIs DEF ListOf, Before
<1>9. ListOf(n)' = Bucket(k) /\ \A x : Before(n, x)' <=> k < x
  BY <1>1, <1>3 DEF ListOf, Before
<1>10. \A o \in In : o \in Obj /\ o # n /\ key'[o] = key[o] /\ status'[o] = "linked" /\ key[o] \in Int
  BY <1>1, <1>3, <1>4, InIs
<1>11. q # nullptr => q \in In /\ key[q] \in Int /\ k < key[q] /\ Bucket(key[q]) = ListOf(p)
  BY <1>1, LeadsTo DEF Insertion
<1>12. ASSUME NEW l \in Spots PROVE Leads(l)'
  <2>1. CASE l = p
    BY SMTT(40), <1>1, <1>2, <1>3, <1>4, <1>8, <2>1, Words DEF Leads
  <2>2. CASE l # p
    BY SMTT(40), <1>8, <1>10, <2>2, LeadsTo DEF Leads
  <2>. QED
    BY <2>1, <2>2
<1>13. Leads(n)'
  BY SMT, <1>1, <1>2, <1>9, <1>10, <1>11, Words DEF Leads
<1>14. ASSUME NEW l \in Spots, NEW o \in In PROVE Skips(l, o)'
  <2>1. Skips(l, o)
    BY DEF Ordered
  <2>2. CASE l = p
    <3> SUFFICES ASSUME Bucket(key[o]) = ListOf(p), Before(p, key[o]) PROVE k <= key[o]
      BY SMT, <1>1, <1>2, <1>3, <1>8, <1>10, <2>2, Words, Sorts DEF Skips
    <3>1. q # nullptr /\ key[q] <= key[o]
      BY <2>1, <2>2 DEF Skips
    <3>. QED
      BY SMTT(40), <1>1, <1>10, <1>11, <3>1
  <2>3. CASE l # p
    <3>1. link'[l] = link[l] /\ (link[l].ptr # nullptr => key'[link[l].ptr] = key[link[l].ptr])
      BY <1>8, <1>10, <2>3, LeadsTo
    <3>. QED
      BY <1>8, <1>10, <2>1, <3>1 DEF Skips
  <2>. QED
    BY <2>2, <2>3
<1>15. ASSUME NEW o \in In PROVE Skips(n, o)'
  <2> SUFFICES ASSUME Bucket(key[o]) = Bucket(k), k < key[o] PROVE q # nullptr /\ key'[q] <= key[o]
    BY SMT, <1>1, <1>2, <1>9, <1>10, Words DEF Skips
  <2>1. Before(p, key[o])
    <3>1. CASE p \in Head
      BY <3>1, <1>1, SpotIs
    <3>2. CASE p \notin Head
      <4>1. key[p] \in Int /\ key[p] < k
        BY <1>1, <3>2, SpotIs
      <4>. QED
        BY SMT, <1>1, <1>10, <4>1 DEF Before
    <3>. QED
      BY <3>1, <3>2
  <2>2. q # nullptr /\ key[q] <= key[o]
    BY <1>1, <2>1 DEF Ordered, Skips
  <2>. QED
    BY <1>10, <1>11, <2>2
<1>16. ASSUME NEW l \in Spots PROVE Skips(l, n)'
  <2>1. CASE l = p
    BY SMT, <1>1, <1>2, <1>3, <2>1, Words, Sorts DEF Skips
  <2>2. CASE l # p
    <3> SUFFICES ASSUME Bucket(k) = ListOf(l), Before(l, k)
                 PROVE  link[l].ptr # nullptr /\ key[link[l].ptr] <= k
      <4>1. link[l].ptr # nullptr => key'[link[l].ptr] = key[link[l].ptr]
        BY <1>10, LeadsTo
      <4>. QED
        BY <1>3, <1>8, <2>2, <4>1, <1>1 DEF Skips
    <3>1. ASSUME p \notin Head, Before(l, key[p]) PROVE link[l].ptr # nullptr /\ key[link[l].ptr] <= k
      <4>1. p \in In /\ key[p] \in Int /\ key[p] < k /\ Bucket(key[p]) = ListOf(l)
        BY <1>1, <3>1, SpotIs
      <4>2. link[l].ptr # nullptr /\ key[link[l].ptr] <= key[p]
        BY <3>1, <4>1 DEF Ordered, Skips
      <4>3. key[link[l].ptr] \in Int
        BY <4>2, LeadsTo
      <4>. QED
        BY SMT, <1>1, <4>1, <4>2, <4>3
    <3>2. ASSUME l \notin Head, Before(p, key[l]) PROVE FALSE
      <4>1. l \in In /\ key[l] \in Int /\ key[l] < k /\ Bucket(key[l]) = ListOf(p)
        BY <1>1, <3>2, SpotIs
      <4>2. q # nullptr /\ key[q] <= key[l]
        BY <1>1, <3>2, <4>1 DEF Ordered, Skips
      <4>. QED
        BY SMT, <1>1, <1>11, <4>1, <4>2
    <3>3. CASE l \in Head
      <4>1. p \notin Head
        BY <1>1, <2>2, <3>3, SpotIs
      <4>. QED
        BY <3>1, <3>3, <4>1, SpotIs
    <3>4. CASE l \notin Head
      <4>1. CASE p \in Head
        BY <1>1, <3>2, <3>4, <4>1, SpotIs
      <4>2. CASE p \notin Head
        <5>1. l \in In /\ p \in In /\ key[l] \in Int /\ key[p] \in Int
          BY <1>1, <3>4, <4>2, SpotIs
        <5>2. key[l] # key[p]
          BY <2>2, <5>1 DEF Ordered
        <5>3. key[l] < key[p] \/ key[p] < key[l]
          BY SMT, <5>1, <5>2
        <5>. QED
          BY <1>1, <3>1, <3>2, <3>4, <4>2, <5>3, SpotIs
      <4>. QED
        BY <4>1, <4>2
    <3>. QED
      BY <3>3, <3>4
  <2>. QED
    BY <2>1, <2>2
<1>17. Skips(n, n)'
  BY SMT, <1>1, <1>3, <1>9 DEF Skips
<1>18. \A o, r \in In \cup {n} : key'[o] = key'[r] => o = r
  <2>1. \A o \in In : key[o] # k
    BY <1>1, <1>11, Gap
  <2>. QED
    BY <1>3, <1>10, <2>1 DEF Ordered
<1>. QED
  <2>1. \A l \in Spots \cup {n} : Leads(l)'
    BY <1>12, <1>13
  <2>2. \A l \in Spots \cup {n} : \A o \in In \cup {n} : Skips(l, o)'
    BY <1>14, <1>15, <1>16, <1>17
  <2>. QED
    BY <1>5, <1>6, <1>7, <1>18, <2>1, <2>2 DEF Ordered

\* What a step may do to the lists.
Change ==
  \/ Quiet
  \/ \E p, n, k : Insertion(p, n, k)
  \/ \E c : Marking(c)
  \/ \E p, c : Unlinking(p, c)
  \/ \E o : Freeing(o)

\* Each of them keeps the lists sorted.
LEMMA ChangeKeeps ==
  ASSUME Typed, Kept, Ordered, Change
  PROVE  Shape' /\ Kept' /\ Ordered'
  BY QuietKeeps, InsertionKeeps, MarkingKeeps, UnlinkingKeeps, FreeingKeeps DEF Change

\* A node that is not freed keeps its key, and its link if that is marked, and does not return.
Stays(o) ==
  /\ status'[o] # "free" /\ key'[o] = key[o]
  /\ link[o].mark => link'[o] = link[o]
  /\ status'[o] = "linked" => status[o] = "linked"

\* That is what becomes of a node in use, unless it is freed; and a guarded one is not.
LEMMA NodeStays ==
  ASSUME Typed, Kept, Ordered, Change, NEW o \in Obj, status[o] # "free"
  PROVE  /\ Stays(o) \/ (status'[o] = "free" /\ \A g \in Guards : protects[g] # o)
         /\ \A g \in Guards : protects[g] = o => Stays(o)
<1>0. o \in Link
  BY DEF Link
<1>1. CASE Quiet
  BY <1>1 DEF Quiet, Stays
<1>2. ASSUME NEW p, NEW n, NEW k, Insertion(p, n, k) PROVE Stays(o)
  <2>1. o # n /\ n \in Obj /\ p \in Link /\ ~ link[p].mark
    BY <1>2, SpotIs DEF Insertion
  <2>. QED
    BY <1>0, <1>2, <2>1 DEF Insertion, Stays, Typed
<1>3. ASSUME NEW c, Marking(c) PROVE Stays(o)
  <2>1. ~ link[c].mark
    BY <1>3 DEF Marking
  <2>. QED
    BY <1>0, <1>3, <2>1 DEF Marking, Stays, Typed
<1>4. ASSUME NEW p, NEW c, Unlinking(p, c) PROVE Stays(o)
  <2>1. ~ link[p].mark
    BY <1>4, Words DEF Unlinking
  <2>. QED
    BY <1>0, <1>4, <2>1 DEF Unlinking, Stays, Typed
<1>5. ASSUME NEW f, Freeing(f)
      PROVE  /\ Stays(o) \/ (status'[o] = "free" /\ \A g \in Guards : protects[g] # o)
             /\ \A g \in Guards : protects[g] = o => Stays(o)
  <2>1. CASE o = f
    BY <1>5, <2>1 DEF Freeing, Typed
  <2>2. CASE o # f
    BY <1>0, <1>5, <2>2 DEF Freeing, Stays, Typed
  <2>. QED
    BY <2>1, <2>2
<1>. QED
  BY <1>1, <1>2, <1>3, <1>4, <1>5 DEF Change

-----------------------------------------------------------------------------
(* Guards and locals *)

\* The guards.
LEMMA Names ==
  /\ \A t \in Thread : \A n \in {"prev", "current", "next", "goal"} : <<t, n>> \in Guards
  /\ \A t, u : \A m, n : <<t, m>> = <<u, n>> => t = u /\ m = n
  /\ \A g \in Guards : g[1] \in Thread /\ g = <<g[1], g[2]>>
  BY SMT DEF Guards

\* Guard::protect sets one guard, on a node of the list or on nothing.
LEMMA ProtectSets ==
  ASSUME Typed, NEW g \in Guards, NEW p \in Ptr, Protect(g, p)
  PROVE  /\ protects' \in [Guards -> Ptr] /\ status' = status
         /\ \A f \in Guards : f # g => protects'[f] = protects[f]
         /\ protects'[g] = IF p # nullptr /\ status[p] = "linked" THEN p ELSE nullptr
<1>1. CASE p # nullptr /\ status[p] = "linked"
  BY <1>1 DEF Protect, SMR!Protect, Typed
<1>2. CASE ~ (p # nullptr /\ status[p] = "linked")
  <2>1. protects' = [f \in Guards |-> IF f \in {g} THEN nullptr ELSE protects[f]] /\ status' = status
    BY <1>2 DEF Protect, SMR!Release
  <2>. QED
    BY <1>2, <2>1 DEF Typed, Ptr
<1>. QED
  BY <1>1, <1>2

\* Nothing happens to thread u.
Same(u) ==
  /\ pc'[u] = pc[u] /\ op'[u] = op[u] /\ arg'[u] = arg[u] /\ new'[u] = new[u] /\ goal'[u] = goal[u]
  /\ res'[u] = res[u] /\ prev'[u] = prev[u] /\ cur'[u] = cur[u] /\ nxt'[u] = nxt[u]
  /\ GPrev(u)' = GPrev(u) /\ GCur(u)' = GCur(u) /\ GNext(u)' = GNext(u) /\ GGoal(u)' = GGoal(u)

\* The types of what the threads have.
Locals ==
  /\ pc \in [Thread -> Labels] /\ op \in [Thread -> Ops \cup {"none"}]
  /\ arg \in [Thread -> Key \cup {nullptr}] /\ new \in [Thread -> Ptr]
  /\ prev \in [Thread -> Link \cup {nullptr}] /\ cur \in [Thread -> Ptr] /\ nxt \in [Thread -> Word]
  /\ goal \in [Thread -> Ptr] /\ res \in [Thread -> BOOLEAN]
  /\ protects \in [Guards -> Ptr]

\* Where the guards come from: another guard, or a node of the list.
Sources ==
  \A g \in Guards : protects'[g] # nullptr =>
    (\E f \in Guards : protects'[g] = protects[f]) \/ status'[protects'[g]] = "linked"

\* What a step of t does to the threads.
Moves(t) ==
  /\ Locals' /\ Sources
  /\ \A u \in Thread : u # t => Same(u)
  /\ new'[t] = new[t] \/ new'[t] = nullptr \/ \A u \in Thread : new[u] # new'[t]
  /\ Inserts(t)' => new'[t] # nullptr /\ status'[new'[t]] = "free"

\* The guards stay as they are.
LEMMA GuardsSame ==
  ASSUME protects' = protects
  PROVE  Sources /\ \A u : GPrev(u)' = GPrev(u) /\ GCur(u)' = GCur(u) /\ GNext(u)' = GNext(u) /\ GGoal(u)' = GGoal(u)
  BY DEF Sources, GPrev, GCur, GNext, GGoal

\* One guard of t is set, on a node of the list or on nothing.
LEMMA GuardSet ==
  ASSUME Typed, NEW t \in Thread, NEW n \in {"prev", "current", "next", "goal"}, NEW p \in Ptr, Protect(<<t, n>>, p)
  PROVE  /\ Sources /\ protects' \in [Guards -> Ptr] /\ status' = status
         /\ \A u \in Thread : u # t => GPrev(u)' = GPrev(u) /\ GCur(u)' = GCur(u) /\ GNext(u)' = GNext(u) /\ GGoal(u)' = GGoal(u)
         /\ n # "prev" => GPrev(t)' = GPrev(t)
         /\ n # "current" => GCur(t)' = GCur(t)
         /\ n # "next" => GNext(t)' = GNext(t)
         /\ n # "goal" => GGoal(t)' = GGoal(t)
         /\ protects'[<<t, n>>] = IF p # nullptr /\ status[p] = "linked" THEN p ELSE nullptr
<1>1. <<t, n>> \in Guards
  BY Names
<1>2. /\ protects' \in [Guards -> Ptr] /\ status' = status
      /\ \A f \in Guards : f # <<t, n>> => protects'[f] = protects[f]
      /\ protects'[<<t, n>>] = IF p # nullptr /\ status[p] = "linked" THEN p ELSE nullptr
  BY <1>1, ProtectSets
<1>3. Sources
  BY <1>1, <1>2 DEF Sources
<1>4. \A u \in Thread : \A m \in {"prev", "current", "next", "goal"} :
        u # t \/ m # n => protects'[<<u, m>>] = protects[<<u, m>>]
  BY <1>2, Names
<1>. QED
  BY <1>2, <1>3, <1>4 DEF GPrev, GCur, GNext, GGoal

\* All guards of t are cleared.
LEMMA GuardsCleared ==
  ASSUME Typed, NEW t \in Thread, SMR!Release({g \in Guards : g[1] = t})
  PROVE  /\ Sources /\ protects' \in [Guards -> Ptr] /\ status' = status
         /\ \A u \in Thread : u # t => GPrev(u)' = GPrev(u) /\ GCur(u)' = GCur(u) /\ GNext(u)' = GNext(u) /\ GGoal(u)' = GGoal(u)
<1>1. /\ protects' = [g \in Guards |-> IF g \in {f \in Guards : f[1] = t} THEN nullptr ELSE protects[g]]
      /\ status' = status
  BY DEF SMR!Release
<1>2. protects' \in [Guards -> Ptr]
  BY <1>1 DEF Typed, Ptr
<1>3. Sources
  BY <1>1 DEF Sources
<1>4. \A u \in Thread : u # t => \A m \in {"prev", "current", "next", "goal"} : protects'[<<u, m>>] = protects[<<u, m>>]
  <2> SUFFICES ASSUME NEW u \in Thread, u # t, NEW m \in {"prev", "current", "next", "goal"}
               PROVE  protects'[<<u, m>>] = protects[<<u, m>>]
    OBVIOUS
  <2>1. <<u, m>> \in Guards /\ <<u, m>>[1] = u
    BY Names
  <2>. QED
    BY <1>1, <2>1
<1>. QED
  BY <1>1, <1>2, <1>3, <1>4 DEF GPrev, GCur, GNext, GGoal

-----------------------------------------------------------------------------
(* What the invariant says of a thread *)

\* The invariant without what the calls have seen.
Base ==
  /\ Typed /\ Kept /\ Ordered /\ Guarded /\ Fresh
  /\ \A t \in Thread : Doing(t) /\ At(t)

\* What is shown of each step of t.
Good(t) == Change /\ Moves(t) /\ Doing(t)' /\ At(t)'

\* The variables of t have their types.
LEMMA TypesOf ==
  ASSUME Typed, NEW t \in Thread
  PROVE  /\ pc[t] \in Labels /\ op[t] \in Ops \cup {"none"} /\ arg[t] \in Key \cup {nullptr} /\ new[t] \in Ptr
         /\ prev[t] \in Link \cup {nullptr} /\ cur[t] \in Ptr /\ nxt[t] \in Word /\ goal[t] \in Ptr
         /\ res[t] \in BOOLEAN /\ nxt[t].ptr \in Ptr /\ nxt[t].mark \in BOOLEAN
         /\ GPrev(t) \in Ptr /\ GCur(t) \in Ptr /\ GNext(t) \in Ptr /\ GGoal(t) \in Ptr
<1>1. nxt[t] \in Word
  BY DEF Typed
<1>2. \A n \in {"prev", "current", "next", "goal"} : protects[<<t, n>>] \in Ptr
  BY Names DEF Typed
<1>. QED
  BY <1>1, <1>2 DEF Typed, Word, GPrev, GCur, GNext, GGoal

\* A guarded node is in use or waits to be freed.
LEMMA GuardedIs ==
  ASSUME Typed, Kept, Guarded, NEW t \in Thread, NEW o, o # nullptr, o \in {GPrev(t), GCur(t), GNext(t), GGoal(t)}
  PROVE  /\ o \in Obj /\ o \in Link /\ status[o] # "free" /\ key[o] \in Key /\ key[o] \in Int /\ Bucket(key[o]) \in Head
         /\ link[o] \in Word
         /\ ~ link[o].mark => o \in In
<1>1. PICK g \in Guards : o = protects[g]
  BY Names DEF GPrev, GCur, GNext, GGoal
<1>2. o \in Obj /\ status[o] # "free"
  BY <1>1 DEF Typed, Guarded, Ptr
<1>3. ~ link[o].mark => o \in In
  BY <1>2 DEF Kept, Typed, In
<1>. QED
  BY <1>2, <1>3, Sorts DEF Kept, Typed, Link

\* The key that is searched for, and its list.
LEMMA KeyIs ==
  ASSUME Base, NEW t \in Thread, pc[t] \in SearchLabels \cup {"unlink"}
  PROVE  KeyOf(t) \in Key /\ KeyOf(t) \in Int /\ HeadOf(t) = Bucket(KeyOf(t)) /\ HeadOf(t) \in Head
<1>1. Typed /\ Kept /\ Guarded /\ Doing(t)
  BY DEF Base
<1>2. CASE op[t] = "clear"
  <2>1. goal[t] # nullptr /\ goal[t] = GGoal(t)
    BY <1>1, <1>2 DEF Doing
  <2>2. key[goal[t]] \in Key
    BY <1>1, <2>1, GuardedIs
  <2>. QED
    BY <1>2, <2>2, Sorts DEF KeyOf, HeadOf
<1>3. CASE op[t] # "clear"
  <2>1. arg[t] \in Key
    BY <1>1, <1>3 DEF Doing, SearchLabels
  <2>. QED
    BY <1>3, <2>1, Sorts DEF KeyOf, HeadOf
<1>. QED
  BY <1>2, <1>3

\* Where the search is: the previous link is in the list if it is not marked.
LEMMA PrevIs ==
  ASSUME Base, NEW t \in Thread, pc[t] \in {"next", "check", "help", "absent", "present", "unlink"}
  PROVE  /\ prev[t] \in Link
         /\ prev[t] \in Obj => status[prev[t]] # "free"
         /\ ~ link[prev[t]].mark => prev[t] \in Spots /\ Before(prev[t], KeyOf(t)) /\ ListOf(prev[t]) = HeadOf(t)
<1>1. Typed /\ Kept /\ Guarded /\ PrevAt(t)
  BY DEF Base, At
<1>2. CASE prev[t] \in Head /\ prev[t] = HeadOf(t)
  BY <1>2, Sorts DEF Link, Spots, Before, ListOf
<1>3. CASE prev[t] \in Obj /\ GPrev(t) = prev[t] /\ key[prev[t]] < KeyOf(t) /\ Bucket(key[prev[t]]) = HeadOf(t)
  <2>1. status[prev[t]] # "free" /\ (~ link[prev[t]].mark => prev[t] \in In)
    BY <1>1, <1>3, GuardedIs, Sorts
  <2>. QED
    BY <1>3, <2>1, Sorts DEF Link, Spots, Before, ListOf
<1>. QED
  BY <1>1, <1>2, <1>3 DEF PrevAt

\* The current node.
LEMMA CurIs ==
  ASSUME Base, NEW t \in Thread, HasCur(t)
  PROVE  /\ cur[t] \in Obj /\ cur[t] \in Link /\ cur[t] # nullptr /\ GCur(t) = cur[t] /\ status[cur[t]] # "free"
         /\ key[cur[t]] \in Key /\ key[cur[t]] \in Int /\ Bucket(key[cur[t]]) \in Head /\ link[cur[t]] \in Word
         /\ ~ link[cur[t]].mark => cur[t] \in In
<1>1. Typed /\ Kept /\ Guarded /\ cur[t] # nullptr /\ GCur(t) = cur[t]
  BY DEF Base, At
<1>. QED
  BY <1>1, GuardedIs

\* If the previous link leads to the current node, both are in the list.
LEMMA BothIn ==
  ASSUME Base, NEW t \in Thread, pc[t] \in {"next", "check", "help", "present", "unlink"}, link[prev[t]] = To(cur[t])
  PROVE  /\ prev[t] \in Spots /\ Before(prev[t], KeyOf(t)) /\ ListOf(prev[t]) = HeadOf(t)
         /\ cur[t] \in In /\ cur[t] \in Spots /\ Bucket(key[cur[t]]) = HeadOf(t)
         /\ status[cur[t]] = "linked"
<1>1. link[prev[t]].ptr = cur[t] /\ ~ link[prev[t]].mark
  BY Words
<1>2. prev[t] \in Spots /\ Before(prev[t], KeyOf(t)) /\ ListOf(prev[t]) = HeadOf(t)
  BY <1>1, PrevIs
<1>3. cur[t] # nullptr
  BY CurIs DEF HasCur
<1>. QED
  BY <1>1, <1>2, <1>3, LeadsTo, InIs DEF Base

\* The step leaves the lists and the guards alone, and the operation of t.
Idles(t) == link' = link /\ key' = key /\ protects' = protects /\ status' = status /\ UNCHANGED callVars

\* Then only the position and the place of t have to be looked at.
LEMMA IdlesMoves ==
  ASSUME Base, NEW t \in Thread, Idles(t), pc[t] \in SearchLabels, NEW l \in Labels, pc' = [pc EXCEPT ![t] = l],
         NEW a \in Link \cup {nullptr}, prev' = [prev EXCEPT ![t] = a],
         NEW b \in Ptr, cur' = [cur EXCEPT ![t] = b],
         NEW c \in Word, nxt' = [nxt EXCEPT ![t] = c]
  PROVE  /\ Change /\ Moves(t)
         /\ pc'[t] = l /\ prev'[t] = a /\ cur'[t] = b /\ nxt'[t] = c
         /\ KeyOf(t)' = KeyOf(t) /\ HeadOf(t)' = HeadOf(t)
         /\ GPrev(t)' = GPrev(t) /\ GCur(t)' = GCur(t) /\ GNext(t)' = GNext(t) /\ GGoal(t)' = GGoal(t)
<1>1. Typed /\ Fresh
  BY DEF Base
<1>2. UNCHANGED <<op, arg, new, goal, res>>
  BY DEF Idles, callVars
<1>3. Change
  BY DEF Change, Quiet, Idles
<1>4. Locals'
  BY <1>1, <1>2 DEF Locals, Typed, Idles
<1>5. Sources /\ \A u : GPrev(u)' = GPrev(u) /\ GCur(u)' = GCur(u) /\ GNext(u)' = GNext(u) /\ GGoal(u)' = GGoal(u)
  BY GuardsSame DEF Idles
<1>6. pc'[t] = l /\ prev'[t] = a /\ cur'[t] = b /\ nxt'[t] = c
  BY <1>1 DEF Typed
<1>7. \A u \in Thread : u # t => Same(u)
  BY <1>1, <1>2, <1>5 DEF Same, Typed
<1>8. Inserts(t)' => new'[t] # nullptr /\ status'[new'[t]] = "free"
  BY <1>1, <1>2 DEF Inserts, Fresh, Idles
<1>9. KeyOf(t)' = KeyOf(t) /\ HeadOf(t)' = HeadOf(t)
  BY <1>2 DEF KeyOf, HeadOf, Idles
<1>. QED
  BY <1>2, <1>3, <1>4, <1>5, <1>6, <1>7, <1>8, <1>9 DEF Moves

\* try_again.
LEMMA RestartGood ==
  ASSUME Base, NEW t \in Thread, pc[t] \in SearchLabels, Again(t, "start"),
         UNCHANGED <<listVars, m_ItemCounter, callVars, gcVars>>
  PROVE  Good(t)
<1>1. Idles(t)
  BY DEF Idles, listVars, gcVars
<1>2. "start" \in Labels /\ nullptr \in Link \cup {nullptr} /\ nullptr \in Ptr /\ Null \in Word
  BY Words DEF Labels, SearchLabels, Ptr
<1>3. /\ pc' = [pc EXCEPT ![t] = "start"] /\ prev' = [prev EXCEPT ![t] = nullptr]
      /\ cur' = [cur EXCEPT ![t] = nullptr] /\ nxt' = [nxt EXCEPT ![t] = Null]
  BY DEF Again, Goto, ClearPosition
<1>4. Change /\ Moves(t) /\ pc'[t] = "start" /\ GGoal(t)' = GGoal(t)
  BY <1>1, <1>2, <1>3, IdlesMoves
<1>5. UNCHANGED <<op, arg, new, goal, res>>
  BY DEF callVars
<1>6. Doing(t)
  BY DEF Base
<1>7. Doing(t)'
  BY <1>4, <1>5, <1>6 DEF Doing, SearchLabels
<1>8. At(t)'
  BY <1>4 DEF At, HasCur
<1>. QED
  BY <1>4, <1>7, <1>8 DEF Good

-----------------------------------------------------------------------------
(* The steps of a search *)

\* The guard on the first node is set while the node is in the list.
LEMMA SearchHeadGood ==
  ASSUME Base, NEW t \in Thread, SearchHead(t)
  PROVE  Good(t)
<1> DEFINE h == HeadOf(t)
           p == link[h].ptr
<1>1. Typed /\ Kept /\ Ordered /\ Fresh /\ Doing(t)
  BY DEF Base
<1>2. pc[t] = "start" /\ h \in Head /\ h \in Spots /\ h \in Link /\ p \in Ptr
  BY <1>1, KeyIs, SpotIs DEF SearchHead, SearchLabels, Spots
<1>3. p # nullptr => status[p] = "linked"
  BY <1>1, <1>2, LeadsTo, InIs
<1>4. /\ Sources /\ protects' \in [Guards -> Ptr] /\ status' = status
      /\ \A u \in Thread : u # t => GPrev(u)' = GPrev(u) /\ GCur(u)' = GCur(u) /\ GNext(u)' = GNext(u) /\ GGoal(u)' = GGoal(u)
      /\ GGoal(t)' = GGoal(t) /\ GCur(t)' = p
  <2>1. Protect(<<t, "current">>, p) /\ "current" \in {"prev", "current", "next", "goal"}
    BY DEF SearchHead
  <2>2. "current" # "goal"
    OBVIOUS
  <2>. QED
    BY <1>1, <1>2, <1>3, <2>1, <2>2, GuardSet DEF GCur
<1>5. /\ UNCHANGED <<op, arg, new, goal, res>> /\ nxt' = nxt
      /\ prev' = [prev EXCEPT ![t] = h] /\ cur' = [cur EXCEPT ![t] = p]
      /\ pc' = [pc EXCEPT ![t] = IF p = nullptr THEN "absent" ELSE "next"]
      /\ link' = link /\ key' = key
  BY DEF SearchHead, Goto, callVars, listVars
<1>6. Change
  BY <1>4, <1>5 DEF Change, Quiet
<1>7. Locals'
  BY <1>1, <1>2, <1>4, <1>5 DEF Locals, Typed, Labels, SearchLabels
<1>8. prev'[t] = h /\ cur'[t] = p /\ pc'[t] = (IF p = nullptr THEN "absent" ELSE "next")
  BY <1>1, <1>5 DEF Typed
<1>9. \A u \in Thread : u # t => Same(u)
  BY <1>1, <1>4, <1>5 DEF Same, Typed
<1>10. Moves(t)
  BY <1>1, <1>2, <1>4, <1>5, <1>7, <1>9 DEF Moves, Fresh, Inserts, SearchLabels
<1>11. Doing(t)'
  BY SMT, <1>1, <1>2, <1>4, <1>5, <1>8 DEF Doing, SearchLabels
<1>12. HeadOf(t)' = h
  BY <1>5 DEF HeadOf
<1>13. At(t)'
  BY <1>2, <1>4, <1>8, <1>12 DEF At, HasCur, PrevAt
<1>. QED
  BY <1>6, <1>10, <1>11, <1>13 DEF Good

\* The guard on the next node is set while it is in the list, if the current node is.
LEMMA SearchNextGood ==
  ASSUME Base, NEW t \in Thread, SearchNext(t)
  PROVE  Good(t)
<1> DEFINE w == link[cur[t]]
<1>1. Typed /\ Kept /\ Ordered /\ Fresh /\ Doing(t) /\ At(t)
  BY DEF Base
<1>2. pc[t] = "next" /\ cur[t] \in Obj /\ cur[t] # nullptr /\ GCur(t) = cur[t] /\ w \in Word /\ w.ptr \in Ptr
  BY CurIs DEF SearchNext, HasCur, Word
<1>3. status[cur[t]] = "linked" /\ w.ptr # nullptr => status[w.ptr] = "linked"
  BY <1>1, <1>2, LeadsTo, InIs DEF In, Spots
<1>4. /\ Sources /\ protects' \in [Guards -> Ptr] /\ status' = status
      /\ \A u \in Thread : u # t => GPrev(u)' = GPrev(u) /\ GCur(u)' = GCur(u) /\ GNext(u)' = GNext(u) /\ GGoal(u)' = GGoal(u)
      /\ GGoal(t)' = GGoal(t) /\ GCur(t)' = GCur(t) /\ GPrev(t)' = GPrev(t)
      /\ GNext(t)' = IF w.ptr # nullptr /\ status[w.ptr] = "linked" THEN w.ptr ELSE nullptr
  <2>1. Protect(<<t, "next">>, w.ptr) /\ "next" \in {"prev", "current", "next", "goal"}
    BY DEF SearchNext
  <2>2. "next" # "goal" /\ "next" # "current" /\ "next" # "prev"
    OBVIOUS
  <2>. QED
    BY <1>1, <1>2, <2>1, <2>2, GuardSet DEF GNext
<1>5. /\ UNCHANGED <<op, arg, new, goal, res>> /\ prev' = prev /\ cur' = cur
      /\ nxt' = [nxt EXCEPT ![t] = w] /\ pc' = [pc EXCEPT ![t] = "check"]
      /\ link' = link /\ key' = key
  BY DEF SearchNext, Goto, callVars, listVars
<1>6. Change
  BY <1>4, <1>5 DEF Change, Quiet
<1>7. Locals'
  BY <1>1, <1>2, <1>4, <1>5 DEF Locals, Typed, Labels, SearchLabels
<1>8. nxt'[t] = w /\ pc'[t] = "check"
  BY <1>1, <1>5 DEF Typed
<1>9. \A u \in Thread : u # t => Same(u)
  BY <1>1, <1>4, <1>5 DEF Same, Typed
<1>10. Moves(t)
  BY <1>1, <1>2, <1>4, <1>5, <1>7, <1>9 DEF Moves, Fresh, Inserts, SearchLabels
<1>11. Doing(t)'
  BY <1>1, <1>2, <1>4, <1>5, <1>8 DEF Doing, SearchLabels
<1>12. HeadOf(t)' = HeadOf(t) /\ KeyOf(t)' = KeyOf(t)
  BY <1>5 DEF HeadOf, KeyOf
<1>13. PrevAt(t)'
  <2>1. PrevAt(t)
    BY <1>1, <1>2 DEF At
  <2>. QED
    BY <1>4, <1>5, <1>12, <2>1 DEF PrevAt
<1>14. At(t)'
  BY <1>2, <1>3, <1>4, <1>5, <1>8, <1>13 DEF At, HasCur
<1>. QED
  BY <1>6, <1>10, <1>11, <1>14 DEF Good

\* The checks change nothing but the place.
LEMMA CheckGood ==
  ASSUME Base, NEW t \in Thread, SearchMarked(t) \/ SearchDone(t)
  PROVE  Good(t)
<1>1. Typed /\ Doing(t) /\ At(t) /\ pc[t] = "check"
  BY DEF Base, SearchMarked, SearchDone
<1>2. Idles(t) /\ UNCHANGED <<op, arg, new, goal, res>> /\ UNCHANGED position
  BY DEF Idles, listVars, gcVars, callVars, SearchMarked, SearchDone
<1>3. /\ prev' = [prev EXCEPT ![t] = prev[t]] /\ cur' = [cur EXCEPT ![t] = cur[t]] /\ nxt' = [nxt EXCEPT ![t] = nxt[t]]
      /\ prev[t] \in Link \cup {nullptr} /\ cur[t] \in Ptr /\ nxt[t] \in Word
  BY <1>1, <1>2 DEF Typed, position
<1>4. PICK l \in {"help", "present", "absent"} :
        /\ pc' = [pc EXCEPT ![t] = l]
        /\ l = "help" => nxt[t].mark
        /\ l = "present" => key[cur[t]] = KeyOf(t)
        /\ l = "absent" => key[cur[t]] >= KeyOf(t) /\ key[cur[t]] # KeyOf(t)
  <2>1. CASE SearchMarked(t)
    BY <2>1 DEF SearchMarked, Goto
  <2>2. CASE SearchDone(t)
    BY <2>2 DEF SearchDone, Goto
  <2>. QED
    BY <2>1, <2>2
<1>5. l \in Labels /\ pc[t] \in SearchLabels
  BY <1>1 DEF Labels, SearchLabels
<1>6. /\ Change /\ Moves(t)
      /\ pc'[t] = l /\ prev'[t] = prev[t] /\ cur'[t] = cur[t] /\ nxt'[t] = nxt[t]
      /\ KeyOf(t)' = KeyOf(t) /\ HeadOf(t)' = HeadOf(t)
      /\ GPrev(t)' = GPrev(t) /\ GCur(t)' = GCur(t) /\ GNext(t)' = GNext(t) /\ GGoal(t)' = GGoal(t)
  BY <1>2, <1>3, <1>4, <1>5, IdlesMoves
<1>7. Doing(t)'
  BY <1>1, <1>2, <1>4, <1>6 DEF Doing, SearchLabels
<1>8. PrevAt(t)'
  <2>1. PrevAt(t)
    BY <1>1 DEF At
  <2>2. key' = key
    BY <1>2 DEF Idles
  <2>. QED
    BY <1>6, <2>1, <2>2 DEF PrevAt
<1>9. key' = key /\ link' = link /\ status' = status
  BY <1>2 DEF Idles
<1>10. l = "absent" => key[cur[t]] > KeyOf(t)
  <2>1. KeyOf(t) \in Int /\ key[cur[t]] \in Int
    BY <1>1, KeyIs, CurIs DEF HasCur, SearchLabels
  <2>. QED
    BY SMT, <1>4, <2>1
<1>11. At(t)'
  BY <1>1, <1>4, <1>6, <1>8, <1>9, <1>10 DEF At, HasCur
<1>. QED
  BY <1>6, <1>7, <1>11 DEF Good

\* The search moves on: the guards of the current and the next node are those of the new
\* previous and current node.
LEMMA SearchForwardGood ==
  ASSUME Base, NEW t \in Thread, SearchForward(t)
  PROVE  Good(t)
<1>1. Typed /\ Kept /\ Ordered /\ Fresh /\ Doing(t) /\ At(t) /\ pc[t] = "check"
  BY DEF Base, SearchForward
<1>2. /\ cur[t] \in Obj /\ GCur(t) = cur[t] /\ nxt[t].ptr \in Ptr /\ status[cur[t]] = "linked" /\ cur[t] \in Link
      /\ Bucket(key[cur[t]]) = HeadOf(t) /\ key[cur[t]] < KeyOf(t)
  BY <1>1, BothIn, CurIs, TypesOf DEF SearchForward, HasCur, PrevChanged
<1>3. GNext(t) = nxt[t].ptr
  BY <1>1, <1>2 DEF At
<1>4. /\ protects' = [protects EXCEPT ![<<t, "prev">>] = cur[t], ![<<t, "current">>] = nxt[t].ptr]
      /\ status' = status /\ UNCHANGED <<op, arg, new, goal, res>> /\ link' = link /\ key' = key
      /\ prev' = [prev EXCEPT ![t] = cur[t]] /\ cur' = [cur EXCEPT ![t] = nxt[t].ptr] /\ nxt' = [nxt EXCEPT ![t] = Null]
      /\ pc' = [pc EXCEPT ![t] = IF nxt[t].ptr = nullptr THEN "absent" ELSE "next"]
  BY <1>2, <1>3 DEF SearchForward, Advance, Goto, callVars, listVars, GCur, GNext
<1>5. /\ protects' \in [Guards -> Ptr]
      /\ \A g \in Guards : protects'[g] = IF g = <<t, "current">> THEN nxt[t].ptr ELSE IF g = <<t, "prev">> THEN cur[t] ELSE protects[g]
  BY <1>1, <1>2, <1>4 DEF Typed, Ptr
<1>6. /\ Sources
      /\ \A u \in Thread : u # t => GPrev(u)' = GPrev(u) /\ GCur(u)' = GCur(u) /\ GNext(u)' = GNext(u) /\ GGoal(u)' = GGoal(u)
      /\ GPrev(t)' = cur[t] /\ GCur(t)' = nxt[t].ptr /\ GGoal(t)' = GGoal(t)
  <2>1. Sources
    <3>1. nxt[t].ptr = protects[<<t, "next">>] /\ cur[t] = protects[<<t, "current">>]
      BY <1>2, <1>3 DEF GNext, GCur
    <3>2. <<t, "next">> \in Guards /\ <<t, "current">> \in Guards
      BY Names
    <3>. QED
      BY <1>5, <3>1, <3>2 DEF Sources
  <2>2. \A u \in Thread : \A m \in {"prev", "current", "next", "goal"} :
          protects'[<<u, m>>] = IF u = t /\ m = "current" THEN nxt[t].ptr ELSE IF u = t /\ m = "prev" THEN cur[t] ELSE protects[<<u, m>>]
    <3> SUFFICES ASSUME NEW u \in Thread, NEW m \in {"prev", "current", "next", "goal"}
                 PROVE  protects'[<<u, m>>] = IF u = t /\ m = "current" THEN nxt[t].ptr
                                              ELSE IF u = t /\ m = "prev" THEN cur[t] ELSE protects[<<u, m>>]
      OBVIOUS
    <3>1. <<u, m>> \in Guards
      BY Names
    <3>2. \A n : <<u, m>> = <<t, n>> <=> u = t /\ m = n
      OBVIOUS
    <3>. QED
      BY <1>5, <3>1, <3>2
  <2>. QED
    BY <2>1, <2>2 DEF GPrev, GCur, GNext, GGoal
<1>7. Change
  BY <1>4 DEF Change, Quiet
<1>8. Locals'
  BY <1>1, <1>2, <1>4, <1>5, Words DEF Locals, Typed, Labels, SearchLabels
<1>9. prev'[t] = cur[t] /\ cur'[t] = nxt[t].ptr /\ pc'[t] = (IF nxt[t].ptr = nullptr THEN "absent" ELSE "next")
  BY <1>1, <1>4 DEF Typed
<1>10. \A u \in Thread : u # t => Same(u)
  BY <1>1, <1>4, <1>6 DEF Same, Typed
<1>11. Moves(t)
  BY <1>1, <1>4, <1>6, <1>8, <1>10 DEF Moves, Fresh, Inserts, SearchLabels
<1>12. Doing(t)'
  BY SMT, <1>1, <1>4, <1>6, <1>9 DEF Doing, SearchLabels
<1>13. HeadOf(t)' = HeadOf(t) /\ KeyOf(t)' = KeyOf(t)
  BY <1>4 DEF HeadOf, KeyOf
<1>14. At(t)'
  BY SMT, <1>2, <1>4, <1>6, <1>9, <1>13 DEF At, HasCur, PrevAt
<1>. QED
  BY <1>7, <1>11, <1>12, <1>14 DEF Good

\* A deleted node is unlinked on the way.
LEMMA SearchHelpGood ==
  ASSUME Base, NEW t \in Thread, SearchHelp(t)
  PROVE  Good(t) /\ Unlinking(prev[t], cur[t])
<1>1. Typed /\ Kept /\ Ordered /\ Fresh /\ Doing(t) /\ At(t) /\ pc[t] = "help" /\ link[prev[t]] = To(cur[t])
  BY DEF Base, SearchHelp, Unlink
<1>2. /\ cur[t] \in Obj /\ cur[t] # nullptr /\ GCur(t) = cur[t] /\ nxt[t].ptr \in Ptr /\ status[cur[t]] = "linked"
      /\ prev[t] \in Spots
  BY <1>1, BothIn, CurIs, TypesOf DEF HasCur
<1>3. GNext(t) = nxt[t].ptr /\ nxt[t].mark /\ link[cur[t]] = nxt[t]
  BY <1>1, <1>2 DEF At
<1>4. /\ protects' = [protects EXCEPT ![<<t, "current">>] = nxt[t].ptr]
      /\ status' = [status EXCEPT ![cur[t]] = "retired"]
      /\ UNCHANGED <<op, arg, new, goal, res>> /\ link' = [link EXCEPT ![prev[t]] = To(nxt[t].ptr)] /\ key' = key
      /\ prev' = prev /\ cur' = [cur EXCEPT ![t] = nxt[t].ptr] /\ nxt' = [nxt EXCEPT ![t] = Null]
      /\ pc' = [pc EXCEPT ![t] = IF nxt[t].ptr = nullptr THEN "absent" ELSE "next"]
  BY <1>2, <1>3 DEF SearchHelp, Advance, Unlink, Goto, callVars, GNext
<1>5. /\ protects' \in [Guards -> Ptr]
      /\ \A g \in Guards : protects'[g] = IF g = <<t, "current">> THEN nxt[t].ptr ELSE protects[g]
  BY <1>1, <1>2, <1>4 DEF Typed, Ptr
<1>6. /\ Sources
      /\ \A u \in Thread : u # t => GPrev(u)' = GPrev(u) /\ GCur(u)' = GCur(u) /\ GNext(u)' = GNext(u) /\ GGoal(u)' = GGoal(u)
      /\ GPrev(t)' = GPrev(t) /\ GCur(t)' = nxt[t].ptr /\ GGoal(t)' = GGoal(t)
  <2>1. Sources
    <3>1. nxt[t].ptr = protects[<<t, "next">>]
      BY <1>3 DEF GNext
    <3>2. <<t, "next">> \in Guards
      BY Names
    <3>. QED
      BY <1>5, <3>1, <3>2 DEF Sources
  <2>2. \A u \in Thread : \A m \in {"prev", "current", "next", "goal"} :
          protects'[<<u, m>>] = IF u = t /\ m = "current" THEN nxt[t].ptr ELSE protects[<<u, m>>]
    BY <1>5, Names
  <2>. QED
    BY <2>1, <2>2 DEF GPrev, GCur, GNext, GGoal
<1>7. Unlinking(prev[t], cur[t])
  BY <1>1, <1>2, <1>3, <1>4 DEF Unlinking
<1>8. Locals'
  BY <1>1, <1>2, <1>4, <1>5, Words DEF Locals, Typed, Labels, SearchLabels
<1>9. prev'[t] = prev[t] /\ cur'[t] = nxt[t].ptr /\ pc'[t] = (IF nxt[t].ptr = nullptr THEN "absent" ELSE "next")
  BY <1>1, <1>4 DEF Typed
<1>10. \A u \in Thread : u # t => Same(u)
  BY <1>1, <1>4, <1>6 DEF Same, Typed
<1>11. Inserts(t)' => new'[t] # nullptr /\ status'[new'[t]] = "free"
  <2> SUFFICES ASSUME Inserts(t)' PROVE new[t] # nullptr /\ status'[new[t]] = "free"
    BY <1>4
  <2>1. new[t] # nullptr /\ status[new[t]] = "free" /\ new[t] \in Obj
    BY <1>1, <1>4, TypesOf DEF Inserts, Fresh, SearchLabels, Ptr
  <2>. QED
    BY <1>1, <1>2, <1>4, <2>1 DEF Typed
<1>12. Moves(t)
  BY <1>4, <1>6, <1>8, <1>10, <1>11 DEF Moves
<1>13. Doing(t)'
  BY SMT, <1>1, <1>4, <1>6, <1>9 DEF Doing, SearchLabels
<1>14. HeadOf(t)' = HeadOf(t) /\ KeyOf(t)' = KeyOf(t)
  BY <1>4 DEF HeadOf, KeyOf
<1>15. PrevAt(t)'
  <2>1. PrevAt(t)
    BY <1>1 DEF At
  <2>. QED
    BY <1>4, <1>6, <1>9, <1>14, <2>1 DEF PrevAt
<1>16. At(t)'
  BY <1>6, <1>9, <1>15 DEF At, HasCur
<1>. QED
  BY <1>7, <1>12, <1>13, <1>16 DEF Good, Change

-----------------------------------------------------------------------------
(* The steps of insertion and removal *)

\* A node is linked where the search has found its place.
LEMMA LinkNodeGood ==
  ASSUME Base, NEW t \in Thread, LinkNode(t)
  PROVE  Good(t) /\ Insertion(prev[t], new[t], arg[t])
<1>1. /\ Typed /\ Kept /\ Ordered /\ Fresh /\ Doing(t) /\ At(t) /\ pc[t] = "absent" /\ link[prev[t]] = To(cur[t])
      /\ op[t] \in {"insert", "update"}
  BY DEF Base, LinkNode
<1>2. KeyOf(t) = arg[t] /\ HeadOf(t) = Bucket(arg[t]) /\ arg[t] \in Key
  <2>1. op[t] # "clear"
    BY <1>1
  <2>. QED
    BY <1>1, <2>1, KeyIs DEF KeyOf, HeadOf, SearchLabels
<1>3. link[prev[t]].ptr = cur[t] /\ ~ link[prev[t]].mark
  BY <1>1, Words
<1>4. prev[t] \in Spots /\ Before(prev[t], arg[t]) /\ ListOf(prev[t]) = Bucket(arg[t])
  BY <1>1, <1>2, <1>3, PrevIs
<1>5. cur[t] # nullptr => arg[t] < key[cur[t]]
  <2> SUFFICES ASSUME cur[t] # nullptr PROVE arg[t] < key[cur[t]]
    OBVIOUS
  <2>1. key[cur[t]] > arg[t]
    BY <1>1, <1>2 DEF At
  <2>2. key[cur[t]] \in Int /\ arg[t] \in Int
    BY <1>1, <1>2, CurIs, Sorts DEF HasCur
  <2>. QED
    BY SMT, <2>1, <2>2
<1>6. new[t] \in Obj /\ new[t] # nullptr /\ status[new[t]] = "free"
  BY <1>1, TypesOf DEF Fresh, Inserts, SearchLabels, Ptr
<1>7. /\ link' = [link EXCEPT ![prev[t]] = To(new[t]), ![new[t]] = To(cur[t])]
      /\ key' = [key EXCEPT ![new[t]] = arg[t]] /\ status' = [status EXCEPT ![new[t]] = "linked"]
      /\ protects' = [protects EXCEPT ![<<t, "goal">>] = IF op[t] = "update" THEN new[t] ELSE @]
      /\ pc' = [pc EXCEPT ![t] = "inserted"] /\ UNCHANGED <<op, arg, new, goal, res>> /\ UNCHANGED <<prev, cur, nxt>>
  BY DEF LinkNode, Goto, callVars, position
<1>8. Insertion(prev[t], new[t], arg[t])
  BY <1>2, <1>3, <1>4, <1>5, <1>6, <1>7 DEF Insertion
<1>9. /\ protects' \in [Guards -> Ptr]
      /\ \A g \in Guards : protects'[g] = IF g = <<t, "goal">> /\ op[t] = "update" THEN new[t] ELSE protects[g]
  BY <1>1, <1>6, <1>7 DEF Typed, Ptr
<1>10. status'[new[t]] = "linked"
  BY <1>1, <1>6, <1>7 DEF Typed
<1>11. Sources
  BY <1>9, <1>10 DEF Sources
<1>12. \A u \in Thread : \A m \in {"prev", "current", "next", "goal"} :
         u # t \/ m # "goal" => protects'[<<u, m>>] = protects[<<u, m>>]
  <2> SUFFICES ASSUME NEW u \in Thread, NEW m \in {"prev", "current", "next", "goal"}, u # t \/ m # "goal"
               PROVE  protects'[<<u, m>>] = protects[<<u, m>>]
    OBVIOUS
  <2>. QED
    BY <1>9, Names
<1>13. op[t] = "update" => GGoal(t)' = new[t]
  BY <1>9, Names DEF GGoal
<1>14. Locals'
  BY <1>1, <1>7, <1>9 DEF Locals, Typed, Labels
<1>15. pc'[t] = "inserted"
  BY <1>1, <1>7 DEF Typed
<1>16. \A u \in Thread : u # t => Same(u)
  BY <1>1, <1>7, <1>12 DEF Same, Typed, GPrev, GCur, GNext, GGoal
<1>17. Moves(t)
  BY <1>7, <1>11, <1>14, <1>15, <1>16 DEF Moves, Inserts, SearchLabels
<1>18. Doing(t)'
  BY <1>1, <1>2, <1>6, <1>7, <1>13, <1>15 DEF Doing, SearchLabels
<1>19. At(t)'
  BY <1>15 DEF At, HasCur
<1>. QED
  BY <1>8, <1>17, <1>18, <1>19 DEF Good, Change

\* The node that was found is marked, if nothing has changed its link.
LEMMA MarkNodeGood ==
  ASSUME Base, NEW t \in Thread, MarkNode(t)
  PROVE  Good(t) /\ Marking(cur[t]) /\ key[cur[t]] = KeyOf(t)
<1>1. /\ Typed /\ Kept /\ Ordered /\ Fresh /\ Doing(t) /\ At(t) /\ pc[t] = "present" /\ link[cur[t]] = To(nxt[t].ptr)
      /\ op[t] \in {"erase", "clear"}
  BY DEF Base, MarkNode
<1>2. link[cur[t]].ptr = nxt[t].ptr /\ ~ link[cur[t]].mark
  BY <1>1, Words
<1>3. cur[t] \in In /\ cur[t] \in Link /\ cur[t] # nullptr /\ GCur(t) = cur[t] /\ key[cur[t]] = KeyOf(t)
  BY <1>1, <1>2, CurIs DEF HasCur, At
<1>4. /\ link' = [link EXCEPT ![cur[t]] = Marked(nxt[t].ptr)] /\ key' = key /\ status' = status /\ protects' = protects
      /\ pc' = [pc EXCEPT ![t] = "unlink"] /\ UNCHANGED <<op, arg, new, goal, res>> /\ UNCHANGED <<prev, cur, nxt>>
  BY DEF MarkNode, Goto, callVars, position, gcVars
<1>5. Marking(cur[t])
  BY <1>2, <1>3, <1>4 DEF Marking
<1>6. Sources /\ \A u : GPrev(u)' = GPrev(u) /\ GCur(u)' = GCur(u) /\ GNext(u)' = GNext(u) /\ GGoal(u)' = GGoal(u)
  BY <1>4, GuardsSame
<1>7. Locals'
  BY <1>1, <1>4 DEF Locals, Typed, Labels
<1>8. pc'[t] = "unlink" /\ link'[cur[t]] = Marked(nxt[t].ptr)
  BY <1>1, <1>3, <1>4 DEF Typed
<1>9. \A u \in Thread : u # t => Same(u)
  BY <1>1, <1>4, <1>6 DEF Same, Typed
<1>10. Moves(t)
  BY <1>4, <1>6, <1>7, <1>8, <1>9 DEF Moves, Inserts, SearchLabels
<1>11. Doing(t)'
  BY <1>1, <1>4, <1>6, <1>8 DEF Doing, SearchLabels
<1>12. HeadOf(t)' = HeadOf(t) /\ KeyOf(t)' = KeyOf(t)
  BY <1>4 DEF HeadOf, KeyOf
<1>13. PrevAt(t)'
  <2>1. PrevAt(t)
    BY <1>1 DEF At
  <2>. QED
    BY <1>4, <1>6, <1>12, <2>1 DEF PrevAt
<1>14. At(t)'
  BY <1>3, <1>4, <1>6, <1>8, <1>13 DEF At, HasCur
<1>. QED
  BY <1>3, <1>5, <1>10, <1>11, <1>14 DEF Good, Change

\* The marked node is unlinked, if the previous link still leads to it.
LEMMA UnlinkNodeGood ==
  ASSUME Base, NEW t \in Thread, UnlinkNode(t)
  PROVE  Good(t) /\ Unlinking(prev[t], cur[t])
<1>1. /\ Typed /\ Kept /\ Ordered /\ Fresh /\ Doing(t) /\ At(t) /\ pc[t] = "unlink" /\ link[prev[t]] = To(cur[t])
  BY DEF Base, UnlinkNode, Unlink
<1>2. /\ cur[t] \in Obj /\ cur[t] # nullptr /\ GCur(t) = cur[t] /\ prev[t] \in Spots
      /\ link[cur[t]] = Marked(nxt[t].ptr) /\ link[cur[t]].ptr = nxt[t].ptr /\ link[cur[t]].mark
  BY ZenonT(60), <1>1, BothIn, CurIs, Words DEF HasCur, At
<1>3. /\ link' = [link EXCEPT ![prev[t]] = To(nxt[t].ptr)] /\ key' = key /\ protects' = protects
      /\ pc' = [pc EXCEPT ![t] = "erased"] /\ UNCHANGED <<op, arg, new, goal, res>> /\ UNCHANGED <<prev, cur, nxt>>
  BY DEF UnlinkNode, Unlink, Goto, callVars, position, SMR!Replace
<1>4. status' = [status EXCEPT ![cur[t]] = "retired"]
  <2>1. status' = [o \in Obj |-> CASE o = cur[t] -> "retired" [] o = nullptr -> "linked" [] OTHER -> status[o]]
    BY DEF UnlinkNode, SMR!Replace
  <2>2. \A o \in Obj : o # nullptr
    BY Sorts
  <2>3. \A o \in Obj : status'[o] = IF o = cur[t] THEN "retired" ELSE status[o]
    BY <2>1, <2>2
  <2>. QED
    BY <1>1, <2>1, <2>3 DEF Typed
<1>5. Unlinking(prev[t], cur[t])
  BY <1>1, <1>2, <1>3, <1>4 DEF Unlinking
<1>6. Sources /\ \A u : GPrev(u)' = GPrev(u) /\ GCur(u)' = GCur(u) /\ GNext(u)' = GNext(u) /\ GGoal(u)' = GGoal(u)
  BY <1>3, GuardsSame
<1>7. Locals'
  BY <1>1, <1>3 DEF Locals, Typed, Labels
<1>8. pc'[t] = "erased"
  BY <1>1, <1>3 DEF Typed
<1>9. \A u \in Thread : u # t => Same(u)
  BY <1>1, <1>3, <1>6 DEF Same, Typed
<1>10. Moves(t)
  BY <1>3, <1>6, <1>7, <1>8, <1>9 DEF Moves, Inserts, SearchLabels
<1>11. Doing(t)'
  BY <1>1, <1>3, <1>6, <1>8 DEF Doing, SearchLabels
<1>12. At(t)'
  BY <1>2, <1>3, <1>6, <1>8 DEF At, HasCur
<1>. QED
  BY <1>5, <1>10, <1>11, <1>12 DEF Good, Change

\* An operation that has its answer.
LEMMA AnswerGood ==
  ASSUME Base, NEW t \in Thread, NEW r \in BOOLEAN, Answer(t, r),
         pc[t] \in SearchLabels \cup {"cleared"}, r /\ op[t] # "clear" => pc[t] = "present"
  PROVE  Good(t)
<1>1. Typed /\ Fresh /\ Doing(t) /\ At(t)
  BY DEF Base
<1>2. /\ link' = link /\ key' = key /\ status' = status /\ protects' = protects
      /\ pc' = [pc EXCEPT ![t] = "return"] /\ res' = [res EXCEPT ![t] = r]
      /\ UNCHANGED <<op, arg, new, goal>> /\ UNCHANGED <<prev, cur, nxt>>
  BY DEF Answer, Goto, listVars, position, gcVars
<1>3. Sources /\ \A u : GPrev(u)' = GPrev(u) /\ GCur(u)' = GCur(u) /\ GNext(u)' = GNext(u) /\ GGoal(u)' = GGoal(u)
  BY <1>2, GuardsSame
<1>4. Locals'
  BY <1>1, <1>2 DEF Locals, Typed, Labels
<1>5. pc'[t] = "return" /\ res'[t] = r
  BY <1>1, <1>2 DEF Typed
<1>6. \A u \in Thread : u # t => Same(u)
  BY <1>1, <1>2, <1>3 DEF Same, Typed
<1>7. Moves(t)
  BY <1>2, <1>3, <1>4, <1>5, <1>6 DEF Moves, Inserts, SearchLabels
<1>8. Doing(t)'
  BY <1>1, <1>2, <1>5 DEF Doing, SearchLabels
<1>9. At(t)'
  BY <1>1, <1>2, <1>3, <1>5 DEF At, HasCur
<1>. QED
  BY <1>2, <1>7, <1>8, <1>9 DEF Good, Change, Quiet

\* An operation that returns.
LEMMA ReturnGood ==
  ASSUME Base, NEW t \in Thread, Return(t), UNCHANGED listVars
  PROVE  Good(t) /\ op'[t] = "none"
<1>1. Typed
  BY DEF Base
<1>2. /\ link' = link /\ key' = key
      /\ pc' = [pc EXCEPT ![t] = "idle"] /\ res' = [res EXCEPT ![t] = FALSE] /\ op' = [op EXCEPT ![t] = "none"]
      /\ arg' = [arg EXCEPT ![t] = nullptr] /\ new' = [new EXCEPT ![t] = nullptr] /\ goal' = [goal EXCEPT ![t] = nullptr]
      /\ prev' = [prev EXCEPT ![t] = nullptr] /\ cur' = [cur EXCEPT ![t] = nullptr] /\ nxt' = [nxt EXCEPT ![t] = Null]
  BY DEF Return, Again, ClearPosition, Goto, listVars
<1>3. /\ Sources /\ protects' \in [Guards -> Ptr] /\ status' = status
      /\ \A u \in Thread : u # t => GPrev(u)' = GPrev(u) /\ GCur(u)' = GCur(u) /\ GNext(u)' = GNext(u) /\ GGoal(u)' = GGoal(u)
  BY <1>1, GuardsCleared DEF Return
<1>4. Locals'
  BY <1>1, <1>2, <1>3, Words DEF Locals, Typed, Labels, Ptr
<1>5. pc'[t] = "idle" /\ res'[t] = FALSE /\ op'[t] = "none" /\ arg'[t] = nullptr /\ new'[t] = nullptr
  BY <1>1, <1>2 DEF Typed
<1>6. \A u \in Thread : u # t => Same(u)
  BY <1>1, <1>2, <1>3 DEF Same, Typed
<1>7. Moves(t)
  BY <1>3, <1>4, <1>5, <1>6 DEF Moves, Inserts, SearchLabels
<1>8. Doing(t)'
  BY <1>5 DEF Doing, SearchLabels
<1>9. At(t)'
  BY <1>5 DEF At, HasCur
<1>. QED
  BY <1>2, <1>3, <1>5, <1>7, <1>8, <1>9 DEF Good, Change, Quiet

-----------------------------------------------------------------------------
(* The calls, and clear *)

\* A call begins.
LEMMA CallGood ==
  ASSUME Base, NEW t \in Thread, NEW f \in Ops, NEW k \in Key \cup {nullptr}, Call(t, f, k),
         NEW l \in {"start", "clear"}, Goto(t, l), f = "clear" <=> l = "clear", f # "clear" => k \in Key,
         NEW n \in Ptr, new' = [new EXCEPT ![t] = n],
         n = new[t] \/ \A u \in Thread : new[u] # n,
         f \in {"insert", "update"} => n # nullptr /\ status[n] = "free"
  PROVE  Good(t)
<1>1. Typed /\ Doing(t) /\ pc[t] = "idle"
  BY DEF Base, Call
<1>2. /\ link' = link /\ key' = key /\ status' = status /\ protects' = protects
      /\ pc' = [pc EXCEPT ![t] = l] /\ op' = [op EXCEPT ![t] = f] /\ arg' = [arg EXCEPT ![t] = k]
      /\ UNCHANGED <<goal, res>> /\ UNCHANGED <<prev, cur, nxt>>
  BY DEF Call, Goto, listVars, position, gcVars
<1>3. Sources /\ \A u : GPrev(u)' = GPrev(u) /\ GCur(u)' = GCur(u) /\ GNext(u)' = GNext(u) /\ GGoal(u)' = GGoal(u)
  BY <1>2, GuardsSame
<1>4. Locals'
  BY <1>1, <1>2 DEF Locals, Typed, Labels, SearchLabels
<1>5. pc'[t] = l /\ op'[t] = f /\ arg'[t] = k /\ new'[t] = n
  BY <1>1, <1>2 DEF Typed
<1>6. \A u \in Thread : u # t => Same(u)
  BY <1>1, <1>2, <1>3 DEF Same, Typed
<1>7. Moves(t)
  BY <1>2, <1>3, <1>4, <1>5, <1>6 DEF Moves, Inserts
<1>8. Doing(t)'
  <2>1. res'[t] = FALSE
    BY <1>1, <1>2 DEF Doing
  <2>2. f # "none"
    BY DEF Ops
  <2>. QED
    BY <1>1, <1>5, <2>1, <2>2 DEF Doing, SearchLabels
<1>9. At(t)'
  BY <1>5 DEF At, HasCur
<1>. QED
  BY <1>2, <1>7, <1>8, <1>9 DEF Good, Change, Quiet

\* The three kinds of call.
LEMMA StartGood ==
  ASSUME Base, NEW t \in Thread
  PROVE  /\ \A k \in Key, o \in Obj : InsertStart(t, k, o) => Good(t)
         /\ \A k \in Key : SearchStart(t, k) => Good(t)
         /\ ClearStart(t) => Good(t)
<1>1. Typed /\ new[t] \in Ptr /\ new = [new EXCEPT ![t] = new[t]]
  BY TypesOf DEF Base, Typed
<1>2. ASSUME NEW k \in Key, NEW o \in Obj, InsertStart(t, k, o) PROVE Good(t)
  <2>1. PICK f \in {"insert", "update"} : Call(t, f, k)
    BY <1>2 DEF InsertStart
  <2>2. /\ f \in Ops /\ f # "clear" /\ k \in Key \cup {nullptr} /\ Goto(t, "start") /\ o \in Ptr /\ o # nullptr
        /\ new' = [new EXCEPT ![t] = o] /\ status[o] = "free" /\ \A u \in Thread : new[u] # o
    BY <1>2, Sorts DEF InsertStart, Ops, Ptr
  <2>. QED
    BY <2>1, <2>2, CallGood
<1>3. ASSUME NEW k \in Key, SearchStart(t, k) PROVE Good(t)
  <2>1. PICK f \in {"modify", "erase", "find"} : Call(t, f, k)
    BY <1>3 DEF SearchStart
  <2>2. /\ f \in Ops /\ f # "clear" /\ k \in Key \cup {nullptr} /\ Goto(t, "start") /\ new' = new
        /\ f \notin {"insert", "update"}
    BY <1>3 DEF SearchStart, Ops
  <2>. QED
    BY <1>1, <2>1, <2>2, CallGood
<1>4. ASSUME ClearStart(t) PROVE Good(t)
  <2>1. Call(t, "clear", nullptr) /\ Goto(t, "clear") /\ new' = new /\ "clear" \in Ops
    BY <1>4 DEF ClearStart, Ops
  <2>. QED
    BY <1>1, <2>1, CallGood
<1>. QED
  BY <1>2, <1>3, <1>4

\* Another thread has unlinked the node.
LEMMA UnlinkNodeFailGood ==
  ASSUME Base, NEW t \in Thread, UnlinkNodeFail(t)
  PROVE  Good(t)
<1>1. Typed /\ Doing(t) /\ At(t) /\ pc[t] = "unlink"
  BY DEF Base, UnlinkNodeFail
<1>2. /\ link' = link /\ key' = key /\ status' = status /\ protects' = protects
      /\ pc' = [pc EXCEPT ![t] = "erased"] /\ UNCHANGED <<op, arg, new, goal, res>> /\ UNCHANGED <<prev, cur, nxt>>
  BY DEF UnlinkNodeFail, Goto, listVars, callVars, position, gcVars
<1>3. Sources /\ \A u : GPrev(u)' = GPrev(u) /\ GCur(u)' = GCur(u) /\ GNext(u)' = GNext(u) /\ GGoal(u)' = GGoal(u)
  BY <1>2, GuardsSame
<1>4. Locals'
  BY <1>1, <1>2 DEF Locals, Typed, Labels
<1>5. pc'[t] = "erased"
  BY <1>1, <1>2 DEF Typed
<1>6. \A u \in Thread : u # t => Same(u)
  BY <1>1, <1>2, <1>3 DEF Same, Typed
<1>7. Moves(t)
  BY <1>2, <1>3, <1>4, <1>5, <1>6 DEF Moves, Inserts, SearchLabels
<1>8. Doing(t)'
  BY <1>1, <1>2, <1>5 DEF Doing, SearchLabels
<1>9. At(t)'
  BY <1>1, <1>2, <1>3, <1>5 DEF At, HasCur
<1>. QED
  BY <1>2, <1>7, <1>8, <1>9 DEF Good, Change, Quiet

\* clear takes the next node.
LEMMA ClearAgainGood ==
  ASSUME Base, NEW t \in Thread, pc[t] # "idle", op[t] = "clear", Again(t, "clear"), UNCHANGED <<listVars, callVars, gcVars>>,
         pc[t] # "return"
  PROVE  Good(t)
<1>1. Typed /\ Doing(t)
  BY DEF Base
<1>2. /\ link' = link /\ key' = key /\ status' = status /\ protects' = protects
      /\ pc' = [pc EXCEPT ![t] = "clear"] /\ UNCHANGED <<op, arg, new, goal, res>>
      /\ prev' = [prev EXCEPT ![t] = nullptr] /\ cur' = [cur EXCEPT ![t] = nullptr] /\ nxt' = [nxt EXCEPT ![t] = Null]
  BY DEF Again, ClearPosition, Goto, listVars, callVars, gcVars
<1>3. Sources /\ \A u : GPrev(u)' = GPrev(u) /\ GCur(u)' = GCur(u) /\ GNext(u)' = GNext(u) /\ GGoal(u)' = GGoal(u)
  BY <1>2, GuardsSame
<1>4. Locals'
  BY <1>1, <1>2, Words DEF Locals, Typed, Labels, Ptr
<1>5. pc'[t] = "clear"
  BY <1>1, <1>2 DEF Typed
<1>6. \A u \in Thread : u # t => Same(u)
  BY <1>1, <1>2, <1>3 DEF Same, Typed
<1>7. Moves(t)
  BY <1>2, <1>3, <1>4, <1>5, <1>6 DEF Moves, Inserts, SearchLabels
<1>8. Doing(t)'
  BY <1>1, <1>2, <1>5 DEF Doing, SearchLabels
<1>9. At(t)'
  BY <1>5 DEF At, HasCur
<1>. QED
  BY <1>2, <1>7, <1>8, <1>9 DEF Good, Change, Quiet

\* clear guards the first node of a list.
LEMMA ClearHeadGood ==
  ASSUME Base, NEW t \in Thread, NEW h \in Head, ClearHead(t, h)
  PROVE  Good(t)
<1>1. Typed /\ Kept /\ Ordered /\ Doing(t) /\ pc[t] = "clear" /\ op[t] = "clear"
  BY DEF Base, ClearHead, Doing
<1>2. link[h].ptr \in Ptr /\ (link[h].ptr # nullptr => status[link[h].ptr] = "linked")
  <2>1. h \in Spots
    BY DEF Spots
  <2>2. link[h].ptr # nullptr => link[h].ptr \in In
    BY <1>1, <2>1, LeadsTo
  <2>. QED
    BY <1>1, <2>1, <2>2, SpotIs, InIs
<1>3. /\ link' = link /\ key' = key /\ Protect(<<t, "goal">>, link[h].ptr)
      /\ goal' = [goal EXCEPT ![t] = link[h].ptr]
      /\ pc' = [pc EXCEPT ![t] = IF link[h].ptr = nullptr THEN "cleared" ELSE "start"]
      /\ UNCHANGED <<op, arg, new, res>> /\ UNCHANGED <<prev, cur, nxt>>
  BY DEF ClearHead, Goto, listVars, position
<1>4. /\ Sources /\ protects' \in [Guards -> Ptr] /\ status' = status
      /\ \A u \in Thread : u # t => GPrev(u)' = GPrev(u) /\ GCur(u)' = GCur(u) /\ GNext(u)' = GNext(u) /\ GGoal(u)' = GGoal(u)
      /\ GGoal(t)' = link[h].ptr
  <2>1. "goal" \in {"prev", "current", "next", "goal"}
    OBVIOUS
  <2>. QED
    BY <1>1, <1>2, <1>3, <2>1, GuardSet DEF GGoal
<1>5. Locals'
  BY <1>1, <1>2, <1>3, <1>4 DEF Locals, Typed, Labels, SearchLabels
<1>6. pc'[t] = (IF link[h].ptr = nullptr THEN "cleared" ELSE "start") /\ goal'[t] = link[h].ptr
  BY <1>1, <1>3 DEF Typed
<1>7. \A u \in Thread : u # t => Same(u)
  BY <1>1, <1>3, <1>4 DEF Same, Typed
<1>8. Moves(t)
  BY <1>1, <1>3, <1>4, <1>5, <1>7 DEF Moves, Inserts
<1>9. Doing(t)'
  <2>1. res'[t] = FALSE /\ op'[t] = "clear"
    BY <1>1, <1>3 DEF Doing
  <2>. QED
    BY <1>4, <1>6, <2>1 DEF Doing, SearchLabels
<1>10. At(t)'
  BY <1>6 DEF At, HasCur
<1>. QED
  BY <1>3, <1>4, <1>8, <1>9, <1>10 DEF Good, Change, Quiet

-----------------------------------------------------------------------------
(* Every step *)

\* A step of t puts its own node into the list, if any.
Own(t) == \A o \in Obj : status[o] = "free" => status'[o] = "free" \/ o = new[t]

\* A search, and what follows it.
LEMMA SearchStepGood ==
  ASSUME Base, NEW t \in Thread, SearchStep(t)
  PROVE  Good(t) /\ Own(t)
<1>1. Typed
  BY DEF Base
<1>2. CASE SearchHead(t)
  <2>1. Good(t)
    BY <1>2, SearchHeadGood
  <2>2. status' = status
    BY <1>2 DEF SearchHead, Protect, SMR!Protect, SMR!Release
  <2>. QED
    BY <2>1, <2>2 DEF Own
<1>3. CASE SearchNext(t)
  <2>1. Good(t)
    BY <1>3, SearchNextGood
  <2>2. status' = status
    BY <1>3 DEF SearchNext, Protect, SMR!Protect, SMR!Release
  <2>. QED
    BY <2>1, <2>2 DEF Own
<1>4. CASE SearchMarked(t) \/ SearchDone(t)
  BY <1>4, CheckGood DEF Own, SearchMarked, SearchDone, gcVars
<1>5. CASE SearchForward(t)
  BY <1>5, SearchForwardGood DEF Own, SearchForward
<1>6. CASE SearchHelp(t)
  <2>1. Good(t) /\ Unlinking(prev[t], cur[t])
    BY <1>6, SearchHelpGood
  <2>2. cur[t] \in In
    <3>1. pc[t] = "help" /\ link[prev[t]] = To(cur[t])
      BY <1>6 DEF SearchHelp, Unlink
    <3>. QED
      BY <3>1, BothIn
  <2>. QED
    BY <1>1, <2>1, <2>2 DEF Own, Unlinking, Typed, In
<1>7. CASE SearchChanged(t) \/ SearchHelpFail(t)
  BY <1>7, RestartGood DEF Own, SearchChanged, SearchHelpFail, gcVars, SearchLabels
<1>. QED
  BY <1>2, <1>3, <1>4, <1>5, <1>6, <1>7 DEF SearchStep

\* An insertion.
LEMMA InsertStepGood ==
  ASSUME Base, NEW t \in Thread, InsertStep(t)
  PROVE  Good(t) /\ Own(t)
<1>1. Typed
  BY DEF Base
<1>2. ASSUME NEW k \in Key, NEW o \in Obj, InsertStart(t, k, o) PROVE Good(t) /\ Own(t)
  BY <1>2, StartGood DEF Own, InsertStart, Call, gcVars
<1>3. CASE LinkNode(t)
  BY <1>1, <1>3, LinkNodeGood DEF Own, LinkNode, Typed
<1>4. CASE LinkNodeFail(t) \/ UpdateMarked(t)
  BY <1>4, RestartGood DEF Own, LinkNodeFail, UpdateMarked, gcVars, SearchLabels
<1>5. CASE Inserted(t)
  BY <1>5, ReturnGood DEF Own, Inserted, Return, SMR!Release
<1>. QED
  BY <1>2, <1>3, <1>4, <1>5 DEF InsertStep

\* A removal.
LEMMA EraseStepGood ==
  ASSUME Base, NEW t \in Thread, EraseStep(t)
  PROVE  Good(t) /\ Own(t)
<1>1. Typed
  BY DEF Base
<1>2. CASE MarkNode(t)
  BY <1>2, MarkNodeGood DEF Own, MarkNode, gcVars
<1>3. CASE MarkNodeFail(t)
  BY <1>3, RestartGood DEF Own, MarkNodeFail, gcVars, SearchLabels
<1>4. CASE UnlinkNode(t)
  <2>1. Good(t) /\ Unlinking(prev[t], cur[t])
    BY <1>4, UnlinkNodeGood
  <2>2. cur[t] \in In
    <3>1. pc[t] = "unlink" /\ link[prev[t]] = To(cur[t])
      BY <1>4 DEF UnlinkNode, Unlink
    <3>. QED
      BY <3>1, BothIn
  <2>. QED
    BY <1>1, <2>1, <2>2 DEF Own, Unlinking, Typed, In
<1>5. CASE UnlinkNodeFail(t)
  BY <1>5, UnlinkNodeFailGood DEF Own, UnlinkNodeFail, gcVars
<1>6. CASE Erased(t)
  BY <1>6, ReturnGood DEF Own, Erased, Return, SMR!Release
<1>. QED
  BY <1>2, <1>3, <1>4, <1>5, <1>6 DEF EraseStep

\* clear.
LEMMA ClearStepGood ==
  ASSUME Base, NEW t \in Thread, ClearStep(t)
  PROVE  Good(t) /\ Own(t)
<1>1. Typed
  BY DEF Base
<1>2. CASE ClearStart(t)
  BY <1>2, StartGood DEF Own, ClearStart, Call, gcVars
<1>3. CASE ClearErased(t)
  BY <1>3, ClearAgainGood DEF Own, ClearErased, gcVars
<1>4. CASE ClearMissed(t)
  <2>1. UNCHANGED <<listVars, callVars, gcVars>> /\ op[t] = "clear" /\ pc[t] # "idle" /\ pc[t] # "return" /\ Again(t, "clear")
    BY <1>4 DEF ClearMissed
  <2>. QED
    BY <2>1, ClearAgainGood DEF Own, gcVars
<1>5. CASE Cleared(t)
  <2>1. pc[t] = "cleared" /\ op[t] = "clear" /\ Answer(t, TRUE)
    BY <1>5 DEF Cleared, Base, Doing
  <2>. QED
    BY <2>1, AnswerGood DEF Own, Answer, gcVars
<1>6. ASSUME NEW h \in Head, ClearHead(t, h) PROVE Good(t) /\ Own(t)
  <2>1. status' = status
    BY <1>6 DEF ClearHead, Protect, SMR!Protect, SMR!Release
  <2>. QED
    BY <1>6, <2>1, ClearHeadGood DEF Own
<1>. QED
  BY <1>2, <1>3, <1>4, <1>5, <1>6 DEF ClearStep

\* Every step of t.
LEMMA StepGood ==
  ASSUME Base, NEW t \in Thread, Step(t)
  PROVE  Good(t) /\ Own(t)
<1>1. ASSUME NEW k \in Key, SearchStart(t, k) PROVE Good(t) /\ Own(t)
  BY <1>1, StartGood DEF Own, SearchStart, Call, gcVars
<1>2. CASE Absent(t)
  <2>1. pc[t] \in SearchLabels \cup {"cleared"} /\ Answer(t, FALSE)
    BY <1>2 DEF Absent, SearchLabels
  <2>. QED
    BY <2>1, AnswerGood DEF Own, Answer, gcVars
<1>3. CASE Present(t)
  <2>1. pc[t] \in SearchLabels \cup {"cleared"} /\ pc[t] = "present" /\ Answer(t, TRUE)
    BY <1>3 DEF Present, SearchLabels
  <2>. QED
    BY <2>1, AnswerGood DEF Own, Answer, gcVars
<1>4. CASE ReturnAnswer(t)
  <2>1. Return(t) /\ UNCHANGED listVars
    BY <1>4 DEF ReturnAnswer
  <2>. QED
    BY <2>1, ReturnGood DEF Own, Return, SMR!Release
<1>. QED
  BY <1>1, <1>2, <1>3, <1>4, SearchStepGood, InsertStepGood, EraseStepGood, ClearStepGood DEF Step

-----------------------------------------------------------------------------
(* The invariant *)

\* The key of another thread stays what it is.
LEMMA KeyStays ==
  ASSUME Base, Change, NEW u \in Thread, Same(u), pc[u] \in SearchLabels \cup {"unlink"}
  PROVE  KeyOf(u)' = KeyOf(u) /\ HeadOf(u)' = HeadOf(u)
<1>1. Typed /\ Kept /\ Ordered /\ Guarded /\ Doing(u)
  BY DEF Base
<1>2. CASE op[u] = "clear"
  <2>1. goal[u] # nullptr /\ goal[u] = GGoal(u)
    BY <1>1, <1>2 DEF Doing
  <2>2. goal[u] \in Obj /\ status[goal[u]] # "free" /\ \E g \in Guards : protects[g] = goal[u]
    BY <1>1, <2>1, GuardedIs, Names DEF GGoal
  <2>3. key'[goal[u]] = key[goal[u]]
    BY <1>1, <2>2, NodeStays DEF Stays
  <2>. QED
    BY <1>2, <2>3 DEF Same, KeyOf, HeadOf
<1>3. CASE op[u] # "clear"
  BY <1>3 DEF Same, KeyOf, HeadOf
<1>. QED
  BY <1>2, <1>3

\* A thread that takes no step stays where it is.
LEMMA OtherKeeps ==
  ASSUME Base, Change, NEW u \in Thread, Same(u)
  PROVE  Doing(u)' /\ At(u)'
<1>1. Typed /\ Kept /\ Ordered /\ Guarded /\ Doing(u) /\ At(u)
  BY DEF Base
<1>2. Doing(u)'
  BY <1>1 DEF Doing, Same
<1>3. ASSUME NEW o, o # nullptr, o = GPrev(u) \/ o = GCur(u) PROVE Stays(o)
  <2>1. o \in Obj /\ status[o] # "free" /\ \E g \in Guards : protects[g] = o
    BY <1>1, <1>3, GuardedIs, Names DEF GPrev, GCur
  <2>. QED
    BY <1>1, <2>1, NodeStays
<1>4. pc[u] \in {"next", "check", "help", "absent", "present", "unlink"} => PrevAt(u)'
  <2> SUFFICES ASSUME pc[u] \in {"next", "check", "help", "absent", "present", "unlink"} PROVE PrevAt(u)'
    OBVIOUS
  <2>1. PrevAt(u) /\ KeyOf(u)' = KeyOf(u) /\ HeadOf(u)' = HeadOf(u)
    BY <1>1, KeyStays DEF At, SearchLabels
  <2>2. CASE prev[u] \in Head /\ prev[u] = HeadOf(u)
    BY <2>1, <2>2 DEF PrevAt, Same
  <2>3. CASE prev[u] \in Obj /\ GPrev(u) = prev[u] /\ key[prev[u]] < KeyOf(u) /\ Bucket(key[prev[u]]) = HeadOf(u)
    <3>1. key'[prev[u]] = key[prev[u]]
      BY <1>3, <2>3, Sorts DEF Stays
    <3>. QED
      BY <2>1, <2>3, <3>1 DEF PrevAt, Same
  <2>. QED
    BY <2>1, <2>2, <2>3 DEF PrevAt
<1>5. HasCur(u)' <=> HasCur(u)
  BY DEF HasCur, Same
<1>6. HasCur(u) => cur[u] # nullptr /\ GCur(u) = cur[u] /\ Stays(cur[u])
  BY <1>1, <1>3 DEF At
<1>7. pc[u] \in {"present", "absent"} => KeyOf(u)' = KeyOf(u)
  BY KeyStays DEF SearchLabels
<1>8. cur'[u] = cur[u] /\ nxt'[u] = nxt[u] /\ pc'[u] = pc[u] /\ GCur(u)' = GCur(u) /\ GNext(u)' = GNext(u)
  BY DEF Same
<1>9. HasCur(u)' => cur'[u] # nullptr /\ GCur(u)' = cur'[u]
  BY <1>5, <1>6, <1>8
<1>10. /\ pc[u] \in {"check", "help"} /\ status'[cur[u]] = "linked" => GNext(u) = nxt[u].ptr
       /\ pc[u] \in {"check", "help"} /\ nxt[u].mark => link'[cur[u]] = nxt[u]
       /\ pc[u] = "unlink" => link'[cur[u]] = Marked(nxt[u].ptr)
  BY <1>1, <1>6, Words DEF At, HasCur, Stays
<1>11. /\ pc[u] = "present" => key'[cur[u]] = KeyOf(u)'
       /\ pc[u] = "absent" /\ cur[u] # nullptr => key'[cur[u]] > KeyOf(u)'
  BY <1>1, <1>6, <1>7 DEF At, HasCur, Stays
<1>12. pc[u] = "help" => nxt[u].mark
  BY <1>1 DEF At
<1>13. At(u)'
  BY <1>4, <1>8, <1>9, <1>10, <1>11, <1>12 DEF At
<1>. QED
  BY <1>2, <1>13

\* The guards protect what they did, or a node of the list.
LEMMA GuardedKeeps ==
  ASSUME Base, Change, Sources, Shape', protects' \in [Guards -> Ptr]
  PROVE  Guarded'
<1>1. Typed /\ Kept /\ Ordered /\ Guarded
  BY DEF Base
<1> SUFFICES ASSUME NEW g \in Guards, protects'[g] # nullptr PROVE status'[protects'[g]] # "free"
  BY DEF Guarded
<1>2. CASE \E f \in Guards : protects'[g] = protects[f]
  <2>1. PICK f \in Guards : protects'[g] = protects[f]
    BY <1>2
  <2>2. protects[f] \in Obj /\ status[protects[f]] # "free"
    BY <1>1, <2>1 DEF Typed, Ptr, Guarded
  <2>. QED
    BY <1>1, <2>1, <2>2, NodeStays DEF Stays
<1>3. CASE status'[protects'[g]] = "linked"
  BY <1>3
<1>. QED
  BY <1>2, <1>3 DEF Sources

\* A step of t.
LEMMA StepBase ==
  ASSUME Base, NEW t \in Thread, Step(t)
  PROVE  Base'
<1>1. Typed /\ Kept /\ Ordered /\ Guarded /\ Fresh
  BY DEF Base
<1>2. Change /\ Moves(t) /\ Doing(t)' /\ At(t)' /\ Own(t)
  BY StepGood DEF Good
<1>3. Shape' /\ Kept' /\ Ordered'
  BY <1>1, <1>2, ChangeKeeps
<1>4. Locals' /\ Sources
  BY <1>2 DEF Moves
<1>5. Typed'
  BY <1>3, <1>4 DEF Typed, Shape, Locals
<1>6. Guarded'
  BY <1>2, <1>3, <1>4, GuardedKeeps DEF Locals
<1>7. \A u \in Thread : Doing(u)' /\ At(u)'
  BY <1>2, OtherKeeps DEF Moves
<1>8. \A u \in Thread : Inserts(u)' => new'[u] # nullptr /\ status'[new'[u]] = "free"
  <2> SUFFICES ASSUME NEW u \in Thread, Inserts(u)' PROVE new'[u] # nullptr /\ status'[new'[u]] = "free"
    OBVIOUS
  <2>1. CASE u = t
    BY <1>2, <2>1 DEF Moves
  <2>2. CASE u # t
    <3>1. new'[u] = new[u] /\ Inserts(u)
      BY <1>2, <2>2 DEF Moves, Same, Inserts
    <3>2. new[u] # nullptr /\ status[new[u]] = "free" /\ new[u] # new[t] /\ new[u] \in Obj
      BY <1>1, <2>2, <3>1, TypesOf DEF Fresh, Ptr
    <3>. QED
      BY <1>2, <3>1, <3>2 DEF Own
  <2>. QED
    BY <2>1, <2>2
<1>9. \A u, v \in Thread : new'[u] = new'[v] /\ new'[u] # nullptr => u = v
  <2>1. \A u \in Thread : u # t => new'[u] = new[u]
    BY <1>2 DEF Moves, Same
  <2>2. new'[t] = new[t] \/ new'[t] = nullptr \/ \A u \in Thread : new[u] # new'[t]
    BY <1>2 DEF Moves
  <2>. QED
    BY <1>1, <2>1, <2>2 DEF Fresh
<1>. QED
  BY <1>3, <1>5, <1>6, <1>7, <1>8, <1>9 DEF Base, Fresh

\* A node is freed.
LEMMA ReclaimIs ==
  ASSUME Base, NEW o \in Obj, Reclaim(o)
  PROVE  Freeing(o) /\ protects' = protects /\ UNCHANGED <<pc, op, arg, new, goal, res>> /\ UNCHANGED <<prev, cur, nxt>>
<1>1. /\ SMR!Reclaim({o}) /\ link' = [link EXCEPT ![o] = Null] /\ key' = [key EXCEPT ![o] = nullptr]
      /\ UNCHANGED <<pc, op, arg, new, goal, res>> /\ UNCHANGED <<prev, cur, nxt>>
  BY DEF Reclaim, callVars, position
<1>2. status[o] = "retired" /\ o \notin SMR!Protected /\ protects' = protects
  BY <1>1 DEF SMR!Reclaim
<1>3. \A g \in Guards : protects[g] # o
  BY <1>2, Sorts DEF SMR!Protected
<1>4. status' = [status EXCEPT ![o] = "free"]
  BY <1>1 DEF SMR!Reclaim, Base, Typed
<1>. QED
  BY <1>1, <1>2, <1>3, <1>4 DEF Freeing

\* The invariant is kept by a step of nobody.
LEMMA SameBase ==
  ASSUME Base, Change, protects' = protects, UNCHANGED <<pc, op, arg, new, goal, res>>, UNCHANGED <<prev, cur, nxt>>,
         \A q \in Obj : status[q] = "free" => status'[q] = "free"
  PROVE  Base' /\ \A u \in Thread : Same(u)
<1>1. Typed /\ Kept /\ Ordered /\ Guarded /\ Fresh
  BY DEF Base
<1>2. Shape' /\ Kept' /\ Ordered'
  BY <1>1, ChangeKeeps
<1>3. Sources /\ \A u : GPrev(u)' = GPrev(u) /\ GCur(u)' = GCur(u) /\ GNext(u)' = GNext(u) /\ GGoal(u)' = GGoal(u)
  BY GuardsSame
<1>4. Typed'
  BY <1>1, <1>2 DEF Typed, Shape
<1>5. Guarded'
  BY <1>1, <1>2, <1>3, GuardedKeeps DEF Typed
<1>6. \A u \in Thread : Same(u)
  BY <1>3 DEF Same
<1>7. \A u \in Thread : Doing(u)' /\ At(u)'
  BY <1>6, OtherKeeps
<1>8. Fresh'
  <2>1. \A u \in Thread : Inserts(u)' => new'[u] # nullptr /\ status'[new'[u]] = "free"
    BY <1>1, TypesOf DEF Fresh, Inserts, Ptr
  <2>. QED
    BY <1>1, <2>1 DEF Fresh
<1>. QED
  BY <1>2, <1>4, <1>5, <1>6, <1>7, <1>8 DEF Base

\* The memory of a node is freed, or nothing happens.
LEMMA NobodyBase ==
  ASSUME Base, (\E o \in Obj : Reclaim(o)) \/ UNCHANGED vars
  PROVE  Base' /\ Change /\ (\A u \in Thread : Same(u)) /\ ((\E o \in Obj : Freeing(o)) \/ Quiet)
<1>1. ASSUME NEW o \in Obj, Reclaim(o)
      PROVE  Base' /\ Change /\ (\A u \in Thread : Same(u)) /\ Freeing(o)
  <2>1. Freeing(o) /\ protects' = protects /\ UNCHANGED <<pc, op, arg, new, goal, res>> /\ UNCHANGED <<prev, cur, nxt>>
    BY <1>1, ReclaimIs
  <2>2. Change
    BY <2>1 DEF Change
  <2>3. \A q \in Obj : status[q] = "free" => status'[q] = "free"
    BY <2>1 DEF Freeing, Base, Typed
  <2>. QED
    BY <2>1, <2>2, <2>3, SameBase
<1>2. ASSUME UNCHANGED vars PROVE Base' /\ Change /\ (\A u \in Thread : Same(u)) /\ Quiet
  <2>1. /\ UNCHANGED <<link, key, status, protects>> /\ UNCHANGED <<pc, op, arg, new, goal, res>>
        /\ UNCHANGED <<prev, cur, nxt>>
    BY <1>2 DEF vars, listVars, callVars, position, gcVars
  <2>2. Change /\ Quiet
    BY <2>1 DEF Change, Quiet
  <2>. QED
    BY <2>1, <2>2, SameBase
<1>. QED
  BY <1>1, <1>2

\* At the beginning.
LEMMA InitBase ==
  ASSUME Init
  PROVE  Base
<1>1. /\ link = [l \in Link |-> Null] /\ key = [o \in Obj |-> nullptr] /\ pc = [t \in Thread |-> "idle"]
      /\ op = [t \in Thread |-> "none"] /\ arg = [t \in Thread |-> nullptr] /\ new = [t \in Thread |-> nullptr]
      /\ prev = [t \in Thread |-> nullptr] /\ cur = [t \in Thread |-> nullptr] /\ nxt = [t \in Thread |-> Null]
      /\ goal = [t \in Thread |-> nullptr] /\ res = [t \in Thread |-> FALSE]
      /\ status = [o \in Obj |-> "free"] /\ protects = [g \in Guards |-> nullptr]
  BY DEF Init, SMR!Init
<1>2. Typed
  BY <1>1, Words DEF Typed, Labels, Ptr
<1>3. In = {} /\ \A l \in Link : link[l].ptr = nullptr /\ ~ link[l].mark
  BY <1>1, Words DEF In
<1>4. Kept
  BY <1>1, <1>3 DEF Kept, Link
<1>5. Ordered
  BY <1>3 DEF Ordered, Spots, Leads, Link
<1>6. Guarded /\ Fresh
  BY <1>1 DEF Guarded, Fresh, Inserts
<1>7. \A t \in Thread : Doing(t) /\ At(t)
  BY <1>1 DEF Doing, At, HasCur, SearchLabels
<1>. QED
  BY <1>2, <1>4, <1>5, <1>6, <1>7 DEF Base

-----------------------------------------------------------------------------
(* The set *)

\* The nodes of the list are those in use.
Whole == Nodes = In

\* The nodes that are not deleted; the set consists of their keys.
Live == {o \in In : ~ link[o].mark}

\* The keys, and those of the next state.
LEMMA KeysAre == Whole => Keys = {key[o] : o \in Live}
  BY DEF Keys, Whole, Live

\* The same of the next state.
LEMMA KeysNext == Whole' => Keys' = {key'[o] : o \in Live'}
<1>1. (Whole => Keys = {key[o] : o \in Live})'
  BY KeysAre, PTL
<1>. QED
  BY <1>1

\* An insertion adds its key.
LEMMA KeysInsertion ==
  ASSUME Typed, Kept, Ordered, Whole, Whole', NEW p, NEW n, NEW k, Insertion(p, n, k)
  PROVE  Keys' = Keys \cup {k} /\ k \notin Keys
<1>1. /\ p \in Spots /\ p \in Link /\ n \in Obj /\ n \in Link /\ n # p /\ n \notin In /\ k \in Key
      /\ link[p].ptr \in Ptr /\ ~ link[p].mark
  BY SpotIs, Sorts DEF Insertion, Link, Spots, In
<1>2. /\ \A l \in Link : link'[l].mark <=> l # n /\ link[l].mark
      /\ \A o \in Obj : key'[o] = IF o = n THEN k ELSE key[o]
      /\ \A o \in Obj : status'[o] = IF o = n THEN "linked" ELSE status[o]
  <2>1. \A l \in Link : link'[l] = IF l = n THEN To(link[p].ptr) ELSE IF l = p THEN To(n) ELSE link[l]
    BY <1>1 DEF Insertion, Typed
  <2>2. \A l \in Link : link'[l].mark <=> l # n /\ link[l].mark
    <3> SUFFICES ASSUME NEW l \in Link PROVE link'[l].mark <=> l # n /\ link[l].mark
      OBVIOUS
    <3>1. CASE l = n
      BY <2>1, <3>1, Words
    <3>2. CASE l # n /\ l = p
      BY <1>1, <2>1, <3>2, Words
    <3>3. CASE l # n /\ l # p
      BY <2>1, <3>3
    <3>. QED
      BY <3>1, <3>2, <3>3
  <2>. QED
    BY <1>1, <2>2 DEF Insertion, Typed
<1>3. Live' = Live \cup {n} /\ \A o \in Live : o \in Obj /\ o # n
  BY <1>1, <1>2 DEF Live, In, Link
<1>4. Keys' = Keys \cup {k}
  BY SMT, <1>1, <1>2, <1>3, KeysAre, KeysNext
<1>5. \A o \in In : key[o] # k
  BY <1>1, Gap DEF Insertion
<1>. QED
  BY <1>4, <1>5, KeysAre DEF Live

\* A mark takes the key away.
LEMMA KeysMarking ==
  ASSUME Typed, Kept, Ordered, Whole, Whole', NEW c, Marking(c)
  PROVE  Keys' = Keys \ {key[c]} /\ key[c] \in Keys
<1>1. c \in In /\ c \in Obj /\ c \in Link /\ c \in Live
  BY InIs, SpotIs DEF Marking, Live
<1>2. /\ \A l \in Link : link'[l].mark = IF l = c THEN TRUE ELSE link[l].mark
      /\ key' = key /\ status' = status
  BY <1>1, Words DEF Marking, Typed
<1>3. Live' = Live \ {c}
  BY <1>1, <1>2 DEF Live, In, Link
<1>4. \A o \in Live : key[o] = key[c] => o = c
  BY <1>1 DEF Live, Ordered
<1>. QED
  BY ZenonT(60), <1>1, <1>2, <1>3, <1>4, KeysAre, KeysNext

\* To unlink a marked node, or to free one, changes no key.
LEMMA KeysSame ==
  ASSUME Typed, Kept, Ordered, Whole, Whole',
         Quiet \/ (\E p, c : Unlinking(p, c)) \/ \E o : Freeing(o)
  PROVE  Keys' = Keys
<1>1. CASE Quiet
  <2>1. Live' = Live /\ key' = key
    BY <1>1 DEF Quiet, Live, In
  <2>. QED
    BY <2>1, KeysAre, KeysNext
<1>2. ASSUME NEW p, NEW c, Unlinking(p, c) PROVE Keys' = Keys
  <2>1. p \in Spots /\ p \in Link /\ ~ link[p].mark /\ link[p].ptr = c /\ c \in In /\ c \in Obj /\ c \notin Live
    BY SMT, <1>2, SpotIs, LeadsTo, Words DEF Unlinking, Live
  <2>2. /\ \A l \in Link : link'[l].mark <=> link[l].mark
        /\ key' = key /\ \A o \in Obj : status'[o] = IF o = c THEN "retired" ELSE status[o]
    <3>1. \A l \in Link : link'[l] = IF l = p THEN To(link[c].ptr) ELSE link[l]
      BY <1>2, <2>1 DEF Unlinking, Typed
    <3>2. \A l \in Link : link'[l].mark <=> link[l].mark
      <4> SUFFICES ASSUME NEW l \in Link PROVE link'[l].mark <=> link[l].mark
        OBVIOUS
      <4>1. CASE l = p
        BY <2>1, <3>1, <4>1, Words
      <4>2. CASE l # p
        BY <3>1, <4>2
      <4>. QED
        BY <4>1, <4>2
    <3>. QED
      BY <1>2, <2>1, <3>2 DEF Unlinking, Typed
  <2>3. Live' = Live
    BY <2>1, <2>2 DEF Live, In, Link
  <2>. QED
    BY <2>2, <2>3, KeysAre, KeysNext
<1>3. ASSUME NEW f, Freeing(f) PROVE Keys' = Keys
  <2>1. f \in Obj /\ f \in Link /\ status[f] = "retired"
    BY <1>3 DEF Freeing, Link
  <2>2. /\ \A l \in Link : l # f => link'[l] = link[l]
        /\ \A o \in Obj : o # f => key'[o] = key[o]
        /\ \A o \in Obj : status'[o] = IF o = f THEN "free" ELSE status[o]
    BY <1>3, <2>1 DEF Freeing, Typed
  <2>3. Live' = Live /\ \A o \in Live : o # f /\ o \in Obj
    BY <2>1, <2>2 DEF Live, In, Link
  <2>4. \A o \in Live : key'[o] = key[o]
    BY <2>2, <2>3
  <2>. QED
    BY <2>3, <2>4, KeysAre, KeysNext
<1>. QED
  BY <1>1, <1>2, <1>3

-----------------------------------------------------------------------------
(* What the calls have seen *)

\* What an operation is going to answer was true at an instant of the call.
Seen(t) ==
  op[t] # "clear" =>
    /\ pc[t] = "check" /\ status[cur[t]] = "linked" /\ ~ nxt[t].mark /\ key[cur[t]] = arg[t] => TRUE \in saw[t]
    /\ pc[t] = "check" /\ status[cur[t]] = "linked" /\ nxt[t].ptr = nullptr /\ key[cur[t]] < arg[t]
         /\ Bucket(key[cur[t]]) = Bucket(arg[t]) => FALSE \in saw[t]
    /\ pc[t] = "present" => TRUE \in saw[t]
    /\ pc[t] = "absent" => FALSE \in saw[t]

\* What a step adds to it.
LEMMA Observed ==
  ASSUME AS!Observe, NEW t \in Thread
  PROVE  /\ op'[t] = "none" => saw'[t] = {}
         /\ op'[t] # "none" => /\ saw[t] \subseteq saw'[t]
                               /\ AS!Truth(call'[t], Keys') \in saw'[t]
         /\ op'[t] \notin {"none", "clear"} => /\ arg'[t] \in Keys' => TRUE \in saw'[t]
                                               /\ arg'[t] \notin Keys' => FALSE \in saw'[t]
         /\ op'[t] = "clear" /\ Keys' = {} => TRUE \in saw'[t]
<1>1. call'[t].op = op'[t] /\ call'[t].key = arg'[t]
  BY DEF call
<1>2. saw'[t] = IF op'[t] = "none" THEN {} ELSE saw[t] \cup {AS!Truth(call'[t], Keys')}
  BY <1>1 DEF AS!Observe
<1>3. op'[t] # "none" => saw[t] \subseteq saw'[t] /\ AS!Truth(call'[t], Keys') \in saw'[t]
  BY <1>2
<1>4. op'[t] \notin {"none", "clear"} => AS!Truth(call'[t], Keys') = (arg'[t] \in Keys')
  BY <1>1 DEF AS!Truth
<1>5. op'[t] = "clear" => AS!Truth(call'[t], Keys') = (Keys' = {})
  BY <1>1 DEF AS!Truth
<1>6. (arg'[t] \in Keys') \in BOOLEAN /\ (Keys' = {}) \in BOOLEAN
  OBVIOUS
<1>. QED
  BY <1>2, <1>3, <1>4, <1>5, <1>6

\* A thread that takes no step has seen no less.
LEMMA OtherSeen ==
  ASSUME Base, Change, AS!Observe, NEW u \in Thread, Same(u), Seen(u)
  PROVE  Seen(u)'
<1>1. Typed /\ Kept /\ Ordered /\ Guarded /\ Doing(u)
  BY DEF Base
<1>2. CASE pc[u] = "check"
  <2>1. cur[u] \in Obj /\ status[cur[u]] # "free" /\ GCur(u) = cur[u]
    BY <1>2, CurIs DEF HasCur
  <2>2. \E g \in Guards : protects[g] = cur[u]
    BY <2>1, Names DEF GCur
  <2>3. Stays(cur[u])
    BY <1>1, <2>1, <2>2, NodeStays
  <2>4. op'[u] # "none" /\ saw[u] \subseteq saw'[u]
    BY <1>1, <1>2, Observed DEF Doing, Same
  <2>. QED
    BY <1>2, <2>3, <2>4 DEF Seen, Same, Stays
<1>3. CASE pc[u] # "check"
  <2>1. pc[u] \in {"present", "absent"} => op'[u] # "none" /\ saw[u] \subseteq saw'[u]
    BY <1>1, Observed DEF Doing, Same
  <2>. QED
    BY <1>3, <2>1 DEF Seen, Same
<1>. QED
  BY <1>2, <1>3

\* The thread that takes the step: the answer is seen on the way.
LEMMA OwnSeen ==
  ASSUME Base, Whole, Whole', NEW t \in Thread, Step(t), AS!Observe, Seen(t)
  PROVE  Seen(t)'
<1>1. Typed /\ Kept /\ Ordered /\ Guarded /\ Doing(t) /\ At(t)
  BY DEF Base
<1>2. SUFFICES ASSUME op'[t] # "clear", pc'[t] \in {"check", "present", "absent"}
               PROVE  Seen(t)'
  BY DEF Seen
<1>3. pc[t] \in {"start", "next", "check", "help"} /\ SearchStep(t)
  BY ZenonT(60), <1>1, <1>2 DEF Step, SearchStep, InsertStep, EraseStep, ClearStep, InsertStart, LinkNode, LinkNodeFail, Inserted, UpdateMarked,
       MarkNode, MarkNodeFail, UnlinkNode, UnlinkNodeFail, Erased, ClearStart, ClearErased, ClearMissed, Cleared, ClearHead,
       SearchStart, Absent, Present, ReturnAnswer, SearchHead, SearchNext, SearchChanged, SearchMarked, SearchDone,
       SearchForward, SearchHelp, SearchHelpFail, Answer, Return, Again, Goto, Typed
<1>4. /\ op'[t] = op[t] /\ arg'[t] = arg[t] /\ op[t] # "clear" /\ op[t] # "none" /\ arg[t] \in Key /\ arg[t] \in Int
      /\ KeyOf(t) = arg[t] /\ HeadOf(t) = Bucket(arg[t]) /\ Bucket(arg[t]) \in Head
  <2>1. UNCHANGED callVars
    BY <1>3 DEF SearchStep, SearchHead, SearchNext, SearchChanged, SearchMarked, SearchDone, SearchForward, SearchHelp, SearchHelpFail
  <2>2. op'[t] = op[t] /\ arg'[t] = arg[t]
    BY <2>1 DEF callVars
  <2>. QED
    BY <1>1, <1>2, <1>3, <2>2, Sorts DEF Doing, KeyOf, HeadOf
<1>5. /\ saw[t] \subseteq saw'[t]
      /\ arg[t] \in Keys' => TRUE \in saw'[t]
      /\ arg[t] \notin Keys' => FALSE \in saw'[t]
  BY <1>2, <1>4, Observed
<1>a. Keys = {key[o] : o \in Live}
  BY KeysAre
<1>b. (\A o \in In : key[o] # arg[t]) => arg[t] \notin Keys
  BY <1>a DEF Live
<1>6. CASE SearchHead(t)
  <2>1. Quiet
    BY <1>6 DEF SearchHead, Quiet, listVars, Protect, SMR!Protect, SMR!Release
  <2>2. pc'[t] = IF link[HeadOf(t)].ptr = nullptr THEN "absent" ELSE "next"
    BY <1>1, <1>6 DEF SearchHead, Goto, Typed
  <2>3. link[HeadOf(t)].ptr = nullptr /\ pc'[t] = "absent"
    BY <1>2, <2>2
  <2>4. HeadOf(t) \in Spots /\ Before(HeadOf(t), arg[t]) /\ ListOf(HeadOf(t)) = Bucket(arg[t])
    BY <1>4 DEF Spots, Before, ListOf
  <2>5. arg[t] \notin Keys
    BY <1>1, <1>4, <1>b, <2>3, <2>4, Gap
  <2>6. Keys' = Keys
    BY <1>1, <2>1, KeysSame
  <2>. QED
    BY <1>5, <2>3, <2>5, <2>6 DEF Seen
<1>7. CASE SearchNext(t)
  <2>1. Quiet
    BY <1>7 DEF SearchNext, Quiet, listVars, Protect, SMR!Protect, SMR!Release
  <2>2. pc[t] = "next" /\ pc'[t] = "check" /\ cur' = cur /\ nxt'[t] = link[cur[t]]
    BY <1>1, <1>7 DEF SearchNext, Goto, Typed
  <2>3. cur[t] \in Obj /\ key[cur[t]] \in Int
    BY <2>2, CurIs DEF HasCur
  <2>4. Keys' = Keys
    BY <1>1, <2>1, KeysSame
  <2>5. status[cur[t]] = "linked" /\ ~ link[cur[t]].mark /\ key[cur[t]] = arg[t] => arg[t] \in Keys
    BY <1>a, <2>3 DEF Live, In
  <2>6. ASSUME status[cur[t]] = "linked", link[cur[t]].ptr = nullptr, key[cur[t]] < arg[t],
               Bucket(key[cur[t]]) = Bucket(arg[t])
        PROVE  arg[t] \notin Keys
    <3>1. cur[t] \in Spots /\ Before(cur[t], arg[t]) /\ ListOf(cur[t]) = Bucket(arg[t])
      BY <2>3, <2>6, Sorts DEF Spots, In, Before, ListOf
    <3>. QED
      BY <1>1, <1>4, <1>b, <2>6, <3>1, Gap
  <2>7. key' = key /\ status' = status
    BY <2>1 DEF Quiet
  <2>. QED
    BY <1>4, <1>5, <2>2, <2>4, <2>5, <2>6, <2>7 DEF Seen
<1>8. CASE SearchDone(t)
  <2>1. /\ Quiet /\ pc[t] = "check" /\ link[prev[t]] = To(cur[t]) /\ ~ nxt[t].mark /\ key[cur[t]] >= arg[t]
        /\ pc'[t] = IF key[cur[t]] = arg[t] THEN "present" ELSE "absent"
    BY <1>1, <1>4, <1>8 DEF SearchDone, Quiet, listVars, gcVars, PrevChanged, Goto, Typed
  <2>2. /\ prev[t] \in Spots /\ Before(prev[t], arg[t]) /\ ListOf(prev[t]) = Bucket(arg[t])
        /\ status[cur[t]] = "linked" /\ cur[t] \in In
    BY <1>4, <2>1, BothIn
  <2>3. CASE key[cur[t]] = arg[t]
    BY <1>4, <1>5, <2>1, <2>2, <2>3 DEF Seen
  <2>4. CASE key[cur[t]] # arg[t]
    <3>1. link[prev[t]].ptr = cur[t] /\ key[cur[t]] \in Int
      BY <1>1, <2>1, <2>2, Words, InIs
    <3>2. arg[t] < key[cur[t]]
      BY SMTT(40), <1>4, <2>1, <2>4, <3>1
    <3>3. arg[t] \notin Keys
      BY <1>1, <1>4, <1>b, <2>2, <3>1, <3>2, Gap
    <3>4. Keys' = Keys
      BY <1>1, <2>1, KeysSame
    <3>. QED
      BY <1>5, <2>1, <2>4, <3>3, <3>4 DEF Seen
  <2>. QED
    BY <2>3, <2>4
<1>9. CASE SearchForward(t)
  <2>1. /\ pc[t] = "check" /\ link[prev[t]] = To(cur[t]) /\ key[cur[t]] < arg[t]
        /\ pc'[t] = IF nxt[t].ptr = nullptr THEN "absent" ELSE "next"
    BY <1>1, <1>4, <1>9 DEF SearchForward, Advance, PrevChanged, Goto, Typed
  <2>2. status[cur[t]] = "linked" /\ Bucket(key[cur[t]]) = Bucket(arg[t])
    BY <1>4, <2>1, BothIn
  <2>3. nxt[t].ptr = nullptr /\ pc'[t] = "absent"
    BY <1>2, <2>1
  <2>. QED
    BY <1>4, <1>5, <2>1, <2>2, <2>3 DEF Seen
<1>10. CASE SearchHelp(t)
  <2>1. /\ pc[t] = "help" /\ link[prev[t]] = To(cur[t])
        /\ pc'[t] = IF nxt[t].ptr = nullptr THEN "absent" ELSE "next"
    BY <1>1, <1>10 DEF SearchHelp, Unlink, Advance, Goto, Typed
  <2>2. /\ nxt[t].ptr = nullptr /\ pc'[t] = "absent" /\ link[cur[t]] = nxt[t] /\ nxt[t].mark
    BY <1>1, <1>2, <2>1 DEF At
  <2>3. /\ prev[t] \in Spots /\ Before(prev[t], arg[t]) /\ ListOf(prev[t]) = Bucket(arg[t])
        /\ cur[t] \in In /\ cur[t] \in Spots /\ Bucket(key[cur[t]]) = Bucket(arg[t]) /\ link[prev[t]].ptr = cur[t]
        /\ key[cur[t]] \in Int /\ cur[t] \in Obj /\ cur[t] \notin Head
    BY <1>1, <1>4, <2>1, BothIn, Words, InIs
  <2>4. arg[t] \notin Keys
    <3>1. CASE key[cur[t]] < arg[t]
      <4>1. Before(cur[t], arg[t]) /\ ListOf(cur[t]) = Bucket(arg[t])
        BY <2>3, <3>1 DEF Before, ListOf
      <4>. QED
        BY <1>1, <1>4, <1>b, <2>2, <2>3, <4>1, Gap
    <3>2. CASE arg[t] < key[cur[t]]
      BY <1>1, <1>4, <1>b, <2>3, <3>2, Gap
    <3>3. CASE key[cur[t]] = arg[t]
      <4>1. link[cur[t]].mark /\ \A o \in In : key[o] = arg[t] => o = cur[t]
        BY <1>1, <2>2, <2>3, <3>3 DEF Ordered
      <4>. QED
        BY <1>a, <4>1 DEF Live
    <3>. QED
      BY SMTT(40), <1>4, <2>3, <3>1, <3>2, <3>3
  <2>5. Keys' = Keys
    BY <1>1, <1>10, SearchHelpGood, KeysSame
  <2>. QED
    BY <1>5, <2>2, <2>4, <2>5 DEF Seen
<1>11. CASE SearchChanged(t) \/ SearchMarked(t) \/ SearchHelpFail(t)
  BY <1>1, <1>2, <1>11 DEF SearchChanged, SearchMarked, SearchHelpFail, Again, Goto, Typed
<1>. QED
  BY <1>3, <1>6, <1>7, <1>8, <1>9, <1>10, <1>11 DEF SearchStep

-----------------------------------------------------------------------------
(* The steps, as a client sees them *)

\* The places where an operation has not taken effect.
Waits == SearchLabels \cup {"clear", "cleared"}

\* The operation goes on.
Works(t) ==
  /\ pc[t] \in Waits /\ pc'[t] \in Waits
  /\ op'[t] = op[t] /\ arg'[t] = arg[t] /\ res'[t] = res[t] /\ m_ItemCounter' = m_ItemCounter /\ Keys' = Keys

\* An operation is called.
Begins(t) ==
  /\ pc[t] = "idle" /\ pc'[t] \in Waits
  /\ op'[t] \in Ops /\ (op'[t] = "clear" => arg'[t] = nullptr) /\ (op'[t] # "clear" => arg'[t] \in Key)
  /\ res'[t] = res[t] /\ m_ItemCounter' = m_ItemCounter /\ Keys' = Keys

\* A node is linked.
Links(t) ==
  /\ pc[t] = "absent" /\ pc'[t] = "inserted" /\ op[t] \in {"insert", "update"}
  /\ op'[t] = op[t] /\ arg'[t] = arg[t] /\ res'[t] = res[t] /\ m_ItemCounter' = m_ItemCounter
  /\ arg[t] \notin Keys /\ Keys' = Keys \cup {arg[t]}

\* A node is marked.
Marks(t) ==
  /\ pc[t] = "present" /\ pc'[t] = "unlink" /\ op[t] \in {"erase", "clear"}
  /\ op'[t] = op[t] /\ arg'[t] = arg[t] /\ res'[t] = res[t] /\ m_ItemCounter' = m_ItemCounter
  /\ KeyOf(t) \in Keys /\ Keys' = Keys \ {KeyOf(t)}

\* A marked node is unlinked, by this thread or another one.
Unlinks(t) ==
  /\ pc[t] = "unlink" /\ pc'[t] = "erased"
  /\ op'[t] = op[t] /\ arg'[t] = arg[t] /\ res'[t] = res[t] /\ m_ItemCounter' = m_ItemCounter /\ Keys' = Keys

\* An operation that changes nothing has its answer r.
Answers(t, r) ==
  /\ pc[t] = IF op[t] = "clear" THEN "cleared" ELSE IF r THEN "present" ELSE "absent"
  /\ op[t] \in IF r THEN {"insert", "update", "modify", "find", "clear"} ELSE {"modify", "erase", "find"}
  /\ pc'[t] = "return" /\ res'[t] = r
  /\ op'[t] = op[t] /\ arg'[t] = arg[t] /\ m_ItemCounter' = m_ItemCounter /\ Keys' = Keys

\* An operation returns.
Returns(t) ==
  /\ pc[t] \in {"inserted", "return", "erased"} /\ (pc[t] = "erased" => op[t] = "erase")
  /\ pc'[t] = "idle" /\ op'[t] = "none" /\ arg'[t] = nullptr /\ res'[t] = FALSE /\ Keys' = Keys
  /\ pc[t] = "inserted" => m_ItemCounter' = (m_ItemCounter + 1) % CounterModulus
  /\ pc[t] = "erased" => CountErased
  /\ pc[t] = "return" => m_ItemCounter' = m_ItemCounter

\* clear has removed a node.
Removed(t) ==
  /\ pc[t] = "erased" /\ pc'[t] = "clear" /\ op[t] = "clear"
  /\ op'[t] = op[t] /\ arg'[t] = arg[t] /\ res'[t] = res[t] /\ CountErased /\ Keys' = Keys

Acts(t) ==
  \/ Works(t) \/ Begins(t) \/ Links(t) \/ Marks(t) \/ Unlinks(t) \/ Returns(t) \/ Removed(t)
  \/ \E r \in BOOLEAN : Answers(t, r)

\* The lists stay as they are.
LEMMA QuietSame ==
  ASSUME Base, Whole, Whole', UNCHANGED listVars, status' = status
  PROVE  Keys' = Keys
<1>1. Quiet
  BY DEF listVars, Quiet
<1>. QED
  BY <1>1, KeysSame DEF Base

\* A search goes on, or begins anew.
LEMMA SearchActs ==
  ASSUME Base, Whole, Whole', NEW t \in Thread, SearchStep(t)
  PROVE  Works(t)
<1>1. Typed /\ Kept /\ Ordered
  BY DEF Base
<1>2. UNCHANGED callVars /\ m_ItemCounter' = m_ItemCounter
  BY DEF SearchStep, SearchHead, SearchNext, SearchChanged, SearchMarked, SearchDone, SearchForward, SearchHelp, SearchHelpFail
<1>3. op'[t] = op[t] /\ arg'[t] = arg[t] /\ res'[t] = res[t]
  BY <1>2 DEF callVars
<1>4. pc[t] \in Waits /\ pc'[t] \in Waits
  BY <1>1 DEF SearchStep, SearchHead, SearchNext, SearchChanged, SearchMarked, SearchDone, SearchForward, SearchHelp,
              SearchHelpFail, Advance, Again, Goto, Typed, Waits, SearchLabels
<1>5. Keys' = Keys
  <2>1. CASE SearchHelp(t)
    BY <1>1, <2>1, SearchHelpGood, KeysSame
  <2>2. CASE ~ SearchHelp(t)
    <3>1. UNCHANGED listVars
      BY <2>2 DEF SearchStep, SearchHead, SearchNext, SearchChanged, SearchMarked, SearchDone, SearchForward, SearchHelpFail
    <3>2. status' = status
      BY <2>2 DEF SearchStep, SearchHead, SearchNext, SearchChanged, SearchMarked, SearchDone, SearchForward, SearchHelpFail,
                  Protect, SMR!Protect, SMR!Release, gcVars
    <3>. QED
      BY <3>1, <3>2, QuietSame
  <2>. QED
    BY <2>1, <2>2
<1>. QED
  BY <1>2, <1>3, <1>4, <1>5 DEF Works

\* The operation begins anew.
LEMMA RestartActs ==
  ASSUME Base, Whole, Whole', NEW t \in Thread, pc[t] \in Waits, NEW l \in Waits, Again(t, l),
         UNCHANGED <<listVars, m_ItemCounter, callVars, gcVars>>
  PROVE  Works(t)
<1>1. pc'[t] = l
  BY DEF Again, Goto, Base, Typed
<1>2. Keys' = Keys
  BY QuietSame DEF gcVars
<1>. QED
  BY <1>1, <1>2 DEF Works, callVars

\* A call.
LEMMA CallActs ==
  ASSUME Base, Whole, Whole', NEW t \in Thread, NEW f \in Ops, NEW k, Call(t, f, k), NEW l \in Waits, Goto(t, l),
         f = "clear" => k = nullptr, f # "clear" => k \in Key
  PROVE  Begins(t)
<1>1. pc[t] = "idle" /\ pc'[t] = l /\ op'[t] = f /\ arg'[t] = k /\ res' = res /\ m_ItemCounter' = m_ItemCounter
  BY DEF Call, Goto, Base, Typed
<1>2. Keys' = Keys
  BY QuietSame DEF Call, gcVars
<1>. QED
  BY <1>1, <1>2 DEF Begins

\* A return.
LEMMA ReturnIs ==
  ASSUME Base, Whole, Whole', NEW t \in Thread, Return(t), UNCHANGED listVars
  PROVE  pc'[t] = "idle" /\ op'[t] = "none" /\ arg'[t] = nullptr /\ res'[t] = FALSE /\ Keys' = Keys
<1>1. pc'[t] = "idle" /\ op'[t] = "none" /\ arg'[t] = nullptr /\ res'[t] = FALSE
  BY DEF Return, Again, Goto, Base, Typed
<1>2. Keys' = Keys
  BY QuietSame DEF Return, SMR!Release
<1>. QED
  BY <1>1, <1>2

\* An answer.
LEMMA AnswerActs ==
  ASSUME Base, Whole, Whole', NEW t \in Thread, NEW r \in BOOLEAN, Answer(t, r),
         pc[t] = IF op[t] = "clear" THEN "cleared" ELSE IF r THEN "present" ELSE "absent",
         op[t] \in IF r THEN {"insert", "update", "modify", "find", "clear"} ELSE {"modify", "erase", "find"}
  PROVE  Answers(t, r)
<1>1. pc'[t] = "return" /\ res'[t] = r /\ op'[t] = op[t] /\ arg'[t] = arg[t] /\ m_ItemCounter' = m_ItemCounter
  BY DEF Answer, Goto, Base, Typed
<1>2. Keys' = Keys
  BY QuietSame DEF Answer, gcVars
<1>. QED
  BY <1>1, <1>2 DEF Answers

\* An insertion.
LEMMA InsertActs ==
  ASSUME Base, Whole, Whole', NEW t \in Thread, InsertStep(t)
  PROVE  Acts(t)
<1>1. Typed /\ Kept /\ Ordered /\ Doing(t)
  BY DEF Base
<1>2. ASSUME NEW k \in Key, NEW o \in Obj, InsertStart(t, k, o) PROVE Begins(t)
  <2>1. PICK f \in {"insert", "update"} : Call(t, f, k)
    BY <1>2 DEF InsertStart
  <2>2. f \in Ops /\ f # "clear" /\ Goto(t, "start") /\ "start" \in Waits
    BY <1>2 DEF InsertStart, Ops, Waits, SearchLabels
  <2>. QED
    BY <2>1, <2>2, CallActs
<1>3. CASE LinkNode(t)
  <2>1. Keys' = Keys \cup {arg[t]} /\ arg[t] \notin Keys
    BY <1>1, <1>3, LinkNodeGood, KeysInsertion
  <2>. QED
    BY <1>1, <1>3, <2>1 DEF LinkNode, Goto, Typed, callVars, Links, Acts
<1>4. CASE LinkNodeFail(t) \/ UpdateMarked(t)
  <2>1. pc[t] \in Waits /\ "start" \in Waits /\ Again(t, "start") /\ UNCHANGED <<listVars, m_ItemCounter, callVars, gcVars>>
    BY <1>4 DEF LinkNodeFail, UpdateMarked, Waits, SearchLabels
  <2>. QED
    BY <2>1, RestartActs DEF Acts
<1>5. CASE Inserted(t)
  BY <1>5, ReturnIs DEF Inserted, Returns, Acts
<1>. QED
  BY <1>2, <1>3, <1>4, <1>5 DEF InsertStep, Acts

\* A removal.
LEMMA EraseActs ==
  ASSUME Base, Whole, Whole', NEW t \in Thread, EraseStep(t)
  PROVE  Acts(t)
<1>1. Typed /\ Kept /\ Ordered /\ Doing(t)
  BY DEF Base
<1>2. CASE MarkNode(t)
  <2>1. Keys' = Keys \ {KeyOf(t)} /\ KeyOf(t) \in Keys
    BY <1>1, <1>2, MarkNodeGood, KeysMarking
  <2>. QED
    BY <1>1, <1>2, <2>1 DEF MarkNode, Goto, Typed, callVars, Marks, Acts
<1>3. CASE MarkNodeFail(t)
  <2>1. pc[t] \in Waits /\ "start" \in Waits /\ Again(t, "start") /\ UNCHANGED <<listVars, m_ItemCounter, callVars, gcVars>>
    BY <1>3 DEF MarkNodeFail, Waits, SearchLabels
  <2>. QED
    BY <2>1, RestartActs DEF Acts
<1>4. CASE UnlinkNode(t)
  <2>1. Keys' = Keys
    BY <1>1, <1>4, UnlinkNodeGood, KeysSame
  <2>. QED
    BY <1>1, <1>4, <2>1 DEF UnlinkNode, Goto, Typed, callVars, Unlinks, Acts
<1>5. CASE UnlinkNodeFail(t)
  <2>1. Keys' = Keys
    BY <1>5, QuietSame DEF UnlinkNodeFail, gcVars
  <2>. QED
    BY <1>1, <1>5, <2>1 DEF UnlinkNodeFail, Goto, Typed, callVars, Unlinks, Acts
<1>6. CASE Erased(t)
  BY <1>6, ReturnIs DEF Erased, Returns, Acts
<1>. QED
  BY <1>2, <1>3, <1>4, <1>5, <1>6 DEF EraseStep

\* clear.
LEMMA ClearActs ==
  ASSUME Base, Whole, Whole', NEW t \in Thread, ClearStep(t)
  PROVE  Acts(t)
<1>1. Typed /\ Kept /\ Ordered /\ Doing(t)
  BY DEF Base
<1>2. CASE ClearStart(t)
  <2>1. Call(t, "clear", nullptr) /\ "clear" \in Ops /\ Goto(t, "clear") /\ "clear" \in Waits
    BY <1>2 DEF ClearStart, Ops, Waits
  <2>. QED
    BY <2>1, CallActs DEF Acts
<1>3. CASE ClearErased(t)
  <2>1. Keys' = Keys
    BY <1>3, QuietSame DEF ClearErased, gcVars
  <2>. QED
    BY <1>1, <1>3, <2>1 DEF ClearErased, Again, Goto, Typed, callVars, Removed, Acts
<1>4. CASE ClearMissed(t)
  <2>1. pc[t] \in Waits /\ "clear" \in Waits /\ Again(t, "clear") /\ UNCHANGED <<listVars, m_ItemCounter, callVars, gcVars>>
    BY <1>4 DEF ClearMissed, Waits, SearchLabels
  <2>. QED
    BY <2>1, RestartActs DEF Acts
<1>5. CASE Cleared(t)
  <2>1. pc[t] = "cleared" /\ op[t] = "clear" /\ Answer(t, TRUE) /\ TRUE \in BOOLEAN
    BY <1>1, <1>5 DEF Cleared, Doing
  <2>. QED
    BY <2>1, AnswerActs DEF Acts
<1>6. ASSUME NEW h \in Head, ClearHead(t, h) PROVE Works(t)
  <2>1. status' = status /\ UNCHANGED listVars
    BY <1>6 DEF ClearHead, Protect, SMR!Protect, SMR!Release
  <2>2. Keys' = Keys
    BY <2>1, QuietSame
  <2>. QED
    BY <1>1, <1>6, <2>2 DEF ClearHead, Goto, Typed, Works, Waits, SearchLabels
<1>. QED
  BY <1>2, <1>3, <1>4, <1>5, <1>6 DEF ClearStep, Acts

\* Every step of t.
LEMMA StepActs ==
  ASSUME Base, Whole, Whole', NEW t \in Thread, Step(t)
  PROVE  Acts(t)
<1>1. ASSUME NEW k \in Key, SearchStart(t, k) PROVE Begins(t)
  <2>1. PICK f \in {"modify", "erase", "find"} : Call(t, f, k)
    BY <1>1 DEF SearchStart
  <2>2. f \in Ops /\ f # "clear" /\ Goto(t, "start") /\ "start" \in Waits
    BY <1>1 DEF SearchStart, Ops, Waits, SearchLabels
  <2>. QED
    BY <2>1, <2>2, CallActs
<1>2. CASE Absent(t)
  <2>1. pc[t] = "absent" /\ op[t] \in {"modify", "erase", "find"} /\ Answer(t, FALSE)
    BY <1>2 DEF Absent
  <2>. QED
    BY <2>1, AnswerActs DEF Acts
<1>3. CASE Present(t)
  <2>1. pc[t] = "present" /\ op[t] \in {"insert", "update", "modify", "find"} /\ Answer(t, TRUE)
    BY <1>3 DEF Present
  <2>. QED
    BY <2>1, AnswerActs DEF Acts
<1>4. CASE ReturnAnswer(t)
  BY <1>4, ReturnIs DEF ReturnAnswer, Returns, Acts
<1>. QED
  BY ZenonT(60), <1>1, <1>2, <1>3, <1>4, SearchActs, InsertActs, EraseActs, ClearActs DEF Step, Acts

-----------------------------------------------------------------------------
(* The inductive invariant *)

\* What a call would answer now is among the answers it has seen.
Noted ==
  saw = [t \in Thread |-> IF op[t] = "none" THEN {} ELSE saw[t] \cup {AS!Truth(call[t], Keys)}]

\* Only clients that may call it call clear.
Allowed == client \in Clients /\ \A t \in Thread : op[t] = "clear" => "clear" \in client

\* clear() of one list, as against all buckets of a hash set, has seen the set empty.
Cleans(t) == op[t] = "clear" /\ pc[t] = "cleared" /\ (\E h \in Head : Head = {h}) => TRUE \in saw[t]

\* The inductive invariant.
Inv == Base /\ Noted /\ Allowed /\ \A t \in Thread : Seen(t) /\ Cleans(t)

\* A call that is over has seen nothing.
LEMMA NotedNext ==
  ASSUME AS!Observe
  PROVE  Noted'
<1>1. \A t \in Thread : call'[t].op = op'[t]
  BY DEF call
<1>2. saw' = [t \in Thread |-> IF op'[t] = "none" THEN {} ELSE saw[t] \cup {AS!Truth(call'[t], Keys')}]
  BY <1>1 DEF AS!Observe
<1>3. \A t \in Thread : saw'[t] = IF op'[t] = "none" THEN {} ELSE saw[t] \cup {AS!Truth(call'[t], Keys')}
  BY <1>2
<1>4. \A t \in Thread : saw'[t] = IF op'[t] = "none" THEN {} ELSE saw'[t] \cup {AS!Truth(call'[t], Keys')}
  BY <1>3
<1>5. saw' = [t \in Thread |-> IF op'[t] = "none" THEN {} ELSE saw'[t] \cup {AS!Truth(call'[t], Keys')}]
  BY <1>2, <1>4
<1>. QED
  BY <1>5 DEF Noted

\* A list that is empty at its head is empty.
LEMMA NoKeys ==
  ASSUME Typed, Kept, Ordered, Whole, NEW h, Head = {h}, link[h].ptr = nullptr
  PROVE  Keys = {}
<1>1. h \in Spots
  BY DEF Spots
<1>2. ASSUME NEW o \in In PROVE FALSE
  <2>1. key[o] \in Key /\ Bucket(key[o]) = h
    BY InIs, Sorts
  <2>2. Before(h, key[o]) /\ ListOf(h) = h
    BY <1>1, SpotIs
  <2>. QED
    BY <1>1, <2>1, <2>2, Gap
<1>. QED
  BY <1>2, KeysAre DEF Live

\* clear has seen the list empty.
LEMMA CleansNext ==
  ASSUME Base, Whole, Whole', NEW t \in Thread, Step(t), AS!Observe, Cleans(t)
  PROVE  Cleans(t)'
<1>1. Typed /\ Kept /\ Ordered /\ Doing(t)
  BY DEF Base
<1>2. SUFFICES ASSUME op'[t] = "clear", pc'[t] = "cleared", NEW h, Head = {h} PROVE TRUE \in saw'[t]
  BY DEF Cleans
<1>3. PICK g \in Head : ClearHead(t, g)
  BY ZenonT(60), <1>1, <1>2 DEF Step, SearchStep, InsertStep, EraseStep, ClearStep, InsertStart, LinkNode, LinkNodeFail, Inserted, UpdateMarked,
       MarkNode, MarkNodeFail, UnlinkNode, UnlinkNodeFail, Erased, ClearStart, ClearErased, ClearMissed, Cleared,
       SearchStart, Absent, Present, ReturnAnswer, SearchHead, SearchNext, SearchChanged, SearchMarked, SearchDone,
       SearchForward, SearchHelp, SearchHelpFail, Advance, Answer, Return, Again, Goto, Typed
<1>4. link[h].ptr = nullptr
  <2>1. pc'[t] = IF link[g].ptr = nullptr THEN "cleared" ELSE "start"
    BY <1>1, <1>3 DEF ClearHead, Goto, Typed
  <2>. QED
    BY <1>2, <1>3, <2>1
<1>5. status' = status /\ UNCHANGED listVars
  BY <1>3 DEF ClearHead, Protect, SMR!Protect, SMR!Release
<1>6. Keys' = {}
  BY <1>1, <1>2, <1>4, <1>5, QuietSame, NoKeys
<1>. QED
  BY <1>2, <1>6, Observed

\* The clients stay the same.
LEMMA AllowedNext ==
  ASSUME Base, Allowed, NEW t \in Thread, Step(t), client' = client
  PROVE  Allowed'
<1>1. Typed /\ Moves(t)
  BY StepGood DEF Base, Good
<1>2. \A u \in Thread : u # t => op'[u] = op[u]
  BY <1>1 DEF Moves, Same
<1>3. op'[t] = "clear" => op[t] = "clear" \/ "clear" \in client
  BY <1>1 DEF Step, SearchStep, InsertStep, EraseStep, ClearStep, InsertStart, LinkNode, LinkNodeFail, Inserted, UpdateMarked,
       MarkNode, MarkNodeFail, UnlinkNode, UnlinkNodeFail, Erased, ClearStart, ClearErased, ClearMissed, Cleared, ClearHead,
       SearchStart, Absent, Present, ReturnAnswer, SearchHead, SearchNext, SearchChanged, SearchMarked, SearchDone,
       SearchForward, SearchHelp, SearchHelpFail, Answer, Return, Call, callVars, Typed
<1>. QED
  BY <1>2, <1>3 DEF Allowed

\* The invariant holds at the beginning.
LEMMA InvInit ==
  ASSUME Init, Whole
  PROVE  Inv
<1>1. Base
  BY InitBase
<1>2. \A t \in Thread : op[t] = "none" /\ pc[t] = "idle"
  BY DEF Init
<1>3. saw = [t \in Thread |-> {}] /\ client \in Clients
  BY DEF Init
<1>4. Noted
  BY <1>2, <1>3 DEF Noted
<1>. QED
  BY <1>1, <1>2, <1>3, <1>4 DEF Inv, Allowed, Seen, Cleans

\* The thread that takes no step.
LEMMA OtherInv ==
  ASSUME Base, Change, AS!Observe, NEW u \in Thread, Same(u), Seen(u), Cleans(u)
  PROVE  Seen(u)' /\ Cleans(u)'
<1>1. Seen(u)'
  BY OtherSeen
<1>2. Cleans(u)'
  BY Observed DEF Cleans, Same
<1>. QED
  BY <1>1, <1>2

\* Every step keeps it.
LEMMA InvStep ==
  ASSUME Inv, Whole, Whole', NEW t \in Thread, Step(t), AS!Observe, client' = client
  PROVE  Inv'
<1>1. Base' /\ Good(t)
  BY StepBase, StepGood DEF Inv
<1>2. \A u \in Thread : Seen(u)' /\ Cleans(u)'
  <2>1. Seen(t)' /\ Cleans(t)'
    BY OwnSeen, CleansNext DEF Inv
  <2>2. ASSUME NEW u \in Thread, u # t PROVE Seen(u)' /\ Cleans(u)'
    BY <1>1, <2>2, OtherInv DEF Inv, Good, Moves
  <2>. QED
    BY <2>1, <2>2
<1>3. Noted' /\ Allowed'
  BY NotedNext, AllowedNext DEF Inv
<1>. QED
  BY <1>1, <1>2, <1>3 DEF Inv

\* So does the garbage collector.
LEMMA InvReclaim ==
  ASSUME Inv, Whole, Whole', NEW o \in Obj, Reclaim(o), AS!Observe, client' = client
  PROVE  Inv'
<1>1. Base' /\ Change /\ \A u \in Thread : Same(u)
  BY NobodyBase DEF Inv
<1>2. \A u \in Thread : Seen(u)' /\ Cleans(u)'
  BY <1>1, OtherInv DEF Inv
<1>3. Allowed'
  BY <1>1 DEF Inv, Allowed, Same
<1>. QED
  BY <1>1, <1>2, <1>3, NotedNext DEF Inv

\* And a step that changes nothing.
LEMMA InvStutter ==
  ASSUME Inv, Whole, Whole', UNCHANGED vars
  PROVE  Inv'
<1>1. Base' /\ (\A u \in Thread : Same(u)) /\ UNCHANGED <<link, key, status>>
  BY NobodyBase DEF Inv, vars, listVars, gcVars
<1>2. UNCHANGED <<client, saw, op, arg, res, pc, cur, nxt>>
  BY DEF vars, callVars, position
<1>3. call' = call
  BY <1>2 DEF call
<1>4. Keys' = Keys
  BY <1>1, QuietSame DEF Inv, listVars
<1>5. Noted'
  BY <1>2, <1>3, <1>4 DEF Inv, Noted
<1>6. \A u \in Thread : Seen(u)' /\ Cleans(u)'
  BY <1>1, <1>2 DEF Inv, Seen, Cleans
<1>. QED
  BY <1>1, <1>2, <1>5, <1>6 DEF Inv, Allowed

\* Every step of the system does.
LEMMA InvNext ==
  ASSUME Inv, Whole, Whole', [Next]_vars
  PROVE  Inv'
  BY InvStep, InvReclaim, InvStutter DEF Next

-----------------------------------------------------------------------------
(* Linearizability *)

\* clear is called on a single list only: clear() of a hash set empties one bucket after the
\* other, and does not claim that the set was empty at any instant.
ClearsOneList == \A c \in Clients : "clear" \in c => \E h \in Head : Head = {h}

\* A call, as AtomicSet sees it.
LEMMA CallIs ==
  ASSUME NEW t \in Thread
  PROVE  /\ call[t] = [op |-> op[t], key |-> arg[t],
                       done |-> pc[t] \in {"inserted", "return"} \/ (op[t] = "erase" /\ pc[t] \in {"unlink", "erased"}),
                       res |-> res[t] \/ (op[t] = "erase" /\ pc[t] \in {"unlink", "erased"})]
         /\ call'[t] = [op |-> op'[t], key |-> arg'[t],
                        done |-> pc'[t] \in {"inserted", "return"} \/ (op'[t] = "erase" /\ pc'[t] \in {"unlink", "erased"}),
                        res |-> res'[t] \/ (op'[t] = "erase" /\ pc'[t] \in {"unlink", "erased"})]
  BY DEF call

\* The call of t changes, if any.
LEMMA CallOf ==
  ASSUME NEW t \in Thread, \A u \in Thread : u # t => Same(u)
  PROVE  call' = [call EXCEPT ![t] = call'[t]] /\ (call'[t] = call[t] => call' = call)
<1>1. call = [u \in Thread |-> call[u]] /\ call' = [u \in Thread |-> call'[u]]
  BY DEF call
<1>2. \A u \in Thread : u # t => call'[u] = call[u]
  BY ZenonT(60) DEF call, Same
<1>. QED
  BY <1>1, <1>2

\* Nothing happens to the set and to the calls.
LEMMA Stutters ==
  ASSUME Noted, AS!Observe, call' = call, Keys' = Keys
  PROVE  UNCHANGED AS!vars
<1>1. \A t \in Thread : call'[t].op = op'[t] /\ call[t].op = op[t]
  BY DEF call
<1>2. saw' = [t \in Thread |-> IF op[t] = "none" THEN {} ELSE saw[t] \cup {AS!Truth(call[t], Keys)}]
  BY <1>1 DEF AS!Observe
<1>3. saw' = saw
  BY <1>2 DEF Noted
<1>. QED
  BY <1>3 DEF AS!vars

\* The record of a call, and the changes that the abstract set makes to it.
Rec(o, k, d, r)  == [op |-> o, key |-> k, done |-> d, res |-> r]
Recs(o, k, d, r) == [op : {o}, key : {k}, done : {d}, res : {r}]
SetOp(c, x)   == [c EXCEPT !.op = x]
SetKey(c, x)  == [c EXCEPT !.key = x]
SetDone(c, x) == [c EXCEPT !.done = x]
SetRes(c, x)  == [c EXCEPT !.res = x]

\* What they come to.
LEMMA RecOp ==
  ASSUME NEW o, NEW k, NEW d, NEW r, NEW x
  PROVE  SetOp(Rec(o, k, d, r), x) = Rec(x, k, d, r)
<1>1. SetOp(Rec(o, k, d, r), x) \in Recs(x, k, d, r)
  BY DEF SetOp, Rec, Recs
<1>. QED
  BY <1>1 DEF Rec, Recs

\* Likewise.
LEMMA RecKey ==
  ASSUME NEW o, NEW k, NEW d, NEW r, NEW x
  PROVE  SetKey(Rec(o, k, d, r), x) = Rec(o, x, d, r)
<1>1. SetKey(Rec(o, k, d, r), x) \in Recs(o, x, d, r)
  BY DEF SetKey, Rec, Recs
<1>. QED
  BY <1>1 DEF Rec, Recs

\* Likewise.
LEMMA RecDone ==
  ASSUME NEW o, NEW k, NEW d, NEW r
  PROVE  SetDone(Rec(o, k, d, r), TRUE) = Rec(o, k, TRUE, r)
<1>1. SetDone(Rec(o, k, d, r), TRUE) \in Recs(o, k, TRUE, r)
  BY DEF SetDone, Rec, Recs
<1>. QED
  BY <1>1 DEF Rec, Recs

\* Likewise.
LEMMA RecRes ==
  ASSUME NEW o, NEW k, NEW d, NEW r, NEW x
  PROVE  SetRes(Rec(o, k, d, r), x) = Rec(o, k, d, x)
<1>1. SetRes(Rec(o, k, d, r), x) \in Recs(o, k, d, x)
  BY DEF SetRes, Rec, Recs
<1>. QED
  BY <1>1 DEF Rec, Recs

\* The changes it makes to the calls.
Put(f, t, c)       == [f EXCEPT ![t] = c]
PutOp(f, t, x)     == [f EXCEPT ![t].op = x]
PutCall(f, t, x, y) == [f EXCEPT ![t].op = x, ![t].key = y]
PutDone(f, t)      == [f EXCEPT ![t].done = TRUE]
PutRes(f, t, y)    == [f EXCEPT ![t].done = TRUE, ![t].res = y]

\* What they come to.
Puts(f, t, o, k, d, r, x, y) ==
  /\ PutOp(f, t, x) = Put(f, t, Rec(x, k, d, r))
  /\ PutCall(f, t, x, y) = Put(f, t, Rec(x, y, d, r))
  /\ PutDone(f, t) = Put(f, t, Rec(o, k, TRUE, r))
  /\ PutRes(f, t, y) = Put(f, t, Rec(o, k, TRUE, y))

\* They put the new record in the place of the old one.
LEMMA PutSet ==
  ASSUME NEW f, NEW t \in Thread, f = [u \in Thread |-> f[u]], NEW o, NEW k, NEW d, NEW r, f[t] = Rec(o, k, d, r),
         NEW x, NEW y
  PROVE  Puts(f, t, o, k, d, r, x, y)
<1>1. PutOp(f, t, x) = Put(f, t, SetOp(f[t], x))
  BY DEF Put, SetOp, PutOp
<1>2. PutCall(f, t, x, y) = Put(f, t, SetKey(SetOp(f[t], x), y))
  BY DEF Put, SetOp, SetKey, PutCall
<1>3. PutDone(f, t) = Put(f, t, SetDone(f[t], TRUE))
  BY DEF Put, SetDone, PutDone
<1>4. PutRes(f, t, y) = Put(f, t, SetRes(SetDone(f[t], TRUE), y))
  BY DEF Put, SetDone, SetRes, PutRes
<1>5. SetOp(f[t], x) = Rec(x, k, d, r)
  BY SMTT(40), RecOp
<1>6. SetDone(f[t], TRUE) = Rec(o, k, TRUE, r)
  BY RecDone
<1>7. SetKey(Rec(x, k, d, r), y) = Rec(x, y, d, r)
  BY SMT, RecKey
<1>8. SetRes(Rec(o, k, TRUE, r), y) = Rec(o, k, TRUE, y)
  <2>1. ASSUME NEW e PROVE SetRes(Rec(o, k, e, r), y) = Rec(o, k, e, y)
    BY SMTT(40), RecRes
  <2>. QED
    BY <2>1
<1>. QED
  BY ZenonT(60), <1>1, <1>2, <1>3, <1>4, <1>5, <1>6, <1>7, <1>8 DEF Puts

\* Of a step of t: what the abstract set makes of it.
LEMMA CallStep ==
  ASSUME NEW t \in Thread, \A u \in Thread : u # t => Same(u),
         NEW o, NEW k, NEW d, NEW r, call[t] = Rec(o, k, d, r)
  PROVE  /\ call' = Put(call, t, call'[t])
         /\ call[t].op = o /\ call[t].key = k /\ call[t].done = d
         /\ \A x, y : Puts(call, t, o, k, d, r, x, y)
<1>1. call' = Put(call, t, call'[t])
  BY CallOf DEF Put
<1>2. call = [u \in Thread |-> call[u]]
  BY DEF call
<1>3. \A x, y : Puts(call, t, o, k, d, r, x, y)
  BY <1>2, PutSet
<1>. QED
  BY SMTT(40), <1>1, <1>3 DEF Rec

\* A step of t is one of the set, or none.
LEMMA RefineStep ==
  ASSUME ClearsOneList, Inv, Whole, Whole', NEW t \in Thread, Step(t), AS!Observe
  PROVE  [AS!Next]_(AS!vars)
<1>1. Typed /\ Doing(t) /\ Noted /\ Seen(t) /\ Cleans(t) /\ Allowed
  BY DEF Inv, Base
<1>2. Acts(t)
  BY StepActs DEF Inv
<1>3. \A u \in Thread : u # t => Same(u)
  BY StepGood DEF Inv, Good, Moves
<1>4. op[t] \in Ops \cup {"none"} /\ res[t] \in BOOLEAN
  BY <1>1, TypesOf
<1> DEFINE D == pc[t] \in {"inserted", "return"} \/ (op[t] = "erase" /\ pc[t] \in {"unlink", "erased"})
           R == res[t] \/ (op[t] = "erase" /\ pc[t] \in {"unlink", "erased"})
           E == pc'[t] \in {"inserted", "return"} \/ (op'[t] = "erase" /\ pc'[t] \in {"unlink", "erased"})
           S == res'[t] \/ (op'[t] = "erase" /\ pc'[t] \in {"unlink", "erased"})
<1>5. call[t] = Rec(op[t], arg[t], D, R) /\ call'[t] = Rec(op'[t], arg'[t], E, S)
  BY CallIs DEF Rec
<1>c. /\ call' = Put(call, t, call'[t])
      /\ call[t].op = op[t] /\ call[t].key = arg[t] /\ call[t].done = D
      /\ \A x, y : Puts(call, t, op[t], arg[t], D, R, x, y)
  <2> HIDE DEF D, R, E, S
  <2>. QED
    BY SMTT(40), <1>3, <1>5, CallStep
<1>6. ASSUME op'[t] = op[t], arg'[t] = arg[t], E = D, S = R, Keys' = Keys PROVE UNCHANGED AS!vars
  <2> HIDE DEF D, R, E, S
  <2>1. call'[t] = call[t]
    BY <1>5, <1>6
  <2>. QED
    BY <1>1, <1>3, <1>6, <2>1, CallOf, Stutters
<1>7. CASE Works(t)
  <2>1. pc'[t] \in Waits /\ pc[t] \in Waits /\ op'[t] = op[t] /\ arg'[t] = arg[t] /\ res'[t] = res[t] /\ Keys' = Keys
    BY <1>7 DEF Works
  <2>2. E = D /\ S = R
    BY <2>1 DEF Waits, SearchLabels
  <2>. QED
    BY <1>6, <2>1, <2>2
<1>8. CASE Begins(t)
  <2>1. /\ pc[t] = "idle" /\ pc'[t] \in Waits /\ op'[t] \in Ops /\ res'[t] = res[t] /\ Keys' = Keys
        /\ (op'[t] = "clear" => arg'[t] = nullptr) /\ (op'[t] # "clear" => arg'[t] \in Key)
    BY <1>8 DEF Begins
  <2>2. op[t] = "none" /\ arg[t] = nullptr /\ res[t] = FALSE
    BY <1>1, <2>1 DEF Doing
  <2>3. D = FALSE /\ R = FALSE /\ E = FALSE /\ S = FALSE
    BY <2>1, <2>2 DEF Waits, SearchLabels
  <2> HIDE DEF D, R, E, S
  <2>4. call[t] = Rec("none", nullptr, FALSE, FALSE) /\ call'[t] = Rec(op'[t], arg'[t], FALSE, FALSE)
    BY <1>5, <2>2, <2>3
  <2>5. call' = Put(call, t, Rec(op'[t], arg'[t], FALSE, FALSE)) /\ Puts(call, t, "none", nullptr, FALSE, FALSE, op'[t], arg'[t])
    BY <1>c, <2>2, <2>3, <2>4
  <2>6. call[t] = AS!Idle
    BY <2>4 DEF Rec, AS!Idle
  <2>7. CASE op'[t] = "clear"
    <3>1. call' = PutOp(call, t, "clear")
      BY <2>1, <2>5, <2>7 DEF Puts
    <3>2. AS!Begin(t)
      BY <2>1, <2>6, <3>1 DEF AS!Begin, PutOp
    <3>. QED
      BY <3>2 DEF AS!Next
  <2>8. CASE op'[t] # "clear"
    <3>1. op'[t] \in {"insert", "update", "modify", "erase", "find"} /\ arg'[t] \in Key
      BY <2>1, <2>8 DEF Ops
    <3>2. call' = PutCall(call, t, op'[t], arg'[t])
      BY <2>5 DEF Puts
    <3>3. AS!Begin(t)
      BY <2>1, <2>6, <3>1, <3>2 DEF AS!Begin, PutCall
    <3>. QED
      BY <3>3 DEF AS!Next
  <2>. QED
    BY <2>7, <2>8
<1>9. CASE Links(t)
  <2>1. /\ pc[t] = "absent" /\ pc'[t] = "inserted" /\ op[t] \in {"insert", "update"} /\ op'[t] = op[t] /\ arg'[t] = arg[t]
        /\ res'[t] = res[t] /\ arg[t] \notin Keys /\ Keys' = Keys \cup {arg[t]}
    BY <1>9 DEF Links
  <2>2. D = FALSE /\ E = TRUE /\ S = R
    BY <1>4, <2>1
  <2> HIDE DEF D, R, E, S
  <2>3. /\ call' = Put(call, t, Rec(op[t], arg[t], TRUE, R)) /\ Puts(call, t, op[t], arg[t], FALSE, R, nullptr, nullptr)
        /\ call[t].op = op[t] /\ call[t].key = arg[t] /\ call[t].done = FALSE
    BY <1>c, <1>5, <2>1, <2>2
  <2>4. call' = PutDone(call, t)
    BY <2>3 DEF Puts
  <2>5. AS!Insert(t)
    BY <2>1, <2>3, <2>4 DEF AS!Insert, AS!Pending, PutDone
  <2>. QED
    BY <2>5 DEF AS!Next
<1>10. CASE Marks(t)
  <2>1. /\ pc[t] = "present" /\ pc'[t] = "unlink" /\ op[t] \in {"erase", "clear"} /\ op'[t] = op[t] /\ arg'[t] = arg[t]
        /\ res'[t] = res[t] /\ KeyOf(t) \in Keys /\ Keys' = Keys \ {KeyOf(t)}
    BY <1>10 DEF Marks
  <2>2. CASE op[t] = "erase"
    <3>1. KeyOf(t) = arg[t]
      BY <2>2 DEF KeyOf
    <3>2. D = FALSE /\ E = TRUE /\ S = TRUE
      BY <1>4, <2>1, <2>2
    <3> HIDE DEF D, R, E, S
    <3>3. /\ call' = Put(call, t, Rec(op[t], arg[t], TRUE, TRUE)) /\ Puts(call, t, op[t], arg[t], FALSE, R, nullptr, TRUE)
          /\ call[t].op = op[t] /\ call[t].key = arg[t] /\ call[t].done = FALSE
      BY <1>c, <1>5, <2>1, <3>2
    <3>4. call' = PutRes(call, t, TRUE)
      BY <3>3 DEF Puts
    <3>5. AS!Erase(t)
      BY <2>1, <2>2, <3>1, <3>3, <3>4 DEF AS!Erase, AS!Pending, PutRes
    <3>. QED
      BY <3>5 DEF AS!Next
  <2>3. CASE op[t] = "clear"
    <3>1. D = FALSE /\ E = FALSE /\ S = R
      BY <1>4, <2>1, <2>3
    <3> HIDE DEF D, R, E, S
    <3>2. call' = call /\ call[t].op = op[t] /\ call[t].done = FALSE
      <4>1. call'[t] = call[t]
        BY <1>5, <2>1, <3>1
      <4>2. call[t].op = op[t] /\ call[t].done = FALSE
        BY SMTT(40), <1>5, <3>1 DEF Rec
      <4>. QED
        BY <1>3, <4>1, <4>2, CallOf
    <3>3. AS!ClearOne(t)
      BY <2>1, <2>3, <3>2 DEF AS!ClearOne, AS!Pending
    <3>. QED
      BY <3>3 DEF AS!Next
  <2>. QED
    BY <2>1, <2>2, <2>3
<1>11. CASE Unlinks(t)
  <2>1. pc[t] = "unlink" /\ pc'[t] = "erased" /\ op'[t] = op[t] /\ arg'[t] = arg[t] /\ res'[t] = res[t] /\ Keys' = Keys
    BY <1>11 DEF Unlinks
  <2>2. E = D /\ S = R
    BY <2>1
  <2>. QED
    BY <1>6, <2>1, <2>2
<1>12. ASSUME NEW r \in BOOLEAN, Answers(t, r) PROVE AS!Next
  <2>1. /\ pc'[t] = "return" /\ res'[t] = r /\ op'[t] = op[t] /\ arg'[t] = arg[t] /\ Keys' = Keys
        /\ pc[t] = IF op[t] = "clear" THEN "cleared" ELSE IF r THEN "present" ELSE "absent"
        /\ op[t] \in IF r THEN {"insert", "update", "modify", "find", "clear"} ELSE {"modify", "erase", "find"}
    BY <1>12 DEF Answers
  <2>2. pc[t] \in {"cleared", "present", "absent"}
    BY <2>1
  <2>3. D = FALSE /\ E = TRUE /\ S = r
    BY <1>4, <2>1, <2>2
  <2>4. r \in saw[t]
    <3>1. CASE op[t] = "clear"
      <4>1. r = TRUE /\ pc[t] = "cleared"
        BY <2>1, <3>1
      <4>2. \E h \in Head : Head = {h}
        BY <1>1, <3>1 DEF Allowed, ClearsOneList
      <4>. QED
        BY <1>1, <3>1, <4>1, <4>2 DEF Cleans
    <3>2. CASE op[t] # "clear"
      BY <1>1, <2>1, <3>2 DEF Seen
    <3>. QED
      BY <3>1, <3>2
  <2> HIDE DEF D, R, E, S
  <2>5. /\ call' = Put(call, t, Rec(op[t], arg[t], TRUE, r)) /\ Puts(call, t, op[t], arg[t], FALSE, R, nullptr, r)
        /\ call[t].op = op[t] /\ call[t].done = FALSE
    BY <1>c, <1>5, <2>1, <2>3
  <2>6. call' = PutRes(call, t, r)
    BY <2>5 DEF Puts
  <2>7. AS!Answer(t, r)
    BY <2>1, <2>4, <2>5, <2>6 DEF AS!Answer, AS!Pending, PutRes
  <2>. QED
    BY <2>7 DEF AS!Next
<1>13. CASE Returns(t)
  <2>1. /\ pc[t] \in {"inserted", "return", "erased"} /\ (pc[t] = "erased" => op[t] = "erase")
        /\ pc'[t] = "idle" /\ op'[t] = "none" /\ arg'[t] = nullptr /\ res'[t] = FALSE /\ Keys' = Keys
    BY <1>13 DEF Returns
  <2>2. D = TRUE /\ E = FALSE /\ S = FALSE
    BY <2>1
  <2> HIDE DEF D, R, E, S
  <2>3. call' = Put(call, t, Rec("none", nullptr, FALSE, FALSE)) /\ call[t].done = TRUE
    BY <1>c, <1>5, <2>1, <2>2
  <2>4. AS!End(t)
    BY <2>1, <2>3 DEF AS!End, AS!Idle, Put, Rec
  <2>. QED
    BY <2>4 DEF AS!Next
<1>14. CASE Removed(t)
  <2>1. /\ pc[t] = "erased" /\ pc'[t] = "clear" /\ op[t] = "clear" /\ op'[t] = op[t] /\ arg'[t] = arg[t]
        /\ res'[t] = res[t] /\ Keys' = Keys
    BY <1>14 DEF Removed
  <2>2. E = D /\ S = R
    BY <2>1
  <2>. QED
    BY <1>6, <2>1, <2>2
<1>. QED
  BY ZenonT(60), <1>2, <1>7, <1>8, <1>9, <1>10, <1>11, <1>12, <1>13, <1>14 DEF Acts

\* So is every step.
LEMMA RefineNext ==
  ASSUME ClearsOneList, Inv, Whole, Whole', [Next]_vars
  PROVE  [AS!Next]_(AS!vars)
<1>1. ASSUME NEW t \in Thread, Step(t), AS!Observe PROVE [AS!Next]_(AS!vars)
  BY <1>1, RefineStep
<1>2. ASSUME NEW o \in Obj, Reclaim(o), AS!Observe PROVE UNCHANGED AS!vars
  <2>1. (\A u \in Thread : Same(u)) /\ ((\E q \in Obj : Freeing(q)) \/ Quiet)
    BY <1>2, NobodyBase DEF Inv
  <2>2. Keys' = Keys
    BY <2>1, KeysSame DEF Inv, Base
  <2>3. call' = call
    BY <2>1 DEF call, Same
  <2>. QED
    BY <1>2, <2>2, <2>3, Stutters DEF Inv
<1>3. ASSUME UNCHANGED vars PROVE UNCHANGED AS!vars
  <2>1. UNCHANGED <<saw, op, arg, res, pc>> /\ UNCHANGED listVars /\ status' = status
    BY <1>3 DEF vars, callVars, gcVars
  <2>2. Keys' = Keys
    BY <2>1, QuietSame DEF Inv
  <2>3. call' = call
    BY <2>1 DEF call
  <2>. QED
    BY <2>1, <2>2, <2>3 DEF AS!vars
<1>. QED
  BY <1>1, <1>2, <1>3 DEF Next

\* The initial states.
LEMMA RefineInit ==
  ASSUME Init, Whole
  PROVE  AS!Init
<1>1. Keys = {}
  <2>1. In = {}
    BY DEF Init, SMR!Init, In
  <2>. QED
    BY <2>1, KeysAre DEF Live
<1>2. saw = [t \in Thread |-> {}]
  BY DEF Init
<1>3. \A t \in Thread : call[t] = AS!Idle
  BY DEF Init, call, AS!Idle
<1>4. call = [t \in Thread |-> AS!Idle]
  BY <1>3 DEF call
<1>. QED
  BY <1>1, <1>2, <1>4 DEF AS!Init

-----------------------------------------------------------------------------
(* What the invariant says *)

\* The nodes in use, and those an operation is about to look at, have not been freed.
LEMMA InvSafe ==
  ASSUME Inv, Whole
  PROVE  NoUseAfterFree
<1>1. Base
  BY DEF Inv
<1>2. \A o \in Nodes : status[o] = "linked"
  BY DEF Whole, In
<1>3. ASSUME NEW t \in Thread
      PROVE  /\ pc[t] \in {"check", "help", "unlink", "absent"} => prev[t] \in Head \/ status[prev[t]] # "free"
             /\ HasCur(t) => status[cur[t]] # "free"
             /\ pc[t] = "inserted" /\ op[t] = "update" => status[new[t]] # "free"
             /\ op[t] = "clear" /\ pc[t] \in SearchLabels => status[goal[t]] # "free"
  <2>1. pc[t] \in {"check", "help", "unlink", "absent"} => prev[t] \in Head \/ status[prev[t]] # "free"
    BY <1>1, PrevIs DEF Link
  <2>2. HasCur(t) => status[cur[t]] # "free"
    BY <1>1, CurIs
  <2>3. \A o : o # nullptr /\ o = GGoal(t) => status[o] # "free"
    BY <1>1, GuardedIs DEF Base
  <2>4. Doing(t)
    BY <1>1 DEF Base
  <2>. QED
    BY <2>1, <2>2, <2>3, <2>4 DEF Doing
<1>. QED
  BY <1>2, <1>3 DEF NoUseAfterFree, HasCur, SearchLabels

\* A marked link stays until the node is freed.
LEMMA MarkStays ==
  ASSUME Base, Change, NEW o \in Obj, link[o].mark, status'[o] # "free"
  PROVE  link'[o] = link[o]
<1>1. Typed /\ Kept /\ Ordered
  BY DEF Base
<1>2. status[o] # "free"
  BY <1>1, Words DEF Kept
<1>. QED
  BY <1>1, <1>2, NodeStays DEF Stays

\* So no step of the system changes it.
LEMMA MarkedNext ==
  ASSUME Inv, [Next]_vars
  PROVE  \A o \in Obj : (link[o].mark /\ status'[o] # "free") => link'[o] = link[o]
<1>1. Change
  BY StepGood, NobodyBase DEF Inv, Next, Good
<1>. QED
  BY <1>1, MarkStays DEF Inv

-----------------------------------------------------------------------------
INSTANCE FiniteSetTheorems
INSTANCE WellFoundedInduction

-----------------------------------------------------------------------------
(* The nodes in use are the nodes that the heads lead to *)

\* A set of natural numbers has a least element.
LEMMA LeastNat ==
  ASSUME NEW S \in SUBSET Nat, S # {}
  PROVE  \E n \in S : \A m \in S : n <= m
<1>1. \E n \in S : \A m \in S : <<m, n>> \notin OpToRel(<, Nat)
  BY ZenonT(60), NatLessThanWellFounded, WFMin
<1>2. PICK n \in S : \A m \in S : <<m, n>> \notin OpToRel(<, Nat)
  BY <1>1
<1>3. ASSUME NEW m \in S PROVE ~(m < n)
  BY <1>2 DEF OpToRel
<1>. QED
  BY SMTT(40), <1>3

\* A set that has 0, and m + 1 with every m, has all the numbers up to n.
LEMMA SetInduction ==
  ASSUME NEW n \in Nat, NEW S, 0 \in S, \A m \in Nat : m < n /\ m \in S => m + 1 \in S
  PROVE  n \in S
<1> SUFFICES ASSUME n \notin S PROVE FALSE
  OBVIOUS
<1>1. PICK m \in Nat \ S : \A k \in Nat \ S : m <= k
  <2>1. Nat \ S \in SUBSET Nat /\ Nat \ S # {}
    OBVIOUS
  <2>. QED
    BY ZenonT(60), <2>1, LeastNat
<1>2. m # 0 /\ m <= n
  BY <1>1
<1>3. m - 1 \in Nat /\ m - 1 < n /\ (m - 1) + 1 = m /\ ~(m <= m - 1)
  BY <1>2, NumberBefore
<1>4. m - 1 \in S
  BY <1>1, <1>3
<1>. QED
  BY ZenonT(60), <1>1, <1>3, <1>4

\* The recursive definition of Chain has a solution.
LEMMA ChainDef ==
  Chain = [n \in 0 .. Cardinality(Obj) |->
             [l \in Link |-> IF n = 0 \/ link[l].ptr = nullptr THEN {}
                             ELSE {link[l].ptr} \cup Chain[n - 1][link[l].ptr]]]
<1> DEFINE N       == Cardinality(Obj)
           B(f, n) == [l \in Link |-> IF n = 0 \/ link[l].ptr = nullptr THEN {}
                                      ELSE {link[l].ptr} \cup f[n - 1][link[l].ptr]]
           S       == {m \in Nat : \E f : f = [n \in 0 .. m |-> B(f, n)]}
<1>1. 0 \in S
  <2> DEFINE f == [n \in 0 .. 0 |-> [l \in Link |-> {}]]
  <2>1. \A n \in 0 .. 0 : f[n] = B(f, n)
    BY SMTT(40)
  <2>2. f = [n \in 0 .. 0 |-> B(f, n)]
    <3> HIDE DEF B
    <3>. QED
      BY <2>1
  <2>. QED
    BY <2>2
<1>2. ASSUME NEW m \in Nat, m \in S PROVE m + 1 \in S
  <2>1. PICK f : f = [n \in 0 .. m |-> B(f, n)]
    BY <1>2
  <2> DEFINE g == [n \in 0 .. m + 1 |-> IF n = m + 1 THEN B(f, n) ELSE f[n]]
  <2>2. ASSUME NEW n \in 0 .. m + 1 PROVE g[n] = B(g, n)
    <3>1. n # 0 => g[n - 1] = f[n - 1]
      BY SMTT(40)
    <3>2. B(g, n) = B(f, n)
      <4> HIDE DEF g
      <4>. QED
        BY <3>1
    <3> HIDE DEF B
    <3>3. n # m + 1 => f[n] = B(f, n)
      BY SMTT(40), <2>1
    <3>. QED
      BY ZenonT(60), <3>2, <3>3
  <2>3. g = [n \in 0 .. m + 1 |-> B(g, n)]
    <3> HIDE DEF B
    <3>. QED
      BY <2>2
  <2> HIDE DEF g, B
  <2>. QED
    BY SMTT(40), <2>3
<1>3. N \in S
  <2>1. N \in Nat
    BY ZenonT(60), FS_CardinalityType, ConstantsAssumption
  <2> HIDE DEF S, N
  <2>. QED
    BY ZenonT(60), <1>1, <1>2, <2>1, SetInduction
<1>. QED
  BY <1>3 DEF Chain

\* One link of a chain.
LEMMA ChainStep ==
  /\ Cardinality(Obj) \in Nat
  /\ \A l \in Link : Chain[0][l] = {}
  /\ \A n \in Nat : n < Cardinality(Obj) =>
       \A l \in Link : Chain[n + 1][l] = IF link[l].ptr = nullptr THEN {} ELSE {link[l].ptr} \cup Chain[n][link[l].ptr]
<1>1. Cardinality(Obj) \in Nat
  BY ZenonT(60), FS_CardinalityType, ConstantsAssumption
<1>2. Chain[0] = [l \in Link |-> {}]
  <2>1. 0 \in 0 .. Cardinality(Obj)
    BY <1>1, FirstNumber
  <2>2. Chain[0] = [l \in Link |-> IF 0 = 0 \/ link[l].ptr = nullptr THEN {}
                                  ELSE {link[l].ptr} \cup Chain[0 - 1][link[l].ptr]]
    BY ZenonT(60), <2>1, ChainDef
  <2>. QED
    BY <2>2
<1>3. ASSUME NEW n \in Nat, n < Cardinality(Obj), NEW l \in Link
      PROVE  Chain[n + 1][l] = IF link[l].ptr = nullptr THEN {} ELSE {link[l].ptr} \cup Chain[n][link[l].ptr]
  <2>1. n + 1 \in 0 .. Cardinality(Obj) /\ n + 1 # 0 /\ (n + 1) - 1 = n
    BY <1>1, <1>3, NextNumber
  <2>2. Chain[n + 1] = [k \in Link |-> IF n + 1 = 0 \/ link[k].ptr = nullptr THEN {}
                                       ELSE {link[k].ptr} \cup Chain[(n + 1) - 1][link[k].ptr]]
    BY ZenonT(60), <2>1, ChainDef
  <2>. QED
    BY ZenonT(60), <2>1, <2>2
<1>. QED
  BY ZenonT(60), <1>1, <1>2, <1>3

\* A chain has nodes of its list only.
LEMMA ChainWithin ==
  ASSUME Typed, Kept, Ordered
  PROVE  \A l \in Spots : \A o \in Chain[Cardinality(Obj)][l] : o \in In /\ Bucket(key[o]) = ListOf(l)
<1> DEFINE N == Cardinality(Obj)
           S == {n \in Nat : \A l \in Spots : \A o \in Chain[n][l] : o \in In /\ Bucket(key[o]) = ListOf(l)}
<1>1. 0 \in S
  BY ChainStep, SpotIs
<1>2. ASSUME NEW n \in Nat, n < N, n \in S PROVE n + 1 \in S
  <2>1. SUFFICES ASSUME NEW l \in Spots, NEW o \in Chain[n + 1][l] PROVE o \in In /\ Bucket(key[o]) = ListOf(l)
    <3>1. n + 1 \in Nat
      BY SMTT(40)
    <3>. QED
      BY ZenonT(60), <2>1, <3>1
  <2> DEFINE p == link[l].ptr
  <2>2. p # nullptr /\ (o = p \/ o \in Chain[n][p])
    <3>1. l \in Link
      BY SpotIs
    <3>2. Chain[n + 1][l] = IF p = nullptr THEN {} ELSE {p} \cup Chain[n][p]
      BY ZenonT(60), <1>2, <3>1, ChainStep
    <3>. QED
      BY ZenonT(60), <2>1, <3>2
  <2>3. p \in In /\ Bucket(key[p]) = ListOf(l)
    BY ZenonT(60), <2>2, LeadsTo
  <2>4. p \in Spots /\ ListOf(p) = Bucket(key[p])
    BY ZenonT(60), <2>3, InIs, SpotIs
  <2>. QED
    BY ZenonT(60), <1>2, <2>2, <2>3, <2>4
<1>3. N \in S
  <2> HIDE DEF N, S
  <2>. QED
    BY ZenonT(60), <1>1, <1>2, ChainStep, SetInduction DEF N
<1>. QED
  BY <1>3

\* The nodes of the list of l after l, up to o.
Upto(l, o) == {x \in In : Bucket(key[x]) = ListOf(l) /\ Before(l, key[x]) /\ key[x] <= key[o]}

\* There are finitely many, and fewer after the first of them.
LEMMA UptoIs ==
  ASSUME Typed, Kept, NEW l \in Spots, NEW o \in In, Bucket(key[o]) = ListOf(l), Before(l, key[o])
  PROVE  o \in Upto(l, o) /\ IsFiniteSet(Upto(l, o)) /\ Cardinality(Upto(l, o)) \in Nat
         /\ Cardinality(Upto(l, o)) <= Cardinality(Obj) /\ Cardinality(Upto(l, o)) > 0
<1>1. key[o] \in Int
  BY InIs
<1>2. o \in Upto(l, o)
  BY <1>1, Orders DEF Upto
<1>3. Upto(l, o) \subseteq Obj
  BY DEF Upto, In
<1>4. IsFiniteSet(Upto(l, o)) /\ Cardinality(Upto(l, o)) <= Cardinality(Obj)
  BY ZenonT(60), <1>3, FS_Subset, ConstantsAssumption
<1>5. Cardinality(Upto(l, o)) \in Nat
  BY ZenonT(60), <1>4, FS_CardinalityType
<1>6. Cardinality(Upto(l, o)) # 0
  BY ZenonT(60), <1>2, <1>4, FS_EmptySet
<1>. QED
  BY <1>2, <1>4, <1>5, <1>6, Orders

\* A chain has all of them, if it is long enough.
LEMMA ChainHas ==
  ASSUME Typed, Kept, Ordered
  PROVE  \A l \in Spots : \A o \in In :
           Bucket(key[o]) = ListOf(l) /\ Before(l, key[o]) => o \in Chain[Cardinality(Obj)][l]
<1> DEFINE N == Cardinality(Obj)
           Far(n, l, o) == Bucket(key[o]) = ListOf(l) /\ Before(l, key[o]) /\ Cardinality(Upto(l, o)) <= n
           S == {n \in Nat : \A l \in Spots : \A o \in In : Far(n, l, o) => o \in Chain[n][l]}
<1>1. 0 \in S
  <2>1. SUFFICES ASSUME NEW l \in Spots, NEW o \in In, Far(0, l, o) PROVE FALSE
    OBVIOUS
  <2>2. Cardinality(Upto(l, o)) \in Nat /\ Cardinality(Upto(l, o)) > 0
    BY ZenonT(60), <2>1, UptoIs
  <2>. QED
    BY <2>1, <2>2, Orders
<1>2. ASSUME NEW n \in Nat, n < N, n \in S PROVE n + 1 \in S
  <2>1. SUFFICES ASSUME NEW l \in Spots, NEW o \in In, Far(n + 1, l, o) PROVE o \in Chain[n + 1][l]
    <3>1. n + 1 \in Nat
      BY SMTT(40)
    <3>. QED
      BY ZenonT(60), <2>1, <3>1
  <2> DEFINE p == link[l].ptr
  <2>2. p # nullptr /\ key[p] <= key[o]
    <3>1. Skips(l, o)
      BY DEF Ordered
    <3>. QED
      BY ZenonT(60), <2>1, <3>1 DEF Skips
  <2>3. p \in In /\ key[p] \in Int /\ key[o] \in Int /\ Before(l, key[p]) /\ Bucket(key[p]) = ListOf(l)
    BY ZenonT(60), <2>2, LeadsTo, InIs
  <2>4. Chain[n + 1][l] = {p} \cup Chain[n][p]
    BY ZenonT(60), <1>2, <2>2, ChainStep, SpotIs
  <2>5. CASE o = p
    BY ZenonT(60), <2>4, <2>5
  <2>6. CASE o # p
    <3>1. key[p] < key[o]
      <4>1. key[p] # key[o]
        BY ZenonT(60), <2>3, <2>6 DEF Ordered
      <4>. QED
        BY <2>2, <2>3, <4>1, Orders
    <3>2. p \in Spots /\ ListOf(p) = Bucket(key[p]) /\ \A k : Before(p, k) <=> key[p] < k
      BY ZenonT(60), <2>3, InIs, SpotIs
    <3>3. Upto(p, o) \subseteq Upto(l, o) \ {p}
      <4> SUFFICES ASSUME NEW x \in Upto(p, o) PROVE x \in Upto(l, o) /\ x # p
        OBVIOUS
      <4>1. x \in In /\ Bucket(key[x]) = ListOf(p) /\ key[p] < key[x] /\ key[x] <= key[o]
        BY <3>2 DEF Upto
      <4>2. key[x] \in Int
        BY ZenonT(60), <4>1, InIs
      <4>3. x # p
        BY <2>3, <4>1, Orders
      <4>4. Before(l, key[x])
        <5>1. CASE l \in Head
          BY <5>1 DEF Before
        <5>2. CASE l \notin Head
          <6>1. key[l] < key[p] /\ key[l] \in Int
            BY ZenonT(60), <2>3, <5>2, SpotIs
          <6>2. key[l] < key[x]
            BY <2>3, <4>1, <4>2, <6>1, Orders
          <6>. QED
            BY <6>2 DEF Before
        <5>. QED
          BY ZenonT(60), <5>1, <5>2
      <4>. QED
        BY ZenonT(60), <2>3, <3>2, <4>1, <4>3, <4>4 DEF Upto
    <3>4. IsFiniteSet(Upto(l, o)) /\ Cardinality(Upto(l, o)) \in Nat /\ Cardinality(Upto(l, o)) <= n + 1
      BY <2>1, UptoIs
    <3>5. p \in Upto(l, o)
      BY <2>2, <2>3 DEF Upto
    <3>6. IsFiniteSet(Upto(l, o) \ {p}) /\ Cardinality(Upto(l, o) \ {p}) = Cardinality(Upto(l, o)) - 1
      BY ZenonT(60), <3>4, <3>5, FS_RemoveElement
    <3>7. Cardinality(Upto(p, o)) <= Cardinality(Upto(l, o) \ {p}) /\ Cardinality(Upto(p, o)) \in Nat
      BY ZenonT(60), <3>3, <3>6, FS_Subset, FS_CardinalityType
    <3>8. Cardinality(Upto(p, o)) <= n
      BY <3>4, <3>6, <3>7, Orders
    <3>9. Far(n, p, o)
      BY ZenonT(60), <2>1, <2>3, <3>1, <3>2, <3>8
    <3>. QED
      BY ZenonT(60), <1>2, <2>4, <3>2, <3>9
  <2>. QED
    BY ZenonT(60), <2>5, <2>6
<1>3. N \in S
  <2> HIDE DEF N, S
  <2>. QED
    BY <1>1, <1>2, ChainStep, SetInduction DEF N
<1> SUFFICES ASSUME NEW l \in Spots, NEW o \in In, Bucket(key[o]) = ListOf(l), Before(l, key[o]) PROVE o \in Chain[N][l]
  OBVIOUS
<1>4. Far(N, l, o)
  BY UptoIs
<1> HIDE DEF Far
<1>. QED
  BY ZenonT(60), <1>3, <1>4

\* The nodes in use are the nodes that the heads lead to.
LEMMA AllReached == Base => Whole
<1> SUFFICES ASSUME Base PROVE Nodes = In
  BY DEF Whole
<1>1. Typed /\ Kept /\ Ordered
  BY DEF Base
<1>2. ASSUME NEW h \in Head, NEW o \in Chain[Cardinality(Obj)][h] PROVE o \in In
  BY ZenonT(60), <1>1, ChainWithin DEF Spots
<1>3. ASSUME NEW o \in In PROVE \E h \in Head : o \in Chain[Cardinality(Obj)][h]
  <2>1. Bucket(key[o]) \in Head
    BY ZenonT(60), <1>1, InIs, Sorts
  <2>2. Bucket(key[o]) \in Spots /\ ListOf(Bucket(key[o])) = Bucket(key[o]) /\ Before(Bucket(key[o]), key[o])
    BY ZenonT(60), <1>1, <2>1, SpotIs DEF Spots
  <2>. QED
    BY ZenonT(60), <1>1, <2>1, <2>2, ChainHas
<1>. QED
  BY ZenonT(60), <1>2, <1>3 DEF Nodes

-----------------------------------------------------------------------------
(* The theorems *)

\* The part of the invariant that does not speak of the set.
LEMMA BaseAlways == Spec => []Base
<1>1. Init => Base
  BY InitBase
<1>2. Base /\ [Next]_vars => Base'
  BY StepBase, NobodyBase DEF Next
<1>. QED
  BY <1>1, <1>2, PTL DEF Spec

\* The invariant holds at the start, and every step keeps it.
LEMMA InvAlways == Spec => [](Inv /\ Whole)
<1>1. Init => Inv
  BY ZenonT(60), InitBase, AllReached, InvInit
<1>2. Base /\ Base' /\ Inv /\ [Next]_vars => Inv'
  <2>1. Base' => Whole'
    BY AllReached, PTL
  <2>. QED
    BY ZenonT(60), <2>1, AllReached, InvNext
<1>. QED
  BY <1>1, <1>2, BaseAlways, AllReached, PTL DEF Spec

\* No operation uses a node that has been freed, however many threads insert, erase and
\* search, and whatever the search meets: the node of pPrev, the one of pCur and, before
\* pCur moves on to it, the one of pNext are under a guard that was set while it was linked.
THEOREM NodesSafe == Spec => []NoUseAfterFree
<1>1. Inv /\ Whole => NoUseAfterFree
  BY ZenonT(60), InvSafe
<1>. QED
  BY <1>1, InvAlways, PTL

\* Every list is strictly sorted and has keys of its bucket only, and a node in use is
\* always reachable from a head: a search never overlooks one, and none leaks.
THEOREM ListSorted == Spec => []Sorted
<1>1. Inv /\ Whole => Sorted
  <2> SUFFICES ASSUME Inv, Whole PROVE Sorted
    OBVIOUS
  <2>1. Typed /\ Kept /\ Ordered /\ Nodes = In
    BY DEF Inv, Base, Whole
  <2>2. ASSUME NEW o \in Nodes, link[o].ptr # nullptr PROVE key[o] < key[link[o].ptr]
    <3>1. o \in Spots /\ o \notin Head
      BY <2>1, InIs
    <3>2. Before(o, key[link[o].ptr])
      BY ZenonT(60), <2>1, <2>2, <3>1, LeadsTo
    <3>. QED
      BY <3>1, <3>2 DEF Before
  <2>3. ASSUME NEW h \in Head, NEW o \in Chain[Cardinality(Obj)][h] PROVE Bucket(key[o]) = h
    BY <2>1, <2>3, ChainWithin DEF Spots, ListOf
  <2>4. {o \in Obj : status[o] = "linked"} = Nodes
    BY <2>1 DEF In
  <2>. QED
    BY ZenonT(60), <2>2, <2>3, <2>4 DEF Sorted
<1>. QED
  BY <1>1, InvAlways, PTL

\* The link of a deleted node never changes until the node is freed, whichever threads hold
\* it as their pPrev: no node is inserted behind a deleted one, where it would be lost.
THEOREM DeletedFrozen == Spec => MarkedFrozen
<1>1. Inv /\ [Next]_vars => [\A o \in Obj : (link[o].mark /\ status'[o] # "free") => link'[o] = link[o]]_vars
  BY MarkedNext
<1>. QED
  BY <1>1, InvAlways, PTL DEF Spec, MarkedFrozen

\* insert, update, erase, extract, find and, on a list of its own, clear take effect at one
\* instant between call and return, for any number of threads, nodes, keys and buckets: an
\* insertion when it links its node, a removal when it marks it, and every other answer was
\* right at some instant of the call.
THEOREM SetLinearizable == ClearsOneList => (Spec => ImplementsSet)
<1> SUFFICES ASSUME ClearsOneList PROVE Spec => ImplementsSet
  OBVIOUS
<1>1. Init => AS!Init
  BY InitBase, AllReached, RefineInit
<1>2. Inv /\ Whole /\ Whole' /\ [Next]_vars => [AS!Next]_(AS!vars)
  BY RefineNext
<1>. QED
  BY <1>1, <1>2, InvAlways, PTL DEF Spec, ImplementsSet, AS!Spec

-----------------------------------------------------------------------------
(* The item counter *)

\* The threads that have linked a node, or marked one, and not counted it.
Adding == {t \in Thread : pc[t] = "inserted"}
Taking == {t \in Thread : pc[t] \in {"unlink", "erased"}}

\* What a step does to them, to the keys and to the counter.
Uncounted ==
  Adding' = Adding /\ Taking' = Taking /\ Keys' = Keys /\ m_ItemCounter' = m_ItemCounter
Adds(t) ==
  /\ t \notin Adding /\ Adding' = Adding \cup {t} /\ Taking' = Taking /\ m_ItemCounter' = m_ItemCounter
  /\ arg[t] \notin Keys /\ Keys' = Keys \cup {arg[t]}
Takes(t) ==
  /\ t \notin Taking /\ Taking' = Taking \cup {t} /\ Adding' = Adding /\ m_ItemCounter' = m_ItemCounter
  /\ KeyOf(t) \in Keys /\ Keys' = Keys \ {KeyOf(t)}
CountsUp(t) ==
  /\ t \in Adding /\ Adding' = Adding \ {t} /\ Taking' = Taking /\ Keys' = Keys
  /\ m_ItemCounter' = (m_ItemCounter + 1) % CounterModulus
CountsDown(t) ==
  /\ t \in Taking /\ Taking' = Taking \ {t} /\ Adding' = Adding /\ Keys' = Keys
  /\ m_ItemCounter' = (m_ItemCounter + CounterModulus - 1) % CounterModulus
Counting == Uncounted \/ \E t \in Thread : Adds(t) \/ Takes(t) \/ CountsUp(t) \/ CountsDown(t)

\* Every step of a thread is one of these.
LEMMA CountStep ==
  ASSUME Base, Whole, Whole', NEW t \in Thread, Step(t)
  PROVE  Counting
<1>1. Acts(t) /\ \A u \in Thread : u # t => pc'[u] = pc[u]
  BY ZenonT(60), StepActs, StepGood DEF Good, Moves, Same
<1>2. CASE Works(t) \/ Begins(t) \/ Unlinks(t) \/ \E r \in BOOLEAN : Answers(t, r)
  <2>1. m_ItemCounter' = m_ItemCounter /\ Keys' = Keys
    BY <1>2 DEF Works, Begins, Unlinks, Answers
  <2>2. pc[t] # "inserted" /\ pc'[t] # "inserted" /\ (pc[t] \in {"unlink", "erased"} <=> pc'[t] \in {"unlink", "erased"})
    BY <1>2 DEF Works, Begins, Unlinks, Answers, Waits, SearchLabels
  <2>3. Adding' = Adding /\ Taking' = Taking
    BY ZenonT(60), <1>1, <2>2 DEF Adding, Taking
  <2>. QED
    BY ZenonT(60), <2>1, <2>3 DEF Counting, Uncounted
<1>3. CASE Links(t)
  <2>1. Adds(t)
    BY ZenonT(60), <1>1, <1>3 DEF Links, Adds, Adding, Taking
  <2>. QED
    BY <2>1 DEF Counting
<1>4. CASE Marks(t)
  <2>1. Takes(t)
    BY ZenonT(60), <1>1, <1>4 DEF Marks, Takes, Adding, Taking
  <2>. QED
    BY <2>1 DEF Counting
<1>5. CASE Returns(t)
  <2>1. CASE pc[t] = "inserted"
    <3>1. CountsUp(t)
      BY ZenonT(60), <1>1, <1>5, <2>1 DEF Returns, CountsUp, Adding, Taking
    <3>. QED
      BY <3>1 DEF Counting
  <2>2. CASE pc[t] = "erased"
    <3>1. CountsDown(t)
      BY ZenonT(60), <1>1, <1>5, <2>2 DEF Returns, CountsDown, CountErased, Adding, Taking
    <3>. QED
      BY <3>1 DEF Counting
  <2>3. CASE pc[t] = "return"
    BY ZenonT(60), <1>1, <1>5, <2>3 DEF Returns, Counting, Uncounted, Adding, Taking
  <2>. QED
    BY ZenonT(60), <1>5, <2>1, <2>2, <2>3 DEF Returns
<1>6. CASE Removed(t)
  <2>1. CountsDown(t)
    BY ZenonT(60), <1>1, <1>6 DEF Removed, CountsDown, CountErased, Adding, Taking
  <2>. QED
    BY <2>1 DEF Counting
<1>. QED
  BY ZenonT(60), <1>1, <1>2, <1>3, <1>4, <1>5, <1>6 DEF Acts

\* The counter and what it has not seen account for the keys.
Balance ==
  Accounts(m_ItemCounter, Cardinality(Adding), Cardinality(Keys), Cardinality(Taking))

\* The sets of threads that have not counted are finite.
LEMMA Uncounting ==
  /\ IsFiniteSet(Adding) /\ Cardinality(Adding) \in Nat
  /\ IsFiniteSet(Taking) /\ Cardinality(Taking) \in Nat
<1>1. Adding \subseteq Thread /\ Taking \subseteq Thread
  BY DEF Adding, Taking
<1>2. IsFiniteSet(Adding) /\ IsFiniteSet(Taking)
  BY ZenonT(60), <1>1, FS_Subset, ConstantsAssumption
<1>. QED
  BY ZenonT(60), <1>2, FS_CardinalityType

\* There are no more keys than nodes.
LEMMA KeysFew == Base => IsFiniteSet(Keys) /\ Cardinality(Keys) \in Nat /\ Cardinality(Keys) \in 0 .. CounterModulus - 1
<1> SUFFICES ASSUME Base PROVE IsFiniteSet(Keys) /\ Cardinality(Keys) \in Nat /\ Cardinality(Keys) \in 0 .. CounterModulus - 1
  OBVIOUS
<1> DEFINE K == {key[o] : o \in Obj}
<1>1. Keys \subseteq K
  <2>1. Keys = {key[o] : o \in Live} /\ Live \subseteq Obj
    BY ZenonT(60), AllReached, KeysAre DEF Live, In
  <2>. QED
    BY <2>1
<1>2. IsFiniteSet(K) /\ Cardinality(K) <= Cardinality(Obj)
  <2>1. key \in [Obj -> K] /\ \A k \in K : \E o \in Obj : key[o] = k
    BY DEF Base, Typed
  <2>2. key \in Surjection(Obj, K)
    BY <2>1 DEF Surjection
  <2>. QED
    BY ZenonT(60), <2>2, FS_Surjection, ConstantsAssumption
<1>3. IsFiniteSet(Keys) /\ Cardinality(Keys) <= Cardinality(K)
  BY ZenonT(60), <1>1, <1>2, FS_Subset
<1>4. Cardinality(Keys) \in Nat /\ Cardinality(K) \in Nat /\ Cardinality(Obj) \in Nat
  BY ZenonT(60), <1>2, <1>3, FS_CardinalityType, ConstantsAssumption
<1> HIDE DEF K
<1>. QED
  BY <1>2, <1>3, <1>4, ConstantsAssumption, Countable

\* The counter of the next state, from what it was and what happened.
LEMMA BalanceStep ==
  ASSUME Balance, Counting, IsFiniteSet(Keys), Cardinality(Keys) \in Nat, Cardinality(Keys') \in Nat
  PROVE  Balance'
<1> DEFINE A == Cardinality(Adding)  T == Cardinality(Taking)  L == Cardinality(Keys)
<1>0. A \in Nat /\ T \in Nat /\ L \in Nat /\ Accounts(m_ItemCounter, A, L, T)
  BY Uncounting DEF Balance
<1>b. SUFFICES Accounts(m_ItemCounter', A', L', T')
  BY DEF Balance
<1>1. CASE Uncounted
  BY <1>0, <1>1 DEF Uncounted
<1>2. ASSUME NEW t \in Thread, Adds(t) PROVE Accounts(m_ItemCounter', A', L', T')
  <2>1. A' = A + 1 /\ T' = T /\ L' = L + 1 /\ m_ItemCounter' = m_ItemCounter
    BY ZenonT(60), <1>2, Uncounting, FS_AddElement DEF Adds
  <2>. HIDE DEF A, T, L
  <2>. QED
    BY <1>0, <2>1, AccountsMove
<1>3. ASSUME NEW t \in Thread, Takes(t) PROVE Accounts(m_ItemCounter', A', L', T')
  <2>1. T' = T + 1 /\ A' = A /\ L' = L - 1 /\ m_ItemCounter' = m_ItemCounter
    BY ZenonT(60), <1>3, Uncounting, FS_AddElement, FS_RemoveElement DEF Takes
  <2>. HIDE DEF A, T, L
  <2>. QED
    BY <1>0, <2>1, AccountsMove
<1>4. ASSUME NEW t \in Thread, CountsUp(t) PROVE Accounts(m_ItemCounter', A', L', T')
  <2>1. A' = A - 1 /\ T' = T /\ L' = L /\ m_ItemCounter' = (m_ItemCounter + 1) % CounterModulus
    BY ZenonT(60), <1>4, Uncounting, FS_RemoveElement DEF CountsUp
  <2>. HIDE DEF A, T, L
  <2>. QED
    BY <1>0, <2>1, AccountsCount
<1>5. ASSUME NEW t \in Thread, CountsDown(t) PROVE Accounts(m_ItemCounter', A', L', T')
  <2>1. T' = T - 1 /\ A' = A /\ L' = L /\ m_ItemCounter' = (m_ItemCounter + CounterModulus - 1) % CounterModulus
    BY ZenonT(60), <1>5, Uncounting, FS_RemoveElement DEF CountsDown
  <2>. HIDE DEF A, T, L
  <2>. QED
    BY <1>0, <2>1, AccountsCount
<1>. QED
  BY ZenonT(60), <1>1, <1>2, <1>3, <1>4, <1>5 DEF Counting

\* Every step keeps the balance.
LEMMA BalanceNext == Base /\ Base' /\ Balance /\ [Next]_vars => Balance'
<1> SUFFICES ASSUME Base, Base', Balance, [Next]_vars PROVE Balance'
  OBVIOUS
<1>0. Whole /\ Whole'
  BY AllReached, PTL
<1>1. IsFiniteSet(Keys) /\ Cardinality(Keys) \in Nat /\ (Cardinality(Keys) \in Nat)'
  BY KeysFew, PTL
<1>2. ASSUME (\E o \in Obj : Reclaim(o)) \/ UNCHANGED vars PROVE Balance'
  <2>1. (\A u \in Thread : Same(u)) /\ ((\E q \in Obj : Freeing(q)) \/ Quiet)
    BY ZenonT(60), <1>2, NobodyBase
  <2>2. Keys' = Keys
    BY ZenonT(60), <1>0, <2>1, KeysSame DEF Base
  <2>3. m_ItemCounter' = m_ItemCounter
    BY <1>2 DEF Reclaim, vars
  <2>4. Adding' = Adding /\ Taking' = Taking
    BY <2>1 DEF Adding, Taking, Same
  <2>. QED
    BY ZenonT(60), <2>2, <2>3, <2>4 DEF Balance
<1>3. ASSUME NEW t \in Thread, Step(t) PROVE Balance'
  <2>1. Counting
    BY ZenonT(60), <1>0, <1>3, CountStep
  <2>. QED
    BY ZenonT(60), <1>1, <2>1, BalanceStep
<1>. QED
  BY ZenonT(60), <1>2, <1>3 DEF Next

\* size(): when no operation is in progress the item counter is the number of keys, for any
\* number of threads, although insert and erase count after they have taken effect, and an
\* erase may count before the insert whose node it has removed.
THEOREM CounterRight == Spec => []CounterExact
<1>0. (\A t \in Thread : pc[t] = "idle") => Cardinality(Adding) = 0 /\ Cardinality(Taking) = 0
  <2> SUFFICES ASSUME \A t \in Thread : pc[t] = "idle" PROVE Cardinality(Adding) = 0 /\ Cardinality(Taking) = 0
    OBVIOUS
  <2>1. Adding = {} /\ Taking = {}
    BY DEF Adding, Taking
  <2>. QED
    BY ZenonT(60), <2>1, FS_EmptySet
<1>1. Init => Balance
  <2> SUFFICES ASSUME Init PROVE Balance
    OBVIOUS
  <2>1. Keys = {} /\ m_ItemCounter = 0 /\ \A t \in Thread : pc[t] = "idle"
    BY InitBase, AllReached, RefineInit DEF AS!Init, Init
  <2>2. Cardinality(Keys) = 0 /\ Cardinality(Adding) = 0 /\ Cardinality(Taking) = 0
    BY ZenonT(60), <1>0, <2>1, FS_EmptySet
  <2>. QED
    BY <2>1, <2>2, AccountsNone DEF Balance
<1>2. Base /\ Balance => CounterExact
  <2> SUFFICES ASSUME Base, Balance, \A t \in Thread : pc[t] = "idle" PROVE m_ItemCounter = Cardinality(Keys)
    BY DEF CounterExact
  <2>1. Accounts(m_ItemCounter, 0, Cardinality(Keys), 0)
    BY <1>0 DEF Balance
  <2>2. Cardinality(Keys) \in 0 .. CounterModulus - 1
    BY KeysFew
  <2>. QED
    BY <2>1, <2>2, AccountsAll
<1>. QED
  BY <1>1, <1>2, BalanceNext, BaseAlways, PTL DEF Spec
=============================================================================
