------------------------------ MODULE LazyList ------------------------------
(***************************************************************************)
(* cds::intrusive::LazyList (src/cds/intrusive/impl/lazy_list.h), as       *)
(* cds::container::LazyList allocates its nodes: an ordered list between   *)
(* two dummy nodes whose updates lock two adjacent nodes and whose         *)
(* searches take no lock.  The garbage collector keeps the promise of      *)
(* SafeReclamation.                                                        *)
(*                                                                         *)
(* A deleted node is marked and its link points back to the head, so that  *)
(* a search that stands on it starts again.                                *)
(***************************************************************************)
EXTENDS Integers, FiniteSets

CONSTANTS
  Thread,
  Obj,               \* addresses of nodes
  head, tail,        \* m_Head and m_Tail
  nullptr,
  Key,               \* a set of integers
  Clients,           \* the sets of operations that the clients may call
  ClearAlone,        \* clear() is called while no other operation runs
  CounterModulus

ASSUME ConstantsAssumption ==
  /\ Cardinality({head, tail, nullptr}) = 3 /\ {head, tail, nullptr} \cap Obj = {}
  /\ Key \subseteq Int
  /\ ClearAlone \in BOOLEAN
  /\ Clients \subseteq SUBSET {"insert", "update", "modify", "erase", "find", "clear"}
  /\ CounterModulus \in Nat \ {0}

VARIABLES
  client,            \* the operations that are called
  link,              \* m_pNext: pointer and mark
  key,
  lock,              \* m_Lock: the owner of the node's spin lock
  m_ItemCounter,
  pc,
  after,             \* what follows the unlocking of the position
  op, arg,           \* the call: operation and key
  new,               \* the node to insert
  prev, cur, nxt,    \* pos.pPred, pos.pCur and pNext of unlink_node
  res,               \* the answer, once it is known
  saw,               \* history: see AtomicSet
  status, protects   \* the garbage collector's view of the nodes

Ptr  == Obj \cup {nullptr}
Node == Obj \cup {head, tail}

Guards == Thread \X {"prev", "current"}

listVars == <<link, key, lock>>
callVars == <<after, op, arg, new, res>>
position == <<prev, cur, nxt>>
gcVars   == <<status, protects>>
vars == <<client, listVars, m_ItemCounter, pc, callVars, position, saw, gcVars>>

SMR == INSTANCE SafeReclamation WITH Guard <- Guards, None <- nullptr

To(p) == [ptr |-> p, mark |-> FALSE]

Init ==
  /\ client \in Clients
  /\ link = [n \in Node |-> To(IF n = head THEN tail ELSE nullptr)]
  /\ key  = [o \in Obj |-> nullptr]
  /\ lock = [n \in Node |-> nullptr]
  /\ m_ItemCounter = 0
  /\ pc    = [t \in Thread |-> "idle"]
  /\ after = [t \in Thread |-> "none"]
  /\ op    = [t \in Thread |-> "none"]
  /\ arg   = [t \in Thread |-> nullptr]
  /\ new   = [t \in Thread |-> nullptr]
  /\ prev  = [t \in Thread |-> head]
  /\ cur   = [t \in Thread |-> head]
  /\ nxt   = [t \in Thread |-> nullptr]
  /\ res   = [t \in Thread |-> FALSE]
  /\ saw   = [t \in Thread |-> {}]
  /\ SMR!Init

Goto(t, l) == pc' = [pc EXCEPT ![t] = l]

\* Guard g is set on p, whatever has become of p.
Protect(g, p) ==
  IF p \in Obj /\ status[p] = "linked" THEN SMR!Protect(g, p) ELSE SMR!Release({g})

FromHead(t) ==
  /\ prev' = [prev EXCEPT ![t] = head]
  /\ cur'  = [cur EXCEPT ![t] = head]
  /\ nxt'  = [nxt EXCEPT ![t] = nullptr]

-----------------------------------------------------------------------------
(* The calls *)

Call(t, o, k) ==
  /\ pc[t] = "idle"
  /\ ClearAlone => \A u \in Thread : op[u] # "clear" /\ (o = "clear" => op[u] = "none")
  /\ op'  = [op EXCEPT ![t] = o]
  /\ arg' = [arg EXCEPT ![t] = k]
  /\ Goto(t, IF o = "clear" THEN "clear" ELSE "search")
  /\ UNCHANGED <<listVars, m_ItemCounter, after, res, position, gcVars>>

\* insert, and update that may insert: the container allocates the node first.
InsertStart(t, k, o) ==
  /\ status[o] = "free"
  /\ \A u \in Thread : new[u] # o
  /\ new' = [new EXCEPT ![t] = o]
  /\ \E f \in {"insert", "update"} \cap client : Call(t, f, k)

\* find, contains and get; erase and extract; update without insertion.
SearchStart(t, k) ==
  /\ UNCHANGED new
  /\ \E f \in {"modify", "erase", "find"} \cap client : Call(t, f, k)

ClearStart(t) ==
  /\ "clear" \in client
  /\ UNCHANGED new
  /\ Call(t, "clear", nullptr)

Return(t) ==
  /\ pc[t] = "return"
  /\ Goto(t, "idle")
  /\ FromHead(t)
  /\ after' = [after EXCEPT ![t] = "none"]
  /\ op'    = [op EXCEPT ![t] = "none"]
  /\ arg'   = [arg EXCEPT ![t] = nullptr]
  /\ new'   = [new EXCEPT ![t] = nullptr]
  /\ res'   = [res EXCEPT ![t] = FALSE]
  /\ SMR!Release({g \in Guards : g[1] = t})
  /\ UNCHANGED <<listVars, m_ItemCounter>>

-----------------------------------------------------------------------------
(* search: one step per node *)

\* The node at which the search for k stops.
Stop(n, k) == n = tail \/ (n # head /\ key[n] >= k)

\* Mutant of SearchNext: the current node is not guarded.
SearchNextNot(t) ==
  /\ pc[t] = "search"
  /\ LET p == IF link[cur[t]].mark THEN head ELSE link[cur[t]].ptr IN
       /\ cur'  = [cur EXCEPT ![t] = p]
       /\ prev' = [prev EXCEPT ![t] = IF p = head THEN head ELSE cur[t]]
       /\ Goto(t, IF Stop(p, arg[t]) THEN "found" ELSE "search")
  /\ UNCHANGED <<listVars, m_ItemCounter, callVars, nxt, gcVars>>

\* The guard of the current node moves on; a marked link leads back to the head.
SearchNext(t) ==
  /\ pc[t] = "search"
  /\ LET p == IF link[cur[t]].mark THEN head ELSE link[cur[t]].ptr IN
       /\ cur'  = [cur EXCEPT ![t] = p]
       /\ prev' = [prev EXCEPT ![t] = IF p = head THEN head ELSE cur[t]]
       /\ protects' = [protects EXCEPT
            ![<<t, "prev">>] = protects[<<t, "current">>],
            ![<<t, "current">>] = IF p \in Obj /\ status[p] = "linked" THEN p ELSE nullptr]
       /\ Goto(t, IF Stop(p, arg[t]) THEN "found" ELSE "search")
  /\ UNCHANGED <<listVars, m_ItemCounter, callVars, nxt, status>>

-----------------------------------------------------------------------------
(* scoped_position_lock, and the lock of find with a functor *)

Locks(t) == op[t] # "find"

LockNode(t, n) == lock[n] = nullptr /\ lock' = [lock EXCEPT ![n] = t]

LockPred(t) ==
  /\ pc[t] = "found"
  /\ Locks(t)
  /\ LockNode(t, prev[t])
  /\ Goto(t, "lock")
  /\ UNCHANGED <<link, key, m_ItemCounter, callVars, position, gcVars>>

LockCur(t) ==
  /\ pc[t] = "lock"
  /\ LockNode(t, cur[t])
  /\ Goto(t, IF op[t] = "clear" THEN "mark" ELSE "locked")
  /\ UNCHANGED <<link, key, m_ItemCounter, callVars, position, gcVars>>

FindLock(t) ==
  /\ pc[t] = "found"
  /\ op[t] = "find"
  /\ cur[t] # tail
  /\ LockNode(t, cur[t])
  /\ Goto(t, "locked")
  /\ UNCHANGED <<link, key, m_ItemCounter, callVars, position, gcVars>>

UnlockCur(t) ==
  /\ pc[t] = "unlock"
  /\ lock' = [lock EXCEPT ![cur[t]] = nullptr]
  /\ Goto(t, IF Locks(t) THEN "unlockpred" ELSE after[t])
  /\ UNCHANGED <<link, key, m_ItemCounter, callVars, position, gcVars>>

UnlockPred(t) ==
  /\ pc[t] = "unlockpred"
  /\ lock' = [lock EXCEPT ![prev[t]] = nullptr]
  /\ Goto(t, after[t])
  /\ IF after[t] = "search" THEN FromHead(t) ELSE UNCHANGED position
  /\ UNCHANGED <<link, key, m_ItemCounter, callVars, gcVars>>

\* The locks are released next, and then l follows.
Then(t, l) == Goto(t, "unlock") /\ after' = [after EXCEPT ![t] = l]

-----------------------------------------------------------------------------
(* What the operations do with the position *)

\* Mutant of Validate: the link is not looked at again.
ValidateMarks(t) == ~ link[prev[t]].mark /\ ~ link[cur[t]].mark

\* validate_link: no lock was held when the position was found.
Validate(t) ==
  /\ ~ link[prev[t]].mark
  /\ ~ link[cur[t]].mark
  /\ link[prev[t]] = To(cur[t])

Found(t) == cur[t] # tail /\ key[cur[t]] = arg[t]

Retry(t) ==
  /\ pc[t] = "locked"
  /\ Locks(t)
  /\ ~ Validate(t)
  /\ Then(t, "search")
  /\ UNCHANGED <<listVars, m_ItemCounter, op, arg, new, res, position, gcVars>>

\* An operation that changes nothing: the key is there and is not to be removed,
\* or it is not there and nothing is to be inserted.
Unchanged(t) ==
  /\ pc[t] = "locked"
  /\ Locks(t)
  /\ Validate(t)
  /\ op[t] \in IF Found(t) THEN {"insert", "update", "modify"} ELSE {"modify", "erase"}
  /\ res' = [res EXCEPT ![t] = Found(t)]
  /\ Then(t, "return")
  /\ UNCHANGED <<listVars, m_ItemCounter, op, arg, new, position, gcVars>>

\* link_node
LinkNode(t) ==
  /\ pc[t] = "locked"
  /\ op[t] \in {"insert", "update"}
  /\ Validate(t)
  /\ ~ Found(t)
  /\ link' = [link EXCEPT ![new[t]] = To(cur[t]), ![prev[t]] = To(new[t])]
  /\ key'  = [key EXCEPT ![new[t]] = arg[t]]
  /\ status' = [status EXCEPT ![new[t]] = "linked"]
  /\ Then(t, "inserted")
  /\ UNCHANGED <<lock, m_ItemCounter, op, arg, new, res, position, protects>>

Inserted(t) ==
  /\ pc[t] = "inserted"
  /\ m_ItemCounter' = (m_ItemCounter + 1) % CounterModulus
  /\ Goto(t, "return")
  /\ UNCHANGED <<listVars, callVars, position, gcVars>>

\* Mutant of EraseFound: the position is not validated.
EraseFoundBlind(t) ==
  /\ pc[t] = "locked"
  /\ op[t] = "erase"
  /\ Found(t)
  /\ Goto(t, "mark")
  /\ UNCHANGED <<listVars, m_ItemCounter, callVars, position, gcVars>>

EraseFound(t) ==
  /\ pc[t] = "locked"
  /\ op[t] = "erase"
  /\ Validate(t)
  /\ Found(t)
  /\ Goto(t, "mark")
  /\ UNCHANGED <<listVars, m_ItemCounter, callVars, position, gcVars>>

\* unlink_node, first store: logical removal and back-link to the head.
MarkNode(t) ==
  /\ pc[t] = "mark"
  /\ nxt'  = [nxt EXCEPT ![t] = link[cur[t]].ptr]
  /\ link' = [link EXCEPT ![cur[t]] = [ptr |-> head, mark |-> TRUE]]
  /\ after' = [after EXCEPT ![t] = IF op[t] = "clear" THEN "retire" ELSE "count"]
  /\ res'   = [res EXCEPT ![t] = op[t] = "erase"]
  /\ Goto(t, "unlink")
  /\ UNCHANGED <<key, lock, m_ItemCounter, op, arg, new, prev, cur, gcVars>>

\* unlink_node, second store.
UnlinkNode(t) ==
  /\ pc[t] = "unlink"
  /\ link' = [link EXCEPT ![prev[t]] = To(nxt[t])]
  /\ Goto(t, IF op[t] = "clear" THEN "count" ELSE "unlock")
  /\ UNCHANGED <<key, lock, m_ItemCounter, callVars, position, gcVars>>

Decrement == (m_ItemCounter + CounterModulus - 1) % CounterModulus

\* erase counts after the unlocking, clear before it.
CountErased(t) ==
  /\ pc[t] = "count"
  /\ m_ItemCounter' = Decrement
  /\ Goto(t, IF op[t] = "clear" THEN "unlock" ELSE "retire")
  /\ UNCHANGED <<listVars, callVars, position, gcVars>>

RetireNode(t) ==
  /\ pc[t] = "retire"
  /\ status' = [status EXCEPT ![cur[t]] = "retired"]
  /\ Goto(t, IF op[t] = "clear" THEN "clear" ELSE "return")
  /\ UNCHANGED <<listVars, m_ItemCounter, callVars, position, protects>>

\* Mutant of FindHere: the mark is not looked at.
FindHereUnmarked(t) == Found(t)

FindHere(t) == Found(t) /\ ~ link[cur[t]].mark

\* contains and get look at the node without a lock.
FindAnswer(t) ==
  /\ pc[t] = "found"
  /\ op[t] = "find"
  /\ res' = [res EXCEPT ![t] = FindHere(t)]
  /\ after' = [after EXCEPT ![t] = "return"]
  /\ Goto(t, "return")
  /\ UNCHANGED <<listVars, m_ItemCounter, op, arg, new, position, gcVars>>

FindLocked(t) ==
  /\ pc[t] = "locked"
  /\ op[t] = "find"
  /\ res' = [res EXCEPT ![t] = FindHere(t)]
  /\ Then(t, "return")
  /\ UNCHANGED <<listVars, m_ItemCounter, op, arg, new, position, gcVars>>

-----------------------------------------------------------------------------
(* clear: unlink the first node until the list is empty *)

ClearEmpty(t) ==
  /\ pc[t] = "clear"
  /\ link[head].ptr = tail
  /\ res' = [res EXCEPT ![t] = TRUE]
  /\ after' = [after EXCEPT ![t] = "return"]
  /\ Goto(t, "return")
  /\ UNCHANGED <<listVars, m_ItemCounter, op, arg, new, position, gcVars>>

ClearMore(t) ==
  /\ pc[t] = "clear"
  /\ link[head].ptr # tail
  /\ Goto(t, "first")
  /\ UNCHANGED <<listVars, m_ItemCounter, callVars, position, gcVars>>

\* The guard is set on the first node, whatever it is by now.
ClearFirst(t) ==
  /\ pc[t] = "first"
  /\ prev' = [prev EXCEPT ![t] = head]
  /\ cur'  = [cur EXCEPT ![t] = link[head].ptr]
  /\ Protect(<<t, "current">>, link[head].ptr)
  /\ Goto(t, "found")
  /\ UNCHANGED <<listVars, m_ItemCounter, callVars, nxt>>

-----------------------------------------------------------------------------
\* clean_disposer clears the link.
Reclaim(o) ==
  /\ SMR!Reclaim({o})
  /\ link' = [link EXCEPT ![o] = To(nullptr)]
  /\ key'  = [key EXCEPT ![o] = nullptr]
  /\ UNCHANGED <<lock, m_ItemCounter, pc, callVars, position>>

Step(t) ==
  \/ \E k \in Key, o \in Obj : InsertStart(t, k, o)
  \/ \E k \in Key : SearchStart(t, k)
  \/ ClearStart(t) \/ Return(t) \/ SearchNext(t)
  \/ LockPred(t) \/ LockCur(t) \/ FindLock(t) \/ UnlockCur(t) \/ UnlockPred(t)
  \/ Retry(t) \/ Unchanged(t) \/ LinkNode(t) \/ Inserted(t)
  \/ EraseFound(t) \/ MarkNode(t) \/ UnlinkNode(t) \/ CountErased(t) \/ RetireNode(t)
  \/ FindAnswer(t) \/ FindLocked(t)
  \/ ClearEmpty(t) \/ ClearMore(t) \/ ClearFirst(t)

Keys == {key[o] : o \in {x \in Obj : status[x] = "linked" /\ ~ link[x].mark}}

\* The operation of a thread as AtomicSet sees it.
call ==
  [t \in Thread |->
     [op |-> op[t], key |-> arg[t], done |-> after[t] \in {"inserted", "count", "return"}, res |-> res[t]]]

AS == INSTANCE AtomicSet WITH keys <- Keys

Next ==
  /\ (\E t \in Thread : Step(t)) \/ (\E o \in Obj : Reclaim(o))
  /\ AS!Observe
  /\ UNCHANGED client

Spec == Init /\ [][Next]_vars

-----------------------------------------------------------------------------
(* Properties *)

InUse(n) == n \in {head, tail} \/ status[n] # "free"

\* No thread reads, locks or unlocks a node that was freed: the two guards of the
\* position move along with the search, and a node is retired only when it is
\* unlocked and unlinked.
NoUseAfterFree ==
  /\ \A t \in Thread :
       /\ pc[t] \in {"search", "found", "lock", "locked", "mark", "unlink", "unlock"} => InUse(cur[t])
       /\ pc[t] \in {"found", "lock", "locked", "mark", "unlink", "unlock", "unlockpred"} /\ Locks(t) => InUse(prev[t])
       /\ pc[t] = "return" /\ res[t] /\ op[t] # "clear" => InUse(cur[t])
  /\ \A n \in Node : lock[n] # nullptr => InUse(n)

\* The node after n: while a node is being unlinked only its eraser knows it.
Succ(n) ==
  IF link[n].mark /\ \E t \in Thread : pc[t] = "unlink" /\ cur[t] = n
  THEN nxt[CHOOSE t \in Thread : pc[t] = "unlink" /\ cur[t] = n]
  ELSE link[n].ptr

Chain[n \in Node, i \in 0 .. Cardinality(Obj)] ==
  IF i = 0 \/ Succ(n) = tail THEN {} ELSE {Succ(n)} \cup Chain[Succ(n), i - 1]

\* The list is strictly sorted and ends at the tail, no item is lost: every node
\* with an unmarked link is reachable from the head, and a node is no longer
\* reachable when it is retired.
Sorted ==
  LET nodes == Chain[head, Cardinality(Obj)] IN
  /\ nodes \subseteq {o \in Obj : status[o] = "linked"}
  /\ \A o \in nodes : Succ(o) # tail => Succ(o) \in Obj /\ key[o] < key[Succ(o)]
  /\ \A o \in Obj : status[o] = "linked" /\ ~ link[o].mark => o \in nodes

\* The assertion of unlink_node, pPred->m_pNext is pCur: what an eraser validated
\* under its two locks still holds when it comes to mark the node.
StillLinked ==
  \A t \in Thread : pc[t] = "mark" => link[prev[t]].ptr = cur[t]

\* The operations are linearizable: an insertion takes effect when it links the
\* node, a removal when it marks it, both under the locks; a search without a
\* lock answers what was right at some instant of the call.
ImplementsSet == AS!Spec
=============================================================================
