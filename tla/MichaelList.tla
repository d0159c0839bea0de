----------------------------- MODULE MichaelList -----------------------------
(***************************************************************************)
(* cds::intrusive::MichaelList (src/cds/intrusive/impl/michael_list.h), as *)
(* cds::container::MichaelList allocates its nodes, on top of a garbage    *)
(* collector that keeps the promise of SafeReclamation.  With more than    *)
(* one head it is MichaelHashSet, an array of lists with one item counter. *)
(*                                                                         *)
(* A link is m_pNext of a node, or the head of a list: a pointer and a     *)
(* mark.  A mark on m_pNext of a node says that the node is deleted.       *)
(* A node is retired in the step that unlinks it.                          *)
(***************************************************************************)
EXTENDS Integers, FiniteSets

CONSTANTS
  Thread,
  Obj,              \* addresses of nodes
  nullptr,
  Key,              \* a set of integers
  Head,             \* m_pHead of the list, or of each bucket
  Bucket(_),        \* the list of a key
  Clients,          \* the sets of operations that the clients may call
  CounterModulus

ASSUME ConstantsAssumption ==
  /\ IsFiniteSet(Obj) /\ IsFiniteSet(Thread)
  /\ nullptr \notin Obj \cup Head /\ Obj \cap Head = {}
  /\ Key \subseteq Int
  /\ \A k \in Key : Bucket(k) \in Head
  /\ Clients \subseteq SUBSET {"insert", "update", "modify", "erase", "find", "clear"}
  /\ CounterModulus \in Nat \ {0} /\ Cardinality(Obj) < CounterModulus

VARIABLES
  client,           \* the operations that are called
  link,             \* pointer and mark, of each node and head
  key,              \* the key of a node
  m_ItemCounter,
  pc,
  op, arg,          \* the call: operation and key
  new,              \* the node to insert
  prev, cur, nxt,   \* search: pPrev, pCur and pNext with its mark
  goal,             \* clear: the node to unlink
  res,              \* the answer, once it is known
  saw,              \* history: see AtomicSet
  status, protects  \* the garbage collector's view of the nodes

Ptr  == Obj \cup {nullptr}
Link == Obj \cup Head

Null == [ptr |-> nullptr, mark |-> FALSE]
To(p)     == [ptr |-> p, mark |-> FALSE]
Marked(p) == [ptr |-> p, mark |-> TRUE]

Guards == Thread \X {"prev", "current", "next", "goal"}
GuardsOf(t) == {t} \X {"prev", "current", "next"}

listVars == <<link, key>>
position == <<prev, cur, nxt>>
callVars == <<op, arg, new, goal, res>>
gcVars   == <<status, protects>>
vars == <<client, listVars, m_ItemCounter, pc, callVars, position, saw, gcVars>>

SMR == INSTANCE SafeReclamation WITH Guard <- Guards, None <- nullptr

Init ==
  /\ client \in Clients
  /\ link = [l \in Link |-> Null]
  /\ key  = [o \in Obj |-> nullptr]
  /\ m_ItemCounter = 0
  /\ pc   = [t \in Thread |-> "idle"]
  /\ op   = [t \in Thread |-> "none"]
  /\ arg  = [t \in Thread |-> nullptr]
  /\ new  = [t \in Thread |-> nullptr]
  /\ prev = [t \in Thread |-> nullptr]
  /\ cur  = [t \in Thread |-> nullptr]
  /\ nxt  = [t \in Thread |-> Null]
  /\ goal = [t \in Thread |-> nullptr]
  /\ res  = [t \in Thread |-> FALSE]
  /\ saw  = [t \in Thread |-> {}]
  /\ SMR!Init

\* The nodes reachable from link l by at most n links, marked or not.
Chain[n \in 0 .. Cardinality(Obj)] ==
  [l \in Link |->
     IF n = 0 \/ link[l].ptr = nullptr THEN {} ELSE {link[l].ptr} \cup Chain[n - 1][link[l].ptr]]

Nodes == UNION {Chain[Cardinality(Obj)][h] : h \in Head}
Keys  == {key[o] : o \in {x \in Nodes : ~ link[x].mark}}

Goto(t, l) == pc' = [pc EXCEPT ![t] = l]

\* Guard g is set on p, whatever has become of p.
Protect(g, p) ==
  IF p # nullptr /\ status[p] = "linked" THEN SMR!Protect(g, p) ELSE SMR!Release({g})

ClearPosition(t) ==
  /\ prev' = [prev EXCEPT ![t] = nullptr]
  /\ cur'  = [cur EXCEPT ![t] = nullptr]
  /\ nxt'  = [nxt EXCEPT ![t] = Null]

\* The next round assigns the position anew.
Again(t, l) == Goto(t, l) /\ ClearPosition(t)

-----------------------------------------------------------------------------
(* The calls *)

Call(t, o, k) ==
  /\ pc[t] = "idle"
  /\ op'  = [op EXCEPT ![t] = o]
  /\ arg' = [arg EXCEPT ![t] = k]
  /\ UNCHANGED <<listVars, m_ItemCounter, goal, res, position, gcVars>>

\* insert, and update that may insert: the container allocates the node first.
InsertStart(t, k, o) ==
  /\ status[o] = "free"
  /\ \A u \in Thread : new[u] # o
  /\ new' = [new EXCEPT ![t] = o]
  /\ Goto(t, "start")
  /\ \E f \in {"insert", "update"} \cap client : Call(t, f, k)

\* find and get, erase and extract, update without insertion.
SearchStart(t, k) ==
  /\ Goto(t, "start")
  /\ UNCHANGED new
  /\ \E f \in {"modify", "erase", "find"} \cap client : Call(t, f, k)

ClearStart(t) ==
  /\ "clear" \in client
  /\ Goto(t, "clear")
  /\ UNCHANGED new
  /\ Call(t, "clear", nullptr)

Return(t) ==
  /\ Again(t, "idle")
  /\ op'   = [op EXCEPT ![t] = "none"]
  /\ arg'  = [arg EXCEPT ![t] = nullptr]
  /\ new'  = [new EXCEPT ![t] = nullptr]
  /\ goal' = [goal EXCEPT ![t] = nullptr]
  /\ res'  = [res EXCEPT ![t] = FALSE]
  /\ SMR!Release({g \in Guards : g[1] = t})

-----------------------------------------------------------------------------
(* search *)

HeadOf(t) == IF op[t] = "clear" THEN Bucket(key[goal[t]]) ELSE Bucket(arg[t])
KeyOf(t)  == IF op[t] = "clear" THEN key[goal[t]] ELSE arg[t]

\* try_again: the guard is set on the first node.
SearchHead(t) ==
  /\ pc[t] = "start"
  /\ prev' = [prev EXCEPT ![t] = HeadOf(t)]
  /\ cur'  = [cur EXCEPT ![t] = link[HeadOf(t)].ptr]
  /\ Protect(<<t, "current">>, link[HeadOf(t)].ptr)
  /\ Goto(t, IF link[HeadOf(t)].ptr = nullptr THEN "absent" ELSE "next")
  /\ UNCHANGED <<listVars, m_ItemCounter, callVars, nxt>>

\* Mutant of SearchNext: the next node is not guarded.
SearchNextNot(t) ==
  /\ pc[t] = "next"
  /\ nxt' = [nxt EXCEPT ![t] = link[cur[t]]]
  /\ Goto(t, "check")
  /\ UNCHANGED <<listVars, m_ItemCounter, callVars, prev, cur, gcVars>>

SearchNext(t) ==
  /\ pc[t] = "next"
  /\ nxt' = [nxt EXCEPT ![t] = link[cur[t]]]
  /\ Protect(<<t, "next">>, link[cur[t]].ptr)
  /\ Goto(t, "check")
  /\ UNCHANGED <<listVars, m_ItemCounter, callVars, prev, cur>>

PrevChanged(t) == link[prev[t]] # To(cur[t])

SearchChanged(t) ==
  /\ pc[t] = "check"
  /\ PrevChanged(t)
  /\ Again(t, "start")
  /\ UNCHANGED <<listVars, m_ItemCounter, callVars, gcVars>>

\* The current node is deleted: it is unlinked in the next step.
SearchMarked(t) ==
  /\ pc[t] = "check"
  /\ ~ PrevChanged(t)
  /\ nxt[t].mark
  /\ Goto(t, "help")
  /\ UNCHANGED <<listVars, m_ItemCounter, callVars, position, gcVars>>

\* The end of the search.
SearchDone(t) ==
  /\ pc[t] = "check"
  /\ ~ PrevChanged(t)
  /\ ~ nxt[t].mark
  /\ key[cur[t]] >= KeyOf(t)
  /\ Goto(t, IF key[cur[t]] = KeyOf(t) THEN "present" ELSE "absent")
  /\ UNCHANGED <<listVars, m_ItemCounter, callVars, position, gcVars>>

\* pCur = pNext
Advance(t) ==
  /\ cur' = [cur EXCEPT ![t] = nxt[t].ptr]
  /\ nxt' = [nxt EXCEPT ![t] = Null]
  /\ Goto(t, IF nxt[t].ptr = nullptr THEN "absent" ELSE "next")

SearchForward(t) ==
  /\ pc[t] = "check"
  /\ ~ PrevChanged(t)
  /\ ~ nxt[t].mark
  /\ key[cur[t]] < KeyOf(t)
  /\ prev' = [prev EXCEPT ![t] = cur[t]]
  /\ Advance(t)
  /\ protects' = [protects EXCEPT ![<<t, "prev">>] = protects[<<t, "current">>],
                                  ![<<t, "current">>] = protects[<<t, "next">>]]
  /\ UNCHANGED <<listVars, m_ItemCounter, callVars, status>>

\* compare_exchange of *pPrev from pCur to pNext, and retire_node.
Unlink(t) ==
  /\ link[prev[t]] = To(cur[t])
  /\ link' = [link EXCEPT ![prev[t]] = To(nxt[t].ptr)]

SearchHelp(t) ==
  /\ pc[t] = "help"
  /\ Unlink(t)
  /\ Advance(t)
  /\ status' = [status EXCEPT ![cur[t]] = "retired"]
  /\ protects' = [protects EXCEPT ![<<t, "current">>] = protects[<<t, "next">>]]
  /\ UNCHANGED <<key, m_ItemCounter, callVars, prev>>

SearchHelpFail(t) ==
  /\ pc[t] = "help"
  /\ link[prev[t]] # To(cur[t])
  /\ Again(t, "start")
  /\ UNCHANGED <<listVars, m_ItemCounter, callVars, gcVars>>

-----------------------------------------------------------------------------
(* What the operations do with the position *)

Answer(t, r) ==
  /\ Goto(t, "return")
  /\ res' = [res EXCEPT ![t] = r]
  /\ UNCHANGED <<listVars, m_ItemCounter, op, arg, new, goal, position, gcVars>>

\* The key is not there, and nothing is to be inserted.
Absent(t) ==
  /\ pc[t] = "absent"
  /\ op[t] \in {"modify", "erase", "find"}
  /\ Answer(t, FALSE)

\* Mutant of LinkNode: the link is stored whatever it is.
LinkNodeStore(t) ==
  /\ pc[t] = "absent"
  /\ op[t] \in {"insert", "update"}
  /\ link' = [link EXCEPT ![prev[t]] = To(new[t]), ![new[t]] = To(cur[t])]
  /\ key'  = [key EXCEPT ![new[t]] = arg[t]]
  /\ status' = [status EXCEPT ![new[t]] = "linked"]
  /\ protects' = [protects EXCEPT ![<<t, "goal">>] = IF op[t] = "update" THEN new[t] ELSE @]
  /\ Goto(t, "inserted")
  /\ UNCHANGED <<m_ItemCounter, callVars, position>>

\* Mutant of LinkNode: the mark of the previous node is not compared.
LinkNodeUnmarked(t) ==
  /\ pc[t] = "absent"
  /\ op[t] \in {"insert", "update"}
  /\ link[prev[t]].ptr = cur[t]
  /\ link' = [link EXCEPT ![prev[t]] = To(new[t]), ![new[t]] = To(cur[t])]
  /\ key'  = [key EXCEPT ![new[t]] = arg[t]]
  /\ status' = [status EXCEPT ![new[t]] = "linked"]
  /\ protects' = [protects EXCEPT ![<<t, "goal">>] = IF op[t] = "update" THEN new[t] ELSE @]
  /\ Goto(t, "inserted")
  /\ UNCHANGED <<m_ItemCounter, callVars, position>>

\* link_node; update guards the node, since its functor is called later.
LinkNode(t) ==
  /\ pc[t] = "absent"
  /\ op[t] \in {"insert", "update"}
  /\ link[prev[t]] = To(cur[t])
  /\ link' = [link EXCEPT ![prev[t]] = To(new[t]), ![new[t]] = To(cur[t])]
  /\ key'  = [key EXCEPT ![new[t]] = arg[t]]
  /\ status' = [status EXCEPT ![new[t]] = "linked"]
  /\ protects' = [protects EXCEPT ![<<t, "goal">>] = IF op[t] = "update" THEN new[t] ELSE @]
  /\ Goto(t, "inserted")
  /\ UNCHANGED <<m_ItemCounter, callVars, position>>

LinkNodeFail(t) ==
  /\ pc[t] = "absent"
  /\ op[t] \in {"insert", "update"}
  /\ link[prev[t]] # To(cur[t])
  /\ Again(t, "start")
  /\ UNCHANGED <<listVars, m_ItemCounter, callVars, gcVars>>

Inserted(t) ==
  /\ pc[t] = "inserted"
  /\ m_ItemCounter' = (m_ItemCounter + 1) % CounterModulus
  /\ Return(t)
  /\ UNCHANGED listVars

\* update looks at the mark of the node it has found.
UpdateMarked(t) ==
  /\ pc[t] = "present"
  /\ op[t] \in {"update", "modify"}
  /\ link[cur[t]].mark
  /\ Again(t, "start")
  /\ UNCHANGED <<listVars, m_ItemCounter, callVars, gcVars>>

Present(t) ==
  /\ pc[t] = "present"
  /\ op[t] \in {"insert", "update", "modify", "find"}
  /\ op[t] \in {"update", "modify"} => ~ link[cur[t]].mark
  /\ Answer(t, TRUE)

\* Mutant of MarkNode: the mark is not compared.
MarkNodeTwice(t) ==
  /\ pc[t] = "present"
  /\ op[t] = "erase" \/ (op[t] = "clear" /\ cur[t] = goal[t])
  /\ link[cur[t]].ptr = nxt[t].ptr
  /\ link' = [link EXCEPT ![cur[t]] = Marked(nxt[t].ptr)]
  /\ Goto(t, "unlink")
  /\ UNCHANGED <<key, m_ItemCounter, callVars, position, gcVars>>

\* unlink_node, first half: the logical deletion.
MarkNode(t) ==
  /\ pc[t] = "present"
  /\ op[t] = "erase" \/ (op[t] = "clear" /\ cur[t] = goal[t])
  /\ link[cur[t]] = To(nxt[t].ptr)
  /\ link' = [link EXCEPT ![cur[t]] = Marked(nxt[t].ptr)]
  /\ Goto(t, "unlink")
  /\ UNCHANGED <<key, m_ItemCounter, callVars, position, gcVars>>

MarkNodeFail(t) ==
  /\ pc[t] = "present"
  /\ op[t] = "erase" \/ (op[t] = "clear" /\ cur[t] = goal[t])
  /\ link[cur[t]] # To(nxt[t].ptr)
  /\ Again(t, "start")
  /\ UNCHANGED <<listVars, m_ItemCounter, callVars, gcVars>>

\* unlink_node, second half.
UnlinkNode(t) ==
  /\ pc[t] = "unlink"
  /\ Unlink(t)
  /\ SMR!Replace(cur[t], nullptr)
  /\ Goto(t, "erased")
  /\ UNCHANGED <<key, m_ItemCounter, callVars, position>>

\* Somebody else has unlinked the node, or will do it.
UnlinkNodeFail(t) ==
  /\ pc[t] = "unlink"
  /\ link[prev[t]] # To(cur[t])
  /\ Goto(t, "erased")
  /\ UNCHANGED <<listVars, m_ItemCounter, callVars, position, gcVars>>

\* Mutant of CountErased: a removal is not counted.
CountErasedNot == UNCHANGED m_ItemCounter

CountErased == m_ItemCounter' = (m_ItemCounter + CounterModulus - 1) % CounterModulus

\* erase calls the functor with the node; extract gives the guard to the caller.
Erased(t) ==
  /\ pc[t] = "erased"
  /\ op[t] = "erase"
  /\ CountErased
  /\ Return(t)
  /\ UNCHANGED listVars

\* The functor of find and update is called with the node that was found.
ReturnAnswer(t) ==
  /\ pc[t] = "return"
  /\ Return(t)
  /\ UNCHANGED <<listVars, m_ItemCounter>>

-----------------------------------------------------------------------------
(* clear: unlink the first node until there is none *)

ClearHead(t, h) ==
  /\ pc[t] = "clear"
  /\ Protect(<<t, "goal">>, link[h].ptr)
  /\ goal' = [goal EXCEPT ![t] = link[h].ptr]
  /\ Goto(t, IF link[h].ptr = nullptr THEN "cleared" ELSE "start")
  /\ UNCHANGED <<listVars, m_ItemCounter, op, arg, new, res, position>>

ClearErased(t) ==
  /\ pc[t] = "erased"
  /\ op[t] = "clear"
  /\ CountErased
  /\ Again(t, "clear")
  /\ UNCHANGED <<listVars, callVars, gcVars>>

\* The node is no longer there, or another node with the key is.
ClearMissed(t) ==
  /\ op[t] = "clear"
  /\ pc[t] = "absent" \/ (pc[t] = "present" /\ cur[t] # goal[t])
  /\ Again(t, "clear")
  /\ UNCHANGED <<listVars, m_ItemCounter, callVars, gcVars>>

Cleared(t) == pc[t] = "cleared" /\ Answer(t, TRUE)

-----------------------------------------------------------------------------
\* clean_disposer clears the link.
Reclaim(o) ==
  /\ SMR!Reclaim({o})
  /\ link' = [link EXCEPT ![o] = Null]
  /\ key'  = [key EXCEPT ![o] = nullptr]
  /\ UNCHANGED <<m_ItemCounter, pc, callVars, position>>

SearchStep(t) ==
  \/ SearchHead(t) \/ SearchNext(t) \/ SearchChanged(t) \/ SearchMarked(t) \/ SearchDone(t)
  \/ SearchForward(t) \/ SearchHelp(t) \/ SearchHelpFail(t)

InsertStep(t) ==
  \/ \E k \in Key, o \in Obj : InsertStart(t, k, o)
  \/ LinkNode(t) \/ LinkNodeFail(t) \/ Inserted(t) \/ UpdateMarked(t)

EraseStep(t) ==
  \/ MarkNode(t) \/ MarkNodeFail(t) \/ UnlinkNode(t) \/ UnlinkNodeFail(t) \/ Erased(t)

ClearStep(t) ==
  \/ ClearStart(t) \/ ClearErased(t) \/ ClearMissed(t) \/ Cleared(t)
  \/ \E h \in Head : ClearHead(t, h)

Step(t) ==
  \/ SearchStep(t) \/ InsertStep(t) \/ EraseStep(t) \/ ClearStep(t)
  \/ \E k \in Key : SearchStart(t, k)
  \/ Absent(t) \/ Present(t) \/ ReturnAnswer(t)

\* The operation of a thread as AtomicSet sees it.
call ==
  [t \in Thread |->
     [op |-> op[t], key |-> arg[t],
      done |-> pc[t] \in {"inserted", "return"} \/ (op[t] = "erase" /\ pc[t] \in {"unlink", "erased"}),
      res |-> res[t] \/ (op[t] = "erase" /\ pc[t] \in {"unlink", "erased"})]]

AS == INSTANCE AtomicSet WITH keys <- Keys

Next ==
  /\ (\E t \in Thread : Step(t)) \/ (\E o \in Obj : Reclaim(o))
  /\ AS!Observe
  /\ UNCHANGED client

Spec == Init /\ [][Next]_vars

-----------------------------------------------------------------------------
(* Properties *)

\* No operation reads, marks or changes the link of a node that was freed, nor
\* gives one to a functor: while another thread may unlink and retire any node,
\* the three guards of the position move along with the search.
NoUseAfterFree ==
  /\ \A o \in Nodes : status[o] = "linked"
  /\ \A t \in Thread :
       /\ pc[t] \in {"check", "help", "unlink"} => prev[t] \in Head \/ status[prev[t]] # "free"
       /\ (pc[t] = "absent" /\ op[t] \in {"insert", "update"}) => prev[t] \in Head \/ status[prev[t]] # "free"
       /\ pc[t] \in {"next", "check", "present", "unlink", "erased"} => status[cur[t]] # "free"
       /\ (pc[t] = "return" /\ res[t] /\ op[t] # "clear") => status[cur[t]] # "free"
       /\ (pc[t] = "inserted" /\ op[t] = "update") => status[new[t]] # "free"
       /\ (op[t] = "clear" /\ pc[t] \in {"start", "next", "check"}) => status[goal[t]] # "free"

\* The list is strictly sorted, its nodes are in the bucket of their key, and no
\* node that is in use is lost: it is reachable from a head, or a thread is about
\* to unlink it.
Sorted ==
  /\ \A o \in Nodes : link[o].ptr # nullptr => key[o] < key[link[o].ptr]
  /\ \A h \in Head : \A o \in Chain[Cardinality(Obj)][h] : Bucket(key[o]) = h
  /\ {o \in Obj : status[o] = "linked"} = Nodes

\* Once a node is deleted its link is frozen until the node is freed: an insertion
\* behind it, which would be lost, is impossible.
MarkedFrozen ==
  [][\A o \in Obj : (link[o].mark /\ status'[o] # "free") => link'[o] = link[o]]_vars

\* size(): when no operation is in progress the item counter is the number of items.
CounterExact ==
  (\A t \in Thread : pc[t] = "idle") => m_ItemCounter = Cardinality(Keys)

\* The operations are linearizable: an insertion takes effect when it links the
\* node, a removal when it marks it, and every other answer was right at some
\* instant of the call.
ImplementsSet == AS!Spec
=============================================================================
