---------------------------- MODULE FlatCombining ----------------------------
(***************************************************************************)
(* The flat combining kernel (cds/algo/flat_combining/kernel.h) under      *)
(* FCQueue (cds/container/fcqueue.h).  A thread writes its request into    *)
(* its publication record; whoever gets the lock, the combiner, executes   *)
(* the requests of the publication list and now and then takes idle        *)
(* records out of it, whose owners have to publish them again, and frees   *)
(* the records of threads that are gone.                                   *)
(*                                                                         *)
(* Record 1 is the one the constructor makes: the head of both lists,      *)
(* which is never taken out.  A thread enqueues its own name.  The locals  *)
(* of the combiner exist once, since the lock admits one.  A wait strategy *)
(* returns from wait() at any time: the ones with condition variables wait *)
(* with a timeout.                                                         *)
(***************************************************************************)
EXTENDS Integers, Sequences, FiniteSets

CONSTANTS
  Thread, Creator,      \* the threads; the one that constructs the queue
  nullptr,
  MaxRecords,           \* addresses for publication records
  MaxItems,             \* items in the queue and in pending requests
  nCompactFactor,
  AgeModulus,           \* values of the unsigned m_nCount
  Clients,              \* what the program uses: elimination, nCombinePassCount, operations, whether threads end
  ExitAlone             \* threads end only while no combiner is at work

Rec == 1 .. MaxRecords
Link == 0 .. MaxRecords
head == 1
none == "none"

Powers == {2 ^ i : i \in 0 .. 10}

\* ceil2( nCompactFactor ) - 1, a binary mask.
m_nCompactFactor == (CHOOSE k \in Powers : k >= nCompactFactor /\ \A j \in Powers : j >= nCompactFactor => k <= j) - 1

ASSUME FCAssumption ==
  /\ Creator \in Thread /\ none \notin Thread
  /\ nullptr \notin Thread
  /\ MaxRecords \in Nat \ {0} /\ MaxItems \in Nat
  /\ nCompactFactor \in 1 .. 1024
  /\ AgeModulus \in Powers /\ m_nCompactFactor < AgeModulus
  /\ Clients \subseteq [elimination : BOOLEAN, passes : Nat \ {0}, exits : BOOLEAN,
                           ops : SUBSET {"enq", "deq", "clear", "empty"}]
  /\ ExitAlone \in BOOLEAN

VARIABLES
  client,               \* the one of Clients in question
  m_nCount, m_Mutex,    \* the age; the holder of the lock
  nRequest, nState, nAge, pNext, pNextAllocated,   \* of each record; "freed": no object
  m_Queue,              \* the sequential queue
  m_pThreadRec,         \* thread -> its record, 0: none
  op, val, bEmpty,      \* thread -> its operation, *pValEnq or *pValDeq, what it is told about emptiness
  pc,
  p, prev,              \* the combiner's position; pPrev of compact_list, itPrev of fc_process
  nPass, nUseful, bOpDone

recVars  == <<nRequest, nState, nAge, pNext, pNextAllocated>>
callVars == <<m_pThreadRec, op, val, bEmpty>>
combVars == <<p, prev, nPass, nUseful, bOpDone>>
vars == <<client, m_nCount, m_Mutex, recVars, m_Queue, callVars, pc, combVars>>

Init ==
  /\ client \in Clients
  /\ m_nCount = 0 /\ m_Mutex = none
  /\ nRequest = [r \in Rec |-> "empty"]
  /\ nState = [r \in Rec |-> IF r = head THEN "inactive" ELSE "freed"]
  /\ nAge = [r \in Rec |-> 0]
  /\ pNext = [r \in Rec |-> 0] /\ pNextAllocated = [r \in Rec |-> 0]
  /\ m_Queue = <<>>
  /\ m_pThreadRec = [t \in Thread |-> IF t = Creator THEN head ELSE 0]
  /\ op = [t \in Thread |-> none] /\ val = [t \in Thread |-> nullptr]
  /\ bEmpty = [t \in Thread |-> FALSE]
  /\ pc = [t \in Thread |-> "idle"]
  /\ p = 0 /\ prev = 0 /\ nPass = 0 /\ nUseful = 0 /\ bOpDone = FALSE

Goto(t, l) == pc' = [pc EXCEPT ![t] = l]
Mine(t) == m_pThreadRec[t]
Owner(r) == CHOOSE t \in Thread : m_pThreadRec[t] = r
Requested(r) == nRequest[r] \in {"enq", "deq", "clear"}

-----------------------------------------------------------------------------
(* The owner of a record: enqueue, dequeue, clear *)

\* The call, and the look at the record in acquire_record.
Start(t, o, v) ==
  /\ pc[t] = "idle" /\ o \in client.ops
  /\ o = "enq" => Len(m_Queue) + Cardinality({u \in Thread : op[u] = "enq"}) < MaxItems
  /\ op'  = [op EXCEPT ![t] = o]
  /\ val' = [val EXCEPT ![t] = v]
  /\ Goto(t, IF Mine(t) = 0 THEN "allocate" ELSE IF nState[Mine(t)] # "active" THEN "publish" ELSE "request")
  /\ UNCHANGED <<client, m_nCount, m_Mutex, recVars, m_Queue, m_pThreadRec, bEmpty, combVars>>

\* A new record, pushed to the allocated list behind its head.  Addresses are
\* interchangeable: the lowest one is taken.
Allocate(t) ==
  /\ pc[t] = "allocate"
  /\ \E r \in Rec :
       /\ nState[r] = "freed" /\ \A q \in Rec : nState[q] = "freed" => r <= q
       /\ nState'   = [nState EXCEPT ![r] = "inactive"]
       /\ nRequest' = [nRequest EXCEPT ![r] = "empty"]
       /\ nAge'     = [nAge EXCEPT ![r] = 0]
       /\ pNext'    = [pNext EXCEPT ![r] = 0]
       /\ pNextAllocated' = [pNextAllocated EXCEPT ![r] = pNextAllocated[head], ![head] = r]
       /\ m_pThreadRec' = [m_pThreadRec EXCEPT ![t] = r]
  /\ Goto(t, "publish")
  /\ UNCHANGED <<client, m_nCount, m_Mutex, m_Queue, op, val, bEmpty, combVars>>

\* The age of the head is never read.
Stamp(r) == [nAge EXCEPT ![r] = IF r = head THEN 0 ELSE m_nCount]

\* publish: the age and the state, before the record can be seen.
Publish(t) ==
  /\ pc[t] = "publish"
  /\ nAge'   = Stamp(Mine(t))
  /\ nState' = [nState EXCEPT ![Mine(t)] = "active"]
  /\ Goto(t, "link")
  /\ UNCHANGED <<client, m_nCount, m_Mutex, nRequest, pNext, pNextAllocated, m_Queue, callVars, combVars>>

\* Where publish and republish return to.
After(t) == IF m_Mutex = t THEN "combine" ELSE IF nRequest[Mine(t)] = "empty" THEN "request" ELSE "wait"

\* The compare_exchange that puts the record behind the head of the list.
LinkRec(t) ==
  /\ pc[t] = "link"
  /\ pNext' = IF Mine(t) \in {head, pNext[head]} THEN pNext
              ELSE [pNext EXCEPT ![Mine(t)] = pNext[head], ![head] = Mine(t)]
  /\ Goto(t, After(t))
  /\ UNCHANGED <<client, m_nCount, m_Mutex, nRequest, nState, nAge, pNextAllocated, m_Queue, callVars, combVars>>

\* combine, batch_combine: the request is stored.
Request(t) ==
  /\ pc[t] = "request"
  /\ nRequest' = [nRequest EXCEPT ![Mine(t)] = op[t]]
  /\ Goto(t, "trylock")
  /\ UNCHANGED <<client, m_nCount, m_Mutex, nState, nAge, pNext, pNextAllocated, m_Queue, callVars, combVars>>

TryLock(t) ==
  /\ pc[t] = "trylock"
  /\ m_Mutex' = IF m_Mutex = none THEN t ELSE m_Mutex
  /\ Goto(t, IF m_Mutex = none THEN "republish" ELSE "check")
  /\ UNCHANGED <<client, m_nCount, recVars, m_Queue, callVars, combVars>>

\* The condition of the loop of wait_for_combining.
WaitCheck(t) ==
  /\ pc[t] = "check"
  /\ Goto(t, IF nRequest[Mine(t)] = "response" THEN "return" ELSE "republish")
  /\ UNCHANGED <<client, m_nCount, m_Mutex, recVars, m_Queue, callVars, combVars>>

\* Mutants of Republish: a waiting thread, or a combiner, trusts that its record
\* is in the list.
RepublishCombiner(t) ==
  /\ pc[t] = "republish"
  /\ Goto(t, IF nState[Mine(t)] # "active" /\ m_Mutex = t THEN "publish" ELSE After(t))
  /\ UNCHANGED <<client, m_nCount, m_Mutex, recVars, m_Queue, callVars, combVars>>

RepublishWaiter(t) ==
  /\ pc[t] = "republish"
  /\ Goto(t, IF nState[Mine(t)] # "active" /\ m_Mutex # t THEN "publish" ELSE After(t))
  /\ UNCHANGED <<client, m_nCount, m_Mutex, recVars, m_Queue, callVars, combVars>>

\* The record may have been taken out of the list meanwhile.
Republish(t) ==
  /\ pc[t] = "republish"
  /\ Goto(t, IF nState[Mine(t)] # "active" THEN "publish" ELSE After(t))
  /\ UNCHANGED <<client, m_nCount, m_Mutex, recVars, m_Queue, callVars, combVars>>

\* wait() has returned.
WaitLock(t) ==
  /\ pc[t] = "wait"
  /\ m_Mutex' = IF m_Mutex = none THEN t ELSE m_Mutex
  /\ Goto(t, IF m_Mutex = none THEN "locked" ELSE "check")
  /\ UNCHANGED <<client, m_nCount, recVars, m_Queue, callVars, combVars>>

\* With the lock: the request was answered before, or the thread is the combiner.
WaitLocked(t) ==
  /\ pc[t] = "locked"
  /\ IF nRequest[Mine(t)] = "response" THEN m_Mutex' = none /\ Goto(t, "return")
                                       ELSE m_Mutex' = m_Mutex /\ Goto(t, "republish")
  /\ UNCHANGED <<client, m_nCount, recVars, m_Queue, callVars, combVars>>

\* release_record, and the operation returns.
Return(t) ==
  /\ pc[t] = "return"
  /\ nRequest' = [nRequest EXCEPT ![Mine(t)] = "empty"]
  /\ op'     = [op EXCEPT ![t] = none]
  /\ val'    = [val EXCEPT ![t] = nullptr]
  /\ bEmpty' = [bEmpty EXCEPT ![t] = FALSE]
  /\ Goto(t, "idle")
  /\ UNCHANGED <<client, m_nCount, m_Mutex, nState, nAge, pNext, pNextAllocated, m_Queue, m_pThreadRec, combVars>>

\* tls_cleanup: the thread ends; its record must be removed by a combiner.
Exit(t) ==
  /\ pc[t] = "idle" /\ Mine(t) # 0 /\ client.exits
  /\ ExitAlone => m_Mutex = none
  /\ Cardinality({r \in Rec : nState[r] = "freed"}) > Cardinality({u \in Thread : Mine(u) = 0})
  /\ nState' = [nState EXCEPT ![Mine(t)] = "removed"]
  /\ nAge' = [nAge EXCEPT ![Mine(t)] = 0]
  /\ m_pThreadRec' = [m_pThreadRec EXCEPT ![t] = 0]
  /\ UNCHANGED <<client, m_nCount, m_Mutex, nRequest, pNext, pNextAllocated, m_Queue, op, val, bEmpty, pc, combVars>>

-----------------------------------------------------------------------------
(* empty() through invoke_exclusive *)

Empty(t) ==
  /\ pc[t] = "idle" /\ "empty" \in client.ops
  /\ op' = [op EXCEPT ![t] = "empty"]
  /\ Goto(t, "exclusive")
  /\ UNCHANGED <<client, m_nCount, m_Mutex, recVars, m_Queue, m_pThreadRec, val, bEmpty, combVars>>

EmptyLock(t) ==
  /\ pc[t] = "exclusive"
  /\ m_Mutex = none
  /\ m_Mutex' = t
  /\ Goto(t, "ask")
  /\ UNCHANGED <<client, m_nCount, recVars, m_Queue, callVars, combVars>>

EmptyAsk(t) ==
  /\ pc[t] = "ask"
  /\ bEmpty' = [bEmpty EXCEPT ![t] = (m_Queue = <<>>)]
  /\ m_Mutex' = none
  /\ Goto(t, "answered")
  /\ UNCHANGED <<client, m_nCount, recVars, m_Queue, m_pThreadRec, op, val, combVars>>

EmptyReturn(t) ==
  /\ pc[t] = "answered"
  /\ op' = [op EXCEPT ![t] = none]
  /\ bEmpty' = [bEmpty EXCEPT ![t] = FALSE]
  /\ Goto(t, "idle")
  /\ UNCHANGED <<client, m_nCount, m_Mutex, recVars, m_Queue, m_pThreadRec, val, combVars>>

-----------------------------------------------------------------------------
(* The combiner: combining, batch_combining *)

Combine(t) ==
  /\ pc[t] = "combine"
  /\ m_nCount' = (m_nCount + 1) % AgeModulus
  /\ p' = head
  /\ Goto(t, IF client.elimination THEN "process" ELSE "pass")
  /\ UNCHANGED <<client, m_Mutex, recVars, m_Queue, callVars, prev, nPass, nUseful, bOpDone>>

\* FCQueue::fc_apply for the request of record r.
fc_apply(r) ==
  LET u == Owner(r) IN
  CASE nRequest[r] = "enq" ->
         /\ m_Queue' = Append(m_Queue, val[u])
         /\ UNCHANGED <<val, bEmpty>>
    [] nRequest[r] = "deq" /\ m_Queue = <<>> ->
         /\ bEmpty' = [bEmpty EXCEPT ![u] = TRUE]
         /\ UNCHANGED <<m_Queue, val>>
    [] nRequest[r] = "deq" /\ m_Queue # <<>> ->
         /\ val' = [val EXCEPT ![u] = Head(m_Queue)]
         /\ m_Queue' = Tail(m_Queue)
         /\ UNCHANGED bEmpty
    [] nRequest[r] = "clear" ->
         /\ m_Queue' = <<>>
         /\ UNCHANGED <<val, bEmpty>>

operation_done(r) == nRequest' = [nRequest EXCEPT ![r] = "response"]

\* combining_pass at a record with a request.
PassApply(t) ==
  /\ pc[t] = "pass" /\ p # 0
  /\ nState[p] = "active" /\ Requested(p)
  /\ nAge' = Stamp(p)
  /\ fc_apply(p)
  /\ operation_done(p)
  /\ bOpDone' = TRUE
  /\ p' = pNext[p]
  /\ UNCHANGED <<client, m_nCount, m_Mutex, nState, pNext, pNextAllocated, m_pThreadRec, op, pc, prev, nPass, nUseful>>

PassSkip(t) ==
  /\ pc[t] = "pass" /\ p # 0
  /\ ~ (nState[p] = "active" /\ Requested(p))
  /\ p' = pNext[p]
  /\ UNCHANGED <<client, m_nCount, m_Mutex, recVars, m_Queue, callVars, pc, prev, nPass, nUseful, bOpDone>>

Compacts == m_nCount % (m_nCompactFactor + 1) = 0

\* The end of a pass: passes go on while their number allows and the empty ones
\* are not more than the useful ones.  batch_combining makes one pass.
PassEnd(t) ==
  LET useful == nUseful + (IF bOpDone THEN 1 ELSE 0)
      again  == ~ client.elimination /\ nPass + 1 < client.passes /\ (bOpDone \/ nPass + 1 - useful <= useful)
  IN
  /\ pc[t] = "pass" /\ p = 0
  /\ bOpDone' = FALSE
  /\ IF again THEN /\ p' = head /\ nPass' = nPass + 1 /\ nUseful' = useful
                   /\ UNCHANGED pc
              ELSE /\ p' = 0 /\ nPass' = 0 /\ nUseful' = 0
                   /\ Goto(t, IF Compacts THEN "compact" ELSE "unlock")
  /\ UNCHANGED <<client, m_nCount, m_Mutex, recVars, m_Queue, callVars, prev>>

\* Two requests that cancel out on an empty queue.
Collidable(r, q) == {nRequest[r], nRequest[q]} = {"enq", "deq"}

\* Mutant of Eliminable: the queue need not be empty.
EliminableAny(r) == nState[r] = "active" /\ nRequest[r] \in {"enq", "deq"}

\* What fc_process looks at: an active request, while there is nothing in the queue.
Eliminable(r) == nState[r] = "active" /\ nRequest[r] \in {"enq", "deq"} /\ m_Queue = <<>>

\* fc_process: begin() and ++ pass over records without a request.
ProcessSkip(t) ==
  /\ pc[t] = "process" /\ p # 0
  /\ ~ Eliminable(p)
  /\ p' = pNext[p]
  /\ UNCHANGED <<client, m_nCount, m_Mutex, recVars, m_Queue, callVars, pc, prev, nPass, nUseful, bOpDone>>

ProcessKeep(t) ==
  /\ pc[t] = "process" /\ p # 0
  /\ Eliminable(p)
  /\ prev # 0 => ~ Collidable(prev, p)
  /\ prev' = p
  /\ p' = pNext[p]
  /\ UNCHANGED <<client, m_nCount, m_Mutex, recVars, m_Queue, callVars, pc, nPass, nUseful, bOpDone>>

\* collide: the value goes from the enqueue to the dequeue, and the enqueue is done.
Collide(t) ==
  /\ pc[t] = "process" /\ p # 0 /\ prev # 0
  /\ Eliminable(p) /\ Collidable(prev, p)
  /\ LET e == IF nRequest[p] = "enq" THEN p ELSE prev
         d == IF nRequest[p] = "enq" THEN prev ELSE p
     IN  /\ val' = [val EXCEPT ![Owner(d)] = val[Owner(e)]]
         /\ operation_done(e)
         /\ prev' = d
  /\ Goto(t, "collided")
  /\ UNCHANGED <<client, m_nCount, m_Mutex, nState, nAge, pNext, pNextAllocated, m_Queue, m_pThreadRec, op, bEmpty,
                 p, nPass, nUseful, bOpDone>>

\* The dequeue is done, too.
Collided(t) ==
  /\ pc[t] = "collided"
  /\ operation_done(prev)
  /\ prev' = 0
  /\ p' = pNext[p]
  /\ Goto(t, "process")
  /\ UNCHANGED <<client, m_nCount, m_Mutex, nState, nAge, pNext, pNextAllocated, m_Queue, callVars, nPass, nUseful, bOpDone>>

ProcessEnd(t) ==
  /\ pc[t] = "process" /\ p = 0
  /\ p' = head /\ prev' = 0
  /\ IF nPass + 1 < client.passes THEN nPass' = nPass + 1 /\ UNCHANGED pc
                                      ELSE nPass' = 0 /\ Goto(t, "pass")
  /\ UNCHANGED <<client, m_nCount, m_Mutex, recVars, m_Queue, callVars, nUseful, bOpDone>>

Unlock(t) ==
  /\ pc[t] = "unlock"
  /\ m_Mutex' = none
  /\ Goto(t, "return")
  /\ UNCHANGED <<client, m_nCount, recVars, m_Queue, callVars, combVars>>

-----------------------------------------------------------------------------
(* compact_list *)

\* (Re)starts at the head of the publication list.
Compact(t) ==
  /\ pc[t] = "compact"
  /\ prev' = head /\ p' = pNext[head]
  /\ Goto(t, "list")
  /\ UNCHANGED <<client, m_nCount, m_Mutex, recVars, m_Queue, callVars, nPass, nUseful, bOpDone>>

Aged(r) == nState[r] = "active" /\ (nAge[r] + m_nCompactFactor) % AgeModulus < m_nCount

\* Stay in the list; on a failed compare_exchange go on from what now is there.
ListKeep(t) ==
  /\ pc[t] = "list" /\ p # 0
  /\ nState[p] # "removed"
  /\ ~ (Aged(p) /\ pNext[prev] = p)
  /\ LET q == IF Aged(p) THEN pNext[prev] ELSE p IN prev' = q /\ p' = pNext[q]
  /\ UNCHANGED <<client, m_nCount, m_Mutex, recVars, m_Queue, callVars, pc, nPass, nUseful, bOpDone>>

\* An old record is taken out ...
ListUnlink(t) ==
  /\ pc[t] = "list" /\ p # 0
  /\ Aged(p) /\ pNext[prev] = p
  /\ pNext' = [pNext EXCEPT ![prev] = pNext[p]]
  /\ Goto(t, "deactivate")
  /\ UNCHANGED <<client, m_nCount, m_Mutex, nRequest, nState, nAge, pNextAllocated, m_Queue, callVars, combVars>>

\* ... and then told to be inactive.  Its link and its age are written by publish
\* before they are read again; 0 stands for what is left in them.
Deactivate(t) ==
  /\ pc[t] = "deactivate"
  /\ nState' = [nState EXCEPT ![p] = "inactive"]
  /\ p' = pNext[p]
  /\ pNext' = [pNext EXCEPT ![p] = 0]
  /\ nAge'  = [nAge EXCEPT ![p] = 0]
  /\ Goto(t, "list")
  /\ UNCHANGED <<client, m_nCount, m_Mutex, nRequest, pNextAllocated, m_Queue, callVars, prev, nPass, nUseful, bOpDone>>

\* Mutant of ListRemove: the record of a thread that is gone stays in the list.
ListRemoveNot(t) ==
  /\ pc[t] = "list" /\ p # 0
  /\ nState[p] = "removed"
  /\ prev' = p
  /\ p' = pNext[p]
  /\ UNCHANGED <<client, m_nCount, m_Mutex, recVars, m_Queue, callVars, pc, nPass, nUseful, bOpDone>>

\* The record of a thread that is gone; the list is gone through again when
\* another record was published before it.
ListRemove(t) ==
  /\ pc[t] = "list" /\ p # 0
  /\ nState[p] = "removed"
  /\ IF pNext[prev] = p THEN /\ pNext' = [pNext EXCEPT ![prev] = pNext[p], ![p] = 0]
                             /\ p' = pNext[p]
                             /\ UNCHANGED <<prev, pc>>
                        ELSE /\ p' = 0 /\ prev' = 0
                             /\ Goto(t, "compact")
                             /\ UNCHANGED pNext
  /\ UNCHANGED <<client, m_nCount, m_Mutex, nRequest, nState, nAge, pNextAllocated, m_Queue, callVars, nPass, nUseful, bOpDone>>

ListEnd(t) ==
  /\ pc[t] = "list" /\ p = 0
  /\ prev' = head /\ p' = pNextAllocated[head]
  /\ Goto(t, "allocated")
  /\ UNCHANGED <<client, m_nCount, m_Mutex, recVars, m_Queue, callVars, nPass, nUseful, bOpDone>>

AllocatedKeep(t) ==
  /\ pc[t] = "allocated" /\ p # 0
  /\ ~ (nState[p] = "removed" /\ pNextAllocated[prev] = p)
  /\ LET q == IF nState[p] = "removed" THEN pNextAllocated[prev] ELSE p IN prev' = q /\ p' = pNextAllocated[q]
  /\ UNCHANGED <<client, m_nCount, m_Mutex, recVars, m_Queue, callVars, pc, nPass, nUseful, bOpDone>>

\* free_publication_record
AllocatedFree(t) ==
  /\ pc[t] = "allocated" /\ p # 0
  /\ nState[p] = "removed" /\ pNextAllocated[prev] = p
  /\ pNextAllocated' = [pNextAllocated EXCEPT ![prev] = pNextAllocated[p], ![p] = 0]
  /\ nState' = [nState EXCEPT ![p] = "freed"]
  /\ p' = pNextAllocated[p]
  /\ UNCHANGED <<client, m_nCount, m_Mutex, nRequest, nAge, pNext, m_Queue, callVars, pc, prev, nPass, nUseful, bOpDone>>

AllocatedEnd(t) ==
  /\ pc[t] = "allocated" /\ p = 0
  /\ prev' = 0
  /\ Goto(t, "unlock")
  /\ UNCHANGED <<client, m_nCount, m_Mutex, recVars, m_Queue, callVars, p, nPass, nUseful, bOpDone>>

-----------------------------------------------------------------------------
Owning(t) ==
  \/ Allocate(t) \/ Publish(t) \/ LinkRec(t) \/ Request(t) \/ TryLock(t) \/ WaitCheck(t) \/ Republish(t)
  \/ WaitLock(t) \/ WaitLocked(t) \/ Return(t)
  \/ EmptyLock(t) \/ EmptyAsk(t) \/ EmptyReturn(t)

Combining(t) ==
  \/ Combine(t) \/ PassApply(t) \/ PassSkip(t) \/ PassEnd(t) \/ Unlock(t)
  \/ ProcessSkip(t) \/ ProcessKeep(t) \/ Collide(t) \/ Collided(t) \/ ProcessEnd(t)
  \/ Compact(t) \/ ListKeep(t) \/ ListUnlink(t) \/ Deactivate(t) \/ ListRemove(t) \/ ListEnd(t)
  \/ AllocatedKeep(t) \/ AllocatedFree(t) \/ AllocatedEnd(t)

Next ==
  \E t \in Thread :
    \/ Start(t, "enq", t) \/ Start(t, "deq", nullptr) \/ Start(t, "clear", nullptr)
    \/ Empty(t) \/ Exit(t)
    \/ Owning(t) \/ Combining(t)

Spec == Init /\ [][Next]_vars

\* A thread that is inside an operation is scheduled.  Nothing is assumed of
\* who gets the lock.
FairSpec == Spec /\ \A t \in Thread : WF_vars(Owning(t) \/ Combining(t))

-----------------------------------------------------------------------------
(* Properties *)

\* Records that can be reached from the head of the list with links nxt.
Listed(nxt) ==
  LET reach[n \in 0 .. MaxRecords] ==
        IF n = 0 THEN {head} ELSE reach[n - 1] \cup ({nxt[r] : r \in reach[n - 1]} \ {0})
  IN  reach[MaxRecords]

\* compact_list frees a record only when neither list leads to it: "pRec that is
\* TLS data should be excluded from publication list" (tls_cleanup).
ListedNotFreed == \A r \in Listed(pNext) \cup Listed(pNextAllocated) : nState[r] # "freed"

\* The assertion after combining() in try_combining: the combiner has answered
\* its own request, although another combiner may have taken its record out of
\* the list before.
CombinerAnswered == \A t \in Thread : pc[t] = "unlock" => nRequest[Mine(t)] = "response"

\* The operation of a thread as ClearableQueue sees it.
Answered(t) == Mine(t) # 0 /\ nRequest[Mine(t)] = "response"

Call(t) ==
  LET done == CASE op[t] = "empty" -> pc[t] = "answered"
                [] op[t] = "deq"   -> Answered(t) /\ ~ bEmpty[t]
                [] OTHER           -> Answered(t)
  IN  [op |-> op[t], done |-> done, saw |-> bEmpty[t],
       val |-> IF op[t] = "deq" /\ ~ done THEN nullptr ELSE val[t]]

Items == IF \E t \in Thread : pc[t] = "collided" THEN <<val[Owner(prev)]>> ELSE m_Queue

AQ == INSTANCE ClearableQueue WITH Obj <- Thread, items <- Items, call <- [t \in Thread |-> Call(t)]

\* FCQueue is a linearizable queue with clear() and empty(), with and without
\* elimination; an eliminated value is in the queue between the two
\* operation_done of collide.
ImplementsQueue == AQ!ClearableSpec

\* invoke_exclusive is at work; the record of t has just been taken out of the list.
Exclusive == \E t \in Thread : pc[t] \in {"exclusive", "ask"}
TakenOut(t) == p = Mine(t) /\ \E u \in Thread : pc[u] = "deactivate"

\* No request is overlooked for ever, whoever becomes the combiner.  The code
\* leaves two ways to wait for ever: others ask empty() again and again
\* (invoke_exclusive takes the lock and serves nobody), or the thread is so slow
\* that its record is too old and taken out again each time it is published.
RequestAnswered == \A t \in Thread : []<>(op[t] = none \/ Exclusive \/ TakenOut(t))
=============================================================================
