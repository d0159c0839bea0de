------------------------------ MODULE GeneralRCU ------------------------------
(***************************************************************************)
(* cds::urcu, the general-purpose user-space RCU: the read-side sections   *)
(* and the grace period (src/cds/urcu/details/gp.h), the list of thread    *)
(* records (base.h), and the three schemes that retire objects with it:    *)
(* general_instant (gpi.h), general_buffered (gpb.h) and general_threaded  *)
(* (gpt.h) with its reclamation thread (dispose_thread.h).                 *)
(*                                                                         *)
(* A record is never unlinked from m_ThreadList and is always pushed in    *)
(* front, so it is named by its distance from the end of the list: next_   *)
(* of record r is r - 1 and the head is the number of records.             *)
(*                                                                         *)
(* m_nAccessControl is kept as its two fields, the nest counter and the    *)
(* control bit; the nest field of m_nGlobalControl is always 1.  Outside a *)
(* section nobody reads the control bit of the record, which is kept at 0. *)
(*                                                                         *)
(* Shared memory is sequentially consistent.  m_Buffer is the linearizable *)
(* bounded queue that module VyukovQueue is shown to implement.            *)
(***************************************************************************)
EXTENDS Integers, Sequences

CONSTANTS
  Thread,      \* threads of the application
  Obj,         \* addresses an object can be allocated at
  none,        \* nullptr, and c_NullThreadId
  Capacity,    \* nBufferCapacity, and the cells of m_Buffer
  Instances,   \* the RCU and its clients, to choose from: the scheme; whether the queue
               \* that is m_Buffer counts its items; and two bounds, nests on the nested
               \* sections of a thread and syncs on how often m_nCurEpoch has advanced
               \* when the clients retire no more
  MaxRecords   \* bound: thread records ever linked

Rec == 1 .. MaxRecords

ASSUME ConstantsAssumption ==
  /\ none \notin Thread \cup Obj
  /\ Capacity \in Nat \ {0}
  /\ Instances \subseteq [scheme : {"instant", "buffered", "threaded"}, counting : BOOLEAN,
                          nests : Nat \ {0}, syncs : Nat]
  /\ MaxRecords \in Nat

VARIABLES
  inst,             \* the member of Instances that was built
  bit,              \* control bit of m_nGlobalControl
  list,             \* head of m_ThreadList = number of records
  owner,            \* thread_id_, per record
  nest, ctl,        \* m_nAccessControl, per record
  lock,             \* who holds m_Lock
  m_nCurEpoch,
  buf,              \* m_Buffer
  epoch,            \* m_nEpoch of the epoch_retired_ptr of an object
  mem,              \* what an address holds: "free", "linked" or "retired"
  hold,             \* objects a thread has read in its section
  pc, rec,          \* where a thread is, and its own record; 0 when detached
  node,             \* pRec of alloc() and of flip_and_wait()
  word,             \* control bit loaded by access_lock
  flips,            \* calls of flip_and_wait made by synchronize
  nEpoch,           \* nEpoch of synchronize
  bSync,            \* parameter of synchronize
  todo,             \* objects the thread has unlinked and not yet pushed
  ep,               \* the pointer push_buffer or clear_buffer works on
  unpushed,         \* pointers to free when synchronize returns
  dpc,              \* where the reclamation thread is
  m_bReady, m_pBuffer, task, \* its mailbox; task is m_nCurEpoch there
  nCurEpoch         \* the epoch its current pass disposes up to

gpVars     == <<bit, lock, m_nCurEpoch>>
accessVars == <<nest, ctl>>
recVars    == <<list, owner, rec>>
memVars    == <<mem, hold>>
retireVars == <<epoch, todo, ep, unpushed>>
syncVars   == <<flips, nEpoch, bSync>>
mailVars   == <<m_bReady, m_pBuffer, task>>
dispVars   == <<dpc, nCurEpoch>>
vars == <<inst, gpVars, accessVars, recVars, memVars, retireVars, syncVars, mailVars, dispVars,
          buf, pc, node, word>>

scheme == inst.scheme

\* m_nCurEpoch as the constructors of general_threaded and general_buffered leave it.
FirstEpoch == IF scheme = "threaded" THEN 1 ELSE 0

Init ==
  /\ inst \in Instances
  /\ bit = 0 /\ lock = none
  /\ m_nCurEpoch = FirstEpoch
  /\ list = 0
  /\ owner = [r \in Rec |-> none]
  /\ nest = [r \in Rec |-> 0] /\ ctl = [r \in Rec |-> 0]
  /\ buf = <<>>
  /\ epoch = [o \in Obj |-> 0]
  /\ mem = [o \in Obj |-> "free"]
  /\ hold = [t \in Thread |-> {}]
  /\ pc = [t \in Thread |-> "detached"]
  /\ rec = [t \in Thread |-> 0] /\ node = [t \in Thread |-> 0]
  /\ word = [t \in Thread |-> 0]
  /\ flips = [t \in Thread |-> 0] /\ nEpoch = [t \in Thread |-> 0]
  /\ bSync = [t \in Thread |-> FALSE]
  /\ todo = [t \in Thread |-> {}] /\ unpushed = [t \in Thread |-> {}]
  /\ ep = [t \in Thread |-> none]
  /\ dpc = "start" /\ m_bReady = FALSE /\ m_pBuffer = FALSE
  /\ task = 0 /\ nCurEpoch = 0

Goto(t, l) == pc' = [pc EXCEPT ![t] = l]

\* retired_ptr::free, of a set of objects: the disposers are called and the pointers
\* go out of scope, their epochs with them.
Free(S) ==
  /\ mem' = [o \in Obj |-> IF o \in S THEN "free" ELSE mem[o]]
  /\ epoch' = [o \in Obj |-> IF o \in S THEN 0 ELSE epoch[o]]

-----------------------------------------------------------------------------
(* Thread records *)

Attach(t) ==
  /\ pc[t] = "detached"
  /\ node' = [node EXCEPT ![t] = list]
  /\ Goto(t, "attach")
  /\ UNCHANGED <<inst, gpVars, accessVars, recVars, memVars, retireVars, syncVars, mailVars, dispVars,
                 buf, word>>

\* The CAS on thread_id_ fails: the record is somebody's.
AttachSkip(t) ==
  /\ pc[t] = "attach" /\ node[t] # 0 /\ owner[node[t]] # none
  /\ node' = [node EXCEPT ![t] = @ - 1]
  /\ UNCHANGED <<inst, gpVars, accessVars, recVars, memVars, retireVars, syncVars, mailVars, dispVars,
                 buf, pc, word>>

AttachReuse(t) ==
  /\ pc[t] = "attach" /\ node[t] # 0 /\ owner[node[t]] = none
  /\ owner' = [owner EXCEPT ![node[t]] = t]
  /\ rec' = [rec EXCEPT ![t] = node[t]]
  /\ node' = [node EXCEPT ![t] = 0]
  /\ Goto(t, "idle")
  /\ UNCHANGED <<inst, gpVars, accessVars, list, memVars, retireVars, syncVars, mailVars, dispVars,
                 buf, word>>

AttachNew(t) ==
  /\ pc[t] = "attach" /\ node[t] = 0 /\ list < MaxRecords
  /\ list' = list + 1
  /\ owner' = [owner EXCEPT ![list + 1] = t]
  /\ rec' = [rec EXCEPT ![t] = list + 1]
  /\ Goto(t, "idle")
  /\ UNCHANGED <<inst, gpVars, accessVars, memVars, retireVars, syncVars, mailVars, dispVars,
                 buf, node, word>>

InSection(t) == rec[t] # 0 /\ nest[rec[t]] > 0

\* detach_thread, of a thread that is in no section and has retired what it unlinked.
Detach(t) ==
  /\ pc[t] = "idle" /\ ~InSection(t) /\ todo[t] = {}
  /\ owner' = [owner EXCEPT ![rec[t]] = none]
  /\ rec' = [rec EXCEPT ![t] = 0]
  /\ Goto(t, "detached")
  /\ UNCHANGED <<inst, gpVars, accessVars, list, memVars, retireVars, syncVars, mailVars, dispVars,
                 buf, node, word>>

-----------------------------------------------------------------------------
(* Read-side sections *)

\* access_lock loads the global control word ...
AccessLoad(t) ==
  /\ pc[t] = "idle" /\ ~InSection(t)
  /\ word' = [word EXCEPT ![t] = bit]
  /\ Goto(t, "access")
  /\ UNCHANGED <<inst, gpVars, accessVars, recVars, memVars, retireVars, syncVars, mailVars, dispVars,
                 buf, node>>

\* ... and stores it in the thread's record: the section begins here.
AccessStore(t) ==
  /\ pc[t] = "access"
  /\ nest' = [nest EXCEPT ![rec[t]] = 1]
  /\ ctl' = [ctl EXCEPT ![rec[t]] = word[t]]
  /\ word' = [word EXCEPT ![t] = 0]
  /\ Goto(t, "idle")
  /\ UNCHANGED <<inst, gpVars, recVars, memVars, retireVars, syncVars, mailVars, dispVars,
                 buf, node>>

AccessNested(t) ==
  /\ pc[t] = "idle" /\ InSection(t) /\ nest[rec[t]] < inst.nests
  /\ nest' = [nest EXCEPT ![rec[t]] = @ + 1]
  /\ UNCHANGED <<inst, gpVars, ctl, recVars, memVars, retireVars, syncVars, mailVars, dispVars,
                 buf, pc, node, word>>

\* access_unlock; what was read in the section is no longer used after the outermost.
AccessUnlock(t) ==
  /\ pc[t] = "idle" /\ InSection(t)
  /\ nest' = [nest EXCEPT ![rec[t]] = @ - 1]
  /\ ctl' = [ctl EXCEPT ![rec[t]] = IF nest[rec[t]] = 1 THEN 0 ELSE @]
  /\ hold' = [hold EXCEPT ![t] = IF nest[rec[t]] = 1 THEN {} ELSE @]
  /\ UNCHANGED <<inst, gpVars, recVars, mem, retireVars, syncVars, mailVars, dispVars,
                 buf, pc, node, word>>

-----------------------------------------------------------------------------
(* The clients: containers that link, read, unlink and retire objects *)

Read(t, o) ==
  /\ pc[t] = "idle" /\ InSection(t) /\ mem[o] = "linked"
  /\ hold' = [hold EXCEPT ![t] = @ \cup {o}]
  /\ UNCHANGED <<inst, gpVars, accessVars, recVars, mem, retireVars, syncVars, mailVars, dispVars,
                 buf, pc, node, word>>

Link(t, o) ==
  /\ pc[t] = "idle" /\ mem[o] = "free"
  /\ mem' = [mem EXCEPT ![o] = "linked"]
  /\ UNCHANGED <<inst, gpVars, accessVars, recVars, hold, retireVars, syncVars, mailVars, dispVars,
                 buf, pc, node, word>>

Unlink(t, o) ==
  /\ pc[t] = "idle" /\ mem[o] = "linked"
  /\ m_nCurEpoch < FirstEpoch + inst.syncs
  /\ mem' = [mem EXCEPT ![o] = "retired"]
  /\ todo' = [todo EXCEPT ![t] = @ \cup {o}]
  /\ UNCHANGED <<inst, gpVars, accessVars, recVars, hold, epoch, ep, unpushed, syncVars, mailVars, dispVars,
                 buf, pc, node, word>>

-----------------------------------------------------------------------------
(* retire_ptr and batch_retire, of what the thread has unlinked *)

\* general_instant synchronizes once and then frees the whole chain.
RetireInstant(t) ==
  /\ scheme = "instant"
  /\ pc[t] = "idle" /\ ~InSection(t) /\ todo[t] # {}
  /\ unpushed' = [unpushed EXCEPT ![t] = todo[t]]
  /\ todo' = [todo EXCEPT ![t] = {}]
  /\ Goto(t, "sync")
  /\ UNCHANGED <<inst, gpVars, accessVars, recVars, memVars, epoch, ep, syncVars, mailVars, dispVars,
                 buf, node, word>>

\* The buffered schemes load the epoch once for the whole chain.
RetireEpoch(t) ==
  /\ scheme # "instant"
  /\ pc[t] = "idle" /\ ~InSection(t) /\ todo[t] # {}
  /\ epoch' = [o \in Obj |-> IF o \in todo[t] THEN m_nCurEpoch ELSE epoch[o]]
  /\ Goto(t, "next")
  /\ UNCHANGED <<inst, gpVars, accessVars, recVars, memVars, todo, ep, unpushed, syncVars, mailVars, dispVars,
                 buf, node, word>>

RetireNext(t, o) ==
  /\ pc[t] = "next" /\ o \in todo[t]
  /\ ep' = [ep EXCEPT ![t] = o]
  /\ todo' = [todo EXCEPT ![t] = @ \ {o}]
  /\ Goto(t, "push")
  /\ UNCHANGED <<inst, gpVars, accessVars, recVars, memVars, epoch, unpushed, syncVars, mailVars, dispVars,
                 buf, node, word>>

RetireDone(t) ==
  /\ pc[t] = "next" /\ todo[t] = {}
  /\ nEpoch' = [nEpoch EXCEPT ![t] = 0]
  /\ Goto(t, "idle")
  /\ UNCHANGED <<inst, gpVars, accessVars, recVars, memVars, retireVars, flips, bSync, mailVars, dispVars,
                 buf, node, word>>

\* size() of a queue without item counter is always 0.
Full(q) == inst.counting /\ Len(q) >= Capacity

\* Mutant of PushBuffer: one pointer too many goes into the buffer.
PushBufferOver(t) ==
  /\ pc[t] = "push" /\ Len(buf) <= Capacity
  /\ buf' = Append(buf, ep[t])
  /\ ep' = [ep EXCEPT ![t] = none]
  /\ Goto(t, IF Full(buf') THEN "sync" ELSE "return")
  /\ UNCHANGED <<inst, gpVars, accessVars, recVars, memVars, epoch, todo, unpushed, syncVars, mailVars, dispVars,
                 node, word>>

PushBuffer(t) ==
  /\ pc[t] = "push" /\ Len(buf) < Capacity
  /\ buf' = Append(buf, ep[t])
  /\ ep' = [ep EXCEPT ![t] = none]
  /\ Goto(t, IF Full(buf') THEN "sync" ELSE "return")
  /\ UNCHANGED <<inst, gpVars, accessVars, recVars, memVars, epoch, todo, unpushed, syncVars, mailVars, dispVars,
                 node, word>>

\* Mutant of PushFails: the pointer that push() refused is forgotten.
PushFailsLost(t) ==
  /\ pc[t] = "push" /\ Len(buf) >= Capacity
  /\ ep' = [ep EXCEPT ![t] = none]
  /\ Goto(t, "sync")
  /\ UNCHANGED <<inst, gpVars, accessVars, recVars, memVars, epoch, todo, unpushed, syncVars, mailVars, dispVars,
                 buf, node, word>>

\* m_Buffer.push fails: the pointer is freed by its own thread, after synchronize().
PushFails(t) ==
  /\ pc[t] = "push" /\ Len(buf) >= Capacity
  /\ unpushed' = [unpushed EXCEPT ![t] = @ \cup {ep[t]}]
  /\ ep' = [ep EXCEPT ![t] = none]
  /\ Goto(t, "sync")
  /\ UNCHANGED <<inst, gpVars, accessVars, recVars, memVars, epoch, todo, syncVars, mailVars, dispVars,
                 buf, node, word>>

\* synchronize() has returned; so have the calls of push_buffer it was made from.
ReturnFree(t, o) ==
  /\ pc[t] = "return" /\ o \in unpushed[t]
  /\ Free({o})
  /\ unpushed' = [unpushed EXCEPT ![t] = @ \ {o}]
  /\ UNCHANGED <<inst, gpVars, accessVars, recVars, hold, todo, ep, syncVars, mailVars, dispVars,
                 buf, pc, node, word>>

Return(t) ==
  /\ pc[t] = "return" /\ unpushed[t] = {}
  /\ Goto(t, "next")
  /\ UNCHANGED <<inst, gpVars, accessVars, recVars, memVars, retireVars, syncVars, mailVars, dispVars,
                 buf, node, word>>

-----------------------------------------------------------------------------
(* synchronize *)

\* A client calls synchronize(), or force_dispose() of general_threaded.
Synchronize(t, b) ==
  /\ pc[t] = "idle" /\ ~InSection(t) /\ todo[t] = {}
  /\ m_nCurEpoch < FirstEpoch + inst.syncs
  /\ b => scheme = "threaded"
  /\ bSync' = [bSync EXCEPT ![t] = b]
  /\ Goto(t, "sync")
  /\ UNCHANGED <<inst, gpVars, accessVars, recVars, memVars, retireVars, flips, nEpoch, mailVars, dispVars,
                 buf, node, word>>

FetchAddEpoch(t) ==
  /\ nEpoch' = [nEpoch EXCEPT ![t] = m_nCurEpoch]
  /\ m_nCurEpoch' = m_nCurEpoch + 1

\* general_threaded takes its epoch before the lock ...
SyncEpoch(t) ==
  /\ scheme = "threaded" /\ pc[t] = "sync"
  /\ FetchAddEpoch(t)
  /\ Goto(t, "mutex")
  /\ UNCHANGED <<inst, bit, lock, accessVars, recVars, memVars, retireVars, flips, bSync, mailVars, dispVars,
                 buf, node, word>>

\* ... and general_buffered under it.
SyncLock(t) ==
  /\ pc[t] = IF scheme = "threaded" THEN "mutex" ELSE "sync"
  /\ lock = none
  /\ lock' = t
  /\ IF scheme = "buffered" THEN FetchAddEpoch(t) ELSE UNCHANGED <<nEpoch, m_nCurEpoch>>
  /\ Goto(t, "flip")
  /\ UNCHANGED <<inst, bit, accessVars, recVars, memVars, retireVars, flips, bSync, mailVars, dispVars,
                 buf, node, word>>

\* flip_and_wait: the fetch_xor, and the head of m_ThreadList.
Flip(t) ==
  /\ pc[t] = "flip"
  /\ bit' = 1 - bit
  /\ node' = [node EXCEPT ![t] = list]
  /\ flips' = [flips EXCEPT ![t] = @ + 1]
  /\ Goto(t, "wait")
  /\ UNCHANGED <<inst, lock, m_nCurEpoch, accessVars, recVars, memVars, retireVars, nEpoch, bSync, mailVars, dispVars,
                 buf, word>>

\* Mutant of check_grace_period: a section entered after the flip is waited for too.
check_grace_any(r) == nest[r] > 0

check_grace_period(r) == nest[r] > 0 /\ ctl[r] # bit

\* The loop over the records leaves one behind.
Wait(t) ==
  /\ pc[t] = "wait" /\ node[t] # 0
  /\ owner[node[t]] = none \/ ~check_grace_period(node[t])
  /\ node' = [node EXCEPT ![t] = @ - 1]
  /\ UNCHANGED <<inst, gpVars, accessVars, recVars, memVars, retireVars, syncVars, mailVars, dispVars,
                 buf, pc, word>>

WaitAgain(t) ==
  /\ pc[t] = "wait" /\ node[t] = 0 /\ flips[t] < 2
  /\ Goto(t, "flip")
  /\ UNCHANGED <<inst, gpVars, accessVars, recVars, memVars, retireVars, syncVars, mailVars, dispVars,
                 buf, node, word>>

AfterSync == CASE scheme = "instant"  -> "return"
               [] scheme = "buffered" -> "clear"
               [] OTHER               -> "dispose"

\* Mutant of SyncUnlock: one flip_and_wait instead of two.
SyncUnlockOnce(t) ==
  /\ pc[t] = "wait" /\ node[t] = 0 /\ flips[t] >= 1
  /\ flips' = [flips EXCEPT ![t] = 0]
  /\ lock' = none
  /\ Goto(t, AfterSync)
  /\ UNCHANGED <<inst, bit, m_nCurEpoch, accessVars, recVars, memVars, retireVars, nEpoch, bSync, mailVars, dispVars,
                 buf, node, word>>

SyncUnlock(t) ==
  /\ pc[t] = "wait" /\ node[t] = 0 /\ flips[t] = 2
  /\ flips' = [flips EXCEPT ![t] = 0]
  /\ lock' = none
  /\ Goto(t, AfterSync)
  /\ UNCHANGED <<inst, bit, m_nCurEpoch, accessVars, recVars, memVars, retireVars, nEpoch, bSync, mailVars, dispVars,
                 buf, node, word>>

-----------------------------------------------------------------------------
(* clear_buffer *)

ClearPop(t) ==
  /\ pc[t] = "clear" /\ buf # <<>>
  /\ ep' = [ep EXCEPT ![t] = Head(buf)]
  /\ buf' = Tail(buf)
  /\ Goto(t, "popped")
  /\ UNCHANGED <<inst, gpVars, accessVars, recVars, memVars, epoch, todo, unpushed, syncVars, mailVars, dispVars,
                 node, word>>

ClearFree(t) ==
  /\ pc[t] = "popped" /\ epoch[ep[t]] <= nEpoch[t]
  /\ Free({ep[t]})
  /\ ep' = [ep EXCEPT ![t] = none]
  /\ Goto(t, "clear")
  /\ UNCHANGED <<inst, gpVars, accessVars, recVars, hold, todo, unpushed, syncVars, mailVars, dispVars,
                 buf, node, word>>

\* Retired in a later epoch: back into the buffer, which may synchronize again.
ClearKeep(t) ==
  /\ pc[t] = "popped" /\ epoch[ep[t]] > nEpoch[t]
  /\ Goto(t, "push")
  /\ UNCHANGED <<inst, gpVars, accessVars, recVars, memVars, retireVars, syncVars, mailVars, dispVars,
                 buf, node, word>>

ClearEmpty(t) ==
  /\ pc[t] = "clear" /\ buf = <<>>
  /\ Goto(t, "return")
  /\ UNCHANGED <<inst, gpVars, accessVars, recVars, memVars, retireVars, syncVars, mailVars, dispVars,
                 buf, node, word>>

-----------------------------------------------------------------------------
(* dispose_thread: dispose(), called by the application's threads *)

\* m_cvReady.wait, from either of the two loops.
DisposeSleep(t) ==
  /\ ~m_bReady
  /\ \/ pc[t] = "dispose" /\ Goto(t, "asleep")
     \/ pc[t] = "await"   /\ Goto(t, "dozing")
  /\ UNCHANGED <<inst, gpVars, accessVars, recVars, memVars, retireVars, syncVars, mailVars, dispVars,
                 buf, node, word>>

DisposeGive(t) ==
  /\ pc[t] = "dispose" /\ m_bReady
  /\ m_bReady' = FALSE
  /\ task' = nEpoch[t]
  /\ m_pBuffer' = TRUE
  /\ Goto(t, IF bSync[t] THEN "await" ELSE "return")
  /\ UNCHANGED <<inst, gpVars, accessVars, recVars, memVars, retireVars, syncVars, dispVars,
                 buf, node, word>>

DisposeAwaited(t) ==
  /\ pc[t] = "await" /\ m_bReady
  /\ bSync' = [bSync EXCEPT ![t] = FALSE]
  /\ Goto(t, "return")
  /\ UNCHANGED <<inst, gpVars, accessVars, recVars, memVars, retireVars, flips, nEpoch, mailVars, dispVars,
                 buf, node, word>>

-----------------------------------------------------------------------------
(* dispose_thread: execute(), run by the reclamation thread *)

ExecuteReady ==
  /\ scheme = "threaded" /\ dpc = "start"
  /\ m_bReady' = TRUE
  /\ dpc' = "notify"
  /\ UNCHANGED <<inst, gpVars, accessVars, recVars, memVars, retireVars, syncVars, m_pBuffer, task, nCurEpoch,
                 buf, pc, node, word>>

\* m_cvReady.notify_one wakes one of the threads asleep, whichever loop it is in.
ExecuteNotify ==
  LET sleepers == {t \in Thread : pc[t] \in {"asleep", "dozing"}}
  IN  /\ dpc = "notify"
      /\ dpc' = "wait"
      /\ \/ sleepers = {} /\ UNCHANGED pc
         \/ \E t \in sleepers : Goto(t, IF pc[t] = "asleep" THEN "dispose" ELSE "await")
      /\ UNCHANGED <<inst, gpVars, accessVars, recVars, memVars, retireVars, syncVars, mailVars, nCurEpoch,
                     buf, node, word>>

ExecuteTake ==
  /\ dpc = "wait" /\ m_pBuffer
  /\ m_bReady' = FALSE
  /\ m_pBuffer' = FALSE
  /\ nCurEpoch' = task
  /\ task' = 0
  /\ dpc' = "pass"
  /\ UNCHANGED <<inst, gpVars, accessVars, recVars, memVars, retireVars, syncVars,
                 buf, pc, node, word>>

\* Mutant of ExecuteFree: the pointer that was freed is not popped.
ExecuteFreeKeep ==
  /\ dpc = "pass" /\ buf # <<>> /\ epoch[Head(buf)] <= nCurEpoch
  /\ Free({Head(buf)})
  /\ UNCHANGED <<inst, gpVars, accessVars, recVars, hold, todo, ep, unpushed, syncVars, mailVars, dispVars,
                 buf, pc, node, word>>

\* dispose_buffer; only this thread looks at the front of the buffer.
ExecuteFree ==
  /\ dpc = "pass" /\ buf # <<>> /\ epoch[Head(buf)] <= nCurEpoch
  /\ Free({Head(buf)})
  /\ buf' = Tail(buf)
  /\ UNCHANGED <<inst, gpVars, accessVars, recVars, hold, todo, ep, unpushed, syncVars, mailVars, dispVars,
                 pc, node, word>>

ExecutePassed ==
  /\ dpc = "pass"
  /\ buf # <<>> => epoch[Head(buf)] > nCurEpoch
  /\ nCurEpoch' = 0
  /\ dpc' = "start"
  /\ UNCHANGED <<inst, gpVars, accessVars, recVars, memVars, retireVars, syncVars, mailVars,
                 buf, pc, node, word>>

-----------------------------------------------------------------------------
(* Destruct, after every thread has detached, frees what is left in the buffer:
   the caller does in general_buffered, the reclamation thread that stop() waits
   for in general_threaded.  Construct builds a new instance of the same scheme. *)
Destruct ==
  /\ \A t \in Thread : pc[t] = "detached"
  /\ scheme = "threaded" => m_bReady
  /\ Free({buf[i] : i \in 1 .. Len(buf)})
  /\ buf' = <<>>
  /\ list' = 0
  /\ ctl' = [r \in Rec |-> 0]
  /\ bit' = 0
  /\ m_nCurEpoch' = FirstEpoch
  /\ dpc' = "start" /\ m_bReady' = FALSE
  /\ UNCHANGED <<inst, lock, nest, owner, rec, hold, todo, ep, unpushed, syncVars, m_pBuffer, task, nCurEpoch,
                 pc, node, word>>

-----------------------------------------------------------------------------
GraceStep(t) ==
  Flip(t) \/ Wait(t) \/ WaitAgain(t) \/ SyncUnlock(t)

RetireStep(t) ==
  \/ RetireInstant(t) \/ RetireEpoch(t) \/ RetireDone(t) \/ PushBuffer(t) \/ PushFails(t)
  \/ Return(t)
  \/ \E o \in Obj : RetireNext(t, o) \/ ReturnFree(t, o)

SyncStep(t) ==
  \/ SyncEpoch(t) \/ SyncLock(t) \/ GraceStep(t)
  \/ ClearPop(t) \/ ClearFree(t) \/ ClearKeep(t) \/ ClearEmpty(t)
  \/ DisposeSleep(t) \/ DisposeGive(t) \/ DisposeAwaited(t)

ClientStep(t) ==
  \/ Attach(t) \/ AttachSkip(t) \/ AttachReuse(t) \/ AttachNew(t) \/ Detach(t)
  \/ AccessLoad(t) \/ AccessStore(t) \/ AccessNested(t) \/ AccessUnlock(t)
  \/ \E o \in Obj : Read(t, o) \/ Link(t, o) \/ Unlink(t, o)
  \/ \E b \in BOOLEAN : Synchronize(t, b)

Execute ==
  ExecuteReady \/ ExecuteNotify \/ ExecuteTake \/ ExecuteFree \/ ExecutePassed

Next ==
  \/ \E t \in Thread : ClientStep(t) \/ RetireStep(t) \/ SyncStep(t)
  \/ Execute
  \/ Destruct

Spec == Init /\ [][Next]_vars

(* The thread that holds m_Lock keeps running, and no read-side section lasts for
   ever: its thread comes to the outermost access_unlock. *)
FairSpec ==
  /\ Spec
  /\ \A t \in Thread : WF_vars(GraceStep(t)) /\ []<>~InSection(t)

-----------------------------------------------------------------------------
(* Properties *)

Labels == {"detached", "attach", "idle", "access", "next", "push", "return", "sync", "mutex", "flip",
           "wait", "clear", "popped", "dispose", "asleep", "await", "dozing"}

\* Every variable keeps the type its C++ declaration gives it.
TypeOK ==
  /\ inst \in Instances
  /\ bit \in 0 .. 1 /\ lock \in Thread \cup {none} /\ m_nCurEpoch \in Nat
  /\ list \in 0 .. MaxRecords
  /\ owner \in [Rec -> Thread \cup {none}]
  /\ nest \in [Rec -> 0 .. inst.nests] /\ ctl \in [Rec -> 0 .. 1]
  /\ buf \in Seq(Obj) /\ Len(buf) <= Capacity
  /\ epoch \in [Obj -> Nat]
  /\ mem \in [Obj -> {"free", "linked", "retired"}]
  /\ hold \in [Thread -> SUBSET Obj]
  /\ pc \in [Thread -> Labels]
  /\ rec \in [Thread -> 0 .. list] /\ node \in [Thread -> 0 .. list]
  /\ word \in [Thread -> 0 .. 1]
  /\ flips \in [Thread -> 0 .. 2] /\ nEpoch \in [Thread -> Nat]
  /\ bSync \in [Thread -> BOOLEAN]
  /\ todo \in [Thread -> SUBSET Obj] /\ unpushed \in [Thread -> SUBSET Obj]
  /\ ep \in [Thread -> Obj \cup {none}]
  /\ dpc \in {"start", "notify", "wait", "pass"}
  /\ m_bReady \in BOOLEAN /\ m_pBuffer \in BOOLEAN
  /\ task \in Nat /\ nCurEpoch \in Nat

\* An object a thread has read in its read-side section is not freed before the
\* section ends, whichever thread frees it: flip_and_wait has waited for the section,
\* or p.m_nEpoch <= nEpoch has kept the object.
ReadNotFreed == \A t \in Thread : \A o \in hold[t] : mem[o] # "free"

\* The places a retired pointer can be in the hands of a thread: the chain it is
\* retiring, the pointers push() refused, the one push_buffer or clear_buffer works on.
Places(t) == <<todo[t], unpushed[t], {ep[t]}>>

\* A retired object is in exactly one place: one of the three in the hands of one
\* thread, or one cell of m_Buffer.  Neither a full buffer nor the object clear_buffer
\* puts back loses it, and two threads that clear at once do not share it.
RetiredOnce ==
  \A o \in Obj : mem[o] = "retired" =>
    LET hands == {p \in Thread \X (1 .. 3) : o \in Places(p[1])[p[2]]}
        cells == {i \in 1 .. Len(buf) : buf[i] = o}
    IN  \/ \E p \in hands : hands = {p} /\ cells = {}
        \/ \E i \in cells : cells = {i} /\ hands = {}

\* A grace period ends: the thread in flip_and_wait gets past every record although
\* readers keep entering new sections, because they copy the control bit it has flipped.
GraceEnds == \A t \in Thread : lock = t ~> lock # t

-----------------------------------------------------------------------------
(* The general-purpose RCU implements SafeReclamation: what a thread has read in its
   section is protected as long as the section lasts. *)
Protects == [g \in Thread \X Obj |-> IF g[2] \in hold[g[1]] THEN g[2] ELSE none]

SMR == INSTANCE SafeReclamation WITH
         Guard <- Thread \X Obj, None <- none, status <- mem, protects <- Protects

\* Every step of the three schemes is a step of the reclamation the containers are
\* written against, or changes nothing they can see.
ImplementsSMR == SMR!Spec
=============================================================================
