---------------------------- MODULE HazardPointer ----------------------------
(***************************************************************************)
(* cds::gc::HP, the Hazard Pointer reclamation scheme: basic_smr and       *)
(* generic_smr (src/cds/gc/hp.h, src/src/hp.cpp), the per-thread storage   *)
(* (src/cds/gc/details/hp_common.h) and the Guard operations.              *)
(*                                                                         *)
(* A pointer is its address, a natural number; nullptr is 0 and the low    *)
(* bit of an address is the one inplace_scan borrows as a mark.            *)
(*                                                                         *)
(* A thread record is never unlinked from thread_list_ and is always       *)
(* pushed in front, so a record is named by its distance from the end of   *)
(* the list: next_ of record r is r - 1 and the head is the record count.  *)
(*                                                                         *)
(* Shared memory is sequentially consistent.  A store to a hazard slot and *)
(* the sync() after it are one step: the fetch_add is what makes the store *)
(* visible before the pointer is read again.                               *)
(***************************************************************************)
EXTENDS Integers, Sequences

CONSTANTS
  Thread,              \* threads of the application
  Obj,                 \* addresses an object can be allocated at
  Cell,                \* shared atomic pointers of the containers
  nHazardPtrCount,     \* parameters of basic_smr::construct
  nMaxThreadCount,
  nMaxRetiredPtrCount,
  ScanType,            \* "inplace" or "classic"
  CopyPairs,           \* <<src, dest>> slots that containers copy guards between
  MaxRecords           \* bound: thread records ever linked

nullptr == 0

hazard_ptr_count == IF nHazardPtrCount = 0 THEN 8 ELSE nHazardPtrCount

max_thread_count == IF nMaxThreadCount = 0 THEN 100 ELSE nMaxThreadCount

\* calc_retired_size: a capacity below one cell per hazard pointer is replaced.
max_retired_ptr_count ==
  LET min_size == hazard_ptr_count * max_thread_count
  IN  IF nMaxRetiredPtrCount < min_size THEN min_size * 2 ELSE nMaxRetiredPtrCount

Slot == 1 .. hazard_ptr_count
Rec  == 1 .. MaxRecords
Ptr  == Obj \cup {nullptr}

ASSUME ConstantsAssumption ==
  /\ Obj \subseteq Nat \ {0}
  /\ nHazardPtrCount \in Nat
  /\ nMaxThreadCount \in Nat
  /\ nMaxRetiredPtrCount \in Nat
  /\ MaxRecords \in Nat
  /\ ScanType \in {"inplace", "classic"}
  /\ CopyPairs \subseteq Slot \X Slot
  /\ Cell # {}

VARIABLES
  thread_list,  \* head of the list of records = number of records
  owner,        \* owner_rec_ # nullptr, per record
  free,         \* free_, per record
  hazards,      \* hazards_: record -> slot -> pointer
  retired,      \* retired_: record -> sequence of pointers
  cell,         \* the containers' shared pointers
  mem,          \* what an address holds: "free", "linked" or "retired"
  valid,        \* a slot whose protect() has returned: its owner dereferences it
  pc, ret,      \* where a thread is, and where its scan() returns to
  rec,          \* the thread's own record (pRec, pThis); 0 when detached
  hprec,        \* record reached by alloc_thread_data or help_scan
  hidx,         \* src_first in help_scan
  pCur, gidx, gcell, \* locals of Guard::protect
  mode,         \* the scan function running
  node, slot,   \* pNode and the slot scan() reads next; slot 0 reads owner_rec_
  plist,        \* retired pointers found to be hazards
  it, ins       \* it and insert_pos of the compaction loop

smrVars     == <<thread_list, owner, free>>
clientVars  == <<cell, mem, valid>>
protectVars == <<pCur, gidx, gcell>>
helpVars    == <<rec, hprec, hidx>>
scanVars    == <<mode, node, slot, plist, it, ins>>
vars == <<smrVars, hazards, retired, clientVars, pc, ret, helpVars, protectVars, scanVars>>

Init ==
  /\ thread_list = 0
  /\ owner   = [r \in Rec |-> FALSE]
  /\ free    = [r \in Rec |-> FALSE]
  /\ hazards = [r \in Rec |-> [i \in Slot |-> nullptr]]
  /\ retired = [r \in Rec |-> <<>>]
  /\ cell    = [c \in Cell |-> nullptr]
  /\ mem     = [o \in Obj |-> "free"]
  /\ valid   = [r \in Rec |-> [i \in Slot |-> FALSE]]
  /\ pc      = [t \in Thread |-> "detached"]
  /\ ret     = [t \in Thread |-> "idle"]
  /\ rec     = [t \in Thread |-> 0]
  /\ hprec   = [t \in Thread |-> 0]
  /\ hidx    = [t \in Thread |-> 0]
  /\ pCur    = [t \in Thread |-> nullptr]
  /\ gidx    = [t \in Thread |-> 0]
  /\ gcell   = [t \in Thread |-> CHOOSE c \in Cell : TRUE]
  /\ mode    = [t \in Thread |-> "inplace"]
  /\ node    = [t \in Thread |-> 0]
  /\ slot    = [t \in Thread |-> 0]
  /\ plist   = [t \in Thread |-> {}]
  /\ it      = [t \in Thread |-> 0]
  /\ ins     = [t \in Thread |-> 0]

Goto(t, l) == pc' = [pc EXCEPT ![t] = l]

\* Call scan(); it returns to label l.
CallScan(t, l) ==
  /\ pc'  = [pc EXCEPT ![t] = "scan"]
  /\ ret' = [ret EXCEPT ![t] = l]

\* retired_array::push writes its pointer to the next cell without looking
\* whether there is one.  A push to a full array writes past its end and what the
\* program does next is undefined: the model has the pushes that find a cell, and
\* RoomLeft says which of them always do.
HasRoom(t) == Len(retired[rec[t]]) < max_retired_ptr_count

\* Mutant of AfterPush: scan() is called one pointer too late.
AfterPushLate(t, l) ==
  /\ pc'  = [pc EXCEPT ![t] = IF Len(retired[rec[t]]) < max_retired_ptr_count THEN l ELSE "scan"]
  /\ ret' = [ret EXCEPT ![t] = l]

\* push tells whether the array has room for one more pointer; its callers scan
\* when it has not, and go on at label l.
AfterPush(t, l) ==
  /\ pc'  = [pc EXCEPT ![t] = IF Len(retired[rec[t]]) + 1 < max_retired_ptr_count THEN l ELSE "scan"]
  /\ ret' = [ret EXCEPT ![t] = l]

-----------------------------------------------------------------------------
(* attach_thread and alloc_thread_data *)

Attach(t) ==
  /\ pc[t] = "detached"
  /\ hprec' = [hprec EXCEPT ![t] = thread_list]
  /\ Goto(t, "alloc")
  /\ UNCHANGED <<smrVars, hazards, retired, clientVars, ret, rec, hidx, protectVars, scanVars>>

\* The CAS on owner_rec_ of one record of the list fails, or takes the record.
AllocSkip(t) ==
  /\ pc[t] = "alloc"
  /\ hprec[t] # 0
  /\ owner[hprec[t]]
  /\ hprec' = [hprec EXCEPT ![t] = @ - 1]
  /\ UNCHANGED <<smrVars, hazards, retired, clientVars, pc, ret, rec, hidx, protectVars, scanVars>>

AllocTake(t) ==
  /\ pc[t] = "alloc"
  /\ hprec[t] # 0
  /\ ~ owner[hprec[t]]
  /\ owner' = [owner EXCEPT ![hprec[t]] = TRUE]
  /\ Goto(t, "reuse")
  /\ UNCHANGED <<thread_list, free, hazards, retired, clientVars, ret, helpVars, protectVars, scanVars>>

\* Mutant of AllocReuse: free_ is not reset.
AllocReuseFree(t) ==
  /\ pc[t] = "reuse"
  /\ rec'   = [rec EXCEPT ![t] = hprec[t]]
  /\ hprec' = [hprec EXCEPT ![t] = 0]
  /\ Goto(t, "idle")
  /\ UNCHANGED <<thread_list, owner, free, hazards, retired, clientVars, ret, hidx, protectVars, scanVars>>

AllocReuse(t) ==
  /\ pc[t] = "reuse"
  /\ free'  = [free EXCEPT ![hprec[t]] = FALSE]
  /\ rec'   = [rec EXCEPT ![t] = hprec[t]]
  /\ hprec' = [hprec EXCEPT ![t] = 0]
  /\ Goto(t, "idle")
  /\ UNCHANGED <<thread_list, owner, hazards, retired, clientVars, ret, hidx, protectVars, scanVars>>

\* No record could be reused: a new one is created and pushed.
AllocNew(t) ==
  /\ pc[t] = "alloc"
  /\ hprec[t] = 0
  /\ thread_list < MaxRecords
  /\ thread_list' = thread_list + 1
  /\ owner'   = [owner EXCEPT ![thread_list + 1] = TRUE]
  /\ free'    = [free EXCEPT ![thread_list + 1] = FALSE]
  /\ hazards' = [hazards EXCEPT ![thread_list + 1] = [i \in Slot |-> nullptr]]
  /\ retired' = [retired EXCEPT ![thread_list + 1] = <<>>]
  /\ rec'     = [rec EXCEPT ![t] = thread_list + 1]
  /\ Goto(t, "idle")
  /\ UNCHANGED <<clientVars, ret, hprec, hidx, protectVars, scanVars>>

-----------------------------------------------------------------------------
(* What a container does with the scheme *)

\* An object is allocated and published in an empty cell.
Link(t, c, o) ==
  /\ pc[t] = "idle"
  /\ cell[c] = nullptr
  /\ mem[o] = "free"
  /\ cell' = [cell EXCEPT ![c] = o]
  /\ mem'  = [mem EXCEPT ![o] = "linked"]
  /\ UNCHANGED <<smrVars, hazards, retired, valid, pc, ret, helpVars, protectVars, scanVars>>

\* A container unlinks the object of cell c, leaving p there (a new object or
\* nullptr), and retires it: retired_.push, and scan() when the array is full.
Retire(t, c, p) ==
  /\ pc[t] = "idle"
  /\ cell[c] # nullptr
  /\ p # nullptr => mem[p] = "free"
  /\ HasRoom(t)
  /\ cell' = [cell EXCEPT ![c] = p]
  /\ mem'  = [o \in Obj |-> CASE o = cell[c] -> "retired"
                              [] o = p       -> "linked"
                              [] OTHER       -> mem[o]]
  /\ retired' = [retired EXCEPT ![rec[t]] = Append(@, cell[c])]
  /\ AfterPush(t, "idle")
  /\ UNCHANGED <<smrVars, hazards, valid, helpVars, protectVars, scanVars>>

\* Guard::protect: load the cell, store it to the slot, and load it again until
\* both loads agree.
Protect(t, i, c) ==
  /\ pc[t] = "idle"
  /\ pCur'  = [pCur EXCEPT ![t] = cell[c]]
  /\ gidx'  = [gidx EXCEPT ![t] = i]
  /\ gcell' = [gcell EXCEPT ![t] = c]
  /\ Goto(t, "assign")
  /\ UNCHANGED <<smrVars, hazards, retired, clientVars, ret, helpVars, scanVars>>

ProtectAssign(t) ==
  /\ pc[t] = "assign"
  /\ hazards' = [hazards EXCEPT ![rec[t]][gidx[t]] = pCur[t]]
  /\ valid'   = [valid EXCEPT ![rec[t]][gidx[t]] = FALSE]
  /\ Goto(t, "check")
  /\ UNCHANGED <<smrVars, retired, cell, mem, ret, helpVars, protectVars, scanVars>>

ProtectRetry(t) ==
  /\ pc[t] = "check"
  /\ cell[gcell[t]] # pCur[t]
  /\ pCur' = [pCur EXCEPT ![t] = cell[gcell[t]]]
  /\ Goto(t, "assign")
  /\ UNCHANGED <<smrVars, hazards, retired, clientVars, ret, helpVars, gidx, gcell, scanVars>>

\* Mutant of ProtectDone: the second load is not compared with the first.
ProtectDoneUnchecked(t) ==
  /\ pc[t] = "check"
  /\ valid' = [valid EXCEPT ![rec[t]][gidx[t]] = (pCur[t] # nullptr)]
  /\ pCur'  = [pCur EXCEPT ![t] = nullptr]
  /\ gidx'  = [gidx EXCEPT ![t] = 0]
  /\ gcell' = [gcell EXCEPT ![t] = CHOOSE c \in Cell : TRUE]
  /\ Goto(t, "idle")
  /\ UNCHANGED <<smrVars, hazards, retired, cell, mem, ret, helpVars, scanVars>>

ProtectDone(t) ==
  /\ pc[t] = "check"
  /\ cell[gcell[t]] = pCur[t]
  /\ valid' = [valid EXCEPT ![rec[t]][gidx[t]] = (pCur[t] # nullptr)]
  /\ pCur'  = [pCur EXCEPT ![t] = nullptr]
  /\ gidx'  = [gidx EXCEPT ![t] = 0]
  /\ gcell' = [gcell EXCEPT ![t] = CHOOSE c \in Cell : TRUE]
  /\ Goto(t, "idle")
  /\ UNCHANGED <<smrVars, hazards, retired, cell, mem, ret, helpVars, scanVars>>

Clear(t, i) ==
  /\ pc[t] = "idle"
  /\ hazards[rec[t]][i] # nullptr
  /\ hazards' = [hazards EXCEPT ![rec[t]][i] = nullptr]
  /\ valid'   = [valid EXCEPT ![rec[t]][i] = FALSE]
  /\ UNCHANGED <<smrVars, retired, cell, mem, pc, ret, helpVars, protectVars, scanVars>>

\* Guard::copy, GuardArray::copy: assign the value of slot i to slot j.
Copy(t, i, j) ==
  /\ pc[t] = "idle"
  /\ hazards' = [hazards EXCEPT ![rec[t]][j] = hazards[rec[t]][i]]
  /\ valid'   = [valid EXCEPT ![rec[t]][j] = valid[rec[t]][i]]
  /\ UNCHANGED <<smrVars, retired, cell, mem, pc, ret, helpVars, protectVars, scanVars>>

-----------------------------------------------------------------------------
(* scan: inplace_scan and classic_scan *)

\* HP::scan, HP::force_dispose.
ForceScan(t) ==
  /\ pc[t] = "idle"
  /\ CallScan(t, "idle")
  /\ UNCHANGED <<smrVars, hazards, retired, clientVars, helpVars, protectVars, scanVars>>

\* std::sort: the array s is a permutation of the array a in increasing order.
SortedFrom(s, a) ==
  /\ \A i, j \in DOMAIN a : i < j => s[i] <= s[j]
  /\ \E p \in [DOMAIN a -> DOMAIN a] :
       /\ \A i, j \in DOMAIN a : p[i] = p[j] => i = j
       /\ \A j \in DOMAIN a : \E i \in DOMAIN a : p[i] = j
       /\ \A i \in DOMAIN a : s[i] = a[p[i]]

HasOddPointer(a) == \E i \in DOMAIN a : a[i] % 2 = 1

Collecting(t, m) ==
  /\ mode'  = [mode EXCEPT ![t] = m]
  /\ node'  = [node EXCEPT ![t] = thread_list]
  /\ slot'  = [slot EXCEPT ![t] = 0]
  /\ plist' = [plist EXCEPT ![t] = {}]
  /\ Goto(t, "collect")
  /\ UNCHANGED <<it, ins>>

\* inplace_scan returns at once when nothing is retired.
ScanNothing(t) ==
  /\ pc[t] = "scan"
  /\ ScanType = "inplace"
  /\ retired[rec[t]] = <<>>
  /\ Goto(t, ret[t])
  /\ UNCHANGED <<smrVars, hazards, retired, clientVars, ret, helpVars, protectVars, scanVars>>

ScanInplace(t) ==
  /\ pc[t] = "scan"
  /\ ScanType = "inplace"
  /\ retired[rec[t]] # <<>>
  /\ ~ HasOddPointer(retired[rec[t]])
  /\ \E s \in [DOMAIN retired[rec[t]] -> Obj] :
       /\ SortedFrom(s, retired[rec[t]])
       /\ retired' = [retired EXCEPT ![rec[t]] = s]
  /\ Collecting(t, "inplace")
  /\ UNCHANGED <<smrVars, hazards, clientVars, ret, helpVars, protectVars>>

ScanClassic(t) ==
  /\ pc[t] = "scan"
  /\ ScanType = "classic" \/ HasOddPointer(retired[rec[t]])
  /\ Collecting(t, "classic")
  /\ UNCHANGED <<smrVars, hazards, retired, clientVars, ret, helpVars, protectVars>>

\* The owner_rec_ of a record is read: a record without owner is passed over.
CollectSkip(t) ==
  /\ pc[t] = "collect"
  /\ node[t] # 0
  /\ slot[t] = 0
  /\ ~ owner[node[t]]
  /\ node' = [node EXCEPT ![t] = @ - 1]
  /\ UNCHANGED <<smrVars, hazards, retired, clientVars, pc, ret, helpVars, protectVars,
                 mode, slot, plist, it, ins>>

CollectOwned(t) ==
  /\ pc[t] = "collect"
  /\ node[t] # 0
  /\ slot[t] = 0
  /\ owner[node[t]]
  /\ slot' = [slot EXCEPT ![t] = 1]
  /\ UNCHANGED <<smrVars, hazards, retired, clientVars, pc, ret, helpVars, protectVars,
                 mode, node, plist, it, ins>>

\* Mutants of CollectSlot: one slot too many is read; the slots are read from the
\* last to the first.
CollectSlotPastEnd(t) ==
  /\ pc[t] = "collect"
  /\ node[t] # 0
  /\ slot[t] # 0
  /\ plist' = [plist EXCEPT ![t] =
       @ \cup {retired[rec[t]][i] : i \in {j \in DOMAIN retired[rec[t]] :
                                              retired[rec[t]][j] = hazards[node[t]][slot[t]]}}]
  /\ slot' = [slot EXCEPT ![t] = IF @ <= hazard_ptr_count THEN @ + 1 ELSE 0]
  /\ node' = [node EXCEPT ![t] = IF slot[t] <= hazard_ptr_count THEN @ ELSE @ - 1]
  /\ UNCHANGED <<smrVars, hazards, retired, clientVars, pc, ret, helpVars, protectVars,
                 mode, it, ins>>

CollectSlotBackwards(t) ==
  /\ pc[t] = "collect"
  /\ node[t] # 0
  /\ slot[t] # 0
  /\ plist' = [plist EXCEPT ![t] =
       @ \cup {retired[rec[t]][i] : i \in {j \in DOMAIN retired[rec[t]] :
                retired[rec[t]][j] = hazards[node[t]][hazard_ptr_count + 1 - slot[t]]}}]
  /\ slot' = [slot EXCEPT ![t] = IF @ < hazard_ptr_count THEN @ + 1 ELSE 0]
  /\ node' = [node EXCEPT ![t] = IF slot[t] < hazard_ptr_count THEN @ ELSE @ - 1]
  /\ UNCHANGED <<smrVars, hazards, retired, clientVars, pc, ret, helpVars, protectVars,
                 mode, it, ins>>

\* The slots of a record are read from the first to the last.  A hazard that is
\* one of the scanned retired pointers is remembered: marked in the array by
\* inplace_scan, found by binary search of plist in classic_scan.
CollectSlot(t) ==
  /\ pc[t] = "collect"
  /\ node[t] # 0
  /\ slot[t] # 0
  /\ plist' = [plist EXCEPT ![t] =
       @ \cup {retired[rec[t]][i] : i \in {j \in DOMAIN retired[rec[t]] :
                                              retired[rec[t]][j] = hazards[node[t]][slot[t]]}}]
  /\ slot' = [slot EXCEPT ![t] = IF @ < hazard_ptr_count THEN @ + 1 ELSE 0]
  /\ node' = [node EXCEPT ![t] = IF slot[t] < hazard_ptr_count THEN @ ELSE @ - 1]
  /\ UNCHANGED <<smrVars, hazards, retired, clientVars, pc, ret, helpVars, protectVars,
                 mode, it, ins>>

CollectDone(t) ==
  /\ pc[t] = "collect"
  /\ node[t] = 0
  /\ it'  = [it EXCEPT ![t] = 1]
  /\ ins' = [ins EXCEPT ![t] = 1]
  /\ Goto(t, "compact")
  /\ UNCHANGED <<smrVars, hazards, retired, clientVars, ret, helpVars, protectVars,
                 mode, node, slot, plist>>

\* The pointer the compaction loop looks up: classic_scan always looks up the
\* first cell of the array, inplace_scan tests the mark of the current one.
Examined(t) == retired[rec[t]][IF mode[t] = "classic" THEN 1 ELSE it[t]]

\* Mutant of CompactKeep: insert_pos is not advanced.
CompactKeepOver(t) ==
  /\ pc[t] = "compact"
  /\ it[t] <= Len(retired[rec[t]])
  /\ Examined(t) \in plist[t]
  /\ retired' = [retired EXCEPT ![rec[t]][ins[t]] = retired[rec[t]][it[t]]]
  /\ it'  = [it EXCEPT ![t] = @ + 1]
  /\ UNCHANGED <<smrVars, hazards, clientVars, pc, ret, helpVars, protectVars,
                 mode, node, slot, plist, ins>>

CompactKeep(t) ==
  /\ pc[t] = "compact"
  /\ it[t] <= Len(retired[rec[t]])
  /\ Examined(t) \in plist[t]
  /\ retired' = [retired EXCEPT ![rec[t]][ins[t]] = retired[rec[t]][it[t]]]
  /\ it'  = [it EXCEPT ![t] = @ + 1]
  /\ ins' = [ins EXCEPT ![t] = @ + 1]
  /\ UNCHANGED <<smrVars, hazards, clientVars, pc, ret, helpVars, protectVars,
                 mode, node, slot, plist>>

\* retired_ptr::free: the disposer is called and the address may be reused.
CompactFree(t) ==
  /\ pc[t] = "compact"
  /\ it[t] <= Len(retired[rec[t]])
  /\ Examined(t) \notin plist[t]
  /\ mem' = [mem EXCEPT ![retired[rec[t]][it[t]]] = "free"]
  /\ it'  = [it EXCEPT ![t] = @ + 1]
  /\ UNCHANGED <<smrVars, hazards, retired, cell, valid, pc, ret, helpVars, protectVars,
                 mode, node, slot, plist, ins>>

\* Mutant of ScanReturn: the array is not reset to the pointers that were kept.
ScanReturnFull(t) ==
  /\ pc[t] = "compact"
  /\ it[t] > Len(retired[rec[t]])
  /\ plist' = [plist EXCEPT ![t] = {}]
  /\ it'    = [it EXCEPT ![t] = 0]
  /\ ins'   = [ins EXCEPT ![t] = 0]
  /\ Goto(t, ret[t])
  /\ UNCHANGED <<smrVars, hazards, retired, clientVars, ret, helpVars, protectVars, mode, node, slot>>

\* retired_.reset, and scan() returns.
ScanReturn(t) ==
  /\ pc[t] = "compact"
  /\ it[t] > Len(retired[rec[t]])
  /\ retired' = [retired EXCEPT ![rec[t]] = SubSeq(@, 1, ins[t] - 1)]
  /\ plist' = [plist EXCEPT ![t] = {}]
  /\ it'    = [it EXCEPT ![t] = 0]
  /\ ins'   = [ins EXCEPT ![t] = 0]
  /\ Goto(t, ret[t])
  /\ UNCHANGED <<smrVars, hazards, clientVars, ret, helpVars, protectVars, mode, node, slot>>

-----------------------------------------------------------------------------
(* detach_thread: free_thread_data and help_scan *)

Detach(t) ==
  /\ pc[t] = "idle"
  /\ hazards' = [hazards EXCEPT ![rec[t]] = [i \in Slot |-> nullptr]]
  /\ valid'   = [valid EXCEPT ![rec[t]] = [i \in Slot |-> FALSE]]
  /\ CallScan(t, "help")
  /\ UNCHANGED <<smrVars, retired, cell, mem, helpVars, protectVars, scanVars>>

HelpScan(t) ==
  /\ pc[t] = "help"
  /\ hprec' = [hprec EXCEPT ![t] = thread_list]
  /\ Goto(t, "walk")
  /\ UNCHANGED <<smrVars, hazards, retired, clientVars, ret, rec, hidx, protectVars, scanVars>>

\* Our own record and records whose free_ is set are passed over.
HelpSkip(t) ==
  /\ pc[t] = "walk"
  /\ hprec[t] # 0
  /\ hprec[t] = rec[t] \/ free[hprec[t]]
  /\ hprec' = [hprec EXCEPT ![t] = @ - 1]
  /\ UNCHANGED <<smrVars, hazards, retired, clientVars, pc, ret, rec, hidx, protectVars, scanVars>>

HelpLook(t) ==
  /\ pc[t] = "walk"
  /\ hprec[t] \notin {0, rec[t]}
  /\ ~ free[hprec[t]]
  /\ Goto(t, "own")
  /\ UNCHANGED <<smrVars, hazards, retired, clientVars, ret, helpVars, protectVars, scanVars>>

\* Mutant of HelpBusy: help_scan waits for the owner instead of passing on.
HelpBusyWait(t) ==
  /\ pc[t] = "own"
  /\ owner[hprec[t]]
  /\ Goto(t, "walk")
  /\ UNCHANGED <<smrVars, hazards, retired, clientVars, ret, helpVars, protectVars, scanVars>>

\* The load of owner_rec_ and the CAS: a record with an owner is passed over, one
\* without is taken.
HelpBusy(t) ==
  /\ pc[t] = "own"
  /\ owner[hprec[t]]
  /\ hprec' = [hprec EXCEPT ![t] = @ - 1]
  /\ Goto(t, "walk")
  /\ UNCHANGED <<smrVars, hazards, retired, clientVars, ret, rec, hidx, protectVars, scanVars>>

\* Mutant of HelpTake: owner_rec_ is tested but not taken.
HelpTakeUnowned(t) ==
  /\ pc[t] = "own"
  /\ ~ owner[hprec[t]]
  /\ hidx'  = [hidx EXCEPT ![t] = 1]
  /\ Goto(t, "move")
  /\ UNCHANGED <<smrVars, hazards, retired, clientVars, ret, rec, hprec, protectVars, scanVars>>

HelpTake(t) ==
  /\ pc[t] = "own"
  /\ ~ owner[hprec[t]]
  /\ owner' = [owner EXCEPT ![hprec[t]] = TRUE]
  /\ hidx'  = [hidx EXCEPT ![t] = 1]
  /\ Goto(t, "move")
  /\ UNCHANGED <<thread_list, free, hazards, retired, clientVars, ret, rec, hprec, protectVars, scanVars>>

\* One pointer of the ownerless record is pushed to our array, which is scanned
\* when that fills it.
HelpMove(t) ==
  /\ pc[t] = "move"
  /\ hidx[t] <= Len(retired[hprec[t]])
  /\ HasRoom(t)
  /\ retired' = [retired EXCEPT ![rec[t]] = Append(@, retired[hprec[t]][hidx[t]])]
  /\ hidx' = [hidx EXCEPT ![t] = @ + 1]
  /\ AfterPush(t, "move")
  /\ UNCHANGED <<smrVars, hazards, clientVars, rec, hprec, protectVars, scanVars>>

HelpClear(t) ==
  /\ pc[t] = "move"
  /\ hidx[t] > Len(retired[hprec[t]])
  /\ retired' = [retired EXCEPT ![hprec[t]] = <<>>]
  /\ free'    = [free EXCEPT ![hprec[t]] = TRUE]
  /\ hidx'    = [hidx EXCEPT ![t] = 0]
  /\ Goto(t, "release")
  /\ UNCHANGED <<thread_list, owner, hazards, clientVars, ret, rec, hprec, protectVars, scanVars>>

HelpRelease(t) ==
  /\ pc[t] = "release"
  /\ owner' = [owner EXCEPT ![hprec[t]] = FALSE]
  /\ hprec' = [hprec EXCEPT ![t] = @ - 1]
  /\ CallScan(t, "walk")
  /\ UNCHANGED <<thread_list, free, hazards, retired, clientVars, rec, hidx, protectVars, scanVars>>

\* help_scan has walked the list: the record is given up.
Detached(t) ==
  /\ pc[t] = "walk"
  /\ hprec[t] = 0
  /\ owner' = [owner EXCEPT ![rec[t]] = FALSE]
  /\ rec'   = [rec EXCEPT ![t] = 0]
  /\ ret'   = [ret EXCEPT ![t] = "idle"]
  /\ Goto(t, "detached")
  /\ UNCHANGED <<thread_list, free, hazards, retired, clientVars, hprec, hidx, protectVars, scanVars>>

\* basic_smr::destruct with every thread detached: whatever is still retired is
\* freed and the records are destroyed; construct() starts over.
Destruct ==
  /\ \A t \in Thread : pc[t] = "detached"
  /\ thread_list # 0
  /\ mem' = [o \in Obj |-> IF \E r \in 1 .. thread_list : \E i \in DOMAIN retired[r] : retired[r][i] = o
                             THEN "free" ELSE mem[o]]
  /\ thread_list' = 0
  /\ owner'   = [r \in Rec |-> FALSE]
  /\ free'    = [r \in Rec |-> FALSE]
  /\ hazards' = [r \in Rec |-> [i \in Slot |-> nullptr]]
  /\ retired' = [r \in Rec |-> <<>>]
  /\ UNCHANGED <<cell, valid, pc, ret, helpVars, protectVars, scanVars>>

-----------------------------------------------------------------------------
ScanStep(t) ==
  \/ ScanNothing(t) \/ ScanInplace(t) \/ ScanClassic(t)
  \/ CollectSkip(t) \/ CollectOwned(t) \/ CollectSlot(t) \/ CollectDone(t)
  \/ CompactKeep(t) \/ CompactFree(t) \/ ScanReturn(t)

HelpStep(t) ==
  \/ HelpScan(t) \/ HelpSkip(t) \/ HelpLook(t) \/ HelpBusy(t) \/ HelpTake(t) \/ HelpMove(t)
  \/ HelpClear(t) \/ HelpRelease(t) \/ Detached(t)

AllocStep(t) == AllocSkip(t) \/ AllocTake(t) \/ AllocReuse(t) \/ AllocNew(t)

ClientStep(t) ==
  \/ \E c \in Cell, o \in Obj : Link(t, c, o)
  \/ \E c \in Cell, p \in Ptr : Retire(t, c, p)
  \/ \E i \in Slot, c \in Cell : Protect(t, i, c)
  \/ ProtectAssign(t)
  \/ ProtectRetry(t) \/ ProtectDone(t)
  \/ \E i \in Slot : Clear(t, i)
  \/ \E p \in CopyPairs : Copy(t, p[1], p[2])
  \/ ForceScan(t)

Next ==
  \/ \E t \in Thread : Attach(t) \/ AllocStep(t) \/ ClientStep(t)
                         \/ ScanStep(t) \/ Detach(t) \/ HelpStep(t)
  \/ Destruct

Spec == Init /\ [][Next]_vars

\* Fairness: a thread that has started an operation keeps running; nothing
\* obliges it to start one.  alloc_thread_data is left out because the bound
\* MaxRecords may stop it.
FairSpec == Spec /\ \A t \in Thread : WF_vars(ScanStep(t) \/ HelpStep(t))

-----------------------------------------------------------------------------
(* Properties *)

TypeControl ==
  /\ thread_list \in 0 .. MaxRecords
  /\ owner \in [Rec -> BOOLEAN]
  /\ free  \in [Rec -> BOOLEAN]
  /\ pc    \in [Thread -> {"detached", "alloc", "reuse", "idle", "assign", "check", "scan",
                           "collect", "compact", "help", "walk", "own", "move", "release"}]
  /\ ret   \in [Thread -> {"idle", "help", "walk", "move"}]
  /\ rec   \in [Thread -> 0 .. MaxRecords]
  /\ hprec \in [Thread -> 0 .. MaxRecords]

TypeData ==
  /\ hazards \in [Rec -> [Slot -> Ptr]]
  /\ retired \in [Rec -> Seq(Obj)]
  /\ cell    \in [Cell -> Ptr]
  /\ mem     \in [Obj -> {"free", "linked", "retired"}]
  /\ valid   \in [Rec -> [Slot -> BOOLEAN]]
  /\ hidx    \in [Thread -> Nat]
  /\ pCur    \in [Thread -> Ptr]
  /\ gidx    \in [Thread -> Slot \cup {0}]
  /\ gcell   \in [Thread -> Cell]
  /\ mode    \in [Thread -> {"inplace", "classic"}]
  /\ node    \in [Thread -> 0 .. MaxRecords]
  /\ slot    \in [Thread -> Slot \cup {0}]
  /\ plist   \in [Thread -> SUBSET Obj]
  /\ it      \in [Thread -> Nat]
  /\ ins     \in [Thread -> Nat]

\* Every variable keeps its type; in particular a compacted array is still an
\* array of objects.
TypeOK == TypeControl /\ TypeData

\* A thread inside scan(), and one inside the copying loop of help_scan (from
\* which it may have called scan()).
Scanning(t) == pc[t] \in {"scan", "collect", "compact"}
Moving(t)   == pc[t] = "move" \/ (Scanning(t) /\ ret[t] = "move")

\* The cells of the retired array of record r that still stand for an object:
\* not the ones help_scan has copied, nor the ones compaction has gone over.
Open(t, r, i) ==
  /\ Moving(t) /\ hprec[t] = r => i >= hidx[t]
  /\ pc[t] = "compact" /\ rec[t] = r => i < ins[t] \/ i >= it[t]

Live(r) == {i \in DOMAIN retired[r] : \A t \in Thread : Open(t, r, i)}

\* The promise of the scheme: from the moment protect() returns (or a copy of
\* the guard is made) until the slot is overwritten or cleared, the object is
\* not freed, whichever thread retires it and whichever thread scans.
GuardedNotFreed ==
  \A r \in Rec, i \in Slot : valid[r][i] => mem[hazards[r][i]] # "free"

\* No retired object is lost: every object that was retired and not yet freed
\* is in one cell of one retired array, through helping, compaction and reuse of
\* records by other threads.
RetiredOnce ==
  \A o \in Obj : mem[o] = "retired" =>
    \E r \in Rec : \E i \in Live(r) :
      /\ retired[r][i] = o
      /\ \A q \in Rec : \A j \in Live(q) : retired[q][j] = o => q = r /\ j = i

\* No push runs past the end of a retired array, nor does help_scan meet the full
\* array its assertion excludes: with more cells than there are hazard slots, as
\* the documentation of nMaxRetiredPtrCount asks, a scan of a full array frees at
\* least one cell before its owner pushes again, whether it was retire() or
\* help_scan that filled it.  An array with an odd pointer goes to classic_scan,
\* which keeps all its pointers or none and may leave it full.
RoomLeft ==
  \A t \in Thread :
    rec[t] # 0 /\ ~ Scanning(t) /\ ~ HasOddPointer(retired[rec[t]]) => HasRoom(t)

\* A disposer runs only for an object that is retired, never a second time and
\* never for an address that was allocated again.
DisposedOnce ==
  \A t \in Thread :
    pc[t] = "compact" /\ it[t] <= Len(retired[rec[t]]) => mem[retired[rec[t]][it[t]]] = "retired"

\* A thread between the CAS that took a record that was not its own and the
\* store that gives it up or makes it its own.
HoldsOther(t) == pc[t] \in {"reuse", "release"} \/ Moving(t)

Uses(t) == {rec[t]} \cup (IF HoldsOther(t) THEN {hprec[t]} ELSE {})

\* Exclusive records: no record is used by one thread while another thread has
\* it as its own or is emptying it.
OneUser == \A t, u \in Thread : t # u => Uses(t) \cap Uses(u) \subseteq {0}

\* The comment of help_scan "If free_ == true then hprec->retired_ is empty": a
\* record passed over because its free_ is set hides no retired object.
FreeIsEmpty == \A r \in Rec : free[r] => retired[r] = <<>>

\* What the documentation of classic_scan promises of its third stage: a retired
\* pointer found among the protected pointers is not freed by this scan.
ScanKeepsProtected ==
  [][\A t \in Thread : CompactFree(t) => retired[rec[t]][it[t]] \notin plist[t]]_vars

\* Every detach comes to its end: scan and help_scan are wait-free, whatever the
\* other threads do to the list of records.
DetachEnds == \A t \in Thread : pc[t] = "help" ~> pc[t] = "detached"

-----------------------------------------------------------------------------
(* gc::HP implements SafeReclamation: a guard is a hazard slot, and it protects
   what it holds from the moment the slot is valid. *)
Protects == [g \in Rec \X Slot |-> IF valid[g[1]][g[2]] THEN hazards[g[1]][g[2]] ELSE nullptr]

SMR == INSTANCE SafeReclamation WITH
         Guard <- Rec \X Slot, None <- nullptr, status <- mem, protects <- Protects

\* Every step of the scheme is a step of the abstract reclamation that the
\* containers are written against, or changes nothing they can see.
ImplementsSMR == SMR!Spec
=============================================================================
