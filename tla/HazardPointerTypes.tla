------------------------- MODULE HazardPointerTypes -------------------------
(* The first layer of the proofs about HazardPointer: which thread uses which record
   (Own), the types of the variables and the cursors of the loops (TypeData, Cursors),
   and which records hold no retired pointer (Empties). HazardPointerSafety goes on
   from here. *)
EXTENDS HazardPointer, TLAPS

\* The provers to try, in this order.
USE Zenon, SMT

-----------------------------------------------------------------------------
(* Numbers and arrays *)

\* The slots of a record and the records are numbered from 1.
LEMMA Numbered ==
  /\ hazard_ptr_count \in Nat
  /\ \A i \in Slot : i \in Nat /\ i >= 1 /\ i <= hazard_ptr_count
  /\ \A r \in Rec : r \in Nat /\ r >= 1 /\ r # 0
  BY SMT, ConstantsAssumption DEF hazard_ptr_count, Slot, Rec

\* What the cursors of the loops need of the order of the numbers.
LEMMA Order ==
  /\ 0 # 1 /\ 0 \in Nat
  /\ \A a \in Nat : a >= 0 /\ ~ (a < 0) /\ a <= a /\ a >= a /\ ~ (a + 1 <= a)
  /\ \A a, b \in Nat : (a <= b => a < b \/ a = b) /\ (a < b => a <= b)
  /\ \A a, b \in Nat : a >= b => a > b \/ a = b
  /\ \A a, b \in Nat : a < b => a < b - 1 \/ a = b - 1
  /\ \A a, b \in Nat : a >= b + 1 => a >= b
  /\ \A a, b, c \in Nat : a <= b /\ a >= c => b >= c
  /\ \A a, b, c \in Nat : a > b /\ a <= c => b < c /\ a >= b + 1
  /\ \A a, b, c \in Nat : a >= b + 1 /\ c <= b => a # c
  BY SMT

\* A retired array has an object in each of its cells.
LEMMA ArrayOf ==
  ASSUME NEW s \in Seq(Obj)
  PROVE  DOMAIN s = 1 .. Len(s) /\ DOMAIN s \subseteq Nat /\ \A i \in DOMAIN s : s[i] \in Obj
  BY SMT

\* The initial values of the arrays, of the cells and of the cursors have their types.
LEMMA InitialValues ==
  <<>> \in Seq(Obj) /\ (CHOOSE c \in Cell : TRUE) \in Cell /\ 0 \in 0 .. MaxRecords
  BY SMT, ConstantsAssumption

\* The records 1 .. thread_list are in the list; there is a next one until it is full.
LEMMA RecordList ==
  ASSUME TypeControl
  PROVE  /\ thread_list \in Nat /\ \A r \in 1 .. thread_list : r \in Rec
         /\ thread_list < MaxRecords => thread_list + 1 \in Rec
  BY SMT, ConstantsAssumption DEF TypeControl, Rec

\* The cursors of the collecting loop are numbers.
LEMMA CollectCursors ==
  ASSUME TypeData
  PROVE  \A t \in Thread : node[t] \in Nat /\ slot[t] \in Nat
  BY SMT, Numbered, ConstantsAssumption DEF TypeData

-----------------------------------------------------------------------------
(* Records and their owners *)

\* A record belongs to at most one thread.
Own ==
  /\ TypeControl
  /\ \A t \in Thread : rec[t] = 0 <=> pc[t] \in {"detached", "alloc", "reuse"}
  /\ \A t \in Thread : rec[t] <= thread_list /\ hprec[t] <= thread_list
  /\ \A t \in Thread : pc[t] = "detached" => hprec[t] = 0
  /\ \A t \in Thread : rec[t] # 0 => owner[rec[t]]
  /\ \A t \in Thread : pc[t] = "own" => hprec[t] # 0 /\ hprec[t] # rec[t]
  /\ \A t \in Thread : HoldsOther(t) => hprec[t] # 0 /\ hprec[t] # rec[t] /\ owner[hprec[t]]
  /\ \A t, u \in Thread : t # u /\ rec[t] = rec[u] => rec[t] = 0
  /\ \A t, u \in Thread : t # u /\ HoldsOther(u) => rec[t] # hprec[u]
  /\ \A t, u \in Thread : t # u /\ HoldsOther(t) /\ HoldsOther(u) => hprec[t] # hprec[u]

\* What Own says of the numbers of the records, and of who uses them.
LEMMA OwnNumbers ==
  ASSUME Own
  PROVE  (\A t \in Thread : rec[t] \in Nat /\ rec[t] <= thread_list) /\ OneUser
  BY SMT DEF Own, TypeControl, OneUser, Uses

\* No thread is attached at the start, so no record is used.
LEMMA OwnInit == Init => Own
  BY SMT, ConstantsAssumption DEF Init, Own, TypeControl, HoldsOther, Moving, Scanning

USE DEF Rec

\* Each step of a thread preserves who owns which record.
LEMMA OwnNext == Own /\ [Next]_vars => Own'
<1> SUFFICES ASSUME Own, [Next]_vars PROVE Own'
  OBVIOUS
<1> USE ConstantsAssumption DEF Own, TypeControl, HoldsOther, Moving, Scanning, Goto, CallScan, AfterPush, smrVars, helpVars
<1>1. ASSUME NEW t \in Thread, Attach(t) PROVE Own'
  BY SMT, <1>1 DEF Attach
<1>2. ASSUME NEW t \in Thread, AllocSkip(t) PROVE Own'
  BY SMTT(40), <1>2 DEF AllocSkip
<1>3. ASSUME NEW t \in Thread, AllocTake(t) PROVE Own'
  BY SMT, <1>3 DEF AllocTake
<1>4. ASSUME NEW t \in Thread, AllocReuse(t) PROVE Own'
  BY SMT, <1>4 DEF AllocReuse
<1>5. ASSUME NEW t \in Thread, AllocNew(t) PROVE Own'
  BY SMT, <1>5 DEF AllocNew
<1>6. ASSUME NEW t \in Thread, NEW c \in Cell, NEW o \in Obj, Link(t, c, o) PROVE Own'
  BY SMT, <1>6 DEF Link
<1>7. ASSUME NEW t \in Thread, NEW c \in Cell, NEW p \in Ptr, Retire(t, c, p) PROVE Own'
  BY SMTT(40), <1>7 DEF Retire
<1>8. ASSUME NEW t \in Thread, NEW i \in Slot, NEW c \in Cell, Protect(t, i, c) PROVE Own'
  BY SMT, <1>8 DEF Protect
<1>9. ASSUME NEW t \in Thread, ProtectAssign(t) PROVE Own'
  BY SMT, <1>9 DEF ProtectAssign
<1>10. ASSUME NEW t \in Thread, ProtectRetry(t) PROVE Own'
  BY SMT, <1>10 DEF ProtectRetry
<1>11. ASSUME NEW t \in Thread, ProtectDone(t) PROVE Own'
  BY SMT, <1>11 DEF ProtectDone
<1>12. ASSUME NEW t \in Thread, NEW i \in Slot, Clear(t, i) PROVE Own'
  BY SMT, <1>12 DEF Clear
<1>13. ASSUME NEW t \in Thread, NEW q \in CopyPairs, Copy(t, q[1], q[2]) PROVE Own'
  BY SMT, <1>13 DEF Copy
<1>14. ASSUME NEW t \in Thread, ForceScan(t) PROVE Own'
  BY SMT, <1>14 DEF ForceScan
<1>15. ASSUME NEW t \in Thread, ScanNothing(t) PROVE Own'
  BY SMTT(40), <1>15 DEF ScanNothing
<1>16. ASSUME NEW t \in Thread, ScanInplace(t) PROVE Own'
  BY SMT, <1>16 DEF ScanInplace, Collecting
<1>17. ASSUME NEW t \in Thread, ScanClassic(t) PROVE Own'
  BY SMT, <1>17 DEF ScanClassic, Collecting
<1>18. ASSUME NEW t \in Thread, CollectSkip(t) PROVE Own'
  BY SMT, <1>18 DEF CollectSkip
<1>19. ASSUME NEW t \in Thread, CollectOwned(t) PROVE Own'
  BY ZenonT(60), <1>19 DEF CollectOwned
<1>20. ASSUME NEW t \in Thread, CollectSlot(t) PROVE Own'
  BY SMT, <1>20 DEF CollectSlot
<1>21. ASSUME NEW t \in Thread, CollectDone(t) PROVE Own'
  BY SMT, <1>21 DEF CollectDone
<1>22. ASSUME NEW t \in Thread, CompactKeep(t) PROVE Own'
  BY SMTT(40), <1>22 DEF CompactKeep
<1>23. ASSUME NEW t \in Thread, CompactFree(t) PROVE Own'
  BY SMT, <1>23 DEF CompactFree
<1>24. ASSUME NEW t \in Thread, ScanReturn(t) PROVE Own'
  BY SMTT(40), <1>24 DEF ScanReturn
<1>25. ASSUME NEW t \in Thread, Detach(t) PROVE Own'
  <2>1. /\ pc[t] = "idle"
        /\ CallScan(t, "help")
        /\ UNCHANGED <<smrVars, helpVars>>
    BY <1>25 DEF Detach
  <2>2. /\ pc' = [pc EXCEPT ![t] = "scan"]
        /\ ret' = [ret EXCEPT ![t] = "help"]
    BY <2>1
  <2>a. pc' \in [Thread -> {"detached", "alloc", "reuse", "idle", "assign", "check", "scan",
                            "collect", "compact", "help", "walk", "own", "move", "release"}]
    BY <2>2
  <2>b. ret' \in [Thread -> {"idle", "help", "walk", "move"}]
    BY <2>2
  <2>3. TypeControl'
    BY <2>1, <2>a, <2>b
  <2>6. \A u \in Thread : u # t => pc'[u] = pc[u] /\ ret'[u] = ret[u]
    BY <2>2
  <2>7. pc'[t] = "scan" /\ ret'[t] = "help"
    BY <2>2
  <2>8. ~ HoldsOther(t) /\ ~ HoldsOther(t)'
    BY <2>1, <2>7
  <2>9. \A u \in Thread : u # t => (HoldsOther(u)' <=> HoldsOther(u))
    BY <2>6
  <2>4. \A u \in Thread : HoldsOther(u)' <=> HoldsOther(u)
    BY <2>8, <2>9
  <2>5. \A u \in Thread : pc'[u] \in {"detached", "alloc", "reuse"} <=> pc[u] \in {"detached", "alloc", "reuse"}
    BY <2>1, <2>6, <2>7
  <2> HIDE DEF TypeControl, HoldsOther, Moving, Scanning, Goto, CallScan
  <2>. QED BY SMT, <2>1, <2>2, <2>3, <2>4, <2>5, <2>6
<1>26. ASSUME NEW t \in Thread, HelpScan(t) PROVE Own'
  BY SMTT(40), <1>26 DEF HelpScan
<1>27. ASSUME NEW t \in Thread, HelpSkip(t) PROVE Own'
  BY SMTT(40), <1>27 DEF HelpSkip
<1>28. ASSUME NEW t \in Thread, HelpLook(t) PROVE Own'
  BY SMT, <1>28 DEF HelpLook
<1>29. ASSUME NEW t \in Thread, HelpBusy(t) PROVE Own'
  BY SMTT(40), <1>29 DEF HelpBusy
<1>30. ASSUME NEW t \in Thread, HelpTake(t) PROVE Own'
  BY SMT, <1>30 DEF HelpTake
<1>31. ASSUME NEW t \in Thread, HelpMove(t) PROVE Own'
  BY SMTT(40), <1>31 DEF HelpMove
<1>32. ASSUME NEW t \in Thread, HelpClear(t) PROVE Own'
  BY SMTT(40), <1>32 DEF HelpClear
<1>33. ASSUME NEW t \in Thread, HelpRelease(t) PROVE Own'
  BY SMTT(40), <1>33 DEF HelpRelease
<1>34. ASSUME NEW t \in Thread, Detached(t) PROVE Own'
  BY SMTT(40), <1>34 DEF Detached
<1>35. ASSUME Destruct PROVE Own'
  BY SMTT(40), <1>35 DEF Destruct
<1>36. ASSUME UNCHANGED vars PROVE Own'
  BY SMT, <1>36 DEF vars
<1> HIDE DEF Own, TypeControl, HoldsOther, Moving, Scanning, Goto, CallScan, AfterPush, smrVars, helpVars
<1>. QED
  BY <1>1, <1>2, <1>3, <1>4, <1>5, <1>6, <1>7, <1>8, <1>9, <1>10, <1>11, <1>12, <1>13, <1>14, <1>15, <1>16, <1>17, <1>18, <1>19, <1>20, <1>21, <1>22, <1>23, <1>24, <1>25, <1>26, <1>27, <1>28, <1>29, <1>30, <1>31, <1>32, <1>33, <1>34, <1>35, <1>36 DEF Next, AllocStep, ClientStep, ScanStep, HelpStep
-----------------------------------------------------------------------------
(* Types *)

\* A record has at least one hazard pointer, whatever was asked for.
LEMMA SlotsExist == hazard_ptr_count \in Nat \ {0}
  BY SMT, ConstantsAssumption DEF hazard_ptr_count

\* A function on 1 .. n is a sequence of length n.
LEMMA FunctionIsSeq ==
  ASSUME NEW S, NEW n \in Nat, NEW f \in [1 .. n -> S]
  PROVE  f \in Seq(S) /\ Len(f) = n
<1>1. f \in Seq(S)
  BY SMT
<1>. QED
  BY SMT, <1>1

\* Counters of any size can be incremented.
LEMMA NextNat == \A n \in Nat : n + 1 \in Nat
  BY SMT

\* The bounds on the two cursors of the compaction loop, after one iteration.
LEMMA NextCursors ==
  \A i, j, n \in Nat : 1 <= i /\ i <= j /\ j <= n
    => 1 <= i + 1 /\ i + 1 <= j + 1 /\ i <= j + 1 /\ j + 1 <= n + 1
  BY SMT

\* Copying a guard keeps the types of the hazard pointers.
LEMMA CopyTyped ==
  ASSUME TypeData, NEW t \in Thread, rec[t] \in Rec, NEW i \in Slot, NEW j \in Slot, Copy(t, i, j)
  PROVE  hazards' \in [Rec -> [Slot -> Ptr]] /\ valid' \in [Rec -> [Slot -> BOOLEAN]]
<1>1. /\ hazards' = [hazards EXCEPT ![rec[t]][j] = hazards[rec[t]][i]]
      /\ valid' = [valid EXCEPT ![rec[t]][j] = valid[rec[t]][i]]
  BY DEF Copy
<1>2. hazards \in [Rec -> [Slot -> Ptr]] /\ valid \in [Rec -> [Slot -> BOOLEAN]]
  BY DEF TypeData
<1>3. hazards' \in [Rec -> [Slot -> Ptr]]
  BY ZenonT(60), <1>1, <1>2 DEF TypeData
<1>4. valid' \in [Rec -> [Slot -> BOOLEAN]]
  BY ZenonT(60), <1>1, <1>2 DEF TypeData
<1>. QED BY <1>3, <1>4

\* The cursors of protect, of compaction and of help_scan are inside their arrays.
Cursor(t) ==
  /\ pc[t] \in {"assign", "check"} => gidx[t] \in Slot
  /\ pc[t] = "compact" => 1 <= ins[t] /\ ins[t] <= it[t] /\ it[t] <= Len(retired[rec[t]]) + 1
  /\ Moving(t) => hidx[t] >= 1

\* The cursors of the loops stay in their arrays.
Cursors == \A t \in Thread : Cursor(t)

\* What the other layers use of Own: an attached thread has a record, which no
\* other thread uses.
LEMMA OwnFacts ==
  ASSUME Own
  PROVE  /\ TypeControl
         /\ \A t \in Thread : pc[t] \notin {"detached", "alloc", "reuse"} => rec[t] \in Rec
         /\ \A t \in Thread : HoldsOther(t) => hprec[t] \in Rec /\ hprec[t] # rec[t]
         /\ \A t, u \in Thread : t # u /\ rec[t] \in Rec => rec[u] # rec[t]
         /\ \A t, u \in Thread : t # u /\ HoldsOther(t) => rec[u] # hprec[t]
         /\ \A t, u \in Thread : t # u /\ HoldsOther(t) /\ HoldsOther(u) => hprec[u] # hprec[t]
  BY SMT, ConstantsAssumption DEF Own, TypeControl

\* Each step keeps the data variables in their types.
LEMMA TypeDataNext == Own /\ TypeData /\ Cursors /\ [Next]_vars => TypeData'
<1> SUFFICES ASSUME Own, TypeData, Cursors, [Next]_vars PROVE TypeData'
  OBVIOUS
<1>a. /\ TypeControl
      /\ \A t \in Thread : pc[t] \notin {"detached", "alloc", "reuse"} => rec[t] \in Rec
      /\ \A t \in Thread : HoldsOther(t) => hprec[t] \in Rec
  BY OwnFacts
<1> USE <1>a, ConstantsAssumption, SlotsExist DEF TypeControl, TypeData, Goto, CallScan, AfterPush, smrVars, helpVars, protectVars, scanVars, clientVars, Slot, Ptr, nullptr
<1>1. ASSUME NEW t \in Thread, Attach(t) PROVE TypeData'
  BY <1>1 DEF Attach
<1>2. ASSUME NEW t \in Thread, AllocSkip(t) PROVE TypeData'
  BY <1>2 DEF AllocSkip
<1>3. ASSUME NEW t \in Thread, AllocTake(t) PROVE TypeData'
  BY <1>3 DEF AllocTake
<1>4. ASSUME NEW t \in Thread, AllocReuse(t) PROVE TypeData'
  BY <1>4 DEF AllocReuse
<1>5. ASSUME NEW t \in Thread, AllocNew(t) PROVE TypeData'
  <2>1. thread_list + 1 \in Rec /\ <<>> \in Seq(Obj) /\ [i \in Slot |-> nullptr] \in [Slot -> Ptr]
    BY SMT, <1>5 DEF AllocNew
  <2>. QED BY <1>5, <2>1 DEF AllocNew
<1>6. ASSUME NEW t \in Thread, NEW c \in Cell, NEW o \in Obj, Link(t, c, o) PROVE TypeData'
  BY <1>6 DEF Link
<1>7. ASSUME NEW t \in Thread, NEW c \in Cell, NEW p \in Ptr, Retire(t, c, p) PROVE TypeData'
  <2>1. rec[t] \in Rec /\ cell[c] \in Obj
    BY <1>7 DEF Retire
  <2>2. Append(retired[rec[t]], cell[c]) \in Seq(Obj)
    BY SMT, <2>1
  <2>3. mem' \in [Obj -> {"free", "linked", "retired"}]
    BY <1>7 DEF Retire
  <2>4. retired' = [retired EXCEPT ![rec[t]] = Append(retired[rec[t]], cell[c])]
    BY <1>7 DEF Retire
  <2>5. cell' \in [Cell -> Ptr] /\ UNCHANGED <<hazards, valid, hidx, protectVars, scanVars>>
    BY <1>7 DEF Retire
  <2>. QED BY <2>1, <2>2, <2>3, <2>4, <2>5
<1>8. ASSUME NEW t \in Thread, NEW i \in Slot, NEW c \in Cell, Protect(t, i, c) PROVE TypeData'
  BY <1>8 DEF Protect
<1>9. ASSUME NEW t \in Thread, ProtectAssign(t) PROVE TypeData'
  BY <1>9 DEF ProtectAssign
<1>10. ASSUME NEW t \in Thread, ProtectRetry(t) PROVE TypeData'
  BY <1>10 DEF ProtectRetry
<1>11. ASSUME NEW t \in Thread, ProtectDone(t) PROVE TypeData'
  BY <1>11 DEF ProtectDone
<1>12. ASSUME NEW t \in Thread, NEW i \in Slot, Clear(t, i) PROVE TypeData'
  BY <1>12 DEF Clear
<1>13. ASSUME NEW t \in Thread, NEW q \in CopyPairs, Copy(t, q[1], q[2]) PROVE TypeData'
  <2>1. rec[t] \in Rec /\ q[1] \in Slot /\ q[2] \in Slot
    BY <1>13 DEF Copy
  <2>2. hazards' \in [Rec -> [Slot -> Ptr]] /\ valid' \in [Rec -> [Slot -> BOOLEAN]]
    BY <1>13, <2>1, CopyTyped
  <2>4. UNCHANGED <<retired, cell, mem, hidx, protectVars, scanVars>>
    BY <1>13 DEF Copy
  <2>. QED BY <2>2, <2>4
<1>14. ASSUME NEW t \in Thread, ForceScan(t) PROVE TypeData'
  BY <1>14 DEF ForceScan
<1>15. ASSUME NEW t \in Thread, ScanNothing(t) PROVE TypeData'
  BY <1>15 DEF ScanNothing
<1>16. ASSUME NEW t \in Thread, ScanInplace(t) PROVE TypeData'
  <2>1. rec[t] \in Rec
    BY <1>16 DEF ScanInplace
  <2>2. PICK s \in [DOMAIN retired[rec[t]] -> Obj] : retired' = [retired EXCEPT ![rec[t]] = s]
    BY <1>16 DEF ScanInplace
  <2>3. s \in Seq(Obj)
    BY SMTT(40), <2>1, <2>2, FunctionIsSeq
  <2>4. retired' \in [Rec -> Seq(Obj)]
    BY <2>1, <2>2, <2>3
  <2>. QED BY <1>16, <2>4 DEF ScanInplace, Collecting
<1>17. ASSUME NEW t \in Thread, ScanClassic(t) PROVE TypeData'
  BY <1>17 DEF ScanClassic, Collecting
<1>18. ASSUME NEW t \in Thread, CollectSkip(t) PROVE TypeData'
  <2>1. node[t] - 1 \in 0 .. MaxRecords
    BY SMTT(40), <1>18 DEF CollectSkip
  <2>. QED BY <1>18, <2>1 DEF CollectSkip
<1>19. ASSUME NEW t \in Thread, CollectOwned(t) PROVE TypeData'
  <2>1. 1 \in Slot \cup {0}
    BY SMT, SlotsExist
  <2>. QED BY <1>19, <2>1 DEF CollectOwned
<1>20. ASSUME NEW t \in Thread, CollectSlot(t) PROVE TypeData'
  <2>1. rec[t] \in Rec /\ retired[rec[t]] \in Seq(Obj)
    BY <1>20 DEF CollectSlot
  <2>2. \A i \in DOMAIN retired[rec[t]] : retired[rec[t]][i] \in Obj
    BY SMTT(40), <2>1
  <2>3. plist' \in [Thread -> SUBSET Obj]
    BY SMTT(40), <1>20, <2>2 DEF CollectSlot
  <2>4. slot' \in [Thread -> Slot \cup {0}]
    BY SMTT(40), <1>20 DEF CollectSlot
  <2>5. node' \in [Thread -> 0 .. MaxRecords]
    BY SMTT(40), <1>20 DEF CollectSlot
  <2>. QED BY <1>20, <2>3, <2>4, <2>5 DEF CollectSlot
<1>21. ASSUME NEW t \in Thread, CollectDone(t) PROVE TypeData'
  BY <1>21 DEF CollectDone
<1>22. ASSUME NEW t \in Thread, CompactKeep(t) PROVE TypeData'
  <2>1. rec[t] \in Rec /\ retired[rec[t]] \in Seq(Obj)
    BY <1>22 DEF CompactKeep
  <2>a. /\ ins[t] \in Nat /\ it[t] \in Nat /\ Len(retired[rec[t]]) \in Nat
        /\ 1 <= ins[t] /\ ins[t] <= it[t] /\ it[t] <= Len(retired[rec[t]])
    BY SMT, <1>22, <2>1 DEF CompactKeep, Cursors, Cursor
  <2>2. ins[t] \in 1 .. Len(retired[rec[t]]) /\ it[t] \in 1 .. Len(retired[rec[t]])
    BY SMT, <2>a
  <2>3. retired[rec[t]][it[t]] \in Obj
    BY SMT, <2>1, <2>2
  <2>4. [retired[rec[t]] EXCEPT ![ins[t]] = retired[rec[t]][it[t]]] \in Seq(Obj)
    BY SMT, <2>1, <2>2, <2>3
  <2>5. retired' = [retired EXCEPT ![rec[t]] = [retired[rec[t]] EXCEPT ![ins[t]] = retired[rec[t]][it[t]]]]
    BY <1>22 DEF CompactKeep
  <2>6. retired' \in [Rec -> Seq(Obj)]
    BY <2>1, <2>4, <2>5
  <2>7. it' \in [Thread -> Nat] /\ ins' \in [Thread -> Nat]
    BY <1>22, NextNat DEF CompactKeep
  <2>8. UNCHANGED <<hazards, cell, mem, valid, hidx, protectVars, mode, node, slot, plist>>
    BY <1>22 DEF CompactKeep
  <2>. QED BY <2>6, <2>7, <2>8
<1>23. ASSUME NEW t \in Thread, CompactFree(t) PROVE TypeData'
  <2>1. rec[t] \in Rec /\ retired[rec[t]] \in Seq(Obj)
    BY <1>23 DEF CompactFree
  <2>2. it[t] \in 1 .. Len(retired[rec[t]])
    BY SMT, <1>23, <2>1 DEF CompactFree, Cursors, Cursor
  <2>3. retired[rec[t]][it[t]] \in Obj
    BY SMT, <2>1, <2>2
  <2>4. mem' \in [Obj -> {"free", "linked", "retired"}]
    BY <1>23, <2>3 DEF CompactFree
  <2>5. it' \in [Thread -> Nat]
    BY <1>23, NextNat DEF CompactFree
  <2>6. UNCHANGED <<hazards, retired, cell, valid, hidx, protectVars, mode, node, slot, plist, ins>>
    BY <1>23 DEF CompactFree
  <2>. QED BY <2>4, <2>5, <2>6
<1>24. ASSUME NEW t \in Thread, ScanReturn(t) PROVE TypeData'
  <2>1. rec[t] \in Rec /\ retired[rec[t]] \in Seq(Obj)
    BY <1>24 DEF ScanReturn
  <2>2. ins[t] - 1 \in 0 .. Len(retired[rec[t]])
    BY SMTT(40), <1>24, <2>1 DEF ScanReturn, Cursors, Cursor
  <2>3. \A i \in 1 .. ins[t] - 1 : retired[rec[t]][i] \in Obj
    BY SMTT(40), <2>1, <2>2
  <2>4. SubSeq(retired[rec[t]], 1, ins[t] - 1) \in Seq(Obj)
    BY SMT, <2>2, <2>3
  <2>5. retired' \in [Rec -> Seq(Obj)]
    BY <1>24, <2>1, <2>4 DEF ScanReturn
  <2>. QED BY <1>24, <2>5 DEF ScanReturn
<1>25. ASSUME NEW t \in Thread, Detach(t) PROVE TypeData'
  BY <1>25 DEF Detach
<1>26. ASSUME NEW t \in Thread, HelpScan(t) PROVE TypeData'
  BY <1>26 DEF HelpScan
<1>27. ASSUME NEW t \in Thread, HelpSkip(t) PROVE TypeData'
  BY <1>27 DEF HelpSkip
<1>28. ASSUME NEW t \in Thread, HelpLook(t) PROVE TypeData'
  BY <1>28 DEF HelpLook
<1>29. ASSUME NEW t \in Thread, HelpBusy(t) PROVE TypeData'
  BY <1>29 DEF HelpBusy
<1>30. ASSUME NEW t \in Thread, HelpTake(t) PROVE TypeData'
  BY <1>30 DEF HelpTake
<1>31. ASSUME NEW t \in Thread, HelpMove(t) PROVE TypeData'
  <2>1. rec[t] \in Rec /\ hprec[t] \in Rec
    BY <1>31 DEF HelpMove, HoldsOther, Moving
  <2>2. retired[hprec[t]][hidx[t]] \in Obj
    BY SMTT(40), <1>31, <2>1 DEF HelpMove, Cursors, Cursor, Moving
  <2>3. Append(retired[rec[t]], retired[hprec[t]][hidx[t]]) \in Seq(Obj)
    BY SMT, <2>1, <2>2
  <2>4. retired' \in [Rec -> Seq(Obj)]
    BY <1>31, <2>1, <2>3 DEF HelpMove
  <2>5. hidx' \in [Thread -> Nat] /\ UNCHANGED <<hazards, clientVars, protectVars, scanVars>>
    BY <1>31, NextNat DEF HelpMove
  <2>. QED BY <2>4, <2>5
<1>32. ASSUME NEW t \in Thread, HelpClear(t) PROVE TypeData'
  <2>1. hprec[t] \in Rec /\ <<>> \in Seq(Obj)
    BY SMT, <1>32 DEF HelpClear, HoldsOther, Moving
  <2>. QED BY <1>32, <2>1 DEF HelpClear
<1>33. ASSUME NEW t \in Thread, HelpRelease(t) PROVE TypeData'
  BY <1>33 DEF HelpRelease
<1>34. ASSUME NEW t \in Thread, Detached(t) PROVE TypeData'
  BY <1>34 DEF Detached
<1>35. ASSUME Destruct PROVE TypeData'
  BY SMTT(40), <1>35 DEF Destruct
<1>36. ASSUME UNCHANGED vars PROVE TypeData'
  BY <1>36 DEF vars
<1> HIDE DEF TypeControl, TypeData, Goto, CallScan, AfterPush, smrVars, helpVars, protectVars, scanVars, clientVars, Slot, Ptr, nullptr
<1>. QED
  BY <1>1, <1>2, <1>3, <1>4, <1>5, <1>6, <1>7, <1>8, <1>9, <1>10, <1>11, <1>12, <1>13, <1>14, <1>15, <1>16, <1>17, <1>18, <1>19, <1>20, <1>21, <1>22, <1>23, <1>24, <1>25, <1>26, <1>27, <1>28, <1>29, <1>30, <1>31, <1>32, <1>33, <1>34, <1>35, <1>36 DEF Next, AllocStep, ClientStep, ScanStep, HelpStep

\* Each step keeps the cursors of the loops inside their arrays.
LEMMA CursorsNext == Own /\ TypeData /\ Cursors /\ [Next]_vars => Cursors'
<1> SUFFICES ASSUME Own, TypeData, Cursors, [Next]_vars PROVE Cursors'
  OBVIOUS
<1>a. /\ TypeControl
      /\ \A t \in Thread : pc[t] \notin {"detached", "alloc", "reuse"} => rec[t] \in Rec
      /\ \A t \in Thread : HoldsOther(t) => hprec[t] \in Rec
      /\ \A t, u \in Thread : t # u /\ rec[t] \in Rec => rec[u] # rec[t]
      /\ \A t, u \in Thread : t # u /\ HoldsOther(t) => rec[u] # hprec[t]
  BY OwnFacts
<1> USE <1>a, ConstantsAssumption, SlotsExist DEF TypeControl, Goto, CallScan, AfterPush, smrVars, helpVars, protectVars, scanVars, clientVars, Moving, Scanning
<1>1. ASSUME NEW t \in Thread, Attach(t) PROVE Cursors'
  BY <1>1 DEF Attach, Cursors, Cursor
<1>2. ASSUME NEW t \in Thread, AllocSkip(t) PROVE Cursors'
  BY <1>2 DEF AllocSkip, Cursors, Cursor
<1>3. ASSUME NEW t \in Thread, AllocTake(t) PROVE Cursors'
  BY <1>3 DEF AllocTake, Cursors, Cursor
<1>4. ASSUME NEW t \in Thread, AllocReuse(t) PROVE Cursors'
  BY <1>4 DEF AllocReuse, Cursors, Cursor
<1>5. ASSUME NEW t \in Thread, AllocNew(t) PROVE Cursors'
  <2> SUFFICES ASSUME NEW u \in Thread PROVE Cursor(u)'
    BY DEF Cursors
  <2>1. thread_list + 1 \in Rec /\ rec[u] # thread_list + 1
    BY SMT, <1>5 DEF AllocNew, Own
  <2>2. CASE u # t
    <3>1. /\ pc'[u] = pc[u] /\ ret'[u] = ret[u] /\ rec'[u] = rec[u] /\ gidx'[u] = gidx[u]
          /\ hidx'[u] = hidx[u] /\ ins'[u] = ins[u] /\ it'[u] = it[u]
      BY <1>5, <2>2 DEF AllocNew
    <3>2. pc[u] = "compact" => retired'[rec[u]] = retired[rec[u]]
      BY SMT, <1>5, <2>1, <2>2 DEF AllocNew
    <3>. QED BY <3>1, <3>2 DEF Cursors, Cursor
  <2>3. CASE u = t
    BY <1>5, <2>1, <2>3 DEF AllocNew, Cursors, Cursor
  <2>. QED BY <2>2, <2>3
<1>6. ASSUME NEW t \in Thread, NEW c \in Cell, NEW o \in Obj, Link(t, c, o) PROVE Cursors'
  BY <1>6 DEF Link, Cursors, Cursor
<1>7. ASSUME NEW t \in Thread, NEW c \in Cell, NEW p \in Ptr, Retire(t, c, p) PROVE Cursors'
  <2> SUFFICES ASSUME NEW u \in Thread PROVE Cursor(u)'
    BY DEF Cursors
  <2>1. rec[t] \in Rec
    BY <1>7 DEF Retire
  <2>2. CASE u # t
    <3>1. /\ pc'[u] = pc[u] /\ ret'[u] = ret[u] /\ rec'[u] = rec[u] /\ gidx'[u] = gidx[u]
          /\ hidx'[u] = hidx[u] /\ ins'[u] = ins[u] /\ it'[u] = it[u]
      BY <1>7, <2>2 DEF Retire
    <3>2. pc[u] = "compact" => retired'[rec[u]] = retired[rec[u]]
      BY SMT, <1>7, <2>1, <2>2 DEF Retire
    <3>. QED BY <3>1, <3>2 DEF Cursors, Cursor
  <2>3. CASE u = t
    <3>1. pc'[t] \in {"idle", "scan"} /\ ret'[t] = "idle"
      BY <1>7 DEF Retire
    <3>. QED BY <3>1, <2>3 DEF Cursor
  <2>. QED BY <2>2, <2>3
<1>8. ASSUME NEW t \in Thread, NEW i \in Slot, NEW c \in Cell, Protect(t, i, c) PROVE Cursors'
  <2> SUFFICES ASSUME NEW u \in Thread PROVE Cursor(u)'
    BY DEF Cursors
  <2>1. rec[t] \in Rec
    BY <1>8 DEF Protect
  <2>2. CASE u # t
    <3>1. /\ pc'[u] = pc[u] /\ ret'[u] = ret[u] /\ rec'[u] = rec[u] /\ gidx'[u] = gidx[u]
          /\ hidx'[u] = hidx[u] /\ ins'[u] = ins[u] /\ it'[u] = it[u]
      BY SMT, <1>8, <2>2 DEF Protect
    <3>2. pc[u] = "compact" => retired'[rec[u]] = retired[rec[u]]
      BY <1>8, <2>1, <2>2 DEF Protect
    <3>. QED BY <3>1, <3>2 DEF Cursors, Cursor
  <2>3. CASE u = t
    <3>1. pc'[t] = "assign" /\ gidx'[t] \in Slot
      BY <1>8 DEF Protect, TypeData
    <3>. QED BY <3>1, <2>3 DEF Cursor
  <2>. QED BY <2>2, <2>3
<1>9. ASSUME NEW t \in Thread, ProtectAssign(t) PROVE Cursors'
  BY <1>9 DEF ProtectAssign, Cursors, Cursor
<1>10. ASSUME NEW t \in Thread, ProtectRetry(t) PROVE Cursors'
  BY <1>10 DEF ProtectRetry, Cursors, Cursor
<1>11. ASSUME NEW t \in Thread, ProtectDone(t) PROVE Cursors'
  BY SMT, <1>11 DEF ProtectDone, Cursors, Cursor
<1>12. ASSUME NEW t \in Thread, NEW i \in Slot, Clear(t, i) PROVE Cursors'
  BY <1>12 DEF Clear, Cursors, Cursor
<1>13. ASSUME NEW t \in Thread, NEW q \in CopyPairs, Copy(t, q[1], q[2]) PROVE Cursors'
  BY <1>13 DEF Copy, Cursors, Cursor
<1>14. ASSUME NEW t \in Thread, ForceScan(t) PROVE Cursors'
  BY <1>14 DEF ForceScan, Cursors, Cursor
<1>15. ASSUME NEW t \in Thread, ScanNothing(t) PROVE Cursors'
  BY <1>15 DEF ScanNothing, Cursors, Cursor
<1>16. ASSUME NEW t \in Thread, ScanInplace(t) PROVE Cursors'
  <2> SUFFICES ASSUME NEW u \in Thread PROVE Cursor(u)'
    BY DEF Cursors
  <2>1. rec[t] \in Rec
    BY <1>16 DEF ScanInplace, Collecting
  <2>2. CASE u # t
    <3>1. /\ pc'[u] = pc[u] /\ ret'[u] = ret[u] /\ rec'[u] = rec[u] /\ gidx'[u] = gidx[u]
          /\ hidx'[u] = hidx[u] /\ ins'[u] = ins[u] /\ it'[u] = it[u]
      BY <1>16, <2>2 DEF ScanInplace, Collecting
    <3>2. pc[u] = "compact" => retired'[rec[u]] = retired[rec[u]]
      BY SMT, <1>16, <2>1, <2>2 DEF ScanInplace, Collecting
    <3>. QED BY <3>1, <3>2 DEF Cursors, Cursor
  <2>3. CASE u = t
    <3>1. pc'[t] = "collect" /\ ret'[t] = ret[t] /\ hidx'[t] = hidx[t]
      BY <1>16 DEF ScanInplace, Collecting
    <3>. QED BY <1>16, <3>1, <2>3 DEF ScanInplace, Cursors, Cursor
  <2>. QED BY <2>2, <2>3
<1>17. ASSUME NEW t \in Thread, ScanClassic(t) PROVE Cursors'
  BY <1>17 DEF ScanClassic, Collecting, Cursors, Cursor
<1>18. ASSUME NEW t \in Thread, CollectSkip(t) PROVE Cursors'
  BY <1>18 DEF CollectSkip, Cursors, Cursor
<1>19. ASSUME NEW t \in Thread, CollectOwned(t) PROVE Cursors'
  BY <1>19 DEF CollectOwned, Cursors, Cursor
<1>20. ASSUME NEW t \in Thread, CollectSlot(t) PROVE Cursors'
  BY <1>20 DEF CollectSlot, Cursors, Cursor
<1>21. ASSUME NEW t \in Thread, CollectDone(t) PROVE Cursors'
  <2> SUFFICES ASSUME NEW u \in Thread PROVE Cursor(u)'
    BY DEF Cursors
  <2>1. rec[t] \in Rec
    BY <1>21 DEF CollectDone
  <2>2. CASE u # t
    <3>1. /\ pc'[u] = pc[u] /\ ret'[u] = ret[u] /\ rec'[u] = rec[u] /\ gidx'[u] = gidx[u]
          /\ hidx'[u] = hidx[u] /\ ins'[u] = ins[u] /\ it'[u] = it[u]
      BY SMT, <1>21, <2>2 DEF CollectDone
    <3>2. pc[u] = "compact" => retired'[rec[u]] = retired[rec[u]]
      BY <1>21, <2>1, <2>2 DEF CollectDone
    <3>. QED BY <3>1, <3>2 DEF Cursors, Cursor
  <2>3. CASE u = t
    <3>1. /\ pc'[t] = "compact" /\ ret'[t] = ret[t] /\ hidx'[t] = hidx[t] /\ ins'[t] = 1 /\ it'[t] = 1
          /\ retired'[rec'[t]] = retired[rec[t]] /\ pc[t] = "collect"
      BY <1>21 DEF CollectDone, TypeData
    <3>2. Len(retired[rec[t]]) \in Nat
      BY SMT, <2>1 DEF TypeData
    <3>. QED BY SMT, <3>1, <3>2, <2>3 DEF Cursors, Cursor
  <2>. QED BY <2>2, <2>3
<1>22. ASSUME NEW t \in Thread, CompactKeep(t) PROVE Cursors'
  <2> SUFFICES ASSUME NEW u \in Thread PROVE Cursor(u)'
    BY DEF Cursors
  <2>1. rec[t] \in Rec
    BY <1>22 DEF CompactKeep
  <2>2. CASE u # t
    <3>1. /\ pc'[u] = pc[u] /\ ret'[u] = ret[u] /\ rec'[u] = rec[u] /\ gidx'[u] = gidx[u]
          /\ hidx'[u] = hidx[u] /\ ins'[u] = ins[u] /\ it'[u] = it[u]
      BY SMTT(40), <1>22, <2>2 DEF CompactKeep
    <3>2. pc[u] = "compact" => retired'[rec[u]] = retired[rec[u]]
      BY SMT, <1>22, <2>1, <2>2 DEF CompactKeep
    <3>. QED BY <3>1, <3>2 DEF Cursors, Cursor
  <2>3. CASE u = t
    <3>1. /\ pc[t] = "compact" /\ pc'[t] = "compact" /\ ret'[t] = ret[t] /\ hidx'[t] = hidx[t] /\ rec'[t] = rec[t]
          /\ ins'[t] = ins[t] + 1 /\ it'[t] = it[t] + 1 /\ it[t] <= Len(retired[rec[t]])
      BY <1>22 DEF CompactKeep, TypeData
    <3>2. /\ retired[rec[t]] \in Seq(Obj) /\ Len(retired[rec[t]]) \in Nat
          /\ ins[t] \in Nat /\ it[t] \in Nat
      BY SMTT(40), <2>1 DEF TypeData
    <3>3. 1 <= ins[t] /\ ins[t] <= it[t]
      BY <3>1 DEF Cursors, Cursor
    <3>4. retired'[rec[t]] = [retired[rec[t]] EXCEPT ![ins[t]] = retired[rec[t]][it[t]]]
      BY <1>22, <2>1 DEF CompactKeep, TypeData
    <3>5. ins[t] \in 1 .. Len(retired[rec[t]]) /\ it[t] \in 1 .. Len(retired[rec[t]])
      BY SMTT(40), <3>1, <3>2, <3>3
    <3>6. Len(retired'[rec[t]]) = Len(retired[rec[t]])
      BY SMT, <3>2, <3>4, <3>5
    <3>7. 1 <= ins'[t] /\ ins'[t] <= it'[t] /\ it'[t] <= Len(retired'[rec'[t]]) + 1
      <4>1. 1 <= ins[t] + 1 /\ ins[t] + 1 <= it[t] + 1 /\ ins[t] <= it[t] + 1 /\ it[t] + 1 <= Len(retired[rec[t]]) + 1
        BY <3>1, <3>2, <3>3, NextCursors
      <4>. QED BY <3>1, <3>3, <4>1, <3>6
    <3>. QED BY <3>1, <3>7, <2>3 DEF Cursors, Cursor
  <2>. QED BY <2>2, <2>3
<1>23. ASSUME NEW t \in Thread, CompactFree(t) PROVE Cursors'
  <2> SUFFICES ASSUME NEW u \in Thread PROVE Cursor(u)'
    BY DEF Cursors
  <2>1. rec[t] \in Rec
    BY <1>23 DEF CompactFree
  <2>2. CASE u # t
    <3>1. /\ pc'[u] = pc[u] /\ ret'[u] = ret[u] /\ rec'[u] = rec[u] /\ gidx'[u] = gidx[u]
          /\ hidx'[u] = hidx[u] /\ ins'[u] = ins[u] /\ it'[u] = it[u]
      BY SMT, <1>23, <2>2 DEF CompactFree
    <3>2. pc[u] = "compact" => retired'[rec[u]] = retired[rec[u]]
      BY <1>23, <2>1, <2>2 DEF CompactFree
    <3>. QED BY <3>1, <3>2 DEF Cursors, Cursor
  <2>3. CASE u = t
    <3>1. /\ pc[t] = "compact" /\ pc'[t] = "compact" /\ ret'[t] = ret[t] /\ hidx'[t] = hidx[t] /\ rec'[t] = rec[t]
          /\ ins'[t] = ins[t] /\ it'[t] = it[t] + 1 /\ it[t] <= Len(retired[rec[t]])
          /\ retired' = retired
      BY <1>23 DEF CompactFree, TypeData
    <3>2. /\ Len(retired[rec[t]]) \in Nat /\ ins[t] \in Nat /\ it[t] \in Nat
      BY SMT, <2>1 DEF TypeData
    <3>3. 1 <= ins[t] /\ ins[t] <= it[t]
      BY <3>1 DEF Cursors, Cursor
    <3>4. 1 <= ins'[t] /\ ins'[t] <= it'[t] /\ it'[t] <= Len(retired'[rec'[t]]) + 1
      <4>1. 1 <= ins[t] + 1 /\ ins[t] + 1 <= it[t] + 1 /\ ins[t] <= it[t] + 1 /\ it[t] + 1 <= Len(retired[rec[t]]) + 1
        BY <3>1, <3>2, <3>3, NextCursors
      <4>. QED BY <3>1, <3>3, <4>1
    <3>. QED BY <3>1, <3>4, <2>3 DEF Cursors, Cursor
  <2>. QED BY <2>2, <2>3
<1>24. ASSUME NEW t \in Thread, ScanReturn(t) PROVE Cursors'
  <2> SUFFICES ASSUME NEW u \in Thread PROVE Cursor(u)'
    BY DEF Cursors
  <2>1. rec[t] \in Rec
    BY <1>24 DEF ScanReturn
  <2>2. CASE u # t
    <3>1. /\ pc'[u] = pc[u] /\ ret'[u] = ret[u] /\ rec'[u] = rec[u] /\ gidx'[u] = gidx[u]
          /\ hidx'[u] = hidx[u] /\ ins'[u] = ins[u] /\ it'[u] = it[u]
      BY SMTT(40), <1>24, <2>2 DEF ScanReturn
    <3>2. pc[u] = "compact" => retired'[rec[u]] = retired[rec[u]]
      BY SMT, <1>24, <2>1, <2>2 DEF ScanReturn
    <3>. QED BY <3>1, <3>2 DEF Cursors, Cursor
  <2>3. CASE u = t
    <3>1. pc'[t] = ret[t] /\ ret'[t] = ret[t] /\ hidx'[t] = hidx[t] /\ pc[t] = "compact"
      BY <1>24 DEF ScanReturn
    <3>. QED BY <3>1, <2>3 DEF Cursors, Cursor
  <2>. QED BY <2>2, <2>3
<1>25. ASSUME NEW t \in Thread, Detach(t) PROVE Cursors'
  BY <1>25 DEF Detach, Cursors, Cursor
<1>26. ASSUME NEW t \in Thread, HelpScan(t) PROVE Cursors'
  BY <1>26 DEF HelpScan, Cursors, Cursor
<1>27. ASSUME NEW t \in Thread, HelpSkip(t) PROVE Cursors'
  BY <1>27 DEF HelpSkip, Cursors, Cursor
<1>28. ASSUME NEW t \in Thread, HelpLook(t) PROVE Cursors'
  BY <1>28 DEF HelpLook, Cursors, Cursor
<1>29. ASSUME NEW t \in Thread, HelpBusy(t) PROVE Cursors'
  BY <1>29 DEF HelpBusy, Cursors, Cursor
<1>30. ASSUME NEW t \in Thread, HelpTake(t) PROVE Cursors'
  <2> SUFFICES ASSUME NEW u \in Thread PROVE Cursor(u)'
    BY DEF Cursors
  <2>1. rec[t] \in Rec
    BY <1>30 DEF HelpTake
  <2>2. CASE u # t
    <3>1. /\ pc'[u] = pc[u] /\ ret'[u] = ret[u] /\ rec'[u] = rec[u] /\ gidx'[u] = gidx[u]
          /\ hidx'[u] = hidx[u] /\ ins'[u] = ins[u] /\ it'[u] = it[u]
      BY SMT, <1>30, <2>2 DEF HelpTake
    <3>2. pc[u] = "compact" => retired'[rec[u]] = retired[rec[u]]
      BY <1>30, <2>1, <2>2 DEF HelpTake
    <3>. QED BY <3>1, <3>2 DEF Cursors, Cursor
  <2>3. CASE u = t
    <3>1. pc'[t] = "move" /\ hidx'[t] = 1
      BY <1>30 DEF HelpTake, TypeData
    <3>. QED BY SMT, <3>1, <2>3 DEF Cursor
  <2>. QED BY <2>2, <2>3
<1>31. ASSUME NEW t \in Thread, HelpMove(t) PROVE Cursors'
  <2> SUFFICES ASSUME NEW u \in Thread PROVE Cursor(u)'
    BY DEF Cursors
  <2>1. rec[t] \in Rec
    BY <1>31 DEF HelpMove
  <2>2. CASE u # t
    <3>1. /\ pc'[u] = pc[u] /\ ret'[u] = ret[u] /\ rec'[u] = rec[u] /\ gidx'[u] = gidx[u]
          /\ hidx'[u] = hidx[u] /\ ins'[u] = ins[u] /\ it'[u] = it[u]
      BY SMTT(40), <1>31, <2>2 DEF HelpMove
    <3>2. pc[u] = "compact" => retired'[rec[u]] = retired[rec[u]]
      BY SMTT(40), <1>31, <2>1, <2>2 DEF HelpMove
    <3>. QED BY <3>1, <3>2 DEF Cursors, Cursor
  <2>3. CASE u = t
    <3>1. pc'[t] \in {"move", "scan"} /\ hidx'[t] = hidx[t] + 1 /\ pc[t] = "move" /\ hidx[t] \in Nat
      BY <1>31 DEF HelpMove, TypeData
    <3>. QED BY SMT, <3>1, <2>3 DEF Cursors, Cursor
  <2>. QED BY <2>2, <2>3
<1>32. ASSUME NEW t \in Thread, HelpClear(t) PROVE Cursors'
  <2> SUFFICES ASSUME NEW u \in Thread PROVE Cursor(u)'
    BY DEF Cursors
  <2>1. rec[t] \in Rec /\ HoldsOther(t) /\ hprec[t] \in Rec
    BY <1>32 DEF HelpClear, HoldsOther
  <2>2. CASE u # t
    <3>1. /\ pc'[u] = pc[u] /\ ret'[u] = ret[u] /\ rec'[u] = rec[u] /\ gidx'[u] = gidx[u]
          /\ hidx'[u] = hidx[u] /\ ins'[u] = ins[u] /\ it'[u] = it[u]
      BY SMTT(40), <1>32, <2>2 DEF HelpClear
    <3>2. pc[u] = "compact" => retired'[rec[u]] = retired[rec[u]]
      BY SMT, <1>32, <2>1, <2>2 DEF HelpClear
    <3>. QED BY <3>1, <3>2 DEF Cursors, Cursor
  <2>3. CASE u = t
    <3>1. pc'[t] = "release"
      BY <1>32 DEF HelpClear
    <3>. QED BY <3>1, <2>3 DEF Cursor
  <2>. QED BY <2>2, <2>3
<1>33. ASSUME NEW t \in Thread, HelpRelease(t) PROVE Cursors'
  BY <1>33 DEF HelpRelease, Cursors, Cursor
<1>34. ASSUME NEW t \in Thread, Detached(t) PROVE Cursors'
  BY <1>34 DEF Detached, Cursors, Cursor
<1>35. ASSUME Destruct PROVE Cursors'
  BY <1>35 DEF Destruct, Cursors, Cursor
<1>36. ASSUME UNCHANGED vars PROVE Cursors'
  BY <1>36 DEF vars, Cursors, Cursor
<1> HIDE DEF TypeControl, Goto, CallScan, AfterPush, smrVars, helpVars, protectVars, scanVars, clientVars, Moving, Scanning
<1>. QED
  BY <1>1, <1>2, <1>3, <1>4, <1>5, <1>6, <1>7, <1>8, <1>9, <1>10, <1>11, <1>12, <1>13, <1>14, <1>15, <1>16, <1>17, <1>18, <1>19, <1>20, <1>21, <1>22, <1>23, <1>24, <1>25, <1>26, <1>27, <1>28, <1>29, <1>30, <1>31, <1>32, <1>33, <1>34, <1>35, <1>36 DEF Next, AllocStep, ClientStep, ScanStep, HelpStep

-----------------------------------------------------------------------------
(* Records that hold no retired pointer *)

\* A record past the list, or free for reuse, has an empty array; a record in use is not free.
Empties ==
  /\ \A r \in Rec : r > thread_list => retired[r] = <<>>
  /\ FreeIsEmpty
  /\ \A t \in Thread : rec[t] \in Rec => ~ free[rec[t]]

\* At the start every retired array is empty.
LEMMA EmptiesInit == Init => Empties
  BY SMT DEF Init, Empties, FreeIsEmpty

\* Each step keeps the unallocated and the free records empty.
LEMMA EmptiesNext == Own /\ TypeData /\ Empties /\ [Next]_vars => Empties'
<1> SUFFICES ASSUME Own, TypeData, Empties, [Next]_vars PROVE Empties'
  OBVIOUS
<1>a. /\ \A t \in Thread : pc[t] \notin {"detached", "alloc", "reuse"} => rec[t] \in Rec
      /\ \A t \in Thread : HoldsOther(t) => hprec[t] \in Rec /\ hprec[t] # rec[t]
      /\ \A t, u \in Thread : t # u /\ HoldsOther(t) => rec[u] # hprec[t]
      /\ \A t \in Thread : rec[t] <= thread_list
      /\ TypeControl
      /\ retired \in [Rec -> Seq(Obj)]
  BY OwnFacts DEF Own, TypeData
<1> USE <1>a, ConstantsAssumption DEF Rec, TypeControl, Empties, FreeIsEmpty, Goto, CallScan, AfterPush, smrVars, helpVars
<1>1. ASSUME NEW t \in Thread, Attach(t) PROVE Empties'
  BY <1>1 DEF Attach
<1>2. ASSUME NEW t \in Thread, AllocSkip(t) PROVE Empties'
  BY <1>2 DEF AllocSkip
<1>3. ASSUME NEW t \in Thread, AllocTake(t) PROVE Empties'
  BY <1>3 DEF AllocTake
<1>4. ASSUME NEW t \in Thread, AllocReuse(t) PROVE Empties'
  BY <1>4 DEF AllocReuse
<1>5. ASSUME NEW t \in Thread, AllocNew(t) PROVE Empties'
  <2>a. thread_list \in Nat /\ \A u \in Thread : rec[u] \in Nat
    BY SMT
  <2>1. thread_list + 1 \in Rec /\ \A u \in Thread : rec[u] # thread_list + 1
    BY SMT, <1>5, <2>a DEF AllocNew
  <2>2. \A u \in Thread : rec'[u] = IF u = t THEN thread_list + 1 ELSE rec[u]
    BY <1>5 DEF AllocNew
  <2>3. \A r \in Rec : /\ retired'[r] = IF r = thread_list + 1 THEN <<>> ELSE retired[r]
                       /\ free'[r] = IF r = thread_list + 1 THEN FALSE ELSE free[r]
    BY <1>5, <2>1 DEF AllocNew
  <2>4. thread_list' = thread_list + 1
    BY <1>5 DEF AllocNew
  <2>5. ASSUME NEW r \in Rec, r > thread_list' PROVE retired'[r] = <<>>
    <3>1. r > thread_list /\ r # thread_list + 1
      BY SMT, <2>a, <2>4, <2>5
    <3>. QED BY <3>1, <2>3
  <2>6. \A r \in Rec : free'[r] => retired'[r] = <<>>
    BY <2>3
  <2>7. \A u \in Thread : rec'[u] \in Rec => ~ free'[rec'[u]]
    BY <2>1, <2>2, <2>3
  <2>. QED BY <2>5, <2>6, <2>7
<1>6. ASSUME NEW t \in Thread, NEW c \in Cell, NEW o \in Obj, Link(t, c, o) PROVE Empties'
  BY <1>6 DEF Link
<1>7. ASSUME NEW t \in Thread, NEW c \in Cell, NEW p \in Ptr, Retire(t, c, p) PROVE Empties'
  BY SMT, <1>7 DEF Retire
<1>8. ASSUME NEW t \in Thread, NEW i \in Slot, NEW c \in Cell, Protect(t, i, c) PROVE Empties'
  BY <1>8 DEF Protect
<1>9. ASSUME NEW t \in Thread, ProtectAssign(t) PROVE Empties'
  BY <1>9 DEF ProtectAssign
<1>10. ASSUME NEW t \in Thread, ProtectRetry(t) PROVE Empties'
  BY <1>10 DEF ProtectRetry
<1>11. ASSUME NEW t \in Thread, ProtectDone(t) PROVE Empties'
  BY <1>11 DEF ProtectDone
<1>12. ASSUME NEW t \in Thread, NEW i \in Slot, Clear(t, i) PROVE Empties'
  BY <1>12 DEF Clear
<1>13. ASSUME NEW t \in Thread, NEW q \in CopyPairs, Copy(t, q[1], q[2]) PROVE Empties'
  BY <1>13 DEF Copy
<1>14. ASSUME NEW t \in Thread, ForceScan(t) PROVE Empties'
  BY <1>14 DEF ForceScan
<1>15. ASSUME NEW t \in Thread, ScanNothing(t) PROVE Empties'
  BY <1>15 DEF ScanNothing
<1>16. ASSUME NEW t \in Thread, ScanInplace(t) PROVE Empties'
  BY <1>16 DEF ScanInplace, Collecting
<1>17. ASSUME NEW t \in Thread, ScanClassic(t) PROVE Empties'
  BY <1>17 DEF ScanClassic, Collecting
<1>18. ASSUME NEW t \in Thread, CollectSkip(t) PROVE Empties'
  BY <1>18 DEF CollectSkip
<1>19. ASSUME NEW t \in Thread, CollectOwned(t) PROVE Empties'
  BY <1>19 DEF CollectOwned
<1>20. ASSUME NEW t \in Thread, CollectSlot(t) PROVE Empties'
  BY <1>20 DEF CollectSlot
<1>21. ASSUME NEW t \in Thread, CollectDone(t) PROVE Empties'
  BY <1>21 DEF CollectDone
<1>22. ASSUME NEW t \in Thread, CompactKeep(t) PROVE Empties'
  BY SMTT(40), <1>22 DEF CompactKeep
<1>23. ASSUME NEW t \in Thread, CompactFree(t) PROVE Empties'
  BY <1>23 DEF CompactFree
<1>24. ASSUME NEW t \in Thread, ScanReturn(t) PROVE Empties'
  BY SMT, <1>24 DEF ScanReturn
<1>25. ASSUME NEW t \in Thread, Detach(t) PROVE Empties'
  BY <1>25 DEF Detach
<1>26. ASSUME NEW t \in Thread, HelpScan(t) PROVE Empties'
  BY <1>26 DEF HelpScan
<1>27. ASSUME NEW t \in Thread, HelpSkip(t) PROVE Empties'
  BY <1>27 DEF HelpSkip
<1>28. ASSUME NEW t \in Thread, HelpLook(t) PROVE Empties'
  BY <1>28 DEF HelpLook
<1>29. ASSUME NEW t \in Thread, HelpBusy(t) PROVE Empties'
  BY <1>29 DEF HelpBusy
<1>30. ASSUME NEW t \in Thread, HelpTake(t) PROVE Empties'
  BY <1>30 DEF HelpTake
<1>31. ASSUME NEW t \in Thread, HelpMove(t) PROVE Empties'
  BY SMT, <1>31 DEF HelpMove
<1>32. ASSUME NEW t \in Thread, HelpClear(t) PROVE Empties'
  <2>1. HoldsOther(t)
    BY <1>32 DEF HelpClear, HoldsOther, Moving
  <2>2. hprec[t] \in Rec /\ \A u \in Thread : rec[u] # hprec[t]
    BY <2>1
  <2>3. \A r \in Rec : /\ retired'[r] = IF r = hprec[t] THEN <<>> ELSE retired[r]
                       /\ free'[r] = IF r = hprec[t] THEN TRUE ELSE free[r]
    BY <1>32, <2>2 DEF HelpClear
  <2>4. thread_list' = thread_list /\ rec' = rec
    BY <1>32 DEF HelpClear
  <2>. QED BY <2>2, <2>3, <2>4
<1>33. ASSUME NEW t \in Thread, HelpRelease(t) PROVE Empties'
  BY <1>33 DEF HelpRelease
<1>34. ASSUME NEW t \in Thread, Detached(t) PROVE Empties'
  <2>1. \A u \in Thread : rec'[u] = IF u = t THEN 0 ELSE rec[u]
    BY <1>34 DEF Detached
  <2>2. UNCHANGED <<thread_list, retired, free>>
    BY <1>34 DEF Detached
  <2>3. \A u \in Thread : rec'[u] \in Rec => rec'[u] = rec[u]
    BY SMT, <2>1
  <2>. QED BY <2>2, <2>3
<1>35. ASSUME Destruct PROVE Empties'
  BY <1>35 DEF Destruct
<1>36. ASSUME UNCHANGED vars PROVE Empties'
  BY <1>36 DEF vars
<1> HIDE DEF Rec, TypeControl, Empties, FreeIsEmpty, Goto, CallScan, AfterPush, smrVars, helpVars
<1>. QED
  BY <1>1, <1>2, <1>3, <1>4, <1>5, <1>6, <1>7, <1>8, <1>9, <1>10, <1>11, <1>12, <1>13, <1>14, <1>15, <1>16, <1>17, <1>18, <1>19, <1>20, <1>21, <1>22, <1>23, <1>24, <1>25, <1>26, <1>27, <1>28, <1>29, <1>30, <1>31, <1>32, <1>33, <1>34, <1>35, <1>36 DEF Next, AllocStep, ClientStep, ScanStep, HelpStep
HIDE DEF Rec
=============================================================================
