------------------------ MODULE HazardPointerSafety ------------------------
(* The proofs about HazardPointer, from the types and the owners of the records in
   HazardPointerTypes. First the retired objects: in which cell of which array each one
   is (Listed). Then the guards, and what the scans have collected of them: with these
   come the theorems. Last, the refinement of SafeReclamation. *)
EXTENDS HazardPointerTypes

\* The provers to try, in this order.
USE Zenon, SMT

-----------------------------------------------------------------------------
(* What the guards protect, for the refinement *)

\* What Protects says of one guard.
LEMMA ProtectsAt ==
  ASSUME NEW g \in Rec \X Slot
  PROVE  /\ g[1] \in Rec /\ g[2] \in Slot /\ g = <<g[1], g[2]>>
         /\ Protects[g] = IF valid[g[1]][g[2]] THEN hazards[g[1]][g[2]] ELSE nullptr
         /\ Protects'[g] = IF valid'[g[1]][g[2]] THEN hazards'[g[1]][g[2]] ELSE nullptr
  BY SMT DEF Protects

\* No guard protects anything at the start.
LEMMA ProtectsInit == Init => SMR!Init
  BY SMT DEF Init, SMR!Init, Protects

\* Protects is a function from the guards.
LEMMA ProtectsFunction ==
  /\ Protects = [g \in Rec \X Slot |-> Protects[g]]
  /\ Protects' = [g \in Rec \X Slot |-> Protects'[g]]
  BY DEF Protects

\* Protects depends on the valid guards only.
LEMMA ProtectsSame ==
  ASSUME \A r \in Rec, i \in Slot : valid'[r][i] = valid[r][i] /\ (valid[r][i] => hazards'[r][i] = hazards[r][i])
  PROVE  Protects' = Protects
<1>1. \A g \in Rec \X Slot : Protects'[g] = Protects[g]
  BY SMT, ProtectsAt
<1>. QED BY <1>1, ProtectsFunction

\* A step that changes one guard changes Protects there only.
LEMMA ProtectsChange ==
  ASSUME NEW r \in Rec, NEW k \in Slot,
         \A s \in Rec, i \in Slot : ~ (s = r /\ i = k) => hazards'[s][i] = hazards[s][i] /\ valid'[s][i] = valid[s][i]
  PROVE  Protects' = [Protects EXCEPT ![<<r, k>>] = IF valid'[r][k] THEN hazards'[r][k] ELSE nullptr]
<1> DEFINE v == IF valid'[r][k] THEN hazards'[r][k] ELSE nullptr
<1>1. ASSUME NEW g \in Rec \X Slot PROVE Protects'[g] = IF g = <<r, k>> THEN v ELSE Protects[g]
  <2>1. CASE g[1] = r /\ g[2] = k
    BY ZenonT(60), <2>1, ProtectsAt
  <2>2. CASE ~ (g[1] = r /\ g[2] = k)
    BY SMT, <2>2, ProtectsAt
  <2>. QED BY <2>1, <2>2
<1> HIDE DEF v
<1>2. Protects' = [Protects EXCEPT ![<<r, k>>] = v]
  BY <1>1, ProtectsFunction
<1>. QED BY <1>2 DEF v

\* Clearing or overwriting guards K of record r releases them, and nothing else.
LEMMA ReleaseStep ==
  ASSUME mem' = mem, NEW r \in Rec, NEW K \in SUBSET Slot,
         \A s \in Rec, i \in Slot : ~ (s = r /\ i \in K) => hazards'[s][i] = hazards[s][i] /\ valid'[s][i] = valid[s][i],
         \A i \in K : ~ valid'[r][i]
  PROVE  SMR!Next
<1> DEFINE G == {g \in Rec \X Slot : g[1] = r /\ g[2] \in K}
<1>1. ASSUME NEW g \in Rec \X Slot PROVE Protects'[g] = IF g \in G THEN nullptr ELSE Protects[g]
  <2>1. CASE g[1] = r /\ g[2] \in K
    BY <2>1, ProtectsAt
  <2>2. CASE ~ (g[1] = r /\ g[2] \in K)
    BY SMT, <2>2, ProtectsAt
  <2>. QED BY <2>1, <2>2
<1>2. G \in SUBSET (Rec \X Slot)
  OBVIOUS
<1> HIDE DEF G
<1>3. Protects' = [g \in Rec \X Slot |-> IF g \in G THEN nullptr ELSE Protects[g]]
  BY <1>1, ProtectsFunction
<1>. QED BY <1>2, <1>3 DEF SMR!Next, SMR!Release

\* Clearing one guard is a Release of the abstract specification.
LEMMA ReleaseOne ==
  ASSUME mem' = mem, NEW r \in Rec, NEW k \in Slot, ~ valid'[r][k],
         \A s \in Rec, i \in Slot : ~ (s = r /\ i = k) => hazards'[s][i] = hazards[s][i] /\ valid'[s][i] = valid[s][i]
  PROVE  SMR!Next
<1>1. PICK K \in SUBSET Slot : K = {k}
  OBVIOUS
<1>2. \A s \in Rec, i \in Slot : ~ (s = r /\ i \in K) => hazards'[s][i] = hazards[s][i] /\ valid'[s][i] = valid[s][i]
  BY <1>1
<1>3. \A i \in K : ~ valid'[r][i]
  BY <1>1
<1>. QED BY <1>2, <1>3, ReleaseStep

\* A set of retired objects that no guard protects is reclaimed.
LEMMA ReclaimStep ==
  ASSUME NEW S \in SUBSET Obj, Protects' = Protects,
         \A o \in S : mem[o] = "retired",
         \A r \in Rec, i \in Slot : valid[r][i] => hazards[r][i] \notin S,
         0 \notin S, mem' = [o \in Obj |-> IF o \in S THEN "free" ELSE mem[o]]
  PROVE  SMR!Next
<1>1. \A g \in Rec \X Slot : Protects[g] \notin S
  BY DEF Protects, nullptr
<1>2. \A o \in S : o \notin SMR!Protected
  BY <1>1 DEF SMR!Protected
<1>. QED BY <1>2 DEF SMR!Next, SMR!Reclaim

-----------------------------------------------------------------------------
(* Which cells of the retired arrays stand for an object *)

USE DEF Rec

\* The actions that change neither the arrays, nor the containers, nor the part
\* of an array that is live.
QuietStep(t) ==
  \/ Attach(t) \/ AllocSkip(t) \/ AllocTake(t) \/ AllocReuse(t)
  \/ \E i \in Slot, c \in Cell : Protect(t, i, c)
  \/ ProtectAssign(t) \/ ProtectRetry(t) \/ ProtectDone(t)
  \/ \E i \in Slot : Clear(t, i)
  \/ \E q \in CopyPairs : Copy(t, q[1], q[2])
  \/ ForceScan(t) \/ ScanNothing(t) \/ ScanClassic(t)
  \/ CollectSkip(t) \/ CollectOwned(t) \/ CollectSlot(t)
  \/ Detach(t) \/ HelpScan(t) \/ HelpSkip(t) \/ HelpLook(t) \/ HelpBusy(t)
  \/ HelpRelease(t) \/ Detached(t)

\* u goes on with the same cells.
SameUse(u) ==
  /\ Moving(u)' <=> Moving(u)
  /\ Moving(u) => hprec'[u] = hprec[u] /\ hidx'[u] = hidx[u]
  /\ (pc'[u] = "compact") <=> (pc[u] = "compact")
  /\ pc[u] = "compact" => rec'[u] = rec[u] /\ ins'[u] = ins[u] /\ it'[u] = it[u]

\* A quiet step leaves alone every array and every use of a record.
LEMMA QuietFrame ==
  ASSUME TypeControl, NEW t \in Thread, QuietStep(t)
  PROVE  UNCHANGED <<retired, mem, cell>> /\ \A u \in Thread : SameUse(u)
<1> USE DEF TypeControl, SameUse, Moving, Scanning, Goto, CallScan, smrVars, clientVars, helpVars, scanVars, protectVars
<1>1. ASSUME Attach(t) PROVE UNCHANGED <<retired, mem, cell>> /\ \A u \in Thread : SameUse(u)
  BY <1>1 DEF Attach
<1>2. ASSUME AllocSkip(t) PROVE UNCHANGED <<retired, mem, cell>> /\ \A u \in Thread : SameUse(u)
  BY <1>2 DEF AllocSkip
<1>3. ASSUME AllocTake(t) PROVE UNCHANGED <<retired, mem, cell>> /\ \A u \in Thread : SameUse(u)
  BY <1>3 DEF AllocTake
<1>4. ASSUME AllocReuse(t) PROVE UNCHANGED <<retired, mem, cell>> /\ \A u \in Thread : SameUse(u)
  BY <1>4 DEF AllocReuse
<1>5. ASSUME NEW i \in Slot, NEW c \in Cell, Protect(t, i, c) PROVE UNCHANGED <<retired, mem, cell>> /\ \A u \in Thread : SameUse(u)
  BY <1>5 DEF Protect
<1>6. ASSUME ProtectAssign(t) PROVE UNCHANGED <<retired, mem, cell>> /\ \A u \in Thread : SameUse(u)
  BY <1>6 DEF ProtectAssign
<1>7. ASSUME ProtectRetry(t) PROVE UNCHANGED <<retired, mem, cell>> /\ \A u \in Thread : SameUse(u)
  BY <1>7 DEF ProtectRetry
<1>8. ASSUME ProtectDone(t) PROVE UNCHANGED <<retired, mem, cell>> /\ \A u \in Thread : SameUse(u)
  BY <1>8 DEF ProtectDone
<1>9. ASSUME NEW i \in Slot, Clear(t, i) PROVE UNCHANGED <<retired, mem, cell>> /\ \A u \in Thread : SameUse(u)
  BY <1>9 DEF Clear
<1>10. ASSUME NEW q \in CopyPairs, Copy(t, q[1], q[2]) PROVE UNCHANGED <<retired, mem, cell>> /\ \A u \in Thread : SameUse(u)
  BY <1>10 DEF Copy
<1>11. ASSUME ForceScan(t) PROVE UNCHANGED <<retired, mem, cell>> /\ \A u \in Thread : SameUse(u)
  BY <1>11 DEF ForceScan
<1>12. ASSUME ScanNothing(t) PROVE UNCHANGED <<retired, mem, cell>> /\ \A u \in Thread : SameUse(u)
  BY <1>12 DEF ScanNothing
<1>13. ASSUME ScanClassic(t) PROVE UNCHANGED <<retired, mem, cell>> /\ \A u \in Thread : SameUse(u)
  BY <1>13 DEF ScanClassic, Collecting
<1>14. ASSUME CollectSkip(t) PROVE UNCHANGED <<retired, mem, cell>> /\ \A u \in Thread : SameUse(u)
  BY <1>14 DEF CollectSkip
<1>15. ASSUME CollectOwned(t) PROVE UNCHANGED <<retired, mem, cell>> /\ \A u \in Thread : SameUse(u)
  BY <1>15 DEF CollectOwned
<1>16. ASSUME CollectSlot(t) PROVE UNCHANGED <<retired, mem, cell>> /\ \A u \in Thread : SameUse(u)
  BY <1>16 DEF CollectSlot
<1>17. ASSUME Detach(t) PROVE UNCHANGED <<retired, mem, cell>> /\ \A u \in Thread : SameUse(u)
  BY <1>17 DEF Detach
<1>18. ASSUME HelpScan(t) PROVE UNCHANGED <<retired, mem, cell>> /\ \A u \in Thread : SameUse(u)
  BY <1>18 DEF HelpScan
<1>19. ASSUME HelpSkip(t) PROVE UNCHANGED <<retired, mem, cell>> /\ \A u \in Thread : SameUse(u)
  BY <1>19 DEF HelpSkip
<1>20. ASSUME HelpLook(t) PROVE UNCHANGED <<retired, mem, cell>> /\ \A u \in Thread : SameUse(u)
  BY <1>20 DEF HelpLook
<1>21. ASSUME HelpBusy(t) PROVE UNCHANGED <<retired, mem, cell>> /\ \A u \in Thread : SameUse(u)
  BY <1>21 DEF HelpBusy
<1>22. ASSUME HelpRelease(t) PROVE UNCHANGED <<retired, mem, cell>> /\ \A u \in Thread : SameUse(u)
  BY <1>22 DEF HelpRelease
<1>23. ASSUME Detached(t) PROVE UNCHANGED <<retired, mem, cell>> /\ \A u \in Thread : SameUse(u)
  BY <1>23 DEF Detached
<1> HIDE DEF SameUse
<1>. QED
  BY <1>1, <1>2, <1>3, <1>4, <1>5, <1>6, <1>7, <1>8, <1>9, <1>10, <1>11, <1>12, <1>13, <1>14, <1>15, <1>16, <1>17, <1>18, <1>19, <1>20, <1>21, <1>22, <1>23 DEF QuietStep

\* The live cells of a record depend on its array and its users only.
LEMMA LiveSame ==
  ASSUME NEW r \in Rec, retired'[r] = retired[r], \A u \in Thread : SameUse(u)
  PROVE  Live(r)' = Live(r)
  BY ZenonT(60) DEF Live, Open, SameUse

\* The live cells of a record that a thread has to itself.
LEMMA LiveShape ==
  ASSUME Own, TypeData, NEW t \in Thread
  PROVE  /\ rec[t] \in Rec /\ pc[t] # "compact" => Live(rec[t]) = 1 .. Len(retired[rec[t]])
         /\ pc[t] = "compact" => Live(rec[t]) = {i \in 1 .. Len(retired[rec[t]]) : i < ins[t] \/ i >= it[t]}
         /\ Moving(t) => Live(hprec[t]) = {i \in 1 .. Len(retired[hprec[t]]) : i >= hidx[t]}
<1>1. /\ \A u \in Thread : u # t /\ rec[t] \in Rec => rec[u] # rec[t]
      /\ \A u \in Thread : Moving(u) /\ rec[t] \in Rec => hprec[u] # rec[t]
      /\ \A u \in Thread : Moving(t) => rec[u] # hprec[t]
      /\ \A u \in Thread : u # t /\ Moving(t) /\ Moving(u) => hprec[u] # hprec[t]
      /\ Moving(t) => hprec[t] \in Rec
      /\ pc[t] = "compact" => rec[t] \in Rec
  BY OwnFacts DEF HoldsOther
<1>2. \A r \in Rec : DOMAIN retired[r] = 1 .. Len(retired[r])
  BY SMT DEF TypeData
<1>. QED BY <1>1, <1>2 DEF Live, Open
-----------------------------------------------------------------------------
(* Every retired object is in exactly one live cell *)

\* What a cell of the client points to is linked, and in one cell only.
Cells ==
  /\ \A c \in Cell : cell[c] # nullptr => mem[cell[c]] = "linked"
  /\ \A c, d \in Cell : cell[c] = cell[d] /\ cell[c] # nullptr => c = d

\* Listed: a live cell holds a retired object; no object is in two live cells;
\* every retired object is in one.
ListedRetired == \A r \in Rec : \A i \in Live(r) : mem[retired[r][i]] = "retired"

\* No object is in two live cells.
ListedOnce ==
  \A r, q \in Rec : \A i \in Live(r), j \in Live(q) :
    retired[r][i] = retired[q][j] => r = q /\ i = j

\* Every retired object is in a live cell.
ListedAll ==
  \A o \in Obj : mem[o] = "retired" => \E r \in Rec : \E i \in Live(r) : retired[r][i] = o

\* Every retired object is in exactly one live cell.
Listed == ListedRetired /\ ListedOnce /\ ListedAll

\* At the start nothing is linked and nothing is retired.
LEMMA ListedInit == Init => Cells /\ Listed
  BY SMT DEF Init, Cells, Listed, ListedRetired, ListedOnce, ListedAll, Live

\* So every retired object is in one cell only.
LEMMA ListedIsOnce == Listed => RetiredOnce
  BY SMT DEF Listed, ListedAll, ListedOnce, RetiredOnce

\* What the lemmas on the arrays need.
Base == Own /\ TypeData /\ Cursors /\ Empties

\* A live cell is a cell of the array and holds an object.
LEMMA LiveInDomain ==
  ASSUME TypeData, NEW r \in Rec, NEW i \in Live(r)
  PROVE  i \in 1 .. Len(retired[r]) /\ retired[r][i] \in Obj
<1>1. retired \in [Rec -> Seq(Obj)]
  BY ZenonT(60) DEF TypeData
<1>. QED
  BY SMT, <1>1 DEF Live

\* The cell that compaction looks at is a live one.
LEMMA CompactsLive ==
  ASSUME Base, NEW t \in Thread, pc[t] = "compact", it[t] <= Len(retired[rec[t]])
  PROVE  rec[t] \in Rec /\ it[t] \in Live(rec[t]) /\ it[t] \in 1 .. Len(retired[rec[t]])
<1>1. pc[t] = "compact" /\ it[t] <= Len(retired[rec[t]])
  OBVIOUS
<1>2. rec[t] \in Rec
  BY <1>1, OwnFacts DEF Base
<1>3. it[t] \in Nat /\ ins[t] \in Nat /\ Len(retired[rec[t]]) \in Nat
  BY SMT, <1>2 DEF Base, TypeData
<1>4. 1 <= ins[t] /\ ins[t] <= it[t]
  BY <1>1 DEF Base, Cursors, Cursor
<1>5. it[t] \in 1 .. Len(retired[rec[t]])
  BY SMT, <1>1, <1>3, <1>4
<1>. QED BY SMT, <1>1, <1>2, <1>3, <1>5, LiveShape DEF Base

\* So the cell that compaction frees is a live one.
LEMMA CompactFrees ==
  ASSUME Base, NEW t \in Thread, CompactFree(t)
  PROVE  rec[t] \in Rec /\ it[t] \in Live(rec[t]) /\ it[t] \in 1 .. Len(retired[rec[t]])
  BY CompactsLive DEF CompactFree

\* When every thread is detached every cell of every array is live.
LEMMA DestructFrees ==
  ASSUME Base, Listed, \A t \in Thread : pc[t] = "detached", NEW r \in Rec, NEW i \in DOMAIN retired[r]
  PROVE  i \in Live(r) /\ mem[retired[r][i]] = "retired"
  BY DEF Live, Open, Moving, Scanning, Listed, ListedRetired

\* How the cells and the objects of the containers change.
LEMMA CellsNext == Base /\ Listed /\ Cells /\ [Next]_vars => Cells'
<1> SUFFICES ASSUME Base, Listed, Cells, [Next]_vars PROVE Cells'
  OBVIOUS
<1>a. cell \in [Cell -> Ptr] /\ mem \in [Obj -> {"free", "linked", "retired"}]
  BY DEF Base, TypeData
<1>1. ASSUME UNCHANGED <<mem, cell>> PROVE Cells'
  BY <1>1 DEF Cells
<1>2. ASSUME NEW t \in Thread, NEW c \in Cell, NEW o \in Obj, Link(t, c, o) PROVE Cells'
  BY <1>a, <1>2, ConstantsAssumption DEF Cells, Link, Ptr, nullptr
<1>3. ASSUME NEW t \in Thread, NEW c \in Cell, NEW p \in Ptr, Retire(t, c, p) PROVE Cells'
  <2>1. \A d \in Cell : cell'[d] = IF d = c THEN p ELSE cell[d]
    BY <1>a, <1>3 DEF Retire
  <2>2. \A o \in Obj : mem'[o] = CASE o = cell[c] -> "retired" [] o = p -> "linked" [] OTHER -> mem[o]
    BY <1>3 DEF Retire
  <2>3. p # nullptr => mem[p] = "free"
    BY <1>3 DEF Retire
  <2>4. cell[c] # nullptr /\ mem[cell[c]] = "linked" /\ p # cell[c]
    BY <1>3, <2>3 DEF Retire, Cells
  <2>. QED BY SMT, <1>a, <2>1, <2>2, <2>3, <2>4 DEF Cells, Ptr
<1>4. ASSUME NEW t \in Thread, CompactFree(t) PROVE Cells'
  <2>1. retired[rec[t]][it[t]] \in Obj /\ mem[retired[rec[t]][it[t]]] = "retired"
    BY <1>4, CompactFrees, LiveInDomain DEF Base, Listed, ListedRetired
  <2>. QED BY <1>a, <1>4, <2>1 DEF CompactFree, Cells, Ptr
<1>5. ASSUME Destruct PROVE Cells'
  <2>1. \A r \in 1 .. thread_list : r \in Rec
    BY SMT, OwnFacts, ConstantsAssumption DEF Base, TypeControl, Rec
  <2>2. \A o \in Obj : mem'[o] # mem[o] => mem[o] = "retired"
    BY ZenonT(60), <1>5, <2>1, DestructFrees DEF Destruct
  <2>3. cell' = cell
    BY <1>5 DEF Destruct
  <2>. QED BY <1>a, <2>2, <2>3 DEF Cells, Ptr
<1>6. ASSUME NEW t \in Thread, QuietStep(t) PROVE Cells'
  BY <1>6, <1>1, QuietFrame, OwnFacts DEF Base
<1>7. ASSUME NEW t \in Thread,
             \/ AllocNew(t) \/ ScanInplace(t) \/ CollectDone(t) \/ CompactKeep(t)
             \/ ScanReturn(t) \/ HelpTake(t) \/ HelpMove(t) \/ HelpClear(t)
      PROVE  Cells'
  BY <1>7, <1>1 DEF AllocNew, ScanInplace, CollectDone, CompactKeep, ScanReturn, HelpTake, HelpMove,
                    HelpClear, clientVars
<1>8. ASSUME UNCHANGED vars PROVE Cells'
  BY <1>8, <1>1 DEF vars, clientVars
<1>. QED
  BY <1>2, <1>3, <1>4, <1>5, <1>6, <1>7, <1>8
  DEF Next, AllocStep, ClientStep, ScanStep, HelpStep, QuietStep

\* A step of t changes the live cells of the records t uses, and of no other.
LEMMA LiveMine ==
  ASSUME Own, NEW t \in Thread, \A u \in Thread \ {t} : SameUse(u),
         NEW r \in Rec, r = rec[t] \/ (HoldsOther(t) /\ r = hprec[t])
  PROVE  /\ Live(r)  = {i \in DOMAIN retired[r] : Open(t, r, i)}
         /\ Live(r)' = {i \in DOMAIN retired'[r] : Open(t, r, i)'}
<1>1. ASSUME NEW u \in Thread \ {t} PROVE (Moving(u) => hprec[u] # r) /\ rec[u] # r
  BY OwnFacts DEF HoldsOther
<1>2. ASSUME NEW u \in Thread \ {t}, NEW i PROVE Open(u, r, i) /\ Open(u, r, i)'
  BY <1>1 DEF Open, SameUse
<1>. QED BY <1>2 DEF Live

\* What a step of t leaves alone of the other threads is enough for SameUse.
LEMMA SameOthers ==
  ASSUME NEW t \in Thread,
         \A u \in Thread \ {t} :
           /\ pc'[u] = pc[u] /\ ret'[u] = ret[u] /\ rec'[u] = rec[u] /\ hprec'[u] = hprec[u]
           /\ hidx'[u] = hidx[u] /\ it'[u] = it[u] /\ ins'[u] = ins[u]
  PROVE  \A u \in Thread \ {t} : SameUse(u)
  BY DEF SameUse, Moving, Scanning

\* The cursors of t, with their types.
LEMMA CursorFacts ==
  ASSUME Base, NEW t \in Thread
  PROVE  /\ it[t] \in Nat /\ ins[t] \in Nat /\ hidx[t] \in Nat
         /\ pc[t] = "compact" => 1 <= ins[t] /\ ins[t] <= it[t] /\ it[t] <= Len(retired[rec[t]]) + 1
         /\ Moving(t) => hidx[t] >= 1
  BY DEF Base, TypeData, Cursors, Cursor

\* The live cells of a record the stepping thread does not use stay.
LEMMA LiveTheirs ==
  ASSUME NEW t \in Thread, \A u \in Thread \ {t} : SameUse(u),
         NEW r \in Rec, retired'[r] = retired[r], \A i \in DOMAIN retired[r] : Open(t, r, i)' <=> Open(t, r, i)
  PROVE  Live(r)' = Live(r)
<1>1. ASSUME NEW u \in Thread \ {t}, NEW i PROVE Open(u, r, i)' <=> Open(u, r, i)
  BY DEF Open, SameUse
<1>. QED BY <1>1 DEF Live

\* Listed survives a step that changes no live cell.
LEMMA ListedSame ==
  ASSUME Listed, UNCHANGED <<retired, mem>>, \A r \in Rec : Live(r)' = Live(r)
  PROVE  Listed'
  BY SMT DEF Listed, ListedRetired, ListedOnce, ListedAll

\* What the proofs below use of the types.
LEMMA BaseTypes ==
  ASSUME Base
  PROVE  /\ cell \in [Cell -> Ptr] /\ mem \in [Obj -> {"free", "linked", "retired"}]
         /\ retired \in [Rec -> Seq(Obj)]
         /\ \A r \in Rec : Len(retired[r]) \in Nat /\ DOMAIN retired[r] = 1 .. Len(retired[r])
         /\ \A r \in Rec : \A i \in 1 .. Len(retired[r]) : retired[r][i] \in Obj
<1>1. /\ cell \in [Cell -> Ptr] /\ mem \in [Obj -> {"free", "linked", "retired"}]
      /\ retired \in [Rec -> Seq(Obj)]
  BY DEF Base, TypeData
<1>. QED
  BY SMT, <1>1

\* Every live cell holds an object.
LEMMA BaseLive ==
  ASSUME Base
  PROVE  \A r \in Rec : \A i \in Live(r) : i \in 1 .. Len(retired[r]) /\ retired[r][i] \in Obj
  BY LiveInDomain DEF Base

\* An attached thread has a record.
LEMMA BaseOwn ==
  ASSUME Base
  PROVE  /\ TypeControl /\ Own
         /\ \A t \in Thread : pc[t] \notin {"detached", "alloc", "reuse"} => rec[t] \in Rec
  BY OwnFacts DEF Base

\* The per-thread variables are functions on Thread.
LEMMA BaseDomains ==
  ASSUME Base
  PROVE  DOMAIN pc = Thread /\ DOMAIN ret = Thread /\ DOMAIN hidx = Thread
  BY BaseOwn DEF TypeControl, Base, TypeData

\* Steps that touch no array, no cursor and no object.
LEMMA ListedQuiet ==
  ASSUME Base, Cells, Listed, NEW t \in Thread, QuietStep(t)
  PROVE  Listed'
  BY BaseOwn, QuietFrame, LiveSame, ListedSame

\* Link publishes an object that no array holds.
LEMMA ListedLink ==
  ASSUME Base, Cells, Listed, NEW t \in Thread, NEW c \in Cell, NEW o \in Obj, Link(t, c, o)
  PROVE  Listed'
<1>1. \A u \in Thread : SameUse(u)
  BY DEF Link, SameUse, Moving, Scanning, helpVars, scanVars
<1>2. retired' = retired /\ \A r \in Rec : Live(r)' = Live(r)
  BY <1>1, LiveSame DEF Link
<1>3. mem[o] = "free" /\ mem' = [mem EXCEPT ![o] = "linked"]
  BY DEF Link
<1>. QED BY SMT, BaseTypes, BaseLive, <1>2, <1>3 DEF Listed, ListedRetired, ListedOnce, ListedAll

\* A new record has an empty array.
LEMMA ListedAllocNew ==
  ASSUME Base, Cells, Listed, NEW t \in Thread, AllocNew(t)
  PROVE  Listed'
<1>1. \A u \in Thread : SameUse(u)
  BY BaseOwn DEF AllocNew, SameUse, Moving, Scanning, scanVars, Goto, TypeControl
<1>2. thread_list + 1 \in Rec /\ thread_list \in Nat
  BY SMT, BaseOwn, ConstantsAssumption DEF AllocNew, TypeControl, Rec
<1>3. retired[thread_list + 1] = <<>>
  BY SMT, <1>2 DEF Base, Empties
<1>4. retired' = retired
  BY BaseTypes, <1>2, <1>3 DEF AllocNew
<1>5. mem' = mem
  BY DEF AllocNew, clientVars
<1>. QED BY <1>1, <1>4, <1>5, LiveSame, ListedSame

\* retire appends to the caller's own array an object no array held.
LEMMA ListedRetire ==
  ASSUME Base, Cells, Listed, NEW t \in Thread, NEW c \in Cell, NEW p \in Ptr, Retire(t, c, p)
  PROVE  Listed'
<1>a. pc[t] = "idle" /\ rec[t] \in Rec /\ cell[c] \in Obj
  BY BaseTypes, BaseOwn DEF Retire, Ptr
<1>1. PICK r \in Rec, n \in Nat, o \in Obj : r = rec[t] /\ n = Len(retired[r]) /\ o = cell[c]
  BY BaseTypes, <1>a
<1>2. \A u \in Thread : SameUse(u)
  BY BaseOwn DEF Retire, SameUse, Moving, Scanning, helpVars, scanVars, AfterPush, TypeControl
<1>3. o \in Obj /\ mem[o] = "linked" /\ p # o /\ (p # nullptr => mem[p] = "free")
  BY BaseTypes, <1>1 DEF Retire, Cells, Ptr
<1>4. \A x \in Obj : mem'[x] = CASE x = o -> "retired" [] x = p -> "linked" [] OTHER -> mem[x]
  BY <1>1 DEF Retire
<1>5. retired' = [retired EXCEPT ![r] = Append(retired[r], o)]
  BY <1>1 DEF Retire
<1>6. /\ \A q \in Rec : q # r => retired'[q] = retired[q]
      /\ \A i \in 1 .. n : retired'[r][i] = retired[r][i]
      /\ retired'[r][n + 1] = o
      /\ DOMAIN retired'[r] = 1 .. n + 1
  BY SMT, BaseTypes, <1>1, <1>3, <1>5
<1>7. \A q \in Rec : q # r => Live(q)' = Live(q)
  BY <1>2, <1>6, LiveSame
<1>8. Live(r) = 1 .. n
  BY BaseOwn, <1>a, <1>1, LiveShape DEF Base
<1>9. Live(r)' = 1 .. n + 1
  <2>1. \A i : Open(t, r, i) /\ Open(t, r, i)'
    BY BaseOwn, <1>a, <1>1, <1>2 DEF Open, SameUse, Moving, Scanning
  <2>2. Live(r)' = {i \in DOMAIN retired'[r] : Open(t, r, i)'}
    BY BaseOwn, <1>1, <1>2, LiveMine
  <2>. QED BY <1>6, <2>1, <2>2
<1>11. \A q \in Rec : \A i \in Live(q) : retired[q][i] # o
  BY <1>3 DEF Listed, ListedRetired
<1>12. \A q \in Rec : \A i \in Live(q)' :
         \/ i \in Live(q) /\ retired'[q][i] = retired[q][i]
         \/ q = r /\ i = n + 1 /\ retired'[q][i] = o
  <2>1. \A q \in Rec : q # r => \A i \in Live(q)' : i \in Live(q) /\ retired'[q][i] = retired[q][i]
    BY <1>6, <1>7
  <2>2. \A i \in 1 .. n + 1 : i \in 1 .. n \/ i = n + 1
    BY SMT, <1>1
  <2>3. \A i \in Live(r)' : \/ i \in Live(r) /\ retired'[r][i] = retired[r][i]
                            \/ i = n + 1 /\ retired'[r][i] = o
    <3> TAKE i \in Live(r)'
    <3>1. i \in 1 .. n \/ i = n + 1
      BY <1>9, <2>2
    <3>2. CASE i \in 1 .. n
      BY <1>6, <1>8, <3>2
    <3>3. CASE i = n + 1
      BY <1>6, <3>3
    <3>. QED BY ZenonT(60), <3>1, <3>2, <3>3
  <2>. QED BY <2>1, <2>3
<1>10. ListedRetired'
  <2>1. mem'[o] = "retired" /\ \A x \in Obj : mem[x] = "retired" => mem'[x] = "retired"
    BY <1>1, <1>3, <1>4, ConstantsAssumption DEF nullptr
  <2>. QED BY SMT, BaseLive, <1>12, <2>1 DEF Listed, ListedRetired
<1>13. ListedOnce'
  BY SMTT(40), <1>11, <1>12 DEF Listed, ListedOnce
<1>14. \A q \in Rec : \A i \in Live(q) : i \in Live(q)' /\ retired'[q][i] = retired[q][i]
  BY SMTT(40), <1>1, <1>6, <1>7, <1>8, <1>9
<1>15. n + 1 \in Live(r)' /\ retired'[r][n + 1] = o
  BY SMT, <1>1, <1>6, <1>9
<1>16. ListedAll'
  BY SMT, <1>1, <1>3, <1>4, <1>14, <1>15 DEF Listed, ListedAll
<1>. QED BY <1>10, <1>13, <1>16 DEF Listed

\* Sorting the array in place permutes its cells.
LEMMA ListedScanInplace ==
  ASSUME Base, Cells, Listed, NEW t \in Thread, ScanInplace(t)
  PROVE  Listed'
<1>a. pc[t] = "scan" /\ rec[t] \in Rec
  BY BaseOwn DEF ScanInplace
<1>1. PICK r \in Rec, n \in Nat : r = rec[t] /\ n = Len(retired[r]) /\ DOMAIN retired[r] = 1 .. n
  BY BaseTypes, <1>a
<1>2. \A u \in Thread : SameUse(u)
  BY BaseOwn DEF ScanInplace, Collecting, SameUse, Moving, Scanning, helpVars, Goto, TypeControl
<1>3. PICK s \in [1 .. n -> Obj] :
        SortedFrom(s, retired[r]) /\ retired' = [retired EXCEPT ![r] = s]
  BY <1>1 DEF ScanInplace
<1>b. PICK p \in [DOMAIN retired[r] -> DOMAIN retired[r]] :
        /\ \A i, j \in DOMAIN retired[r] : p[i] = p[j] => i = j
        /\ \A j \in DOMAIN retired[r] : \E i \in DOMAIN retired[r] : p[i] = j
        /\ \A i \in DOMAIN retired[r] : s[i] = retired[r][p[i]]
  BY <1>3, Zenon DEF SortedFrom
<1>4. /\ p \in [1 .. n -> 1 .. n]
      /\ \A i, j \in 1 .. n : p[i] = p[j] => i = j
      /\ \A j \in 1 .. n : \E i \in 1 .. n : p[i] = j
      /\ \A i \in 1 .. n : s[i] = retired[r][p[i]]
  BY <1>1, <1>b
<1>5. /\ \A q \in Rec : q # r => retired'[q] = retired[q]
      /\ \A i \in 1 .. n : retired'[r][i] = retired[r][p[i]]
      /\ DOMAIN retired'[r] = 1 .. n
  BY ZenonT(60), BaseTypes, <1>1, <1>3, <1>4
<1>6. \A q \in Rec : q # r => Live(q)' = Live(q)
  BY <1>2, <1>5, LiveSame
<1>7. Live(r) = 1 .. n
  BY BaseOwn, <1>a, <1>1, LiveShape DEF Base
<1>8. Live(r)' = 1 .. n
  <2>1. \A i : Open(t, r, i)'
    BY BaseOwn, <1>a, <1>1, <1>2, OwnFacts DEF Open, SameUse, HoldsOther
  <2>2. Live(r)' = {i \in DOMAIN retired'[r] : Open(t, r, i)'}
    BY BaseOwn, <1>1, <1>2, LiveMine
  <2>. QED BY <1>5, <2>1, <2>2
<1>9. mem' = mem
  BY DEF ScanInplace, clientVars
<1>10. \A q \in Rec : \A i \in Live(q)' :
         IF q = r THEN i \in 1 .. n /\ p[i] \in Live(r) /\ retired'[r][i] = retired[r][p[i]]
                  ELSE i \in Live(q) /\ retired'[q][i] = retired[q][i]
  <2>1. \A i \in Live(r)' : i \in 1 .. n /\ p[i] \in Live(r) /\ retired'[r][i] = retired[r][p[i]]
    BY <1>4, <1>5, <1>7, <1>8
  <2>2. \A q \in Rec : q # r => \A i \in Live(q)' : i \in Live(q) /\ retired'[q][i] = retired[q][i]
    BY ZenonT(60), <1>5, <1>6
  <2>. QED BY <2>1, <2>2
<1>11. ListedRetired'
  BY SMTT(40), <1>1, <1>9, <1>10 DEF Listed, ListedRetired
<1>12. ListedOnce'
  <2> SUFFICES ASSUME NEW x \in Rec, NEW y \in Rec, NEW i \in Live(x)', NEW j \in Live(y)',
                      retired'[x][i] = retired'[y][j]
               PROVE  x = y /\ i = j
    BY DEF ListedOnce
  <2>1. CASE x = r /\ y = r
    <3>1. /\ i \in 1 .. n /\ p[i] \in Live(r) /\ retired'[x][i] = retired[r][p[i]]
          /\ j \in 1 .. n /\ p[j] \in Live(r) /\ retired'[y][j] = retired[r][p[j]]
      BY <1>10, <2>1
    <3>2. retired[r][p[i]] = retired[r][p[j]]
      BY <2>1, <3>1
    <3>3. \A a, b \in Live(r) : retired[r][a] = retired[r][b] => a = b
      BY DEF Listed, ListedOnce
    <3>4. p[i] = p[j]
      BY <3>1, <3>2, <3>3
    <3>. QED BY <1>4, <2>1, <3>1, <3>4
  <2>2. CASE x # r /\ y # r
    BY SMTT(40), <1>10, <2>2 DEF Listed, ListedOnce
  <2>3. CASE x = r /\ y # r
    BY SMTT(40), <1>10, <2>3 DEF Listed, ListedOnce
  <2>4. CASE x # r /\ y = r
    BY SMT, <1>10, <2>4 DEF Listed, ListedOnce
  <2>. QED BY <2>1, <2>2, <2>3, <2>4
<1>13. \A q \in Rec : \A i \in Live(q) : \E j \in Live(q)' : retired'[q][j] = retired[q][i]
  <2>1. \A i \in 1 .. n : \E j \in 1 .. n : retired'[r][j] = retired[r][i]
    <3> TAKE i \in 1 .. n
    <3>1. PICK j \in 1 .. n : p[j] = i
      BY <1>4
    <3>. QED BY <1>5, <3>1
  <2>. QED BY ZenonT(60), <1>5, <1>6, <1>7, <1>8, <2>1
<1>14. ListedAll'
  BY SMT, <1>9, <1>13 DEF Listed, ListedAll
<1>. QED BY <1>11, <1>12, <1>14 DEF Listed

\* Compaction starts with every cell still to be examined.
LEMMA ListedCollectDone ==
  ASSUME Base, Cells, Listed, NEW t \in Thread, CollectDone(t)
  PROVE  Listed'
<1>1. \A u \in Thread \ {t} : SameUse(u)
  BY SMT, BaseOwn DEF CollectDone, SameUse, Moving, Scanning, helpVars, Goto, TypeControl
<1>2. UNCHANGED <<retired, mem>>
  BY DEF CollectDone, clientVars
<1>3. pc[t] = "collect" /\ pc'[t] = "compact" /\ ret' = ret /\ hprec' = hprec /\ hidx' = hidx
  BY BaseOwn DEF CollectDone, helpVars, Goto, TypeControl
<1>4. it'[t] = 1 /\ ins'[t] = 1
  BY DEF CollectDone, Base, TypeData
<1>5. \A r \in Rec : \A i \in DOMAIN retired[r] : Open(t, r, i)' <=> Open(t, r, i)
  <2>1. \A r \in Rec : \A i \in DOMAIN retired[r] : i >= 1
    BY SMT, BaseTypes
  <2>. QED BY <1>3, <1>4, <2>1 DEF Open, Moving, Scanning
<1>. QED BY <1>1, <1>2, <1>5, LiveTheirs, ListedSame

\* A kept pointer is moved from cell it to cell insert_pos.
LEMMA ListedCompactKeep ==
  ASSUME Base, Cells, Listed, NEW t \in Thread, CompactKeep(t)
  PROVE  Listed'
<1>a. pc[t] = "compact" /\ rec[t] \in Rec /\ it[t] <= Len(retired[rec[t]])
  BY BaseOwn DEF CompactKeep
<1>1. PICK r \in Rec, n \in Nat : r = rec[t] /\ n = Len(retired[r])
  BY BaseTypes, <1>a
<1>2. \A u \in Thread \ {t} : SameUse(u)
  BY SMTT(40), BaseOwn DEF CompactKeep, SameUse, Moving, Scanning, helpVars
<1>3. /\ ins[t] \in 1 .. it[t] /\ it[t] \in 1 .. n
      /\ ins'[t] = ins[t] + 1 /\ it'[t] = it[t] + 1
  BY SMT, <1>a, <1>1 DEF Base, TypeData, Cursors, Cursor, CompactKeep
<1>4. retired' = [retired EXCEPT ![r][ins[t]] = retired[r][it[t]]]
  BY <1>1 DEF CompactKeep
<1>5. /\ \A q \in Rec : q # r => retired'[q] = retired[q]
      /\ \A i \in 1 .. n : retired'[r][i] = IF i = ins[t] THEN retired[r][it[t]] ELSE retired[r][i]
      /\ DOMAIN retired'[r] = 1 .. n
  BY BaseTypes, <1>1, <1>3, <1>4
<1>6. \A q \in Rec : q # r => Live(q)' = Live(q)
  <2>1. UNCHANGED <<pc, ret, rec, hprec, hidx>>
    BY DEF CompactKeep, helpVars
  <2>2. \A q \in Rec : q # r => \A i : Open(t, q, i)' <=> Open(t, q, i)
    BY <1>1, <2>1 DEF Open, Moving, Scanning
  <2>. QED BY <1>2, <1>5, <2>2, LiveTheirs
<1>7. Live(r) = {i \in 1 .. n : i < ins[t] \/ i >= it[t]}
  BY BaseOwn, <1>a, <1>1, LiveShape DEF Base
<1>8. Live(r)' = {i \in 1 .. n : i < ins[t] + 1 \/ i >= it[t] + 1}
  <2>1. /\ pc'[t] = "compact" /\ rec'[t] = r /\ hprec'[t] = hprec[t]
        /\ Moving(t)' <=> Moving(t)
    BY <1>a, <1>1 DEF CompactKeep, helpVars, Moving, Scanning
  <2>2. \A i : Open(t, r, i)' <=> i < ins[t] + 1 \/ i >= it[t] + 1
    BY BaseOwn, <1>1, <1>3, <2>1, OwnFacts DEF Open, HoldsOther
  <2>3. Live(r)' = {i \in DOMAIN retired'[r] : Open(t, r, i)'}
    BY BaseOwn, <1>1, <1>2, LiveMine
  <2>. QED BY <1>5, <2>2, <2>3
<1>9. mem' = mem
  BY DEF CompactKeep, clientVars
<1>10. it[t] \in Live(r) /\ ins[t] \in Live(r)'
  BY SMT, <1>3, <1>7, <1>8
<1>11. \A q \in Rec : \A i \in Live(q)' :
         IF q = r /\ i = ins[t] THEN retired'[q][i] = retired[r][it[t]]
                                ELSE i \in Live(q) /\ retired'[q][i] = retired[q][i] /\ ~ (q = r /\ i = it[t])
  <2>1. \A q \in Rec : q # r => \A i \in Live(q)' : i \in Live(q) /\ retired'[q][i] = retired[q][i]
    BY <1>5, <1>6
  <2>2. \A i \in 1 .. n : i # ins[t] /\ (i < ins[t] + 1 \/ i >= it[t] + 1)
                            => i # it[t] /\ (i < ins[t] \/ i >= it[t])
    BY SMT, <1>1, <1>3
  <2>3. \A i \in Live(r)' : i # ins[t] => i \in Live(r) /\ retired'[r][i] = retired[r][i] /\ i # it[t]
    BY <1>5, <1>7, <1>8, <2>2
  <2>4. ins[t] \in Live(r)' => retired'[r][ins[t]] = retired[r][it[t]]
    BY <1>5, <1>8
  <2>. QED BY <2>1, <2>3, <2>4
<1>12. ListedRetired'
  BY SMTT(40), <1>1, <1>9, <1>10, <1>11 DEF Listed, ListedRetired
<1>13. ListedOnce'
  BY SMTT(40), <1>1, <1>10, <1>11 DEF Listed, ListedOnce
<1>14. \A i \in Live(r) : i # it[t] => i \in Live(r)' /\ retired'[r][i] = retired[r][i]
  BY SMTT(40), <1>1, <1>3, <1>5, <1>7, <1>8
<1>15. \A q \in Rec : \A i \in Live(q) : \E j \in Live(q)' : retired'[q][j] = retired[q][i]
  <2>1. \A q \in Rec : q # r => \A i \in Live(q) : i \in Live(q)' /\ retired'[q][i] = retired[q][i]
    BY <1>5, <1>6
  <2>2. \A i \in Live(r) : \E j \in Live(r)' : retired'[r][j] = retired[r][i]
    BY SMTT(40), <1>3, <1>5, <1>10, <1>14
  <2>. QED BY <2>1, <2>2
<1>16. ListedAll'
  BY SMT, <1>9, <1>15 DEF Listed, ListedAll
<1>. QED BY <1>12, <1>13, <1>16 DEF Listed

\* A freed object leaves the only live cell that held it.
LEMMA ListedCompactFree ==
  ASSUME Base, Cells, Listed, NEW t \in Thread, CompactFree(t)
  PROVE  Listed'
<1>a. pc[t] = "compact" /\ rec[t] \in Rec /\ it[t] \in Live(rec[t]) /\ it[t] \in 1 .. Len(retired[rec[t]])
  BY CompactFrees DEF CompactFree
<1>1. PICK r \in Rec, n \in Nat, o \in Obj : r = rec[t] /\ n = Len(retired[r]) /\ o = retired[r][it[t]]
  <2>1. Len(retired[rec[t]]) \in Nat /\ retired[rec[t]][it[t]] \in Obj
    BY BaseTypes, <1>a
  <2>. QED BY <1>a, <2>1
<1>2. \A u \in Thread \ {t} : SameUse(u)
  <2>1. UNCHANGED <<pc, ret, rec, hprec, hidx, ins>> /\ it' = [it EXCEPT ![t] = it[t] + 1]
    BY DEF CompactFree, helpVars
  <2>2. \A u \in Thread \ {t} : it'[u] = it[u]
    BY <2>1 DEF Base, TypeData
  <2>. QED BY <2>1, <2>2 DEF SameUse, Moving, Scanning
<1>3. ins[t] \in 1 .. it[t] /\ ins'[t] = ins[t] /\ it'[t] = it[t] + 1
  <2>1. ins'[t] = ins[t] /\ it'[t] = it[t] + 1
    BY DEF CompactFree, Base, TypeData
  <2>. QED BY SMT, <1>a, <2>1, CursorFacts
<1>4. retired' = retired /\ mem' = [mem EXCEPT ![o] = "free"] /\ o \in Obj
  BY BaseLive, <1>1 DEF CompactFree
<1>5. UNCHANGED <<pc, ret, rec, hprec, hidx>>
  BY DEF CompactFree, helpVars
<1>6. \A q \in Rec : q # r => Live(q)' = Live(q)
  <2>1. \A q \in Rec : q # r => \A i : Open(t, q, i)' <=> Open(t, q, i)
    BY <1>1, <1>5 DEF Open, Moving, Scanning
  <2>. QED BY <1>2, <1>4, <2>1, LiveTheirs
<1>7. Live(r) = {i \in 1 .. n : i < ins[t] \/ i >= it[t]}
  BY BaseOwn, <1>a, <1>1, LiveShape DEF Base
<1>8. Live(r)' = {i \in 1 .. n : i < ins[t] \/ i >= it[t] + 1}
  <2>1. \A i : Open(t, r, i)' <=> i < ins[t] \/ i >= it[t] + 1
    BY BaseOwn, <1>a, <1>1, <1>3, <1>5, OwnFacts DEF Open, HoldsOther, Moving, Scanning
  <2>2. Live(r)' = {i \in DOMAIN retired'[r] : Open(t, r, i)'}
    BY BaseOwn, <1>1, <1>2, LiveMine
  <2>3. DOMAIN retired'[r] = 1 .. n
    BY BaseTypes, <1>1, <1>4
  <2>. QED BY <2>1, <2>2, <2>3
<1>9. \A q \in Rec : \A i : i \in Live(q)' <=> i \in Live(q) /\ ~ (q = r /\ i = it[t])
  <2>1. \A i : i \in Live(r)' <=> i \in Live(r) /\ i # it[t]
    <3>1. ins[t] \in Nat /\ it[t] \in Nat /\ ins[t] <= it[t]
      BY <1>a, CursorFacts
    <3>. QED BY SMT, <1>7, <1>8, <3>1
  <2>. QED BY <1>6, <2>1
<1>10. \A q \in Rec : \A i \in Live(q)' : retired[q][i] # o
  BY SMT, <1>a, <1>1, <1>9 DEF Listed, ListedOnce
<1>11. ListedRetired'
  BY BaseTypes, BaseLive, <1>4, <1>9, <1>10 DEF Listed, ListedRetired
<1>12. ListedOnce'
  BY SMT, <1>4, <1>9 DEF Listed, ListedOnce
<1>13. ASSUME NEW x \in Obj, mem'[x] = "retired"
       PROVE  \E q \in Rec : \E i \in Live(q)' : retired'[q][i] = x
  <2>1. x # o /\ mem[x] = "retired"
    BY BaseTypes, <1>4, <1>13
  <2>2. PICK q \in Rec : \E i \in Live(q) : retired[q][i] = x
    BY <2>1 DEF Listed, ListedAll
  <2>. QED BY <1>4, <1>9, <1>1, <2>1, <2>2
<1>14. ListedAll'
  BY ZenonT(60), <1>13 DEF ListedAll
<1>. QED BY <1>11, <1>12, <1>14 DEF Listed

\* interthread_clear cuts off the cells past insert_pos, none of them live.
LEMMA ListedScanReturn ==
  ASSUME Base, Cells, Listed, NEW t \in Thread, ScanReturn(t)
  PROVE  Listed'
<1>a. pc[t] = "compact" /\ rec[t] \in Rec /\ it[t] > Len(retired[rec[t]])
  BY BaseOwn DEF ScanReturn
<1>1. PICK r \in Rec, n \in Nat : r = rec[t] /\ n = Len(retired[r])
  BY BaseTypes, <1>a
<1>2. \A u \in Thread \ {t} : SameUse(u)
  BY SMT, BaseOwn DEF ScanReturn, SameUse, Moving, Scanning, helpVars, Goto, TypeControl
<1>b. PICK k \in Nat : k = ins[t] - 1 /\ k <= n
  <2>1. ins[t] \in Nat /\ 1 <= ins[t] /\ ins[t] <= it[t] /\ it[t] \in Nat /\ it[t] <= n + 1
    BY ZenonT(60), <1>a, <1>1, CursorFacts
  <2>. QED BY SMT, <2>1
<1>3. it[t] \in Nat /\ ins[t] = k + 1 /\ it[t] > n
  BY SMT, <1>a, <1>1, <1>b DEF Base, TypeData
<1>4. retired' = [retired EXCEPT ![r] = SubSeq(retired[r], 1, k)]
  BY <1>1, <1>b DEF ScanReturn
<1>5. /\ \A q \in Rec : q # r => retired'[q] = retired[q]
      /\ \A i \in 1 .. k : retired'[r][i] = retired[r][i]
      /\ DOMAIN retired'[r] = 1 .. k
  <2>1. \A i \in 1 .. k : retired[r][i] \in Obj
    BY SMT, BaseTypes, <1>1, <1>b
  <2>2. /\ SubSeq(retired[r], 1, k) \in Seq(Obj) /\ Len(SubSeq(retired[r], 1, k)) = k
        /\ \A i \in 1 .. k : SubSeq(retired[r], 1, k)[i] = retired[r][i]
    BY SMT, <2>1, <1>b
  <2>3. DOMAIN SubSeq(retired[r], 1, k) = 1 .. k
    BY SMT, <2>2
  <2>. QED BY BaseTypes, <1>1, <1>4, <2>2, <2>3
<1>6. /\ pc'[t] = ret[t] /\ UNCHANGED <<ret, rec, hprec, hidx, mem>>
      /\ ret[t] \in {"idle", "help", "walk", "move"}
  BY BaseOwn DEF ScanReturn, Goto, helpVars, clientVars, TypeControl
<1>7. Moving(t)' <=> Moving(t)
  BY <1>a, <1>6 DEF Moving, Scanning
<1>8. \A q \in Rec : q # r => Live(q)' = Live(q)
  <2>1. \A q \in Rec : q # r => \A i : Open(t, q, i)' <=> Open(t, q, i)
    BY <1>a, <1>1, <1>6, <1>7 DEF Open
  <2>. QED BY <1>2, <1>5, <2>1, LiveTheirs
<1>9. Live(r) = 1 .. k
  <2>1. Live(r) = {i \in 1 .. n : i < ins[t] \/ i >= it[t]}
    BY BaseOwn, <1>a, <1>1, LiveShape DEF Base
  <2>. QED BY SMT, <1>b, <1>3, <2>1
<1>10. Live(r)' = 1 .. k
  <2>1. \A i : Open(t, r, i)'
    BY BaseOwn, <1>1, <1>6, <1>7, OwnFacts DEF Open, HoldsOther
  <2>2. Live(r)' = {i \in DOMAIN retired'[r] : Open(t, r, i)'}
    BY BaseOwn, <1>1, <1>2, LiveMine
  <2>. QED BY <1>5, <2>1, <2>2
<1>11. \A q \in Rec : Live(q)' = Live(q) /\ \A i \in Live(q) : retired'[q][i] = retired[q][i]
  BY ZenonT(60), <1>5, <1>8, <1>9, <1>10
<1>. QED BY SMT, <1>6, <1>11 DEF Listed, ListedRetired, ListedOnce, ListedAll

\* help_scan takes over an array with every cell still to be moved.
LEMMA ListedHelpTake ==
  ASSUME Base, Cells, Listed, NEW t \in Thread, HelpTake(t)
  PROVE  Listed'
<1>1. \A u \in Thread \ {t} : SameUse(u)
  BY SMT, BaseOwn DEF HelpTake, SameUse, Moving, Scanning, scanVars, Goto, TypeControl
<1>2. UNCHANGED <<retired, mem>>
  BY DEF HelpTake, clientVars
<1>3. pc[t] = "own" /\ pc'[t] = "move" /\ hidx'[t] = 1
  BY ZenonT(60), BaseOwn DEF HelpTake, Goto, TypeControl, Base, TypeData
<1>4. \A r \in Rec : \A i \in DOMAIN retired[r] : Open(t, r, i)' <=> Open(t, r, i)
  BY SMT, BaseTypes, <1>3 DEF Open, Moving, Scanning
<1>. QED BY <1>1, <1>2, <1>4, LiveTheirs, ListedSame

\* help_scan pushes one pointer of the array it took to its own.
LEMMA ListedHelpMove ==
  ASSUME Base, Cells, Listed, NEW t \in Thread, HelpMove(t)
  PROVE  Listed'
<1>a. pc[t] = "move" /\ rec[t] \in Rec /\ hprec[t] \in Rec /\ hprec[t] # rec[t] /\ HoldsOther(t) /\ Moving(t)
  BY BaseOwn, OwnFacts DEF HelpMove, HoldsOther, Moving
<1>b. hidx[t] \in 1 .. Len(retired[hprec[t]])
  <2>1. hidx[t] \in Nat /\ hidx[t] >= 1 /\ hidx[t] <= Len(retired[hprec[t]])
    BY <1>a, CursorFacts DEF HelpMove
  <2>. QED BY SMT, BaseTypes, <1>a, <2>1
<1>1. PICK r \in Rec, s \in Rec, n \in Nat, m \in Nat, k \in Nat :
        r = rec[t] /\ s = hprec[t] /\ n = Len(retired[r]) /\ m = Len(retired[s]) /\ k = hidx[t] /\ k \in 1 .. m
  <2>1. Len(retired[rec[t]]) \in Nat /\ Len(retired[hprec[t]]) \in Nat /\ hidx[t] \in Nat
    BY BaseTypes, <1>a, CursorFacts
  <2>. QED BY <1>a, <1>b, <2>1, Zenon
<1>c. PICK o \in Obj : o = retired[s][k]
  BY BaseTypes, <1>1
<1>2. \A u \in Thread \ {t} : SameUse(u)
  <2>1. \A u \in Thread \ {t} : pc'[u] = pc[u] /\ ret'[u] = ret[u] /\ hidx'[u] = hidx[u]
    BY BaseDomains DEF HelpMove, AfterPush
  <2>2. UNCHANGED <<rec, hprec, it, ins>>
    BY DEF HelpMove, scanVars
  <2>. QED BY <2>1, <2>2, SameOthers
<1>3. retired' = [retired EXCEPT ![r] = Append(retired[r], o)]
  BY <1>1, <1>c DEF HelpMove
<1>4. /\ \A q \in Rec : q # r => retired'[q] = retired[q]
      /\ \A i \in 1 .. n : retired'[r][i] = retired[r][i]
      /\ retired'[r][n + 1] = o
      /\ DOMAIN retired'[r] = 1 .. n + 1
  BY SMT, BaseTypes, <1>1, <1>c, <1>3
<1>5. /\ pc'[t] \in {"move", "scan"} /\ ret'[t] = "move" /\ UNCHANGED <<rec, hprec, mem>>
      /\ hidx'[t] = k + 1
  BY BaseOwn, <1>1 DEF HelpMove, AfterPush, clientVars, TypeControl, Base, TypeData
<1>6. Moving(t)' /\ pc'[t] # "compact"
  BY <1>5 DEF Moving, Scanning
<1>7. \A q \in Rec : q # r /\ q # s => Live(q)' = Live(q)
  <2>1. \A q \in Rec : q # r /\ q # s => \A i : Open(t, q, i)' <=> Open(t, q, i)
    BY <1>a, <1>1, <1>5, <1>6 DEF Open
  <2>. QED BY <1>2, <1>4, <2>1, LiveTheirs
<1>8. Live(r) = 1 .. n /\ Live(s) = {i \in 1 .. m : i >= k}
  BY BaseOwn, <1>a, <1>1, LiveShape DEF Base
<1>9. Live(r)' = 1 .. n + 1
  <2>1. \A i : Open(t, r, i)'
    BY <1>a, <1>1, <1>5, <1>6 DEF Open
  <2>2. Live(r)' = {i \in DOMAIN retired'[r] : Open(t, r, i)'}
    BY BaseOwn, <1>1, <1>2, LiveMine
  <2>. QED BY <1>4, <2>1, <2>2
<1>10. Live(s)' = {i \in 1 .. m : i >= k + 1}
  <2>1. \A i : Open(t, s, i)' <=> i >= k + 1
    BY <1>a, <1>1, <1>5, <1>6 DEF Open
  <2>2. Live(s)' = {i \in DOMAIN retired'[s] : Open(t, s, i)'}
    BY BaseOwn, <1>a, <1>1, <1>2, LiveMine
  <2>. QED BY BaseTypes, <1>a, <1>1, <1>4, <2>1, <2>2
<1>11. k \in Live(s) /\ n + 1 \in Live(r)'
  BY SMTT(40), <1>1, <1>8, <1>9
<1>12. \A q \in Rec : \A i \in Live(q)' :
         IF q = r /\ i = n + 1 THEN retired'[q][i] = retired[s][k]
                               ELSE i \in Live(q) /\ retired'[q][i] = retired[q][i] /\ ~ (q = s /\ i = k)
  <2>1. \A i \in Live(r)' : i = n + 1 \/ (i \in Live(r) /\ retired'[r][i] = retired[r][i])
    BY SMTT(40), <1>4, <1>8, <1>9
  <2>2. \A i \in Live(s)' : i \in Live(s) /\ i # k
    BY SMTT(40), <1>1, <1>8, <1>10
  <2>. QED BY ZenonT(60), <1>a, <1>1, <1>c, <1>4, <1>7, <2>1, <2>2
<1>13. ListedRetired'
  <2> SUFFICES ASSUME NEW q \in Rec, NEW i \in Live(q)'
               PROVE  mem'[retired'[q][i]] = "retired"
    BY DEF ListedRetired
  <2>1. CASE q = r /\ i = n + 1
    <3>1. retired'[q][i] = retired[s][k]
      BY <1>12, <2>1
    <3>. QED BY ZenonT(60), <1>5, <1>11, <3>1, <1>a, <1>1 DEF Listed, ListedRetired
  <2>2. CASE ~ (q = r /\ i = n + 1)
    <3>1. i \in Live(q) /\ retired'[q][i] = retired[q][i]
      BY <1>12, <2>2
    <3>. QED BY <1>5, <3>1 DEF Listed, ListedRetired
  <2>. QED BY <2>1, <2>2
<1>14. ListedOnce'
  <2> SUFFICES ASSUME NEW x \in Rec, NEW y \in Rec, NEW i \in Live(x)', NEW j \in Live(y)',
                      retired'[x][i] = retired'[y][j]
               PROVE  x = y /\ i = j
    BY DEF ListedOnce
  <2>0. \A a \in Live(x), b \in Live(y) : retired[x][a] = retired[y][b] => x = y /\ a = b
    BY DEF Listed, ListedOnce
  <2>a. \A q \in Rec : \A a \in Live(q) : retired[q][a] = retired[s][k] => q = s /\ a = k
    BY <1>11 DEF Listed, ListedOnce
  <2>1. CASE x = r /\ i = n + 1
    <3>1. CASE y = r /\ j = n + 1
      BY <2>1, <3>1
    <3>2. CASE ~ (y = r /\ j = n + 1)
      BY SMT, <1>12, <2>1, <2>a, <3>2
    <3>. QED BY <3>1, <3>2
  <2>2. CASE ~ (x = r /\ i = n + 1)
    <3>1. CASE y = r /\ j = n + 1
      <4>1. i \in Live(x) /\ retired'[x][i] = retired[x][i] /\ ~ (x = s /\ i = k)
        BY <1>12, <2>2
      <4>2. retired'[y][j] = retired[s][k]
        BY <1>12, <3>1
      <4>. QED BY <2>a, <4>1, <4>2
    <3>2. CASE ~ (y = r /\ j = n + 1)
      BY <1>12, <2>2, <2>0, <3>2
    <3>. QED BY <3>1, <3>2
  <2>. QED BY <2>1, <2>2
<1>15. \A q \in Rec : \A i \in Live(q) : \E p \in Rec : \E j \in Live(p)' : retired'[p][j] = retired[q][i]
  <2>1. \A i \in Live(r) : i \in Live(r)' /\ retired'[r][i] = retired[r][i]
    BY SMTT(40), <1>4, <1>8, <1>9
  <2>2. \A i \in Live(s) : i = k \/ i \in Live(s)'
    BY SMT, <1>1, <1>8, <1>10
  <2>3. ASSUME NEW i \in Live(s)
        PROVE  \E p \in Rec : \E j \in Live(p)' : retired'[p][j] = retired[s][i]
    <3>1. CASE i = k
      BY ZenonT(60), <1>c, <1>4, <1>11, <3>1
    <3>2. CASE i # k
      BY <1>a, <1>1, <1>4, <2>2, <3>2
    <3>. QED BY <3>1, <3>2
  <2>4. ASSUME NEW q \in Rec, q # r, q # s, NEW i \in Live(q)
        PROVE  \E p \in Rec : \E j \in Live(p)' : retired'[p][j] = retired[q][i]
    BY <1>4, <1>7, <2>4
  <2>. QED BY SMTT(40), <2>1, <2>3, <2>4
<1>16. ListedAll'
  BY SMTT(40), <1>5, <1>15 DEF Listed, ListedAll
<1>. QED BY <1>13, <1>14, <1>16 DEF Listed

\* Every cell of the array has been moved when help_scan empties it.
LEMMA ListedHelpClear ==
  ASSUME Base, Cells, Listed, NEW t \in Thread, HelpClear(t)
  PROVE  Listed'
<1>a. /\ pc[t] = "move" /\ hprec[t] \in Rec /\ HoldsOther(t) /\ Moving(t)
      /\ hidx[t] > Len(retired[hprec[t]]) /\ hidx[t] \in Nat /\ Len(retired[hprec[t]]) \in Nat
  BY BaseTypes, BaseOwn, OwnFacts DEF HelpClear, HoldsOther, Moving, Base, TypeData
<1>1. PICK s \in Rec : s = hprec[t]
  BY <1>a
<1>2. \A u \in Thread \ {t} : SameUse(u)
  <2>1. \A u \in Thread \ {t} : pc'[u] = pc[u] /\ hidx'[u] = hidx[u]
    BY BaseDomains DEF HelpClear, Goto
  <2>2. UNCHANGED <<ret, rec, hprec, it, ins>>
    BY DEF HelpClear, scanVars
  <2>. QED BY <2>1, <2>2, SameOthers
<1>3. \A q \in Rec : retired'[q] = IF q = s THEN <<>> ELSE retired[q]
  BY BaseTypes, <1>1 DEF HelpClear
<1>4. pc'[t] = "release" /\ mem' = mem
  BY BaseOwn DEF HelpClear, Goto, TypeControl, clientVars
<1>5. \A q \in Rec : q # s => Live(q)' = Live(q)
  <2>1. \A q \in Rec : q # s => \A i : Open(t, q, i)' <=> Open(t, q, i)
    BY <1>a, <1>1, <1>4 DEF Open, Moving, Scanning
  <2>. QED BY <1>2, <1>3, <2>1, LiveTheirs
<1>6. Live(s) = {}
  <2>1. Live(s) = {i \in 1 .. Len(retired[s]) : i >= hidx[t]}
    BY BaseOwn, <1>a, <1>1, LiveShape DEF Base
  <2>. QED BY SMT, <1>a, <1>1, <2>1
<1>7. Live(s)' = {}
  BY SMT, <1>3 DEF Live
<1>. QED BY SMT, <1>3, <1>4, <1>5, <1>6, <1>7 DEF Listed, ListedRetired, ListedOnce, ListedAll

\* The destructor frees what every array holds, and the arrays with it.
LEMMA ListedDestruct ==
  ASSUME Base, Cells, Listed, Destruct
  PROVE  Listed'
<1>1. \A r \in Rec : Live(r)' = {}
  BY SMT DEF Destruct, Live
<1>2. ASSUME NEW o \in Obj, mem[o] = "retired" PROVE mem'[o] # "retired"
  <2>1. PICK r \in Rec : \E i \in Live(r) : retired[r][i] = o
    BY <1>2 DEF Listed, ListedAll
  <2>2. retired[r] # <<>> /\ \E i \in DOMAIN retired[r] : retired[r][i] = o
    BY SMTT(40), BaseLive, BaseTypes, <2>1
  <2>3. r \in 1 .. thread_list
    BY SMT, <2>2, BaseOwn, ConstantsAssumption DEF Base, Empties, TypeControl, Rec
  <2>. QED BY <2>1, <2>2, <2>3 DEF Destruct
<1>3. \A o \in Obj : mem'[o] = "retired" => mem[o] = "retired"
  BY BaseTypes DEF Destruct
<1>. QED BY ZenonT(60), <1>1, <1>2, <1>3 DEF Listed, ListedRetired, ListedOnce, ListedAll

\* A stuttering step changes nothing.
LEMMA ListedStutter ==
  ASSUME Base, Cells, Listed, UNCHANGED vars
  PROVE  Listed'
<1>1. UNCHANGED <<retired, mem>> /\ \A u \in Thread : SameUse(u)
  BY DEF vars, helpVars, scanVars, clientVars, SameUse, Moving, Scanning
<1>. QED BY <1>1, LiveSame, ListedSame

\* Each step keeps every retired object in exactly one live cell.
LEMMA ListedNext == Base /\ Cells /\ Listed /\ [Next]_vars => Listed'
<1> SUFFICES ASSUME Base, Cells, Listed, [Next]_vars PROVE Listed'
  OBVIOUS
<1>. QED
  BY ListedQuiet, ListedLink, ListedAllocNew, ListedRetire, ListedScanInplace, ListedCollectDone, ListedCompactKeep, ListedCompactFree, ListedScanReturn, ListedHelpTake, ListedHelpMove, ListedHelpClear, ListedDestruct, ListedStutter
  DEF Next, AllocStep, ClientStep, ScanStep, HelpStep, QuietStep

HIDE DEF Rec

-----------------------------------------------------------------------------
(* Guards *)

\* A thread that may dereference what its guards protect.
Attached(t) == pc[t] \in {"idle", "assign", "check"} \/ (Scanning(t) /\ ret[t] = "idle")

\* A guard that counts is in the record of an attached thread.
Guards ==
  /\ \A r \in Rec, i \in Slot :
       valid[r][i] => hazards[r][i] # nullptr /\ \E t \in Thread : rec[t] = r /\ Attached(t)
  /\ \A t \in Thread : pc[t] = "check" => hazards[rec[t]][gidx[t]] = pCur[t]

\* The steps that neither store to a hazard slot nor change what it protects.
SilentStep(t) ==
  \/ \E c \in Cell, o \in Obj : Link(t, c, o)
  \/ \E c \in Cell, p \in Ptr : Retire(t, c, p)
  \/ \E i \in Slot, c \in Cell : Protect(t, i, c)
  \/ Attach(t) \/ AllocSkip(t) \/ AllocTake(t) \/ AllocReuse(t) \/ ProtectRetry(t)
  \/ ForceScan(t) \/ ScanNothing(t) \/ ScanInplace(t) \/ ScanClassic(t) \/ CollectSkip(t)
  \/ CollectOwned(t) \/ CollectSlot(t) \/ CollectDone(t) \/ CompactKeep(t) \/ CompactFree(t)
  \/ ScanReturn(t) \/ HelpScan(t) \/ HelpSkip(t) \/ HelpLook(t) \/ HelpBusy(t)
  \/ HelpTake(t) \/ HelpMove(t) \/ HelpClear(t) \/ HelpRelease(t) \/ Detached(t)

\* A thread keeps its record and its guards.
Keeps(u) ==
  /\ Attached(u) => Attached(u)' /\ rec'[u] = rec[u]
  /\ pc'[u] = "check" => /\ pc[u] = "check"
                         /\ rec'[u] = rec[u] /\ gidx'[u] = gidx[u] /\ pCur'[u] = pCur[u]

\* A silent step changes no guard.
LEMMA SilentFrame ==
  ASSUME TypeControl, TypeData, NEW t \in Thread, SilentStep(t)
  PROVE  UNCHANGED <<hazards, valid>> /\ \A u \in Thread : Keeps(u)
<1> DEFINE G == UNCHANGED <<hazards, valid>> /\ \A u \in Thread : Keeps(u)
<1> USE DEF TypeControl, TypeData, Keeps, Attached, Scanning, Goto, CallScan, AfterPush, smrVars, clientVars, helpVars, scanVars, protectVars
<1>1. ASSUME Attach(t) PROVE G
  BY <1>1 DEF Attach
<1>2. ASSUME AllocSkip(t) PROVE G
  BY <1>2 DEF AllocSkip
<1>3. ASSUME AllocTake(t) PROVE G
  BY <1>3 DEF AllocTake
<1>4. ASSUME AllocReuse(t) PROVE G
  BY <1>4 DEF AllocReuse
<1>5. ASSUME NEW c \in Cell, NEW o \in Obj, Link(t, c, o) PROVE G
  BY <1>5 DEF Link
<1>6. ASSUME NEW c \in Cell, NEW p \in Ptr, Retire(t, c, p) PROVE G
  BY <1>6 DEF Retire
<1>7. ASSUME NEW i \in Slot, NEW c \in Cell, Protect(t, i, c) PROVE G
  BY <1>7 DEF Protect
<1>8. ASSUME ProtectRetry(t) PROVE G
  BY <1>8 DEF ProtectRetry
<1>9. ASSUME ForceScan(t) PROVE G
  BY <1>9 DEF ForceScan
<1>10. ASSUME ScanNothing(t) PROVE G
  BY <1>10 DEF ScanNothing
<1>11. ASSUME ScanInplace(t) PROVE G
  BY <1>11 DEF ScanInplace, Collecting
<1>12. ASSUME ScanClassic(t) PROVE G
  BY <1>12 DEF ScanClassic, Collecting
<1>13. ASSUME CollectSkip(t) PROVE G
  BY <1>13 DEF CollectSkip
<1>14. ASSUME CollectOwned(t) PROVE G
  BY <1>14 DEF CollectOwned
<1>15. ASSUME CollectSlot(t) PROVE G
  BY <1>15 DEF CollectSlot
<1>16. ASSUME CollectDone(t) PROVE G
  BY <1>16 DEF CollectDone
<1>17. ASSUME CompactKeep(t) PROVE G
  BY <1>17 DEF CompactKeep
<1>18. ASSUME CompactFree(t) PROVE G
  BY <1>18 DEF CompactFree
<1>19. ASSUME ScanReturn(t) PROVE G
  BY <1>19 DEF ScanReturn
<1>20. ASSUME HelpScan(t) PROVE G
  BY <1>20 DEF HelpScan
<1>21. ASSUME HelpSkip(t) PROVE G
  BY <1>21 DEF HelpSkip
<1>22. ASSUME HelpLook(t) PROVE G
  BY <1>22 DEF HelpLook
<1>23. ASSUME HelpBusy(t) PROVE G
  BY <1>23 DEF HelpBusy
<1>24. ASSUME HelpTake(t) PROVE G
  BY <1>24 DEF HelpTake
<1>25. ASSUME HelpMove(t) PROVE G
  BY <1>25 DEF HelpMove
<1>26. ASSUME HelpClear(t) PROVE G
  BY <1>26 DEF HelpClear
<1>27. ASSUME HelpRelease(t) PROVE G
  BY <1>27 DEF HelpRelease
<1>28. ASSUME Detached(t) PROVE G
  BY ZenonT(60), <1>28 DEF Detached
<1> HIDE DEF G, TypeControl, TypeData, Keeps, Attached, Scanning, Goto, CallScan, AfterPush
<1>a. G
  BY <1>1, <1>2, <1>3, <1>4, <1>5, <1>6, <1>7, <1>8, <1>9, <1>10, <1>11, <1>12, <1>13, <1>14, <1>15, <1>16, <1>17, <1>18, <1>19, <1>20, <1>21, <1>22, <1>23, <1>24, <1>25, <1>26, <1>27, <1>28 DEF SilentStep
<1>. QED BY <1>a DEF G

\* Every step is silent, or one of those that store to a hazard slot.
LEMMA StepKinds ==
  ASSUME [Next]_vars
  PROVE  \/ UNCHANGED vars
         \/ Destruct
         \/ \E t \in Thread :
              \/ SilentStep(t) \/ AllocNew(t) \/ ProtectAssign(t) \/ ProtectDone(t) \/ Detach(t)
              \/ \E i \in Slot : Clear(t, i)
              \/ \E q \in CopyPairs : Copy(t, q[1], q[2])
  BY ZenonT(60) DEF Next, AllocStep, ClientStep, ScanStep, HelpStep, SilentStep

\* The hypotheses of the safety theorem: the default scan type, objects aligned
\* so that the low bit of their address is free, and guards that are copied to
\* slots with a higher index only.
AlignedObjects == \A o \in Obj : o % 2 = 0
CopyAscending  == \A p \in CopyPairs : p[1] < p[2]
\* Both, and the in-place scan.
SafeUse == ScanType = "inplace" /\ AlignedObjects /\ CopyAscending

\* Where a guard of the next state comes from: it protects what it, or a guard at
\* a lower index of the same record, protected before, or an object that is linked.
GuardOrigin ==
  \A r \in Rec, i \in Slot : valid'[r][i] =>
    \/ \E j \in Slot : j <= i /\ valid[r][j] /\ hazards'[r][i] = hazards[r][j]
    \/ hazards'[r][i] \in Obj /\ mem[hazards'[r][i]] = "linked"

\* A step after which every valid guard was valid before, and unchanged.
LEMMA SameGuards ==
  ASSUME \A r \in Rec, i \in Slot : valid'[r][i] => valid[r][i] /\ hazards'[r][i] = hazards[r][i]
  PROVE  GuardOrigin
<1>1. \A i \in Slot : i <= i
  BY Numbered, Order
<1>. QED BY <1>1 DEF GuardOrigin

\* The guards stay in the records of attached threads when each one was valid, in this
\* slot or in another of the record, and the owner keeps the record.
LEMMA GuardsFrom ==
  ASSUME Guards,
         \A r \in Rec, i \in Slot : valid'[r][i] => \E j \in Slot : valid[r][j] /\ hazards'[r][i] = hazards[r][j],
         \A u \in Thread, i \in Slot : Attached(u) /\ valid'[rec[u]][i] => Attached(u)' /\ rec'[u] = rec[u],
         \A u \in Thread : pc'[u] = "check" => hazards'[rec'[u]][gidx'[u]] = pCur'[u]
  PROVE  Guards'
<1>1. ASSUME NEW r \in Rec, NEW i \in Slot, valid'[r][i]
      PROVE  hazards'[r][i] # nullptr /\ \E t \in Thread : rec'[t] = r /\ Attached(t)'
  <2>1. PICK j \in Slot : valid[r][j] /\ hazards'[r][i] = hazards[r][j]
    BY <1>1
  <2>2. hazards[r][j] # nullptr /\ \E t \in Thread : rec[t] = r /\ Attached(t)
    BY <2>1 DEF Guards
  <2>3. PICK t \in Thread : rec[t] = r /\ Attached(t)
    BY <2>2
  <2>4. Attached(t)' /\ rec'[t] = rec[t]
    <3>1. Attached(t) /\ valid'[rec[t]][i]
      BY <1>1, <2>3
    <3>. QED BY <3>1
  <2>. QED BY <2>1, <2>2, <2>3, <2>4
<1>. QED BY <1>1 DEF Guards

\* Each step keeps the valid guards on records of attached threads.
LEMMA GuardsNext ==
  ASSUME Base, Cells, Guards, CopyAscending, [Next]_vars
  PROVE  Guards' /\ GuardOrigin
<1>a. /\ TypeControl /\ TypeData
      /\ hazards \in [Rec -> [Slot -> Ptr]] /\ valid \in [Rec -> [Slot -> BOOLEAN]]
      /\ pc \in [Thread -> {"detached", "alloc", "reuse", "idle", "assign", "check", "scan",
                           "collect", "compact", "help", "walk", "own", "move", "release"}]
      /\ rec \in [Thread -> 0 .. MaxRecords] /\ pCur \in [Thread -> Ptr] /\ gcell \in [Thread -> Cell]
      /\ \A t \in Thread : pc[t] \notin {"detached", "alloc", "reuse"} => rec[t] \in Rec
      /\ \A t, u \in Thread : t # u /\ rec[t] \in Rec => rec[u] # rec[t]
      /\ \A t \in Thread : pc[t] \in {"assign", "check"} => gidx[t] \in Slot
      /\ \A i \in Slot : i \in Nat
  <2>1. Own /\ TypeData /\ Cursors
    BY DEF Base
  <2>2. TypeControl
    BY <2>1, OwnFacts
  <2>3. /\ hazards \in [Rec -> [Slot -> Ptr]] /\ valid \in [Rec -> [Slot -> BOOLEAN]]
        /\ pCur \in [Thread -> Ptr] /\ gcell \in [Thread -> Cell]
    BY <2>1 DEF TypeData
  <2>4. /\ pc \in [Thread -> {"detached", "alloc", "reuse", "idle", "assign", "check", "scan",
                             "collect", "compact", "help", "walk", "own", "move", "release"}]
        /\ rec \in [Thread -> 0 .. MaxRecords]
    BY <2>2 DEF TypeControl
  <2>5. /\ \A t \in Thread : pc[t] \notin {"detached", "alloc", "reuse"} => rec[t] \in Rec
        /\ \A t, u \in Thread : t # u /\ rec[t] \in Rec => rec[u] # rec[t]
    BY <2>1, OwnFacts
  <2>6. \A t \in Thread : pc[t] \in {"assign", "check"} => gidx[t] \in Slot
    BY <2>1 DEF Cursors, Cursor
  <2>. QED BY <2>1, <2>2, <2>3, <2>4, <2>5, <2>6, Numbered
<1>b. ASSUME UNCHANGED <<hazards, valid>>, \A u \in Thread : Keeps(u) PROVE Guards' /\ GuardOrigin
  <2>1. Guards'
    BY ZenonT(60), <1>b DEF Guards, Keeps
  <2>2. GuardOrigin
    BY <1>b, SameGuards
  <2>. QED BY <2>1, <2>2
<1>1. ASSUME UNCHANGED vars PROVE Guards' /\ GuardOrigin
  <2>1. UNCHANGED <<hazards, valid>> /\ \A u \in Thread : Keeps(u)
    BY <1>1 DEF vars, clientVars, helpVars, protectVars, Keeps, Attached, Scanning
  <2>. QED BY <1>b, <2>1
<1>2. ASSUME NEW t \in Thread, SilentStep(t) PROVE Guards' /\ GuardOrigin
  BY <1>a, <1>b, <1>2, SilentFrame
<1>3. ASSUME Destruct PROVE Guards' /\ GuardOrigin
  <2>1. \A t \in Thread : pc[t] = "detached"
    BY <1>3 DEF Destruct
  <2>2. \A r \in Rec, i \in Slot : ~ valid[r][i]
    BY <2>1 DEF Guards, Attached, Scanning
  <2>3. valid' = valid /\ pc' = pc
    BY <1>3 DEF Destruct
  <2>. QED BY <2>1, <2>2, <2>3 DEF Guards, GuardOrigin
<1>4. ASSUME NEW t \in Thread, AllocNew(t) PROVE Guards' /\ GuardOrigin
  <2>1. PICK n \in Rec : n = thread_list + 1
    BY <1>4, <1>a, RecordList DEF AllocNew
  <2>2. \A u \in Thread : rec[u] # n
    <3>1. thread_list \in Nat /\ \A u \in Thread : rec[u] \in Nat /\ rec[u] <= thread_list
      BY <1>a, RecordList, OwnNumbers DEF Base
    <3>2. ~ (n <= thread_list)
      BY <2>1, <3>1, Order
    <3>. QED BY <3>1, <3>2
  <2>3. \A r \in Rec : r # n => hazards'[r] = hazards[r]
    BY <1>4, <1>a, <2>1 DEF AllocNew
  <2>4. valid' = valid /\ UNCHANGED <<gidx, pCur>>
    BY <1>4 DEF AllocNew, clientVars, protectVars
  <2>5. \A u \in Thread : pc'[u] = (IF u = t THEN "idle" ELSE pc[u]) /\ rec'[u] = (IF u = t THEN n ELSE rec[u])
    BY <1>4, <1>a, <2>1 DEF AllocNew, Goto
  <2>6. pc[t] = "alloc" /\ ret' = ret
    BY <1>4 DEF AllocNew
  <2>7. \A r \in Rec, i \in Slot : valid[r][i] => r # n
    BY ZenonT(60), <2>2 DEF Guards
  <2>8. \A u \in Thread : Attached(u) => Attached(u)' /\ rec'[u] = rec[u]
    BY <2>5, <2>6 DEF Attached, Scanning
  <2>9. Guards'
    <3>1. \A u \in Thread : pc'[u] = "check" => pc[u] = "check" /\ rec'[u] = rec[u] /\ rec[u] \in Rec
      BY <1>a, <2>5
    <3>2. \A u \in Thread : pc'[u] = "check" => hazards'[rec'[u]][gidx'[u]] = pCur'[u]
      <4>1. \A u \in Thread : pc'[u] = "check" => hazards'[rec[u]] = hazards[rec[u]]
        BY <2>2, <2>3, <3>1
      <4>2. \A u \in Thread : pc[u] = "check" => hazards[rec[u]][gidx[u]] = pCur[u]
        BY DEF Guards
      <4>. QED BY <2>4, <3>1, <4>1, <4>2
    <3>3. \A r \in Rec, i \in Slot : valid'[r][i] => valid[r][i] /\ hazards'[r][i] = hazards[r][i]
      BY <2>3, <2>4, <2>7
    <3>. QED BY <2>8, <3>2, <3>3, GuardsFrom
  <2>10. GuardOrigin
    BY <2>3, <2>4, <2>7, SameGuards
  <2>. QED BY <2>9, <2>10
<1>5. ASSUME NEW t \in Thread, ProtectAssign(t) PROVE Guards' /\ GuardOrigin
  <2>1. PICK r \in Rec, k \in Slot : r = rec[t] /\ k = gidx[t]
    BY <1>5, <1>a DEF ProtectAssign
  <2>2. /\ \A s \in Rec, i \in Slot : ~ (s = r /\ i = k) => hazards'[s][i] = hazards[s][i] /\ valid'[s][i] = valid[s][i]
        /\ hazards'[r][k] = pCur[t] /\ ~ valid'[r][k]
    BY <1>5, <1>a, <2>1 DEF ProtectAssign
  <2>3. UNCHANGED <<rec, ret, gidx, pCur>> /\ pc[t] = "assign"
    BY <1>5 DEF ProtectAssign, helpVars, protectVars
  <2>4. \A u \in Thread : pc'[u] = IF u = t THEN "check" ELSE pc[u]
    BY <1>5, <1>a DEF ProtectAssign, Goto
  <2>5. \A u \in Thread : Attached(u) => Attached(u)' /\ rec'[u] = rec[u]
    BY <2>3, <2>4 DEF Attached, Scanning
  <2>6. ASSUME NEW u \in Thread, pc'[u] = "check" PROVE hazards'[rec'[u]][gidx'[u]] = pCur'[u]
    <3>1. CASE u = t
      BY <2>1, <2>2, <2>3, <3>1
    <3>2. CASE u # t
      <4>1. pc[u] = "check" /\ rec[u] \in Rec /\ gidx[u] \in Slot /\ rec[u] # rec[t] /\ rec[t] \in Rec
        BY <1>a, <2>1, <2>4, <2>6, <3>2
      <4>. QED BY ZenonT(60), <2>1, <2>2, <2>3, <4>1 DEF Guards
    <3>. QED BY <3>1, <3>2
  <2>7. Guards'
    <3>1. \A s \in Rec, i \in Slot : valid'[s][i] => valid[s][i] /\ hazards'[s][i] = hazards[s][i]
      BY <2>2
    <3>. QED BY <2>5, <2>6, <3>1, GuardsFrom
  <2>8. GuardOrigin
    <3>1. \A s \in Rec, i \in Slot : valid'[s][i] => valid[s][i] /\ hazards'[s][i] = hazards[s][i]
      BY <2>2
    <3>. QED BY <3>1, SameGuards
  <2>. QED BY <2>7, <2>8
<1>6. ASSUME NEW t \in Thread, ProtectDone(t) PROVE Guards' /\ GuardOrigin
  <2>1. PICK r \in Rec, k \in Slot : r = rec[t] /\ k = gidx[t]
    BY <1>6, <1>a DEF ProtectDone
  <2>2. /\ \A s \in Rec, i \in Slot : ~ (s = r /\ i = k) => valid'[s][i] = valid[s][i]
        /\ valid'[r][k] = (pCur[t] # nullptr)
        /\ UNCHANGED <<hazards, rec, ret>>
    BY <1>6, <1>a, <2>1 DEF ProtectDone, helpVars
  <2>3. \A u \in Thread : /\ pc'[u] = IF u = t THEN "idle" ELSE pc[u]
                          /\ u # t => gidx'[u] = gidx[u] /\ pCur'[u] = pCur[u]
    BY <1>6, <1>a DEF ProtectDone, Goto, TypeData
  <2>4. hazards[r][k] = pCur[t] /\ pc[t] = "check"
    BY <1>6, <2>1 DEF ProtectDone, Guards
  <2>5. \A u \in Thread : Attached(u) => Attached(u)' /\ rec'[u] = rec[u]
    BY <2>2, <2>3 DEF Attached, Scanning
  <2>6. Attached(t)
    BY <2>4 DEF Attached
  <2>7. pCur[t] # nullptr => pCur[t] \in Obj /\ mem[pCur[t]] = "linked"
    BY <1>6, <1>a DEF ProtectDone, Cells, Ptr
  <2>8. Guards'
    <3>1. ASSUME NEW s \in Rec, NEW i \in Slot, valid'[s][i]
          PROVE  hazards'[s][i] # nullptr /\ \E u \in Thread : rec'[u] = s /\ Attached(u)'
      <4>1. CASE s = r /\ i = k
        BY <2>1, <2>2, <2>4, <2>5, <2>6, <3>1, <4>1
      <4>2. CASE ~ (s = r /\ i = k)
        BY ZenonT(60), <2>2, <2>5, <3>1, <4>2 DEF Guards
      <4>. QED BY <4>1, <4>2
    <3>2. \A u \in Thread : pc'[u] = "check" => hazards'[rec'[u]][gidx'[u]] = pCur'[u]
      <4>1. \A u \in Thread : pc'[u] = "check" => u # t /\ pc[u] = "check"
        BY <2>3
      <4>. QED BY <2>2, <2>3, <4>1 DEF Guards
    <3>. QED BY <3>1, <3>2 DEF Guards
  <2>9. GuardOrigin
    <3>1. ASSUME NEW s \in Rec, NEW i \in Slot, valid'[s][i], ~ (s = r /\ i = k)
          PROVE  \E j \in Slot : j <= i /\ valid[s][j] /\ hazards'[s][i] = hazards[s][j]
      BY <1>a, <2>2, <3>1, Order
    <3>2. valid'[r][k] => hazards'[r][k] \in Obj /\ mem[hazards'[r][k]] = "linked"
      BY <2>2, <2>4, <2>7
    <3>. QED BY <3>1, <3>2 DEF GuardOrigin
  <2>. QED BY <2>8, <2>9
<1>7. ASSUME NEW t \in Thread, NEW k \in Slot, Clear(t, k) PROVE Guards' /\ GuardOrigin
  <2>1. PICK r \in Rec : r = rec[t]
    BY <1>7, <1>a DEF Clear
  <2>2. /\ \A s \in Rec, i \in Slot : ~ (s = r /\ i = k) => hazards'[s][i] = hazards[s][i] /\ valid'[s][i] = valid[s][i]
        /\ ~ valid'[r][k]
    BY <1>7, <1>a, <2>1 DEF Clear
  <2>3. UNCHANGED <<rec, ret, gidx, pCur, pc>> /\ pc[t] = "idle"
    BY <1>7 DEF Clear, helpVars, protectVars
  <2>4. \A u \in Thread : Attached(u)' <=> Attached(u)
    BY <2>3 DEF Attached, Scanning
  <2>5. \A u \in Thread : pc[u] = "check" => rec[u] \in Rec /\ gidx[u] \in Slot /\ rec[u] # r
    BY ZenonT(60), <1>a, <2>1, <2>3
  <2>6. Guards'
    <3>1. \A s \in Rec, i \in Slot : valid'[s][i] => valid[s][i] /\ hazards'[s][i] = hazards[s][i]
      BY <2>2
    <3>2. \A u \in Thread : pc'[u] = "check" => hazards'[rec'[u]][gidx'[u]] = pCur'[u]
      BY <2>2, <2>3, <2>5 DEF Guards
    <3>. QED BY <2>3, <2>4, <3>1, <3>2, GuardsFrom
  <2>7. GuardOrigin
    BY <2>2, SameGuards
  <2>. QED BY <2>6, <2>7
<1>8. ASSUME NEW t \in Thread, NEW q \in CopyPairs, Copy(t, q[1], q[2]) PROVE Guards' /\ GuardOrigin
  <2>a. PICK f \in Slot, k \in Slot : f = q[1] /\ k = q[2] /\ f < k
    BY ConstantsAssumption DEF CopyAscending
  <2>1. PICK r \in Rec : r = rec[t]
    BY <1>8, <1>a DEF Copy
  <2>2. /\ \A s \in Rec, i \in Slot : ~ (s = r /\ i = k) => hazards'[s][i] = hazards[s][i] /\ valid'[s][i] = valid[s][i]
        /\ hazards'[r][k] = hazards[r][f] /\ valid'[r][k] = valid[r][f]
    BY <1>8, <1>a, <2>a, <2>1 DEF Copy
  <2>3. UNCHANGED <<rec, ret, gidx, pCur, pc>> /\ pc[t] = "idle"
    BY <1>8 DEF Copy, helpVars, protectVars
  <2>4. \A u \in Thread : Attached(u)' <=> Attached(u)
    BY <2>3 DEF Attached, Scanning
  <2>5. \A u \in Thread : pc[u] = "check" => rec[u] \in Rec /\ gidx[u] \in Slot /\ rec[u] # r
    BY ZenonT(60), <1>a, <2>1, <2>3
  <2>6. Guards'
    <3>1. \A s \in Rec, i \in Slot : valid'[s][i] => \E j \in Slot : valid[s][j] /\ hazards'[s][i] = hazards[s][j]
      <4>1. valid'[r][k] => valid[r][f] /\ hazards'[r][k] = hazards[r][f]
        BY <2>2
      <4>. QED BY <2>2, <4>1
    <3>2. \A u \in Thread : pc'[u] = "check" => hazards'[rec'[u]][gidx'[u]] = pCur'[u]
      BY <2>2, <2>3, <2>5 DEF Guards
    <3>. QED BY <2>3, <2>4, <3>1, <3>2, GuardsFrom
  <2>7. GuardOrigin
    <3>1. ASSUME NEW s \in Rec, NEW i \in Slot, valid'[s][i], ~ (s = r /\ i = k)
          PROVE  \E j \in Slot : j <= i /\ valid[s][j] /\ hazards'[s][i] = hazards[s][j]
      BY <1>a, <2>2, <3>1, Order
    <3>2. f \in Nat /\ k \in Nat /\ f < k
      BY <2>a, Numbered
    <3>3. f <= k
      BY <3>2, Order
    <3>4. valid'[r][k] => valid[r][f] /\ hazards'[r][k] = hazards[r][f]
      BY <2>2
    <3>. QED BY <3>1, <3>3, <3>4 DEF GuardOrigin
  <2>. QED BY <2>6, <2>7
<1>9. ASSUME NEW t \in Thread, Detach(t) PROVE Guards' /\ GuardOrigin
  <2>1. PICK r \in Rec : r = rec[t]
    BY <1>9, <1>a DEF Detach
  <2>2. /\ \A s \in Rec : s # r => hazards'[s] = hazards[s] /\ valid'[s] = valid[s]
        /\ \A i \in Slot : ~ valid'[r][i]
    BY <1>9, <1>a, <2>1 DEF Detach
  <2>3. UNCHANGED <<rec, gidx, pCur>> /\ pc[t] = "idle"
    BY <1>9 DEF Detach, helpVars, protectVars
  <2>4. \A u \in Thread : u # t => pc'[u] = pc[u] /\ ret'[u] = ret[u]
    BY <1>9, <1>a DEF Detach, CallScan, TypeControl
  <2>5. \A u \in Thread : u # t => (Attached(u)' <=> Attached(u))
    BY <2>4 DEF Attached, Scanning
  <2>6. \A u \in Thread : pc'[u] = "check" => u # t /\ pc[u] = "check" /\ rec[u] \in Rec /\ rec[u] # r
    BY ZenonT(60), <1>9, <1>a, <2>1, <2>4 DEF Detach, CallScan
  <2>7. Guards'
    <3>1. \A s \in Rec, i \in Slot : valid'[s][i] => s # r /\ valid[s][i] /\ hazards'[s][i] = hazards[s][i]
      BY <2>2
    <3>2. \A u \in Thread : pc'[u] = "check" => hazards'[rec'[u]][gidx'[u]] = pCur'[u]
      BY <2>2, <2>3, <2>6 DEF Guards
    <3>3. \A u \in Thread, i \in Slot : Attached(u) /\ valid'[rec[u]][i] => Attached(u)' /\ rec'[u] = rec[u]
      <4>1. \A i \in Slot : ~ valid'[rec[t]][i]
        BY <2>1, <2>2
      <4>. QED BY <2>3, <2>5, <4>1
    <3>. QED BY <3>1, <3>2, <3>3, GuardsFrom
  <2>8. GuardOrigin
    BY <2>2, SameGuards
  <2>. QED BY <2>7, <2>8
<1>. QED
  BY <1>1, <1>2, <1>3, <1>4, <1>5, <1>6, <1>7, <1>8, <1>9, StepKinds

-----------------------------------------------------------------------------
(* Scans *)

\* The cells of its array that a scan still has to decide about.
Pending(t) == {k \in DOMAIN retired[rec[t]] : pc[t] = "compact" => k >= it[t]}

\* A guard that protects a pending pointer has been seen, or is still ahead of
\* the reading of the hazard slots.
Covered(t) ==
  \A r \in Rec, i \in Slot, k \in Pending(t) :
    valid[r][i] /\ hazards[r][i] = retired[rec[t]][k] =>
      \/ hazards[r][i] \in plist[t]
      \/ pc[t] = "collect" /\ (r < node[t] \/ (r = node[t] /\ i >= slot[t]))

\* What a scan has collected.
Scans == \A t \in Thread : pc[t] \in {"collect", "compact"} => mode[t] = "inplace" /\ Covered(t)

\* The steps of a thread.
ThreadStep(t) == \/ Attach(t) \/ AllocStep(t) \/ ClientStep(t)
                 \/ ScanStep(t) \/ Detach(t) \/ HelpStep(t)

\* u goes on with the same scan.
SameScan(u) ==
  /\ pc'[u] = pc[u] /\ rec'[u] = rec[u] /\ mode'[u] = mode[u] /\ node'[u] = node[u]
  /\ slot'[u] = slot[u] /\ plist'[u] = plist[u] /\ it'[u] = it[u]

\* A step of one thread leaves the scans of the others, and their arrays, alone.
LEMMA TheirScan ==
  ASSUME Base, NEW t \in Thread, ThreadStep(t), NEW u \in Thread, u # t
  PROVE  SameScan(u) /\ (rec[u] \in Rec => retired'[rec[u]] = retired[rec[u]])
<1> DEFINE G == SameScan(u) /\ (rec[u] \in Rec => retired'[rec[u]] = retired[rec[u]])
<1>a. /\ TypeControl /\ TypeData
      /\ thread_list \in Nat /\ rec[u] \in Nat /\ rec[u] <= thread_list
      /\ rec[u] \in Rec => rec[t] # rec[u] /\ (HoldsOther(t) => hprec[t] # rec[u])
  <2>1. Own /\ TypeData
    BY DEF Base
  <2>2. TypeControl
    BY <2>1, OwnFacts
  <2>3. rec[u] \in Rec => rec[t] # rec[u] /\ (HoldsOther(t) => hprec[t] # rec[u])
    BY <2>1, OwnFacts
  <2>. QED BY <2>1, <2>2, <2>3, RecordList, OwnNumbers
<1> USE <1>a DEF TypeControl, TypeData, SameScan, Goto, CallScan, AfterPush, smrVars, clientVars, helpVars, scanVars, protectVars
<1>1. ASSUME Attach(t) PROVE G
  BY <1>1 DEF Attach
<1>2. ASSUME AllocSkip(t) PROVE G
  BY <1>2 DEF AllocSkip
<1>3. ASSUME AllocTake(t) PROVE G
  BY <1>3 DEF AllocTake
<1>4. ASSUME AllocReuse(t) PROVE G
  BY ZenonT(60), <1>4 DEF AllocReuse
<1>5. ASSUME AllocNew(t) PROVE G
  <2>1. SameScan(u)
    BY <1>5 DEF AllocNew
  <2>2. rec[u] # thread_list + 1
    BY Order
  <2>. QED BY <1>5, <2>1, <2>2 DEF AllocNew
<1>6. ASSUME NEW c \in Cell, NEW o \in Obj, Link(t, c, o) PROVE G
  BY <1>6 DEF Link
<1>7. ASSUME NEW c \in Cell, NEW p \in Ptr, Retire(t, c, p) PROVE G
  BY <1>7 DEF Retire
<1>8. ASSUME NEW i \in Slot, NEW c \in Cell, Protect(t, i, c) PROVE G
  BY <1>8 DEF Protect
<1>9. ASSUME ProtectAssign(t) PROVE G
  BY <1>9 DEF ProtectAssign
<1>10. ASSUME ProtectRetry(t) PROVE G
  BY <1>10 DEF ProtectRetry
<1>11. ASSUME ProtectDone(t) PROVE G
  BY <1>11 DEF ProtectDone
<1>12. ASSUME NEW i \in Slot, Clear(t, i) PROVE G
  BY <1>12 DEF Clear
<1>13. ASSUME NEW q \in CopyPairs, Copy(t, q[1], q[2]) PROVE G
  BY <1>13 DEF Copy
<1>14. ASSUME ForceScan(t) PROVE G
  BY <1>14 DEF ForceScan
<1>15. ASSUME ScanNothing(t) PROVE G
  BY <1>15 DEF ScanNothing
<1>16. ASSUME ScanInplace(t) PROVE G
  BY <1>16 DEF ScanInplace, Collecting
<1>17. ASSUME ScanClassic(t) PROVE G
  BY <1>17 DEF ScanClassic, Collecting
<1>18. ASSUME CollectSkip(t) PROVE G
  BY <1>18 DEF CollectSkip
<1>19. ASSUME CollectOwned(t) PROVE G
  BY <1>19 DEF CollectOwned
<1>20. ASSUME CollectSlot(t) PROVE G
  BY <1>20 DEF CollectSlot
<1>21. ASSUME CollectDone(t) PROVE G
  BY <1>21 DEF CollectDone
<1>22. ASSUME CompactKeep(t) PROVE G
  BY <1>22 DEF CompactKeep
<1>23. ASSUME CompactFree(t) PROVE G
  BY <1>23 DEF CompactFree
<1>24. ASSUME ScanReturn(t) PROVE G
  BY <1>24 DEF ScanReturn
<1>25. ASSUME Detach(t) PROVE G
  BY <1>25 DEF Detach
<1>26. ASSUME HelpScan(t) PROVE G
  BY <1>26 DEF HelpScan
<1>27. ASSUME HelpSkip(t) PROVE G
  BY <1>27 DEF HelpSkip
<1>28. ASSUME HelpLook(t) PROVE G
  BY <1>28 DEF HelpLook
<1>29. ASSUME HelpBusy(t) PROVE G
  BY <1>29 DEF HelpBusy
<1>30. ASSUME HelpTake(t) PROVE G
  BY <1>30 DEF HelpTake
<1>31. ASSUME HelpMove(t) PROVE G
  BY <1>31 DEF HelpMove
<1>32. ASSUME HelpClear(t) PROVE G
  BY <1>32 DEF HelpClear, HoldsOther, Moving
<1>33. ASSUME HelpRelease(t) PROVE G
  BY <1>33 DEF HelpRelease
<1>34. ASSUME Detached(t) PROVE G
  BY <1>34 DEF Detached
<1> HIDE DEF G, TypeControl, TypeData, SameScan, Goto, CallScan, AfterPush
<1>b. G
  BY ZenonT(60), <1>1, <1>2, <1>3, <1>4, <1>5, <1>6, <1>7, <1>8, <1>9, <1>10, <1>11, <1>12, <1>13, <1>14, <1>15, <1>16, <1>17, <1>18, <1>19, <1>20, <1>21, <1>22, <1>23, <1>24, <1>25, <1>26, <1>27, <1>28, <1>29, <1>30, <1>31, <1>32, <1>33, <1>34 DEF ThreadStep, AllocStep, ClientStep, ScanStep, HelpStep
<1>. QED BY ZenonT(60), <1>b DEF G

\* A pending pointer is a retired object.
LEMMA PendingRetired ==
  ASSUME Base, Listed, NEW t \in Thread, pc[t] \in {"collect", "compact"}, NEW k \in Pending(t)
  PROVE  rec[t] \in Rec /\ k \in 1 .. Len(retired[rec[t]]) /\ mem[retired[rec[t]][k]] = "retired"
<1>1. rec[t] \in Rec
  BY ZenonT(60), OwnFacts DEF Base
<1>2. DOMAIN retired[rec[t]] = 1 .. Len(retired[rec[t]])
  <2>1. retired[rec[t]] \in Seq(Obj)
    BY <1>1 DEF Base, TypeData
  <2>. QED BY <2>1, ArrayOf
<1>3. k \in Live(rec[t])
  BY <1>1, <1>2, LiveShape DEF Base, Pending
<1>. QED BY <1>1, <1>2, <1>3 DEF Listed, ListedRetired, Pending

\* A record with a valid guard is in the list and has an owner.
LEMMA GuardOwned ==
  ASSUME Base, Guards, NEW r \in Rec, NEW i \in Slot, valid[r][i]
  PROVE  r <= thread_list /\ owner[r] /\ r \in Nat /\ i \in Nat /\ hazards[r][i] \in Obj
<1>1. PICK t \in Thread : rec[t] = r
  BY ZenonT(60) DEF Guards
<1>2. r # 0 /\ r \in Nat /\ i \in Nat
  BY Numbered
<1>3. rec[t] <= thread_list /\ owner[rec[t]]
  BY ZenonT(60), <1>1, <1>2 DEF Base, Own
<1>4. hazards[r][i] \in Ptr /\ hazards[r][i] # nullptr
  <2>1. hazards \in [Rec -> [Slot -> Ptr]]
    BY DEF Base, TypeData
  <2>. QED BY <2>1 DEF Guards
<1>. QED BY <1>1, <1>2, <1>3, <1>4 DEF Ptr

\* A scan that the step leaves alone stays covered: a guard comes to protect a
\* retired object only as a copy, at a higher index, of one that already did.
LEMMA CoveredFrame ==
  ASSUME Base, Listed, GuardOrigin, NEW u \in Thread, pc[u] \in {"collect", "compact"}, Covered(u),
         SameScan(u), retired'[rec[u]] = retired[rec[u]]
  PROVE  Covered(u)'
<1>1. Pending(u)' = Pending(u)
  BY ZenonT(60) DEF SameScan, Pending
<1>2. SUFFICES ASSUME NEW r \in Rec, NEW i \in Slot, NEW k \in Pending(u),
                      valid'[r][i], hazards'[r][i] = retired[rec[u]][k]
               PROVE  \/ hazards'[r][i] \in plist[u]
                      \/ pc[u] = "collect" /\ (r < node[u] \/ (r = node[u] /\ i >= slot[u]))
  <2>1. pc'[u] = pc[u] /\ rec'[u] = rec[u] /\ node'[u] = node[u] /\ slot'[u] = slot[u] /\ plist'[u] = plist[u]
    BY DEF SameScan
  <2>. QED BY ZenonT(60), <1>1, <2>1 DEF Covered
<1>3. mem[retired[rec[u]][k]] = "retired"
  BY PendingRetired
<1>4. PICK j \in Slot : j <= i /\ valid[r][j] /\ hazards'[r][i] = hazards[r][j]
  BY ZenonT(60), <1>2, <1>3 DEF GuardOrigin
<1>5. slot[u] \in Nat /\ i \in Nat /\ j \in Nat
  BY CollectCursors, Numbered DEF Base
<1>6. \/ hazards[r][j] \in plist[u]
      \/ pc[u] = "collect" /\ (r < node[u] \/ (r = node[u] /\ j >= slot[u]))
  BY <1>2, <1>4 DEF Covered
<1>7. CASE hazards[r][j] \in plist[u]
  BY <1>4, <1>7
<1>8. CASE pc[u] = "collect" /\ r < node[u]
  BY <1>8
<1>9. CASE pc[u] = "collect" /\ r = node[u] /\ j >= slot[u]
  <2>1. i >= slot[u]
    BY <1>4, <1>5, <1>9, Order
  <2>. QED BY ZenonT(60), <1>9, <2>1
<1>. QED BY <1>6, <1>7, <1>8, <1>9

\* Each step keeps every running scan aware of the guards it must honour.
LEMMA ScansNext ==
  ASSUME Base, Listed, Guards, Scans, GuardOrigin, SafeUse, [Next]_vars
  PROVE  Scans'
<1>a. /\ TypeControl /\ TypeData
      /\ \A t \in Thread : pc[t] \in {"scan", "collect", "compact"} => rec[t] \in Rec
      /\ \A t \in Thread : node[t] \in Nat /\ slot[t] \in Nat
      /\ \A i \in Slot : i \in Nat /\ i >= 1 /\ i <= hazard_ptr_count
      /\ \A r \in Rec : r \in Nat /\ r >= 1
      /\ hazard_ptr_count \in Nat
  <2>1. /\ TypeControl /\ TypeData
        /\ \A t \in Thread : pc[t] \in {"scan", "collect", "compact"} => rec[t] \in Rec
    BY OwnFacts DEF Base
  <2>2. hazard_ptr_count \in Nat /\ \A i \in Slot : i \in Nat /\ i >= 1 /\ i <= hazard_ptr_count
    BY Numbered
  <2>3. \A r \in Rec : r \in Nat /\ r >= 1
    BY Numbered
  <2>4. \A t \in Thread : node[t] \in Nat /\ slot[t] \in Nat
    BY <2>1, CollectCursors
  <2>. QED BY <2>1, <2>2, <2>3, <2>4
<1>1. CASE UNCHANGED vars
  <2>1. \A t \in Thread : SameScan(t) /\ retired'[rec[t]] = retired[rec[t]]
    BY <1>1 DEF vars, SameScan, helpVars, scanVars
  <2>2. \A t \in Thread : pc'[t] = pc[t] /\ mode'[t] = mode[t]
    BY <2>1 DEF SameScan
  <2>. QED BY <2>1, <2>2, CoveredFrame DEF Scans
<1>2. CASE Destruct
  BY <1>2 DEF Destruct, Scans
<1>3. ASSUME NEW t \in Thread, ThreadStep(t) PROVE Scans'
  <2>1. ASSUME NEW u \in Thread, u # t, pc'[u] \in {"collect", "compact"}
        PROVE  mode'[u] = "inplace" /\ Covered(u)'
    <3>1. SameScan(u) /\ (rec[u] \in Rec => retired'[rec[u]] = retired[rec[u]])
      BY <1>3, <2>1, TheirScan
    <3>2. pc[u] \in {"collect", "compact"} /\ mode'[u] = mode[u]
      BY <2>1, <3>1 DEF SameScan
    <3>3. retired'[rec[u]] = retired[rec[u]] /\ mode[u] = "inplace" /\ Covered(u)
      BY <1>a, <3>1, <3>2 DEF Scans
    <3>. QED BY <3>1, <3>2, <3>3, CoveredFrame
  <2>2. ASSUME pc'[t] \in {"collect", "compact"} PROVE mode'[t] = "inplace" /\ Covered(t)'
    <3>0. \/ ScanInplace(t) \/ ScanClassic(t) \/ CollectSkip(t) \/ CollectOwned(t) \/ CollectSlot(t)
          \/ CollectDone(t) \/ CompactKeep(t) \/ CompactFree(t)
      BY ZenonT(60), <1>3, <1>a, <2>2 DEF ThreadStep, AllocStep, ClientStep, ScanStep, HelpStep, Attach, AllocSkip,
         AllocTake, AllocReuse, AllocNew, Link, Retire, Protect, ProtectAssign, ProtectRetry, ProtectDone,
         Clear, Copy, ForceScan, ScanNothing, ScanReturn, Detach, HelpScan, HelpSkip, HelpLook, HelpBusy,
         HelpTake, HelpMove, HelpClear, HelpRelease, Detached, Goto, CallScan, AfterPush, TypeControl
    <3>1. CASE ScanInplace(t)
      <4>1. pc'[t] = "collect" /\ mode'[t] = "inplace" /\ node'[t] = thread_list /\ slot'[t] = 0
        BY <1>a, <3>1 DEF ScanInplace, Collecting, Goto, TypeControl, TypeData
      <4>2. UNCHANGED <<valid, hazards>>
        BY <3>1 DEF ScanInplace, clientVars
      <4>3. \A r \in Rec, i \in Slot : valid[r][i] => r < thread_list \/ (r = thread_list /\ i >= 0)
        <5>1. thread_list \in Nat
          BY <1>a, RecordList
        <5>2. \A r \in Rec, i \in Slot : valid[r][i] => r <= thread_list /\ r \in Nat /\ i \in Nat
          BY GuardOwned
        <5>. QED BY <5>1, <5>2, Order
      <4>. QED BY <4>1, <4>2, <4>3 DEF Covered
    <3>2. CASE ScanClassic(t)
      <4>1. pc[t] = "scan" /\ HasOddPointer(retired[rec[t]])
        BY <3>2 DEF ScanClassic, SafeUse
      <4>2. PICK i \in DOMAIN retired[rec[t]] : retired[rec[t]][i] % 2 = 1
        BY ZenonT(60), <4>1 DEF HasOddPointer
      <4>3. retired[rec[t]][i] \in Obj
        <5>1. rec[t] \in Rec
          BY <1>a, <4>1
        <5>2. retired[rec[t]] \in Seq(Obj)
          BY <1>a, <5>1 DEF TypeData
        <5>. QED BY <4>2, <5>2, ArrayOf
      <4>. QED BY <4>2, <4>3, Order DEF SafeUse, AlignedObjects
    <3>3. CASE CollectSkip(t)
      <4>1. /\ pc[t] = "collect" /\ ~ owner[node[t]]
            /\ UNCHANGED <<pc, rec, mode, slot, plist, retired, valid, hazards, it>>
            /\ node'[t] = node[t] - 1 /\ slot[t] = 0
        BY <1>a, <3>3 DEF CollectSkip, helpVars, clientVars, TypeData
      <4>2. Pending(t)' = Pending(t)
        BY <4>1 DEF Pending
      <4>3. \A r \in Rec, i \in Slot : valid[r][i] /\ (r < node[t] \/ (r = node[t] /\ i >= slot[t])) =>
              r < node'[t] \/ (r = node'[t] /\ i >= slot'[t])
        <5>1. \A r \in Rec, i \in Slot : valid[r][i] => owner[r] /\ r \in Nat /\ i \in Nat
          BY GuardOwned
        <5>2. node[t] \in Nat
          BY <1>a DEF TypeData
        <5>3. slot'[t] = 0 /\ slot[t] = 0
          BY <4>1
        <5>4. \A r \in Rec, i \in Slot : valid[r][i] /\ r = node[t] => FALSE
          BY <4>1, <5>1
        <5>5. \A r \in Rec, i \in Slot : valid[r][i] /\ r < node[t] => r < node[t] - 1 \/ (r = node[t] - 1 /\ i >= 0)
          BY <5>1, <5>2, Order
        <5>. QED BY <4>1, <5>3, <5>4, <5>5
      <4>. QED BY ZenonT(60), <4>1, <4>2, <4>3 DEF Scans, Covered
    <3>4. CASE CollectOwned(t)
      <4>1. /\ pc[t] = "collect"
            /\ UNCHANGED <<pc, rec, mode, node, plist, retired, valid, hazards, it>>
            /\ slot'[t] = 1
        BY <1>a, <3>4 DEF CollectOwned, helpVars, clientVars, TypeData
      <4>2. Pending(t)' = Pending(t)
        BY ZenonT(60), <4>1 DEF Pending
      <4>. QED BY <1>a, <4>1, <4>2 DEF Scans, Covered
    <3>5. CASE CollectSlot(t)
      <4>1. /\ pc[t] = "collect" /\ node[t] # 0 /\ slot[t] # 0
            /\ UNCHANGED <<pc, rec, mode, retired, valid, hazards, it>>
            /\ slot'[t] = IF slot[t] < hazard_ptr_count THEN slot[t] + 1 ELSE 0
            /\ node'[t] = IF slot[t] < hazard_ptr_count THEN node[t] ELSE node[t] - 1
            /\ plist'[t] = plist[t] \cup
                 {retired[rec[t]][i] : i \in {j \in DOMAIN retired[rec[t]] :
                                                retired[rec[t]][j] = hazards[node[t]][slot[t]]}}
        BY <1>a, <3>5 DEF CollectSlot, helpVars, clientVars, TypeData
      <4>2. Pending(t)' = Pending(t)
        BY <4>1 DEF Pending
      <4>3. SUFFICES ASSUME NEW r \in Rec, NEW i \in Slot, NEW k \in Pending(t),
                            valid[r][i], hazards[r][i] = retired[rec[t]][k]
                     PROVE  \/ hazards[r][i] \in plist'[t]
                            \/ r < node'[t] \/ (r = node'[t] /\ i >= slot'[t])
        BY <4>1, <4>2 DEF Scans, Covered
      <4>4. k \in DOMAIN retired[rec[t]]
        BY DEF Pending
      <4>5. hazards[r][i] \in plist[t] \/ r < node[t] \/ (r = node[t] /\ i >= slot[t])
        BY <4>1, <4>3 DEF Scans, Covered
      <4>6. CASE hazards[r][i] \in plist[t]
        BY <4>1, <4>6
      <4>7. CASE r < node[t]
        <5>1. node[t] \in Nat /\ r \in Nat /\ i \in Nat
          BY <1>a, ConstantsAssumption DEF TypeData, Rec, Slot
        <5>2. CASE slot[t] < hazard_ptr_count
          BY ZenonT(60), <4>1, <4>7, <5>2
        <5>3. CASE ~ (slot[t] < hazard_ptr_count)
          <6>1. node'[t] = node[t] - 1 /\ slot'[t] = 0
            BY <4>1, <5>3
          <6>2. r < node[t] - 1 \/ r = node[t] - 1
            BY <4>7, <5>1, Order
          <6>3. i >= 0
            BY <5>1, Order
          <6>. QED BY <6>1, <6>2, <6>3
        <5>. QED BY <5>2, <5>3
      <4>8. CASE r = node[t] /\ i = slot[t]
        BY ZenonT(60), <4>1, <4>3, <4>4, <4>8
      <4>9. CASE r = node[t] /\ i > slot[t]
        <5>1. slot[t] < hazard_ptr_count /\ i >= slot[t] + 1
          BY <1>a, <4>9, Order
        <5>. QED BY <4>1, <4>9, <5>1
      <4>10. i >= slot[t] => i = slot[t] \/ i > slot[t]
        BY <1>a, Order
      <4>. QED BY <4>5, <4>6, <4>7, <4>8, <4>9, <4>10
    <3>6. CASE CollectDone(t)
      <4>1. /\ pc[t] = "collect" /\ node[t] = 0 /\ pc'[t] = "compact" /\ it'[t] = 1
            /\ UNCHANGED <<rec, mode, plist, retired, valid, hazards>>
        BY <1>a, <3>6 DEF CollectDone, Goto, helpVars, clientVars, TypeControl, TypeData
      <4>2. Pending(t)' \subseteq Pending(t)
        BY <4>1 DEF Pending
      <4>3. \A r \in Rec, i \in Slot : valid[r][i] => ~ (r < node[t]) /\ r # node[t]
        BY <4>1, Numbered, Order
      <4>. QED BY ZenonT(60), <4>1, <4>2, <4>3 DEF Scans, Covered
    <3>7. CASE CompactKeep(t)
      <4>1. /\ pc[t] = "compact" /\ it'[t] = it[t] + 1
            /\ retired' = [retired EXCEPT ![rec[t]][ins[t]] = retired[rec[t]][it[t]]]
            /\ UNCHANGED <<pc, rec, mode, plist, valid, hazards>>
        BY <1>a, <3>7 DEF CompactKeep, helpVars, clientVars, TypeData
      <4>2. PICK r \in Rec : r = rec[t]
        BY <1>a, <4>1
      <4>3. ins[t] \in Nat /\ it[t] \in Nat /\ ins[t] <= it[t] /\ ins[t] >= 1
        BY ZenonT(60), <4>1 DEF Base, TypeData, Cursors, Cursor
      <4>4. /\ DOMAIN retired'[r] = DOMAIN retired[r] /\ DOMAIN retired[r] \subseteq Nat
            /\ \A k \in DOMAIN retired[r] : k # ins[t] => retired'[r][k] = retired[r][k]
        <5>1. retired \in [Rec -> Seq(Obj)] /\ retired[r] \in Seq(Obj)
          BY <1>a DEF TypeData
        <5>2. retired'[r] = [retired[r] EXCEPT ![ins[t]] = retired[r][it[t]]]
          BY <4>1, <4>2, <5>1
        <5>3. DOMAIN retired'[r] = DOMAIN retired[r]
          BY <5>2
        <5>4. \A k \in DOMAIN retired[r] : k # ins[t] => retired'[r][k] = retired[r][k]
          BY <5>2
        <5>. QED BY <5>1, <5>3, <5>4, ArrayOf
      <4>5. \A k \in Pending(t)' : k \in Pending(t) /\ retired'[r][k] = retired[r][k]
        <5>1. ASSUME NEW k \in Pending(t)' PROVE k \in DOMAIN retired[r] /\ k \in Nat /\ k >= it[t] + 1
          BY <4>1, <4>2, <4>4 DEF Pending
        <5>2. ASSUME NEW k \in Pending(t)' PROVE k >= it[t] /\ k # ins[t]
          BY <4>3, <5>1, Order
        <5>. QED BY <4>2, <4>4, <5>1, <5>2 DEF Pending
      <4>6. Covered(t) /\ mode[t] = "inplace"
        BY <4>1 DEF Scans
      <4>7. ASSUME NEW q \in Rec, NEW i \in Slot, NEW k \in Pending(t)', valid[q][i], hazards[q][i] = retired'[r][k]
            PROVE  hazards[q][i] \in plist[t]
        <5>1. k \in Pending(t) /\ hazards[q][i] = retired[rec[t]][k]
          BY <4>2, <4>5, <4>7
        <5>. QED BY <4>1, <4>6, <4>7, <5>1 DEF Covered
      <4>8. Covered(t)'
        BY <4>1, <4>2, <4>7 DEF Covered
      <4>. QED BY <4>1, <4>6, <4>8
    <3>8. CASE CompactFree(t)
      <4>1. /\ pc[t] = "compact" /\ it'[t] = it[t] + 1 /\ it[t] \in Nat
            /\ UNCHANGED <<pc, rec, mode, plist, retired, valid, hazards>>
        BY ZenonT(60), <1>a, <3>8 DEF CompactFree, helpVars, TypeData
      <4>2. DOMAIN retired[rec[t]] \subseteq Nat
        <5>1. rec[t] \in Rec
          BY <1>a, <4>1
        <5>2. retired[rec[t]] \in Seq(Obj)
          BY <1>a, <5>1 DEF TypeData
        <5>. QED BY <5>2, ArrayOf
      <4>3. Pending(t)' \subseteq Pending(t)
        <5>1. ASSUME NEW k \in Pending(t)'
              PROVE  k \in DOMAIN retired[rec[t]] /\ k \in Nat /\ k >= it[t] + 1
          BY <4>1, <4>2 DEF Pending
        <5>2. ASSUME NEW k \in Pending(t)' PROVE k >= it[t]
          BY <4>1, <5>1, Order
        <5>. QED BY <5>1, <5>2 DEF Pending
      <4>. QED BY <4>1, <4>3 DEF Scans, Covered
    <3>. QED BY <3>0, <3>1, <3>2, <3>3, <3>4, <3>5, <3>6, <3>7, <3>8
  <2>. QED BY <2>1, <2>2 DEF Scans
<1>. QED BY <1>1, <1>2, <1>3 DEF Next, ThreadStep

-----------------------------------------------------------------------------
(* Freeing *)

\* The steps that change what an address holds.
LEMMA MemSteps ==
  ASSUME [Next]_vars
  PROVE  \/ mem' = mem
         \/ Destruct
         \/ \E t \in Thread :
              \/ \E c \in Cell, o \in Obj : Link(t, c, o)
              \/ \E c \in Cell, p \in Ptr : Retire(t, c, p)
              \/ CompactFree(t)
<1>1. ASSUME NEW t \in Thread, Attach(t) \/ AllocStep(t) \/ Detach(t) PROVE mem' = mem
  BY <1>1 DEF AllocStep, clientVars, Attach, AllocSkip, AllocTake, AllocReuse, AllocNew, Detach
<1>2. ASSUME NEW t \in Thread, HelpStep(t) PROVE mem' = mem
  BY <1>2 DEF HelpStep, clientVars, HelpScan, HelpSkip, HelpLook, HelpBusy, HelpTake, HelpMove,
     HelpClear, HelpRelease, Detached
<1>3. ASSUME NEW t \in Thread, ScanStep(t) PROVE mem' = mem \/ CompactFree(t)
  BY <1>3 DEF ScanStep, clientVars, ScanNothing, ScanInplace, ScanClassic, CollectSkip, CollectOwned,
     CollectSlot, CollectDone, CompactKeep, ScanReturn
<1>4. ASSUME NEW t \in Thread, ClientStep(t)
      PROVE  \/ mem' = mem
             \/ \E c \in Cell, o \in Obj : Link(t, c, o)
             \/ \E c \in Cell, p \in Ptr : Retire(t, c, p)
  BY <1>4 DEF ClientStep, clientVars, Protect, ProtectAssign, ProtectRetry, ProtectDone, Clear, Copy, ForceScan
<1>5. UNCHANGED vars => mem' = mem
  BY DEF vars, clientVars
<1>. QED BY <1>1, <1>2, <1>3, <1>4, <1>5 DEF Next

\* An object is freed by the compaction of a scan that found no guard on it, or
\* when no thread is attached.
LEMMA FreedUnguarded ==
  ASSUME Base, Listed, Guards, Scans, NEW t \in Thread, CompactFree(t), NEW r \in Rec, NEW i \in Slot, valid[r][i]
  PROVE  hazards[r][i] # retired[rec[t]][it[t]]
<1>1. pc[t] = "compact" /\ mode[t] = "inplace" /\ Covered(t)
  BY DEF CompactFree, Scans
<1>2. rec[t] \in Rec /\ it[t] \in Live(rec[t]) /\ it[t] \in DOMAIN retired[rec[t]]
  BY CompactFrees DEF Live
<1>3. it[t] \in Pending(t)
  <2>1. it[t] \in Nat
    BY DEF Base, TypeData
  <2>. QED BY <1>2, <2>1, Order DEF Pending
<1>4. retired[rec[t]][it[t]] \notin plist[t]
  BY <1>1 DEF CompactFree, Examined
<1>. QED BY <1>1, <1>3, <1>4 DEF Covered

\* Each step keeps the guarded objects from being freed.
LEMMA GuardedNext ==
  ASSUME Base, Listed, Guards, Scans, GuardedNotFreed, GuardOrigin, Guards', TypeData', [Next]_vars
  PROVE  GuardedNotFreed'
<1> SUFFICES ASSUME NEW r \in Rec, NEW i \in Slot, valid'[r][i]
             PROVE  mem'[hazards'[r][i]] # "free"
  BY DEF GuardedNotFreed
<1>1. PICK o \in Obj : o = hazards'[r][i]
  <2>1. hazards'[r][i] \in Ptr
    BY ZenonT(60) DEF TypeData
  <2>2. hazards'[r][i] # nullptr
    BY DEF Guards
  <2>. QED BY <2>1, <2>2 DEF Ptr
<1>2. mem \in [Obj -> {"free", "linked", "retired"}]
  BY DEF Base, TypeData
<1>3. \/ mem[o] = "linked"
      \/ mem[o] # "free" /\ \E j \in Slot : valid[r][j] /\ hazards[r][j] = o
  <2>1. \/ \E j \in Slot : valid[r][j] /\ hazards[r][j] = o
        \/ mem[o] = "linked"
    BY <1>1 DEF GuardOrigin
  <2>2. \A j \in Slot : valid[r][j] => mem[hazards[r][j]] # "free"
    BY DEF GuardedNotFreed
  <2>3. CASE \E j \in Slot : valid[r][j] /\ hazards[r][j] = o
    <3>1. PICK j \in Slot : valid[r][j] /\ hazards[r][j] = o
      BY <2>3
    <3>2. mem[o] # "free"
      BY <2>2, <3>1
    <3>. QED BY <2>3, <3>2
  <2>. QED BY <2>1, <2>3
<1>4. CASE mem' = mem
  BY <1>1, <1>3, <1>4
<1>5. CASE Destruct
  <2>1. \A j \in Slot : ~ valid'[r][j]
    BY <1>5 DEF Destruct, Guards, Attached, Scanning
  <2>. QED BY <2>1
<1>6. ASSUME NEW t \in Thread, NEW c \in Cell, NEW x \in Obj, Link(t, c, x) PROVE mem'[o] # "free"
  BY <1>2, <1>3, <1>6 DEF Link
<1>7. ASSUME NEW t \in Thread, NEW c \in Cell, NEW p \in Ptr, Retire(t, c, p) PROVE mem'[o] # "free"
  BY <1>2, <1>3, <1>7 DEF Retire
<1>8. ASSUME NEW t \in Thread, CompactFree(t) PROVE mem'[o] # "free"
  <2>1. PICK x : x = retired[rec[t]][it[t]] /\ mem[x] = "retired" /\ mem' = [mem EXCEPT ![x] = "free"]
    BY <1>8, CompactFrees DEF CompactFree, Listed, ListedRetired
  <2>2. o # x
    BY <1>3, <1>8, <2>1, FreedUnguarded
  <2>. QED BY <1>2, <1>3, <2>1, <2>2
<1>. QED BY <1>1, <1>4, <1>5, <1>6, <1>7, <1>8, MemSteps

-----------------------------------------------------------------------------
(* Theorems *)

\* The inductive invariant that holds however the scheme is used.
RetiredInv == Base /\ Cells /\ Listed

\* The first inductive invariant holds initially.
LEMMA RetiredInvInit == Init => RetiredInv
<1> SUFFICES ASSUME Init PROVE RetiredInv
  OBVIOUS
<1>1. TypeData
  BY InitialValues DEF Init, TypeData, Ptr, Slot
<1>2. Cursors
  BY DEF Init, Cursors, Cursor, Moving, Scanning
<1>. QED BY <1>1, <1>2, OwnInit, EmptiesInit, ListedInit DEF RetiredInv, Base

\* The first inductive invariant is preserved by every step.
LEMMA RetiredInvNext == RetiredInv /\ [Next]_vars => RetiredInv'
  BY OwnNext, TypeDataNext, CursorsNext, EmptiesNext, CellsNext, ListedNext DEF RetiredInv, Base

\* The first inductive invariant always holds.
LEMMA RetiredInvAlways == Spec => []RetiredInv
  BY RetiredInvInit, RetiredInvNext, PTL DEF Spec

\* Every variable keeps its type.
THEOREM TypeCorrect == Spec => []TypeOK
<1>1. RetiredInv => TypeOK
  BY ZenonT(60) DEF RetiredInv, Base, Own, TypeOK
<1>. QED BY <1>1, RetiredInvAlways, PTL

\* A thread record is used by one thread at a time: the CAS on owner_rec_ in
\* alloc_thread_data and in help_scan hands it over.
THEOREM RecordsExclusive == Spec => []OneUser
<1>1. RetiredInv => OneUser
  BY OwnNumbers DEF RetiredInv, Base
<1>. QED BY <1>1, RetiredInvAlways, PTL

\* A record whose free_ is set holds no retired pointer, so help_scan may pass
\* it over.
THEOREM FreeRecordsEmpty == Spec => []FreeIsEmpty
<1>1. RetiredInv => FreeIsEmpty
  BY ZenonT(60) DEF RetiredInv, Base, Empties
<1>. QED BY <1>1, RetiredInvAlways, PTL

\* No retired object is lost or listed twice, for both scan functions.
THEOREM NoRetiredLost == Spec => []RetiredOnce
<1>1. RetiredInv => RetiredOnce
  BY ListedIsOnce DEF RetiredInv
<1>. QED BY <1>1, RetiredInvAlways, PTL

\* No disposer is called twice for one retirement, for both scan functions.
THEOREM NoDoubleDispose == Spec => []DisposedOnce
<1>1. ASSUME RetiredInv, NEW t \in Thread, pc[t] = "compact", it[t] <= Len(retired[rec[t]])
      PROVE  mem[retired[rec[t]][it[t]]] = "retired"
  <2>1. rec[t] \in Rec /\ it[t] \in Live(rec[t])
    BY <1>1, CompactsLive DEF RetiredInv
  <2>. QED BY <1>1, <2>1 DEF RetiredInv, Listed, ListedRetired
<1>2. RetiredInv => DisposedOnce
  BY <1>1 DEF DisposedOnce
<1>. QED BY <1>2, RetiredInvAlways, PTL

\* The inductive invariant of the promise to the containers.
SafeInv == SafeUse /\ RetiredInv /\ Guards /\ Scans /\ GuardedNotFreed

\* The second inductive invariant holds initially.
LEMMA SafeInvInit == SafeUse /\ Init => SafeInv
<1> SUFFICES ASSUME SafeUse, Init PROVE SafeInv
  OBVIOUS
<1>1. Guards /\ Scans /\ GuardedNotFreed
  BY DEF Init, Guards, Scans, GuardedNotFreed
<1>. QED BY <1>1, RetiredInvInit DEF SafeInv

\* The second inductive invariant is preserved by every step.
LEMMA SafeInvNext == SafeInv /\ [Next]_vars => SafeInv'
<1> SUFFICES ASSUME SafeInv, [Next]_vars PROVE SafeInv'
  OBVIOUS
<1>1. SafeUse' /\ SafeUse /\ CopyAscending
  BY DEF SafeInv, SafeUse, AlignedObjects, CopyAscending
<1>2. RetiredInv' /\ TypeData'
  BY RetiredInvNext DEF SafeInv, RetiredInv, Base
<1>3. Guards' /\ GuardOrigin
  BY <1>1, GuardsNext DEF SafeInv, RetiredInv
<1>4. Scans'
  BY <1>1, <1>3, ScansNext DEF SafeInv, RetiredInv
<1>5. GuardedNotFreed'
  BY <1>2, <1>3, GuardedNext DEF SafeInv, RetiredInv
<1>. QED BY <1>1, <1>2, <1>3, <1>4, <1>5 DEF SafeInv

\* The second inductive invariant always holds.
LEMMA SafeInvAlways == SafeUse /\ Spec => []SafeInv
  BY SafeInvInit, SafeInvNext, PTL DEF Spec

\* The promise of the scheme: with the default scan type, aligned objects and
\* guards copied upwards only, no guarded object is ever freed, for any number of
\* threads, records, hazard pointers and objects.
THEOREM GuardSafety == SafeUse /\ Spec => []GuardedNotFreed
<1>1. SafeInv => GuardedNotFreed
  BY DEF SafeInv
<1>. QED BY <1>1, SafeInvAlways, PTL

-----------------------------------------------------------------------------
(* Refinement *)

\* Each step is a step, or a stutter, of the abstract specification.
LEMMA StepSimulation == SafeInv /\ SafeInv' /\ [Next]_vars => [SMR!Next]_(SMR!vars)
<1> SUFFICES ASSUME SafeInv, SafeInv', [Next]_vars PROVE SMR!Next \/ UNCHANGED <<mem, Protects>>
  BY DEF SMR!vars
<1>a. /\ Base /\ Listed /\ Cells /\ Guards /\ Scans /\ TypeControl
      /\ hazards \in [Rec -> [Slot -> Ptr]] /\ valid \in [Rec -> [Slot -> BOOLEAN]]
      /\ cell \in [Cell -> Ptr] /\ mem \in [Obj -> {"free", "linked", "retired"}]
      /\ pCur \in [Thread -> Ptr] /\ gcell \in [Thread -> Cell]
      /\ \A t \in Thread : pc[t] \notin {"detached", "alloc", "reuse"} => rec[t] \in Rec
      /\ \A t \in Thread : pc[t] \in {"assign", "check"} => gidx[t] \in Slot
      /\ 0 \notin Obj
  BY OwnFacts, ConstantsAssumption DEF SafeInv, RetiredInv, Base, TypeData, Cursors, Cursor
<1>1. CASE UNCHANGED vars
  <2>1. UNCHANGED <<hazards, valid, mem>>
    BY <1>1 DEF vars, clientVars
  <2>. QED BY <2>1, ProtectsSame
<1>2. CASE Destruct
  <2>1. \A t \in Thread : pc[t] = "detached"
    BY <1>2 DEF Destruct
  <2>2. \A r \in Rec, i \in Slot : ~ valid[r][i] /\ valid'[r][i] = valid[r][i]
    BY <1>2, <1>a, <2>1 DEF Guards, Attached, Scanning, Destruct
  <2>3. Protects' = Protects
    BY <2>2, ProtectsSame
  <2> DEFINE S == {o \in Obj : \E r \in 1 .. thread_list : \E i \in DOMAIN retired[r] : retired[r][i] = o}
  <2>4. mem' = [o \in Obj |-> IF o \in S THEN "free" ELSE mem[o]]
    BY ZenonT(60), <1>2 DEF Destruct
  <2>5. \A o \in S : mem[o] = "retired"
    <3>1. \A r \in 1 .. thread_list : r \in Rec
      BY <1>a, RecordList
    <3>2. ASSUME NEW o \in S PROVE mem[o] = "retired"
      <4>1. PICK r \in 1 .. thread_list : \E i \in DOMAIN retired[r] : retired[r][i] = o
        OBVIOUS
      <4>2. PICK i \in DOMAIN retired[r] : retired[r][i] = o
        BY <4>1
      <4>. QED BY <1>a, <2>1, <3>1, <4>2, DestructFrees
    <3>. QED BY <3>2
  <2>. QED BY <1>a, <2>2, <2>3, <2>4, <2>5, ReclaimStep
<1>3. ASSUME NEW t \in Thread, NEW c \in Cell, NEW o \in Obj, Link(t, c, o) PROVE SMR!Next
  <2>1. Protects' = Protects
    <3>1. UNCHANGED <<hazards, valid>>
      BY <1>3 DEF Link
    <3>. QED BY <3>1, ProtectsSame
  <2>. QED BY <1>3, <2>1 DEF Link, SMR!Next, SMR!Publish
<1>4. ASSUME NEW t \in Thread, NEW c \in Cell, NEW p \in Ptr, Retire(t, c, p) PROVE SMR!Next
  <2>1. Protects' = Protects
    <3>1. UNCHANGED <<hazards, valid>>
      BY <1>4 DEF Retire
    <3>. QED BY <3>1, ProtectsSame
  <2>2. PICK x \in Obj : x = cell[c] /\ mem[x] = "linked"
    BY <1>4, <1>a DEF Retire, Cells, Ptr
  <2>3. SMR!Replace(x, p)
    BY <1>4, <2>1, <2>2 DEF Retire, SMR!Replace
  <2>. QED BY <2>3 DEF SMR!Next, Ptr
<1>5. ASSUME NEW t \in Thread, CompactFree(t) PROVE SMR!Next
  <2>1. Protects' = Protects
    <3>1. UNCHANGED <<hazards, valid>>
      BY <1>5 DEF CompactFree
    <3>. QED BY <3>1, ProtectsSame
  <2>2. rec[t] \in Rec /\ it[t] \in Live(rec[t]) /\ retired[rec[t]][it[t]] \in Obj
    BY <1>5, <1>a, CompactFrees, LiveInDomain DEF Base
  <2>3. PICK x \in Obj : x = retired[rec[t]][it[t]] /\ mem[x] = "retired"
    BY <1>a, <2>2 DEF Listed, ListedRetired
  <2>4. mem' = [o \in Obj |-> IF o \in {x} THEN "free" ELSE mem[o]]
    BY <1>5, <1>a, <2>3 DEF CompactFree
  <2>5. \A r \in Rec, i \in Slot : valid[r][i] => hazards[r][i] \notin {x}
    BY <1>5, <1>a, <2>3, FreedUnguarded
  <2>6. {x} \in SUBSET Obj /\ 0 \notin {x} /\ \A o \in {x} : mem[o] = "retired"
    BY <1>a, <2>3
  <2>. QED BY <2>1, <2>4, <2>5, <2>6, ReclaimStep
<1>6. ASSUME NEW t \in Thread, SilentStep(t), mem' = mem PROVE UNCHANGED <<mem, Protects>>
  <2>1. UNCHANGED <<hazards, valid>>
    BY <1>6, <1>a, SilentFrame DEF Base
  <2>. QED BY <1>6, <2>1, ProtectsSame
<1>7. ASSUME NEW t \in Thread, AllocNew(t) PROVE UNCHANGED <<mem, Protects>>
  <2>1. PICK n \in Rec : n = thread_list + 1
    BY <1>7, <1>a, RecordList DEF AllocNew
  <2>2. mem' = mem /\ valid' = valid /\ \A r \in Rec : r # n => hazards'[r] = hazards[r]
    BY <1>7, <1>a, <2>1 DEF AllocNew, clientVars
  <2>3. \A i \in Slot : ~ valid[n][i]
    <3>1. thread_list \in Nat
      BY <1>a, RecordList
    <3>2. \A i \in Slot : valid[n][i] => n <= thread_list
      BY <1>a, GuardOwned
    <3>3. ~ (n <= thread_list)
      BY <2>1, <3>1, Order
    <3>. QED BY <3>2, <3>3
  <2>. QED BY ZenonT(60), <2>2, <2>3, ProtectsSame
<1>8. ASSUME NEW t \in Thread, ProtectAssign(t) PROVE SMR!Next
  <2>1. PICK r \in Rec, k \in Slot : r = rec[t] /\ k = gidx[t]
    BY <1>8, <1>a DEF ProtectAssign
  <2>2. /\ \A s \in Rec, i \in Slot : ~ (s = r /\ i = k) => hazards'[s][i] = hazards[s][i] /\ valid'[s][i] = valid[s][i]
        /\ ~ valid'[r][k]
        /\ mem' = mem
    BY <1>8, <1>a, <2>1 DEF ProtectAssign
  <2>. QED BY <2>2, ReleaseOne
<1>9. ASSUME NEW t \in Thread, ProtectDone(t) PROVE SMR!Next
  <2>1. PICK r \in Rec, k \in Slot : r = rec[t] /\ k = gidx[t]
    BY <1>9, <1>a DEF ProtectDone
  <2>2. /\ \A s \in Rec, i \in Slot : ~ (s = r /\ i = k) => valid'[s][i] = valid[s][i]
        /\ valid'[r][k] = (pCur[t] # nullptr)
        /\ hazards' = hazards /\ mem' = mem
    BY <1>9, <1>a, <2>1 DEF ProtectDone
  <2>3. CASE pCur[t] = nullptr
    BY ZenonT(60), <2>2, <2>3, ReleaseOne
  <2>4. CASE pCur[t] # nullptr
    <3>1. PICK o \in Obj : o = pCur[t] /\ mem[o] = "linked"
      BY <1>9, <1>a, <2>4 DEF ProtectDone, Cells, Ptr
    <3>2. hazards[r][k] = o
      BY <1>9, <1>a, <2>1, <3>1 DEF ProtectDone, Guards
    <3>3. Protects' = [Protects EXCEPT ![<<r, k>>] = o]
      <4>1. o = IF valid'[r][k] THEN hazards'[r][k] ELSE nullptr
        BY <2>2, <2>4, <3>2
      <4>2. \A s \in Rec, i \in Slot : ~ (s = r /\ i = k) => hazards'[s][i] = hazards[s][i] /\ valid'[s][i] = valid[s][i]
        BY <2>2
      <4>3. Protects' = [Protects EXCEPT ![<<r, k>>] = IF valid'[r][k] THEN hazards'[r][k] ELSE nullptr]
        BY <4>2, ProtectsChange
      <4>. QED BY <4>1, <4>3
    <3>6. SMR!Protect(<<r, k>>, o)
      BY <2>2, <3>1, <3>3 DEF SMR!Protect
    <3>. QED BY <3>6 DEF SMR!Next
  <2>. QED BY <2>3, <2>4
<1>10. ASSUME NEW t \in Thread, NEW k \in Slot, Clear(t, k) PROVE SMR!Next
  <2>1. PICK r \in Rec : r = rec[t]
    BY <1>10, <1>a DEF Clear
  <2>2. /\ \A s \in Rec, i \in Slot : ~ (s = r /\ i = k) => hazards'[s][i] = hazards[s][i] /\ valid'[s][i] = valid[s][i]
        /\ ~ valid'[r][k]
        /\ mem' = mem
    BY <1>10, <1>a, <2>1 DEF Clear
  <2>. QED BY <2>2, ReleaseOne
<1>11. ASSUME NEW t \in Thread, NEW q \in CopyPairs, Copy(t, q[1], q[2]) PROVE SMR!Next
  <2>a. PICK f \in Slot, k \in Slot : f = q[1] /\ k = q[2]
    BY ConstantsAssumption
  <2>1. PICK r \in Rec : r = rec[t]
    BY <1>11, <1>a DEF Copy
  <2>2. /\ \A s \in Rec, i \in Slot : ~ (s = r /\ i = k) => hazards'[s][i] = hazards[s][i] /\ valid'[s][i] = valid[s][i]
        /\ hazards'[r][k] = hazards[r][f] /\ valid'[r][k] = valid[r][f]
        /\ mem' = mem
    BY <1>11, <1>a, <2>a, <2>1 DEF Copy
  <2>3. Protects[<<r, f>>] = IF valid'[r][k] THEN hazards'[r][k] ELSE nullptr
    BY <2>2 DEF Protects
  <2>5. Protects' = [Protects EXCEPT ![<<r, k>>] = Protects[<<r, f>>]]
    <3>1. Protects' = [Protects EXCEPT ![<<r, k>>] = IF valid'[r][k] THEN hazards'[r][k] ELSE nullptr]
      BY <2>2, ProtectsChange
    <3>. QED BY <2>3, <3>1
  <2>6. SMR!Copy(<<r, f>>, <<r, k>>)
    BY <2>2, <2>5 DEF SMR!Copy
  <2>. QED BY <2>6 DEF SMR!Next
<1>12. ASSUME NEW t \in Thread, Detach(t) PROVE SMR!Next
  <2>1. PICK r \in Rec : r = rec[t]
    BY <1>12, <1>a DEF Detach
  <2>2. /\ \A s \in Rec, i \in Slot : ~ (s = r /\ i \in Slot) => hazards'[s][i] = hazards[s][i] /\ valid'[s][i] = valid[s][i]
        /\ \A i \in Slot : ~ valid'[r][i]
        /\ mem' = mem
    BY <1>12, <1>a, <2>1 DEF Detach
  <2>. QED BY <2>2, ReleaseStep
<1>. QED
  BY <1>1, <1>2, <1>3, <1>4, <1>5, <1>6, <1>7, <1>8, <1>9, <1>10, <1>11, <1>12, StepKinds, MemSteps

\* gc::HP gives the containers the reclamation they are written against.
THEOREM Refinement == SafeUse /\ Spec => ImplementsSMR
<1>1. Init => SMR!Init
  BY ProtectsInit
<1>. QED BY <1>1, SafeInvAlways, StepSimulation, PTL DEF Spec, ImplementsSMR, SMR!Spec
=============================================================================
