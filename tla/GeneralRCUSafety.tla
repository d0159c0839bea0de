-------------------------- MODULE GeneralRCUSafety --------------------------
(* The proofs about GeneralRCU, in two layers.

   Where everything is: what the kinds of steps leave alone, records and their owners
   (Own), read-side sections (Sections), who holds m_Lock and what the reclamation thread
   does (Control).  An object that is retired is in the hands of one thread or in one cell
   of m_Buffer (Placed), and the local variables of push_buffer and clear_buffer are what
   their names say (Hands).

   The grace period: an object gets its epoch when its chain is retired, synchronize()
   counts one when it begins, and the reclamation thread is told only the epoch of a
   synchronize() that has waited (Epochs).  An object that a synchronize() must wait for is
   held only by sections whose control bit shows it (Staged), so that what its caller frees
   when it returns, and what the reclamation thread is told to free, is held by nobody
   (Returned, Passed).  The theorems, and the refinement of SafeReclamation. *)
EXTENDS GeneralRCU, TLAPS

\* The provers to try, in this order.
USE Zenon, SMT

-----------------------------------------------------------------------------
(* The kinds of steps *)

\* attach_thread and detach_thread.
RecordStep(t) == Attach(t) \/ AttachSkip(t) \/ AttachReuse(t) \/ AttachNew(t) \/ Detach(t)

\* access_lock, access_unlock and what a reader does between them.
AccessStep(t) ==
  \/ AccessLoad(t) \/ AccessStore(t) \/ AccessNested(t) \/ AccessUnlock(t)
  \/ \E o \in Obj : Read(t, o)

\* synchronize() up to the return of flip_and_wait.
PeriodStep(t) ==
  \/ \E b \in BOOLEAN : Synchronize(t, b)
  \/ SyncEpoch(t) \/ SyncLock(t) \/ Flip(t) \/ Wait(t) \/ WaitAgain(t) \/ SyncUnlock(t)

\* dispose() of dispose_thread.
DisposeStep(t) == DisposeSleep(t) \/ DisposeGive(t) \/ DisposeAwaited(t)

\* The thread goes on, and every pointer stays where it is.
TurnStep(t) == RetireDone(t) \/ Return(t) \/ ClearKeep(t) \/ ClearEmpty(t)

\* A pointer goes from one place to another, or is freed.
HandStep(t) ==
  \/ RetireInstant(t) \/ RetireEpoch(t) \/ PushBuffer(t) \/ PushFails(t)
  \/ ClearPop(t) \/ ClearFree(t)
  \/ \E o \in Obj : RetireNext(t, o) \/ ReturnFree(t, o)

\* The loop of the reclamation thread, up to the disposer.
MailStep == ExecuteReady \/ ExecuteNotify \/ ExecuteTake \/ ExecutePassed

\* The steps, sorted by what they change.
Kinds ==
  \/ \E t \in Thread : \/ RecordStep(t) \/ AccessStep(t) \/ PeriodStep(t) \/ DisposeStep(t)
                       \/ TurnStep(t) \/ HandStep(t)
                       \/ \E o \in Obj : Link(t, o) \/ Unlink(t, o)
  \/ MailStep \/ ExecuteFree \/ Destruct
  \/ UNCHANGED vars

\* There are no other steps.
LEMMA StepKinds == [Next]_vars => Kinds
  BY DEF Kinds, Next, ClientStep, RetireStep, SyncStep, GraceStep, Execute,
     RecordStep, AccessStep, PeriodStep, DisposeStep, TurnStep, HandStep, MailStep

\* What thread t does to the places in the program: it goes from a label of F to one
\* of T, and everybody else stays.
Goes(t, F, T) ==
  /\ pc' \in [Thread -> Labels]
  /\ \A u \in Thread \ {t} : pc'[u] = pc[u]
  /\ pc[t] \in F /\ pc'[t] \in T

\* Attaching and detaching.
LEMMA RecordSteps ==
  ASSUME pc \in [Thread -> Labels], NEW t \in Thread, RecordStep(t)
  PROVE  /\ UNCHANGED <<inst, gpVars, accessVars, memVars, retireVars, syncVars, mailVars, dispVars, buf, word>>
         /\ Goes(t, {"detached", "attach", "idle"}, {"detached", "attach", "idle"})
         /\ pc[t] = "idle" => ~InSection(t) /\ todo[t] = {}
<1> USE DEF RecordStep, Attach, AttachSkip, AttachReuse, AttachNew, Detach
<1>1. UNCHANGED <<inst, gpVars, accessVars, memVars, retireVars, syncVars, mailVars, dispVars, buf, word>>
  BY SMT
<1>2. Goes(t, {"detached", "attach", "idle"}, {"detached", "attach", "idle"})
  BY SMT DEF Goes, Goto, Labels
<1>3. pc[t] = "idle" => ~InSection(t) /\ todo[t] = {}
  BY SMT
<1>. QED
  BY <1>1, <1>2, <1>3

\* Entering, leaving and reading in a section.
LEMMA AccessSteps ==
  ASSUME pc \in [Thread -> Labels], NEW t \in Thread, AccessStep(t)
  PROVE  /\ UNCHANGED <<inst, gpVars, recVars, mem, retireVars, syncVars, mailVars, dispVars, buf, node>>
         /\ Goes(t, {"idle", "access"}, {"idle", "access"})
<1> USE DEF AccessStep, AccessLoad, AccessStore, AccessNested, AccessUnlock, Read
<1>1. UNCHANGED <<inst, gpVars, recVars, mem, retireVars, syncVars, mailVars, dispVars, buf, node>>
  BY SMT DEF memVars
<1>2. Goes(t, {"idle", "access"}, {"idle", "access"})
  BY SMT DEF Goes, Goto, Labels
<1>. QED
  BY <1>1, <1>2

\* The grace period.
LEMMA PeriodSteps ==
  ASSUME pc \in [Thread -> Labels], NEW t \in Thread, PeriodStep(t)
  PROVE  /\ UNCHANGED <<inst, accessVars, recVars, memVars, retireVars, mailVars, dispVars, buf, word>>
         /\ Goes(t, {"idle", "sync", "mutex", "flip", "wait"},
                    {"sync", "mutex", "flip", "wait", "return", "clear", "dispose"})
         /\ pc[t] = "idle" => ~InSection(t) /\ todo[t] = {}
<1> USE DEF PeriodStep, Synchronize, SyncEpoch, SyncLock, Flip, Wait, WaitAgain, SyncUnlock
<1>1. UNCHANGED <<inst, accessVars, recVars, memVars, retireVars, mailVars, dispVars, buf, word>>
  BY SMT
<1>2. Goes(t, {"idle", "sync", "mutex", "flip", "wait"}, {"sync", "mutex", "flip", "wait", "return", "clear", "dispose"})
  BY SMT DEF Goes, Goto, Labels, AfterSync
<1>3. pc[t] = "idle" => ~InSection(t) /\ todo[t] = {}
  BY SMT
<1>. QED
  BY <1>1, <1>2, <1>3

\* dispose().
LEMMA DisposeSteps ==
  ASSUME pc \in [Thread -> Labels], NEW t \in Thread, DisposeStep(t)
  PROVE  /\ UNCHANGED <<inst, gpVars, accessVars, recVars, memVars, retireVars, flips, nEpoch, dispVars, buf, node, word>>
         /\ \/ Goes(t, {"dispose"}, {"asleep", "await", "return"})
            \/ Goes(t, {"await"}, {"dozing", "return"})
<1> USE DEF DisposeStep, DisposeSleep, DisposeGive, DisposeAwaited
<1>1. UNCHANGED <<inst, gpVars, accessVars, recVars, memVars, retireVars, flips, nEpoch, dispVars, buf, node, word>>
  BY SMT DEF syncVars
<1>2. Goes(t, {"dispose"}, {"asleep", "await", "return"}) \/ Goes(t, {"await"}, {"dozing", "return"})
  BY SMT DEF Goes, Goto, Labels
<1>. QED
  BY <1>1, <1>2

\* The steps of retire_ptr and clear_buffer between those that move a pointer.
LEMMA TurnSteps ==
  ASSUME pc \in [Thread -> Labels], NEW t \in Thread, TurnStep(t)
  PROVE  /\ UNCHANGED <<inst, gpVars, accessVars, recVars, memVars, retireVars, flips, bSync, mailVars, dispVars, buf, node, word>>
         /\ \/ Goes(t, {"next"}, {"idle"}) /\ todo[t] = {}
            \/ Goes(t, {"return"}, {"next"}) /\ unpushed[t] = {} /\ nEpoch' = nEpoch
            \/ Goes(t, {"popped"}, {"push"}) /\ nEpoch' = nEpoch
            \/ Goes(t, {"clear"}, {"return"}) /\ nEpoch' = nEpoch
<1> USE DEF TurnStep, RetireDone, Return, ClearKeep, ClearEmpty
<1>1. UNCHANGED <<inst, gpVars, accessVars, recVars, memVars, retireVars, flips, bSync, mailVars, dispVars, buf, node, word>>
  BY SMT DEF syncVars
<1>2. \/ Goes(t, {"next"}, {"idle"}) /\ todo[t] = {}
      \/ Goes(t, {"return"}, {"next"}) /\ unpushed[t] = {} /\ nEpoch' = nEpoch
      \/ Goes(t, {"popped"}, {"push"}) /\ nEpoch' = nEpoch
      \/ Goes(t, {"clear"}, {"return"}) /\ nEpoch' = nEpoch
  BY SMT DEF Goes, Goto, Labels, syncVars
<1>. QED
  BY <1>1, <1>2

\* The steps that move a pointer.
LEMMA HandSteps ==
  ASSUME pc \in [Thread -> Labels], NEW t \in Thread, HandStep(t)
  PROVE  /\ UNCHANGED <<inst, gpVars, accessVars, recVars, hold, syncVars, mailVars, dispVars, node, word>>
         /\ \/ Goes(t, {"idle"}, {"sync", "next"}) /\ ~InSection(t)
            \/ Goes(t, {"next", "push", "return"}, {"push", "return", "sync"})
            \/ Goes(t, {"clear", "popped"}, {"clear", "popped"})
<1> DEFINE Quiet == UNCHANGED <<inst, gpVars, accessVars, recVars, hold, syncVars, mailVars, dispVars, node, word>>
           Moves == \/ Goes(t, {"idle"}, {"sync", "next"}) /\ ~InSection(t)
                    \/ Goes(t, {"next", "push", "return"}, {"push", "return", "sync"})
                    \/ Goes(t, {"clear", "popped"}, {"clear", "popped"})
<1>1. ASSUME RetireInstant(t) \/ RetireEpoch(t) PROVE Quiet /\ Moves
  BY SMT, <1>1 DEF RetireInstant, RetireEpoch, memVars, Goes, Goto, Labels
<1>2. ASSUME PushBuffer(t) \/ PushFails(t) PROVE Quiet /\ Moves
  BY SMT, <1>2 DEF PushBuffer, PushFails, memVars, Goes, Goto, Labels
<1>3. ASSUME ClearPop(t) \/ ClearFree(t) PROVE Quiet /\ Moves
  BY SMT, <1>3 DEF ClearPop, ClearFree, memVars, Goes, Goto, Labels
<1>4. ASSUME NEW o \in Obj, RetireNext(t, o) \/ ReturnFree(t, o) PROVE Quiet /\ Moves
  BY SMT, <1>4 DEF RetireNext, ReturnFree, memVars, Goes, Goto, Labels
<1> HIDE DEF Quiet, Moves
<1>5. Quiet /\ Moves
  BY <1>1, <1>2, <1>3, <1>4 DEF HandStep
<1>. QED
  BY <1>5 DEF Quiet, Moves

\* The reclamation thread, between two disposals.
LEMMA MailSteps ==
  ASSUME pc \in [Thread -> Labels], MailStep
  PROVE  /\ UNCHANGED <<inst, gpVars, accessVars, recVars, memVars, retireVars, syncVars, buf, node, word>>
         /\ \/ pc' = pc
            \/ \E t \in Thread : Goes(t, {"asleep"}, {"dispose"}) \/ Goes(t, {"dozing"}, {"await"})
<1> USE DEF MailStep, ExecuteReady, ExecuteNotify, ExecuteTake, ExecutePassed
<1>1. UNCHANGED <<inst, gpVars, accessVars, recVars, memVars, retireVars, syncVars, buf, node, word>>
  BY SMT
<1>2. \/ pc' = pc
      \/ \E t \in Thread : Goes(t, {"asleep"}, {"dispose"}) \/ Goes(t, {"dozing"}, {"await"})
  BY SMT DEF Goes, Goto, Labels
<1>. QED
  BY <1>1, <1>2

-----------------------------------------------------------------------------
(* Records and their owners *)

\* A record belongs to at most one thread, and is on the list.
Own ==
  /\ pc \in [Thread -> Labels]
  /\ list \in 0 .. MaxRecords
  /\ owner \in [Rec -> Thread \cup {none}]
  /\ rec \in [Thread -> 0 .. list]
  /\ node \in [Thread -> 0 .. list]
  /\ \A t \in Thread : rec[t] = 0 <=> pc[t] \in {"detached", "attach"}
  /\ \A t \in Thread : rec[t] # 0 => owner[rec[t]] = t
  /\ \A r \in Rec : owner[r] # none => rec[owner[r]] = r
  /\ \A r \in Rec : r > list => owner[r] = none
  /\ \A t \in Thread : pc[t] \notin {"attach", "wait"} => node[t] = 0

\* No thread is attached at the start.
LEMMA OwnInit == Init => Own
  BY SMT, ConstantsAssumption DEF Init, Own, Labels, Rec

\* Who moves, moves between labels that are not in S.
Outside(S) == \A u \in Thread : pc'[u] = pc[u] \/ (pc[u] \notin S /\ pc'[u] \notin S)

\* Own says nothing of the places in the program but these three.
LEMMA OwnQuiet ==
  ASSUME Own, pc' \in [Thread -> Labels], Outside({"detached", "attach", "wait"}), UNCHANGED <<recVars, node>>
  PROVE  Own'
  BY DEF Own, Outside, recVars

\* Each step preserves who owns which record.
LEMMA OwnNext == Own /\ [Next]_vars => Own'
<1> SUFFICES ASSUME Own, Kinds PROVE Own'
  BY StepKinds
<1>0. pc \in [Thread -> Labels]
  BY DEF Own
<1>1. ASSUME NEW t \in Thread, RecordStep(t) PROVE Own'
  <2>1. CASE Attach(t)
    BY SMT, <2>1, ConstantsAssumption DEF Attach, Own, Labels, Rec, Goto, recVars
  <2>2. CASE AttachSkip(t)
    BY SMT, <2>2, ConstantsAssumption DEF AttachSkip, Own, Labels, Rec, Goto, recVars
  <2>3. CASE AttachReuse(t)
    BY SMT, <2>3, ConstantsAssumption DEF AttachReuse, Own, Labels, Rec, Goto, recVars
  <2>4. CASE AttachNew(t)
    BY SMT, <2>4, ConstantsAssumption DEF AttachNew, Own, Labels, Rec, Goto, recVars
  <2>5. CASE Detach(t)
    BY SMT, <2>5, ConstantsAssumption DEF Detach, Own, Labels, Rec, Goto, recVars
  <2>. QED
    BY <1>1, <2>1, <2>2, <2>3, <2>4, <2>5 DEF RecordStep
<1>2. ASSUME NEW t \in Thread, AccessStep(t) PROVE Own'
  <2>1. pc' \in [Thread -> Labels] /\ Outside({"detached", "attach", "wait"})
    BY <1>0, <1>2, AccessSteps DEF Goes, Outside
  <2>. QED
    BY <1>0, <1>2, <2>1, AccessSteps, OwnQuiet
<1>3. ASSUME NEW t \in Thread, PeriodStep(t) PROVE Own'
  <2>1. ASSUME NEW b \in BOOLEAN, Synchronize(t, b) PROVE Own'
    BY <2>1, ConstantsAssumption DEF Synchronize, Own, Labels, Goto, recVars
  <2>2. CASE SyncEpoch(t)
    BY <2>2, ConstantsAssumption DEF SyncEpoch, Own, Labels, Goto, recVars
  <2>3. CASE SyncLock(t)
    BY <2>3, ConstantsAssumption DEF SyncLock, Own, Labels, Goto, recVars
  <2>4. CASE Flip(t)
    BY SMT, <2>4, ConstantsAssumption DEF Flip, Own, Labels, Goto, recVars
  <2>5. CASE Wait(t)
    BY SMT, <2>5, ConstantsAssumption DEF Wait, Own, Labels, Goto, recVars
  <2>6. CASE WaitAgain(t)
    BY <2>6, ConstantsAssumption DEF WaitAgain, Own, Labels, Goto, recVars
  <2>7. CASE SyncUnlock(t)
    BY <2>7, ConstantsAssumption DEF SyncUnlock, AfterSync, Own, Labels, Goto, recVars
  <2>. QED
    BY <1>3, <2>1, <2>2, <2>3, <2>4, <2>5, <2>6, <2>7 DEF PeriodStep
<1>4. ASSUME NEW t \in Thread, DisposeStep(t) PROVE Own'
  <2>1. pc' \in [Thread -> Labels] /\ Outside({"detached", "attach", "wait"})
    BY <1>0, <1>4, DisposeSteps DEF Goes, Outside
  <2>. QED
    BY <1>0, <1>4, <2>1, DisposeSteps, OwnQuiet
<1>5. ASSUME NEW t \in Thread, TurnStep(t) PROVE Own'
  <2>1. pc' \in [Thread -> Labels] /\ Outside({"detached", "attach", "wait"})
    BY <1>0, <1>5, TurnSteps DEF Goes, Outside
  <2>. QED
    BY <1>0, <1>5, <2>1, TurnSteps, OwnQuiet
<1>6. ASSUME NEW t \in Thread, HandStep(t) PROVE Own'
  <2>1. pc' \in [Thread -> Labels] /\ Outside({"detached", "attach", "wait"})
    BY <1>0, <1>6, HandSteps DEF Goes, Outside
  <2>. QED
    BY <1>0, <1>6, <2>1, HandSteps, OwnQuiet
<1>7. ASSUME NEW t \in Thread, NEW o \in Obj, Link(t, o) \/ Unlink(t, o) PROVE Own'
  BY <1>0, <1>7, OwnQuiet DEF Link, Unlink, Outside
<1>8. CASE MailStep
  <2>1. pc' \in [Thread -> Labels] /\ Outside({"detached", "attach", "wait"})
    BY <1>0, <1>8, MailSteps DEF Goes, Outside
  <2>. QED
    BY <1>0, <1>8, <2>1, MailSteps, OwnQuiet
<1>9. CASE ExecuteFree
  BY <1>0, <1>9, OwnQuiet DEF ExecuteFree, Outside
<1>10. CASE Destruct
  <2>1. \A t \in Thread : rec[t] = 0 /\ node[t] = 0
    BY <1>10 DEF Destruct, Own
  <2>2. rec' = rec /\ node' = node /\ owner' = owner /\ pc' = pc /\ list' = 0
    BY <1>10 DEF Destruct, Own
  <2>3. rec' \in [Thread -> 0 .. list'] /\ node' \in [Thread -> 0 .. list']
    BY SMT, <2>1, <2>2 DEF Own
  <2>4. \A r \in Rec : owner[r] = none
    BY SMT, <2>1, ConstantsAssumption DEF Rec, Own
  <2>. QED
    BY SMT, <2>1, <2>2, <2>3, <2>4, ConstantsAssumption DEF Own
<1>11. CASE UNCHANGED vars
  BY <1>0, <1>11, OwnQuiet DEF vars, Outside
<1>. QED
  BY <1>1, <1>2, <1>3, <1>4, <1>5, <1>6, <1>7, <1>8, <1>9, <1>10, <1>11 DEF Kinds

-----------------------------------------------------------------------------
(* Read-side sections *)

\* A thread holds objects only in a section, and the nesting in its record says so.
Sections ==
  /\ inst \in Instances
  /\ nest \in [Rec -> 0 .. inst.nests]
  /\ ctl \in [Rec -> 0 .. 1]
  /\ word \in [Thread -> 0 .. 1]
  /\ bit \in 0 .. 1
  /\ hold \in [Thread -> SUBSET Obj]
  /\ \A r \in Rec : nest[r] > 0 => owner[r] # none /\ pc[owner[r]] = "idle"
  /\ \A t \in Thread : hold[t] # {} => rec[t] # 0 /\ nest[rec[t]] > 0

\* Every instance allows at least one section per thread.
LEMMA NestsPositive == \A i \in Instances : i.nests \in Nat \ {0}
  BY ConstantsAssumption

\* No section is open at the start.
LEMMA SectionsInit == Init => Sections
  BY SMT, NestsPositive DEF Init, Sections

\* Who is in a section does not leave the client's code.
Resident == \A u \in Thread : pc[u] = "idle" /\ InSection(u) => pc'[u] = "idle"

\* What Sections speaks of.
LEMMA SectionsMoves ==
  ASSUME Own, Sections, Resident, bit' = bit \/ bit' = 1 - bit, word' \in [Thread -> 0 .. 1],
         UNCHANGED <<inst, accessVars, hold>>,
         \A u \in Thread : InSection(u) => rec'[u] = rec[u],
         \A r \in Rec : nest[r] > 0 => owner'[r] = owner[r]
  PROVE  Sections'
<1>1. \A r \in Rec : nest[r] > 0 => owner[r] \in Thread /\ InSection(owner[r])
  BY SMTT(40), ConstantsAssumption DEF Own, Sections, InSection, Rec
<1>2. /\ \A r \in Rec : nest[r] > 0 => owner[r] # none /\ pc[owner[r]] = "idle"
      /\ \A t \in Thread : hold[t] # {} => rec[t] # 0 /\ nest[rec[t]] > 0
  BY DEF Sections
<1>3. inst' = inst /\ nest' = nest /\ ctl' = ctl /\ hold' = hold
  BY DEF accessVars
<1>4. bit' \in 0 .. 1
  BY SMT DEF Sections
<1>5. \A r \in Rec : nest'[r] > 0 => owner'[r] # none /\ pc'[owner'[r]] = "idle"
  BY <1>1, <1>2, <1>3 DEF Resident
<1>6. \A t \in Thread : hold'[t] # {} => rec'[t] # 0 /\ nest'[rec'[t]] > 0
  BY <1>2, <1>3 DEF InSection
<1>. QED
  BY <1>3, <1>4, <1>5, <1>6 DEF Sections

\* The same when no record changes hands.
LEMMA SectionsQuiet ==
  ASSUME Own, Sections, Resident, bit' = bit \/ bit' = 1 - bit,
         UNCHANGED <<inst, accessVars, word, hold, owner, rec>>
  PROVE  Sections'
  BY SectionsMoves DEF Sections

\* A thread reads objects in its section only, and a section is open only while its
\* thread runs the client's code.
LEMMA SectionsNext == Own /\ Sections /\ [Next]_vars => Sections'
<1> SUFFICES ASSUME Own, Sections, Kinds PROVE Sections'
  BY StepKinds
<1>0. pc \in [Thread -> Labels]
  BY DEF Own
<1>1. ASSUME NEW t \in Thread, RecordStep(t) PROVE Sections'
  <2>0. /\ UNCHANGED <<inst, accessVars, hold, bit>> /\ word' \in [Thread -> 0 .. 1]
        /\ Resident
    <3>1. UNCHANGED <<inst, accessVars, hold, bit, word>>
      BY <1>0, <1>1, RecordSteps DEF memVars, gpVars
    <3>2. Resident
      BY <1>0, <1>1, RecordSteps DEF Goes, Resident
    <3>. QED
      BY <3>1, <3>2 DEF Sections
  <2>a. \A r \in Rec : owner[r] = none => ~(nest[r] > 0)
    BY DEF Sections
  <2>b. rec \in [Thread -> 0 .. list] /\ owner \in [Rec -> Thread \cup {none}] /\ list \in Nat
    BY SMT, ConstantsAssumption DEF Own
  <2>1. CASE Attach(t) \/ AttachSkip(t)
    BY <2>0, <2>1, SectionsMoves DEF Attach, AttachSkip, recVars
  <2>2. CASE AttachReuse(t)
    <3>1. rec[t] = 0 /\ owner[node[t]] = none
      BY <2>2 DEF AttachReuse, Own
    <3>2. \A u \in Thread : InSection(u) => rec'[u] = rec[u]
      BY <2>2, <2>b, <3>1 DEF AttachReuse, InSection
    <3>3. \A r \in Rec : nest[r] > 0 => owner'[r] = owner[r]
      BY <2>2, <2>a, <2>b, <3>1 DEF AttachReuse
    <3>. QED
      BY <2>0, <3>2, <3>3, SectionsMoves
  <2>3. CASE AttachNew(t)
    <3>1. rec[t] = 0 /\ (list + 1 \in Rec => owner[list + 1] = none)
      BY SMT, <2>3, <2>b DEF AttachNew, Own
    <3>2. \A u \in Thread : InSection(u) => rec'[u] = rec[u]
      BY <2>3, <2>b, <3>1 DEF AttachNew, InSection
    <3>3. \A r \in Rec : nest[r] > 0 => owner'[r] = owner[r]
      BY <2>3, <2>a, <2>b, <3>1 DEF AttachNew
    <3>. QED
      BY <2>0, <3>2, <3>3, SectionsMoves
  <2>4. CASE Detach(t)
    <3>1. ~InSection(t)
      BY <2>4 DEF Detach
    <3>2. \A u \in Thread : InSection(u) => rec'[u] = rec[u]
      BY <2>4, <2>b, <3>1 DEF Detach
    <3>3. \A r \in Rec : nest[r] > 0 => owner'[r] = owner[r]
      <4>1. rec[t] # 0
        BY <2>4 DEF Detach, Own
      <4>. QED
        BY <2>4, <2>b, <3>1, <4>1 DEF Detach, InSection
    <3>. QED
      BY <2>0, <3>2, <3>3, SectionsMoves
  <2>. QED
    BY <1>1, <2>1, <2>2, <2>3, <2>4 DEF RecordStep
<1>2. ASSUME NEW t \in Thread, AccessStep(t) PROVE Sections'
  <2>1. CASE AccessLoad(t)
    <3>1. UNCHANGED <<inst, accessVars, hold, bit, owner, rec>> /\ ~InSection(t)
      BY <2>1 DEF AccessLoad, memVars, gpVars, recVars
    <3>2. word' \in [Thread -> 0 .. 1]
      BY <2>1 DEF AccessLoad, Sections
    <3>3. Resident
      BY <1>0, <2>1 DEF AccessLoad, Resident, Goto
    <3>. QED
      BY <3>1, <3>2, <3>3, SectionsMoves
  <2>2. CASE AccessStore(t)
    BY SMTT(40), <2>2, ConstantsAssumption, NestsPositive DEF AccessStore, Own, Sections, Rec, Goto, InSection, accessVars, gpVars, memVars, recVars
  <2>3. CASE AccessNested(t)
    BY SMTT(40), <2>3, ConstantsAssumption, NestsPositive DEF AccessNested, Own, Sections, Rec, Goto, InSection, accessVars, gpVars, memVars, recVars
  <2>4. CASE AccessUnlock(t)
    <3>0. /\ nest \in [Rec -> 0 .. inst.nests] /\ ctl \in [Rec -> 0 .. 1] /\ hold \in [Thread -> SUBSET Obj]
          /\ inst.nests \in Nat
      BY NestsPositive DEF Sections
    <3>1. rec[t] \in Rec /\ nest[rec[t]] > 0 /\ owner[rec[t]] = t /\ pc[t] = "idle"
      BY SMT, <2>4, ConstantsAssumption DEF AccessUnlock, InSection, Own, Rec
    <3>2. /\ nest' = [nest EXCEPT ![rec[t]] = @ - 1]
          /\ ctl' = [ctl EXCEPT ![rec[t]] = IF nest[rec[t]] = 1 THEN 0 ELSE @]
          /\ hold' = [hold EXCEPT ![t] = IF nest[rec[t]] = 1 THEN {} ELSE @]
          /\ UNCHANGED <<inst, word, bit, owner, pc, rec>>
      BY <2>4 DEF AccessUnlock, gpVars, recVars
    <3>3. nest' \in [Rec -> 0 .. inst.nests] /\ nest'[rec[t]] = nest[rec[t]] - 1
      BY SMT, <3>0, <3>1, <3>2
    <3>4. ctl' \in [Rec -> 0 .. 1] /\ hold' \in [Thread -> SUBSET Obj]
      BY SMT, <3>0, <3>1, <3>2
    <3>5. ASSUME NEW r \in Rec, nest'[r] > 0 PROVE owner[r] # none /\ pc[owner[r]] = "idle"
      <4>1. r # rec[t] => nest[r] > 0
        BY <3>0, <3>2, <3>5
      <4>2. owner[rec[t]] # none
        BY <3>1, ConstantsAssumption
      <4>3. nest[r] > 0 => owner[r] # none /\ pc[owner[r]] = "idle"
        BY DEF Sections
      <4>. QED
        BY <3>1, <4>1, <4>2, <4>3
    <3>6. ASSUME NEW u \in Thread, hold'[u] # {} PROVE rec[u] # 0 /\ nest'[rec[u]] > 0
      <4>1. CASE u = t
        BY SMT, <3>0, <3>1, <3>2, <3>3, <3>6, <4>1, ConstantsAssumption DEF Rec
      <4>2. CASE u # t
        <5>0. hold[u] # {}
          BY <3>0, <3>2, <3>6, <4>2
        <5>a. rec[u] # 0 /\ nest[rec[u]] > 0
          BY <5>0 DEF Sections
        <5>b. rec[u] \in Rec /\ owner[rec[u]] = u
          BY SMT, <5>a, ConstantsAssumption DEF Own, Rec
        <5>1. rec[u] \in Rec /\ nest[rec[u]] > 0 /\ rec[u] # rec[t]
          BY <3>1, <4>2, <5>a, <5>b
        <5>. QED
          BY SMT, <3>0, <3>1, <3>2, <5>1, ConstantsAssumption DEF Rec
      <4>. QED
        BY <4>1, <4>2
    <3>. QED
      BY <3>2, <3>3, <3>4, <3>5, <3>6 DEF Sections
  <2>5. ASSUME NEW o \in Obj, Read(t, o) PROVE Sections'
    BY SMTT(40), <2>5, ConstantsAssumption, NestsPositive DEF Read, Own, Sections, Rec, Goto, InSection, accessVars, gpVars, memVars, recVars
  <2>. QED
    BY <1>2, <2>1, <2>2, <2>3, <2>4, <2>5 DEF AccessStep
<1>3. ASSUME NEW t \in Thread, PeriodStep(t) PROVE Sections'
  <2>1. Resident /\ UNCHANGED <<inst, accessVars, word, hold, owner, rec>>
    BY <1>0, <1>3, PeriodSteps DEF Resident, Goes, memVars, recVars
  <2>2. bit' = bit \/ bit' = 1 - bit
    BY <1>3 DEF PeriodStep, Synchronize, SyncEpoch, SyncLock, Flip, Wait, WaitAgain, SyncUnlock, gpVars
  <2>. QED
    BY <2>1, <2>2, SectionsQuiet
<1>4. ASSUME NEW t \in Thread, DisposeStep(t) PROVE Sections'
  <2>1. Resident /\ UNCHANGED <<inst, accessVars, word, bit, hold, owner, rec>>
    BY <1>0, <1>4, DisposeSteps DEF Resident, Goes, gpVars, memVars, recVars
  <2>. QED
    BY <2>1, SectionsQuiet
<1>5. ASSUME NEW t \in Thread, TurnStep(t) PROVE Sections'
  <2>1. Resident /\ UNCHANGED <<inst, accessVars, word, bit, hold, owner, rec>>
    BY <1>0, <1>5, TurnSteps DEF Resident, Goes, gpVars, memVars, recVars
  <2>. QED
    BY <2>1, SectionsQuiet
<1>6. ASSUME NEW t \in Thread, HandStep(t) PROVE Sections'
  <2>1. Resident /\ UNCHANGED <<inst, accessVars, word, bit, hold, owner, rec>>
    BY <1>0, <1>6, HandSteps DEF Resident, Goes, gpVars, recVars
  <2>. QED
    BY <2>1, SectionsQuiet
<1>7. ASSUME NEW t \in Thread, NEW o \in Obj, Link(t, o) \/ Unlink(t, o) PROVE Sections'
  BY <1>0, <1>7, SectionsQuiet DEF Link, Unlink, Resident, gpVars, recVars
<1>8. CASE MailStep
  <2>1. Resident /\ UNCHANGED <<inst, accessVars, word, bit, hold, owner, rec>>
    BY <1>0, <1>8, MailSteps DEF Resident, Goes, gpVars, memVars, recVars
  <2>. QED
    BY <2>1, SectionsQuiet
<1>9. CASE ExecuteFree
  BY <1>0, <1>9, SectionsQuiet DEF ExecuteFree, Resident, gpVars, recVars
<1>10. CASE Destruct
  BY SMT, <1>10, ConstantsAssumption DEF Destruct, Sections, Own, accessVars
<1>11. CASE UNCHANGED vars
  BY <1>0, <1>11, SectionsQuiet DEF vars, Resident, gpVars, memVars, recVars
<1>. QED
  BY <1>1, <1>2, <1>3, <1>4, <1>5, <1>6, <1>7, <1>8, <1>9, <1>10, <1>11 DEF Kinds

-----------------------------------------------------------------------------
(* The lock, and the reclamation thread *)

\* Where a thread of the scheme can be.
Suits(t) ==
  /\ pc[t] \in {"clear", "popped"} => inst.scheme = "buffered"
  /\ pc[t] \in {"mutex", "dispose", "asleep", "await", "dozing"} => inst.scheme = "threaded"
  /\ pc[t] = "push" => inst.scheme # "instant"
  /\ inst.scheme = "instant" /\ pc[t] \notin {"idle", "access"} => todo[t] = {}

\* Who is in flip_and_wait has m_Lock, and has flipped as often as it should have.
Control ==
  /\ inst.scheme \in {"instant", "buffered", "threaded"}
  /\ todo \in [Thread -> SUBSET Obj]
  /\ lock \in Thread \cup {none}
  /\ m_nCurEpoch \in Nat
  /\ flips \in [Thread -> 0 .. 2]
  /\ nEpoch \in [Thread -> Nat]
  /\ bSync \in [Thread -> BOOLEAN]
  /\ dpc \in {"start", "notify", "wait", "pass"}
  /\ m_bReady \in BOOLEAN /\ m_pBuffer \in BOOLEAN
  /\ task \in Nat /\ nCurEpoch \in Nat
  /\ \A t \in Thread : pc[t] \in {"flip", "wait"} <=> lock = t
  /\ \A t \in Thread : pc[t] \notin {"flip", "wait"} => flips[t] = 0
  /\ \A t \in Thread : pc[t] = "flip" => flips[t] < 2
  /\ \A t \in Thread : pc[t] = "wait" => flips[t] > 0
  /\ \A t \in Thread : Suits(t)
  /\ inst.scheme # "threaded" => dpc = "start"
  /\ m_bReady => dpc \in {"notify", "wait"} /\ ~m_pBuffer
  /\ m_pBuffer => dpc \in {"notify", "wait"}

\* Nobody holds m_Lock and the reclamation thread has not started.
LEMMA ControlInit == Init => Control
<1> SUFFICES ASSUME Init PROVE Control
  OBVIOUS
<1>1. inst.scheme \in {"instant", "buffered", "threaded"}
  BY ConstantsAssumption DEF Init
<1>2. m_nCurEpoch \in Nat
  BY DEF Init, FirstEpoch
<1>3. /\ todo \in [Thread -> SUBSET Obj] /\ lock \in Thread \cup {none}
      /\ flips \in [Thread -> 0 .. 2] /\ nEpoch \in [Thread -> Nat]
      /\ bSync \in [Thread -> BOOLEAN] /\ task \in Nat /\ nCurEpoch \in Nat
  BY SMT DEF Init
<1>4. /\ dpc = "start" /\ m_bReady = FALSE /\ m_pBuffer = FALSE
      /\ lock = none
      /\ \A t \in Thread : pc[t] = "detached" /\ flips[t] = 0 /\ todo[t] = {}
  BY DEF Init
<1>5. \A t \in Thread : lock # t
  BY <1>4, ConstantsAssumption
<1>. QED
  BY <1>1, <1>2, <1>3, <1>4, <1>5 DEF Control, Suits

\* Outside flip_and_wait and the mailbox, Control speaks of Suits only.
LEMMA ControlQuiet ==
  ASSUME Control, Outside({"flip", "wait"}), \A u \in Thread : Suits(u)',
         todo' \in [Thread -> SUBSET Obj], nEpoch' \in [Thread -> Nat], bSync' \in [Thread -> BOOLEAN],
         UNCHANGED <<inst, lock, m_nCurEpoch, flips, mailVars, dispVars>>
  PROVE  Control'
  BY DEF Control, Outside, mailVars, dispVars

\* The thread in flip_and_wait holds m_Lock, and the mailbox of the reclamation thread
\* is empty whenever it says it is ready.
LEMMA ControlNext == Own /\ Control /\ [Next]_vars => Control'
<1> SUFFICES ASSUME Own, Control, Kinds PROVE Control'
  BY StepKinds
<1>0. pc \in [Thread -> Labels]
  BY DEF Own
<1>a. /\ todo \in [Thread -> SUBSET Obj] /\ nEpoch \in [Thread -> Nat] /\ bSync \in [Thread -> BOOLEAN]
      /\ \A u \in Thread : Suits(u)
  BY DEF Control
<1>1. ASSUME NEW t \in Thread, RecordStep(t) PROVE Control'
  <2>1. UNCHANGED <<inst, lock, m_nCurEpoch, todo, nEpoch, bSync, flips, mailVars, dispVars>>
    BY <1>0, <1>1, RecordSteps DEF gpVars, retireVars, syncVars
  <2>2. Outside({"flip", "wait"})
    BY <1>0, <1>1, RecordSteps DEF Goes, Outside
  <2>3. \A u \in Thread : Suits(u)'
    BY <1>0, <1>1, <1>a, <2>1, RecordSteps DEF Goes, Suits
  <2>. QED
    BY <1>a, <2>1, <2>2, <2>3, ControlQuiet
<1>2. ASSUME NEW t \in Thread, AccessStep(t) PROVE Control'
  <2>1. UNCHANGED <<inst, lock, m_nCurEpoch, todo, nEpoch, bSync, flips, mailVars, dispVars>>
    BY <1>0, <1>2, AccessSteps DEF gpVars, retireVars, syncVars
  <2>2. Outside({"flip", "wait"})
    BY <1>0, <1>2, AccessSteps DEF Goes, Outside
  <2>3. \A u \in Thread : Suits(u)'
    BY <1>0, <1>2, <1>a, <2>1, AccessSteps DEF Goes, Suits
  <2>. QED
    BY <1>a, <2>1, <2>2, <2>3, ControlQuiet
<1>3. ASSUME NEW t \in Thread, PeriodStep(t) PROVE Control'
  <2>1. ASSUME NEW b \in BOOLEAN, Synchronize(t, b) PROVE Control'
    BY ZenonT(60), <2>1, <1>0, ConstantsAssumption DEF Synchronize, Control, Suits, Labels, scheme, Goto, gpVars, retireVars, syncVars, mailVars, dispVars
  <2>2. CASE SyncEpoch(t)
    BY SMT, <2>2, <1>0, ConstantsAssumption DEF SyncEpoch, FetchAddEpoch, Control, Suits, Labels, scheme, Goto, gpVars, retireVars, syncVars, mailVars, dispVars
  <2>3. CASE SyncLock(t)
    BY SMTT(40), <2>3, <1>0, ConstantsAssumption DEF SyncLock, FetchAddEpoch, Control, Suits, Labels, scheme, Goto, gpVars, retireVars, syncVars, mailVars, dispVars
  <2>4. CASE Flip(t)
    BY SMT, <2>4, <1>0, ConstantsAssumption DEF Flip, Control, Suits, Labels, scheme, Goto, gpVars, retireVars, syncVars, mailVars, dispVars
  <2>5. CASE Wait(t)
    BY <2>5, <1>0, ConstantsAssumption DEF Wait, Control, Suits, Labels, scheme, Goto, gpVars, retireVars, syncVars, mailVars, dispVars
  <2>6. CASE WaitAgain(t)
    BY ZenonT(60), <2>6, <1>0, ConstantsAssumption DEF WaitAgain, Control, Suits, Labels, scheme, Goto, gpVars, retireVars, syncVars, mailVars, dispVars
  <2>7. CASE SyncUnlock(t)
    BY SMT, <2>7, <1>0, ConstantsAssumption DEF SyncUnlock, AfterSync, Control, Suits, Labels, scheme, Goto, gpVars, retireVars, syncVars, mailVars, dispVars
  <2>. QED
    BY <1>3, <2>1, <2>2, <2>3, <2>4, <2>5, <2>6, <2>7 DEF PeriodStep
<1>4. ASSUME NEW t \in Thread, DisposeStep(t) PROVE Control'
  <2>1. CASE DisposeSleep(t)
    BY SMT, <2>1, <1>0, ConstantsAssumption DEF DisposeSleep, Control, Suits, Labels, scheme, Goto, gpVars, retireVars, syncVars, mailVars, dispVars
  <2>2. CASE DisposeGive(t)
    BY <2>2, <1>0, ConstantsAssumption DEF DisposeGive, Control, Suits, Labels, scheme, Goto, gpVars, retireVars, syncVars, mailVars, dispVars
  <2>3. CASE DisposeAwaited(t)
    BY <2>3, <1>0, ConstantsAssumption DEF DisposeAwaited, Control, Suits, Labels, scheme, Goto, gpVars, retireVars, syncVars, mailVars, dispVars
  <2>. QED
    BY <1>4, <2>1, <2>2, <2>3 DEF DisposeStep
<1>5. ASSUME NEW t \in Thread, TurnStep(t) PROVE Control'
  <2>1. UNCHANGED <<inst, lock, m_nCurEpoch, todo, bSync, flips, mailVars, dispVars>>
    BY <1>0, <1>5, TurnSteps DEF gpVars, retireVars
  <2>2. Outside({"flip", "wait"})
    BY <1>0, <1>5, TurnSteps DEF Goes, Outside
  <2>3. \A u \in Thread : Suits(u)'
    BY ZenonT(60), <1>0, <1>5, <1>a, <2>1, TurnSteps DEF Goes, Suits
  <2>4. nEpoch' \in [Thread -> Nat]
    <3>1. CASE RetireDone(t)
      BY <1>a, <3>1 DEF RetireDone
    <3>2. ASSUME Return(t) \/ ClearKeep(t) \/ ClearEmpty(t) PROVE nEpoch' = nEpoch
      BY <3>2 DEF Return, ClearKeep, ClearEmpty, syncVars
    <3>. QED
      BY <1>5, <1>a, <3>1, <3>2 DEF TurnStep
  <2>. QED
    BY <1>a, <2>1, <2>2, <2>3, <2>4, ControlQuiet
<1>6. ASSUME NEW t \in Thread, HandStep(t) PROVE Control'
  <2>1. UNCHANGED <<inst, lock, m_nCurEpoch, nEpoch, bSync, flips, mailVars, dispVars>>
    BY <1>0, <1>6, HandSteps DEF gpVars, syncVars
  <2>2. Outside({"flip", "wait"})
    BY <1>0, <1>6, HandSteps DEF Goes, Outside
  <2>3. CASE RetireInstant(t) \/ RetireEpoch(t)
    BY ZenonT(60), <2>1, <2>2, <2>3, ControlQuiet, <1>0, <1>a DEF RetireInstant, RetireEpoch, Suits, Goto, scheme, retireVars
  <2>4. CASE PushBuffer(t) \/ PushFails(t)
    BY <2>1, <2>2, <2>4, ControlQuiet, <1>0, <1>a DEF PushBuffer, PushFails, Suits, Goto, scheme, retireVars
  <2>5. CASE ClearPop(t) \/ ClearFree(t)
    BY <2>1, <2>2, <2>5, ControlQuiet, <1>0, <1>a DEF ClearPop, ClearFree, Suits, Goto, scheme, retireVars
  <2>6. ASSUME NEW o \in Obj, RetireNext(t, o) \/ ReturnFree(t, o) PROVE Control'
    BY ZenonT(60), <2>1, <2>2, <2>6, ControlQuiet, <1>0, <1>a DEF RetireNext, ReturnFree, Suits, Goto, scheme, retireVars
  <2>. QED
    BY <1>6, <2>3, <2>4, <2>5, <2>6 DEF HandStep
<1>7. ASSUME NEW t \in Thread, NEW o \in Obj, Link(t, o) \/ Unlink(t, o) PROVE Control'
  BY SMT, <1>0, <1>7, <1>a, ControlQuiet DEF Link, Unlink, Outside, Suits, retireVars, syncVars, gpVars
<1>8. CASE MailStep
  <2>1. CASE ExecuteReady
    BY <2>1, <1>0, ConstantsAssumption DEF ExecuteReady, Control, Suits, Labels, scheme, Goto, gpVars, retireVars, syncVars, mailVars, dispVars
  <2>2. CASE ExecuteNotify
    BY ZenonT(60), <2>2, <1>0, ConstantsAssumption DEF ExecuteNotify, Control, Suits, Labels, scheme, Goto, gpVars, retireVars, syncVars, mailVars, dispVars
  <2>3. CASE ExecuteTake
    BY <2>3, <1>0, ConstantsAssumption DEF ExecuteTake, Control, Suits, Labels, scheme, Goto, gpVars, retireVars, syncVars, mailVars, dispVars
  <2>4. CASE ExecutePassed
    BY <2>4, <1>0, ConstantsAssumption DEF ExecutePassed, Control, Suits, Labels, scheme, Goto, gpVars, retireVars, syncVars, mailVars, dispVars
  <2>. QED
    BY <1>8, <2>1, <2>2, <2>3, <2>4 DEF MailStep
<1>9. CASE ExecuteFree
  BY <1>9, <1>a, ControlQuiet DEF ExecuteFree, Outside, Suits, syncVars, gpVars
<1>10. CASE Destruct
  <2>1. m_nCurEpoch' \in Nat /\ dpc' = "start" /\ ~m_bReady' /\ ~m_pBuffer'
    BY <1>10 DEF Destruct, FirstEpoch, Control, scheme
  <2>2. UNCHANGED <<inst, lock, pc, todo, nEpoch, bSync, flips, m_pBuffer, task, nCurEpoch>>
    BY <1>10 DEF Destruct, syncVars
  <2>. QED
    BY <1>10, <2>1, <2>2 DEF Destruct, Control, Suits
<1>11. CASE UNCHANGED vars
  BY <1>11, <1>a, ControlQuiet DEF vars, Outside, Suits, retireVars, syncVars, gpVars
<1>. QED
  BY <1>1, <1>2, <1>3, <1>4, <1>5, <1>6, <1>7, <1>8, <1>9, <1>10, <1>11 DEF Kinds

-----------------------------------------------------------------------------
(* Places *)

\* The places: m_Buffer, and the hands of a thread.
InBuf(o) == \E i \in 1 .. Len(buf) : buf[i] = o

Has(t, o) == o \in todo[t] \/ o \in unpushed[t] \/ ep[t] = o

\* The locals of retire_ptr, push_buffer and clear_buffer.
Hands ==
  /\ mem \in [Obj -> {"free", "linked", "retired"}]
  /\ epoch \in [Obj -> Nat]
  /\ unpushed \in [Thread -> SUBSET Obj]
  /\ ep \in [Thread -> Obj \cup {none}]
  /\ buf \in Seq(Obj)
  /\ Len(buf) <= Capacity
  /\ \A t \in Thread : ep[t] # none <=> pc[t] \in {"push", "popped"}
  /\ \A t \in Thread : pc[t] \in {"detached", "attach"} => todo[t] = {}
  /\ \A t \in Thread : pc[t] \in {"detached", "attach", "idle", "access", "next"} => unpushed[t] = {}

\* Nowhere; in the buffer; or in the hands of one thread.
Single(o) ==
  \/ mem[o] # "retired" /\ ~InBuf(o) /\ \A t \in Thread : ~Has(t, o)
  \/ mem[o] = "retired" /\ InBuf(o) /\ \A t \in Thread : ~Has(t, o)
  \/ mem[o] = "retired" /\ ~InBuf(o) /\ \E t \in Thread : \A u \in Thread : Has(u, o) <=> u = t

\* Nothing is in two places.
Apart(t) == todo[t] \cap unpushed[t] = {} /\ ep[t] \notin todo[t] \cup unpushed[t]

Distinct == \A i, j \in 1 .. Len(buf) : buf[i] = buf[j] => i = j

\* A retired object is in one place, and what is in a place is retired.
Placed ==
  /\ \A o \in Obj : Single(o)
  /\ \A t \in Thread : Apart(t)
  /\ Distinct

\* Nothing is retired at the start.
LEMMA PlacedInit == Init => Hands /\ Placed
  BY SMT, ConstantsAssumption DEF Init, Hands, Placed, Single, Apart, Distinct, Has, InBuf

\* An object in somebody's hands is retired, not in the buffer, and in nobody else's.
LEMMA InHands ==
  ASSUME Placed, NEW t \in Thread, NEW o \in Obj, Has(t, o)
  PROVE  mem[o] = "retired" /\ ~InBuf(o) /\ \A u \in Thread : Has(u, o) => u = t
  BY DEF Placed, Single

\* An object in the buffer is retired and in nobody's hands.
LEMMA InBuffer ==
  ASSUME Placed, NEW o \in Obj, InBuf(o)
  PROVE  mem[o] = "retired" /\ \A u \in Thread : ~Has(u, o)
  BY DEF Placed, Single

\* A retired object is somewhere.
LEMMA Somewhere ==
  ASSUME Placed, NEW o \in Obj, mem[o] = "retired"
  PROVE  InBuf(o) \/ \E t \in Thread : Has(t, o)
  BY DEF Placed, Single

\* What push leaves in the cells of the buffer.
LEMMA AppendCells ==
  ASSUME NEW S, NEW s \in Seq(S), NEW x \in S
  PROVE  /\ Append(s, x) \in Seq(S)
         /\ Len(Append(s, x)) = Len(s) + 1
         /\ \A i \in 1 .. Len(s) : Append(s, x)[i] = s[i]
         /\ Append(s, x)[Len(s) + 1] = x
  BY SMT

\* What pop leaves.
LEMMA TailCells ==
  ASSUME NEW S, NEW s \in Seq(S), s # <<>>
  PROVE  /\ Tail(s) \in Seq(S)
         /\ Len(s) > 0
         /\ Len(Tail(s)) = Len(s) - 1
         /\ \A i \in 1 .. Len(s) - 1 : Tail(s)[i] = s[i + 1]
         /\ Head(s) = s[1] /\ Head(s) \in S
  BY SMT

\* Without repetitions, the head is what Tail takes away.
LEMMA TailRange ==
  ASSUME NEW S, NEW s \in Seq(S), s # <<>>,
         \A i, j \in 1 .. Len(s) : s[i] = s[j] => i = j,
         NEW o
  PROVE  (\E i \in 1 .. Len(Tail(s)) : Tail(s)[i] = o) <=> (\E i \in 1 .. Len(s) : s[i] = o) /\ o # Head(s)
<1> DEFINE q == Tail(s)
<1> Len(s) \in Nat
  BY SMT
<1>1. /\ Len(s) > 0 /\ Len(q) = Len(s) - 1
      /\ \A i \in 1 .. Len(s) - 1 : q[i] = s[i + 1]
      /\ Head(s) = s[1]
  BY TailCells
<1> HIDE DEF q
<1>2. ASSUME NEW i \in 1 .. Len(q), q[i] = o
      PROVE  (\E k \in 1 .. Len(s) : s[k] = o) /\ o # Head(s)
  <2>1. i + 1 \in 1 .. Len(s) /\ s[i + 1] = o /\ i + 1 # 1 /\ 1 \in 1 .. Len(s)
    BY SMT, <1>1, <1>2
  <2>. QED
    BY <1>1, <2>1
<1>3. ASSUME NEW i \in 1 .. Len(s), s[i] = o, o # Head(s)
      PROVE  \E k \in 1 .. Len(q) : q[k] = o
  <2>1. i - 1 \in 1 .. Len(s) - 1 /\ (i - 1) + 1 = i
    BY SMT, <1>1, <1>3
  <2>2. q[i - 1] = o /\ i - 1 \in 1 .. Len(q)
    BY <1>1, <1>3, <2>1
  <2>. QED
    BY <2>2
<1>4. (\E i \in 1 .. Len(q) : q[i] = o) <=> (\E i \in 1 .. Len(s) : s[i] = o) /\ o # Head(s)
  BY <1>2, <1>3
<1>. QED
  BY <1>4 DEF q

-----------------------------------------------------------------------------
(* Hands *)

\* Hands speaks of these places in the program only.
LEMMA HandsQuiet ==
  ASSUME Hands, UNCHANGED <<mem, epoch, buf, todo, unpushed, ep>>,
         \A u \in Thread : pc'[u] \in {"push", "popped"} <=> pc[u] \in {"push", "popped"},
         \A u \in Thread : pc'[u] \in {"detached", "attach"} /\ pc[u] \notin {"detached", "attach"} => todo[u] = {},
         \A u \in Thread : pc'[u] \in {"detached", "attach", "idle", "access", "next"} =>
                              pc[u] \in {"detached", "attach", "idle", "access", "next"} \/ unpushed[u] = {}
  PROVE  Hands'
  BY DEF Hands

\* The local variables of push_buffer and clear_buffer are what their names say.
LEMMA HandsNext == Own /\ Control /\ Hands /\ [Next]_vars => Hands'
<1> SUFFICES ASSUME Own, Control, Hands, Kinds PROVE Hands'
  BY StepKinds
<1>0. pc \in [Thread -> Labels]
  BY DEF Own
<1>a. todo \in [Thread -> SUBSET Obj] /\ m_nCurEpoch \in Nat
  BY DEF Control
<1>1. ASSUME NEW t \in Thread, RecordStep(t) PROVE Hands'
  <2>1. UNCHANGED <<mem, epoch, buf, todo, unpushed, ep>>
    BY <1>0, <1>1, RecordSteps DEF memVars, retireVars
  <2>. QED
    BY <1>0, <1>1, <2>1, RecordSteps, HandsQuiet DEF Goes
<1>2. ASSUME NEW t \in Thread, AccessStep(t) PROVE Hands'
  <2>1. UNCHANGED <<mem, epoch, buf, todo, unpushed, ep>>
    BY <1>0, <1>2, AccessSteps DEF retireVars
  <2>. QED
    BY <1>0, <1>2, <2>1, AccessSteps, HandsQuiet DEF Goes
<1>3. ASSUME NEW t \in Thread, PeriodStep(t) PROVE Hands'
  <2>1. UNCHANGED <<mem, epoch, buf, todo, unpushed, ep>>
    BY <1>0, <1>3, PeriodSteps DEF memVars, retireVars
  <2>. QED
    BY <1>0, <1>3, <2>1, PeriodSteps, HandsQuiet DEF Goes
<1>4. ASSUME NEW t \in Thread, DisposeStep(t) PROVE Hands'
  <2>1. UNCHANGED <<mem, epoch, buf, todo, unpushed, ep>>
    BY <1>0, <1>4, DisposeSteps DEF memVars, retireVars
  <2>. QED
    BY <1>0, <1>4, <2>1, DisposeSteps, HandsQuiet DEF Goes
<1>5. ASSUME NEW t \in Thread, TurnStep(t) PROVE Hands'
  <2>1. UNCHANGED <<mem, epoch, buf, todo, unpushed, ep>>
    BY <1>0, <1>5, TurnSteps DEF memVars, retireVars
  <2>. QED
    BY <1>0, <1>5, <2>1, TurnSteps, HandsQuiet DEF Goes
<1>6. ASSUME NEW t \in Thread, HandStep(t) PROVE Hands'
  <2>1. CASE RetireInstant(t)
    BY <1>0, <1>a, <2>1 DEF RetireInstant, Hands, Goto, memVars
  <2>2. CASE RetireEpoch(t)
    BY <1>0, <1>a, <2>2 DEF RetireEpoch, Hands, Goto, memVars
  <2>3. CASE PushBuffer(t)
    BY SMTT(40), <1>0, <1>a, <2>3, ConstantsAssumption DEF PushBuffer, Hands, Goto, memVars
  <2>4. CASE PushFails(t)
    BY SMTT(40), <1>0, <1>a, <2>4, ConstantsAssumption DEF PushFails, Hands, Goto, memVars
  <2>5. CASE ClearPop(t)
    BY SMT, <1>0, <1>a, <2>5, ConstantsAssumption DEF ClearPop, Hands, Goto, memVars
  <2>6. CASE ClearFree(t)
    BY <1>0, <1>a, <2>6, ConstantsAssumption DEF ClearFree, Hands, Goto, Free
  <2>7. ASSUME NEW o \in Obj, RetireNext(t, o) PROVE Hands'
    BY <1>0, <1>a, <2>7, ConstantsAssumption DEF RetireNext, Hands, Goto, memVars
  <2>8. ASSUME NEW o \in Obj, ReturnFree(t, o) PROVE Hands'
    BY <1>0, <1>a, <2>8 DEF ReturnFree, Hands, Free
  <2>. QED
    BY <1>6, <2>1, <2>2, <2>3, <2>4, <2>5, <2>6, <2>7, <2>8 DEF HandStep
<1>7. ASSUME NEW t \in Thread, NEW o \in Obj, Link(t, o) \/ Unlink(t, o) PROVE Hands'
  <2>1. CASE Link(t, o)
    BY <2>1 DEF Link, Hands, retireVars
  <2>2. CASE Unlink(t, o)
    BY <1>a, <2>2 DEF Unlink, Hands
  <2>. QED
    BY <1>7, <2>1, <2>2
<1>8. CASE MailStep
  <2>1. UNCHANGED <<mem, epoch, buf, todo, unpushed, ep>>
    BY <1>0, <1>8, MailSteps DEF memVars, retireVars
  <2>. QED
    BY <1>0, <1>8, <2>1, MailSteps, HandsQuiet DEF Goes
<1>9. CASE ExecuteFree
  <2>1. /\ buf # <<>> /\ buf' = Tail(buf)
        /\ mem' = [o \in Obj |-> IF o \in {Head(buf)} THEN "free" ELSE mem[o]]
        /\ epoch' = [o \in Obj |-> IF o \in {Head(buf)} THEN 0 ELSE epoch[o]]
        /\ UNCHANGED <<todo, unpushed, ep, pc>>
    BY <1>9 DEF ExecuteFree, Free
  <2>2. mem' \in [Obj -> {"free", "linked", "retired"}] /\ epoch' \in [Obj -> Nat]
    BY <2>1 DEF Hands
  <2>3. buf' \in Seq(Obj) /\ Len(buf') <= Capacity
    BY SMTT(40), <2>1, TailCells, ConstantsAssumption DEF Hands
  <2>. QED
    BY <2>1, <2>2, <2>3 DEF Hands
<1>10. CASE Destruct
  BY SMT, <1>10, ConstantsAssumption DEF Destruct, Hands, Free
<1>11. CASE UNCHANGED vars
  BY <1>11, HandsQuiet DEF vars, memVars, retireVars
<1>. QED
  BY <1>1, <1>2, <1>3, <1>4, <1>5, <1>6, <1>7, <1>8, <1>9, <1>10, <1>11 DEF Kinds

-----------------------------------------------------------------------------
(* Placed *)

\* The object stays where it is.
Stays(o) ==
  /\ mem'[o] = mem[o]
  /\ InBuf(o)' <=> InBuf(o)
  /\ \A u \in Thread : Has(u, o)' <=> Has(u, o)

\* Placed is shown object by object.
LEMMA PlacedMoves ==
  ASSUME Placed, Distinct', \A u \in Thread : Apart(u)', \A x \in Obj : Stays(x) \/ Single(x)'
  PROVE  Placed'
<1>1. ASSUME NEW x \in Obj, Stays(x) PROVE Single(x)'
  <2>1. Single(x)
    BY DEF Placed
  <2>. QED
    BY <1>1, <2>1 DEF Single, Stays
<1>. QED
  BY <1>1 DEF Placed

\* A step that moves no pointer moves no object.
LEMMA PlacedQuiet ==
  ASSUME Placed, UNCHANGED <<mem, buf, todo, unpushed, ep>>
  PROVE  Placed'
<1>1. ASSUME NEW x \in Obj PROVE Stays(x)
  BY DEF Stays, InBuf, Has
<1>2. Distinct' /\ \A u \in Thread : Apart(u)'
  BY DEF Placed, Distinct, Apart
<1>. QED
  BY <1>1, <1>2, PlacedMoves

\* So is one that moves pointers from one of a thread's hands to the other.
LEMMA PlacedHands ==
  ASSUME Placed, UNCHANGED <<mem, buf>>, \A u \in Thread : Apart(u)',
         \A u \in Thread, x \in Obj : Has(u, x)' <=> Has(u, x)
  PROVE  Placed'
<1>1. ASSUME NEW x \in Obj PROVE Stays(x)
  BY DEF Stays, InBuf
<1>2. Distinct'
  BY DEF Placed, Distinct
<1>. QED
  BY <1>1, <1>2, PlacedMoves

\* What pop leaves in the buffer.
LEMMA Popped ==
  ASSUME Placed, buf \in Seq(Obj), buf # <<>>, buf' = Tail(buf)
  PROVE  /\ Head(buf) \in Obj /\ InBuf(Head(buf))
         /\ \A x \in Obj : InBuf(x)' <=> InBuf(x) /\ x # Head(buf)
         /\ Distinct'
<1>1. /\ Len(buf') = Len(buf) - 1 /\ Len(buf) > 0 /\ Len(buf) \in Nat
      /\ \A i \in 1 .. Len(buf) - 1 : buf'[i] = buf[i + 1]
      /\ Head(buf) = buf[1] /\ Head(buf) \in Obj
  BY SMT, TailCells
<1>2. \A i, j \in 1 .. Len(buf) : buf[i] = buf[j] => i = j
  BY DEF Placed, Distinct
<1>3. InBuf(Head(buf))
  BY SMT, <1>1 DEF InBuf
<1>4. \A x \in Obj : (\E i \in 1 .. Len(Tail(buf)) : Tail(buf)[i] = x)
                       <=> (\E i \in 1 .. Len(buf) : buf[i] = x) /\ x # Head(buf)
  BY <1>2, TailRange
<1>5. \A x \in Obj : InBuf(x)' <=> InBuf(x) /\ x # Head(buf)
  BY <1>4 DEF InBuf
<1>6. Distinct'
  BY SMT, <1>1, <1>2 DEF Distinct
<1>. QED
  BY <1>1, <1>3, <1>5, <1>6

\* An object that is retired is taken from where it was and put in one other place, or
\* freed and in none.
LEMMA PlacedNext == Own /\ Control /\ Hands /\ Placed /\ [Next]_vars => Placed'
<1> SUFFICES ASSUME Own, Control, Hands, Placed, Kinds PROVE Placed'
  BY StepKinds
<1>0. pc \in [Thread -> Labels]
  BY DEF Own
<1>a. /\ todo \in [Thread -> SUBSET Obj] /\ unpushed \in [Thread -> SUBSET Obj]
      /\ ep \in [Thread -> Obj \cup {none}] /\ none \notin Obj
  BY ConstantsAssumption DEF Control, Hands
<1>b. mem \in [Obj -> {"free", "linked", "retired"}] /\ buf \in Seq(Obj)
  BY DEF Hands
<1>c. Distinct /\ \A u \in Thread : Apart(u)
  BY DEF Placed
<1>1. ASSUME NEW t \in Thread, RecordStep(t) PROVE Placed'
  BY <1>0, <1>1, RecordSteps, PlacedQuiet DEF memVars, retireVars
<1>2. ASSUME NEW t \in Thread, AccessStep(t) PROVE Placed'
  BY <1>0, <1>2, AccessSteps, PlacedQuiet DEF retireVars
<1>3. ASSUME NEW t \in Thread, PeriodStep(t) PROVE Placed'
  BY <1>0, <1>3, PeriodSteps, PlacedQuiet DEF memVars, retireVars
<1>4. ASSUME NEW t \in Thread, DisposeStep(t) PROVE Placed'
  BY <1>0, <1>4, DisposeSteps, PlacedQuiet DEF memVars, retireVars
<1>5. ASSUME NEW t \in Thread, TurnStep(t) PROVE Placed'
  BY <1>0, <1>5, TurnSteps, PlacedQuiet DEF memVars, retireVars
<1>6. ASSUME NEW t \in Thread, HandStep(t) PROVE Placed'
  <2>1. CASE RetireInstant(t)
    <3>1. /\ UNCHANGED <<mem, buf, ep>>
          /\ unpushed' = [unpushed EXCEPT ![t] = todo[t]] /\ todo' = [todo EXCEPT ![t] = {}]
      BY <2>1 DEF RetireInstant, memVars
    <3>2. unpushed[t] = {}
      BY <2>1 DEF RetireInstant, Hands
    <3>3. \A u \in Thread, x \in Obj : Has(u, x)' <=> Has(u, x)
      BY <1>a, <3>1, <3>2 DEF Has
    <3>4. \A u \in Thread : Apart(u)'
      BY <1>a, <1>c, <3>1 DEF Apart
    <3>. QED
      BY <3>1, <3>3, <3>4, PlacedHands
  <2>2. CASE RetireEpoch(t)
    BY <2>2, PlacedQuiet DEF RetireEpoch, memVars
  <2>3. CASE PushBuffer(t)
    <3>1. ep[t] \in Obj
      BY <2>3 DEF PushBuffer, Hands
    <3> PICK h \in Obj : h = ep[t]
      BY <3>1
    <3>2. /\ UNCHANGED <<mem, todo, unpushed>>
          /\ buf' = Append(buf, h) /\ ep' = [ep EXCEPT ![t] = none]
      BY <2>3 DEF PushBuffer, memVars
    <3>3. Has(t, h) /\ h \notin todo[t] /\ h \notin unpushed[t]
      BY <1>c DEF Has, Apart
    <3>4. mem[h] = "retired" /\ ~InBuf(h) /\ \A u \in Thread : Has(u, h) => u = t
      BY <3>3, InHands
    <3>5. /\ Len(buf') = Len(buf) + 1 /\ Len(buf) \in Nat
          /\ \A i \in 1 .. Len(buf) : buf'[i] = buf[i]
          /\ buf'[Len(buf) + 1] = h
      BY SMTT(40), <1>b, <3>2, AppendCells
    <3>6. \A x \in Obj : InBuf(x)' <=> InBuf(x) \/ x = h
      BY SMT, <3>5 DEF InBuf
    <3>7. \A x \in Obj, u \in Thread : x # h => (Has(u, x)' <=> Has(u, x))
      BY <1>a, <3>2 DEF Has
    <3>8. \A u \in Thread : ~Has(u, h)'
      BY <1>a, <3>2, <3>3, <3>4 DEF Has
    <3>9. Distinct'
      <4>1. \A i \in 1 .. Len(buf) : buf[i] # h
        BY <3>4 DEF InBuf
      <4>. QED
        BY SMT, <1>c, <3>5, <4>1 DEF Distinct
    <3>10. \A u \in Thread : Apart(u)'
      BY <1>a, <1>c, <3>2 DEF Apart
    <3>11. ASSUME NEW x \in Obj PROVE Stays(x) \/ Single(x)'
      BY <3>2, <3>4, <3>6, <3>7, <3>8 DEF Stays, Single
    <3>. QED
      BY <3>9, <3>10, <3>11, PlacedMoves
  <2>4. CASE PushFails(t)
    <3>1. /\ UNCHANGED <<mem, buf, todo>>
          /\ unpushed' = [unpushed EXCEPT ![t] = @ \cup {ep[t]}] /\ ep' = [ep EXCEPT ![t] = none]
      BY <2>4 DEF PushFails, memVars
    <3>2. ep[t] \in Obj
      BY <2>4 DEF PushFails, Hands
    <3>3. \A u \in Thread, x \in Obj : Has(u, x)' <=> Has(u, x)
      BY <1>a, <3>1, <3>2 DEF Has
    <3>4. \A u \in Thread : Apart(u)'
      BY <1>a, <1>c, <3>1, <3>2 DEF Apart
    <3>. QED
      BY <3>1, <3>3, <3>4, PlacedHands
  <2>5. CASE ClearPop(t)
    <3>1. buf # <<>> /\ buf' = Tail(buf)
      BY <2>5 DEF ClearPop
    <3>2. /\ Head(buf) \in Obj /\ InBuf(Head(buf))
          /\ \A x \in Obj : InBuf(x)' <=> InBuf(x) /\ x # Head(buf)
          /\ Distinct'
      BY <1>b, <3>1, Popped
    <3> PICK h \in Obj : h = Head(buf)
      BY <3>2
    <3>3. UNCHANGED <<mem, todo, unpushed>> /\ ep' = [ep EXCEPT ![t] = h] /\ ep[t] = none
      BY <2>5 DEF ClearPop, Hands, memVars
    <3>4. mem[h] = "retired" /\ InBuf(h) /\ \A u \in Thread : ~Has(u, h)
      BY <3>2, InBuffer
    <3>5. \A x \in Obj : InBuf(x)' <=> InBuf(x) /\ x # h
      BY <3>2
    <3>6. \A x \in Obj, u \in Thread : x # h => (Has(u, x)' <=> Has(u, x))
      BY <1>a, <3>3 DEF Has
    <3>7. \A u \in Thread : Has(u, h)' <=> u = t
      BY <1>a, <3>3, <3>4 DEF Has
    <3>8. \A u \in Thread : Apart(u)'
      BY <1>a, <1>c, <3>3, <3>4 DEF Apart, Has
    <3>9. ASSUME NEW x \in Obj PROVE Stays(x) \/ Single(x)'
      BY <3>3, <3>4, <3>5, <3>6, <3>7 DEF Stays, Single
    <3>. QED
      BY <3>2, <3>8, <3>9, PlacedMoves
  <2>6. CASE ClearFree(t)
    <3>1. ep[t] \in Obj
      BY <2>6 DEF ClearFree, Hands
    <3> PICK h \in Obj : h = ep[t]
      BY <3>1
    <3>2. /\ UNCHANGED <<todo, unpushed, buf>> /\ ep' = [ep EXCEPT ![t] = none]
          /\ mem' = [x \in Obj |-> IF x \in {h} THEN "free" ELSE mem[x]]
      BY <2>6 DEF ClearFree, Free
    <3>3. Has(t, h) /\ h \notin todo[t] /\ h \notin unpushed[t]
      BY <1>c DEF Has, Apart
    <3>4. ~InBuf(h) /\ \A u \in Thread : Has(u, h) => u = t
      BY <3>3, InHands
    <3>5. \A x \in Obj, u \in Thread : x # h => (Has(u, x)' <=> Has(u, x))
      BY <1>a, <3>2 DEF Has
    <3>6. \A u \in Thread : ~Has(u, h)'
      BY <1>a, <3>2, <3>3, <3>4 DEF Has
    <3>7. \A x \in Obj : InBuf(x)' <=> InBuf(x)
      BY <3>2 DEF InBuf
    <3>8. (\A x \in Obj : x # h => mem'[x] = mem[x]) /\ mem'[h] # "retired"
      BY <3>2
    <3>9. Distinct' /\ \A u \in Thread : Apart(u)'
      BY <1>a, <1>c, <3>2 DEF Apart, Distinct
    <3>10. ASSUME NEW x \in Obj PROVE Stays(x) \/ Single(x)'
      BY <3>4, <3>5, <3>6, <3>7, <3>8 DEF Stays, Single
    <3>. QED
      BY <3>9, <3>10, PlacedMoves
  <2>7. ASSUME NEW o \in Obj, RetireNext(t, o) PROVE Placed'
    <3>1. /\ UNCHANGED <<mem, buf, unpushed>> /\ o \in todo[t]
          /\ ep' = [ep EXCEPT ![t] = o] /\ todo' = [todo EXCEPT ![t] = @ \ {o}]
      BY <2>7 DEF RetireNext, memVars
    <3>2. ep[t] = none
      BY <2>7 DEF RetireNext, Hands
    <3>3. \A u \in Thread, x \in Obj : Has(u, x)' <=> Has(u, x)
      BY <1>a, <3>1, <3>2 DEF Has
    <3>4. \A u \in Thread : Apart(u)'
      BY <1>a, <1>c, <3>1 DEF Apart
    <3>. QED
      BY <3>1, <3>3, <3>4, PlacedHands
  <2>8. ASSUME NEW o \in Obj, ReturnFree(t, o) PROVE Placed'
    <3>1. /\ UNCHANGED <<todo, ep, buf>> /\ o \in unpushed[t]
          /\ unpushed' = [unpushed EXCEPT ![t] = @ \ {o}]
          /\ mem' = [x \in Obj |-> IF x \in {o} THEN "free" ELSE mem[x]]
      BY <2>8 DEF ReturnFree, Free
    <3>2. Has(t, o)
      BY <3>1 DEF Has
    <3>3. ~InBuf(o) /\ \A u \in Thread : Has(u, o) => u = t
      BY <3>2, InHands
    <3>4. \A x \in Obj, u \in Thread : x # o => (Has(u, x)' <=> Has(u, x))
      BY <1>a, <3>1 DEF Has
    <3>5. \A u \in Thread : ~Has(u, o)'
      <4> TAKE u \in Thread
      <4>1. CASE u = t
        BY <1>a, <1>c, <3>1, <4>1 DEF Has, Apart
      <4>2. CASE u # t
        BY <1>a, <3>1, <3>3, <4>2 DEF Has
      <4>. QED
        BY <4>1, <4>2
    <3>6. \A x \in Obj : InBuf(x)' <=> InBuf(x)
      BY <3>1 DEF InBuf
    <3>7. (\A x \in Obj : x # o => mem'[x] = mem[x]) /\ mem'[o] # "retired"
      BY <3>1
    <3>8. Distinct' /\ \A u \in Thread : Apart(u)'
      BY <1>a, <1>c, <3>1 DEF Apart, Distinct
    <3>9. ASSUME NEW x \in Obj PROVE Stays(x) \/ Single(x)'
      BY <3>3, <3>4, <3>5, <3>6, <3>7 DEF Stays, Single
    <3>. QED
      BY <3>8, <3>9, PlacedMoves
  <2>. QED
    BY <1>6, <2>1, <2>2, <2>3, <2>4, <2>5, <2>6, <2>7, <2>8 DEF HandStep
<1>7. ASSUME NEW t \in Thread, NEW o \in Obj, Link(t, o) \/ Unlink(t, o) PROVE Placed'
  <2>1. mem[o] # "retired"
    BY <1>7 DEF Link, Unlink
  <2>2. ~InBuf(o) /\ \A u \in Thread : ~Has(u, o)
    BY <2>1, InHands, InBuffer
  <2>3. CASE Link(t, o)
    <3>1. UNCHANGED <<todo, unpushed, ep, buf>> /\ mem' = [mem EXCEPT ![o] = "linked"]
      BY <2>3 DEF Link, retireVars
    <3>2. /\ \A x \in Obj : InBuf(x)' <=> InBuf(x)
          /\ \A x \in Obj, u \in Thread : Has(u, x)' <=> Has(u, x)
      BY <3>1 DEF InBuf, Has
    <3>3. (\A x \in Obj : x # o => mem'[x] = mem[x]) /\ mem'[o] # "retired"
      BY <1>b, <3>1
    <3>4. Distinct' /\ \A u \in Thread : Apart(u)'
      BY <1>c, <3>1 DEF Apart, Distinct
    <3>5. ASSUME NEW x \in Obj PROVE Stays(x) \/ Single(x)'
      BY <2>2, <3>2, <3>3 DEF Stays, Single
    <3>. QED
      BY <3>4, <3>5, PlacedMoves
  <2>4. CASE Unlink(t, o)
    <3>1. /\ UNCHANGED <<unpushed, ep, buf>> /\ mem' = [mem EXCEPT ![o] = "retired"]
          /\ todo' = [todo EXCEPT ![t] = @ \cup {o}]
      BY <2>4 DEF Unlink
    <3>2. /\ \A x \in Obj : InBuf(x)' <=> InBuf(x)
          /\ \A x \in Obj, u \in Thread : x # o => (Has(u, x)' <=> Has(u, x))
      BY <1>a, <3>1 DEF InBuf, Has
    <3>3. \A u \in Thread : Has(u, o)' <=> u = t
      BY <1>a, <2>2, <3>1 DEF Has
    <3>4. (\A x \in Obj : x # o => mem'[x] = mem[x]) /\ mem'[o] = "retired"
      BY <1>b, <3>1
    <3>5. Distinct' /\ \A u \in Thread : Apart(u)'
      BY SMT, <1>a, <1>c, <2>2, <3>1 DEF Apart, Distinct, Has
    <3>6. ASSUME NEW x \in Obj PROVE Stays(x) \/ Single(x)'
      BY <2>2, <3>2, <3>3, <3>4 DEF Stays, Single
    <3>. QED
      BY <3>5, <3>6, PlacedMoves
  <2>. QED
    BY <1>7, <2>3, <2>4
<1>8. CASE MailStep
  BY <1>0, <1>8, MailSteps, PlacedQuiet DEF memVars, retireVars
<1>9. CASE ExecuteFree
  <2>1. UNCHANGED <<todo, unpushed, ep>> /\ buf # <<>> /\ buf' = Tail(buf)
    BY <1>9 DEF ExecuteFree
  <2>2. /\ Head(buf) \in Obj /\ InBuf(Head(buf))
        /\ \A x \in Obj : InBuf(x)' <=> InBuf(x) /\ x # Head(buf)
        /\ Distinct'
    BY <1>b, <2>1, Popped
  <2> PICK h \in Obj : h = Head(buf)
    BY <2>2
  <2>3. mem' = [x \in Obj |-> IF x \in {h} THEN "free" ELSE mem[x]]
    BY <1>9 DEF ExecuteFree, Free
  <2>4. (\A u \in Thread : ~Has(u, h)) /\ \A x \in Obj : InBuf(x)' <=> InBuf(x) /\ x # h
    BY <2>2, InBuffer
  <2>5. \A x \in Obj, u \in Thread : Has(u, x)' <=> Has(u, x)
    BY <2>1 DEF Has
  <2>6. (\A x \in Obj : x # h => mem'[x] = mem[x]) /\ mem'[h] # "retired"
    BY <2>3
  <2>7. \A u \in Thread : Apart(u)'
    BY <1>c, <2>1 DEF Apart
  <2>8. ASSUME NEW x \in Obj PROVE Stays(x) \/ Single(x)'
    BY <2>4, <2>5, <2>6 DEF Stays, Single
  <2>. QED
    BY <2>2, <2>7, <2>8, PlacedMoves
<1>10. CASE Destruct
  <2>1. /\ UNCHANGED <<todo, unpushed, ep>> /\ buf' = <<>>
        /\ mem' = [x \in Obj |-> IF x \in {buf[i] : i \in 1 .. Len(buf)} THEN "free" ELSE mem[x]]
    BY <1>10 DEF Destruct, Free
  <2>2. \A u \in Thread : todo[u] = {} /\ unpushed[u] = {} /\ ep[u] = none
    BY <1>10 DEF Destruct, Hands
  <2>3. \A x \in Obj, u \in Thread : ~Has(u, x) /\ ~Has(u, x)'
    BY <1>a, <2>1, <2>2 DEF Has
  <2>4. \A x \in Obj : mem[x] = "retired" => x \in {buf[i] : i \in 1 .. Len(buf)}
    BY <2>3, Somewhere DEF InBuf
  <2>5. \A x \in Obj : mem'[x] # "retired"
    BY <2>1, <2>4
  <2>6. Distinct' /\ \A x \in Obj : ~InBuf(x)'
    BY SMT, <2>1 DEF Distinct, InBuf
  <2>7. \A u \in Thread : Apart(u)'
    BY <1>c, <2>1 DEF Apart
  <2>8. ASSUME NEW x \in Obj PROVE Single(x)'
    BY <2>3, <2>5, <2>6 DEF Single
  <2>. QED
    BY <2>6, <2>7, <2>8, PlacedMoves
<1>11. CASE UNCHANGED vars
  BY <1>11, PlacedQuiet DEF vars, memVars, retireVars
<1>. QED
  BY <1>1, <1>2, <1>3, <1>4, <1>5, <1>6, <1>7, <1>8, <1>9, <1>10, <1>11 DEF Kinds

-----------------------------------------------------------------------------
(* Epochs *)

\* Retired, and no longer in a chain whose epoch is still to be loaded.
Dated(o) ==
  /\ mem[o] = "retired"
  /\ \A t \in Thread : o \in todo[t] => pc[t] \notin {"idle", "access"}

\* Where synchronize() has counted an epoch of its own.
Counted == {"mutex", "flip", "wait", "clear", "popped", "dispose", "asleep"}

\* The order of the epochs.
Epochs == inst.scheme # "instant" =>
  /\ \A o \in Obj : Dated(o) => epoch[o] <= m_nCurEpoch
  /\ \A u \in Thread : pc[u] \in Counted => nEpoch[u] < m_nCurEpoch
  /\ \A u \in Thread : pc[u] \in Counted => \A o \in unpushed[u] : epoch[o] <= nEpoch[u]
  /\ m_pBuffer => task < m_nCurEpoch
  /\ dpc = "pass" => nCurEpoch < m_nCurEpoch

\* Where the caller of synchronize() is after it.
Returning == {"push", "await", "dozing", "return"}

\* Nothing is retired at the start.
LEMMA EpochsInit == Init => Epochs
  BY ConstantsAssumption DEF Init, Epochs, Dated, Counted

\* A pointer that has left its chain is dated.
LEMMA HandsDated ==
  ASSUME Hands, Placed
  PROVE  /\ \A t \in Thread : \A o \in unpushed[t] : o \in Obj /\ Dated(o)
         /\ \A t \in Thread : ep[t] # none => ep[t] \in Obj /\ Dated(ep[t])
         /\ \A i \in 1 .. Len(buf) : buf[i] \in Obj /\ Dated(buf[i])
<1>a. unpushed \in [Thread -> SUBSET Obj] /\ ep \in [Thread -> Obj \cup {none}] /\ buf \in Seq(Obj)
  BY DEF Hands
<1>b. \A t \in Thread : Apart(t)
  BY DEF Placed
<1>0. ASSUME NEW t \in Thread, NEW o \in Obj, Has(t, o), o \notin todo[t] PROVE Dated(o)
  <2>1. mem[o] = "retired" /\ \A u \in Thread : Has(u, o) => u = t
    BY <1>0, InHands
  <2>. QED
    BY <1>0, <2>1 DEF Dated, Has
<1>1. ASSUME NEW t \in Thread, NEW o \in unpushed[t] PROVE o \in Obj /\ Dated(o)
  <2>1. o \in Obj /\ Has(t, o) /\ o \notin todo[t]
    BY <1>a, <1>b DEF Has, Apart
  <2>. QED
    BY <1>0, <2>1
<1>2. ASSUME NEW t \in Thread, ep[t] # none PROVE ep[t] \in Obj /\ Dated(ep[t])
  <2>1. ep[t] \in Obj /\ Has(t, ep[t]) /\ ep[t] \notin todo[t]
    BY <1>2, <1>a, <1>b DEF Has, Apart
  <2>. QED
    BY <1>0, <2>1
<1>3. ASSUME NEW i \in 1 .. Len(buf) PROVE buf[i] \in Obj /\ Dated(buf[i])
  <2>1. buf[i] \in Obj /\ InBuf(buf[i])
    BY SMT, <1>a DEF InBuf
  <2>2. mem[buf[i]] = "retired" /\ \A u \in Thread : ~Has(u, buf[i])
    BY <2>1, InBuffer
  <2>. QED
    BY <2>1, <2>2 DEF Dated, Has
<1>. QED
  BY <1>1, <1>2, <1>3

\* When every thread has detached, what is retired is in the buffer.
LEMMA DetachedKeepNothing ==
  ASSUME Own, Sections, Control, Hands, Placed, Destruct
  PROVE  /\ \A o \in Obj : mem'[o] # "retired"
         /\ ~m_pBuffer
         /\ \A t \in Thread : hold[t] = {}
<1>0. \A t \in Thread : todo[t] = {} /\ unpushed[t] = {} /\ ep[t] = none
  BY DEF Destruct, Hands
<1>1. \A t \in Thread, o \in Obj : ~Has(t, o)
  BY <1>0, ConstantsAssumption DEF Has
<1>2. \A o \in Obj : mem[o] = "retired" => o \in {buf[i] : i \in 1 .. Len(buf)}
  BY <1>1, Somewhere DEF InBuf
<1>3. mem' = [o \in Obj |-> IF o \in {buf[i] : i \in 1 .. Len(buf)} THEN "free" ELSE mem[o]]
  BY DEF Destruct, Free
<1>4. \A o \in Obj : mem'[o] # "retired"
  BY <1>2, <1>3
<1>5. ~m_pBuffer
  <2>1. m_pBuffer => inst.scheme = "threaded"
    BY DEF Control
  <2>. QED
    BY <2>1 DEF Destruct, Control, scheme
<1>6. \A t \in Thread : hold[t] = {}
  BY DEF Destruct, Own, Sections
<1>. QED
  BY <1>4, <1>5, <1>6

-----------------------------------------------------------------------------
(* What one step can do to what the invariants of the grace period speak of *)

\* An object gets its epoch when it is retired, and not before.
FreshEpoch(o) ==
  Dated(o)' => \/ Dated(o) /\ epoch'[o] = epoch[o]
               \/ ~Dated(o) /\ epoch'[o] = m_nCurEpoch

\* A reader finds only what is linked.
FreshHold(v, o) == o \in hold'[v] => o \in hold[v] \/ mem'[o] = "linked"

\* The synchronize() of u has flipped the bit, or is past both waits.
Active(u) ==
  \/ pc[u] \in {"clear", "popped", "dispose", "asleep"}
  \/ pc[u] \in {"flip", "wait"} /\ flips[u] # 0

\* synchronize() counts its epoch when it begins and keeps it, and returns from its last wait.
Waits(u) ==
  /\ Active(u)' => nEpoch'[u] = nEpoch[u] /\ unpushed'[u] \subseteq unpushed[u] /\ pc[u] \in Counted
  /\ pc'[u] \in Returning =>
       /\ unpushed'[u] \subseteq unpushed[u]
       /\ \/ pc[u] \in Returning \cup {"next", "clear", "popped", "dispose"}
          \/ inst.scheme = "instant" /\ pc[u] = "wait" /\ flips[u] = 2 /\ node[u] = 0
  /\ pc'[u] \in Counted /\ inst.scheme # "instant" =>
       \/ pc[u] \in Counted /\ nEpoch'[u] = nEpoch[u] /\ unpushed'[u] \subseteq unpushed[u]
       \/ nEpoch'[u] = m_nCurEpoch /\ m_nCurEpoch' = m_nCurEpoch + 1

\* What the reclamation thread is told.
Mail ==
  /\ m_pBuffer' => \/ m_pBuffer /\ task' = task
                   \/ \E t \in Thread : pc[t] = "dispose" /\ task' = nEpoch[t]
  /\ dpc' = "pass" => \/ dpc = "pass" /\ nCurEpoch' = nCurEpoch
                      \/ m_pBuffer /\ nCurEpoch' = task

\* A retired object that keeps its epoch is not newly dated.
LEMMA DatedKept ==
  ASSUME NEW x \in Obj,
         mem'[x] = "retired" => mem[x] = "retired" /\ epoch'[x] = epoch[x],
         \A u \in Thread : x \in todo[u] /\ pc[u] \in {"idle", "access"} =>
                             x \in todo'[u] /\ pc'[u] \in {"idle", "access"}
  PROVE  FreshEpoch(x)
  BY DEF FreshEpoch, Dated

\* No object is, when a step leaves the chains alone.
LEMMA DatedQuiet ==
  ASSUME UNCHANGED <<mem, epoch, todo>>,
         \A u \in Thread : pc[u] \in {"idle", "access"} => pc'[u] \in {"idle", "access"} \/ todo[u] = {}
  PROVE  \A x \in Obj : FreshEpoch(x)
  BY DEF FreshEpoch, Dated

\* An object becomes dated with the epoch of the moment.
LEMMA EpochFresh ==
  ASSUME Own, Sections, Control, Hands, Placed, Kinds, inst.scheme # "instant"
  PROVE  \A x \in Obj : FreshEpoch(x)
<1>0. pc \in [Thread -> Labels]
  BY DEF Own
<1>a. todo \in [Thread -> SUBSET Obj] /\ mem \in [Obj -> {"free", "linked", "retired"}]
  BY DEF Control, Hands
<1>b. \A u \in Thread : pc[u] \in {"detached", "attach"} => todo[u] = {}
  BY DEF Hands
<1>1. ASSUME NEW t \in Thread, RecordStep(t) PROVE \A x \in Obj : FreshEpoch(x)
  <2>1. UNCHANGED <<mem, epoch, todo>>
    BY <1>0, <1>1, RecordSteps DEF memVars, retireVars
  <2>. QED
    BY <1>0, <1>1, <2>1, RecordSteps, DatedQuiet DEF Goes
<1>2. ASSUME NEW t \in Thread, AccessStep(t) PROVE \A x \in Obj : FreshEpoch(x)
  <2>1. UNCHANGED <<mem, epoch, todo>>
    BY <1>0, <1>2, AccessSteps DEF retireVars
  <2>. QED
    BY <1>0, <1>2, <2>1, AccessSteps, DatedQuiet DEF Goes
<1>3. ASSUME NEW t \in Thread, PeriodStep(t) PROVE \A x \in Obj : FreshEpoch(x)
  <2>1. UNCHANGED <<mem, epoch, todo>>
    BY <1>0, <1>3, PeriodSteps DEF memVars, retireVars
  <2>. QED
    BY <1>0, <1>3, <2>1, PeriodSteps, DatedQuiet DEF Goes
<1>4. ASSUME NEW t \in Thread, DisposeStep(t) PROVE \A x \in Obj : FreshEpoch(x)
  <2>1. UNCHANGED <<mem, epoch, todo>>
    BY <1>0, <1>4, DisposeSteps DEF memVars, retireVars
  <2>. QED
    BY <1>0, <1>4, <2>1, DisposeSteps, DatedQuiet DEF Goes
<1>5. ASSUME NEW t \in Thread, TurnStep(t) PROVE \A x \in Obj : FreshEpoch(x)
  <2>1. UNCHANGED <<mem, epoch, todo>>
    BY <1>0, <1>5, TurnSteps DEF memVars, retireVars
  <2>. QED
    BY <1>0, <1>5, <2>1, TurnSteps, DatedQuiet DEF Goes
<1>6. ASSUME NEW t \in Thread, HandStep(t) PROVE \A x \in Obj : FreshEpoch(x)
  <2>0. pc[t] # "idle" => \A u \in Thread : pc[u] \in {"idle", "access"} => u # t /\ pc'[u] \in {"idle", "access"}
    BY <1>0, <1>6, HandSteps DEF Goes
  <2>1. CASE RetireInstant(t)
    BY <2>1 DEF RetireInstant, scheme
  <2>2. CASE RetireEpoch(t)
    <3>1. /\ epoch' = [o \in Obj |-> IF o \in todo[t] THEN m_nCurEpoch ELSE epoch[o]]
          /\ UNCHANGED <<mem, todo>> /\ pc[t] = "idle"
          /\ \A u \in Thread : u # t => pc'[u] = pc[u]
      BY <1>0, <2>2 DEF RetireEpoch, memVars, Goto
    <3>2. ASSUME NEW x \in Obj PROVE FreshEpoch(x)
      <4>1. CASE x \in todo[t]
        BY <3>1, <4>1 DEF FreshEpoch, Dated
      <4>2. CASE x \notin todo[t]
        BY <3>1, <4>2, DatedKept
      <4>. QED
        BY <4>1, <4>2
    <3>. QED
      BY <3>2
  <2>3. CASE PushBuffer(t)
    BY <2>0, <2>3, DatedQuiet DEF PushBuffer, memVars
  <2>4. CASE PushFails(t)
    BY <2>0, <2>4, DatedQuiet DEF PushFails, memVars
  <2>5. CASE ClearPop(t)
    BY <2>0, <2>5, DatedQuiet DEF ClearPop, memVars
  <2>6. CASE ClearFree(t)
    <3>1. todo' = todo /\ pc[t] # "idle"
      BY <2>6 DEF ClearFree
    <3>2. \A x \in Obj : mem'[x] = "retired" => mem[x] = "retired" /\ epoch'[x] = epoch[x]
      BY <2>6 DEF ClearFree, Free
    <3>. QED
      BY <2>0, <3>1, <3>2, DatedKept
  <2>7. ASSUME NEW o \in Obj, RetireNext(t, o) PROVE \A x \in Obj : FreshEpoch(x)
    <3>1. UNCHANGED <<mem, epoch>> /\ pc[t] # "idle" /\ \A u \in Thread : u # t => todo'[u] = todo[u]
      BY <1>a, <2>7 DEF RetireNext, memVars
    <3>. QED
      BY <2>0, <3>1, DatedKept
  <2>8. ASSUME NEW o \in Obj, ReturnFree(t, o) PROVE \A x \in Obj : FreshEpoch(x)
    <3>1. todo' = todo /\ pc[t] # "idle"
      BY <2>8 DEF ReturnFree
    <3>2. \A x \in Obj : mem'[x] = "retired" => mem[x] = "retired" /\ epoch'[x] = epoch[x]
      BY <2>8 DEF ReturnFree, Free
    <3>. QED
      BY <2>0, <3>1, <3>2, DatedKept
  <2>. QED
    BY <1>6, <2>1, <2>2, <2>3, <2>4, <2>5, <2>6, <2>7, <2>8 DEF HandStep
<1>7. ASSUME NEW t \in Thread, NEW o \in Obj, Link(t, o) \/ Unlink(t, o) PROVE \A x \in Obj : FreshEpoch(x)
  <2>1. CASE Link(t, o)
    <3>1. UNCHANGED <<epoch, todo, pc>> /\ \A x \in Obj : mem'[x] = "retired" => mem[x] = "retired"
      BY <1>a, <2>1 DEF Link, retireVars
    <3>. QED
      BY <3>1, DatedKept
  <2>2. CASE Unlink(t, o)
    <3>1. /\ UNCHANGED <<epoch, pc>> /\ pc[t] = "idle" /\ o \in todo'[t]
          /\ \A u \in Thread : todo[u] \subseteq todo'[u]
          /\ \A x \in Obj : x # o => mem'[x] = mem[x]
      BY <1>a, <2>2 DEF Unlink
    <3>2. FreshEpoch(o)
      BY <3>1 DEF FreshEpoch, Dated
    <3>. QED
      BY <3>1, <3>2, DatedKept
  <2>. QED
    BY <1>7, <2>1, <2>2
<1>8. CASE MailStep
  <2>1. UNCHANGED <<mem, epoch, todo>>
    BY <1>0, <1>8, MailSteps DEF memVars, retireVars
  <2>. QED
    BY <1>0, <1>8, <2>1, MailSteps, DatedQuiet DEF Goes
<1>9. CASE ExecuteFree
  <2>1. UNCHANGED <<todo, pc>>
    BY <1>9 DEF ExecuteFree
  <2>2. \A x \in Obj : mem'[x] = "retired" => mem[x] = "retired" /\ epoch'[x] = epoch[x]
    BY <1>9 DEF ExecuteFree, Free
  <2>. QED
    BY <2>1, <2>2, DatedKept
<1>10. CASE Destruct
  BY <1>10, DetachedKeepNothing DEF FreshEpoch, Dated
<1>11. CASE UNCHANGED vars
  BY <1>11, DatedQuiet DEF vars, memVars, retireVars
<1>. QED
  BY <1>1, <1>2, <1>3, <1>4, <1>5, <1>6, <1>7, <1>8, <1>9, <1>10, <1>11 DEF Kinds

\* Only what is linked is read.
LEMMA HoldFresh ==
  ASSUME Own, Sections, Kinds
  PROVE  \A v \in Thread, x \in Obj : FreshHold(v, x)
<1>0. pc \in [Thread -> Labels] /\ hold \in [Thread -> SUBSET Obj]
  BY DEF Own, Sections
<1>1. CASE hold' = hold
  BY <1>1 DEF FreshHold
<1>2. ASSUME NEW t \in Thread, AccessStep(t) PROVE \A v \in Thread, x \in Obj : FreshHold(v, x)
  <2>1. CASE AccessUnlock(t)
    BY <1>0, <2>1 DEF AccessUnlock, FreshHold
  <2>2. ASSUME NEW o \in Obj, Read(t, o) PROVE \A v \in Thread, x \in Obj : FreshHold(v, x)
    BY <1>0, <2>2 DEF Read, FreshHold
  <2>3. CASE AccessLoad(t) \/ AccessStore(t) \/ AccessNested(t)
    BY <1>1, <2>3 DEF AccessLoad, AccessStore, AccessNested, memVars
  <2>. QED
    BY <1>2, <2>1, <2>2, <2>3 DEF AccessStep
<1>3. ASSUME NEW t \in Thread, RecordStep(t) \/ PeriodStep(t) PROVE hold' = hold
  BY <1>0, <1>3, RecordSteps, PeriodSteps DEF memVars
<1>4. ASSUME NEW t \in Thread, DisposeStep(t) \/ TurnStep(t) PROVE hold' = hold
  BY <1>0, <1>4, DisposeSteps, TurnSteps DEF memVars
<1>5. ASSUME NEW t \in Thread, HandStep(t) PROVE hold' = hold
  BY <1>0, <1>5, HandSteps
<1>6. ASSUME NEW t \in Thread, NEW o \in Obj, Link(t, o) \/ Unlink(t, o) PROVE hold' = hold
  BY <1>6 DEF Link, Unlink
<1>7. ASSUME MailStep PROVE hold' = hold
  BY <1>0, <1>7, MailSteps DEF memVars
<1>8. ASSUME ExecuteFree \/ Destruct PROVE hold' = hold
  BY <1>8 DEF ExecuteFree, Destruct
<1>9. ASSUME UNCHANGED vars PROVE hold' = hold
  BY <1>9 DEF vars, memVars
<1>. QED
  BY <1>1, <1>2, <1>3, <1>4, <1>5, <1>6, <1>7, <1>8, <1>9 DEF Kinds

\* A step that neither counts an epoch nor moves a pointer changes nobody's wait.
LEMMA WaitsQuiet ==
  ASSUME UNCHANGED <<nEpoch, unpushed>>,
         \A u \in Thread : pc'[u] \in Counted => pc[u] \in Counted,
         \A u \in Thread : pc'[u] \in Returning => pc[u] \in Returning \cup {"next", "clear", "popped", "dispose"}
  PROVE  \A u \in Thread : Waits(u)
<1>1. \A u \in Thread : Active(u)' => pc'[u] \in Counted
  BY DEF Active, Counted
<1>. QED
  BY <1>1 DEF Waits

\* A synchronize() that has begun keeps its epoch and what it waits for.
LEMMA WaitsNext ==
  ASSUME Own, Control, Hands, Kinds
  PROVE  \A u \in Thread : Waits(u)
<1>0. pc \in [Thread -> Labels]
  BY DEF Own
<1>a. flips \in [Thread -> 0 .. 2] /\ nEpoch \in [Thread -> Nat]
  BY DEF Control
<1>b. unpushed \in [Thread -> SUBSET Obj]
  BY DEF Hands
<1>1. ASSUME NEW t \in Thread, RecordStep(t) PROVE \A u \in Thread : Waits(u)
  <2>1. UNCHANGED <<nEpoch, unpushed>>
    BY <1>0, <1>1, RecordSteps DEF syncVars, retireVars
  <2>2. \A u \in Thread : pc'[u] \in Counted \cup Returning => pc'[u] = pc[u]
    BY <1>0, <1>1, RecordSteps DEF Goes, Counted, Returning
  <2>. QED
    BY <2>1, <2>2, WaitsQuiet
<1>2. ASSUME NEW t \in Thread, AccessStep(t) PROVE \A u \in Thread : Waits(u)
  <2>1. UNCHANGED <<nEpoch, unpushed>>
    BY <1>0, <1>2, AccessSteps DEF syncVars, retireVars
  <2>2. \A u \in Thread : pc'[u] \in Counted \cup Returning => pc'[u] = pc[u]
    BY <1>0, <1>2, AccessSteps DEF Goes, Counted, Returning
  <2>. QED
    BY <2>1, <2>2, WaitsQuiet
<1>3. ASSUME NEW t \in Thread, PeriodStep(t) PROVE \A u \in Thread : Waits(u)
  <2>0. unpushed' = unpushed /\ \A u \in Thread : u # t => pc'[u] = pc[u]
    BY <1>0, <1>3, PeriodSteps DEF retireVars, Goes
  <2>a. ASSUME NEW u \in Thread, u # t, nEpoch'[u] = nEpoch[u] PROVE Waits(u)
    BY <2>0, <2>a DEF Waits, Active, Counted
  <2>1. ASSUME NEW b \in BOOLEAN, Synchronize(t, b) PROVE \A u \in Thread : Waits(u)
    <3>1. nEpoch' = nEpoch /\ pc'[t] = "sync"
      BY <1>0, <2>1 DEF Synchronize, Goto
    <3>2. Waits(t)
      BY <3>1 DEF Waits, Active, Counted, Returning
    <3>. QED
      BY <2>a, <3>1, <3>2
  <2>2. CASE SyncEpoch(t)
    <3>1. nEpoch' = [nEpoch EXCEPT ![t] = m_nCurEpoch] /\ m_nCurEpoch' = m_nCurEpoch + 1 /\ pc'[t] = "mutex"
      BY <1>0, <2>2 DEF SyncEpoch, FetchAddEpoch, Goto
    <3>2. Waits(t)
      BY <1>a, <3>1 DEF Waits, Active, Returning
    <3>. QED
      BY <1>a, <2>a, <3>1, <3>2
  <2>3. CASE SyncLock(t)
    <3>0. pc'[t] = "flip" /\ flips'[t] = 0
      <4>1. pc[t] \in {"sync", "mutex"} /\ flips' = flips /\ pc' = [pc EXCEPT ![t] = "flip"]
        BY <2>3 DEF SyncLock, Goto
      <4>2. flips[t] = 0
        BY <4>1 DEF Control
      <4>. QED
        BY <1>0, <4>1, <4>2
    <3>1. \/ pc[t] \in Counted /\ nEpoch' = nEpoch
          \/ nEpoch' = [nEpoch EXCEPT ![t] = m_nCurEpoch] /\ m_nCurEpoch' = m_nCurEpoch + 1
          \/ inst.scheme = "instant" /\ nEpoch' = nEpoch
      BY <2>3 DEF SyncLock, FetchAddEpoch, Counted, scheme, Control
    <3>2. Waits(t)
      BY <1>a, <2>0, <3>0, <3>1 DEF Waits, Active, Returning
    <3>. QED
      BY <1>a, <2>a, <3>1, <3>2
  <2>4. CASE Flip(t) \/ Wait(t) \/ WaitAgain(t)
    <3>1. nEpoch' = nEpoch /\ pc[t] \in {"flip", "wait"} /\ pc'[t] \in {"flip", "wait"}
      BY <1>0, <2>4 DEF Flip, Wait, WaitAgain, Goto, syncVars
    <3>2. Waits(t)
      BY <2>0, <3>1 DEF Waits, Counted, Returning
    <3>. QED
      BY <2>a, <3>1, <3>2
  <2>5. CASE SyncUnlock(t)
    <3>1. /\ nEpoch' = nEpoch /\ pc[t] = "wait" /\ flips[t] = 2 /\ node[t] = 0
          /\ pc'[t] \in {"clear", "dispose", "return"}
          /\ pc'[t] = "return" => inst.scheme = "instant"
      BY <1>0, <2>5 DEF SyncUnlock, AfterSync, Goto, scheme
    <3>2. Waits(t)
      BY <2>0, <3>1 DEF Waits, Counted, Returning
    <3>. QED
      BY <2>a, <3>1, <3>2
  <2>. QED
    BY <1>3, <2>1, <2>2, <2>3, <2>4, <2>5 DEF PeriodStep
<1>4. ASSUME NEW t \in Thread, DisposeStep(t) PROVE \A u \in Thread : Waits(u)
  <2>1. UNCHANGED <<nEpoch, unpushed>>
    BY <1>0, <1>4, DisposeSteps DEF retireVars
  <2>2. \A u \in Thread : /\ pc'[u] \in Counted => pc[u] \in Counted
                          /\ pc'[u] \in Returning => pc[u] \in Returning \cup {"next", "clear", "popped", "dispose"}
    BY <1>0, <1>4, DisposeSteps DEF Goes, Counted, Returning
  <2>. QED
    BY <2>1, <2>2, WaitsQuiet
<1>5. ASSUME NEW t \in Thread, TurnStep(t) PROVE \A u \in Thread : Waits(u)
  <2>1. unpushed' = unpushed
    BY <1>0, <1>5, TurnSteps DEF retireVars
  <2>2. \A u \in Thread : /\ pc'[u] \in Counted => pc[u] = pc'[u]
                          /\ pc'[u] \in Returning => pc[u] \in Returning \cup {"next", "clear", "popped", "dispose"}
    BY <1>0, <1>5, TurnSteps DEF Goes, Counted, Returning
  <2>3. \A u \in Thread : pc'[u] \in Counted => nEpoch'[u] = nEpoch[u]
    <3>1. CASE RetireDone(t)
      BY <1>0, <1>a, <3>1 DEF RetireDone, Goto, Counted
    <3>2. ASSUME Return(t) \/ ClearKeep(t) \/ ClearEmpty(t) PROVE nEpoch' = nEpoch
      BY <3>2 DEF Return, ClearKeep, ClearEmpty, syncVars
    <3>. QED
      BY <1>5, <3>1, <3>2 DEF TurnStep
  <2>4. \A u \in Thread : Active(u)' => pc'[u] \in Counted
    BY DEF Active, Counted
  <2>. QED
    BY <2>1, <2>2, <2>3, <2>4 DEF Waits
<1>6. ASSUME NEW t \in Thread, HandStep(t) PROVE \A u \in Thread : Waits(u)
  <2>0. nEpoch' = nEpoch
    BY <1>0, <1>6, HandSteps DEF syncVars
  <2>1. \A u \in Thread : /\ u # t => pc'[u] = pc[u]
                          /\ pc'[u] \in Counted => pc[u] \in Counted
                          /\ pc'[u] \in Returning => pc[u] \in Returning \cup {"next", "clear", "popped", "dispose"}
    BY <1>0, <1>6, HandSteps DEF Goes, Counted, Returning
  <2>2. /\ \A u \in Thread : u # t => unpushed'[u] = unpushed[u]
        /\ unpushed'[t] \subseteq unpushed[t] \/ pc'[t] = "sync"
    <3>1. CASE unpushed' = unpushed
      BY <3>1
    <3>2. CASE RetireInstant(t)
      BY <1>0, <1>b, <3>2 DEF RetireInstant, Goto
    <3>3. CASE PushFails(t)
      BY <1>0, <1>b, <3>3 DEF PushFails, Goto
    <3>4. ASSUME NEW o \in Obj, ReturnFree(t, o)
          PROVE  /\ \A u \in Thread : u # t => unpushed'[u] = unpushed[u]
                 /\ unpushed'[t] \subseteq unpushed[t]
      BY <1>b, <3>4 DEF ReturnFree
    <3>5. ASSUME NEW o \in Obj, RetireNext(t, o) PROVE unpushed' = unpushed
      BY <3>5 DEF RetireNext
    <3>6. ASSUME RetireEpoch(t) \/ PushBuffer(t) \/ ClearPop(t) \/ ClearFree(t) PROVE unpushed' = unpushed
      BY <3>6 DEF RetireEpoch, PushBuffer, ClearPop, ClearFree
    <3>. QED
      BY <1>6, <3>1, <3>2, <3>3, <3>4, <3>5, <3>6 DEF HandStep
  <2>3. \A u \in Thread : pc'[u] \in Counted \cup Returning => unpushed'[u] \subseteq unpushed[u]
    BY <2>2 DEF Counted, Returning
  <2>4. \A u \in Thread : Active(u)' => pc'[u] \in Counted
    BY DEF Active, Counted
  <2>. QED
    BY <2>0, <2>1, <2>3, <2>4 DEF Waits
<1>7. ASSUME NEW t \in Thread, NEW o \in Obj, Link(t, o) \/ Unlink(t, o) PROVE \A u \in Thread : Waits(u)
  BY <1>7, WaitsQuiet DEF Link, Unlink, syncVars, retireVars
<1>8. CASE MailStep
  <2>1. UNCHANGED <<nEpoch, unpushed>>
    BY <1>0, <1>8, MailSteps DEF retireVars, syncVars
  <2>2. \A u \in Thread : /\ pc'[u] \in Counted => pc[u] \in Counted
                          /\ pc'[u] \in Returning => pc[u] \in Returning \cup {"next", "clear", "popped", "dispose"}
    BY <1>0, <1>8, MailSteps DEF Goes, Counted, Returning
  <2>. QED
    BY <2>1, <2>2, WaitsQuiet
<1>9. CASE ExecuteFree \/ Destruct
  BY <1>9, WaitsQuiet DEF ExecuteFree, Destruct, syncVars, retireVars
<1>10. CASE UNCHANGED vars
  BY <1>10, WaitsQuiet DEF vars, syncVars, retireVars
<1>. QED
  BY <1>1, <1>2, <1>3, <1>4, <1>5, <1>6, <1>7, <1>8, <1>9, <1>10 DEF Kinds

\* The mailbox of the reclamation thread changes only by its own steps.
LEMMA MailKept ==
  ASSUME pc \in [Thread -> Labels], Kinds
  PROVE  \/ UNCHANGED <<m_pBuffer, task, dpc, nCurEpoch>>
         \/ \E t \in Thread : DisposeStep(t)
         \/ MailStep \/ Destruct
<1>1. ASSUME NEW t \in Thread, RecordStep(t) \/ AccessStep(t) \/ PeriodStep(t)
      PROVE  UNCHANGED <<m_pBuffer, task, dpc, nCurEpoch>>
  BY <1>1, RecordSteps, AccessSteps, PeriodSteps DEF dispVars, mailVars
<1>2. ASSUME NEW t \in Thread, TurnStep(t) \/ HandStep(t) PROVE UNCHANGED <<m_pBuffer, task, dpc, nCurEpoch>>
  BY <1>2, TurnSteps, HandSteps DEF dispVars, mailVars
<1>3. ASSUME NEW t \in Thread, NEW o \in Obj, Link(t, o) \/ Unlink(t, o)
      PROVE  UNCHANGED <<m_pBuffer, task, dpc, nCurEpoch>>
  BY <1>3 DEF Link, Unlink, dispVars, mailVars
<1>4. ASSUME ExecuteFree PROVE UNCHANGED <<m_pBuffer, task, dpc, nCurEpoch>>
  BY <1>4 DEF ExecuteFree, dispVars, mailVars
<1>5. ASSUME UNCHANGED vars PROVE UNCHANGED <<m_pBuffer, task, dpc, nCurEpoch>>
  BY <1>5 DEF vars, dispVars, mailVars
<1>. QED
  BY <1>1, <1>2, <1>3, <1>4, <1>5 DEF Kinds

\* The reclamation thread is told only the epoch of a synchronize() that has waited.
LEMMA MailNext ==
  ASSUME Own, Control, Kinds
  PROVE  Mail
<1>0. pc \in [Thread -> Labels]
  BY DEF Own
<1>1. ASSUME NEW t \in Thread, DisposeStep(t) PROVE Mail
  <2>0. UNCHANGED <<dpc, nCurEpoch>>
    BY <1>0, <1>1, DisposeSteps DEF dispVars
  <2>1. CASE DisposeSleep(t)
    BY <2>0, <2>1 DEF Mail, DisposeSleep, mailVars
  <2>2. CASE DisposeGive(t)
    BY <2>0, <2>2 DEF Mail, DisposeGive
  <2>3. CASE DisposeAwaited(t)
    BY <2>0, <2>3 DEF Mail, DisposeAwaited, mailVars
  <2>. QED
    BY <1>1, <2>1, <2>2, <2>3 DEF DisposeStep
<1>2. CASE MailStep
  <2>1. CASE ExecuteReady
    BY <2>1 DEF Mail, ExecuteReady
  <2>2. CASE ExecuteNotify
    BY <2>2 DEF Mail, ExecuteNotify, mailVars
  <2>3. CASE ExecuteTake
    BY <2>3 DEF Mail, ExecuteTake
  <2>4. CASE ExecutePassed
    BY <2>4 DEF Mail, ExecutePassed, mailVars
  <2>. QED
    BY <1>2, <2>1, <2>2, <2>3, <2>4 DEF MailStep
<1>3. CASE Destruct
  BY <1>3 DEF Mail, Destruct, Control
<1>4. CASE UNCHANGED <<m_pBuffer, task, dpc, nCurEpoch>>
  BY <1>4 DEF Mail
<1>. QED
  BY <1>0, <1>1, <1>2, <1>3, <1>4, MailKept

\* The epoch counter starts again only with a new instance.
LEMMA EpochGrows ==
  ASSUME pc \in [Thread -> Labels], m_nCurEpoch \in Nat, Kinds
  PROVE  Destruct \/ m_nCurEpoch' \in {m_nCurEpoch, m_nCurEpoch + 1}
<1>1. ASSUME NEW t \in Thread, RecordStep(t) \/ AccessStep(t) PROVE m_nCurEpoch' = m_nCurEpoch
  BY <1>1, RecordSteps, AccessSteps DEF gpVars
<1>2. ASSUME NEW t \in Thread, PeriodStep(t) PROVE m_nCurEpoch' \in {m_nCurEpoch, m_nCurEpoch + 1}
  BY <1>2 DEF PeriodStep, Synchronize, SyncEpoch, SyncLock, Flip, Wait, WaitAgain, SyncUnlock, FetchAddEpoch, gpVars
<1>3. ASSUME NEW t \in Thread, DisposeStep(t) \/ TurnStep(t) \/ HandStep(t) PROVE m_nCurEpoch' = m_nCurEpoch
  BY <1>3, DisposeSteps, TurnSteps, HandSteps DEF gpVars
<1>4. ASSUME NEW t \in Thread, NEW o \in Obj, Link(t, o) \/ Unlink(t, o) PROVE m_nCurEpoch' = m_nCurEpoch
  BY <1>4 DEF Link, Unlink, gpVars
<1>5. ASSUME MailStep PROVE m_nCurEpoch' = m_nCurEpoch
  BY <1>5, MailSteps DEF gpVars
<1>6. ASSUME ExecuteFree \/ UNCHANGED vars PROVE m_nCurEpoch' = m_nCurEpoch
  BY <1>6 DEF ExecuteFree, vars, gpVars
<1>. QED
  BY <1>1, <1>2, <1>3, <1>4, <1>5, <1>6 DEF Kinds

\* An instance keeps its scheme.
LEMMA SchemeKept ==
  ASSUME pc \in [Thread -> Labels], Kinds
  PROVE  inst' = inst
<1>1. ASSUME NEW t \in Thread, RecordStep(t) \/ AccessStep(t) \/ PeriodStep(t) PROVE inst' = inst
  BY <1>1, RecordSteps, AccessSteps, PeriodSteps
<1>2. ASSUME NEW t \in Thread, DisposeStep(t) \/ TurnStep(t) \/ HandStep(t) PROVE inst' = inst
  BY <1>2, DisposeSteps, TurnSteps, HandSteps
<1>3. ASSUME NEW t \in Thread, NEW o \in Obj, Link(t, o) \/ Unlink(t, o) PROVE inst' = inst
  BY <1>3 DEF Link, Unlink
<1>4. ASSUME MailStep PROVE inst' = inst
  BY <1>4, MailSteps
<1>5. ASSUME ExecuteFree \/ Destruct \/ UNCHANGED vars PROVE inst' = inst
  BY <1>5 DEF ExecuteFree, Destruct, vars
<1>. QED
  BY <1>1, <1>2, <1>3, <1>4, <1>5 DEF Kinds

\* Every step keeps the order of the epochs.
LEMMA EpochsNext ==
  ASSUME Own, Sections, Control, Hands, Placed, Epochs, Kinds,
         Control', Hands', Placed'
  PROVE  Epochs'
<1>0. inst' = inst
  BY SchemeKept DEF Own
<1>1. SUFFICES ASSUME inst.scheme # "instant" PROVE Epochs'
  BY <1>0 DEF Epochs
<1>a. /\ m_nCurEpoch \in Nat /\ nEpoch \in [Thread -> Nat] /\ task \in Nat /\ nCurEpoch \in Nat
  BY DEF Control
<1>b. epoch \in [Obj -> Nat]
  BY DEF Hands
<1>c. /\ \A o \in Obj : Dated(o) => epoch[o] <= m_nCurEpoch
      /\ \A u \in Thread : pc[u] \in Counted => nEpoch[u] < m_nCurEpoch
      /\ \A u \in Thread : pc[u] \in Counted => \A o \in unpushed[u] : epoch[o] <= nEpoch[u]
      /\ m_pBuffer => task < m_nCurEpoch
      /\ dpc = "pass" => nCurEpoch < m_nCurEpoch
  BY <1>1 DEF Epochs
<1>2. CASE Destruct
  <2>1. /\ \A o \in Obj : ~Dated(o)'
        /\ \A u \in Thread : pc'[u] \notin Counted
        /\ ~m_pBuffer' /\ dpc' # "pass"
    <3>1. (\A o \in Obj : mem'[o] # "retired") /\ ~m_pBuffer
      BY <1>2, DetachedKeepNothing
    <3>. QED
      BY <1>2, <3>1 DEF Destruct, Dated, Counted
  <2>. QED
    BY <2>1 DEF Epochs
<1>3. ASSUME m_nCurEpoch' \in {m_nCurEpoch, m_nCurEpoch + 1} PROVE Epochs'
  <2>1. \A o \in Obj : Dated(o)' => epoch'[o] <= m_nCurEpoch /\ (Dated(o) => epoch'[o] = epoch[o])
    <3>1. \A o \in Obj : FreshEpoch(o)
      BY <1>1, EpochFresh
    <3>2. ASSUME NEW o \in Obj, Dated(o)', Dated(o) /\ epoch'[o] = epoch[o] PROVE epoch'[o] <= m_nCurEpoch
      BY <1>c, <3>2
    <3>3. m_nCurEpoch <= m_nCurEpoch
      BY SMT, <1>a
    <3>. QED
      BY <3>1, <3>2, <3>3 DEF FreshEpoch
  <2>2. \A u \in Thread : pc'[u] \in Counted =>
          \/ pc[u] \in Counted /\ nEpoch'[u] = nEpoch[u] /\ unpushed'[u] \subseteq unpushed[u]
          \/ nEpoch'[u] = m_nCurEpoch /\ m_nCurEpoch' = m_nCurEpoch + 1
    BY <1>1, WaitsNext DEF Waits
  <2>3. \A u \in Thread : /\ \A o \in unpushed[u] : o \in Obj /\ Dated(o)
                          /\ \A o \in unpushed'[u] : o \in Obj /\ Dated(o)'
    <3>1. \A t \in Thread : \A o \in unpushed[t] : o \in Obj /\ Dated(o)
      BY HandsDated
    <3>2. (\A t \in Thread : \A o \in unpushed[t] : o \in Obj /\ Dated(o))'
      BY HandsDated, PTL
    <3>. QED
      BY <3>1, <3>2
  <2>4. \A o \in Obj : Dated(o)' => epoch'[o] <= m_nCurEpoch'
    <3>1. epoch' \in [Obj -> Nat]
      BY DEF Hands
    <3>. QED
      BY SMT, <1>3, <1>a, <2>1, <3>1
  <2>5. \A u \in Thread : pc'[u] \in Counted => nEpoch'[u] < m_nCurEpoch'
    BY SMT, <1>3, <1>a, <1>c, <2>2
  <2>6. ASSUME NEW u \in Thread, pc'[u] \in Counted, NEW o \in unpushed'[u] PROVE epoch'[o] <= nEpoch'[u]
    <3>1. o \in Obj /\ Dated(o)' /\ epoch'[o] <= m_nCurEpoch /\ (Dated(o) => epoch'[o] = epoch[o])
      BY <2>1, <2>3, <2>6
    <3>2. CASE nEpoch'[u] = m_nCurEpoch
      BY <3>1, <3>2
    <3>3. CASE pc[u] \in Counted /\ nEpoch'[u] = nEpoch[u] /\ unpushed'[u] \subseteq unpushed[u]
      <4>1. o \in unpushed[u] /\ Dated(o)
        BY <2>3, <3>3
      <4>2. epoch[o] <= nEpoch[u]
        BY <1>c, <3>3, <4>1
      <4>. QED
        BY <3>1, <3>3, <4>1, <4>2
    <3>. QED
      BY <2>2, <2>6, <3>2, <3>3
  <2>7. m_pBuffer' => task' < m_nCurEpoch'
    <3>1. m_pBuffer' => \/ m_pBuffer /\ task' = task
                        \/ \E t \in Thread : pc[t] \in Counted /\ task' = nEpoch[t]
      BY MailNext DEF Mail, Counted
    <3>. QED
      BY SMT, <1>3, <1>a, <1>c, <3>1
  <2>8. dpc' = "pass" => nCurEpoch' < m_nCurEpoch'
    <3>1. dpc' = "pass" => \/ dpc = "pass" /\ nCurEpoch' = nCurEpoch
                           \/ m_pBuffer /\ nCurEpoch' = task
      BY MailNext DEF Mail
    <3>. QED
      BY SMT, <1>3, <1>a, <1>c, <3>1
  <2>. QED
    BY <2>4, <2>5, <2>6, <2>7, <2>8 DEF Epochs
<1>. QED
  BY <1>2, <1>3, <1>a, EpochGrows DEF Own

-----------------------------------------------------------------------------
(* The objects the synchronize() of u waits for, and what holding one implies. *)

\* o must be waited for by u.
Covers(u, o) ==
  IF inst.scheme = "instant" THEN o \in unpushed[u] ELSE Dated(o) /\ epoch[o] <= nEpoch[u]

\* No section has found o.
Unheld(o) == \A t \in Thread : o \notin hold[t]

\* What the section of t has to be while u waits.
Stage(u, t) ==
  /\ pc[u] = "wait" /\ flips[u] = 1 /\ rec[t] > node[u] => ctl[rec[t]] = bit
  /\ pc[u] = "flip" /\ flips[u] = 1 => ctl[rec[t]] = bit
  /\ pc[u] = "wait" /\ flips[u] = 2 => ctl[rec[t]] # bit /\ rec[t] <= node[u]
  /\ pc[u] \notin {"clear", "popped", "dispose", "asleep"}

\* Who holds what u waits for shows it.
Staged == \A u, t \in Thread, o \in Obj : Covers(u, o) /\ o \in hold[t] => Stage(u, t)

\* After the wait nobody holds what the caller frees.
Returned == \A u \in Thread : pc[u] \in Returning => \A o \in unpushed[u] : Unheld(o)

\* Nor what the reclamation thread frees.
Passed ==
  /\ m_pBuffer => \A o \in Obj : Dated(o) /\ epoch[o] <= task => Unheld(o)
  /\ dpc = "pass" => \A o \in Obj : Dated(o) /\ epoch[o] <= nCurEpoch => Unheld(o)

\* The grace period.
Grace == Staged /\ Returned /\ Passed

\* The inductive invariant.
Inv == Own /\ Sections /\ Control /\ Hands /\ Placed /\ Epochs /\ Grace /\ ReadNotFreed

\* Nothing is retired at the start.
LEMMA GraceInit == Init => Grace /\ ReadNotFreed
  BY ConstantsAssumption
     DEF Init, Grace, Staged, Returned, Returning, Passed, Covers, Dated, Unheld, ReadNotFreed

-----------------------------------------------------------------------------
(* The two calls of flip_and_wait *)

\* Whoever holds an object is in a section, on a record of its own.
LEMMA Holder ==
  ASSUME Own, Sections, NEW v \in Thread, hold[v] # {}
  PROVE  /\ rec[v] \in Rec /\ rec[v] \in Nat /\ rec[v] > 0 /\ rec[v] <= list
         /\ owner[rec[v]] = v
         /\ nest[rec[v]] \in Nat /\ nest[rec[v]] > 0
         /\ pc[v] = "idle"
<1>1. rec[v] \in Rec /\ rec[v] \in Nat /\ rec[v] > 0 /\ rec[v] <= list /\ owner[rec[v]] = v
  BY SMT, ConstantsAssumption DEF Own, Sections, Rec
<1>. QED
  BY SMTT(40), <1>1, NestsPositive DEF Sections

\* flips[u] between the two calls of flip_and_wait.
LEMMA FlipCounts == \A f \in 0 .. 2 : (0 < f /\ f < 2 => f = 1) /\ (f + 1 = 2 => f = 1)
  BY SMT

\* A step that changes neither the bits nor the walk of u keeps the stage.
LEMMA StageQuiet ==
  ASSUME NEW u \in Thread, NEW v \in Thread, Stage(u, v),
         bit' = bit, flips'[u] = flips[u],
         rec'[v] = rec[v], ctl'[rec[v]] = ctl[rec[v]],
         pc'[u] \in {"flip", "wait"} => pc[u] = pc'[u] /\ node'[u] = node[u],
         pc'[u] \in {"clear", "popped", "dispose", "asleep"} =>
           pc[u] \in {"clear", "popped", "dispose", "asleep"}
  PROVE  Stage(u, v)'
  BY DEF Stage

\* The steps of attach_thread and detach_thread change their own thread only.
LEMMA RecordOthers ==
  ASSUME Own, NEW t \in Thread, RecordStep(t), NEW u \in Thread, u # t
  PROVE  rec'[u] = rec[u] /\ node'[u] = node[u]
<1>0. rec \in [Thread -> 0 .. list] /\ node \in [Thread -> 0 .. list]
  BY DEF Own
<1>1. CASE Attach(t)
  BY <1>0, <1>1 DEF Attach, recVars
<1>2. CASE AttachSkip(t)
  BY <1>0, <1>2 DEF AttachSkip, recVars
<1>3. CASE AttachReuse(t)
  BY <1>0, <1>3 DEF AttachReuse
<1>4. CASE AttachNew(t)
  BY <1>0, <1>4 DEF AttachNew
<1>5. CASE Detach(t)
  BY <1>0, <1>5 DEF Detach
<1>. QED
  BY <1>1, <1>2, <1>3, <1>4, <1>5 DEF RecordStep

\* access_lock and access_unlock leave the control word of everybody who still holds
\* an object afterwards.
LEMMA AccessOthers ==
  ASSUME Own, Sections, NEW t \in Thread, AccessStep(t),
         NEW v \in Thread, hold[v] # {}, hold'[v] # {}
  PROVE  ctl'[rec[v]] = ctl[rec[v]]
<1>0. /\ rec[v] \in Rec /\ rec[v] \in Nat /\ rec[v] > 0 /\ rec[v] <= list
      /\ owner[rec[v]] = v
      /\ nest[rec[v]] \in Nat /\ nest[rec[v]] > 0
      /\ pc[v] = "idle"
  BY Holder
<1>a. ctl \in [Rec -> 0 .. 1] /\ hold \in [Thread -> SUBSET Obj]
  BY DEF Sections
<1>b. rec[t] # 0 /\ t # v => rec[t] # rec[v]
  BY <1>0 DEF Own
<1>1. CASE AccessLoad(t) \/ AccessNested(t)
  BY <1>1, <1>a DEF AccessLoad, AccessNested, accessVars
<1>2. CASE AccessStore(t)
  <2>1. rec[t] # 0 /\ t # v
    BY <1>0, <1>2 DEF AccessStore, Own
  <2>. QED
    BY <1>0, <1>2, <1>a, <1>b, <2>1 DEF AccessStore
<1>3. CASE AccessUnlock(t)
  <2>1. CASE t = v
    BY <1>0, <1>3, <1>a, <2>1 DEF AccessUnlock
  <2>2. CASE t # v
    BY <1>0, <1>3, <1>a, <1>b, <2>2 DEF AccessUnlock, InSection
  <2>. QED
    BY <2>1, <2>2
<1>4. ASSUME NEW o \in Obj, Read(t, o) PROVE ctl' = ctl
  BY <1>4 DEF Read, accessVars
<1>. QED
  BY <1>1, <1>2, <1>3, <1>4, AccessStep(t) DEF AccessStep

\* The steps of synchronize() keep whoever holds an object where flip_and_wait finds it.
LEMMA StagePeriod ==
  ASSUME Own, Sections, Control, NEW t \in Thread, PeriodStep(t),
         NEW u \in Thread, NEW v \in Thread, hold[v] # {}, Active(u)', Stage(u, v)
  PROVE  Stage(u, v)'
<1>0. pc \in [Thread -> Labels]
  BY DEF Own
<1>a. /\ rec[v] \in Rec /\ rec[v] \in Nat /\ rec[v] > 0 /\ rec[v] <= list
      /\ owner[rec[v]] = v
      /\ nest[rec[v]] \in Nat /\ nest[rec[v]] > 0
      /\ pc[v] = "idle"
  BY Holder
<1>b. rec' = rec /\ ctl' = ctl /\ (u # t => pc'[u] = pc[u])
  BY <1>0, PeriodSteps DEF recVars, accessVars, Goes
<1>c. flips \in [Thread -> 0 .. 2] /\ node \in [Thread -> 0 .. list] /\ bit \in {0, 1} /\ list \in Nat
  BY SMT, ConstantsAssumption DEF Control, Own, Sections
<1>1. CASE \E b \in BOOLEAN : Synchronize(t, b)
  BY <1>0, <1>1, <1>b, StageQuiet DEF Synchronize, Goto, gpVars
<1>2. CASE SyncEpoch(t)
  BY <1>0, <1>2, <1>b, StageQuiet DEF SyncEpoch, Goto
<1>3. CASE SyncLock(t)
  <2>1. bit' = bit /\ flips' = flips /\ node' = node /\ (u = t => pc'[u] = "flip" /\ pc[u] \in {"sync", "mutex"})
    BY <1>0, <1>3 DEF SyncLock, Goto
  <2>2. u # t
    BY <2>1 DEF Active, Control
  <2>. QED
    BY <1>b, <2>1, <2>2, StageQuiet
<1>4. CASE Flip(t)
  <2>1. u = t
    <3>1. u # t => pc[u] \notin {"flip", "wait"}
      <4>1. pc[t] = "flip"
        BY <1>4 DEF Flip
      <4>2. \A w \in Thread : pc[w] \in {"flip", "wait"} <=> lock = w
        BY DEF Control
      <4>. QED
        BY <4>1, <4>2
    <3>. QED
      BY <1>b, <3>1 DEF Active, Stage
  <2>2. pc[u] = "flip" /\ pc'[u] = "wait" /\ node'[u] = list /\ flips'[u] = flips[u] + 1 /\ bit' = 1 - bit
    BY ZenonT(60), <1>0, <1>4, <1>c, <2>1 DEF Flip, Goto
  <2>3. rec[v] <= node'[u] /\ ~(rec[v] > node'[u])
    BY SMT, <1>a, <1>c, <2>2
  <2>4. flips'[u] = 2 => ctl[rec[v]] # bit'
    <3>1. flips'[u] = 2 => flips[u] = 1
      BY <1>c, <2>2, FlipCounts
    <3>2. bit # bit'
      BY SMT, <1>c, <2>2
    <3>. QED
      BY <2>2, <3>1, <3>2 DEF Stage
  <2>. QED
    BY <1>b, <2>2, <2>3, <2>4 DEF Stage
<1>5. CASE Wait(t)
  <2>1. UNCHANGED <<bit, flips, pc>>
    BY <1>5 DEF Wait, gpVars, syncVars
  <2>2. CASE u # t
    BY <1>5, <1>b, <1>c, <2>1, <2>2, StageQuiet DEF Wait
  <2>3. CASE u = t
    <3>1. pc[u] = "wait" /\ node'[u] = node[u] - 1 /\ node[u] \in Nat
      BY SMT, <1>5, <1>c, <2>3 DEF Wait
    <3>2. rec[v] = node[u] => ctl[rec[v]] = bit
      <4>1. rec[v] = node[u] => ~check_grace_period(rec[v])
        BY <1>5, <1>a, <2>3, ConstantsAssumption DEF Wait
      <4>. QED
        BY <1>a, <4>1 DEF check_grace_period
    <3>3. rec[v] > node'[u] => rec[v] > node[u] \/ rec[v] = node[u]
      BY SMTT(40), <1>a, <3>1
    <3>4. rec[v] <= node[u] /\ rec[v] # node[u] => rec[v] <= node'[u]
      BY SMT, <1>a, <3>1
    <3>. QED
      BY <1>b, <2>1, <3>1, <3>2, <3>3, <3>4 DEF Stage
  <2>. QED
    BY <2>2, <2>3
<1>6. CASE WaitAgain(t)
  <2>1. UNCHANGED <<bit, flips, node>>
    BY <1>6 DEF WaitAgain, gpVars, syncVars
  <2>2. CASE u # t
    BY <1>b, <2>1, <2>2, StageQuiet
  <2>3. CASE u = t
    <3>1. pc'[u] = "flip" /\ pc[u] = "wait" /\ node[u] = 0 /\ flips[u] < 2
      BY <1>0, <1>6, <2>3 DEF WaitAgain, Goto
    <3>2. 0 < flips[u]
      BY <3>1 DEF Control
    <3>3. flips[u] = 1
      BY <1>c, <3>1, <3>2, FlipCounts
    <3>4. rec[v] > node[u]
      BY <1>a, <3>1
    <3>. QED
      BY <1>b, <2>1, <3>1, <3>3, <3>4 DEF Stage
  <2>. QED
    BY <2>2, <2>3
<1>7. CASE SyncUnlock(t)
  <2>1. u # t
    <3>1. pc[t] = "wait" /\ node[t] = 0 /\ flips[t] = 2
      BY <1>7 DEF SyncUnlock
    <3>. QED
      BY SMT, <1>a, <3>1 DEF Stage
  <2>2. bit' = bit /\ node' = node /\ flips'[u] = flips[u]
    BY <1>7, <1>c, <2>1 DEF SyncUnlock
  <2>. QED
    BY <1>b, <2>1, <2>2, StageQuiet
<1>. QED
  BY <1>1, <1>2, <1>3, <1>4, <1>5, <1>6, <1>7, PeriodStep(t) DEF PeriodStep

\* So do all the others.
LEMMA StageNext ==
  ASSUME Own, Sections, Control, Kinds,
         NEW u \in Thread, NEW v \in Thread, hold[v] # {}, hold'[v] # {}, Active(u)', Stage(u, v)
  PROVE  Stage(u, v)'
<1>0. pc \in [Thread -> Labels]
  BY DEF Own
<1>a. pc[v] = "idle" /\ InSection(v)
  BY SMT, Holder DEF InSection
<1>1. ASSUME NEW t \in Thread, RecordStep(t) PROVE Stage(u, v)'
  <2>1. v # t
    BY <1>0, <1>1, <1>a, RecordSteps
  <2>2. UNCHANGED <<bit, flips, ctl>> /\ Goes(t, {"detached", "attach", "idle"}, {"detached", "attach", "idle"})
    BY <1>0, <1>1, RecordSteps DEF gpVars, syncVars, accessVars
  <2>3. rec'[v] = rec[v] /\ (u # t => node'[u] = node[u])
    BY <1>1, <2>1, RecordOthers
  <2>. QED
    BY <2>2, <2>3, StageQuiet DEF Goes
<1>2. ASSUME NEW t \in Thread, AccessStep(t) PROVE Stage(u, v)'
  <2>1. UNCHANGED <<bit, flips, rec, node>> /\ Goes(t, {"idle", "access"}, {"idle", "access"})
    BY <1>0, <1>2, AccessSteps DEF gpVars, syncVars, recVars
  <2>2. ctl'[rec[v]] = ctl[rec[v]]
    BY <1>2, AccessOthers
  <2>. QED
    BY <2>1, <2>2, StageQuiet DEF Goes
<1>3. ASSUME NEW t \in Thread, PeriodStep(t) PROVE Stage(u, v)'
  BY <1>3, StagePeriod
<1>4. ASSUME NEW t \in Thread, DisposeStep(t) PROVE Stage(u, v)'
  <2>1. UNCHANGED <<bit, flips, rec, node, ctl>>
    BY <1>0, <1>4, DisposeSteps DEF gpVars, recVars, accessVars
  <2>. QED
    BY <1>0, <1>4, <2>1, DisposeSteps, StageQuiet DEF Goes
<1>5. ASSUME NEW t \in Thread, TurnStep(t) PROVE Stage(u, v)'
  <2>1. UNCHANGED <<bit, flips, rec, node, ctl>>
    BY <1>0, <1>5, TurnSteps DEF gpVars, recVars, accessVars
  <2>. QED
    BY <1>0, <1>5, <2>1, TurnSteps, StageQuiet DEF Goes
<1>6. ASSUME NEW t \in Thread, HandStep(t) PROVE Stage(u, v)'
  <2>1. UNCHANGED <<bit, flips, rec, node, ctl>>
    BY <1>0, <1>6, HandSteps DEF gpVars, syncVars, recVars, accessVars
  <2>. QED
    BY <1>0, <1>6, <2>1, HandSteps, StageQuiet DEF Goes
<1>7. ASSUME NEW t \in Thread, NEW o \in Obj, Link(t, o) \/ Unlink(t, o) PROVE Stage(u, v)'
  BY <1>7, StageQuiet DEF Link, Unlink, gpVars, syncVars, recVars, accessVars
<1>8. CASE MailStep
  <2>1. UNCHANGED <<bit, flips, rec, node, ctl>>
    BY <1>0, <1>8, MailSteps DEF gpVars, syncVars, recVars, accessVars
  <2>. QED
    BY <1>0, <1>8, <2>1, MailSteps, StageQuiet DEF Goes
<1>9. CASE ExecuteFree
  BY <1>9, StageQuiet DEF ExecuteFree, gpVars, syncVars, recVars, accessVars
<1>10. CASE Destruct
  BY <1>10, <1>a DEF Destruct
<1>11. CASE UNCHANGED vars
  BY <1>11, StageQuiet DEF vars, gpVars, syncVars, recVars, accessVars
<1>. QED
  BY <1>1, <1>2, <1>3, <1>4, <1>5, <1>6, <1>7, <1>8, <1>9, <1>10, <1>11 DEF Kinds

\* What a thread is left to free is retired after the step.
LEMMA UnpushedRetired ==
  ASSUME Hands, Placed
  PROVE  \A t \in Thread, o \in Obj : o \in unpushed[t] => mem[o] = "retired"
  BY InHands DEF Has

\* What synchronize() covers while it waits and somebody holds, was covered and held
\* before the step.
LEMMA CoversKept ==
  ASSUME Own, Sections, Control, Hands, Placed, Epochs, Kinds, Hands', Placed',
         NEW u \in Thread, NEW v \in Thread, NEW x \in Obj,
         Active(u)', Covers(u, x)', x \in hold'[v]
  PROVE  Covers(u, x) /\ x \in hold[v]
<1>1. /\ nEpoch'[u] = nEpoch[u] /\ unpushed'[u] \subseteq unpushed[u] /\ pc[u] \in Counted
  BY WaitsNext DEF Waits
<1>2. inst' = inst
  BY SchemeKept DEF Own
<1>3. mem'[x] = "retired" => x \in hold[v]
  BY HoldFresh DEF FreshHold
<1>4. CASE inst.scheme = "instant"
  <2>1. x \in unpushed'[u] /\ x \in unpushed[u]
    BY <1>1, <1>2, <1>4 DEF Covers
  <2>2. (\A t \in Thread, o \in Obj : o \in unpushed[t] => mem[o] = "retired")'
    BY UnpushedRetired, PTL
  <2>3. mem'[x] = "retired"
    BY <2>1, <2>2
  <2>. QED
    BY <1>3, <1>4, <2>1, <2>3 DEF Covers
<1>5. CASE inst.scheme # "instant"
  <2>1. Dated(x)' /\ epoch'[x] <= nEpoch[u]
    BY <1>1, <1>2, <1>5 DEF Covers
  <2>2. mem'[x] = "retired"
    BY <2>1 DEF Dated
  <2>3. nEpoch[u] < m_nCurEpoch /\ nEpoch[u] \in Nat /\ m_nCurEpoch \in Nat
    BY <1>1, <1>5 DEF Epochs, Control
  <2>4. FreshEpoch(x)
    BY <1>5, EpochFresh
  <2>5. Dated(x) /\ epoch'[x] = epoch[x]
    BY SMT, <2>1, <2>3, <2>4 DEF FreshEpoch
  <2>. QED
    BY <1>3, <1>5, <2>1, <2>2, <2>5 DEF Covers
<1>. QED
  BY <1>4, <1>5

\* So whoever holds what synchronize() covers is still to be waited for after the step.
LEMMA StagedNext ==
  ASSUME Own, Sections, Control, Hands, Placed, Epochs, Staged, Kinds, Hands', Placed'
  PROVE  Staged'
<1> SUFFICES ASSUME NEW u \in Thread, NEW v \in Thread, NEW x \in Obj, Covers(u, x)', x \in hold'[v]
             PROVE  Stage(u, v)'
  BY DEF Staged
<1>1. CASE Active(u)'
  <2>1. Covers(u, x) /\ x \in hold[v]
    BY <1>1, CoversKept
  <2>2. Stage(u, v)
    BY <2>1 DEF Staged
  <2>3. hold[v] # {} /\ hold'[v] # {}
    BY ZenonT(60), <2>1
  <2>. QED
    BY <1>1, <2>2, <2>3, StageNext
<1>2. CASE ~Active(u)'
  BY SMT, <1>2 DEF Active, Stage
<1>. QED
  BY <1>1, <1>2

\* After synchronize() nobody holds what its caller will free.
LEMMA ReturnedNext ==
  ASSUME Own, Sections, Control, Hands, Placed, Epochs, Staged, Returned, Kinds, Hands', Placed'
  PROVE  Returned'
<1> SUFFICES ASSUME NEW u \in Thread, NEW v \in Thread, NEW x \in Obj,
                    pc'[u] \in Returning, x \in unpushed'[u], x \in hold'[v]
             PROVE  FALSE
  <2>1. unpushed' \in [Thread -> SUBSET Obj]
    BY DEF Hands
  <2>. QED
    BY <2>1 DEF Returned, Unheld
<1>1. /\ x \in unpushed[u]
      /\ \/ pc[u] \in Returning \cup {"next", "clear", "popped", "dispose"}
         \/ inst.scheme = "instant" /\ pc[u] = "wait" /\ flips[u] = 2 /\ node[u] = 0
  BY WaitsNext DEF Waits
<1>2. x \in hold[v]
  <2>1. (\A t \in Thread, o \in Obj : o \in unpushed[t] => mem[o] = "retired")'
    BY UnpushedRetired, PTL
  <2>2. mem'[x] = "retired"
    BY <2>1
  <2>. QED
    BY <2>2, HoldFresh DEF FreshHold
<1>3. pc[u] \notin Returning
  BY <1>1, <1>2 DEF Returned, Unheld
<1>4. pc[u] # "next"
  BY <1>1 DEF Hands
<1>5. CASE pc[u] \in {"clear", "popped", "dispose"}
  <2>1. inst.scheme # "instant"
    BY <1>5 DEF Control, Suits
  <2>2. Dated(x)
    BY <1>1, HandsDated
  <2>3. epoch[x] <= nEpoch[u]
    BY <1>1, <1>5, <2>1 DEF Epochs, Counted
  <2>4. Stage(u, v)
    BY <1>2, <2>1, <2>2, <2>3 DEF Staged, Covers
  <2>. QED
    BY <1>5, <2>4 DEF Stage
<1>6. CASE inst.scheme = "instant" /\ pc[u] = "wait" /\ flips[u] = 2 /\ node[u] = 0
  <2>1. rec[v] \in Nat /\ rec[v] > 0
    BY <1>2, Holder
  <2>2. Stage(u, v)
    BY <1>1, <1>2, <1>6 DEF Staged, Covers
  <2>. QED
    BY SMT, <1>6, <2>1, <2>2 DEF Stage
<1>. QED
  BY <1>1, <1>3, <1>4, <1>5, <1>6

\* Nobody holds what the reclamation thread has been told to free.
LEMMA PassedNext ==
  ASSUME Own, Sections, Control, Hands, Placed, Epochs, Staged, Passed, Kinds
  PROVE  Passed'
<1>0. /\ m_nCurEpoch \in Nat /\ nEpoch \in [Thread -> Nat] /\ task \in Nat /\ nCurEpoch \in Nat
      /\ m_pBuffer => inst.scheme # "instant"
      /\ dpc = "pass" => inst.scheme # "instant"
      /\ \A t \in Thread : pc[t] = "dispose" => inst.scheme # "instant"
  BY DEF Control, Suits
<1>1. ASSUME NEW e \in Nat, NEW v \in Thread, NEW x \in Obj, inst.scheme # "instant",
             e < m_nCurEpoch, Dated(x)', epoch'[x] <= e, x \in hold'[v]
      PROVE  Dated(x) /\ epoch[x] <= e /\ x \in hold[v]
  <2>0. FreshEpoch(x) /\ FreshHold(v, x)
    BY <1>1, EpochFresh, HoldFresh
  <2>1. Dated(x) /\ epoch'[x] = epoch[x]
    BY SMT, <1>0, <1>1, <2>0 DEF FreshEpoch
  <2>2. mem'[x] = "retired"
    BY <1>1 DEF Dated
  <2>. QED
    BY <1>1, <2>0, <2>1, <2>2 DEF FreshHold
<1>2. ASSUME m_pBuffer', NEW v \in Thread, NEW x \in Obj, Dated(x)', epoch'[x] <= task', x \in hold'[v]
      PROVE  FALSE
  <2>1. CASE m_pBuffer /\ task' = task
    <3>1. inst.scheme # "instant" /\ task < m_nCurEpoch
      BY <1>0, <2>1 DEF Epochs
    <3>. QED
      BY <1>0, <1>1, <1>2, <2>1, <3>1 DEF Passed, Unheld
  <2>2. ASSUME NEW t \in Thread, pc[t] = "dispose", task' = nEpoch[t] PROVE FALSE
    <3>1. inst.scheme # "instant" /\ nEpoch[t] < m_nCurEpoch /\ nEpoch[t] \in Nat
      BY <1>0, <2>2 DEF Epochs, Counted
    <3>2. Dated(x) /\ epoch[x] <= nEpoch[t] /\ x \in hold[v]
      BY <1>1, <1>2, <2>2, <3>1
    <3>3. Stage(t, v)
      BY <3>1, <3>2 DEF Staged, Covers
    <3>. QED
      BY <2>2, <3>3 DEF Stage
  <2>. QED
    BY <1>2, <2>1, <2>2, MailNext DEF Mail
<1>3. ASSUME dpc' = "pass", NEW v \in Thread, NEW x \in Obj, Dated(x)', epoch'[x] <= nCurEpoch', x \in hold'[v]
      PROVE  FALSE
  <2>1. CASE dpc = "pass" /\ nCurEpoch' = nCurEpoch
    <3>1. inst.scheme # "instant" /\ nCurEpoch < m_nCurEpoch
      BY <1>0, <2>1 DEF Epochs
    <3>. QED
      BY <1>0, <1>1, <1>3, <2>1, <3>1 DEF Passed, Unheld
  <2>2. CASE m_pBuffer /\ nCurEpoch' = task
    <3>1. inst.scheme # "instant" /\ task < m_nCurEpoch
      BY <1>0, <2>2 DEF Epochs
    <3>. QED
      BY <1>0, <1>1, <1>3, <2>2, <3>1 DEF Passed, Unheld
  <2>. QED
    BY <1>3, <2>1, <2>2, MailNext DEF Mail
<1>. QED
  BY <1>2, <1>3 DEF Passed, Unheld

-----------------------------------------------------------------------------
(* What the containers can see of a step *)

\* The objects in S are freed, and no others.
Frees(S) ==
  /\ \A x \in S : mem[x] = "retired" /\ Unheld(x)
  /\ mem' = [x \in Obj |-> IF x \in S THEN "free" ELSE mem[x]]
  /\ hold' = hold

\* The steps as the containers see them.
Visible ==
  \/ UNCHANGED <<mem, hold>>
  \/ \E t \in Thread : AccessUnlock(t) \/ \E o \in Obj : Read(t, o) \/ Link(t, o) \/ Unlink(t, o)
  \/ \E S \in SUBSET Obj : Frees(S)

\* Every object that is freed is retired and held by nobody.
LEMMA VisibleNext ==
  ASSUME Own, Sections, Control, Hands, Placed, Epochs, Grace, Kinds
  PROVE  Visible
<1>0. pc \in [Thread -> Labels] /\ ep \in [Thread -> Obj \cup {none}] /\ buf \in Seq(Obj)
  BY DEF Own, Hands
<1>1. ASSUME NEW t \in Thread, RecordStep(t) \/ PeriodStep(t) PROVE UNCHANGED <<mem, hold>>
  BY <1>0, <1>1, RecordSteps, PeriodSteps DEF memVars
<1>2. ASSUME NEW t \in Thread, DisposeStep(t) \/ TurnStep(t) PROVE UNCHANGED <<mem, hold>>
  BY <1>0, <1>2, DisposeSteps, TurnSteps DEF memVars
<1>3. ASSUME MailStep PROVE UNCHANGED <<mem, hold>>
  BY <1>0, <1>3, MailSteps DEF memVars
<1>4. ASSUME NEW t \in Thread, AccessStep(t) PROVE Visible
  BY <1>4 DEF AccessStep, AccessLoad, AccessStore, AccessNested, Visible, memVars
<1>5. ASSUME NEW t \in Thread, HandStep(t) PROVE Visible
  <2>1. CASE RetireInstant(t) \/ RetireEpoch(t) \/ PushBuffer(t) \/ PushFails(t) \/ ClearPop(t)
    BY <2>1 DEF RetireInstant, RetireEpoch, PushBuffer, PushFails, ClearPop, Visible, memVars
  <2>2. CASE ClearFree(t)
    <3>0. pc[t] = "popped" /\ epoch[ep[t]] <= nEpoch[t]
      BY <2>2 DEF ClearFree
    <3>1. ep[t] \in Obj /\ ep[t] # none
      BY <1>0, <3>0 DEF Hands
    <3>2. inst.scheme # "instant"
      BY <3>0 DEF Control, Suits
    <3>3. Dated(ep[t])
      BY <3>1, HandsDated
    <3>4. mem[ep[t]] = "retired" /\ Unheld(ep[t])
      BY <3>0, <3>1, <3>2, <3>3 DEF Dated, Unheld, Grace, Staged, Covers, Stage
    <3>5. Frees({ep[t]})
      BY <2>2, <3>4 DEF ClearFree, Free, Frees
    <3>. QED
      BY <3>1, <3>5 DEF Visible
  <2>3. ASSUME NEW o \in Obj, RetireNext(t, o) PROVE Visible
    BY <2>3 DEF RetireNext, Visible, memVars
  <2>4. ASSUME NEW o \in Obj, ReturnFree(t, o) PROVE Visible
    <3>1. o \in unpushed[t] /\ pc[t] = "return"
      BY <2>4 DEF ReturnFree
    <3>2. mem[o] = "retired" /\ Unheld(o)
      BY <3>1, UnpushedRetired DEF Grace, Returned, Returning
    <3>3. Frees({o})
      BY <2>4, <3>2 DEF ReturnFree, Free, Frees
    <3>. QED
      BY <3>3 DEF Visible
  <2>. QED
    BY <1>5, <2>1, <2>2, <2>3, <2>4 DEF HandStep
<1>6. CASE ExecuteFree
  <2>0. dpc = "pass" /\ buf # <<>> /\ epoch[Head(buf)] <= nCurEpoch
    BY <1>6 DEF ExecuteFree
  <2>1. Head(buf) = buf[1] /\ 1 \in 1 .. Len(buf) /\ Head(buf) \in Obj
    BY SMT, <1>0, <2>0
  <2>2. Dated(Head(buf))
    BY <2>1, HandsDated
  <2>3. mem[Head(buf)] = "retired" /\ Unheld(Head(buf))
    BY <2>0, <2>1, <2>2 DEF Dated, Grace, Passed
  <2>4. Frees({Head(buf)})
    BY <1>6, <2>3 DEF ExecuteFree, Free, Frees
  <2>. QED
    BY <2>1, <2>4 DEF Visible
<1>7. CASE Destruct
  <2> DEFINE S == {buf[i] : i \in 1 .. Len(buf)}
  <2>1. S \in SUBSET Obj
    BY SMT, <1>0
  <2>2. \A x \in S : x \in Obj /\ mem[x] = "retired" /\ Unheld(x)
    <3>1. \A t \in Thread : hold[t] = {}
      BY <1>7, DetachedKeepNothing
    <3>2. \A i \in 1 .. Len(buf) : buf[i] \in Obj /\ Dated(buf[i])
      BY HandsDated
    <3>. QED
      BY <3>1, <3>2 DEF Unheld, Dated
  <2>3. Frees(S)
    BY <1>7, <2>2 DEF Destruct, Free, Frees
  <2>. QED
    BY <2>1, <2>3 DEF Visible
<1>8. CASE UNCHANGED vars
  BY <1>8 DEF Visible, vars, memVars
<1>. QED
  BY <1>1, <1>2, <1>3, <1>4, <1>5, <1>6, <1>7, <1>8 DEF Kinds, Visible

\* A step frees nothing that somebody holds.
LEMMA ReadNotFreedNext ==
  ASSUME Sections, Hands, Visible, ReadNotFreed
  PROVE  ReadNotFreed'
<1>0. hold \in [Thread -> SUBSET Obj] /\ mem \in [Obj -> {"free", "linked", "retired"}]
  BY DEF Sections, Hands
<1>1. CASE UNCHANGED <<mem, hold>>
  BY <1>1 DEF ReadNotFreed
<1>2. ASSUME NEW t \in Thread, AccessUnlock(t) PROVE ReadNotFreed'
  BY <1>0, <1>2 DEF AccessUnlock, ReadNotFreed
<1>3. ASSUME NEW t \in Thread, NEW o \in Obj, Read(t, o) PROVE ReadNotFreed'
  BY <1>0, <1>3 DEF Read, ReadNotFreed
<1>4. ASSUME NEW t \in Thread, NEW o \in Obj, Link(t, o) PROVE ReadNotFreed'
  BY <1>0, <1>4 DEF Link, ReadNotFreed
<1>5. ASSUME NEW t \in Thread, NEW o \in Obj, Unlink(t, o) PROVE ReadNotFreed'
  BY <1>0, <1>5 DEF Unlink, ReadNotFreed
<1>6. ASSUME NEW S \in SUBSET Obj, Frees(S) PROVE ReadNotFreed'
  BY <1>0, <1>6 DEF Frees, Unheld, ReadNotFreed
<1>. QED
  BY <1>1, <1>2, <1>3, <1>4, <1>5, <1>6 DEF Visible

-----------------------------------------------------------------------------
(* The theorems *)

\* The inductive invariant holds in every reachable state.
LEMMA InvAlways == Spec => []Inv
<1>1. Init => Inv
  BY OwnInit, SectionsInit, ControlInit, PlacedInit, EpochsInit, GraceInit DEF Inv
<1>2. Inv /\ [Next]_vars => Inv'
  <2> SUFFICES ASSUME Own, Sections, Control, Hands, Placed, Epochs, Staged, Returned, Passed, ReadNotFreed, [Next]_vars
               PROVE  Inv'
    BY DEF Inv, Grace
  <2>0. Kinds
    BY StepKinds
  <2>1. Own' /\ Sections' /\ Control'
    BY OwnNext, SectionsNext, ControlNext
  <2>2. Hands' /\ Placed'
    BY HandsNext, PlacedNext
  <2>3. Epochs'
    BY <2>0, <2>1, <2>2, EpochsNext
  <2>4. Staged' /\ Returned' /\ Passed'
    BY <2>0, <2>2, StagedNext, ReturnedNext, PassedNext
  <2>5. ReadNotFreed'
    BY <2>0, VisibleNext, ReadNotFreedNext DEF Grace
  <2>. QED
    BY <2>1, <2>2, <2>3, <2>4, <2>5 DEF Inv, Grace
<1>. QED
  BY <1>1, <1>2, PTL DEF Spec

\* Every variable keeps its type, for any number of threads, objects, records and
\* buffer cells.
THEOREM VariablesTyped == Spec => []TypeOK
<1>1. Inv => TypeOK
  BY DEF Inv, TypeOK, Own, Sections, Control, Hands
<1>. QED
  BY <1>1, InvAlways, PTL

\* What a thread has read in its section is not freed before the section ends,
\* whichever of the three schemes frees it.
THEOREM ReadersSafe == Spec => []ReadNotFreed
<1>1. Inv => ReadNotFreed
  BY DEF Inv
<1>. QED
  BY <1>1, InvAlways, PTL

\* A retired object is in one place only, until it is freed.
THEOREM RetiredKept == Spec => []RetiredOnce
<1>1. ASSUME Hands, Placed, NEW o \in Obj, mem[o] = "retired"
      PROVE  LET hands == {p \in Thread \X (1 .. 3) : o \in Places(p[1])[p[2]]}
                 cells == {i \in 1 .. Len(buf) : buf[i] = o}
             IN  \/ \E p \in hands : hands = {p} /\ cells = {}
                 \/ \E i \in cells : cells = {i} /\ hands = {}
  <2> DEFINE hands == {p \in Thread \X (1 .. 3) : o \in Places(p[1])[p[2]]}
             cells == {i \in 1 .. Len(buf) : buf[i] = o}
  <2>1. \A p \in Thread \X (1 .. 3) :
           /\ p = <<p[1], p[2]>> /\ p[1] \in Thread /\ p[2] \in {1, 2, 3}
           /\ p \in hands => Has(p[1], o)
           /\ p \in hands <=> \/ p[2] = 1 /\ o \in todo[p[1]]
                              \/ p[2] = 2 /\ o \in unpushed[p[1]]
                              \/ p[2] = 3 /\ o = ep[p[1]]
    BY SMT DEF Places, Has
  <2>2. \A i \in cells : InBuf(o)
    BY DEF InBuf
  <2>3. \A t \in Thread : Has(t, o) => \E p \in hands : p[1] = t
    <3> SUFFICES ASSUME NEW t \in Thread, Has(t, o) PROVE \E p \in hands : p[1] = t
      OBVIOUS
    <3>1. CASE o \in todo[t]
      BY SMTT(40), <2>1, <3>1, <<t, 1>> \in Thread \X (1 .. 3)
    <3>2. CASE o \in unpushed[t]
      BY SMTT(40), <2>1, <3>2, <<t, 2>> \in Thread \X (1 .. 3)
    <3>3. CASE o = ep[t]
      BY SMT, <2>1, <3>3, <<t, 3>> \in Thread \X (1 .. 3)
    <3>. QED
      BY <3>1, <3>2, <3>3 DEF Has
  <2>4. hands \subseteq Thread \X (1 .. 3) /\ \A i \in cells : i \in 1 .. Len(buf) /\ buf[i] = o
    OBVIOUS
  <2>5. /\ \A t \in Thread : Has(t, o) => ~InBuf(o)
        /\ \A t, u \in Thread : Has(t, o) /\ Has(u, o) => t = u
        /\ InBuf(o) \/ \E t \in Thread : Has(t, o)
    BY <1>1, InHands, Somewhere
  <2>6. \A t \in Thread : /\ ~(o \in todo[t] /\ o \in unpushed[t])
                          /\ o = ep[t] => o \notin todo[t] /\ o \notin unpushed[t]
    BY <1>1 DEF Placed, Apart
  <2>7. InBuf(o) => \E i \in cells : TRUE
    BY DEF InBuf
  <2>8. \A i, j \in cells : i = j
    BY <1>1 DEF Placed, Distinct
  <2> SUFFICES \/ \E p \in hands : hands = {p} /\ cells = {}
               \/ \E i \in cells : cells = {i} /\ hands = {}
    OBVIOUS
  <2> HIDE DEF hands, cells
  <2>9. \A p, q \in hands : p = q
    <3> SUFFICES ASSUME NEW p \in hands, NEW q \in hands PROVE p = q
      OBVIOUS
    <3>1. p \in Thread \X (1 .. 3) /\ q \in Thread \X (1 .. 3)
      BY <2>4
    <3>2. p[1] = q[1] /\ p[1] \in Thread
      BY <2>1, <2>5, <3>1
    <3>3. p[2] = q[2]
      BY SMT, <2>1, <2>6, <3>1, <3>2
    <3>. QED
      BY <2>1, <3>1, <3>2, <3>3
  <2>10. CASE InBuf(o)
    <3>1. PICK i \in cells : TRUE
      BY <2>7, <2>10
    <3>2. cells = {i}
      BY <2>8, <3>1
    <3>3. hands = {}
      BY <2>1, <2>4, <2>5, <2>10
    <3>. QED
      BY <3>1, <3>2, <3>3
  <2>11. CASE ~InBuf(o)
    <3>1. cells = {}
      BY <2>2, <2>11
    <3>2. PICK p \in hands : TRUE
      BY <2>3, <2>5, <2>11
    <3>3. hands = {p}
      BY <2>9, <3>2
    <3>. QED
      BY <3>1, <3>2, <3>3
  <2>. QED
    BY <2>10, <2>11
<1>2. Inv => RetiredOnce
  BY <1>1 DEF Inv, RetiredOnce
<1>. QED
  BY <1>2, InvAlways, PTL

-----------------------------------------------------------------------------
(* Refinement *)

\* What Protects says of one guard.
LEMMA ProtectsAt ==
  ASSUME NEW g \in Thread \X Obj
  PROVE  /\ g[1] \in Thread /\ g[2] \in Obj /\ g = <<g[1], g[2]>>
         /\ Protects[g] = IF g[2] \in hold[g[1]] THEN g[2] ELSE none
         /\ Protects'[g] = IF g[2] \in hold'[g[1]] THEN g[2] ELSE none
  BY SMT DEF Protects

\* Protects is a function from the guards.
LEMMA ProtectsFunction ==
  /\ Protects = [g \in Thread \X Obj |-> Protects[g]]
  /\ Protects' = [g \in Thread \X Obj |-> Protects'[g]]
  BY DEF Protects

\* Each step is a step of the abstract specification, or a stutter.
LEMMA StepSimulation == Inv /\ [Next]_vars => [SMR!Next]_(SMR!vars)
<1> SUFFICES ASSUME Inv, [Next]_vars PROVE SMR!Next \/ UNCHANGED <<mem, Protects>>
  BY DEF SMR!vars
<1>a. Visible
  BY StepKinds, VisibleNext DEF Inv
<1>b. hold \in [Thread -> SUBSET Obj] /\ mem \in [Obj -> {"free", "linked", "retired"}] /\ none \notin Obj
  BY ConstantsAssumption DEF Inv, Sections, Hands
<1>c. ASSUME hold' = hold PROVE Protects' = Protects
  BY <1>c DEF Protects
<1>1. CASE UNCHANGED <<mem, hold>>
  BY <1>1, <1>c
<1>2. ASSUME NEW t \in Thread, AccessUnlock(t) PROVE SMR!Next \/ UNCHANGED <<mem, Protects>>
  <2>1. mem' = mem
    BY <1>2 DEF AccessUnlock
  <2>2. CASE nest[rec[t]] # 1
    <3>1. hold' = hold
      BY <1>2, <1>b, <2>2 DEF AccessUnlock
    <3>. QED
      BY <2>1, <3>1, <1>c
  <2>3. CASE nest[rec[t]] = 1
    <3> DEFINE G == {g \in Thread \X Obj : g[1] = t}
    <3>1. \A v \in Thread : hold'[v] = IF v = t THEN {} ELSE hold[v]
      BY <1>2, <1>b, <2>3 DEF AccessUnlock
    <3>2. \A g \in Thread \X Obj : Protects'[g] = IF g \in G THEN none ELSE Protects[g]
      BY ZenonT(60), <3>1, ProtectsAt
    <3>3. G \in SUBSET (Thread \X Obj)
      OBVIOUS
    <3> HIDE DEF G
    <3>4. Protects' = [g \in Thread \X Obj |-> IF g \in G THEN none ELSE Protects[g]]
      BY <3>2, ProtectsFunction
    <3>. QED
      BY <2>1, <3>3, <3>4 DEF SMR!Next, SMR!Release
  <2>. QED
    BY <2>2, <2>3
<1>3. ASSUME NEW t \in Thread, NEW o \in Obj, Read(t, o) PROVE SMR!Next
  <2>1. \A g \in Thread \X Obj : Protects'[g] = IF g = <<t, o>> THEN o ELSE Protects[g]
    <3>1. \A v \in Thread, x \in Obj : x \in hold'[v] <=> x \in hold[v] \/ (v = t /\ x = o)
      BY <1>3, <1>b DEF Read
    <3>. QED
      BY SMT, <3>1, ProtectsAt
  <2>2. <<t, o>> \in Thread \X Obj
    OBVIOUS
  <2>3. Protects' = [Protects EXCEPT ![<<t, o>>] = o]
    BY <2>1, <2>2, ProtectsFunction
  <2>4. mem' = mem /\ mem[o] = "linked"
    BY <1>3 DEF Read
  <2>5. SMR!Protect(<<t, o>>, o)
    BY <2>3, <2>4 DEF SMR!Protect
  <2>. QED
    BY <2>2, <2>5 DEF SMR!Next
<1>4. ASSUME NEW t \in Thread, NEW o \in Obj, Link(t, o) PROVE SMR!Next
  <2>1. Protects' = Protects
    BY <1>4, <1>c DEF Link
  <2>. QED
    BY <1>4, <2>1 DEF Link, SMR!Next, SMR!Publish
<1>5. ASSUME NEW t \in Thread, NEW o \in Obj, Unlink(t, o) PROVE SMR!Next
  <2>1. Protects' = Protects
    BY <1>5, <1>c DEF Unlink
  <2>2. mem[o] = "linked" /\ mem' = [x \in Obj |-> CASE x = o -> "retired" [] x = none -> "linked" [] OTHER -> mem[x]]
    BY <1>5, <1>b DEF Unlink
  <2>3. SMR!Replace(o, none)
    BY <2>1, <2>2 DEF SMR!Replace
  <2>. QED
    BY <2>3 DEF SMR!Next
<1>6. ASSUME NEW S \in SUBSET Obj, Frees(S) PROVE SMR!Next
  <2>1. Protects' = Protects
    BY <1>6, <1>c DEF Frees
  <2>2. \A g \in Thread \X Obj : Protects[g] \notin S
    <3>1. ASSUME NEW g \in Thread \X Obj, Protects[g] \in S PROVE FALSE
      <4>1. g[1] \in Thread /\ g[2] \in Obj /\ Protects[g] \in {g[2], none} /\ (Protects[g] # none => g[2] \in hold[g[1]])
        BY ProtectsAt
      <4>2. Protects[g] # none
        BY <1>b, <3>1
      <4>3. g[2] \in S /\ g[2] \in hold[g[1]]
        BY <3>1, <4>1, <4>2
      <4>. QED
        BY <1>6, <4>1, <4>3 DEF Frees, Unheld
    <3>. QED
      BY <3>1
  <2>3. \A x \in S : mem[x] = "retired" /\ x \notin SMR!Protected
    BY <1>6, <2>2 DEF Frees, SMR!Protected
  <2>4. mem' = [x \in Obj |-> IF x \in S THEN "free" ELSE mem[x]]
    BY <1>6 DEF Frees
  <2>. QED
    BY <2>1, <2>3, <2>4 DEF SMR!Next, SMR!Reclaim
<1>. QED
  BY <1>a, <1>1, <1>2, <1>3, <1>4, <1>5, <1>6 DEF Visible

\* The three schemes give the containers the reclamation they are written against.
THEOREM SchemesRefine == Spec => ImplementsSMR
<1>1. Init => SMR!Init
  BY DEF Init, SMR!Init, Protects
<1>. QED
  BY <1>1, InvAlways, StepSimulation, PTL DEF Spec, ImplementsSMR, SMR!Spec
=============================================================================
