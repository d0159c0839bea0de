--------------------------- MODULE SafeReclamation ---------------------------
(***************************************************************************)
(* What the containers of libcds rely on, whichever garbage collector they *)
(* are given as template argument: an object is linked into a container,   *)
(* unlinked and retired, and its memory is reclaimed only when no guard    *)
(* protects it.  A guard comes to protect an object only while the object  *)
(* is linked, or by copying a guard that already protects it.              *)
(* gc::HP (module HazardPointer) and the general-purpose RCU (GeneralRCU)  *)
(* are shown to implement this specification.                              *)
(***************************************************************************)
CONSTANTS
  Obj,     \* addresses
  Guard,   \* guards
  None     \* a guard that protects nothing

VARIABLES
  status,    \* "free", "linked" or "retired", per address
  protects   \* the object a guard protects, or None

vars == <<status, protects>>

Init ==
  /\ status   = [o \in Obj |-> "free"]
  /\ protects = [g \in Guard |-> None]

Protected == {protects[g] : g \in Guard} \ {None}

Publish(o) ==
  /\ status[o] = "free"
  /\ status' = [status EXCEPT ![o] = "linked"]
  /\ UNCHANGED protects

\* The object old is unlinked and retired; new, when not None, takes its place.
Replace(old, new) ==
  /\ status[old] = "linked"
  /\ new # None => status[new] = "free"
  /\ status' = [o \in Obj |-> CASE o = old -> "retired"
                                [] o = new -> "linked"
                                [] OTHER   -> status[o]]
  /\ UNCHANGED protects

\* Guard::protect takes effect.
Protect(g, o) ==
  /\ status[o] = "linked"
  /\ protects' = [protects EXCEPT ![g] = o]
  /\ UNCHANGED status

\* Guard g takes over what guard f protects.
Copy(f, g) ==
  /\ protects' = [protects EXCEPT ![g] = protects[f]]
  /\ UNCHANGED status

\* A set of guards is cleared, or the guards are about to protect something else.
Release(G) ==
  /\ protects' = [g \in Guard |-> IF g \in G THEN None ELSE protects[g]]
  /\ UNCHANGED status

\* The disposers of a set of retired objects are called.
Reclaim(S) ==
  /\ \A o \in S : status[o] = "retired" /\ o \notin Protected
  /\ status' = [o \in Obj |-> IF o \in S THEN "free" ELSE status[o]]
  /\ UNCHANGED protects

Next ==
  \/ \E o \in Obj : Publish(o)
  \/ \E old \in Obj, new \in Obj \cup {None} : Replace(old, new)
  \/ \E g \in Guard, o \in Obj : Protect(g, o)
  \/ \E f, g \in Guard : Copy(f, g)
  \/ \E G \in SUBSET Guard : Release(G)
  \/ \E S \in SUBSET Obj : Reclaim(S)

Spec == Init /\ [][Next]_vars
=============================================================================
