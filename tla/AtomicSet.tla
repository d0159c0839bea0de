------------------------------ MODULE AtomicSet ------------------------------
(***************************************************************************)
(* What the concurrent sets and maps of libcds promise: an insertion or a  *)
(* removal that succeeds takes effect at one instant between its call and  *)
(* its return.  An operation that changes nothing (a search, an insertion  *)
(* of a key that is there, a removal of one that is not) answers what was  *)
(* true at some instant of the call; saw collects those answers.           *)
(***************************************************************************)
EXTENDS FiniteSets

CONSTANTS Thread, Key, nullptr

VARIABLES
  keys,   \* the set
  call,   \* thread -> operation in progress, its key, whether it took effect and
          \* the answer to "was the key there?" ("was the set empty?" for clear)
  saw     \* thread -> answers that were right at an instant of the call

vars == <<keys, call, saw>>

Idle == [op |-> "none", key |-> nullptr, done |-> FALSE, res |-> FALSE]

\* The right answer for call c when the set is K.
Truth(c, K) == IF c.op = "clear" THEN K = {} ELSE c.key \in K

Init ==
  /\ keys = {}
  /\ call = [t \in Thread |-> Idle]
  /\ saw  = [t \in Thread |-> {}]

\* What the calls in progress see after a step.
Observe ==
  saw' = [t \in Thread |-> IF call'[t].op = "none" THEN {} ELSE saw[t] \cup {Truth(call'[t], keys')}]

\* "modify" is update() that must not insert.
Begin(t) ==
  /\ call[t] = Idle
  /\ \/ \E op \in {"insert", "update", "modify", "erase", "find"}, k \in Key :
          call' = [call EXCEPT ![t].op = op, ![t].key = k]
     \/ call' = [call EXCEPT ![t].op = "clear"]
  /\ UNCHANGED keys

Pending(t, Ops) == call[t].op \in Ops /\ ~ call[t].done

Insert(t) ==
  /\ Pending(t, {"insert", "update"})
  /\ call[t].key \notin keys
  /\ keys' = keys \cup {call[t].key}
  /\ call' = [call EXCEPT ![t].done = TRUE]

Erase(t) ==
  /\ Pending(t, {"erase"})
  /\ call[t].key \in keys
  /\ keys' = keys \ {call[t].key}
  /\ call' = [call EXCEPT ![t].done = TRUE, ![t].res = TRUE]

\* clear removes the items one by one.
ClearOne(t) ==
  /\ Pending(t, {"clear"})
  /\ \E k \in keys : keys' = keys \ {k}
  /\ UNCHANGED call

\* The call changes nothing and answers r.
Answer(t, r) ==
  /\ Pending(t, IF r THEN {"insert", "update", "modify", "find", "clear"} ELSE {"modify", "erase", "find"})
  /\ r \in saw[t]
  /\ call' = [call EXCEPT ![t].done = TRUE, ![t].res = r]
  /\ UNCHANGED keys

End(t) ==
  /\ call[t].done
  /\ call' = [call EXCEPT ![t] = Idle]
  /\ UNCHANGED keys

Next ==
  /\ \E t \in Thread : \/ Begin(t) \/ Insert(t) \/ Erase(t) \/ ClearOne(t) \/ End(t)
                       \/ \E r \in BOOLEAN : Answer(t, r)
  /\ Observe

Spec == Init /\ [][Next]_vars
=============================================================================
