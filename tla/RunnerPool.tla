----------------------------- MODULE RunnerPool -----------------------------
(***************************************************************************)
(* What the orchestrators promise about their runner pools, without any of *)
(* the machinery: a class reserves capacity, fills or gives back what it   *)
(* reserved, and retires runners.  A pool never exceeds max_runners, and a *)
(* name that has left a pool never comes back.                             *)
(***************************************************************************)
EXTENDS Integers, FiniteSets

CONSTANTS Class, Runner, ClassOf, MaxRunners

VARIABLES
  reserved,   \* reserved[c]: capacity reserved, no runner yet
  live,       \* the runners in the pools
  spent       \* the names that will never be used again

poolVars == <<reserved, live, spent>>

LiveIn(c) == {r \in live : ClassOf[r] = c}

Load(c) == reserved[c] + Cardinality(LiveIn(c))

PoolInit ==
  /\ reserved = [c \in Class |-> 0]
  /\ live = {}
  /\ spent = {}

Reserve(c) ==
  /\ \E k \in 1 .. (MaxRunners[c] - Load(c)) :
       reserved' = [reserved EXCEPT ![c] = @ + k]
  /\ UNCHANGED <<live, spent>>

\* A reservation is given back, perhaps after a name was chosen for it.
Cancel(c) ==
  /\ reserved[c] > 0
  /\ reserved' = [reserved EXCEPT ![c] = @ - 1]
  /\ \/ UNCHANGED spent
     \/ \E r \in Runner \ live : ClassOf[r] = c /\ spent' = spent \cup {r}
  /\ UNCHANGED live

Admit(r) ==
  /\ r \notin live \cup spent
  /\ reserved[ClassOf[r]] > 0
  /\ reserved' = [reserved EXCEPT ![ClassOf[r]] = @ - 1]
  /\ live' = live \cup {r}
  /\ UNCHANGED spent

Retire(r) ==
  /\ r \in live
  /\ live' = live \ {r}
  /\ spent' = spent \cup {r}
  /\ UNCHANGED reserved

\* The process is gone, and with it every name it knew.
Reset ==
  /\ reserved' = [c \in Class |-> 0]
  /\ live' = {}
  /\ \E names \in SUBSET Runner : spent' = spent \cup live \cup names

PoolNext ==
  \/ \E c \in Class : Reserve(c) \/ Cancel(c)
  \/ \E r \in Runner : Admit(r) \/ Retire(r)
  \/ Reset

PoolSafety == PoolInit /\ [][PoolNext]_poolVars

\* Every runner is retired in the end.
PoolSpec == PoolSafety /\ \A r \in Runner : WF_poolVars(Retire(r))
============================================================================
