------------------------------ MODULE Tracker ------------------------------
(***************************************************************************)
(* The instance tracker of internal/orchestrator/tracker.go: one registry  *)
(* per runner class, keyed by runner name, guarded by one RWMutex.  Every  *)
(* method holds the mutex for its whole body, so each is one step.         *)
(*                                                                         *)
(* A runner name belongs to one class for ever (ClassOf): names carry the  *)
(* scale set's name and a random suffix, so the registries of all classes  *)
(* are kept in the same functions of the name.                             *)
(***************************************************************************)
EXTENDS Integers, FiniteSets

CONSTANTS
  Class,      \* the runner classes of one incuse process, one scale set each
  Runner,     \* the runner names that can be minted
  ClassOf     \* the class a name belongs to

ASSUME RunnerAssumption == IsFiniteSet(Runner)
ASSUME ClassAssumption == IsFiniteSet(Class) /\ ClassOf \in [Runner -> Class]

VARIABLES
  state,      \* state[r]: the entry's State, "absent" when there is no entry
  pending,    \* pending[r]: the entry's TerminationPending bit
  expired     \* expired[r]: the timer that governs the entry's State has run
              \* out: now - MintedAt > RegistrationTimeout for a launching or
              \* idle entry, now - BusyAt > MaxJobDuration for a busy one

trackerVars == <<state, pending, expired>>

EntryState == {"launching", "idle", "busy"}

TrackerTypeOK ==
  /\ state \in [Runner -> EntryState \cup {"absent"}]
  /\ pending \in [Runner -> BOOLEAN]
  /\ expired \in [Runner -> BOOLEAN]
  /\ \A r \in Runner : state[r] = "absent" => ~pending[r] /\ ~expired[r]

TrackerInit ==
  /\ state = [r \in Runner |-> "absent"]
  /\ pending = [r \in Runner |-> FALSE]
  /\ expired = [r \in Runner |-> FALSE]

Tracked(r) == state[r] # "absent"

Names(c) == {r \in Runner : ClassOf[r] = c /\ Tracked(r)}

Size(c) == Cardinality(Names(c))

----------------------------------------------------------------------------

SetEntry(r, s) ==
  /\ state' = [state EXCEPT ![r] = s]
  /\ pending' = [pending EXCEPT ![r] = FALSE]
  /\ expired' = [expired EXCEPT ![r] = FALSE]

Add(r) == SetEntry(r, "launching")

\* Deleting a key that is not in the map is a no-op, in Go and here.
Remove(r) == SetEntry(r, "absent")

\* Mutant: the state is set without looking at the present one.
MarkIdle_Unconditional(r) ==
  /\ state' = [state EXCEPT ![r] = IF @ = "absent" THEN @ ELSE "idle"]
  /\ UNCHANGED <<pending, expired>>

\* Only a launching entry becomes idle.  The timer keeps running: it is
\* MintedAt that the registration timeout is measured from.
MarkIdle(r) ==
  /\ state' = [state EXCEPT ![r] = IF @ = "launching" THEN "idle" ELSE @]
  /\ UNCHANGED <<pending, expired>>

\* Mutant: an unknown name gets an entry.
MarkBusy_Creates(r) ==
  /\ state' = [state EXCEPT ![r] = "busy"]
  /\ expired' = [expired EXCEPT ![r] = FALSE]
  /\ UNCHANGED pending

\* Any entry becomes busy, and BusyAt = now starts the job timer.
MarkBusy(r) ==
  /\ state' = [state EXCEPT ![r] = IF @ = "absent" THEN @ ELSE "busy"]
  /\ expired' = [expired EXCEPT ![r] = FALSE]
  /\ UNCHANGED pending

\* Mutant: the bit is set without looking for the entry.
MarkForTermination_Unchecked(r) ==
  /\ pending' = [pending EXCEPT ![r] = TRUE]
  /\ UNCHANGED <<state, expired>>

MarkForTermination(r) ==
  /\ pending' = [pending EXCEPT ![r] = Tracked(r)]
  /\ UNCHANGED <<state, expired>>

\* Time passes the deadline of an entry.
Expire(r) ==
  /\ Tracked(r)
  /\ ~expired[r]
  /\ expired' = [expired EXCEPT ![r] = TRUE]
  /\ UNCHANGED <<state, pending>>
============================================================================
