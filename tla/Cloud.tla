------------------------------- MODULE Cloud -------------------------------
(***************************************************************************)
(* The two services incuse drives, as the code in src/ sees them: the      *)
(* Incus daemon through internal/incus/client.go and GitHub through the    *)
(* scale-set client.  Instances are ephemeral (launch.go), so a stopped    *)
(* one is removed by the daemon or by Delete, whichever comes first.       *)
(***************************************************************************)
EXTENDS Tracker

VARIABLES
  vm,    \* the Incus instance named r
  gh,    \* the GitHub registration and the job of runner r
  ev,    \* scale-set messages about r that the listener has not handled yet
  unsettled  \* history: the registered runners about which a call to GitHub
             \* failed; the error is logged and the call not made again

cloudVars == <<vm, gh, ev, unsettled>>

VMState == {"none", "creating", "running", "stopping", "stopped", "gone"}
GHState == {"none", "registered", "running", "completed", "removed"}
Event == {"started", "completed"}

CloudTypeOK ==
  /\ vm \in [Runner -> VMState]
  /\ gh \in [Runner -> GHState]
  /\ ev \in [Runner -> SUBSET Event]
  /\ unsettled \in SUBSET Runner

CloudInit ==
  /\ vm = [r \in Runner |-> "none"]
  /\ gh = [r \in Runner |-> "none"]
  /\ ev = [r \in Runner |-> {}]
  /\ unsettled = {}

InstanceExists(r) == vm[r] \notin {"none", "gone"}

----------------------------------------------------------------------------
(* Calls the orchestrator makes.                                           *)

SetVM(r, s) ==
  /\ vm' = [vm EXCEPT ![r] = s]
  /\ UNCHANGED <<gh, ev, unsettled>>

\* CreateInstance with Start=true: accepted, the daemon goes on by itself.
CreateInstance(r) == SetVM(r, "creating")

\* A forced stop.  The daemon refuses it for an instance still being
\* created.  A stop whose wait fails (mayFail) has taken effect, never will,
\* or will do so later.
StopInstance(r, mayFail) ==
  \/ vm[r] \in {"running", "stopping"} /\ SetVM(r, "stopped")
  \/ vm[r] = "running" /\ mayFail /\ SetVM(r, "stopping")
  \/ (mayFail \/ vm[r] \notin {"running", "stopping"}) /\ UNCHANGED cloudVars

\* Only a stopped instance can be deleted.
DeleteInstance(r, mayFail) ==
  \/ vm[r] = "stopped" /\ SetVM(r, "gone")
  \/ (mayFail \/ vm[r] # "stopped") /\ UNCHANGED cloudVars

Fails(r) == unsettled' = unsettled \cup {r}

GenerateJITConfig(r) ==
  /\ gh' = [gh EXCEPT ![r] = "registered"]
  /\ UNCHANGED <<vm, ev, unsettled>>

\* GitHub registers the runner and the caller learns nothing of it.
GenerateUnheard(r) ==
  /\ gh' = [gh EXCEPT ![r] = "registered"]
  /\ Fails(r)
  /\ UNCHANGED <<vm, ev>>

\* GitHub refuses to remove a runner that has a job, and one that is no
\* longer registered is not found; either way the error is only logged, as
\* it is when the call fails without any effect (mayFail).
RemoveRunner(r, mayFail) ==
  \/ /\ gh[r] = "registered"
     /\ gh' = [gh EXCEPT ![r] = "removed"]
     /\ UNCHANGED <<vm, ev, unsettled>>
  \/ gh[r] # "registered" /\ UNCHANGED cloudVars
  \/ gh[r] = "registered" /\ mayFail /\ Fails(r) /\ UNCHANGED <<vm, gh, ev>>

----------------------------------------------------------------------------
(* Steps the services take by themselves.                                  *)

InstanceStarts(r) == vm[r] = "creating" /\ SetVM(r, "running")

CreateFails(r) == vm[r] = "creating" /\ SetVM(r, "gone")

StopCompletes(r) == vm[r] = "stopping" /\ SetVM(r, "stopped")

EphemeralCleanup(r) == vm[r] = "stopped" /\ SetVM(r, "gone")

\* cloud-init's ExecStopPost=poweroff: the runner process exits after its job.
PowerOff(r) == vm[r] = "running" /\ gh[r] = "completed" /\ SetVM(r, "stopped")

\* The broker assigns a job to a registered runner whose instance is up.
AssignJob(r) ==
  /\ gh[r] = "registered"
  /\ vm[r] = "running"
  /\ gh' = [gh EXCEPT ![r] = "running"]
  /\ ev' = [ev EXCEPT ![r] = @ \cup {"started"}]
  /\ UNCHANGED <<vm, unsettled>>

\* The job ends, by itself or because its instance is gone.
FinishJob(r) ==
  /\ gh[r] = "running"
  /\ gh' = [gh EXCEPT ![r] = "completed"]
  /\ ev' = [ev EXCEPT ![r] = @ \cup {"completed"}]
  /\ UNCHANGED <<vm, unsettled>>

\* One message of r is gone: handled and acknowledged, or lost.
ConsumeEvent(r, e) ==
  /\ e \in ev[r]
  /\ ev' = [ev EXCEPT ![r] = @ \ {e}]
  /\ UNCHANGED <<vm, gh, unsettled>>
============================================================================
