------------------------- MODULE OrchestratorProps -------------------------
(***************************************************************************)
(* What the orchestrators of one process guarantee, and what the code's    *)
(* comments, tests and documents say they do.                              *)
(***************************************************************************)
EXTENDS Orchestrator

----------------------------------------------------------------------------
(* Capacity and slots.                                                     *)

\* A class never has more runners, tracked or about to be, than max_runners,
\* however HandleDesiredRunnerCount interleaves with spawn tasks, teardowns
\* and the reaper (spawnInflight under spawnMu, orchestrator.go:293-299).
CapacityBound ==
  \A c \in Class : Size(c) + inflight[c] <= MaxRunners[c]

PreAdmitTasks(c) == {r \in RunnersOf(c) : pc["task"][r] \in PreAdmit}

\* spawnInflight counts exactly the spawns decided on and not yet tracked: no
\* early return, error path or refused task leaks a reservation or returns it
\* twice (finishInflight, and the decrement of HandleDesiredRunnerCount).
InflightExact ==
  \A c \in Class :
    inflight[c] = remaining[c] + Cardinality(PreAdmitTasks(c))

MintHolders == {r \in Runner : pc["task"][r] \in Minting}

LaunchHolders ==
  {r \in Runner :
     pc["task"][r] \in (Launching \cup Teardown) \ {"acquire", "withdraw"}}

Workers == {r \in Runner : ~At("worker", r, "none")}

\* Every slot of the two limiters is held by a task or worker that is still
\* going to release it, so the limits hold and no path loses a slot or
\* releases one it does not hold.
SlotsExact ==
  /\ mintUsed = Cardinality(MintHolders) /\ mintUsed <= MaxMints
  /\ launchUsed = Cardinality(LaunchHolders) + Cardinality(Workers)
  /\ launchUsed <= MaxLaunches

----------------------------------------------------------------------------
(* Termination racing with launch.                                         *)

\* A runner in state launching has a task that will move it on; a termination
\* deferred to the task is therefore never lost.
LaunchingHasTask ==
  \A r \in Runner :
    state[r] = "launching" => pc["task"][r] \in Launching

\* A requested termination has somebody who will carry it out: the launch
\* task, which reads TerminationPending after it was set, or the actor that
\* requested it and is about to remove the entry.
PendingHasOwner ==
  \A r \in Runner :
    pending[r] =>
      \/ pc["task"][r] \in Launching \cup {"mark", "remove"}
      \/ \E a \in {"worker", "listener"} : At(a, r, "remove")

\* markIdle after Launch returns does not undo a markBusy that came first, and
\* nothing else turns a busy runner back into an idle one.
BusyNeverDemoted ==
  [][\A r \in Runner :
       state[r] = "busy" => state'[r] \in {"busy", "absent"}]_vars

TearingDown == {"remove", "stop", "delete"} \cup Sweeping

\* While the entry is launching nobody takes the runner down: a termination
\* by message or timeout is left to the launch task ("deferring termination
\* until launch completes", orchestrator.go:543), and no sweep is at the
\* instance.  Of an entry that has become busy under its launch this says
\* nothing; that is NoTeardownDuringLaunch below.
TeardownDeferred ==
  \A r \in Runner :
    state[r] = "launching" => \A a \in Actor : pc[a][r] \notin TearingDown

\* While Incus does what it is asked and no shutdown comes, an instance of
\* which the tracker has no entry has an actor that is about to stop and delete
\* it: no order of JobStarted, JobCompleted, timeouts and a launch in flight
\* leaves an instance behind.
InstanceAccounted ==
  \A r \in Runner :
    InstanceExists(r) =>
      \/ Tracked(r)
      \/ \E a \in Actor : pc[a][r] \in {"stop", "delete"}

\* Every registration that GitHub still offers jobs to belongs to a runner
\* that is tracked or has an actor on the way to RemoveRunner, unless a call
\* about that runner itself failed: no failed render, failed launch, failed
\* teardown or timeout leaves one behind, and a shutdown only one about which
\* a call is under way when the context ends (GenerateJITConfig,
\* orchestrator.go:425; RemoveRunner after the test of the context, 584-589).
NoRegistrationLeak ==
  \A r \in Runner :
    gh[r] = "registered" =>
      \/ Tracked(r)
      \/ pc["task"][r] \in {"render", "discard", "discarding", "withdrawn"}
      \/ \E a \in {"task", "worker"} :
           pc[a][r] \in {"stop", "delete", "deregister", "deregistering"}
      \/ r \in unsettled

----------------------------------------------------------------------------
(* The drift sweep and shutdown.                                           *)

\* Whatever the drift sweep calls an orphan is not in its tracker, then or
\* later, though instances are launched and their entries added while it
\* lists, compares and deletes; nor is it another class's runner.
SweepSparesTracked ==
  \A r \in Runner : plan[r] = "orphan" => ~Tracked(r)

\* When Run has returned, no task of its class is alive, and none starts
\* later although the listener may still be handling a message.
JoinComplete ==
  \A c \in Class : rpc[c] = "stopped" => TasksJoined(c)

----------------------------------------------------------------------------
(* The pools as RunnerPool specifies them.                                 *)

SpentNames ==
  {r \in Runner : ~Tracked(r) /\ pc["task"][r] \notin PreAdmit \cup {"none"}}

Pool == INSTANCE RunnerPool WITH
          reserved <- inflight,
          live <- {r \in Runner : Tracked(r)},
          spent <- SpentNames

\* The handlers, tasks and reapers of every class implement bounded pools
\* whose names are used once, across crashes and restarts.
PoolSafety == Pool!PoolSafety

----------------------------------------------------------------------------
(* Fairness and progress.                                                  *)

\* The Go scheduler runs every goroutine that can run.  A goroutine blocked on
\* a channel send is queued first in, first out, so a slot that is freed again
\* and again reaches it: strong fairness for acquire.  The daemon finishes what
\* it has accepted, and time passes.
Fairness ==
  /\ \A c \in Class :
       /\ WF_vars(RefuseSpawnTask(c))
       /\ WF_vars(\E r \in RunnersOf(c) : StartSpawnTask(r))
       /\ WF_vars(ReaperStep(c))
  /\ \A r \in Runner :
       /\ WF_vars(SpawnStep(r) \/ LaunchStep(r) \/ TerminateStep("task", r))
       /\ WF_vars(TerminateStep("listener", r))
       /\ WF_vars(TerminateStep("worker", r) \/ WorkerStep(r))
       /\ SF_vars(MintAcquire(r))
       /\ SF_vars(LaunchAcquire(r))
       /\ SF_vars(SkipFresh(r) \/ DispatchReap(r) \/ DispatchSweep(r))
       /\ WF_vars(InstanceStarts(r) /\ ProcessUnchanged)
       /\ WF_vars(StopCompletes(r) /\ ProcessUnchanged)
       /\ WF_vars(TimerExpires(r))

FairSpec == Spec /\ Fairness

\* A select with both cases ready picks at random, and the listener polls under
\* the context, so both notice in the end that it is done.
ShutdownSpec ==
  /\ FairSpec
  /\ \A c \in Class : SF_vars(ListenerReturns(c)) /\ SF_vars(RunReturns(c))

\* Capacity always comes back: a tracked runner leaves the tracker in the end,
\* by JobCompleted or, when that message never comes, by a timeout.
PoolSpec == Pool!PoolSpec

\* Incus does not refuse the same request for ever.
RetriesSucceed ==
  /\ \A c \in Class : SF_vars(SweepList(c))
  /\ \A r \in Runner :
       /\ SF_vars(SweepStop(r) /\ vm'[r] = "stopped")
       /\ SF_vars(SweepDelete(r) /\ vm'[r] = "gone")

LifecycleSpec == ShutdownSpec /\ RetriesSucceed

\* "Errors are logged + swallowed; the reaper retries on the next sweep"
\* (orchestrator.go:538-540), and the drift sweep covers crash recovery:
\* every instance incuse ever created is gone in the end, the ones a failed
\* launch, a failed teardown, a shutdown or a crash left behind included,
\* unless the process that would do it is told to stop first.
InstanceReclaimed ==
  \A r \in Runner : InstanceExists(r) ~> ~InstanceExists(r) \/ ctxDone

\* No task waits for ever: not on the slots it shares with the sweeps and with
\* the other classes, and not on a task that waits on it.
TaskFinishes ==
  \A r \in Runner : pc["task"][r] \in TaskLive ~> pc["task"][r] \notin TaskLive

\* Once the context is cancelled, every listener and every Run returns, unless
\* the process is killed first (~ctxDone: another one has been started).
ShutdownCompletes == ctxDone ~> Exited \/ ~ctxDone

----------------------------------------------------------------------------
(* What the repository says and the code does not do.                      *)

\* "JobCompleted arrives while IncusClient.Launch is still in flight. Must NOT
\* call Stop/Delete" (orchestrator_test.go:775-778).
NoTeardownDuringLaunch ==
  \A r \in Runner :
    pc["task"][r] \in {"create", "wait"} =>
      pc["listener"][r] \notin {"stop", "delete"}

\* "statusBusy: ... Reaper switches from registration-timeout to
\* max-job-duration semantics" (tracker.go:47-50): the registration timeout
\* does not tear down a runner that is executing a job.
RegistrationReapSparesBusy ==
  \A r \in Runner :
    plan[r] = "registration" /\ At("worker", r, "remove") => state[r] # "busy"

\* "In-flight runners (Incus VMs that have already started) are unaffected"
\* by a restart (docs/operations.md:86): the new process does not stop an
\* instance that is executing a job.
RestartSparesJobs ==
  [][\A r \in Runner :
       gh[r] = "running" /\ vm[r] = "running" /\ At("worker", r, "sweepStop")
         => vm'[r] = "running"]_vars
============================================================================
