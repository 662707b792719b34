---------------------------- MODULE Orchestrator ----------------------------
(***************************************************************************)
(* The orchestrators of one incuse process, one per runner class           *)
(* (internal/orchestrator), with the processes that interleave in them:    *)
(*                                                                         *)
(*   listener  one goroutine per class; GitHub's messages in order, through*)
(*             HandleDesiredRunnerCount, HandleJobStarted, HandleJobCompleted *)
(*   task      one goroutine per runner: spawnIdleRunner, then launch      *)
(*   reaper    Run's ticker goroutine of a class: reapOnce                 *)
(*   worker    one goroutine per entry a sweep handles: parallelReap       *)
(*                                                                         *)
(* A step ends where the code releases a mutex, blocks, or calls Incus or  *)
(* GitHub, so every interleaving of those points is a behaviour.           *)
(***************************************************************************)
EXTENDS Cloud, Limiter

CONSTANTS
  MaxRunners,   \* max_runners of each class
  Desired,      \* the desired counts GitHub may ask for
  Faults,       \* which failures the environment may inject
  MaxBoots      \* bound: how often the process may start again

FaultKind ==
  { "mint",        \* resolver or GenerateJITConfig returns an error
    "lostReply",   \* ... after GitHub has registered the runner
    "render",      \* cloud-init cannot be rendered
    "launch",      \* Incus refuses or fails a launch, or a wait is cut short
    "teardown",    \* Stop or Delete returns an error
    "list",        \* List returns an error
    "deregister",  \* RemoveRunner returns an error
    "lose",        \* a message is lost
    "redeliver",   \* a handled message is delivered again
    "stop",        \* SIGTERM, or a listener error: the errgroup's context ends
    "restart",     \* the process is started again after it has exited
    "crash" }      \* the process is killed, and started again

ASSUME MaxRunnersAssumption == MaxRunners \in [Class -> Nat \ {0}]
ASSUME DesiredAssumption == Desired \subseteq Int
ASSUME FaultsAssumption == Faults \subseteq FaultKind
ASSUME BootsAssumption == MaxBoots \in Nat

VARIABLES
  inflight,      \* inflight[c]: spawnInflight
  remaining,     \* remaining[c]: tasks the loop of HandleDesiredRunnerCount
                 \* has still to start
  listening,     \* listening[c]: ScaleSet.Run has not returned
  pc,            \* pc[a][r]: where actor a is with runner r
  rpc,           \* rpc[c]: where Run is
  plan,          \* plan[r]: what the running sweep has decided about r
  listed,        \* listed[c]: the instances List returned to the drift sweep
  shuttingDown,  \* shuttingDown[c]: the flag; lifecycleCtx is cancelled with it
  ctxDone,       \* the errgroup's context is cancelled
  boots          \* how often the process has been started again

spawnVars == <<inflight, remaining>>
runVars == <<listening, rpc, plan, listed, shuttingDown, ctxDone, boots>>
vars == <<trackerVars, limiterVars, cloudVars, spawnVars, pc, runVars>>

Actor == {"task", "worker", "listener"}

\* spawnIdleRunner up to tracker.add, and the part of it that holds a mint slot
Minting == {"generate", "render", "discard", "discarding"}
PreAdmit == Minting \cup {"mint", "aborted"}
\* launch, while the entry may be in state launching
Launching == {"acquire", "withdraw", "create", "wait", "launched", "forget"}
\* terminateInstance and the RemoveRunner after it
Terminating == {"mark", "remove", "stop", "delete"}
Teardown == Terminating \cup {"deregister", "deregistering"}
Sweeping == {"sweepStop", "sweepDelete"}
TaskLive == PreAdmit \cup Launching \cup Teardown \cup {"withdrawn"}
Label == TaskLive \cup Sweeping \cup {"none", "done"}

RunLabel == {"idle", "reap", "list", "names", "sweep", "joining", "stopped"}
Plan == {"none", "fresh", "registration", "maxJob", "orphan"}

OrchestratorTypeOK ==
  /\ inflight \in [Class -> Int]
  /\ remaining \in [Class -> Nat]
  /\ listening \in [Class -> BOOLEAN]
  /\ pc \in [Actor -> [Runner -> Label]]
  /\ rpc \in [Class -> RunLabel]
  /\ plan \in [Runner -> Plan]
  /\ listed \in [Class -> SUBSET Runner]
  /\ shuttingDown \in [Class -> BOOLEAN]
  /\ ctxDone \in BOOLEAN
  /\ boots \in Nat

\* Every variable has its type, and a name without an entry has no flags set.
TypeOK == TrackerTypeOK /\ LimiterTypeOK /\ CloudTypeOK /\ OrchestratorTypeOK

Init ==
  /\ TrackerInit /\ LimiterInit /\ CloudInit
  /\ inflight = [c \in Class |-> 0]
  /\ remaining = [c \in Class |-> 0]
  /\ listening = [c \in Class |-> TRUE]
  /\ pc = [a \in Actor |-> [r \in Runner |-> "none"]]
  /\ rpc = [c \in Class |-> "idle"]
  /\ plan = [r \in Runner |-> "none"]
  /\ listed = [c \in Class |-> {}]
  /\ shuttingDown = [c \in Class |-> FALSE]
  /\ ctxDone = FALSE
  /\ boots = 0

At(a, r, l) == pc[a][r] = l
Go(a, r, l) == pc' = [pc EXCEPT ![a][r] = l]

RunnersOf(c) == {r \in Runner : ClassOf[r] = c}
Unused(c) == {r \in RunnersOf(c) : At("task", r, "none")}

\* Tasks run under lifecycleCtx, which Run cancels as it returns; listener and
\* reaper under the errgroup's context.
Cancelled(a, r) == IF a = "task" THEN shuttingDown[ClassOf[r]] ELSE ctxDone
TeardownMayFail(a, r) == "teardown" \in Faults \/ Cancelled(a, r)
DeregisterMayFail(a, r) == "deregister" \in Faults \/ Cancelled(a, r)

----------------------------------------------------------------------------
(* The listener goroutine.                                                 *)

ListenerFree(c) ==
  /\ listening[c]
  /\ remaining[c] = 0
  /\ \A r \in RunnersOf(c) : At("listener", r, "none")

Clamp(n, max) == IF n > max THEN max ELSE IF n < 0 THEN 0 ELSE n

\* Mutant: spawns in flight are not counted.
ScaleUp_NoInflight(c, n) == Clamp(n, MaxRunners[c]) - Size(c)

\* The number of runners to start, computed and reserved under spawnMu.
ScaleUp(c, n) == Clamp(n, MaxRunners[c]) - (Size(c) + inflight[c])

\* A count that asks for no more runners changes nothing: runners are never
\* scaled down.  The names left bound the model.
HandleDesiredRunnerCount(c) ==
  /\ ListenerFree(c)
  /\ \E n \in Desired :
       /\ ScaleUp(c, n) \in 1 .. Cardinality(Unused(c))
       /\ inflight' = [inflight EXCEPT ![c] = @ + ScaleUp(c, n)]
       /\ remaining' = [remaining EXCEPT ![c] = ScaleUp(c, n)]
  /\ UNCHANGED <<trackerVars, limiterVars, cloudVars, pc, runVars>>

\* Mutant: shuttingDown is not looked at.
StartSpawnTask_Unchecked(r) ==
  /\ remaining[ClassOf[r]] > 0
  /\ At("task", r, "none")
  /\ Go("task", r, "mint")
  /\ remaining' = [remaining EXCEPT ![ClassOf[r]] = @ - 1]
  /\ UNCHANGED <<trackerVars, limiterVars, cloudVars, inflight, runVars>>

\* startSpawnTask returns true: the task is added to the WaitGroup under taskMu.
StartSpawnTask(r) ==
  LET c == ClassOf[r] IN
  /\ remaining[c] > 0
  /\ ~shuttingDown[c]
  /\ At("task", r, "none")
  /\ Go("task", r, "mint")
  /\ remaining' = [remaining EXCEPT ![c] = @ - 1]
  /\ UNCHANGED <<trackerVars, limiterVars, cloudVars, inflight, runVars>>

\* Mutant: a refused task is tried again.
RefuseSpawnTask_Retries(c) ==
  /\ remaining[c] > 0
  /\ shuttingDown[c]
  /\ UNCHANGED vars

\* startSpawnTask returns false: the reservation is given back.
RefuseSpawnTask(c) ==
  /\ remaining[c] > 0
  /\ shuttingDown[c]
  /\ remaining' = [remaining EXCEPT ![c] = @ - 1]
  /\ inflight' = [inflight EXCEPT ![c] = @ - 1]
  /\ UNCHANGED <<trackerVars, limiterVars, cloudVars, pc, runVars>>

Handled(r, e) ==
  \/ ConsumeEvent(r, e)
  \/ "redeliver" \in Faults /\ e \in ev[r] /\ UNCHANGED cloudVars

HandleJobStarted(r) ==
  /\ ListenerFree(ClassOf[r])
  /\ Handled(r, "started")
  /\ MarkBusy(r)
  /\ UNCHANGED <<limiterVars, spawnVars, pc, runVars>>

\* tracker.get decides; terminateInstance marks in a step of its own.
HandleJobCompleted(r) ==
  /\ ListenerFree(ClassOf[r])
  /\ "started" \notin ev[r]
  /\ Handled(r, "completed")
  /\ IF Tracked(r) THEN Go("listener", r, "mark") ELSE UNCHANGED pc
  /\ UNCHANGED <<trackerVars, limiterVars, spawnVars, runVars>>

ListenerReturns(c) ==
  /\ ctxDone
  /\ ListenerFree(c)
  /\ listening' = [listening EXCEPT ![c] = FALSE]
  /\ UNCHANGED <<trackerVars, limiterVars, cloudVars, spawnVars, pc,
                 rpc, plan, listed, shuttingDown, ctxDone, boots>>

----------------------------------------------------------------------------
(* spawnIdleRunner.                                                        *)

MintAcquire(r) ==
  /\ At("task", r, "mint")
  /\ AcquireMint
  /\ Go("task", r, "generate")
  /\ UNCHANGED <<trackerVars, cloudVars, spawnVars, runVars>>

MintCancelled(r) ==
  /\ At("task", r, "mint")
  /\ Cancelled("task", r)
  /\ Go("task", r, "aborted")
  /\ UNCHANGED <<trackerVars, limiterVars, cloudVars, spawnVars, runVars>>

\* Resolve the runner release, then mint the JIT configuration.
Generate(r) ==
  /\ At("task", r, "generate")
  /\ GenerateJITConfig(r)
  /\ Go("task", r, "render")
  /\ UNCHANGED <<trackerVars, limiterVars, spawnVars, runVars>>

\* A spawnIdleRunner that returns early: its deferred calls release the mint
\* slot ...
AbortSpawn(r) ==
  /\ Go("task", r, "aborted")
  /\ ReleaseMint
  /\ UNCHANGED <<trackerVars, spawnVars, runVars>>

\* Mutant: finishInflight is not deferred.
FinishInflight_Skipped(r) ==
  /\ At("task", r, "aborted")
  /\ Go("task", r, "done")
  /\ UNCHANGED <<trackerVars, limiterVars, cloudVars, spawnVars, runVars>>

\* ... and, under spawnMu, give back the reservation.
FinishInflight(r) ==
  /\ At("task", r, "aborted")
  /\ Go("task", r, "done")
  /\ inflight' = [inflight EXCEPT ![ClassOf[r]] = @ - 1]
  /\ UNCHANGED <<trackerVars, limiterVars, cloudVars, remaining, runVars>>

\* An error of the resolver or of GitHub, or a shutdown that cuts the call
\* short.  GitHub may have registered the runner then, and without a
\* reference to it nobody deregisters it.
GenerateFails(r) ==
  /\ At("task", r, "generate")
  /\ \/ /\ "mint" \in Faults \/ Cancelled("task", r)
        /\ UNCHANGED cloudVars
     \/ /\ "lostReply" \in Faults \/ Cancelled("task", r)
        /\ GenerateUnheard(r)
  /\ AbortSpawn(r)

RenderFails(r) ==
  /\ "render" \in Faults
  /\ At("task", r, "render")
  /\ Go("task", r, "discard")
  /\ UNCHANGED <<trackerVars, limiterVars, cloudVars, spawnVars, runVars>>

\* removeRunnerByID: a context found done is replaced by a fresh one, which no
\* shutdown ends.  One found live is used, and may end during the call.
Discard(r) ==
  /\ At("task", r, "discard")
  /\ \/ /\ Cancelled("task", r)
        /\ RemoveRunner(r, "deregister" \in Faults)
        /\ AbortSpawn(r)
     \/ /\ ~Cancelled("task", r)
        /\ Go("task", r, "discarding")
        /\ UNCHANGED <<trackerVars, limiterVars, cloudVars, spawnVars, runVars>>

Discarding(r) ==
  /\ At("task", r, "discarding")
  /\ RemoveRunner(r, DeregisterMayFail("task", r))
  /\ AbortSpawn(r)

\* The entry replaces the reservation in one critical section of spawnMu; the
\* mint slot is released before the launch is queued.
Admit(r) ==
  /\ At("task", r, "render")
  /\ Add(r)
  /\ inflight' = [inflight EXCEPT ![ClassOf[r]] = @ - 1]
  /\ ReleaseMint
  /\ Go("task", r, "acquire")
  /\ UNCHANGED <<cloudVars, remaining, runVars>>

----------------------------------------------------------------------------
(* launch.                                                                 *)

LaunchCancelled(r) ==
  /\ At("task", r, "acquire")
  /\ Cancelled("task", r)
  /\ Go("task", r, "withdraw")
  /\ UNCHANGED <<trackerVars, limiterVars, cloudVars, spawnVars, runVars>>

Withdraw(r) ==
  /\ At("task", r, "withdraw")
  /\ Remove(r)
  /\ Go("task", r, "withdrawn")
  /\ UNCHANGED <<limiterVars, cloudVars, spawnVars, runVars>>

\* The context is done, or no slot would have been refused: a fresh one.
Withdrawn(r) ==
  /\ At("task", r, "withdrawn")
  /\ RemoveRunner(r, "deregister" \in Faults)
  /\ Go("task", r, "done")
  /\ UNCHANGED <<trackerVars, limiterVars, spawnVars, runVars>>

\* The slot is taken, and a termination asked for meanwhile is honoured
\* before anything is created.
LaunchAcquire(r) ==
  /\ At("task", r, "acquire")
  /\ AcquireLaunch
  /\ Go("task", r, IF pending[r] THEN "forget" ELSE "create")
  /\ UNCHANGED <<trackerVars, cloudVars, spawnVars, runVars>>

\* CreateInstance takes no context: it is issued whatever has been cancelled.
Create(r) ==
  /\ At("task", r, "create")
  /\ CreateInstance(r)
  /\ Go("task", r, "wait")
  /\ UNCHANGED <<trackerVars, limiterVars, spawnVars, runVars>>

\* WaitContext and Get succeed; the instance may have run its course by then.
LaunchOK(r) ==
  /\ At("task", r, "wait")
  /\ vm[r] \in {"running", "stopping", "stopped"}
  /\ Go("task", r, "launched")
  /\ UNCHANGED <<trackerVars, limiterVars, cloudVars, spawnVars, runVars>>

\* Mutant: the entry of a failed launch is not removed.
LaunchFails_KeepsEntry(r) ==
  /\ At("task", r, "wait")
  /\ vm[r] = "gone" \/ "launch" \in Faults
  /\ Go("task", r, "deregister")
  /\ UNCHANGED <<trackerVars, limiterVars, cloudVars, spawnVars, runVars>>

\* Launch fails, whatever has become of the instance.
LaunchFails(r) ==
  /\ \/ At("task", r, "create") /\ "launch" \in Faults
     \/ /\ At("task", r, "wait")
        /\ vm[r] = "gone" \/ "launch" \in Faults \/ Cancelled("task", r)
  /\ Go("task", r, "forget")
  /\ UNCHANGED <<trackerVars, limiterVars, cloudVars, spawnVars, runVars>>

Forget(r) ==
  /\ At("task", r, "forget")
  /\ Remove(r)
  /\ Go("task", r, "deregister")
  /\ UNCHANGED <<limiterVars, cloudVars, spawnVars, runVars>>

\* Mutant: what markIdle returns is not looked at.
Launched_IgnoresPending(r) ==
  /\ At("task", r, "launched")
  /\ MarkIdle(r)
  /\ Go("task", r, "done") /\ ReleaseLaunch
  /\ UNCHANGED <<cloudVars, spawnVars, runVars>>

\* Mutant: the slot is not released after a good launch.
Launched_KeepsSlot(r) ==
  /\ At("task", r, "launched")
  /\ MarkIdle(r)
  /\ Go("task", r, IF pending[r] THEN "mark" ELSE "done")
  /\ UNCHANGED <<limiterVars, cloudVars, spawnVars, runVars>>

Launched(r) ==
  /\ At("task", r, "launched")
  /\ MarkIdle(r)
  /\ IF pending[r]
       THEN Go("task", r, "mark") /\ UNCHANGED limiterVars
       ELSE Go("task", r, "done") /\ ReleaseLaunch
  /\ UNCHANGED <<cloudVars, spawnVars, runVars>>

----------------------------------------------------------------------------
(* terminateInstance, by whichever actor calls it, and removeRunnerByID.   *)

\* Only HandleJobCompleted does not deregister the runner afterwards.
AfterTerminate(a) == IF a = "listener" THEN "none" ELSE "deregister"

\* Mutant: teardown is not deferred while a launch is in flight.
TermMark_NoDefer(a, r) ==
  /\ At(a, r, "mark")
  /\ MarkForTermination(r)
  /\ Go(a, r, "remove")
  /\ UNCHANGED <<limiterVars, cloudVars, spawnVars, runVars>>

TermMark(a, r) ==
  /\ At(a, r, "mark")
  /\ MarkForTermination(r)
  /\ Go(a, r, IF state[r] = "launching" THEN AfterTerminate(a) ELSE "remove")
  /\ UNCHANGED <<limiterVars, cloudVars, spawnVars, runVars>>

TermRemove(a, r) ==
  /\ At(a, r, "remove")
  /\ Remove(r)
  /\ Go(a, r, "stop")
  /\ UNCHANGED <<limiterVars, cloudVars, spawnVars, runVars>>

TermStop(a, r) ==
  /\ At(a, r, "stop")
  /\ StopInstance(r, TeardownMayFail(a, r))
  /\ Go(a, r, "delete")
  /\ UNCHANGED <<trackerVars, limiterVars, spawnVars, runVars>>

TermDelete(a, r) ==
  /\ At(a, r, "delete")
  /\ DeleteInstance(r, TeardownMayFail(a, r))
  /\ Go(a, r, AfterTerminate(a))
  /\ UNCHANGED <<trackerVars, limiterVars, spawnVars, runVars>>

\* After RemoveRunner task and worker return and release their slot.
ActorReturns(a, r) ==
  /\ ReleaseLaunch
  /\ Go(a, r, IF a = "task" THEN "done" ELSE "none")
  /\ plan' = IF a = "worker" THEN [plan EXCEPT ![r] = "none"] ELSE plan
  /\ UNCHANGED <<trackerVars, spawnVars,
                 listening, rpc, listed, shuttingDown, ctxDone, boots>>

\* Mutant: RemoveRunner is not called once the context is done.
Deregister_Cancelled(a, r) ==
  /\ At(a, r, "deregister")
  /\ \/ Cancelled(a, r) /\ UNCHANGED cloudVars /\ ActorReturns(a, r)
     \/ /\ ~Cancelled(a, r)
        /\ Go(a, r, "deregistering")
        /\ UNCHANGED <<trackerVars, limiterVars, cloudVars, spawnVars, runVars>>

\* A context found done is replaced by a fresh one, as in Discard.
Deregister(a, r) ==
  /\ At(a, r, "deregister")
  /\ \/ /\ Cancelled(a, r)
        /\ RemoveRunner(r, "deregister" \in Faults)
        /\ ActorReturns(a, r)
     \/ /\ ~Cancelled(a, r)
        /\ Go(a, r, "deregistering")
        /\ UNCHANGED <<trackerVars, limiterVars, cloudVars, spawnVars, runVars>>

Deregistering(a, r) ==
  /\ At(a, r, "deregistering")
  /\ RemoveRunner(r, DeregisterMayFail(a, r))
  /\ ActorReturns(a, r)

----------------------------------------------------------------------------
(* Run and reapOnce.                                                       *)

Goto(c, l) == rpc' = [rpc EXCEPT ![c] = l]
ReaperUnchanged ==
  UNCHANGED <<trackerVars, cloudVars, spawnVars, listening, shuttingDown,
              ctxDone, boots>>

\* Mutant: busy runners have no timeout.
Verdict_NoMaxJob(r) ==
  IF expired[r] /\ state[r] # "busy" THEN "registration" ELSE "fresh"

\* What reapTracked will do with an entry, fixed by the snapshot.
Verdict(r) ==
  CASE ~expired[r] -> "fresh"
    [] expired[r] /\ state[r] = "busy" -> "maxJob"
    [] OTHER -> "registration"

Tick(c) ==
  /\ rpc[c] = "idle"
  /\ Goto(c, "reap")
  /\ plan' = [r \in Runner |-> IF r \in Names(c) THEN Verdict(r) ELSE plan[r]]
  /\ UNCHANGED <<limiterVars, pc, listed>>
  /\ ReaperUnchanged

Undispatched(r) == plan[r] # "none" /\ At("worker", r, "none")

\* parallelReap takes a launch slot for every entry, due or not.
SkipFresh(r) ==
  /\ rpc[ClassOf[r]] = "reap"
  /\ Undispatched(r)
  /\ plan[r] = "fresh"
  /\ launchUsed < MaxLaunches
  /\ plan' = [plan EXCEPT ![r] = "none"]
  /\ UNCHANGED <<limiterVars, pc, rpc, listed>>
  /\ ReaperUnchanged

DispatchReap(r) ==
  /\ rpc[ClassOf[r]] = "reap"
  /\ Undispatched(r)
  /\ plan[r] # "fresh"
  /\ AcquireLaunch
  /\ Go("worker", r, "mark")
  /\ UNCHANGED <<plan, rpc, listed>>
  /\ ReaperUnchanged

\* acquire gives up once the context is done; the rest is not visited.
AbandonSweep(c) ==
  /\ ctxDone
  /\ rpc[c] \in {"reap", "sweep"}
  /\ \E r \in RunnersOf(c) : Undispatched(r)
  /\ plan' = [r \in Runner |-> IF ClassOf[r] = c /\ Undispatched(r)
                               THEN "none" ELSE plan[r]]
  /\ UNCHANGED <<limiterVars, pc, rpc, listed>>
  /\ ReaperUnchanged

\* wg.Wait returns.
SweepJoined(c) == \A r \in RunnersOf(c) : plan[r] = "none"

\* Mutant: the drift sweep is not reached.
ReapDone_NoSweep(c) ==
  /\ rpc[c] = "reap"
  /\ SweepJoined(c)
  /\ Goto(c, "idle")
  /\ UNCHANGED <<limiterVars, pc, plan, listed>>
  /\ ReaperUnchanged

ReapDone(c) ==
  /\ rpc[c] = "reap"
  /\ SweepJoined(c)
  /\ Goto(c, IF ctxDone THEN "idle" ELSE "list")
  /\ UNCHANGED <<limiterVars, pc, plan, listed>>
  /\ ReaperUnchanged

\* driftSweep lists the instances of the whole project first ...
SweepList(c) ==
  /\ rpc[c] = "list"
  /\ Goto(c, "names")
  /\ listed' = [listed EXCEPT ![c] = {r \in Runner : InstanceExists(r)}]
  /\ UNCHANGED <<limiterVars, pc, plan>>
  /\ ReaperUnchanged

SweepListFails(c) ==
  /\ "list" \in Faults
  /\ rpc[c] = "list"
  /\ Goto(c, "idle")
  /\ UNCHANGED <<limiterVars, pc, plan, listed>>
  /\ ReaperUnchanged

\* Mutant: the scale set's id is not compared.
Orphans_AnyClass(c) == listed[c] \ Names(c)

\* ... and only then reads the names in its tracker.  An orphan carries the
\* scale set's id and has no entry.
Orphans(c) == {r \in listed[c] : ClassOf[r] = c} \ Names(c)

SweepNames(c) ==
  /\ rpc[c] = "names"
  /\ Goto(c, "sweep")
  /\ plan' = [r \in Runner |-> IF r \in Orphans(c) THEN "orphan" ELSE plan[r]]
  /\ listed' = [listed EXCEPT ![c] = {}]
  /\ UNCHANGED <<limiterVars, pc>>
  /\ ReaperUnchanged

DispatchSweep(r) ==
  /\ rpc[ClassOf[r]] = "sweep"
  /\ Undispatched(r)
  /\ AcquireLaunch
  /\ Go("worker", r, "sweepStop")
  /\ UNCHANGED <<plan, rpc, listed>>
  /\ ReaperUnchanged

SweepStop(r) ==
  /\ At("worker", r, "sweepStop")
  /\ StopInstance(r, TeardownMayFail("worker", r))
  /\ Go("worker", r, "sweepDelete")
  /\ UNCHANGED <<trackerVars, limiterVars, spawnVars, runVars>>

\* Mutant: the worker returns without releasing its slot.
SweepDelete_KeepsSlot(r) ==
  /\ At("worker", r, "sweepDelete")
  /\ DeleteInstance(r, TeardownMayFail("worker", r))
  /\ Go("worker", r, "none")
  /\ plan' = [plan EXCEPT ![r] = "none"]
  /\ UNCHANGED <<trackerVars, limiterVars, spawnVars,
                 listening, rpc, listed, shuttingDown, ctxDone, boots>>

SweepDelete(r) ==
  /\ At("worker", r, "sweepDelete")
  /\ DeleteInstance(r, TeardownMayFail("worker", r))
  /\ ReleaseLaunch
  /\ Go("worker", r, "none")
  /\ plan' = [plan EXCEPT ![r] = "none"]
  /\ UNCHANGED <<trackerVars, spawnVars,
                 listening, rpc, listed, shuttingDown, ctxDone, boots>>

SweepDone(c) ==
  /\ rpc[c] = "sweep"
  /\ SweepJoined(c)
  /\ Goto(c, "idle")
  /\ UNCHANGED <<limiterVars, pc, plan, listed>>
  /\ ReaperUnchanged

\* Run's deferred function: the flag and the cancel under taskMu, then the join.
RunReturns(c) ==
  /\ ctxDone
  /\ rpc[c] = "idle"
  /\ Goto(c, "joining")
  /\ shuttingDown' = [shuttingDown EXCEPT ![c] = TRUE]
  /\ UNCHANGED <<trackerVars, limiterVars, cloudVars, spawnVars, pc,
                 listening, plan, listed, ctxDone, boots>>

TasksJoined(c) == \A r \in RunnersOf(c) : pc["task"][r] \notin TaskLive

Join(c) ==
  /\ rpc[c] = "joining"
  /\ TasksJoined(c)
  /\ Goto(c, "stopped")
  /\ UNCHANGED <<limiterVars, pc, plan, listed>>
  /\ ReaperUnchanged

----------------------------------------------------------------------------
(* The process as a whole.                                                 *)

Signal ==
  /\ "stop" \in Faults
  /\ ~ctxDone
  /\ ctxDone' = TRUE
  /\ UNCHANGED <<trackerVars, limiterVars, cloudVars, spawnVars, pc,
                 listening, rpc, plan, listed, shuttingDown, boots>>

\* A new process starts with empty memory; Incus and GitHub are as they were.
\* Names of the old process are not minted again.
Boot ==
  /\ boots < MaxBoots
  /\ boots' = boots + 1
  /\ state' = [r \in Runner |-> "absent"]
  /\ pending' = [r \in Runner |-> FALSE]
  /\ expired' = [r \in Runner |-> FALSE]
  /\ mintUsed' = 0 /\ launchUsed' = 0
  /\ inflight' = [c \in Class |-> 0]
  /\ remaining' = [c \in Class |-> 0]
  /\ listening' = [c \in Class |-> TRUE]
  /\ pc' = [a \in Actor |-> [r \in Runner |->
              IF a = "task" /\ pc[a][r] # "none" THEN "done" ELSE "none"]]
  /\ rpc' = [c \in Class |-> "idle"]
  /\ plan' = [r \in Runner |-> "none"]
  /\ listed' = [c \in Class |-> {}]
  /\ shuttingDown' = [c \in Class |-> FALSE]
  /\ ctxDone' = FALSE
  /\ UNCHANGED cloudVars

Exited == \A c \in Class : rpc[c] = "stopped" /\ ~listening[c]

Restart == "restart" \in Faults /\ Exited /\ Boot

Crash == "crash" \in Faults /\ Boot

----------------------------------------------------------------------------

ProcessUnchanged ==
  UNCHANGED <<trackerVars, limiterVars, spawnVars, pc, runVars>>

\* Steps of the hypervisor and of GitHub's broker.
CloudStep(r) ==
  /\ \/ InstanceStarts(r)
     \/ "launch" \in Faults /\ CreateFails(r)
     \/ StopCompletes(r)
     \/ EphemeralCleanup(r)
     \/ PowerOff(r)
     \/ AssignJob(r)
     \/ FinishJob(r)
     \/ "lose" \in Faults /\ \E e \in Event : ConsumeEvent(r, e)
  /\ ProcessUnchanged

TimerExpires(r) ==
  /\ Expire(r)
  /\ UNCHANGED <<limiterVars, cloudVars, spawnVars, pc, runVars>>

ListenerStep(c) ==
  \/ HandleDesiredRunnerCount(c)
  \/ RefuseSpawnTask(c)
  \/ ListenerReturns(c)
  \/ \E r \in RunnersOf(c) :
       StartSpawnTask(r) \/ HandleJobStarted(r) \/ HandleJobCompleted(r)

SpawnStep(r) ==
  \/ MintAcquire(r) \/ MintCancelled(r)
  \/ Generate(r) \/ GenerateFails(r)
  \/ RenderFails(r) \/ Discard(r) \/ Discarding(r)
  \/ FinishInflight(r) \/ Admit(r)

LaunchStep(r) ==
  \/ LaunchCancelled(r) \/ Withdraw(r) \/ Withdrawn(r)
  \/ LaunchAcquire(r) \/ Create(r) \/ LaunchOK(r) \/ LaunchFails(r)
  \/ Forget(r) \/ Launched(r)

TerminateStep(a, r) ==
  \/ TermMark(a, r) \/ TermRemove(a, r) \/ TermStop(a, r) \/ TermDelete(a, r)
  \/ Deregister(a, r) \/ Deregistering(a, r)

WorkerStep(r) ==
  \/ SkipFresh(r) \/ DispatchReap(r) \/ DispatchSweep(r)
  \/ SweepStop(r) \/ SweepDelete(r)

ReaperStep(c) ==
  \/ Tick(c) \/ AbandonSweep(c) \/ ReapDone(c)
  \/ SweepList(c) \/ SweepListFails(c) \/ SweepNames(c) \/ SweepDone(c)
  \/ RunReturns(c) \/ Join(c)

Next ==
  \/ \E c \in Class : ListenerStep(c) \/ ReaperStep(c)
  \/ \E r \in Runner : SpawnStep(r) \/ LaunchStep(r) \/ WorkerStep(r)
  \/ \E a \in Actor, r \in Runner : TerminateStep(a, r)
  \/ \E r \in Runner : CloudStep(r) \/ TimerExpires(r)
  \/ Signal \/ Restart \/ Crash

Spec == Init /\ [][Next]_vars
============================================================================
