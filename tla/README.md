# A TLA+ model of incuse

incuse is a single-host orchestrator: it listens to GitHub Actions scale sets,
mints just-in-time runner registrations, launches one ephemeral Incus instance
per runner and tears it down after its job. This directory models what is hard
to test in it, the interleavings of its goroutines with GitHub, Incus, timeouts,
shutdown and crashes. TLC checks the models on small instances; TLAPS proves
every safety property the passing runs check for every value of the constants
(classes, runner names, limits, callers, faults, configurations, edits).

## Inventory

| part | state | operations | interacts with | what makes it correct |
|---|---|---|---|---|
| instance tracker (`tracker.go`) | map name → entry (`State`, `TerminationPending`, timestamps) under an RWMutex | add, remove, get, markIdle, markBusy, markForTermination, snapshot, names, size | called by every goroutine of a class | an entry's state never goes backwards; a requested termination is carried out |
| limiters (`Limiter`) | two buffered channels, shared by all classes | acquire(ctx), release | spawn tasks, reapers | slots exact, no deadlock |
| scale-set handlers (`orchestrator.go`) | `spawnInflight` | HandleDesiredRunnerCount, HandleJobStarted, HandleJobCompleted | called by the listener goroutine, start tasks | capacity never exceeded; the same message twice, late or never does no harm |
| spawn task (`spawnIdleRunner`, `launch`) | position, slots held | mint, render, admit, launch, abort | GitHub, Incus, tracker | no reservation, slot, registration or instance leaks on any path |
| reaper (`reaper.go`) | snapshot, list | reapTracked, driftSweep, parallelReap | tracker, Incus, launch limiter | stuck runners are removed, orphans found, live runners spared |
| Incus client (`incus/client.go`) | none; requests and operations in flight | Launch, Stop, Delete, Get, List | Incus daemon | nil means it has happened; every call ends with its context |
| process (`main.go`) | the sets to close, errgroup | bootstrap classes, run group, close | everything | recovers, stops, releases its sessions |
| bootstrap and session (`scaleset.go`) | client, message session | Bootstrap, reconcile, open with retry, Run, Close | GitHub | one scale set per class, labels as configured |
| health server (`server.go`) | two flags; optional | MarkHealthy, MarkReady, Run | probes | flags truthful |
| release resolver (`resolver.go`) | cache under a mutex | Resolve | GitHub API, every spawn task | one request per ttl, stale before error |
| configuration (`config.go`, `labels.go`, `preflight.go`) | the parsed file | applyDefaults, Validate, ScaleSetSpecs, Preflight | every constructor, cloud-init, the launch request, GitHub's labels | what `--validate` accepts, the process can run with |
| runner names (`makeRunnerName`) | none | makeRunnerName, sanitizeNamePart | Incus' limit of 63 characters | valid, and no two alike |
| recorder (`recorder.go`) | counters and gauges | SetTrackedInstances, counters | every goroutine | the gauge shows the tracker |
| cloud-init, launch request | none | Render, buildLaunchRequest | Incus | nothing an accepted configuration makes them refuse |
| build, packaging, scripts | | | | not modelled, see below |

Hard behaviours: up to `max_parallel_*` tasks, one reaper with workers and one
listener per class run at once; state is read before a blocking call and used
after it (reaper snapshot, instance list, launch); GitHub's messages can be
handled before `Launch` returns, be repeated or get lost; every call can fail,
some after they have taken effect; SIGTERM comes at any point; memory is lost in
a crash while instances, registrations and sessions stay.

## Modules

| module | models |
|---|---|
| `Tracker` | `instanceTracker`: one operator per method; `pending` is `TerminationPending`, `expired` is "the deadline `reapTracked` compares with has passed" |
| `Limiter` | the two `Limiter`s as counters |
| `Cloud` | Incus instances, GitHub registrations and undelivered messages, as the code in `src/` sees them |
| `Orchestrator` | extends the three; the goroutines of all classes in one process |
| `RunnerPool` | abstract specification: bounded pools whose names are used once |
| `OrchestratorProps` | properties, refinement mapping, fairness |
| `MCOrchestrator` | definitions for the TLC runs |
| `Supervisor`, `SupervisorProps`, `MCSupervisor` | the process around the orchestrators: bootstrap, sessions, errgroup, health, exit, restart |
| `Resolver` | `LatestResolver`, with its properties |
| `InstancePort` | abstract specification: the contract of `incus.Client` for one instance, in `Cloud`'s operators |
| `IncusClient` | `realClient` request by request against the daemon, and its refinement of `InstancePort` |
| `Names` | names and labels: `makeRunnerName`, `ScaleSetName`, `ScaleSetLabels`, `labelNamesMatch` |
| `Settings` | the configuration as a record: `applyDefaults`, `Validate`, `Preflight`, `ScaleSetSpecs`, and what each constructor, `Render` and `Launch` accept |
| `Startup`, `MCStartup` | `main()` and `run()` from the file to the first launches, for an operator who edits the file between two starts |
| `Metrics`, `MCMetrics` | `Orchestrator` with the gauge of tracked instances |
| `OrchestratorProofs` | types and inductive invariant of `Orchestrator`, teardown and launch |
| `OrchestratorCounting` | slots, reservations, capacity; the refinement of `RunnerPool`; the gauge of `Metrics` |
| `OrchestratorLeaks` | registrations and instances that nobody would remove |
| `NamesProofs`, `StartupProofs` | the operators of `Names`, and `Startup` on top of them |
| `SupervisorProofs`, `ClientProofs`, `ResolverProofs` | proofs about the three others |

`Supervisor` and `Orchestrator` look at the same process at two scales.
`Supervisor` has one flag for each `Orchestrator.Run` (`reapers`) and listener;
in `Orchestrator`, `ctxDone` is the errgroup's context, `Exited` is `g.Wait`
returning, and `Boot` is a new process. What `Supervisor` shows (a process runs
its classes only when all are bootstrapped, and stops when told to) is what
`Orchestrator` takes for granted at `Boot` and `Exited`.  `Startup` looks at the
same `run()` for its settings: each constructor's own checks, in order, where
`Supervisor` looks at its calls to GitHub.

`IncusClient` is below `Orchestrator`: there a `Stop` is one step that uses
`Cloud`'s `StopInstance`; here it is a post, an answer, an operation and a wait.
`InstancePort` is what lies between the two.  It is made of the same `Cloud`
operators, each taking effect at one instant between call and return, and
`IncusClient` implements it (`ImplementsPort`).  That the orchestrator ignores
the errors of `Stop` and `Delete` is why one step in `Orchestrator` is enough.

### State and code

* `pc[a][r]` is where an actor is with runner `r`. Actors: `task` is the
  goroutine of `startSpawnTask` (`spawnIdleRunner`, then `launch`), `worker` the
  goroutine `parallelReap` starts for one entry, `listener` the message loop
  inside `HandleJobCompleted`. The labels are named for what comes next:
  `mint`, `generate`, `render`, `discard`, `discarding`, `aborted` (before
  `tracker.add`), `acquire`, `create`, `wait`, `launched`, `forget`, `withdraw`,
  `withdrawn` (`launch`), `mark`, `remove`, `stop`, `delete`
  (`terminateInstance`), `deregister`, `deregistering` (`removeRunnerByID`),
  `sweepStop`, `sweepDelete` (`driftSweep`). The two labels of
  `removeRunnerByID`, and of its use in `removeRunnerBestEffort`, are before the
  test of the context and in the call made with the context found live, which a
  shutdown can still cut short.
* `unsettled` is a history variable: the registered runners about which a call
  to GitHub failed. No action reads it.
* `rpc[c]` is where `Run` is, `plan[r]` what the current sweep has decided about
  `r` from its snapshot, `listed[c]` what `List` returned.
* `inflight` is `spawnInflight`; `remaining` counts the iterations left in
  `HandleDesiredRunnerCount`'s loop.
* In `Supervisor`, `proc` is where `run()` is, `cur` the class of the bootstrap
  or closing loop, `opened` the members of `sets`, `cause` the error `g.Wait` or
  an early return yields.
* In `Startup`, `config`, `mode` and `content` are the operator's files, `cfg`
  the file with its defaults, `proc` and `cur` where `run()` is, `read` the
  secret files opened so far, `failure` who refused, `hub` the labels GitHub has
  for each scale set, by runner group and name, `requests` the launches asked
  for. An accepted value is
  one value per kind (one URL, one positive number) and a rejected one another;
  names and labels are sequences of characters. The constants `Base` and
  `Alternates` are the configurations and what an edit may put into a field,
  `Decimal` is how a number is written in a label, `Text` the strings a
  configuration is made of. What is written as a loop over characters or labels
  in Go is a recursive function here (`Built`).
* In `IncusClient`, `pc[k]` is what call `k` waits for, `ans[k]` the daemon's
  answer that is on its way, `op[k]` the daemon's operation, `inst` the
  instance. A terminator calls `Stop` and then `Delete`, as
  `terminateInstance` and the sweep do; `Launch` overlaps with them.
* In `Metrics`, `sample` is an update of the gauge that a goroutine owes: due,
  then read from `tracker.size()`, then set; `gauge` is what was set last.

### Atomicity

A step ends where the code releases a mutex, blocks on a channel or calls
another service. Four places take more in one step, each because nothing can
tell the difference:

* `Admit` is the critical section of `spawnMu` (add, decrement) together with
  the release of the mint slot after it; between them the task touches nothing
  anybody else reads, and the release only enables others.
* `SkipFresh` acquires and releases a launch slot for an entry that is not due;
  the slot's being taken for a moment only delays others.
* `removeRunnerByID` that finds its context done tests it and calls
  `RemoveRunner` in one step: the fresh context it then makes is nobody else's.
  `Withdrawn` always finds it done, for only that keeps `acquire` from a slot.
* `terminateInstance`'s `get` is for a metric and is left out.

### Environment

`Faults` names what may go wrong in a run, and each constant's comment says
what. Instances: a create operation goes on after its wait was cut short, or
fails; a stop may take effect late; a stopped ephemeral instance disappears;
after its job the instance powers off. GitHub assigns a job to a registered
runner whose instance runs; a runner with a job cannot be removed. Messages of
one runner are delivered in order, one at a time per class; they can be lost
(`lose`) or handled again (`redeliver`).

Assumptions: names are unique and used once (`randomNameSuffix`); one incuse
process at a time per configuration (the unit file); desired counts may be any
of `Desired`, negative and too large ones included; releases of actions/runner
are not withdrawn; label sets are compared up to case and order
(`labelNamesMatch`), so one abstract value stands for each. Incus refuses to
stop an instance that is still being created
(`orchestrator_test.go:775-777`) and to delete one that runs.

## Runs

| run | instance | distinct states | shows |
|---|---|---|---|
| `Failures` | 1 class, 2 names, max_runners 1, 1 slot each; failed mints, renders, launches, teardowns, lists; lost and repeated messages; SIGTERM | 1.4 M | `TypeOK`, `CapacityBound`, `InflightExact`, `SlotsExact`, `LaunchingHasTask`, `PendingHasOwner`, `TeardownDeferred`, `NoRegistrationLeak`, `JoinComplete`, `BusyNeverDemoted`, `PoolSafety` |
| `TwoClasses` | 2 classes sharing 1 slot of each limiter | 1.8 M | `SlotsExact`, `SweepSparesTracked` |
| `Progress` | 2 names, max_runners 1; lost messages; fairness | 79 k | `InstanceAccounted`, `PoolSpec`, `TaskFinishes` |
| `Lifecycle` | 1 name; every failure but repeated messages, SIGTERM, one restart or crash; fairness | 32 k | `ShutdownCompletes`, `InstanceReclaimed` |
| `Process` | 2 classes, 2 label sets, 2 attempts, every fault, with and without a health server; fairness | 18 k | `SupervisorTypeOK`, `OneScaleSet`, `HealthyIsBootstrapped`, `PollsOwnSession`, `SessionsReleased`, `Recovers`, `SignalStops` |
| `Resolve` | 3 callers, 2 architectures, 3 releases, cache on and off; fairness | 43 k | `ResolverTypeOK`, `OneFetchPerWindow`, `FallsBack`, `NeverOlder`, `ResolveReturns` |
| `Start` | 2 configurations, each changed twice, one field or file at a time | 194 k | `StartupTypeOK`, `NoLateRefusal`, `ReadsOnlyVetted`, `OneArchPerLocalImage`, `RunnerNamesTell`, `LabelsSettle` |
| `Client` | 1 launch, 2 terminators; every request lost, refused, timed out or cancelled; fairness of the caller only | 93 k | `ClientTypeOK`, `CallsReturn`, `ImplementsPort` |

Four more runs are refuted (`TeardownDuringLaunch`, `ReapBusy`, `RestartJobs`,
`Gauge`); see Divergences.

Why these bounds are enough to be interesting:

* With max_runners 1 and two names a replacement is spawned while the old runner
  is still being torn down, which is where capacity, slots and stale sweeps
  meet. One slot of each limiter makes every waiting situation happen (a sweep
  behind a launch, a class behind another). `Desired` is -1 .. 3, so counts are
  clamped at both ends.
* `MaxBoots` bounds restarts; one is enough for a process to meet what another
  left behind, and nothing of a process survives but the cloud's state, which
  later crashes leave in the same states.
* Two label sets and two classes let a configuration change between any two
  processes while the other class is unaffected. `MaxAttempts` is 2 for the
  code's 20: the first attempt that backs off and the last that gives up.
* In `Start` the two configurations are a local daemon with a token and a remote
  one with a GitHub App, the latter with two classes, base labels and a baked
  image. Two edits (`MaxEdits`) break a setting and mend it, break two at once,
  or change what an earlier start has sent to GitHub. Incus' limit of 63
  characters is 54 for the scale-set name, one dash and 8 for the suffix; the
  run has 17 = 14 + 1 + 2, and prefixes give names of 13, 14 and 15 characters.
* In `Client` two terminators are what the process can have for one instance at
  a time: the listener and a worker, or a worker and the sweep.
* `Gauge` needs two entries at once, hence max_runners 2 and two mint slots.

The bound in `HandleDesiredRunnerCount`'s guard (names left) only bounds the
model: a count for which there are not enough names is not delivered.

`Failures`, `Lifecycle`, `RestartJobs` and `Client` allow deadlock because a
stopped process, or a call whose operation never ends and whose context nobody
cancels, may really stay where it is. Symmetry in the names is used only by
`Failures`, which has no liveness.

### Fairness

* Goroutines that can run do run: weak fairness of every step of a task, a
  worker, a reaper and the listener's loop. Faults are never forced.
* A goroutine blocked on a channel send is queued first in, first out, so a
  slot freed again and again reaches it: strong fairness of `MintAcquire`,
  `LaunchAcquire` and the sweep's dispatch.
* `select` picks at random among ready cases, and the listener polls under the
  context: strong fairness of `RunReturns` and `ListenerReturns`, assumed only
  where a shutdown is to be followed (`ShutdownSpec`).
* The daemon finishes operations it has accepted; deadlines pass.
* `Lifecycle` also assumes that Incus does not refuse the same request for ever
  (`RetriesSucceed`), for `InstanceReclaimed`: the code only promises to retry.
* `Supervisor`: `Restart=on-failure`; GitHub does not fail one call for ever and
  drops stale sessions; the process is not killed at the same point every time.
* `Resolver`: the HTTP client's 30 s timeout ends every request; `sync.Mutex`
  hands over to a starving waiter.
* `IncusClient`: the daemon owes nothing. A request ends with the client's
  `request_timeout`, a wait only with the caller's context: weak fairness of
  `TimesOut` outside the wait and of `Cancelled` once the context is done.

### Divergences

Four are runs in which TLC refutes what the repository says:

* `TeardownDuringLaunch`: `orchestrator_test.go:775-778` says JobCompleted
  during a launch must not call Stop or Delete. It does if JobStarted came
  first: the entry is then busy, not launching (`orchestrator.go:542`). What the
  code does keep is `TeardownDeferred`, checked by `Failures` and proved: as long
  as the entry is launching, neither a message, a timeout nor a sweep is at it.
* `ReapBusy`: a runner that became busy after the reaper's snapshot is torn down
  by the registration timeout, against `tracker.go:47-50`.
* `RestartJobs`: `docs/operations.md:86` says instances that run are unaffected
  by a restart; the first drift sweep stops them (`reaper.go:78-99`).
* `Gauge`: `recorder.go:107` says the gauge counts the entries of the tracker;
  two goroutines that read `tracker.size()` and set the gauge under no lock
  (`orchestrator.go:471`) can leave the older of the two sizes in it.

More were met while modelling and have no run of their own:

* `tracker.go:122-124` says the caller should do nothing for an entry that is
  gone; `terminateInstance` stops and deletes all the same
  (`orchestrator.go:542-561`), which is harmless because both are idempotent.
* `max_runners` bounds entries, not instances: the entry goes
  (`orchestrator.go:552`) before the instance is stopped and deleted.
* `server.go:40-41` says ready follows the first poll; `main.go:186` marks it
  as soon as the goroutines are started.
* `docs/incus-access.md:101-103` says `--validate` refuses
  `insecure_skip_verify` together with `url`; nothing checks it.
* `docs/operations.md:72` says validating catches a bad token; only that the
  file is there and its mode are checked.
* `config.go:84-85` calls the daemon's URL and socket mutually exclusive;
  `Validate` accepts both and the URL is used.
* The reaper counts an entry whose termination it defers in `reaps_total` at
  every tick.
* `config.go:34-36` says `config_url` is the URL of an organization, repository
  or enterprise, but `Validate` only asks for a scheme and a host
  (`config.go:255-258`). `https://github.com` passes `--validate`, and the
  client's constructor refuses it at every start (`scaleset.go:113-116`).
  `NoLateRefusal` says that this is the only setting refused so late.
* `removeRunnerByID` takes a fresh context so that a shutdown does not keep it
  from deregistering, but only if the context is already done when it looks
  (`orchestrator.go:584`). One that ends during the call makes it fail.

What the code gives up is allowed for in a property on purpose. When the reply
to `GenerateJITConfig` is lost, or the shutdown cuts it short, the registration
leaks, for the code has no id to remove; nor does it try again when
`RemoveRunner` fails. `NoRegistrationLeak` allows a registration to be left for
a runner about which such a call failed (`unsettled`), and for no other: it is
about the orchestrator's own paths. A new process knows nothing of what an
earlier one had registered, so the property is checked, and proved, without
`restart` and `crash`.

## Proofs

For all values of the constants that satisfy the named assumptions (finitely
many names and classes, positive limits, any subset of the faults, any desired
counts; any number of callers, label sets, attempts and releases; any set of
configurations and of edits that have the fields' types), TLAPS proves:

| theorem | module | statement |
|---|---|---|
| `TypeCorrect` | `OrchestratorProofs` | `Spec => []TypeOK` |
| `InvCorrect` | `OrchestratorProofs` | `Spec => []IInv` |
| `SweepSafe` | `OrchestratorProofs` | `Spec => []SweepSparesTracked` |
| `LaunchingOwned` | `OrchestratorProofs` | `Spec => []LaunchingHasTask` |
| `TerminationOwned` | `OrchestratorProofs` | `Spec => []PendingHasOwner` |
| `DeferredCorrect` | `OrchestratorProofs` | `Spec => []TeardownDeferred` |
| `JoinCorrect` | `OrchestratorProofs` | `Spec => []JoinComplete` |
| `BusyCorrect` | `OrchestratorProofs` | `Spec => BusyNeverDemoted` |
| `SlotsCorrect` | `OrchestratorCounting` | `Spec => []SlotsExact` |
| `InflightCorrect` | `OrchestratorCounting` | `Spec => []InflightExact` |
| `CapacityCorrect` | `OrchestratorCounting` | `Spec => []CapacityBound` |
| `PoolImplemented` | `OrchestratorCounting` | `Spec => PoolSafety` |
| `MetricsOnlyWatch` | `OrchestratorCounting` | `MetricsSpec => Spec`: the gauge changes nothing, so the theorems hold with it |
| `GaugeBounded` | `OrchestratorCounting` | `MetricsSpec => []GaugeInCapacity`: the gauge is never negative nor above `max_runners` |
| `RegistrationsCorrect` | `OrchestratorLeaks` | `Spec => []NoRegistrationLeak`, if `ProcessStays` (no `restart`, `crash`) |
| `InstancesCorrect` | `OrchestratorLeaks` | `Spec => []InstanceAccounted`, if `CallsToIncusSucceed` (no `launch`, `teardown`, `stop`, `restart`, `crash`) |
| `SupervisorCorrect` | `SupervisorProofs` | `SupervisorSpec => []SupervisorInv` |
| `SupervisorTypeCorrect`, `OneScaleSetCorrect`, `HealthyCorrect`, `PollsOwnCorrect`, `SessionsReleasedCorrect` | `SupervisorProofs` | the five invariants of `Process` |
| `NoConflictCorrect` | `SupervisorProofs` | `SupervisorSpec => []NoConflict` (no open meets a session of a former process), if `Faults` has no `lostReply`, `close`, `crash` |
| `ClientCorrect` | `ClientProofs` | `ClientSpec => []ClientInv` |
| `ClientTypeCorrect` | `ClientProofs` | `ClientSpec => []ClientTypeOK` |
| `PortImplemented` | `ClientProofs` | `ClientSpec => ImplementsPort` |
| `ResolverCorrect` | `ResolverProofs` | `ResolverSpec => []ResolverInv` |
| `ResolverTypeCorrect`, `OneFetchCorrect`, `FallsBackCorrect`, `NeverOlderCorrect` | `ResolverProofs` | the safety properties of `Resolve` |
| `ScaleSetLabelsDistinct` | `NamesProofs` | for all labels: the list sent has the class's name, in some case, and no two labels that GitHub takes for one |
| `MakeRunnerNameWhole` | `NamesProofs` | within the limit on a scale-set name nothing of class or suffix is cut off; the name is within Incus' limit and its alphabet |
| `MakeRunnerNameTells` | `NamesProofs` | two runners have one name only for the same class and the same suffix |
| `StartupCorrect` | `StartupProofs` | `StartupSpec => []StartupInv` |
| `StartupTypeCorrect`, `NoLateRefusalCorrect`, `ReadsVettedCorrect`, `OneArchCorrect`, `RunnerNamesCorrect`, `LabelsSettleCorrect` | `StartupProofs` | the six properties of `Start` |

The argument:

1. *Types.* Every step is, for the tracker, the limiters and the cloud, one of
   their own operations (`TrackerFrame`, `LimiterFrame`, `CloudFrame`); types
   follow per operation.
2. *The inductive invariant* `IInv` adds to the types: which labels an actor can
   have (`ActorLabels`: only tasks launch, only workers sweep); a name no task
   has taken is fresh everywhere (`FreshNames`); and the four properties
   themselves. `SweepSparesTracked` needs `FreshNames`, because an orphan must
   not be added later, and `LaunchingHasTask`; `PendingHasOwner` needs
   `ActorLabels` to know that two actors cannot both be the owner that leaves;
   `JoinComplete` needs `JoinInv`: from `joining` on, the flag that refuses new
   tasks is set. One step per action, one sub-step per conjunct it can disturb.
   `TeardownDeferred` is about three actors and needs more (`SparedInv`): no
   plan, worker or message is about a name whose task has not been admitted
   (`Unvisited`), and a plan belongs to the pass its reaper is in, the drift
   sweep dispatching orphans only (`PlansCurrent`). Without the first an actor
   could be at a name when its entry appears, without the second a worker of the
   sweep at one that the reaper's timeouts had planned.
3. *Counting.* `SlotMoves` and `PoolMoves` reduce the forty-odd actions to the
   few ways they change the sets that are counted (one name enters or leaves
   together with the counter). `SlotsExact`, `InflightExact` and `CapacityBound`
   are then arithmetic on cardinalities.
4. *Refinement.* Each of `PoolMoves`' cases is a step of `RunnerPool` under the
   mapping `reserved <- inflight`, `live <-` tracked names, `spent <-` names
   whose task is past admission and that have no entry. That a reservation is
   there to be given back or filled is `InflightExact`. For the gauge,
   `CapacityBound` and `InflightExact` bound every size it can have read.
5. *Leaks.* Both theorems assume that some faults are not in `Faults`.
   `RegistrationInv` adds to the property what GitHub knows of a name
   (`Registered`): nothing before its task mints, and a completed job before the
   listener terminates, the one actor that does not deregister. `PlacementInv`
   adds how an instance, its entry and its actors fit together (`Placed`): it is
   created for a launching entry, which nobody removes before the launch has
   ended, and whoever has removed an entry stops the instance before deleting it.
6. *Process.* `SupervisorInv` is the types; where `run()` is and what it has
   opened (`Position`); a session is ours exactly while its set is still to be
   closed (`OwnSessions`); the labels of a bootstrapped class (`Configured`);
   and that what `GetRunnerScaleSet` found is still so when `reconcile` uses it
   (`ScaleSets`), which is what `OneScaleSet` needs. `NoConflictCorrect` adds
   that no session is stale: a new process finds none of its predecessor's open
   (`OwnSessions`), and the three faults that make one stale are left out.
7. *Client.* `ClientInv` relates, call by call, where the call is, the daemon's
   answer and its operation. Under the mapping of `IncusClient` every step is
   then a step of the contract or a stutter: a call's effect is where the daemon
   commits it, not where the reply arrives. `PortSteps` and `PortDaemon` give
   the contract's steps, one lemma per group of client actions uses them.
8. *Resolver.* `CacheInv` holds per architecture (what is stored is at least what
   was returned; one fill per fresh window), `FetchInv` for the caller that has
   the mutex: the cache stays stale under it until it stores, so its answer is
   not older than anything returned meanwhile.

9. *Names.* The library's induction takes an operator as a parameter, so the
   loops are proved about by the least counterexample: a set of indices that is
   not empty has a least member (`LeastElement`, `UpTo`, from the well-founded
   order of the naturals), at which the previous round of the loop contradicts
   it. `Recursion` and the `...Loop` lemmas turn `Built` into its recursive
   equation; `LabelsLoop` carries that labels stay distinct, `KeepLoop` that
   trimming and writing leave a plain word as it is.
10. *Startup.* `StartupInv` says what has been checked where `run()` is: nothing
   is read or asked for before connecting (`NothingYet`), the class loop is at a
   class (`AtClass`), whoever has opened a file or sent a launch request has
   passed `Validate` and `Preflight` with the files as they still are
   (`Checked`), and each request is the one the configuration makes (`Asked`).
   `NoLateRefusal` then says of each constructor but the GitHub client's that what
   `Validate` accepted it accepts (`ConstructorsAccept`, `LaunchAccepted`),
   `RunnerNamesTell` is `MakeRunnerNameTells` for the classes of an accepted
   configuration, and `LabelsSettle` is `StoredAsSent` (GitHub folds nothing) with
   `ReorderingMatches` (`labelNamesMatch` does not mind the order).
   `NoLateRefusal` itself is needed in the invariant, since `failure` outlives
   the step that sets it. Defaults are applied before anything is looked at, so
   every lemma is about `Working` configurations, those with all defaults given.

The conditional theorems leave out the faults after which the code itself gives
up. `InstancesCorrect`: whoever fails to stop or delete an instance does not try
again, an instance whose launch was given up may appear later, and a new process
does not know what the last one was doing; what the drift sweep then finds and
removes is `InstanceReclaimed`, a liveness property. `RegistrationsCorrect`: a
new process does not know what the last one registered; failed calls stay in,
and excuse the one runner they were about. `NoConflictCorrect`: the three faults
are those that leave a session behind. All other faults stay in.

Only model-checked: liveness (`PoolSpec`, `TaskFinishes`, `ShutdownCompletes`,
`InstanceReclaimed`, `Recovers`, `SignalStops`, `ResolveReturns`,
`CallsReturn`), which is out of the prover's reach, and the four refutations.

## Not modelled

* The text of cloud-init, the conversion of configuration into Incus' maps, YAML
  decoding, the release document: formatting and parsing. That each can fail is
  modelled, and so is what each refuses.
* TLS, connection set-up, HTTP handlers: pure I/O. What `dial` asks of the
  settings and which files it reads is in `Settings`. The GitHub client's
  constructor is not in `src/`: of what it refuses `Settings` has the URL that
  names nothing (`BuildClientAccepts`); what is wrong inside a key is not
  modelled.
* The recorder's counters and histograms: incremented atomically, never read.
  Its other gauges are set by one goroutine each.
* Build, packaging, image scripts. Of the unit file, `Restart=on-failure` is used.
* `ScaleSet.SetMaxRunners`: nothing calls it.

Limits of what is modelled:

* `Settings` has no upper bounds: `MemoryGiB * 1024` overflows only from 2^53.
* `makeRunnerName`'s branch for a suffix that leaves no room is unreachable, its
  suffix being 8 hexadecimal digits; it is in `Names` and no run takes it.
* Files do not change between `Preflight` and the reads. An application key of
  white space only is refused by the GitHub client, which is external.
* `Generate` is `Resolve` and `GenerateJITConfig` in one step, so the shutdown
  that ends the former may also leave a registration, which it cannot in the
  code: the model has more leaks there than the program, all of them `unsettled`.
* A `RemoveRunner` that a shutdown cuts short takes effect before its caller
  returns or never; one that takes effect later would only end a leak earlier.
* `Supervisor` has one runner group for ever: in another the code finds no scale
  set and creates one, which is in `Startup`. The old one stays at GitHub.
* GitHub is taken to fold the letter case of labels. That a base label is the
  name of another class is allowed, as in the code.
* In `IncusClient` a request that timed out before the daemon handled it is
  lost; a stop during creation is refused; a failed creation leaves no instance.

## Plan

The order was what the whole program depends on first: `Tracker`, `Limiter`,
`Cloud`, `Orchestrator` and `RunnerPool` with their proofs; `Supervisor` and
`Resolver`; then what lies below and before them (`IncusClient`, `Names`,
`Settings`, `Startup`, `Metrics`), the leaks, and the proofs about process,
client and resolver. All of it is done. What could come next:

* spawn tasks that call `Resolver` (its mutex is held during a request, so a
  slow GitHub delays the mints of every class);
* an abstract life cycle of a process that `Supervisor` implements;
* a mutex around the gauge, or a gauge read on demand, after which
  `GaugeTellsSize` would be an invariant of `Metrics`.
