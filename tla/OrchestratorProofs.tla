------------------------- MODULE OrchestratorProofs -------------------------
(***************************************************************************)
(* The inductive invariant of Orchestrator and what follows from it.       *)
(* Types come first: every step of the orchestrator is, for the tracker,   *)
(* the limiters and the cloud, one of their own operations.  Their types   *)
(* follow operation by operation, the orchestrator's own variables action  *)
(* by action.                                                              *)
(***************************************************************************)
EXTENDS OrchestratorProps, FiniteSetTheorems, TLAPS

\* All the ways the tracker changes; a new process starts with an empty one.
TrackerNext ==
  \/ \E r \in Runner :
       \/ Add(r) \/ Remove(r) \/ MarkIdle(r) \/ MarkBusy(r)
       \/ MarkForTermination(r) \/ Expire(r)
  \/ TrackerInit'
  \/ UNCHANGED trackerVars

\* All the ways the limiters change.
LimiterNext ==
  \/ AcquireMint \/ ReleaseMint \/ AcquireLaunch \/ ReleaseLaunch
  \/ LimiterInit'
  \/ UNCHANGED limiterVars

\* All the ways Incus and GitHub change, as far as the model goes.
CloudNext ==
  \/ \E r \in Runner :
       \/ CreateInstance(r) \/ GenerateJITConfig(r) \/ GenerateUnheard(r)
       \/ StopInstance(r, TRUE) \/ DeleteInstance(r, TRUE)
       \/ RemoveRunner(r, TRUE)
       \/ \E e \in Event : ConsumeEvent(r, e)
       \/ InstanceStarts(r) \/ CreateFails(r) \/ StopCompletes(r)
       \/ EphemeralCleanup(r) \/ PowerOff(r) \/ AssignJob(r) \/ FinishJob(r)
  \/ UNCHANGED cloudVars

\* Whatever the orchestrator does, the tracker only sees its own methods.
LEMMA TrackerFrame == [Next]_vars => TrackerNext
<1> USE DEF TrackerNext
<1>1. ASSUME NEW c \in Class, ListenerStep(c) PROVE TrackerNext
  BY <1>1 DEF ListenerStep, HandleDesiredRunnerCount, RefuseSpawnTask,
     ListenerReturns, RunnersOf, StartSpawnTask, HandleJobStarted,
     HandleJobCompleted
<1>2. ASSUME NEW c \in Class, ReaperStep(c) PROVE TrackerNext
  BY <1>2 DEF ReaperStep, Tick, AbandonSweep, ReapDone, SweepList,
     SweepListFails, SweepNames, SweepDone, RunReturns, Join, ReaperUnchanged,
     trackerVars
<1>3. ASSUME NEW r \in Runner, SpawnStep(r) PROVE TrackerNext
  BY <1>3 DEF SpawnStep, MintAcquire, MintCancelled, Generate, GenerateFails,
     RenderFails, Discard, Discarding, FinishInflight, Admit, AbortSpawn
<1>4. ASSUME NEW r \in Runner, LaunchStep(r) PROVE TrackerNext
  BY <1>4 DEF LaunchStep, LaunchCancelled, Withdraw, Withdrawn, LaunchAcquire,
     Create, LaunchOK, LaunchFails, Forget, Launched
<1>5. ASSUME NEW r \in Runner, WorkerStep(r) PROVE TrackerNext
  BY <1>5 DEF WorkerStep, SkipFresh, DispatchReap, DispatchSweep, SweepStop,
     SweepDelete, ReaperUnchanged, trackerVars
<1>6. ASSUME NEW a \in Actor, NEW r \in Runner, TerminateStep(a, r)
      PROVE  TrackerNext
  BY <1>6 DEF TerminateStep, TermMark, TermRemove, TermStop, TermDelete,
     Deregister, Deregistering, ActorReturns
<1>7. ASSUME NEW r \in Runner, CloudStep(r) \/ TimerExpires(r)
      PROVE  TrackerNext
  BY <1>7 DEF CloudStep, TimerExpires, ProcessUnchanged, trackerVars
<1>8. ASSUME Signal \/ Restart \/ Crash PROVE TrackerNext
  BY <1>8 DEF Signal, Restart, Crash, Boot, TrackerInit, trackerVars
<1>9. CASE UNCHANGED vars
  BY <1>9 DEF vars
<1> QED
  BY <1>1, <1>2, <1>3, <1>4, <1>5, <1>6, <1>7, <1>8, <1>9 DEF Next

\* Whatever the orchestrator does, the limiters only see acquire and release.
LEMMA LimiterFrame == [Next]_vars => LimiterNext
<1> USE DEF LimiterNext
<1>1. ASSUME NEW c \in Class, ListenerStep(c) PROVE LimiterNext
  BY <1>1 DEF ListenerStep, HandleDesiredRunnerCount, RefuseSpawnTask,
     ListenerReturns, RunnersOf, StartSpawnTask, HandleJobStarted,
     HandleJobCompleted
<1>2. ASSUME NEW c \in Class, ReaperStep(c) PROVE LimiterNext
  BY <1>2 DEF ReaperStep, Tick, AbandonSweep, ReapDone, SweepList,
     SweepListFails, SweepNames, SweepDone, RunReturns, Join
<1>3. ASSUME NEW r \in Runner, SpawnStep(r) PROVE LimiterNext
  BY <1>3 DEF SpawnStep, MintAcquire, MintCancelled, Generate, GenerateFails,
     RenderFails, Discard, Discarding, FinishInflight, Admit, AbortSpawn
<1>4. ASSUME NEW r \in Runner, LaunchStep(r) PROVE LimiterNext
  BY <1>4 DEF LaunchStep, LaunchCancelled, Withdraw, Withdrawn, LaunchAcquire,
     Create, LaunchOK, LaunchFails, Forget, Launched
<1>5. ASSUME NEW r \in Runner, WorkerStep(r) PROVE LimiterNext
  BY <1>5 DEF WorkerStep, SkipFresh, DispatchReap, DispatchSweep, SweepStop,
     SweepDelete
<1>6. ASSUME NEW a \in Actor, NEW r \in Runner, TerminateStep(a, r)
      PROVE  LimiterNext
  BY <1>6 DEF TerminateStep, TermMark, TermRemove, TermStop, TermDelete,
     Deregister, Deregistering, ActorReturns
<1>7. ASSUME NEW r \in Runner, CloudStep(r) \/ TimerExpires(r)
      PROVE  LimiterNext
  BY <1>7 DEF CloudStep, TimerExpires, ProcessUnchanged
<1>8. ASSUME Signal \/ Restart \/ Crash PROVE LimiterNext
  BY <1>8 DEF Signal, Restart, Crash, Boot, LimiterInit
<1>9. CASE UNCHANGED vars
  BY <1>9 DEF vars
<1> QED
  BY <1>1, <1>2, <1>3, <1>4, <1>5, <1>6, <1>7, <1>8, <1>9 DEF Next

\* A call that may not fail does nothing one that may fail cannot do.
LEMMA MayFail ==
  ASSUME NEW r, NEW b
  PROVE  /\ StopInstance(r, b) => StopInstance(r, TRUE)
         /\ DeleteInstance(r, b) => DeleteInstance(r, TRUE)
         /\ RemoveRunner(r, b) => RemoveRunner(r, TRUE)
  BY DEF StopInstance, DeleteInstance, RemoveRunner

\* Whatever the orchestrator does, Incus and GitHub only see their own calls.
LEMMA CloudFrame == [Next]_vars => CloudNext
<1> USE DEF CloudNext, Event
<1>1. ASSUME NEW c \in Class, ListenerStep(c) PROVE CloudNext
  BY <1>1 DEF ListenerStep, HandleDesiredRunnerCount, RefuseSpawnTask,
     ListenerReturns, RunnersOf, StartSpawnTask, HandleJobStarted,
     HandleJobCompleted, Handled
<1>2. ASSUME NEW c \in Class, ReaperStep(c) PROVE CloudNext
  BY <1>2 DEF ReaperStep, Tick, AbandonSweep, ReapDone, SweepList,
     SweepListFails, SweepNames, SweepDone, RunReturns, Join, ReaperUnchanged
<1>3. ASSUME NEW r \in Runner, SpawnStep(r) PROVE CloudNext
  BY <1>3, MayFail DEF SpawnStep, MintAcquire, MintCancelled, Generate,
     GenerateFails,
     RenderFails, Discard, Discarding, FinishInflight, Admit, AbortSpawn
<1>4. ASSUME NEW r \in Runner, LaunchStep(r) PROVE CloudNext
  BY <1>4, MayFail DEF LaunchStep, LaunchCancelled, Withdraw, Withdrawn,
     LaunchAcquire,
     Create, LaunchOK, LaunchFails, Forget, Launched
<1>5. ASSUME NEW r \in Runner, WorkerStep(r) PROVE CloudNext
  BY <1>5, MayFail DEF WorkerStep, SkipFresh, DispatchReap, DispatchSweep,
     SweepStop,
     SweepDelete, ReaperUnchanged
<1>6. ASSUME NEW a \in Actor, NEW r \in Runner, TerminateStep(a, r)
      PROVE  CloudNext
  BY <1>6, MayFail DEF TerminateStep, TermMark, TermRemove, TermStop,
     TermDelete,
     Deregister, Deregistering, ActorReturns
<1>7. ASSUME NEW r \in Runner, CloudStep(r) \/ TimerExpires(r)
      PROVE  CloudNext
  BY <1>7 DEF CloudStep, TimerExpires
<1>8. ASSUME Signal \/ Restart \/ Crash PROVE CloudNext
  BY <1>8 DEF Signal, Restart, Crash, Boot
<1>9. CASE UNCHANGED vars
  BY <1>9 DEF vars
<1> QED
  BY <1>1, <1>2, <1>3, <1>4, <1>5, <1>6, <1>7, <1>8, <1>9 DEF Next

\* A tracker has a number of entries, for there are finitely many names.
LEMMA SizeType == \A c \in Class : Size(c) \in Nat
  BY RunnerAssumption, FS_Subset, FS_CardinalityType DEF Size, Names

\* There are finitely many names left.
LEMMA UnusedType == \A c \in Class : Cardinality(Unused(c)) \in Nat
  BY RunnerAssumption, FS_Subset, FS_CardinalityType DEF Unused, RunnersOf

\* The tracker's methods keep its type.
LEMMA TrackerTypes == TrackerTypeOK /\ TrackerNext => TrackerTypeOK'
<1> SUFFICES ASSUME TrackerTypeOK, TrackerNext PROVE TrackerTypeOK'
  OBVIOUS
<1> USE DEF TrackerTypeOK, EntryState, Tracked
<1>1. ASSUME NEW r \in Runner, Add(r) \/ Remove(r) PROVE TrackerTypeOK'
  BY <1>1 DEF Add, Remove, SetEntry
<1>2. ASSUME NEW r \in Runner, MarkIdle(r) PROVE TrackerTypeOK'
  BY <1>2 DEF MarkIdle
<1>3. ASSUME NEW r \in Runner, MarkBusy(r) PROVE TrackerTypeOK'
  BY <1>3 DEF MarkBusy
<1>4. ASSUME NEW r \in Runner, MarkForTermination(r) PROVE TrackerTypeOK'
  BY <1>4 DEF MarkForTermination
<1>5. ASSUME NEW r \in Runner, Expire(r) PROVE TrackerTypeOK'
  BY <1>5 DEF Expire
<1>6. CASE TrackerInit'
  BY <1>6 DEF TrackerInit
<1>7. CASE UNCHANGED trackerVars
  BY <1>7 DEF trackerVars
<1> QED
  BY <1>1, <1>2, <1>3, <1>4, <1>5, <1>6, <1>7 DEF TrackerNext

\* acquire and release keep the type of the counters.
LEMMA LimiterTypes == LimiterTypeOK /\ LimiterNext => LimiterTypeOK'
  BY DEF LimiterTypeOK, LimiterNext, LimiterInit, AcquireMint, ReleaseMint,
     AcquireLaunch, ReleaseLaunch, limiterVars

\* The calls to Incus and GitHub keep the type of what they keep.
LEMMA CloudTypes == CloudTypeOK /\ CloudNext => CloudTypeOK'
<1> SUFFICES ASSUME CloudTypeOK, CloudNext PROVE CloudTypeOK'
  OBVIOUS
<1> USE DEF CloudTypeOK, VMState, GHState, Event, SetVM, cloudVars
<1>1. ASSUME NEW r \in Runner,
             \/ CreateInstance(r) \/ GenerateJITConfig(r) \/ GenerateUnheard(r)
             \/ StopInstance(r, TRUE) \/ DeleteInstance(r, TRUE)
             \/ RemoveRunner(r, TRUE)
      PROVE  CloudTypeOK'
  BY <1>1 DEF CreateInstance, GenerateJITConfig, GenerateUnheard, Fails,
     StopInstance, DeleteInstance, RemoveRunner
<1>2. ASSUME NEW r \in Runner, NEW e \in Event, ConsumeEvent(r, e)
      PROVE  CloudTypeOK'
  BY <1>2 DEF ConsumeEvent
<1>3. ASSUME NEW r \in Runner,
             \/ InstanceStarts(r) \/ CreateFails(r) \/ StopCompletes(r)
             \/ EphemeralCleanup(r) \/ PowerOff(r)
      PROVE  CloudTypeOK'
  BY <1>3 DEF InstanceStarts, CreateFails, StopCompletes, EphemeralCleanup,
     PowerOff
<1>4. ASSUME NEW r \in Runner, AssignJob(r) \/ FinishJob(r)
      PROVE  CloudTypeOK'
  BY <1>4 DEF AssignJob, FinishJob
<1>5. CASE UNCHANGED cloudVars
  BY <1>5
<1> QED
  BY <1>1, <1>2, <1>3, <1>4, <1>5 DEF CloudNext

\* Giving back one reservation keeps the type of the counters.
LEMMA Decrement ==
  ASSUME NEW f \in [Class -> Int], NEW c \in Class
  PROVE  [f EXCEPT ![c] = @ - 1] \in [Class -> Int]
  OBVIOUS

\* Moving one actor at one name keeps the type of pc.
LEMMA GoType ==
  ASSUME pc \in [Actor -> [Runner -> Label]],
         NEW a \in Actor, NEW r \in Runner, NEW l \in Label, Go(a, r, l)
  PROVE  pc' \in [Actor -> [Runner -> Label]]
  BY DEF Go

\* A new process starts well typed.
LEMMA BootTypes == OrchestratorTypeOK /\ Boot => OrchestratorTypeOK'
<1> SUFFICES ASSUME OrchestratorTypeOK, Boot PROVE OrchestratorTypeOK'
  OBVIOUS
<1>1. pc' \in [Actor -> [Runner -> Label]]
  <2>1. {"none", "done"} \subseteq Label
    BY DEF Label
  <2> QED
    BY <2>1 DEF Boot
<1>2. /\ inflight' \in [Class -> Int] /\ remaining' \in [Class -> Nat]
      /\ boots' \in Nat
  BY DEF Boot, OrchestratorTypeOK
<1>3. /\ listening' \in [Class -> BOOLEAN] /\ ctxDone' \in BOOLEAN
      /\ shuttingDown' \in [Class -> BOOLEAN]
      /\ listed' \in [Class -> SUBSET Runner]
  BY DEF Boot
<1>4. rpc' \in [Class -> RunLabel] /\ plan' \in [Runner -> Plan]
  BY DEF Boot, RunLabel, Plan
<1> QED
  BY <1>1, <1>2, <1>3, <1>4 DEF OrchestratorTypeOK

\* Every step keeps the type of the orchestrator's own variables.
LEMMA OrchestratorTypes ==
  ASSUME OrchestratorTypeOK, [Next]_vars PROVE OrchestratorTypeOK'
<1> USE ClassAssumption
    DEF OrchestratorTypeOK, Label, RunLabel, Plan, Actor, TaskLive, PreAdmit,
        Minting, Launching, Teardown, Terminating, Sweeping, At, Go, Goto,
        RunnersOf, spawnVars, runVars, ReaperUnchanged
<1>1. ASSUME NEW c \in Class, HandleDesiredRunnerCount(c)
      PROVE  OrchestratorTypeOK'
  <2>1. Cardinality(Unused(c)) \in Nat
    BY UnusedType
  <2>2. PICK n \in Desired :
          /\ ScaleUp(c, n) \in 1 .. Cardinality(Unused(c))
          /\ inflight' = [inflight EXCEPT ![c] = @ + ScaleUp(c, n)]
          /\ remaining' = [remaining EXCEPT ![c] = ScaleUp(c, n)]
    BY <1>1 DEF HandleDesiredRunnerCount
  <2>3. ScaleUp(c, n) \in Nat
    BY <2>1, <2>2
  <2>4. UNCHANGED <<pc, runVars>>
    BY <1>1 DEF HandleDesiredRunnerCount
  <2> QED
    BY <2>2, <2>3, <2>4
<1>2. ASSUME NEW c \in Class, RefuseSpawnTask(c)
      PROVE  OrchestratorTypeOK'
  BY <1>2 DEF RefuseSpawnTask
<1>3. ASSUME NEW c \in Class, ListenerReturns(c)
      PROVE  OrchestratorTypeOK'
  BY <1>3 DEF ListenerReturns
<1>4. ASSUME NEW c \in Class, Tick(c)
      PROVE  OrchestratorTypeOK'
  BY <1>4 DEF Tick, Verdict
<1>5. ASSUME NEW c \in Class, AbandonSweep(c)
      PROVE  OrchestratorTypeOK'
  BY <1>5 DEF AbandonSweep
<1>6. ASSUME NEW c \in Class, ReapDone(c)
      PROVE  OrchestratorTypeOK'
  BY <1>6 DEF ReapDone
<1>7. ASSUME NEW c \in Class, SweepList(c)
      PROVE  OrchestratorTypeOK'
  BY <1>7 DEF SweepList
<1>8. ASSUME NEW c \in Class, SweepListFails(c)
      PROVE  OrchestratorTypeOK'
  BY <1>8 DEF SweepListFails
<1>9. ASSUME NEW c \in Class, SweepNames(c)
      PROVE  OrchestratorTypeOK'
  BY <1>9 DEF SweepNames
<1>10. ASSUME NEW c \in Class, SweepDone(c)
      PROVE  OrchestratorTypeOK'
  BY <1>10 DEF SweepDone
<1>11. ASSUME NEW c \in Class, RunReturns(c)
      PROVE  OrchestratorTypeOK'
  BY <1>11 DEF RunReturns
<1>12. ASSUME NEW c \in Class, Join(c)
      PROVE  OrchestratorTypeOK'
  BY <1>12 DEF Join
<1>13. ASSUME NEW r \in Runner, StartSpawnTask(r)
      PROVE  OrchestratorTypeOK'
  <2>1. ClassOf[r] \in Class
    OBVIOUS
  <2>2. pc' \in [Actor -> [Runner -> Label]]
    BY <1>13, GoType, "task" \in Actor, "mint" \in Label DEF StartSpawnTask
  <2>3. inflight' \in [Class -> Int] /\ remaining' \in [Class -> Nat]
    <3>1. /\ remaining' = [remaining EXCEPT ![ClassOf[r]] = @ - 1]
          /\ remaining[ClassOf[r]] > 0
          /\ inflight' = inflight
      BY <1>13 DEF StartSpawnTask
    <3> QED
      BY <2>1, <3>1
  <2>4. UNCHANGED runVars
    BY <1>13 DEF StartSpawnTask
  <2> HIDE DEF Label, Actor, RunLabel, Plan
  <2> QED
    BY <2>2, <2>3, <2>4
<1>14. ASSUME NEW r \in Runner, HandleJobStarted(r)
      PROVE  OrchestratorTypeOK'
  BY <1>14 DEF HandleJobStarted
<1>15. ASSUME NEW r \in Runner, HandleJobCompleted(r)
      PROVE  OrchestratorTypeOK'
  BY <1>15 DEF HandleJobCompleted
<1>16. ASSUME NEW r \in Runner, MintAcquire(r)
      PROVE  OrchestratorTypeOK'
  BY <1>16 DEF MintAcquire
<1>17. ASSUME NEW r \in Runner, MintCancelled(r)
      PROVE  OrchestratorTypeOK'
  BY <1>17 DEF MintCancelled
<1>18. ASSUME NEW r \in Runner, Generate(r)
      PROVE  OrchestratorTypeOK'
  BY <1>18 DEF Generate
<1>19. ASSUME NEW r \in Runner, GenerateFails(r)
      PROVE  OrchestratorTypeOK'
  BY <1>19 DEF GenerateFails, AbortSpawn
<1>20. ASSUME NEW r \in Runner, FinishInflight(r)
      PROVE  OrchestratorTypeOK'
  <2>1. ClassOf[r] \in Class
    OBVIOUS
  <2>2. pc' \in [Actor -> [Runner -> Label]]
    BY <1>20, GoType, "task" \in Actor, "done" \in Label DEF FinishInflight
  <2>3. inflight' \in [Class -> Int] /\ remaining' \in [Class -> Nat]
    <3>1. /\ inflight' = [inflight EXCEPT ![ClassOf[r]] = @ - 1]
          /\ remaining' = remaining
      BY <1>20 DEF FinishInflight
    <3> QED
      BY <2>1, <3>1, Decrement
  <2>4. UNCHANGED runVars
    BY <1>20 DEF FinishInflight
  <2> HIDE DEF Label, Actor, RunLabel, Plan
  <2> QED
    BY <2>2, <2>3, <2>4
<1>21. ASSUME NEW r \in Runner, RenderFails(r)
      PROVE  OrchestratorTypeOK'
  BY <1>21 DEF RenderFails
<1>22. ASSUME NEW r \in Runner, Discard(r)
      PROVE  OrchestratorTypeOK'
  BY <1>22 DEF Discard, AbortSpawn
<1>23. ASSUME NEW r \in Runner, Discarding(r)
      PROVE  OrchestratorTypeOK'
  BY <1>23 DEF Discarding, AbortSpawn
<1>24. ASSUME NEW r \in Runner, Admit(r)
      PROVE  OrchestratorTypeOK'
  <2>1. ClassOf[r] \in Class
    OBVIOUS
  <2>2. pc' \in [Actor -> [Runner -> Label]]
    BY <1>24, GoType, "task" \in Actor, "acquire" \in Label DEF Admit
  <2>3. inflight' \in [Class -> Int] /\ remaining' \in [Class -> Nat]
    <3>1. /\ inflight' = [inflight EXCEPT ![ClassOf[r]] = @ - 1]
          /\ remaining' = remaining
      BY <1>24 DEF Admit
    <3> QED
      BY <2>1, <3>1, Decrement
  <2>4. UNCHANGED runVars
    BY <1>24 DEF Admit
  <2> HIDE DEF Label, Actor, RunLabel, Plan
  <2> QED
    BY <2>2, <2>3, <2>4
<1>25. ASSUME NEW r \in Runner, LaunchCancelled(r)
      PROVE  OrchestratorTypeOK'
  BY <1>25 DEF LaunchCancelled
<1>26. ASSUME NEW r \in Runner, Withdraw(r)
      PROVE  OrchestratorTypeOK'
  BY <1>26 DEF Withdraw
<1>27. ASSUME NEW r \in Runner, Withdrawn(r)
      PROVE  OrchestratorTypeOK'
  BY <1>27 DEF Withdrawn
<1>28. ASSUME NEW r \in Runner, LaunchAcquire(r)
      PROVE  OrchestratorTypeOK'
  BY <1>28 DEF LaunchAcquire
<1>29. ASSUME NEW r \in Runner, Create(r)
      PROVE  OrchestratorTypeOK'
  BY <1>29 DEF Create
<1>30. ASSUME NEW r \in Runner, LaunchOK(r)
      PROVE  OrchestratorTypeOK'
  BY <1>30 DEF LaunchOK
<1>31. ASSUME NEW r \in Runner, LaunchFails(r)
      PROVE  OrchestratorTypeOK'
  BY <1>31 DEF LaunchFails
<1>32. ASSUME NEW r \in Runner, Forget(r)
      PROVE  OrchestratorTypeOK'
  BY <1>32 DEF Forget
<1>33. ASSUME NEW r \in Runner, Launched(r)
      PROVE  OrchestratorTypeOK'
  BY <1>33 DEF Launched
<1>34. ASSUME NEW r \in Runner, SkipFresh(r)
      PROVE  OrchestratorTypeOK'
  BY <1>34 DEF SkipFresh
<1>35. ASSUME NEW r \in Runner, DispatchReap(r)
      PROVE  OrchestratorTypeOK'
  BY <1>35 DEF DispatchReap
<1>36. ASSUME NEW r \in Runner, DispatchSweep(r)
      PROVE  OrchestratorTypeOK'
  BY <1>36 DEF DispatchSweep
<1>37. ASSUME NEW r \in Runner, SweepStop(r)
      PROVE  OrchestratorTypeOK'
  BY <1>37 DEF SweepStop
<1>38. ASSUME NEW r \in Runner, SweepDelete(r)
      PROVE  OrchestratorTypeOK'
  BY <1>38 DEF SweepDelete
<1>39. ASSUME NEW r \in Runner, CloudStep(r)
      PROVE  OrchestratorTypeOK'
  BY <1>39 DEF CloudStep, ProcessUnchanged
<1>40. ASSUME NEW r \in Runner, TimerExpires(r)
      PROVE  OrchestratorTypeOK'
  BY <1>40 DEF TimerExpires
<1>41. ASSUME NEW a \in Actor, NEW r \in Runner, TermMark(a, r)
      PROVE  OrchestratorTypeOK'
  BY <1>41 DEF TermMark, AfterTerminate
<1>42. ASSUME NEW a \in Actor, NEW r \in Runner, TermRemove(a, r)
      PROVE  OrchestratorTypeOK'
  BY <1>42 DEF TermRemove
<1>43. ASSUME NEW a \in Actor, NEW r \in Runner, TermStop(a, r)
      PROVE  OrchestratorTypeOK'
  BY <1>43 DEF TermStop
<1>44. ASSUME NEW a \in Actor, NEW r \in Runner, TermDelete(a, r)
      PROVE  OrchestratorTypeOK'
  BY <1>44 DEF TermDelete, AfterTerminate
<1>45. ASSUME NEW a \in Actor, NEW r \in Runner, Deregister(a, r)
      PROVE  OrchestratorTypeOK'
  BY <1>45 DEF Deregister, ActorReturns
<1>46. ASSUME NEW a \in Actor, NEW r \in Runner, Deregistering(a, r)
      PROVE  OrchestratorTypeOK'
  BY <1>46 DEF Deregistering, ActorReturns
<1>47. ASSUME Signal
      PROVE  OrchestratorTypeOK'
  BY <1>47 DEF Signal
<1>48. ASSUME Restart
      PROVE  OrchestratorTypeOK'
  BY <1>48, BootTypes DEF Restart
<1>49. ASSUME Crash
      PROVE  OrchestratorTypeOK'
  BY <1>49, BootTypes DEF Crash
<1>50. CASE UNCHANGED vars
  BY <1>50 DEF vars
<1> QED
  BY <1>1, <1>2, <1>3, <1>4, <1>5, <1>6, <1>7, <1>8, <1>9, <1>10, <1>11,
     <1>12, <1>13, <1>14, <1>15, <1>16, <1>17, <1>18, <1>19, <1>20, <1>21,
     <1>22, <1>23, <1>24, <1>25, <1>26, <1>27, <1>28, <1>29, <1>30, <1>31,
     <1>32, <1>33, <1>34, <1>35, <1>36, <1>37, <1>38, <1>39, <1>40, <1>41,
     <1>42, <1>43, <1>44, <1>45, <1>46, <1>47, <1>48, <1>49, <1>50
  DEF Next, ListenerStep, ReaperStep, SpawnStep, LaunchStep, WorkerStep,
      TerminateStep

\* The initial state is well typed.
LEMMA TypeInit == Init => TypeOK
<1> SUFFICES ASSUME Init PROVE TypeOK
  OBVIOUS
<1>1. TrackerTypeOK /\ LimiterTypeOK /\ CloudTypeOK
  BY DEF Init, TrackerInit, LimiterInit, CloudInit, TrackerTypeOK,
     LimiterTypeOK, CloudTypeOK, EntryState, VMState, GHState
<1>2. /\ pc \in [Actor -> [Runner -> Label]]
      /\ rpc \in [Class -> RunLabel] /\ plan \in [Runner -> Plan]
  BY DEF Init, Label, RunLabel, Plan
<1>3. /\ inflight \in [Class -> Int] /\ remaining \in [Class -> Nat]
      /\ boots \in Nat
  BY DEF Init
<1>4. /\ listening \in [Class -> BOOLEAN] /\ ctxDone \in BOOLEAN
      /\ shuttingDown \in [Class -> BOOLEAN]
      /\ listed \in [Class -> SUBSET Runner]
  BY DEF Init
<1> QED
  BY <1>1, <1>2, <1>3, <1>4 DEF TypeOK, OrchestratorTypeOK

\* Every step keeps the type.
LEMMA TypeStep == TypeOK /\ [Next]_vars => TypeOK'
  BY TrackerFrame, TrackerTypes, LimiterFrame, LimiterTypes, CloudFrame,
     CloudTypes, OrchestratorTypes DEF TypeOK

\* Every reachable state is well typed.
THEOREM TypeCorrect == Spec => []TypeOK
  BY TypeInit, TypeStep, PTL DEF Spec

----------------------------------------------------------------------------
(* The inductive invariant.                                                *)

\* Each actor only visits the labels of its own code.
ActorLabels ==
  \A r \in Runner :
    /\ pc["task"][r] \notin Sweeping
    /\ pc["worker"][r] \in Teardown \cup Sweeping \cup {"none"}
    /\ pc["listener"][r] \in Terminating \cup {"none"}

Early == PreAdmit \cup {"none"}

Unborn(r) ==
  /\ ~Tracked(r)
  /\ vm[r] = "none"
  /\ plan[r] # "orphan"
  /\ \A c \in Class : r \notin listed[c]

\* A name whose task has not reached tracker.add is known to nobody: it is not
\* tracked, has no instance, and no sweep has it on a list.  This is what
\* keeps the drift sweep off an entry that is added while it runs.
FreshNames == \A r \in Runner : pc["task"][r] \in Early => Unborn(r)

\* Run raises shuttingDown before it joins, and the join is final.
JoinInv ==
  \A c \in Class :
    /\ rpc[c] \in {"joining", "stopped"} => shuttingDown[c]
    /\ rpc[c] = "stopped" => TasksJoined(c)

IInv ==
  /\ TypeOK
  /\ ActorLabels
  /\ FreshNames
  /\ SweepSparesTracked
  /\ LaunchingHasTask
  /\ PendingHasOwner
  /\ JoinInv

BusyStep == \A r \in Runner :
              state[r] = "busy" => state'[r] \in {"busy", "absent"}

\* The inductive invariant holds initially.
LEMMA InvInit == Init => IInv
<1> SUFFICES ASSUME Init PROVE IInv
  OBVIOUS
<1>1. ActorLabels
  BY DEF Init, ActorLabels, Actor, Sweeping
<1>2. FreshNames /\ SweepSparesTracked /\ LaunchingHasTask /\ PendingHasOwner
  BY DEF Init, TrackerInit, CloudInit, FreshNames, Unborn, Tracked,
     SweepSparesTracked, LaunchingHasTask, PendingHasOwner
<1>3. JoinInv
  BY DEF Init, JoinInv
<1> QED
  BY <1>1, <1>2, <1>3, TypeInit DEF IInv

\* A step that moves one actor and leaves the tracker, the instances and the
\* reapers alone, except that a plan may be done with.
Moves(a, r, l) ==
  /\ Go(a, r, l)
  /\ UNCHANGED <<trackerVars, vm, rpc, listed, shuttingDown>>
  /\ \A q \in Runner : plan'[q] \in {plan[q], "none"}

\* Such a step keeps the invariant if it takes the actor to a label of its own,
\* nobody is on the way to an entry, and a task does not go back.
LEMMA MoveStep ==
  ASSUME IInv, NEW a \in Actor, NEW r \in Runner, NEW l, Moves(a, r, l),
         pc[a][r] \notin Launching \cup {"mark", "remove"},
         a = "task" => l \notin Sweeping,
         a = "worker" => l \in Teardown \cup Sweeping \cup {"none"},
         a = "listener" => l \in Terminating \cup {"none"},
         a = "task" /\ l \in Early => pc[a][r] \in Early,
         a = "task" /\ l \in TaskLive => pc[a][r] \in TaskLive
  PROVE  /\ ActorLabels' /\ FreshNames' /\ SweepSparesTracked'
         /\ LaunchingHasTask' /\ PendingHasOwner' /\ JoinInv'
         /\ BusyStep
<1> USE DEF IInv, TypeOK, TrackerTypeOK, OrchestratorTypeOK, trackerVars, Actor
<1>1. \A b \in Actor, q \in Runner :
        pc'[b][q] = IF b = a /\ q = r THEN l ELSE pc[b][q]
  BY DEF Moves, Go
<1>2. /\ UNCHANGED <<state, pending, vm, rpc, listed, shuttingDown>>
      /\ \A q \in Runner : plan'[q] \in {plan[q], "none"}
  BY DEF Moves
<1>3. ActorLabels'
  BY <1>1 DEF ActorLabels
<1>4. FreshNames'
  <2> SUFFICES ASSUME NEW q \in Runner, pc'["task"][q] \in Early
               PROVE  Unborn(q)'
    BY DEF FreshNames
  <2>1. pc["task"][q] \in Early
    BY <1>1
  <2>2. Unborn(q)
    BY <2>1 DEF FreshNames
  <2> QED
    BY <1>2, <2>2 DEF Unborn, Tracked
<1>5. SweepSparesTracked'
  BY <1>2 DEF SweepSparesTracked, Tracked
<1>6. LaunchingHasTask'
  BY <1>1, <1>2 DEF LaunchingHasTask
<1>7. PendingHasOwner'
  BY <1>1, <1>2 DEF PendingHasOwner, At
<1>8. JoinInv'
  BY <1>1, <1>2 DEF JoinInv, TasksJoined, RunnersOf
<1>9. BusyStep
  BY <1>2 DEF BusyStep
<1> QED
  BY <1>3, <1>4, <1>5, <1>6, <1>7, <1>8, <1>9

\* So does the way through removeRunnerByID and out.
LEMMA DeregisterStep ==
  ASSUME IInv, NEW a \in Actor, NEW r \in Runner,
         pc[a][r] \in {"deregister", "deregistering"},
         \/ Moves(a, r, "deregistering")
         \/ Moves(a, r, IF a = "task" THEN "done" ELSE "none")
  PROVE  /\ ActorLabels' /\ FreshNames' /\ SweepSparesTracked'
         /\ LaunchingHasTask' /\ PendingHasOwner' /\ JoinInv'
         /\ BusyStep
<1>1. a # "listener"
  BY DEF IInv, ActorLabels, Terminating
<1>2. /\ pc[a][r] \notin Launching \cup {"mark", "remove"}
      /\ pc[a][r] \in TaskLive
  BY DEF Launching, TaskLive, Teardown
<1>3. {"deregistering", "done", "none"} \cap Sweeping = {}
  BY DEF Sweeping
<1>4. {"deregistering", "done"} \cap Early = {}
  BY DEF Early, PreAdmit, Minting
<1>5. "deregistering" \in Teardown /\ "done" \notin TaskLive
  BY DEF Teardown, TaskLive, PreAdmit, Minting, Launching, Terminating
<1> HIDE DEF IInv
<1>6. CASE Moves(a, r, "deregistering")
  BY <1>1, <1>2, <1>3, <1>4, <1>5, <1>6, MoveStep
<1>7. CASE a = "task" /\ Moves(a, r, "done")
  BY <1>2, <1>3, <1>4, <1>5, <1>7, MoveStep
<1>8. CASE a # "task" /\ Moves(a, r, "none")
  BY <1>1, <1>2, <1>8, MoveStep
<1> QED
  BY <1>6, <1>7, <1>8

\* One step per action.  Most actions move one actor at one name and leave
\* the tracker, the instances and the sweeps alone.
LEMMA InvStep ==
  ASSUME IInv, [Next]_vars
  PROVE  /\ ActorLabels' /\ FreshNames' /\ SweepSparesTracked'
         /\ LaunchingHasTask' /\ PendingHasOwner' /\ JoinInv'
         /\ BusyStep
<1> DEFINE Goal == /\ ActorLabels' /\ FreshNames' /\ SweepSparesTracked'
                   /\ LaunchingHasTask' /\ PendingHasOwner' /\ JoinInv'
                   /\ BusyStep
<1> USE ClassAssumption
    DEF IInv, TypeOK, TrackerTypeOK, OrchestratorTypeOK, CloudTypeOK,
        ActorLabels, FreshNames, Early, Unborn, SweepSparesTracked,
        LaunchingHasTask, PendingHasOwner, JoinInv, TasksJoined, BusyStep,
        Actor, PreAdmit, Minting, Launching, Terminating, Teardown, Sweeping,
        TaskLive, At, Go, Goto, RunnersOf, spawnVars, runVars, trackerVars,
        cloudVars, ReaperUnchanged, Tracked
<1>1. ASSUME NEW c \in Class, HandleDesiredRunnerCount(c)
      PROVE  Goal
  BY <1>1 DEF HandleDesiredRunnerCount
<1>2. ASSUME NEW c \in Class, RefuseSpawnTask(c)
      PROVE  Goal
  BY <1>2 DEF RefuseSpawnTask
<1>3. ASSUME NEW c \in Class, ListenerReturns(c)
      PROVE  Goal
  BY <1>3 DEF ListenerReturns
<1>4. ASSUME NEW c \in Class, Tick(c)
      PROVE  Goal
  BY <1>4 DEF Tick, Verdict, Names
<1>5. ASSUME NEW c \in Class, AbandonSweep(c)
      PROVE  Goal
  BY <1>5 DEF AbandonSweep, Undispatched
<1>6. ASSUME NEW c \in Class, ReapDone(c)
      PROVE  Goal
  BY <1>6 DEF ReapDone
<1>7. ASSUME NEW c \in Class, SweepList(c)
      PROVE  Goal
  BY <1>7 DEF SweepList, InstanceExists
<1>8. ASSUME NEW c \in Class, SweepListFails(c)
      PROVE  Goal
  BY <1>8 DEF SweepListFails
<1>9. ASSUME NEW c \in Class, SweepNames(c)
      PROVE  Goal
  BY <1>9 DEF SweepNames, Orphans, Names
<1>10. ASSUME NEW c \in Class, SweepDone(c)
      PROVE  Goal
  BY <1>10 DEF SweepDone
<1>11. ASSUME NEW c \in Class, RunReturns(c)
      PROVE  Goal
  BY <1>11 DEF RunReturns
<1>12. ASSUME NEW c \in Class, Join(c)
      PROVE  Goal
  BY <1>12 DEF Join
<1>13. ASSUME NEW r \in Runner, StartSpawnTask(r)
      PROVE  Goal
  BY <1>13 DEF StartSpawnTask
<1>14. ASSUME NEW r \in Runner, HandleJobStarted(r)
      PROVE  Goal
  BY <1>14 DEF HandleJobStarted, Handled, ConsumeEvent, MarkBusy
<1>15. ASSUME NEW r \in Runner, HandleJobCompleted(r)
      PROVE  Goal
  <2>1. CASE Tracked(r)
    <3>1. Moves("listener", r, "mark") /\ At("listener", r, "none")
      BY <1>15, <2>1
      DEF HandleJobCompleted, Handled, ConsumeEvent, ListenerFree, Moves
    <3> QED
      BY <3>1, MoveStep
  <2>2. CASE ~Tracked(r)
    BY <1>15, <2>2 DEF HandleJobCompleted, Handled, ConsumeEvent
  <2> QED
    BY <2>1, <2>2
<1>16. ASSUME NEW r \in Runner, MintAcquire(r)
      PROVE  Goal
  BY <1>16 DEF MintAcquire
<1>17. ASSUME NEW r \in Runner, MintCancelled(r)
      PROVE  Goal
  BY <1>17 DEF MintCancelled
<1>18. ASSUME NEW r \in Runner, Generate(r)
      PROVE  Goal
  BY <1>18 DEF Generate, GenerateJITConfig
<1>19. ASSUME NEW r \in Runner, GenerateFails(r)
      PROVE  Goal
  BY <1>19 DEF GenerateFails, AbortSpawn, GenerateUnheard, Fails
<1>20. ASSUME NEW r \in Runner, FinishInflight(r)
      PROVE  Goal
  BY <1>20 DEF FinishInflight
<1>21. ASSUME NEW r \in Runner, RenderFails(r)
      PROVE  Goal
  BY <1>21 DEF RenderFails
<1>22. ASSUME NEW r \in Runner, Discard(r)
      PROVE  Goal
  <2>1. Moves("task", r, "aborted") \/ Moves("task", r, "discarding")
    BY <1>22 DEF Discard, AbortSpawn, RemoveRunner, Moves
  <2> QED
    BY <1>22, <2>1, MoveStep DEF Discard
<1>23. ASSUME NEW r \in Runner, Discarding(r)
      PROVE  Goal
  BY <1>23 DEF Discarding, AbortSpawn, RemoveRunner, Fails
<1>24. ASSUME NEW r \in Runner, Admit(r)
      PROVE  Goal
  BY <1>24 DEF Admit, Add, SetEntry
<1>25. ASSUME NEW r \in Runner, LaunchCancelled(r)
      PROVE  Goal
  BY <1>25 DEF LaunchCancelled
<1>26. ASSUME NEW r \in Runner, Withdraw(r)
      PROVE  Goal
  BY <1>26 DEF Withdraw, Remove, SetEntry
<1>27. ASSUME NEW r \in Runner, Withdrawn(r)
      PROVE  Goal
  BY <1>27 DEF Withdrawn, RemoveRunner, Fails
<1>28. ASSUME NEW r \in Runner, LaunchAcquire(r)
      PROVE  Goal
  BY <1>28 DEF LaunchAcquire
<1>29. ASSUME NEW r \in Runner, Create(r)
      PROVE  Goal
  BY <1>29 DEF Create, CreateInstance, SetVM
<1>30. ASSUME NEW r \in Runner, LaunchOK(r)
      PROVE  Goal
  BY <1>30 DEF LaunchOK
<1>31. ASSUME NEW r \in Runner, LaunchFails(r)
      PROVE  Goal
  BY <1>31 DEF LaunchFails
<1>32. ASSUME NEW r \in Runner, Forget(r)
      PROVE  Goal
  BY <1>32 DEF Forget, Remove, SetEntry
<1>33. ASSUME NEW r \in Runner, Launched(r)
      PROVE  Goal
  <2>1. /\ UNCHANGED <<cloudVars, runVars, expired>>
        /\ At("task", r, "launched")
        /\ state' = [state EXCEPT ![r] = IF @ = "launching" THEN "idle" ELSE @]
        /\ UNCHANGED pending
    BY <1>33 DEF Launched, MarkIdle
  <2>2. CASE ~pending[r] /\ Go("task", r, "done")
    BY <2>1, <2>2
  <2>3. CASE pending[r] /\ Go("task", r, "mark")
    <3>1. \A b \in Actor, q \in Runner :
            pc'[b][q] = IF b = "task" /\ q = r THEN "mark" ELSE pc[b][q]
      BY <2>3
    <3>2. ActorLabels' /\ BusyStep
      BY <2>1, <3>1
    <3>3. FreshNames' /\ SweepSparesTracked'
      BY <2>1, <3>1
    <3>4. LaunchingHasTask' /\ JoinInv'
      BY <2>1, <3>1
    <3>5. PendingHasOwner'
      BY <2>1, <3>1
    <3> QED
      BY <3>2, <3>3, <3>4, <3>5
  <2> QED
    BY <1>33, <2>2, <2>3 DEF Launched
<1>34. ASSUME NEW r \in Runner, SkipFresh(r)
      PROVE  Goal
  BY <1>34 DEF SkipFresh
<1>35. ASSUME NEW r \in Runner, DispatchReap(r)
      PROVE  Goal
  BY <1>35 DEF DispatchReap, Undispatched
<1>36. ASSUME NEW r \in Runner, DispatchSweep(r)
      PROVE  Goal
  BY <1>36 DEF DispatchSweep, Undispatched
<1>37. ASSUME NEW r \in Runner, SweepStop(r)
      PROVE  Goal
  BY <1>37 DEF SweepStop, StopInstance, SetVM
<1>38. ASSUME NEW r \in Runner, SweepDelete(r)
      PROVE  Goal
  BY <1>38 DEF SweepDelete, DeleteInstance, SetVM
<1>39. ASSUME NEW r \in Runner, CloudStep(r)
      PROVE  Goal
  BY <1>39 DEF CloudStep, ProcessUnchanged, InstanceStarts, CreateFails,
     StopCompletes, EphemeralCleanup, PowerOff, AssignJob, FinishJob,
     ConsumeEvent, SetVM
<1>40. ASSUME NEW r \in Runner, TimerExpires(r)
      PROVE  Goal
  BY <1>40 DEF TimerExpires, Expire
<1>41. ASSUME NEW a \in Actor, NEW r \in Runner, TermMark(a, r)
      PROVE  Goal
  BY <1>41 DEF TermMark, AfterTerminate, MarkForTermination
<1>42. ASSUME NEW a \in Actor, NEW r \in Runner, TermRemove(a, r)
      PROVE  Goal
  BY <1>42 DEF TermRemove, Remove, SetEntry
<1>43. ASSUME NEW a \in Actor, NEW r \in Runner, TermStop(a, r)
      PROVE  Goal
  BY <1>43 DEF TermStop, StopInstance, SetVM
<1>44. ASSUME NEW a \in Actor, NEW r \in Runner, TermDelete(a, r)
      PROVE  Goal
  BY <1>44 DEF TermDelete, AfterTerminate, DeleteInstance, SetVM
<1>45. ASSUME NEW a \in Actor, NEW r \in Runner, Deregister(a, r)
      PROVE  Goal
  <2>1. \/ Moves(a, r, "deregistering")
        \/ Moves(a, r, IF a = "task" THEN "done" ELSE "none")
    BY <1>45 DEF Deregister, ActorReturns, RemoveRunner, Moves
  <2>2. pc[a][r] \in {"deregister", "deregistering"}
    BY <1>45 DEF Deregister
  <2> QED
    BY <2>1, <2>2, DeregisterStep
<1>46. ASSUME NEW a \in Actor, NEW r \in Runner, Deregistering(a, r)
      PROVE  Goal
  <2>1. \/ Moves(a, r, "deregistering")
        \/ Moves(a, r, IF a = "task" THEN "done" ELSE "none")
    BY <1>46 DEF Deregistering, ActorReturns, RemoveRunner, Moves
  <2>2. pc[a][r] \in {"deregister", "deregistering"}
    BY <1>46 DEF Deregistering
  <2> QED
    BY <2>1, <2>2, DeregisterStep
<1>47. ASSUME Signal
      PROVE  Goal
  BY <1>47 DEF Signal
<1>48. ASSUME Restart
      PROVE  Goal
  BY <1>48 DEF Restart, Boot
<1>49. ASSUME Crash
      PROVE  Goal
  BY <1>49 DEF Crash, Boot
<1>50. CASE UNCHANGED vars
  BY <1>50 DEF vars
<1> QED
  BY <1>1, <1>2, <1>3, <1>4, <1>5, <1>6, <1>7, <1>8, <1>9, <1>10, <1>11,
     <1>12, <1>13, <1>14, <1>15, <1>16, <1>17, <1>18, <1>19, <1>20, <1>21,
     <1>22, <1>23, <1>24, <1>25, <1>26, <1>27, <1>28, <1>29, <1>30, <1>31,
     <1>32, <1>33, <1>34, <1>35, <1>36, <1>37, <1>38, <1>39, <1>40, <1>41,
     <1>42, <1>43, <1>44, <1>45, <1>46, <1>47, <1>48, <1>49, <1>50
  DEF Next, ListenerStep, ReaperStep, SpawnStep, LaunchStep, WorkerStep,
      TerminateStep, RunnersOf

\* The inductive invariant holds in every reachable state.
THEOREM InvCorrect == Spec => []IInv
<1>1. IInv /\ [Next]_vars => IInv'
  BY InvStep, TypeStep DEF IInv
<1> QED
  BY InvInit, <1>1, PTL DEF Spec

\* The drift sweep never holds a tracked name for an orphan (reaper.go:68-101:
\* List first, then tracker.names; orchestrator.go:465: add before Launch).
THEOREM SweepSafe == Spec => []SweepSparesTracked
  BY InvCorrect, PTL DEF IInv

\* A launching entry has its launch task, whoever adds, marks or removes it in
\* the meantime (orchestrator.go:465-527).
THEOREM LaunchingOwned == Spec => []LaunchingHasTask
  BY InvCorrect, PTL DEF IInv

\* A requested termination has somebody who carries it out
\* (terminateInstance, orchestrator.go:540, and launch's markIdle).
THEOREM TerminationOwned == Spec => []PendingHasOwner
  BY InvCorrect, PTL DEF IInv

\* After Run has returned no task of the class is alive (taskMu, tasks.Wait).
THEOREM JoinCorrect == Spec => []JoinComplete
<1>1. IInv => JoinComplete
  BY DEF IInv, JoinInv, JoinComplete
<1> QED
  BY InvCorrect, <1>1, PTL

\* A busy entry stays busy until it is removed (markIdle, tracker.go:92-104).
THEOREM BusyCorrect == Spec => BusyNeverDemoted
<1>1. IInv /\ [Next]_vars => [BusyStep]_vars
  BY InvStep
<1> QED
  BY InvCorrect, <1>1, PTL DEF Spec, BusyNeverDemoted, BusyStep
----------------------------------------------------------------------------
(* Teardown and launch.                                                    *)

\* Neither the reaper nor a message can be about a name that has had no entry.
Unvisited ==
  \A r \in Runner :
    pc["task"][r] \in Early =>
      plan[r] = "none" /\ pc["worker"][r] = "none" /\ pc["listener"][r] = "none"

\* What a reaper still plans belongs to the pass it is at, and the drift sweep
\* only dispatches orphans.
PlansCurrent ==
  \A r \in Runner :
    /\ plan[r] # "none" => rpc[ClassOf[r]] \in {"reap", "sweep"}
    /\ rpc[ClassOf[r]] = "sweep" => plan[r] \in {"none", "orphan"}
    /\ plan[r] = "orphan" => rpc[ClassOf[r]] = "sweep"
    /\ pc["worker"][r] \in Sweeping => plan[r] = "orphan"

SparedInv == Unvisited /\ PlansCurrent /\ TeardownDeferred

\* It holds initially.
LEMMA SparedInit == Init => SparedInv
BY DEF Init, TrackerInit, CloudInit, SparedInv, Unvisited, PlansCurrent,
       TeardownDeferred, Early, TearingDown, Sweeping, Actor

\* Every step keeps it.
LEMMA SparedStep ==
  ASSUME IInv, SparedInv, [Next]_vars
  PROVE  SparedInv'
<1> USE ClassAssumption
    DEF IInv, TypeOK, TrackerTypeOK, OrchestratorTypeOK, CloudTypeOK,
        ActorLabels, FreshNames, Early, Unborn, SweepSparesTracked,
        LaunchingHasTask,
        Actor, PreAdmit, Minting, Launching, Terminating, Teardown, Sweeping,
        TaskLive, At, Go, Goto, RunnersOf, spawnVars, runVars, trackerVars,
        cloudVars, ReaperUnchanged, Tracked,
        SparedInv, Unvisited, PlansCurrent, TeardownDeferred, TearingDown
<1>1. ASSUME NEW c \in Class, HandleDesiredRunnerCount(c)
      PROVE  SparedInv'
  BY <1>1 DEF HandleDesiredRunnerCount
<1>2. ASSUME NEW c \in Class, RefuseSpawnTask(c)
      PROVE  SparedInv'
  BY <1>2 DEF RefuseSpawnTask
<1>3. ASSUME NEW c \in Class, ListenerReturns(c)
      PROVE  SparedInv'
  BY <1>3 DEF ListenerReturns
<1>4. ASSUME NEW c \in Class, Tick(c)
      PROVE  SparedInv'
  BY <1>4 DEF Tick, Verdict, Names
<1>5. ASSUME NEW c \in Class, AbandonSweep(c)
      PROVE  SparedInv'
  BY <1>5 DEF AbandonSweep, Undispatched
<1>6. ASSUME NEW c \in Class, ReapDone(c)
      PROVE  SparedInv'
  BY <1>6 DEF ReapDone, SweepJoined
<1>7. ASSUME NEW c \in Class, SweepList(c)
      PROVE  SparedInv'
  BY <1>7 DEF SweepList, InstanceExists
<1>8. ASSUME NEW c \in Class, SweepListFails(c)
      PROVE  SparedInv'
  BY <1>8 DEF SweepListFails
<1>9. ASSUME NEW c \in Class, SweepNames(c)
      PROVE  SparedInv'
  BY <1>9 DEF SweepNames, Orphans, Names
<1>10. ASSUME NEW c \in Class, SweepDone(c)
      PROVE  SparedInv'
  BY <1>10 DEF SweepDone, SweepJoined
<1>11. ASSUME NEW c \in Class, RunReturns(c)
      PROVE  SparedInv'
  BY <1>11 DEF RunReturns
<1>12. ASSUME NEW c \in Class, Join(c)
      PROVE  SparedInv'
  BY <1>12 DEF Join
<1>13. ASSUME NEW r \in Runner, StartSpawnTask(r)
      PROVE  SparedInv'
  BY <1>13 DEF StartSpawnTask
<1>14. ASSUME NEW r \in Runner, HandleJobStarted(r)
      PROVE  SparedInv'
  BY <1>14 DEF HandleJobStarted, Handled, ConsumeEvent, MarkBusy
<1>15. ASSUME NEW r \in Runner, HandleJobCompleted(r)
      PROVE  SparedInv'
  BY <1>15 DEF HandleJobCompleted, Handled, ConsumeEvent, ListenerFree
<1>16. ASSUME NEW r \in Runner, MintAcquire(r)
      PROVE  SparedInv'
  BY <1>16 DEF MintAcquire
<1>17. ASSUME NEW r \in Runner, MintCancelled(r)
      PROVE  SparedInv'
  BY <1>17 DEF MintCancelled
<1>18. ASSUME NEW r \in Runner, Generate(r)
      PROVE  SparedInv'
  BY <1>18 DEF Generate, GenerateJITConfig
<1>19. ASSUME NEW r \in Runner, GenerateFails(r)
      PROVE  SparedInv'
  BY <1>19 DEF GenerateFails, AbortSpawn, GenerateUnheard, Fails
<1>20. ASSUME NEW r \in Runner, FinishInflight(r)
      PROVE  SparedInv'
  BY <1>20 DEF FinishInflight
<1>21. ASSUME NEW r \in Runner, RenderFails(r)
      PROVE  SparedInv'
  BY <1>21 DEF RenderFails
<1>22. ASSUME NEW r \in Runner, Discard(r)
      PROVE  SparedInv'
  BY <1>22 DEF Discard, AbortSpawn, RemoveRunner, Fails
<1>23. ASSUME NEW r \in Runner, Discarding(r)
      PROVE  SparedInv'
  BY <1>23 DEF Discarding, AbortSpawn, RemoveRunner, Fails
<1>24. ASSUME NEW r \in Runner, Admit(r)
      PROVE  SparedInv'
  BY <1>24 DEF Admit, Add, SetEntry
<1>25. ASSUME NEW r \in Runner, LaunchCancelled(r)
      PROVE  SparedInv'
  BY <1>25 DEF LaunchCancelled
<1>26. ASSUME NEW r \in Runner, Withdraw(r)
      PROVE  SparedInv'
  BY <1>26 DEF Withdraw, Remove, SetEntry
<1>27. ASSUME NEW r \in Runner, Withdrawn(r)
      PROVE  SparedInv'
  BY <1>27 DEF Withdrawn, RemoveRunner, Fails
<1>28. ASSUME NEW r \in Runner, LaunchAcquire(r)
      PROVE  SparedInv'
  BY <1>28 DEF LaunchAcquire
<1>29. ASSUME NEW r \in Runner, Create(r)
      PROVE  SparedInv'
  BY <1>29 DEF Create, CreateInstance, SetVM
<1>30. ASSUME NEW r \in Runner, LaunchOK(r)
      PROVE  SparedInv'
  BY <1>30 DEF LaunchOK
<1>31. ASSUME NEW r \in Runner, LaunchFails(r)
      PROVE  SparedInv'
  BY <1>31 DEF LaunchFails
<1>32. ASSUME NEW r \in Runner, Forget(r)
      PROVE  SparedInv'
  BY <1>32 DEF Forget, Remove, SetEntry
<1>33. ASSUME NEW r \in Runner, Launched(r)
      PROVE  SparedInv'
  BY <1>33 DEF Launched, MarkIdle
<1>34. ASSUME NEW r \in Runner, SkipFresh(r)
      PROVE  SparedInv'
  BY <1>34 DEF SkipFresh
<1>35. ASSUME NEW r \in Runner, DispatchReap(r)
      PROVE  SparedInv'
  BY <1>35 DEF DispatchReap, Undispatched
<1>36. ASSUME NEW r \in Runner, DispatchSweep(r)
      PROVE  SparedInv'
  BY <1>36 DEF DispatchSweep, Undispatched
<1>37. ASSUME NEW r \in Runner, SweepStop(r)
      PROVE  SparedInv'
  BY <1>37 DEF SweepStop, StopInstance, SetVM
<1>38. ASSUME NEW r \in Runner, SweepDelete(r)
      PROVE  SparedInv'
  BY <1>38 DEF SweepDelete, DeleteInstance, SetVM
<1>39. ASSUME NEW r \in Runner, CloudStep(r)
      PROVE  SparedInv'
  BY <1>39 DEF CloudStep, ProcessUnchanged, InstanceStarts, CreateFails,
     StopCompletes, EphemeralCleanup, PowerOff, AssignJob, FinishJob,
     ConsumeEvent, SetVM
<1>40. ASSUME NEW r \in Runner, TimerExpires(r)
      PROVE  SparedInv'
  BY <1>40 DEF TimerExpires, Expire
<1>41. ASSUME NEW a \in Actor, NEW r \in Runner, TermMark(a, r)
      PROVE  SparedInv'
  BY <1>41 DEF TermMark, AfterTerminate, MarkForTermination
<1>42. ASSUME NEW a \in Actor, NEW r \in Runner, TermRemove(a, r)
      PROVE  SparedInv'
  BY <1>42 DEF TermRemove, Remove, SetEntry
<1>43. ASSUME NEW a \in Actor, NEW r \in Runner, TermStop(a, r)
      PROVE  SparedInv'
  BY <1>43 DEF TermStop, StopInstance, SetVM
<1>44. ASSUME NEW a \in Actor, NEW r \in Runner, TermDelete(a, r)
      PROVE  SparedInv'
  BY <1>44 DEF TermDelete, AfterTerminate, DeleteInstance, SetVM
<1>45. ASSUME NEW a \in Actor, NEW r \in Runner, Deregister(a, r)
      PROVE  SparedInv'
  BY <1>45 DEF Deregister, ActorReturns, RemoveRunner, Fails
<1>46. ASSUME NEW a \in Actor, NEW r \in Runner, Deregistering(a, r)
      PROVE  SparedInv'
  BY <1>46 DEF Deregistering, ActorReturns, RemoveRunner, Fails
<1>47. ASSUME Signal
      PROVE  SparedInv'
  BY <1>47 DEF Signal
<1>48. ASSUME Restart
      PROVE  SparedInv'
  BY <1>48 DEF Restart, Boot
<1>49. ASSUME Crash
      PROVE  SparedInv'
  BY <1>49 DEF Crash, Boot
<1>50. CASE UNCHANGED vars
  BY <1>50 DEF vars
<1> HIDE DEF IInv, SparedInv
<1> QED
  BY <1>1, <1>2, <1>3, <1>4, <1>5, <1>6, <1>7, <1>8, <1>9, <1>10, <1>11,
     <1>12, <1>13, <1>14, <1>15, <1>16, <1>17, <1>18, <1>19, <1>20, <1>21,
     <1>22, <1>23, <1>24, <1>25, <1>26, <1>27, <1>28, <1>29, <1>30, <1>31,
     <1>32, <1>33, <1>34, <1>35, <1>36, <1>37, <1>38, <1>39, <1>40, <1>41,
     <1>42, <1>43, <1>44, <1>45, <1>46, <1>47, <1>48, <1>49, <1>50
  DEF Next, ListenerStep, ReaperStep, SpawnStep, LaunchStep, WorkerStep,
      TerminateStep, RunnersOf


\* A teardown that is asked for while Launch is in flight is left to the launch
\* task: whoever asks finds the entry launching and defers.
THEOREM DeferredCorrect == Spec => []TeardownDeferred
<1>1. IInv /\ SparedInv /\ [Next]_vars => SparedInv'
  BY SparedStep
<1>2. SparedInv => TeardownDeferred
  BY DEF SparedInv
<1> QED
  BY SparedInit, <1>1, <1>2, InvCorrect, PTL DEF Spec
============================================================================
