------------------------ MODULE OrchestratorCounting ------------------------
(***************************************************************************)
(* The counters of Orchestrator are exact: slots of the two limiters,      *)
(* spawnInflight, and with it the capacity of every class.  Each proof     *)
(* first says how one step moves the sets that are counted, and then adds. *)
(* The same moves are steps of the abstract RunnerPool, and capacity       *)
(* bounds what the gauge of Metrics shows.                                 *)
(***************************************************************************)
EXTENDS OrchestratorProofs, Metrics

\* What one name more or less does to the size of a set of names.
LEMMA Counting ==
  ASSUME NEW S \in SUBSET Runner, NEW r \in Runner
  PROVE  /\ Cardinality(S) \in Nat
         /\ r \in S => Cardinality(S) > 0
         /\ r \notin S => Cardinality(S \cup {r}) = Cardinality(S) + 1
         /\ r \in S => Cardinality(S \ {r}) = Cardinality(S) - 1
<1>1. IsFiniteSet(S)
  BY RunnerAssumption, FS_Subset
<1>2. Cardinality(S) \in Nat
  BY <1>1, FS_CardinalityType
<1>3. r \in S => Cardinality(S) # 0
  BY <1>1, FS_EmptySet
<1>4. r \notin S => Cardinality(S \cup {r}) = Cardinality(S) + 1
  BY <1>1, FS_AddElement
<1>5. r \in S => Cardinality(S \ {r}) = Cardinality(S) - 1
  BY <1>1, FS_RemoveElement
<1>6. r \in S => Cardinality(S) > 0
  BY <1>2, <1>3
<1> QED
  BY <1>2, <1>4, <1>5, <1>6

----------------------------------------------------------------------------
(* The limiters.                                                           *)

SlotMove ==
  \/ /\ AcquireMint
     /\ \E r \in Runner \ MintHolders : MintHolders' = MintHolders \cup {r}
     /\ LaunchHolders' = LaunchHolders /\ Workers' = Workers
  \/ /\ ReleaseMint
     /\ \E r \in MintHolders : MintHolders' = MintHolders \ {r}
     /\ LaunchHolders' = LaunchHolders /\ Workers' = Workers
  \/ /\ AcquireLaunch
     /\ \/ /\ \E r \in Runner \ LaunchHolders :
                LaunchHolders' = LaunchHolders \cup {r}
           /\ Workers' = Workers
        \/ /\ \E r \in Runner \ Workers : Workers' = Workers \cup {r}
           /\ LaunchHolders' = LaunchHolders
     /\ MintHolders' = MintHolders
  \/ /\ ReleaseLaunch
     /\ \/ /\ \E r \in LaunchHolders : LaunchHolders' = LaunchHolders \ {r}
           /\ Workers' = Workers
        \/ /\ \E r \in Workers : Workers' = Workers \ {r}
           /\ LaunchHolders' = LaunchHolders
     /\ MintHolders' = MintHolders
  \/ LimiterInit' /\ MintHolders' = {} /\ LaunchHolders' = {} /\ Workers' = {}
  \/ /\ UNCHANGED limiterVars
     /\ MintHolders' = MintHolders
     /\ LaunchHolders' = LaunchHolders /\ Workers' = Workers

\* A task or worker that returns after RemoveRunner gives up its slot.
LEMMA ReturnsMove ==
  ASSUME IInv, NEW a \in Actor, NEW r \in Runner, ActorReturns(a, r),
         pc[a][r] \in {"deregister", "deregistering"}
  PROVE  SlotMove
<1> USE DEF IInv, TypeOK, OrchestratorTypeOK, ActorLabels, SlotMove,
        MintHolders, LaunchHolders, Workers, Actor, Minting, Launching,
        Terminating, Teardown, Sweeping, At, Go, limiterVars
<1>1. ReleaseLaunch
  BY DEF ActorReturns
<1>2. CASE a = "task"
  <2>1. Go("task", r, "done")
    BY <1>2 DEF ActorReturns
  <2> QED
    BY <1>1, <1>2, <2>1
<1>3. CASE a = "worker"
  <2>1. Go("worker", r, "none")
    BY <1>3 DEF ActorReturns
  <2> QED
    BY <1>1, <1>3, <2>1
<1> QED
  BY <1>1, <1>2, <1>3

\* Who holds a slot changes only together with the counter.
LEMMA SlotMoves == IInv /\ [Next]_vars => SlotMove
<1> SUFFICES ASSUME IInv, [Next]_vars PROVE SlotMove
  OBVIOUS
<1> USE DEF IInv, TypeOK, OrchestratorTypeOK, ActorLabels, SlotMove,
        MintHolders, LaunchHolders, Workers, Actor, Minting, Launching,
        Terminating, Teardown, Sweeping, At, Go, limiterVars
<1>1. ASSUME NEW c \in Class, HandleDesiredRunnerCount(c)
      PROVE  SlotMove
  BY <1>1 DEF HandleDesiredRunnerCount
<1>2. ASSUME NEW c \in Class, RefuseSpawnTask(c)
      PROVE  SlotMove
  BY <1>2 DEF RefuseSpawnTask
<1>3. ASSUME NEW c \in Class, ListenerReturns(c)
      PROVE  SlotMove
  BY <1>3 DEF ListenerReturns
<1>4. ASSUME NEW c \in Class, Tick(c)
      PROVE  SlotMove
  BY <1>4 DEF Tick
<1>5. ASSUME NEW c \in Class, AbandonSweep(c)
      PROVE  SlotMove
  BY <1>5 DEF AbandonSweep
<1>6. ASSUME NEW c \in Class, ReapDone(c)
      PROVE  SlotMove
  BY <1>6 DEF ReapDone
<1>7. ASSUME NEW c \in Class, SweepList(c)
      PROVE  SlotMove
  BY <1>7 DEF SweepList
<1>8. ASSUME NEW c \in Class, SweepListFails(c)
      PROVE  SlotMove
  BY <1>8 DEF SweepListFails
<1>9. ASSUME NEW c \in Class, SweepNames(c)
      PROVE  SlotMove
  BY <1>9 DEF SweepNames
<1>10. ASSUME NEW c \in Class, SweepDone(c)
      PROVE  SlotMove
  BY <1>10 DEF SweepDone
<1>11. ASSUME NEW c \in Class, RunReturns(c)
      PROVE  SlotMove
  BY <1>11 DEF RunReturns
<1>12. ASSUME NEW c \in Class, Join(c)
      PROVE  SlotMove
  BY <1>12 DEF Join
<1>13. ASSUME NEW r \in Runner, StartSpawnTask(r)
      PROVE  SlotMove
  BY <1>13 DEF StartSpawnTask
<1>14. ASSUME NEW r \in Runner, HandleJobStarted(r)
      PROVE  SlotMove
  BY <1>14 DEF HandleJobStarted
<1>15. ASSUME NEW r \in Runner, HandleJobCompleted(r)
      PROVE  SlotMove
  BY <1>15 DEF HandleJobCompleted, ListenerFree
<1>16. ASSUME NEW r \in Runner, MintAcquire(r)
      PROVE  SlotMove
  BY <1>16 DEF MintAcquire
<1>17. ASSUME NEW r \in Runner, MintCancelled(r)
      PROVE  SlotMove
  BY <1>17 DEF MintCancelled
<1>18. ASSUME NEW r \in Runner, Generate(r)
      PROVE  SlotMove
  BY <1>18 DEF Generate
<1>19. ASSUME NEW r \in Runner, GenerateFails(r)
      PROVE  SlotMove
  BY <1>19 DEF GenerateFails, AbortSpawn
<1>20. ASSUME NEW r \in Runner, FinishInflight(r)
      PROVE  SlotMove
  BY <1>20 DEF FinishInflight
<1>21. ASSUME NEW r \in Runner, RenderFails(r)
      PROVE  SlotMove
  BY <1>21 DEF RenderFails
<1>22. ASSUME NEW r \in Runner, Discard(r)
      PROVE  SlotMove
  BY <1>22 DEF Discard, AbortSpawn
<1>23. ASSUME NEW r \in Runner, Discarding(r)
      PROVE  SlotMove
  BY <1>23 DEF Discarding, AbortSpawn
<1>24. ASSUME NEW r \in Runner, Admit(r)
      PROVE  SlotMove
  BY <1>24 DEF Admit
<1>25. ASSUME NEW r \in Runner, LaunchCancelled(r)
      PROVE  SlotMove
  BY <1>25 DEF LaunchCancelled
<1>26. ASSUME NEW r \in Runner, Withdraw(r)
      PROVE  SlotMove
  BY <1>26 DEF Withdraw
<1>27. ASSUME NEW r \in Runner, Withdrawn(r)
      PROVE  SlotMove
  BY <1>27 DEF Withdrawn
<1>28. ASSUME NEW r \in Runner, LaunchAcquire(r)
      PROVE  SlotMove
  BY <1>28 DEF LaunchAcquire
<1>29. ASSUME NEW r \in Runner, Create(r)
      PROVE  SlotMove
  BY <1>29 DEF Create
<1>30. ASSUME NEW r \in Runner, LaunchOK(r)
      PROVE  SlotMove
  BY <1>30 DEF LaunchOK
<1>31. ASSUME NEW r \in Runner, LaunchFails(r)
      PROVE  SlotMove
  BY <1>31 DEF LaunchFails
<1>32. ASSUME NEW r \in Runner, Forget(r)
      PROVE  SlotMove
  BY <1>32 DEF Forget
<1>33. ASSUME NEW r \in Runner, Launched(r)
      PROVE  SlotMove
  BY <1>33 DEF Launched
<1>34. ASSUME NEW r \in Runner, SkipFresh(r)
      PROVE  SlotMove
  BY <1>34 DEF SkipFresh
<1>35. ASSUME NEW r \in Runner, DispatchReap(r)
      PROVE  SlotMove
  BY <1>35 DEF DispatchReap, Undispatched, ReaperUnchanged
<1>36. ASSUME NEW r \in Runner, DispatchSweep(r)
      PROVE  SlotMove
  BY <1>36 DEF DispatchSweep, Undispatched, ReaperUnchanged
<1>37. ASSUME NEW r \in Runner, SweepStop(r)
      PROVE  SlotMove
  BY <1>37 DEF SweepStop
<1>38. ASSUME NEW r \in Runner, SweepDelete(r)
      PROVE  SlotMove
  BY <1>38 DEF SweepDelete
<1>39. ASSUME NEW r \in Runner, CloudStep(r)
      PROVE  SlotMove
  BY <1>39 DEF CloudStep, ProcessUnchanged
<1>40. ASSUME NEW r \in Runner, TimerExpires(r)
      PROVE  SlotMove
  BY <1>40 DEF TimerExpires
<1>41. ASSUME NEW a \in Actor, NEW r \in Runner, TermMark(a, r)
      PROVE  SlotMove
  BY <1>41 DEF TermMark, AfterTerminate
<1>42. ASSUME NEW a \in Actor, NEW r \in Runner, TermRemove(a, r)
      PROVE  SlotMove
  BY <1>42 DEF TermRemove
<1>43. ASSUME NEW a \in Actor, NEW r \in Runner, TermStop(a, r)
      PROVE  SlotMove
  BY <1>43 DEF TermStop
<1>44. ASSUME NEW a \in Actor, NEW r \in Runner, TermDelete(a, r)
      PROVE  SlotMove
  BY <1>44 DEF TermDelete, AfterTerminate
<1>45. ASSUME NEW a \in Actor, NEW r \in Runner, Deregister(a, r)
      PROVE  SlotMove
  <2>1. CASE ActorReturns(a, r)
    BY <1>45, <2>1, ReturnsMove DEF Deregister
  <2>2. CASE Go(a, r, "deregistering") /\ UNCHANGED limiterVars
    BY <1>45, <2>2 DEF Deregister
  <2> QED
    BY <1>45, <2>1, <2>2 DEF Deregister
<1>46. ASSUME NEW a \in Actor, NEW r \in Runner, Deregistering(a, r)
      PROVE  SlotMove
  BY <1>46, ReturnsMove DEF Deregistering
<1>47. ASSUME Signal
      PROVE  SlotMove
  BY <1>47 DEF Signal
<1>48. ASSUME Restart
      PROVE  SlotMove
  BY <1>48 DEF Restart, Boot, LimiterInit
<1>49. ASSUME Crash
      PROVE  SlotMove
  BY <1>49 DEF Crash, Boot, LimiterInit
<1>50. CASE UNCHANGED vars
  BY <1>50 DEF vars
<1> QED
  BY <1>1, <1>2, <1>3, <1>4, <1>5, <1>6, <1>7, <1>8, <1>9, <1>10, <1>11,
     <1>12, <1>13, <1>14, <1>15, <1>16, <1>17, <1>18, <1>19, <1>20, <1>21,
     <1>22, <1>23, <1>24, <1>25, <1>26, <1>27, <1>28, <1>29, <1>30, <1>31,
     <1>32, <1>33, <1>34, <1>35, <1>36, <1>37, <1>38, <1>39, <1>40, <1>41,
     <1>42, <1>43, <1>44, <1>45, <1>46, <1>47, <1>48, <1>49, <1>50
  DEF Next, ListenerStep, ReaperStep, SpawnStep, LaunchStep, WorkerStep,
      TerminateStep, RunnersOf

\* Initially nobody holds a slot.
LEMMA SlotInit == Init => SlotsExact
<1> SUFFICES ASSUME Init PROVE SlotsExact
  OBVIOUS
<1>1. MintHolders = {} /\ LaunchHolders = {} /\ Workers = {}
  BY DEF Init, MintHolders, LaunchHolders, Workers, Actor, At, Minting,
     Launching, Teardown, Terminating
<1> QED
  BY <1>1, FS_EmptySet, LimiterAssumption DEF Init, LimiterInit, SlotsExact

\* The counters follow the sets of holders.
LEMMA SlotStep ==
  ASSUME TypeOK, SlotsExact, SlotMove
  PROVE  SlotsExact'
<1> USE LimiterAssumption DEF TypeOK, LimiterTypeOK, SlotsExact
<1>1. /\ MintHolders \in SUBSET Runner
      /\ LaunchHolders \in SUBSET Runner
      /\ Workers \in SUBSET Runner
  BY DEF MintHolders, LaunchHolders, Workers
<1>2. /\ Cardinality(MintHolders) \in Nat
      /\ Cardinality(LaunchHolders) \in Nat
      /\ Cardinality(Workers) \in Nat
  BY <1>1, RunnerAssumption, FS_Subset, FS_CardinalityType
<1>3. CASE /\ AcquireMint
           /\ \E r \in Runner \ MintHolders :
                MintHolders' = MintHolders \cup {r}
           /\ LaunchHolders' = LaunchHolders /\ Workers' = Workers
  BY <1>1, <1>2, <1>3, Counting DEF AcquireMint
<1>4. CASE /\ ReleaseMint
           /\ \E r \in MintHolders : MintHolders' = MintHolders \ {r}
           /\ LaunchHolders' = LaunchHolders /\ Workers' = Workers
  BY <1>1, <1>2, <1>4, Counting DEF ReleaseMint
<1>5. CASE /\ AcquireLaunch
           /\ \E r \in Runner \ LaunchHolders :
                LaunchHolders' = LaunchHolders \cup {r}
           /\ MintHolders' = MintHolders /\ Workers' = Workers
  BY <1>1, <1>2, <1>5, Counting DEF AcquireLaunch
<1>6. CASE /\ AcquireLaunch
           /\ \E r \in Runner \ Workers : Workers' = Workers \cup {r}
           /\ MintHolders' = MintHolders /\ LaunchHolders' = LaunchHolders
  BY <1>1, <1>2, <1>6, Counting DEF AcquireLaunch
<1>7. CASE /\ ReleaseLaunch
           /\ \E r \in LaunchHolders : LaunchHolders' = LaunchHolders \ {r}
           /\ MintHolders' = MintHolders /\ Workers' = Workers
  BY <1>1, <1>2, <1>7, Counting DEF ReleaseLaunch
<1>8. CASE /\ ReleaseLaunch
           /\ \E r \in Workers : Workers' = Workers \ {r}
           /\ MintHolders' = MintHolders /\ LaunchHolders' = LaunchHolders
  BY <1>1, <1>2, <1>8, Counting DEF ReleaseLaunch
<1>9. CASE /\ LimiterInit'
           /\ MintHolders' = {} /\ LaunchHolders' = {} /\ Workers' = {}
  BY <1>9, FS_EmptySet DEF LimiterInit
<1>10. CASE /\ UNCHANGED limiterVars
            /\ MintHolders' = MintHolders
            /\ LaunchHolders' = LaunchHolders /\ Workers' = Workers
  BY <1>10 DEF limiterVars
<1> QED
  BY <1>3, <1>4, <1>5, <1>6, <1>7, <1>8, <1>9, <1>10 DEF SlotMove

\* Both limits hold and no slot is ever lost or released twice, for any
\* number of classes, runners and slots and any faults (Limiter in
\* orchestrator.go, spawnIdleRunner, launch, parallelReap).
THEOREM SlotsCorrect == Spec => []SlotsExact
<1>1. IInv /\ SlotsExact /\ [Next]_vars => SlotsExact'
  BY SlotMoves, SlotStep DEF IInv
<1> QED
  BY <1>1, SlotInit, InvCorrect, PTL DEF Spec

----------------------------------------------------------------------------
(* spawnInflight and the capacity of a class.                              *)

\* A step that leaves every task on its side of tracker.add.
SameStage ==
  \A r \in Runner :
    /\ (pc["task"][r] \in PreAdmit)' <=> pc["task"][r] \in PreAdmit
    /\ (pc["task"][r] = "none")' <=> pc["task"][r] = "none"

\* spawnIdleRunner returns early; tracker.add; tracker.remove.
Aborted(r) ==
  /\ pc["task"][r] \in PreAdmit
  /\ Go("task", r, "done")
  /\ inflight' = [inflight EXCEPT ![ClassOf[r]] = @ - 1]
  /\ UNCHANGED <<state, remaining>>

Admitted(r) ==
  /\ pc["task"][r] \in PreAdmit
  /\ Go("task", r, "acquire")
  /\ inflight' = [inflight EXCEPT ![ClassOf[r]] = @ - 1]
  /\ state' = [state EXCEPT ![r] = "launching"]
  /\ UNCHANGED remaining

Removed(r) ==
  /\ state' = [state EXCEPT ![r] = "absent"]
  /\ SameStage
  /\ UNCHANGED <<inflight, remaining>>

Quiet ==
  /\ \A r \in Runner : Tracked(r)' <=> Tracked(r)
  /\ SameStage
  /\ UNCHANGED <<inflight, remaining>>

PoolMove ==
  \/ \E c \in Class : HandleDesiredRunnerCount(c) \/ RefuseSpawnTask(c)
  \/ \E r \in Runner : \/ StartSpawnTask(r) \/ Aborted(r)
                       \/ Admitted(r) \/ Removed(r)
  \/ Boot
  \/ Quiet

\* What a step can do to the pool.
LEMMA PoolMoves == IInv /\ [Next]_vars => PoolMove
<1> SUFFICES ASSUME IInv, [Next]_vars PROVE PoolMove
  OBVIOUS
<1> USE DEF IInv, TypeOK, TrackerTypeOK, OrchestratorTypeOK, ActorLabels,
        PoolMove, Aborted, Admitted, Removed, Quiet, SameStage, Actor,
        PreAdmit, Minting, Launching, Terminating, Teardown, Sweeping, At, Go,
        Tracked, EntryState, trackerVars, spawnVars
<1>1. ASSUME NEW c \in Class, HandleDesiredRunnerCount(c)
      PROVE  PoolMove
  BY <1>1
<1>2. ASSUME NEW c \in Class, RefuseSpawnTask(c)
      PROVE  PoolMove
  BY <1>2
<1>3. ASSUME NEW c \in Class, ListenerReturns(c)
      PROVE  PoolMove
  BY <1>3 DEF ListenerReturns
<1>4. ASSUME NEW c \in Class, Tick(c)
      PROVE  PoolMove
  BY <1>4 DEF Tick, ReaperUnchanged
<1>5. ASSUME NEW c \in Class, AbandonSweep(c)
      PROVE  PoolMove
  BY <1>5 DEF AbandonSweep, ReaperUnchanged
<1>6. ASSUME NEW c \in Class, ReapDone(c)
      PROVE  PoolMove
  BY <1>6 DEF ReapDone, ReaperUnchanged
<1>7. ASSUME NEW c \in Class, SweepList(c)
      PROVE  PoolMove
  BY <1>7 DEF SweepList, ReaperUnchanged
<1>8. ASSUME NEW c \in Class, SweepListFails(c)
      PROVE  PoolMove
  BY <1>8 DEF SweepListFails, ReaperUnchanged
<1>9. ASSUME NEW c \in Class, SweepNames(c)
      PROVE  PoolMove
  BY <1>9 DEF SweepNames, ReaperUnchanged
<1>10. ASSUME NEW c \in Class, SweepDone(c)
      PROVE  PoolMove
  BY <1>10 DEF SweepDone, ReaperUnchanged
<1>11. ASSUME NEW c \in Class, RunReturns(c)
      PROVE  PoolMove
  BY <1>11 DEF RunReturns
<1>12. ASSUME NEW c \in Class, Join(c)
      PROVE  PoolMove
  BY <1>12 DEF Join, ReaperUnchanged
<1>13. ASSUME NEW r \in Runner, StartSpawnTask(r)
      PROVE  PoolMove
  BY <1>13
<1>14. ASSUME NEW r \in Runner, HandleJobStarted(r)
      PROVE  PoolMove
  BY <1>14 DEF HandleJobStarted, MarkBusy
<1>15. ASSUME NEW r \in Runner, HandleJobCompleted(r)
      PROVE  PoolMove
  BY <1>15 DEF HandleJobCompleted
<1>16. ASSUME NEW r \in Runner, MintAcquire(r)
      PROVE  PoolMove
  BY <1>16 DEF MintAcquire
<1>17. ASSUME NEW r \in Runner, MintCancelled(r)
      PROVE  PoolMove
  BY <1>17 DEF MintCancelled
<1>18. ASSUME NEW r \in Runner, Generate(r)
      PROVE  PoolMove
  BY <1>18 DEF Generate
<1>19. ASSUME NEW r \in Runner, GenerateFails(r)
      PROVE  PoolMove
  BY <1>19 DEF GenerateFails, AbortSpawn
<1>20. ASSUME NEW r \in Runner, FinishInflight(r)
      PROVE  PoolMove
  BY <1>20 DEF FinishInflight
<1>21. ASSUME NEW r \in Runner, RenderFails(r)
      PROVE  PoolMove
  BY <1>21 DEF RenderFails
<1>22. ASSUME NEW r \in Runner, Discard(r)
      PROVE  PoolMove
  BY <1>22 DEF Discard, AbortSpawn
<1>23. ASSUME NEW r \in Runner, Discarding(r)
      PROVE  PoolMove
  BY <1>23 DEF Discarding, AbortSpawn
<1>24. ASSUME NEW r \in Runner, Admit(r)
      PROVE  PoolMove
  BY <1>24 DEF Admit, Add, SetEntry
<1>25. ASSUME NEW r \in Runner, LaunchCancelled(r)
      PROVE  PoolMove
  BY <1>25 DEF LaunchCancelled
<1>26. ASSUME NEW r \in Runner, Withdraw(r)
      PROVE  PoolMove
  BY <1>26 DEF Withdraw, Remove, SetEntry
<1>27. ASSUME NEW r \in Runner, Withdrawn(r)
      PROVE  PoolMove
  BY <1>27 DEF Withdrawn
<1>28. ASSUME NEW r \in Runner, LaunchAcquire(r)
      PROVE  PoolMove
  BY <1>28 DEF LaunchAcquire
<1>29. ASSUME NEW r \in Runner, Create(r)
      PROVE  PoolMove
  BY <1>29 DEF Create
<1>30. ASSUME NEW r \in Runner, LaunchOK(r)
      PROVE  PoolMove
  BY <1>30 DEF LaunchOK
<1>31. ASSUME NEW r \in Runner, LaunchFails(r)
      PROVE  PoolMove
  BY <1>31 DEF LaunchFails
<1>32. ASSUME NEW r \in Runner, Forget(r)
      PROVE  PoolMove
  BY <1>32 DEF Forget, Remove, SetEntry
<1>33. ASSUME NEW r \in Runner, Launched(r)
      PROVE  PoolMove
  BY <1>33 DEF Launched, MarkIdle
<1>34. ASSUME NEW r \in Runner, SkipFresh(r)
      PROVE  PoolMove
  BY <1>34 DEF SkipFresh, ReaperUnchanged
<1>35. ASSUME NEW r \in Runner, DispatchReap(r)
      PROVE  PoolMove
  BY <1>35 DEF DispatchReap, ReaperUnchanged
<1>36. ASSUME NEW r \in Runner, DispatchSweep(r)
      PROVE  PoolMove
  BY <1>36 DEF DispatchSweep, ReaperUnchanged
<1>37. ASSUME NEW r \in Runner, SweepStop(r)
      PROVE  PoolMove
  BY <1>37 DEF SweepStop
<1>38. ASSUME NEW r \in Runner, SweepDelete(r)
      PROVE  PoolMove
  BY <1>38 DEF SweepDelete
<1>39. ASSUME NEW r \in Runner, CloudStep(r)
      PROVE  PoolMove
  BY <1>39 DEF CloudStep, ProcessUnchanged
<1>40. ASSUME NEW r \in Runner, TimerExpires(r)
      PROVE  PoolMove
  BY <1>40 DEF TimerExpires, Expire
<1>41. ASSUME NEW a \in Actor, NEW r \in Runner, TermMark(a, r)
      PROVE  PoolMove
  BY <1>41 DEF TermMark, AfterTerminate, MarkForTermination
<1>42. ASSUME NEW a \in Actor, NEW r \in Runner, TermRemove(a, r)
      PROVE  PoolMove
  BY <1>42 DEF TermRemove, Remove, SetEntry
<1>43. ASSUME NEW a \in Actor, NEW r \in Runner, TermStop(a, r)
      PROVE  PoolMove
  BY <1>43 DEF TermStop
<1>44. ASSUME NEW a \in Actor, NEW r \in Runner, TermDelete(a, r)
      PROVE  PoolMove
  BY <1>44 DEF TermDelete, AfterTerminate
<1>45. ASSUME NEW a \in Actor, NEW r \in Runner, Deregister(a, r)
      PROVE  PoolMove
  BY <1>45 DEF Deregister, ActorReturns
<1>46. ASSUME NEW a \in Actor, NEW r \in Runner, Deregistering(a, r)
      PROVE  PoolMove
  BY <1>46 DEF Deregistering, ActorReturns
<1>47. ASSUME Signal
      PROVE  PoolMove
  BY <1>47 DEF Signal
<1>48. ASSUME Restart
      PROVE  PoolMove
  BY <1>48 DEF Restart
<1>49. ASSUME Crash
      PROVE  PoolMove
  BY <1>49 DEF Crash
<1>50. CASE UNCHANGED vars
  BY <1>50 DEF vars
<1> QED
  BY <1>1, <1>2, <1>3, <1>4, <1>5, <1>6, <1>7, <1>8, <1>9, <1>10, <1>11,
     <1>12, <1>13, <1>14, <1>15, <1>16, <1>17, <1>18, <1>19, <1>20, <1>21,
     <1>22, <1>23, <1>24, <1>25, <1>26, <1>27, <1>28, <1>29, <1>30, <1>31,
     <1>32, <1>33, <1>34, <1>35, <1>36, <1>37, <1>38, <1>39, <1>40, <1>41,
     <1>42, <1>43, <1>44, <1>45, <1>46, <1>47, <1>48, <1>49, <1>50
  DEF Next, ListenerStep, ReaperStep, SpawnStep, LaunchStep, WorkerStep,
      TerminateStep, RunnersOf

\* What is reserved, with what there is, stays within max_runners.
LEMMA ScaleUpBound ==
  ASSUME TypeOK, NEW c \in Class, NEW n \in Int
  PROVE  /\ ScaleUp(c, n) \in Int
         /\ ScaleUp(c, n) + Size(c) + inflight[c] <= MaxRunners[c]
<1>1. Size(c) \in Nat /\ inflight[c] \in Int /\ MaxRunners[c] \in Nat
  BY SizeType, MaxRunnersAssumption DEF TypeOK, OrchestratorTypeOK
<1>2. /\ Clamp(n, MaxRunners[c]) \in Int
      /\ Clamp(n, MaxRunners[c]) <= MaxRunners[c]
  BY <1>1 DEF Clamp
<1> QED
  BY <1>1, <1>2 DEF ScaleUp

\* Initially nothing is reserved.
LEMMA InflightInit == Init => InflightExact
<1> SUFFICES ASSUME Init PROVE InflightExact
  OBVIOUS
<1>1. \A c \in Class : PreAdmitTasks(c) = {}
  BY DEF Init, PreAdmitTasks, RunnersOf, PreAdmit, Minting, Actor
<1> QED
  BY <1>1, FS_EmptySet DEF Init, InflightExact

\* spawnInflight follows the tasks that have still to be admitted.
LEMMA InflightStep ==
  ASSUME TypeOK, InflightExact, PoolMove
  PROVE  InflightExact'
<1> USE ClassAssumption
    DEF TypeOK, OrchestratorTypeOK, InflightExact
<1>1. \A c \in Class : /\ PreAdmitTasks(c) \in SUBSET Runner
                       /\ Cardinality(PreAdmitTasks(c)) \in Nat
  BY RunnerAssumption, FS_Subset, FS_CardinalityType
  DEF PreAdmitTasks, RunnersOf
<1>2. ASSUME NEW c \in Class,
             HandleDesiredRunnerCount(c) \/ RefuseSpawnTask(c)
      PROVE  InflightExact'
  <2>1. \A d \in Class : PreAdmitTasks(d)' = PreAdmitTasks(d)
    BY <1>2 DEF HandleDesiredRunnerCount, RefuseSpawnTask, PreAdmitTasks
  <2>2. CASE HandleDesiredRunnerCount(c)
    <3>1. PICK n \in Desired :
            /\ inflight' = [inflight EXCEPT ![c] = @ + ScaleUp(c, n)]
            /\ remaining' = [remaining EXCEPT ![c] = ScaleUp(c, n)]
      BY <2>2 DEF HandleDesiredRunnerCount
    <3>2. remaining[c] = 0
      BY <2>2 DEF HandleDesiredRunnerCount, ListenerFree
    <3>3. ScaleUp(c, n) \in Int
      BY ScaleUpBound, DesiredAssumption
    <3> QED
      BY <1>1, <2>1, <3>1, <3>2, <3>3
  <2>3. CASE RefuseSpawnTask(c)
    BY <1>1, <2>1, <2>3 DEF RefuseSpawnTask
  <2> QED
    BY <1>2, <2>2, <2>3
<1>3. ASSUME NEW r \in Runner, StartSpawnTask(r)
      PROVE  InflightExact'
  <2>1. /\ r \notin PreAdmitTasks(ClassOf[r])
        /\ PreAdmitTasks(ClassOf[r])' = PreAdmitTasks(ClassOf[r]) \cup {r}
    BY <1>3 DEF StartSpawnTask, PreAdmitTasks, RunnersOf, PreAdmit, Minting,
       At, Go, Actor
  <2>2. \A d \in Class : d # ClassOf[r] => PreAdmitTasks(d)' = PreAdmitTasks(d)
    BY <1>3 DEF StartSpawnTask, PreAdmitTasks, RunnersOf, At, Go, Actor
  <2>3. Cardinality(PreAdmitTasks(ClassOf[r])') =
          Cardinality(PreAdmitTasks(ClassOf[r])) + 1
    BY <1>1, <2>1, Counting
  <2>4. /\ remaining' = [remaining EXCEPT ![ClassOf[r]] = @ - 1]
        /\ inflight' = inflight
    BY <1>3 DEF StartSpawnTask
  <2> SUFFICES ASSUME NEW d \in Class
               PROVE  inflight'[d] =
                        remaining'[d] + Cardinality(PreAdmitTasks(d)')
    OBVIOUS
  <2>5. CASE d = ClassOf[r]
    BY <1>1, <2>3, <2>4, <2>5
  <2>6. CASE d # ClassOf[r]
    BY <2>2, <2>4, <2>6
  <2> QED
    BY <2>5, <2>6
<1>4. ASSUME NEW r \in Runner, Aborted(r) \/ Admitted(r)
      PROVE  InflightExact'
  <2>1. /\ r \in PreAdmitTasks(ClassOf[r])
        /\ PreAdmitTasks(ClassOf[r])' = PreAdmitTasks(ClassOf[r]) \ {r}
    BY <1>4 DEF Aborted, Admitted, PreAdmitTasks, RunnersOf, PreAdmit,
       Minting, Go, Actor
  <2>2. \A d \in Class : d # ClassOf[r] => PreAdmitTasks(d)' = PreAdmitTasks(d)
    BY <1>4 DEF Aborted, Admitted, PreAdmitTasks, RunnersOf, Go, Actor
  <2>3. Cardinality(PreAdmitTasks(ClassOf[r])') =
          Cardinality(PreAdmitTasks(ClassOf[r])) - 1
    BY <1>1, <2>1, Counting
  <2> QED
    BY <1>1, <1>4, <2>2, <2>3 DEF Aborted, Admitted
<1>5. CASE Boot
  <2>1. \A c \in Class : PreAdmitTasks(c)' = {}
    BY <1>5 DEF Boot, PreAdmitTasks, RunnersOf, PreAdmit, Minting, Actor
  <2>2. \A c \in Class : Cardinality(PreAdmitTasks(c)') = 0
    BY <2>1, FS_EmptySet
  <2>3. /\ inflight' = [c \in Class |-> 0]
        /\ remaining' = [c \in Class |-> 0]
    BY <1>5 DEF Boot
  <2> QED
    BY <2>2, <2>3
<1>6. CASE Quiet \/ \E r \in Runner : Removed(r)
  <2>1. \A c \in Class : PreAdmitTasks(c)' = PreAdmitTasks(c)
    BY <1>6 DEF Quiet, Removed, SameStage, PreAdmitTasks, RunnersOf
  <2> QED
    BY <1>6, <2>1 DEF Quiet, Removed
<1> QED
  BY <1>2, <1>3, <1>4, <1>5, <1>6 DEF PoolMove

\* No path through spawnIdleRunner or HandleDesiredRunnerCount leaks a
\* reservation or returns it twice (orchestrator.go:293-316, 386-397, 461-468).
THEOREM InflightCorrect == Spec => []InflightExact
<1>1. IInv /\ InflightExact /\ [Next]_vars => InflightExact'
  BY PoolMoves, InflightStep DEF IInv
<1> QED
  BY <1>1, InflightInit, InvCorrect, PTL DEF Spec

\* The pools start empty.
LEMMA CapacityInit == Init => CapacityBound
<1> SUFFICES ASSUME Init, NEW c \in Class
             PROVE  Size(c) + inflight[c] <= MaxRunners[c]
  BY DEF CapacityBound
<1>1. Names(c) = {}
  BY DEF Init, TrackerInit, Names, Tracked
<1>2. Size(c) = 0
  BY <1>1, FS_EmptySet DEF Size
<1>3. inflight[c] = 0
  BY DEF Init
<1>4. MaxRunners[c] \in Nat
  BY MaxRunnersAssumption
<1> QED
  BY <1>2, <1>3, <1>4

\* No step takes a pool over max_runners.
LEMMA CapacityStep ==
  ASSUME TypeOK, CapacityBound, PoolMove
  PROVE  CapacityBound'
<1> USE ClassAssumption, MaxRunnersAssumption
    DEF TypeOK, OrchestratorTypeOK, CapacityBound
<1>1. \A c \in Class : Names(c) \in SUBSET Runner /\ IsFiniteSet(Names(c))
  BY RunnerAssumption, FS_Subset DEF Names
<1>2. \A c \in Class : Size(c) \in Nat
  BY SizeType
<1>3. \A c \in Class : Names(c)' \in SUBSET Runner /\ Size(c)' \in Nat
  BY RunnerAssumption, FS_Subset, FS_CardinalityType DEF Names, Size
<1>4. ASSUME NEW c \in Class, HandleDesiredRunnerCount(c)
      PROVE  CapacityBound'
  <2>1. PICK n \in Desired :
          inflight' = [inflight EXCEPT ![c] = @ + ScaleUp(c, n)]
    BY <1>4 DEF HandleDesiredRunnerCount
  <2>2. /\ ScaleUp(c, n) \in Int
        /\ ScaleUp(c, n) + Size(c) + inflight[c] <= MaxRunners[c]
    BY ScaleUpBound, DesiredAssumption
  <2>3. \A d \in Class : Size(d)' = Size(d)
    BY <1>4 DEF HandleDesiredRunnerCount, Size, Names, Tracked, trackerVars
  <2> QED
    BY <1>2, <2>1, <2>2, <2>3
<1>5. ASSUME \A c \in Class : Names(c)' \subseteq Names(c),
             \A c \in Class :
               inflight'[c] \in Int /\ inflight'[c] <= inflight[c]
      PROVE  CapacityBound'
  <2>1. \A c \in Class : Size(c)' <= Size(c)
    BY <1>1, <1>5, FS_Subset DEF Size
  <2> QED
    BY <1>2, <1>3, <1>5, <2>1
<1>6. ASSUME NEW c \in Class, RefuseSpawnTask(c)
      PROVE  CapacityBound'
  BY <1>5, <1>6 DEF RefuseSpawnTask, Names, Tracked, trackerVars
<1>7. ASSUME NEW r \in Runner, StartSpawnTask(r) \/ Aborted(r) \/ Removed(r)
      PROVE  CapacityBound'
  BY <1>5, <1>7
  DEF StartSpawnTask, Aborted, Removed, Names, Tracked, trackerVars,
      TrackerTypeOK
<1>8. ASSUME NEW r \in Runner, Admitted(r)
      PROVE  CapacityBound'
  <2>1. \A c \in Class :
          Names(c)' = IF c = ClassOf[r] THEN Names(c) \cup {r} ELSE Names(c)
    BY <1>8 DEF Admitted, Names, Tracked, TrackerTypeOK
  <2>2. Size(ClassOf[r])' <= Size(ClassOf[r]) + 1
    <3>1. ClassOf[r] \in Class /\ IsFiniteSet(Names(ClassOf[r]))
      BY <1>1
    <3>2. Names(ClassOf[r])' = Names(ClassOf[r]) \cup {r}
      BY <2>1, <3>1
    <3>3. Cardinality(Names(ClassOf[r])) \in Nat
      BY <3>1, FS_CardinalityType
    <3>4. Cardinality(Names(ClassOf[r]) \cup {r}) \in
            {Cardinality(Names(ClassOf[r])), Cardinality(Names(ClassOf[r])) + 1}
      BY <3>1, FS_AddElement
    <3> QED
      BY <3>2, <3>3, <3>4 DEF Size
  <2>3. \A c \in Class : c # ClassOf[r] => Size(c)' = Size(c)
    BY <2>1 DEF Size
  <2> QED
    BY <1>2, <1>3, <1>8, <2>2, <2>3 DEF Admitted
<1>9. CASE Boot
  <2>1. \A c \in Class : Names(c)' = {}
    BY <1>9 DEF Boot, Names, Tracked
  <2>2. \A c \in Class : Size(c)' = 0
    BY <2>1, FS_EmptySet DEF Size
  <2> QED
    BY <1>9, <2>2 DEF Boot
<1>10. CASE Quiet
  BY <1>5, <1>10 DEF Quiet, Names
<1> QED
  BY <1>4, <1>6, <1>7, <1>8, <1>9, <1>10 DEF PoolMove

\* For any sequence of desired counts, failures, shutdowns and crashes a class
\* never has more than max_runners runners, tracked or about to be.
THEOREM CapacityCorrect == Spec => []CapacityBound
<1>1. IInv /\ CapacityBound /\ [Next]_vars => CapacityBound'
  BY PoolMoves, CapacityStep DEF IInv
<1> QED
  BY <1>1, CapacityInit, InvCorrect, PTL DEF Spec

----------------------------------------------------------------------------
(* Orchestrator implements RunnerPool: reservations are spawnInflight, the *)
(* runners in the pools are the tracked ones, and a name is spent once its *)
(* task has gone past the mint and it has no entry.                        *)

Live == {r \in Runner : Tracked(r)}

\* Initially the pools are empty and no name is spent.
LEMMA PoolInitial == Init => Pool!PoolInit
  BY DEF Init, TrackerInit, Tracked, SpentNames, Actor, Pool!PoolInit

\* The live runners of a class are the names in its tracker.
LEMMA LiveInClass == \A c \in Class : Pool!LiveIn(c) = Names(c)
  BY DEF Pool!LiveIn, Names

\* Both modules count alike.
LEMMA SameCardinality == \A S : Pool!Cardinality(S) = Cardinality(S)
  BY DEF Pool!Cardinality, Cardinality

\* HandleDesiredRunnerCount reserves.
LEMMA ReserveStep ==
  ASSUME TypeOK, NEW c \in Class, HandleDesiredRunnerCount(c)
  PROVE  Pool!Reserve(c)
<1>1. PICK n \in Desired :
        /\ ScaleUp(c, n) >= 1
        /\ inflight' = [inflight EXCEPT ![c] = @ + ScaleUp(c, n)]
  <2>1. \A S \in SUBSET Runner : Cardinality(S) \in Nat
    BY RunnerAssumption, FS_Subset, FS_CardinalityType
  <2>2. Cardinality(Unused(c)) \in Nat
    BY <2>1 DEF Unused, RunnersOf
  <2>3. PICK n \in Desired :
          /\ ScaleUp(c, n) \in 1 .. Cardinality(Unused(c))
          /\ inflight' = [inflight EXCEPT ![c] = @ + ScaleUp(c, n)]
    BY DEF HandleDesiredRunnerCount
  <2>4. ScaleUp(c, n) >= 1
    BY <2>2, <2>3
  <2> QED
    BY <2>3, <2>4
<1>2. /\ ScaleUp(c, n) \in Int
      /\ ScaleUp(c, n) + Size(c) + inflight[c] <= MaxRunners[c]
  BY ScaleUpBound, DesiredAssumption
<1>3. /\ Size(c) \in Int /\ inflight[c] \in Int /\ MaxRunners[c] \in Int
  BY SizeType, MaxRunnersAssumption DEF TypeOK, OrchestratorTypeOK
<1>4. Pool!Load(c) = inflight[c] + Size(c)
  <2>1. Pool!LiveIn(c) = Names(c)
    BY LiveInClass
  <2>2. Pool!Load(c) = inflight[c] + Cardinality(Pool!LiveIn(c))
    BY SameCardinality DEF Pool!Load
  <2> QED
    BY <2>1, <2>2 DEF Size
<1>5. ScaleUp(c, n) \in 1 .. (MaxRunners[c] - Pool!Load(c))
  BY <1>1, <1>2, <1>3, <1>4
<1>6. UNCHANGED <<Live, SpentNames>>
  BY <1>1 DEF HandleDesiredRunnerCount, Live, SpentNames, Tracked, trackerVars
<1> QED
  BY <1>1, <1>5, <1>6 DEF Pool!Reserve, Live

\* A reservation is behind every task the loop has still to start and every
\* task before tracker.add.
LEMMA ReservedPositive ==
  ASSUME TypeOK, InflightExact, NEW c \in Class,
         remaining[c] > 0 \/ PreAdmitTasks(c) # {}
  PROVE  inflight[c] > 0
<1>1. PreAdmitTasks(c) \in SUBSET Runner
  BY DEF PreAdmitTasks, RunnersOf
<1>2. Cardinality(PreAdmitTasks(c)) \in Nat
  BY <1>1, RunnerAssumption, FS_Subset, FS_CardinalityType
<1>3. PreAdmitTasks(c) # {} => Cardinality(PreAdmitTasks(c)) > 0
  BY <1>1, Counting
<1>4. inflight[c] = remaining[c] + Cardinality(PreAdmitTasks(c))
  BY DEF InflightExact
<1>5. remaining[c] \in Nat
  BY DEF TypeOK, OrchestratorTypeOK
<1> QED
  BY <1>2, <1>3, <1>4, <1>5

\* A refused task gives its reservation back.
LEMMA RefuseStep ==
  ASSUME TypeOK, InflightExact, NEW c \in Class, RefuseSpawnTask(c)
  PROVE  Pool!Cancel(c)
<1>1. inflight[c] > 0
  BY ReservedPositive DEF RefuseSpawnTask
<1> QED
  BY <1>1 DEF RefuseSpawnTask, Pool!Cancel, SpentNames, Tracked, trackerVars

\* A spawn that fails gives its reservation back and spends the name.
LEMMA AbortStep ==
  ASSUME IInv, InflightExact, NEW r \in Runner, Aborted(r)
  PROVE  Pool!Cancel(ClassOf[r])
<1>1. ClassOf[r] \in Class
  BY ClassAssumption
<1>2. r \in PreAdmitTasks(ClassOf[r])
  BY DEF Aborted, PreAdmitTasks, RunnersOf
<1>3. inflight[ClassOf[r]] > 0
  BY <1>1, <1>2, ReservedPositive DEF IInv
<1>4. ~Tracked(r)
  BY DEF IInv, FreshNames, Unborn, Early, Aborted
<1>5. SpentNames' = SpentNames \cup {r}
  BY <1>4 DEF IInv, TypeOK, OrchestratorTypeOK, Aborted, Go, Actor,
     SpentNames, Tracked, PreAdmit, Minting
<1> QED
  BY <1>3, <1>4, <1>5 DEF Aborted, Pool!Cancel, Tracked

\* tracker.add turns a reservation into a live runner.
LEMMA AdmitStep ==
  ASSUME IInv, InflightExact, NEW r \in Runner, Admitted(r)
  PROVE  Pool!Admit(r)
<1>1. ClassOf[r] \in Class
  BY ClassAssumption
<1>2. r \in PreAdmitTasks(ClassOf[r])
  BY DEF Admitted, PreAdmitTasks, RunnersOf
<1>3. inflight[ClassOf[r]] > 0
  BY <1>1, <1>2, ReservedPositive DEF IInv
<1>4. ~Tracked(r)
  BY DEF IInv, FreshNames, Unborn, Early, Admitted
<1>5. Live' = Live \cup {r}
  BY DEF IInv, TypeOK, TrackerTypeOK, Admitted, Live, Tracked
<1>6. r \notin SpentNames /\ SpentNames' = SpentNames
  BY <1>4 DEF IInv, TypeOK, TrackerTypeOK, OrchestratorTypeOK, Admitted, Go,
     Actor, SpentNames, Tracked, PreAdmit, Minting
<1> QED
  BY <1>3, <1>4, <1>5, <1>6 DEF Admitted, Pool!Admit, Live

\* tracker.remove retires a live runner, or does nothing.
LEMMA RemoveStep ==
  ASSUME IInv, NEW r \in Runner, Removed(r)
  PROVE  Pool!Retire(r) \/ UNCHANGED Pool!poolVars
<1>1. Live' = Live \ {r}
  BY DEF IInv, TypeOK, TrackerTypeOK, Removed, Live, Tracked
<1>2. CASE Tracked(r)
  <2>1. SpentNames' = SpentNames \cup {r}
    BY <1>2 DEF IInv, TypeOK, TrackerTypeOK, FreshNames, Unborn, Early,
       Removed, SameStage, SpentNames, Tracked
  <2> QED
    BY <1>1, <1>2, <2>1 DEF Removed, Pool!Retire, Live
<1>3. CASE ~Tracked(r)
  <2>1. UNCHANGED <<Live, SpentNames>>
    BY <1>1, <1>3 DEF IInv, TypeOK, TrackerTypeOK, Removed, SameStage, Live,
       SpentNames, Tracked
  <2> QED
    BY <2>1 DEF Removed, Pool!poolVars, Live
<1> QED
  BY <1>2, <1>3

\* A new process forgets the old pools and their names.
LEMMA BootStep ==
  ASSUME IInv, Boot
  PROVE  Pool!Reset
<1> DEFINE names == {r \in Runner : pc["task"][r] # "none"}
<1>1. SpentNames' = names
  BY DEF IInv, TypeOK, OrchestratorTypeOK, Boot, SpentNames, Tracked, Actor,
     PreAdmit, Minting
<1>2. SpentNames \subseteq names
  BY DEF SpentNames
<1>3. Live \subseteq names
  BY DEF IInv, FreshNames, Unborn, Early, Live
<1>4. SpentNames' = SpentNames \cup Live \cup names
  BY <1>1, <1>2, <1>3
<1>5. names \in SUBSET Runner
  OBVIOUS
<1>6. Live' = {}
  BY DEF Boot, Live, Tracked
<1> HIDE DEF names
<1> QED
  BY <1>4, <1>5, <1>6 DEF Boot, Pool!Reset, Live

\* Every other step leaves the pools alone.
LEMMA QuietStep ==
  ASSUME Quiet \/ \E r \in Runner : StartSpawnTask(r), TypeOK
  PROVE  UNCHANGED Pool!poolVars
<1>1. CASE Quiet
  BY <1>1 DEF Quiet, SameStage, SpentNames, Pool!poolVars
<1>2. ASSUME NEW r \in Runner, StartSpawnTask(r)
      PROVE  UNCHANGED Pool!poolVars
  <2>1. UNCHANGED <<inflight, state>>
    BY <1>2 DEF StartSpawnTask, trackerVars
  <2>2. SpentNames' = SpentNames
    BY <1>2, <2>1 DEF TypeOK, OrchestratorTypeOK, StartSpawnTask, At, Go,
       Actor, SpentNames, Tracked, PreAdmit
  <2> QED
    BY <2>1, <2>2 DEF Pool!poolVars, Tracked
<1> QED
  BY <1>1, <1>2

\* Every class's orchestrator is a bounded pool whose names are used once: the
\* handlers, tasks, reapers, restarts and crashes all step as RunnerPool does.
THEOREM PoolImplemented == Spec => PoolSafety
<1>1. IInv /\ InflightExact /\ [Next]_vars => [Pool!PoolNext]_(Pool!poolVars)
  <2> SUFFICES ASSUME IInv, InflightExact, PoolMove
               PROVE  Pool!PoolNext \/ UNCHANGED Pool!poolVars
    BY PoolMoves
  <2> USE ClassAssumption DEF IInv, Pool!PoolNext
  <2>1. ASSUME NEW c \in Class, HandleDesiredRunnerCount(c)
        PROVE  Pool!PoolNext
    BY <2>1, ReserveStep
  <2>2. ASSUME NEW c \in Class, RefuseSpawnTask(c)
        PROVE  Pool!PoolNext
    BY <2>2, RefuseStep
  <2>3. ASSUME NEW r \in Runner, Aborted(r)
        PROVE  Pool!PoolNext
    BY <2>3, AbortStep
  <2>4. ASSUME NEW r \in Runner, Admitted(r)
        PROVE  Pool!PoolNext
    BY <2>4, AdmitStep
  <2>5. ASSUME NEW r \in Runner, Removed(r)
        PROVE  Pool!PoolNext \/ UNCHANGED Pool!poolVars
    BY <2>5, RemoveStep
  <2>6. CASE Boot
    BY <2>6, BootStep
  <2>7. CASE Quiet \/ \E r \in Runner : StartSpawnTask(r)
    BY <2>7, QuietStep
  <2> QED
    BY <2>1, <2>2, <2>3, <2>4, <2>5, <2>6, <2>7 DEF PoolMove
<1> QED
  BY <1>1, PoolInitial, InvCorrect, InflightCorrect, PTL
  DEF Spec, PoolSafety, Pool!PoolSafety

----------------------------------------------------------------------------
(* The gauge of tracked instances.  The metrics only watch: what is proved *)
(* of Orchestrator holds with them, and what they show is a size that the  *)
(* tracker has had.                                                        *)

\* A process that keeps the gauge does what one without it may do, so every
\* theorem about Spec is one about MetricsSpec (SetTrackedInstances returns
\* nothing and nothing reads the gauge, orchestrator.go:471).
THEOREM MetricsOnlyWatch == MetricsSpec => Spec
<1>1. MetricsInit => Init
  BY DEF MetricsInit
<1>2. [MetricsNext]_metricsVars => [Next]_vars
  BY DEF MetricsNext, OrchestratorStep, ReadSize, SetTrackedInstances,
         metricsVars
<1> QED
  BY <1>1, <1>2, PTL DEF MetricsSpec, Spec

\* What the gauge shows, or is about to, is a size the class may have.
GaugeInCapacity ==
  /\ gauge \in [Class -> Int]
  /\ \A c \in Class : gauge[c] \in 0 .. MaxRunners[c]

SampleInCapacity ==
  /\ sample \in [Actor -> [Runner -> [at : {"none", "due", "read"}, size : Int]]]
  /\ \A a \in Actor, r \in Runner :
       sample[a][r].size \in 0 .. MaxRunners[ClassOf[r]]

\* Capacity and exact reservations bound the size of a tracker.
LEMMA SizeInCapacity ==
  ASSUME TypeOK, CapacityBound, InflightExact, NEW c \in Class
  PROVE  Size(c) \in 0 .. MaxRunners[c]
<1>1. Size(c) \in Nat /\ MaxRunners[c] \in Nat
  BY SizeType, MaxRunnersAssumption
<1>2. PreAdmitTasks(c) \in SUBSET Runner
  BY DEF PreAdmitTasks, RunnersOf
<1>3. Cardinality(PreAdmitTasks(c)) \in Nat
  BY <1>2, RunnerAssumption, FS_Subset, FS_CardinalityType
<1>4. inflight[c] \in Int /\ inflight[c] >= 0
  BY <1>3 DEF TypeOK, OrchestratorTypeOK, InflightExact
<1> QED
  BY <1>1, <1>4 DEF CapacityBound

\* Whatever order the goroutines read the size and set the gauge in, it never
\* shows more instances than max_runners, nor fewer than none.  (That it may
\* show an old size is the run Gauge.)
THEOREM GaugeBounded == MetricsSpec => []GaugeInCapacity
<1> USE ClassAssumption, MaxRunnersAssumption
    DEF GaugeInCapacity, SampleInCapacity
<1>1. MetricsInit => GaugeInCapacity /\ SampleInCapacity
  BY DEF MetricsInit, NoSample
<1>2. ASSUME TypeOK, CapacityBound, InflightExact,
             GaugeInCapacity, SampleInCapacity, [MetricsNext]_metricsVars
      PROVE  GaugeInCapacity' /\ SampleInCapacity'
  <2>1. CASE OrchestratorStep
    <3>1. CASE boots' # boots
      BY <2>1, <3>1 DEF OrchestratorStep, NoSample
    <3>2. CASE boots' = boots
      <4>1. gauge' = gauge
        BY <2>1, <3>2 DEF OrchestratorStep
      <4>2. \A a \in Actor, r \in Runner : sample'[a][r] \in {Due, sample[a][r]}
        BY <2>1, <3>2 DEF OrchestratorStep
      <4>3. sample' \in
              [Actor -> [Runner -> [at : {"none", "due", "read"}, size : Int]]]
        <5>1. sample' = [a \in Actor |-> [r \in Runner |->
                           IF Resizes(a, r) THEN Due ELSE sample[a][r]]]
          BY <2>1, <3>2 DEF OrchestratorStep
        <5>2. ASSUME NEW a \in Actor, NEW r \in Runner
              PROVE  (IF Resizes(a, r) THEN Due ELSE sample[a][r])
                       \in [at : {"none", "due", "read"}, size : Int]
          BY <1>2 DEF Due
        <5> QED
          BY <5>1, <5>2
      <4>4. Due.size \in 0 .. 0
        BY DEF Due
      <4>5. ASSUME NEW a \in Actor, NEW r \in Runner
            PROVE  sample'[a][r].size \in 0 .. MaxRunners[ClassOf[r]]
        <5>1. sample[a][r].size \in 0 .. MaxRunners[ClassOf[r]]
          BY <1>2
        <5>2. MaxRunners[ClassOf[r]] \in Nat
          OBVIOUS
        <5> QED
          BY <4>2, <4>4, <5>1, <5>2
      <4>6. GaugeInCapacity'
        BY <1>2, <4>1
      <4> QED
        BY <4>3, <4>5, <4>6
    <3> QED
      BY <3>1, <3>2
  <2>2. ASSUME NEW a \in Actor, NEW r \in Runner, ReadSize(a, r)
        PROVE  GaugeInCapacity' /\ SampleInCapacity'
    <3>1. Size(ClassOf[r]) \in 0 .. MaxRunners[ClassOf[r]]
      BY <1>2, SizeInCapacity
    <3> QED
      BY <1>2, <2>2, <3>1 DEF ReadSize
  <2>3. ASSUME NEW a \in Actor, NEW r \in Runner, SetTrackedInstances(a, r)
        PROVE  GaugeInCapacity' /\ SampleInCapacity'
    BY <1>2, <2>3 DEF SetTrackedInstances, NoSample
  <2>4. CASE UNCHANGED metricsVars
    BY <1>2, <2>4 DEF metricsVars
  <2> QED
    BY <1>2, <2>1, <2>2, <2>3, <2>4 DEF MetricsNext
<1>3. IInv => TypeOK
  BY DEF IInv
<1> QED
  BY <1>1, <1>2, <1>3, MetricsOnlyWatch, InvCorrect, CapacityCorrect,
     InflightCorrect, PTL DEF MetricsSpec
============================================================================
