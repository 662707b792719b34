------------------------- MODULE OrchestratorLeaks --------------------------
(***************************************************************************)
(* What the orchestrator may leave behind at GitHub and at Incus: at       *)
(* GitHub what a call about it has failed for, at Incus nothing as long as *)
(* the failures stay away that no code in the process could make up for.   *)
(***************************************************************************)
EXTENDS OrchestratorProofs

\* The name of a runner GitHub knows of is used once, its job ends before its
\* completion is announced, and only then does the listener tear it down: it
\* is the one actor that does not deregister.
Registered(r) ==
  /\ pc["task"][r] \in {"none", "mint", "generate"} => gh[r] = "none"
  /\ ev[r] # {} => gh[r] \in {"running", "completed"}
  /\ "completed" \in ev[r] => gh[r] = "completed"
  /\ ~At("listener", r, "none") => gh[r] = "completed"

RegistrationInv == NoRegistrationLeak /\ \A r \in Runner : Registered(r)

\* The process is not replaced by another.
ProcessStays == Faults \cap {"restart", "crash"} = {}

LEMMA RegistrationInit == Init => RegistrationInv
BY DEF Init, TrackerInit, CloudInit, RegistrationInv, Registered,
   NoRegistrationLeak, At, Actor

\* One step per action.
LEMMA RegistrationStep ==
  ASSUME IInv, RegistrationInv, ProcessStays, [Next]_vars
  PROVE  RegistrationInv'
<1> USE ClassAssumption
    DEF IInv, RegistrationInv, Registered, NoRegistrationLeak,
        ProcessStays,
        TypeOK, TrackerTypeOK, OrchestratorTypeOK, CloudTypeOK, ActorLabels,
        FreshNames, Early, Unborn, Actor, PreAdmit, Minting, Launching,
        Terminating, Teardown, Sweeping, TaskLive, At, Go, Goto, RunnersOf,
        spawnVars, runVars, trackerVars, cloudVars, ReaperUnchanged, Tracked,
        Event
<1>1. ASSUME NEW c \in Class, HandleDesiredRunnerCount(c)
      PROVE  RegistrationInv'
  BY <1>1 DEF HandleDesiredRunnerCount
<1>2. ASSUME NEW c \in Class, RefuseSpawnTask(c)
      PROVE  RegistrationInv'
  BY <1>2 DEF RefuseSpawnTask
<1>3. ASSUME NEW c \in Class, ListenerReturns(c)
      PROVE  RegistrationInv'
  BY <1>3 DEF ListenerReturns
<1>4. ASSUME NEW c \in Class, Tick(c)
      PROVE  RegistrationInv'
  BY <1>4 DEF Tick, Verdict, Names
<1>5. ASSUME NEW c \in Class, AbandonSweep(c)
      PROVE  RegistrationInv'
  BY <1>5 DEF AbandonSweep, Undispatched
<1>6. ASSUME NEW c \in Class, ReapDone(c)
      PROVE  RegistrationInv'
  BY <1>6 DEF ReapDone
<1>7. ASSUME NEW c \in Class, SweepList(c)
      PROVE  RegistrationInv'
  BY <1>7 DEF SweepList
<1>8. ASSUME NEW c \in Class, SweepListFails(c)
      PROVE  RegistrationInv'
  BY <1>8 DEF SweepListFails
<1>9. ASSUME NEW c \in Class, SweepNames(c)
      PROVE  RegistrationInv'
  BY <1>9 DEF SweepNames, Orphans, Names
<1>10. ASSUME NEW c \in Class, SweepDone(c)
      PROVE  RegistrationInv'
  BY <1>10 DEF SweepDone
<1>11. ASSUME NEW c \in Class, RunReturns(c)
      PROVE  RegistrationInv'
  BY <1>11 DEF RunReturns
<1>12. ASSUME NEW c \in Class, Join(c)
      PROVE  RegistrationInv'
  BY <1>12 DEF Join
<1>13. ASSUME NEW r \in Runner, StartSpawnTask(r)
      PROVE  RegistrationInv'
  BY <1>13 DEF StartSpawnTask
<1>14. ASSUME NEW r \in Runner, HandleJobStarted(r)
      PROVE  RegistrationInv'
  <2>1. /\ UNCHANGED <<pc, gh, unsettled>>
        /\ \A q \in Runner : ev'[q] \subseteq ev[q]
    BY <1>14 DEF HandleJobStarted, Handled, ConsumeEvent
  <2>2. \A q \in Runner : Tracked(q)' <=> Tracked(q)
    BY <1>14 DEF HandleJobStarted, MarkBusy
  <2> QED
    BY <2>1, <2>2
<1>15. ASSUME NEW r \in Runner, HandleJobCompleted(r)
      PROVE  RegistrationInv'
  <2>1. /\ UNCHANGED <<state, gh, unsettled>>
        /\ \A q \in Runner : ev'[q] \subseteq ev[q]
    BY <1>15 DEF HandleJobCompleted, Handled, ConsumeEvent
  <2>2. gh[r] = "completed"
    BY <1>15 DEF HandleJobCompleted, Handled, ConsumeEvent
  <2>3. UNCHANGED pc \/ Go("listener", r, "mark")
    BY <1>15 DEF HandleJobCompleted
  <2>4. CASE UNCHANGED pc
    BY <2>1, <2>4
  <2>5. CASE Go("listener", r, "mark")
    BY <2>1, <2>2, <2>5
  <2> QED
    BY <2>3, <2>4, <2>5
<1>16. ASSUME NEW r \in Runner, MintAcquire(r)
      PROVE  RegistrationInv'
  BY <1>16 DEF MintAcquire
<1>17. ASSUME NEW r \in Runner, MintCancelled(r)
      PROVE  RegistrationInv'
  BY <1>17 DEF MintCancelled, Cancelled
<1>18. ASSUME NEW r \in Runner, Generate(r)
      PROVE  RegistrationInv'
  BY <1>18 DEF Generate, GenerateJITConfig
<1>19. ASSUME NEW r \in Runner, GenerateFails(r)
      PROVE  RegistrationInv'
  BY <1>19 DEF GenerateFails, AbortSpawn, GenerateUnheard, Fails
<1>20. ASSUME NEW r \in Runner, FinishInflight(r)
      PROVE  RegistrationInv'
  BY <1>20 DEF FinishInflight
<1>21. ASSUME NEW r \in Runner, RenderFails(r)
      PROVE  RegistrationInv'
  BY <1>21 DEF RenderFails
<1>22. ASSUME NEW r \in Runner, Discard(r)
      PROVE  RegistrationInv'
  <2>1. CASE Cancelled("task", r)
    <3>1. /\ Go("task", r, "aborted") /\ UNCHANGED <<state, ev>>
          /\ \/ gh' = gh
             \/ gh[r] = "registered" /\ gh' = [gh EXCEPT ![r] = "removed"]
          /\ unsettled \subseteq unsettled'
          /\ gh'[r] = "registered" => r \in unsettled'
          /\ At("task", r, "discard")
      BY <1>22, <2>1 DEF Discard, AbortSpawn, RemoveRunner, Fails
    <3>2. \A a \in Actor, q \in Runner :
            pc'[a][q] = IF a = "task" /\ q = r THEN "aborted" ELSE pc[a][q]
      BY <3>1
    <3>3. NoRegistrationLeak'
      BY <3>1, <3>2
    <3>4. ASSUME NEW q \in Runner
          PROVE  Registered(q)'
      <4>1. CASE q # r
        BY <3>1, <3>2, <4>1
      <4>2. CASE q = r
        BY <3>1, <3>2, <4>2
      <4> QED
        BY <4>1, <4>2
    <3> QED
      BY <3>3, <3>4
  <2>2. CASE ~Cancelled("task", r)
    BY <1>22, <2>2 DEF Discard
  <2> QED
    BY <2>1, <2>2
<1>23. ASSUME NEW r \in Runner, Discarding(r)
      PROVE  RegistrationInv'
  BY <1>23 DEF Discarding, AbortSpawn, RemoveRunner, Fails
<1>24. ASSUME NEW r \in Runner, Admit(r)
      PROVE  RegistrationInv'
  BY <1>24 DEF Admit, Add, SetEntry
<1>25. ASSUME NEW r \in Runner, LaunchCancelled(r)
      PROVE  RegistrationInv'
  BY <1>25 DEF LaunchCancelled, Cancelled
<1>26. ASSUME NEW r \in Runner, Withdraw(r)
      PROVE  RegistrationInv'
  BY <1>26 DEF Withdraw, Remove, SetEntry
<1>27. ASSUME NEW r \in Runner, Withdrawn(r)
      PROVE  RegistrationInv'
  BY <1>27 DEF Withdrawn, RemoveRunner, Fails
<1>28. ASSUME NEW r \in Runner, LaunchAcquire(r)
      PROVE  RegistrationInv'
  BY <1>28 DEF LaunchAcquire
<1>29. ASSUME NEW r \in Runner, Create(r)
      PROVE  RegistrationInv'
  BY <1>29 DEF Create, CreateInstance, SetVM
<1>30. ASSUME NEW r \in Runner, LaunchOK(r)
      PROVE  RegistrationInv'
  BY <1>30 DEF LaunchOK
<1>31. ASSUME NEW r \in Runner, LaunchFails(r)
      PROVE  RegistrationInv'
  BY <1>31 DEF LaunchFails, Cancelled
<1>32. ASSUME NEW r \in Runner, Forget(r)
      PROVE  RegistrationInv'
  BY <1>32 DEF Forget, Remove, SetEntry
<1>33. ASSUME NEW r \in Runner, Launched(r)
      PROVE  RegistrationInv'
  BY <1>33 DEF Launched, MarkIdle
<1>34. ASSUME NEW r \in Runner, SkipFresh(r)
      PROVE  RegistrationInv'
  BY <1>34 DEF SkipFresh
<1>35. ASSUME NEW r \in Runner, DispatchReap(r)
      PROVE  RegistrationInv'
  BY <1>35 DEF DispatchReap, Undispatched
<1>36. ASSUME NEW r \in Runner, DispatchSweep(r)
      PROVE  RegistrationInv'
  BY <1>36 DEF DispatchSweep, Undispatched
<1>37. ASSUME NEW r \in Runner, SweepStop(r)
      PROVE  RegistrationInv'
  BY <1>37 DEF SweepStop, StopInstance, SetVM
<1>38. ASSUME NEW r \in Runner, SweepDelete(r)
      PROVE  RegistrationInv'
  BY <1>38 DEF SweepDelete, DeleteInstance, SetVM
<1>39. ASSUME NEW r \in Runner, CloudStep(r)
      PROVE  RegistrationInv'
  BY <1>39 DEF CloudStep, ProcessUnchanged, InstanceStarts, CreateFails,
     StopCompletes, EphemeralCleanup, PowerOff, AssignJob, FinishJob,
     ConsumeEvent, SetVM
<1>40. ASSUME NEW r \in Runner, TimerExpires(r)
      PROVE  RegistrationInv'
  BY <1>40 DEF TimerExpires, Expire
<1>41. ASSUME NEW a \in Actor, NEW r \in Runner, TermMark(a, r)
      PROVE  RegistrationInv'
  BY <1>41 DEF TermMark, AfterTerminate, MarkForTermination
<1>42. ASSUME NEW a \in Actor, NEW r \in Runner, TermRemove(a, r)
      PROVE  RegistrationInv'
  BY <1>42 DEF TermRemove, Remove, SetEntry
<1>43. ASSUME NEW a \in Actor, NEW r \in Runner, TermStop(a, r)
      PROVE  RegistrationInv'
  BY <1>43 DEF TermStop, StopInstance, SetVM, TeardownMayFail, Cancelled
<1>44. ASSUME NEW a \in Actor, NEW r \in Runner, TermDelete(a, r)
      PROVE  RegistrationInv'
  BY <1>44 DEF TermDelete, AfterTerminate, DeleteInstance, SetVM,
     TeardownMayFail, Cancelled
<1>45. ASSUME NEW a \in Actor, NEW r \in Runner, Deregister(a, r)
      PROVE  RegistrationInv'
  BY <1>45 DEF Deregister, ActorReturns, RemoveRunner, Fails
<1>46. ASSUME NEW a \in Actor, NEW r \in Runner, Deregistering(a, r)
      PROVE  RegistrationInv'
  BY <1>46 DEF Deregistering, ActorReturns, RemoveRunner, Fails
<1>47. ASSUME Signal
      PROVE  RegistrationInv'
  BY <1>47 DEF Signal
<1>48. ASSUME Restart
      PROVE  RegistrationInv'
  BY <1>48 DEF Restart
<1>49. ASSUME Crash
      PROVE  RegistrationInv'
  BY <1>49 DEF Crash
<1>50. CASE UNCHANGED vars
  BY <1>50 DEF vars
<1> HIDE DEF IInv, RegistrationInv, ProcessStays
<1> QED
  BY <1>1, <1>2, <1>3, <1>4, <1>5, <1>6, <1>7, <1>8, <1>9, <1>10, <1>11,
     <1>12, <1>13, <1>14, <1>15, <1>16, <1>17, <1>18, <1>19, <1>20, <1>21,
     <1>22, <1>23, <1>24, <1>25, <1>26, <1>27, <1>28, <1>29, <1>30, <1>31,
     <1>32, <1>33, <1>34, <1>35, <1>36, <1>37, <1>38, <1>39, <1>40, <1>41,
     <1>42, <1>43, <1>44, <1>45, <1>46, <1>47, <1>48, <1>49, <1>50
  DEF Next, ListenerStep, ReaperStep, SpawnStep, LaunchStep, WorkerStep,
      TerminateStep, RunnersOf

\* Every runner that GitHub may still give a job to is tracked or has an actor
\* on its way to RemoveRunner, unless a call about that very runner failed:
\* no failed render, launch, list or teardown and no timeout leaves a
\* registration behind, and a shutdown only one about which a call is under
\* way (spawnIdleRunner, launch, terminateInstance, removeRunnerByID).
THEOREM RegistrationsCorrect ==
  ASSUME ProcessStays
  PROVE  Spec => []NoRegistrationLeak
<1>1. IInv /\ RegistrationInv /\ [Next]_vars => RegistrationInv'
  BY RegistrationStep
<1>2. RegistrationInv => NoRegistrationLeak
  BY DEF RegistrationInv
<1> QED
  BY RegistrationInit, <1>1, <1>2, InvCorrect, PTL DEF Spec

----------------------------------------------------------------------------

\* An instance is created for a launching entry, which nobody removes before
\* its launch has ended; a job starts on an instance that runs; whoever has
\* removed an entry stops the instance before deleting it.
Placed(r) ==
  /\ pc["task"][r] \in Early =>
       plan[r] = "none" /\ At("worker", r, "none") /\ At("listener", r, "none")
  /\ pc["task"][r] \in {"acquire", "create"} =>
       vm[r] = "none" /\ state[r] = "launching"
  /\ pc["task"][r] \notin {"withdraw", "withdrawn"}
  /\ At("task", r, "forget") => vm[r] \in {"none", "gone"}
  /\ vm[r] = "creating" => At("task", r, "wait") /\ state[r] = "launching"
  /\ ev[r] # {} \/ gh[r] \in {"running", "completed"} =>
       vm[r] \notin {"none", "creating"}
  /\ \A a \in Actor :
       /\ At(a, r, "remove") => state[r] # "launching"
       /\ pc[a][r] \in {"stop", "delete"} => ~Tracked(r)
       /\ At(a, r, "delete") => vm[r] \in {"none", "stopped", "gone"}

PlacementInv ==
  /\ ~ctxDone /\ \A c \in Class : ~shuttingDown[c]
  /\ InstanceAccounted
  /\ \A r \in Runner : Placed(r)

\* Incus does what it is asked to, and the process runs on.
CallsToIncusSucceed ==
  Faults \cap {"launch", "teardown", "stop", "restart", "crash"} = {}

LEMMA PlacementInit == Init => PlacementInv
BY DEF Init, TrackerInit, CloudInit, PlacementInv, Placed, InstanceAccounted,
   InstanceExists, At, Actor, Early, PreAdmit, Tracked

\* One step per action.
LEMMA PlacementStep ==
  ASSUME IInv, PlacementInv, CallsToIncusSucceed, [Next]_vars
  PROVE  PlacementInv'
<1> USE ClassAssumption
    DEF IInv, PlacementInv, Placed, InstanceAccounted, InstanceExists,
        CallsToIncusSucceed,
        TypeOK, TrackerTypeOK, OrchestratorTypeOK, CloudTypeOK, ActorLabels,
        FreshNames, Early, Unborn, Actor, PreAdmit, Minting, Launching,
        Terminating, Teardown, Sweeping, TaskLive, At, Go, Goto, RunnersOf,
        spawnVars, runVars, trackerVars, cloudVars, ReaperUnchanged, Tracked,
        Event
<1>1. ASSUME NEW c \in Class, HandleDesiredRunnerCount(c)
      PROVE  PlacementInv'
  BY <1>1 DEF HandleDesiredRunnerCount
<1>2. ASSUME NEW c \in Class, RefuseSpawnTask(c)
      PROVE  PlacementInv'
  BY <1>2 DEF RefuseSpawnTask
<1>3. ASSUME NEW c \in Class, ListenerReturns(c)
      PROVE  PlacementInv'
  BY <1>3 DEF ListenerReturns
<1>4. ASSUME NEW c \in Class, Tick(c)
      PROVE  PlacementInv'
  BY <1>4 DEF Tick, Verdict, Names
<1>5. ASSUME NEW c \in Class, AbandonSweep(c)
      PROVE  PlacementInv'
  BY <1>5 DEF AbandonSweep, Undispatched
<1>6. ASSUME NEW c \in Class, ReapDone(c)
      PROVE  PlacementInv'
  BY <1>6 DEF ReapDone
<1>7. ASSUME NEW c \in Class, SweepList(c)
      PROVE  PlacementInv'
  BY <1>7 DEF SweepList
<1>8. ASSUME NEW c \in Class, SweepListFails(c)
      PROVE  PlacementInv'
  BY <1>8 DEF SweepListFails
<1>9. ASSUME NEW c \in Class, SweepNames(c)
      PROVE  PlacementInv'
  BY <1>9 DEF SweepNames, Orphans, Names
<1>10. ASSUME NEW c \in Class, SweepDone(c)
      PROVE  PlacementInv'
  BY <1>10 DEF SweepDone
<1>11. ASSUME NEW c \in Class, RunReturns(c)
      PROVE  PlacementInv'
  BY <1>11 DEF RunReturns
<1>12. ASSUME NEW c \in Class, Join(c)
      PROVE  PlacementInv'
  BY <1>12 DEF Join
<1>13. ASSUME NEW r \in Runner, StartSpawnTask(r)
      PROVE  PlacementInv'
  BY <1>13 DEF StartSpawnTask
<1>14. ASSUME NEW r \in Runner, HandleJobStarted(r)
      PROVE  PlacementInv'
  BY <1>14 DEF HandleJobStarted, Handled, ConsumeEvent, MarkBusy
<1>15. ASSUME NEW r \in Runner, HandleJobCompleted(r)
      PROVE  PlacementInv'
  <2>1. /\ UNCHANGED <<trackerVars, runVars, vm, gh>>
        /\ \A q \in Runner : ev'[q] \subseteq ev[q]
        /\ At("listener", r, "none")
    BY <1>15 DEF HandleJobCompleted, Handled, ConsumeEvent, ListenerFree
  <2>2. \/ Tracked(r) /\ Go("listener", r, "mark")
        \/ UNCHANGED pc
    BY <1>15 DEF HandleJobCompleted
  <2>3. CASE UNCHANGED pc
    BY <2>1, <2>3
  <2>4. CASE Tracked(r) /\ Go("listener", r, "mark")
    <3>1. \A a \in Actor, q \in Runner :
            pc'[a][q] = IF a = "listener" /\ q = r THEN "mark" ELSE pc[a][q]
      BY <2>4
    <3>2. InstanceAccounted'
      BY <2>1, <2>4, <3>1
    <3>3. ASSUME NEW q \in Runner
          PROVE  Placed(q)'
      <4>1. CASE q # r
        BY <2>1, <3>1, <4>1
      <4>2. CASE q = r
        BY <2>1, <2>4, <3>1, <4>2
      <4> QED
        BY <4>1, <4>2
    <3> QED
      BY <2>1, <3>2, <3>3
  <2> QED
    BY <2>2, <2>3, <2>4
<1>16. ASSUME NEW r \in Runner, MintAcquire(r)
      PROVE  PlacementInv'
  BY <1>16 DEF MintAcquire
<1>17. ASSUME NEW r \in Runner, MintCancelled(r)
      PROVE  PlacementInv'
  BY <1>17 DEF MintCancelled, Cancelled
<1>18. ASSUME NEW r \in Runner, Generate(r)
      PROVE  PlacementInv'
  BY <1>18 DEF Generate, GenerateJITConfig
<1>19. ASSUME NEW r \in Runner, GenerateFails(r)
      PROVE  PlacementInv'
  BY <1>19 DEF GenerateFails, AbortSpawn, GenerateUnheard, Fails
<1>20. ASSUME NEW r \in Runner, FinishInflight(r)
      PROVE  PlacementInv'
  BY <1>20 DEF FinishInflight
<1>21. ASSUME NEW r \in Runner, RenderFails(r)
      PROVE  PlacementInv'
  BY <1>21 DEF RenderFails
<1>22. ASSUME NEW r \in Runner, Discard(r)
      PROVE  PlacementInv'
  <2>1. ~Cancelled("task", r)
    BY DEF Cancelled
  <2>2. Go("task", r, "discarding") /\ UNCHANGED <<trackerVars, cloudVars, runVars>>
    BY <1>22, <2>1 DEF Discard
  <2> QED
    BY <1>22, <2>2 DEF Discard
<1>23. ASSUME NEW r \in Runner, Discarding(r)
      PROVE  PlacementInv'
  BY <1>23 DEF Discarding, AbortSpawn, RemoveRunner, Fails
<1>24. ASSUME NEW r \in Runner, Admit(r)
      PROVE  PlacementInv'
  BY <1>24 DEF Admit, Add, SetEntry
<1>25. ASSUME NEW r \in Runner, LaunchCancelled(r)
      PROVE  PlacementInv'
  BY <1>25 DEF LaunchCancelled, Cancelled
<1>26. ASSUME NEW r \in Runner, Withdraw(r)
      PROVE  PlacementInv'
  BY <1>26 DEF Withdraw, Remove, SetEntry
<1>27. ASSUME NEW r \in Runner, Withdrawn(r)
      PROVE  PlacementInv'
  BY <1>27 DEF Withdrawn, RemoveRunner, Fails
<1>28. ASSUME NEW r \in Runner, LaunchAcquire(r)
      PROVE  PlacementInv'
  BY <1>28 DEF LaunchAcquire
<1>29. ASSUME NEW r \in Runner, Create(r)
      PROVE  PlacementInv'
  BY <1>29 DEF Create, CreateInstance, SetVM
<1>30. ASSUME NEW r \in Runner, LaunchOK(r)
      PROVE  PlacementInv'
  BY <1>30 DEF LaunchOK
<1>31. ASSUME NEW r \in Runner, LaunchFails(r)
      PROVE  PlacementInv'
  BY <1>31 DEF LaunchFails, Cancelled
<1>32. ASSUME NEW r \in Runner, Forget(r)
      PROVE  PlacementInv'
  BY <1>32 DEF Forget, Remove, SetEntry
<1>33. ASSUME NEW r \in Runner, Launched(r)
      PROVE  PlacementInv'
  <2>1. /\ UNCHANGED <<cloudVars, runVars>>
        /\ At("task", r, "launched")
        /\ state' = [state EXCEPT ![r] = IF @ = "launching" THEN "idle" ELSE @]
    BY <1>33 DEF Launched, MarkIdle
  <2>2. PICK l \in {"mark", "done"} : Go("task", r, l)
    BY <1>33 DEF Launched
  <2>3. \A a \in Actor, q \in Runner :
          pc'[a][q] = IF a = "task" /\ q = r THEN l ELSE pc[a][q]
    BY <2>2
  <2>4. InstanceAccounted'
    BY <2>1, <2>2, <2>3
  <2>5. ASSUME NEW q \in Runner
        PROVE  Placed(q)'
    <3>1. CASE q # r
      BY <2>1, <2>3, <3>1
    <3>2. CASE q = r
      BY <2>1, <2>2, <2>3, <3>2
    <3> QED
      BY <3>1, <3>2
  <2> QED
    BY <2>1, <2>4, <2>5
<1>34. ASSUME NEW r \in Runner, SkipFresh(r)
      PROVE  PlacementInv'
  BY <1>34 DEF SkipFresh
<1>35. ASSUME NEW r \in Runner, DispatchReap(r)
      PROVE  PlacementInv'
  BY <1>35 DEF DispatchReap, Undispatched
<1>36. ASSUME NEW r \in Runner, DispatchSweep(r)
      PROVE  PlacementInv'
  BY <1>36 DEF DispatchSweep, Undispatched
<1>37. ASSUME NEW r \in Runner, SweepStop(r)
      PROVE  PlacementInv'
  BY <1>37 DEF SweepStop, StopInstance, SetVM
<1>38. ASSUME NEW r \in Runner, SweepDelete(r)
      PROVE  PlacementInv'
  BY <1>38 DEF SweepDelete, DeleteInstance, SetVM
<1>39. ASSUME NEW r \in Runner, CloudStep(r)
      PROVE  PlacementInv'
  <2>1. ProcessUnchanged
    BY <1>39 DEF CloudStep
  <2> USE <2>1 DEF ProcessUnchanged
  <2>2. CASE InstanceStarts(r) \/ StopCompletes(r)
    BY <2>2 DEF InstanceStarts, StopCompletes, SetVM
  <2>3. CASE EphemeralCleanup(r) \/ PowerOff(r)
    <3>1. CASE EphemeralCleanup(r)
      BY <3>1 DEF EphemeralCleanup, SetVM
    <3>2. CASE PowerOff(r)
      BY <3>2 DEF PowerOff, SetVM
    <3> QED
      BY <2>3, <3>1, <3>2
  <2>4. CASE AssignJob(r)
    BY <2>4 DEF AssignJob
  <2>5. CASE FinishJob(r)
    BY <2>5 DEF FinishJob
  <2>6. CASE \E e \in Event : ConsumeEvent(r, e)
    BY <2>6 DEF ConsumeEvent
  <2>7. ~("launch" \in Faults)
    OBVIOUS
  <2> QED
    BY <1>39, <2>2, <2>3, <2>4, <2>5, <2>6, <2>7 DEF CloudStep
<1>40. ASSUME NEW r \in Runner, TimerExpires(r)
      PROVE  PlacementInv'
  BY <1>40 DEF TimerExpires, Expire
<1>41. ASSUME NEW a \in Actor, NEW r \in Runner, TermMark(a, r)
      PROVE  PlacementInv'
  BY <1>41 DEF TermMark, AfterTerminate, MarkForTermination
<1>42. ASSUME NEW a \in Actor, NEW r \in Runner, TermRemove(a, r)
      PROVE  PlacementInv'
  BY <1>42 DEF TermRemove, Remove, SetEntry
<1>43. ASSUME NEW a \in Actor, NEW r \in Runner, TermStop(a, r)
      PROVE  PlacementInv'
  <2>1. ~TeardownMayFail(a, r)
    BY DEF TeardownMayFail, Cancelled
  <2>2. vm[r] # "creating"
    BY <1>43 DEF TermStop
  <2>3. /\ vm' = [vm EXCEPT ![r] = IF @ \in {"running", "stopping"}
                                  THEN "stopped" ELSE @]
        /\ UNCHANGED <<gh, ev>>
    BY <1>43, <2>1 DEF TermStop, StopInstance, SetVM
  <2>4. /\ At(a, r, "stop") /\ Go(a, r, "delete")
        /\ UNCHANGED <<trackerVars, runVars>>
    BY <1>43 DEF TermStop
  <2>5. InstanceAccounted'
    BY <2>3, <2>4
  <2>6. ASSUME NEW q \in Runner
        PROVE  Placed(q)'
    <3>1. CASE q # r
      BY <2>3, <2>4, <3>1
    <3>2. CASE q = r
      <4>1. \A b \in Actor : pc'[b][r] = IF b = a THEN "delete" ELSE pc[b][r]
        BY <2>4
      <4>2. vm'[r] = IF vm[r] \in {"running", "stopping"} THEN "stopped" ELSE vm[r]
        BY <2>3
      <4>3. ~Tracked(r) /\ vm'[r] \in {"none", "stopped", "gone"}
        BY <2>2, <2>4, <4>2 DEF VMState
      <4> QED
        BY <2>2, <2>3, <2>4, <3>2, <4>1, <4>2, <4>3
    <3> QED
      BY <3>1, <3>2
  <2>7. ~ctxDone' /\ \A c \in Class : ~shuttingDown'[c]
    BY <2>4
  <2> QED
    BY <2>5, <2>6, <2>7
<1>44. ASSUME NEW a \in Actor, NEW r \in Runner, TermDelete(a, r)
      PROVE  PlacementInv'
  BY <1>44 DEF TermDelete, AfterTerminate, DeleteInstance, SetVM,
     TeardownMayFail, Cancelled
<1>45. ASSUME NEW a \in Actor, NEW r \in Runner, Deregister(a, r)
      PROVE  PlacementInv'
  <2>1. ~Cancelled(a, r)
    BY DEF Cancelled
  <2>2. /\ Go(a, r, "deregistering")
        /\ UNCHANGED <<trackerVars, cloudVars, runVars>>
    BY <1>45, <2>1 DEF Deregister
  <2> QED
    BY <1>45, <2>2 DEF Deregister
<1>46. ASSUME NEW a \in Actor, NEW r \in Runner, Deregistering(a, r)
      PROVE  PlacementInv'
  BY <1>46 DEF Deregistering, ActorReturns, RemoveRunner, Fails
<1>47. ASSUME Signal
      PROVE  PlacementInv'
  BY <1>47 DEF Signal
<1>48. ASSUME Restart
      PROVE  PlacementInv'
  BY <1>48 DEF Restart
<1>49. ASSUME Crash
      PROVE  PlacementInv'
  BY <1>49 DEF Crash
<1>50. CASE UNCHANGED vars
  BY <1>50 DEF vars
<1> HIDE DEF IInv, PlacementInv, CallsToIncusSucceed
<1> QED
  BY <1>1, <1>2, <1>3, <1>4, <1>5, <1>6, <1>7, <1>8, <1>9, <1>10, <1>11,
     <1>12, <1>13, <1>14, <1>15, <1>16, <1>17, <1>18, <1>19, <1>20, <1>21,
     <1>22, <1>23, <1>24, <1>25, <1>26, <1>27, <1>28, <1>29, <1>30, <1>31,
     <1>32, <1>33, <1>34, <1>35, <1>36, <1>37, <1>38, <1>39, <1>40, <1>41,
     <1>42, <1>43, <1>44, <1>45, <1>46, <1>47, <1>48, <1>49, <1>50
  DEF Next, ListenerStep, ReaperStep, SpawnStep, LaunchStep, WorkerStep,
      TerminateStep, RunnersOf

\* An instance without an entry is about to be stopped and deleted, whatever
\* happens at GitHub: failed or lost mints, lost and repeated messages, and
\* any order of JobStarted, JobCompleted, timeouts and a launch in flight.
THEOREM InstancesCorrect ==
  ASSUME CallsToIncusSucceed
  PROVE  Spec => []InstanceAccounted
<1>1. IInv /\ PlacementInv /\ [Next]_vars => PlacementInv'
  BY PlacementStep
<1>2. PlacementInv => InstanceAccounted
  BY DEF PlacementInv
<1> QED
  BY PlacementInit, <1>1, <1>2, InvCorrect, PTL DEF Spec
=============================================================================
