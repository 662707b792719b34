---------------------------- MODULE ClientProofs ----------------------------
(***************************************************************************)
(* The Incus client keeps the contract of InstancePort, for any number of  *)
(* callers that stop and delete the instance.                              *)
(***************************************************************************)
EXTENDS IncusClient, TLAPS

\* Where call k is, what the daemon has answered and what its operation does
\* fit together.
CallInv(k) ==
  /\ op[k] = "committed" => k \in Stops /\ Returned(k)
  /\ k \in Stops /\ Returned(k) => op[k] \in {"none", "committed"}
  /\ k # Launch /\ op[k] # "none" => inst \notin {"none", "creating"}
  /\ pc[k] \in {"idle", "alias"} => op[k] = "none" /\ ans[k] = "none"
  /\ At(k, "post") /\ ans[k] # "accepted" => op[k] = "none"
  /\ At(k, "wait") => ans[k] = "none"
  /\ At(k, "get") => k = Launch /\ op[k] = "none" /\ ans[k] # "accepted"
  /\ ans[k] = "found" => At(k, "get")
  /\ Returned(k) => ans[k] = "none"

ClientInv ==
  /\ ClientTypeOK
  /\ op[Launch] = "running" <=> inst = "creating"
  /\ op[Launch] # "none" => inst # "none"
  /\ \A k \in Call : CallInv(k)

\* What the proofs need to know about the calls' names.
LEMMA Calls ==
  /\ Launch \in Call /\ Launch \notin Stops /\ Launch \notin Deletes
  /\ \A t \in Terminator : StopOf(t) \in Stops /\ DeleteOf(t) \in Deletes
  /\ Stops \subseteq Call /\ Deletes \subseteq Call
  /\ \A k \in Stops : k \notin Deletes
  /\ \A k \in Call : k = Launch \/ k \in Stops \/ k \in Deletes
BY DEF Call, Launches, Stops, Deletes, Launch, StopOf, DeleteOf

LEMMA ClientInvInit == ClientInit => ClientInv
BY Calls DEF ClientInit, ClientInv, ClientTypeOK, CallInv, Unfinished, At,
   Returned

\* One step per action.
LEMMA ClientInvStep ==
  ASSUME ClientInv, [ClientNext]_clientVars
  PROVE  ClientInv'
<1> USE Calls DEF ClientInv, ClientTypeOK, CallInv, Unfinished, At, Go, Returned
<1>1. CASE CallLaunch
  BY <1>1 DEF CallLaunch
<1>2. CASE ResolveAlias
  BY <1>2 DEF ResolveAlias
<1>3. CASE ReceiveInstance
  BY <1>3 DEF ReceiveInstance
<1>4. ASSUME NEW t \in Terminator, CallStop(t) \/ CallDelete(t)
      PROVE  ClientInv'
  BY <1>4 DEF CallStop, CallDelete
<1>5. ASSUME NEW k \in Call, ReceiveAnswer(k)
      PROVE  ClientInv'
  BY <1>5 DEF ReceiveAnswer
<1>6. ASSUME NEW k \in Call, WaitReturns(k)
      PROVE  ClientInv'
  BY <1>6 DEF WaitReturns
<1>7. ASSUME NEW k \in Call, TimesOut(k) \/ Cancelled(k)
      PROVE  ClientInv'
  <2>1. Abandon(k) /\ ~Returned(k)
    BY <1>7 DEF TimesOut, Cancelled
  <2> QED
    BY <2>1 DEF Abandon
<1>8. CASE Shutdown
  BY <1>8 DEF Shutdown
<1>9. CASE AnswerGet
  BY <1>9 DEF AnswerGet
<1>10. CASE RunLaunch
  BY <1>10 DEF RunLaunch, Operate
<1>11. CASE PowerOff \/ EphemeralCleanup
  BY <1>11 DEF PowerOff, EphemeralCleanup
<1>12. ASSUME NEW k \in Call, AnswerPost(k)
      PROVE  ClientInv'
  BY <1>12 DEF AnswerPost
<1>13. ASSUME NEW t \in Terminator, RunStop(t)
      PROVE  ClientInv'
  BY <1>13 DEF RunStop, Operate
<1>14. ASSUME NEW t \in Terminator, RunDelete(t)
      PROVE  ClientInv'
  BY <1>14 DEF RunDelete, Operate
<1>15. CASE UNCHANGED clientVars
  BY <1>15 DEF clientVars
<1> QED
  BY <1>1, <1>2, <1>3, <1>4, <1>5, <1>6, <1>7, <1>8, <1>9, <1>10, <1>11,
     <1>12, <1>13, <1>14, <1>15 DEF ClientNext

----------------------------------------------------------------------------
(* Refinement: what every step looks like through the mapping.             *)

VM == IF Stopping THEN "stopping" ELSE inst

\* The step moves no call, or call k only, from one phase to another.
NoMove == \A j \in Call : Phase(j)' = Phase(j)
Moves(k, from, to) ==
  /\ Phase(k) = from /\ Phase(k)' = to
  /\ \A j \in Call \ {k} : Phase(j)' = Phase(j)

\* A step is one of the contract's, or changes nothing it talks about.
Implemented == Port!PortNext \/ (NoMove /\ VM' = VM)

LEMMA MoveIsAdvance ==
  ASSUME NEW k \in Call, NEW from, NEW to, Moves(k, from, to)
  PROVE  Port!Advance(k, from, to)
BY DEF Moves, Port!Advance

LEMMA NoMoveKeepsCall ==
  ASSUME NoMove
  PROVE  UNCHANGED [k \in Call |-> Phase(k)]
BY DEF NoMove

LEMMA VMIsSet ==
  ASSUME NEW s, VM' = s
  PROVE  Port!SetVM("name", s)
BY DEF VM, Port!SetVM, Only

LEMMA VMKept ==
  ASSUME VM' = VM
  PROVE  UNCHANGED Port!cloudVars
BY DEF VM, Port!cloudVars, Only

\* The contract's steps, one by one.
LEMMA PortSteps ==
  ASSUME NEW k \in Call
  PROVE
  /\ Moves(k, "idle", "called") /\ VM' = VM => Implemented
  /\ Moves(k, "effective", "nil") /\ VM' = VM => Implemented
  /\ \A from \in {"called", "accepted", "effective"} :
       Moves(k, from, "error") /\ VM' = VM => Implemented
  /\ /\ k \in Stops /\ Moves(k, "called", "error")
     /\ VM = "running" /\ VM' = "stopping"
     => Implemented
  /\ /\ k \in Launches /\ Moves(k, "called", "accepted")
     /\ VM = "none" /\ VM' = "creating"
     => Implemented
  /\ /\ k \in Launches /\ Moves(k, "accepted", "effective")
     /\ VM \in {"running", "stopping", "stopped"} /\ VM' = VM
     => Implemented
  /\ /\ k \in Stops /\ Moves(k, "called", "effective")
     /\ VM # "creating"
     /\ VM' = IF VM \in {"running", "stopping"} THEN "stopped" ELSE VM
     => Implemented
  /\ /\ k \in Deletes /\ Moves(k, "called", "effective")
     /\ VM \in {"none", "stopped", "gone"}
     /\ VM' = IF VM = "stopped" THEN "gone" ELSE VM
     => Implemented
<1> USE MoveIsAdvance, VMIsSet, VMKept
<1>0. \/ Port!Begin(k) \/ Port!ReturnNil(k) \/ Port!Fail(k) \/ Port!Accept(k)
      \/ Port!LaunchTakesEffect(k)
      \/ Port!StopTakesEffect(k) \/ Port!DeleteTakesEffect(k)
      => Implemented
  BY DEF Implemented, Port!PortNext, Port!Call, Call
<1>1. Moves(k, "idle", "called") /\ VM' = VM => Port!Begin(k)
  BY DEF Port!Begin
<1>2. Moves(k, "effective", "nil") /\ VM' = VM => Port!ReturnNil(k)
  BY DEF Port!ReturnNil
<1>3. ASSUME NEW from \in {"called", "accepted", "effective"},
             Moves(k, from, "error"), VM' = VM
      PROVE  Port!Fail(k)
  BY <1>3 DEF Port!Fail
<1>4. ASSUME k \in Stops, Moves(k, "called", "error"),
             VM = "running", VM' = "stopping"
      PROVE  Port!Fail(k)
  <2>1. Port!StopInstance("name", TRUE)
    BY <1>4 DEF Port!StopInstance, VM, Only
  <2> QED
    BY <1>4, <2>1 DEF Port!Fail
<1>5. ASSUME k \in Launches, Moves(k, "called", "accepted"),
             VM = "none", VM' = "creating"
      PROVE  Port!Accept(k)
  BY <1>5 DEF Port!Accept, Port!CreateInstance, VM, Only
<1>6. ASSUME k \in Launches, Moves(k, "accepted", "effective"),
             VM \in {"running", "stopping", "stopped"}, VM' = VM
      PROVE  Port!LaunchTakesEffect(k)
  BY <1>6 DEF Port!LaunchTakesEffect, VM, Only
<1>7. ASSUME k \in Stops, Moves(k, "called", "effective"), VM # "creating",
             VM' = IF VM \in {"running", "stopping"} THEN "stopped" ELSE VM
      PROVE  Port!StopTakesEffect(k)
  <2>1. Port!StopInstance("name", FALSE)
    BY <1>7 DEF Port!StopInstance, VM, Only
  <2> QED
    BY <1>7, <2>1 DEF Port!StopTakesEffect, VM, Only
<1>8. ASSUME k \in Deletes, Moves(k, "called", "effective"),
             VM \in {"none", "stopped", "gone"},
             VM' = IF VM = "stopped" THEN "gone" ELSE VM
      PROVE  Port!DeleteTakesEffect(k)
  <2>1. Port!DeleteInstance("name", FALSE)
    BY <1>8 DEF Port!DeleteInstance, VM, Only
  <2> QED
    BY <1>8, <2>1 DEF Port!DeleteTakesEffect, VM, Only
<1> QED
  BY <1>0, <1>1, <1>2, <1>3, <1>4, <1>5, <1>6, <1>7, <1>8

\* The daemon's own steps.
LEMMA PortDaemon ==
  ASSUME NoMove,
         \/ VM = "creating" /\ VM' \in {"running", "gone"}
         \/ VM \in {"running", "stopping"} /\ VM' = "stopped"
         \/ VM = "stopped" /\ VM' = "gone"
  PROVE  Implemented
<1>1. Port!Daemon
  BY NoMoveKeepsCall, VMIsSet
  DEF Port!Daemon, Port!InstanceStarts, Port!CreateFails, Port!StopCompletes,
      Port!PowerOff, Port!EphemeralCleanup, VM, Only
<1> QED
  BY <1>1 DEF Implemented, Port!PortNext

\* A call's phase depends on nothing that belongs to another call.
LEMMA OwnPhase ==
  ASSUME NEW k \in Call,
         pc'[k] = pc[k], op'[k] = op[k], ans'[k] = ans[k]
  PROVE  Phase(k)' = Phase(k)
BY DEF Phase, Effective, At, Returned

\* The calls' steps.
LEMMA CallSteps ==
  ASSUME ClientInv, NEW k \in Call,
         \/ k = Launch /\ (CallLaunch \/ ResolveAlias \/ ReceiveInstance)
         \/ \E t \in Terminator : k = StopOf(t) /\ CallStop(t)
         \/ \E t \in Terminator : k = DeleteOf(t) /\ CallDelete(t)
         \/ ReceiveAnswer(k) \/ WaitReturns(k)
  PROVE  Implemented
<1> USE Calls, PortSteps
    DEF ClientInv, ClientTypeOK, CallInv, Unfinished, At, Go, Returned
<1>0. ASSUME \A j \in Call \ {k} :
               pc'[j] = pc[j] /\ op'[j] = op[j] /\ ans'[j] = ans[j]
      PROVE  \A j \in Call \ {k} : Phase(j)' = Phase(j)
  BY <1>0, OwnPhase
<1>1. CASE k = Launch /\ CallLaunch
  <2>1. Moves(k, "idle", "called") /\ VM' = VM
    BY <1>0, <1>1 DEF CallLaunch, Moves, VM, Stopping, Phase, Effective
  <2> QED
    BY <2>1
<1>2. CASE k = Launch /\ ResolveAlias
  <2>1. CASE pc' = [pc EXCEPT ![Launch] = "post"]
    BY <1>0, <1>2, <2>1 DEF ResolveAlias, NoMove, VM, Stopping, Phase,
       Effective, Implemented
  <2>2. CASE pc' = [pc EXCEPT ![Launch] = "error"]
    <3>1. Moves(k, "called", "error") /\ VM' = VM
      BY <1>0, <1>2, <2>2 DEF ResolveAlias, Moves, VM, Stopping, Phase,
         Effective
    <3> QED
      BY <3>1
  <2> QED
    BY <1>2, <2>1, <2>2 DEF ResolveAlias
<1>3. CASE k = Launch /\ ReceiveInstance
  <2>1. VM' = VM
    BY <1>3 DEF ReceiveInstance, VM, Stopping
  <2>2. Moves(k, IF ans[k] = "found" THEN "effective" ELSE "accepted",
                 IF ans[k] = "found" THEN "nil" ELSE "error")
    BY <1>0, <1>3 DEF ReceiveInstance, Moves, Phase, Effective
  <2> QED
    BY <2>1, <2>2
<1>4. ASSUME NEW t \in Terminator,
             \/ k = StopOf(t) /\ CallStop(t)
             \/ k = DeleteOf(t) /\ CallDelete(t)
      PROVE  Implemented
  <2>1. Moves(k, "idle", "called") /\ VM' = VM
    BY <1>0, <1>4 DEF CallStop, CallDelete, Moves, VM, Stopping, Phase,
       Effective
  <2> QED
    BY <2>1
<1>5. CASE ReceiveAnswer(k)
  <2>1. VM' = VM
    BY <1>5 DEF ReceiveAnswer, VM, Stopping
  <2>2. CASE ans[k] = "accepted"
    <3>1. NoMove
      BY <1>0, <1>5, <2>2 DEF ReceiveAnswer, NoMove, Phase, Effective
    <3> QED
      BY <2>1, <3>1 DEF Implemented
  <2>3. CASE ans[k] = "notFound" /\ k # Launch
    <3>1. Moves(k, "effective", "nil")
      BY <1>0, <1>5, <2>3 DEF ReceiveAnswer, Moves, Phase, Effective
    <3> QED
      BY <2>1, <3>1
  <2>4. CASE ans[k] # "accepted" /\ ~(ans[k] = "notFound" /\ k # Launch)
    <3>1. Moves(k, "called", "error")
      BY <1>0, <1>5, <2>4 DEF ReceiveAnswer, Moves, Phase, Effective
    <3> QED
      BY <2>1, <3>1
  <2> QED
    BY <2>2, <2>3, <2>4
<1>6. CASE WaitReturns(k)
  <2>1. VM' = VM
    BY <1>6 DEF WaitReturns, VM, Stopping
  <2>2. CASE k = Launch /\ op[k] = "success"
    <3>1. NoMove
      BY <1>0, <1>6, <2>2 DEF WaitReturns, NoMove, Phase, Effective
    <3> QED
      BY <2>1, <3>1 DEF Implemented
  <2>3. CASE \/ k \in Stops /\ op[k] \in {"success", "alreadyStopped"}
             \/ k \in Deletes /\ op[k] = "success"
    <3>1. Moves(k, "effective", "nil")
      BY <1>0, <1>6, <2>3 DEF WaitReturns, Moves, Phase, Effective
    <3> QED
      BY <2>1, <3>1
  <2>4. CASE /\ ~(k = Launch /\ op[k] = "success")
             /\ ~(k \in Stops /\ op[k] \in {"success", "alreadyStopped"})
             /\ ~(k \in Deletes /\ op[k] = "success")
    <3>1. pc' = [pc EXCEPT ![k] = "error"]
      BY <1>6, <2>4 DEF WaitReturns
    <3>2. \E from \in {"called", "accepted", "effective"} :
            Moves(k, from, "error")
      BY <1>0, <1>6, <3>1 DEF WaitReturns, Moves, Phase, Effective
    <3> QED
      BY <2>1, <3>2
  <2> QED
    BY <2>2, <2>3, <2>4
<1> QED
  BY <1>1, <1>2, <1>3, <1>4, <1>5, <1>6

\* A call gives up: its stop, if it had one, may be carried out all the same.
LEMMA AbandonSteps ==
  ASSUME ClientInv, NEW k \in Call, TimesOut(k) \/ Cancelled(k)
  PROVE  Implemented
<1> USE Calls, PortSteps
    DEF ClientInv, ClientTypeOK, CallInv, Unfinished, At, Returned
<1>1. Abandon(k) /\ ~Returned(k) /\ ~At(k, "idle")
  BY DEF TimesOut, Cancelled
<1>2. \A j \in Call \ {k} : Phase(j)' = Phase(j)
  <2>1. \A j \in Call \ {k} :
          pc'[j] = pc[j] /\ op'[j] = op[j] /\ ans'[j] = ans[j]
    BY <1>1 DEF Abandon, Go
  <2> QED
    BY <2>1, OwnPhase
<1>3. Phase(k) \in {"called", "accepted", "effective"} /\ Phase(k)' = "error"
  BY <1>1 DEF Abandon, Go, Phase
<1>4. CASE VM' = VM
  BY <1>2, <1>3, <1>4 DEF Moves
<1>5. CASE VM' # VM
  <2>1. k \in Stops /\ op[k] = "running" /\ VM = "running" /\ VM' = "stopping"
    BY <1>1, <1>5 DEF Abandon, Go, VM, Stopping
  <2>2. Phase(k) = "called"
    BY <1>1, <2>1 DEF Phase, Effective
  <2> QED
    BY <1>2, <1>3, <2>1, <2>2
    DEF Moves
<1> QED
  BY <1>4, <1>5

\* The daemon's answers.
LEMMA AnswerSteps ==
  ASSUME ClientInv, NEW k \in Call,
         AnswerPost(k) \/ (k = Launch /\ AnswerGet)
  PROVE  Implemented
<1> USE Calls, PortSteps
    DEF ClientInv, ClientTypeOK, CallInv, Unfinished, At, Returned
<1>0. \A j \in Call \ {k} : Phase(j)' = Phase(j)
  BY OwnPhase DEF AnswerPost, AnswerGet
<1>1. CASE k = Launch /\ AnswerGet
  <2>1. VM' = VM /\ Phase(k) = "accepted"
    BY <1>1 DEF AnswerGet, VM, Stopping, Phase, Effective
  <2>2. CASE ans'[k] = "found"
    <3>1. Moves(k, "accepted", "effective")
      BY <1>0, <1>1, <2>1, <2>2 DEF AnswerGet, Moves, Phase, Effective
    <3>2. VM \in {"running", "stopping", "stopped"}
      BY <1>1, <2>2 DEF AnswerGet, VM
    <3> QED
      BY <1>1, <2>1, <3>1, <3>2 DEF Launches
  <2>3. CASE ans'[k] # "found"
    <3>1. Phase(k)' = "accepted"
      BY <1>1, <2>3 DEF AnswerGet, Phase, Effective
    <3> QED
      BY <1>0, <2>1, <3>1 DEF NoMove, Implemented
  <2> QED
    BY <2>2, <2>3
<1>2. ASSUME AnswerPost(k)
      PROVE  Implemented
  <2>1. Phase(k) = "called"
    BY <1>2 DEF AnswerPost, Phase, Effective
  <2>2. CASE ans'[k] = "refused"
    BY <1>0, <1>2, <2>1, <2>2
    DEF AnswerPost, Phase, Effective, NoMove, VM, Stopping, Implemented
  <2>3. CASE ans'[k] = "accepted" /\ k = Launch
    <3>1. Moves(k, "called", "accepted")
      BY <1>0, <1>2, <2>1, <2>3 DEF AnswerPost, Moves, Phase, Effective
    <3>2. VM = "none" /\ VM' = "creating"
      BY <1>2, <2>3 DEF AnswerPost, VM, Stopping
    <3> QED
      BY <2>3, <3>1, <3>2 DEF Launches
  <2>4. CASE ans'[k] = "accepted" /\ k # Launch
    <3>1. Phase(k)' = "called"
      BY <1>2, <2>4 DEF AnswerPost, Phase, Effective
    <3>2. VM' = VM
      BY <1>2, <2>4 DEF AnswerPost, VM, Stopping
    <3> QED
      BY <1>0, <2>1, <3>1, <3>2 DEF NoMove, Implemented
  <2>5. CASE ans'[k] = "notFound"
    <3>1. k # Launch /\ VM \in {"none", "gone"} /\ VM' = VM
      BY <1>2, <2>5 DEF AnswerPost, VM, Stopping
    <3>2. Moves(k, "called", "effective")
      BY <1>0, <1>2, <2>1, <2>5, <3>1 DEF AnswerPost, Moves, Phase, Effective
    <3> QED
      BY <3>1, <3>2
  <2> QED
    BY <1>2, <2>2, <2>3, <2>4, <2>5 DEF AnswerPost
<1> QED
  BY <1>1, <1>2

\* The daemon's operations.
LEMMA OperationSteps ==
  ASSUME ClientInv,
         \/ RunLaunch \/ PowerOff \/ EphemeralCleanup
         \/ \E t \in Terminator : RunStop(t) \/ RunDelete(t)
  PROVE  Implemented
<1> USE Calls, PortSteps, PortDaemon
    DEF ClientInv, ClientTypeOK, CallInv, Unfinished, At, Returned
<1>1. CASE RunLaunch
  <2>1. VM = "creating" /\ VM' \in {"running", "gone"}
    BY <1>1 DEF RunLaunch, Operate, VM, Stopping
  <2>2. NoMove
    BY <1>1, OwnPhase DEF RunLaunch, Operate, NoMove, Phase, Effective
  <2> QED
    BY <2>1, <2>2
<1>2. CASE PowerOff \/ EphemeralCleanup
  <2>1. \/ VM \in {"running", "stopping"} /\ VM' = "stopped"
        \/ VM = "stopped" /\ VM' = "gone"
    BY <1>2 DEF PowerOff, EphemeralCleanup, VM, Stopping
  <2>2. NoMove
    BY <1>2, OwnPhase DEF PowerOff, EphemeralCleanup, NoMove
  <2> QED
    BY <2>1, <2>2
<1>3. ASSUME NEW t \in Terminator, RunStop(t)
      PROVE  Implemented
  <2> DEFINE k == StopOf(t)
  <2>0. k \in Stops /\ k \in Call /\ k # Launch /\ ~At(k, "idle")
    BY <1>3 DEF RunStop, Operate
  <2>1. \A j \in Call \ {k} : Phase(j)' = Phase(j)
    BY <1>3, OwnPhase DEF RunStop, Operate
  <2>2. CASE Returned(k)
    <3>1. op[k] = "committed" /\ NoMove
      BY <1>3, <2>0, <2>1, <2>2 DEF RunStop, Operate, NoMove, Phase
    <3>2. \/ VM = "stopping" /\ VM' = "stopped"
          \/ VM' = VM
      BY <1>3, <2>0, <3>1 DEF RunStop, Operate, VM, Stopping
    <3> QED
      BY <3>1, <3>2 DEF Implemented
  <2>3. CASE ~Returned(k) /\ op'[k] = "failure"
    <3>1. Phase(k) = "called" /\ Phase(k)' = "called"
      BY <1>3, <2>0, <2>3 DEF RunStop, Operate, Phase, Effective
    <3>2. VM' = VM
      BY <1>3, <2>0, <2>3 DEF RunStop, Operate, VM, Stopping
    <3> QED
      BY <2>1, <3>1, <3>2 DEF NoMove, Implemented
  <2>4. CASE ~Returned(k) /\ op'[k] # "failure"
    <3>1. Moves(k, "called", "effective")
      BY <1>3, <2>0, <2>1, <2>4 DEF RunStop, Operate, Moves, Phase, Effective
    <3>2. VM \in {"running", "stopping", "stopped"} /\ VM' = "stopped"
      BY <1>3, <2>0, <2>4 DEF RunStop, Operate, VM, Stopping
    <3> QED
      BY <2>0, <3>1, <3>2
  <2> QED
    BY <2>2, <2>3, <2>4
<1>4. ASSUME NEW t \in Terminator, RunDelete(t)
      PROVE  Implemented
  <2> DEFINE k == DeleteOf(t)
  <2>0. k \in Deletes /\ k \in Call /\ k # Launch /\ ~At(k, "idle")
    BY <1>4 DEF RunDelete, Operate
  <2>1. \A j \in Call \ {k} : Phase(j)' = Phase(j)
    BY <1>4, OwnPhase DEF RunDelete, Operate
  <2>2. /\ \/ inst = "stopped" /\ inst' = "gone"
           \/ inst' = inst /\ (~Returned(k) => op'[k] = "failure")
        /\ \A j \in Stops : op'[j] = op[j]
    BY <1>4, <2>0 DEF RunDelete, Operate
  <2>3. \/ VM = "stopped" /\ VM' = "gone"
        \/ VM' = VM /\ (~Returned(k) => op'[k] = "failure")
    BY <2>2 DEF VM, Stopping
  <2>4. CASE Returned(k)
    <3>1. NoMove
      BY <1>4, <2>0, <2>1, <2>4 DEF RunDelete, Operate, NoMove, Phase
    <3> QED
      BY <2>3, <3>1 DEF Implemented
  <2>5. CASE ~Returned(k) /\ op'[k] = "failure"
    <3>1. Phase(k) = "called" /\ Phase(k)' = "called"
      BY <1>4, <2>0, <2>5 DEF RunDelete, Operate, Phase, Effective
    <3>2. VM' = VM
      BY <1>4, <2>0, <2>5 DEF RunDelete, Operate, VM, Stopping
    <3> QED
      BY <2>1, <3>1, <3>2 DEF NoMove, Implemented
  <2>6. CASE ~Returned(k) /\ op'[k] # "failure"
    <3>1. Moves(k, "called", "effective")
      BY <1>4, <2>0, <2>1, <2>6 DEF RunDelete, Operate, Moves, Phase, Effective
    <3> QED
      BY <2>0, <2>3, <2>6, <3>1
  <2> QED
    BY <2>4, <2>5, <2>6
<1> QED
  BY <1>1, <1>2, <1>3, <1>4

----------------------------------------------------------------------------

\* The client's bookkeeping: which operations can be running at the daemon,
\* for whom, and in which states of the instance.
THEOREM ClientCorrect == ClientSpec => []ClientInv
<1>1. ClientInv /\ [ClientNext]_clientVars => ClientInv'
  BY ClientInvStep
<1> QED
  BY ClientInvInit, <1>1, PTL DEF ClientSpec

\* Types, and: a Launch, Stop or Delete that returns nil has waited for its
\* operation to end.
THEOREM ClientTypeCorrect == ClientSpec => []ClientTypeOK
<1>1. ClientInv => ClientTypeOK
  BY DEF ClientInv
<1> QED
  BY ClientCorrect, <1>1, PTL

\* realClient's Launch, Stop and Delete keep the contract the orchestrator is
\* written against (types.go:72-83): every step is one of the contract's or
\* a stutter, however many callers stop and delete the instance at once.
THEOREM PortImplemented == ClientSpec => ImplementsPort
<1>1. ClientInit => Port!PortInit
  BY Calls
  DEF ClientInit, Port!PortInit, Port!Call, Call, Phase, At, Returned, Stopping,
      Only
<1>2. ClientInv /\ [ClientNext]_clientVars
      => [Port!PortNext]_<<Port!cloudVars, [k \in Call |-> Phase(k)]>>
  <2> SUFFICES ASSUME ClientInv, [ClientNext]_clientVars
               PROVE  Implemented
    BY VMKept, NoMoveKeepsCall DEF Implemented
  <2>1. CASE \/ CallLaunch \/ ResolveAlias \/ ReceiveInstance
             \/ \E t \in Terminator : CallStop(t) \/ CallDelete(t)
             \/ \E k \in Call : ReceiveAnswer(k) \/ WaitReturns(k)
    BY <2>1, Calls, CallSteps
  <2>2. CASE \E k \in Call : TimesOut(k) \/ Cancelled(k)
    BY <2>2, AbandonSteps
  <2>3. CASE AnswerGet \/ \E k \in Call : AnswerPost(k)
    BY <2>3, Calls, AnswerSteps
  <2>4. CASE \/ RunLaunch \/ PowerOff \/ EphemeralCleanup
             \/ \E t \in Terminator : RunStop(t) \/ RunDelete(t)
    BY <2>4, OperationSteps
  <2>5. CASE Shutdown \/ UNCHANGED clientVars
    BY <2>5, OwnPhase
    DEF Shutdown, clientVars, NoMove, VM, Stopping, Implemented
  <2> QED
    BY <2>1, <2>2, <2>3, <2>4, <2>5 DEF ClientNext
<1> QED
  BY <1>1, <1>2, ClientCorrect, PTL
  DEF ClientSpec, ImplementsPort, Port!PortSpec
=============================================================================
