---------------------------- MODULE IncusClient ----------------------------
(***************************************************************************)
(* Launch, Stop, Delete and Get of internal/incus/client.go against the    *)
(* REST interface of the Incus daemon, for one instance: the task that     *)
(* launches it and several callers that stop and delete it, as             *)
(* terminateInstance and the drift sweep do.  A call posts a request, the  *)
(* daemon answers with an operation that runs by itself, and the call      *)
(* waits for it.  Any reply may be late or lost, and an operation goes on  *)
(* when nobody waits for it any more.                                      *)
(***************************************************************************)
EXTENDS Naturals, FiniteSets

CONSTANT Terminator   \* who stops and deletes the instance

Launch == <<"task", "launch">>
StopOf(t) == <<t, "stop">>
DeleteOf(t) == <<t, "delete">>

Launches == {Launch}
Stops == {StopOf(t) : t \in Terminator}
Deletes == {DeleteOf(t) : t \in Terminator}
Call == Launches \cup Stops \cup Deletes

VARIABLES
  inst,     \* the instance, at the daemon
  op,       \* op[k]: the operation call k's request has started, until it has
            \* ended and call k knows or has returned
  ans,      \* ans[k]: the daemon's answer to call k's request, until received
  pc,       \* pc[k]: what call k is waiting for
  ctxDone   \* the context of all these calls is cancelled (shutdown)

clientVars == <<inst, op, ans, pc, ctxDone>>

Returned(k) == pc[k] \in {"nil", "error"}
Unfinished == {"running", "committed"}

ClientInit ==
  /\ inst = "none"
  /\ op = [k \in Call |-> "none"]
  /\ ans = [k \in Call |-> "none"]
  /\ pc = [k \in Call |-> "idle"]
  /\ ctxDone = FALSE

At(k, l) == pc[k] = l
Go(k, l) == pc' = [pc EXCEPT ![k] = l]

----------------------------------------------------------------------------
(* The calls.                                                              *)

\* An image of the host is looked up first, one of a server is not.
CallLaunch ==
  /\ At(Launch, "idle")
  /\ \E first \in {"alias", "post"} : Go(Launch, first)
  /\ UNCHANGED <<inst, op, ans, ctxDone>>

ResolveAlias ==
  /\ At(Launch, "alias")
  /\ \E next \in {"post", "error"} : Go(Launch, next)
  /\ UNCHANGED <<inst, op, ans, ctxDone>>

\* The name is known from the launch on.
CallStop(t) ==
  /\ At(StopOf(t), "idle")
  /\ ~At(Launch, "idle")
  /\ Go(StopOf(t), "post")
  /\ UNCHANGED <<inst, op, ans, ctxDone>>

\* Whatever Stop has returned.
CallDelete(t) ==
  /\ At(DeleteOf(t), "idle")
  /\ Returned(StopOf(t))
  /\ Go(DeleteOf(t), "post")
  /\ UNCHANGED <<inst, op, ans, ctxDone>>

\* Mutant: Delete does not wait for its operation.
ReceiveAnswer_NoWait(k) ==
  /\ At(k, "post")
  /\ ans[k] # "none"
  /\ Go(k, CASE ans[k] = "accepted" -> IF k \in Deletes THEN "nil" ELSE "wait"
             [] ans[k] = "notFound" /\ k # Launch -> "nil"
             [] OTHER -> "error")
  /\ ans' = [ans EXCEPT ![k] = "none"]
  /\ UNCHANGED <<inst, op, ctxDone>>

\* isNotFound: Stop and Delete of an instance that is not there succeed.
ReceiveAnswer(k) ==
  /\ At(k, "post")
  /\ ans[k] # "none"
  /\ Go(k, CASE ans[k] = "accepted" -> "wait"
             [] ans[k] = "notFound" /\ k # Launch -> "nil"
             [] OTHER -> "error")
  /\ ans' = [ans EXCEPT ![k] = "none"]
  /\ UNCHANGED <<inst, op, ctxDone>>

\* Mutant: Delete forgives the daemon what Stop may be forgiven.
WaitReturns_Forgiving(k) ==
  /\ At(k, "wait")
  /\ op[k] \notin Unfinished
  /\ Go(k, CASE k = Launch /\ op[k] = "success" -> "get"
             [] k # Launch /\ op[k] \in {"success", "alreadyStopped"} -> "nil"
             [] k \in Deletes -> "nil"
             [] OTHER -> "error")
  /\ op' = [op EXCEPT ![k] = "none"]
  /\ UNCHANGED <<inst, ans, ctxDone>>

\* WaitContext: isAlreadyStopped is success for Stop; Launch asks again.
WaitReturns(k) ==
  /\ At(k, "wait")
  /\ op[k] \notin Unfinished
  /\ Go(k, CASE k = Launch /\ op[k] = "success" -> "get"
             [] k \in Stops /\ op[k] \in {"success", "alreadyStopped"} -> "nil"
             [] k \in Deletes /\ op[k] = "success" -> "nil"
             [] OTHER -> "error")
  /\ op' = [op EXCEPT ![k] = "none"]
  /\ UNCHANGED <<inst, ans, ctxDone>>

\* Get: an instance that has stopped since and is removed is an error.
ReceiveInstance ==
  /\ At(Launch, "get")
  /\ ans[Launch] # "none"
  /\ Go(Launch, IF ans[Launch] = "found" THEN "nil" ELSE "error")
  /\ ans' = [ans EXCEPT ![Launch] = "none"]
  /\ UNCHANGED <<inst, op, ctxDone>>

\* The operation goes on; a stop that nobody waits for is carried out later
\* (committed) or fails.
Abandon(k) ==
  /\ Go(k, "error")
  /\ ans' = [ans EXCEPT ![k] = "none"]
  /\ \/ op[k] \in Unfinished /\ k \notin Stops /\ UNCHANGED op
     \/ /\ op[k] \in Unfinished /\ k \in Stops
        /\ op' = [op EXCEPT ![k] = "committed"]
     \/ /\ op[k] \in Unfinished => k \in Stops
        /\ op' = [op EXCEPT ![k] = "none"]
  /\ UNCHANGED <<inst, ctxDone>>

\* The HTTP client's Timeout, or a broken connection: a request the daemon has
\* not handled by then is lost, of one it has handled the reply is.
TimesOut(k) == pc[k] \in {"alias", "post", "wait", "get"} /\ Abandon(k)

\* Mutant: Wait without the context.
Cancelled_Ignored(k) == FALSE /\ Abandon(k)

\* Only WaitContext looks at the context.
Cancelled(k) == ctxDone /\ At(k, "wait") /\ Abandon(k)

Shutdown ==
  /\ ~ctxDone
  /\ ctxDone' = TRUE
  /\ UNCHANGED <<inst, op, ans, pc>>

----------------------------------------------------------------------------
(* The daemon.                                                             *)

\* It answers a post: an instance being created can be neither stopped nor
\* deleted, and a name is taken once.
AnswerPost(k) ==
  /\ At(k, "post") /\ ans[k] = "none"
  /\ \E a \in {"accepted", "refused", "notFound"} :
       /\ a = "accepted" => inst \in IF k = Launch THEN {"none"}
                                                   ELSE {"running", "stopped"}
       /\ a = "notFound" => k # Launch /\ inst \in {"none", "gone"}
       /\ ans' = [ans EXCEPT ![k] = a]
       /\ op' = IF a = "accepted" THEN [op EXCEPT ![k] = "running"] ELSE op
       /\ inst' = IF a = "accepted" /\ k = Launch THEN "creating" ELSE inst
  /\ UNCHANGED <<pc, ctxDone>>

AnswerGet ==
  /\ At(Launch, "get") /\ ans[Launch] = "none"
  /\ \E a \in {"found", "refused", "notFound"} :
       /\ a = "found" => inst \in {"running", "stopped"}
       /\ a = "notFound" => inst = "gone"
       /\ ans' = [ans EXCEPT ![Launch] = a]
  /\ UNCHANGED <<inst, op, pc, ctxDone>>

Operate(k, outcome, then) ==
  /\ op[k] \in Unfinished
  /\ op' = [op EXCEPT ![k] = IF Returned(k) THEN "none" ELSE outcome]
  /\ inst' = then
  /\ UNCHANGED <<ans, pc, ctxDone>>

RunLaunch ==
  \/ Operate(Launch, "success", "running")
  \/ Operate(Launch, "failure", "gone")

RunStop(t) ==
  LET k == StopOf(t) IN
  \/ inst = "running" /\ Operate(k, "success", "stopped")
  \/ inst = "stopped" /\ Operate(k, "alreadyStopped", inst)
  \/ /\ inst \in {"running", "gone"}
     /\ inst = "running" => op[k] # "committed"
     /\ Operate(k, "failure", inst)

\* "Instance is running", or not found any more, or another failure.
RunDelete(t) ==
  \/ inst = "stopped" /\ Operate(DeleteOf(t), "success", "gone")
  \/ Operate(DeleteOf(t), "failure", inst)

\* The runner powers its instance off, and the daemon removes an ephemeral
\* instance once it has stopped.
PowerOff ==
  inst = "running" /\ inst' = "stopped" /\ UNCHANGED <<op, ans, pc, ctxDone>>
EphemeralCleanup ==
  inst = "stopped" /\ inst' = "gone" /\ UNCHANGED <<op, ans, pc, ctxDone>>

----------------------------------------------------------------------------

ClientNext ==
  \/ CallLaunch \/ ResolveAlias \/ ReceiveInstance
  \/ \E t \in Terminator : CallStop(t) \/ CallDelete(t)
  \/ \E k \in Call :
       ReceiveAnswer(k) \/ WaitReturns(k) \/ TimesOut(k) \/ Cancelled(k)
  \/ Shutdown
  \/ AnswerGet \/ RunLaunch \/ PowerOff \/ EphemeralCleanup
  \/ \E k \in Call : AnswerPost(k)
  \/ \E t \in Terminator : RunStop(t) \/ RunDelete(t)

\* The daemon owes nothing.  The HTTP client's timeout bounds a request; the
\* wait for an operation is bounded by the context only.
ClientSpec ==
  /\ ClientInit /\ [][ClientNext]_clientVars
  /\ \A k \in Call :
       /\ WF_clientVars(~At(k, "wait") /\ TimesOut(k))
       /\ WF_clientVars(Cancelled(k))

----------------------------------------------------------------------------

\* Every variable has its type, and a call that has returned nil has left no
\* operation running at the daemon.
ClientTypeOK ==
  /\ inst \in {"none", "creating", "running", "stopped", "gone"}
  /\ op \in [Call -> Unfinished \cup
                     {"none", "success", "alreadyStopped", "failure"}]
  /\ ans \in [Call -> {"none", "accepted", "refused", "notFound", "found"}]
  /\ pc \in [Call -> {"idle", "alias", "post", "wait", "get", "nil", "error"}]
  /\ ctxDone \in BOOLEAN
  /\ \A k \in Call : At(k, "nil") => op[k] \notin Unfinished

\* Shutdown does not wait for a daemon that hangs: once the context is done,
\* every Launch, Stop and Delete in progress, and every one made after that,
\* returns even if no operation ever finishes (orchestrator.go:258 waits for
\* all of them).
CallsReturn ==
  \A k \in Call : (ctxDone /\ ~At(k, "idle")) ~> Returned(k)

----------------------------------------------------------------------------
(* The contract of the Client interface, call by call.                     *)

Effective(k) ==
  IF k = Launch
    THEN ans[k] = "found"
    ELSE op[k] \in {"success", "alreadyStopped"} \/ ans[k] = "notFound"

Phase(k) ==
  IF At(k, "idle") \/ Returned(k) THEN pc[k]
  ELSE IF Effective(k) THEN "effective"
  ELSE IF k = Launch /\ (At(k, "get") \/ op[k] # "none") THEN "accepted"
  ELSE "called"

\* A running instance with an abandoned stop that will be carried out.
Stopping == inst = "running" /\ \E k \in Stops : op[k] = "committed"

\* The orchestrator's state functions, for the one runner there is.
Only(x) == [r \in {"name"} |-> x]

Port == INSTANCE InstancePort WITH
  Class <- {"class"}, Runner <- {"name"}, ClassOf <- Only("class"),
  state <- Only("absent"), pending <- Only(FALSE), expired <- Only(FALSE),
  gh <- Only("completed"), ev <- Only({}), unsettled <- {},
  vm <- Only(IF Stopping THEN "stopping" ELSE inst),
  Name <- "name", call <- [k \in Call |-> Phase(k)]

\* The client keeps the contract the orchestrator is written against, and the
\* model of the orchestrator with it: nil means the call took effect between
\* its start and its return, in spite of lost replies, stops and deletions by
\* others, and a runner that powers itself off meanwhile.
ImplementsPort == Port!PortSpec
============================================================================
