-------------------------- MODULE SupervisorProps ---------------------------
(***************************************************************************)
(* What the process guarantees towards GitHub and systemd.                 *)
(***************************************************************************)
EXTENDS Supervisor

\* A class has one scale set for ever, as long as its runner group and name are
\* the same: no crash between the calls, lost reply, failed bootstrap or change
\* of labels creates a second one, which would take the queued jobs away from
\* the first (reconcileScaleSet).
OneScaleSet == \A c \in Class : copies[c] <= 1

\* /healthz and /readyz answer 200 only while every class, not just the last
\* one bootstrapped, has its session and the labels of the configuration, to
\* the end of the shutdown (MarkHealthy and MarkReady, main.go:171-187).
HealthyIsBootstrapped ==
  server /\ (healthy \/ ready) =>
    \A c \in Class : session[c] = "ours" /\ labels[c] = want[c]

\* No session is closed under a listener that still polls it: the deferred
\* function runs after every member of the group has returned, and a listener
\* starts after every class is bootstrapped.
PollsOwnSession == \A c \in listeners : session[c] = "ours"

\* A process that has ended holds no session it could still have closed, however
\* far it came: bootstrap stopped half-way, the group failed or a signal came.
\* Every session run() opened, its deferred function has tried to close.  What
\* can be left behind, and answers the next process with 409, is a stale
\* session: of a Close that failed, of an open whose reply was lost, of a crash.
SessionsReleased == proc = "down" => \A c \in Class : session[c] # "ours"

----------------------------------------------------------------------------

\* Steps of the goroutine of run() that no fault can keep from happening.
MainStep ==
  \/ Start /\ cause = "error"
  \/ SessionConflict \/ BackoffElapsed \/ BackoffCancelled
  \/ MarkReady \/ GroupWaits \/ CloseSession \/ Exit

\* The goroutines of a process run, and systemd restarts it after a failure.
\* Strong fairness where a fault can intervene: GitHub does not fail the same
\* call for ever, drops stale sessions, and the process is not killed at the
\* same point every time.
SupervisorFairness ==
  /\ WF_supervisorVars(MainStep)
  /\ SF_supervisorVars(Launch)
  /\ WF_supervisorVars(ServerStops)
  /\ \A c \in Class :
       /\ SF_supervisorVars(GetRunnerGroup /\ cur = c)
       /\ SF_supervisorVars(GetRunnerScaleSet /\ cur = c)
       /\ SF_supervisorVars(ReconcileScaleSet /\ cur = c)
       /\ SF_supervisorVars(OpenSession /\ cur = c)
       /\ WF_supervisorVars(SessionExpires(c))
       /\ WF_supervisorVars(ListenerReturns(c) /\ GroupDone)
       /\ WF_supervisorVars(ReaperReturns(c))

FairSupervisor == SupervisorSpec /\ SupervisorFairness

\* After a failure, a crash or a lost reply every class is listened to again,
\* though the attempts at a session are bounded, every failure closes the
\* sessions opened before it, and every crash leaves stale ones behind.
Recovers ==
  proc = "down" /\ cause = "error" ~>
    \/ listeners = Class
    \/ cancelled \/ cause = "canceled"

\* A signal ends the process, wherever it is: in a call, waiting for a stale
\* session, starting the group or serving.
SignalStops == cancelled ~> proc = "down"
=============================================================================
