----------------------------- MODULE Supervisor -----------------------------
(***************************************************************************)
(* The life of the incuse process around the orchestrators: run() of       *)
(* cmd/incuse/main.go, ScaleSet.Bootstrap, Run and Close of                *)
(* internal/scaleset, and the health flags of internal/observability.      *)
(* systemd starts the process again after a failure, GitHub remembers      *)
(* scale sets and message sessions across processes, and the               *)
(* configuration may change between two of them.                           *)
(*                                                                         *)
(* Classes are bootstrapped one after the other, in the order 1 .. N.      *)
(***************************************************************************)
EXTENDS Integers, FiniteSets

CONSTANTS
  N,             \* number of classes in the configuration
  Labels,        \* the label sets a class may be configured with
  MaxAttempts,   \* attempts at opening a session (20 in the code)
  Faults         \* which failures the environment may inject

SupervisorFault ==
  { "call",        \* a call to GitHub returns an error
    "lostReply",   \* ... after GitHub has acted on it
    "group",       \* a listener or the HTTP server returns an error
    "close",       \* closing a session fails or runs into the 30s limit
    "signal",      \* SIGTERM
    "crash" }      \* the process is killed

Missing == "missing"

ASSUME SupervisorAssumption ==
  /\ N \in Nat \ {0}
  /\ Missing \notin Labels
  /\ MaxAttempts \in Nat \ {0}
  /\ Faults \subseteq SupervisorFault

Class == 1 .. N

VARIABLES
  copies,      \* GitHub: the number of scale sets with the class's name
  labels,      \* GitHub: the labels of the scale set
  session,     \* GitHub: the message session: "ours" when this process can
               \* close it, "stale" when nobody will
  proc,        \* where run() is
  cur,         \* the class being bootstrapped, or whose session is closed next
  want,        \* the labels of the configuration this process has read
  listen,      \* the configuration has a listen_addr: there is a server
  found,       \* what GetRunnerScaleSet returned: the labels, or "missing"
  attempt,     \* loop variable of openSessionWithRetry
  opened,      \* sets: the classes whose ScaleSet has a session to close
  cancelled,   \* the signal context is done
  cause,       \* the first error, which run() returns; it ends the group's
               \* context
  listeners,   \* the classes whose ScaleSet.Run has not returned
  reapers,     \* the classes whose Orchestrator.Run has not returned
  server,      \* Server.Run has not returned
  healthy,     \* Server.healthy
  ready        \* Server.ready

hubVars == <<copies, labels, session>>
configVars == <<want, listen>>
bootVars == <<cur, configVars, found, attempt, opened>>
groupVars == <<listeners, reapers, server, healthy, ready>>
supervisorVars == <<hubVars, proc, bootVars, cancelled, cause, groupVars>>

ProcLabel == {"down", "group", "lookup", "reconcile", "open", "backoff",
              "launch", "mark", "serve", "closing"}

\* Every variable has its type, and a session is tried MaxAttempts times.
SupervisorTypeOK ==
  /\ copies \in [Class -> Nat]
  /\ labels \in [Class -> Labels \cup {Missing}]
  /\ session \in [Class -> {"none", "ours", "stale"}]
  /\ proc \in ProcLabel
  /\ cur \in 1 .. N + 1
  /\ want \in [Class -> Labels] /\ listen \in BOOLEAN
  /\ found \in Labels \cup {Missing}
  /\ attempt \in 1 .. MaxAttempts
  /\ opened \subseteq Class
  /\ cancelled \in BOOLEAN
  /\ cause \in {"none", "error", "canceled"}
  /\ listeners \subseteq Class /\ reapers \subseteq Class
  /\ server \in BOOLEAN /\ healthy \in BOOLEAN /\ ready \in BOOLEAN

\* The first start, by the operator; no scale set exists.
SupervisorInit ==
  /\ copies = [c \in Class |-> 0]
  /\ labels = [c \in Class |-> Missing]
  /\ session = [c \in Class |-> "none"]
  /\ proc = "down"
  /\ cur = 1 /\ attempt = 1 /\ found = Missing
  /\ want \in [Class -> Labels] /\ listen \in BOOLEAN
  /\ opened = {} /\ listeners = {} /\ reapers = {}
  /\ cancelled = FALSE /\ cause = "error"
  /\ server = FALSE /\ healthy = FALSE /\ ready = FALSE

----------------------------------------------------------------------------
(* Starting, and the calls to GitHub.                                      *)

\* A new process reads the configuration.  Sessions of the former one are
\* stale.  systemd starts it after a failure, an operator at any time.
Start ==
  /\ proc = "down"
  /\ proc' = "group"
  /\ session' = [c \in Class |-> IF session[c] = "ours" THEN "stale"
                                                        ELSE session[c]]
  /\ want' \in [Class -> Labels] /\ listen' \in BOOLEAN
  /\ cause' = "none"
  /\ UNCHANGED <<copies, labels, cur, found, attempt, opened, cancelled,
                 groupVars>>

\* The first error is the one that counts.
Blame(e) == cause' = IF cause = "none" THEN e ELSE cause

\* run() returns an error; the deferred function closes what was opened.
Fail(e) ==
  /\ proc' = "closing"
  /\ cur' = 1
  /\ Blame(e)
  /\ UNCHANGED <<configVars, found, attempt, opened, cancelled, groupVars>>

\* A call fails by itself or because the signal context is done.
CallFails ==
  /\ proc \in {"group", "lookup", "reconcile", "open"}
  /\ \/ "call" \in Faults /\ Fail("error")
     \/ cancelled /\ Fail("canceled")
  /\ UNCHANGED hubVars

Advance(l) ==
  /\ proc' = l
  /\ UNCHANGED <<cancelled, cause, groupVars>>

GetRunnerGroup ==
  /\ proc = "group"
  /\ Advance("lookup")
  /\ UNCHANGED <<hubVars, bootVars>>

\* The scale set of the class in its runner group, which never changes here: in
\* another group the code finds none and creates one, as Startup has it.
GetRunnerScaleSet ==
  /\ proc = "lookup"
  /\ found' = labels[cur]
  /\ Advance("reconcile")
  /\ UNCHANGED <<hubVars, cur, configVars, attempt, opened>>

\* Mutant: a scale set whose labels have drifted is replaced by a new one.
WriteScaleSet_Recreates(c) ==
  /\ copies' = [copies EXCEPT ![c] = IF found # want[c] THEN @ + 1 ELSE @]
  /\ labels' = [labels EXCEPT ![c] = want[c]]
  /\ UNCHANGED session

\* Mutant: labels that have drifted are left alone.
WriteScaleSet_KeepsLabels(c) ==
  /\ copies' = [copies EXCEPT ![c] = IF found = Missing THEN @ + 1 ELSE @]
  /\ labels' = [labels EXCEPT ![c] = IF found = Missing THEN want[c] ELSE @]
  /\ UNCHANGED session

\* Create the scale set if there is none, update its labels if they differ.
WriteScaleSet(c) ==
  /\ copies' = [copies EXCEPT ![c] = IF found = Missing THEN @ + 1 ELSE @]
  /\ labels' = [labels EXCEPT ![c] = want[c]]
  /\ UNCHANGED session

ReconcileScaleSet ==
  /\ proc = "reconcile"
  /\ WriteScaleSet(cur)
  /\ attempt' = 1
  /\ Advance("open")
  /\ UNCHANGED <<cur, configVars, found, opened>>

ReconcileReplyLost ==
  /\ "lostReply" \in Faults
  /\ proc = "reconcile"
  /\ found # want[cur]
  /\ WriteScaleSet(cur)
  /\ Fail("error")

\* Mutant: the session is not recorded in sets.
Adopt_Forgets(c) == opened' = opened

\* run() appends the set, which its deferred function will close.
Adopt(c) == opened' = opened \cup {c}

OpenSession ==
  /\ proc = "open"
  /\ session[cur] = "none"
  /\ session' = [session EXCEPT ![cur] = "ours"]
  /\ Adopt(cur)
  /\ cur' = cur + 1
  /\ Advance(IF cur = N THEN "launch" ELSE "group")
  /\ UNCHANGED <<copies, labels, configVars, found, attempt>>

\* The session exists, but Bootstrap returns an error: nobody will close it.
OpenReplyLost ==
  /\ "lostReply" \in Faults
  /\ proc = "open"
  /\ session[cur] = "none"
  /\ session' = [session EXCEPT ![cur] = "stale"]
  /\ Fail("error")
  /\ UNCHANGED <<copies, labels>>

\* Mutant: one attempt too many.
SessionConflict_OffByOne ==
  /\ proc = "open"
  /\ session[cur] # "none"
  /\ IF attempt > MaxAttempts
       THEN Fail("error")
       ELSE Advance("backoff") /\ UNCHANGED bootVars
  /\ UNCHANGED hubVars

\* 409: a stale session is still active.
SessionConflict ==
  /\ proc = "open"
  /\ session[cur] # "none"
  /\ IF attempt = MaxAttempts
       THEN Fail("error")
       ELSE Advance("backoff") /\ UNCHANGED bootVars
  /\ UNCHANGED hubVars

\* Mutant: the wait only ends with the context.
BackoffElapsed_Never ==
  /\ proc = "backoff"
  /\ cancelled
  /\ attempt' = attempt + 1
  /\ Advance("open")
  /\ UNCHANGED <<hubVars, cur, configVars, found, opened>>

BackoffElapsed ==
  /\ proc = "backoff"
  /\ attempt' = attempt + 1
  /\ Advance("open")
  /\ UNCHANGED <<hubVars, cur, configVars, found, opened>>

BackoffCancelled ==
  /\ proc = "backoff"
  /\ cancelled
  /\ Fail("canceled")
  /\ UNCHANGED hubVars

----------------------------------------------------------------------------
(* The errgroup.                                                           *)

\* MarkHealthy, then one goroutine for the server and two for each class.  An
\* empty listen_addr leaves the server and its flags out.
Launch ==
  /\ proc = "launch"
  /\ proc' = "mark"
  /\ healthy' = listen
  /\ server' = listen /\ listeners' = Class /\ reapers' = Class
  /\ UNCHANGED <<hubVars, bootVars, cancelled, cause, ready>>

MarkReady ==
  /\ proc = "mark"
  /\ proc' = "serve"
  /\ ready' = listen
  /\ UNCHANGED <<hubVars, bootVars, cancelled, cause, listeners, reapers,
                 server, healthy>>

GroupDone == cancelled \/ cause # "none"

\* A member returns an error of its own, which cancels the group, or the
\* error of a context that is done.
ListenerReturns(c) ==
  /\ c \in listeners
  /\ \/ GroupDone /\ Blame("canceled")
     \/ "group" \in Faults /\ Blame("error")
  /\ listeners' = listeners \ {c}
  /\ UNCHANGED <<hubVars, proc, bootVars, cancelled, reapers, server,
                 healthy, ready>>

ReaperReturns(c) ==
  /\ c \in reapers
  /\ GroupDone
  /\ reapers' = reapers \ {c}
  /\ Blame("canceled")
  /\ UNCHANGED <<hubVars, proc, bootVars, cancelled, listeners, server,
                 healthy, ready>>

\* Mutant: Shutdown is not called, so Serve never returns.
ServerStops_NoShutdown ==
  /\ server /\ GroupDone /\ FALSE
  /\ UNCHANGED supervisorVars

\* The server returns nil for a cancelled context.
ServerStops ==
  /\ server
  /\ GroupDone
  /\ server' = FALSE
  /\ UNCHANGED <<hubVars, proc, bootVars, cancelled, cause, listeners, reapers,
                 healthy, ready>>

\* The address cannot be bound, or Serve fails.
ServerFails ==
  /\ "group" \in Faults
  /\ server
  /\ server' = FALSE
  /\ Blame("error")
  /\ UNCHANGED <<hubVars, proc, bootVars, cancelled, listeners, reapers,
                 healthy, ready>>

\* Mutant: the first error ends the wait.
GroupWaits_FirstError ==
  /\ proc = "serve"
  /\ GroupDone
  /\ proc' = "closing"
  /\ cur' = 1
  /\ UNCHANGED <<hubVars, configVars, found, attempt, opened, cancelled, cause,
                 groupVars>>

\* g.Wait returns when every member has.
GroupWaits ==
  /\ proc = "serve"
  /\ listeners = {} /\ reapers = {} /\ ~server
  /\ proc' = "closing"
  /\ cur' = 1
  /\ UNCHANGED <<hubVars, configVars, found, attempt, opened, cancelled, cause,
                 groupVars>>

----------------------------------------------------------------------------
(* The deferred function, and what happens to the process from outside.    *)

\* Close one session after the other with a context of its own; a failure is
\* only logged, and leaves the session to itself.  A class without a session
\* has nothing to close.
CloseSession ==
  /\ proc = "closing"
  /\ cur \in Class
  /\ \/ /\ cur \in opened
        /\ session' = [session EXCEPT ![cur] = "none"]
     \/ /\ "close" \in Faults
        /\ cur \in opened
        /\ session' = [session EXCEPT ![cur] = "stale"]
     \/ /\ cur \notin opened
        /\ UNCHANGED session
  /\ cur' = cur + 1
  /\ UNCHANGED <<copies, labels, proc, configVars, found, attempt, opened,
                 cancelled, cause, groupVars>>

\* What the process had in memory is gone; cause is what systemd sees.
Gone ==
  /\ proc' = "down"
  /\ cur' = 1 /\ attempt' = 1 /\ found' = Missing /\ opened' = {}
  /\ cancelled' = FALSE
  /\ listeners' = {} /\ reapers' = {}
  /\ server' = FALSE /\ healthy' = FALSE /\ ready' = FALSE
  /\ UNCHANGED <<copies, labels, configVars>>

\* main exits with 1, and systemd takes it for a failure, unless the cause is
\* the cancelled signal context.
Exit ==
  /\ proc = "closing"
  /\ cur = N + 1
  /\ Gone
  /\ UNCHANGED <<session, cause>>

Signal ==
  /\ "signal" \in Faults
  /\ proc # "down"
  /\ ~cancelled
  /\ cancelled' = TRUE
  /\ UNCHANGED <<hubVars, proc, bootVars, cause, groupVars>>

\* systemd does not start a process again that it has asked to stop.
Crash ==
  /\ "crash" \in Faults
  /\ proc # "down"
  /\ Gone
  /\ session' = [c \in Class |-> IF session[c] = "ours" THEN "stale"
                                                        ELSE session[c]]
  /\ cause' = IF cancelled THEN "canceled" ELSE "error"

\* GitHub drops a session that nobody polls any more.
SessionExpires(c) ==
  /\ session[c] = "stale"
  /\ session' = [session EXCEPT ![c] = "none"]
  /\ UNCHANGED <<copies, labels, proc, bootVars, cancelled, cause, groupVars>>

----------------------------------------------------------------------------

BootstrapStep ==
  \/ GetRunnerGroup \/ GetRunnerScaleSet \/ ReconcileScaleSet \/ OpenSession
  \/ SessionConflict \/ BackoffElapsed \/ BackoffCancelled
  \/ CallFails \/ ReconcileReplyLost \/ OpenReplyLost

GroupStep ==
  \/ Launch \/ MarkReady \/ GroupWaits \/ ServerStops \/ ServerFails
  \/ \E c \in Class : ListenerReturns(c) \/ ReaperReturns(c)

SupervisorNext ==
  \/ Start \/ BootstrapStep \/ GroupStep \/ CloseSession \/ Exit
  \/ Signal \/ Crash
  \/ \E c \in Class : SessionExpires(c)

SupervisorSpec == SupervisorInit /\ [][SupervisorNext]_supervisorVars
=============================================================================
