---------------------------- MODULE InstancePort ----------------------------
(***************************************************************************)
(* What the orchestrator relies on when it calls the Client interface of   *)
(* internal/incus/types.go about one instance: the operators of Cloud,     *)
(* each taking effect at one instant between the call and its return.  A   *)
(* call that returns nil has taken effect; one that fails may have, may    *)
(* yet (a stop the daemon goes on with), or never will.                    *)
(***************************************************************************)
EXTENDS Cloud

CONSTANTS
  Name,                     \* the instance
  Launches, Stops, Deletes  \* the calls made about it

VARIABLE call   \* call[k]: how far call k is

Call == Launches \cup Stops \cup Deletes

Advance(k, from, to) == call[k] = from /\ call' = [call EXCEPT ![k] = to]

\* Which of these calls' jobs GitHub knows of plays no part.
PortInit == vm = [r \in Runner |-> "none"] /\ call = [k \in Call |-> "idle"]

Begin(k) == Advance(k, "idle", "called") /\ UNCHANGED cloudVars

Accept(k) ==
  /\ k \in Launches
  /\ vm[Name] = "none"
  /\ Advance(k, "called", "accepted")
  /\ CreateInstance(Name)

\* "blocking until the start operation finishes" (types.go:75).
LaunchTakesEffect(k) ==
  /\ k \in Launches
  /\ vm[Name] \in {"running", "stopping", "stopped"}
  /\ Advance(k, "accepted", "effective")
  /\ UNCHANGED cloudVars

\* "Returns nil if the instance is already stopped or absent" (types.go:78).
StopTakesEffect(k) ==
  /\ k \in Stops
  /\ vm[Name] # "creating"
  /\ Advance(k, "called", "effective")
  /\ StopInstance(Name, FALSE)

\* "Returns nil if the instance is absent" (types.go:82).
DeleteTakesEffect(k) ==
  /\ k \in Deletes
  /\ vm[Name] \in {"none", "stopped", "gone"}
  /\ Advance(k, "called", "effective")
  /\ DeleteInstance(Name, FALSE)

ReturnNil(k) == Advance(k, "effective", "nil") /\ UNCHANGED cloudVars

Fail(k) ==
  \/ /\ \E from \in {"called", "accepted", "effective"} :
          Advance(k, from, "error")
     /\ UNCHANGED cloudVars
  \/ k \in Stops /\ Advance(k, "called", "error") /\ StopInstance(Name, TRUE)

Daemon ==
  /\ \/ InstanceStarts(Name) \/ CreateFails(Name) \/ StopCompletes(Name)
     \/ PowerOff(Name) \/ EphemeralCleanup(Name)
  /\ UNCHANGED call

PortNext ==
  \/ \E k \in Call :
       \/ Begin(k) \/ Accept(k)
       \/ LaunchTakesEffect(k) \/ StopTakesEffect(k) \/ DeleteTakesEffect(k)
       \/ ReturnNil(k) \/ Fail(k)
  \/ Daemon

PortSpec == PortInit /\ [][PortNext]_<<cloudVars, call>>
============================================================================
