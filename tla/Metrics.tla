------------------------------ MODULE Metrics ------------------------------
(***************************************************************************)
(* The gauge incuse_tracked_instances of each class: every place that adds *)
(* or removes an entry then calls SetTrackedInstances(tracker.size()),     *)
(* which reads the size and sets the gauge in two steps, under no lock.    *)
(***************************************************************************)
EXTENDS Orchestrator

VARIABLES
  gauge,   \* gauge[c]: the value of the gauge
  sample   \* sample[a][r]: the update actor a owes the gauge

metricsVars == <<vars, gauge, sample>>

NoSample == [at |-> "none", size |-> 0]
Due == [at |-> "due", size |-> 0]

\* ForScaleSet creates the series at zero.
MetricsInit ==
  /\ Init
  /\ gauge = [c \in Class |-> 0]
  /\ sample = [a \in Actor |-> [r \in Runner |-> NoSample]]

\* The step of actor a has called tracker.add or tracker.remove.
Resizes(a, r) ==
  /\ pc'[a][r] # pc[a][r]
  /\ pc[a][r] \in {"withdraw", "forget", "remove"} \/ pc'[a][r] = "acquire"

\* An actor does nothing else between an entry's change and its sample's end.
OrchestratorStep ==
  /\ Next
  /\ IF boots' # boots
       THEN /\ gauge' = [c \in Class |-> 0]
            /\ sample' = [a \in Actor |-> [r \in Runner |-> NoSample]]
       ELSE /\ \A a \in Actor, r \in Runner :
                 sample[a][r] # NoSample => pc'[a][r] = pc[a][r]
            /\ sample' = [a \in Actor |-> [r \in Runner |->
                            IF Resizes(a, r) THEN Due ELSE sample[a][r]]]
            /\ UNCHANGED gauge

ReadSize(a, r) ==
  /\ sample[a][r] = Due
  /\ sample' = [sample EXCEPT ![a][r] = [at |-> "read", size |-> Size(ClassOf[r])]]
  /\ UNCHANGED <<vars, gauge>>

SetTrackedInstances(a, r) ==
  /\ sample[a][r].at = "read"
  /\ gauge' = [gauge EXCEPT ![ClassOf[r]] = sample[a][r].size]
  /\ sample' = [sample EXCEPT ![a][r] = NoSample]
  /\ UNCHANGED vars

MetricsNext ==
  \/ OrchestratorStep
  \/ \E a \in Actor, r \in Runner : ReadSize(a, r) \/ SetTrackedInstances(a, r)

MetricsSpec == MetricsInit /\ [][MetricsNext]_metricsVars

\* "Instances currently in the orchestrator's in-memory tracker"
\* (recorder.go:107): when no update is under way, the gauge of a class tells
\* how many entries its tracker has.
GaugeTellsSize ==
  (\A a \in Actor, r \in Runner : sample[a][r] = NoSample) =>
    \A c \in Class : gauge[c] = Size(c)
============================================================================
