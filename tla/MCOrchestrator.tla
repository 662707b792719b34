--------------------------- MODULE MCOrchestrator ---------------------------
(* TLC instances of Orchestrator.                                          *)
EXTENDS OrchestratorProps, TLC

CONSTANTS c1, c2, r1, r2

OneClass == [r \in Runner |-> c1]
TwoClasses == [r \in Runner |-> IF r = r1 THEN c1 ELSE c2]
OneRunner == [c \in Class |-> 1]
TwoRunners == [c \in Class |-> 2]
Counts == -1 .. 3
TwoNames == Permutations({r1, r2})
============================================================================
