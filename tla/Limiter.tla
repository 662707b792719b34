------------------------------ MODULE Limiter ------------------------------
(***************************************************************************)
(* The two process-wide limiters of cmd/incuse/main.go, each a buffered    *)
(* channel of empty structs (Limiter in orchestrator.go).  All classes     *)
(* share them: mint slots bound the calls to GitHub, launch slots bound    *)
(* the work on the hypervisor, launches and teardowns alike.               *)
(***************************************************************************)
EXTENDS Integers

CONSTANTS
  MaxMints,      \* runner.max_parallel_mints
  MaxLaunches    \* runner.max_parallel_launches

ASSUME LimiterAssumption ==
  /\ MaxMints \in Nat \ {0}
  /\ MaxLaunches \in Nat \ {0}

VARIABLES
  mintUsed,      \* len(mintLimiter.sem)
  launchUsed     \* len(launchLimiter.sem)

limiterVars == <<mintUsed, launchUsed>>

LimiterTypeOK ==
  /\ mintUsed \in Int
  /\ launchUsed \in Int

LimiterInit ==
  /\ mintUsed = 0
  /\ launchUsed = 0

AcquireMint ==
  /\ mintUsed < MaxMints
  /\ mintUsed' = mintUsed + 1
  /\ UNCHANGED launchUsed

ReleaseMint ==
  /\ mintUsed' = mintUsed - 1
  /\ UNCHANGED launchUsed

AcquireLaunch ==
  /\ launchUsed < MaxLaunches
  /\ launchUsed' = launchUsed + 1
  /\ UNCHANGED mintUsed

ReleaseLaunch ==
  /\ launchUsed' = launchUsed - 1
  /\ UNCHANGED mintUsed
============================================================================
