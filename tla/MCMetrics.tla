----------------------------- MODULE MCMetrics -----------------------------
(* TLC instance of Metrics.                                                *)
EXTENDS MCOrchestrator, Metrics
============================================================================
