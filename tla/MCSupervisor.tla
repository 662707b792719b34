---------------------------- MODULE MCSupervisor ----------------------------
(* TLC instances of Supervisor.                                            *)
EXTENDS SupervisorProps
=============================================================================
