CONSTANTS
  N = 2
  Labels = {"old", "new"}
  MaxAttempts = 2
  Faults = {"call", "lostReply", "group", "close", "signal", "crash"}
SPECIFICATION FairSupervisor
INVARIANTS
  SupervisorTypeOK
  OneScaleSet
  HealthyIsBootstrapped
  PollsOwnSession
  SessionsReleased
PROPERTIES
  Recovers
  SignalStops
