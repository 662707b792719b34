CONSTANTS
  c1 = c1
  c2 = c2
  r1 = r1
  r2 = r2
  Class = {c1}
  Runner = {r1}
  ClassOf <- OneClass
  MaxRunners <- OneRunner
  Desired <- Counts
  MaxMints = 1
  MaxLaunches = 1
  MaxBoots = 1
  Faults = {"mint", "lostReply", "render", "launch", "teardown", "list", "deregister", "lose", "stop", "restart", "crash"}
SPECIFICATION LifecycleSpec
PROPERTIES
  ShutdownCompletes
  InstanceReclaimed
CHECK_DEADLOCK FALSE
