CONSTANTS
  c1 = c1
  c2 = c2
  r1 = r1
  r2 = r2
  Class = {c1}
  Runner = {r1, r2}
  ClassOf <- OneClass
  MaxRunners <- OneRunner
  Desired <- Counts
  MaxMints = 1
  MaxLaunches = 1
  MaxBoots = 0
  Faults = {}
SPECIFICATION Spec
INVARIANTS
  RegistrationReapSparesBusy
