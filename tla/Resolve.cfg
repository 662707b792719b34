CONSTANTS
  Caller = {"k1", "k2", "k3"}
  Arch = {"x64", "arm64"}
  MaxVersion = 3
SPECIFICATION FairResolver
INVARIANTS
  ResolverTypeOK
  OneFetchPerWindow
  FallsBack
PROPERTIES
  NeverOlder
  ResolveReturns
