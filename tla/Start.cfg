CONSTANTS
  MaxName = 17
  MaxScaleSetName = 14
  SuffixLen = 2
  Decimal <- Numbers
  Base <- Bases
  Alternates <- OtherValues
  Path <- Files
  Text <- Strings
  RandomSuffixes <- HexSuffixes
  MaxEdits = 2
SPECIFICATION StartupSpec
INVARIANTS
  StartupTypeOK
  
  ReadsOnlyVetted
  OneArchPerLocalImage
  RunnerNamesTell
PROPERTIES
  LabelsSettle
