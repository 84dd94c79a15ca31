SPECIFICATION Spec
CONSTANTS
  m1 = m1
  Managers = {m1}
  NoId = NoId
  Half = 8
  NoMaintenance = NoMaintenance
  NoCfg = NoCfg
  Names = {"c", "theirs"}
  Foreign = "theirs"
  Existing = {"theirs"}
  Specs <- AllSpecs
  OutageStates = {"STATE_HIBERNATED", "none"}
  MaxEdits = 1
  MaxFaults = 1
  MaxOutages = 1
  MaxTogether = 2
INVARIANT TypeOK
PROPERTIES RecordedClusterNotLeft OnlyOwnedTouched AdoptedUntouched CorrectionSettles
CHECK_DEADLOCK FALSE
