SPECIFICATION FairSpec
CONSTANTS
  m1 = m1
  Managers = {m1}
  NoId = NoId
  Half = 8
  NoMaintenance = NoMaintenance
  NoCfg = NoCfg
  Names = {"c"}
  Foreign = "c"
  Existing = {}
  Specs <- OwnedSpecs
  OutageStates = {"none"}
  MaxEdits = 1
  MaxFaults = 0
  MaxOutages = 1
  MaxTogether = 3
PROPERTIES DeletionCompletes EventuallyAsSpecified
CHECK_DEADLOCK FALSE
