SPECIFICATION Spec
CONSTANTS
  m1 = m1
  Managers = {m1}
  NoId = NoId
  Half = 8
  NoMaintenance = NoMaintenance
  NoCfg = NoCfg
  Names = {"c"}
  Foreign = "c"
  Existing = {}
  Specs <- AutoSpec
  OutageStates = {"STATE_HIBERNATED"}
  MaxEdits = 0
  MaxFaults = 0
  MaxOutages = 1
  MaxTogether = 3
PROPERTY AutoUpdatesStay
CHECK_DEADLOCK FALSE
