SPECIFICATION FairSpec
CONSTANTS
  m1 = m1
  v1 = v1
  v2 = v2
  v3 = v3
  v4 = v4
  v5 = v5
  Managers = {m1}
  Ids = {v1, v2, v3, v4, v5}
  NoId = NoId
  Foreign = Foreign
  Metas = {"a"}
  Specs <- OwnedSpecs
  SettledStates = {"AVAILABLE"}
  OutageStates = {"DELETING"}
  MaxEdits = 1
  MaxFaults = 1
  MaxOutages = 1
  MaxTogether = 2
PROPERTIES EventuallyMirrored DeletionCompletes
CHECK_DEADLOCK FALSE
