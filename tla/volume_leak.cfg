SPECIFICATION Spec
CONSTANTS
  m1 = m1
  v1 = v1
  v2 = v2
  Managers = {m1}
  Ids = {v1, v2}
  NoId = NoId
  Foreign = Foreign
  Metas = {"a"}
  Specs <- OneSizeSpecs
  SettledStates = {"AVAILABLE"}
  OutageStates = {"gone"}
  MaxEdits = 0
  MaxFaults = 0
  MaxOutages = 0
  MaxTogether = 3
INVARIANT FinalizerGuaranteesDeletion
CHECK_DEADLOCK FALSE
