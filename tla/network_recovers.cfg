SPECIFICATION FairSpec
CONSTANTS
  m1 = m1
  v1 = v1
  v2 = v2
  v3 = v3
  v4 = v4
  Managers = {m1}
  Ids = {v1, v2, v3, v4}
  NoId = NoId
  Foreign = Foreign
  Unset = Unset
  Fields <- DhcpField
  Labels <- TwoLabels
  FieldValues = {"on"}
  Specs <- OwnedSpecs
  OutageStates = {"gone"}
  MaxEdits = 1
  MaxFaults = 1
  MaxOutages = 1
  MaxTogether = 1
PROPERTIES DeletionCompletes EventuallyAsSpecified
CHECK_DEADLOCK FALSE
