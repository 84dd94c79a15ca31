SPECIFICATION Spec
CONSTANTS
  m1 = m1
  v1 = v1
  v2 = v2
  Managers = {m1}
  Ids = {v1, v2}
  NoId = NoId
  Foreign = Foreign
  Unset = Unset
  Fields <- DhcpField
  Labels <- TwoLabels
  FieldValues = {"on"}
  Specs <- AllSpecs
  OutageStates = {"gone", "FAILED"}
  MaxEdits = 1
  MaxFaults = 1
  MaxOutages = 1
  MaxTogether = 2
INVARIANT TypeOK
PROPERTIES OrphanOnlyFromLostWrite AdoptedUntouched ImplementsOwned
CHECK_DEADLOCK FALSE
