SPECIFICATION Spec
CONSTANTS
  m1 = m1
  v1 = v1
  v2 = v2
  Managers = {m1}
  Ids = {v1, v2}
  NoId = NoId
  Foreign = Foreign
  Metas = {"a", "b"}
  Specs <- AllSpecs
  SettledStates = {"AVAILABLE", "ATTACHED"}
  OutageStates = {"gone", "ERROR"}
  MaxEdits = 1
  MaxFaults = 1
  MaxOutages = 1
  MaxTogether = 2
INVARIANTS TypeOK FinalizerCoversRecorded ReadyInSync
PROPERTIES
  OrphanOnlyFromLostWrite NoDuplicateCreate OnlyRecordedTouched
  AdoptedUntouched ImplementsOwned
CHECK_DEADLOCK FALSE
