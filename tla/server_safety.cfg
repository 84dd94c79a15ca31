SPECIFICATION Spec
CONSTANTS
  m1 = m1
  s1 = s1
  s2 = s2
  Managers = {m1}
  Ids = {s1, s2}
  NoId = NoId
  MachineTypes = {"c1", "c2"}
  Metas = {"a", "b"}
  Specs <- DriftSpecs
  SettledPower = {"RUNNING"}
  OutageStates = {"gone", "PAUSED"}
  OutageViews <- NoViews
  MaxEdits = 1
  MaxFaults = 1
  MaxOutages = 1
  MaxTogether = 2
INVARIANTS TypeOK ReadyInSync
PROPERTIES OrphanOnlyFromLostWrite CreateOnlyWhenNeeded ImplementsOwned
CHECK_DEADLOCK FALSE
