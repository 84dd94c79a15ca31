SPECIFICATION FairSpec
CONSTANTS
  m1 = m1
  s1 = s1
  s2 = s2
  s3 = s3
  s4 = s4
  Managers = {m1}
  Ids = {s1, s2, s3, s4}
  NoId = NoId
  MachineTypes = {"c1", "c2"}
  Metas = {"a"}
  Specs <- ReferenceSpecs
  SettledPower = {"RUNNING"}
  OutageStates = {}
  OutageViews <- VolumeLost
  MaxEdits = 1
  MaxFaults = 0
  MaxOutages = 1
  MaxTogether = 2
PROPERTIES EventuallyAsSpecified DeletionCompletes
CHECK_DEADLOCK FALSE
