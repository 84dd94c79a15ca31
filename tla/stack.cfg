SPECIFICATION FairSpec
CONSTANTS
  m1 = m1
  v1 = v1
  v2 = v2
  v3 = v3
  s1 = s1
  s2 = s2
  Managers = {m1}
  NoId = NoId
  Foreign = Foreign
  VolumeIds = {v1, v2, v3}
  ServerIds = {s1, s2}
  MachineTypes = {"c1"}
  Metas = {"a"}
  VolumeSpecs <- OneVolume
  ServerSpecs <- OneServer
  DeleteOnTermination = {s1}
  FirstVolume = v1
  FirstServer = s1
CHECK_DEADLOCK FALSE
PROPERTIES VolumeOutlivesServer BothGo ServerBootsFromVolume
