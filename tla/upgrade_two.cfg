SPECIFICATION Spec
CONSTANTS
  u1 = u1
  u2 = u2
  None = None
  Updates = {u1, u2}
  Versions = {1, 2, 3}
  FirstVersion = 1
  FirstTarget <- TwoTargets
  Targets <- OwnTargets
  UserPaths <- ShortPath
  Route <- StepwiseRoute
  MaxEdits = 1
INVARIANTS
  TypeOK
  BackupBeforeUpgrade
  NoEmptyBackup
PROPERTIES
  FirstFirmwareUnderSnapshot
  BackupNameStable
  ImplementsSafeUpgrade
