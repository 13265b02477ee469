SPECIFICATION FairSpec
CONSTANTS
  u1 = u1
  u2 = u2
  None = None
  Updates = {u1}
  Versions = {1, 2}
  FirstVersion = 1
  FirstTarget <- OneTarget
  Targets <- AnyTarget
  UserPaths <- ShortPath
  Route <- StraightRoute
  MaxEdits = 0
PROPERTIES
  UpgradeCompletes
