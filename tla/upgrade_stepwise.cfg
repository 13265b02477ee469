SPECIFICATION SteadySpec
CONSTANTS
  u1 = u1
  u2 = u2
  None = None
  Updates = {u1}
  Versions = {1, 2, 3}
  FirstVersion = 1
  FirstTarget <- LastTarget
  Targets <- AnyTarget
  UserPaths <- WidePath
  Route <- StepwiseRoute
  MaxEdits = 0
PROPERTIES
  UpgradeCompletes
