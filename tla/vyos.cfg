SPECIFICATION SteadySpec
CONSTANTS
  v1 = v1
  v2 = v2
  lan = lan
  wan = wan
  NoPorts = NoPorts
  None = None
  Versions <- MCVersions
  Layouts <- MCLayouts
  FirstVersion = v1
  FirstLayout = lan
  HasCloudInit = FALSE
  Immediate = TRUE
  MaxEdits = 1
  MaxLives = 2
INVARIANTS TypeOK QuietMeansProvided
PROPERTIES MadeUnderFinalizer DeletionCompletes
