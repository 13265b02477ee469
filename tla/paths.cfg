SPECIFICATION SteadySpec
CONSTANTS
  p1 = p1
  p2 = p2
  r1 = r1
  r2 = r2
  s1 = s1
  none = none
  Absent = Absent
  Paths <- MCPaths
  Ranges <- MCRanges
  Answers <- MCAnswers
  NoSteps = none
  Portal <- MCPortal
  MaxWrites = 4
INVARIANTS TypeOK OldestWins
PROPERTIES PublishedIsCurrent FrozenOncePublished PublishedWhenAlone
