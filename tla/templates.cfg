SPECIFICATION SteadySpec
CONSTANTS
  fw = fw
  nat = nat
  vip = vip
  stock = stock
  own = own
  good = good
  bad = bad
  num = num
  leaf = leaf
  EmptyName = EmptyName
  NoRule = NoRule
  Malformed = Malformed
  None = None
  Null = Null
  NoList = NoList
  NoFile = NoFile
  Failed = Failed
  Sources = {1, 2, 3}
  RuleNames <- MCRuleNames
  Handlers <- MCHandlers
  Commons = {stock, own}
  Defaults = stock
  Contents <- MCContents
  Scenarios <- MCScenarios
  Specs <- MCSpecs
  SubLists <- MCSubLists
  Items = {good, bad, num, leaf, Null}
  Objects = {good, bad, leaf}
  Valid = {good, leaf}
  Tmpl = TRUE
  Cuts = {0}
  MaxItems = 2
INVARIANTS TypeOK MergeDecides LoopsMatch  NoTagLeft
PROPERTIES NothingFilledInvalid  
