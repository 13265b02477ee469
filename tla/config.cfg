SPECIFICATION SteadySpec
CONSTANTS
  web = web
  dns = dns
  typo = typo
  None = None
  Items = {web, dns, typo}
  Valid = {web, dns}
  Lists <- AllLists
  FirstList <- FirstPair
  MaxFiles = 2
  MaxEdits = 3
INVARIANTS
  TypeOK
  SettledIsApplied
  HeldWhileApplied
PROPERTIES
  CleanWhenGone
  
