SPECIFICATION Spec
CONSTANTS
  web = web
  dns = dns
  typo = typo
  None = None
  Items = {web, dns, typo}
  Valid = {web, dns}
  Lists <- ValidLists
  FirstList <- FirstPair
  MaxFiles = 2
  MaxEdits = 1
INVARIANTS
  SettledIsExact
