SPECIFICATION Spec
CONSTANTS
  None = None
  Versions = {v1, v2}
  Layouts = {two, three}
  FirstVersion = v1
  FirstLayout = two
  Uploaded <- AllUploaded
  MaxEdits = 1
  MaxKeys = 3
  v1 = v1
  v2 = v2
  two = two
  three = three
INVARIANTS
  TypeOK
  NoOrphanMachine
PROPERTIES
  TokenKept
  CleanWhenGone
