SPECIFICATION CleanupSpec
CONSTANTS
  None = None
  Versions = {v1}
  Layouts = {two}
  FirstVersion = v1
  FirstLayout = two
  Uploaded <- AllUploaded
  MaxEdits = 0
  MaxKeys = 1
  v1 = v1
  v2 = v2
  two = two
  three = three
PROPERTIES
  DeletionCompletes
