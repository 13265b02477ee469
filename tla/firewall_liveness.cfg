SPECIFICATION ProvideSpec
CONSTANTS
  None = None
  Versions = {v1}
  Layouts = {two, three}
  FirstVersion = v1
  FirstLayout = two
  Uploaded <- AllUploaded
  MaxEdits = 1
  MaxKeys = 1
  v1 = v1
  v2 = v2
  two = two
  three = three
PROPERTIES
  BecomesAvailable
