SPECIFICATION Spec
CONSTANTS
  b1 = b1
  b2 = b2
  b3 = b3
  i1 = i1
  i2 = i2
  x = x
  y = y
  Importers = {i1}
  Bundles = {b1, b2, b3}
  ProfilesOf <- BundleProfiles
  RevokedBy <- Revocations
  HasTemplates = {b1, b2}
  Torn = Torn
  NoTemplate = NoTemplate
  Tearing = TRUE
  MaxImports = 2
  MaxCrashes = 1
INVARIANT UnreadableNotOverwritten
