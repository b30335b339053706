SPECIFICATION Spec
CONSTANTS
  u = u
  v = v
  anonymous = anonymous
  absent = absent
  User = {u, v}
  RoleSets <- MCRoleSets
  Letter <- MCLetters
  Bodies <- MCBodies
  PatchesSent <- MCPatches
  ClientFilters <- MCFilters
  MaxWrites = 3
SYMMETRY Users
VIEW View
INVARIANT StoredConforms
PROPERTIES RequestsAreGranted FoundIsGranted
CHECK_DEADLOCK FALSE
