SPECIFICATION Spec
CONSTANTS
  Owners = {o1, o2}
  Codes = {c1, c2}
  MaxEntries = 1
  MaxCrashes = 1
  DiskFails = FALSE
SYMMETRY Symmetry
INVARIANTS
  NamedFilesWritten
  ResolveFindsCode
