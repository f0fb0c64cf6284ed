SPECIFICATION Spec
CONSTANTS
  u1 = u1
  u2 = u2
  m = m
  f1 = f1
  f2 = f2
  Uris = {u1, u2}
  ModulePath <- SameModule
  Folder <- TwoFolders
  Handlers = {h1, h2}
  MaxTexts = 3
  MaxSwitches = 1
  MayPanic = TRUE
INVARIANTS TypeOK  OneEntryPerFile  CallGraphCurrent ModulePathsLead
SYMMETRY HandlerSymmetry
CHECK_DEADLOCK FALSE
