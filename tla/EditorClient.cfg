SPECIFICATION Spec
CONSTANTS
  Windows = {w1}
  Kinds = {"activate", "restart", "scan"}
  Configs = {"default", "custom"}
  Default = {"default"}
  NoFile = NoFile
  NoClient = NoClient
  MaxCommands = 3
  MaxClosed = 1
INVARIANTS TypeOK PartialIsTransient  OneServer SettledRunsSettings
PROPERTY RestartsServed
CHECK_DEADLOCK FALSE
