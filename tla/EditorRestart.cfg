SPECIFICATION Spec
CONSTANTS
  Windows = {w1}
  Kinds = {"activate", "restart", "scan"}
  Configs = {"default", "custom"}
  Default = {"default"}
  NoFile = NoFile
  NoClient = NoClient
  MaxCommands = 2
  MaxClosed = 0
PROPERTY ChangeRestarts
CHECK_DEADLOCK FALSE
