SPECIFICATION Spec
CONSTANTS
  Handlers = {h1, h2}
  NoHandler = NoHandler
  NoTask = NoTask
  MaxEdits = 2
  FirstVersion = 1
  ChannelCapacity = 1
  ColdPaths = {"idle"}
  Transports = {"push"}
  MayPanic = TRUE
  ReopenInFlight = TRUE
PROPERTY HandlersFinish
CHECK_DEADLOCK FALSE
