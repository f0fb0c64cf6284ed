SPECIFICATION Spec
CONSTANTS
  Handlers = {h1, h2}
  NoHandler = NoHandler
  NoTask = NoTask
  MaxEdits = 3
  FirstVersion = 1
  ChannelCapacity = 16
  ColdPaths = {"idle"}
  Transports = {"push"}
  MayPanic = FALSE
  ReopenInFlight = FALSE
PROPERTY ShownMonotone
SYMMETRY HandlerSymmetry
CHECK_DEADLOCK FALSE
