SPECIFICATION Spec
CONSTANTS
  Handlers = {h1, h2, h3, h4}
  NoHandler = NoHandler
  NoTask = NoTask
  MaxEdits = 4
  FirstVersion = 1
  ChannelCapacity = 1
  ColdPaths = {"manual"}
  Transports = {"push"}
  MayPanic = FALSE
  ReopenInFlight = FALSE
INVARIANT LatestWhenQuiet
PROPERTY ShownMonotone
SYMMETRY HandlerSymmetry
CHECK_DEADLOCK FALSE
