SPECIFICATION Spec
CONSTANTS
  Handlers = {h1, h2}
  NoHandler = NoHandler
  NoTask = NoTask
  MaxEdits = 3
  FirstVersion = 1
  ChannelCapacity = 1
  ColdPaths = {"idle", "save", "manual"}
  Transports = {"push", "pull"}
  MayPanic = FALSE
  ReopenInFlight = FALSE
INVARIANTS TypeOK TextInSync MainLaneLatest
SYMMETRY HandlerSymmetry
CHECK_DEADLOCK FALSE
