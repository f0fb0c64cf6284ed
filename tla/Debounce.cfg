SPECIFICATION Spec
CONSTANTS
  Callers = {c1, c2}
  Tasks = {t1, t2, t3}
  ChannelCapacity = 2
  NoTask = NoTask
  NoCaller = NoCaller
INVARIANTS TypeOK FlushIsBarrier ReplacedNeverRuns PendingHasTimer
PROPERTIES FlushReturns TasksResolve KeepsPromise
CHECK_DEADLOCK FALSE
