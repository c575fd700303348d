SPECIFICATION AllSpec
CONSTANTS
  Workers = {w1}
  Writer = dbw
  PoolSize = 1
  MaxQueue = 3
  MaxBatch = 2
  LeaseBeats = 2
  MaxMessages = 4
  MaxOutages = 1
  MaxRestarts = 1
  PoolWorkers = {p1, p2}
  Loops = {l1, l2}
  MaxTasks = 3
  Loggers = {g1, g2}
  MaxLines = 3
INVARIANT MessagesAccounted
INVARIANT DrainedAtExit
INVARIANT ConnectionsKept
INVARIANT CompletedOnce
INVARIANT StopDrains
INVARIANT LinesInOrder
PROPERTY MessagesReachDatabase
PROPERTY TasksComplete
PROPERTY LinesReachFile
PROPERTY StopsReturn
