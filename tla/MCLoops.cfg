SPECIFICATION AllSpec
CONSTANTS
  Fds = {f1}
  Workers = {w1}
  MaxConn = 2
  MaxClose = 1
  NumLoops = 2
  ServerWorkers = {w1, w2}
  ServerConns = {c1, c2, c3}
  MaxReq = 2
INVARIANT NoLostWakeup
INVARIANT MapsMatchSockets
INVARIANT CleanExit
INVARIANT PoolStopsLast
PROPERTY ExecutorSpec
PROPERTY CallbacksRun
PROPERTY StopExits
PROPERTY StopCompletes
