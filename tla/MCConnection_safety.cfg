SPECIFICATION Spec
CONSTANTS
  Workers = {w1, w2}
  Others = {o1}
  Loop = loop
  MaxReq = 2
  HighWater = 2
  MaxPush = 1
  MaxClose = 1
  Outbound = FALSE
INVARIANT ConnInv
INVARIANT SerialFifo
INVARIANT ReplyOrder
INVARIANT DrainedCloseLosesNothing
INVARIANT CleanupIsolation
INVARIANT FdReleasedLast
PROPERTY NextSessionKept
INVARIANT CloseOwned
INVARIANT OutputArmed
INVARIANT SendCountExact
PROPERTY ServiceSpec
SYMMETRY WorkerSymmetry
