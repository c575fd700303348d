SPECIFICATION Spec
CONSTANTS
  Workers = {}
  Others = {o1}
  Loop = loop
  MaxReq = 2
  HighWater = 1
  MaxPush = 1
  MaxClose = 1
  Outbound = TRUE
INVARIANT DrainedCloseLosesNothing
