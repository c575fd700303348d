SPECIFICATION Spec
CONSTANTS
  Workers = {w1}
  Writer = dbw
  PoolSize = 1
  MaxQueue = 1
  MaxBatch = 1
  LeaseBeats = 4
  MaxMessages = 1
  MaxOutages = 0
  MaxRestarts = 1
PROPERTY LeaseKept
