SPECIFICATION LogSpec
CONSTANTS
  Loggers = {l1, l2}
  MaxLines = 2
PROPERTY LogStopReturns
