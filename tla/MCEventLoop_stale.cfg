SPECIFICATION Spec
CONSTANTS
  Fds = {f1}
  Workers = {w1}
  MaxConn = 2
  MaxClose = 1
INVARIANT ErrorsAreReal
