SPECIFICATION AllSpec
CONSTANTS
  Workers = {w1, w2}
  Others = {o1}
  Loop = loop
  MaxReq = 2
  HighWater = 1
  MaxPush = 1
  MaxClose = 1
PROPERTY ConnectionsEnd
