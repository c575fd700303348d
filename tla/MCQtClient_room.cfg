SPECIFICATION ClientSpec
CONSTANTS
  MaxServerRoom = 2
  MaxId = 3
INVARIANT RoomAgrees
CHECK_DEADLOCK FALSE
