SPECIFICATION AllSpec
CONSTANTS
  LimitFds = {f1, f2}
  Cost = 2
  Rate = 1
  Capacity = 3
  GlobalRate = 2
  GlobalCapacity = 5
  MaxTime = 3
  MaxLogin = 2
  Frames <- MCFrames
  MaxFrames = 3
  InitSize = 6
  Extra = 4
  MaxBody = 9
  ValidTypes = {1, 9, 12}
  HttpRequests <- MCRequestSet
  MaxRequests = 2
  HttpTexts <- MCTexts
  HttpSize = 5
  HttpExtra = 3
  HttpMax = 3
  MaxServerRoom = 2
  MaxId = 4
  Clients = {c1, c2}
  Addrs = {a1}
  MaxFd = 2
  MaxLink = 2
  MaxReq = 1
  Fds = {n1, n2}
  MaxSession = 3
  MaxRoom = 2
  MaxCrash = 1
INVARIANT RateBound
INVARIANT BucketsFollowConnections
INVARIANT FramesDelivered
INVARIANT RequestsDelivered
INVARIANT UiAgrees
INVARIANT AnsweredOnce
INVARIANT NumbersFollowLinks
INVARIANT MembershipInv
INVARIANT RoomsPersisted
INVARIANT EmptyRoomsGo
SYMMETRY Symmetry
CHECK_DEADLOCK FALSE
