SPECIFICATION GatewaySpec
CONSTANTS
  Clients = {c1}
  Addrs = {a1}
  MaxFd = 3
  MaxLink = 2
  MaxReq = 1
INVARIANT NoClientIsBackend
