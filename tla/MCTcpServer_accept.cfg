CONSTANTS
  k1 = k1
  k2 = k2
  k3 = k3
  NoFd = NoFd
  Clients <- MCTwo
  MaxClients = 2
SPECIFICATION ReadingSpec
PROPERTY AcceptReturns
