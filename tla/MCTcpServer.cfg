CONSTANTS
  k1 = k1
  k2 = k2
  k3 = k3
  NoFd = NoFd
  Clients <- MCThree
  MaxClients = 2
SPECIFICATION ReadingSpec
INVARIANTS TypeOK TableSound CountAccounts
PROPERTIES BroadcastExclusive ClientAccepted BroadcastEnds
