SPECIFICATION FairSpec
CONSTANTS
  Fd = {3, 4, 5}
  Conn = {1, 2, 3}
  Peer = {p1}
  Port = {8080, 8081}
  ListenPort = {7000}
  MaxReady = 2
  MaxInput = 1
INVARIANTS EventsGoHome StatusIsOwn KeysDistinct
PROPERTY ConnectReturns
