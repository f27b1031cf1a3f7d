SPECIFICATION Spec
CONSTANTS
  Base = 16
  InitSeq = 2
  AppId = 8
  Messages <- TwoEach
  MaxLen = 2
  Stale = {0, 15}
  Noise = {6}
  MaxQueue = 2
INVARIANTS HonestAccepted CorruptRefused MessagesFromFirst
