SPECIFICATION Spec
CONSTANTS
  Client = {c1, c2}
  MaxPacket = 3
  MaxQueue = 3
  MaxReady = 3
INVARIANTS AcceptedOnce WaitingClientsSeen ReadsConsecutive
