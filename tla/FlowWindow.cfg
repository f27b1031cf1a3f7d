SPECIFICATION FairSpec
CONSTANTS
  Strategy = "hold_forever"
  Reliable = TRUE
  BufferSize = 3
  InitSeq = 4
  SeqMod = 12
  NoPayload = {1}
  MaxSends = 3
  MaxCopies = 1
  MaxDelivered = 4
INVARIANTS TypeOK NoLostPacket TimersFindable ConsecutiveDelivery NothingDueShelved IndInv
PROPERTIES ImplementsStream EventuallyRetired ImplementsFairStream
