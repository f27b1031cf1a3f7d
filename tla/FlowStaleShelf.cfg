SPECIFICATION Spec
CONSTANTS
  Strategy = "hold_forever"
  Reliable = TRUE
  BufferSize = 2
  InitSeq = 4
  SeqMod = 16
  NoPayload = {1}
  MaxSends = 4
  MaxCopies = 1
  MaxDelivered = 6
INVARIANT ConsecutiveDelivery
