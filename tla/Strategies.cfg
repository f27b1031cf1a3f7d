SPECIFICATION MCSpec
CONSTANTS
  Strategy = "drop_out_of_order"
  Reliable = TRUE
  BufferSize = 4
  InitSeq = 6
  SeqMod = 16
  NoPayload = {1}
  MaxSends = 4
  MaxCopies = 1
  MaxDelivered = 4
INVARIANTS DropRises NoOrderLosesNothing
