SPECIFICATION FairSpec
CONSTANTS
  Station = {s1, s2, s3}
  Sender = {s1}
  Drop = TRUE
  OutOfOrder = TRUE
  MaxSends = 3
INVARIANTS SwapsNeighbours NothingLost StationsAgree
PROPERTIES  ClosedForgotten
CHECK_DEADLOCK FALSE
