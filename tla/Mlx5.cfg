SPECIFICATION FairSpec
CONSTANTS
  NumWqe = 3
  Strides = 4
  NumCqe = 4
  WqeIds = 5
  MaxFrames = 30
INVARIANTS TypeOK NoPhantomFrame UncountedIntact FrameInTurn
PROPERTY EveryFramePolled
