SPECIFICATION FairSpec
CONSTANTS
  QueueDepth = 2
  BufferSize = 2
  MaxPieces = 4
  MaxGeneration = 2
INVARIANTS TypeOK DmaHasOneOwner
PROPERTIES NoSilentGap WorkGoesOn
