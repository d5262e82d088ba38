SPECIFICATION FairSpec
CONSTANTS
  m1 = m1
  m2 = m2
  Motors = {m1}
  Dm = {}
  HoldsPosition = {}
  Units <- OneUnit
  RxDepth = 2
  MaxCancellation = 2
  MaxProtocol = 3
  MaxEnable = 1
  MaxRevision = 0
  MaxOrder = 1
  MaxSequence = 0
  MaxRecoveries = 2
  DriveUpsets = FALSE
PROPERTIES StopIsServed RecoveryEnds
