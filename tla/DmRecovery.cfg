SPECIFICATION Spec
CONSTANTS
  m1 = m1
  m2 = m2
  Motors = {m1}
  Dm = {m1}
  HoldsPosition = {m1}
  Units <- OneUnit
  RxDepth = 2
  MaxCancellation = 2
  MaxProtocol = 2
  MaxEnable = 1
  MaxRevision = 0
  MaxOrder = 3
  MaxSequence = 0
  MaxRecoveries = 3
  DriveUpsets = TRUE
INVARIANTS  RecoveryIsSilent FrameOwnsCallback
 
