SPECIFICATION Spec
CONSTANTS
  m1 = m1
  m2 = m2
  Motors = {m1, m2}
  Dm = {}
  HoldsPosition = {}
  Units <- SharedUnit
  RxDepth = 2
  MaxCancellation = 2
  MaxProtocol = 2
  MaxEnable = 1
  MaxRevision = 1
  MaxOrder = 1
  MaxSequence = 1
  MaxRecoveries = 1
  DriveUpsets = FALSE
ACTION_CONSTRAINT OnlyM1IsDisturbed
INVARIANT StoppedIsQuiet
 
