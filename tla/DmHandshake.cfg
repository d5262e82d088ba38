SPECIFICATION Spec
CONSTANTS
  m1 = m1
  m2 = m2
  Motors = {m1}
  Dm = {m1}
  HoldsPosition = {}
  Units <- OneUnit
  RxDepth = 2
  MaxCancellation = 2
  MaxProtocol = 4
  MaxEnable = 1
  MaxRevision = 0
  MaxOrder = 4
  MaxSequence = 0
  MaxRecoveries = 1
  DriveUpsets = FALSE
INVARIANTS TypeOK MotorsOK StatesAreTrue
