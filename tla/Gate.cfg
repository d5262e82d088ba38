CONSTANTS
    Profiles <- AllProfiles
    ReceiverPreempts = FALSE
    MaxDelay = 0
    InputTimeout = 1
    RapidGap = 1
    HoldToAuto = 1
SPECIFICATION Spec
INVARIANTS TypeOK ShotIsEarned ClicksAreNew EventsDieWithTheirGate SafeOutlastsTheGate
CHECK_DEADLOCK FALSE
