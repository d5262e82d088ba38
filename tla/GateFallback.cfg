CONSTANTS
    Profiles <- PunctualOnly
    ReceiverPreempts = FALSE
    MaxDelay = 0
    InputTimeout = 1
    RapidGap = 1
    HoldToAuto = 2
SPECIFICATION Spec
PROPERTY NoFallback
CHECK_DEADLOCK FALSE
