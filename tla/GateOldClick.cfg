CONSTANTS
    Profiles <- LossyOnly
    ReceiverPreempts = FALSE
    MaxDelay = 0
    InputTimeout = 1
    RapidGap = 1
    HoldToAuto = 2
SPECIFICATION Spec
INVARIANT NoOldClick
CHECK_DEADLOCK FALSE
