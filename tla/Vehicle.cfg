CONSTANTS
    Step = 5
    Tolerance = 1
    Speeds = {1, 2}
    Dwell = 1
    Settle = 1
    Jam = 3
    Brake = 3
    MaxRounds = 2
    MaxClicks = 2
    MaxGaps = 1
    MaxEnables = 2
    Reach = 2
    MaxDown = 1
    MaxAngle = 2
    MaxRate = 1
    MaxLead = 1
    MaxRequest = 2
    MaxLosses = 1
    MaxDrives = 2
    HalfTurn = 3
    MaxTurn = 1
    MaxCycle = 2
    MaxEpochs = 2
    CentreBand = 1
    Hysteresis = 1
    MaxFollow = 2
    Acceleration = 1
    Full = 2
    Recovery = 1
    MaxEnablings = 2
    CommandTimeout = 1
    MaxUptime = 2
    MaxPeerBoot = 2
    PermissionTimeout = 1
    EffortTimeout = 1
    Latency = 1
    Arm = 2
    MaxBoots = 2
    Profiles = {"PhysicalRemote", "KeyboardMouseSelectable", "ShooterSelectable"}
    VisionTimeout = 2
    Release = 2
    Late = 1
    MaxTime = 3
    MaxAims = 2
SPECIFICATION Spec
INVARIANTS TypeOK NothingIsForced   RevocationIsPrompt
PROPERTIES ShotsAreMeant  GoalsAreCurrent
CHECK_DEADLOCK FALSE
