CONSTANTS
    RawDepth = 2
    Fragments = 2
    Pieces = 2
    MaxBatch = 3
    MaxFaults = 1
    Window = 7
    PollTime = 1
    Turnaround = 1
    MaxWire = 2
    Silence = 9
    Latency = 2
    MaxReboots = 2
    ResponseTimeout = 1
    RecoveryRetry = 1
    MaxRetries = 1
    RxDepth = 2
    WireLatency = 1
    Horizon = 4
    MaxZeros = 1
    MaxSent = 1
    MaxUpsets = 1
    ReplyTimeout = 2
    UartRetry = 1
    ReplyLatency = 1
    Short = 3
    Long = 5
    Timeout = 1
    MaxBytes = 6
    MaxChunk = 2
    MaxTime = 2
    FreshFor = 2
    ControlPeriod = 2
    MaxDt = 3
    MaxLate = 2
    MaxFailures = 2
    Ticks = 8
    Zero = 4
    FeedbackTimeout = 1
    Recentre = 1
    Periods = 4
    MaxReference = 3
    MaxActive = 2
SPECIFICATION Spec
INVARIANTS TypeOK BuffersAreRetired FramesAreTrue
PROPERTIES BatchesAreCarried WiresAreShared  LoopsAreBounded
CHECK_DEADLOCK FALSE
