\* Gestures at any moment of the daemon's life.  One tick stands for half a
\* step (12.5ms); the bound is 8 ticks, well below the 250ms of timing.rs.
CONSTANTS
    padA = padA
    padB = padB
    NONE = NONE
    Pads <- MCPads
    device_map <- MCDeviceMap
    SineTable <- MCSine
    Gestures <- MCGestures
    Toys = {0}
    INITIAL_DELAY = 1
    MAX_DELAY = 5
    JITTER = 1
    SAMPLE_INTERVAL_MS = 2
    STEP_MS = 2
    FULL = 1000
    LATENCY_BOUND = 8
    AgeLimit = 21
SPECIFICATION SessionFairSpec
INVARIANTS
    TypeOK
    SchedulePlayable
    SamplesAreTheKeyframes
    ConstantsFollowTheirEnvelope
    RampsReachTheirEnds
    ConnectsInTime
    CommandsReachTheirToy
    FinalZeroInTime
    ToysAreToldBeforeExit
PROPERTY
    SignalEndsMain
