\* lib.rs:34: the envelope is applied to periodic, constant and ramp effects.
CONSTANTS
    padA = padA
    padB = padB
    NONE = NONE
    Pads <- MCPads
    device_map <- MCDeviceMap
    SineTable <- MCSine
    Gestures <- MCGestures
    Toys = {0}
    INITIAL_DELAY = 1
    MAX_DELAY = 5
    JITTER = 1
    SAMPLE_INTERVAL_MS = 2
    STEP_MS = 2
    FULL = 1000
    LATENCY_BOUND = 8
    AgeLimit = 21
SPECIFICATION SessionSpec
INVARIANT EnvelopeIsApplied
