\* Sequences and calls end, with lost commands.
CONSTANTS
    pad = pad
    wheel = wheel
    toy1 = toy1
    toy2 = toy2
    DeviceIds <- MCWheel
    Toys <- MCToys
    TargetsOf <- MCWheelTargetsOf
    Schedules <- MCSchedules
    FULL = 1
    Scales = {1}
    MaxGen = 2
    SendsMayFail = TRUE
SPECIFICATION PlaybackFairSpec
PROPERTIES
    SequencesEnd
    CallsReturn
