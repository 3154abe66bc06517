\* timing.rs:49-52: the last command of a toy is zero.
CONSTANTS
    pad = pad
    wheel = wheel
    toy1 = toy1
    toy2 = toy2
    DeviceIds <- MCDevices
    Toys <- MCToys
    TargetsOf <- MCTargetsOf
    Schedules <- MCSchedules
    FULL = 1
    Scales = {1}
    MaxGen = 2
    SendsMayFail = FALSE
SPECIFICATION PlaybackSpec
INVARIANT
    ToysEndAtZero
