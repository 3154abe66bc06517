\* Retriggers, stops and a shutdown of two devices that share a toy, with lost
\* commands and a scale knob that goes below zero and past full.
CONSTANTS
    pad = pad
    wheel = wheel
    toy1 = toy1
    toy2 = toy2
    DeviceIds <- MCDevices
    Toys <- MCToys
    TargetsOf <- MCTargetsOf
    Schedules <- MCSchedules
    FULL = 1
    Scales <- WildScales
    MaxGen = 2
    SendsMayFail = TRUE
SPECIFICATION PlaybackSpec
INVARIANTS
    TypeOK
    NoOrphanPlayback
    SlotHoldsNewest
    OnlyStaleOrLostCommandsStick
PROPERTY
    SupersededLeavesSlotAlone
