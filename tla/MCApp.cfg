\* Every order of uploads, erases, Plays, Stops, ticks and a shutdown; no
\* symmetry, because liveness is checked.
CONSTANTS
    tgid1 = tgid1
    tgid2 = tgid2
    dev1 = dev1
    dev2 = dev2
    loud = loud
    quiet = quiet
    mute = mute
    NONE = NONE
    EffectIds = {0, 1}
    Tgids <- MCTgids
    DeviceIds <- MCDevices
    Bodies <- MCBodies
    Silent <- MCSilent
    MIN_INTERVAL_MS = 2
SPECIFICATION AppFairSpec
INVARIANTS
    TypeOK
    StoreHoldsLatest
    PendingIsWanted
    ResolvingIsWanted
    OnlyWantedPlays
PROPERTIES
    ImplementsPlayRequests
    KnownUntilStopped
    HandlersReturn
