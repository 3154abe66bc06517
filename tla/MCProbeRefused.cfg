\* lib.rs:184: published uploads have an assigned id.
CONSTANTS
    thread1 = thread1
    thread2 = thread2
    game1 = game1
    game2 = game2
    body1 = body1
    body2 = body2
    NONE = NONE
    Threads <- MCThreads
    Tgids <- MCTgids
    TgidOf <- TwoGames
    Bodies <- MCBodies
    EffectIds = {0}
    RingSize = 2
    ChannelSize = 1
    Faults = {}
SYMMETRY BodySymmetry
SPECIFICATION ProbeSpec
INVARIANT
    UploadedIdsAreAssigned
