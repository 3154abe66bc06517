\* Two games and everything that can go wrong; a ring and a channel of one
\* event each, so that both overflow and two events are on their way.
CONSTANTS
    thread1 = thread1
    thread2 = thread2
    game1 = game1
    game2 = game2
    body1 = body1
    body2 = body2
    NONE = NONE
    Threads <- MCThreads
    Tgids <- MCTgids
    TgidOf <- TwoGames
    Bodies <- MCBodies
    EffectIds = {0}
    RingSize = 1
    ChannelSize = 1
    Faults = {"enter_read", "exit_read", "refused_update", "foreign_id"}
SYMMETRY GameSymmetry
SPECIFICATION ProbeSpec
INVARIANT
    TypeOK
    MirrorsKernel
PROPERTY
    UploadsReportTheirCall
