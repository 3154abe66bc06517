\* Two controllers that come, go, move and take each other's path while games write.
CONSTANTS
    pad = pad
    wheel = wheel
    event0 = event0
    event1 = event1
    NONE = NONE
    DeviceIds <- MCDevices
    Paths <- MCPaths
    Blocks <- MCPlays
    ChannelSize = 1
    MaxPlugs = 3
    MaxWrites = 3
SPECIFICATION ReadersSpec
INVARIANTS
    TypeOK
    RescanFindsAll
    OneReaderKeepsOrder
