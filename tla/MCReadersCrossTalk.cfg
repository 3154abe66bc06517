\* The end-to-end design, 110-111: no event counts for another device.
CONSTANTS
    pad = pad
    wheel = wheel
    event0 = event0
    event1 = event1
    NONE = NONE
    DeviceIds <- MCDevices
    Paths <- MCPaths
    Blocks <- MCBlocks
    ChannelSize = 1
    MaxPlugs = 2
    MaxWrites = 1
SPECIFICATION ReadersSpec
INVARIANT
    NoCrossTalk
