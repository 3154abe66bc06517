\* The race design, 120-121: a Stop was written after the Plays processed before it.
CONSTANTS
    pad = pad
    wheel = wheel
    event0 = event0
    event1 = event1
    NONE = NONE
    DeviceIds <- MCPad
    Paths <- MCPaths
    Blocks <- MCBlocks
    ChannelSize = 1
    MaxPlugs = 3
    MaxWrites = 3
SPECIFICATION ReadersSpec
PROPERTY
    StopFollowsItsPlays
