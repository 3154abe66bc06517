\* A controller that stays plugged is read in the end, with all that can come before.
CONSTANTS
    pad = pad
    wheel = wheel
    event0 = event0
    event1 = event1
    NONE = NONE
    DeviceIds <- MCDevices
    Paths <- MCPaths
    Blocks <- MCBlocks
    ChannelSize = 1
    MaxPlugs = 3
    MaxWrites = 1
SPECIFICATION ReadersFairSpec
PROPERTY
    DevicesAreRead
