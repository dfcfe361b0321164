SPECIFICATION RxSpec
CONSTANTS
    PacketLen = 4
    PreLen = 2
    SerialCap = 2
    Capacity = 5
    PumpMax = 3
    DrainMax = 4
INVARIANT NeverJoined
