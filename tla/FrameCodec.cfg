CONSTANTS
    ab = ab
    Base = 16
    Conns <- MCConns
    StreamIDs <- MCStreamIDs
    Addrs <- MCAddrs
    Windows <- MCWindows
    Data <- MCData
    Offsets <- MCOffsets
    MaxFrames = 3
SPECIFICATION FairSpec
CHECK_DEADLOCK FALSE
INVARIANT TypeOK
INVARIANT WireHoldsUnread
PROPERTY ImplementsFrameChannel
PROPERTY EveryFrameIsRead
