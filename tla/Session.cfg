CONSTANTS
    Base = 2
    Ends = {1, 2}
    Initiator = 1
    RandomIDs = {0, 1, 2}
    Addrs <- MCAddrs
    Windows <- MCWindows
    AcceptBufferSize = 1
    Writes = {5}
    MaxDials = 2
    MaxWrites = 1
SPECIFICATION FairSpec
CHECK_DEADLOCK FALSE
INVARIANT TypeOK
INVARIANT StreamEndsAgree
INVARIANT FlowControl
INVARIANT TablesAgreeWhenQuiet
PROPERTY WriteCompletes
PROPERTY TeardownReachesPeer
