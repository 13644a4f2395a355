CONSTANTS
    NULL = NULL
    i1 = i1
    i2 = i2
    i3 = i3
    p1 = p1
    d1 = d1
    a1 = a1
    u1 = u1
    cl = cl
    cl2 = cl2
    sv = sv
    IDs <- MCOneID
    PublicIDs <- MCOneID
    FactoryIDs <- MCOneID
    RemoteOf <- MCRemoteOf
    KnownEntries <- MCNone
    DefaultNodes <- MCNoDefaults
    Servers <- MCServers
    Dialers <- MCDialers
    Acceptors <- MCAcceptors
    Users <- MCNone
    Closers <- MCNone
    MaxManaged = 2
    TrChanCap = 1
    MaxBytes = 0
    Cancellable = FALSE
SPECIFICATION Spec
INVARIANT NoNilClose
CHECK_DEADLOCK FALSE
