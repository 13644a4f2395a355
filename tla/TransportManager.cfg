CONSTANTS
    NULL = NULL
    i1 = i1
    i2 = i2
    i3 = i3
    p1 = p1
    d1 = d1
    a1 = a1
    u1 = u1
    cl = cl
    cl2 = cl2
    sv = sv
    IDs <- MCIDs
    PublicIDs <- MCPublicIDs
    FactoryIDs <- MCOneID
    RemoteOf <- MCRemoteOf
    KnownEntries <- MCOneID
    DefaultNodes <- MCDefaultFirst
    Servers <- MCServers
    Dialers <- MCNone
    Acceptors <- MCAcceptors
    Users <- MCUsers
    Closers <- MCNone
    MaxManaged = 2
    TrChanCap = 1
    MaxBytes = 1
    Cancellable = FALSE
SPECIFICATION Spec
INVARIANT TypeOK
INVARIANT WorkersCounted
INVARIANT OpenTransportsAreManaged
CHECK_DEADLOCK FALSE
INVARIANT TableHoldsOpenTransports
