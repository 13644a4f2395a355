\* The session with two Writes in one behaviour: on one stream after the
\* other, on both directions of a stream, or on two streams whose FWD and ACK
\* frames share the connection.  509 thousand distinct states, more than five
\* minutes with the two liveness properties; Session.cfg is the instance with
\* one Write.
CONSTANTS
    Base = 2
    Ends = {1, 2}
    Initiator = 1
    RandomIDs = {0, 1, 2}
    Addrs <- MCAddrs
    Windows <- MCWindows
    AcceptBufferSize = 1
    Writes = {5}
    MaxDials = 2
    MaxWrites = 2
SPECIFICATION FairSpec
CHECK_DEADLOCK FALSE
INVARIANT TypeOK
INVARIANT StreamEndsAgree
INVARIANT FlowControl
INVARIANT TablesAgreeWhenQuiet
PROPERTY WriteCompletes
PROPERTY TeardownReachesPeer
