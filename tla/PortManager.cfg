\* Two callers: what NextEmptyEphemeralPort returns, and that it returns under fair draws.
CONSTANTS
    MaxPort = 4
    firstEphemeralPort = 2
    lastEphemeralPort = 4
    NULL = NULL
    c1 = c1
    c2 = c2
    Callers <- MCCallers
SPECIFICATION FairSpec
INVARIANT TypeOK
INVARIANT ReturnsVacantEphemeral
PROPERTY ImplementsPortRegistry
PROPERTY NextEmptyReturns
\* A process that has panicked takes no further step.
CHECK_DEADLOCK FALSE
