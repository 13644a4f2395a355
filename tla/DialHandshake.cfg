CONSTANTS
    NULL = NULL
    NullPK = NullPK
    na = na
    nb = nb
    nc = nc
    n1 = n1
    Initiators <- MCInitiators
    Responders <- MCResponders
    Compromised <- MCCompromised
    NoiseMsgs <- MCNoiseMsgs
    MaxTime = 2
    MaxPort = 1
    MaxAccepts = 2
SPECIFICATION Spec
INVARIANT TypeOK
INVARIANT AcceptedTimestampsIncrease
INVARIANT RequestAuthentic
INVARIANT ResponseAuthentic
