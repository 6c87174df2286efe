SPECIFICATION FairSpec
CONSTANTS
    ProtocolLists <- MCProtocolLists
    NeedBody <- MCNeedBody
    MaxPayloads = 4
    MaxSends = 2
    MaxQueue = 2
INVARIANTS TypeOK OneAtATime
PROPERTIES ImplementsSocket Settles
CHECK_DEADLOCK FALSE
