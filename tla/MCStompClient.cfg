SPECIFICATION FairSpec
CONSTANTS
    d1 = d1
    d2 = d2
    u1 = u1
    Destinations <- MCDestinations
    UserIds <- MCUserIds
    DestinationOf <- MCDestinationOf
    HeartBeats <- MCHeartBeats
    MaxCalls = 3
    MaxMessages = 2
    MaxBatch = 2
INVARIANTS TypeOK MessagesAreOwn ProtocolKept
PROPERTIES EveryMessageHandled
CHECK_DEADLOCK FALSE
