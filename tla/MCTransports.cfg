SPECIFICATION FairSpec
CONSTANTS
    Kinds <- MCKinds
    MaxFrames = 3
    MaxSends = 2
    MaxEnds = 2
INVARIANTS TypeOK OrderKept
PROPERTIES ImplementsTransport NothingStuck
CHECK_DEADLOCK FALSE
