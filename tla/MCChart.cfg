SPECIFICATION FairSpec
CONSTANTS
    a = a
    b = b
    c = c
    Ids <- MCIds
    IdLists <- MCIdLists
    ViewLists <- MCViewLists
    LoadLength = 2
    MaxData = 3
    MaxHasty = 2
    MaxViews = 1
INVARIANTS TypeOK LatestInOrder PatientPageServed
PROPERTIES CallsEnd
CHECK_DEADLOCK FALSE
