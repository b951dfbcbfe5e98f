\* Two host names of the owner; lifetimes of one and of five periods.
SPECIFICATION FairSpec
CONSTANTS
    MaxGen = 2
    PtrTTL = 1
    SrvTTL = 5
    AddrTTL = 1
INVARIANTS
    TypeOK
    InfoComplete
    FollowedIsLive
PROPERTIES
    LookupFailsByLossOnly
    EventuallyResolved
    DepartedFades
    DepartedStaysAway
