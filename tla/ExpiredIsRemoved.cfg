\* A browser and a peer that disappears without a goodbye.
SPECIFICATION FairSpec
CONSTANTS
    b1 = b1
    b2 = b2
    c1 = c1
    c2 = c2
    Browser = {b1}
    Instance = {i1}
    Chan = {c1, c2}
    Cap = 1
    NoBrowser = NoBrowser
PROPERTIES
    ExpiredIsRemoved
CHECK_DEADLOCK FALSE
