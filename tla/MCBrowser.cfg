\* Two browsers of one type, channels of capacity one.
SPECIFICATION Spec
CONSTANTS
    b1 = b1
    b2 = b2
    c1 = c1
    c2 = c2
    Browser = {b1, b2}
    Instance = {i1}
    Chan = {c1, c2}
    Cap = 1
    NoBrowser = NoBrowser
SYMMETRY Symmetry
INVARIANTS
    TypeOK
    ViewMatches
    OneLoopUntilStopped
PROPERTIES
    PanicOnlyByRestart
CHECK_DEADLOCK FALSE
