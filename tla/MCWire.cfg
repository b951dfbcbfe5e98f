\* Two calls of Close, a goroutine that sends, a channel of two packets.
SPECIFICATION FairWireSpec
CONSTANTS
    Message <- MCMessage
    Plain <- OneShot
    Packet = {"air"}
    NoPacket = NoPacket
    Closer = {c1, c2}
    Sender = {w1}
    Capacity = 2
    Threshold = 3
    MaxWrites = 4
    MaxLabel = 3
    MaxPointer = 40
    MaxJumps = 4
    MaxString = 2
    MaxMessage = 130
INVARIANTS
    TypeOK
    
    ClosedIsQuiet
    ThreeFailuresPerWarning
    HandledWasSent
    PackedIsParsed
PROPERTIES
    CloseReturns
CHECK_DEADLOCK FALSE
