\* UnregisterService while the service is probed, announced or answered for.
SPECIFICATION Spec
CONSTANTS
    s1 = s1
    s2 = s2
    Service = {s1}
    Base = {x}
    MaxSuffix = 2
    Rdata <- MCRdataOne
    PeerRdata = {2}
    ProbeCount = 3
    WriteMayFail = FALSE
    NoService = NoService
    Host = Host
INVARIANTS
    UnregisteredIsWithdrawn
CHECK_DEADLOCK FALSE
