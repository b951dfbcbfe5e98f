\* A probe that wins between the check of the tiebreak and the announcement.
SPECIFICATION Spec
CONSTANTS
    s1 = s1
    s2 = s2
    Service = {s1}
    Base = {x}
    MaxSuffix = 2
    Rdata <- MCRdataOne
    PeerRdata = {2}
    ProbeCount = 3
    WriteMayFail = FALSE
    NoService = NoService
    Host = Host
PROPERTIES
    LoserIsRenamed
CHECK_DEADLOCK FALSE
