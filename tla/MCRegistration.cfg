\* Two services on one base name, peers that probe with a record in between.
SPECIFICATION FairSpec
CONSTANTS
    s1 = s1
    s2 = s2
    Service = {s1, s2}
    Base = {x}
    MaxSuffix = 2
    Rdata <- MCRdata
    PeerRdata = {2}
    ProbeCount = 2
    WriteMayFail = TRUE
    NoService = NoService
    Host = Host
INVARIANTS
    TypeOK
    ProbeChDiscipline
    MapKeyIsName
    ProbedBeforeServed
    NoStrandedService
PROPERTIES
    AnnouncedStable
    PanicOnlyInWindow
    MapIsStable
    DrainedIsSilent
    ProbeSettles
CHECK_DEADLOCK FALSE
