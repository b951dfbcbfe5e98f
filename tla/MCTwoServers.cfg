\* Two servers that want one name, in three configurations.
SPECIFICATION FairSpec
CONSTANTS
    v1 = v1
    v2 = v2
    h1 = h1
    h2 = h2
    Server = {v1, v2}
    Config <- MCConfig
    MaxSuffix = 2
    ProbeCount = 2
    HostProbes = 1
INVARIANTS
    TypeOK
    TimelyProbeWins
    TimelyNoPanic
    

    
    
CHECK_DEADLOCK FALSE
