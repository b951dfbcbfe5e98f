\* One server on the link; its own probes are looped back to it.
SPECIFICATION FairSpec
CONSTANTS
    v1 = v1
    v2 = v2
    h1 = h1
    h2 = h2
    Server = {v1}
    Config <- MCNoText
    MaxSuffix = 3
    ProbeCount = 3
    HostProbes = 0
INVARIANT LosesOnlyToAPeer
CHECK_DEADLOCK FALSE
