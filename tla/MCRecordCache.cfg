\* Shared and unique records, own host records, passive observation, and a
\* followed SRV record that nobody else asks for.
SPECIFICATION Spec
CONSTANTS
    Name = {"n", "m"}
    Type = {"shared", "unique"}
    Rdata = {1, 2}
    MaxTTL = 10
    Response <- MCResponse
    Tick = 2
    PassiveCount = 2
    PassiveTTL = 1
    PassiveWindow = 1
    PassiveForget = 1
    Observed <- MCObserved
    Browsed <- MCBrowsed
    Removable = {"n"}
    HostKey <- A
    HostRecords <- MCHostRecords
    HostTTL = 2
INVARIANTS
    TypeOK
    NoDuplicates
    PurgedWithinATick
    RefreshedBeforeExpiry

    
