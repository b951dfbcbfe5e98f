\* A followed SRV record that other hosts ask for, too.
SPECIFICATION Spec
CONSTANTS
    Name = {"m"}
    Type = {"shared", "unique"}
    Rdata = {1}
    MaxTTL = 10
    Response <- MCFollowedOnly
    Tick = 2
    PassiveCount = 3
    PassiveTTL = 2
    PassiveWindow = 6
    PassiveForget = 12
    Observed <- MCObservedFollowed
    Browsed <- MCBrowsed
    Removable = {}
    HostKey <- SRV
    HostRecords <- MCNoHostRecords
    HostTTL = 10
INVARIANTS
    RefreshedBeforeExpiry
