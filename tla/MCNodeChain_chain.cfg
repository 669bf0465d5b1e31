SPECIFICATION FairSpec
CONSTANTS
    k1 = k1
    k2 = k2
    k3 = k3
    Key = {k1, k2, k3}
    KeysOf <- MCKeysOf
    Tree <- Forks
    Work <- EqualWork
    SNAPSHOT_INTERVAL = 2
    STATE_CACHE_SIZE = 3
    KeptSnapshots = 2
    Milestone = 4
    MaxSaves = 1
    MaxCrashes = 1
INVARIANTS  HeaviestAccepted  StoredBacked
PROPERTIES StoredCatchesUp
