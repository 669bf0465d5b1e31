SPECIFICATION FairSpec
CONSTANTS
    Tree <- MCTree
    Work <- MCWork
    Peer = {p1}
    OwnChains <- MCDamaged
    PeerChains <- MCTwigs
    WINDOW = 1
    MAX_GETHEADERS_COUNT = 2
    MAX_GETBATCHES_COUNT = 1
    BATCH_LOOKAHEAD = 2
    MAX_PREFETCH_BUFFER = 2
    CHECKPOINT = 2
    MaxEvents = 1
    MaxTasks = 2
CHECK_DEADLOCK FALSE
INVARIANTS SessionSound
PROPERTIES OnlyHeavierAdopted SessionEnds
