SPECIFICATION Spec
CONSTANTS
    Base = 4
    IntBytes = 2
    MaxScript = 20
    MaxDepth = 4
    MaxItem = 6
    MaxSigops = 3
    MaxLeaves = 17
    SmtHeight = 5
    CacheMin = 2
    CoinIds = {1, 2, 7, 9, 12, 18, 24, 31}
    P = 2
    FprInverse = 5
    ByteBits = 4
    RawHashes <- MCRaw
    Batches <- MCBatches
    Wallets <- MCWallets
    BlockTime = 2
    HalfLife = 3
    Window = 3
    LegacyFuture = 4
    Future = 1
    FixHeight = 4
    TargetBits = 8
    FixBits = 6
    GenesisTarget = 31
    MaxWork = 1000
    MaxHeight = 8
    MaxClock = 5
    MaxDigit = 3
    MsgChains = 2
    MaxSigned = 2
    Clients = {"a", "b", "c"}
    Addresses = {"x", "y"}
    AddressOf <- MCAddressOf
    FreeRequests = 1
    Tier2Requests = 2
    MinZeros = 1
    MaxZeros = 3
    WindowSecs = 2
    MaxTracked = 2
    ProofAge = 1
    MaxServed = 3
    MaxTime = 3
INVARIANTS  MerkleSound FilterFindsBlocks KeySound GateFair
PROPERTIES ClockSound
CHECK_DEADLOCK FALSE
