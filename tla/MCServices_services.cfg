SPECIFICATION FairSpec
CONSTANTS
    Miners = {a, b}
    Operator = o
    Nonces = {1}
    PoolRewards = {4}
    MaxClock = 9
    PoolScenes <- MCPoolScenes
    Addrs <- MCAddrs
    Bootstrap <- MCBootstrap
    StaticBans = {"x"}
    SubnetLimit = 1
    WebSubnetLimit = 2
    InboundLimit = 1
    LightLimit = 1
    TargetOutbound = 2
    RelayTarget = 1
    TableSize = 2
    ScoreCap = 11
    BanTime = 2
    MaxTime = 3
    PeerScenes <- MCPeerScenes
    LightPeers = {"a", "b"}
    MaxStreams = 2
    RateWindow = 1
    BanThreshold = 2
    LightBanTime = 1
    StaleTime = 2
    RateFloor = 1
    RateBase = 2
    RateSpan = 1
    DearFloor = 0
    DearBase = 0
    DearSpan = 2
    ChatLimit = 1
    CommandCap = 1
    SubmitTime = 1
    ResponseTime = 2
    EndOfTime = 2
    LightScenes <- MCLightScenes
    Nodes <- MCNodes
    Links <- MCLinks
    ChatNonces = {1, 2}
    SeenCap = 2
    OldNonces <- MCOldNonces
    HistoryCap = 3
    FloodLimit = 2
    StemCap = 1
    CommandRoom = 1
    RelayScenes <- MCRelayScenes
    n1 = n1
    n2 = n2
    n3 = n3
    m1 = m1
    m2 = m2
    MixNodes = {n1, n2, n3}
    Mixes = {m1, m2}
    NoOne = NoOne
    MaxSessions = 1
    MinParticipants = 2
    MaxParticipants = 3
    FeeWorth = 2
    SignLimit = 1
    KeepFor = 1
    SessionLimit = 2
    MixScenes <- MCMixScenes
INVARIANTS PoolSound  LightSound 
PROPERTIES ServicesSettle
CHECK_DEADLOCK FALSE
