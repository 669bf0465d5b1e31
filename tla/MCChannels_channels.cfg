SPECIFICATION FairSpec
CONSTANTS
    Node <- MCNode
    Chan <- MCChan
    Scenes <- MCScenes
    Hash = {h1}
    Capacity = 3
    Price = 1
    HopFee = 1
    HopDelta = 1
    Headroom = 1
    PayCutoff = 4
    CloseMargin = 3
    LeafReserve = 1
    Leaves = 9
    MaxSkips = 1
    Overload = FALSE
INVARIANTS
    SigningSound
    HubCovered
    RefundTakesOnlyUnpaid
PROPERTIES
    ChannelSettles
CHECK_DEADLOCK FALSE
