SPECIFICATION FairSpec
CONSTANTS
    Daemon <- MCDaemon
    Stranger = "X"
    Unit = {u1}
    Bid = {b1}
    Maker <- MCMaker
    Margin = 4
    FillRoom = 3
    Scenes <- MCScenes
INVARIANTS
    SecretsSound
PROPERTIES
    TradesAreAtomic
CHECK_DEADLOCK FALSE
