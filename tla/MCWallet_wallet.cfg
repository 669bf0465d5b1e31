CONSTANTS
    Scenes <- MCScenes
    MaxSpends = 3
    MaxKeys = 4
    MaxInputs = 3
    Held = 2
    Leaves = 3
    Margin = 1
SPECIFICATION FairSpec
INVARIANTS  ChangeKept
 
CHECK_DEADLOCK FALSE
