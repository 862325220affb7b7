SPECIFICATION FairSpec
CONSTANTS
    Devices <- MCDevices
    Copied = {"shell"}
    Requests = {"shell"}
    Remote = {"ble"}
    Hurried = {"button"}
    Receivers <- MCReceivers
    VisionAlgo = 2
    Output = 4
    Lists <- MCLists
    QueueLength = 10
    MaxEvents = 2
    MaxPresses = 1
    MaxResults = 1
INVARIANTS
    TypeOK
    
PROPERTIES
    NeverBackwards
    LatestArrives
    ImplementsBus
CHECK_DEADLOCK FALSE
