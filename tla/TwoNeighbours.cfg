SPECIFICATION Spec
CONSTANTS
    NULL = NULL
    if1 = if1
    if2 = if2
    n1 = n1
    n2 = n2
    net1 = net1
    net2 = net2
    Ifc = {if1, if2}
    Nbr = {n1, n2}
    IfcOf <- MCIfcOf
    Dest = {net1}
    BadDest = BadDest
    AdvNetworks <- OneNetwork
    INFINITY_METRIC = 3
    TIMEOUT_PERIOD_TIMER = 2
    TIMEOUT_PERIOD_RFC = 4
    GC_PERIOD_TIMER = 1
    GC_PERIOD_RFC = 2
    UpdateTimes = {3}
    LockTimes = {0, 1}
    WarmupTimes = {0}
    MaxEntries = 1
    TickPcs = {"poll"}
    SendFails = {}
    AddFails = FALSE
    OutOfMemory = FALSE
    ExternalDrop = FALSE
    CallFails = TRUE
    Signals = TRUE
    Crashes = FALSE
INVARIANTS IInv UsableIsInstalled OneNextHop UnchangedIsAdvertised
PROPERTIES CleanExit ForeignRoutesUntouched ImplementsLife
