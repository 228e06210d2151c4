SPECIFICATION FairNetSpec
CONSTANTS
    Router = {"a", "b", "c"}
    Owner = "a"
    Link = {"ab", "bc1", "bc2"}
    Ends <- TwinEnds
    Distance <- MCDistance
    INFINITY_METRIC = 3
    Timeout = 2
    Garbage = 1
    Duplicates = FALSE
    Losses = FALSE
    Mortal = {"a"}
    Restarts = FALSE
    Fresh = {}
    NULL = NULL
PROPERTY DeadNetworkForgotten
