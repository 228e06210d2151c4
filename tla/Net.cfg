SPECIFICATION FairNetSpec
CONSTANTS
    Router = {"a", "b", "c"}
    Owner = "a"
    Link = {"ab", "bc"}
    Ends <- LineEnds
    Distance <- MCDistance
    INFINITY_METRIC = 4
    Timeout = 2
    Garbage = 1
    Duplicates = FALSE
    Losses = TRUE
    Mortal = {"b"}
    Restarts = TRUE
    Fresh = {"c"}
    NULL = NULL
INVARIANTS NetTypeOK NotTooNear
 
