SPECIFICATION Spec
CONSTANTS
    Key = {k1, k2, k3, k4}
    Val = {"due", "fresh"}
    Due = "due"
    HashValues = {3, 7, 14}
    MinCap = 4
    GROW_AT = 60
    SHRINK_AT = 30
    OutOfMemory = TRUE
    NULL = NULL
SYMMETRY Symmetry
INVARIANTS HInv RobinHood EmptyBucket
PROPERTY ImplementsTable
