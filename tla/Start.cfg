SPECIFICATION FairSpec
CONSTANTS
    Ifc = {"eth0"}
    Docs <- MCDocs
    Scalar = {"2", "text", "list", "too_long", "eth0", "eth9", "24", "16", "10.0.0.0"}
    Faults = {{}, {"call", "timer", "signal"}}
    NULL = NULL
INVARIANTS TypeOK  LoopIsWired
PROPERTIES  GoodStartSucceeds
