SPECIFICATION FairSpec
CONSTANTS
    Cli = {c1, c2}
    Queue = {q1, q2, q3}
    Argv <- MCArgv
    MaxMsg = 2
    MaxReq = 3
    OutOfMemory = TRUE
    Kills = TRUE
    Crashes = TRUE
    NULL = NULL
INVARIANTS TypeOK OwnAnswer OneInFlight EveryMessageAccounted BlockedOnlyByBacklog
PROPERTIES CliEnds DaemonServes
