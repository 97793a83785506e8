SPECIFICATION FairSpec
CONSTANTS
    Pids = {1, 2}
    Users = {1, 2}
    MaxCrash = 2
INVARIANTS
    OneDaemon
    PidFileNamesDaemon
PROPERTY TermExits
CHECK_DEADLOCK FALSE
