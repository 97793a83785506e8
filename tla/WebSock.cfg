SPECIFICATION FairSpec
CONSTANTS
    ReconnectInterval = 2
    HeartbeatInterval = 2
    WriteBufMax = 3
    Lengths = {2, 5}
    MaxAsked = 2
    MaxFault = 2
INVARIANTS
    ReadyTracksSocket
    RetryArmed
    LibraryUsedWell
    TextInOrder
    ClosedForGood
PROPERTIES
    RetriesAreSpaced
    KeepsTrying
    TextLeaves
CHECK_DEADLOCK FALSE
