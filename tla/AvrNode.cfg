SPECIFICATION FairSpec
CONSTANTS
    FrameLen = 2
    RxCapacity = 5
    Commands <- EachWay
    Optos = {4}
    MaxSend = 2
    MaxDrop = 0
    MaxInputs = 1
    MaxReset = 1
    MaxBehind = 2
    Strays <- MCStrays
INVARIANTS
    TypeOK
    FollowersUpToDate
PROPERTIES
    CommandsGetDone
    FollowersLearnInputs
    ImplementsService
