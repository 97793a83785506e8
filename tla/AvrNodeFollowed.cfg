SPECIFICATION Spec
CONSTANTS
    FrameLen = 3
    RxCapacity = 6
    Commands <- Followed
    Optos = {3}
    MaxSend = 3
    MaxDrop = 1
    MaxInputs = 1
    MaxReset = 0
    MaxBehind = 2
    Strays <- MCStrays
INVARIANTS
    OnlySentCommandsDone
    OnlyNotificationsLoseCommands
