SPECIFICATION Spec
CONSTANTS
    FrameLen = 3
    RxCapacity = 12
    Commands <- Followed
    Optos = {1}
    MaxSend = 2
    MaxDrop = 0
    MaxInputs = 1
    MaxReset = 0
    MaxBehind = 0
    Strays <- MCStrays
INVARIANT PartialMessagesComplete
