SPECIFICATION Spec
CONSTANTS
    FrameLen = 3
    Requests <- MCRequests
    Answers <- MCAnswers
    MaxRequest = 2
    MaxAnswer = 2
    MaxFault = 1
    MaxDamage = 1
INVARIANTS
    HeardWasSaid
    OnlyRequestsLoseAnswers
    PongsAnswerPings
PROPERTY ImplementsRouter
