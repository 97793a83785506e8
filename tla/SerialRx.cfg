SPECIFICATION Spec
CONSTANTS
    Capacity = 3
    Bases = {254, 256}
    Frame = 3
    Burst = 2
    MaxBytes = 7
INVARIANTS
    TypeOK
    InOrder
    NoPhantomByte
    StuckAtMostHits
    OneExtraByteCoversOneHit
PROPERTY OnlyOverrunHealsDrift
