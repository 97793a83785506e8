SPECIFICATION Spec
CONSTANT Values <- MCValues
INVARIANT BitSwitchesRelay
PROPERTY MaskRespected
