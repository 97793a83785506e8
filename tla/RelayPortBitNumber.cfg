SPECIFICATION Spec
CONSTANT Values <- MCValues
INVARIANT BitNumberIsRegisterBit
