SPECIFICATION CloudSpec
CONSTANTS
    Values = {}
    Messages <- MCMessages
    MaxSaid = 3
INVARIANT OutputsAsSaid
CHECK_DEADLOCK FALSE
