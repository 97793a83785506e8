SPECIFICATION CodingsSpec
CONSTANTS
    Payloads <- MCPayloads
    Chars <- MCChars
    Times <- MCTimes
    Lines <- MCLines
    Flashes <- MCFlashes
    Interfaces <- MCInterfaces
    Bauds <- MCBauds
INVARIANTS
    NeverAnotherMessage
    CrcIsRemainder
    DigitsAreBase32
    TimesReadBack
    ServerAsConfigured
    AddressesFit
    EndsAgree
CHECK_DEADLOCK FALSE
