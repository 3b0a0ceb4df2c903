\* A crash inside sign, between writing the new low level and the header.
CONSTANTS
    Dilution <- MCDilution
    StartKeyIdentifier <- MCStartKeyIdentifier
    EndKeyIdentifier <- MCEndKeyIdentifier
    Invalid <- MCInvalid
    RootKey = RootKey
    ZeroKey = ZeroKey
    NoKey = NoKey
    CallerWipesSignedOnly = TRUE
    CallerSignsUnwipedOnly = TRUE
    Crashes = TRUE

SPECIFICATION Spec

INVARIANT LowLevelMatchesLastKey
