\* A caller signs again an identifier it has wiped.
CONSTANTS
    Dilution <- MCDilution
    StartKeyIdentifier <- MCStartKeyIdentifier
    EndKeyIdentifier <- MCEndKeyIdentifier
    Invalid <- MCInvalid
    RootKey = RootKey
    ZeroKey = ZeroKey
    NoKey = NoKey
    CallerWipesSignedOnly = TRUE
    CallerSignsUnwipedOnly = FALSE
    Crashes = FALSE

SPECIFICATION Spec

INVARIANT WipedNotSignable
