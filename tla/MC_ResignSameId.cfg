\* sign called twice with the same identifier.
CONSTANTS
    Dilution <- MCDilution
    StartKeyIdentifier <- MCStartKeyIdentifier
    EndKeyIdentifier <- MCEndKeyIdentifier
    Invalid <- MCInvalid
    RootKey = RootKey
    ZeroKey = ZeroKey
    NoKey = NoKey
    CallerWipesSignedOnly = TRUE
    CallerSignsUnwipedOnly = TRUE
    Crashes = FALSE

SPECIFICATION Spec

INVARIANT SignStrictlyIncreasing
