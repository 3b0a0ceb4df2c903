\* A caller wipes past the identifiers it has signed.
CONSTANTS
    Dilution <- MCDilution
    StartKeyIdentifier <- MCStartKeyIdentifier
    EndKeyIdentifier <- MCEndKeyIdentifier
    Invalid <- MCInvalid
    RootKey = RootKey
    ZeroKey = ZeroKey
    NoKey = NoKey
    CallerWipesSignedOnly = FALSE
    CallerSignsUnwipedOnly = TRUE
    Crashes = FALSE

SPECIFICATION Spec

INVARIANT ForwardSecrecy
