\* sign enters a batch under the documented discipline, and storage is read.
CONSTANTS
    Dilution <- MCDilution
    StartKeyIdentifier <- MCStartKeyIdentifier
    EndKeyIdentifier <- MCEndKeyIdentifier
    Invalid <- MCInvalid
    RootKey = RootKey
    ZeroKey = ZeroKey
    NoKey = NoKey
    CallerWipesSignedOnly = TRUE
    CallerSignsUnwipedOnly = TRUE
    Crashes = FALSE

SPECIFICATION Spec

INVARIANT ConsumedBatchKeyErased
