\* The tree under the documented calling discipline, with crashes and
\* reloads at any point between calls and inside sign.
CONSTANTS
    Dilution <- MCDilution
    StartKeyIdentifier <- MCStartKeyIdentifier
    EndKeyIdentifier <- MCEndKeyIdentifier
    Invalid <- MCInvalid
    RootKey = RootKey
    ZeroKey = ZeroKey
    NoKey = NoKey
    CallerWipesSignedOnly = TRUE
    CallerSignsUnwipedOnly = TRUE
    Crashes = TRUE

SPECIFICATION Spec

INVARIANT TypeOK
INVARIANT ForwardSecrecy
INVARIANT MemoryMirrorsDisk
INVARIANT Monotonicity
