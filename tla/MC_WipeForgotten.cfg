\* A wipe, then a crash and FromStream: the last wipe identifier is reloaded as the one Create wrote.
CONSTANTS
    Dilution <- MCDilution
    StartKeyIdentifier <- MCStartKeyIdentifier
    EndKeyIdentifier <- MCEndKeyIdentifier
    Invalid <- MCInvalid
    RootKey = RootKey
    ZeroKey = ZeroKey
    NoKey = NoKey
    CallerWipesSignedOnly = TRUE
    CallerSignsUnwipedOnly = TRUE
    Crashes = TRUE

SPECIFICATION Spec

INVARIANT WipeCheckpointDurable
