\* The tree driven by a caller that ignores the calling discipline: any
\* identifier may be signed or wiped in any order, with crashes anywhere and
\* reloads; checked against the storage invariants and the vault it
\* implements.
CONSTANTS
    Dilution <- MCSmallDilution
    StartKeyIdentifier <- MCStartKeyIdentifier
    EndKeyIdentifier <- MCSmallEndKeyIdentifier
    Invalid <- MCInvalid
    RootKey = RootKey
    ZeroKey = ZeroKey
    NoKey = NoKey
    CallerWipesSignedOnly = FALSE
    CallerSignsUnwipedOnly = FALSE
    Crashes = TRUE

SPECIFICATION Spec

INVARIANT MemoryMirrorsDisk
INVARIANT Monotonicity

PROPERTY VaultRefinement
PROPERTY StoredLastKeyNeverDecreases
