--------------------------- MODULE BmPrivateKeyTree ---------------------------
(***************************************************************************)
(* The forward-secure two-level voting key tree, BmPrivateKeyTree.cpp.     *)
(*                                                                         *)
(* The tree keeps its state twice: in memory (lastKey, lastWipe and the    *)
(* two levels) and in its seekable storage (header, top image, low image). *)
(* sign and wipe change both; a crash loses the memory copy and FromStream *)
(* rebuilds it from storage.  The options written by Create never change   *)
(* and are the constants of the module.                                    *)
(*                                                                         *)
(* The caller is modelled too, because the tree's guarantees depend on how *)
(* it is called: two constants say whether the caller follows the          *)
(* documented discipline (wipe only what was signed, never sign what was   *)
(* wiped), and a third whether the process may crash.                      *)
(***************************************************************************)
EXTENDS Naturals, BmKeyIdentifier, BmLevel

CONSTANTS
    Dilution,               \* BmOptions::Dilution
    StartKeyIdentifier,     \* BmOptions::StartKeyIdentifier
    EndKeyIdentifier,       \* BmOptions::EndKeyIdentifier
    RootKey,                \* the root key pair that signs the top level
    ZeroKey,                \* a key pair derived from the all-zero private key
    NoKey,                  \* the parent of an absent level
    CallerWipesSignedOnly,  \* the caller wipes only identifiers it has signed
    CallerSignsUnwipedOnly, \* the caller never signs an identifier it wiped
    Crashes                 \* the process may crash and reload from storage

ASSUME DilutionAssumption == Dilution \in Nat \ {0}

ASSUME OptionsAssumption ==
    /\ StartKeyIdentifier \in KeyIdentifiers
    /\ EndKeyIdentifier \in KeyIdentifiers
    /\ StartKeyIdentifier.BatchId <= EndKeyIdentifier.BatchId
    /\ EndKeyIdentifier.BatchId < Invalid
    /\ Dilution <= Invalid

ASSUME KeyAssumption ==
    /\ RootKey \notin Nat /\ ZeroKey \notin Nat /\ NoKey \notin Nat
    /\ RootKey # ZeroKey /\ RootKey # NoKey /\ ZeroKey # NoKey

ASSUME CallerAssumption ==
    {CallerWipesSignedOnly, CallerSignsUnwipedOnly, Crashes} \subseteq BOOLEAN

VARIABLES
    up,           \* the process holds a BmPrivateKeyTree object
    lastKey,      \* m_lastKeyIdentifier
    lastWipe,     \* m_lastWipeKeyIdentifier
    top,          \* *m_levels[Layer_Top]
    low,          \* *m_levels[Layer_Low], parent NoKey while it is null
    diskLastKey,  \* lastKeyIdentifier in the storage header
    diskTop,      \* the top level in storage
    diskLow,      \* the low level in storage, parent NoKey before it exists
    wiped,        \* history: the highest identifier a completed wipe covered
    signedMax,    \* history: the highest identifier a sign returned for
    result        \* what the last call returned

memVars == <<up, lastKey, lastWipe, top, low>>
diskVars == <<diskLastKey, diskTop, diskLow>>
vars == <<memVars, diskVars, wiped, signedMax, result>>

TopStart == StartKeyIdentifier.BatchId
TopEnd == EndKeyIdentifier.BatchId
LowEnd == Dilution - 1

Batches == TopStart .. TopEnd
LowParents == Batches \cup {ZeroKey, NoKey}

\* The tree's levels and images as they can be: top covers the batches of
\* the options, low covers the key identifiers 0 .. Dilution - 1.
TopLevels == Levels({RootKey}, TopStart, TopEnd)
LowLevels == Levels(LowParents, 0, LowEnd)
TopImages == Images({RootKey}, TopStart, TopEnd)
LowImages == Images(LowParents, 0, LowEnd)

\* m_levels[Layer_Low] is null, and the storage behind the top level is
\* empty, until the first sign.
NoLevel == [parent |-> NoKey, start |-> 0, end |-> LowEnd, size |-> 0,
            slot |-> [i \in Slots(0, LowEnd) |-> "zero"]]
NoImage == LevelWrite(NoLevel)

\* A process that lost its memory holds no key material.
NoTop == [LevelCreate(RootKey, TopStart, TopEnd) EXCEPT !.size = 0]

\* The identifiers callers pass in: one batch past the end, one key past
\* the dilution, and Invalid_Id as a KeyId.
IdInputs == [BatchId : 0 .. (TopEnd + 1),
             KeyId : (0 .. Dilution) \cup {Invalid}]

-----------------------------------------------------------------------------
(***************************************************************************)
(* The admission predicate and the caller's side of the contract.          *)
(***************************************************************************)

\* BmPrivateKeyTree::check.  A reference whose BatchId is Invalid_Id orders
\* below everything (specification 4.5), which is how a fresh tree admits
\* its first sign and wipe.
Check(id, ref) ==
    /\ ref.BatchId = Invalid \/ ~KeyIdLess(id, ref)
    /\ ~KeyIdLess(id, StartKeyIdentifier)
    /\ ~KeyIdLess(EndKeyIdentifier, id)
    /\ id.KeyId < Dilution

CanSign(id) == Check(id, lastKey)

\* A completed wipe of w has destroyed the keys of id: id <= w, where a
\* KeyId of Invalid_Id stands for the whole batch.
Covers(w, id) == w.BatchId # Invalid /\ KeyIdLeq(id, w)

\* The caller's discipline: wipe only identifiers already signed, and never
\* sign an identifier already wiped.
SignRequested(id) == CallerSignsUnwipedOnly => ~Covers(wiped, id)
WipeRequested(id) ==
    CallerWipesSignedOnly => lastKey.BatchId # Invalid /\ KeyIdLeq(id, lastKey)

\* Verify applied to the chain sign returns for id, when the low level is
\* `level`: the root's signature binds the genuine key of id.BatchId, so the
\* Root check passes only if the low level was created by that key, and the
\* low level's signature binds the key it created for id.KeyId, so the Top
\* and Bottom checks pass only if the signing key is that key.
Verifies(level, id) ==
    /\ level.parent = id.BatchId
    /\ KeyAt(level, id.KeyId) = "live"

-----------------------------------------------------------------------------
(***************************************************************************)
(* Operations.                                                             *)
(***************************************************************************)

\* Create (and the constructor it calls): writes options, both identifiers
\* and the top level signed by the root key.
Init ==
    /\ up = TRUE
    /\ lastKey = InitialKeyId
    /\ lastWipe = InitialKeyId
    /\ top = LevelCreate(RootKey, TopStart, TopEnd)
    /\ low = NoLevel
    /\ diskLastKey = InitialKeyId
    /\ diskTop = LevelWrite(LevelCreate(RootKey, TopStart, TopEnd))
    /\ diskLow = NoImage
    /\ wiped = InitialKeyId
    /\ signedMax = InitialKeyId
    /\ result = [op |-> "none", valid |-> TRUE]

\* Seeded fault for EnteredLevel: the new low level is taken to be signed by
\* the genuine batch key, whatever the detached slot held.
EnteredLevelAssumesLive(b) == LevelCreate(b, 0, LowEnd)

\* The low level sign creates on entering batch b: signed by the key it
\* detaches from the top level, which is the genuine batch key only if the
\* slot still holds it.
EnteredLevel(b) ==
    LevelCreate(IF KeyAt(top, b) = "live" THEN b ELSE ZeroKey, 0, LowEnd)

\* Seeded fault for SaveLastKey: the header is not rewritten.
SaveLastKeyDropped(id) == diskLastKey' = diskLastKey

\* m_lastKeyIdentifier = id, then seek to sizeof(BmOptions) and rewrite it.
SaveLastKey(id) == diskLastKey' = id

\* sign: a new batch detaches its key from the top level and writes a new
\* low level over the old one in storage; the leaf key signs the data; the
\* last identifier is updated and saved; the chain is returned.
Sign(id) ==
    LET enter == lastKey.BatchId # id.BatchId
        newLow == IF enter THEN EnteredLevel(id.BatchId) ELSE low
    IN  /\ up
        /\ SignRequested(id)
        /\ CanSign(id)
        /\ top' = IF enter THEN LevelDetachAt(top, id.BatchId) ELSE top
        /\ low' = newLow
        /\ diskLow' = IF enter THEN LevelWrite(newLow) ELSE diskLow
        /\ lastKey' = id
        /\ SaveLastKey(id)
        /\ signedMax' = id
        /\ result' = [op |-> "sign", valid |-> Verifies(newLow, id)]
        /\ UNCHANGED <<up, lastWipe, diskTop, wiped>>

\* sign with an identifier check refuses: throws, nothing changes.
SignRejected(id) ==
    /\ up
    /\ SignRequested(id)
    /\ ~CanSign(id)
    /\ result' = [op |-> "signRejected", valid |-> TRUE]
    /\ UNCHANGED <<memVars, diskVars, wiped, signedMax>>

\* wipe: a new batch wipes the top level at id.BatchId, a valid KeyId wipes
\* whatever low level is materialised at id.KeyId; only the in-memory last
\* wipe identifier is updated (it is never saved).
Wipe(id) ==
    LET normalized == KeyIdentifier(id.BatchId,
                                    IF id.KeyId = Invalid THEN 0 ELSE id.KeyId)
        wipeTop == lastWipe.BatchId # id.BatchId
        wipeLow == id.KeyId # Invalid /\ low.parent # NoKey
    IN  /\ up
        /\ WipeRequested(id)
        /\ Check(normalized, lastWipe)
        /\ top' = IF wipeTop THEN LevelWipe(top, id.BatchId) ELSE top
        /\ diskTop' = IF wipeTop THEN WipeImage(diskTop, top, id.BatchId)
                                 ELSE diskTop
        /\ low' = IF wipeLow THEN LevelWipe(low, id.KeyId) ELSE low
        /\ diskLow' = IF wipeLow THEN WipeImage(diskLow, low, id.KeyId)
                                 ELSE diskLow
        /\ lastWipe' = id
        /\ wiped' = IF Covers(wiped, id) THEN wiped ELSE id
        /\ result' = [op |-> "wipe", valid |-> TRUE]
        /\ UNCHANGED <<up, lastKey, diskLastKey, signedMax>>

\* wipe with an identifier check refuses: throws, nothing changes.
WipeRejected(id) ==
    LET normalized == KeyIdentifier(id.BatchId,
                                    IF id.KeyId = Invalid THEN 0 ELSE id.KeyId)
    IN  /\ up
        /\ WipeRequested(id)
        /\ ~Check(normalized, lastWipe)
        /\ result' = [op |-> "wipeRejected", valid |-> TRUE]
        /\ UNCHANGED <<memVars, diskVars, wiped, signedMax>>

\* The process dies between two calls: memory is lost, storage is kept.
Crash ==
    /\ Crashes
    /\ up
    /\ up' = FALSE
    /\ top' = NoTop
    /\ low' = NoLevel
    /\ UNCHANGED <<lastKey, lastWipe, diskVars, wiped, signedMax, result>>

\* Seeded fault for TornLastKey: SaveKeyIdentifier writes KeyId first.
TornLastKeyKeyIdFirst(id) == KeyIdentifier(diskLastKey.BatchId, id.KeyId)

\* What the stored header holds when SaveKeyIdentifier is cut off between
\* its two Write64 calls: the new BatchId over the KeyId stored before.
TornLastKey(id) == KeyIdentifier(id.BatchId, diskLastKey.KeyId)

\* The process dies inside sign.  On entering a batch createLevel has
\* written the new low level; with torn = TRUE the header rewrite has also
\* begun, and SaveKeyIdentifier's first Write64 (BatchId) reached storage
\* but its second (KeyId) did not.  A crash before any write is Crash.
SignCrash(id, torn) ==
    LET enter == lastKey.BatchId # id.BatchId
    IN  /\ Crashes
        /\ up
        /\ SignRequested(id)
        /\ CanSign(id)
        /\ enter \/ torn
        /\ diskLow' = IF enter THEN LevelWrite(EnteredLevel(id.BatchId))
                               ELSE diskLow
        /\ diskLastKey' = IF torn THEN TornLastKey(id)
                                  ELSE diskLastKey
        /\ up' = FALSE
        /\ top' = NoTop
        /\ low' = NoLevel
        /\ UNCHANGED <<lastKey, lastWipe, diskTop, wiped, signedMax, result>>

\* The process dies inside wipe, in the loop of wipe(depth, identifier) on
\* the top (inLow = FALSE) or the low level, after n of its writes: the
\* top level is wiped completely before the low level is begun.
WipeCrash(id, inLow, n) ==
    LET wipeTop == lastWipe.BatchId # id.BatchId
        wipeLow == id.KeyId # Invalid /\ low.parent # NoKey
    IN  /\ Crashes
        /\ up
        /\ WipeRequested(id)
        /\ Check(KeyIdentifier(id.BatchId,
                               IF id.KeyId = Invalid THEN 0 ELSE id.KeyId),
                 lastWipe)
        /\ IF inLow THEN wipeLow ELSE wipeTop
        /\ diskTop' = CASE ~inLow  -> WipeImagePrefix(diskTop, top, id.BatchId, n)
                         [] wipeTop -> WipeImage(diskTop, top, id.BatchId)
                         [] OTHER   -> diskTop
        /\ diskLow' = IF inLow THEN WipeImagePrefix(diskLow, low, id.KeyId, n)
                              ELSE diskLow
        /\ up' = FALSE
        /\ top' = NoTop
        /\ low' = NoLevel
        /\ UNCHANGED <<lastKey, lastWipe, diskLastKey, wiped, signedMax, result>>

\* FromStream: options, both identifiers, the top level, and the low level
\* only if lastKeyIdentifier names a batch.  The stored last wipe identifier
\* is still the one Create wrote.
FromStream ==
    /\ ~up
    /\ up' = TRUE
    /\ lastKey' = diskLastKey
    /\ lastWipe' = InitialKeyId
    /\ top' = LevelFromStream(diskTop)
    /\ low' = IF diskLastKey.BatchId # Invalid THEN LevelFromStream(diskLow)
                                              ELSE NoLevel
    /\ UNCHANGED <<diskVars, wiped, signedMax, result>>

Next ==
    \/ \E id \in IdInputs : Sign(id)
    \/ \E id \in IdInputs : SignRejected(id)
    \/ \E id \in IdInputs : Wipe(id)
    \/ \E id \in IdInputs : WipeRejected(id)
    \/ \E id \in IdInputs, torn \in BOOLEAN : SignCrash(id, torn)
    \/ \E id \in IdInputs, inLow \in BOOLEAN :
          \E n \in 0 .. (IF inLow THEN LowEnd ELSE TopEnd - TopStart) :
             WipeCrash(id, inLow, n)
    \/ Crash
    \/ FromStream

Spec == Init /\ [][Next]_vars

-----------------------------------------------------------------------------
(***************************************************************************)
(* Properties.                                                             *)
(***************************************************************************)

TypeOK ==
    /\ up \in BOOLEAN
    /\ lastKey \in KeyIdentifiers
    /\ lastWipe \in KeyIdentifiers
    /\ top \in TopLevels
    /\ low \in LowLevels
    /\ diskLastKey \in KeyIdentifiers
    /\ diskTop \in TopImages
    /\ diskLow \in LowImages
    /\ wiped \in KeyIdentifiers
    /\ signedMax \in KeyIdentifiers
    /\ result \in [op : {"none", "sign", "wipe", "signRejected",
                            "wipeRejected"}, valid : BOOLEAN]

\* The identifiers the tree holds keys for.
TreeIds == {id \in [BatchId : Batches, KeyId : 0 .. LowEnd] :
                /\ ~KeyIdLess(id, StartKeyIdentifier)
                /\ ~KeyIdLess(EndKeyIdentifier, id)}

\* Key material from which a valid chain for id can be made: the batch key
\* (it can sign a fresh low level) or the leaf key under a low level that
\* the genuine batch key signed, in memory or in storage.
BatchKeyExposed(b) ==
    \/ diskTop.slot[Index(diskTop, b)] = "key"
    \/ KeyAt(top, b) = "live"

LeafKeyExposed(id) ==
    \/ diskLow.parent = id.BatchId /\ diskLow.slot[Index(diskLow, id.KeyId)] = "key"
    \/ low.parent = id.BatchId /\ KeyAt(low, id.KeyId) = "live"

Forgeable(id) == BatchKeyExposed(id.BatchId) \/ LeafKeyExposed(id)

\* The identifiers for which storage or memory still holds material that
\* makes a verifying chain, and the identifier of the verifying chain the
\* last call returned (InitialKeyId when it returned none).
Usable == {id \in TreeIds : Forgeable(id)}

Issued == IF result.op = "sign" /\ result.valid THEN signedMax ELSE InitialKeyId

Vault == INSTANCE BmKeyVault WITH
    Ids <- TreeIds, NoChain <- InitialKeyId, usable <- Usable, issued <- Issued

\* The tree implements the vault (specification 1 and glossary, forward
\* security): no sequence of sign, wipe, crash and FromStream ever makes
\* key material again once it is gone from memory and storage - FromStream
\* must not revive a zeroed slot, and sign must not give a new low level
\* the genuine batch key's authority once that key is gone - and sign
\* returns a chain that verifies only from material still held.
VaultRefinement == Vault!Spec

\* Forward secrecy (specification 8): once wipe has returned for w, neither
\* the process memory nor the storage file holds key material that yields a
\* valid signature for any identifier at or below w - across crashes and
\* reloads, although the last wipe identifier is not persisted.
ForwardSecrecy == \A id \in TreeIds : Covers(wiped, id) => ~Forgeable(id)

\* Every kept entry of an in-memory level that holds a key has it in
\* storage, every kept entry read back as zeros is zero in storage, and every
\* popped entry is zeroed in storage (specification 3), for both levels: the
\* wipe loop's bounds, the trim and the final write must agree.
MemoryMirrorsDisk ==
    up => /\ DiskAgrees(top, diskTop)
          /\ low.parent # NoKey =>
                /\ diskLow.parent = low.parent
                /\ DiskAgrees(low, diskLow)

\* Monotonicity (specification 8) across restarts: a running tree never
\* admits a sign below an identifier it has already returned a signature
\* for, which holds only because sign saves lastKeyIdentifier before it
\* returns.
Monotonicity ==
    up => \A id \in IdInputs :
              CanSign(id) => signedMax.BatchId = Invalid \/ KeyIdLeq(signedMax, id)

\* Monotonicity (specification 8) where it lives across restarts: the
\* stored last key identifier never moves backwards.  sign stores only an
\* identifier check admitted above it, and SaveKeyIdentifier writes BatchId
\* before KeyId, so a crash between the two writes leaves the new batch
\* over the old KeyId - still not below what was stored.
StoredLastKeyNeverDecreases ==
    [][diskLastKey.BatchId # Invalid =>
          /\ diskLastKey'.BatchId # Invalid
          /\ KeyIdLeq(diskLastKey, diskLastKey')]_diskLastKey

\* The low level belongs to the last signed batch (specification 3):
\* m_levels[Layer_Low] exists iff lastKeyIdentifier.BatchId is valid, and
\* its parent is the key of that batch.
LowLevelMatchesLastKey ==
    up => /\ (low.parent # NoKey) <=> (lastKey.BatchId # Invalid)
          /\ low.parent # NoKey => low.parent = lastKey.BatchId

\* Chain validity (specification 8): every signature sign returns passes
\* Verify.
ChainValidity == result.op = "sign" => result.valid

\* Wiping destroys the signing ability (specification 8, scenario 5): sign
\* never succeeds for an identifier a completed wipe covered.
WipedNotSignable == result.op = "sign" => ~Covers(wiped, lastKey)

\* The wipe checkpoint survives reloads (specification 3: the last wipe
\* identifier never decreases over successful wipes; specification 8: after
\* a wipe, a reloaded tree refuses what it covered): the identifier the tree
\* checks wipes against is never below one a completed wipe covered.
WipeCheckpointDurable ==
    up /\ wiped.BatchId # Invalid =>
        /\ lastWipe.BatchId # Invalid
        /\ KeyIdLeq(wiped, lastWipe)

\* Specification 8, scenario 4: once sign has returned for an identifier, a
\* (reloaded) tree refuses to sign that same identifier again.
SignStrictlyIncreasing ==
    up => \A id \in IdInputs :
              CanSign(id) => signedMax.BatchId = Invalid \/ KeyIdLess(signedMax, id)

\* Specification 2, lifecycle: when sign enters a batch, the batch key is
\* consumed, "its slot in memory becomes empty and its disk slot is
\* zeroed"; so storage never holds the key of the batch being signed in.
ConsumedBatchKeyErased ==
    up /\ lastKey.BatchId # Invalid =>
        diskTop.slot[Index(diskTop, lastKey.BatchId)] = "zero"

=============================================================================
