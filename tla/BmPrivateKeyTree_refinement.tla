--------------------- MODULE BmPrivateKeyTree_refinement ---------------------
(***************************************************************************)
(* The key tree implements the vault of BmKeyVault under the mapping       *)
(* Usable / Issued of BmPrivateKeyTree, for every value of the constants   *)
(* and for any caller.  The argument: no step of the tree creates key      *)
(* material - in memory a slot becomes live only when it is read from a    *)
(* storage slot that holds a key, or when sign creates a low level under a *)
(* batch key that is still live - and a chain verifies only when it was    *)
(* made from such material.                                                 *)
(***************************************************************************)
EXTENDS BmPrivateKeyTree_proofs, TLAPS

USE InvalidAssumption, DilutionAssumption, OptionsAssumption, KeyAssumption

\* Where an identifier of the tree sits in the two levels.
LEMMA TreeIdPlace ==
    ASSUME NEW t \in TreeIds
    PROVE  /\ t.BatchId \in TopStart .. TopEnd
           /\ t.KeyId \in 0 .. LowEnd
           /\ TopEnd - t.BatchId \in Slots(TopStart, TopEnd)
           /\ LowEnd - t.KeyId \in Slots(0, LowEnd)
BY Ranges DEF TreeIds, Batches, Slots

\* An identifier sign admits is one of the tree's.
LEMMA AdmittedIsTreeId ==
    ASSUME NEW id \in IdInputs, CanSign(id)
    PROVE  id \in TreeIds
BY Ranges, CheckBounds DEF CanSign, Check, TreeIds, KeyIdentifiers, Batches

\* The level sign creates on entering batch c has c's authority only while
\* c's key is live in the top level.
LEMMA EnteredParent ==
    ASSUME NEW c \in Nat, NEW b \in Nat,
           \/ EnteredLevel(c).parent = b
           \/ LevelWrite(EnteredLevel(c)).parent = b
    PROVE  b = c /\ KeyAt(top, c) = "live"
BY DEF EnteredLevel, LevelWrite, LevelCreate

-----------------------------------------------------------------------------
(***************************************************************************)
(* One lemma per kind of step: what is forgeable after it was before.      *)
(***************************************************************************)

\* sign only moves a batch key out, and creates a low level whose keys the
\* batch key could have made.
LEMMA SignMakesNoKey ==
    ASSUME TypeOK, NEW id \in IdInputs, Sign(id),
           NEW t \in TreeIds, Forgeable(t)'
    PROVE  Forgeable(t)
<1> DEFINE b == t.BatchId
           c == id.BatchId
           enter == lastKey.BatchId # id.BatchId
<1>1. b \in TopStart .. TopEnd /\ c \in TopStart .. TopEnd
  BY TreeIdPlace, AdmittedIsTreeId DEF Sign
<1>2. CASE BatchKeyExposed(b)'
  <2>1. CASE KeyAt(top', b) = "live" /\ enter
    <3>1. KeyAt(LevelDetachAt(top, c), b) = "live"
      BY <2>1 DEF Sign
    <3>2. KeyAt(top, b) = "live"
      BY <1>1, <3>1, Ranges, DetachKeepsNoKey DEF TypeOK, TopLevels
    <3>3. QED BY <3>2 DEF Forgeable, BatchKeyExposed
  <2>2. QED
    BY <1>2, <2>1 DEF Sign, Forgeable, BatchKeyExposed
<1>3. CASE LeafKeyExposed(t)'
  <2>1. CASE enter
    <3>1. low'.parent = b \/ diskLow'.parent = b
      BY <1>3 DEF LeafKeyExposed
    <3>2. EnteredLevel(c).parent = b \/ LevelWrite(EnteredLevel(c)).parent = b
      BY <2>1, <3>1 DEF Sign
    <3>3. b = c /\ KeyAt(top, c) = "live"
      BY <1>1, <3>2, Ranges, EnteredParent
    <3>4. QED BY <3>3 DEF Forgeable, BatchKeyExposed
  <2>2. QED
    BY <1>3, <2>1 DEF Sign, Forgeable, LeafKeyExposed
<1>4. QED BY <1>2, <1>3 DEF Forgeable

\* In every state of the right types, the slot of t in each level and image.
LEMMA SlotOf ==
    ASSUME TypeOK, NEW t \in TreeIds
    PROVE  /\ Index(diskTop, t.BatchId) = TopEnd - t.BatchId
           /\ Index(top, t.BatchId) = TopEnd - t.BatchId
           /\ Index(diskLow, t.KeyId) = LowEnd - t.KeyId
           /\ Index(low, t.KeyId) = LowEnd - t.KeyId
BY DEF TypeOK, TopImages, TopLevels, LowImages, LowLevels, Images, Levels, Index

\* What makes t forgeable, spelt out on the slots of its batch and key.
LEMMA ForgeableAt ==
    ASSUME TypeOK, NEW t \in TreeIds
    PROVE  Forgeable(t) <=>
             \/ diskTop.slot[TopEnd - t.BatchId] = "key"
             \/ KeyAt(top, t.BatchId) = "live"
             \/ diskLow.parent = t.BatchId /\ diskLow.slot[LowEnd - t.KeyId] = "key"
             \/ low.parent = t.BatchId /\ KeyAt(low, t.KeyId) = "live"
BY SlotOf DEF Forgeable, BatchKeyExposed, LeafKeyExposed

\* wipe trims levels and zeroes storage entries, keeping every parent.
LEMMA WipeMakesNoKey ==
    ASSUME TypeOK, TypeOK', NEW id \in IdInputs, Wipe(id),
           NEW t \in TreeIds, Forgeable(t)'
    PROVE  Forgeable(t)
<1> DEFINE b == t.BatchId
           k == t.KeyId
<1>1. /\ b \in TopStart .. TopEnd /\ k \in 0 .. LowEnd
      /\ TopEnd - b \in Slots(TopStart, TopEnd) /\ LowEnd - k \in Slots(0, LowEnd)
      /\ id.BatchId \in Nat /\ id.KeyId \in Nat
  BY TreeIdPlace, Ranges DEF KeyIdentifiers
<1>2. \/ diskTop'.slot[TopEnd - b] = "key"
      \/ KeyAt(top', b) = "live"
      \/ diskLow'.parent = b /\ diskLow'.slot[LowEnd - k] = "key"
      \/ low'.parent = b /\ KeyAt(low', k) = "live"
  BY DEF Forgeable, BatchKeyExposed, LeafKeyExposed, KeyAt, Index,
         TypeOK, TopImages, TopLevels, LowImages, LowLevels, Images, Levels
<1>3. diskTop'.slot[TopEnd - b] = "key" => diskTop.slot[TopEnd - b] = "key"
  <2>1. CASE lastWipe.BatchId # id.BatchId
    <3>1. diskTop' = WipeImage(diskTop, top, id.BatchId)
      BY <2>1 DEF Wipe
    <3>2. QED
      BY <1>1, <3>1 DEF WipeImage, TypeOK, TopImages, Images
  <2>2. QED
    BY <2>1 DEF Wipe
<1>4. KeyAt(top', b) = "live" => KeyAt(top, b) = "live"
  <2>1. CASE lastWipe.BatchId # id.BatchId
    <3>1. top' = LevelWipe(top, id.BatchId)
      BY <2>1 DEF Wipe
    <3>2. QED
      BY <1>1, <3>1, Ranges, WipeKeepsNoKey DEF TypeOK, TopLevels
  <2>2. QED
    BY <2>1 DEF Wipe
<1>5. /\ diskLow'.parent = diskLow.parent
      /\ diskLow'.slot[LowEnd - k] = "key" => diskLow.slot[LowEnd - k] = "key"
      /\ low'.parent = low.parent
      /\ KeyAt(low', k) = "live" => KeyAt(low, k) = "live"
  <2>1. CASE id.KeyId # Invalid /\ low.parent # NoKey
    <3>1. diskLow' = WipeImage(diskLow, low, id.KeyId)
          /\ low' = LevelWipe(low, id.KeyId)
      BY <2>1 DEF Wipe
    <3>2. low'.parent = low.parent
      BY <3>1 DEF LevelWipe
    <3>3. KeyAt(low', k) = "live" => KeyAt(low, k) = "live"
      BY <1>1, <3>1, Ranges, WipeKeepsNoKey DEF TypeOK, LowLevels
    <3>4. QED
      BY <1>1, <3>1, <3>2, <3>3 DEF WipeImage, TypeOK, LowImages, Images
  <2>2. QED
    BY <2>1 DEF Wipe
<1>6. QED
  BY <1>2, <1>3, <1>4, <1>5, ForgeableAt

\* A crashed process holds no key material.
LEMMA CrashedHoldsNothing ==
    ASSUME NEW t \in TreeIds
    PROVE  KeyAt(NoTop, t.BatchId) # "live" /\ NoLevel.parent # t.BatchId
BY TreeIdPlace, Ranges DEF KeyAt, NoTop, NoLevel, Index, LevelCreate

\* A forgeable identifier after a step, spelt out on the slots.
LEMMA ForgeableAtNext ==
    ASSUME TypeOK', NEW t \in TreeIds, Forgeable(t)'
    PROVE  \/ diskTop'.slot[TopEnd - t.BatchId] = "key"
           \/ KeyAt(top', t.BatchId) = "live"
           \/ diskLow'.parent = t.BatchId /\ diskLow'.slot[LowEnd - t.KeyId] = "key"
           \/ low'.parent = t.BatchId /\ KeyAt(low', t.KeyId) = "live"
BY DEF Forgeable, BatchKeyExposed, LeafKeyExposed, KeyAt, Index,
       TypeOK, TopImages, TopLevels, LowImages, LowLevels, Images, Levels

\* A crash inside sign writes at most the low level of the batch entered,
\* which the batch key could have made.
LEMMA SignCrashMakesNoKey ==
    ASSUME TypeOK, TypeOK', NEW id \in IdInputs, NEW torn \in BOOLEAN,
           SignCrash(id, torn), NEW t \in TreeIds, Forgeable(t)'
    PROVE  Forgeable(t)
<1> DEFINE b == t.BatchId
           c == id.BatchId
<1>1. b \in TopStart .. TopEnd /\ c \in TopStart .. TopEnd
  BY TreeIdPlace, AdmittedIsTreeId DEF SignCrash
<1>2. KeyAt(top', b) # "live" /\ low'.parent # b /\ diskTop' = diskTop
  BY CrashedHoldsNothing DEF SignCrash
<1>3. ASSUME diskLow'.parent = b, diskLow'.slot[LowEnd - t.KeyId] = "key"
      PROVE  Forgeable(t)
  <2>1. CASE lastKey.BatchId # id.BatchId
    <3>1. LevelWrite(EnteredLevel(c)).parent = b
      BY <1>3, <2>1 DEF SignCrash
    <3>2. b = c /\ KeyAt(top, c) = "live"
      BY <1>1, <3>1, Ranges, EnteredParent
    <3>3. QED BY <3>2, ForgeableAt
  <2>2. QED
    BY <1>3, <2>1, ForgeableAt DEF SignCrash
<1>4. QED
  BY <1>2, <1>3, ForgeableAtNext, ForgeableAt

\* A crash inside wipe leaves storage with some of the wipe's zeros.
LEMMA WipeCrashMakesNoKey ==
    ASSUME TypeOK, TypeOK', NEW id \in IdInputs, NEW inLow \in BOOLEAN,
           NEW n \in Nat, WipeCrash(id, inLow, n),
           NEW t \in TreeIds, Forgeable(t)'
    PROVE  Forgeable(t)
<1> DEFINE b == t.BatchId
           k == t.KeyId
<1>1. TopEnd - b \in Slots(TopStart, TopEnd) /\ LowEnd - k \in Slots(0, LowEnd)
  BY TreeIdPlace
<1>2. KeyAt(top', b) # "live" /\ low'.parent # b
  BY CrashedHoldsNothing DEF WipeCrash
<1>3. diskTop'.slot[TopEnd - b] = "key" => diskTop.slot[TopEnd - b] = "key"
  BY <1>1 DEF WipeCrash, WipeImage, WipeImagePrefix,
             TypeOK, TopImages, Images
<1>4. /\ diskLow'.parent = diskLow.parent
      /\ diskLow'.slot[LowEnd - k] = "key" => diskLow.slot[LowEnd - k] = "key"
  BY <1>1 DEF WipeCrash, WipeImagePrefix, TypeOK, LowImages, Images
<1>5. QED
  BY <1>2, <1>3, <1>4, ForgeableAtNext, ForgeableAt

\* FromStream makes a key live only where storage holds one.
LEMMA FromStreamMakesNoKey ==
    ASSUME TypeOK, TypeOK', FromStream, NEW t \in TreeIds, Forgeable(t)'
    PROVE  Forgeable(t)
<1> DEFINE b == t.BatchId
           k == t.KeyId
<1>1. TopEnd - b \in Slots(TopStart, TopEnd) /\ LowEnd - k \in Slots(0, LowEnd)
      /\ b \in Nat
  BY TreeIdPlace, Ranges
<1>2. KeyAt(top', b) = "live" => diskTop.slot[TopEnd - b] = "key"
  BY <1>1 DEF FromStream, KeyAt, LevelFromStream, Index, TypeOK, TopImages, Images
<1>3. low'.parent = b /\ KeyAt(low', k) = "live" =>
          diskLow.parent = b /\ diskLow.slot[LowEnd - k] = "key"
  BY <1>1 DEF FromStream, KeyAt, LevelFromStream, NoLevel, Index,
             TypeOK, LowImages, Images
<1>4. QED
  BY <1>2, <1>3, ForgeableAtNext, ForgeableAt DEF FromStream, diskVars

\* A chain sign returns verifies only if the tree held material for it.
LEMMA SignIssuesUsable ==
    ASSUME TypeOK, NEW id \in IdInputs, Sign(id), result'.valid
    PROVE  id \in Usable
<1> DEFINE c == id.BatchId
           enter == lastKey.BatchId # id.BatchId
<1>1. id \in TreeIds /\ c \in Nat
  BY AdmittedIsTreeId, TreeIdPlace, Ranges DEF Sign
<1>2. CASE enter
  <2>1. EnteredLevel(c).parent = c
    BY <1>2 DEF Sign, Verifies
  <2>2. KeyAt(top, c) = "live"
    BY <1>1, <2>1, EnteredParent
  <2>3. QED BY <1>1, <2>2 DEF Usable, Forgeable, BatchKeyExposed
<1>3. CASE ~enter
  <2>1. low.parent = c /\ KeyAt(low, id.KeyId) = "live"
    BY <1>3 DEF Sign, Verifies
  <2>2. QED BY <1>1, <2>1 DEF Usable, Forgeable, LeafKeyExposed
<1>4. QED BY <1>2, <1>3

-----------------------------------------------------------------------------
(***************************************************************************)
(* The refinement.                                                          *)
(***************************************************************************)

\* Create stores every batch key, so the vault starts full and empty-handed.
LEMMA VaultInit == Init => Vault!Init
<1> SUFFICES ASSUME Init PROVE Usable = TreeIds /\ Issued = InitialKeyId
  BY DEF Vault!Init
<1>1. TypeOK BY TypeInit
<1>2. \A t \in TreeIds : diskTop.slot[TopEnd - t.BatchId] = "key"
  BY TreeIdPlace DEF Init, LevelWrite, LevelCreate, Slots
<1>3. \A t \in TreeIds : Forgeable(t)
  BY <1>1, <1>2, ForgeableAt
<1>4. QED BY <1>3 DEF Usable, Issued, Init

\* No step of the tree makes an identifier usable again.
LEMMA NoKeyMade ==
    TypeOK /\ TypeOK' /\ [Next]_vars => Usable' \subseteq Usable
<1> SUFFICES ASSUME TypeOK, TypeOK', [Next]_vars,
                    NEW t \in TreeIds, Forgeable(t)'
             PROVE  Forgeable(t)
  BY DEF Usable
<1>1. CASE \E id \in IdInputs : Sign(id)
  BY <1>1, SignMakesNoKey
<1>2. CASE \E id \in IdInputs : SignRejected(id)
  BY <1>2 DEF SignRejected, Forgeable, BatchKeyExposed, LeafKeyExposed,
              memVars, diskVars
<1>3. CASE \E id \in IdInputs : Wipe(id)
  BY <1>3, WipeMakesNoKey
<1>4. CASE \E id \in IdInputs : WipeRejected(id)
  BY <1>4 DEF WipeRejected, Forgeable, BatchKeyExposed, LeafKeyExposed,
              memVars, diskVars
<1>5. CASE \E id \in IdInputs, torn \in BOOLEAN : SignCrash(id, torn)
  BY <1>5, SignCrashMakesNoKey
<1>6. CASE \E id \in IdInputs, inLow \in BOOLEAN :
             \E n \in 0 .. (IF inLow THEN LowEnd ELSE TopEnd - TopStart) :
                WipeCrash(id, inLow, n)
  BY <1>6, WipeCrashMakesNoKey
<1>7. CASE Crash
  <2>1. KeyAt(top', t.BatchId) # "live" /\ low'.parent # t.BatchId
    BY <1>7, CrashedHoldsNothing DEF Crash
  <2>2. QED
    BY <1>7, <2>1, ForgeableAtNext, ForgeableAt DEF Crash, diskVars
<1>8. CASE FromStream
  BY <1>8, FromStreamMakesNoKey
<1>9. CASE UNCHANGED vars
  BY <1>9 DEF vars, memVars, diskVars, Forgeable, BatchKeyExposed, LeafKeyExposed
<1>10. QED BY <1>1, <1>2, <1>3, <1>4, <1>5, <1>6, <1>7, <1>8, <1>9 DEF Next

\* Every step of the tree is a vault step or leaves the vault alone.
LEMMA VaultStep ==
    TypeOK /\ TypeOK' /\ [Next]_vars => [Vault!Next]_(Vault!vaultVars)
<1> SUFFICES ASSUME TypeOK, TypeOK', [Next]_vars
             PROVE  [Vault!Next]_(Vault!vaultVars)
  OBVIOUS
<1>1. Usable' \subseteq Usable
  BY NoKeyMade
<1>2. CASE \E id \in IdInputs : Sign(id) /\ result'.valid
  <2>1. PICK id \in IdInputs : Sign(id) /\ result'.valid
    BY <1>2
  <2>2. id \in Usable /\ Issued' = id
    BY <2>1, SignIssuesUsable DEF Sign, Issued
  <2>3. QED BY <1>1, <2>2 DEF Vault!Next, Vault!Issue, Usable
<1>3. CASE ~\E id \in IdInputs : Sign(id) /\ result'.valid
  <2>1. Issued' \in {Issued, InitialKeyId}
    <3>1. CASE \E id \in IdInputs : Sign(id)
      BY <1>3, <3>1 DEF Sign, Issued
    <3>2. CASE ~\E id \in IdInputs : Sign(id)
      BY <3>2 DEF Next, vars, Issued, SignRejected, Wipe, WipeRejected,
                  SignCrash, WipeCrash, Crash, FromStream
    <3>3. QED BY <3>1, <3>2
  <2>2. QED BY <1>1, <2>1 DEF Vault!Next, Vault!Destroy
<1>4. QED BY <1>2, <1>3

\* The tree implements the vault: VaultRefinement holds for every value of
\* the constants and for any caller, with or without crashes.
THEOREM VaultRefinementProof == Spec => VaultRefinement
<1>1. Init => Vault!Init BY VaultInit
<1>2. TypeOK /\ TypeOK' /\ [Next]_vars => [Vault!Next]_(Vault!vaultVars)
  BY VaultStep
<1>3. QED
  BY <1>1, <1>2, TypeCorrect, PTL DEF Spec, VaultRefinement, Vault!Spec

=============================================================================
