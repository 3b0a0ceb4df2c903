----------------------- MODULE BmPrivateKeyTree_secrecy -----------------------
(***************************************************************************)
(* Forward secrecy of the key tree, for every value of the constants, when *)
(* the caller wipes only identifiers it has signed.                        *)
(*                                                                         *)
(* Most steps cannot break ForwardSecrecy: they leave the wipe history     *)
(* alone, and no step makes key material (NoKeyMade of the refinement).    *)
(* The one step to argue is a wipe of an identifier w above every earlier  *)
(* one, after which nothing at or below w may be forgeable.  For batch    *)
(* keys the tree's wipe pops and zeroes them - except when the batch is   *)
(* the one of the last wipe, where it relies on the earlier wipe having    *)
(* done so (TopWipedToLastWipe).  For leaf keys it wipes only the low      *)
(* level materialised in memory; that this is the only low level holding  *)
(* keys of batches at or below w follows from the discipline (w is at or  *)
(* below the last key signed) and from where the low level sits relative  *)
(* to the header (HeaderNamesLowLevel, LowLevelLoaded).                    *)
(***************************************************************************)
EXTENDS BmPrivateKeyTree_refinement, TLAPS

USE InvalidAssumption, DilutionAssumption, OptionsAssumption, KeyAssumption

\* A running tree has popped and zeroed every batch key up to the batch of
\* its last wipe: wipe skips the top level when the batch did not change.
TopWipedToLastWipe ==
    up /\ lastWipe.BatchId # Invalid =>
        \A b \in Batches : b <= lastWipe.BatchId => ~BatchKeyExposed(b)

\* The stored header's KeyId is a key of the low level, and once the header
\* names a batch, storage holds a low level whose parent is not below it.
HeaderNamesLowLevel ==
    /\ diskLastKey.KeyId \in 0 .. LowEnd
    /\ diskLastKey.BatchId # Invalid =>
          /\ diskLow.parent # NoKey
          /\ diskLow.parent \in Nat => diskLastKey.BatchId <= diskLow.parent

\* A running tree that has signed in some batch has its low level loaded.
LowLevelLoaded == up /\ lastKey.BatchId # Invalid => low.parent # NoKey

SecrecySupport == TopWipedToLastWipe /\ HeaderNamesLowLevel /\ LowLevelLoaded

-----------------------------------------------------------------------------

\* The low level sign creates, and its image, have a parent that is not
\* NoKey and, when it is a batch, is the batch entered.
LEMMA EnteredLevelParent ==
    ASSUME NEW c \in Nat
    PROVE  /\ EnteredLevel(c).parent # NoKey
           /\ LevelWrite(EnteredLevel(c)).parent = EnteredLevel(c).parent
           /\ EnteredLevel(c).parent \in Nat => EnteredLevel(c).parent = c
BY DEF EnteredLevel, LevelCreate, LevelWrite

\* Where the header and the low level in storage stand after each step.
LEMMA HeaderNamesStep ==
    TypeOK /\ HeaderCoversSigned /\ HeaderNamesLowLevel /\ [Next]_vars
        => HeaderNamesLowLevel'
<1> SUFFICES ASSUME TypeOK, HeaderCoversSigned, HeaderNamesLowLevel,
                    [Next]_vars
             PROVE  HeaderNamesLowLevel'
  OBVIOUS
<1>1. CASE \E id \in IdInputs : Sign(id)
  <2>1. PICK id \in IdInputs : Sign(id)
    BY <1>1
  <2>2. /\ id.BatchId \in Nat /\ id.KeyId \in 0 .. LowEnd
        /\ id.BatchId # Invalid /\ lastKey = diskLastKey
    BY <2>1, Ranges, CheckBounds, AdmittedAbove
    DEF Sign, CanSign, HeaderCoversSigned, KeyIdentifiers
  <2>3. CASE lastKey.BatchId # id.BatchId
    <3>1. diskLow' = LevelWrite(EnteredLevel(id.BatchId)) /\ diskLastKey' = id
      BY <2>1, <2>3 DEF Sign, SaveLastKey
    <3>2. diskLow'.parent # NoKey
          /\ (diskLow'.parent \in Nat => diskLow'.parent = id.BatchId)
      BY <3>1, <2>2, EnteredLevelParent
    <3>3. QED BY <2>2, <3>1, <3>2 DEF HeaderNamesLowLevel
  <2>4. CASE lastKey.BatchId = id.BatchId
    BY <2>1, <2>2, <2>4 DEF Sign, SaveLastKey, HeaderNamesLowLevel
  <2>5. QED BY <2>3, <2>4
<1>2. CASE \E id \in IdInputs, torn \in BOOLEAN : SignCrash(id, torn)
  <2>1. PICK id \in IdInputs, torn \in BOOLEAN : SignCrash(id, torn)
    BY <1>2
  <2>2. /\ id.BatchId \in Nat /\ id.BatchId # Invalid
        /\ lastKey = diskLastKey
        /\ lastKey.BatchId = Invalid \/ KeyIdLeq(lastKey, id)
    BY <2>1, Ranges, CheckBounds, AdmittedAbove
    DEF SignCrash, CanSign, HeaderCoversSigned, KeyIdentifiers
  <2>3. lastKey \in KeyIdentifiers /\ id \in KeyIdentifiers
    BY Ranges DEF TypeOK
  <2>4. lastKey.BatchId # Invalid => lastKey.BatchId <= id.BatchId
    BY <2>2, <2>3 DEF KeyIdLeq, KeyIdLess, KeyIdentifiers
  <2>5. diskLastKey'.KeyId = diskLastKey.KeyId
    BY <2>1 DEF SignCrash, TornLastKey, KeyIdentifier
  <2>6. diskLastKey'.BatchId \in {diskLastKey.BatchId, id.BatchId}
    BY <2>1 DEF SignCrash, TornLastKey, KeyIdentifier
  <2>7. CASE lastKey.BatchId # id.BatchId
    <3>1. diskLow' = LevelWrite(EnteredLevel(id.BatchId))
      BY <2>1, <2>7 DEF SignCrash
    <3>2. diskLow'.parent # NoKey
          /\ (diskLow'.parent \in Nat => diskLow'.parent = id.BatchId)
      BY <3>1, <2>2, EnteredLevelParent
    <3>3. diskLastKey'.BatchId # Invalid => diskLastKey'.BatchId <= id.BatchId
      BY <2>2, <2>4, <2>6, <2>3 DEF KeyIdentifiers
    <3>4. QED BY <2>5, <3>2, <3>3 DEF HeaderNamesLowLevel
  <2>8. CASE lastKey.BatchId = id.BatchId
    <3>1. diskLow' = diskLow /\ diskLastKey'.BatchId = diskLastKey.BatchId
      BY <2>1, <2>2, <2>6, <2>8 DEF SignCrash, TornLastKey
    <3>2. QED BY <2>5, <3>1 DEF HeaderNamesLowLevel
  <2>9. QED BY <2>7, <2>8
<1>3. CASE \E id \in IdInputs : Wipe(id)
  <2>1. PICK id \in IdInputs : Wipe(id)
    BY <1>3
  <2>2. diskLow'.parent = diskLow.parent
    BY <2>1 DEF Wipe, WipeImage
  <2>3. QED BY <2>1, <2>2 DEF Wipe, HeaderNamesLowLevel
<1>4. CASE \E id \in IdInputs, inLow \in BOOLEAN :
             \E n \in 0 .. (IF inLow THEN LowEnd ELSE TopEnd - TopStart) :
                WipeCrash(id, inLow, n)
  <2>1. PICK id \in IdInputs, inLow \in BOOLEAN, n \in Nat : WipeCrash(id, inLow, n)
    BY <1>4, Ranges
  <2>2. diskLow'.parent = diskLow.parent
    BY <2>1 DEF WipeCrash, WipeImagePrefix
  <2>3. QED BY <2>1, <2>2 DEF WipeCrash, HeaderNamesLowLevel
<1>5. QED
  BY <1>1, <1>2, <1>3, <1>4
  DEF Next, vars, diskVars, HeaderNamesLowLevel, SignRejected, WipeRejected,
      Crash, FromStream

\* A running tree that has signed keeps its low level loaded: sign creates
\* one on entering a batch, and FromStream reads it back.
LEMMA LowLevelLoadedStep ==
    TypeOK /\ HeaderNamesLowLevel /\ LowLevelLoaded /\ [Next]_vars
        => LowLevelLoaded'
<1> SUFFICES ASSUME TypeOK, HeaderNamesLowLevel, LowLevelLoaded, [Next]_vars
             PROVE  LowLevelLoaded'
  OBVIOUS
<1>1. CASE \E id \in IdInputs : Sign(id)
  <2>1. PICK id \in IdInputs : Sign(id)
    BY <1>1
  <2>2. id.BatchId \in Nat
    BY Ranges DEF KeyIdentifiers
  <2>3. QED
    BY <2>1, <2>2, EnteredLevelParent DEF Sign, LowLevelLoaded
<1>2. CASE \E id \in IdInputs : Wipe(id)
  BY <1>2 DEF Wipe, LevelWipe, LowLevelLoaded
<1>3. CASE FromStream
  BY <1>3 DEF FromStream, LevelFromStream, LowLevelLoaded, HeaderNamesLowLevel
<1>4. QED
  BY <1>1, <1>2, <1>3
  DEF Next, vars, memVars, LowLevelLoaded, SignRejected, WipeRejected,
      SignCrash, WipeCrash, Crash

\* The batch a wipe admits is one of the top level's, never Invalid_Id.
LEMMA WipeAdmitted ==
    ASSUME TypeOK, NEW id \in IdInputs, Wipe(id)
    PROVE  /\ id.BatchId \in Batches /\ id.BatchId # Invalid
           /\ up
<1> DEFINE normalized == KeyIdentifier(id.BatchId,
                                      IF id.KeyId = Invalid THEN 0 ELSE id.KeyId)
<1>1. normalized \in KeyIdentifiers /\ Check(normalized, lastWipe)
  BY Ranges DEF Wipe, KeyIdentifier, KeyIdentifiers
<1>2. normalized.BatchId \in Batches /\ normalized.BatchId <= TopEnd
  BY <1>1, CheckBounds
<1>3. QED
  BY <1>2, Ranges DEF KeyIdentifier, Wipe, TopEnd

\* A wipe of id leaves no batch key at or below id.BatchId: it pops and
\* zeroes them when the batch changed, and the wipe before did otherwise.
LEMMA WipeClearsBatches ==
    ASSUME TypeOK, TypeOK', MemoryMirrorsDisk, TopWipedToLastWipe,
           NEW id \in IdInputs, Wipe(id), NEW b \in Batches, b <= id.BatchId
    PROVE  ~BatchKeyExposed(b)'
<1> DEFINE c == id.BatchId
<1>1. c \in Batches /\ c # Invalid /\ up
  BY WipeAdmitted
<1>2. Index(diskTop', b) = TopEnd - b
  BY DEF TypeOK, TopImages, Images, Index
<1>3. CASE lastWipe.BatchId # c
  <2>1. top' = LevelWipe(top, c) /\ diskTop' = WipeImage(diskTop, top, c)
    BY <1>3 DEF Wipe
  <2>2. DiskAgrees(top, diskTop)
    BY <1>1 DEF MemoryMirrorsDisk
  <2>3. top \in Levels({RootKey}, TopStart, TopEnd)
        /\ diskTop \in Images({RootKey}, TopStart, TopEnd)
    BY DEF TypeOK, TopLevels, TopImages
  <2>4. KeyAt(LevelWipe(top, c), b) # "live"
    BY <1>1, <2>3, Ranges, WipeErasesLevel DEF Batches
  <2>5. WipeImage(diskTop, top, c).slot[TopEnd - b] = "zero"
    BY <1>1, <2>2, <2>3, Ranges, WipeErasesImage DEF Batches
  <2>6. QED
    BY <1>2, <2>1, <2>4, <2>5 DEF BatchKeyExposed
<1>4. CASE lastWipe.BatchId = c
  <2>1. ~BatchKeyExposed(b)
    BY <1>1, <1>4 DEF TopWipedToLastWipe
  <2>2. top' = top /\ diskTop' = diskTop
    BY <1>4 DEF Wipe
  <2>3. QED
    BY <2>1, <2>2 DEF BatchKeyExposed
<1>5. QED BY <1>3, <1>4

\* TopWipedToLastWipe is kept by every step: sign only moves a batch key
\* out, and a crash or FromStream forgets the last wipe identifier.
LEMMA TopWipedStep ==
    TypeOK /\ TypeOK' /\ MemoryMirrorsDisk /\ TopWipedToLastWipe /\ [Next]_vars
        => TopWipedToLastWipe'
<1> SUFFICES ASSUME TypeOK, TypeOK', MemoryMirrorsDisk, TopWipedToLastWipe,
                    [Next]_vars, up', lastWipe'.BatchId # Invalid,
                    NEW b \in Batches, b <= lastWipe'.BatchId
             PROVE  ~BatchKeyExposed(b)'
  BY DEF TopWipedToLastWipe
<1>1. CASE \E id \in IdInputs : Sign(id)
  <2>1. PICK id \in IdInputs : Sign(id)
    BY <1>1
  <2>2. id.BatchId \in TopStart .. TopEnd
    BY <2>1, TreeIdPlace, AdmittedIsTreeId DEF Sign
  <2>3. ~BatchKeyExposed(b)
    BY <2>1 DEF Sign, TopWipedToLastWipe
  <2>4. KeyAt(top', b) = "live" => KeyAt(top, b) = "live"
    <3>1. CASE lastKey.BatchId # id.BatchId
      <4>1. top' = LevelDetachAt(top, id.BatchId)
        BY <2>1, <3>1 DEF Sign
      <4>2. QED
        BY <2>2, <4>1, Ranges, DetachKeepsNoKey DEF TypeOK, TopLevels, Batches
    <3>2. QED BY <2>1, <3>1 DEF Sign
  <2>5. QED
    BY <2>1, <2>3, <2>4 DEF Sign, BatchKeyExposed
<1>2. CASE \E id \in IdInputs : Wipe(id)
  <2>1. PICK id \in IdInputs : Wipe(id)
    BY <1>2
  <2>2. QED
    BY <2>1, WipeClearsBatches DEF Wipe
<1>3. CASE \E id \in IdInputs : SignRejected(id) \/ WipeRejected(id)
  BY <1>3 DEF SignRejected, WipeRejected, memVars, diskVars,
              TopWipedToLastWipe, BatchKeyExposed
<1>4. CASE UNCHANGED vars
  BY <1>4 DEF vars, memVars, diskVars, TopWipedToLastWipe, BatchKeyExposed
<1>5. CASE FromStream
  BY <1>5 DEF FromStream, InitialKeyId, KeyIdentifier
<1>6. QED
  BY <1>1, <1>2, <1>3, <1>4, <1>5 DEF Next, SignCrash, WipeCrash, Crash

\* A wipe of id under the discipline leaves no leaf key at or below id: the
\* only low level that can hold one is the one materialised in memory,
\* which belongs to the batch of the last key signed, and that batch is
\* then id's.
LEMMA WipeClearsLeaves ==
    ASSUME TypeOK, TypeOK', MemoryMirrorsDisk, HeaderCoversSigned,
           HeaderNamesLowLevel, LowLevelLoaded, CallerWipesSignedOnly,
           NEW id \in IdInputs, Wipe(id), NEW t \in TreeIds, KeyIdLeq(t, id)
    PROVE  ~LeafKeyExposed(t)'
<1> DEFINE b == t.BatchId
           k == t.KeyId
           c == id.BatchId
<1>1. up /\ lastKey.BatchId # Invalid /\ KeyIdLeq(id, lastKey)
  BY DEF Wipe, WipeRequested
<1>2. /\ low.parent # NoKey /\ diskLow.parent = low.parent
      /\ DiskAgrees(low, diskLow)
  BY <1>1 DEF LowLevelLoaded, MemoryMirrorsDisk
<1>3. low'.parent = low.parent /\ diskLow'.parent = diskLow.parent
  BY DEF Wipe, LevelWipe, WipeImage
<1>4. CASE low.parent # b
  BY <1>2, <1>3, <1>4 DEF LeafKeyExposed
<1>5. CASE low.parent = b
  <2>1. b \in Nat /\ k \in 0 .. LowEnd
    BY TreeIdPlace, Ranges
  <2>2. lastKey = diskLastKey /\ lastKey.BatchId <= b
    BY <1>1, <1>2, <1>5, <2>1 DEF HeaderCoversSigned, HeaderNamesLowLevel
  <2>3. lastKey.KeyId \in 0 .. LowEnd
    BY <2>2 DEF HeaderNamesLowLevel
  <2>4. lastKey \in KeyIdentifiers /\ id \in KeyIdentifiers
    BY Ranges DEF TypeOK
  <2>5. b = c /\ c = lastKey.BatchId /\ k <= id.KeyId /\ id.KeyId <= lastKey.KeyId
    BY <1>1, <2>1, <2>2, <2>4 DEF KeyIdLeq, KeyIdLess, KeyIdentifiers
  <2>6. id.KeyId \in 0 .. LowEnd /\ id.KeyId # Invalid
    BY <2>3, <2>4, <2>5, Ranges DEF KeyIdentifiers, LowEnd
  <2>7. low' = LevelWipe(low, id.KeyId) /\ diskLow' = WipeImage(diskLow, low, id.KeyId)
    BY <1>2, <2>6 DEF Wipe
  <2>8. low \in Levels(LowParents, 0, LowEnd) /\ diskLow \in Images(LowParents, 0, LowEnd)
    BY DEF TypeOK, LowLevels, LowImages
  <2>9. /\ k \in 0 .. LowEnd /\ id.KeyId \in 0 .. LowEnd /\ k <= id.KeyId
        /\ LowEnd \in Nat /\ 0 \in Nat
    BY <2>1, <2>5, <2>6, Ranges
  <2>10. KeyAt(LevelWipe(low, id.KeyId), k) # "live"
    BY <2>8, <2>9, WipeErasesLevel
  <2>14. DiskAgrees(low, diskLow)
    BY <1>2
  <2>13. WipeImage(diskLow, low, id.KeyId).slot[LowEnd - k] = "zero"
    <3>1. /\ low.slot \in [0 .. LowEnd -> MemSlots] /\ low.end = LowEnd
          /\ low.size \in 0 .. (LowEnd + 1)
          /\ diskLow.slot \in [0 .. LowEnd -> DiskSlots]
      BY <2>8, <2>9 DEF Levels, Images, Slots
    <3>2. CASE LowEnd - k < low.size
      BY <2>9, <3>1, <3>2 DEF WipeImage, Index
    <3>3. CASE low.size <= LowEnd - k
      <4>1. diskLow.slot[LowEnd - k] = "zero"
        BY <2>9, <2>14, <3>1, <3>3 DEF DiskAgrees
      <4>2. QED
        BY <2>9, <3>1, <4>1 DEF WipeImage, Index
    <3>4. QED BY <2>9, <3>1, <3>2, <3>3
  <2>11. Index(diskLow', k) = LowEnd - k
    BY DEF TypeOK, LowImages, Images, Index
  <2>12. QED
    BY <2>7, <2>10, <2>11, <2>13 DEF LeafKeyExposed
<1>6. QED BY <1>4, <1>5

-----------------------------------------------------------------------------
(***************************************************************************)
(* Forward secrecy.                                                        *)
(***************************************************************************)

\* Create has wiped nothing, signed nothing and read no low level.
LEMMA SecrecyInit == Init => SecrecySupport /\ ForwardSecrecy
BY Ranges DEF Init, SecrecySupport, TopWipedToLastWipe, HeaderNamesLowLevel,
              LowLevelLoaded, ForwardSecrecy, Covers, InitialKeyId,
              KeyIdentifier

\* The support of ForwardSecrecy holds for any caller.
LEMMA SupportInvariant == Spec => []SecrecySupport
<1>1. TypeOK /\ TypeOK' /\ MemoryMirrorsDisk /\ HeaderCoversSigned
          /\ SecrecySupport /\ [Next]_vars
        => SecrecySupport'
  BY TopWipedStep, HeaderNamesStep, LowLevelLoadedStep DEF SecrecySupport
<1>2. QED
  BY <1>1, SecrecyInit, TypeCorrect, MemoryMirrorsDiskInvariant,
     HeaderInvariant, PTL DEF Spec

\* Under the discipline, no step makes an identifier a completed wipe
\* covers forgeable.
LEMMA SecrecyStep ==
    ASSUME CallerWipesSignedOnly, TypeOK, TypeOK', MemoryMirrorsDisk,
           HeaderCoversSigned, SecrecySupport, ForwardSecrecy, [Next]_vars
    PROVE  ForwardSecrecy'
<1> SUFFICES ASSUME NEW t \in TreeIds, Covers(wiped', t)
             PROVE  ~Forgeable(t)'
  BY DEF ForwardSecrecy
<1>1. CASE \E id \in IdInputs : Wipe(id) /\ ~Covers(wiped, id)
  <2>1. PICK id \in IdInputs : Wipe(id) /\ ~Covers(wiped, id)
    BY <1>1
  <2>2. KeyIdLeq(t, id)
    BY <2>1 DEF Wipe, Covers
  <2>3. t.BatchId \in Batches /\ t.BatchId <= id.BatchId
    BY <2>2, TreeIdPlace, Ranges DEF KeyIdLeq, KeyIdLess, KeyIdentifiers, Batches
  <2>4. ~BatchKeyExposed(t.BatchId)'
    BY <2>1, <2>3, WipeClearsBatches DEF SecrecySupport
  <2>5. ~LeafKeyExposed(t)'
    BY <2>1, <2>2, WipeClearsLeaves DEF SecrecySupport
  <2>6. QED BY <2>4, <2>5 DEF Forgeable
<1>2. CASE ~\E id \in IdInputs : Wipe(id) /\ ~Covers(wiped, id)
  <2>1. wiped' = wiped
    <3>1. ASSUME NEW id \in IdInputs, Wipe(id)
          PROVE  wiped' = wiped
      BY <1>2, <3>1 DEF Wipe
    <3>2. QED
      BY <3>1 DEF Next, vars, Sign, SignRejected, WipeRejected, SignCrash,
                  WipeCrash, Crash, FromStream
  <2>2. ~Forgeable(t)
    BY <2>1 DEF ForwardSecrecy
  <2>3. QED
    BY <2>2, NoKeyMade DEF Usable
<1>3. QED BY <1>1, <1>2

\* Forward secrecy for every value of the constants, with or without
\* crashes, when the caller wipes only what it has signed: once wipe has
\* returned for w, no identifier at or below w is forgeable from memory or
\* storage, although wipe skips the top level when the batch did not
\* change, wipes only the low level in memory, and the last wipe
\* identifier is lost on every crash.
THEOREM ForwardSecrecyInvariant ==
    ASSUME CallerWipesSignedOnly
    PROVE  Spec => []ForwardSecrecy
<1>1. TypeOK /\ TypeOK' /\ MemoryMirrorsDisk /\ HeaderCoversSigned
          /\ SecrecySupport /\ ForwardSecrecy /\ [Next]_vars
        => ForwardSecrecy'
  BY SecrecyStep
<1>2. QED
  BY <1>1, SecrecyInit, TypeCorrect, MemoryMirrorsDiskInvariant,
     HeaderInvariant, SupportInvariant, PTL DEF Spec

=============================================================================
