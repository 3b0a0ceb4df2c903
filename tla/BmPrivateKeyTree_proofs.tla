------------------------- MODULE BmPrivateKeyTree_proofs -------------------------
(***************************************************************************)
(* Proofs about the key tree, for every value of the constants that        *)
(* satisfies the assumptions of BmKeyIdentifier and BmPrivateKeyTree.      *)
(***************************************************************************)
EXTENDS BmPrivateKeyTree, BmLevel_proofs, TLAPS

USE InvalidAssumption, DilutionAssumption, OptionsAssumption, KeyAssumption

\* Facts about the ranges of the two levels that every step needs.
LEMMA Ranges ==
    /\ TopStart \in Nat /\ TopEnd \in Nat /\ TopStart <= TopEnd
    /\ LowEnd \in Nat /\ 0 <= LowEnd
    /\ IdInputs \subseteq KeyIdentifiers
    /\ InitialKeyId \in KeyIdentifiers
BY DEF TopStart, TopEnd, LowEnd, IdInputs, KeyIdentifiers, InitialKeyId,
       KeyIdentifier

\* An identifier the check admits lies inside both levels: its BatchId is a
\* batch of the top level and its KeyId a key of the low level.
LEMMA CheckBounds ==
    ASSUME NEW id \in KeyIdentifiers, NEW ref, Check(id, ref)
    PROVE  /\ id.BatchId \in Batches
           /\ id.BatchId <= TopEnd
           /\ id.KeyId <= LowEnd
BY DEF Check, KeyIdLess, KeyIdentifiers, Batches, TopStart, TopEnd, LowEnd

\* The empty low level, its image, and the level a crashed process holds.
LEMMA NoLevelType ==
    /\ NoLevel \in LowLevels
    /\ NoImage \in LowImages
    /\ NoTop \in TopLevels
<1>1. NoLevel \in LowLevels
  BY Ranges DEF NoLevel, LowLevels, LowParents, Levels, Slots, MemSlots
<1>2. NoImage \in LowImages
  BY <1>1, Ranges, LevelWriteType DEF NoImage, LowLevels, LowImages
<1>3. NoTop \in TopLevels
  <2>1. LevelCreate(RootKey, TopStart, TopEnd) \in TopLevels
    BY Ranges, LevelCreateType DEF TopLevels
  <2>2. QED
    BY <2>1, Ranges DEF NoTop, TopLevels, Levels
<1>4. QED BY <1>1, <1>2, <1>3

\* The low level sign creates on entering a batch of the top level.
LEMMA EnteredLevelType ==
    ASSUME NEW b \in Batches
    PROVE  EnteredLevel(b) \in LowLevels
<1>1. (IF KeyAt(top, b) = "live" THEN b ELSE ZeroKey) \in LowParents
  BY DEF LowParents
<1>2. QED BY <1>1, Ranges, LevelCreateType DEF EnteredLevel, LowLevels

-----------------------------------------------------------------------------

\* Create leaves every variable in its set.
LEMMA TypeInit == Init => TypeOK
<1> SUFFICES ASSUME Init PROVE TypeOK
  OBVIOUS
<1>1. top \in TopLevels /\ diskTop \in TopImages
  BY Ranges, LevelCreateType, LevelWriteType DEF Init, TopLevels, TopImages
<1>2. QED
  BY <1>1, Ranges, NoLevelType DEF Init, TypeOK

\* Every step keeps every variable in its set.
LEMMA TypeStep == TypeOK /\ [Next]_vars => TypeOK'
<1> SUFFICES ASSUME TypeOK, [Next]_vars PROVE TypeOK'
  OBVIOUS
<1>1. ASSUME NEW id \in IdInputs, Sign(id) PROVE TypeOK'
  <2> DEFINE enter == lastKey.BatchId # id.BatchId
             newLow == IF enter THEN EnteredLevel(id.BatchId) ELSE low
  <2>1. id \in KeyIdentifiers /\ CanSign(id)
    BY <1>1, Ranges DEF Sign
  <2>2. id.BatchId \in Batches /\ id.BatchId <= TopEnd
    BY <2>1, CheckBounds DEF CanSign
  <2>3. newLow \in LowLevels
    BY <2>2, EnteredLevelType DEF TypeOK
  <2>4. top' \in TopLevels
    BY <1>1, <2>2, Ranges, LevelDetachAtType
       DEF Sign, TypeOK, TopLevels, Batches
  <2>5. low' \in LowLevels /\ diskLow' \in LowImages
    BY <1>1, <2>3, Ranges, LevelWriteType DEF Sign, TypeOK, LowLevels, LowImages
  <2>6. diskLastKey' \in KeyIdentifiers
    BY <1>1, <2>1 DEF Sign, SaveLastKey
  <2>7. result' \in [op : {"none", "sign", "wipe", "signRejected",
                            "wipeRejected"}, valid : BOOLEAN]
    <3>1. result' = [op |-> "sign", valid |-> Verifies(newLow, id)]
      BY <1>1 DEF Sign
    <3>2. Verifies(newLow, id) \in BOOLEAN
      BY DEF Verifies
    <3>3. QED
      BY <3>1, <3>2, Zenon
  <2>8. /\ lastKey' \in KeyIdentifiers /\ signedMax' \in KeyIdentifiers
        /\ UNCHANGED <<up, lastWipe, diskTop, wiped>>
    BY <1>1, <2>1 DEF Sign
  <2>9. QED
    BY <2>4, <2>5, <2>6, <2>7, <2>8 DEF TypeOK
<1>2. ASSUME NEW id \in IdInputs, SignRejected(id) PROVE TypeOK'
  BY <1>2 DEF SignRejected, TypeOK, memVars, diskVars
<1>3. ASSUME NEW id \in IdInputs, Wipe(id) PROVE TypeOK'
  <2> DEFINE normalized == KeyIdentifier(id.BatchId,
                               IF id.KeyId = Invalid THEN 0 ELSE id.KeyId)
  <2>1. id \in KeyIdentifiers /\ normalized \in KeyIdentifiers
    BY Ranges DEF KeyIdentifier, KeyIdentifiers
  <2>2. Check(normalized, lastWipe)
    BY <1>3 DEF Wipe
  <2>3. id.BatchId <= TopEnd /\ normalized.KeyId <= LowEnd
    BY <2>1, <2>2, CheckBounds DEF KeyIdentifier
  <2>4. id.KeyId # Invalid => id.KeyId <= LowEnd
    BY <2>3 DEF KeyIdentifier
  <2>5. top' \in TopLevels /\ diskTop' \in TopImages
    BY <1>3, <2>1, <2>3, Ranges, LevelWipeType, WipeImageType
       DEF Wipe, TypeOK, TopLevels, TopImages, KeyIdentifiers
  <2>6. low' \in LowLevels /\ diskLow' \in LowImages
    BY <1>3, <2>1, <2>4, Ranges, LevelWipeType, WipeImageType
       DEF Wipe, TypeOK, LowLevels, LowImages, KeyIdentifiers
  <2>7. wiped' \in KeyIdentifiers /\ lastWipe' \in KeyIdentifiers
    BY <1>3, <2>1 DEF Wipe, TypeOK
  <2>8. QED
    BY <1>3, <2>5, <2>6, <2>7 DEF Wipe, TypeOK
<1>4. ASSUME NEW id \in IdInputs, WipeRejected(id) PROVE TypeOK'
  BY <1>4 DEF WipeRejected, TypeOK, memVars, diskVars
<1>5. ASSUME NEW id \in IdInputs, NEW torn \in BOOLEAN, SignCrash(id, torn)
      PROVE  TypeOK'
  <2>1. id \in KeyIdentifiers /\ CanSign(id)
    BY <1>5, Ranges DEF SignCrash
  <2>2. id.BatchId \in Batches
    BY <2>1, CheckBounds DEF CanSign
  <2>3. diskLow' \in LowImages
    BY <1>5, <2>2, Ranges, EnteredLevelType, LevelWriteType
       DEF SignCrash, LowLevels, LowImages, TypeOK
  <2>4. diskLastKey' \in KeyIdentifiers
    BY <1>5, <2>1 DEF SignCrash, TornLastKey, TypeOK, KeyIdentifier, KeyIdentifiers
  <2>5. QED
    BY <1>5, <2>3, <2>4, NoLevelType DEF SignCrash, TypeOK
<1>10. ASSUME NEW id \in IdInputs, NEW inLow \in BOOLEAN, NEW n \in Nat,
              WipeCrash(id, inLow, n)
       PROVE  TypeOK'
  <2>1. id.BatchId \in Nat /\ id.KeyId \in Nat
    BY Ranges DEF KeyIdentifiers
  <2>2. diskTop' \in TopImages
    <3>1. WipeImagePrefix(diskTop, top, id.BatchId, n) \in TopImages
      BY <2>1, Ranges, WipeImagePrefixType DEF TypeOK, TopImages, TopLevels
    <3>2. WipeImage(diskTop, top, id.BatchId) \in TopImages
      BY <2>1, Ranges, WipeImageType DEF TypeOK, TopImages, TopLevels
    <3>3. QED
      BY <1>10, <3>1, <3>2 DEF WipeCrash, TypeOK
  <2>3. diskLow' \in LowImages
    <3>1. WipeImagePrefix(diskLow, low, id.KeyId, n) \in LowImages
      BY <2>1, Ranges, WipeImagePrefixType DEF TypeOK, LowImages, LowLevels
    <3>2. QED
      BY <1>10, <3>1 DEF WipeCrash, TypeOK
  <2>4. QED
    BY <1>10, <2>2, <2>3, NoLevelType DEF WipeCrash, TypeOK
<1>6. CASE Crash
  BY <1>6, NoLevelType DEF Crash, TypeOK, diskVars
<1>7. CASE FromStream
  <2>1. top' \in TopLevels
    BY <1>7, Ranges, LevelFromStreamType DEF FromStream, TypeOK, TopLevels, TopImages
  <2>2. low' \in LowLevels
    BY <1>7, Ranges, LevelFromStreamType, NoLevelType
       DEF FromStream, TypeOK, LowLevels, LowImages
  <2>3. QED
    BY <1>7, <2>1, <2>2, Ranges DEF FromStream, TypeOK, diskVars
<1>8. CASE UNCHANGED vars
  BY <1>8 DEF vars, memVars, diskVars, TypeOK
<1>9. QED
  BY <1>1, <1>2, <1>3, <1>4, <1>5, <1>6, <1>7, <1>8, <1>10 DEF Next

\* Type correctness: every variable of the tree, in memory and in storage,
\* stays in its set through sign, wipe, crashes and FromStream.
THEOREM TypeCorrect == Spec => []TypeOK
BY TypeInit, TypeStep, PTL DEF Spec

-----------------------------------------------------------------------------

\* The inductive invariant for MemoryMirrorsDisk: the property itself,
\* with the types that give the levels and images their domains.
IInv == TypeOK /\ MemoryMirrorsDisk

\* Memory and storage agree: for every value of the constants and for any
\* caller, whether or not it follows the calling discipline, and across
\* crashes and FromStream, a kept key is in storage, a kept zero key is
\* zero in storage, and every popped entry is zeroed in storage.
THEOREM MemoryMirrorsDiskInvariant == Spec => []MemoryMirrorsDisk
<1>1. Init => IInv
  <2> SUFFICES ASSUME Init PROVE IInv
    OBVIOUS
  <2>1. TypeOK
    BY TypeInit
  <2>2. DiskAgrees(top, diskTop)
    BY Ranges, CreateAgrees DEF Init
  <2>3. low.parent = NoKey
    BY DEF Init, NoLevel
  <2>4. QED
    BY <2>1, <2>2, <2>3 DEF IInv, MemoryMirrorsDisk
<1>2. IInv /\ [Next]_vars => IInv'
  <2> SUFFICES ASSUME TypeOK, MemoryMirrorsDisk, [Next]_vars
               PROVE  MemoryMirrorsDisk'
    BY TypeStep DEF IInv
  <2> DEFINE Agreed(l, dl) == l.parent # NoKey =>
                                 /\ dl.parent = l.parent
                                 /\ DiskAgrees(l, dl)
  <2>1. ASSUME NEW id \in IdInputs, Sign(id) PROVE MemoryMirrorsDisk'
    <3> DEFINE enter == lastKey.BatchId # id.BatchId
    <3>1. id \in KeyIdentifiers /\ CanSign(id) /\ up /\ up'
      BY <2>1, Ranges DEF Sign
    <3>2. id.BatchId <= TopEnd /\ id.BatchId \in Batches
      BY <3>1, CheckBounds DEF CanSign
    <3>3. DiskAgrees(top', diskTop')
      <4>1. CASE enter
        BY <2>1, <3>2, <4>1, Ranges, DetachAgrees
           DEF Sign, TypeOK, MemoryMirrorsDisk, TopLevels, TopImages, Batches
      <4>2. CASE ~enter
        BY <2>1, <3>1, <4>2 DEF Sign, MemoryMirrorsDisk
      <4>3. QED BY <4>1, <4>2
    <3>4. Agreed(low', diskLow')
      <4>1. CASE enter
        <5> DEFINE p == IF KeyAt(top, id.BatchId) = "live" THEN id.BatchId ELSE ZeroKey
        <5>1. low' = LevelCreate(p, 0, LowEnd)
          BY <2>1, <4>1 DEF Sign, EnteredLevel
        <5>2. diskLow' = LevelWrite(LevelCreate(p, 0, LowEnd))
          BY <2>1, <4>1 DEF Sign, EnteredLevel
        <5>3. DiskAgrees(low', diskLow')
          <6>1. LowEnd \in Nat /\ 0 <= LowEnd
            BY Ranges
          <6>2. QED
            BY <5>1, <5>2, <6>1, CreateAgrees
        <5>4. diskLow'.parent = low'.parent
          BY <5>1, <5>2 DEF LevelWrite, LevelCreate
        <5>5. QED
          BY <5>3, <5>4
      <4>2. CASE ~enter
        BY <2>1, <3>1, <4>2 DEF Sign, MemoryMirrorsDisk
      <4>3. QED BY <4>1, <4>2
    <3>5. QED
      BY <3>1, <3>3, <3>4 DEF MemoryMirrorsDisk
  <2>2. ASSUME NEW id \in IdInputs, SignRejected(id) PROVE MemoryMirrorsDisk'
    BY <2>2 DEF SignRejected, MemoryMirrorsDisk, memVars, diskVars
  <2>3. ASSUME NEW id \in IdInputs, Wipe(id) PROVE MemoryMirrorsDisk'
    <3> DEFINE normalized == KeyIdentifier(id.BatchId,
                                 IF id.KeyId = Invalid THEN 0 ELSE id.KeyId)
               wipeTop == lastWipe.BatchId # id.BatchId
               wipeLow == id.KeyId # Invalid /\ low.parent # NoKey
    <3>1. id \in KeyIdentifiers /\ normalized \in KeyIdentifiers /\ up /\ up'
      BY <2>3, Ranges DEF Wipe, KeyIdentifier, KeyIdentifiers
    <3>2. id.BatchId <= TopEnd /\ (id.KeyId # Invalid => id.KeyId <= LowEnd)
      <4>1. Check(normalized, lastWipe)
        BY <2>3 DEF Wipe
      <4>2. QED
        BY <3>1, <4>1, CheckBounds DEF KeyIdentifier
    <3>3. DiskAgrees(top', diskTop')
      <4>1. CASE wipeTop
        BY <2>3, <3>1, <3>2, <4>1, Ranges, WipeAgrees
           DEF Wipe, TypeOK, MemoryMirrorsDisk, TopLevels, TopImages, KeyIdentifiers
      <4>2. CASE ~wipeTop
        BY <2>3, <3>1, <4>2 DEF Wipe, MemoryMirrorsDisk
      <4>3. QED BY <4>1, <4>2
    <3>4. Agreed(low', diskLow')
      <4>1. CASE wipeLow
        <5>1. low' = LevelWipe(low, id.KeyId)
              /\ diskLow' = WipeImage(diskLow, low, id.KeyId)
          BY <2>3, <4>1 DEF Wipe
        <5>2. diskLow.parent = low.parent /\ DiskAgrees(low, diskLow)
          BY <3>1, <4>1 DEF MemoryMirrorsDisk
        <5>3. DiskAgrees(low', diskLow')
          BY <3>1, <3>2, <4>1, <5>1, <5>2, Ranges, WipeAgrees
             DEF TypeOK, LowLevels, LowImages, KeyIdentifiers
        <5>4. QED
          BY <5>1, <5>2, <5>3 DEF LevelWipe, WipeImage
      <4>2. CASE ~wipeLow
        BY <2>3, <3>1, <4>2 DEF Wipe, MemoryMirrorsDisk
      <4>3. QED BY <4>1, <4>2
    <3>5. QED
      BY <3>1, <3>3, <3>4 DEF MemoryMirrorsDisk
  <2>4. ASSUME NEW id \in IdInputs, WipeRejected(id) PROVE MemoryMirrorsDisk'
    BY <2>4 DEF WipeRejected, MemoryMirrorsDisk, memVars, diskVars
  <2>5. ASSUME NEW id \in IdInputs, NEW torn \in BOOLEAN, SignCrash(id, torn)
        PROVE  MemoryMirrorsDisk'
    BY <2>5 DEF SignCrash, MemoryMirrorsDisk
  <2>10. ASSUME NEW id \in IdInputs, NEW inLow \in BOOLEAN, NEW n \in Nat,
                WipeCrash(id, inLow, n)
         PROVE  MemoryMirrorsDisk'
    BY <2>10 DEF WipeCrash, MemoryMirrorsDisk
  <2>6. CASE Crash
    BY <2>6 DEF Crash, MemoryMirrorsDisk
  <2>7. CASE FromStream
    <3>0. diskTop' = diskTop /\ diskLow' = diskLow /\ up'
      BY <2>7 DEF FromStream, diskVars
    <3>1. DiskAgrees(top', diskTop')
      <4>1. top' = LevelFromStream(diskTop)
        BY <2>7 DEF FromStream
      <4>2. QED
        BY <3>0, <4>1, Ranges, FromStreamAgrees DEF TypeOK, TopImages
    <3>2. Agreed(low', diskLow')
      <4>1. CASE diskLastKey.BatchId # Invalid
        <5>1. low' = LevelFromStream(diskLow)
          BY <2>7, <4>1 DEF FromStream
        <5>2. DiskAgrees(low', diskLow')
          BY <3>0, <5>1, Ranges, FromStreamAgrees DEF TypeOK, LowImages
        <5>3. diskLow'.parent = low'.parent
          BY <3>0, <5>1 DEF LevelFromStream
        <5>4. QED
          BY <5>2, <5>3
      <4>2. CASE diskLastKey.BatchId = Invalid
        BY <2>7, <4>2 DEF FromStream, NoLevel
      <4>3. QED BY <4>1, <4>2
    <3>3. QED
      BY <3>0, <3>1, <3>2 DEF MemoryMirrorsDisk
  <2>8. CASE UNCHANGED vars
    BY <2>8 DEF vars, memVars, diskVars, MemoryMirrorsDisk
  <2>9. QED
    BY <2>1, <2>2, <2>3, <2>4, <2>5, <2>6, <2>7, <2>8, <2>10 DEF Next
<1>3. IInv => MemoryMirrorsDisk
  BY DEF IInv
<1>4. QED
  BY <1>1, <1>2, <1>3, PTL DEF Spec

-----------------------------------------------------------------------------

\* The strengthening for Monotonicity: the stored header is never below the
\* last identifier signed, and a running tree holds what the header says.
\* A torn header write keeps the first, since it stores the new BatchId.
HeaderCoversSigned ==
    /\ signedMax.BatchId = Invalid \/
          (diskLastKey.BatchId # Invalid /\ KeyIdLeq(signedMax, diskLastKey))
    /\ up => lastKey = diskLastKey

\* Every identifier sign admits, or a crash inside sign starts to store,
\* is a valid batch at or above the last key.
LEMMA AdmittedAbove ==
    ASSUME TypeOK, NEW id \in IdInputs, CanSign(id)
    PROVE  /\ id.BatchId # Invalid
           /\ lastKey.BatchId = Invalid \/ KeyIdLeq(lastKey, id)
BY Ranges, CheckBounds DEF CanSign, Check, KeyIdLeq, KeyIdentifiers, TopEnd

LEMMA HeaderStep == TypeOK /\ HeaderCoversSigned /\ [Next]_vars => HeaderCoversSigned'
<1> SUFFICES ASSUME TypeOK, HeaderCoversSigned, [Next]_vars
             PROVE  HeaderCoversSigned'
  OBVIOUS
<1>1. CASE \E id \in IdInputs : Sign(id)
  <2>1. PICK id \in IdInputs : Sign(id)
    BY <1>1
  <2>2. id.BatchId # Invalid
    BY <2>1, AdmittedAbove DEF Sign
  <2>3. QED
    BY <2>1, <2>2, Ranges DEF Sign, SaveLastKey, HeaderCoversSigned,
                              KeyIdLeq, KeyIdLess, KeyIdentifiers
<1>2. CASE \E id \in IdInputs, torn \in BOOLEAN : SignCrash(id, torn)
  <2>1. PICK id \in IdInputs, torn \in BOOLEAN : SignCrash(id, torn)
    BY <1>2
  <2>2. id.BatchId # Invalid /\ (lastKey.BatchId = Invalid \/ KeyIdLeq(lastKey, id))
    BY <2>1, AdmittedAbove DEF SignCrash
  <2>3. lastKey = diskLastKey
    BY <2>1 DEF SignCrash, HeaderCoversSigned
  <2>4. signedMax' = signedMax /\ up' = FALSE
    BY <2>1 DEF SignCrash
  <2>5. CASE torn
    <3> DEFINE stored == KeyIdentifier(id.BatchId, diskLastKey.KeyId)
    <3>1. diskLastKey' = stored
      BY <2>1, <2>5 DEF SignCrash, TornLastKey
    <3>2. ASSUME signedMax.BatchId # Invalid
          PROVE  stored.BatchId # Invalid /\ KeyIdLeq(signedMax, stored)
      <4>1. diskLastKey.BatchId # Invalid /\ KeyIdLeq(signedMax, diskLastKey)
        BY <3>2 DEF HeaderCoversSigned
      <4>2. KeyIdLeq(diskLastKey, id)
        BY <2>2, <2>3, <4>1
      <4>3. id \in KeyIdentifiers /\ diskLastKey \in KeyIdentifiers
            /\ signedMax \in KeyIdentifiers
        BY Ranges DEF TypeOK
      <4>4. QED
        BY <2>2, <4>1, <4>2, <4>3 DEF KeyIdentifier, KeyIdLeq, KeyIdLess,
                                      KeyIdentifiers
    <3>3. QED BY <2>4, <3>1, <3>2 DEF HeaderCoversSigned
  <2>6. CASE ~torn
    BY <2>1, <2>4, <2>6 DEF SignCrash, HeaderCoversSigned
  <2>7. QED BY <2>5, <2>6
<1>3. CASE FromStream
  BY <1>3 DEF FromStream, HeaderCoversSigned, diskVars
<1>4. QED
  BY <1>1, <1>2, <1>3
  DEF Next, vars, memVars, diskVars, HeaderCoversSigned, SignRejected, Wipe,
      WipeRejected, WipeCrash, Crash

\* The invariant behind Monotonicity, as a temporal fact of its own.
LEMMA HeaderInvariant == Spec => []HeaderCoversSigned
<1>1. Init => HeaderCoversSigned
  BY DEF Init, HeaderCoversSigned, InitialKeyId, KeyIdentifier
<1>2. QED
  BY <1>1, TypeInit, TypeStep, HeaderStep, PTL DEF Spec

\* Monotonicity for every value of the constants and any caller: a running
\* tree, reloaded or not and whatever crash came before, never admits a sign
\* below an identifier it has returned a signature for.
THEOREM MonotonicityInvariant == Spec => []Monotonicity
<1>2. TypeOK /\ HeaderCoversSigned => Monotonicity
  <2> SUFFICES ASSUME TypeOK, HeaderCoversSigned, up,
                      NEW id \in IdInputs, CanSign(id),
                      signedMax.BatchId # Invalid
               PROVE  KeyIdLeq(signedMax, id)
    BY DEF Monotonicity
  <2>1. KeyIdLeq(lastKey, id) /\ KeyIdLeq(signedMax, lastKey)
    BY AdmittedAbove DEF HeaderCoversSigned
  <2>2. QED
    BY <2>1, Ranges DEF KeyIdLeq, KeyIdLess, TypeOK, KeyIdentifiers
<1>3. QED
  BY <1>2, TypeCorrect, HeaderInvariant, PTL DEF Spec

\* The stored last key identifier never moves backwards, for every value
\* of the constants and any caller: a sign, completed or cut off between
\* the two writes of SaveKeyIdentifier, stores a BatchId at or above the
\* stored one, and over it either its own KeyId or, torn, the stored one.
THEOREM StoredLastKeyMonotone == Spec => StoredLastKeyNeverDecreases
<1> DEFINE Forward == diskLastKey.BatchId # Invalid =>
                        /\ diskLastKey'.BatchId # Invalid
                        /\ KeyIdLeq(diskLastKey, diskLastKey')
<1>1. TypeOK /\ HeaderCoversSigned /\ [Next]_vars => Forward
  <2> SUFFICES ASSUME TypeOK, HeaderCoversSigned, [Next]_vars,
                      diskLastKey.BatchId # Invalid
               PROVE  diskLastKey'.BatchId # Invalid
                      /\ KeyIdLeq(diskLastKey, diskLastKey')
    OBVIOUS
  <2>1. diskLastKey \in KeyIdentifiers
    BY DEF TypeOK
  <2>2. CASE \E id \in IdInputs : Sign(id)
    <3>1. PICK id \in IdInputs : Sign(id)
      BY <2>2
    <3>2. /\ id.BatchId # Invalid /\ KeyIdLeq(lastKey, id)
          /\ lastKey = diskLastKey
      BY <3>1, AdmittedAbove DEF Sign, HeaderCoversSigned
    <3>3. QED
      BY <3>1, <3>2 DEF Sign, SaveLastKey
  <2>3. CASE \E id \in IdInputs, torn \in BOOLEAN : SignCrash(id, torn)
    <3>1. PICK id \in IdInputs, torn \in BOOLEAN : SignCrash(id, torn)
      BY <2>3
    <3>2. /\ id.BatchId # Invalid /\ KeyIdLeq(lastKey, id)
          /\ lastKey = diskLastKey /\ id \in KeyIdentifiers
      BY <3>1, AdmittedAbove, Ranges DEF SignCrash, HeaderCoversSigned
    <3>3. CASE torn
      <4>1. diskLastKey' = KeyIdentifier(id.BatchId, diskLastKey.KeyId)
        BY <3>1, <3>3 DEF SignCrash, TornLastKey
      <4>2. QED
        BY <2>1, <3>2, <4>1 DEF KeyIdentifier, KeyIdLeq, KeyIdLess,
                                KeyIdentifiers
    <3>4. CASE ~torn
      BY <2>1, <3>1, <3>4 DEF SignCrash, KeyIdLeq, KeyIdLess, KeyIdentifiers
    <3>5. QED BY <3>3, <3>4
  <2>4. CASE diskLastKey' = diskLastKey
    BY <2>1, <2>4 DEF KeyIdLeq, KeyIdLess, KeyIdentifiers
  <2>5. QED
    BY <2>2, <2>3, <2>4
    DEF Next, vars, diskVars, SignRejected, Wipe, WipeRejected, WipeCrash,
        Crash, FromStream
<1>2. QED
  BY <1>1, TypeCorrect, HeaderInvariant, PTL
  DEF Spec, StoredLastKeyNeverDecreases

=============================================================================
