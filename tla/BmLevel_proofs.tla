---------------------------- MODULE BmLevel_proofs ----------------------------
(***************************************************************************)
(* What the level operators return: each keeps a level (or an image) in    *)
(* the set of levels over the same range and parents, provided the         *)
(* identifier it is given lies inside the level's range, which the tree's  *)
(* check guarantees before every call.                                     *)
(***************************************************************************)
EXTENDS BmLevel, TLAPS

\* Level::Create builds a complete level over start .. end.
LEMMA LevelCreateType ==
    ASSUME NEW P, NEW p \in P, NEW s \in Nat, NEW e \in Nat, s <= e
    PROVE  LevelCreate(p, s, e) \in Levels(P, s, e)
BY DEF LevelCreate, Levels, Slots, MemSlots

\* Level::FromStream reads a complete level back from an image.
LEMMA LevelFromStreamType ==
    ASSUME NEW P, NEW s \in Nat, NEW e \in Nat, s <= e,
           NEW img \in Images(P, s, e)
    PROVE  LevelFromStream(img) \in Levels(P, s, e)
BY DEF LevelFromStream, Levels, Images, Slots, MemSlots, DiskSlots

\* Level::write produces an image over the same range.
LEMMA LevelWriteType ==
    ASSUME NEW P, NEW s \in Nat, NEW e \in Nat,
           NEW lv \in Levels(P, s, e)
    PROVE  LevelWrite(lv) \in Images(P, s, e)
BY DEF LevelWrite, Levels, Images, Slots, MemSlots, DiskSlots

\* Level::wipe only shrinks the vector, for an identifier not above end.
LEMMA LevelWipeType ==
    ASSUME NEW P, NEW s \in Nat, NEW e \in Nat,
           NEW lv \in Levels(P, s, e), NEW x \in Nat, x <= e
    PROVE  LevelWipe(lv, x) \in Levels(P, s, e)
BY DEF LevelWipe, Levels, Minimum

\* Level::detachKeyPairAt marks one kept slot as moved.
LEMMA LevelDetachAtType ==
    ASSUME NEW P, NEW s \in Nat, NEW e \in Nat,
           NEW lv \in Levels(P, s, e), NEW x \in Nat, x <= e
    PROVE  LevelDetachAt(lv, x) \in Levels(P, s, e)
BY DEF LevelDetachAt, Index, Levels, Slots, MemSlots

\* The storage side of the tree's wipe only writes zeros.
LEMMA WipeImageType ==
    ASSUME NEW P, NEW s \in Nat, NEW e \in Nat,
           NEW img \in Images(P, s, e), NEW lv \in Levels(P, s, e),
           NEW x \in Nat
    PROVE  WipeImage(img, lv, x) \in Images(P, s, e)
BY DEF WipeImage, Index, Images, Levels, Slots, DiskSlots

\* A wipe cut off inside its loop has only written zeros.
LEMMA WipeImagePrefixType ==
    ASSUME NEW P, NEW s \in Nat, NEW e \in Nat,
           NEW img \in Images(P, s, e), NEW lv \in Levels(P, s, e),
           NEW x \in Nat, NEW n \in Nat
    PROVE  WipeImagePrefix(img, lv, x, n) \in Images(P, s, e)
BY DEF WipeImagePrefix, Index, Images, Levels, Slots, DiskSlots

-----------------------------------------------------------------------------
(***************************************************************************)
(* How the operators keep a level and its storage image in agreement.      *)
(***************************************************************************)

\* A freshly created level agrees with what Level::write puts in storage.
LEMMA CreateAgrees ==
    ASSUME NEW p, NEW s \in Nat, NEW e \in Nat, s <= e
    PROVE  DiskAgrees(LevelCreate(p, s, e), LevelWrite(LevelCreate(p, s, e)))
BY DEF DiskAgrees, LevelCreate, LevelWrite, Slots

\* A level read by Level::FromStream agrees with the image it was read from.
LEMMA FromStreamAgrees ==
    ASSUME NEW P, NEW s \in Nat, NEW e \in Nat, s <= e,
           NEW img \in Images(P, s, e)
    PROVE  DiskAgrees(LevelFromStream(img), img)
BY DEF DiskAgrees, LevelFromStream, Images, Slots, DiskSlots

\* Detaching a key pair only turns a slot into a moved one.
LEMMA DetachAgrees ==
    ASSUME NEW P, NEW s \in Nat, NEW e \in Nat,
           NEW lv \in Levels(P, s, e), NEW img \in Images(P, s, e),
           NEW x \in Nat, x <= e,
           DiskAgrees(lv, img)
    PROVE  DiskAgrees(LevelDetachAt(lv, x), img)
BY DEF DiskAgrees, LevelDetachAt, Index, Levels, Images, Slots

\* The tree's wipe of one level keeps it in agreement with storage: the
\* entries it pops from memory are exactly those it has zeroed in storage,
\* or were zero already.
LEMMA WipeAgrees ==
    ASSUME NEW P, NEW s \in Nat, NEW e \in Nat,
           NEW lv \in Levels(P, s, e), NEW img \in Images(P, s, e),
           NEW x \in Nat, x <= e,
           DiskAgrees(lv, img)
    PROVE  DiskAgrees(LevelWipe(lv, x), WipeImage(img, lv, x))
BY DEF DiskAgrees, LevelWipe, WipeImage, Minimum, Index, Levels, Images, Slots

-----------------------------------------------------------------------------
(***************************************************************************)
(* No operator makes key material: a key an operator's result holds was    *)
(* already held by its argument.  y ranges over the identifiers of the     *)
(* level, whose index end - y lies in the level's slots.                   *)
(***************************************************************************)

\* Detaching a key pair never makes a slot live.
LEMMA DetachKeepsNoKey ==
    ASSUME NEW P, NEW s \in Nat, NEW e \in Nat, NEW lv \in Levels(P, s, e),
           NEW x \in s .. e, NEW y \in s .. e,
           KeyAt(LevelDetachAt(lv, x), y) = "live"
    PROVE  KeyAt(lv, y) = "live"
BY DEF KeyAt, LevelDetachAt, Index, Levels, Slots

\* Trimming a level never makes a slot live.
LEMMA WipeKeepsNoKey ==
    ASSUME NEW P, NEW s \in Nat, NEW e \in Nat, NEW lv \in Levels(P, s, e),
           NEW x \in Nat, NEW y \in s .. e,
           KeyAt(LevelWipe(lv, x), y) = "live"
    PROVE  KeyAt(lv, y) = "live"
BY DEF KeyAt, LevelWipe, Minimum, Index, Levels, Slots

\* Zeroing storage entries, completely or cut off, never writes a key, and
\* keeps the parent.
LEMMA WipeImageKeepsNoKey ==
    ASSUME NEW P, NEW s \in Nat, NEW e \in Nat,
           NEW img \in Images(P, s, e), NEW lv \in Levels(P, s, e),
           NEW x \in Nat, NEW n \in Nat, NEW i \in Slots(s, e)
    PROVE  /\ WipeImage(img, lv, x).slot[i] = "key" => img.slot[i] = "key"
           /\ WipeImagePrefix(img, lv, x, n).slot[i] = "key" => img.slot[i] = "key"
           /\ WipeImage(img, lv, x).parent = img.parent
           /\ WipeImagePrefix(img, lv, x, n).parent = img.parent
BY DEF WipeImage, WipeImagePrefix, Images, Levels, Slots

\* A level read from storage holds a key only where storage holds one.
LEMMA FromStreamKeepsNoKey ==
    ASSUME NEW P, NEW s \in Nat, NEW e \in Nat, s <= e,
           NEW img \in Images(P, s, e), NEW y \in s .. e,
           KeyAt(LevelFromStream(img), y) = "live"
    PROVE  img.slot[e - y] = "key"
BY DEF KeyAt, LevelFromStream, Index, Images, Slots

-----------------------------------------------------------------------------
(***************************************************************************)
(* What the tree's wipe of a level erases: the identifier it is given and  *)
(* every identifier below it, in memory and - given the level agreed with  *)
(* storage before - in storage.                                            *)
(***************************************************************************)

\* Level::wipe pops every entry at or below x: none of them is live.
LEMMA WipeErasesLevel ==
    ASSUME NEW P, NEW s \in Nat, NEW e \in Nat, NEW lv \in Levels(P, s, e),
           NEW x \in s .. e, NEW y \in s .. e, y <= x
    PROVE  KeyAt(LevelWipe(lv, x), y) # "live"
BY DEF KeyAt, LevelWipe, Minimum, Index, Levels

\* The storage side zeroes the entry of x and the kept entries above its
\* index; the entries past the kept ones were zero already.
LEMMA WipeErasesImage ==
    ASSUME NEW P, NEW s \in Nat, NEW e \in Nat,
           NEW lv \in Levels(P, s, e), NEW img \in Images(P, s, e),
           DiskAgrees(lv, img),
           NEW x \in s .. e, NEW y \in s .. e, y <= x
    PROVE  WipeImage(img, lv, x).slot[e - y] = "zero"
<1>1. e - y \in DOMAIN img.slot /\ e - x <= e - y
  BY DEF Images, Slots
<1>2. CASE e - y = e - x \/ (e - x < e - y /\ e - y < lv.size)
  BY <1>1, <1>2 DEF WipeImage, Index, Levels
<1>3. CASE lv.size <= e - y
  <2>1. img.slot[e - y] = "zero"
    BY <1>1, <1>3 DEF DiskAgrees
  <2>2. QED
    BY <1>1, <2>1 DEF WipeImage, Index, Levels
<1>4. QED
  BY <1>1, <1>2, <1>3 DEF Levels

=============================================================================
