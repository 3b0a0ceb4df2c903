------------------------------- MODULE BmLevel -------------------------------
(***************************************************************************)
(* BmPrivateKeyTree::Level, one layer of the key tree, and the image the   *)
(* layer has in storage.  A level covers the identifiers start .. end; its *)
(* entry at index i holds the key for identifier end - i, so keys are used *)
(* from the back of the vector towards the front and popped from the back  *)
(* when they are wiped.                                                    *)
(*                                                                         *)
(* Key material is abstracted to what the forward-security argument tells  *)
(* apart.  A slot of the in-memory vector holds                            *)
(*   "live"  - the genuine private key created for that identifier,        *)
(*   "zero"  - the all-zero key read back from a wiped storage slot,       *)
(*   "moved" - the empty key pair left behind by detachKeyPair.            *)
(* The private-key bytes of a slot in storage are "key" or "zero".         *)
(* Signatures are not secret and are never wiped, so they are left out.    *)
(* The vector keeps its first `size` entries; a slot at index >= size has  *)
(* been popped and its content is no longer part of the level.             *)
(***************************************************************************)
EXTENDS Naturals

MemSlots == {"live", "zero", "moved"}

DiskSlots == {"key", "zero"}

Minimum(a, b) == IF a < b THEN a ELSE b

\* Indices of the entries of a level covering start .. end.
Slots(start, end) == 0 .. (end - start)

Levels(parents, start, end) ==
    [parent : parents, start : {start}, end : {end},
     size : 0 .. (end - start + 1), slot : [Slots(start, end) -> MemSlots]]

Images(parents, start, end) ==
    [parent : parents, start : {start}, end : {end},
     slot : [Slots(start, end) -> DiskSlots]]

\* index = m_endIdentifier - identifier (publicKeySignature, detachKeyPairAt,
\* keyPairAt, and the tree's wipe).
Index(level, identifier) == level.end - identifier

\* Level::Create: end - start + 1 fresh keys, each signed by the parent key.
LevelCreate(parent, start, end) ==
    [parent |-> parent, start |-> start, end |-> end,
     size |-> end - start + 1,
     slot |-> [i \in Slots(start, end) |-> "live"]]

\* Seeded fault for LevelFromStream: the read loop runs one entry too far
\* (i <= end - start + 1).
LevelFromStreamOverread(image) ==
    [parent |-> image.parent, start |-> image.start, end |-> image.end,
     size |-> image.end - image.start + 2,
     slot |-> [i \in DOMAIN image.slot |->
                 IF image.slot[i] = "key" THEN "live" ELSE "zero"]]

\* Seeded fault for LevelFromStream: a zeroed entry is taken for a key.
LevelFromStreamRevives(image) ==
    [parent |-> image.parent, start |-> image.start, end |-> image.end,
     size |-> image.end - image.start + 1,
     slot |-> [i \in DOMAIN image.slot |-> "live"]]

\* Level::FromStream: reads the header and then all end - start + 1
\* entries, whatever was wiped; a wiped slot reads back as the zero key.
LevelFromStream(image) ==
    [parent |-> image.parent, start |-> image.start, end |-> image.end,
     size |-> image.end - image.start + 1,
     slot |-> [i \in DOMAIN image.slot |->
                 IF image.slot[i] = "key" THEN "live" ELSE "zero"]]

\* Level::write: the header, then privateKey and signature of every entry
\* (only called on a freshly created level, whose entries are all kept).
LevelWrite(level) ==
    [parent |-> level.parent, start |-> level.start, end |-> level.end,
     slot |-> [i \in DOMAIN level.slot |->
                 IF level.slot[i] = "live" THEN "key" ELSE "zero"]]

\* Seeded fault for LevelWipe: keeps one entry too many (end - identifier + 1),
\* so the wiped key stays in memory.
LevelWipeKeepsOne(level, identifier) ==
    [level EXCEPT !.size = Minimum(level.size, level.end - identifier + 1)]

\* Level::wipe: keeps min(size, end - identifier) entries, popping the
\* entries of identifier and of every identifier below it.
LevelWipe(level, identifier) ==
    [level EXCEPT !.size = Minimum(level.size, level.end - identifier)]

\* Level::detachKeyPairAt: moves the key pair out of its slot.  A slot that
\* was popped is read past the end of the vector (undefined behaviour); the
\* vector itself is not changed by that read.
LevelDetachAt(level, identifier) ==
    LET i == Index(level, identifier)
    IN  IF i < level.size THEN [level EXCEPT !.slot[i] = "moved"] ELSE level

\* The key that keyPairAt / detachKeyPairAt hands out.  Past the end of the
\* vector it reads a popped element, whose private key the key's destructor
\* has zeroed (the zeroisation the specification requires on drop).
KeyAt(level, identifier) ==
    LET i == Index(level, identifier)
    IN  IF i < level.size THEN level.slot[i] ELSE "zero"

\* Seeded fault for WipeImage: the final write of zeros over the entry at
\* index is dropped, only the entries past it are zeroed.
WipeImageSkipsIndex(image, level, identifier) ==
    LET index == Index(level, identifier)
    IN  [image EXCEPT !.slot =
            [i \in DOMAIN image.slot |->
                IF index < i /\ i < level.size
                THEN "zero" ELSE image.slot[i]]]

\* The storage effect of BmPrivateKeyTree::wipe(depth, identifier): the
\* entries index + 1 .. size - 1 of the level as it is before trimming, and
\* then the entry at index itself, get zeros in their private-key bytes.
WipeImage(image, level, identifier) ==
    LET index == Index(level, identifier)
    IN  [image EXCEPT !.slot =
            [i \in DOMAIN image.slot |->
                IF i = index \/ (index < i /\ i < level.size)
                THEN "zero" ELSE image.slot[i]]]

\* What storage holds when wipe(depth, identifier) is cut off after the
\* first n writes of its loop (indices index + 1 .. index + n, ascending),
\* before the entry at index itself is zeroed.
WipeImagePrefix(image, level, identifier, n) ==
    LET index == Index(level, identifier)
    IN  [image EXCEPT !.slot =
            [i \in DOMAIN image.slot |->
                IF index < i /\ i < level.size /\ i <= index + n
                THEN "zero" ELSE image.slot[i]]]

\* The in-memory level and its storage image agree: a kept slot that holds
\* the genuine key has it in storage, a kept slot read back as zeros is
\* zero in storage, and a popped slot is zero in storage.  A moved slot
\* holds no key and says nothing about storage.
DiskAgrees(level, image) ==
    \A i \in DOMAIN image.slot :
        /\ i < level.size /\ level.slot[i] = "live" => image.slot[i] = "key"
        /\ i < level.size /\ level.slot[i] = "zero" => image.slot[i] = "zero"
        /\ level.size <= i => image.slot[i] = "zero"

=============================================================================
