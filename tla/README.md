# Formal model of the forward-secure voting key tree

This directory is a TLA+ development for `BmPrivateKeyTree`
(`src/client/catapult/src/catapult/crypto_voting/BmPrivateKeyTree.cpp`), the
two-level key tree a node uses to sign finalization votes. It has TLC runs on
small instances and TLAPS proofs for every instance.

## The system

- **Tree controller** (`BmPrivateKeyTree`). It holds the options,
  `m_lastKeyIdentifier`, `m_lastWipeKeyIdentifier` and two levels:
  - the top level has one key per batch, each signed by the root key;
  - the low level has `Dilution` leaf keys, signed by the key of the batch
    being signed in.

  The controller's operations:
  - `Create` writes the header (options, both identifiers) and the top level.
  - `FromStream` reads them back. It reads the low level only if
    `lastKeyIdentifier.BatchId` is valid.
  - `sign(id)`:
    1. checks `id` against the last signed identifier;
    2. on entering a new batch, moves that batch's key out of the top level and
       writes a fresh low level over the old one in storage;
    3. signs with the leaf key;
    4. rewrites `lastKeyIdentifier` in the header.
  - `wipe(id)`:
    1. checks `id` against the last wiped identifier;
    2. trims the top level at `id.BatchId` (only when the batch changed);
    3. trims the low level at `id.KeyId` (only when `KeyId` is valid), zeroing
       the trimmed private keys in storage;
    4. records `id` in memory only.
- **Level** (`BmPrivateKeyTree::Level`). This is a vector of signed private
  keys, where the identifier `end - i` lives at index `i`. Keys are used from
  the back, and `wipe` pops them from the back.
- **SignedPrivateKey / codec**. Private key plus signature. `WipeSignedPrivateKey`
  overwrites a private key with zeros, and a zeroed entry reads back as the
  all-zero key.
- **Verify**. Stateless. It checks the chain root → batch → leaf → data.
- **JNI block change notifier** (`extensions/jninotification`). A block
  change subscriber that builds a Java `BlockView` for every block and calls
  the observer's notify method through JNI. `RegisterExtension` creates it on
  the bootstrapping thread. It shares nothing with the tree.

The tree is single-threaded (specification 5). Its interesting behaviours
come from the order of calls the caller makes and from crashes: storage is the
only durable state, and memory is rebuilt from it by `FromStream`.

## Modules

| Module | Models |
|---|---|
| `BmKeyIdentifier` | `BmKeyIdentifier`, its order and `Invalid_Id`. These are from the header, which is not in the sources, so they are modelled from the specification. |
| `BmLevel` | `Level` and its storage image: `Create`, `FromStream`, `write`, `wipe`, `detachKeyPairAt`, `keyPairAt`, and the storage side of the tree's `wipe(depth, identifier)` (`WipeImage`). |
| `BmPrivateKeyTree` | The controller. Its actions are `Sign`, `SignRejected`, `Wipe`, `WipeRejected`, `FromStream`, and three crash points: `Crash` (between calls), `SignCrash` and `WipeCrash` (below). |
| `BmKeyVault` | The abstract specification of what the tree promises (below). |
| `MC_BmPrivateKeyTree` | The TLC instance of the tree. |
| `JniBlockChangeNotifier` | The notifier's use of the JNI protocol: `RegisterExtension` (with the constructor `BlockChangeNotifier`), `NotifyBlock` (with `writeBlockView`) and `Destroy` (the destructor). |
| `MC_JniBlockChangeNotifier` | The TLC instance of the notifier. |
| `BmLevel_proofs`, `BmPrivateKeyTree_proofs`, `BmPrivateKeyTree_refinement`, `BmPrivateKeyTree_secrecy`, `JniBlockChangeNotifier_proofs` | The TLAPS lemmas and theorems. |

### State

Key material is abstracted to what forward security tells apart:
- an in-memory slot is `"live"` (the genuine key), `"zero"` (read back from a
  wiped slot) or `"moved"` (detached);
- a storage slot is `"key"` or `"zero"`.

A level is a record `parent, start, end, size, slot`. Entries at index
`>= size` have been popped.

Memory is held in `up`, `lastKey`, `lastWipe`, `top` and `low`. Storage is held
in `diskLastKey`, `diskTop` and `diskLow`. The header's `lastWipeKeyIdentifier`
is never rewritten after `Create`, so it is not a variable: `FromStream`
restores its initial value.

Three history variables support the properties:
- `wiped`: the highest identifier a completed wipe covered;
- `signedMax`: the last identifier signed;
- `result`: what the last call returned, including whether the returned chain
  passes `Verifies`.

### Caller

Some guarantees depend on how the tree is called, so the caller is part of the
model through three constants:
- `CallerWipesSignedOnly`: wipe only identifiers already signed;
- `CallerSignsUnwipedOnly`: never sign a wiped identifier;
- `Crashes`: whether the process may crash.

The inputs are `IdInputs`, which includes one batch past the end, `KeyId =
Dilution`, and `KeyId = Invalid_Id`.

### Crash points

A crash loses memory (`up`, `top`, `low`) and keeps storage.
- `Crash` comes between two calls.
- `SignCrash(id, torn)` comes inside `sign`:
  - on entering a batch, `createLevel` has written the new low level (line 300);
  - with `torn`, `SaveKeyIdentifier` (lines 234-237) has also written the new
    `BatchId` but not the `KeyId`.
- `WipeCrash(id, inLow, n)` comes inside the loop of `wipe(depth, id)`
  (lines 369-372) after `n` of its writes, on the top or on the low level
  (`WipeImagePrefix`). The top level is wiped completely before the low
  level is begun.

### Abstract specification and refinement

`BmKeyVault` is what the tree promises, with keys, levels and storage
abstracted away. Its state:
- `usable`: the identifiers for which a verifying chain can still be made;
- `issued`: the identifier of the last chain handed out.

Its steps:
- `Destroy` shrinks `usable`;
- `Issue(id)` hands out a chain only for an `id` still in `usable`.

`BmPrivateKeyTree` instantiates it with a refinement mapping:
- `Usable` is the set of identifiers that are `Forgeable`, i.e. whose batch
  key, or whose leaf key under a low level the genuine batch key signed, is
  live in memory or a key in storage;
- `Issued` is the last identifier signed when the last call returned a chain
  that passes `Verifies`, and `InitialKeyId` otherwise.

`VaultRefinement == Vault!Spec` is checked by TLC and proved by TLAPS.

### Undefined behaviour

`keyPairAt`/`detachKeyPairAt` on a popped index read past the vector's size.
The model's outcome for that read is the zero key: the popped element's
destructor zeroised it, as the specification requires on drop.

## Runs

The tree's runs use `MC_BmPrivateKeyTree`:
- batches 0..3, `Dilution = 3`;
- `Start = (0,1)`, `End = (3,0)`, so the range check cuts keys at both ends;
- `Invalid_Id = 7`.

The run without calling discipline uses three batches (`End = (2,0)`) and
`Dilution = 2`. Its caller may pass any identifier at every step, and each
step also evaluates the vault's next-state relation. Two keys per batch
still let a wipe cut a batch in the middle.

Two leaf keys per batch and several batches are the least that exercise:
- entering a batch while keys of the previous one remain;
- wiping across batches;
- reloading with a partially wiped low level.

Depth 12 covers sign/wipe/crash/reload sequences through three batches.

| Run | cfg | Expect | Shows |
|---|---|---|---|
| discipline | `MC_BmPrivateKeyTree.cfg` | pass | Under the documented discipline, with every crash point: `TypeOK`, `ForwardSecrecy`, `MemoryMirrorsDisk` and `Monotonicity`. 153k states. |
| any_caller | `MC_AnyCaller.cfg` | pass | `MemoryMirrorsDisk`, `Monotonicity`, `VaultRefinement` and the action property `StoredLastKeyNeverDecreases` need no discipline. The action property says that the stored header never moves backwards, even when a crash tears the header write. 40k states. |
| jni_notifier | `MC_JniNotifier.cfg` | pass | `TypeOK` and `LocalRefsWithinCapacity` of the notifier, whatever the JVM answers. 765 states. |
| crash_in_sign | `MC_CrashInSign.cfg` | violation | `LowLevelMatchesLastKey`: see finding 1. |
| wipe_older_batch | `MC_WipeOlderBatch.cfg` | violation | `ChainValidity`: finding 2. |
| wipe_ahead | `MC_WipeAhead.cfg` | violation | `ForwardSecrecy` without the discipline: finding 3. |
| resign_after_wipe | `MC_ResignAfterWipe.cfg` | violation | `WipedNotSignable`: finding 4. |
| wipe_forgotten | `MC_WipeForgotten.cfg` | violation | `WipeCheckpointDurable`: finding 5. |
| resign_same_id | `MC_ResignSameId.cfg` | violation | `SignStrictlyIncreasing`: finding 6. |
| consumed_batch_key | `MC_ConsumedBatchKey.cfg` | violation | `ConsumedBatchKeyErased`: finding 7. |
| observer_throws | `MC_ObserverThrows.cfg` | violation | `JniCallsLegal`: finding 8. |
| class_missing | `MC_ClassMissing.cfg` | violation | `JniCallsLegal`: finding 9. |

The notifier's runs use two native threads and at most fifteen
notifications, with `LocalCapacity = 16`, the number of local references
the JNI specification guarantees a thread. Fifteen notifications on one
thread are enough for a leak of one reference per notification, on top of
the two the constructor leaves, to exceed sixteen. The notifier runs
disable deadlock checking: after the destructor no handler can run.

No fairness is assumed and no liveness is checked. The tree is a passive
object: it does something only when a caller invokes it, and every call runs
to completion synchronously. Deadlock checking is on for the tree: a crashed
process can always reload. The notifier is also passive. It is called by
the node's block pipeline, which this repository does not contain, so no
fairness can be justified from this code. The one liveness concern, threads
that are never detached, is listed as a hazard in `PROJECT.json`.

### Findings

1. **Crash inside sign.** Storage gets the new low level before the header
   (lines 300 and 308). After a crash in between, `FromStream` loads batch
   b+1's level under `lastKeyIdentifier` of batch b. Specification 9 leaves
   this as an open question.
2. **Wiping an older batch.** `wipe(Layer_Low, KeyId)` (line 327) ignores
   `BatchId`. Wiping `(b-1, k)` zeroes batch b's keys `<= k`, and a later
   `sign((b, k))` returns a chain that fails `Verify`.
3. **Wiping ahead.** `wipe((b', k))` with `b'` past the materialised batch b
   leaves b's keys above k live, in memory and on disk.
4. **Signing after a wipe.** `canSign` ignores the last wipe, so
   `sign((b,k))` after `wipe((b,k))` succeeds on a popped element. This
   contradicts scenario 5. Specification 9 admits that the sign succeeds,
   but says the entry at the index stays in memory; the code pops it
   (`Level::wipe` keeps `min(size, end - id)` entries), so the sign reads a
   destroyed element.
5. **Last wipe not persisted.** `wipe` never saves `m_lastWipeKeyIdentifier`
   (line 329). After a reload, wipes below the last one are admitted again.
   This contradicts specification 3.
6. **Re-signing the same identifier.** `check` uses a strict `<`, so the last
   signed identifier is accepted again. Scenario 4 says it fails.
7. **Consumed batch key left in storage.** `sign` takes the batch key with
   `detachKeyPairAt` (lines 179-182). This moves the key out of memory but
   never zeroes its storage entry. Specification 2 says the disk slot is
   zeroed. After a crash, `FromStream` makes the key live again. Forward
   security still holds under the discipline, because the wipe of that batch
   zeroes it.
8. **Observer exception never cleared.** `notifyBlock` does not check for an
   exception after `CallVoidMethod` (line 68). Once the Java observer throws,
   the next `notifyBlock` on that thread calls `GetMethodID` with the
   exception pending, which the JNI specification forbids.

9. **Missing BlockView class.** The constructor does not check `FindClass`
   (line 42). If the configured class is missing, it calls `NewGlobalRef`
   with `NoClassDefFoundError` pending (line 43) and keeps a null class, on
   which every notification calls `GetMethodID` and `NewObject`. TLC finds
   this in two steps.

**A spec inconsistency, not a finding.** Scenario 6 says that after
`wipe((b, Invalid_Id))` a `wipe((b, 0))` succeeds, and section 3 reads a
KeyId of `Invalid_Id` as "not yet advanced into the batch"; both put such an
identifier below `(b, 0)`. The model's order is the plain lexicographic one
on the two `uint64` fields, which puts it above. `operator<` of
`BmKeyIdentifier` is declared in a header this repository's sources do not
include, so which order the code uses cannot be read from the sources; no
run depends on it.

## Proofs

`BmLevel_proofs` has two groups of lemmas:
- type lemmas, one per level operator, each with the preconditions the tree's
  `check` establishes;
- agreement lemmas, one per operator, about `DiskAgrees` (memory versus
  storage): `CreateAgrees`, `FromStreamAgrees`, `DetachAgrees` and
  `WipeAgrees`. `WipeAgrees` is the heart of the storage argument: the loop
  bounds, the trim and the final write fit together;
- erasure lemmas: `WipeErasesLevel` and `WipeErasesImage`. After the tree's
  wipe at `x`, no identifier at or below `x` is live in memory. Its storage
  entry is zero as well, given that memory and storage agreed before.

`BmPrivateKeyTree_proofs` proves four theorems. All hold for every value of
`Dilution`, the options and `Invalid`, under the ASSUMEs of the modules, and for
any caller (no discipline constant is used).

- `TypeCorrect`: `Spec => []TypeOK`. It rests on `TypeInit` and `TypeStep`.
  `Ranges` and `CheckBounds` show that an identifier admitted by `check` lies
  inside both levels.
- `MemoryMirrorsDiskInvariant`: `Spec => []MemoryMirrorsDisk`. The inductive
  invariant is `TypeOK /\ MemoryMirrorsDisk`. The types are needed because the
  agreement lemmas quantify over the domain of the image. The proof has one
  step per action:
  - `Sign` uses `DetachAgrees` and `CreateAgrees`;
  - `Wipe` uses `WipeAgrees`;
  - `FromStream` uses `FromStreamAgrees`;
  - a crash makes the property vacuous.

- `MonotonicityInvariant`: `Spec => []Monotonicity`. `Monotonicity` alone is
  not inductive, because a crash and reload replace `lastKey` by the stored
  header. The strengthening `HeaderCoversSigned` says two things:
  - the stored header is never below the last identifier signed;
  - a running tree holds what the header says.

  A torn header write keeps the first conjunct, because it stores the new
  `BatchId`, which is at or above the old one (`AdmittedAbove`). It was
  checked with TLC first (150k states, no violation). `HeaderInvariant`
  states `Spec => []HeaderCoversSigned` on its own, for reuse.
- `StoredLastKeyMonotone`: `Spec => StoredLastKeyNeverDecreases`, an action
  property. It is proved from `HeaderCoversSigned`:
  - `sign` stores an identifier that `check` admitted above `lastKey`, which
    equals the header;
  - a torn write stores the new `BatchId` over the old `KeyId`;
  - every other step leaves the header alone.

`BmPrivateKeyTree_refinement` proves `VaultRefinementProof`:
`Spec => VaultRefinement`, for any caller. The argument:
- One lemma per kind of step shows that `Forgeable` after the step implies
  `Forgeable` before it (`SignMakesNoKey`, `WipeMakesNoKey`,
  `SignCrashMakesNoKey`, `WipeCrashMakesNoKey`, `FromStreamMakesNoKey`).
  In memory, a slot becomes live only when it is read from a storage slot
  that holds a key. A low level gets the genuine batch key's authority only
  when `sign` creates it while that key is live (`EnteredParent`).
- `NoKeyMade` combines these lemmas: `Usable` never grows.
- `SignIssuesUsable`: a returned chain verifies only for an identifier in
  `Usable`.
- `VaultInit`: `Create` stores every batch key, so `Usable` is every
  identifier of the tree.
- `VaultStep` maps every step to `Destroy`, `Issue` or a stutter.

The strengthening needed is only `TypeOK`.

`BmPrivateKeyTree_secrecy` proves `ForwardSecrecyInvariant`: under
`CallerWipesSignedOnly`, `Spec => []ForwardSecrecy`. It holds for every value
of the options, with every crash point and reload. `ForwardSecrecy` is not
inductive alone. Three supporting invariants, together `SecrecySupport`, are
proved for any caller:
- `TopWipedToLastWipe`: in a running tree, every batch key up to the batch of
  the last wipe is gone from memory and from storage. `wipe` skips the top
  level when the batch has not changed, so it relies on this.
- `HeaderNamesLowLevel`: the stored `KeyId` is a key of the low level. Once
  the header names a batch, storage holds a low level whose parent is not
  below that batch.
- `LowLevelLoaded`: a running tree that has signed has its low level in
  memory.

They were checked with TLC before the proof. `SecrecySupport` held on both the
discipline instance (153k states) and the any-caller instance (40k states).

The step argument:
- Every step except a wipe that raises `wiped` leaves `wiped` alone. It then
  cannot break the property, because `NoKeyMade` (from the refinement) shows
  that nothing becomes forgeable.
- A wipe of `w` raises `wiped` to `w`. `WipeClearsBatches` shows that it
  leaves no batch key at or below `w.BatchId`:
  - when the batch changes, by the erasure lemmas and `MemoryMirrorsDisk`;
  - otherwise, by `TopWipedToLastWipe`.
- `WipeClearsLeaves` shows that it leaves no leaf key at or below `w`. This is
  where the discipline comes in. `w` is at or below the last key signed, and
  the only low level (in memory or in storage) that can belong to a batch at
  or below `w` has the parent of that last key. So that batch is `w.BatchId`,
  and the wipe erases the low level at `w.KeyId`.

The discipline cannot be dropped: the wipe_ahead run shows a counterexample
without it.

`JniBlockChangeNotifier_proofs` proves `NotifierTypeCorrect`
(`Spec => []TypeOK`) and `LocalRefsBounded`: if the JVM
guarantees at least two local references, `LocalRefsWithinCapacity` holds for
any set of threads and any number of notifications. The inductive invariant
`LocalRefsLeaked` says:
- no thread holds more than the two references the constructor leaks;
- none holds any before registration.

What stays with TLC:
- Every violation run. These are counterexamples, which a proof cannot show.

Out of the prover's reach: liveness and `ENABLED` (none is stated here),
induction over data, and `RECURSIVE` operators (none is used).

## Not modelled

- Storage offsets (`levelOffset`, `IndexToOffset`): each region is its own
  variable.
- `Dilution = 0` (`Dilution - 1` wraps around). The check then refuses every
  identifier, so the wrap is unreachable.
- The 32-bit loop counter in `Level::Create`/`FromStream`. It matters only
  for levels of 2^32 entries or more.
- The cryptographic primitives, which are assumed ideal.
- The notifier's configuration parsing (`JniNotificationConfiguration`). Its
  thirteen strings are data: only whether `FindClass` finds the configured
  class is kept.
- Block field values copied into the `BlockView`.

## Plan for later work

1. A refinement of the notifier to an abstract subscriber, if a property of
   the block pipeline that calls it is added.
