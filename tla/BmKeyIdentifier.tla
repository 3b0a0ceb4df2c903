--------------------------- MODULE BmKeyIdentifier ---------------------------
(***************************************************************************)
(* The two-part key identifier (BatchId, KeyId) of the voting key tree.    *)
(* The struct, its Invalid_Id sentinel and its comparison operators are    *)
(* declared in BmPrivateKeyTree.h, which is not among the sources; they    *)
(* are modelled from the specification (section 3): the order is           *)
(* lexicographic on (BatchId, KeyId), and Invalid_Id is the largest uint64 *)
(* (2^64 - 1), so in the model it is a natural number above every         *)
(* identifier the tree can hold.                                           *)
(***************************************************************************)
EXTENDS Naturals

CONSTANT Invalid   \* BmKeyIdentifier::Invalid_Id

ASSUME InvalidAssumption == Invalid \in Nat

KeyIdentifier(b, k) == [BatchId |-> b, KeyId |-> k]

KeyIdentifiers == [BatchId : Nat, KeyId : Nat]

\* The value both last identifiers hold after construction: { Invalid_Id, 0 }.
InitialKeyId == KeyIdentifier(Invalid, 0)

\* operator< of BmKeyIdentifier: lexicographic on (BatchId, KeyId).
\* The specification gives no order for a KeyId of Invalid_Id (section 3
\* reads it as "not yet advanced into the batch", which would put it
\* lowest); the model takes the plain lexicographic order, and no checked
\* property depends on that case.
KeyIdLess(a, c) ==
    \/ a.BatchId < c.BatchId
    \/ a.BatchId = c.BatchId /\ a.KeyId < c.KeyId

KeyIdLeq(a, c) == ~KeyIdLess(c, a)

=============================================================================
