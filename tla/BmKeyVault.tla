------------------------------ MODULE BmKeyVault ------------------------------
(***************************************************************************)
(* What the voting key tree promises, with keys, levels and storage        *)
(* abstracted away: a vault that holds signing material for a set of       *)
(* identifiers.  Material is only ever destroyed, never made again, and a  *)
(* signature chain that verifies for an identifier is only issued while    *)
(* the vault holds material for that identifier.  Whatever the caller      *)
(* does, and whenever the process crashes, nothing else happens.           *)
(***************************************************************************)
CONSTANTS
    Ids,        \* the identifiers the vault starts with material for
    NoChain     \* the last call issued no verifying chain (not in Ids)

VARIABLES
    usable,     \* identifiers for which a verifying chain can still be made
    issued      \* the identifier of the verifying chain the last call issued

vaultVars == <<usable, issued>>

Init ==
    /\ usable = Ids
    /\ issued = NoChain

\* A call that issues no chain: it may destroy material, and the caller
\* either keeps the chain it was last given or has none.
Destroy ==
    /\ usable' \subseteq usable
    /\ issued' \in {issued, NoChain}

\* A call that issues a verifying chain for id, from material still held.
Issue(id) ==
    /\ id \in usable
    /\ usable' \subseteq usable
    /\ issued' = id

Next == Destroy \/ \E id \in Ids : Issue(id)

Spec == Init /\ [][Next]_vaultVars

=============================================================================
