------------------------- MODULE MC_BmPrivateKeyTree -------------------------
(***************************************************************************)
(* A small tree for TLC: four batches 0 .. 3 and a dilution of 3.  The    *)
(* options start at KeyId 1 of batch 0 and end at KeyId 0 of batch 3, so   *)
(* the range check cuts keys at both ends; Invalid_Id is 7, above every    *)
(* identifier a caller passes in.                                          *)
(***************************************************************************)
EXTENDS BmPrivateKeyTree

MCDilution == 3
MCStartKeyIdentifier == [BatchId |-> 0, KeyId |-> 1]
MCEndKeyIdentifier == [BatchId |-> 3, KeyId |-> 0]
MCInvalid == 7

\* For the runs without calling discipline, whose caller may pass any
\* identifier at every step: three batches 0 .. 2.
MCSmallEndKeyIdentifier == [BatchId |-> 2, KeyId |-> 0]

\* For the refinement check, whose every step also evaluates the vault's
\* next-state relation: two leaf keys per batch.
MCSmallDilution == 2

=============================================================================
