-------------------------- MODULE MCRecoveryAccess --------------------------
(***************************************************************************)
(* Instances of RecoveryAccess.  Rows of a table, requests and devices are *)
(* interchangeable.                                                        *)
(***************************************************************************)
EXTENDS RecoveryAccess, TLC

Symmetry ==
    Permutations(Device) \union Permutations(Approval)
    \union Permutations(Grant) \union Permutations(Read)
=============================================================================
