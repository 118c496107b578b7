-------------------------- MODULE MCRecoveryVault --------------------------
(***************************************************************************)
(* Instances of RecoveryVault.  The PUT requests are interchangeable.      *)
(***************************************************************************)
EXTENDS RecoveryVault, TLC

Requests == Permutations(Tx)
=============================================================================
