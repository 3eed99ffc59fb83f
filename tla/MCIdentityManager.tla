-------------------------- MODULE MCIdentityManager --------------------------
(* Instances of IdentityManager for TLC.                                     *)
EXTENDS IdentityManager, TLC

Symmetry == Permutations(Callers)
=============================================================================
