---------------------------- MODULE MCTenantScopes ----------------------------
(***************************************************************************)
(* Instances of TenantScopes for TLC.                                      *)
(***************************************************************************)
EXTENDS TenantScopes, TLC

CONSTANTS s1, s2, s3, t1, t2, t3

Symmetry == Permutations(Calls)
=============================================================================
