-------------------------- MODULE MCPermissionAdmin --------------------------
(***************************************************************************)
(* Instances of PermissionAdmin for TLC.                                   *)
(***************************************************************************)
EXTENDS PermissionAdmin

CONSTANTS u1, u2, u3, k1, k2
=============================================================================
