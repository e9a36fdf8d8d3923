------------------------- MODULE MCManagementIdentity -------------------------
(***************************************************************************)
(* Instances of ManagementIdentity for TLC.                                *)
(***************************************************************************)
EXTENDS ManagementIdentity, TLC

CONSTANTS c1, c2, c3, c4, c5

FiveCalls  == {c1, c2, c3, c4, c5}
Symmetry   == Permutations(FiveCalls)

Unlimited == {Never}
Expiring  == {1, Never}
=============================================================================
