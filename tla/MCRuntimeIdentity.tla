--------------------------- MODULE MCRuntimeIdentity ---------------------------
(***************************************************************************)
(* Instances of RuntimeIdentity for TLC.                                   *)
(***************************************************************************)
EXTENDS RuntimeIdentity, TLC

CONSTANTS o1, o2, o3, o4, p1, b1, b2, l1, l2, l3

Symmetry == Permutations(Operations)

Small == [daily |-> 1, allowance |-> 1]
Large == [daily |-> 2, allowance |-> 1]

\* A row of phase 5.0A, prepared by the calls.
OneRow == p1 :> b1

\* Configured like the row, with foreign invocations, with other limits.
ThreeIdentities ==
  l1 :> [binding |-> b1, limits |-> Small]
    @@ l2 :> [binding |-> b1, limits |-> Small]
    @@ l3 :> [binding |-> b1, limits |-> Large]
Foreign   == {<<l2, b2>>, <<l1, b1>>, <<p1, b1>>}

OneLimits == {Small}
Expiring  == {1, Never}
=============================================================================
