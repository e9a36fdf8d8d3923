-------------------------- MODULE MCRuntimeGateway --------------------------
(***************************************************************************)
(* Instances of RuntimeGateway for TLC.                                    *)
(***************************************************************************)
EXTENDS RuntimeGateway, TLC

CONSTANTS r1, r2, r3, p1, p2, p3, t1, t2, a1, a2, a3, m1, m2

Symmetry == Permutations(Requests)

\* p1 and p2 are the workloads of two agents of one tenant.
SettingsTwoAgents ==
  p1 :> [tenant |-> t1, agent |-> a1, limit |-> 3, allowance |-> 2]
    @@ p2 :> [tenant |-> t1, agent |-> a2, limit |-> 3, allowance |-> 2]

\* And p3 that of another tenant, which has no budget.
SettingsTwoTenants ==
  SettingsTwoAgents @@ p3 :> [tenant |-> t2, agent |-> a3, limit |-> 3, allowance |-> 2]

AgentTenantAll == [a \in Agents |-> t1]
AgentTenantTwo == a1 :> t1 @@ a2 :> t1 @@ a3 :> t2
ModelTenantTwo == m1 :> t1 @@ m2 :> t2
ModelTenantAll == [m \in Models |-> t1]
BudgetOfT1     == t1 :> [limit |-> 3, allowance |-> 2]
PriceAll       == [m \in Models |-> [input |-> 1, output |-> 1, basis |-> 1]]

\* Answers of two and of one unit, and one whose input units are missing: it
\* counts as usage and has no cost.  The model adds the answer without usage.
UsagesMixed == {[input |-> 1, output |-> 1, total |-> 2],
              [input |-> 1, output |-> 0, total |-> 1],
              [input |-> Unknown, output |-> 1, total |-> 2]}
=============================================================================
