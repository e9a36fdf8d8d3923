---------------------------- MODULE MCReporting ----------------------------
(***************************************************************************)
(* Values for TLC: two tenants in scope of the caller, one of them not     *)
(* registered, a third out of scope; rows of every status, with known,     *)
(* partly known and unknown usage, priced and unpriced, of three agents    *)
(* and two models, on both sides of the range.                             *)
(***************************************************************************)
EXTENDS Reporting, TLC

CONSTANTS t1, t2, t3, i1, i2, i3, i4

Row(tenant, agent, model, day, status, usage, cost) ==
  [tenant |-> tenant, agent |-> agent, principal |-> agent, model |-> model,
   day |-> day, status |-> status, usage |-> usage, cost |-> cost,
   evidence |-> NoEvidence]

Used(in, out) == [input |-> in, output |-> out, total |-> in + out]
Partly == [input |-> 1, output |-> Unknown, total |-> 1]

SampleRows ==
  {Row(t1, 1, 1, 0, "succeeded", Used(1, 1), 1),
   Row(t1, 2, 1, 0, "succeeded", Used(0, 1), 1),
   Row(t1, 3, 2, 1, "succeeded", Used(1, 1), 2),
   Row(t1, 2, 2, 1, "succeeded", Partly, Unknown),
   Row(t1, 1, 2, 0, "failed", NoUsage, Unknown),
   Row(t1, 3, 1, 1, "denied", NoUsage, Unknown),
   Row(t3, 1, 1, 0, "succeeded", Used(1, 1), 1)}
  \cup {[Row(t1, 1, 1, 0, "limited", NoUsage, Unknown) EXCEPT
           !.evidence = [consumed |-> 2, limit |-> 2, allowance |-> 1]],
        [Row(t1, 3, 2, 1, "cost_limited", NoUsage, Unknown) EXCEPT
           !.evidence = [consumed |-> 2, limit |-> 2, allowance |-> 1]]}

Symmetry == Permutations(Invocations)
=============================================================================
