-------------------------- MODULE InvocationLedger --------------------------
(***************************************************************************)
(* What the invocations table promises those who read it: an append-only   *)
(* ledger.  A row appears once, complete, and is never changed again; it   *)
(* satisfies the table's CHECK constraints and the checks of the domain    *)
(* object (runtime_gateway/infrastructure/models.py, domain/invocation.py);*)
(* and a refusal cites a consumption the ledger really held.               *)
(*                                                                         *)
(* RuntimeGateway implements this module, Reporting reads it.              *)
(***************************************************************************)
EXTENDS CostAttribution, FiniteSets

CONSTANTS
  Invocations,      \* the ids rows are stored under
  MaxUnits, MaxCost, \* bounds: the largest usage and cost of one row
  NoRow

VARIABLE ledger

NoUsage    == [input |-> Unknown, output |-> Unknown, total |-> Unknown]
NoEvidence == [consumed |-> Unknown, limit |-> 0, allowance |-> 0]

Stored == {i \in Invocations : ledger[i] # NoRow}

\* SUM(total_units) of a principal's day and SUM(cost_total) of a tenant's, as
\* the number of the counted units; NULLs do not count.
Units(p, d) ==
  Cardinality({x \in Stored \X (1 .. MaxUnits) :
                 /\ ledger[x[1]].principal = p /\ ledger[x[1]].day = d
                 /\ ledger[x[1]].usage.total # Unknown
                 /\ x[2] <= ledger[x[1]].usage.total})

Cost(t, d) ==
  Cardinality({x \in Stored \X (1 .. MaxCost) :
                 /\ ledger[x[1]].tenant = t /\ ledger[x[1]].day = d
                 /\ ledger[x[1]].cost # Unknown
                 /\ x[2] <= ledger[x[1]].cost})

\* Evidence of the consumption a request was refused on exists exactly when it
\* was refused for it, and shows that nothing was left.
WellFormed(row) ==
  /\ row.cost # Unknown =>
       /\ row.status = "succeeded"
       /\ row.usage.input # Unknown /\ row.usage.output # Unknown
  /\ IF row.status \in {"limited", "cost_limited"}
     THEN /\ row.usage = NoUsage
          /\ row.evidence.allowance <= row.evidence.limit
          /\ row.evidence.consumed + row.evidence.allowance > row.evidence.limit
     ELSE row.evidence = NoEvidence

Justified(row) ==
  /\ row.status = "limited" => row.evidence.consumed <= Units(row.principal, row.day)
  /\ row.status = "cost_limited" => row.evidence.consumed <= Cost(row.tenant, row.day)

Insert(i, row) ==
  /\ ledger[i] = NoRow /\ row # NoRow
  /\ WellFormed(row)
  /\ Justified(row)
  /\ ledger' = [ledger EXCEPT ![i] = row]

EmptyLedger == ledger = [i \in Invocations |-> NoRow]

AppendRow == \E i \in Invocations : Insert(i, ledger'[i])

LedgerSpec == EmptyLedger /\ [][AppendRow]_ledger
=============================================================================
