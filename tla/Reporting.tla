------------------------------ MODULE Reporting ------------------------------
(***************************************************************************)
(* GET /tenants/{id}/runtime-report: totals and two top-N breakdowns of    *)
(* one tenant's invocations over a half-open range                         *)
(* (runtime_gateway/application/reporting.py, infrastructure/reporting.py).*)
(*                                                                         *)
(* The totals, the agents and the models are three statements of one READ  *)
(* COMMITTED session: each sees the rows committed when it began, and the  *)
(* gateway inserts rows between them.                                      *)
(***************************************************************************)
EXTENDS InvocationLedger, Integers, Sequences, FiniteSetsExt

CONSTANTS
  Tenants, RegisteredTenants,
  Scopes,      \* the tenants the authenticated management principal may see
  RowKinds,    \* the rows the gateway may insert; agents and models are
               \* numbers, because the order of their ids breaks ties
  MaxDay,      \* bound: the last day a row starts on or a range ends before
  MaxRange,    \* MAX_REPORT_RANGE
  TopN         \* TOP_N

Statuses == {"succeeded", "failed", "denied", "limited", "cost_limited"}

ASSUME TopNAssumption == TopN \in Nat \ {0} /\ MaxRange \in Nat \ {0}

\* The columns a report reads, as infrastructure/models.py types them.
ASSUME RowsAssumption ==
  /\ IsFiniteSet(Invocations)
  /\ Unknown \notin Nat /\ NoRow \notin RowKinds
  /\ \A row \in RowKinds :
       /\ row.status \in Statuses
       /\ {row.day, row.agent, row.model} \subseteq Int
       /\ {row.usage.input, row.usage.output, row.usage.total, row.cost} \subseteq Nat \cup {Unknown}

VARIABLES
  phase,       \* where the handler of the report is suspended, or how it ended
  ask,         \* the tenant and range asked for
  totals,      \* result of the first statement
  agentRows, modelRows \* results of the second and the third, as fetched

vars == <<ledger, phase, ask, totals, agentRows, modelRows>>
reportVars == <<phase, ask, totals, agentRows, modelRows>>

-----------------------------------------------------------------------------
(***************************************************************************)
(* The columns of the statements.                                          *)
(***************************************************************************)
Executed(row)   == row.status \in {"succeeded", "failed"}
UsageKnown(row) ==
  Executed(row) /\ Unknown \notin {row.usage.input, row.usage.output, row.usage.total}
Succeeded(row)  == row.status = "succeeded"
CostKnown(row)  == Succeeded(row) /\ row.cost # Unknown

SelectedClosed ==
  {i \in Stored : /\ ledger[i].tenant = ask.tenant
                  /\ ask.start <= ledger[i].day /\ ledger[i].day <= ask.end}

Selected ==
  {i \in Stored : /\ ledger[i].tenant = ask.tenant
                  /\ ask.start <= ledger[i].day /\ ledger[i].day < ask.end}

\* FILTER (WHERE ...) of the columns, and the sums over what is left.
Executions(S) == {i \in S : Executed(ledger[i])}
Metered(S)    == {i \in S : UsageKnown(ledger[i])}
Successes(S)  == {i \in S : Succeeded(ledger[i])}
Priced(S)     == {i \in S : CostKnown(ledger[i])}

\* A sum is the number of the units summed, each told apart by whose it is.
SumOver(g) == Cardinality(UNION {{x} \X (1 .. g[x]) : x \in DOMAIN g})

UnitsOf(S, kind) == SumOver([i \in S |-> ledger[i].usage[kind]])
CostOf(S)        == SumOver([i \in S |-> ledger[i].cost])

\* The totals' statement.  Its figures are those the breakdowns also show.
UnpricedExecuted(S) == Cardinality(Executions(S) \ Priced(S))
UnpricedSuccess(S)  == Cardinality(Successes(S) \ Priced(S))

Totals(S) ==
  [figures  |->
     [count            |-> Cardinality(S),
      units            |-> UnitsOf(Metered(S), "total"),
      usageKnown       |-> Cardinality(Metered(S)),
      usageUnavailable |-> Cardinality(Executions(S) \ Metered(S)),
      cost             |-> CostOf(Priced(S)),
      costKnown        |-> Cardinality(Priced(S)),
      costUnavailable  |-> UnpricedSuccess(S)],
   statuses |-> [s \in Statuses |-> Cardinality({i \in S : ledger[i].status = s})],
   input    |-> UnitsOf(Metered(S), "input"),
   output   |-> UnitsOf(Metered(S), "output"),
   executed |-> Cardinality(Executions(S))]

\* The columns of the breakdowns' statement, which repeats the totals' filters.
GroupReportedUnits(S) ==
  UnitsOf({i \in S : ledger[i].usage.total # Unknown}, "total")
GroupUnits(S) == UnitsOf(Metered(S), "total")

Group(S) ==
  [count            |-> Cardinality(S),
   units            |-> GroupUnits(S),
   usageKnown       |-> Cardinality(Metered(S)),
   usageUnavailable |-> Cardinality(Executions(S) \ Metered(S)),
   cost             |-> CostOf(Priced(S)),
   costKnown        |-> Cardinality(Priced(S)),
   costUnavailable  |-> Cardinality(Successes(S) \ Priced(S))]

\* GROUP BY one identity of the rows, ORDER BY cost DESC, identity ASC, LIMIT.
Ids(S, by) == {ledger[i][by] : i \in S}
Groups(S, by) ==
  {[id |-> x, figures |-> Group({i \in S : ledger[i][by] = x})] : x \in Ids(S, by)}

Precedes(g, h) ==
  \/ g.figures.cost > h.figures.cost
  \/ g.figures.cost = h.figures.cost /\ g.id < h.id

Ranked(S, by) ==
  CHOOSE rows \in [1 .. Cardinality(Groups(S, by)) -> Groups(S, by)] :
    \A j, k \in DOMAIN rows : j < k => Precedes(rows[j], rows[k])

First(n, rows) == SubSeq(rows, 1, Min({n, Len(rows)}))

BreakdownOfTopN(S, by) == First(TopN, Ranked(S, by))
Breakdown(S, by)       == First(TopN + 1, Ranked(S, by))

\* What the response keeps of the fetched rows.
Shown(rows)     == First(TopN, rows)
Truncated(rows) == Len(rows) > TopN

-----------------------------------------------------------------------------
(***************************************************************************)
(* The gateway's INSERT, at any moment.  A row of a past day may still     *)
(* appear: its started_at precedes its commit.                             *)
(***************************************************************************)
Record(i, row) ==
  /\ Insert(i, row)
  /\ UNCHANGED reportVars

Advance(from, to) == phase = from /\ phase' = to

\* The route authorises the tenant, then the handler validates the range.
Ask(t, start, end) ==
  /\ Advance("idle",
             CASE t \notin Scopes -> "not_found"
               [] t \in Scopes /\ (start >= end \/ end - start > MaxRange) -> "invalid_range"
               [] OTHER -> "checking")
  /\ ask' = [tenant |-> t, start |-> start, end |-> end]
  /\ UNCHANGED <<ledger, totals, agentRows, modelRows>>

\* tenant_exists, in a session of its own.
CheckTenant ==
  /\ Advance("checking", IF ask.tenant \in RegisteredTenants THEN "totals" ELSE "not_found")
  /\ UNCHANGED <<ledger, ask, totals, agentRows, modelRows>>

ReadTotals ==
  /\ Advance("totals", "agents")
  /\ totals' = Totals(Selected)
  /\ UNCHANGED <<ledger, ask, agentRows, modelRows>>

ReadAgents ==
  /\ Advance("agents", "models")
  /\ agentRows' = Breakdown(Selected, "agent")
  /\ UNCHANGED <<ledger, ask, totals, modelRows>>

ReadModels ==
  /\ Advance("models", "answered")
  /\ modelRows' = Breakdown(Selected, "model")
  /\ UNCHANGED <<ledger, ask, totals, agentRows>>

\* SQLAlchemyError from any statement: the 503 discards what was read.
Unavailable ==
  /\ phase \in {"checking", "totals", "agents", "models"}
  /\ phase' = "unavailable"
  /\ UNCHANGED <<ledger, ask, totals, agentRows, modelRows>>

None == [count |-> 0]

Init ==
  /\ EmptyLedger
  /\ phase = "idle"
  /\ ask = None
  /\ totals = None
  /\ agentRows = <<>>
  /\ modelRows = <<>>

Next ==
  \/ \E i \in Invocations, row \in RowKinds : Record(i, row)
  \/ \E t \in Tenants, start, end \in 0 .. MaxDay : Ask(t, start, end)
  \/ CheckTenant \/ ReadTotals \/ ReadAgents \/ ReadModels \/ Unavailable

Spec == Init /\ [][Next]_vars

-----------------------------------------------------------------------------
Answered == phase = "answered"

\* The rows a report of this tenant and range is about, and the sums over the
\* groups of a breakdown.
Subject ==
  {i \in Stored : ledger[i].tenant = ask.tenant /\ ledger[i].day \in ask.start .. ask.end - 1}
FigureNames == DOMAIN Group({})
SumOf(rows) ==
  [f \in FigureNames |-> SumOver([k \in DOMAIN rows |-> rows[k].figures[f]])]
AtMost(a, b) == \A f \in FigureNames : a[f] <= b[f]

\* The three parts of one answer are of three instants (infrastructure/
\* reporting.py:80-83): every figure of a breakdown that names all its groups is
\* at least the totals' and at most what the ledger holds for that tenant and
\* half-open range when the answer is given, and the agents' sums are at most
\* the models'.
AnswerIsBracketed ==
  Answered =>
    LET now == Group(Subject)
    IN  /\ AtMost(totals.figures, now)
        /\ \A rows \in {agentRows, modelRows} :
             ~Truncated(rows) => /\ AtMost(totals.figures, SumOf(rows))
                                 /\ AtMost(SumOf(rows), now)
        /\ ~Truncated(agentRows) /\ ~Truncated(modelRows) =>
             AtMost(SumOf(agentRows), SumOf(modelRows))

\* A reader can tell a torn answer: when the invocation counts of two parts
\* agree, nothing was committed between them and all their figures agree, the
\* completeness counts included.
EqualCountsMeanOneInstant ==
  Answered =>
    /\ \A rows \in {agentRows, modelRows} :
         ~Truncated(rows) /\ SumOf(rows).count = totals.figures.count
           => SumOf(rows) = totals.figures
    /\ totals.figures.count = Cardinality(Subject) => totals = Totals(Subject)

\* Completeness (docs/architecture/README.md:222-223): every selected row is in
\* exactly one status, every executed one has known or unavailable usage, and
\* every success known or unavailable cost.
CompletenessAddsUp ==
  Answered =>
    LET f == totals.figures
    IN  /\ f.count = SumOver(totals.statuses)
        /\ totals.executed = f.usageKnown + f.usageUnavailable
        /\ totals.statuses["succeeded"] = f.costKnown + f.costUnavailable

\* A breakdown shows the groups that fewer than TOP_N others outrank, in
\* order, and its flag says whether there are more ("accurate truncation
\* flags", docs/architecture/README.md:226-229).
Outranks(S, by, x, y) ==
  LET CostFor(z) == Group({i \in S : ledger[i][by] = z}).cost
  IN  CostFor(x) > CostFor(y) \/ (CostFor(x) = CostFor(y) /\ x < y)

IsTop(rows, S, by) ==
  LET Rank(x) == 1 + Cardinality({y \in Ids(S, by) : Outranks(S, by, y, x)})
      shown   == Shown(rows)
  IN  /\ Truncated(rows) <=> Cardinality(Ids(S, by)) > TopN
      /\ {shown[k].id : k \in DOMAIN shown} = {x \in Ids(S, by) : Rank(x) <= TopN}
      /\ \A k \in DOMAIN shown : Rank(shown[k].id) = k

BreakdownsAreTop ==
  [][/\ ReadAgents => IsTop(agentRows', Subject, "agent")
     /\ ReadModels => IsTop(modelRows', Subject, "model")]_vars
=============================================================================
