--------------------------- MODULE RuntimeGateway ---------------------------
(***************************************************************************)
(* The Runtime Gateway: POST /runtime/invocations, handled by              *)
(* CreateInvocationHandler (runtime_gateway/application/                   *)
(* create_invocation.py) over three committed tables of the shared         *)
(* PostgreSQL database.  Handlers of many requests interleave at every     *)
(* await; each database call is one transaction of its own, and no         *)
(* transaction spans two of them or the provider call.                     *)
(*                                                                         *)
(*   permissions    agent_model_permissions, one row per (tenant, agent,   *)
(*                  model), written by Policy & Risk's PUT                 *)
(*   decisions      policy_decisions, unique per invocation_id             *)
(*   invocations    the invocations table: the only usage and cost ledger  *)
(***************************************************************************)
EXTENDS CostAttribution, FiniteSets

CONSTANTS
  Requests,       \* requests received; a request stands for its InvocationId
  Principals, Tenants, Agents, Models,
  Settings,       \* principal -> [tenant, agent, limit, allowance] (runtime_auth)
  RegisteredTenants,
  AgentTenant,    \* registered agent -> owning tenant
  ModelTenant,    \* registered model -> owning tenant
  OpenAIModels,   \* the registered models whose provider is "openai"
  Budgets,        \* tenant with a budget entry -> [limit, allowance]
  Price,          \* model -> pricing entry or Unknown
  ProviderUsages, \* usage tuples the provider may report
  NoPermission, NoRow,
  \* Bounds: the largest usage and cost of one answer, the last UTC day, and
  \* how many requests the deployment serves at once.
  MaxUnits, MaxCost, MaxDay, MaxInFlight,
  IntMax          \* the largest value of a PostgreSQL INTEGER column

NoUsage == [input |-> Unknown, output |-> Unknown, total |-> Unknown]
Usages  == ProviderUsages \cup {NoUsage}
Effects == {"allow", "deny"}

\* What the settings' validators enforce, and the sizes the bounds name.
ASSUME SettingsAssumption ==
  \A p \in Principals :
    /\ Settings[p].tenant \in Tenants
    /\ Settings[p].agent \in Agents
    /\ Settings[p].allowance \in Nat \ {0}
    /\ Settings[p].limit \in Nat
    /\ Settings[p].allowance <= Settings[p].limit
ASSUME BudgetAssumption ==
  /\ DOMAIN Budgets \subseteq Tenants
  /\ \A t \in DOMAIN Budgets :
       /\ Budgets[t].allowance \in Nat \ {0}
       /\ Budgets[t].limit \in Nat
       /\ Budgets[t].allowance <= Budgets[t].limit
ASSUME BoundsAssumption ==
  /\ IsFiniteSet(Requests)
  /\ {MaxUnits, MaxCost, MaxDay, MaxInFlight, IntMax} \subseteq Nat
  /\ \A u \in ProviderUsages : u.total \in (0 .. MaxUnits) \cup {Unknown}
  /\ \A m \in Models, u \in Usages :
       AttributedCost(u, Price[m]) \in (0 .. MaxCost) \cup {Unknown}
ASSUME NullAssumption ==
  /\ Unknown \notin Nat
  /\ NoPermission \notin Effects

VARIABLES
  day,          \* the UTC day the application's clock shows
  permissions,
  decisions,
  invocations,
  stage,        \* where each request's handler is suspended
  command,      \* principal, model and started_at's day of each request
  permission,   \* the permission row the evaluation has read
  draft         \* the Invocation built, not persisted yet

vars == <<day, permissions, decisions, invocations,
          stage, command, permission, draft>>
handlerVars == <<stage, command, permission, draft>>

-----------------------------------------------------------------------------
(***************************************************************************)
(* Rows and handler state.                                                 *)
(***************************************************************************)
Keys      == Tenants \X Agents \X Models
Commands  == [principal : Principals, model : Models, day : 0 .. MaxDay]
Statuses  == {"succeeded", "failed", "denied", "limited", "cost_limited"}
Rows      == [principal : Principals, model : Models, day : 0 .. MaxDay,
              status : Statuses, usage : Usages,
              cost : (0 .. MaxCost) \cup {Unknown},
              consumed : Nat \cup {Unknown}]
Decisions == [effect : Effects, explicit : BOOLEAN]
NoDecision == [effect |-> "none", explicit |-> FALSE]
ASSUME NoRowAssumption == NoRow \notin Rows \cup Commands

Unsettled == {"admitting", "evaluating", "deciding", "metering",
              "budgeting", "calling", "persisting"}
Stages    == Unsettled \cup {"idle", "persisted", "refused", "aborted"}

\* The shape of the state: the columns of the three tables the gateway uses,
\* and what each suspended handler holds between two of its awaits.
TypeOK ==
  /\ day \in 0 .. MaxDay
  /\ permissions \in [Keys -> Effects \cup {NoPermission}]
  /\ decisions \in [Requests -> Decisions \cup {NoDecision}]
  /\ invocations \in [Requests -> Rows \cup {NoRow}]
  /\ stage \in [Requests -> Stages]
  /\ command \in [Requests -> Commands \cup {NoRow}]
  /\ permission \in [Requests -> Effects \cup {NoPermission}]
  /\ draft \in [Requests -> Rows \cup {NoRow}]

Tenant(r) == Settings[command[r].principal].tenant
Key(r)    == <<Tenant(r), Settings[command[r].principal].agent, command[r].model>>
InFlight  == {r \in Requests : stage[r] \in Unsettled}

(***************************************************************************)
(* The two ledger aggregates, SUM(total_units) and SUM(cost_total) over    *)
(* one UTC day.  NULLs do not count.  A sum of naturals is written as the  *)
(* cardinality of the set of the counted units.                            *)
(***************************************************************************)
UnitsOf(u) == IF u.total = Unknown THEN {} ELSE 1 .. u.total
QuantaOf(c) == IF c = Unknown THEN {} ELSE 1 .. c

UnitLedger(p, d) ==
  {x \in Requests \X (1 .. MaxUnits) :
     LET row == invocations[x[1]]
     IN  row # NoRow /\ row.principal = p /\ row.day = d /\ x[2] \in UnitsOf(row.usage)}

ConsumedUnits(p, d) == Cardinality(UnitLedger(p, d))

CostLedger(t, d) ==
  {x \in Requests \X (1 .. MaxCost) :
     LET row == invocations[x[1]]
     IN  /\ row # NoRow /\ Settings[row.principal].tenant = t /\ row.day = d
         /\ x[2] \in QuantaOf(row.cost)}

AttributedTenantCost(t, d) == Cardinality(CostLedger(t, d))

(***************************************************************************)
(* decide_usage_limit and decide_tenant_cost_budget.                       *)
(***************************************************************************)
FitsAtTheLimit(consumed, grant) == consumed < grant.limit
Fits(consumed, grant) == consumed + grant.allowance <= grant.limit

(***************************************************************************)
(* An Invocation in its final status: the factories of domain/             *)
(* invocation.py.  Only a success carries usage and cost, only a limited   *)
(* or cost-limited one the consumption it was refused on.                  *)
(***************************************************************************)
OutcomeInNextWindow(r, status, usage, cost, consumed) ==
  [principal |-> command[r].principal, model |-> command[r].model,
   day |-> command[r].day + 1, status |-> status,
   usage |-> usage, cost |-> cost, consumed |-> consumed]

Outcome(r, status, usage, cost, consumed) ==
  [principal |-> command[r].principal, model |-> command[r].model,
   day |-> command[r].day, status |-> status,
   usage |-> usage, cost |-> cost, consumed |-> consumed]

RefusalAtNoCost(r, status, consumed) == Outcome(r, status, NoUsage, 0, consumed)

Refusal(r, status, consumed) == Outcome(r, status, NoUsage, Unknown, consumed)

Advance(r, from, to) ==
  /\ stage[r] = from
  /\ stage' = [stage EXCEPT ![r] = to]

Settle(r, from, row) ==
  /\ Advance(r, from, "persisting")
  /\ draft' = [draft EXCEPT ![r] = row]

-----------------------------------------------------------------------------
(***************************************************************************)
(* The environment: the clock, and Policy & Risk's permission PUT, an      *)
(* upsert that commits at any moment.  It validates that agent and model   *)
(* belong to the tenant; no code deletes a permission.                     *)
(***************************************************************************)
Tick ==
  /\ day < MaxDay
  /\ day' = day + 1
  /\ UNCHANGED <<permissions, decisions, invocations, handlerVars>>

SetPermission(t, a, m, effect) ==
  /\ t \in RegisteredTenants
  /\ a \in DOMAIN AgentTenant /\ AgentTenant[a] = t
  /\ m \in DOMAIN ModelTenant /\ ModelTenant[m] = t
  /\ permissions' = [permissions EXCEPT ![<<t, a, m>>] = effect]
  /\ UNCHANGED <<day, decisions, invocations, handlerVars>>

(***************************************************************************)
(* The handler, one action per await that touches shared state.            *)
(***************************************************************************)
\* Authenticated request arrives; started_at is read first.
Receive(r, p, m) ==
  /\ Advance(r, "idle", "admitting")
  /\ Cardinality(InFlight) < MaxInFlight
  /\ command' = [command EXCEPT ![r] = [principal |-> p, model |-> m, day |-> day]]
  /\ UNCHANGED <<day, permissions, decisions, invocations, permission, draft>>

Admissible(r) ==
  LET agent == Settings[command[r].principal].agent
      model == command[r].model
  IN  /\ Tenant(r) \in RegisteredTenants
      /\ agent \in DOMAIN AgentTenant /\ AgentTenant[agent] = Tenant(r)
      /\ model \in DOMAIN ModelTenant /\ ModelTenant[model] = Tenant(r)
      /\ model \in OpenAIModels

\* The three admission reads; a refusal persists nothing.
Admit(r) ==
  /\ Advance(r, "admitting", IF Admissible(r) THEN "evaluating" ELSE "refused")
  /\ UNCHANGED <<day, permissions, decisions, invocations, command, permission, draft>>

\* EvaluateRuntimePermissionHandler: its SELECT, then INSERT and COMMIT.
ReadPermission(r) ==
  /\ Advance(r, "evaluating", "deciding")
  /\ permission' = [permission EXCEPT ![r] = permissions[Key(r)]]
  /\ UNCHANGED <<day, permissions, decisions, invocations, command, draft>>

DefaultAllow(r) ==
  [effect |-> IF permission[r] = NoPermission THEN "allow" ELSE permission[r],
   explicit |-> permission[r] # NoPermission]

Evaluate(r) ==
  [effect |-> IF permission[r] = NoPermission THEN "deny" ELSE permission[r],
   explicit |-> permission[r] # NoPermission]

\* The decision commits before anything else happens to the request.
CommitDecision(r, effect) ==
  /\ decisions' = [decisions EXCEPT ![r] = Evaluate(r)]
  /\ Evaluate(r).effect = effect
  /\ permission' = [permission EXCEPT ![r] = NoPermission]
  /\ UNCHANGED <<day, permissions, invocations, command>>

Allow(r) ==
  /\ Advance(r, "deciding", "metering")
  /\ CommitDecision(r, "allow")
  /\ UNCHANGED draft

DenyIgnored(r) ==
  /\ Advance(r, "deciding", "metering")
  /\ CommitDecision(r, "deny")
  /\ UNCHANGED draft

Deny(r) ==
  /\ Settle(r, "deciding", Refusal(r, "denied", Unknown))
  /\ CommitDecision(r, "deny")

\* The usage read, over the UTC day the request started, and the pre-check.
ConsumptionToday(r) == ConsumedUnits(command[r].principal, day)
Consumption(r)      == ConsumedUnits(command[r].principal, command[r].day)

PassUsageLimit(r) ==
  /\ Advance(r, "metering", "budgeting")
  /\ Fits(Consumption(r), Settings[command[r].principal])
  /\ UNCHANGED <<day, permissions, decisions, invocations, command, permission, draft>>

LimitUsage(r) ==
  /\ Settle(r, "metering", Refusal(r, "limited", Consumption(r)))
  /\ ~Fits(Consumption(r), Settings[command[r].principal])
  /\ UNCHANGED <<day, permissions, decisions, invocations, command, permission>>

\* A tenant without a budget entry fails closed and persists nothing.
RetryUnbudgeted(r) ==
  /\ Advance(r, "budgeting", "metering")
  /\ Tenant(r) \notin DOMAIN Budgets
  /\ UNCHANGED <<day, permissions, decisions, invocations, command, permission, draft>>

RefuseUnbudgeted(r) ==
  /\ Advance(r, "budgeting", "refused")
  /\ Tenant(r) \notin DOMAIN Budgets
  /\ UNCHANGED <<day, permissions, decisions, invocations, command, permission, draft>>

TenantCostToday(r) == AttributedTenantCost(Tenant(r), day)
TenantCost(r)      == AttributedTenantCost(Tenant(r), command[r].day)

PassBudget(r) ==
  /\ Advance(r, "budgeting", "calling")
  /\ Tenant(r) \in DOMAIN Budgets
  /\ Fits(TenantCost(r), Budgets[Tenant(r)])
  /\ UNCHANGED <<day, permissions, decisions, invocations, command, permission, draft>>

LimitCost(r) ==
  /\ Settle(r, "budgeting", Refusal(r, "cost_limited", TenantCost(r)))
  /\ Tenant(r) \in DOMAIN Budgets
  /\ ~Fits(TenantCost(r), Budgets[Tenant(r)])
  /\ UNCHANGED <<day, permissions, decisions, invocations, command, permission>>

\* The provider answers; malformed usage was normalised to NoUsage.
ProviderAnswers(r, usage) ==
  /\ Settle(r, "calling",
            Outcome(r, "succeeded", usage,
                    AttributedCost(usage, Price[command[r].model]), Unknown))
  /\ UNCHANGED <<day, permissions, decisions, invocations, command, permission>>

\* ProviderTransportError: SDK error, timeout, empty output or no API key.
ProviderFails(r) ==
  /\ Settle(r, "calling", Refusal(r, "failed", Unknown))
  /\ UNCHANGED <<day, permissions, decisions, invocations, command, permission>>

\* The columns of the units are INTEGER, and ck_invocations_limited_evidence
\* adds two of them in that type, whatever the configured limit allows.  So is
\* pricing_basis_units; a price with a larger basis has its rows refused by Abort.
Storable(row) ==
  /\ \A units \in {row.usage.input, row.usage.output, row.usage.total} :
       units # Unknown => units <= IntMax
  /\ row.status = "limited" =>
       row.consumed + Settings[row.principal].allowance <= IntMax

\* _persist: one INSERT and COMMIT, after which the response is sent.
Persist(r) ==
  /\ Advance(r, "persisting", "persisted")
  /\ Storable(draft[r])
  /\ invocations' = [invocations EXCEPT ![r] = draft[r]]
  /\ draft' = [draft EXCEPT ![r] = NoRow]
  /\ UNCHANGED <<day, permissions, decisions, command, permission>>

\* PostgreSQL refuses the row: nothing catches that error, nothing is recorded.
PersistOverflows(r) ==
  /\ Advance(r, "persisting", "aborted")
  /\ ~Storable(draft[r])
  /\ draft' = [draft EXCEPT ![r] = NoRow]
  /\ UNCHANGED <<day, permissions, decisions, invocations, command, permission>>

\* Any exception not handled above: a failed read or write, a cancelled
\* request, a crash of the process.  What was committed stays, what the
\* handler held is gone.
Abort(r) ==
  /\ stage[r] \in Unsettled
  /\ stage' = [stage EXCEPT ![r] = "aborted"]
  /\ permission' = [permission EXCEPT ![r] = NoPermission]
  /\ draft' = [draft EXCEPT ![r] = NoRow]
  /\ UNCHANGED <<day, permissions, decisions, invocations, command>>

Step(r) ==
  \/ Admit(r) \/ ReadPermission(r) \/ Allow(r) \/ Deny(r)
  \/ PassUsageLimit(r) \/ LimitUsage(r)
  \/ RefuseUnbudgeted(r) \/ PassBudget(r) \/ LimitCost(r)
  \/ \E usage \in Usages : ProviderAnswers(r, usage)
  \/ ProviderFails(r) \/ Persist(r) \/ PersistOverflows(r)

Init ==
  /\ day = 0
  /\ permissions = [k \in Keys |-> NoPermission]
  /\ decisions = [r \in Requests |-> NoDecision]
  /\ invocations = [r \in Requests |-> NoRow]
  /\ stage = [r \in Requests |-> "idle"]
  /\ command = [r \in Requests |-> NoRow]
  /\ permission = [r \in Requests |-> NoPermission]
  /\ draft = [r \in Requests |-> NoRow]

Next ==
  \/ Tick
  \/ \E t \in Tenants, a \in Agents, m \in Models, effect \in Effects :
       SetPermission(t, a, m, effect)
  \/ \E r \in Requests :
       \/ \E p \in Principals, m \in Models : Receive(r, p, m)
       \/ Step(r)
       \/ Abort(r)

Spec == Init /\ [][Next]_vars

\* Each await of the handler ends: the provider client has a timeout, and the
\* handler's statements wait for no lock that outlives one statement.  The
\* environment owes nothing, and nothing forces a request to abort.
FairSpec == Spec /\ \A r \in Requests : WF_vars(Step(r))

-----------------------------------------------------------------------------
(***************************************************************************)
(* Requests that passed the usage check (the cost check) and may still add *)
(* units (cost) to the ledger of principal p (tenant t) and day d.         *)
(***************************************************************************)
Owes(r, stages) ==
  stage[r] \in stages \/ (stage[r] = "persisting" /\ draft[r].status = "succeeded")

OwedUnits(p, d) ==
  {r \in Requests : /\ Owes(r, {"budgeting", "calling"})
                    /\ command[r].principal = p /\ command[r].day = d}

OwedCost(t, d) ==
  {r \in Requests : Owes(r, {"calling"}) /\ Tenant(r) = t /\ command[r].day = d}

\* Default deny (evaluate_permission.py:42-55, threat-model.md:139-140): an
\* ALLOW decision was read from a permission row of exactly the request's own
\* tenant, agent and model, whatever permissions were written meanwhile.
AllowRestsOnPermission ==
  \A r \in Requests :
    decisions[r].effect = "allow" =>
      decisions[r].explicit /\ permissions[Key(r)] # NoPermission

\* create_invocation.py:99-118: nothing reaches the provider, and no outcome
\* but a denial is recorded, before an ALLOW decision of the same invocation is
\* committed; a DENY decision leaves a denial or nothing.
OutcomesMatchDecisions ==
  \A r \in Requests :
    /\ stage[r] = "calling" => decisions[r].effect = "allow"
    /\ invocations[r] # NoRow =>
         IF invocations[r].status = "denied"
         THEN decisions[r].effect = "deny"
         ELSE decisions[r].effect = "allow"

\* ADR-0014's sequential containment, and what concurrency costs: a day's known
\* units exceed the limit by at most the units of the requests in flight
\* together less one allowance.  With one request at a time that stays within
\* its allowance, the limit holds.
UsageOvershootBounded ==
  \A p \in Principals, d \in 0 .. MaxDay :
    ConsumedUnits(p, d) <=
      Settings[p].limit - Settings[p].allowance + MaxInFlight * MaxUnits

\* ADR-0017, the same for a tenant's attributed cost, which requests of
\* different principals share.
CostOvershootBounded ==
  \A t \in DOMAIN Budgets, d \in 0 .. MaxDay :
    AttributedTenantCost(t, d) <=
      Budgets[t].limit - Budgets[t].allowance + MaxInFlight * MaxCost

\* README.md:20 and ADR-0014:31: requests served one at a time, none of which
\* uses (costs) more than its allowance, never exceed the limit (the budget) of
\* any day.  Checked and proved for MaxInFlight = 1.
SequentialContainment ==
  \A d \in 0 .. MaxDay :
    /\ \A p \in Principals : ConsumedUnits(p, d) <= Settings[p].limit
    /\ \A t \in DOMAIN Budgets : AttributedTenantCost(t, d) <= Budgets[t].limit

\* A refusal stays true: the consumption a limited or cost-limited row records
\* is still in the ledger of that row's own day, and still leaves no room
\* (domain/invocation.py:113-176 checks the arithmetic alone).
RefusalsStayJustified ==
  \A r \in Requests :
    LET row == invocations[r]
    IN  row # NoRow =>
          /\ row.status = "limited" =>
               /\ row.consumed <= ConsumedUnits(row.principal, row.day)
               /\ ~Fits(row.consumed, Settings[row.principal])
          /\ row.status = "cost_limited" =>
               LET t == Settings[row.principal].tenant
               IN  /\ row.consumed <= AttributedTenantCost(t, row.day)
                   /\ ~Fits(row.consumed, Budgets[t])

\* Once a request was limited on its principal's usage (on its tenant's cost),
\* no later check of that principal (tenant) and day passes, however the day's
\* requests, permissions and the clock interleave: the ledger a check reads
\* never shrinks, and a refused window is never reopened.
RefusalsAreFinal ==
  [][\A d \in 0 .. MaxDay :
       /\ \A p \in Principals :
            (\E r \in Requests :
               /\ invocations[r] # NoRow /\ invocations[r].status = "limited"
               /\ invocations[r].principal = p /\ invocations[r].day = d)
              => OwedUnits(p, d)' \subseteq OwedUnits(p, d)
       /\ \A t \in Tenants :
            (\E r \in Requests :
               /\ invocations[r] # NoRow /\ invocations[r].status = "cost_limited"
               /\ Settings[invocations[r].principal].tenant = t
               /\ invocations[r].day = d)
              => OwedCost(t, d)' \subseteq OwedCost(t, d)]_vars

(***************************************************************************)
(* The gateway implements the append-only ledger that Reporting reads.     *)
(* The table's row also holds the tenant and agent the settings bound the  *)
(* principal to, and the limit or budget it was measured against.          *)
(***************************************************************************)
EvidenceOf(row) ==
  LET t == Settings[row.principal].tenant
      grant == IF row.status = "limited" THEN Settings[row.principal] ELSE Budgets[t]
  IN  IF row.status \in {"limited", "cost_limited"}
      THEN [consumed |-> row.consumed, limit |-> grant.limit,
            allowance |-> grant.allowance]
      ELSE [consumed |-> Unknown, limit |-> 0, allowance |-> 0]

LedgerRow(row) ==
  IF row = NoRow THEN NoRow
  ELSE [tenant |-> Settings[row.principal].tenant,
        agent |-> Settings[row.principal].agent,
        principal |-> row.principal, model |-> row.model, day |-> row.day,
        status |-> row.status, usage |-> row.usage, cost |-> row.cost,
        evidence |-> EvidenceOf(row)]

LedgerRows ==
  [tenant : Tenants, agent : Agents, principal : Principals, model : Models,
   day : 0 .. MaxDay, status : Statuses, usage : Usages,
   cost : (0 .. MaxCost) \cup {Unknown},
   evidence : [consumed : Nat \cup {Unknown}, limit : Nat, allowance : Nat]]
ASSUME LedgerRowAssumption == NoRow \notin LedgerRows

LedgerOf == [r \in Requests |-> LedgerRow(invocations[r])]

Ledger == INSTANCE InvocationLedger WITH Invocations <- Requests, ledger <- LedgerOf

\* Every step of the gateway appends one well-formed row, which no later step
\* changes and whose refusal the ledger itself bears out, or leaves the
\* ledger alone: what readers of the table rely on (ADR-0016: "Invocation rows
\* remain the source of truth").
ImplementsLedger == Ledger!LedgerSpec

\* Every received request ends: its Invocation is recorded, or it was refused
\* or aborted without one; no handler waits for another.
EveryRequestSettles ==
  \A r \in Requests :
    stage[r] \in Unsettled ~> (invocations[r] # NoRow \/ stage[r] \in {"refused", "aborted"})
=============================================================================
