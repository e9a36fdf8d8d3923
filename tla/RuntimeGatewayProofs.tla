------------------------ MODULE RuntimeGatewayProofs ------------------------
(***************************************************************************)
(* Proofs about RuntimeGateway, for all values of its constants: decision  *)
(* before outcome, how far concurrency overshoots limit and budget, what a *)
(* refusal rests on, the refinement of InvocationLedger, and progress.     *)
(***************************************************************************)
EXTENDS RuntimeGateway, FiniteSetTheorems, TLAPS

\* Only an answer whose input and output units are known has a cost.
Priced(usage, cost) ==
  cost # Unknown => usage.input # Unknown /\ usage.output # Unknown

(***************************************************************************)
(* What a suspended handler holds, per stage; an idle request holds        *)
(* nothing, and only a persisted one has a row.                            *)
(***************************************************************************)
HandlerInv ==
  \A r \in Requests :
    /\ stage[r] # "idle" => command[r] \in Commands
    /\ stage[r] = "persisting" =>
         /\ draft[r] \in Rows
         /\ draft[r].principal = command[r].principal
         /\ draft[r].day = command[r].day
         /\ draft[r].status # "succeeded" =>
              draft[r].usage = NoUsage /\ draft[r].cost = Unknown
         /\ Priced(draft[r].usage, draft[r].cost)
    /\ stage[r] # "persisted" => invocations[r] = NoRow

TypeInv == TypeOK /\ HandlerInv

LEMMA KeyType ==
  ASSUME TypeInv, NEW r \in Requests, stage[r] # "idle"
  PROVE  /\ command[r] \in Commands
         /\ command[r].principal \in Principals
         /\ command[r].model \in Models
         /\ command[r].day \in 0 .. MaxDay
         /\ Tenant(r) \in Tenants
         /\ Key(r) \in Keys
BY SettingsAssumption DEF TypeInv, HandlerInv, Commands, Tenant, Key, Keys

(***************************************************************************)
(* The aggregates are naturals: they count finitely many units.            *)
(***************************************************************************)
LEMMA LedgerType ==
  ASSUME NEW x, NEW d
  PROVE  /\ IsFiniteSet(UnitLedger(x, d)) /\ ConsumedUnits(x, d) \in Nat
         /\ IsFiniteSet(CostLedger(x, d)) /\ AttributedTenantCost(x, d) \in Nat
<1>0. IsFiniteSet(1 .. MaxUnits) /\ IsFiniteSet(1 .. MaxCost)
  <2>1. MaxUnits \in Int /\ MaxCost \in Int /\ 1 \in Int
    BY BoundsAssumption
  <2>2. QED
    BY <2>1, FS_Interval
<1>1. /\ IsFiniteSet(Requests \X (1 .. MaxUnits))
      /\ IsFiniteSet(Requests \X (1 .. MaxCost))
  BY <1>0, FS_Product, BoundsAssumption
<1>2. /\ UnitLedger(x, d) \in SUBSET (Requests \X (1 .. MaxUnits))
      /\ CostLedger(x, d) \in SUBSET (Requests \X (1 .. MaxCost))
  BY DEF UnitLedger, CostLedger
<1>3. IsFiniteSet(UnitLedger(x, d)) /\ IsFiniteSet(CostLedger(x, d))
  BY <1>1, <1>2, FS_Subset
<1>4. QED
  BY <1>3, FS_CardinalityType DEF ConsumedUnits, AttributedTenantCost

LEMMA OutcomeType ==
  ASSUME TypeInv, NEW r \in Requests, stage[r] # "idle",
         NEW status \in Statuses, NEW usage \in Usages,
         NEW cost \in (0 .. MaxCost) \cup {Unknown}, NEW consumed \in Nat \cup {Unknown}
  PROVE  Outcome(r, status, usage, cost, consumed) \in Rows
BY KeyType DEF Outcome, Rows

LEMMA RefusalType ==
  ASSUME TypeInv, NEW r \in Requests, stage[r] # "idle",
         NEW status \in Statuses, NEW consumed \in Nat \cup {Unknown}
  PROVE  Refusal(r, status, consumed) \in Rows
BY OutcomeType DEF Refusal, Usages

-----------------------------------------------------------------------------
LEMMA InitType == Init => TypeInv
BY BoundsAssumption DEF Init, TypeInv, TypeOK, HandlerInv, Stages

\* A handler that settles holds a well-formed row of its own command.
LEMMA SettleType ==
  ASSUME TypeInv, NEW r \in Requests, NEW from \in Unsettled,
         NEW status \in Statuses, NEW usage \in Usages,
         NEW cost \in (0 .. MaxCost) \cup {Unknown}, NEW consumed \in Nat \cup {Unknown},
         status # "succeeded" => usage = NoUsage /\ cost = Unknown, Priced(usage, cost),
         Settle(r, from, Outcome(r, status, usage, cost, consumed)),
         decisions' \in [Requests -> Decisions \cup {NoDecision}],
         permission' \in [Requests -> Effects \cup {NoPermission}],
         UNCHANGED <<day, permissions, invocations, command>>
  PROVE  TypeInv'
<1>1. stage[r] = from /\ stage[r] # "idle" /\ stage[r] # "persisted"
  BY DEF Settle, Advance, Unsettled
<1>2. Outcome(r, status, usage, cost, consumed) \in Rows
  BY <1>1, OutcomeType
<1>3. TypeOK'
  BY <1>2 DEF TypeInv, TypeOK, Settle, Advance, Stages, Unsettled
<1>4. HandlerInv'
  BY <1>1, <1>2, <1>3 DEF TypeInv, TypeOK, HandlerInv, Settle, Advance, Outcome, Rows
<1>5. QED
  BY <1>3, <1>4 DEF TypeInv

\* A step of the handler that moves the stage and builds no row.
LEMMA AdvanceType ==
  ASSUME TypeInv, NEW r \in Requests, NEW from \in Unsettled \ {"persisting"},
         NEW to \in Stages \ {"idle", "persisting", "persisted"},
         Advance(r, from, to),
         decisions' \in [Requests -> Decisions \cup {NoDecision}],
         permission' \in [Requests -> Effects \cup {NoPermission}],
         UNCHANGED <<day, permissions, invocations, command, draft>>
  PROVE  TypeInv'
<1>1. TypeOK'
  BY DEF TypeInv, TypeOK, Advance
<1>2. HandlerInv'
  BY <1>1 DEF TypeInv, TypeOK, HandlerInv, Advance, Unsettled, Stages
<1>3. QED
  BY <1>1, <1>2 DEF TypeInv

LEMMA EvaluateType ==
  ASSUME TypeInv, NEW r \in Requests, NEW effect, CommitDecision(r, effect)
  PROVE  /\ decisions' \in [Requests -> Decisions \cup {NoDecision}]
         /\ permission' \in [Requests -> Effects \cup {NoPermission}]
BY DEF TypeInv, TypeOK, CommitDecision, Evaluate, Decisions, Effects

LEMMA StepType ==
  ASSUME TypeInv, NEW r \in Requests, Step(r)
  PROVE  TypeInv'
<1> USE DEF Unsettled, Stages
<1>a. /\ decisions \in [Requests -> Decisions \cup {NoDecision}]
      /\ permission \in [Requests -> Effects \cup {NoPermission}]
      /\ permissions \in [Keys -> Effects \cup {NoPermission}]
      /\ stage \in [Requests -> Stages]
  BY DEF TypeInv, TypeOK
<1>b. Unknown \in (0 .. MaxCost) \cup {Unknown} /\ Unknown \in Nat \cup {Unknown}
  OBVIOUS
<1>c. NoUsage \in Usages /\ Priced(NoUsage, Unknown)
  BY DEF Usages, Priced
<1>1. CASE Admit(r)
  <2>1. (IF Admissible(r) THEN "evaluating" ELSE "refused")
           \in Stages \ {"idle", "persisting", "persisted"}
    OBVIOUS
  <2>2. QED
    BY <1>1, <1>a, <2>1, AdvanceType DEF Admit
<1>2. CASE ReadPermission(r)
  <2>1. stage[r] # "idle"
    BY <1>2 DEF ReadPermission, Advance
  <2>2. Key(r) \in Keys
    BY <2>1, KeyType
  <2>3. permission' \in [Requests -> Effects \cup {NoPermission}]
    BY <1>2, <1>a, <2>2 DEF ReadPermission
  <2>4. QED
    BY <1>2, <1>a, <2>3, AdvanceType DEF ReadPermission
<1>3. CASE Allow(r)
  <2>1. /\ decisions' \in [Requests -> Decisions \cup {NoDecision}]
        /\ permission' \in [Requests -> Effects \cup {NoPermission}]
    BY <1>3, EvaluateType DEF Allow
  <2>2. QED
    BY <1>3, <2>1, AdvanceType DEF Allow, CommitDecision
<1>4. CASE Deny(r)
  <2>1. /\ decisions' \in [Requests -> Decisions \cup {NoDecision}]
        /\ permission' \in [Requests -> Effects \cup {NoPermission}]
    BY <1>4, EvaluateType DEF Deny
  <2>2. Settle(r, "deciding", Outcome(r, "denied", NoUsage, Unknown, Unknown))
    BY <1>4 DEF Deny, Refusal
  <2>3. "denied" \in Statuses
    BY DEF Statuses
  <2>4. QED
    BY <1>4, <1>b, <1>c, <2>1, <2>2, <2>3, SettleType DEF Deny, CommitDecision
<1>5. CASE PassUsageLimit(r)
  BY <1>5, <1>a, AdvanceType DEF PassUsageLimit
<1>6. CASE LimitUsage(r)
  <2>1. Consumption(r) \in Nat \cup {Unknown}
    BY LedgerType DEF Consumption
  <2>2. Settle(r, "metering", Outcome(r, "limited", NoUsage, Unknown, Consumption(r)))
    BY <1>6 DEF LimitUsage, Refusal
  <2>3. "limited" \in Statuses
    BY DEF Statuses
  <2>4. QED
    BY <1>6, <1>a, <1>b, <1>c, <2>1, <2>2, <2>3, SettleType DEF LimitUsage
<1>7. CASE RefuseUnbudgeted(r)
  BY <1>7, <1>a, AdvanceType DEF RefuseUnbudgeted
<1>8. CASE PassBudget(r)
  BY <1>8, <1>a, AdvanceType DEF PassBudget
<1>9. CASE LimitCost(r)
  <2>1. TenantCost(r) \in Nat \cup {Unknown}
    BY LedgerType DEF TenantCost
  <2>2. Settle(r, "budgeting", Outcome(r, "cost_limited", NoUsage, Unknown, TenantCost(r)))
    BY <1>9 DEF LimitCost, Refusal
  <2>3. "cost_limited" \in Statuses
    BY DEF Statuses
  <2>4. QED
    BY <1>9, <1>a, <1>b, <1>c, <2>1, <2>2, <2>3, SettleType DEF LimitCost
<1>10. ASSUME NEW usage \in Usages, ProviderAnswers(r, usage)
       PROVE  TypeInv'
  <2>1. stage[r] # "idle"
    BY <1>10 DEF ProviderAnswers, Settle, Advance
  <2>2. AttributedCost(usage, Price[command[r].model]) \in (0 .. MaxCost) \cup {Unknown}
    BY <2>1, KeyType, BoundsAssumption
  <2>3. /\ "succeeded" \in Statuses
        /\ Priced(usage, AttributedCost(usage, Price[command[r].model]))
    BY DEF Statuses, Priced, AttributedCost
  <2>4. QED
    BY <1>10, <1>a, <1>b, <2>2, <2>3, SettleType DEF ProviderAnswers
<1>11. CASE ProviderFails(r)
  <2>1. Settle(r, "calling", Outcome(r, "failed", NoUsage, Unknown, Unknown))
    BY <1>11 DEF ProviderFails, Refusal
  <2>2. "failed" \in Statuses
    BY DEF Statuses
  <2>3. QED
    BY <1>11, <1>a, <1>b, <1>c, <2>1, <2>2, SettleType DEF ProviderFails
<1>12. CASE Persist(r)
  <2>1. stage[r] = "persisting" /\ draft[r] \in Rows
    BY <1>12 DEF Persist, Advance, TypeInv, HandlerInv
  <2>2. TypeOK'
    BY <1>12, <2>1 DEF Persist, Advance, TypeInv, TypeOK
  <2>3. HandlerInv'
    BY <1>12, <2>1, <2>2 DEF Persist, Advance, TypeInv, TypeOK, HandlerInv
  <2>4. QED
    BY <2>2, <2>3 DEF TypeInv
<1>13. CASE PersistOverflows(r)
  <2>1. TypeOK'
    BY <1>13 DEF PersistOverflows, Advance, TypeInv, TypeOK
  <2>2. HandlerInv'
    BY <1>13, <2>1 DEF PersistOverflows, Advance, TypeInv, TypeOK, HandlerInv
  <2>3. QED
    BY <2>1, <2>2 DEF TypeInv
<1>14. QED
  BY <1>1, <1>2, <1>3, <1>4, <1>5, <1>6, <1>7, <1>8, <1>9, <1>10, <1>11, <1>12, <1>13 DEF Step

LEMMA NextType == TypeInv /\ [Next]_vars => TypeInv'
<1> SUFFICES ASSUME TypeInv, [Next]_vars PROVE TypeInv'
  OBVIOUS
<1>1. CASE UNCHANGED vars
  BY <1>1 DEF vars, TypeInv, TypeOK, HandlerInv
<1>2. CASE Tick
  <2>1. day' \in 0 .. MaxDay
    BY <1>2, BoundsAssumption DEF Tick, TypeInv, TypeOK
  <2>2. QED
    BY <1>2, <2>1 DEF Tick, handlerVars, TypeInv, TypeOK, HandlerInv
<1>3. ASSUME NEW t \in Tenants, NEW a \in Agents, NEW m \in Models,
             NEW effect \in Effects, SetPermission(t, a, m, effect)
      PROVE  TypeInv'
  BY <1>3 DEF SetPermission, handlerVars, TypeInv, TypeOK, HandlerInv
<1>4. ASSUME NEW r \in Requests, NEW p \in Principals, NEW m \in Models, Receive(r, p, m)
      PROVE  TypeInv'
  <2>1. [principal |-> p, model |-> m, day |-> day] \in Commands
    BY DEF TypeInv, TypeOK, Commands
  <2>2. TypeOK'
    BY <1>4, <2>1 DEF Receive, Advance, TypeInv, TypeOK, Stages, Unsettled
  <2>3. HandlerInv'
    BY <1>4, <2>1, <2>2 DEF Receive, Advance, TypeInv, TypeOK, HandlerInv
  <2>4. QED
    BY <2>2, <2>3 DEF TypeInv
<1>5. ASSUME NEW r \in Requests, Step(r) PROVE TypeInv'
  BY <1>5, StepType
<1>6. ASSUME NEW r \in Requests, Abort(r) PROVE TypeInv'
  <2>1. TypeOK'
    BY <1>6 DEF Abort, TypeInv, TypeOK, Stages
  <2>2. HandlerInv'
    BY <1>6, <2>1 DEF Abort, TypeInv, TypeOK, HandlerInv, Unsettled
  <2>3. QED
    BY <2>1, <2>2 DEF TypeInv
<1>7. QED
  BY <1>1, <1>2, <1>3, <1>4, <1>5, <1>6 DEF Next

\* Every reachable state is well-typed: handlers, tables and clock, for any
\* set of requests, settings, prices and budgets.
THEOREM TypeCorrect == Spec => []TypeOK
<1>1. TypeInv => TypeOK
  BY DEF TypeInv
<1>2. QED
  BY <1>1, InitType, NextType, PTL DEF Spec

-----------------------------------------------------------------------------
(***************************************************************************)
(* Default deny.  DecisionInv strengthens AllowRestsOnPermission and       *)
(* OutcomesMatchDecisions with what holds on the way: a decision is        *)
(* committed once, between "deciding" and the stages after it, from a      *)
(* permission row that was there when it was read and is never deleted.    *)
(***************************************************************************)
DecisionInvOf(r) ==
  /\ stage[r] = "deciding" /\ permission[r] # NoPermission =>
       permissions[Key(r)] # NoPermission
  /\ stage[r] \in {"idle", "admitting", "evaluating", "deciding"} =>
       decisions[r].effect \notin Effects
  /\ decisions[r].effect = "allow" =>
       decisions[r].explicit /\ permissions[Key(r)] # NoPermission
  /\ stage[r] \in {"metering", "budgeting", "calling"} => decisions[r].effect = "allow"
  /\ stage[r] = "persisting" =>
       IF draft[r].status = "denied"
       THEN decisions[r].effect = "deny"
       ELSE decisions[r].effect = "allow"
  /\ invocations[r] # NoRow =>
       IF invocations[r].status = "denied"
       THEN decisions[r].effect = "deny"
       ELSE decisions[r].effect = "allow"

DecisionInv == \A r \in Requests : DecisionInvOf(r)

LEMMA InitDecision == Init => DecisionInv
BY DEF Init, DecisionInv, DecisionInvOf, NoDecision, Effects

\* What a step leaves alone keeps its part of the invariant.
LEMMA DecisionFrame ==
  ASSUME TypeInv, DecisionInv, NEW q \in Requests, UNCHANGED permissions,
         stage'[q] = stage[q], decisions'[q] = decisions[q],
         command'[q] = command[q], permission'[q] = permission[q],
         invocations'[q] = invocations[q], draft'[q] = draft[q]
  PROVE  DecisionInvOf(q)'
BY DEF DecisionInv, DecisionInvOf, Key, Tenant

LEMMA DecisionStep ==
  ASSUME TypeInv, DecisionInv, NEW r \in Requests, Step(r)
  PROVE  DecisionInv'
<1> SUFFICES ASSUME NEW q \in Requests PROVE DecisionInvOf(q)'
  BY DEF DecisionInv
<1>a. DecisionInvOf(q) /\ DecisionInvOf(r)
  BY DEF DecisionInv
<1>b. TypeOK
  BY DEF TypeInv
<1> USE DEF Advance, Settle, Outcome, Refusal
<1>0. CASE q # r
  <2>1. /\ stage'[q] = stage[q] /\ decisions'[q] = decisions[q]
        /\ command'[q] = command[q] /\ permission'[q] = permission[q]
        /\ invocations'[q] = invocations[q] /\ draft'[q] = draft[q]
        /\ UNCHANGED permissions
    BY <1>0, <1>b DEF Step, TypeOK, Admit, ReadPermission, Allow, Deny, CommitDecision,
         PassUsageLimit, LimitUsage, RefuseUnbudgeted, PassBudget, LimitCost,
         ProviderAnswers, ProviderFails, Persist, PersistOverflows
  <2>2. QED
    BY <2>1, DecisionFrame
<1>1. CASE q = r
  <2> USE <1>1, <1>a, <1>b DEF DecisionInvOf, TypeOK, Key, Tenant
  <2>1. CASE Admit(r)
    BY <2>1 DEF Admit
  <2>2. CASE ReadPermission(r)
    BY <2>2 DEF ReadPermission
  <2>3. CASE Allow(r)
    BY <2>3 DEF Allow, CommitDecision, Evaluate, TypeInv, HandlerInv
  <2>4. CASE Deny(r)
    BY <2>4 DEF Deny, CommitDecision, Evaluate, TypeInv, HandlerInv
  <2>5. CASE PassUsageLimit(r)
    BY <2>5 DEF PassUsageLimit
  <2>6. CASE LimitUsage(r)
    BY <2>6 DEF LimitUsage
  <2>7. CASE RefuseUnbudgeted(r)
    BY <2>7 DEF RefuseUnbudgeted
  <2>8. CASE PassBudget(r)
    BY <2>8 DEF PassBudget
  <2>9. CASE LimitCost(r)
    BY <2>9 DEF LimitCost
  <2>10. ASSUME NEW usage \in Usages, ProviderAnswers(r, usage)
         PROVE  DecisionInvOf(q)'
    BY <2>10 DEF ProviderAnswers
  <2>11. CASE ProviderFails(r)
    BY <2>11 DEF ProviderFails
  <2>12. CASE Persist(r)
    BY <2>12 DEF Persist
  <2>13. CASE PersistOverflows(r)
    BY <2>13 DEF PersistOverflows
  <2>14. QED
    BY <2>1, <2>2, <2>3, <2>4, <2>5, <2>6, <2>7, <2>8, <2>9, <2>10, <2>11, <2>12, <2>13 DEF Step
<1>2. QED
  BY <1>0, <1>1

LEMMA NextDecision == TypeInv /\ DecisionInv /\ [Next]_vars => DecisionInv'
<1> SUFFICES ASSUME TypeInv, DecisionInv, [Next]_vars, NEW q \in Requests
             PROVE  DecisionInvOf(q)'
  BY DEF DecisionInv
<1>a. DecisionInvOf(q)
  BY DEF DecisionInv
<1>1. CASE UNCHANGED vars
  BY <1>1, DecisionFrame DEF vars
<1>2. CASE Tick
  BY <1>2, DecisionFrame DEF Tick, handlerVars
<1>3. ASSUME NEW t \in Tenants, NEW a \in Agents, NEW m \in Models,
             NEW effect \in Effects, SetPermission(t, a, m, effect)
      PROVE  DecisionInvOf(q)'
  <2>1. permissions[Key(q)] # NoPermission => permissions'[Key(q)] # NoPermission
    BY <1>3, NullAssumption DEF SetPermission, TypeInv, TypeOK, Effects
  <2>2. QED
    BY <1>3, <1>a, <2>1 DEF SetPermission, handlerVars, DecisionInvOf, Key, Tenant
<1>4. ASSUME NEW r \in Requests, NEW p \in Principals, NEW m \in Models, Receive(r, p, m)
      PROVE  DecisionInvOf(q)'
  <2>1. CASE q = r
    BY <1>4, <1>a, <2>1 DEF Receive, Advance, DecisionInvOf, Effects, TypeInv, TypeOK, HandlerInv
  <2>2. CASE q # r
    BY <1>4, <2>2, DecisionFrame DEF Receive, Advance, TypeInv, TypeOK
  <2>3. QED
    BY <2>1, <2>2
<1>5. ASSUME NEW r \in Requests, Step(r) PROVE DecisionInvOf(q)'
  BY <1>5, DecisionStep DEF DecisionInv
<1>6. ASSUME NEW r \in Requests, Abort(r) PROVE DecisionInvOf(q)'
  <2>1. CASE q = r
    BY <1>6, <1>a, <2>1 DEF Abort, DecisionInvOf, Key, Tenant, TypeInv, TypeOK, HandlerInv
  <2>2. CASE q # r
    BY <1>6, <2>2, DecisionFrame DEF Abort, TypeInv, TypeOK
  <2>3. QED
    BY <2>1, <2>2
<1>7. QED
  BY <1>1, <1>2, <1>3, <1>4, <1>5, <1>6 DEF Next

LEMMA DecisionAlways == Spec => [](TypeInv /\ DecisionInv)
BY InitType, InitDecision, NextType, NextDecision, PTL DEF Spec

\* Default deny holds whatever permissions are written while requests run:
\* every ALLOW decision rests on a permission row of the request's own key.
THEOREM DefaultDeny == Spec => []AllowRestsOnPermission
<1>1. DecisionInv => AllowRestsOnPermission
  BY DEF DecisionInv, DecisionInvOf, AllowRestsOnPermission
<1>2. QED
  BY <1>1, DecisionAlways, PTL

\* No provider call and no recorded outcome precedes the matching decision.
THEOREM DecisionBeforeOutcome == Spec => []OutcomesMatchDecisions
<1>1. DecisionInv => OutcomesMatchDecisions
  BY DEF DecisionInv, DecisionInvOf, OutcomesMatchDecisions
<1>2. QED
  BY <1>1, DecisionAlways, PTL

-----------------------------------------------------------------------------
(***************************************************************************)
(* The overshoot bounds.  A ledger total is not inductively bounded by     *)
(* itself: the invariant counts, on top of it, the largest answer of every *)
(* request that passed the check and has not been recorded.  Recording one *)
(* moves its units from the second term to the first; passing the check    *)
(* needs a total that leaves room for the allowance, and at most           *)
(* MaxInFlight requests are in flight.                                     *)
(***************************************************************************)
FlightInv == Cardinality(InFlight) <= MaxInFlight

UsageInv ==
  \A p \in Principals, d \in 0 .. MaxDay :
    ConsumedUnits(p, d) + Cardinality(OwedUnits(p, d)) * MaxUnits
      <= Settings[p].limit - Settings[p].allowance + MaxInFlight * MaxUnits

CostInv ==
  \A t \in DOMAIN Budgets, d \in 0 .. MaxDay :
    AttributedTenantCost(t, d) + Cardinality(OwedCost(t, d)) * MaxCost
      <= Budgets[t].limit - Budgets[t].allowance + MaxInFlight * MaxCost

LEMMA BoundsType == MaxUnits \in Nat /\ MaxCost \in Nat /\ MaxInFlight \in Nat
BY BoundsAssumption

LEMMA ScaleMonotone ==
  ASSUME NEW a \in Nat, NEW b \in Nat, NEW m \in Nat, a <= b
  PROVE  a * m <= b * m /\ a * m \in Nat /\ (a + 1) * m = a * m + m
<1>1. PICK c \in Nat : b = a + c
  <2>1. b - a \in Nat /\ b = a + (b - a)
    OBVIOUS
  <2>2. QED
    BY <2>1
<1>2. b * m = a * m + c * m
  BY <1>1
<1>3. c * m \in Nat /\ a * m \in Nat
  OBVIOUS
<1>4. QED
  BY <1>2, <1>3

LEMMA FlightFinite == IsFiniteSet(InFlight) /\ Cardinality(InFlight) \in Nat
<1>1. InFlight \in SUBSET Requests
  BY DEF InFlight
<1>2. QED
  BY <1>1, FS_Subset, FS_CardinalityType, BoundsAssumption

LEMMA NextFlight == TypeInv /\ FlightInv /\ [Next]_vars => FlightInv'
<1> SUFFICES ASSUME TypeInv, FlightInv, [Next]_vars PROVE FlightInv'
  OBVIOUS
<1>1. CASE \E r \in Requests, p \in Principals, m \in Models : Receive(r, p, m)
  <2>1. PICK r \in Requests, p \in Principals, m \in Models : Receive(r, p, m)
    BY <1>1
  <2>2. InFlight' = InFlight \cup {r} /\ r \notin InFlight
    BY <2>1 DEF Receive, Advance, InFlight, Unsettled, TypeInv, TypeOK
  <2>3. Cardinality(InFlight \cup {r}) = Cardinality(InFlight) + 1
    BY <2>2, FlightFinite, FS_AddElement
  <2>4. Cardinality(InFlight) < MaxInFlight
    BY <2>1 DEF Receive
  <2>5. QED
    BY <2>2, <2>3, <2>4, FlightFinite, BoundsType DEF FlightInv
<1>2. CASE ~ \E r \in Requests, p \in Principals, m \in Models : Receive(r, p, m)
  <2>1. InFlight' \in SUBSET InFlight
    <3>1. CASE UNCHANGED stage
      BY <3>1 DEF InFlight
    <3>2. ASSUME NEW r \in Requests, Step(r) PROVE InFlight' \in SUBSET InFlight
      <4>1. stage[r] \in Unsettled /\ \A q \in Requests \ {r} : stage'[q] = stage[q]
        BY <3>2 DEF TypeInv, TypeOK, Step, Advance, Settle, Unsettled, Admit,
             ReadPermission, Allow, Deny, PassUsageLimit, LimitUsage, RefuseUnbudgeted,
             PassBudget, LimitCost, ProviderAnswers, ProviderFails, Persist, PersistOverflows
      <4>2. QED
        BY <4>1 DEF InFlight
    <3>3. ASSUME NEW r \in Requests, Abort(r) PROVE InFlight' \in SUBSET InFlight
      BY <3>3 DEF Abort, InFlight, TypeInv, TypeOK
    <3>4. QED
      BY <1>2, <3>1, <3>2, <3>3 DEF Next, vars, Tick, SetPermission, handlerVars
  <2>2. QED
    BY <2>1, FlightFinite, FS_Subset, FS_CardinalityType, BoundsType DEF FlightInv
<1>3. QED
  BY <1>1, <1>2

LEMMA OwedFinite ==
  ASSUME FlightInv, NEW x, NEW d
  PROVE  /\ IsFiniteSet(OwedUnits(x, d)) /\ Cardinality(OwedUnits(x, d)) \in 0 .. MaxInFlight
         /\ IsFiniteSet(OwedCost(x, d)) /\ Cardinality(OwedCost(x, d)) \in 0 .. MaxInFlight
<1>1. OwedUnits(x, d) \in SUBSET InFlight /\ OwedCost(x, d) \in SUBSET InFlight
  BY DEF OwedUnits, OwedCost, Owes, InFlight, Unsettled
<1>2. QED
  BY <1>1, FlightFinite, FS_Subset, FS_CardinalityType, BoundsType DEF FlightInv

(***************************************************************************)
(* How the ledgers change: only Persist writes one, it adds a row, and the *)
(* row adds at most the units of one answer, and none unless it succeeded. *)
(***************************************************************************)
LEMMA LedgerFrame ==
  ASSUME UNCHANGED invocations, NEW x, NEW d
  PROVE  /\ UnitLedger(x, d)' = UnitLedger(x, d) /\ ConsumedUnits(x, d)' = ConsumedUnits(x, d)
         /\ CostLedger(x, d)' = CostLedger(x, d)
         /\ AttributedTenantCost(x, d)' = AttributedTenantCost(x, d)
BY DEF UnitLedger, CostLedger, ConsumedUnits, AttributedTenantCost

LEMMA StepKeepsLedger ==
  ASSUME NEW r \in Requests, Step(r), ~Persist(r)
  PROVE  UNCHANGED invocations
BY DEF Step, Admit, ReadPermission, Allow, Deny, CommitDecision, PassUsageLimit, LimitUsage,
   RefuseUnbudgeted, PassBudget, LimitCost, ProviderAnswers, ProviderFails, PersistOverflows

LEMMA TokensFinite ==
  ASSUME NEW r, NEW n \in Nat
  PROVE  IsFiniteSet({r} \X (1 .. n)) /\ Cardinality({r} \X (1 .. n)) = n
<1>1. IsFiniteSet({r}) /\ Cardinality({r}) = 1
  BY FS_Singleton
<1>2. IsFiniteSet(1 .. n) /\ Cardinality(1 .. n) = n
  BY FS_Interval
<1>3. /\ IsFiniteSet({r} \X (1 .. n))
      /\ Cardinality({r} \X (1 .. n)) = Cardinality({r}) * Cardinality(1 .. n)
  BY <1>1, <1>2, FS_Product
<1>4. QED
  BY <1>1, <1>2, <1>3

LEMMA UnionBound ==
  ASSUME NEW S, NEW T, NEW U, IsFiniteSet(S), IsFiniteSet(T), U \subseteq S \cup T
  PROVE  IsFiniteSet(U) /\ Cardinality(U) <= Cardinality(S) + Cardinality(T)
<1>1. /\ IsFiniteSet(S \cup T)
      /\ Cardinality(S \cup T) = Cardinality(S) + Cardinality(T) - Cardinality(S \cap T)
  BY FS_Union
<1>2. IsFiniteSet(S \cap T)
  BY FS_Intersection
<1>3. /\ Cardinality(S) \in Nat /\ Cardinality(T) \in Nat
      /\ Cardinality(S \cap T) \in Nat
  BY <1>2, FS_CardinalityType
<1>4. IsFiniteSet(U) /\ Cardinality(U) <= Cardinality(S \cup T) /\ Cardinality(U) \in Nat
  BY <1>1, FS_Subset, FS_CardinalityType
<1>5. QED
  BY <1>1, <1>3, <1>4

LEMMA PersistLedgers ==
  ASSUME TypeInv, NEW r \in Requests, Persist(r), NEW x, NEW d
  PROVE  /\ UnitLedger(x, d) \subseteq UnitLedger(x, d)'
         /\ CostLedger(x, d) \subseteq CostLedger(x, d)'
         /\ ConsumedUnits(x, d)' <=
              IF r \in OwedUnits(x, d) THEN ConsumedUnits(x, d) + MaxUnits
                                       ELSE ConsumedUnits(x, d)
         /\ AttributedTenantCost(x, d)' <=
              IF r \in OwedCost(x, d) THEN AttributedTenantCost(x, d) + MaxCost
                                      ELSE AttributedTenantCost(x, d)
<1>1. /\ stage[r] = "persisting" /\ invocations[r] = NoRow /\ draft[r] \in Rows
      /\ draft[r].principal = command[r].principal /\ draft[r].day = command[r].day
      /\ draft[r].status # "succeeded" => draft[r].usage = NoUsage /\ draft[r].cost = Unknown
      /\ draft[r] # NoRow
      /\ invocations' = [invocations EXCEPT ![r] = draft[r]]
      /\ invocations \in [Requests -> Rows \cup {NoRow}]
  BY NoRowAssumption DEF Persist, Advance, TypeInv, TypeOK, HandlerInv
<1>2. UnitLedger(x, d) \subseteq UnitLedger(x, d)'
  BY <1>1 DEF UnitLedger
<1>3. CostLedger(x, d) \subseteq CostLedger(x, d)'
  BY <1>1 DEF CostLedger
<1>4. IF r \in OwedUnits(x, d)
      THEN UnitLedger(x, d)' \subseteq UnitLedger(x, d) \cup ({r} \X (1 .. MaxUnits))
      ELSE UnitLedger(x, d)' \subseteq UnitLedger(x, d)
  <2>1. UnitsOf(NoUsage) = {}
    BY DEF UnitsOf, NoUsage
  <2>2. CASE draft[r].status = "succeeded"
    BY <1>1, <2>2 DEF UnitLedger, OwedUnits, Owes
  <2>3. CASE draft[r].status # "succeeded"
    BY <1>1, <2>1, <2>3 DEF UnitLedger, OwedUnits, Owes
  <2>4. QED
    BY <2>2, <2>3
<1>5. IF r \in OwedCost(x, d)
      THEN CostLedger(x, d)' \subseteq CostLedger(x, d) \cup ({r} \X (1 .. MaxCost))
      ELSE CostLedger(x, d)' \subseteq CostLedger(x, d)
  <2>1. QuantaOf(Unknown) = {}
    BY DEF QuantaOf
  <2>2. CASE draft[r].status = "succeeded"
    BY <1>1, <2>2 DEF CostLedger, OwedCost, Owes, Tenant
  <2>3. CASE draft[r].status # "succeeded"
    BY <1>1, <2>1, <2>3 DEF CostLedger, OwedCost, Owes, Tenant
  <2>4. QED
    BY <2>2, <2>3
<1>6. ConsumedUnits(x, d)' <=
        IF r \in OwedUnits(x, d) THEN ConsumedUnits(x, d) + MaxUnits ELSE ConsumedUnits(x, d)
  <2>1. IsFiniteSet(UnitLedger(x, d)) /\ IsFiniteSet({r} \X (1 .. MaxUnits))
    BY LedgerType, TokensFinite, BoundsType
  <2>2. CASE r \in OwedUnits(x, d)
    BY <1>4, <2>1, <2>2, UnionBound, TokensFinite, BoundsType DEF ConsumedUnits
  <2>3. CASE r \notin OwedUnits(x, d)
    BY <1>4, <2>1, <2>3, FS_Subset DEF ConsumedUnits
  <2>4. QED
    BY <2>2, <2>3
<1>7. AttributedTenantCost(x, d)' <=
        IF r \in OwedCost(x, d) THEN AttributedTenantCost(x, d) + MaxCost
                                ELSE AttributedTenantCost(x, d)
  <2>1. IsFiniteSet(CostLedger(x, d)) /\ IsFiniteSet({r} \X (1 .. MaxCost))
    BY LedgerType, TokensFinite, BoundsType
  <2>2. CASE r \in OwedCost(x, d)
    BY <1>5, <2>1, <2>2, UnionBound, TokensFinite, BoundsType DEF AttributedTenantCost
  <2>3. CASE r \notin OwedCost(x, d)
    BY <1>5, <2>1, <2>3, FS_Subset DEF AttributedTenantCost
  <2>4. QED
    BY <2>2, <2>3
<1>8. QED
  BY <1>2, <1>3, <1>6, <1>7

(***************************************************************************)
(* Who owes: only passing the check makes a request owe, and recording it  *)
(* ends the debt.                                                          *)
(***************************************************************************)
LEMMA OwedShrinks ==
  ASSUME TypeInv, [Next]_vars, NEW x, NEW d
  PROVE  /\ (\A r \in Requests : ~PassUsageLimit(r)) => OwedUnits(x, d)' \subseteq OwedUnits(x, d)
         /\ (\A r \in Requests : ~PassBudget(r)) => OwedCost(x, d)' \subseteq OwedCost(x, d)
         /\ \A r \in Requests : Persist(r) =>
              r \notin OwedUnits(x, d)' /\ r \notin OwedCost(x, d)'
<1> USE DEF OwedUnits, OwedCost, Owes, Tenant, Advance, Settle, Outcome, Refusal, TypeInv, TypeOK
<1>1. CASE UNCHANGED vars
  BY <1>1 DEF vars, Persist
<1>2. CASE Tick
  BY <1>2 DEF Tick, handlerVars, Persist
<1>3. ASSUME NEW t \in Tenants, NEW a \in Agents, NEW m \in Models,
             NEW effect \in Effects, SetPermission(t, a, m, effect)
      PROVE  /\ OwedUnits(x, d)' = OwedUnits(x, d) /\ OwedCost(x, d)' = OwedCost(x, d)
             /\ \A r \in Requests : ~Persist(r)
  BY <1>3 DEF SetPermission, handlerVars, Persist
<1>4. ASSUME NEW q \in Requests, NEW p \in Principals, NEW m \in Models, Receive(q, p, m)
      PROVE  /\ OwedUnits(x, d)' \subseteq OwedUnits(x, d)
             /\ OwedCost(x, d)' \subseteq OwedCost(x, d)
             /\ \A r \in Requests : ~Persist(r)
  BY <1>4 DEF Receive, Persist
<1>5. ASSUME NEW q \in Requests, Abort(q)
      PROVE  /\ OwedUnits(x, d)' \subseteq OwedUnits(x, d)
             /\ OwedCost(x, d)' \subseteq OwedCost(x, d)
             /\ \A r \in Requests : ~Persist(r)
  BY <1>5 DEF Abort, Persist, Unsettled
<1>6. ASSUME NEW q \in Requests, Step(q)
      PROVE  /\ ~PassUsageLimit(q) => OwedUnits(x, d)' \subseteq OwedUnits(x, d)
             /\ ~PassBudget(q) => OwedCost(x, d)' \subseteq OwedCost(x, d)
             /\ \A r \in Requests : Persist(r) =>
                  r \notin OwedUnits(x, d)' /\ r \notin OwedCost(x, d)'
  <2>1. CASE Admit(q) \/ ReadPermission(q)
    BY <2>1 DEF Admit, ReadPermission, Persist
  <2>2. CASE Allow(q) \/ Deny(q)
    BY <2>2 DEF Allow, Deny, CommitDecision, Persist
  <2>3. CASE PassUsageLimit(q) \/ LimitUsage(q)
    BY <2>3 DEF PassUsageLimit, LimitUsage, Persist
  <2>4. CASE RefuseUnbudgeted(q) \/ PassBudget(q) \/ LimitCost(q)
    <3>1. CASE RefuseUnbudgeted(q)
      BY <3>1 DEF RefuseUnbudgeted, Persist
    <3>2. CASE PassBudget(q)
      BY <3>2 DEF PassBudget, Persist
    <3>3. CASE LimitCost(q)
      BY <3>3 DEF LimitCost, Persist
    <3>4. QED
      BY <2>4, <3>1, <3>2, <3>3
  <2>5. ASSUME NEW usage \in Usages, ProviderAnswers(q, usage)
        PROVE  /\ OwedUnits(x, d)' \subseteq OwedUnits(x, d)
               /\ OwedCost(x, d)' \subseteq OwedCost(x, d)
               /\ \A r \in Requests : ~Persist(r)
    BY <2>5 DEF ProviderAnswers, Persist
  <2>6. CASE ProviderFails(q)
    BY <2>6 DEF ProviderFails, Persist
  <2>7. CASE Persist(q)
    BY <2>7 DEF Persist
  <2>8. CASE PersistOverflows(q)
    BY <2>8 DEF PersistOverflows, Persist
  <2>9. QED
    BY <1>6, <2>1, <2>2, <2>3, <2>4, <2>5, <2>6, <2>7, <2>8 DEF Step
<1>7. QED
  BY <1>1, <1>2, <1>3, <1>4, <1>5, <1>6 DEF Next

LEMMA LedgerChange ==
  ASSUME TypeInv, [Next]_vars
  PROVE  UNCHANGED invocations \/ \E r \in Requests : Persist(r)
BY StepKeepsLedger DEF Next, vars, Tick, SetPermission, handlerVars, Receive, Abort

LEMMA PersistExcludesChecks ==
  ASSUME TypeInv, NEW r \in Requests, Persist(r)
  PROVE  \A q \in Requests : ~PassUsageLimit(q) /\ ~PassBudget(q)
BY DEF TypeInv, TypeOK, Persist, PassUsageLimit, PassBudget, Advance

\* The arithmetic of the two bounds: `total` is a ledger's total, `owing` the
\* number of requests that still owe to it, `most` the largest answer.
LEMMA BoundArithmetic ==
  ASSUME NEW total \in Nat, NEW total1 \in Nat, NEW owing \in Nat, NEW owing1 \in Nat,
         NEW most \in Nat, NEW flight \in Nat, NEW room \in Int,
         total + owing * most <= room + flight * most,
         \/ total1 <= total /\ owing1 <= owing
         \/ total1 <= total + most /\ owing1 + 1 <= owing
         \/ total1 <= room /\ owing1 <= flight
  PROVE  total1 + owing1 * most <= room + flight * most
<1>1. CASE total1 <= total /\ owing1 <= owing
  BY <1>1, ScaleMonotone
<1>2. CASE total1 <= total + most /\ owing1 + 1 <= owing
  <2>1. owing1 + 1 \in Nat /\ (owing1 + 1) * most <= owing * most
    BY <1>2, ScaleMonotone
  <2>2. (owing1 + 1) * most = owing1 * most + most /\ owing1 * most \in Nat
    BY <1>2, ScaleMonotone
  <2>3. owing * most \in Nat /\ flight * most \in Nat
    OBVIOUS
  <2>4. QED
    BY <1>2, <2>1, <2>2, <2>3
<1>3. CASE total1 <= room /\ owing1 <= flight
  BY <1>3, ScaleMonotone
<1>4. QED
  BY <1>1, <1>2, <1>3

LEMMA RemovalCount ==
  ASSUME NEW S, NEW T, NEW r, IsFiniteSet(S), T \subseteq S, r \in S, r \notin T
  PROVE  Cardinality(T) + 1 <= Cardinality(S)
<1>1. T \in SUBSET (S \ {r})
  OBVIOUS
<1>2. IsFiniteSet(S \ {r}) /\ Cardinality(S \ {r}) = Cardinality(S) - 1
  BY FS_RemoveElement
<1>3. Cardinality(T) <= Cardinality(S \ {r}) /\ IsFiniteSet(T)
  BY <1>1, <1>2, FS_Subset
<1>4. Cardinality(T) \in Nat /\ Cardinality(S) \in Nat
  BY <1>3, FS_CardinalityType
<1>5. QED
  BY <1>2, <1>3, <1>4

LEMMA NextLedgersFinite ==
  ASSUME NEW x, NEW d
  PROVE  IsFiniteSet(UnitLedger(x, d)') /\ IsFiniteSet(CostLedger(x, d)')
<1>1. IsFiniteSet(1 .. MaxUnits) /\ IsFiniteSet(1 .. MaxCost)
  <2>1. MaxUnits \in Int /\ MaxCost \in Int /\ 1 \in Int
    BY BoundsAssumption
  <2>2. QED
    BY <2>1, FS_Interval
<1>2. /\ IsFiniteSet(Requests \X (1 .. MaxUnits))
      /\ IsFiniteSet(Requests \X (1 .. MaxCost))
  BY <1>1, FS_Product, BoundsAssumption
<1>3. /\ UnitLedger(x, d)' \in SUBSET (Requests \X (1 .. MaxUnits))
      /\ CostLedger(x, d)' \in SUBSET (Requests \X (1 .. MaxCost))
  BY DEF UnitLedger, CostLedger
<1>4. QED
  BY <1>2, <1>3, FS_Subset

\* The counts of the next state are counts as well.
LEMMA NextCounts ==
  ASSUME FlightInv', NEW x, NEW d
  PROVE  /\ ConsumedUnits(x, d)' \in Nat /\ AttributedTenantCost(x, d)' \in Nat
         /\ Cardinality(OwedUnits(x, d)') \in 0 .. MaxInFlight
         /\ Cardinality(OwedCost(x, d)') \in 0 .. MaxInFlight
<1>1. ConsumedUnits(x, d)' \in Nat /\ AttributedTenantCost(x, d)' \in Nat
  BY NextLedgersFinite, FS_CardinalityType DEF ConsumedUnits, AttributedTenantCost
<1>2. OwedUnits(x, d)' \in SUBSET InFlight' /\ OwedCost(x, d)' \in SUBSET InFlight'
  BY DEF OwedUnits, OwedCost, Owes, InFlight, Unsettled
<1>3. IsFiniteSet(InFlight')
  BY FS_Subset, BoundsAssumption DEF InFlight
<1>4. /\ Cardinality(OwedUnits(x, d)') \in 0 .. MaxInFlight
      /\ Cardinality(OwedCost(x, d)') \in 0 .. MaxInFlight
  BY <1>2, <1>3, FS_Subset, FS_CardinalityType, BoundsType DEF FlightInv
<1>5. QED
  BY <1>1, <1>4

LEMMA NextUsage == TypeInv /\ FlightInv /\ FlightInv' /\ UsageInv /\ [Next]_vars => UsageInv'
<1> SUFFICES ASSUME TypeInv, FlightInv, FlightInv', UsageInv, [Next]_vars,
                    NEW p \in Principals, NEW d \in 0 .. MaxDay
             PROVE  ConsumedUnits(p, d)' + Cardinality(OwedUnits(p, d)') * MaxUnits
                      <= Settings[p].limit - Settings[p].allowance + MaxInFlight * MaxUnits
  BY DEF UsageInv
<1> DEFINE room == Settings[p].limit - Settings[p].allowance
<1>1. /\ ConsumedUnits(p, d) + Cardinality(OwedUnits(p, d)) * MaxUnits
           <= room + MaxInFlight * MaxUnits
      /\ room \in Int
  BY SettingsAssumption DEF UsageInv
<1>2. ConsumedUnits(p, d) \in Nat /\ ConsumedUnits(p, d)' \in Nat
  BY LedgerType, NextCounts
<1>3. /\ IsFiniteSet(OwedUnits(p, d))
      /\ Cardinality(OwedUnits(p, d)) \in Nat
      /\ Cardinality(OwedUnits(p, d)') \in Nat /\ Cardinality(OwedUnits(p, d)') <= MaxInFlight
  BY OwedFinite, NextCounts, BoundsType
<1>4. CASE \E r \in Requests : Persist(r)
  <2>1. PICK r \in Requests : Persist(r)
    BY <1>4
  <2>2. OwedUnits(p, d)' \subseteq OwedUnits(p, d) /\ r \notin OwedUnits(p, d)'
    BY <2>1, PersistExcludesChecks, OwedShrinks
  <2>3. CASE r \in OwedUnits(p, d)
    <3>1. Cardinality(OwedUnits(p, d)') + 1 <= Cardinality(OwedUnits(p, d))
      BY <1>3, <2>2, <2>3, RemovalCount
    <3>2. ConsumedUnits(p, d)' <= ConsumedUnits(p, d) + MaxUnits
      BY <2>1, <2>3, PersistLedgers
    <3>3. QED
      BY <1>1, <1>2, <1>3, <3>1, <3>2, BoundsType, BoundArithmetic
  <2>4. CASE r \notin OwedUnits(p, d)
    <3>1. Cardinality(OwedUnits(p, d)') <= Cardinality(OwedUnits(p, d))
      BY <1>3, <2>2, FS_Subset
    <3>2. ConsumedUnits(p, d)' <= ConsumedUnits(p, d)
      BY <2>1, <2>4, PersistLedgers
    <3>3. QED
      BY <1>1, <1>2, <1>3, <3>1, <3>2, BoundsType, BoundArithmetic
  <2>5. QED
    BY <2>3, <2>4
<1>5. CASE UNCHANGED invocations
  <2>1. ConsumedUnits(p, d)' = ConsumedUnits(p, d)
    BY <1>5, LedgerFrame
  <2>2. CASE OwedUnits(p, d)' \subseteq OwedUnits(p, d)
    <3>1. Cardinality(OwedUnits(p, d)') <= Cardinality(OwedUnits(p, d))
      BY <1>3, <2>2, FS_Subset
    <3>2. QED
      BY <1>1, <1>2, <1>3, <2>1, <3>1, BoundsType, BoundArithmetic
  <2>3. CASE ~(OwedUnits(p, d)' \subseteq OwedUnits(p, d))
    <3>1. PICK r \in Requests : PassUsageLimit(r)
      BY <2>3, OwedShrinks
    <3>2. command[r].principal = p /\ command[r].day = d
      BY <2>3, <3>1 DEF PassUsageLimit, Advance, OwedUnits, Owes, TypeInv, TypeOK
    <3>3. ConsumedUnits(p, d) <= room
      BY <3>1, <3>2, <1>2, SettingsAssumption DEF PassUsageLimit, Fits, Consumption
    <3>4. QED
      BY <1>1, <1>2, <1>3, <2>1, <3>3, BoundsType, BoundArithmetic
  <2>4. QED
    BY <2>2, <2>3
<1>6. QED
  BY <1>4, <1>5, LedgerChange

LEMMA NextCost == TypeInv /\ FlightInv /\ FlightInv' /\ CostInv /\ [Next]_vars => CostInv'
<1> SUFFICES ASSUME TypeInv, FlightInv, FlightInv', CostInv, [Next]_vars,
                    NEW t \in DOMAIN Budgets, NEW d \in 0 .. MaxDay
             PROVE  AttributedTenantCost(t, d)' + Cardinality(OwedCost(t, d)') * MaxCost
                      <= Budgets[t].limit - Budgets[t].allowance + MaxInFlight * MaxCost
  BY DEF CostInv
<1> DEFINE room == Budgets[t].limit - Budgets[t].allowance
<1>1. /\ AttributedTenantCost(t, d) + Cardinality(OwedCost(t, d)) * MaxCost
           <= room + MaxInFlight * MaxCost
      /\ room \in Int
  BY BudgetAssumption DEF CostInv
<1>2. AttributedTenantCost(t, d) \in Nat /\ AttributedTenantCost(t, d)' \in Nat
  BY LedgerType, NextCounts
<1>3. /\ IsFiniteSet(OwedCost(t, d))
      /\ Cardinality(OwedCost(t, d)) \in Nat
      /\ Cardinality(OwedCost(t, d)') \in Nat /\ Cardinality(OwedCost(t, d)') <= MaxInFlight
  BY OwedFinite, NextCounts, BoundsType
<1>4. CASE \E r \in Requests : Persist(r)
  <2>1. PICK r \in Requests : Persist(r)
    BY <1>4
  <2>2. OwedCost(t, d)' \subseteq OwedCost(t, d) /\ r \notin OwedCost(t, d)'
    BY <2>1, PersistExcludesChecks, OwedShrinks
  <2>3. CASE r \in OwedCost(t, d)
    <3>1. Cardinality(OwedCost(t, d)') + 1 <= Cardinality(OwedCost(t, d))
      BY <1>3, <2>2, <2>3, RemovalCount
    <3>2. AttributedTenantCost(t, d)' <= AttributedTenantCost(t, d) + MaxCost
      BY <2>1, <2>3, PersistLedgers
    <3>3. QED
      BY <1>1, <1>2, <1>3, <3>1, <3>2, BoundsType, BoundArithmetic
  <2>4. CASE r \notin OwedCost(t, d)
    <3>1. Cardinality(OwedCost(t, d)') <= Cardinality(OwedCost(t, d))
      BY <1>3, <2>2, FS_Subset
    <3>2. AttributedTenantCost(t, d)' <= AttributedTenantCost(t, d)
      BY <2>1, <2>4, PersistLedgers
    <3>3. QED
      BY <1>1, <1>2, <1>3, <3>1, <3>2, BoundsType, BoundArithmetic
  <2>5. QED
    BY <2>3, <2>4
<1>5. CASE UNCHANGED invocations
  <2>1. AttributedTenantCost(t, d)' = AttributedTenantCost(t, d)
    BY <1>5, LedgerFrame
  <2>2. CASE OwedCost(t, d)' \subseteq OwedCost(t, d)
    <3>1. Cardinality(OwedCost(t, d)') <= Cardinality(OwedCost(t, d))
      BY <1>3, <2>2, FS_Subset
    <3>2. QED
      BY <1>1, <1>2, <1>3, <2>1, <3>1, BoundsType, BoundArithmetic
  <2>3. CASE ~(OwedCost(t, d)' \subseteq OwedCost(t, d))
    <3>1. PICK r \in Requests : PassBudget(r)
      BY <2>3, OwedShrinks
    <3>2. Tenant(r) = t /\ command[r].day = d
      BY <2>3, <3>1 DEF PassBudget, Advance, OwedCost, Owes, Tenant, TypeInv, TypeOK
    <3>3. AttributedTenantCost(t, d) <= room
      BY <3>1, <3>2, <1>2, BudgetAssumption DEF PassBudget, Fits, TenantCost
    <3>4. QED
      BY <1>1, <1>2, <1>3, <2>1, <3>3, BoundsType, BoundArithmetic
  <2>4. QED
    BY <2>2, <2>3
<1>6. QED
  BY <1>4, <1>5, LedgerChange

-----------------------------------------------------------------------------
LEMMA InitBounds == Init => FlightInv /\ UsageInv /\ CostInv
<1> SUFFICES ASSUME Init PROVE FlightInv /\ UsageInv /\ CostInv
  OBVIOUS
<1>1. InFlight = {}
  BY DEF Init, InFlight, Unsettled
<1>2. \A x, d : UnitLedger(x, d) = {} /\ CostLedger(x, d) = {}
  BY DEF Init, UnitLedger, CostLedger
<1>3. \A x, d : OwedUnits(x, d) = {} /\ OwedCost(x, d) = {}
  BY DEF Init, OwedUnits, OwedCost, Owes
<1>4. Cardinality({}) = 0
  BY FS_EmptySet
<1>5. MaxInFlight * MaxUnits \in Nat /\ MaxInFlight * MaxCost \in Nat
  BY BoundsType, ScaleMonotone
<1>6. FlightInv
  BY <1>1, <1>4, BoundsType DEF FlightInv
<1>7. UsageInv
  <2>1. ASSUME NEW p \in Principals, NEW d \in 0 .. MaxDay
        PROVE  ConsumedUnits(p, d) = 0 /\ Cardinality(OwedUnits(p, d)) * MaxUnits = 0
    <3>1. Cardinality(OwedUnits(p, d)) = 0
      BY <1>3, <1>4
    <3>2. QED
      BY <3>1, <1>2, <1>4, BoundsType DEF ConsumedUnits
  <2>2. QED
    BY <2>1, <1>5, SettingsAssumption DEF UsageInv
<1>8. CostInv
  <2>1. ASSUME NEW t \in DOMAIN Budgets, NEW d \in 0 .. MaxDay
        PROVE  AttributedTenantCost(t, d) = 0 /\ Cardinality(OwedCost(t, d)) * MaxCost = 0
    <3>1. Cardinality(OwedCost(t, d)) = 0
      BY <1>3, <1>4
    <3>2. QED
      BY <3>1, <1>2, <1>4, BoundsType DEF AttributedTenantCost
  <2>2. QED
    BY <2>1, <1>5, BudgetAssumption DEF CostInv
<1>9. QED
  BY <1>6, <1>7, <1>8

\* The whole inductive invariant.
LEMMA Invariance == Spec => [](TypeInv /\ FlightInv /\ UsageInv /\ CostInv)
<1>1. Init => TypeInv /\ FlightInv /\ UsageInv /\ CostInv
  BY InitType, InitBounds
<1>2. TypeInv /\ FlightInv /\ UsageInv /\ CostInv /\ [Next]_vars
        => (TypeInv /\ FlightInv /\ UsageInv /\ CostInv)'
  BY NextType, NextFlight, NextUsage, NextCost
<1>3. QED
  BY <1>1, <1>2, PTL DEF Spec

\* ADR-0014: whatever happens concurrently, a principal's known units of a day
\* exceed its limit by at most the answers in flight less one allowance.
THEOREM UsageOvershoot == Spec => []UsageOvershootBounded
<1>1. TypeInv /\ FlightInv /\ UsageInv => UsageOvershootBounded
  <2> SUFFICES ASSUME FlightInv, UsageInv, NEW p \in Principals, NEW d \in 0 .. MaxDay
               PROVE  ConsumedUnits(p, d)
                        <= Settings[p].limit - Settings[p].allowance + MaxInFlight * MaxUnits
    BY DEF UsageOvershootBounded
  <2>1. /\ ConsumedUnits(p, d) \in Nat
        /\ Cardinality(OwedUnits(p, d)) * MaxUnits \in Nat
        /\ MaxInFlight * MaxUnits \in Nat
    BY LedgerType, OwedFinite, BoundsType, ScaleMonotone
  <2>2. QED
    BY <2>1, SettingsAssumption DEF UsageInv
<1>2. QED
  BY <1>1, Invariance, PTL

\* ADR-0017: the same for a tenant's attributed cost.
THEOREM CostOvershoot == Spec => []CostOvershootBounded
<1>1. TypeInv /\ FlightInv /\ CostInv => CostOvershootBounded
  <2> SUFFICES ASSUME FlightInv, CostInv, NEW t \in DOMAIN Budgets, NEW d \in 0 .. MaxDay
               PROVE  AttributedTenantCost(t, d)
                        <= Budgets[t].limit - Budgets[t].allowance + MaxInFlight * MaxCost
    BY DEF CostOvershootBounded
  <2>1. /\ AttributedTenantCost(t, d) \in Nat
        /\ Cardinality(OwedCost(t, d)) * MaxCost \in Nat
        /\ MaxInFlight * MaxCost \in Nat
    BY LedgerType, OwedFinite, BoundsType, ScaleMonotone
  <2>2. QED
    BY <2>1, BudgetAssumption DEF CostInv
<1>2. QED
  BY <1>1, Invariance, PTL

\* ADR-0014:31 and README.md:20: served one at a time, requests whose answers
\* stay within the configured allowances never exceed a limit or a budget.
SequentialSettings ==
  /\ MaxInFlight = 1
  /\ \A p \in Principals : MaxUnits <= Settings[p].allowance
  /\ \A t \in DOMAIN Budgets : MaxCost <= Budgets[t].allowance

THEOREM Containment ==
  ASSUME SequentialSettings
  PROVE  Spec => []SequentialContainment
<1>1. UsageOvershootBounded /\ CostOvershootBounded
        => SequentialContainment
  <2> SUFFICES ASSUME UsageOvershootBounded, CostOvershootBounded,
                      NEW d \in 0 .. MaxDay
               PROVE  /\ \A p \in Principals : ConsumedUnits(p, d) <= Settings[p].limit
                      /\ \A t \in DOMAIN Budgets :
                           AttributedTenantCost(t, d) <= Budgets[t].limit
    BY DEF SequentialContainment
  <2>1. MaxInFlight * MaxUnits = MaxUnits /\ MaxInFlight * MaxCost = MaxCost
    BY BoundsType DEF SequentialSettings
  <2>2. ASSUME NEW p \in Principals PROVE ConsumedUnits(p, d) <= Settings[p].limit
    BY <2>1, LedgerType, SettingsAssumption, BoundsType
       DEF SequentialSettings, UsageOvershootBounded
  <2>3. ASSUME NEW t \in DOMAIN Budgets PROVE AttributedTenantCost(t, d) <= Budgets[t].limit
    BY <2>1, LedgerType, BudgetAssumption, BoundsType
       DEF SequentialSettings, CostOvershootBounded
  <2>4. QED
    BY <2>2, <2>3
<1>2. QED
  BY <1>1, UsageOvershoot, CostOvershoot, PTL
-----------------------------------------------------------------------------
(***************************************************************************)
(* Refusals.  RefusalsStayJustified speaks of recorded rows only; what is  *)
(* inductive is the same of a row that is recorded or about to be: a       *)
(* refusal is built from the ledger the check read, the ledger grows       *)
(* between that read and the INSERT, and it never shrinks after it.        *)
(***************************************************************************)
Justified(row) ==
  /\ row.status = "limited" =>
       /\ row.consumed \in Nat
       /\ row.consumed <= ConsumedUnits(row.principal, row.day)
       /\ ~Fits(row.consumed, Settings[row.principal])
  /\ row.status = "cost_limited" =>
       /\ row.consumed \in Nat
       /\ row.consumed <= AttributedTenantCost(Settings[row.principal].tenant, row.day)
       /\ Settings[row.principal].tenant \in DOMAIN Budgets
       /\ ~Fits(row.consumed, Budgets[Settings[row.principal].tenant])

Holds(r, row) == invocations[r] = row \/ (stage[r] = "persisting" /\ draft[r] = row)

RefusalInv == \A r \in Requests, row \in Rows : Holds(r, row) => Justified(row)

LEMMA LedgersGrow ==
  ASSUME TypeInv, [Next]_vars, NEW x, NEW d
  PROVE  /\ ConsumedUnits(x, d) \in Nat /\ ConsumedUnits(x, d)' \in Nat
         /\ ConsumedUnits(x, d) <= ConsumedUnits(x, d)'
         /\ AttributedTenantCost(x, d) \in Nat /\ AttributedTenantCost(x, d)' \in Nat
         /\ AttributedTenantCost(x, d) <= AttributedTenantCost(x, d)'
<1>1. ConsumedUnits(x, d) \in Nat /\ AttributedTenantCost(x, d) \in Nat
  BY LedgerType
<1>2. CASE UNCHANGED invocations
  BY <1>1, <1>2, LedgerFrame
<1>3. CASE \E r \in Requests : Persist(r)
  <2>1. UnitLedger(x, d) \subseteq UnitLedger(x, d)' /\ CostLedger(x, d) \subseteq CostLedger(x, d)'
    BY <1>3, PersistLedgers
  <2>2. IsFiniteSet(UnitLedger(x, d)') /\ IsFiniteSet(CostLedger(x, d)')
    BY NextLedgersFinite
  <2>3. /\ Cardinality(UnitLedger(x, d)) <= Cardinality(UnitLedger(x, d)')
        /\ Cardinality(CostLedger(x, d)) <= Cardinality(CostLedger(x, d)')
    BY <2>1, <2>2, FS_Subset
  <2>4. Cardinality(UnitLedger(x, d)') \in Nat /\ Cardinality(CostLedger(x, d)') \in Nat
    BY <2>2, FS_CardinalityType
  <2>5. QED
    BY <1>1, <2>3, <2>4 DEF ConsumedUnits, AttributedTenantCost
<1>4. QED
  BY <1>2, <1>3, LedgerChange

LEMMA JustifiedKept ==
  ASSUME TypeInv, [Next]_vars, NEW row \in Rows, Justified(row)
  PROVE  Justified(row)'
<1> DEFINE t == Settings[row.principal].tenant
<1>1. ConsumedUnits(row.principal, row.day) <= ConsumedUnits(row.principal, row.day)'
  BY LedgersGrow
<1>2. AttributedTenantCost(t, row.day) <= AttributedTenantCost(t, row.day)'
  BY LedgersGrow
<1>3. /\ ConsumedUnits(row.principal, row.day) \in Nat
      /\ ConsumedUnits(row.principal, row.day)' \in Nat
      /\ AttributedTenantCost(t, row.day) \in Nat /\ AttributedTenantCost(t, row.day)' \in Nat
  BY LedgersGrow
<1>4. QED
  BY <1>1, <1>2, <1>3 DEF Justified, Fits

\* Where a row that was neither recorded nor drafted comes from: a handler
\* settled, while no table changed.
LEMMA DraftOrigin ==
  ASSUME TypeInv, [Next]_vars, NEW r \in Requests, NEW row \in Rows,
         Holds(r, row)', ~Holds(r, row)
  PROVE  /\ UNCHANGED invocations
         /\ \/ row.status \notin {"limited", "cost_limited"}
            \/ /\ row = Outcome(r, "limited", NoUsage, Unknown, Consumption(r))
               /\ ~Fits(Consumption(r), Settings[command[r].principal])
            \/ /\ row = Outcome(r, "cost_limited", NoUsage, Unknown, TenantCost(r))
               /\ Tenant(r) \in DOMAIN Budgets
               /\ ~Fits(TenantCost(r), Budgets[Tenant(r)])
<1> USE NoRowAssumption DEF Holds, TypeInv, TypeOK, Advance, Settle
<1>1. CASE UNCHANGED vars
  BY <1>1 DEF vars
<1>2. CASE Tick
  BY <1>2 DEF Tick, handlerVars
<1>3. ASSUME NEW t \in Tenants, NEW a \in Agents, NEW m \in Models,
             NEW effect \in Effects, SetPermission(t, a, m, effect)
      PROVE  FALSE
  BY <1>3 DEF SetPermission, handlerVars
<1>4. ASSUME NEW q \in Requests, NEW p \in Principals, NEW m \in Models, Receive(q, p, m)
      PROVE  FALSE
  BY <1>4 DEF Receive
<1>5. ASSUME NEW q \in Requests, Abort(q) PROVE FALSE
  BY <1>5 DEF Abort
<1>6. CASE \E q \in Requests : Step(q)
  <2>1. PICK q \in Requests : Step(q)
    BY <1>6
  <2>2. CASE Admit(q) \/ ReadPermission(q) \/ Allow(q)
    BY <2>2 DEF Admit, ReadPermission, Allow, CommitDecision
  <2>3. CASE PassUsageLimit(q) \/ RefuseUnbudgeted(q) \/ PassBudget(q)
    BY <2>3 DEF PassUsageLimit, RefuseUnbudgeted, PassBudget
  <2>4. CASE Deny(q)
    <3>1. q = r /\ row = Refusal(r, "denied", Unknown) /\ UNCHANGED invocations
      BY <2>4 DEF Deny, CommitDecision
    <3>2. QED
      BY <3>1 DEF Refusal, Outcome
  <2>5. CASE LimitUsage(q)
    BY <2>5 DEF LimitUsage, Refusal
  <2>6. CASE LimitCost(q)
    BY <2>6 DEF LimitCost, Refusal
  <2>7. CASE \E usage \in Usages : ProviderAnswers(q, usage)
    <3>1. row.status = "succeeded" /\ UNCHANGED invocations
      BY <2>7 DEF ProviderAnswers, Outcome
    <3>2. QED
      BY <3>1
  <2>8. CASE ProviderFails(q)
    <3>1. row.status = "failed" /\ UNCHANGED invocations
      BY <2>8 DEF ProviderFails, Refusal, Outcome
    <3>2. QED
      BY <3>1
  <2>9. CASE Persist(q)
    BY <2>9 DEF Persist
  <2>10. CASE PersistOverflows(q)
    BY <2>10 DEF PersistOverflows
  <2>11. QED
    BY <2>1, <2>2, <2>3, <2>4, <2>5, <2>6, <2>7, <2>8, <2>9, <2>10 DEF Step
<1>7. QED
  BY <1>1, <1>2, <1>3, <1>4, <1>5, <1>6 DEF Next

LEMMA NextRefusal == TypeInv /\ RefusalInv /\ [Next]_vars => RefusalInv'
<1> SUFFICES ASSUME TypeInv, RefusalInv, [Next]_vars,
                    NEW r \in Requests, NEW row \in Rows, Holds(r, row)'
             PROVE  Justified(row)'
  BY DEF RefusalInv
<1>1. CASE Holds(r, row)
  <2>1. Justified(row)
    BY <1>1 DEF RefusalInv
  <2>2. QED
    BY <2>1, JustifiedKept
<1>2. CASE ~Holds(r, row)
  <2>0. UNCHANGED invocations
    BY <1>2, DraftOrigin
  <2>1. CASE row.status \notin {"limited", "cost_limited"}
    BY <2>1 DEF Justified
  <2>2. CASE /\ row = Outcome(r, "limited", NoUsage, Unknown, Consumption(r))
             /\ ~Fits(Consumption(r), Settings[command[r].principal])
    <3>1. /\ row.status = "limited" /\ row.consumed = Consumption(r)
          /\ row.principal = command[r].principal /\ row.day = command[r].day
      BY <2>2 DEF Outcome
    <3>2. row.consumed = ConsumedUnits(row.principal, row.day) /\ row.consumed \in Nat
      BY <3>1, LedgerType DEF Consumption
    <3>3. ConsumedUnits(row.principal, row.day)' = ConsumedUnits(row.principal, row.day)
      BY <2>0, LedgerFrame
    <3>4. QED
      <4>1. row.consumed <= ConsumedUnits(row.principal, row.day)'
        BY <3>2, <3>3, LedgerType
      <4>2. ~Fits(row.consumed, Settings[row.principal])
        BY <2>2, <3>1
      <4>3. QED
        BY <3>1, <3>2, <4>1, <4>2 DEF Justified, Fits
  <2>3. CASE /\ row = Outcome(r, "cost_limited", NoUsage, Unknown, TenantCost(r))
             /\ Tenant(r) \in DOMAIN Budgets
             /\ ~Fits(TenantCost(r), Budgets[Tenant(r)])
    <3> DEFINE t == Settings[row.principal].tenant
    <3>1. /\ row.status = "cost_limited" /\ row.consumed = TenantCost(r)
          /\ row.day = command[r].day /\ t = Tenant(r)
      BY <2>3 DEF Outcome, Tenant
    <3>2. row.consumed = AttributedTenantCost(t, row.day) /\ row.consumed \in Nat
      BY <3>1, LedgerType DEF TenantCost
    <3>3. AttributedTenantCost(t, row.day)' = AttributedTenantCost(t, row.day)
      BY <2>0, LedgerFrame
    <3>4. QED
      <4>1. row.consumed <= AttributedTenantCost(t, row.day)'
        BY <3>2, <3>3, LedgerType
      <4>2. t \in DOMAIN Budgets /\ ~Fits(row.consumed, Budgets[t])
        BY <2>3, <3>1
      <4>3. QED
        BY <3>1, <3>2, <4>1, <4>2 DEF Justified, Fits
  <2>4. QED
    BY <1>2, <2>1, <2>2, <2>3, DraftOrigin
<1>3. QED
  BY <1>1, <1>2

LEMMA RefusalAlways == Spec => [](TypeInv /\ RefusalInv)
<1>1. Init => RefusalInv
  BY NoRowAssumption DEF Init, RefusalInv, Holds
<1>2. QED
  BY <1>1, InitType, NextType, NextRefusal, PTL DEF Spec

\* A recorded refusal stays true: the consumption it records is in its day's
\* ledger and still leaves no room.
THEOREM RefusalsJustified == Spec => []RefusalsStayJustified
<1>1. TypeInv /\ RefusalInv => RefusalsStayJustified
  BY NoRowAssumption DEF TypeInv, TypeOK, RefusalInv, Holds, Justified, RefusalsStayJustified
<1>2. QED
  BY <1>1, RefusalAlways, PTL

\* A refused window is never reopened: after a usage (cost) refusal no request
\* of that principal (tenant) and day passes the check again.
THEOREM RefusedWindowsStayShut == Spec => RefusalsAreFinal
<1> DEFINE Limited(p, d) ==
      \E r \in Requests :
        /\ invocations[r] # NoRow /\ invocations[r].status = "limited"
        /\ invocations[r].principal = p /\ invocations[r].day = d
    CostLimited(t, d) ==
      \E r \in Requests :
        /\ invocations[r] # NoRow /\ invocations[r].status = "cost_limited"
        /\ Settings[invocations[r].principal].tenant = t
        /\ invocations[r].day = d
    Shut == \A d \in 0 .. MaxDay :
      /\ \A p \in Principals : Limited(p, d) => OwedUnits(p, d)' \subseteq OwedUnits(p, d)
      /\ \A t \in Tenants : CostLimited(t, d) => OwedCost(t, d)' \subseteq OwedCost(t, d)
<1>1. ASSUME TypeInv, RefusalInv, [Next]_vars, NEW d \in 0 .. MaxDay,
             NEW p \in Principals, Limited(p, d)
      PROVE  OwedUnits(p, d)' \subseteq OwedUnits(p, d)
  <2> SUFFICES ASSUME ~(OwedUnits(p, d)' \subseteq OwedUnits(p, d)) PROVE FALSE
    OBVIOUS
  <2>1. PICK q \in Requests : PassUsageLimit(q)
    BY <1>1, OwedShrinks
  <2>2. command[q].principal = p /\ command[q].day = d
    BY <1>1, <2>1 DEF PassUsageLimit, Advance, OwedUnits, Owes, TypeInv, TypeOK
  <2>3. PICK row \in Rows : /\ Justified(row) /\ row.status = "limited"
                            /\ row.principal = p /\ row.day = d
    BY <1>1, NoRowAssumption DEF TypeInv, TypeOK, RefusalInv, Holds
  <2>4. Fits(ConsumedUnits(p, d), Settings[p])
    BY <2>1, <2>2 DEF PassUsageLimit, Consumption
  <2>5. QED
    BY <2>3, <2>4, LedgerType, SettingsAssumption DEF Justified, Fits
<1>2. ASSUME TypeInv, RefusalInv, [Next]_vars, NEW d \in 0 .. MaxDay,
             NEW t \in Tenants, CostLimited(t, d)
      PROVE  OwedCost(t, d)' \subseteq OwedCost(t, d)
  <2> SUFFICES ASSUME ~(OwedCost(t, d)' \subseteq OwedCost(t, d)) PROVE FALSE
    OBVIOUS
  <2>1. PICK q \in Requests : PassBudget(q)
    BY <1>2, OwedShrinks
  <2>2. Tenant(q) = t /\ command[q].day = d
    BY <1>2, <2>1 DEF PassBudget, Advance, OwedCost, Owes, Tenant, TypeInv, TypeOK
  <2>3. PICK row \in Rows : /\ Justified(row) /\ row.status = "cost_limited"
                            /\ Settings[row.principal].tenant = t /\ row.day = d
    BY <1>2, NoRowAssumption DEF TypeInv, TypeOK, RefusalInv, Holds
  <2>4. t \in DOMAIN Budgets /\ Fits(AttributedTenantCost(t, d), Budgets[t])
    BY <2>1, <2>2 DEF PassBudget, TenantCost
  <2>5. QED
    BY <2>3, <2>4, LedgerType, BudgetAssumption DEF Justified, Fits
<1>3. TypeInv /\ RefusalInv /\ [Next]_vars => [Shut]_vars
  BY <1>1, <1>2
<1>4. Spec => [][Shut]_vars
  BY <1>3, RefusalAlways, PTL DEF Spec
<1>5. QED
  BY <1>4 DEF RefusalsAreFinal
-----------------------------------------------------------------------------
(***************************************************************************)
(* The gateway implements InvocationLedger: Persist is its Insert, and no  *)
(* other step changes the ledger.  What Insert asks of a row is what       *)
(* HandlerInv and RefusalInv say of a draft.                               *)
(***************************************************************************)
LEMMA LedgerRowType ==
  ASSUME NEW row \in Rows, Justified(row)
  PROVE  LedgerRow(row) # NoRow /\ row # NoRow
<1>1. row # NoRow
  BY NoRowAssumption
<1>2. /\ row.principal \in Principals /\ row.model \in Models /\ row.day \in 0 .. MaxDay
      /\ row.status \in Statuses /\ row.usage \in Usages
      /\ row.cost \in (0 .. MaxCost) \cup {Unknown} /\ row.consumed \in Nat \cup {Unknown}
  BY DEF Rows
<1>3. /\ Settings[row.principal].tenant \in Tenants /\ Settings[row.principal].agent \in Agents
      /\ Settings[row.principal].limit \in Nat /\ Settings[row.principal].allowance \in Nat
  BY <1>2, SettingsAssumption
<1>4. EvidenceOf(row) \in [consumed : Nat \cup {Unknown}, limit : Nat, allowance : Nat]
  <2>1. CASE row.status = "limited"
    BY <2>1, <1>2, <1>3 DEF EvidenceOf
  <2>2. CASE row.status = "cost_limited"
    BY <2>2, <1>2, BudgetAssumption DEF EvidenceOf, Justified
  <2>3. CASE row.status \notin {"limited", "cost_limited"}
    BY <2>3 DEF EvidenceOf
  <2>4. QED
    BY <2>1, <2>2, <2>3
<1>5. LedgerRow(row) \in LedgerRows
  BY <1>1, <1>2, <1>3, <1>4 DEF LedgerRow, LedgerRows
<1>6. QED
  BY <1>1, <1>5, LedgerRowAssumption

\* A recorded row is a ledger row with the same columns.
LEMMA StoredRows ==
  ASSUME TypeInv, RefusalInv, NEW q \in Requests
  PROVE  /\ LedgerOf[q] # NoRow <=> invocations[q] # NoRow
         /\ invocations[q] # NoRow =>
              /\ LedgerOf[q].principal = invocations[q].principal
              /\ LedgerOf[q].tenant = Settings[invocations[q].principal].tenant
              /\ LedgerOf[q].day = invocations[q].day
              /\ LedgerOf[q].usage = invocations[q].usage
              /\ LedgerOf[q].cost = invocations[q].cost
<1>1. CASE invocations[q] = NoRow
  BY <1>1 DEF LedgerOf, LedgerRow
<1>2. CASE invocations[q] # NoRow
  <2>1. PICK row \in Rows : row = invocations[q] /\ Justified(row)
    BY <1>2 DEF TypeInv, TypeOK, RefusalInv, Holds
  <2>2. LedgerRow(row) # NoRow /\ LedgerOf[q] = LedgerRow(row)
    BY <2>1, LedgerRowType DEF LedgerOf
  <2>3. QED
    BY <1>2, <2>1, <2>2 DEF LedgerRow
<1>3. QED
  BY <1>1, <1>2

LEMMA SameSums ==
  ASSUME TypeInv, RefusalInv, NEW x, NEW d
  PROVE  Ledger!Units(x, d) = ConsumedUnits(x, d) /\ Ledger!Cost(x, d) = AttributedTenantCost(x, d)
<1>1. Ledger!Stored = {q \in Requests : invocations[q] # NoRow}
  BY StoredRows DEF Ledger!Stored, LedgerOf
<1>2. \A q \in Requests : invocations[q] # NoRow =>
        /\ invocations[q].usage.total \in Nat \cup {Unknown}
        /\ invocations[q].cost \in Nat \cup {Unknown}
  BY BoundsAssumption DEF TypeInv, TypeOK, Rows, Usages, NoUsage
<1>3. {z \in Ledger!Stored \X (1 .. MaxUnits) :
         /\ LedgerOf[z[1]].principal = x /\ LedgerOf[z[1]].day = d
         /\ LedgerOf[z[1]].usage.total # Unknown
         /\ z[2] <= LedgerOf[z[1]].usage.total} = UnitLedger(x, d)
  BY <1>1, <1>2, StoredRows, BoundsType DEF UnitLedger, UnitsOf
<1>4. {z \in Ledger!Stored \X (1 .. MaxCost) :
         /\ LedgerOf[z[1]].tenant = x /\ LedgerOf[z[1]].day = d
         /\ LedgerOf[z[1]].cost # Unknown
         /\ z[2] <= LedgerOf[z[1]].cost} = CostLedger(x, d)
  BY <1>1, <1>2, StoredRows, BoundsType DEF CostLedger, QuantaOf
<1>5. Ledger!Units(x, d) = ConsumedUnits(x, d)
  BY <1>3, Zenon DEF Ledger!Units, ConsumedUnits, Ledger!Cardinality, Cardinality
<1>6. Ledger!Cost(x, d) = AttributedTenantCost(x, d)
  BY <1>4, Zenon DEF Ledger!Cost, AttributedTenantCost, Ledger!Cardinality, Cardinality
<1>7. QED
  BY <1>5, <1>6

LEMMA DraftWellFormed ==
  ASSUME NEW row \in Rows, Justified(row), Priced(row.usage, row.cost),
         row.status # "succeeded" => row.usage = NoUsage /\ row.cost = Unknown
  PROVE  Ledger!WellFormed(LedgerRow(row))
<1>1. /\ LedgerRow(row).status = row.status /\ LedgerRow(row).usage = row.usage
      /\ LedgerRow(row).cost = row.cost /\ LedgerRow(row).evidence = EvidenceOf(row)
  BY LedgerRowType DEF LedgerRow
<1>2. CASE row.status = "limited"
  BY <1>1, <1>2, SettingsAssumption
     DEF Ledger!WellFormed, Ledger!NoUsage, NoUsage, EvidenceOf, Justified, Fits, Rows
<1>3. CASE row.status = "cost_limited"
  BY <1>1, <1>3, BudgetAssumption
     DEF Ledger!WellFormed, Ledger!NoUsage, NoUsage, EvidenceOf, Justified, Fits, Rows
<1>4. CASE row.status \notin {"limited", "cost_limited"}
  BY <1>1, <1>4 DEF Ledger!WellFormed, Ledger!NoEvidence, EvidenceOf, Priced
<1>5. QED
  BY <1>2, <1>3, <1>4

LEMMA PersistInserts ==
  ASSUME TypeInv, RefusalInv, NEW r \in Requests, Persist(r)
  PROVE  Ledger!Insert(r, LedgerOf'[r])
<1>1. /\ stage[r] = "persisting" /\ draft[r] \in Rows /\ invocations[r] = NoRow
      /\ draft[r].status # "succeeded" => draft[r].usage = NoUsage /\ draft[r].cost = Unknown
      /\ Priced(draft[r].usage, draft[r].cost)
      /\ invocations' = [invocations EXCEPT ![r] = draft[r]]
      /\ invocations \in [Requests -> Rows \cup {NoRow}]
  BY NoRowAssumption DEF Persist, Advance, TypeInv, TypeOK, HandlerInv
<1>2. PICK row \in Rows : row = draft[r] /\ Justified(row)
  BY <1>1 DEF RefusalInv, Holds
<1>3. /\ LedgerOf'[r] = LedgerRow(row)
      /\ LedgerOf' = [LedgerOf EXCEPT ![r] = LedgerRow(row)]
  BY <1>1, <1>2 DEF LedgerOf
<1>4. LedgerOf[r] = NoRow /\ LedgerRow(row) # NoRow
  BY <1>1, <1>2, LedgerRowType DEF LedgerOf, LedgerRow
<1>5. Ledger!WellFormed(LedgerRow(row))
  BY <1>1, <1>2, DraftWellFormed
<1>6. Ledger!Justified(LedgerRow(row))
  <2>1. /\ LedgerRow(row).status = row.status /\ LedgerRow(row).principal = row.principal
        /\ LedgerRow(row).day = row.day /\ LedgerRow(row).evidence = EvidenceOf(row)
        /\ LedgerRow(row).tenant = Settings[row.principal].tenant
    BY <1>2, LedgerRowType DEF LedgerRow
  <2>2. /\ Ledger!Units(row.principal, row.day) = ConsumedUnits(row.principal, row.day)
        /\ Ledger!Cost(Settings[row.principal].tenant, row.day)
             = AttributedTenantCost(Settings[row.principal].tenant, row.day)
    BY SameSums
  <2>3. row.status \in {"limited", "cost_limited"} => EvidenceOf(row).consumed = row.consumed
    BY DEF EvidenceOf
  <2>4. QED
    BY <1>2, <2>1, <2>2, <2>3 DEF Ledger!Justified, Justified
<1>7. QED
  BY <1>3, <1>4, <1>5, <1>6 DEF Ledger!Insert, LedgerOf

LEMMA StepAppends ==
  TypeInv /\ RefusalInv /\ [Next]_vars
    => [Ledger!AppendRow]_LedgerOf
<1> SUFFICES ASSUME TypeInv, RefusalInv, [Next]_vars
             PROVE  [Ledger!AppendRow]_LedgerOf
  OBVIOUS
<1>1. CASE UNCHANGED invocations
  BY <1>1 DEF LedgerOf
<1>2. CASE \E r \in Requests : Persist(r)
  BY <1>2, PersistInserts DEF Ledger!AppendRow
<1>3. QED
  BY <1>1, <1>2, LedgerChange

\* ADR-0016: the gateway, with all its interleavings and aborts, is an
\* append-only ledger of well-formed rows whose refusals it bears out, for any
\* number of requests, principals, tenants and days.
THEOREM GatewayIsALedger == Spec => ImplementsLedger
<1>1. Init => Ledger!EmptyLedger
  BY DEF Init, Ledger!EmptyLedger, LedgerRow, LedgerOf
<1>2. TypeInv /\ RefusalInv /\ [Next]_vars
        => [Ledger!AppendRow]_LedgerOf
  BY StepAppends
<1>3. QED
  BY <1>1, <1>2, RefusalAlways, PTL DEF Spec, ImplementsLedger, Ledger!LedgerSpec

-----------------------------------------------------------------------------
(***************************************************************************)
(* Progress.  Nothing a handler awaits is held by another handler, and no  *)
(* step goes back: what is left to a fair scheduler is to take steps.      *)
(***************************************************************************)
StagesLeft(s) ==
  CASE s = "idle"       -> 8
    [] s = "admitting"  -> 7
    [] s = "evaluating" -> 6
    [] s = "deciding"   -> 5
    [] s = "metering"   -> 4
    [] s = "budgeting"  -> 3
    [] s = "calling"    -> 2
    [] s = "persisting" -> 1
    [] OTHER            -> 0

Moves(r) ==
  \/ \E p \in Principals, m \in Models : Receive(r, p, m)
  \/ Step(r) \/ Abort(r)

HandlerStages == {"idle", "admitting", "evaluating", "deciding", "metering", "budgeting",
                  "calling", "persisting", "persisted", "refused", "aborted"}

\* What a step does takes its request from one stage to a later one.
Later(r) ==
  \E from, to \in HandlerStages : Advance(r, from, to) /\ StagesLeft(to) < StagesLeft(from)

LEMMA MovesLeadOn == \A r \in Requests : Moves(r) => Later(r)
<1> SUFFICES ASSUME NEW r \in Requests, Moves(r)  PROVE Later(r)
  OBVIOUS
<1>1. ASSUME NEW from \in HandlerStages, NEW to \in HandlerStages, Advance(r, from, to),
             StagesLeft(to) < StagesLeft(from)
      PROVE  Later(r)
  BY <1>1 DEF Later
<1>2. /\ StagesLeft("idle") = 8 /\ StagesLeft("admitting") = 7 /\ StagesLeft("evaluating") = 6
      /\ StagesLeft("deciding") = 5 /\ StagesLeft("metering") = 4 /\ StagesLeft("budgeting") = 3
      /\ StagesLeft("calling") = 2 /\ StagesLeft("persisting") = 1 /\ StagesLeft("persisted") = 0
      /\ StagesLeft("refused") = 0 /\ StagesLeft("aborted") = 0
  BY DEF StagesLeft
<1>3. CASE \E p \in Principals, m \in Models : Receive(r, p, m)
  <2>1. Advance(r, "idle", "admitting")
    BY <1>3 DEF Receive
  <2>2. QED
    BY <1>1, <1>2, <2>1 DEF HandlerStages
<1>4. CASE Admit(r) \/ ReadPermission(r)
  <2>1. \/ Advance(r, "admitting", "evaluating") \/ Advance(r, "admitting", "refused")
        \/ Advance(r, "evaluating", "deciding")
    BY <1>4 DEF Admit, ReadPermission, Advance
  <2>2. QED
    BY <1>1, <1>2, <2>1 DEF HandlerStages
<1>5. CASE Allow(r) \/ Deny(r)
  <2>1. \/ Advance(r, "deciding", "metering") \/ Advance(r, "deciding", "persisting")
    BY <1>5 DEF Allow, Deny, Settle
  <2>2. QED
    BY <1>1, <1>2, <2>1 DEF HandlerStages
<1>6. CASE PassUsageLimit(r) \/ LimitUsage(r)
  <2>1. \/ Advance(r, "metering", "budgeting") \/ Advance(r, "metering", "persisting")
    BY <1>6 DEF PassUsageLimit, LimitUsage, Settle
  <2>2. QED
    BY <1>1, <1>2, <2>1 DEF HandlerStages
<1>7. CASE RefuseUnbudgeted(r) \/ PassBudget(r) \/ LimitCost(r)
  <2>1. \/ Advance(r, "budgeting", "refused") \/ Advance(r, "budgeting", "calling")
        \/ Advance(r, "budgeting", "persisting")
    BY <1>7 DEF RefuseUnbudgeted, PassBudget, LimitCost, Settle
  <2>2. QED
    BY <1>1, <1>2, <2>1 DEF HandlerStages
<1>8. CASE (\E usage \in Usages : ProviderAnswers(r, usage)) \/ ProviderFails(r)
  <2>1. Advance(r, "calling", "persisting")
    BY <1>8 DEF ProviderAnswers, ProviderFails, Settle
  <2>2. QED
    BY <1>1, <1>2, <2>1 DEF HandlerStages
<1>9. CASE Persist(r) \/ PersistOverflows(r)
  <2>1. \/ Advance(r, "persisting", "persisted") \/ Advance(r, "persisting", "aborted")
    BY <1>9 DEF Persist, PersistOverflows
  <2>2. QED
    BY <1>1, <1>2, <2>1 DEF HandlerStages
<1>10. CASE Abort(r)
  <2>1. \E from \in Unsettled : Advance(r, from, "aborted")
    BY <1>10 DEF Abort, Advance
  <2>2. QED
    BY <1>1, <1>2, <2>1 DEF HandlerStages, Unsettled
<1>11. QED
  BY <1>3, <1>4, <1>5, <1>6, <1>7, <1>8, <1>9, <1>10 DEF Moves, Step

\* create_invocation.py has no loop and no retry: no step leads a request back, nor another one.
THEOREM StepsLeadOn ==
  Spec => [][\A r \in Requests :
               /\ Moves(r) => StagesLeft(stage'[r]) < StagesLeft(stage[r])
               /\ StagesLeft(stage'[r]) <= StagesLeft(stage[r])]_vars
<1>1. ASSUME TypeInv, NEW r \in Requests, Moves(r)
      PROVE  /\ StagesLeft(stage'[r]) < StagesLeft(stage[r])
             /\ \A other \in Requests \ {r} : stage'[other] = stage[other]
  BY <1>1, MovesLeadOn DEF Later, Advance, TypeInv, TypeOK
<1>2. \A s : StagesLeft(s) \in Nat
  BY DEF StagesLeft
<1>3. ASSUME TypeInv, [Next]_vars, NEW other \in Requests
      PROVE  StagesLeft(stage'[other]) <= StagesLeft(stage[other])
  <2>1. CASE UNCHANGED stage
    BY <1>2, <2>1
  <2>2. ASSUME NEW r \in Requests, Moves(r)
        PROVE  StagesLeft(stage'[other]) <= StagesLeft(stage[other])
    BY <1>1, <1>2, <1>3, <2>2
  <2>3. QED
    BY <1>3, <2>1, <2>2 DEF Next, Moves, Tick, SetPermission, handlerVars, vars
<1>4. TypeInv /\ [Next]_vars =>
        [\A r \in Requests :
           /\ Moves(r) => StagesLeft(stage'[r]) < StagesLeft(stage[r])
           /\ StagesLeft(stage'[r]) <= StagesLeft(stage[r])]_vars
  BY <1>1, <1>3
<1>5. QED
  BY <1>4, InitType, NextType, PTL DEF Spec
=============================================================================
