SPECIFICATION Spec
CONSTANTS
  r1 = r1 r2 = r2 r3 = r3 p1 = p1 p2 = p2 p3 = p3 t1 = t1 t2 = t2 a1 = a1 a2 = a2 a3 = a3 m1 = m1 m2 = m2
  Requests = {r1, r2, r3}
  Principals = {p1, p2}
  Tenants = {t1}
  Agents = {a1, a2}
  Models = {m1}
  Settings <- SettingsTwoAgents
  RegisteredTenants = {t1}
  AgentTenant <- AgentTenantAll
  ModelTenant <- ModelTenantAll
  OpenAIModels = {m1}
  Budgets <- BudgetOfT1
  Price <- PriceAll
  ProviderUsages <- UsagesMixed
  NoPermission = NoPermission
  NoRow = NoRow
  Unknown = Unknown
  MaxUnits = 2
  MaxCost = 2
  MaxDay = 1
  MaxInFlight = 2
  IntMax = 2147483647
SYMMETRY Symmetry
INVARIANTS
  TypeOK
  AllowRestsOnPermission
  OutcomesMatchDecisions
  UsageOvershootBounded
  CostOvershootBounded
  RefusalsStayJustified
PROPERTIES
  RefusalsAreFinal
  ImplementsLedger
