SPECIFICATION FairSpec
CONSTANTS
  r1 = r1 r2 = r2 r3 = r3 p1 = p1 p2 = p2 p3 = p3 t1 = t1 t2 = t2 a1 = a1 a2 = a2 a3 = a3 m1 = m1 m2 = m2
  Requests = {r1, r2}
  Principals = {p1, p2, p3}
  Tenants = {t1, t2}
  Agents = {a1, a2, a3}
  Models = {m1, m2}
  Settings <- SettingsTwoTenants
  RegisteredTenants = {t1, t2}
  AgentTenant <- AgentTenantTwo
  ModelTenant <- ModelTenantTwo
  OpenAIModels = {m1, m2}
  Budgets <- BudgetOfT1
  Price <- PriceAll
  ProviderUsages <- UsagesMixed
  NoPermission = NoPermission
  NoRow = NoRow
  Unknown = Unknown
  MaxUnits = 2
  MaxCost = 2
  MaxDay = 0
  MaxInFlight = 1
  IntMax = 3
INVARIANT SequentialContainment
PROPERTY EveryRequestSettles
