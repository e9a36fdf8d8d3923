SPECIFICATION Spec
CONSTANTS
  t1 = t1 t2 = t2 t3 = t3 i1 = i1 i2 = i2 i3 = i3 i4 = i4
  Invocations = {i1, i2, i3, i4}
  Tenants = {t1, t2, t3}
  RegisteredTenants = {t1, t3}
  Scopes = {t1, t2}
  RowKinds <- SampleRows
  MaxDay = 3
  MaxRange = 2
  MaxUnits = 2
  MaxCost = 2
  TopN = 2
  NoRow = NoRow
  Unknown = Unknown
SYMMETRY Symmetry
INVARIANTS
  AnswerIsBracketed
  EqualCountsMeanOneInstant
  CompletenessAddsUp
PROPERTIES
  BreakdownsAreTop
CHECK_DEADLOCK FALSE
