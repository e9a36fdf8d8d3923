SPECIFICATION FairSpec
CONSTANTS
  c1 = c1 c2 = c2 p1 = p1 t0 = t0
  Calls = {c1, c2}
  Principals = {p1}
  Founding = t0
  FoundingName = "A"
  Nobody = Nobody
  Unknown = Unknown
  Blank = ""
  Texts <- MCTexts
  Trimmed <- MCTrimmed
  Stripped <- MCStripped
  Fold <- MCFold
  Length <- MCLength
  FoldedLength <- MCFoldedLength
  LongSecrets = {"s1", "s2", "s3", "s4", "s5"}
  Environments <- MCEnvironments
  Served <- MCServed
  Explored <- MCExplored
  MaxUnitsPriced = 4
  MaxGrants = 1
INVARIANTS
  AcceptedSettingsAreLive
  CostIsSumOfNearest
  NamesHaveOneHolder
  PoolNeverStandsStill
  RegisteredModelsFindTheirPrice
PROPERTIES
  EveryRequestEnds
CHECK_DEADLOCK FALSE
