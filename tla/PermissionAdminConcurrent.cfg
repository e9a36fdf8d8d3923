SPECIFICATION FairSpec
CONSTANTS
  u1 = u1 u2 = u2 u3 = u3 k1 = k1 k2 = k2
  Puts = {u1, u2, u3}
  Keys = {k1, k2}
  RegisteredKeys = {k1}
  NoRow = NoRow
  MaxTime = 1
  MaxInFlight = 3
INVARIANT EvidenceDescribesRow
PROPERTIES ImplementsRegister EveryPutEnds
CHECK_DEADLOCK FALSE
