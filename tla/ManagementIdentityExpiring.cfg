SPECIFICATION Spec
CONSTANTS
  c1 = c1  c2 = c2  c3 = c3  c4 = c4  c5 = c5
  Never = Never
  None = None
  Operations <- FiveCalls
  Expiries <- Expiring
  MaxTime = 1
  MaxInFlight = 2
SYMMETRY Symmetry
PROPERTIES ProtectedAsOfItsClock
CHECK_DEADLOCK FALSE
