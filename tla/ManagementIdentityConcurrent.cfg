SPECIFICATION Spec
CONSTANTS
  c1 = c1  c2 = c2  c3 = c3  c4 = c4  c5 = c5
  Never = Never
  None = None
  Operations <- FiveCalls
  Expiries <- Unlimited
  MaxTime = 0
  MaxInFlight = 3
SYMMETRY Symmetry
PROPERTIES ImplementsDirectory
INVARIANTS AlwaysRecoverable BootstrapOnce EvidenceExact
CHECK_DEADLOCK FALSE
