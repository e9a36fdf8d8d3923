SPECIFICATION Spec
CONSTANTS
  o1 = o1 o2 = o2 o3 = o3 o4 = o4 p1 = p1 b1 = b1 b2 = b2 l1 = l1 l2 = l2 l3 = l3
  Operations = {o1, o2, o3, o4}
  Provisioned <- OneRow
  Bindings = {b1, b2}
  Registered = {b1}
  Limits <- OneLimits
  Static <- ThreeIdentities
  LegacyIds = {l1, l2, l3}
  History <- Foreign
  Expiries <- Expiring
  Never = Never
  None = None
  MaxTime = 1
  MaxInFlight = 2
SYMMETRY Symmetry
INVARIANTS BindingChecksHold ContinuityFaithful PreparedOnce NoStandstill
PROPERTIES NothingUndone BoundWhileActive
\* Finitely many calls: when they have ended, nothing is left to do.
CHECK_DEADLOCK FALSE
