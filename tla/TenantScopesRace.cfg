SPECIFICATION Spec
CONSTANTS
  s1 = s1 s2 = s2 s3 = s3 t1 = t1 t2 = t2 t3 = t3
  Calls = {s1, s2}
  Tenants = {t1, t2}
  Registered = {t1, t2}
  Initial = {}
  Creation = Creation
  MaxInFlight = 2
SYMMETRY Symmetry
INVARIANT ScopesExact
\* Finitely many calls: when they have ended, nothing is left to do.
CHECK_DEADLOCK FALSE
