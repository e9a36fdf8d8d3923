SPECIFICATION FairSpec
CONSTANTS
  s1 = s1 s2 = s2 s3 = s3 t1 = t1 t2 = t2 t3 = t3
  Calls = {s1, s2, s3}
  Tenants = {t1, t2, t3}
  Registered = {t1, t2}
  Initial = {t1}
  Creation = Creation
  MaxInFlight = 3
PROPERTIES WithdrawnUnlessRegranted EveryReplacementEnds
\* Finitely many calls: when they have ended, nothing is left to do.
CHECK_DEADLOCK FALSE
