SPECIFICATION Spec
CONSTANTS
  a1 = a1 a2 = a2 a3 = a3 c1 = c1 p1 = p1
  Attempts = {a1, a2, a3}
  Credentials = {c1}
  Principals = {p1}
  Owner <- MCOwner
  Expiry <- MCExpiry
  Unknown = Unknown
  Never = Never
  TicksPerHour = 2
  Retention = 0
  MaxClock = 2
SYMMETRY Symmetry
PROPERTIES ImplementsLog
INVARIANTS VerdictsEvidenced EvidenceAttributable BarredStayOut
\* Finitely many attempts: when they have been answered, nothing is left to do.
CHECK_DEADLOCK FALSE
