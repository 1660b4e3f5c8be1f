\* Two people, two bootstraps, two log-ins and two requests.
CONSTANTS
  Email = {e1, e2}
  Session = {s1, s2}
  Request = {r1, r2}
  Bootstrap = {b1, b2}
  None = None
SPECIFICATION Spec
SYMMETRY Interchangeable
INVARIANTS SessionsInvariant
PROPERTIES ClosedForGood
CHECK_DEADLOCK FALSE
