SPECIFICATION Spec
CONSTANTS
  r1 = r1  r2 = r2  r3 = r3  r4 = r4  e1 = e1  e2 = e2
  Requests = {r1, r2}
  Body <- MCBody
  NoBody = NoBody
  NoProfile = NoProfile
  NoBundle = NoBundle
  Initial <- MCInitial
  Evaluations = {}
\* Every request is answered and every evaluation ends.
CHECK_DEADLOCK FALSE
PROPERTIES RuleChangeKeepsProfile
