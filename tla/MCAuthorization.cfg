SPECIFICATION AuthorizationSpec
CONSTANTS
  Callers = {p1}
  Requests = {r1, r2}
  Lifetime = 1
  MaxDelay = 1
  MaxTime = 3
  MaxChanges = 1
SYMMETRY RequestSymmetry
INVARIANTS
  AuthorizationTypeOK
  GrantsRunOut
  DenialsRunOut
