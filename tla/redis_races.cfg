SPECIFICATION Spec
CONSTANTS
  Tokens = {t1}
  Clients = {c1, c2}
  MaxRetries = 2
  MaxErrors = 3
SYMMETRY ClientSymmetry
INVARIANTS RevocationSticks NoResurrection IndexComplete
PROPERTIES ImplementsLifecycle
CHECK_DEADLOCK FALSE
