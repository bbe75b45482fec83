CONSTANTS
  d1 = d1
  d2 = d2
  Domain <- OneDomain
  Durations = {1, 2}
  RetryAfter = 1
  Faults = {}
  MaxBack = 0
  MaxStarts = 1
  MaxCrashes = 1
SPECIFICATION Spec
INVARIANTS
  NoForgottenWindow
