CONSTANTS
  d1 = d1
  d2 = d2
  Domain <- TwoDomains
  Durations = {1, 2}
  RetryAfter = 1
  Faults = {"semanage", "write"}
  MaxBack = 2
  MaxStarts = 3
  MaxCrashes = 1
SYMMETRY Symmetric
SPECIFICATION Spec
INVARIANTS
  TypeOK
  Recorded
  DeadlineCovered
  ExpiryIsDue
PROPERTIES
  KeepsPromise
  AgentRemovesOnlyItsOwn
