CONSTANTS
  d1 = d1
  d2 = d2
  Domain <- TwoDomains
  Durations = {1, 2}
  RetryAfter = 1
  Faults = {"semanage", "write"}
  MaxBack = 2
  MaxStarts = 2
  MaxCrashes = 1
SPECIFICATION FairSpec
PROPERTIES
  EndsWindows
