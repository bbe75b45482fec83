CONSTANTS
  o1 = o1
  o2 = o2
  MaxCommands = 2
  MaxRules = 1
  MaxSessions = 2
  QueueCap = 1
  Operators <- OneOperator
SPECIFICATION Spec
INVARIANTS
  TypeOK
  UndoHandedOnce
  NotLeftBehind
PROPERTY
  NewestServes
