CONSTANTS
  o1 = o1
  o2 = o2
  MaxCommands = 3
  MaxRules = 1
  MaxSessions = 1
  QueueCap = 1
  Operators <- TwoOperators
SYMMETRY Symmetric
SPECIFICATION Spec
INVARIANTS
  OneUndoInFlight
  UndoFollowsOriginal
PROPERTIES
  AnswerStands
  LeavesOnceUndone
