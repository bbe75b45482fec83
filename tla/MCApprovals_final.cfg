CONSTANTS
  m1 = m1
  m2 = m2
  q1 = q1
  o1 = o1
  o2 = o2
  NoMachine = NoMachine
  Machines <- OneMachine
  Requesters <- OneRequester
  Operators <- TwoOperators
  MaxCommands = 2
  MaxAsked = 1
  Copies <- AskedTwice
SPECIFICATION Spec
PROPERTIES
  LifecycleHolds
