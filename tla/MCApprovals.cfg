CONSTANTS
  m1 = m1
  m2 = m2
  q1 = q1
  o1 = o1
  o2 = o2
  NoMachine = NoMachine
  Machines <- TwoMachines
  Requesters <- OneRequester
  Operators <- TwoOperators
  MaxCommands = 3
  MaxAsked = 1
  Copies <- AskedTwice
SYMMETRY Symmetric
SPECIFICATION Spec
INVARIANTS
  TypeOK
  OneWinner
  OneInstallEach
  ApprovedWasSent
PROPERTIES
  RejectionHolds
