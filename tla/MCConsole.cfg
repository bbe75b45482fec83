SPECIFICATION FairSpec
CONSTANTS
  Filters = {"f1", "f2"}
  Agent = {"a1", "a2"}
  MaxCalls = 2
  MaxChanges = 1
  MaxMoves = 2
  MaxFaults = 1
  Fresh = {"new1", "new2"}
  Chart = {"chart1"}
  MaxVisits = 2
  MaxEdits = 2
  GridCols = 12
  ViewRows = {9, 15, 22, 28}
  Targets = {4}
  MinRows = 6
  MaxRandomRows = 7
  Groups = {"g1"}
  Occurrences = {1, 2}
  Machine = {"c1"}
  RecordOnly = {"c2"}
  Final = {"c3"}
  Slow = FALSE
  Profiles <- SomeProfiles
  FleetSize = 3
  AlertLimit = 1
  MaxPolls = 1
  MaxSubmits = 2
  Alerts = {"al1"}
  Suggestion = {"s1"}
  SuggestedFor = {"a1"}
  Member = {"m1", "m2"}
  Solo = {"d1"}
  Day = {1, 2}
  Windows = {0, 7}
  Integration = {"siem", "libre"}
  Secrets = {"", "new"}
  Configuration = {"k1", "k2"}
  TTL = 1
  MaxTime = 1
  MaxLoads = 3
  Days = {1, 3, 121}
  Instants = {490000, 490032}
  Ages = {0, 30, 3000}
  Subjects <- SomeSubjects
  Observed <- SomeObserved
  MaxRecords = 2
  TopSeries = 1
  MatrixLimits <- SmallMatrix
  HeatLimits <- SmallHeat
  TreeLimits <- SmallTree
  TopBars = 1
  TopSlices = 1
  TopPareto = 1
  TopCards = 2
  MinHours = 2
INVARIANTS
  SavedIsSaved FillsScreen OneVerdictPerAgent WidgetsAgree DeployedOnce
  KeyMeansPayload SourcesFollow CacheTransparent TotalsAddUp
PROPERTIES
  SavedTilesKept NeverGoBack SecretKept UndoneLeaves Converge
CHECK_DEADLOCK FALSE
