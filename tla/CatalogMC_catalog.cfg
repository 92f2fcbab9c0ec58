SPECIFICATION Spec
CONSTANTS
  DefaultStringColumnLength = 65535
  ProjectSeq <- MCProjects
  DatasetSeq <- MCDatasets
  TableSeq <- MCTables
  RoutineSeq <- MCRoutines
  TableInfo <- MCTableInfo
  RoutineInfo <- MCRoutineInfo
  Patterns <- MCPatterns
  UpperOf <- MCUpper
  CurrentCatalog = "p"
  Dsns <- MCDsns
  ThreadLimits = {0, 2}
  Calls <- MCCalls
  FirstTables <- MCFirst
  MaxCalls = 1
  MaxChanges = 1
  MaxFailures = 1
INVARIANTS
  TypeOK
  ExactListing
  ColumnsInOrder
  FailuresReported
  DescribedAlike
PROPERTIES
  CallEnds
CHECK_DEADLOCK FALSE
