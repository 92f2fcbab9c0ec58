SPECIFICATION Spec
CONSTANTS
  sel = sel
  dml = dml
  script = script
  t1 = t1
  t2 = t2
  Query = {sel}
  StatementType <- MCStatementType
  ScriptJobs <- MCScriptJobs
  MaxChildren = 0
  Task = {t1}
  Caller = caller
  NoQuery = NoQuery
  NoTask = NoTask
  Moved = Moved
  Api <- OnlyPrepare
  AsyncModes <- On
  DriverManager = TRUE
INVARIANT
  ErrorReported
