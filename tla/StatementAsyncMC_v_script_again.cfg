SPECIFICATION Spec
CONSTANTS
  sel = sel
  dml = dml
  script = script
  t1 = t1
  t2 = t2
  Query = {script}
  StatementType <- MCStatementType
  ScriptJobs <- MCScriptJobs
  MaxChildren = 4
  Task = {t1}
  Caller = caller
  NoQuery = NoQuery
  NoTask = NoTask
  Moved = Moved
  Api <- OnlyExecDirect
  AsyncModes <- Off
  DriverManager = FALSE
INVARIANT
  OpenCursorIsTopChild
