SPECIFICATION FairSpec
CONSTANTS
  sel = sel
  dml = dml
  script = script
  t1 = t1
  t2 = t2
  Query = {sel, dml, script}
  StatementType <- MCStatementType
  ScriptJobs <- MCScriptJobs
  MaxChildren = 3
  Task = {t1, t2}
  Caller = caller
  NoQuery = NoQuery
  NoTask = NoTask
  Moved = Moved
  Api <- ExecDirectApi
  AsyncModes <- Both
  DriverManager = TRUE
INVARIANTS
  PollNeverRestarts
  OneWorker
PROPERTY
  CallsReturn
